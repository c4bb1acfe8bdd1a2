--------------------------- MODULE CpplintProofs ---------------------------
(***************************************************************************)
(* Runs of cpplint.py, for every set of command lines and files: between   *)
(* two files the filters are those of the command line again, an error is  *)
(* printed unless a NOLINT, a filter or the confidence forbids it, a       *)
(* header that is included twice is reported, and no alternative of a      *)
(* conditional leaves anything on the stack of blocks.                     *)
(***************************************************************************)
EXTENDS Cpplint, SequenceLemmas

FilterList == Seq([sign : STRING, prefix : Seq(STRING)] \cup ToSet(DefaultFilters))
Countings == {"", "total", "toplevel", "detailed"}

Settings == [verbose : Int, filters : FilterList, backup : FilterList, counting : Countings,
             width : Int, extensions : SUBSET STRING]

\* The command line, as far as it has been read.
Parsed == [st : Settings, filters : FilterList, counting : Countings, exit : {-1, 0, 1}]

\* An option has a value of its kind.
OptionOK(o) ==
  /\ o.name = "filter" => o.val \in FilterList
  /\ o.name \in {"verbose", "linelength"} => o.val \in Int
  /\ o.name \in {"extensions", "headers"} => o.val \subseteq STRING

LEMMA OptionListIs ==
  ASSUME NEW s, OptionList(s)
  PROVE  /\ s \in Seq(ToSet(s)) /\ Len(s) \in Nat /\ DOMAIN s = 1 .. Len(s)
         /\ \A i \in 1 .. Len(s) : OptionOK(s[i])
<1>1. s \in Seq(ToSet(s))
  BY DEF OptionList
<1>2. Len(s) \in Nat /\ DOMAIN s = 1 .. Len(s)
  BY <1>1, IndicesOfSeq
<1>3. ASSUME NEW i \in 1 .. Len(s) PROVE OptionOK(s[i])
  <2>1. s[i] \in ToSet(s)
    BY <1>2, AnyOfIn DEF ToSet
  <2>2. \A S, T : \A x \in Seq(S) : x \in Seq(S \cup T)
    OBVIOUS
  <2>. QED
    BY <2>1, <2>2 DEF OptionList, OptionOK, FilterList
<1>. QED
  BY <1>1, <1>2, <1>3

\* The settings the program starts with.
LEMMA StartSettings ==
  DefaultFilters \in FilterList /\ CppLintState \in Settings
<1>. DEFINE f == Filter("-", <<"build", "include", "_alpha">>)
            S == [sign : STRING, prefix : Seq(STRING)]
<1>1. DefaultFilters \in FilterList
  <2>1. DefaultFilters = <<f>>
    BY DEF DefaultFilters
  <2>. HIDE DEF f, S
  <2>2. f \in ToSet(DefaultFilters)
    BY <2>1 DEF ToSet
  <2>3. <<f>> \in Seq(S \cup ToSet(DefaultFilters))
    BY <2>2
  <2>. QED
    BY <2>1, <2>3 DEF FilterList, S
<1>. QED
  BY <1>1, InputsAssumption DEF CppLintState, Settings, Countings

\* One option.
LEMMA OptionType ==
  ASSUME NEW p \in Parsed, NEW o, OptionOK(o)
  PROVE  Option(p, o) \in Parsed
<1>. DEFINE q == Option(p, o)
<1>1. CASE p.exit # -1
  <2>1. Option(p, o) = p
    BY <1>1 DEF Option
  <2>. QED
    BY <2>1
<1>2. CASE p.exit = -1 /\ o.name = "filter"
  <2>1. o.val \in FilterList
    BY <1>2 DEF OptionOK
  <2>. QED
    BY <1>2, <2>1 DEF Option, Parsed
<1>3. CASE p.exit = -1 /\ o.name = "verbose"
  <2>1. o.val \in Int
    BY <1>3 DEF OptionOK
  <2>. QED
    BY <1>3, <2>1 DEF Option, Parsed, Settings
<1>4. CASE p.exit = -1 /\ o.name = "linelength"
  <2>1. o.val \in Int
    BY <1>4 DEF OptionOK
  <2>. QED
    BY <1>4, <2>1 DEF Option, Parsed, Settings
<1>5. CASE p.exit = -1 /\ o.name \in {"extensions", "headers"}
  <2>1. o.val \subseteq STRING
    BY <1>5 DEF OptionOK
  <2>2. p.st.extensions \subseteq STRING
    BY DEF Parsed, Settings
  <2>3. q = [p EXCEPT !.st.extensions = o.val]
        \/ q = [p EXCEPT !.st.extensions = p.st.extensions \union o.val]
    BY <1>5 DEF Option
  <2>. HIDE DEF q
  <2>4. q \in Parsed
    BY <2>1, <2>2, <2>3 DEF Parsed, Settings
  <2>. QED
    BY <2>4 DEF q
<1>6. CASE p.exit = -1 /\ o.name \in {"help", "output"}
  BY <1>6 DEF Option, Parsed
<1>7. CASE p.exit = -1 /\ o.name = "counting"
  BY <1>7 DEF Option, Parsed, Countings
<1>8. CASE p.exit = -1 /\ o.name \notin {"help", "output", "verbose", "filter", "counting",
                                          "linelength", "extensions", "headers"}
  BY <1>8 DEF Option
<1>. QED
  BY <1>1, <1>2, <1>3, <1>4, <1>5, <1>6, <1>7, <1>8

LEMMA OptionIs ==
  ASSUME NEW p \in Parsed, NEW o, OptionOK(o), Option(p, o).exit = -1
  PROVE  /\ p.exit = -1
         /\ Option(p, o).filters = IF o.name = "filter" THEN o.val ELSE p.filters
         /\ Option(p, o).st.verbose = IF o.name = "verbose" THEN o.val ELSE p.st.verbose
<1>1. p.exit = -1
  BY DEF Option
<1>2. CASE o.name \in {"extensions", "headers"}
  BY <1>1, <1>2 DEF Option, Parsed, Settings
<1>3. CASE o.name \in {"filter", "verbose", "linelength"}
  BY <1>1, <1>3 DEF Option, Parsed, Settings
<1>4. CASE o.name \notin {"extensions", "headers", "filter", "verbose", "linelength"}
  BY <1>1, <1>4 DEF Option, Parsed, Settings
<1>. QED
  BY <1>1, <1>2, <1>3, <1>4

\* The options are read one by one.
LEMMA OptionsTurns ==
  ASSUME NEW s, OptionList(s), NEW b \in Parsed
  PROVE  \E K : /\ K[0] = b
                /\ \A i \in 1 .. Len(s) : K[i] = Option(K[i - 1], s[i])
                /\ \A i \in 0 .. Len(s) : K[i] \in Parsed
                /\ FoldLeft(Option, b, s) = K[Len(s)]
<1>. DEFINE n == Len(s)
            S == Parsed
            F == [x \in (1 .. n) \X S |-> Option(x[2], s[x[1]])]
            Val(g, T) == IF T = {} THEN b ELSE Option(g[T \ {Max(T)}], s[Max(T)])
            P == SUBSET (1 .. n)
<1>1. n \in Nat /\ DOMAIN s = 1 .. n
  BY OptionListIs
<1>2. b \in S
  OBVIOUS
<1>3. ASSUME NEW i \in 1 .. n, NEW a \in S
      PROVE  F[<<i, a>>] = Option(a, s[i]) /\ F[<<i, a>>] \in S
  <2>1. F[<<i, a>>] = Option(a, s[i])
    OBVIOUS
  <2>. QED
    BY <1>1, <2>1, OptionListIs, OptionType
<1>. HIDE DEF F
<1>4. PICK G : FoldOf(G, F, n, b, S)
  <2>1. FoldStep(F, n, S)
    BY <1>3 DEF FoldStep
  <2>. HIDE DEF n, S
  <2>. QED
    BY <1>1, <1>2, <2>1, FoldExists
<1>5. \A T \in P : T # {} => Max(T) \in 1 .. n /\ T \ {Max(T)} \in P
  BY <1>1, GreatestAndRest
<1>6. G = [T \in P |-> Val(G, T)] /\ \A T \in P : G[T] \in S
  <2>. HIDE DEF P, S
  <2>3. /\ G = [T \in P |-> IF T = {} THEN b ELSE F[<<Max(T), G[T \ {Max(T)}]>>]]
        /\ \A T \in P : G[T] \in S
    BY <1>4 DEF FoldOf, P
  <2>1. \A T \in P : G[T] = Val(G, T)
    BY <1>3, <1>5, <2>3
  <2>2. G = [T \in P |-> G[T]]
    BY <2>3
  <2>. QED
    BY <2>1, <2>2, <2>3
<1>. DEFINE g == CHOOSE f : f = [T \in P |-> Val(f, T)]
<1>7. g = [T \in P |-> Val(g, T)]
  BY <1>6
<1>8. FoldLeft(Option, b, s) = g[1 .. n]
  BY <1>1 DEF FoldLeft, MapThenFoldSet
<1>. HIDE DEF g
<1>9. \A T \in P : g[T] = Val(g, T)
  BY <1>7
<1>. DEFINE K == [i \in 0 .. n |-> g[1 .. i]]
<1>10. 1 .. 0 = {} /\ 1 .. 0 \in P /\ 0 \in 0 .. n /\ n \in 0 .. n
  BY <1>1
<1>11. K[0] = b /\ K[n] = g[1 .. n]
  BY <1>9, <1>10
<1>12. ASSUME NEW i \in 1 .. n PROVE K[i] = Option(K[i - 1], s[i]) /\ i \in 0 .. n /\ i - 1 \in 0 .. n
  <2>1. i \in 0 .. n /\ i - 1 \in 0 .. n
    BY <1>1
  <2>2. 1 .. i \in P /\ 1 .. i # {} /\ Max(1 .. i) = i /\ (1 .. i) \ {Max(1 .. i)} = 1 .. i - 1
    BY <1>1, FirstNumbers
  <2>3. g[1 .. i] = Option(g[1 .. i - 1], s[i])
    BY <1>9, <2>2
  <2>. QED
    BY <2>1, <2>3
<1>13. \A i \in 0 .. n : K[i] \in S
  <2>. DEFINE OK(i) == K[i] \in S
              Bad == {i \in 0 .. n : ~OK(i)}
  <2>1. OK(0)
    BY <1>2, <1>11
  <2>2. ASSUME NEW i \in 1 .. n, OK(i - 1) PROVE OK(i)
    <3>. HIDE DEF K, S
    <3>. QED
      BY <1>3, <1>12, <2>2, ZenonT(40)
  <2>3. CASE Bad # {}
    <3>1. Bad \in SUBSET Nat
      OBVIOUS
    <3>2. PICK k \in Bad : \A j \in Bad : k <= j
      BY <2>3, <3>1, LeastExists
    <3>. HIDE DEF OK
    <3>3. k # 0 /\ k \in 0 .. n
      BY <2>1, <3>2
    <3>4. k \in 1 .. n /\ k - 1 \in 0 .. n /\ ~(k <= k - 1)
      BY <1>1, <3>3
    <3>5. OK(k - 1)
      BY <3>2, <3>4
    <3>. QED
      BY <2>2, <3>2, <3>4, <3>5
  <2>. QED
    BY <2>3
<1>. HIDE DEF K
<1>. QED
  BY <1>8, <1>11, <1>12, <1>13

\* The value that the last of the first i options with a name gives.
LastGiven(s, i, name, default) ==
  LET I == {j \in 1 .. i : s[j].name = name} IN IF I = {} THEN default ELSE s[Max(I)].val

\* One more option.
LEMMA LastGivenNext ==
  ASSUME NEW s, NEW i \in Nat \ {0}, NEW name, NEW default
  PROVE  LastGiven(s, i, name, default) = IF s[i].name = name THEN s[i].val
                                          ELSE LastGiven(s, i - 1, name, default)
<1>. DEFINE I == {j \in 1 .. i : s[j].name = name}
            H == {j \in 1 .. i - 1 : s[j].name = name}
<1>1. CASE s[i].name = name
  <2>1. i \in I /\ I \in SUBSET Int /\ \A j \in I : i >= j
    BY <1>1
  <2>. HIDE DEF I
  <2>2. Max(I) = i
    BY <2>1, MaxIs
  <2>. QED
    BY <1>1, <2>1, <2>2 DEF LastGiven, I
<1>2. CASE s[i].name # name
  <2>1. I = H
    <3>1. ASSUME NEW j \in I PROVE j \in H
      <4>1. j # i
        BY <1>2
      <4>. QED
        BY <4>1
    <3>2. H \subseteq I
      OBVIOUS
    <3>. QED
      BY <3>1, <3>2
  <2>. QED
    BY <1>2, <2>1 DEF LastGiven
<1>. QED
  BY <1>1, <1>2

LEMMA LastGivenNone ==
  ASSUME NEW s, NEW name, NEW default
  PROVE  LastGiven(s, 0, name, default) = default
BY DEF LastGiven

\* What has been read of a command line that goes on.
ReadSoFar(p, s, i) ==
  p.exit = -1 => /\ p.filters = LastGiven(s, i, "filter", <<>>)
                 /\ p.st.verbose = LastGiven(s, i, "verbose", 1)

\* The command line as a whole.
LEMMA OptionsRead ==
  ASSUME NEW s, OptionList(s), NEW b \in Parsed, ReadSoFar(b, s, 0)
  PROVE  FoldLeft(Option, b, s) \in Parsed /\ ReadSoFar(FoldLeft(Option, b, s), s, Len(s))
<1>. DEFINE n == Len(s)
<1>1. PICK K : /\ K[0] = b
               /\ \A i \in 1 .. n : K[i] = Option(K[i - 1], s[i])
               /\ \A i \in 0 .. n : K[i] \in Parsed
               /\ FoldLeft(Option, b, s) = K[n]
  BY OptionsTurns
<1>2. n \in Nat /\ \A i \in 1 .. n : OptionOK(s[i])
  BY OptionListIs
<1>. DEFINE OK(i) == ReadSoFar(K[i], s, i)
            Bad == {i \in 0 .. n : ~OK(i)}
<1>. HIDE DEF n
<1>3. OK(0)
  BY <1>1
<1>4. ASSUME NEW i \in 1 .. n, OK(i - 1) PROVE OK(i)
  <2>1. i \in Nat \ {0} /\ i - 1 \in 0 .. n /\ K[i - 1] \in Parsed
    BY <1>1, <1>2
  <2>2. K[i] = Option(K[i - 1], s[i]) /\ OptionOK(s[i])
    BY <1>1, <1>2
  <2>3. SUFFICES ASSUME K[i].exit = -1
                 PROVE  /\ K[i].filters = LastGiven(s, i, "filter", <<>>)
                        /\ K[i].st.verbose = LastGiven(s, i, "verbose", 1)
    BY DEF ReadSoFar
  <2>4. /\ K[i - 1].exit = -1
        /\ K[i].filters = IF s[i].name = "filter" THEN s[i].val ELSE K[i - 1].filters
        /\ K[i].st.verbose = IF s[i].name = "verbose" THEN s[i].val ELSE K[i - 1].st.verbose
    BY <2>1, <2>2, <2>3, OptionIs
  <2>5. /\ K[i - 1].filters = LastGiven(s, i - 1, "filter", <<>>)
        /\ K[i - 1].st.verbose = LastGiven(s, i - 1, "verbose", 1)
    BY <1>4, <2>4 DEF ReadSoFar
  <2>6. LastGiven(s, i, "filter", <<>>) = IF s[i].name = "filter" THEN s[i].val
                                          ELSE LastGiven(s, i - 1, "filter", <<>>)
    BY <2>1, LastGivenNext
  <2>7. LastGiven(s, i, "verbose", 1) = IF s[i].name = "verbose" THEN s[i].val
                                        ELSE LastGiven(s, i - 1, "verbose", 1)
    BY <2>1, LastGivenNext
  <2>. QED
    BY <2>4, <2>5, <2>6, <2>7
<1>5. \A i \in 0 .. n : OK(i)
  <2>1. CASE Bad # {}
    <3>1. Bad \in SUBSET Nat
      OBVIOUS
    <3>2. PICK k \in Bad : \A j \in Bad : k <= j
      BY <2>1, <3>1, LeastExists
    <3>. HIDE DEF OK
    <3>3. k # 0 /\ k \in 0 .. n
      BY <1>3, <3>2
    <3>4. k \in 1 .. n /\ k - 1 \in 0 .. n /\ ~(k <= k - 1)
      BY <1>2, <3>3
    <3>5. OK(k - 1)
      BY <3>2, <3>4
    <3>. QED
      BY <1>4, <3>2, <3>4, <3>5
  <2>. QED
    BY <2>1
<1>6. n \in 0 .. n
  BY <1>2
<1>7. K[n] \in Parsed /\ OK(n)
  BY <1>1, <1>5, <1>6
<1>. QED
  BY <1>1, <1>7 DEF n

\* What the command line sets, when the program goes on.
SetByOptions(now, s) ==
  /\ now \in Settings
  /\ now.filters = DefaultFilters \o LastGiven(s, Len(s), "filter", <<>>)
  /\ now.verbose = LastGiven(s, Len(s), "verbose", 1)

LEMMA CommandRead ==
  ASSUME NEW s, OptionList(s), NEW files
  PROVE  /\ ParseCommand(s, files).st \in Settings
         /\ ParseCommand(s, files).exit = -1 => SetByOptions(ParseCommand(s, files).st, s)
<1>. DEFINE b == [st |-> CppLintState, filters |-> <<>>, counting |-> "", exit |-> -1]
            p == FoldLeft(Option, b, s)
            now == [SetFilters(p.st, p.filters) EXCEPT !.counting = p.counting]
            q == ParseCommand(s, files)
<1>1. b \in Parsed /\ ReadSoFar(b, s, 0)
  <2>1. CppLintState \in Settings /\ CppLintState.verbose = 1
    BY StartSettings DEF CppLintState
  <2>2. <<>> \in FilterList
    BY DEF FilterList
  <2>3. b \in Parsed
    <3>. HIDE DEF FilterList
    <3>. QED
      BY <2>1, <2>2 DEF Parsed, Countings
  <2>4. b.st.verbose = LastGiven(s, 0, "verbose", 1) /\ b.filters = LastGiven(s, 0, "filter", <<>>)
    BY <2>1, LastGivenNone
  <2>. QED
    BY <2>3, <2>4 DEF ReadSoFar
<1>. HIDE DEF b
<1>2. p \in Parsed /\ ReadSoFar(p, s, Len(s))
  BY <1>1, OptionsRead
<1>3. \/ q = [st |-> p.st, exit |-> 1]
      \/ q = [st |-> p.st, exit |-> p.exit] /\ p.exit # -1
      \/ q = [st |-> now, exit |-> -1] /\ p.exit = -1
  BY DEF ParseCommand, b
<1>. HIDE DEF p
<1>4. /\ now \in Settings /\ now.filters = DefaultFilters \o p.filters
      /\ now.verbose = p.st.verbose
  <2>1. /\ p.st \in Settings /\ p.filters \in FilterList /\ p.counting \in Countings
        /\ DefaultFilters \in FilterList
    BY <1>2, StartSettings DEF Parsed
  <2>2. DefaultFilters \o p.filters \in FilterList
    BY <2>1 DEF FilterList
  <2>3. now = [p.st EXCEPT !.filters = DefaultFilters \o p.filters, !.counting = p.counting]
    BY <2>1 DEF SetFilters, AddFilters, Settings
  <2>. HIDE DEF now
  <2>. QED
    BY <2>1, <2>2, <2>3 DEF Settings
<1>5. p.st \in Settings
  BY <1>2 DEF Parsed
<1>. HIDE DEF now, q
<1>6. q.st \in Settings /\ (q.exit = -1 => q.st = now /\ p.exit = -1)
  BY <1>3, <1>4, <1>5
<1>7. q.exit = -1 => SetByOptions(q.st, s)
  BY <1>2, <1>4, <1>6 DEF SetByOptions, ReadSoFar
<1>. QED
  BY <1>6, <1>7 DEF q

\* A configuration under way, with filters and verbosity as they were.
Configuring(now) ==
  {c \in [st : Settings, filters : FilterList, looking : BOOLEAN, excluded : BOOLEAN] :
      /\ c.st.filters = now.filters /\ c.st.backup = now.backup
      /\ c.st.verbose = now.verbose /\ c.st.counting = now.counting}

LEMMA ConfigOptionType ==
  ASSUME NEW now, NEW c \in Configuring(now), NEW o, OptionOK(o), NEW base
  PROVE  ConfigOption(c, o, base) \in Configuring(now)
<1>. DEFINE d == ConfigOption(c, o, base)
<1>1. CASE c.excluded
  BY <1>1 DEF ConfigOption
<1>2. CASE ~c.excluded /\ o.name = "filter"
  <2>1. o.val \in FilterList /\ c.filters \in FilterList
    BY <1>2 DEF OptionOK, Configuring
  <2>2. o.val \o c.filters \in FilterList
    BY <2>1 DEF FilterList
  <2>3. d = [c EXCEPT !.filters = o.val \o c.filters]
    BY <1>2 DEF ConfigOption
  <2>. HIDE DEF d
  <2>4. d \in Configuring(now)
    BY <2>2, <2>3 DEF Configuring
  <2>. QED
    BY <2>4 DEF d
<1>3. CASE ~c.excluded /\ o.name = "linelength"
  <2>1. o.val \in Int
    BY <1>3 DEF OptionOK
  <2>2. d = c \/ d = [c EXCEPT !.st.width = o.val]
    BY <1>3 DEF ConfigOption
  <2>. HIDE DEF d
  <2>3. d \in Configuring(now)
    BY <2>1, <2>2 DEF Configuring, Settings
  <2>. QED
    BY <2>3 DEF d
<1>4. CASE ~c.excluded /\ o.name = "headers"
  <2>1. o.val \subseteq STRING /\ c.st.extensions \subseteq STRING
    BY <1>4 DEF OptionOK, Configuring, Settings
  <2>2. d = [c EXCEPT !.st.extensions = c.st.extensions \union o.val]
    BY <1>4 DEF ConfigOption
  <2>. HIDE DEF d
  <2>3. d \in Configuring(now)
    BY <2>1, <2>2 DEF Configuring, Settings
  <2>. QED
    BY <2>3 DEF d
<1>5. CASE ~c.excluded /\ o.name \in {"set noparent", "exclude_files"}
  <2>1. d = [c EXCEPT !.looking = FALSE] \/ d = [c EXCEPT !.excluded = (base \in o.val)]
    BY <1>5 DEF ConfigOption
  <2>2. (base \in o.val) \in BOOLEAN
    OBVIOUS
  <2>. DEFINE e == (base \in o.val)
  <2>. HIDE DEF d, e
  <2>3. d \in Configuring(now)
    BY <2>1, <2>2 DEF Configuring, e
  <2>. QED
    BY <2>3 DEF d
<1>6. CASE ~c.excluded /\ o.name \notin {"filter", "linelength", "headers", "set noparent",
                                         "exclude_files"}
  BY <1>6 DEF ConfigOption
<1>. QED
  BY <1>1, <1>2, <1>3, <1>4, <1>5, <1>6

\* The lines of one configuration file.
ConfigRead(c, s, base) == FoldLeft(LAMBDA d, o : ConfigOption(d, o, base), c, s)

\* They are read one by one.
LEMMA ConfigTurns ==
  ASSUME NEW now, NEW base, NEW s, OptionList(s), NEW c \in Configuring(now)
  PROVE  \E K : /\ K[0] = c
                /\ \A i \in 1 .. Len(s) : K[i] = ConfigOption(K[i - 1], s[i], base)
                /\ \A i \in 0 .. Len(s) : K[i] \in Configuring(now)
                /\ ConfigRead(c, s, base) = K[Len(s)]
<1>. DEFINE n == Len(s)
            S == Configuring(now)
            F == [x \in (1 .. n) \X S |-> ConfigOption(x[2], s[x[1]], base)]
            Val(g, T) == IF T = {} THEN c ELSE ConfigOption(g[T \ {Max(T)}], s[Max(T)], base)
            P == SUBSET (1 .. n)
<1>1. n \in Nat /\ DOMAIN s = 1 .. n
  BY OptionListIs
<1>2. c \in S
  OBVIOUS
<1>3. ASSUME NEW i \in 1 .. n, NEW a \in S
      PROVE  F[<<i, a>>] = ConfigOption(a, s[i], base) /\ F[<<i, a>>] \in S
  <2>1. F[<<i, a>>] = ConfigOption(a, s[i], base)
    OBVIOUS
  <2>. QED
    BY <1>1, <2>1, OptionListIs, ConfigOptionType
<1>. HIDE DEF F
<1>4. PICK G : FoldOf(G, F, n, c, S)
  <2>1. FoldStep(F, n, S)
    BY <1>3 DEF FoldStep
  <2>. HIDE DEF n, S
  <2>. QED
    BY <1>1, <1>2, <2>1, FoldExists
<1>5. \A T \in P : T # {} => Max(T) \in 1 .. n /\ T \ {Max(T)} \in P
  BY <1>1, GreatestAndRest
<1>6. G = [T \in P |-> Val(G, T)] /\ \A T \in P : G[T] \in S
  <2>. HIDE DEF P, S
  <2>3. /\ G = [T \in P |-> IF T = {} THEN c ELSE F[<<Max(T), G[T \ {Max(T)}]>>]]
        /\ \A T \in P : G[T] \in S
    BY <1>4 DEF FoldOf, P
  <2>1. \A T \in P : G[T] = Val(G, T)
    BY <1>3, <1>5, <2>3
  <2>2. G = [T \in P |-> G[T]]
    BY <2>3
  <2>. QED
    BY <2>1, <2>2, <2>3
<1>. DEFINE g == CHOOSE f : f = [T \in P |-> Val(f, T)]
<1>7. g = [T \in P |-> Val(g, T)]
  BY <1>6
<1>8. ConfigRead(c, s, base) = g[1 .. n]
  BY <1>1 DEF ConfigRead, FoldLeft, MapThenFoldSet
<1>. HIDE DEF g
<1>9. \A T \in P : g[T] = Val(g, T)
  BY <1>7
<1>. DEFINE K == [i \in 0 .. n |-> g[1 .. i]]
<1>10. 1 .. 0 = {} /\ 1 .. 0 \in P /\ 0 \in 0 .. n /\ n \in 0 .. n
  BY <1>1
<1>11. K[0] = c /\ K[n] = g[1 .. n]
  BY <1>9, <1>10
<1>12. ASSUME NEW i \in 1 .. n PROVE K[i] = ConfigOption(K[i - 1], s[i], base) /\ i \in 0 .. n /\ i - 1 \in 0 .. n
  <2>1. i \in 0 .. n /\ i - 1 \in 0 .. n
    BY <1>1
  <2>2. 1 .. i \in P /\ 1 .. i # {} /\ Max(1 .. i) = i /\ (1 .. i) \ {Max(1 .. i)} = 1 .. i - 1
    BY <1>1, FirstNumbers
  <2>3. g[1 .. i] = ConfigOption(g[1 .. i - 1], s[i], base)
    BY <1>9, <2>2
  <2>. QED
    BY <2>1, <2>3
<1>13. \A i \in 0 .. n : K[i] \in S
  <2>. DEFINE OK(i) == K[i] \in S
              Bad == {i \in 0 .. n : ~OK(i)}
  <2>1. OK(0)
    BY <1>2, <1>11
  <2>2. ASSUME NEW i \in 1 .. n, OK(i - 1) PROVE OK(i)
    <3>. HIDE DEF K, S
    <3>. QED
      BY <1>3, <1>12, <2>2, ZenonT(40)
  <2>3. CASE Bad # {}
    <3>1. Bad \in SUBSET Nat
      OBVIOUS
    <3>2. PICK k \in Bad : \A j \in Bad : k <= j
      BY <2>3, <3>1, LeastExists
    <3>. HIDE DEF OK
    <3>3. k # 0 /\ k \in 0 .. n
      BY <2>1, <3>2
    <3>4. k \in 1 .. n /\ k - 1 \in 0 .. n /\ ~(k <= k - 1)
      BY <1>1, <3>3
    <3>5. OK(k - 1)
      BY <3>2, <3>4
    <3>. QED
      BY <2>2, <3>2, <3>4, <3>5
  <2>. QED
    BY <2>3
<1>. HIDE DEF K
<1>. QED
  BY <1>8, <1>11, <1>12, <1>13

\* The configuration files of a disk.
ConfigsOK(configs) ==
  \A d \in DOMAIN configs : configs[d].readable \in BOOLEAN /\ OptionList(configs[d].options)

LEMMA ConfigFileType ==
  ASSUME NEW now, NEW c \in Configuring(now), NEW configs, ConfigsOK(configs), NEW here, NEW base
  PROVE  ProcessConfigFile(c, configs, here, base) \in Configuring(now)
<1>1. CASE ~c.looking \/ c.excluded \/ here \notin DOMAIN configs
  BY <1>1 DEF ProcessConfigFile
<1>2. CASE c.looking /\ ~c.excluded /\ here \in DOMAIN configs /\ ~configs[here].readable
  <2>1. ProcessConfigFile(c, configs, here, base) = [c EXCEPT !.looking = FALSE]
    BY <1>2 DEF ProcessConfigFile
  <2>. QED
    BY <2>1 DEF Configuring
<1>3. CASE c.looking /\ ~c.excluded /\ here \in DOMAIN configs /\ configs[here].readable
  <2>1. ProcessConfigFile(c, configs, here, base) = ConfigRead(c, configs[here].options, base)
    BY <1>3 DEF ProcessConfigFile, ConfigRead
  <2>2. OptionList(configs[here].options)
    BY <1>3 DEF ConfigsOK
  <2>. DEFINE s == configs[here].options
  <2>3. Len(s) \in Nat
    BY <2>2, OptionListIs
  <2>. HIDE DEF s
  <2>4. PICK K : /\ K[0] = c
                 /\ \A i \in 1 .. Len(s) : K[i] = ConfigOption(K[i - 1], s[i], base)
                 /\ \A i \in 0 .. Len(s) : K[i] \in Configuring(now)
                 /\ ConfigRead(c, s, base) = K[Len(s)]
    <3>1. OptionList(s)
      BY <2>2 DEF s
    <3>. QED
      BY <3>1, ConfigTurns
  <2>5. Len(s) \in 0 .. Len(s)
    BY <2>3
  <2>. QED
    BY <2>1, <2>4, <2>5 DEF s
<1>. QED
  BY <1>1, <1>2, <1>3

\* What the k-th directory above a file adds, and the whole way up.
ConfigStep(c, configs, dir, name, k) ==
  ProcessConfigFile(c, configs, SubSeq(dir, 1, Len(dir) + 1 - k),
                    IF k = 1 THEN name ELSE dir[Len(dir) + 1 - k + 1])

ConfigStart(now) == [st |-> now, filters |-> <<>>, looking |-> TRUE, excluded |-> FALSE]

Configured(c) == [st |-> IF c.excluded THEN c.st ELSE AddFilters(c.st, c.filters),
                  excluded |-> c.excluded]

\* The states K of the configuration on the way up.
Climbs(K, t, dir, name, configs) ==
  /\ K[0] = ConfigStart(t)
  /\ \A k \in 1 .. Len(dir) + 1 : K[k] = ConfigStep(K[k - 1], configs, dir, name, k)
  /\ \A k \in 0 .. Len(dir) + 1 : K[k] \in Configuring(t)
  /\ ProcessConfigOverrides(t, dir, name, configs) = Configured(K[Len(dir) + 1])

LEMMA WayUp ==
  ASSUME NEW t \in Settings, NEW dir, Len(dir) \in Nat, NEW name, NEW configs, ConfigsOK(configs)
  PROVE  \E K : Climbs(K, t, dir, name, configs)
<1>. DEFINE n == Len(dir) + 1
            S == Configuring(t)
            F == [x \in (1 .. n) \X S |-> ConfigStep(x[2], configs, dir, name, x[1])]
            b == ConfigStart(t)
            g == CHOOSE f : f = [k \in 0 .. n |-> IF k = 0 THEN b
                                  ELSE ConfigStep(f[k - 1], configs, dir, name, k)]
<1>1. n \in Nat /\ n = Len(dir) + 1
  OBVIOUS
<1>2. b \in S
  <2>1. <<>> \in FilterList
    BY DEF FilterList
  <2>. HIDE DEF FilterList
  <2>. QED
    BY <2>1 DEF ConfigStart, Configuring
<1>3. ASSUME NEW i \in 1 .. n, NEW a \in S
      PROVE  F[<<i, a>>] = ConfigStep(a, configs, dir, name, i) /\ F[<<i, a>>] \in S
  <2>1. F[<<i, a>>] = ConfigStep(a, configs, dir, name, i)
    OBVIOUS
  <2>. QED
    BY <2>1, ConfigFileType DEF ConfigStep
<1>. HIDE DEF F
<1>4. FoldStep(F, n, S)
  BY <1>3 DEF FoldStep
<1>5. PICK h : /\ h = [i \in 0 .. n |-> IF i = 0 THEN b ELSE F[<<i, h[i - 1]>>]]
               /\ \A i \in 0 .. n : h[i] \in S
  <2>. HIDE DEF n, S, b
  <2>. QED
    BY <1>1, <1>2, <1>4, TurnsExist
<1>6. h = [k \in 0 .. n |-> IF k = 0 THEN b ELSE ConfigStep(h[k - 1], configs, dir, name, k)]
  <2>1. \A k \in 0 .. n : k # 0 => k \in 1 .. n /\ k - 1 \in 0 .. n
    BY <1>1
  <2>. HIDE DEF n, S, b
  <2>2. \A k \in 0 .. n : h[k] = IF k = 0 THEN b ELSE ConfigStep(h[k - 1], configs, dir, name, k)
    BY <1>3, <1>5, <2>1
  <2>3. h = [k \in 0 .. n |-> h[k]]
    BY <1>5
  <2>. QED
    BY <2>2, <2>3
<1>7. g = [k \in 0 .. n |-> IF k = 0 THEN b ELSE ConfigStep(g[k - 1], configs, dir, name, k)]
  BY <1>6
<1>8. ProcessConfigOverrides(t, dir, name, configs) = Configured(g[n])
  BY DEF ProcessConfigOverrides, Configured, ConfigStep, ConfigStart
<1>. HIDE DEF g
<1>9. /\ g[0] = b
      /\ \A k \in 1 .. n : g[k] = ConfigStep(g[k - 1], configs, dir, name, k)
  <2>1. 0 \in 0 .. n /\ \A k \in 1 .. n : k \in 0 .. n /\ k # 0
    BY <1>1
  <2>. HIDE DEF n, b
  <2>. QED
    BY <1>7, <2>1
<1>. DEFINE OK(i) == g[i] \in S
            Bad == {i \in 0 .. n : ~OK(i)}
<1>10. OK(0)
  BY <1>2, <1>9
<1>11. ASSUME NEW i \in 1 .. n, OK(i - 1) PROVE OK(i)
  <2>. HIDE DEF S, n
  <2>. QED
    BY <1>3, <1>9, <1>11
<1>12. ASSUME Bad # {} PROVE FALSE
  <2>1. Bad \in SUBSET Nat
    OBVIOUS
  <2>2. PICK k \in Bad : \A j \in Bad : k <= j
    BY <1>12, <2>1, LeastExists
  <2>. HIDE DEF OK, n
  <2>3. k # 0 /\ k \in 0 .. n
    BY <1>10, <2>2
  <2>4. k \in 1 .. n /\ k - 1 \in 0 .. n /\ ~(k <= k - 1)
    BY <1>1, <2>3
  <2>5. OK(k - 1)
    BY <2>2, <2>4
  <2>. QED
    BY <1>11, <2>2, <2>4, <2>5
<1>13. \A i \in 0 .. n : g[i] \in S
  <2>1. \A i \in 0 .. n : OK(i)
    <3>. HIDE DEF OK
    <3>. QED
      BY <1>12
  <2>. QED
    BY <2>1
<1>. HIDE DEF g
<1>. QED
  BY <1>8, <1>9, <1>13 DEF Climbs

-----------------------------------------------------------------------------
\* The input has the form that is assumed.
InputOK ==
  /\ OptionList(command.options)
  /\ command.files \in Seq(DOMAIN Path)
  /\ \A f \in ToSet(command.files) : Path[f].dir \in Seq(STRING)
  /\ ConfigsOK(disk.configs)
  /\ \A f \in DOMAIN disk.files : FileLines(disk.files[f].lines)

LEMMA InputInit ==
  ASSUME Init
  PROVE  InputOK
BY InputsAssumption DEF Init, InputOK, ConfigsOK

\* Inputs do not change.
LEMMA InputStays ==
  ASSUME Next
  PROVE  command' = command /\ disk' = disk
BY DEF Next, ParseArguments, Configure, OpenFile, ProcessLine, FinishFile, Finish

\* The settings between two files and while a file is checked.
SettingsInv ==
  /\ st \in Settings
  /\ todo \in Seq(ToSet(command.files))
  /\ phase \in {"arguments", "next", "open", "lines", "ended"}
  /\ phase = "next" => SetByOptions(st, command.options)
  /\ phase \in {"open", "lines"} =>
        /\ todo # <<>>
        /\ SetByOptions(RestoreFilters(st), command.options)

LEMMA SettingsInit ==
  ASSUME Init
  PROVE  SettingsInv
<1>1. st \in Settings /\ todo = <<>> /\ phase = "arguments"
  BY StartSettings DEF Init
<1>. QED
  BY <1>1 DEF SettingsInv

\* Settings as they were, but for what a configuration may change.
LEMMA RestoreIs ==
  ASSUME NEW t \in Settings
  PROVE  /\ RestoreFilters(t) \in Settings /\ RestoreFilters(t).filters = t.backup
         /\ RestoreFilters(t).verbose = t.verbose
         /\ BackupFilters(t) \in Settings /\ BackupFilters(t).backup = t.filters
         /\ BackupFilters(t).filters = t.filters /\ BackupFilters(t).verbose = t.verbose
BY DEF RestoreFilters, BackupFilters, Settings

LEMMA OverridesKeep ==
  ASSUME NEW t \in Settings, NEW dir, Len(dir) \in Nat, NEW name, NEW configs, ConfigsOK(configs)
  PROVE  LET c == ProcessConfigOverrides(BackupFilters(t), dir, name, configs)
         IN  /\ c.st \in Settings
             /\ c.st.backup = t.filters /\ c.st.verbose = t.verbose
<1>. DEFINE b == BackupFilters(t)
            c == ProcessConfigOverrides(b, dir, name, configs)
            n == Len(dir) + 1
<1>1. b \in Settings /\ b.backup = t.filters /\ b.verbose = t.verbose
  BY RestoreIs
<1>. HIDE DEF b
<1>2. PICK K : Climbs(K, b, dir, name, configs)
  BY <1>1, WayUp
<1>3. n \in 0 .. n
  OBVIOUS
<1>. HIDE DEF n, c
<1>4. K[n] \in Configuring(b) /\ c = Configured(K[n])
  BY <1>2, <1>3 DEF Climbs, n, c
<1>. DEFINE k == K[n]
<1>. HIDE DEF k
<1>5. /\ k.st \in Settings /\ k.filters \in FilterList
      /\ k.st.backup = t.filters /\ k.st.verbose = t.verbose
  BY <1>1, <1>4 DEF Configuring, k
<1>6. c.st = k.st \/ c.st = AddFilters(k.st, k.filters)
  BY <1>4 DEF Configured, k
<1>7. /\ AddFilters(k.st, k.filters) \in Settings
      /\ AddFilters(k.st, k.filters).backup = t.filters
      /\ AddFilters(k.st, k.filters).verbose = t.verbose
  <2>1. k.st.filters \o k.filters \in FilterList
    BY <1>5 DEF FilterList, Settings
  <2>2. AddFilters(k.st, k.filters) = [k.st EXCEPT !.filters = k.st.filters \o k.filters]
    BY DEF AddFilters
  <2>. QED
    BY <1>5, <2>1, <2>2 DEF Settings
<1>8. c.st \in Settings /\ c.st.backup = t.filters /\ c.st.verbose = t.verbose
  BY <1>5, <1>6, <1>7
<1>. QED
  BY <1>8 DEF c, b

\* Files are taken off the list one by one.
LEMMA TodoNext ==
  ASSUME InputOK, SettingsInv, todo # <<>>
  PROVE  /\ Tail(todo) \in Seq(ToSet(command.files))
         /\ Head(todo) \in ToSet(command.files)
         /\ Len(Path[Head(todo)].dir) \in Nat
<1>1. todo \in Seq(ToSet(command.files))
  BY DEF SettingsInv
<1>2. Tail(todo) \in Seq(ToSet(command.files)) /\ Head(todo) \in ToSet(command.files)
  BY <1>1
<1>3. Path[Head(todo)].dir \in Seq(STRING)
  BY <1>2 DEF InputOK
<1>. QED
  BY <1>2, <1>3, LenProperties

LEMMA SettingsNext ==
  ASSUME InputOK, SettingsInv, Next
  PROVE  SettingsInv'
<1>. DEFINE O == command.options
<1>1. command' = command /\ disk' = disk
  BY InputStays
<1>2. ASSUME st' \in Settings, todo' \in Seq(ToSet(command.files)),
             phase' \in {"arguments", "next", "open", "lines", "ended"},
             phase' = "next" => SetByOptions(st', O),
             phase' \in {"open", "lines"} => todo' # <<>> /\ SetByOptions(RestoreFilters(st'), O)
      PROVE  SettingsInv'
  BY <1>1, <1>2 DEF SettingsInv, SetByOptions, LastGiven, RestoreFilters
<1>3. CASE ParseArguments
  <2>. DEFINE p == ParseCommand(O, command.files)
  <2>1. p.st \in Settings /\ (p.exit = -1 => SetByOptions(p.st, O))
    BY CommandRead DEF InputOK
  <2>2. command.files \in Seq(ToSet(command.files))
    <3>1. command.files \in Seq(DOMAIN Path)
      BY DEF InputOK
    <3>2. Len(command.files) \in Nat /\ DOMAIN command.files = 1 .. Len(command.files)
      BY <3>1, IndicesOfSeq
    <3>3. \A i \in DOMAIN command.files : command.files[i] \in ToSet(command.files)
      BY DEF ToSet
    <3>4. command.files = [i \in 1 .. Len(command.files) |-> command.files[i]]
      BY <3>1, <3>2
    <3>. QED
      BY <3>2, <3>3, <3>4, FunctionIsSeq
  <2>3. /\ st' = p.st /\ todo' = command.files
        /\ \/ p.exit = -1 /\ phase' = "next"
           \/ phase' = "ended"
    BY <1>3 DEF ParseArguments, Exit
  <2>. HIDE DEF p, O
  <2>. QED
    BY <1>2, <2>1, <2>2, <2>3
<1>4. CASE Configure
  <2>. DEFINE name == Head(todo)
              c == ProcessConfigOverrides(BackupFilters(st), Path[name].dir, name, disk.configs)
  <2>1. phase = "next" /\ todo # <<>> /\ SetByOptions(st, O) /\ st \in Settings
    BY <1>4 DEF Configure, SettingsInv
  <2>2. /\ Tail(todo) \in Seq(ToSet(command.files)) /\ todo \in Seq(ToSet(command.files))
        /\ Len(Path[name].dir) \in Nat
    BY <2>1, TodoNext DEF SettingsInv
  <2>3. c.st \in Settings /\ c.st.backup = st.filters /\ c.st.verbose = st.verbose
    BY <2>1, <2>2, OverridesKeep DEF InputOK
  <2>4. \/ st' = RestoreFilters(c.st) /\ todo' = Tail(todo) /\ phase' = phase
        \/ st' = c.st /\ phase' = "ended" /\ todo' = todo
        \/ st' = c.st /\ phase' = "open" /\ todo' = todo
    BY <1>4 DEF Configure, Exit
  <2>. HIDE DEF c
  <2>5. /\ RestoreFilters(c.st) \in Settings /\ RestoreFilters(c.st).filters = st.filters
        /\ RestoreFilters(c.st).verbose = st.verbose
    BY <2>3, RestoreIs
  <2>6. SetByOptions(RestoreFilters(c.st), O)
    BY <2>1, <2>5 DEF SetByOptions
  <2>. HIDE DEF O
  <2>. QED
    BY <1>2, <2>1, <2>2, <2>3, <2>4, <2>5, <2>6
<1>5. ASSUME phase \in {"open", "lines"}, Leave
      PROVE  SettingsInv'
  <2>1. /\ st \in Settings /\ todo # <<>> /\ SetByOptions(RestoreFilters(st), O)
        /\ st' = RestoreFilters(st) /\ todo' = Tail(todo) /\ phase' = "next"
    BY <1>5 DEF SettingsInv, Leave
  <2>2. Tail(todo) \in Seq(ToSet(command.files)) /\ RestoreFilters(st) \in Settings
    BY <2>1, TodoNext, RestoreIs
  <2>. HIDE DEF O
  <2>. QED
    BY <1>2, <2>1, <2>2
<1>6. ASSUME phase \in {"open", "lines"}, phase' = "lines", UNCHANGED <<todo, st>>
      PROVE  SettingsInv'
  <2>. HIDE DEF O
  <2>. QED
    BY <1>2, <1>6 DEF SettingsInv, O
<1>7. CASE OpenFile
  BY <1>5, <1>6, <1>7 DEF OpenFile
<1>8. CASE ProcessLine
  BY <1>6, <1>8 DEF ProcessLine
<1>9. CASE FinishFile
  BY <1>5, <1>9 DEF FinishFile
<1>10. CASE Finish
  BY <1>2, <1>10 DEF Finish, Exit, SettingsInv
<1>. QED
  BY <1>3, <1>4, <1>7, <1>8, <1>9, <1>10 DEF Next

\* What the last of all options with a name gives.
LEMMA GivenIs ==
  ASSUME InputOK, NEW name, NEW default
  PROVE  Given(name, default) = LastGiven(command.options, Len(command.options), name, default)
<1>1. DOMAIN command.options = 1 .. Len(command.options)
  BY OptionListIs DEF InputOK
<1>. QED
  BY <1>1 DEF Given, LastGiven

SettingsAgree == InputOK /\ SettingsInv

LEMMA SettingsAlways ==
  Spec => []SettingsAgree
<1>1. Init => SettingsAgree
  BY InputInit, SettingsInit DEF SettingsAgree
<1>2. SettingsAgree /\ [Next]_vars => SettingsAgree'
  <2>1. SUFFICES ASSUME SettingsAgree, [Next]_vars
                 PROVE  SettingsAgree'
    OBVIOUS
  <2>2. CASE Next
    <3>1. InputOK'
      BY <2>1, <2>2, InputStays DEF SettingsAgree, InputOK
    <3>. QED
      BY <2>1, <2>2, <3>1, SettingsNext DEF SettingsAgree
  <2>3. CASE UNCHANGED vars
    BY <2>1, <2>3 DEF vars, SettingsAgree, InputOK, SettingsInv
  <2>. QED
    BY <2>1, <2>2, <2>3
<1>. QED
  BY <1>1, <1>2, PTL DEF Spec

\* Between two files the filters are those of the command line again, for
\* every set of inputs (BackupFilters, RestoreFilters).
THEOREM FiltersAlwaysAsGiven ==
  Spec => []FiltersAsGiven
<1>1. SettingsAgree => FiltersAsGiven
  <2>1. SUFFICES ASSUME SettingsAgree, phase = "next"
                 PROVE  st.filters = DefaultFilters \o Given("filter", <<>>)
    BY DEF FiltersAsGiven
  <2>2. SetByOptions(st, command.options) /\ InputOK
    BY <2>1 DEF SettingsAgree, SettingsInv
  <2>. QED
    BY <2>2, GivenIs DEF SetByOptions
<1>. QED
  BY <1>1, SettingsAlways, PTL

-----------------------------------------------------------------------------
\* The least of some numbers, 0 if there are none.
LEMMA FirstIs ==
  ASSUME NEW S \in SUBSET (Nat \ {0})
  PROVE  /\ First(S) \in Nat
         /\ S = {} <=> First(S) = 0
         /\ S # {} => First(S) \in S /\ \A j \in S : First(S) <= j
<1>1. CASE S = {}
  BY <1>1 DEF First
<1>2. CASE S # {}
  <2>1. S \in SUBSET Nat
    OBVIOUS
  <2>2. PICK x \in S : \A j \in S : x <= j
    BY <1>2, <2>1, LeastExists
  <2>3. First(S) \in S /\ \A j \in S : First(S) <= j
    BY <1>2, <2>2 DEF First
  <2>. QED
    BY <1>2, <2>3
<1>. QED
  BY <1>1, <1>2

\* The first place of a token.
LEMMA FindIs ==
  ASSUME NEW T, NEW s \in Seq(T), NEW t
  PROVE  /\ Find(s, t) \in 0 .. Len(s)
         /\ Find(s, t) # 0 => s[Find(s, t)] = t
         /\ \A i \in 1 .. Len(s) : s[i] = t => Find(s, t) # 0 /\ Find(s, t) <= i
<1>1. Len(s) \in Nat /\ DOMAIN s = 1 .. Len(s)
  OBVIOUS
<1>2. Places(s, t) = {i \in 1 .. Len(s) : s[i] = t}
  BY <1>1 DEF Places
<1>. QED
  BY <1>1, <1>2, FirstIs DEF Find

\* A line while raw strings are taken out of it.
Collapsing(T) == [toks : Seq(T), open : BOOLEAN]

\* Parts of sequences.
LEMMA PartsOf ==
  ASSUME NEW T, NEW s \in Seq(T), NEW i \in 1 .. Len(s) + 1
  PROVE  SubSeq(s, 1, i - 1) \in Seq(T) /\ From(s, i) \in Seq(T)
<1>1. Len(s) \in Nat
  OBVIOUS
<1>2. SubSeq(s, 1, i - 1) \in Seq(T)
  BY <1>1, SubSeqProperties
<1>3. SubSeq(s, i, Len(s)) \in Seq(T)
  BY <1>1, SubSeqProperties
<1>. QED
  BY <1>2, <1>3 DEF From

LEMMA RawStringType ==
  ASSUME NEW T, "q" \in T, NEW u \in Collapsing(T)
  PROVE  CollapseRawString(u) \in Collapsing(T)
<1>. DEFINE t == u.toks
            b == Find(t, "R(")
            e == First({j \in Places(t, ")q") : j > b})
            head == SubSeq(t, 1, b - 1) \o <<"q", "q">>
<1>1. t \in Seq(T) /\ u.open \in BOOLEAN /\ Len(t) \in Nat
  BY DEF Collapsing
<1>2. b \in 0 .. Len(t)
  BY <1>1, FindIs
<1>3. e \in 0 .. Len(t)
  <2>1. {j \in Places(t, ")q") : j > b} \in SUBSET (1 .. Len(t))
    BY <1>1 DEF Places
  <2>. QED
    BY <1>1, <2>1, FirstIs
<1>. HIDE DEF t, e
<1>4. CASE u.open \/ b = 0 \/ InLineComment(t, b)
  BY <1>4 DEF CollapseRawString, t
<1>5. CASE ~(u.open \/ b = 0 \/ InLineComment(t, b))
  <2>1. SubSeq(t, 1, b - 1) \in Seq(T) /\ <<"q", "q">> \in Seq(T)
    BY <1>1, <1>2, <1>5, PartsOf
  <2>2. head \in Seq(T)
    BY <2>1
  <2>3. e # 0 => From(t, e + 1) \in Seq(T)
    <3>1. e + 1 \in 1 .. Len(t) + 1
      BY <1>1, <1>3
    <3>. QED
      BY <1>1, <3>1, PartsOf
  <2>4. CollapseRawString(u) = IF e = 0 THEN [toks |-> head, open |-> TRUE]
                               ELSE [toks |-> head \o From(t, e + 1), open |-> FALSE]
    BY <1>5 DEF CollapseRawString, t, e
  <2>5. e # 0 => head \o From(t, e + 1) \in Seq(T)
    BY <2>2, <2>3
  <2>. HIDE DEF head
  <2>. QED
    BY <2>2, <2>4, <2>5 DEF Collapsing
<1>. QED
  BY <1>4, <1>5

\* Raw strings are taken out one by one.
LEMMA RawStringTurns ==
  ASSUME NEW W, "q" \in W, NEW t \in Seq(W)
  PROVE  \E K : /\ K[0] = [toks |-> t, open |-> FALSE]
                /\ \A i \in 1 .. Len(t) : K[i] = CollapseRawString(K[i - 1])
                /\ \A i \in 0 .. Len(t) : K[i] \in Collapsing(W)
                /\ CollapseRawStrings(t) = K[Len(t)]
<1>. DEFINE n == Len(t)
            S == Collapsing(W)
            F == [x \in (1 .. n) \X S |-> CollapseRawString(x[2])]
            Val(g, T) == IF T = {} THEN [toks |-> t, open |-> FALSE] ELSE CollapseRawString(g[T \ {Max(T)}])
            P == SUBSET (1 .. n)
<1>1. n \in Nat /\ DOMAIN t = 1 .. n
  BY IndicesOfSeq
<1>2. [toks |-> t, open |-> FALSE] \in S
  BY DEF Collapsing
<1>3. ASSUME NEW i \in 1 .. n, NEW a \in S
      PROVE  F[<<i, a>>] = CollapseRawString(a) /\ F[<<i, a>>] \in S
  <2>1. F[<<i, a>>] = CollapseRawString(a)
    OBVIOUS
  <2>. QED
    BY <1>1, <2>1, RawStringType
<1>. HIDE DEF F
<1>4. PICK G : FoldOf(G, F, n, [toks |-> t, open |-> FALSE], S)
  <2>1. FoldStep(F, n, S)
    BY <1>3 DEF FoldStep
  <2>. HIDE DEF n, S
  <2>. QED
    BY <1>1, <1>2, <2>1, FoldExists
<1>5. \A T \in P : T # {} => Max(T) \in 1 .. n /\ T \ {Max(T)} \in P
  BY <1>1, GreatestAndRest
<1>6. G = [T \in P |-> Val(G, T)] /\ \A T \in P : G[T] \in S
  <2>. HIDE DEF P, S
  <2>3. /\ G = [T \in P |-> IF T = {} THEN [toks |-> t, open |-> FALSE] ELSE F[<<Max(T), G[T \ {Max(T)}]>>]]
        /\ \A T \in P : G[T] \in S
    BY <1>4 DEF FoldOf, P
  <2>1. \A T \in P : G[T] = Val(G, T)
    BY <1>3, <1>5, <2>3
  <2>2. G = [T \in P |-> G[T]]
    BY <2>3
  <2>. QED
    BY <2>1, <2>2, <2>3
<1>. DEFINE g == CHOOSE f : f = [T \in P |-> Val(f, T)]
<1>7. g = [T \in P |-> Val(g, T)]
  BY <1>6
<1>8. CollapseRawStrings(t) = g[1 .. n]
  BY <1>1 DEF CollapseRawStrings, FoldLeft, MapThenFoldSet
<1>. HIDE DEF g
<1>9. \A T \in P : g[T] = Val(g, T)
  BY <1>7
<1>. DEFINE K == [i \in 0 .. n |-> g[1 .. i]]
<1>10. 1 .. 0 = {} /\ 1 .. 0 \in P /\ 0 \in 0 .. n /\ n \in 0 .. n
  BY <1>1
<1>11. K[0] = [toks |-> t, open |-> FALSE] /\ K[n] = g[1 .. n]
  BY <1>9, <1>10
<1>12. ASSUME NEW i \in 1 .. n PROVE K[i] = CollapseRawString(K[i - 1]) /\ i \in 0 .. n /\ i - 1 \in 0 .. n
  <2>1. i \in 0 .. n /\ i - 1 \in 0 .. n
    BY <1>1
  <2>2. 1 .. i \in P /\ 1 .. i # {} /\ Max(1 .. i) = i /\ (1 .. i) \ {Max(1 .. i)} = 1 .. i - 1
    BY <1>1, FirstNumbers
  <2>3. g[1 .. i] = CollapseRawString(g[1 .. i - 1])
    BY <1>9, <2>2
  <2>. QED
    BY <2>1, <2>3
<1>13. \A i \in 0 .. n : K[i] \in S
  <2>. DEFINE OK(i) == K[i] \in S
              Bad == {i \in 0 .. n : ~OK(i)}
  <2>1. OK(0)
    BY <1>2, <1>11
  <2>2. ASSUME NEW i \in 1 .. n, OK(i - 1) PROVE OK(i)
    <3>. HIDE DEF K, S
    <3>. QED
      BY <1>3, <1>12, <2>2, ZenonT(40)
  <2>3. CASE Bad # {}
    <3>1. Bad \in SUBSET Nat
      OBVIOUS
    <3>2. PICK k \in Bad : \A j \in Bad : k <= j
      BY <2>3, <3>1, LeastExists
    <3>. HIDE DEF OK
    <3>3. k # 0 /\ k \in 0 .. n
      BY <2>1, <3>2
    <3>4. k \in 1 .. n /\ k - 1 \in 0 .. n /\ ~(k <= k - 1)
      BY <1>1, <3>3
    <3>5. OK(k - 1)
      BY <3>2, <3>4
    <3>. QED
      BY <2>2, <3>2, <3>4, <3>5
  <2>. QED
    BY <2>3
<1>. HIDE DEF K
<1>. QED
  BY <1>8, <1>11, <1>12, <1>13

LEMMA CleanseLineType ==
  ASSUME NEW T, "q" \in T, NEW s \in Seq(T), NEW open \in BOOLEAN
  PROVE  CleanseLine(s, open) \in Collapsing(T)
<1>. DEFINE end == Find(s, ")q")
<1>1. end \in 0 .. Len(s) /\ Len(s) \in Nat
  BY FindIs
<1>2. ASSUME NEW t \in Seq(T) PROVE CollapseRawStrings(t) \in Collapsing(T)
  <2>1. Len(t) \in 0 .. Len(t)
    OBVIOUS
  <2>. QED
    BY <2>1, RawStringTurns
<1>3. end # 0 => <<"q", "q">> \o From(s, end + 1) \in Seq(T)
  <2>. SUFFICES ASSUME end # 0 PROVE <<"q", "q">> \o From(s, end + 1) \in Seq(T)
    OBVIOUS
  <2>1. end + 1 \in 1 .. Len(s) + 1
    BY <1>1
  <2>2. From(s, end + 1) \in Seq(T)
    BY <2>1, PartsOf
  <2>. QED
    BY <2>2
<1>4. [toks |-> <<"q", "q">>, open |-> TRUE] \in Collapsing(T)
  BY DEF Collapsing
<1>. QED
  BY <1>2, <1>3, <1>4 DEF CleanseLine

\* What the next line finds open.
LEMMA RawOpen ==
  ASSUME NEW T, "q" \in T, NEW s \in Seq(T), NEW u \in Collapsing(T)
  PROVE  CleanseLine(s, u.open) \in Collapsing(T)
BY CleanseLineType DEF Collapsing

\* The lines are cleansed one after the other.
RawTurning(K, lines, T) ==
  /\ K[0] = [toks |-> <<>>, open |-> FALSE]
  /\ \A i \in 1 .. Len(lines) : K[i] = CleanseLine(lines[i], K[i - 1].open)
  /\ \A i \in 0 .. Len(lines) : K[i] \in Collapsing(T)
  /\ CleanseRawStrings(lines) = [i \in DOMAIN lines |-> K[i].toks]

LEMMA RawTurns ==
  ASSUME NEW T, "q" \in T, NEW lines, Len(lines) \in Nat,
         \A i \in 1 .. Len(lines) : lines[i] \in Seq(T)
  PROVE  \E K : RawTurning(K, lines, T)
<1>. DEFINE n == Len(lines)
            S == Collapsing(T)
            b == [toks |-> <<>>, open |-> FALSE]
            F == [x \in (1 .. n) \X S |-> CleanseLine(lines[x[1]], x[2].open)]
            g == CHOOSE f : f = [i \in 0 .. n |-> IF i = 0 THEN b ELSE CleanseLine(lines[i], f[i - 1].open)]
<1>1. n \in Nat /\ n = Len(lines)
  OBVIOUS
<1>2. b \in S
  BY DEF Collapsing
<1>3. ASSUME NEW i \in 1 .. n, NEW a \in S
      PROVE  F[<<i, a>>] = CleanseLine(lines[i], a.open) /\ F[<<i, a>>] \in S
  <2>1. F[<<i, a>>] = CleanseLine(lines[i], a.open)
    OBVIOUS
  <2>. QED
    BY <1>1, <2>1, RawOpen
<1>. HIDE DEF F
<1>4. FoldStep(F, n, S)
  BY <1>3 DEF FoldStep
<1>5. PICK h : /\ h = [i \in 0 .. n |-> IF i = 0 THEN b ELSE F[<<i, h[i - 1]>>]]
               /\ \A i \in 0 .. n : h[i] \in S
  <2>. HIDE DEF n, S, b
  <2>. QED
    BY <1>1, <1>2, <1>4, TurnsExist
<1>6. h = [i \in 0 .. n |-> IF i = 0 THEN b ELSE CleanseLine(lines[i], h[i - 1].open)]
  <2>1. \A k \in 0 .. n : k # 0 => k \in 1 .. n /\ k - 1 \in 0 .. n
    BY <1>1
  <2>. HIDE DEF n, S, b
  <2>2. \A i \in 0 .. n : h[i] = IF i = 0 THEN b ELSE CleanseLine(lines[i], h[i - 1].open)
    BY <1>3, <1>5, <2>1
  <2>3. h = [i \in 0 .. n |-> h[i]]
    BY <1>5
  <2>. QED
    BY <2>2, <2>3
<1>7. g = [i \in 0 .. n |-> IF i = 0 THEN b ELSE CleanseLine(lines[i], g[i - 1].open)]
  BY <1>6
<1>8. CleanseRawStrings(lines) = [i \in DOMAIN lines |-> g[i].toks]
  BY DEF CleanseRawStrings
<1>. HIDE DEF g
<1>9. /\ g[0] = b
      /\ \A i \in 1 .. n : g[i] = CleanseLine(lines[i], g[i - 1].open)
  <2>1. 0 \in 0 .. n /\ \A k \in 1 .. n : k \in 0 .. n /\ k # 0
    BY <1>1
  <2>. HIDE DEF n, b
  <2>. QED
    BY <1>7, <2>1
<1>. DEFINE OK(i) == g[i] \in S
            Bad == {i \in 0 .. n : ~OK(i)}
<1>10. OK(0)
  BY <1>2, <1>9
<1>11. ASSUME NEW i \in 1 .. n, OK(i - 1) PROVE OK(i)
  <2>. HIDE DEF S, n
  <2>. QED
    BY <1>3, <1>9, <1>11
<1>12. ASSUME Bad # {} PROVE FALSE
  <2>1. Bad \in SUBSET Nat
    OBVIOUS
  <2>2. PICK k \in Bad : \A j \in Bad : k <= j
    BY <1>12, <2>1, LeastExists
  <2>. HIDE DEF OK, n
  <2>3. k # 0 /\ k \in 0 .. n
    BY <1>10, <2>2
  <2>4. k \in 1 .. n /\ k - 1 \in 0 .. n /\ ~(k <= k - 1)
    BY <1>1, <2>3
  <2>5. OK(k - 1)
    BY <2>2, <2>4
  <2>. QED
    BY <1>11, <2>2, <2>4, <2>5
<1>13. \A i \in 0 .. n : g[i] \in S
  <2>1. \A i \in 0 .. n : OK(i)
    <3>. HIDE DEF OK
    <3>. QED
      BY <1>12
  <2>. QED
    BY <2>1
<1>. HIDE DEF g
<1>. QED
  BY <1>8, <1>9, <1>13 DEF RawTurning

LEMMA NoRawType ==
  ASSUME NEW T, "q" \in T, NEW lines, Len(lines) \in Nat, DOMAIN lines = 1 .. Len(lines),
         \A i \in 1 .. Len(lines) : lines[i] \in Seq(T)
  PROVE  /\ CleanseRawStrings(lines) = [i \in 1 .. Len(lines) |-> CleanseRawStrings(lines)[i]]
         /\ \A i \in 1 .. Len(lines) : CleanseRawStrings(lines)[i] \in Seq(T)
<1>1. PICK K : RawTurning(K, lines, T)
  BY RawTurns
<1>2. \A i \in 1 .. Len(lines) : K[i].toks \in Seq(T)
  BY <1>1 DEF RawTurning, Collapsing
<1>. QED
  BY <1>1, <1>2 DEF RawTurning

\* Comments /* */ of one line: what is kept, and what is held back.
Dropping(T) == [out : Seq(T), held : Seq(T)]

DropTurn(u, t) ==
  IF u.held = <<>> /\ t # "/*" THEN [u EXCEPT !.out = Append(u.out, t)]
  ELSE IF u.held # <<>> /\ t = "*/" THEN [u EXCEPT !.held = <<>>]
  ELSE [u EXCEPT !.held = Append(u.held, t)]

LEMMA DropTurnType ==
  ASSUME NEW T, NEW u \in Dropping(T), NEW t \in T
  PROVE  DropTurn(u, t) \in Dropping(T)
<1>1. /\ u = [out |-> u.out, held |-> u.held] /\ u.out \in Seq(T) /\ u.held \in Seq(T)
      /\ Append(u.out, t) \in Seq(T) /\ Append(u.held, t) \in Seq(T) /\ <<>> \in Seq(T)
  BY DEF Dropping
<1>2. \/ DropTurn(u, t) = [u EXCEPT !.out = Append(u.out, t)]
      \/ DropTurn(u, t) = [u EXCEPT !.held = <<>>]
      \/ DropTurn(u, t) = [u EXCEPT !.held = Append(u.held, t)]
  BY DEF DropTurn
<1>. QED
  BY <1>1, <1>2 DEF Dropping


\* The tokens are looked at one after the other.
LEMMA DropTurns ==
  ASSUME NEW T, NEW s \in Seq(T)
  PROVE  \E K : /\ K[0] = [out |-> <<>>, held |-> <<>>]
                /\ \A i \in 1 .. Len(s) : K[i] = DropTurn(K[i - 1], s[i])
                /\ \A i \in 0 .. Len(s) : K[i] \in Dropping(T)
                /\ DropCComments(s) = K[Len(s)].out \o K[Len(s)].held
<1>. DEFINE n == Len(s)
            S == Dropping(T)
            b == [out |-> <<>>, held |-> <<>>]
            F == [x \in (1 .. n) \X S |-> DropTurn(x[2], s[x[1]])]
            g == CHOOSE f : f = [i \in 0 .. n |-> IF i = 0 THEN b ELSE DropTurn(f[i - 1], s[i])]
<1>1. n \in Nat /\ n = Len(s)
  OBVIOUS
<1>2. b \in S
  BY DEF Dropping
<1>3. ASSUME NEW i \in 1 .. n, NEW a \in S
      PROVE  F[<<i, a>>] = DropTurn(a, s[i]) /\ F[<<i, a>>] \in S
  <2>1. F[<<i, a>>] = DropTurn(a, s[i])
    OBVIOUS
  <2>. QED
    BY <1>1, <2>1, DropTurnType, ElementOfSeq
<1>. HIDE DEF F
<1>4. FoldStep(F, n, S)
  BY <1>3 DEF FoldStep
<1>5. PICK h : /\ h = [i \in 0 .. n |-> IF i = 0 THEN b ELSE F[<<i, h[i - 1]>>]]
               /\ \A i \in 0 .. n : h[i] \in S
  <2>. HIDE DEF n, S, b
  <2>. QED
    BY <1>1, <1>2, <1>4, TurnsExist
<1>6. h = [i \in 0 .. n |-> IF i = 0 THEN b ELSE DropTurn(h[i - 1], s[i])]
  <2>1. \A k \in 0 .. n : k # 0 => k \in 1 .. n /\ k - 1 \in 0 .. n
    BY <1>1
  <2>. HIDE DEF n, S, b
  <2>2. \A i \in 0 .. n : h[i] = IF i = 0 THEN b ELSE DropTurn(h[i - 1], s[i])
    BY <1>3, <1>5, <2>1
  <2>3. h = [i \in 0 .. n |-> h[i]]
    BY <1>5
  <2>. QED
    BY <2>2, <2>3
<1>7. g = [i \in 0 .. n |-> IF i = 0 THEN b ELSE DropTurn(g[i - 1], s[i])]
  BY <1>6
<1>8. DropCComments(s) = g[n].out \o g[n].held
  BY DEF DropCComments, DropTurn
<1>. HIDE DEF g
<1>9. /\ g[0] = b
      /\ \A i \in 1 .. n : g[i] = DropTurn(g[i - 1], s[i])
  <2>1. 0 \in 0 .. n /\ \A k \in 1 .. n : k \in 0 .. n /\ k # 0
    BY <1>1
  <2>. HIDE DEF n, b
  <2>. QED
    BY <1>7, <2>1
<1>. DEFINE OK(i) == g[i] \in S
            Bad == {i \in 0 .. n : ~OK(i)}
<1>10. OK(0)
  BY <1>2, <1>9
<1>11. ASSUME NEW i \in 1 .. n, OK(i - 1) PROVE OK(i)
  <2>. HIDE DEF S, n
  <2>. QED
    BY <1>3, <1>9, <1>11
<1>12. ASSUME Bad # {} PROVE FALSE
  <2>1. Bad \in SUBSET Nat
    OBVIOUS
  <2>2. PICK k \in Bad : \A j \in Bad : k <= j
    BY <1>12, <2>1, LeastExists
  <2>. HIDE DEF OK, n
  <2>3. k # 0 /\ k \in 0 .. n
    BY <1>10, <2>2
  <2>4. k \in 1 .. n /\ k - 1 \in 0 .. n /\ ~(k <= k - 1)
    BY <1>1, <2>3
  <2>5. OK(k - 1)
    BY <2>2, <2>4
  <2>. QED
    BY <1>11, <2>2, <2>4, <2>5
<1>13. \A i \in 0 .. n : g[i] \in S
  <2>1. \A i \in 0 .. n : OK(i)
    <3>. HIDE DEF OK
    <3>. QED
      BY <1>12
  <2>. QED
    BY <2>1
<1>. HIDE DEF g
<1>. QED
  BY <1>8, <1>9, <1>13

LEMMA DropType ==
  ASSUME NEW T, NEW s \in Seq(T)
  PROVE  DropCComments(s) \in Seq(T)
<1>1. Len(s) \in 0 .. Len(s)
  OBVIOUS
<1>2. PICK u \in Dropping(T) : DropCComments(s) = u.out \o u.held
  BY <1>1, DropTurns
<1>. QED
  BY <1>2 DEF Dropping

LEMMA CleanseCommentsType ==
  ASSUME NEW T, NEW s \in Seq(T)
  PROVE  CleanseComments(s) \in Seq(T)
<1>. DEFINE p == Find(s, "//")
<1>1. p \in 0 .. Len(s) /\ Len(s) \in Nat
  BY FindIs
<1>2. p # 0 => SubSeq(s, 1, p - 1) \in Seq(T)
  BY <1>1, PartsOf
<1>. HIDE DEF p
<1>. QED
  BY <1>2, DropType DEF CleanseComments, p

\* What is put in the place of a token.
UnescapedToken(t) ==
  CASE t = "R(" -> <<"a", "q", "(">>
    [] t = ")q" -> <<")", "q">>
    [] t = "bq" -> <<>>
    [] OTHER    -> <<t>>

\* The tokens that the preparation of a text puts in.
Glue == {"q", "a", "(", ")"}

LEMMA UnescapedType ==
  ASSUME NEW T, Glue \subseteq T, NEW s \in Seq(T)
  PROVE  Unescaped(s) \in Seq(T)
<1>. DEFINE ss == [i \in DOMAIN s |-> UnescapedToken(s[i])]
<1>1. Unescaped(s) = FlattenSeq(ss)
  BY DEF Unescaped, UnescapedToken
<1>2. Len(s) \in Nat /\ DOMAIN s = 1 .. Len(s)
  OBVIOUS
<1>3. ASSUME NEW i \in 1 .. Len(s)
      PROVE  ss[i] \in Seq(T)
  <2>1. s[i] \in T /\ ss[i] = UnescapedToken(s[i])
    BY <1>2
  <2>. QED
    BY <2>1 DEF UnescapedToken, Glue
<1>4. Len(ss) = Len(s) /\ (Len(s) = 0 => ss = <<>>)
  BY <1>2
<1>. HIDE DEF ss
<1>. QED
  BY <1>1, <1>2, <1>3, <1>4, FlattenElements

\* A turn of the collapsing of strings.
StringTurn(u, t) ==
  IF u.held = <<>> /\ t # "q" THEN [u EXCEPT !.out = Append(u.out, t)]
  ELSE IF u.held # <<>> /\ t = "q" THEN [out |-> u.out \o <<"q", "q">>, held |-> <<>>]
  ELSE [u EXCEPT !.held = Append(u.held, t)]

LEMMA StringTurnType ==
  ASSUME NEW T, "q" \in T, NEW u \in Dropping(T), NEW t \in T
  PROVE  StringTurn(u, t) \in Dropping(T)
<1>1. /\ u = [out |-> u.out, held |-> u.held] /\ u.out \in Seq(T) /\ u.held \in Seq(T)
      /\ Append(u.out, t) \in Seq(T) /\ Append(u.held, t) \in Seq(T) /\ <<>> \in Seq(T)
      /\ u.out \o <<"q", "q">> \in Seq(T)
  BY DEF Dropping
<1>. DEFINE x == u.out \o <<"q", "q">>
            v == StringTurn(u, t)
<1>2. \/ v = [u EXCEPT !.out = Append(u.out, t)]
      \/ v = [out |-> x, held |-> <<>>]
      \/ v = [u EXCEPT !.held = Append(u.held, t)]
  BY DEF StringTurn
<1>. HIDE DEF x, v
<1>3. x \in Seq(T)
  BY <1>1 DEF x
<1>4. v \in Dropping(T)
  <2>1. CASE v = [out |-> x, held |-> <<>>]
    BY <1>1, <1>3, <2>1 DEF Dropping
  <2>2. CASE v = [u EXCEPT !.out = Append(u.out, t)]
    BY <1>1, <2>2 DEF Dropping
  <2>3. CASE v = [u EXCEPT !.held = Append(u.held, t)]
    BY <1>1, <2>3 DEF Dropping
  <2>. QED
    BY <1>2, <2>1, <2>2, <2>3
<1>. QED
  BY <1>4 DEF v

\* The part of a line that strings are taken out of.
Collapsed(t) ==
  LET Upto[i \in 0..Len(t)] ==
          IF i = 0 THEN [out |-> <<>>, held |-> <<>>]
          ELSE LET u == Upto[i - 1] IN
               IF u.held = <<>> /\ t[i] # "q"
               THEN [u EXCEPT !.out = Append(@, t[i])]
               ELSE IF u.held # <<>> /\ t[i] = "q"
               THEN [out |-> u.out \o <<"q", "q">>, held |-> <<>>]
               ELSE [u EXCEPT !.held = Append(@, t[i])]
  IN  Upto[Len(t)].out \o Upto[Len(t)].held

\* The tokens are looked at one after the other.
LEMMA StringTurns ==
  ASSUME NEW T, "q" \in T, NEW t \in Seq(T)
  PROVE  \E K : /\ K[0] = [out |-> <<>>, held |-> <<>>]
                /\ \A i \in 1 .. Len(t) : K[i] = StringTurn(K[i - 1], t[i])
                /\ \A i \in 0 .. Len(t) : K[i] \in Dropping(T)
                /\ Collapsed(t) = K[Len(t)].out \o K[Len(t)].held
<1>. DEFINE n == Len(t)
            S == Dropping(T)
            b == [out |-> <<>>, held |-> <<>>]
            F == [x \in (1 .. n) \X S |-> StringTurn(x[2], t[x[1]])]
            g == CHOOSE f : f = [i \in 0 .. n |-> IF i = 0 THEN b ELSE StringTurn(f[i - 1], t[i])]
<1>1. n \in Nat /\ n = Len(t)
  OBVIOUS
<1>2. b \in S
  BY DEF Dropping
<1>3. ASSUME NEW i \in 1 .. n, NEW a \in S
      PROVE  F[<<i, a>>] = StringTurn(a, t[i]) /\ F[<<i, a>>] \in S
  <2>1. F[<<i, a>>] = StringTurn(a, t[i])
    OBVIOUS
  <2>. QED
    BY <1>1, <2>1, StringTurnType, ElementOfSeq
<1>. HIDE DEF F
<1>4. FoldStep(F, n, S)
  BY <1>3 DEF FoldStep
<1>5. PICK h : /\ h = [i \in 0 .. n |-> IF i = 0 THEN b ELSE F[<<i, h[i - 1]>>]]
               /\ \A i \in 0 .. n : h[i] \in S
  <2>. HIDE DEF n, S, b
  <2>. QED
    BY <1>1, <1>2, <1>4, TurnsExist
<1>6. h = [i \in 0 .. n |-> IF i = 0 THEN b ELSE StringTurn(h[i - 1], t[i])]
  <2>1. \A k \in 0 .. n : k # 0 => k \in 1 .. n /\ k - 1 \in 0 .. n
    BY <1>1
  <2>. HIDE DEF n, S, b
  <2>2. \A i \in 0 .. n : h[i] = IF i = 0 THEN b ELSE StringTurn(h[i - 1], t[i])
    BY <1>3, <1>5, <2>1
  <2>3. h = [i \in 0 .. n |-> h[i]]
    BY <1>5
  <2>. QED
    BY <2>2, <2>3
<1>7. g = [i \in 0 .. n |-> IF i = 0 THEN b ELSE StringTurn(g[i - 1], t[i])]
  BY <1>6
<1>8. Collapsed(t) = g[n].out \o g[n].held
  BY DEF Collapsed, StringTurn
<1>. HIDE DEF g
<1>9. /\ g[0] = b
      /\ \A i \in 1 .. n : g[i] = StringTurn(g[i - 1], t[i])
  <2>1. 0 \in 0 .. n /\ \A k \in 1 .. n : k \in 0 .. n /\ k # 0
    BY <1>1
  <2>. HIDE DEF n, b
  <2>. QED
    BY <1>7, <2>1
<1>. DEFINE OK(i) == g[i] \in S
            Bad == {i \in 0 .. n : ~OK(i)}
<1>10. OK(0)
  BY <1>2, <1>9
<1>11. ASSUME NEW i \in 1 .. n, OK(i - 1) PROVE OK(i)
  <2>. HIDE DEF S, n
  <2>. QED
    BY <1>3, <1>9, <1>11
<1>12. ASSUME Bad # {} PROVE FALSE
  <2>1. Bad \in SUBSET Nat
    OBVIOUS
  <2>2. PICK k \in Bad : \A j \in Bad : k <= j
    BY <1>12, <2>1, LeastExists
  <2>. HIDE DEF OK, n
  <2>3. k # 0 /\ k \in 0 .. n
    BY <1>10, <2>2
  <2>4. k \in 1 .. n /\ k - 1 \in 0 .. n /\ ~(k <= k - 1)
    BY <1>1, <2>3
  <2>5. OK(k - 1)
    BY <2>2, <2>4
  <2>. QED
    BY <1>11, <2>2, <2>4, <2>5
<1>13. \A i \in 0 .. n : g[i] \in S
  <2>1. \A i \in 0 .. n : OK(i)
    <3>. HIDE DEF OK
    <3>. QED
      BY <1>12
  <2>. QED
    BY <2>1
<1>. HIDE DEF g
<1>. QED
  BY <1>8, <1>9, <1>13

LEMMA CollapseStringsType ==
  ASSUME NEW T, Glue \subseteq T, NEW s \in Seq(T)
  PROVE  CollapseStrings(s) \in Seq(T)
<1>1. CollapseStrings(s) = IF IncludeLine(s) THEN s ELSE Collapsed(Unescaped(s))
  BY DEF CollapseStrings, Collapsed
<1>2. Unescaped(s) \in Seq(T) /\ "q" \in T
  BY UnescapedType DEF Glue
<1>3. Len(Unescaped(s)) \in 0 .. Len(Unescaped(s))
  BY <1>2
<1>4. PICK u \in Dropping(T) : Collapsed(Unescaped(s)) = u.out \o u.held
  BY <1>2, <1>3, StringTurns
<1>. QED
  BY <1>1, <1>4 DEF Dropping

\* The copies of a text have its lines, made of its tokens.
LEMMA CopiesType ==
  ASSUME NEW T, Glue \subseteq T, NEW lines, Len(lines) \in Nat, DOMAIN lines = 1 .. Len(lines),
         \A i \in 1 .. Len(lines) : lines[i].toks \in Seq(T)
  PROVE  LET c == CleansedLines(lines) IN
         /\ c.raw = lines
         /\ Len(c.lines) = Len(lines) /\ DOMAIN c.lines = 1 .. Len(lines)
         /\ Len(c.elided) = Len(lines) /\ DOMAIN c.elided = 1 .. Len(lines)
         /\ \A i \in 1 .. Len(lines) : c.lines[i] \in Seq(T) /\ c.elided[i] \in Seq(T)
<1>. DEFINE n == Len(lines)
            t == Toks(lines)
            R == CleanseRawStrings(t)
            c == CleansedLines(lines)
<1>1. Len(t) = n /\ DOMAIN t = 1 .. n /\ \A i \in 1 .. n : t[i] \in Seq(T)
  BY DEF Toks
<1>2. "q" \in T
  BY DEF Glue
<1>. HIDE DEF t
<1>3. R = [i \in 1 .. n |-> R[i]] /\ \A i \in 1 .. n : R[i] \in Seq(T)
  BY <1>1, <1>2, NoRawType
<1>. HIDE DEF R
<1>4. /\ c.raw = lines
      /\ c.lines = [i \in DOMAIN R |-> CleanseComments(R[i])]
      /\ c.elided = [i \in DOMAIN R |-> CleanseComments(CollapseStrings(R[i]))]
  BY DEF CleansedLines, R, t
<1>5. DOMAIN R = 1 .. n
  BY <1>3
<1>. HIDE DEF c
<1>6. /\ Len(c.lines) = n /\ DOMAIN c.lines = 1 .. n
      /\ Len(c.elided) = n /\ DOMAIN c.elided = 1 .. n
  BY <1>4, <1>5
<1>7. ASSUME NEW i \in 1 .. n
      PROVE  c.lines[i] \in Seq(T) /\ c.elided[i] \in Seq(T)
  <2>1. /\ R[i] \in Seq(T) /\ c.lines[i] = CleanseComments(R[i])
        /\ c.elided[i] = CleanseComments(CollapseStrings(R[i]))
    BY <1>3, <1>4, <1>5
  <2>. QED
    BY <2>1, CleanseCommentsType, CollapseStringsType
<1>. QED
  BY <1>4, <1>6, <1>7 DEF c

-----------------------------------------------------------------------------
\* Joining is associative.
LEMMA ConcatAssociates ==
  ASSUME NEW S, NEW a \in Seq(S), NEW b \in Seq(S), NEW c \in Seq(S)
  PROVE  (a \o b) \o c = a \o (b \o c)
<1>. DEFINE x == (a \o b) \o c
            y == a \o (b \o c)
<1>1. /\ a \o b \in Seq(S) /\ Len(a \o b) = Len(a) + Len(b)
      /\ b \o c \in Seq(S) /\ Len(b \o c) = Len(b) + Len(c)
      /\ Len(a) \in Nat /\ Len(b) \in Nat /\ Len(c) \in Nat
  OBVIOUS
<1>2. x \in Seq(S) /\ y \in Seq(S) /\ Len(x) = Len(a) + Len(b) + Len(c) /\ Len(y) = Len(x)
  BY <1>1
<1>3. ASSUME NEW i \in 1 .. Len(x) PROVE x[i] = y[i]
  <2>1. CASE i <= Len(a)
    BY <1>1, <1>2, <2>1
  <2>2. CASE i > Len(a) /\ i <= Len(a) + Len(b)
    BY <1>1, <1>2, <2>2
  <2>3. CASE i > Len(a) + Len(b)
    BY <1>1, <1>2, <2>3
  <2>. QED
    BY <1>1, <1>2, <2>1, <2>2, <2>3
<1>. HIDE DEF x, y
<1>4. x = y
  BY <1>2, <1>3
<1>. QED
  BY <1>4 DEF x, y

LEMMA JoinOneMore ==
  ASSUME NEW S, NEW x \in Seq(S), NEW j \in Seq(S), NEW e \in Seq(S),
         NEW k, k = x \o j, NEW k1, k1 = k \o e, NEW j1, j1 = j \o e
  PROVE  j1 \in Seq(S) /\ k1 = x \o j1
<1>1. (x \o j) \o e = x \o (j \o e)
  BY ConcatAssociates
<1>. QED
  BY <1>1

\* The first of several sequences that are put one after another.
LEMMA FlattenFront ==
  ASSUME NEW S, NEW n \in Nat, NEW m, m = n + 1, NEW ss, Len(ss) = m,
         NEW tt, Len(tt) = n, n = 0 => tt = <<>>,
         \A i \in 1 .. m : ss[i] \in Seq(S), \A i \in 1 .. n : tt[i] = ss[i + 1]
  PROVE  FlattenSeq(ss) = ss[1] \o FlattenSeq(tt) /\ FlattenSeq(tt) \in Seq(S)
<1>1. m \in Nat /\ m # 0 /\ 1 \in 1 .. m /\ Len(ss) = m
  OBVIOUS
<1>2. PICK K : /\ K[1] = ss[1]
               /\ \A i \in 2 .. m : K[i] = K[i - 1] \o ss[i]
               /\ FlattenSeq(ss) = K[m]
  <2>1. \E K : /\ DOMAIN K = 1 .. m
               /\ K[1] = ss[1]
               /\ \A i \in 2 .. m : K[i] = K[i - 1] \o ss[i]
               /\ FlattenSeq(ss) = K[m]
    BY ONLY <1>1, FlattenFunction
  <2>. QED
    BY <2>1
<1>. DEFINE H == [i \in 0 .. n |-> K[i + 1]]
<1>6. H[0] = ss[1] /\ FlattenSeq(ss) = H[n]
  BY <1>2
<1>7. ASSUME NEW i \in 1 .. n PROVE H[i] = H[i - 1] \o tt[i]
  <2>. DEFINE j == i + 1
  <2>1. j \in 2 .. m /\ j - 1 = i /\ i - 1 + 1 = i
    OBVIOUS
  <2>2. H[i] = K[j] /\ H[i - 1] = K[i] /\ tt[i] = ss[j]
    BY <2>1
  <2>. HIDE DEF j, H
  <2>3. K[j] = K[j - 1] \o ss[j]
    BY <1>2, <2>1
  <2>4. K[j] = K[i] \o ss[j]
    BY <2>1, <2>3
  <2>. QED
    BY <2>2, <2>4
<1>. HIDE DEF H
<1>3. FlattenSeq(tt) \in Seq(S)
  <2>1. \A i \in 1 .. n : tt[i] \in Seq(S)
    OBVIOUS
  <2>. QED
    BY <2>1, FlattenElements
<1>4. CASE n = 0
  <2>1. FlattenSeq(tt) = <<>>
    BY <1>4 DEF FlattenSeq
  <2>2. FlattenSeq(ss) = ss[1] /\ ss[1] \in Seq(S)
    BY <1>1, <1>2, <1>4
  <2>. QED
    BY <1>3, <2>1, <2>2
<1>5. CASE n # 0
  <2>1. PICK J : /\ J[1] = tt[1]
                 /\ \A i \in 2 .. n : J[i] = J[i - 1] \o tt[i]
                 /\ FlattenSeq(tt) = J[n]
    <3>1. \E J : /\ DOMAIN J = 1 .. n
                 /\ J[1] = tt[1]
                 /\ \A i \in 2 .. n : J[i] = J[i - 1] \o tt[i]
                 /\ FlattenSeq(tt) = J[n]
      BY <1>5, FlattenFunction
    <3>. QED
      BY <3>1
  <2>. DEFINE OK(i) == J[i] \in Seq(S) /\ H[i] = ss[1] \o J[i]
              Bad == {i \in 1 .. n : ~OK(i)}
  <2>6. \A i \in 1 .. n : tt[i] \in Seq(S)
    OBVIOUS
  <2>7. ss[1] \in Seq(S)
    BY <1>1
  <2>2. OK(1)
    <3>1. 1 \in 1 .. n /\ 1 - 1 = 0
      BY <1>5
    <3>2. H[1] = H[0] \o tt[1]
      BY <1>7, <3>1
    <3>. QED
      BY <1>6, <2>1, <2>6, <3>1, <3>2
  <2>3. ASSUME NEW i \in 2 .. n, OK(i - 1) PROVE OK(i)
    <3>1. i \in 1 .. n
      OBVIOUS
    <3>2. H[i - 1] = ss[1] \o J[i - 1] /\ J[i - 1] \in Seq(S)
      BY <2>3
    <3>3. J[i] = J[i - 1] \o tt[i] /\ tt[i] \in Seq(S)
      BY <2>1, <2>6, <3>1
    <3>4. H[i] = H[i - 1] \o tt[i]
      BY <1>7, <3>1
    <3>. DEFINE x == ss[1]
                j == J[i - 1]
                e == tt[i]
                k == H[i - 1]
                k1 == H[i]
                j1 == J[i]
    <3>5. /\ x \in Seq(S) /\ j \in Seq(S) /\ e \in Seq(S) /\ k = x \o j
          /\ k1 = k \o e /\ j1 = j \o e
      BY <2>7, <3>2, <3>3, <3>4
    <3>. HIDE DEF x, j, e, k, k1, j1
    <3>6. j1 \in Seq(S) /\ k1 = x \o j1
      BY ONLY <3>5, JoinOneMore
    <3>. QED
      BY <3>6 DEF x, k1, j1
  <2>4. ASSUME Bad # {} PROVE FALSE
    <3>. HIDE DEF OK
    <3>1. Bad \in SUBSET Nat
      OBVIOUS
    <3>2. PICK k \in Bad : \A j \in Bad : k <= j
      BY <2>4, <3>1, LeastExists
    <3>3. k # 1 /\ k \in 1 .. n
      BY <2>2, <3>2
    <3>4. k \in 2 .. n /\ k - 1 \in 1 .. n /\ ~(k <= k - 1)
      BY <3>3
    <3>5. OK(k - 1)
      BY <3>2, <3>4
    <3>. QED
      BY <2>3, <3>2, <3>4, <3>5
  <2>5. OK(n)
    <3>. HIDE DEF OK
    <3>1. n \in 1 .. n
      BY <1>5
    <3>. QED
      BY <2>4, <3>1
  <2>. QED
    BY <1>3, <1>6, <2>1, <2>5
<1>. QED
  BY <1>4, <1>5

\* tt is what is behind the first of m sequences.
Behind(ss, tt, m, S) ==
  /\ m \in Nat \ {0} /\ Len(ss) = m /\ Len(tt) = m - 1 /\ (m = 1 => tt = <<>>)
  /\ \A i \in 1 .. m : ss[i] \in Seq(S)
  /\ \A i \in 1 .. m - 1 : tt[i] = ss[i + 1]

LEMMA FlattenBehind ==
  ASSUME NEW S, NEW m, NEW ss, NEW tt, Behind(ss, tt, m, S)
  PROVE  FlattenSeq(ss) = ss[1] \o FlattenSeq(tt) /\ FlattenSeq(tt) \in Seq(S)
<1>. DEFINE n == m - 1
<1>1. n \in Nat /\ m = n + 1 /\ Len(ss) = m /\ Len(tt) = n /\ (n = 0 => tt = <<>>)
  BY DEF Behind
<1>2. (\A i \in 1 .. m : ss[i] \in Seq(S)) /\ (\A i \in 1 .. n : tt[i] = ss[i + 1])
  BY DEF Behind
<1>. HIDE DEF n
<1>. QED
  BY <1>1, <1>2, FlattenFront

\* The filters of one line of a configuration file.
OwnFilters(o) == IF o.name = "filter" THEN o.val ELSE <<>>

\* One line of a configuration file that does not exclude the file.
LEMMA ConfigOptionIs ==
  ASSUME NEW now, NEW c \in Configuring(now), NEW o, OptionOK(o), NEW base,
         ~ConfigOption(c, o, base).excluded
  PROVE  /\ ~c.excluded
         /\ ConfigOption(c, o, base).filters = OwnFilters(o) \o c.filters
         /\ ConfigOption(c, o, base).looking <=> c.looking /\ o.name # "set noparent"
         /\ OwnFilters(o) \in FilterList
<1>. DEFINE d == ConfigOption(c, o, base)
<1>1. ~c.excluded
  BY DEF ConfigOption
<1>2. c.filters \in FilterList /\ <<>> \in FilterList /\ <<>> \o c.filters = c.filters
  <2>1. c.filters \in FilterList
    BY DEF Configuring
  <2>. QED
    BY <2>1 DEF FilterList
<1>3. c = [st |-> c.st, filters |-> c.filters, looking |-> c.looking, excluded |-> c.excluded]
  BY DEF Configuring
<1>4. OwnFilters(o) \in FilterList
  BY <1>2 DEF OwnFilters, OptionOK
<1>5. /\ d.filters = IF o.name = "filter" THEN o.val \o c.filters ELSE c.filters
      /\ d.looking = IF o.name = "set noparent" THEN FALSE ELSE c.looking
  <2>. DEFINE u == [st |-> c.st, filters |-> c.filters, looking |-> c.looking,
                    excluded |-> c.excluded]
  <2>1. d = ConfigOption(u, o, base)
    BY <1>3
  <2>2. CASE o.name = "filter"
    BY <1>1, <2>1, <2>2 DEF ConfigOption
  <2>3. CASE o.name = "set noparent"
    BY <1>1, <2>1, <2>3 DEF ConfigOption
  <2>4. CASE o.name \in {"exclude_files", "linelength", "headers"}
    <3>1. \/ d = [u EXCEPT !.excluded = base \in o.val] \/ d = u
          \/ d = [u EXCEPT !.st.width = o.val] \/ d = [u EXCEPT !.st.extensions = @ \cup o.val]
      BY <1>1, <2>1, <2>4 DEF ConfigOption
    <3>2. d.filters = c.filters /\ d.looking = c.looking
      <4>. HIDE DEF d
      <4>. QED
        BY <3>1
    <3>. QED
      BY <2>4, <3>2
  <2>5. CASE o.name \notin {"filter", "set noparent", "exclude_files", "linelength", "headers"}
    BY <1>1, <2>1, <2>5 DEF ConfigOption
  <2>. QED
    BY <2>2, <2>3, <2>4, <2>5
<1>6. d.filters = OwnFilters(o) \o c.filters
  BY <1>2, <1>5 DEF OwnFilters
<1>7. d.looking <=> c.looking /\ o.name # "set noparent"
  BY <1>5
<1>. QED
  BY <1>1, <1>4, <1>6, <1>7

\* The filters of the first i lines, the last of them first.
Latest(s, i) == [j \in 1 .. i |-> OwnFilters(s[i - j + 1])]

LEMMA LatestNext ==
  ASSUME NEW s, NEW n \in Nat, \A i \in 1 .. n : OwnFilters(s[i]) \in FilterList, NEW i \in 1 .. n
  PROVE  /\ FlattenSeq(Latest(s, i)) = OwnFilters(s[i]) \o FlattenSeq(Latest(s, i - 1))
         /\ FlattenSeq(Latest(s, i - 1)) \in FilterList
<1>. DEFINE S == [sign : STRING, prefix : Seq(STRING)] \cup ToSet(DefaultFilters)
            m == i - 1
            ss == Latest(s, i)
            tt == Latest(s, m)
<1>1. m \in Nat /\ Len(ss) = i /\ Len(tt) = m /\ i = m + 1
  BY DEF Latest
<1>2. m = 0 => tt = <<>>
  BY DEF Latest
<1>3. \A j \in 1 .. i : ss[j] \in Seq(S)
  <2>1. \A j \in 1 .. i : i - j + 1 \in 1 .. n
    OBVIOUS
  <2>2. \A j \in 1 .. n : OwnFilters(s[j]) \in Seq(S)
    BY DEF FilterList
  <2>3. \A j \in 1 .. i : ss[j] = OwnFilters(s[i - j + 1])
    BY DEF Latest
  <2>. HIDE DEF S, ss
  <2>. QED
    BY <2>1, <2>2, <2>3
<1>4. ASSUME NEW j \in 1 .. m PROVE tt[j] = ss[j + 1]
  <2>1. j + 1 \in 1 .. i /\ i - (j + 1) + 1 = m - j + 1
    OBVIOUS
  <2>. QED
    BY <2>1 DEF Latest
<1>5. ss[1] = OwnFilters(s[i])
  BY DEF Latest
<1>6. FlattenSeq(ss) = ss[1] \o FlattenSeq(tt) /\ FlattenSeq(tt) \in Seq(S)
  <2>. HIDE DEF S, ss, tt
  <2>1. Behind(ss, tt, i, S)
    BY <1>1, <1>2, <1>3, <1>4 DEF Behind
  <2>. QED
    BY <2>1, FlattenBehind
<1>. HIDE DEF S, m, ss, tt
<1>. QED
  BY <1>5, <1>6 DEF ss, tt, m, S, FilterList

LEMMA LatestNone ==
  ASSUME NEW s
  PROVE  FlattenSeq(Latest(s, 0)) = <<>>
<1>1. Latest(s, 0) = <<>>
  BY DEF Latest
<1>. QED
  BY <1>1 DEF FlattenSeq

NoStop(s, i) == \A j \in 1 .. i : s[j].name # "set noparent"

\* What i lines have done, unless they exclude the file.
ReadLines(c, s, i, now) ==
  ~now.excluded => /\ ~c.excluded
                   /\ now.filters = FlattenSeq(Latest(s, i)) \o c.filters
                   /\ now.looking <=> c.looking /\ NoStop(s, i)

LEMMA ReadOneLine ==
  ASSUME NEW n \in Nat, NEW s, \A i \in 1 .. n : OptionOK(s[i]), NEW i \in 1 .. n,
         NEW now, NEW c \in Configuring(now), NEW b \in Configuring(now), NEW base,
         ReadLines(b, s, i - 1, c)
  PROVE  ReadLines(b, s, i, ConfigOption(c, s[i], base))
<1>. DEFINE o == s[i]
            d == ConfigOption(c, o, base)
            S == [sign : STRING, prefix : Seq(STRING)] \cup ToSet(DefaultFilters)
<1>1. SUFFICES ASSUME ~d.excluded
               PROVE  /\ ~b.excluded
                      /\ d.filters = FlattenSeq(Latest(s, i)) \o b.filters
                      /\ d.looking <=> b.looking /\ NoStop(s, i)
  BY DEF ReadLines
<1>2. OptionOK(o)
  OBVIOUS
<1>3. /\ ~c.excluded /\ d.filters = OwnFilters(o) \o c.filters
      /\ d.looking <=> c.looking /\ o.name # "set noparent"
      /\ OwnFilters(o) \in FilterList
  BY <1>1, <1>2, ConfigOptionIs
<1>4. /\ ~b.excluded /\ c.filters = FlattenSeq(Latest(s, i - 1)) \o b.filters
      /\ c.looking <=> b.looking /\ NoStop(s, i - 1)
  BY <1>3 DEF ReadLines
<1>5. \A j \in 1 .. n : OwnFilters(s[j]) \in FilterList
  <2>1. <<>> \in FilterList
    BY DEF FilterList
  <2>. QED
    BY <2>1 DEF OwnFilters, OptionOK
<1>6. /\ FlattenSeq(Latest(s, i)) = OwnFilters(o) \o FlattenSeq(Latest(s, i - 1))
      /\ FlattenSeq(Latest(s, i - 1)) \in FilterList
  BY <1>5, LatestNext
<1>7. NoStop(s, i) <=> NoStop(s, i - 1) /\ o.name # "set noparent"
  <2>1. 1 .. i = (1 .. i - 1) \cup {i}
    OBVIOUS
  <2>. QED
    BY <2>1 DEF NoStop
<1>8. b.filters \in FilterList
  BY DEF Configuring
<1>. DEFINE x == OwnFilters(o)
            y == FlattenSeq(Latest(s, i - 1))
            z == b.filters
<1>9. x \in Seq(S) /\ y \in Seq(S) /\ z \in Seq(S)
  BY <1>3, <1>6, <1>8 DEF FilterList
<1>. HIDE DEF x, y, z, S
<1>10. (x \o y) \o z = x \o (y \o z)
  BY <1>9, ConcatAssociates
<1>11. d.filters = FlattenSeq(Latest(s, i)) \o b.filters
  <2>1. d.filters = x \o (y \o z)
    BY <1>3, <1>4 DEF x, y, z
  <2>2. FlattenSeq(Latest(s, i)) = x \o y
    BY <1>6 DEF x, y
  <2>. QED
    BY <1>10, <2>1, <2>2 DEF z
<1>. QED
  BY <1>3, <1>4, <1>7, <1>11

\* A configuration file that does not exclude the file.
LEMMA ConfigReadIs ==
  ASSUME NEW now, NEW c \in Configuring(now), NEW s, OptionList(s), NEW base
  PROVE  ReadLines(c, s, Len(s), ConfigRead(c, s, base))
<1>. DEFINE n == Len(s)
<1>1. PICK K : /\ K[0] = c
               /\ \A i \in 1 .. n : K[i] = ConfigOption(K[i - 1], s[i], base)
               /\ \A i \in 0 .. n : K[i] \in Configuring(now)
               /\ ConfigRead(c, s, base) = K[n]
  BY ConfigTurns
<1>2. n \in Nat /\ \A i \in 1 .. n : OptionOK(s[i])
  BY OptionListIs
<1>. DEFINE OK(i) == ReadLines(c, s, i, K[i])
            Bad == {i \in 0 .. n : ~OK(i)}
<1>. HIDE DEF n
<1>3. OK(0)
  <2>1. FlattenSeq(Latest(s, 0)) = <<>> /\ NoStop(s, 0)
    BY LatestNone DEF NoStop
  <2>2. <<>> \o c.filters = c.filters
    BY DEF Configuring, FilterList
  <2>. QED
    BY <1>1, <2>1, <2>2 DEF ReadLines
<1>4. ASSUME NEW i \in 1 .. n, OK(i - 1) PROVE OK(i)
  <2>1. i - 1 \in 0 .. n /\ K[i - 1] \in Configuring(now)
    BY <1>1, <1>2
  <2>2. ReadLines(c, s, i, ConfigOption(K[i - 1], s[i], base))
    BY <1>2, <1>4, <2>1, ReadOneLine
  <2>. QED
    BY <1>1, <2>2
<1>5. ASSUME Bad # {} PROVE FALSE
  <2>. HIDE DEF OK
  <2>1. Bad \in SUBSET Nat
    OBVIOUS
  <2>2. PICK k \in Bad : \A j \in Bad : k <= j
    BY <1>5, <2>1, LeastExists
  <2>3. k # 0 /\ k \in 0 .. n
    BY <1>3, <2>2
  <2>4. k \in 1 .. n /\ k - 1 \in 0 .. n /\ ~(k <= k - 1)
    BY <1>2, <2>3
  <2>5. OK(k - 1)
    BY <2>2, <2>4
  <2>. QED
    BY <1>4, <2>2, <2>4, <2>5
<1>6. n \in 0 .. n
  BY <1>2
<1>7. OK(n)
  <2>. HIDE DEF OK
  <2>. QED
    BY <1>5, <1>6
<1>. QED
  BY <1>1, <1>7 DEF n

\* The filters of one configuration file, and whether none above it is read.
Mine(configs, here) ==
  IF here \notin DOMAIN configs \/ ~configs[here].readable THEN <<>>
  ELSE FlattenSeq(Latest(configs[here].options, Len(configs[here].options)))

Stopping(configs, here) ==
  /\ here \in DOMAIN configs
  /\ \/ ~configs[here].readable
     \/ \E o \in ToSet(configs[here].options) : o.name = "set noparent"

LEMMA ConfigFileIs ==
  ASSUME NEW now, NEW c \in Configuring(now), NEW configs, ConfigsOK(configs), NEW here, NEW base,
         ~ProcessConfigFile(c, configs, here, base).excluded
  PROVE  LET d == ProcessConfigFile(c, configs, here, base)
         IN  /\ ~c.excluded
             /\ d.filters = (IF c.looking THEN Mine(configs, here) ELSE <<>>) \o c.filters
             /\ d.looking <=> c.looking /\ ~Stopping(configs, here)
<1>. DEFINE d == ProcessConfigFile(c, configs, here, base)
<1>1. <<>> \o c.filters = c.filters
  BY DEF Configuring, FilterList
<1>2. c.looking \in BOOLEAN /\ c.excluded \in BOOLEAN
  BY DEF Configuring
<1>3. CASE ~c.looking \/ here \notin DOMAIN configs \/ c.excluded
  <2>1. d = c
    BY <1>3 DEF ProcessConfigFile
  <2>. QED
    BY <1>1, <1>2, <1>3, <2>1 DEF Mine, Stopping
<1>4. CASE c.looking /\ here \in DOMAIN configs /\ ~c.excluded /\ ~configs[here].readable
  <2>1. d = [c EXCEPT !.looking = FALSE]
    BY <1>4 DEF ProcessConfigFile
  <2>2. d.filters = c.filters /\ d.looking = FALSE
    BY <2>1 DEF Configuring
  <2>. QED
    BY <1>1, <1>2, <1>4, <2>2 DEF Mine, Stopping
<1>5. CASE c.looking /\ here \in DOMAIN configs /\ ~c.excluded /\ configs[here].readable
  <2>. DEFINE s == configs[here].options
  <2>1. d = ConfigRead(c, s, base)
    BY <1>5 DEF ProcessConfigFile, ConfigRead
  <2>2. OptionList(s)
    BY <1>5 DEF ConfigsOK
  <2>3. ReadLines(c, s, Len(s), ConfigRead(c, s, base))
    BY <2>2, ConfigReadIs
  <2>4. d.filters = FlattenSeq(Latest(s, Len(s))) \o c.filters /\ (d.looking <=> c.looking /\ NoStop(s, Len(s)))
    BY <2>1, <2>3 DEF ReadLines
  <2>5. NoStop(s, Len(s)) <=> ~\E o \in ToSet(s) : o.name = "set noparent"
    <3>1. DOMAIN s = 1 .. Len(s)
      BY <2>2, OptionListIs
    <3>. HIDE DEF s
    <3>. QED
      BY <3>1 DEF NoStop, ToSet
  <2>. QED
    BY <1>5, <2>4, <2>5 DEF Mine, Stopping
<1>. QED
  BY <1>2, <1>3, <1>4, <1>5

\* The filters that the k-th directory gives to a file, the root being 0.
OwnAt(configs, dir, k) ==
  IF \E j \in k + 1 .. Len(dir) : Stopping(configs, SubSeq(dir, 1, j)) THEN <<>>
  ELSE Mine(configs, SubSeq(dir, 1, k))

\* Those of the last k directories.
OwnLast(configs, dir, k) == [i \in 1 .. k |-> OwnAt(configs, dir, Len(dir) - k + i)]

\* The configuration after k directories.
ClimbedTo(c, configs, dir, k) ==
  ~c.excluded => /\ c.filters = FlattenSeq(OwnLast(configs, dir, k))
                 /\ c.looking <=> ~\E j \in Len(dir) + 1 - k .. Len(dir) :
                                       Stopping(configs, SubSeq(dir, 1, j))

LEMMA OwnAtType ==
  ASSUME NEW configs, ConfigsOK(configs), NEW dir, NEW k
  PROVE  OwnAt(configs, dir, k) \in FilterList
<1>. DEFINE here == SubSeq(dir, 1, k)
<1>1. <<>> \in FilterList
  BY DEF FilterList
<1>2. CASE here \in DOMAIN configs /\ configs[here].readable
  <2>. DEFINE s == configs[here].options
  <2>1. OptionList(s)
    BY <1>2 DEF ConfigsOK
  <2>2. Len(s) \in Nat /\ \A i \in 1 .. Len(s) : OptionOK(s[i])
    BY <2>1, OptionListIs
  <2>. DEFINE n == Len(s)
  <2>3. \A j \in 1 .. n : OwnFilters(s[j]) \in FilterList
    BY <1>1, <2>2 DEF OwnFilters, OptionOK
  <2>4. FlattenSeq(Latest(s, n)) \in FilterList
    <3>1. n \in Nat
      BY <2>2
    <3>. HIDE DEF s, n
    <3>2. CASE n = 0
      BY <1>1, <3>2, LatestNone
    <3>3. CASE n # 0
      <4>1. n \in 1 .. n
        BY <3>1, <3>3
      <4>2. /\ FlattenSeq(Latest(s, n)) = OwnFilters(s[n]) \o FlattenSeq(Latest(s, n - 1))
            /\ FlattenSeq(Latest(s, n - 1)) \in FilterList
        BY <2>3, <3>1, <4>1, LatestNext
      <4>3. OwnFilters(s[n]) \in FilterList
        BY <2>3, <4>1
      <4>. QED
        BY <4>2, <4>3 DEF FilterList
    <3>. QED
      BY <3>2, <3>3
  <2>5. Mine(configs, here) = FlattenSeq(Latest(s, n))
    BY <1>2 DEF Mine
  <2>. HIDE DEF s, n, here
  <2>6. Mine(configs, here) \in FilterList
    BY <2>4, <2>5
  <2>. QED
    BY <1>1, <2>6 DEF OwnAt, here
<1>3. CASE ~(here \in DOMAIN configs /\ configs[here].readable)
  BY <1>1, <1>3 DEF OwnAt, Mine
<1>. QED
  BY <1>2, <1>3

LEMMA ClimbOne ==
  ASSUME NEW now, NEW c \in Configuring(now), NEW configs, ConfigsOK(configs), NEW name,
         NEW dir, Len(dir) \in Nat, NEW k \in 1 .. Len(dir) + 1, ClimbedTo(c, configs, dir, k - 1)
  PROVE  ClimbedTo(ConfigStep(c, configs, dir, name, k), configs, dir, k)
<1>. DEFINE n == Len(dir)
            m == k - 1
            S == [sign : STRING, prefix : Seq(STRING)] \cup ToSet(DefaultFilters)
            here == SubSeq(dir, 1, n + 1 - k)
            base == IF k = 1 THEN name ELSE dir[n + 1 - k + 1]
            d == ProcessConfigFile(c, configs, here, base)
            ss == OwnLast(configs, dir, k)
            tt == OwnLast(configs, dir, m)
            Stops(j) == Stopping(configs, SubSeq(dir, 1, j))
<1>1. d = ConfigStep(c, configs, dir, name, k)
  BY DEF ConfigStep
<1>2. SUFFICES ASSUME ~d.excluded
               PROVE  /\ d.filters = FlattenSeq(ss)
                      /\ d.looking <=> ~\E j \in n + 1 - k .. n : Stops(j)
  BY <1>1 DEF ClimbedTo
<1>3. /\ ~c.excluded
      /\ d.filters = (IF c.looking THEN Mine(configs, here) ELSE <<>>) \o c.filters
      /\ d.looking <=> c.looking /\ ~Stopping(configs, here)
  <2>. HIDE DEF here, base
  <2>. QED
    BY <1>2, ConfigFileIs
<1>4. /\ c.filters = FlattenSeq(tt)
      /\ c.looking <=> ~\E j \in n + 1 - m .. n : Stops(j)
  BY <1>3 DEF ClimbedTo
<1>5. n + 1 - k .. n = (n + 1 - m .. n) \cup {n + 1 - k}
  OBVIOUS
<1>6. d.looking <=> ~\E j \in n + 1 - k .. n : Stops(j)
  <2>1. Stopping(configs, here) <=> Stops(n + 1 - k)
    OBVIOUS
  <2>. DEFINE A == n + 1 - k .. n
              B == n + 1 - m .. n
              x == n + 1 - k
  <2>2. A = B \cup {x}
    BY <1>5
  <2>. HIDE DEF A, B, x, Stops, here
  <2>. QED
    BY <1>3, <1>4, <2>1, <2>2 DEF A, B, x
<1>7. ss[1] = IF c.looking THEN Mine(configs, here) ELSE <<>>
  <2>1. ss[1] = OwnAt(configs, dir, n - k + 1)
    BY DEF OwnLast
  <2>2. n - k + 1 + 1 = n + 1 - m /\ n - k + 1 = n + 1 - k
    OBVIOUS
  <2>3. OwnAt(configs, dir, n - k + 1) = IF \E j \in n + 1 - m .. n : Stops(j) THEN <<>>
                                         ELSE Mine(configs, here)
    BY <2>2 DEF OwnAt
  <2>. HIDE DEF ss, Stops, here
  <2>. QED
    BY <1>4, <2>1, <2>3
<1>8. FlattenSeq(ss) = ss[1] \o FlattenSeq(tt)
  <2>1. m \in Nat /\ k = m + 1 /\ Len(ss) = k /\ Len(tt) = m /\ (m = 0 => tt = <<>>)
    BY DEF OwnLast
  <2>2. \A i \in 1 .. k : ss[i] \in Seq(S)
    BY OwnAtType DEF OwnLast, FilterList
  <2>3. ASSUME NEW i \in 1 .. m PROVE tt[i] = ss[i + 1]
    <3>1. i + 1 \in 1 .. k /\ n - m + i = n - k + (i + 1)
      OBVIOUS
    <3>. QED
      BY <3>1 DEF OwnLast
  <2>. HIDE DEF ss, tt, S
  <2>4. Behind(ss, tt, k, S)
    BY <2>1, <2>2, <2>3 DEF Behind
  <2>. QED
    BY <2>4, FlattenBehind
<1>. QED
  BY <1>3, <1>4, <1>6, <1>7, <1>8

\* The filters of all directories on the way to a file.
OwnAll(configs, dir) == FlattenSeq([k \in 1 .. Len(dir) + 1 |-> OwnAt(configs, dir, k - 1)])

LEMMA ClimbedAll ==
  ASSUME NEW now \in Settings, NEW configs, ConfigsOK(configs), NEW name,
         NEW dir, Len(dir) \in Nat, NEW K, Climbs(K, now, dir, name, configs)
  PROVE  ClimbedTo(K[Len(dir) + 1], configs, dir, Len(dir) + 1)
<1>. DEFINE n == Len(dir) + 1
            OK(i) == ClimbedTo(K[i], configs, dir, i)
            Bad == {i \in 0 .. n : ~OK(i)}
<1>1. n \in Nat /\ n = Len(dir) + 1
  OBVIOUS
<1>2. OK(0)
  <2>1. K[0] = ConfigStart(now)
    BY DEF Climbs
  <2>2. OwnLast(configs, dir, 0) = <<>>
    BY DEF OwnLast
  <2>3. FlattenSeq(OwnLast(configs, dir, 0)) = <<>>
    BY <2>2 DEF FlattenSeq
  <2>4. Len(dir) + 1 - 0 .. Len(dir) = {}
    OBVIOUS
  <2>. QED
    BY <2>1, <2>3, <2>4 DEF ClimbedTo, ConfigStart
<1>3. ASSUME NEW i \in 1 .. n, OK(i - 1) PROVE OK(i)
  <2>1. i - 1 \in 0 .. n
    OBVIOUS
  <2>2. K[i] = ConfigStep(K[i - 1], configs, dir, name, i) /\ K[i - 1] \in Configuring(now)
    BY <2>1 DEF Climbs
  <2>3. ClimbedTo(ConfigStep(K[i - 1], configs, dir, name, i), configs, dir, i)
    BY <1>3, <2>2, ClimbOne
  <2>. QED
    BY <2>2, <2>3
<1>4. ASSUME Bad # {} PROVE FALSE
  <2>. HIDE DEF OK, n
  <2>1. Bad \in SUBSET Nat
    OBVIOUS
  <2>2. PICK k \in Bad : \A j \in Bad : k <= j
    BY <1>4, <2>1, LeastExists
  <2>3. k # 0 /\ k \in 0 .. n
    BY <1>2, <2>2
  <2>4. k \in 1 .. n /\ k - 1 \in 0 .. n /\ ~(k <= k - 1)
    BY <1>1, <2>3
  <2>5. OK(k - 1)
    BY <2>2, <2>4
  <2>. QED
    BY <1>3, <2>2, <2>4, <2>5
<1>5. OK(n)
  <2>1. n \in 0 .. n
    BY <1>1
  <2>. HIDE DEF OK
  <2>. QED
    BY <1>4, <2>1
<1>. QED
  BY <1>5

\* The filters after the configuration of a file that is not excluded.
LEMMA OverridesAdd ==
  ASSUME NEW t \in Settings, NEW dir, Len(dir) \in Nat, NEW name, NEW configs, ConfigsOK(configs),
         ~ProcessConfigOverrides(BackupFilters(t), dir, name, configs).excluded
  PROVE  ProcessConfigOverrides(BackupFilters(t), dir, name, configs).st.filters
           = t.filters \o OwnAll(configs, dir)
<1>. DEFINE b == BackupFilters(t)
            c == ProcessConfigOverrides(b, dir, name, configs)
            n == Len(dir) + 1
<1>1. b \in Settings /\ b.filters = t.filters
  BY RestoreIs
<1>. HIDE DEF b
<1>2. PICK K : Climbs(K, b, dir, name, configs)
  BY <1>1, WayUp
<1>. DEFINE k == K[n]
<1>3. n \in 0 .. n
  OBVIOUS
<1>4. k \in Configuring(b) /\ c = Configured(k)
  BY <1>2, <1>3 DEF Climbs
<1>5. ClimbedTo(k, configs, dir, n)
  BY <1>1, <1>2, ClimbedAll
<1>. HIDE DEF k, c
<1>6. ~k.excluded
  BY <1>4 DEF Configured, c, b
<1>7. k.filters = FlattenSeq(OwnLast(configs, dir, n))
  BY <1>5, <1>6 DEF ClimbedTo
<1>8. OwnLast(configs, dir, n) = [i \in 1 .. Len(dir) + 1 |-> OwnAt(configs, dir, i - 1)]
  <2>1. \A i \in 1 .. n : Len(dir) - n + i = i - 1
    OBVIOUS
  <2>. QED
    BY <2>1 DEF OwnLast
<1>9. c.st = AddFilters(k.st, k.filters)
  BY <1>4, <1>6 DEF Configured
<1>10. c.st.filters = k.st.filters \o k.filters
  BY <1>4, <1>9 DEF AddFilters, Configuring, Settings
<1>11. k.st.filters = t.filters
  BY <1>1, <1>4 DEF Configuring
<1>12. k.filters = OwnAll(configs, dir)
  BY <1>7, <1>8 DEF OwnAll
<1>. QED
  BY <1>10, <1>11, <1>12 DEF c, b

\* What is promised about the filters for a file, step by step.
LEMMA FiltersForIs ==
  ASSUME InputOK, NEW f
  PROVE  FiltersFor(f) = DefaultFilters \o Given("filter", <<>>) \o OwnAll(disk.configs, Path[f].dir)
<1>. DEFINE dir == Path[f].dir
            configs == disk.configs
            Stops(k) == /\ SubSeq(dir, 1, k) \in DOMAIN configs
                        /\ \/ ~configs[SubSeq(dir, 1, k)].readable
                           \/ \E o \in ToSet(configs[SubSeq(dir, 1, k)].options) : o.name = "set noparent"
            Own(k) == IF SubSeq(dir, 1, k) \notin DOMAIN configs \/ (\E j \in k + 1..Len(dir) : Stops(j))
                         \/ ~configs[SubSeq(dir, 1, k)].readable
                      THEN <<>>
                      ELSE FlattenSeq(Reverse([i \in DOMAIN configs[SubSeq(dir, 1, k)].options |->
                         LET o == configs[SubSeq(dir, 1, k)].options[i] IN
                         IF o.name = "filter" THEN o.val ELSE <<>>]))
<1>1. FiltersFor(f) = DefaultFilters \o Given("filter", <<>>)
                      \o FlattenSeq([k \in 1..Len(dir) + 1 |-> Own(k - 1)])
  BY DEF FiltersFor
<1>2. ASSUME NEW k PROVE Own(k) = OwnAt(configs, dir, k)
  <2>. DEFINE here == SubSeq(dir, 1, k)
  <2>1. \A j : Stops(j) <=> Stopping(configs, SubSeq(dir, 1, j))
    BY DEF Stopping
  <2>2. CASE here \notin DOMAIN configs \/ ~configs[here].readable
    BY <2>2 DEF OwnAt, Mine
  <2>3. CASE here \in DOMAIN configs /\ configs[here].readable
    <3>. DEFINE s == configs[here].options
                r == [i \in DOMAIN s |-> LET o == s[i] IN IF o.name = "filter" THEN o.val ELSE <<>>]
    <3>1. OptionList(s)
      BY <2>3 DEF InputOK, ConfigsOK
    <3>2. Len(s) \in Nat /\ DOMAIN s = 1 .. Len(s)
      BY <3>1, OptionListIs
    <3>3. Reverse(r) = Latest(s, Len(s))
      <4>. DEFINE n == Len(s)
      <4>. HIDE DEF s
      <4>1. Len(r) = n
        BY <3>2
      <4>2. \A i \in 1 .. n : n - i + 1 \in 1 .. n
        BY <3>2
      <4>3. \A i \in 1 .. n : r[n - i + 1] = OwnFilters(s[n - i + 1])
        BY <3>2, <4>2 DEF OwnFilters
      <4>. HIDE DEF r, n
      <4>4. Reverse(r) = [i \in 1 .. n |-> r[n - i + 1]]
        BY <4>1 DEF Reverse
      <4>5. Latest(s, n) = [i \in 1 .. n |-> OwnFilters(s[n - i + 1])]
        BY DEF Latest
      <4>6. Reverse(r) = Latest(s, n)
        BY <4>3, <4>4, <4>5
      <4>. QED
        BY <4>6 DEF n
    <3>4. Mine(configs, here) = FlattenSeq(Reverse(r))
      BY <2>3, <3>3 DEF Mine
    <3>5. Own(k) = IF \E j \in k + 1..Len(dir) : Stops(j) THEN <<>> ELSE FlattenSeq(Reverse(r))
      BY <2>3
    <3>6. OwnAt(configs, dir, k) = IF \E j \in k + 1 .. Len(dir) : Stopping(configs, SubSeq(dir, 1, j))
                                   THEN <<>> ELSE Mine(configs, here)
      BY DEF OwnAt
    <3>. HIDE DEF r, Stops, Own, here
    <3>. QED
      BY <2>1, <3>4, <3>5, <3>6
  <2>. QED
    BY <2>2, <2>3
<1>. HIDE DEF Own
<1>3. [k \in 1..Len(dir) + 1 |-> Own(k - 1)] = [k \in 1..Len(dir) + 1 |-> OwnAt(configs, dir, k - 1)]
  BY <1>2
<1>. QED
  BY <1>1, <1>3 DEF OwnAll

\* What a filter does to the judgement on a category.
FilterTurn(f, category, out) == IF IsPrefix(f.prefix, category) THEN f.sign = "-" ELSE out

\* The filters are looked at one by one.
LEMMA FilterTurns ==
  ASSUME NEW W, NEW fs \in Seq(W), NEW category
  PROVE  \E K : /\ K[0] = FALSE
                /\ \A i \in 1 .. Len(fs) : K[i] = FilterTurn(fs[i], category, K[i - 1])
                /\ \A i \in 0 .. Len(fs) : K[i] \in BOOLEAN
                /\ Filtered(fs, category) = K[Len(fs)]
<1>. DEFINE n == Len(fs)
            S == BOOLEAN
            F == [x \in (1 .. n) \X S |-> FilterTurn(fs[x[1]], category, x[2])]
            Val(g, T) == IF T = {} THEN FALSE ELSE FilterTurn(fs[Max(T)], category, g[T \ {Max(T)}])
            P == SUBSET (1 .. n)
<1>1. n \in Nat /\ DOMAIN fs = 1 .. n
  BY IndicesOfSeq
<1>2. FALSE \in S
  OBVIOUS
<1>3. ASSUME NEW i \in 1 .. n, NEW a \in S
      PROVE  F[<<i, a>>] = FilterTurn(fs[i], category, a) /\ F[<<i, a>>] \in S
  <2>1. F[<<i, a>>] = FilterTurn(fs[i], category, a)
    OBVIOUS
  <2>. QED
    BY <1>1, <2>1, Zenon DEF FilterTurn
<1>. HIDE DEF F
<1>4. PICK G : FoldOf(G, F, n, FALSE, S)
  <2>1. FoldStep(F, n, S)
    BY <1>3 DEF FoldStep
  <2>. HIDE DEF n, S
  <2>. QED
    BY <1>1, <1>2, <2>1, FoldExists
<1>5. \A T \in P : T # {} => Max(T) \in 1 .. n /\ T \ {Max(T)} \in P
  BY <1>1, GreatestAndRest
<1>6. G = [T \in P |-> Val(G, T)] /\ \A T \in P : G[T] \in S
  <2>. HIDE DEF P, S
  <2>3. /\ G = [T \in P |-> IF T = {} THEN FALSE ELSE F[<<Max(T), G[T \ {Max(T)}]>>]]
        /\ \A T \in P : G[T] \in S
    BY <1>4 DEF FoldOf, P
  <2>1. \A T \in P : G[T] = Val(G, T)
    BY <1>3, <1>5, <2>3
  <2>2. G = [T \in P |-> G[T]]
    BY <2>3
  <2>. QED
    BY <2>1, <2>2, <2>3
<1>. DEFINE g == CHOOSE f : f = [T \in P |-> Val(f, T)]
<1>7. g = [T \in P |-> Val(g, T)]
  BY <1>6
<1>8. Filtered(fs, category) = g[1 .. n]
  BY <1>1 DEF Filtered, FilterTurn, FoldLeft, MapThenFoldSet
<1>. HIDE DEF g
<1>9. \A T \in P : g[T] = Val(g, T)
  BY <1>7
<1>. DEFINE K == [i \in 0 .. n |-> g[1 .. i]]
<1>10. 1 .. 0 = {} /\ 1 .. 0 \in P /\ 0 \in 0 .. n /\ n \in 0 .. n
  BY <1>1
<1>11. K[0] = FALSE /\ K[n] = g[1 .. n]
  BY <1>9, <1>10
<1>12. ASSUME NEW i \in 1 .. n PROVE K[i] = FilterTurn(fs[i], category, K[i - 1]) /\ i \in 0 .. n /\ i - 1 \in 0 .. n
  <2>1. i \in 0 .. n /\ i - 1 \in 0 .. n
    BY <1>1
  <2>2. 1 .. i \in P /\ 1 .. i # {} /\ Max(1 .. i) = i /\ (1 .. i) \ {Max(1 .. i)} = 1 .. i - 1
    BY <1>1, FirstNumbers
  <2>3. g[1 .. i] = FilterTurn(fs[i], category, g[1 .. i - 1])
    BY <1>9, <2>2
  <2>. QED
    BY <2>1, <2>3
<1>13. \A i \in 0 .. n : K[i] \in S
  <2>. DEFINE OK(i) == K[i] \in S
              Bad == {i \in 0 .. n : ~OK(i)}
  <2>1. OK(0)
    BY <1>2, <1>11
  <2>2. ASSUME NEW i \in 1 .. n, OK(i - 1) PROVE OK(i)
    <3>1. K[i] = FilterTurn(fs[i], category, K[i - 1])
      BY <1>12
    <3>. DEFINE x == K[i - 1]
    <3>2. x \in S
      BY <2>2
    <3>. HIDE DEF K, S, x
    <3>3. FilterTurn(fs[i], category, x) \in S
      BY ONLY <1>3, <3>2
    <3>. QED
      BY <3>1, <3>3 DEF x
  <2>3. CASE Bad # {}
    <3>1. Bad \in SUBSET Nat
      OBVIOUS
    <3>2. PICK k \in Bad : \A j \in Bad : k <= j
      BY <2>3, <3>1, LeastExists
    <3>. HIDE DEF OK
    <3>3. k # 0 /\ k \in 0 .. n
      BY <2>1, <3>2
    <3>4. k \in 1 .. n /\ k - 1 \in 0 .. n /\ ~(k <= k - 1)
      BY <1>1, <3>3
    <3>5. OK(k - 1)
      BY <3>2, <3>4
    <3>. QED
      BY <2>2, <3>2, <3>4, <3>5
  <2>. QED
    BY <2>3
<1>. HIDE DEF K
<1>. QED
  BY <1>8, <1>11, <1>12, <1>13

\* The last of the first i filters that fits.
LastFits(fs, i, category) ==
  LET I == {j \in 1 .. i : IsPrefix(fs[j].prefix, category)} IN I # {} /\ fs[Max(I)].sign = "-"

LEMMA LastFitsNext ==
  ASSUME NEW fs, NEW i \in Nat \ {0}, NEW category
  PROVE  LastFits(fs, i, category) <=> IF IsPrefix(fs[i].prefix, category) THEN fs[i].sign = "-"
                                       ELSE LastFits(fs, i - 1, category)
<1>. DEFINE Fits(j) == IsPrefix(fs[j].prefix, category)
            I == {j \in 1 .. i : Fits(j)}
            H == {j \in 1 .. i - 1 : Fits(j)}
<1>1. CASE Fits(i)
  <2>. HIDE DEF Fits
  <2>1. i \in I /\ I \in SUBSET Int /\ \A j \in I : i >= j
    BY <1>1
  <2>. HIDE DEF I
  <2>2. Max(I) = i /\ I # {}
    BY <2>1, MaxIs
  <2>. QED
    BY <1>1, <2>2 DEF LastFits, I, Fits
<1>2. CASE ~Fits(i)
  <2>1. I = H
    <3>. HIDE DEF Fits
    <3>1. ASSUME NEW j \in I PROVE j \in H
      <4>1. j # i
        BY <1>2
      <4>. QED
        BY <4>1
    <3>2. H \subseteq I
      OBVIOUS
    <3>. QED
      BY <3>1, <3>2
  <2>. QED
    BY <1>2, <2>1 DEF LastFits
<1>. QED
  BY <1>1, <1>2

\* A category is filtered when the last filter that fits hides it.
LEMMA FilteredIs ==
  ASSUME NEW T, NEW fs \in Seq(T), NEW category
  PROVE  Filtered(fs, category) <=> LastFits(fs, Len(fs), category)
<1>. DEFINE n == Len(fs)
<1>1. PICK K : /\ K[0] = FALSE
               /\ \A i \in 1 .. n : K[i] = FilterTurn(fs[i], category, K[i - 1])
               /\ \A i \in 0 .. n : K[i] \in BOOLEAN
               /\ Filtered(fs, category) = K[n]
  BY FilterTurns
<1>. DEFINE OK(i) == K[i] <=> LastFits(fs, i, category)
            Bad == {i \in 0 .. n : ~OK(i)}
<1>2. n \in Nat
  OBVIOUS
<1>. HIDE DEF n
<1>3. OK(0)
  BY <1>1 DEF LastFits
<1>4. ASSUME NEW i \in 1 .. n, OK(i - 1) PROVE OK(i)
  <2>1. i \in Nat \ {0} /\ K[i] = FilterTurn(fs[i], category, K[i - 1])
    BY <1>1, <1>2
  <2>2. LastFits(fs, i, category) <=> IF IsPrefix(fs[i].prefix, category) THEN fs[i].sign = "-"
                                       ELSE LastFits(fs, i - 1, category)
    BY <2>1, LastFitsNext
  <2>. QED
    BY <1>4, <2>1, <2>2, Zenon DEF FilterTurn
<1>5. ASSUME Bad # {} PROVE FALSE
  <2>. HIDE DEF OK
  <2>1. Bad \in SUBSET Nat
    OBVIOUS
  <2>2. PICK k \in Bad : \A j \in Bad : k <= j
    BY <1>5, <2>1, LeastExists
  <2>3. k # 0 /\ k \in 0 .. n
    BY <1>3, <2>2
  <2>4. k \in 1 .. n /\ k - 1 \in 0 .. n /\ ~(k <= k - 1)
    BY <1>2, <2>3
  <2>5. OK(k - 1)
    BY <2>2, <2>4
  <2>. QED
    BY <1>4, <2>2, <2>4, <2>5
<1>6. n \in 0 .. n
  BY <1>2
<1>7. OK(n)
  <2>. HIDE DEF OK
  <2>. QED
    BY <1>5, <1>6
<1>. QED
  BY <1>1, <1>7 DEF n

\* Hidden is what the filters for a file say.
LEMMA HiddenIs ==
  ASSUME NEW f, FiltersFor(f) \in FilterList, NEW category
  PROVE  Hidden(f, category) <=> Filtered(FiltersFor(f), category)
<1>. DEFINE fs == FiltersFor(f)
            I == {i \in DOMAIN fs : IsPrefix(fs[i].prefix, category)}
            J == {i \in 1 .. Len(fs) : IsPrefix(fs[i].prefix, category)}
<1>1. Hidden(f, category) <=> I # {} /\ fs[Max(I)].sign = "-"
  BY DEF Hidden
<1>2. LastFits(fs, Len(fs), category) <=> J # {} /\ fs[Max(J)].sign = "-"
  BY DEF LastFits
<1>3. DOMAIN fs = 1 .. Len(fs)
  BY DEF FilterList
<1>4. I = J
  BY <1>3
<1>5. Filtered(fs, category) <=> LastFits(fs, Len(fs), category)
  <2>. HIDE DEF fs
  <2>. QED
    BY FilteredIs DEF FilterList, fs
<1>. HIDE DEF fs, I, J
<1>6. Filtered(fs, category) <=> Hidden(f, category)
  BY <1>1, <1>2, <1>4, <1>5
<1>. QED
  BY <1>6 DEF fs

-----------------------------------------------------------------------------
\* The settings while a file is checked are those that are promised.
IsFile(f) ==
  f = [name |-> f.name, path |-> f.path, clean |-> f.clean, at |-> f.at, nest |-> f.nest,
       fn |-> f.fn, inc |-> f.inc]

FilterInv ==
  /\ IsFile(file)
  /\ phase \in {"open", "lines"} =>
       /\ file.name \in ToSet(command.files) /\ file.path = Path[file.name]
       /\ st.filters = FiltersFor(file.name) /\ st.verbose = Given("verbose", 1)

LEMMA FilterNext ==
  ASSUME InputOK, SettingsInv, FilterInv, Next
  PROVE  FilterInv'
<1>1. command' = command /\ disk' = disk
  BY InputStays
<1>2. ASSUME IsFile(file'), phase' \in {"open", "lines"} =>
               /\ file'.name \in ToSet(command.files) /\ file'.path = Path[file'.name]
               /\ st'.filters = FiltersFor(file'.name) /\ st'.verbose = Given("verbose", 1)
      PROVE  FilterInv'
  BY <1>1, <1>2 DEF FilterInv, FiltersFor, Given, IsFile
<1>0. IsFile(file) /\ IsFile(NoFile)
  BY DEF FilterInv, IsFile, NoFile
<1>3. CASE ParseArguments
  <2>1. phase' \notin {"open", "lines"} /\ file' = file
    BY <1>3 DEF ParseArguments, Exit
  <2>. QED
    BY <1>0, <1>2, <2>1
<1>4. CASE Configure
  <2>. DEFINE name == Head(todo)
              dir == Path[name].dir
              c == ProcessConfigOverrides(BackupFilters(st), dir, name, disk.configs)
              f == [NoFile EXCEPT !.name = name, !.path = Path[name]]
  <2>1. phase = "next" /\ todo # <<>> /\ SetByOptions(st, command.options) /\ st \in Settings
    BY <1>4 DEF Configure, SettingsInv
  <2>2. name \in ToSet(command.files) /\ Len(dir) \in Nat /\ ConfigsOK(disk.configs)
    BY <2>1, TodoNext DEF InputOK
  <2>3. c.st.verbose = st.verbose
    BY <2>1, <2>2, OverridesKeep
  <2>4. ASSUME ~c.excluded PROVE c.st.filters = FiltersFor(name) /\ c.st.verbose = Given("verbose", 1)
    <3>1. c.st.filters = st.filters \o OwnAll(disk.configs, dir)
      <4>. HIDE DEF name, dir
      <4>. QED
        BY <2>1, <2>2, <2>4, OverridesAdd
    <3>2. st.filters = DefaultFilters \o Given("filter", <<>>) /\ st.verbose = Given("verbose", 1)
      BY <2>1, GivenIs DEF SetByOptions
    <3>3. FiltersFor(name) = DefaultFilters \o Given("filter", <<>>) \o OwnAll(disk.configs, dir)
      BY FiltersForIs
    <3>. HIDE DEF c
    <3>. QED
      BY <2>3, <3>1, <3>2, <3>3
  <2>5. \/ phase' \in {"next", "ended"} /\ file' = file
        \/ ~c.excluded /\ st' = c.st /\ file' = f
    BY <2>1, <1>4 DEF Configure, Exit
  <2>. DEFINE p == Path[name]
  <2>. HIDE DEF c, p, name
  <2>6. ASSUME file' = [NoFile EXCEPT !.name = name, !.path = p]
        PROVE  IsFile(file') /\ file'.name = name /\ file'.path = p
    BY <1>0, <2>6 DEF IsFile
  <2>7. file' = f => file' = [NoFile EXCEPT !.name = name, !.path = p]
    BY DEF p
  <2>. HIDE DEF f
  <2>8. CASE phase' \in {"next", "ended"} /\ file' = file
    BY <1>0, <1>2, <2>8
  <2>9. CASE ~c.excluded /\ st' = c.st /\ file' = f
    BY <1>2, <2>2, <2>4, <2>6, <2>7, <2>9 DEF p
  <2>. QED
    BY <2>5, <2>8, <2>9
<1>5. CASE Leave
  <2>1. phase' \notin {"open", "lines"} /\ file' = NoFile
    BY <1>5 DEF Leave
  <2>. QED
    BY <1>0, <1>2, <2>1
<1>6. ASSUME phase \in {"open", "lines"}, IsFile(file'), file'.name = file.name,
             file'.path = file.path, st' = st
      PROVE  FilterInv'
  BY <1>2, <1>6 DEF FilterInv
<1>7. CASE OpenFile
  <2>1. CASE Leave
    BY <1>5, <2>1
  <2>2. CASE ~Leave
    <3>1. PICK clean : file' = [file EXCEPT !.clean = clean, !.at = 1]
      BY <1>7, <2>2 DEF OpenFile
    <3>2. IsFile(file') /\ file'.name = file.name /\ file'.path = file.path
      BY <1>0, <3>1 DEF IsFile
    <3>. QED
      BY <1>6, <1>7, <2>2, <3>2 DEF OpenFile
  <2>. QED
    BY <2>1, <2>2
<1>8. CASE ProcessLine
  <2>1. \/ \E nest : file' = [file EXCEPT !.at = file.at + 1, !.nest = nest]
        \/ \E nest, fn, inc : file' = [file EXCEPT !.at = file.at + 1, !.nest = nest, !.fn = fn, !.inc = inc]
    BY <1>8 DEF ProcessLine
  <2>2. IsFile(file') /\ file'.name = file.name /\ file'.path = file.path
    BY <1>0, <2>1 DEF IsFile
  <2>. QED
    BY <1>6, <1>8, <2>2 DEF ProcessLine
<1>9. CASE FinishFile
  BY <1>5, <1>9 DEF FinishFile
<1>10. CASE Finish
  <2>1. phase' \notin {"open", "lines"} /\ file' = file
    BY <1>10 DEF Finish, Exit
  <2>. QED
    BY <1>0, <1>2, <2>1
<1>. QED
  BY <1>3, <1>4, <1>7, <1>8, <1>9, <1>10 DEF Next

-----------------------------------------------------------------------------
\* A sequence of whatever elements.
IsList(s) == s \in Seq(ToSet(s))

LEMMA ListIs ==
  ASSUME NEW S, NEW s \in Seq(S)
  PROVE  IsList(s)
<1>1. Len(s) \in Nat /\ DOMAIN s = 1 .. Len(s) /\ s = [i \in 1 .. Len(s) |-> s[i]]
  BY IndicesOfSeq
<1>2. \A i \in 1 .. Len(s) : s[i] \in ToSet(s)
  BY <1>1 DEF ToSet
<1>. QED
  BY <1>1, <1>2, FunctionIsSeq DEF IsList

\* Errors of known categories, none at a line that a line in U may excuse.
ErrorsBut(es, U) ==
  /\ IsList(es)
  /\ \A e \in ToSet(es) : e.category \in Categories /\ \A i \in U : e.line # i /\ e.line # i + 1

LEMMA NoErrors ==
  ASSUME NEW U
  PROVE  ErrorsBut(<<>>, U)
<1>1. <<>> \in Seq({}) /\ ToSet(<<>>) = {}
  BY DEF ToSet
<1>. QED
  BY <1>1 DEF ErrorsBut, IsList

LEMMA OneError ==
  ASSUME NEW U, NEW l, \A i \in U : l # i /\ l # i + 1, NEW category \in Categories, NEW confidence
  PROVE  ErrorsBut(Found(l, category, confidence), U)
<1>. DEFINE e == [line |-> l, category |-> category, confidence |-> confidence]
<1>1. Found(l, category, confidence) = <<e>> /\ e.category = category /\ e.line = l
  BY DEF Found
<1>. HIDE DEF e
<1>2. <<e>> \in Seq({e}) /\ ToSet(<<e>>) = {e}
  BY DEF ToSet
<1>. QED
  BY <1>1, <1>2 DEF ErrorsBut, IsList

LEMMA WhenErrors ==
  ASSUME NEW U, NEW c, NEW es, c => ErrorsBut(es, U)
  PROVE  ErrorsBut(When(c, es), U)
BY NoErrors DEF When

LEMMA BothErrors ==
  ASSUME NEW U, NEW es, NEW fs, ErrorsBut(es, U), ErrorsBut(fs, U)
  PROVE  ErrorsBut(es \o fs, U)
<1>. DEFINE A == ToSet(es) \cup ToSet(fs)
<1>1. es \in Seq(ToSet(es)) /\ fs \in Seq(ToSet(fs))
  BY DEF ErrorsBut, IsList
<1>2. ToSet(es) \subseteq A /\ ToSet(fs) \subseteq A
  OBVIOUS
<1>. HIDE DEF A
<1>3. es \in Seq(A) /\ fs \in Seq(A)
  BY <1>1, <1>2
<1>4. es \o fs \in Seq(A) /\ ToSet(es \o fs) = A
  BY <1>3, ConcatElements DEF A
<1>5. \A e \in A : e.category \in Categories /\ \A i \in U : e.line # i /\ e.line # i + 1
  BY DEF A, ErrorsBut
<1>. QED
  BY <1>4, <1>5 DEF ErrorsBut, IsList

LEMMA FewerLines ==
  ASSUME NEW U, NEW V \in SUBSET U, NEW es, ErrorsBut(es, U)
  PROVE  ErrorsBut(es, V)
BY DEF ErrorsBut

\* Many lists of errors.
LEMMA ManyErrors ==
  ASSUME NEW U, NEW ss, NEW n \in Nat, Len(ss) = n, n = 0 => ss = <<>>,
         \A i \in 1 .. n : ErrorsBut(ss[i], U)
  PROVE  ErrorsBut(FlattenSeq(ss), U)
<1>. DEFINE S == UNION {ToSet(ss[i]) : i \in 1 .. n}
<1>1. ASSUME NEW i \in 1 .. n PROVE ss[i] \in Seq(S)
  <2>1. ss[i] \in Seq(ToSet(ss[i])) /\ ToSet(ss[i]) \subseteq S
    BY DEF ErrorsBut, IsList
  <2>. HIDE DEF S
  <2>. QED
    BY <2>1
<1>2. \A e \in S : e.category \in Categories /\ \A i \in U : e.line # i /\ e.line # i + 1
  BY DEF ErrorsBut
<1>. HIDE DEF S
<1>3. FlattenSeq(ss) \in Seq(S) /\ ToSet(FlattenSeq(ss)) = UNION {ToSet(ss[i]) : i \in 1 .. n}
  BY <1>1, FlattenElements
<1>4. FlattenSeq(ss) \in Seq(S) /\ ToSet(FlattenSeq(ss)) = S
  BY <1>3 DEF S
<1>. QED
  BY <1>2, <1>4 DEF ErrorsBut, IsList

\* The elements of a finite set in some order.
LEMMA SetInOrder ==
  ASSUME NEW S, IsFiniteSet(S)
  PROVE  /\ Len(SetToSeq(S)) \in Nat
         /\ Len(SetToSeq(S)) = 0 => SetToSeq(S) = <<>>
         /\ \A i \in 1 .. Len(SetToSeq(S)) : SetToSeq(S)[i] \in S
<1>. DEFINE n == Cardinality(S)
<1>1. n \in Nat
  BY FS_CardinalityType
<1>2. PICK f \in Bijection(1 .. n, S) : TRUE
  BY FS_NatBijection, FS_CardinalityType DEF ExistsBijection
<1>3. f \in [1 .. n -> S] /\ IsInjective(f)
  BY <1>2 DEF Bijection, Injection, IsInjective
<1>4. SetToSeq(S) \in [1 .. n -> S]
  BY <1>3 DEF SetToSeq
<1>. DEFINE s == SetToSeq(S)
<1>. HIDE DEF s, n
<1>5. s \in Seq(S) /\ Len(s) = n
  BY <1>1, <1>4 DEF s
<1>. QED
  BY <1>1, <1>5 DEF s

LEMMA ErrorsOfSet ==
  ASSUME NEW U, NEW S, IsFiniteSet(S), \A es \in S : ErrorsBut(es, U)
  PROVE  ErrorsBut(FlattenSeq(SetToSeq(S)), U)
BY SetInOrder, ManyErrors

Malformed == <<"readability", "nolint">>

\* The lines whose marks are sure to have been read for an error.
ReadFor(category, line, at, name) ==
  IF category \in EmptyBodies /\ line > at THEN at ELSE WholeFile(name)

\* What is promised of a report.
Right(r) ==
  r.category # Malformed =>
    LET sure == r.confidence >= Given("verbose", 1) /\ ~Hidden(r.file, r.category)
        Stands(n) == r.at # 0 => ~Excused(r.file, r.category, r.line, n)
    IN  /\ sure /\ Stands(WholeFile(r.file)) => r.printed
        /\ r.printed => sure /\ Stands(ReadFor(r.category, r.line, r.at, r.file))

JudgedOK(j) ==
  /\ j = [suppress |-> j.suppress, reports |-> j.reports, count |-> j.count]
  /\ IsList(j.reports) /\ \A r \in ToSet(j.reports) : Right(r)

\* While a file is checked the settings are those that are promised for it.
AtFile ==
  st.filters = FiltersFor(file.name) /\ st.verbose = Given("verbose", 1) /\ st.filters \in FilterList

\* An error is suppressed only by a mark of the file, and by those that are
\* sure to have been read.
Judges(s, at, e) ==
  e.category # Malformed =>
    LET suppressed == IsErrorSuppressedByNolint(s, e.category, e.line)
        ExcusedIn(n) == Excused(file.name, e.category, e.line, n)
    IN  /\ suppressed => at # 0 /\ ExcusedIn(WholeFile(file.name))
        /\ at # 0 /\ ExcusedIn(ReadFor(e.category, e.line, at, file.name)) => suppressed

LEMMA ReportRight ==
  ASSUME AtFile, NEW j, NEW at, NEW e, Judges(j.suppress, at, e)
  PROVE  Right(Report(j, at, e))
<1>. DEFINE f == file.name
            c == e.category
            p == ShouldPrintError(st, j.suppress, e)
            exAll == Excused(f, c, e.line, WholeFile(f))
            exRead == Excused(f, c, e.line, ReadFor(c, e.line, at, f))
            sup == IsErrorSuppressedByNolint(j.suppress, c, e.line)
            r == [file |-> f, line |-> e.line, category |-> c, at |-> at,
                  confidence |-> e.confidence, printed |-> p]
<1>1. Report(j, at, e) = r
  BY DEF Report
<1>2. /\ r.file = f /\ r.line = e.line /\ r.category = c /\ r.at = at
      /\ r.confidence = e.confidence /\ r.printed = p
  OBVIOUS
<1>3. Hidden(f, c) <=> Filtered(st.filters, c)
  BY HiddenIs DEF AtFile
<1>4. p <=> ~sup /\ e.confidence >= Given("verbose", 1) /\ ~Filtered(st.filters, c)
  BY DEF ShouldPrintError, AtFile
<1>5. c # Malformed => (sup => at # 0 /\ exAll) /\ (at # 0 /\ exRead => sup)
  BY DEF Judges
<1>. DEFINE sure == e.confidence >= Given("verbose", 1)
            hid == Hidden(f, c)
<1>6. c # Malformed => /\ (sure /\ ~hid) /\ (at # 0 => ~exAll) => p
                       /\ p => (sure /\ ~hid) /\ (at # 0 => ~exRead)
  <2>1. p <=> ~sup /\ sure /\ ~hid
    BY <1>3, <1>4
  <2>. HIDE DEF p, sup, exAll, exRead, sure, hid
  <2>. QED
    BY <1>5, <2>1
<1>7. Right(r)
  <2>1. Right(r) <=> (c # Malformed => /\ (sure /\ ~hid) /\ (at # 0 => ~exAll) => r.printed
                                       /\ r.printed => (sure /\ ~hid) /\ (at # 0 => ~exRead))
    <3>. HIDE DEF r
    <3>. QED
      BY <1>2 DEF Right
  <2>2. r.printed <=> p
    BY <1>2
  <2>. HIDE DEF p, exAll, exRead, sure, hid, r
  <2>. QED
    BY <1>6, <2>1, <2>2
<1>. HIDE DEF r
<1>. QED
  BY <1>1, <1>7

LEMMA ErrorsJudged ==
  ASSUME AtFile, NEW j, JudgedOK(j), NEW at, NEW es, IsList(es),
         \A e \in ToSet(es) : Judges(j.suppress, at, e)
  PROVE  JudgedOK(Errors(j, at, es)) /\ Errors(j, at, es).suppress = j.suppress
<1>. DEFINE new == [i \in DOMAIN es |-> Report(j, at, es[i])]
            N == {Report(j, at, e) : e \in ToSet(es)}
            S == ToSet(j.reports) \cup N
<1>1. PICK c : Errors(j, at, es) = [j EXCEPT !.reports = j.reports \o new, !.count = c]
  BY Zenon DEF Errors
<1>2. DOMAIN es = 1 .. Len(es) /\ Len(es) \in Nat /\ \A i \in 1 .. Len(es) : es[i] \in ToSet(es)
  BY IndicesOfSeq DEF IsList, ToSet
<1>3. new \in Seq(N) /\ ToSet(new) \subseteq N
  <2>1. \A i \in 1 .. Len(es) : Report(j, at, es[i]) \in N
    BY <1>2
  <2>2. new = [i \in 1 .. Len(es) |-> Report(j, at, es[i])]
    BY <1>2
  <2>3. new \in Seq(N)
    BY <1>2, <2>1, <2>2, FunctionIsSeq
  <2>. HIDE DEF new, N
  <2>. QED
    BY <2>3, IndicesOfSeq
<1>4. \A r \in N : Right(r)
  BY ReportRight
<1>. HIDE DEF new, N
<1>. DEFINE x == j.reports \o new
<1>5. IsList(x) /\ \A r \in ToSet(x) : Right(r)
  <2>1. j.reports \in Seq(ToSet(j.reports)) /\ \A r \in ToSet(j.reports) : Right(r)
    BY DEF JudgedOK, IsList
  <2>2. \A r \in S : Right(r)
    BY <1>4, <2>1
  <2>3. j.reports \in Seq(S) /\ new \in Seq(S)
    <3>1. ToSet(j.reports) \subseteq S /\ N \subseteq S
      OBVIOUS
    <3>. HIDE DEF S
    <3>. QED
      BY <1>3, <2>1, <3>1
  <2>. HIDE DEF S
  <2>4. x \in Seq(S) /\ ToSet(x) \subseteq S
    BY <2>3, ConcatElements, IndicesOfSeq
  <2>. QED
    BY <2>2, <2>4, ListIs
<1>. HIDE DEF x
<1>6. /\ Errors(j, at, es) = [suppress |-> j.suppress, reports |-> x, count |-> c]
  <2>1. Errors(j, at, es) = [j EXCEPT !.reports = x, !.count = c]
    BY <1>1 DEF x
  <2>. QED
    BY <2>1 DEF JudgedOK
<1>. QED
  BY <1>5, <1>6 DEF JudgedOK

\* The lines of a file with its markers, and without its long comments.
Marked(name) == WithMarkers(disk.files[name].lines)
Raw(name) == RemoveMultiLineComments(Marked(name))
Gone(name) == MultiLineComments(Toks(Marked(name))).removed

LEMMA MarkedIs ==
  ASSUME NEW L, FileLines(L)
  PROVE  /\ Len(L) \in Nat /\ DOMAIN L = 1 .. Len(L)
         /\ \A i \in 1 .. Len(L) : L[i] \in ToSet(L)
         /\ Len(WithMarkers(L)) = Len(L) + 2 /\ DOMAIN WithMarkers(L) = 1 .. Len(L) + 2
         /\ WithMarkers(L)[1] = Marker(53) /\ WithMarkers(L)[Len(L) + 2] = Marker(44)
         /\ \A i \in 1 .. Len(L) : WithMarkers(L)[i + 1] = L[i]
<1>. DEFINE a == Marker(53)
            z == Marker(44)
            S == ToSet(L) \cup {a, z}
            W == <<a>> \o L \o <<z>>
<1>1. L \in Seq(ToSet(L))
  BY DEF FileLines
<1>2. WithMarkers(L) = W
  BY DEF WithMarkers
<1>. HIDE DEF a, z
<1>3. Len(L) \in Nat /\ DOMAIN L = 1 .. Len(L) /\ \A i \in 1 .. Len(L) : L[i] \in ToSet(L)
  BY <1>1, IndicesOfSeq, ElementOfSeq
<1>4. L \in Seq(S) /\ <<a>> \in Seq(S) /\ <<z>> \in Seq(S)
  <2>1. ToSet(L) \subseteq S /\ a \in S /\ z \in S
    OBVIOUS
  <2>. HIDE DEF S
  <2>. QED
    BY <1>1, <2>1
<1>. HIDE DEF S
<1>5. Len(W) = Len(L) + 2 /\ DOMAIN W = 1 .. Len(L) + 2 /\ W[1] = a /\ W[Len(L) + 2] = z
  BY <1>4
<1>6. \A i \in 1 .. Len(L) : W[i + 1] = L[i]
  BY <1>4
<1>. QED
  BY <1>2, <1>3, <1>5, <1>6 DEF a, z

LEMMA RawIs ==
  ASSUME NEW name, FileLines(disk.files[name].lines)
  PROVE  LET n == Len(disk.files[name].lines) + 2 IN
         /\ n \in Nat /\ n >= 2
         /\ Len(Raw(name)) = n /\ DOMAIN Raw(name) = 1 .. n
         /\ \A i \in 1 .. n : Raw(name)[i] = IF i \in Gone(name) THEN Plain(<<"/*", "*/">>)
                                             ELSE Marked(name)[i]
<1>. DEFINE n == Len(disk.files[name].lines) + 2
<1>1. DOMAIN Marked(name) = 1 .. n /\ n \in Nat /\ n >= 2
  BY MarkedIs DEF Marked
<1>2. Raw(name) = [i \in 1 .. n |-> IF i \in Gone(name) THEN Plain(<<"/*", "*/">>)
                                    ELSE Marked(name)[i]]
  BY <1>1 DEF Raw, Gone, RemoveMultiLineComments
<1>. HIDE DEF n
<1>3. Len(Raw(name)) = n
  BY <1>1, <1>2
<1>. QED
  BY <1>1, <1>2, <1>3 DEF n

\* The marks of some lines.
Takes(line) == line.nolint # "none" /\ (line.about = <<>> \/ line.about \in Categories)
MarkOf(raw, i) == <<raw[i].about, IF raw[i].nolint = "next" THEN i + 1 ELSE i>>
MarksOf(raw, R) == {MarkOf(raw, i) : i \in {k \in R : Takes(raw[k])}}

Suppressing(s, name, R) ==
  s = [global |-> ProcessGlobalSuppressions(Marked(name)), lines |-> MarksOf(Raw(name), R)]

LEMMA OneMark ==
  ASSUME NEW s, NEW name, NEW R, Suppressing(s, name, R), NEW l
  PROVE  Suppressing(ParseNolintSuppressions(s, Raw(name)[l], l), name, R \cup {l})
<1>. DEFINE raw == Raw(name)
            g == ProcessGlobalSuppressions(Marked(name))
            M == MarksOf(raw, R)
            t == ParseNolintSuppressions(s, raw[l], l)
<1>1. s = [global |-> g, lines |-> M]
  BY DEF Suppressing
<1>2. CASE Takes(raw[l])
  <2>1. t = [s EXCEPT !.lines = s.lines \cup {MarkOf(raw, l)}]
    BY <1>2 DEF ParseNolintSuppressions, Takes, MarkOf
  <2>2. MarksOf(raw, R \cup {l}) = M \cup {MarkOf(raw, l)}
    BY <1>2 DEF MarksOf
  <2>. HIDE DEF t, M, g, raw
  <2>3. t = [global |-> g, lines |-> M \cup {MarkOf(raw, l)}]
    BY <1>1, <2>1
  <2>. QED
    BY <2>2, <2>3 DEF Suppressing, t, g, raw
<1>3. CASE ~Takes(raw[l])
  <2>1. t = s
    BY <1>3 DEF ParseNolintSuppressions, Takes
  <2>2. MarksOf(raw, R \cup {l}) = M
    BY <1>3 DEF MarksOf
  <2>. HIDE DEF t, M, g, raw
  <2>. QED
    BY <1>1, <2>1, <2>2 DEF Suppressing, t, g, raw, M
<1>. QED
  BY <1>2, <1>3

\* The words for a whole file stand in its own lines.
LEMMA GlobalIs ==
  ASSUME NEW name, FileLines(disk.files[name].lines), NEW c
  PROVE  LET L == disk.files[name].lines IN
         c \in ProcessGlobalSuppressions(Marked(name)) <=>
           \/ /\ c = <<"readability", "casting">>
              /\ \E i \in DOMAIN L : "LINT_C_FILE" \in ToSet(L[i].toks)
           \/ /\ c = <<"whitespace", "tab">>
              /\ \E i \in DOMAIN L : "LINT_KERNEL_FILE" \in ToSet(L[i].toks)
<1>. DEFINE L == disk.files[name].lines
            n == Len(L)
            W == Marked(name)
            said == UNION {ToSet(W[i].toks) : i \in DOMAIN W}
<1>1. /\ n \in Nat /\ DOMAIN L = 1 .. n /\ DOMAIN W = 1 .. n + 2
      /\ W[1] = Marker(53) /\ W[n + 2] = Marker(44)
      /\ \A i \in 1 .. n : W[i + 1] = L[i]
  BY MarkedIs DEF Marked
<1>2. \A w : ToSet(Marker(w).toks) = {"//", "marker", "so"}
  BY DEF Marker, Plain, ToSet
<1>3. ASSUME NEW t, t \notin {"//", "marker", "so"}
      PROVE  t \in said <=> \E i \in DOMAIN L : t \in ToSet(L[i].toks)
  <2>1. ASSUME NEW i \in DOMAIN L, t \in ToSet(L[i].toks) PROVE t \in said
    <3>1. i + 1 \in DOMAIN W /\ W[i + 1] = L[i]
      BY <1>1
    <3>. HIDE DEF L, W, n
    <3>. QED
      BY <2>1, <3>1
  <2>2. ASSUME NEW k \in DOMAIN W, t \in ToSet(W[k].toks)
        PROVE  \E i \in DOMAIN L : t \in ToSet(L[i].toks)
    <3>1. k # 1 /\ k # n + 2
      <4>1. t \notin ToSet(Marker(53).toks) /\ t \notin ToSet(Marker(44).toks)
        BY <1>2, <1>3
      <4>. HIDE DEF W, n
      <4>. QED
        BY <1>1, <2>2, <4>1
    <3>2. k - 1 \in DOMAIN L /\ W[k] = L[k - 1]
      <4>. HIDE DEF W, n, L
      <4>1. k - 1 \in 1 .. n /\ (k - 1) + 1 = k
        BY <1>1, <3>1
      <4>. QED
        BY <1>1, <4>1
    <3>. HIDE DEF L, W, n
    <3>. QED
      BY <2>2, <3>2
  <2>. QED
    BY <2>1, <2>2
<1>4. c \in ProcessGlobalSuppressions(W) <=>
        \/ c = <<"readability", "casting">> /\ "LINT_C_FILE" \in said
        \/ c = <<"whitespace", "tab">> /\ "LINT_KERNEL_FILE" \in said
  BY DEF ProcessGlobalSuppressions
<1>. HIDE DEF said
<1>. QED
  BY <1>3, <1>4

\* An error is suppressed only when a mark of the file excuses it, and when one
\* does that has been read.
LEMMA ExcusedIs ==
  ASSUME NEW name, FileLines(disk.files[name].lines), NEW s, NEW R, Suppressing(s, name, R),
         R \subseteq 1 .. Len(Raw(name)), NEW category \in Categories, NEW l, NEW m,
         \A i \in (1 .. Len(Raw(name))) \ R : (l # i /\ l # i + 1) \/ i \notin 1 .. m
  PROVE  /\ IsErrorSuppressedByNolint(s, category, l) => Excused(name, category, l, WholeFile(name))
         /\ Excused(name, category, l, m) => IsErrorSuppressedByNolint(s, category, l)
<1>. DEFINE L == disk.files[name].lines
            n == Len(L)
            W == Marked(name)
            raw == Raw(name)
            At(i) == IF raw[i].nolint = "next" THEN i + 1 ELSE i
            Own(i) == /\ L[i].about \in {<<>>, category}
                      /\ \/ L[i].nolint = "line" /\ l = i + 1
                         \/ L[i].nolint = "next" /\ l = i + 2
            Read(k) == Takes(raw[k]) /\ raw[k].about \in {<<>>, category} /\ l = At(k)
            whole == category \in ProcessGlobalSuppressions(W)
<1>1. /\ n \in Nat /\ DOMAIN L = 1 .. n /\ Len(raw) = n + 2
      /\ W[1] = Marker(53) /\ W[n + 2] = Marker(44)
      /\ \A i \in 1 .. n : W[i + 1] = L[i] /\ L[i].nolint \in {"none", "line", "next"}
      /\ \A i \in 1 .. n + 2 : raw[i] = IF i \in Gone(name) THEN Plain(<<"/*", "*/">>) ELSE W[i]
  <2>1. /\ n \in Nat /\ DOMAIN L = 1 .. n /\ W[1] = Marker(53) /\ W[n + 2] = Marker(44)
        /\ \A i \in 1 .. n : W[i + 1] = L[i] /\ L[i] \in ToSet(L)
    BY MarkedIs, Zenon DEF Marked
  <2>2. /\ Len(raw) = n + 2
        /\ \A i \in 1 .. n + 2 : raw[i] = IF i \in Gone(name) THEN Plain(<<"/*", "*/">>) ELSE W[i]
    BY RawIs, Zenon
  <2>3. \A line \in ToSet(L) : line.nolint \in {"none", "line", "next"}
    BY DEF FileLines
  <2>4. \A i \in 1 .. n : W[i + 1] = L[i] /\ L[i].nolint \in {"none", "line", "next"}
    BY ONLY <2>1, <2>3
  <2>. QED
    BY ONLY <2>1, <2>2, <2>4
<1>2. s.global = ProcessGlobalSuppressions(W) /\ s.lines = MarksOf(raw, R)
  BY DEF Suppressing
<1>3. IsErrorSuppressedByNolint(s, category, l) <=> whole \/ \E k \in R : Read(k)
  <2>1. IsErrorSuppressedByNolint(s, category, l) <=>
          whole \/ \E k \in R : Takes(raw[k]) /\ MarkOf(raw, k) \in {<<category, l>>, << <<>>, l>>}
    BY <1>2 DEF IsErrorSuppressedByNolint, MarksOf
  <2>2. \A k : MarkOf(raw, k) = <<raw[k].about, At(k)>>
    BY DEF MarkOf
  <2>3. \A k : MarkOf(raw, k) \in {<<category, l>>, << <<>>, l>>}
                 <=> raw[k].about \in {<<>>, category} /\ l = At(k)
    <3>. HIDE DEF At, raw
    <3>. QED
      BY <2>2
  <2>. HIDE DEF At, raw, whole
  <2>. QED
    BY <2>1, <2>3
<1>4. \A u : Excused(name, category, l, u)
               <=> whole \/ \E i \in DOMAIN L : i + 1 \in (1 .. u) \ Gone(name) /\ Own(i)
  <2>1. whole <=> \/ /\ category = <<"readability", "casting">>
                     /\ \E i \in DOMAIN L : "LINT_C_FILE" \in ToSet(L[i].toks)
                  \/ /\ category = <<"whitespace", "tab">>
                     /\ \E i \in DOMAIN L : "LINT_KERNEL_FILE" \in ToSet(L[i].toks)
    BY GlobalIs
  <2>. HIDE DEF whole
  <2>. QED
    BY <2>1, Zenon DEF Excused, Gone, Marked
<1>5. \A w : Marker(w).nolint = "none"
  BY DEF Marker, Plain
<1>6. Plain(<<"/*", "*/">>).nolint = "none"
  BY DEF Plain
<1>. HIDE DEF raw, W, L, n
<1>7. ASSUME NEW i \in 1 .. n PROVE i + 1 \notin Gone(name) /\ Own(i) <=> Read(i + 1)
  <2>1. i + 1 \in 1 .. n + 2 /\ (i + 1) + 1 = i + 2
    BY <1>1
  <2>2. CASE i + 1 \in Gone(name)
    BY <1>1, <1>6, <2>1, <2>2 DEF Takes
  <2>3. CASE i + 1 \notin Gone(name)
    <3>1. raw[i + 1] = L[i] /\ L[i].nolint \in {"none", "line", "next"}
      BY <1>1, <2>1, <2>3
    <3>2. Own(i) <=> /\ L[i].about \in {<<>>, category}
                     /\ \/ L[i].nolint = "line" /\ l = i + 1
                        \/ L[i].nolint = "next" /\ l = i + 2
      BY <2>3
    <3>3. L[i].about \in {<<>>, category} => L[i].about = <<>> \/ L[i].about \in Categories
      OBVIOUS
    <3>. QED
      BY <2>1, <2>3, <3>1, <3>2, <3>3 DEF Takes
  <2>. QED
    BY <2>2, <2>3
<1>8. ASSUME NEW k \in 1 .. n + 2, Read(k) PROVE k - 1 \in 1 .. n /\ Read((k - 1) + 1)
  <2>1. raw[k].nolint # "none"
    BY <1>8 DEF Takes
  <2>2. k # 1 /\ k # n + 2
    <3>1. raw[k] = Plain(<<"/*", "*/">>) \/ raw[k] = W[k]
      BY <1>1
    <3>2. raw[k] = W[k]
      BY <1>6, <2>1, <3>1
    <3>3. W[k] # Marker(53) /\ W[k] # Marker(44)
      BY <1>5, <2>1, <3>2
    <3>. QED
      BY <1>1, <3>3
  <2>3. k - 1 \in 1 .. n /\ (k - 1) + 1 = k
    BY <1>1, <2>2
  <2>. HIDE DEF Read
  <2>. QED
    BY <1>8, <2>3
<1>9. ASSUME NEW k \in 1 .. n + 2, Read(k), k \in 1 .. m PROVE k \in R
  <2>1. l = k \/ l = k + 1
    BY <1>9
  <2>. QED
    BY <1>1, <1>9, <2>1 DEF raw
<1>. HIDE DEF Own, Read, whole
<1>10. ASSUME NEW k \in R, Read(k)
       PROVE  \E i \in DOMAIN L : i + 1 \in (1 .. n + 1) \ Gone(name) /\ Own(i)
  <2>1. k \in 1 .. n + 2
    BY <1>1 DEF raw
  <2>2. k - 1 \in 1 .. n /\ Read((k - 1) + 1)
    BY <1>8, <1>10, <2>1
  <2>. DEFINE i == k - 1
  <2>3. i \in 1 .. n /\ i + 1 \in 1 .. n + 1
    BY <1>1, <2>2
  <2>. HIDE DEF i
  <2>4. i + 1 \notin Gone(name) /\ Own(i)
    BY <1>7, <2>2, <2>3 DEF i
  <2>. QED
    BY <1>1, <2>3, <2>4
<1>11. ASSUME NEW i \in DOMAIN L, i + 1 \in (1 .. m) \ Gone(name), Own(i)
       PROVE  \E k \in R : Read(k)
  <2>1. i \in 1 .. n /\ i + 1 \in 1 .. n + 2
    BY <1>1
  <2>. QED
    BY <1>7, <1>9, <1>11, <2>1
<1>12. WholeFile(name) = n + 1
  BY DEF WholeFile, n, L
<1>. QED
  BY <1>3, <1>4, <1>10, <1>11, <1>12

\* The checks of one line, each of which reports that line only.
LEMMA OneLineChecks ==
  ASSUME NEW U, NEW l, \A i \in U : l # i /\ l # i + 1, NEW clean
  PROVE  /\ \A nest : ErrorsBut(CheckForNamespaceIndentation(nest, clean, l), U)
         /\ ErrorsBut(CheckForMultilineCommentsAndStrings(clean, l), U)
         /\ \A fn, verbose : ErrorsBut(CheckForFunctionLengths(fn, clean, l, verbose).errors, U)
         /\ \A width : ErrorsBut(CheckStyle(clean, l, width), U)
         /\ \A nest : ErrorsBut(CheckClass(nest, clean, l), U)
<1>1. /\ <<"runtime", "indentation_namespace">> \in Categories
      /\ <<"readability", "fn_size">> \in Categories
      /\ <<"readability", "multiline", "_comment">> \in Categories
      /\ <<"readability", "multiline", "_string">> \in Categories
      /\ <<"whitespace", "indent">> \in Categories
      /\ <<"whitespace", "line_length">> \in Categories
      /\ <<"whitespace", "newline">> \in Categories
      /\ <<"whitespace", "blank_line">> \in Categories
      /\ <<"readability", "constructors">> \in Categories
  BY CategoriesAssumption
<1>2. \A c \in Categories : \A k : \A b : ErrorsBut(When(b, Found(l, c, k)), U) /\ ErrorsBut(Found(l, c, k), U)
  BY OneError, WhenErrors
<1>3. ASSUME NEW nest PROVE ErrorsBut(CheckForNamespaceIndentation(nest, clean, l), U)
  BY <1>1, <1>2, Zenon DEF CheckForNamespaceIndentation
<1>4. ErrorsBut(CheckForMultilineCommentsAndStrings(clean, l), U)
  BY <1>1, <1>2, BothErrors, Zenon DEF CheckForMultilineCommentsAndStrings
<1>5. ASSUME NEW fn, NEW verbose PROVE ErrorsBut(CheckForFunctionLengths(fn, clean, l, verbose).errors, U)
  <2>. DEFINE c == CheckForFunctionLengths(fn, clean, l, verbose)
  <2>1. ErrorsBut(CheckLength(fn, l, verbose), U)
    BY <1>1, <1>2, Zenon DEF CheckLength
  <2>2. \/ c.errors = Found(l, <<"readability", "fn_size">>, 5)
        \/ c.errors = <<>>
        \/ c.errors = CheckLength(fn, l, verbose)
    BY DEF CheckForFunctionLengths
  <2>. HIDE DEF c
  <2>. QED
    BY <1>1, <1>2, <2>1, <2>2, NoErrors DEF c
<1>6. ASSUME NEW width PROVE ErrorsBut(CheckStyle(clean, l, width), U)
  BY <1>1, <1>2, BothErrors, Zenon DEF CheckStyle
<1>7. ASSUME NEW nest PROVE ErrorsBut(CheckClass(nest, clean, l), U)
  <2>1. ErrorsBut(CheckAccess(nest, clean, l), U)
    BY <1>1, <1>2, Zenon DEF CheckAccess
  <2>2. \A b : ErrorsBut(CheckSectionSpacing(b, clean, l), U)
    BY <1>1, <1>2, Zenon DEF CheckSectionSpacing
  <2>. QED
    BY <2>1, <2>2, NoErrors, BothErrors, Zenon DEF CheckClass
<1>. QED
  BY <1>3, <1>4, <1>5, <1>6, <1>7

\* So do the checks of an include line and the faults of the line.
LEMMA IncludeChecks ==
  ASSUME NEW U, NEW l, \A i \in U : l # i /\ l # i + 1, NEW clean, NEW f, NEW inc
  PROVE  ErrorsBut(CheckLanguage(f, inc, clean, l).errors, U)
<1>1. /\ <<"build", "include">> \in Categories
      /\ <<"build", "include", "_order">> \in Categories
      /\ <<"build", "include", "_alpha">> \in Categories
  BY CategoriesAssumption
<1>2. \A c \in Categories : \A k : \A b : ErrorsBut(When(b, Found(l, c, k)), U) /\ ErrorsBut(Found(l, c, k), U)
  BY OneError, WhenErrors
<1>. DEFINE c == CheckIncludeLine(f, inc, clean, l)
            d == CheckLanguage(f, inc, clean, l)
<1>3. \E b1, b2, b3 :
        LET first == When(b1, Found(l, <<"build", "include">>, 4)) IN
        \/ c.errors = first \o Found(l, <<"build", "include">>, 4)
        \/ c.errors = first
        \/ c.errors = first \o When(b2, Found(l, <<"build", "include", "_order">>, 4))
                      \o When(b3, Found(l, <<"build", "include", "_alpha">>, 4))
  BY DEF CheckIncludeLine
<1>4. d.errors = <<>> \/ d = c
  BY DEF CheckLanguage
<1>. HIDE DEF c, d
<1>5. ErrorsBut(c.errors, U)
  BY <1>1, <1>2, <1>3, BothErrors
<1>. QED
  BY <1>4, <1>5, NoErrors DEF d

LEMMA FaultsOf ==
  ASSUME NEW U, NEW l, \A i \in U : l # i /\ l # i + 1, NEW clean, NEW cxx11,
         IsFiniteSet(clean.raw[l].faults), \A f \in clean.raw[l].faults : f[1] \in Categories
  PROVE  ErrorsBut(Faults(clean, l, cxx11), U)
<1>. DEFINE F == {f \in clean.raw[l].faults : (f[1] = <<"build", "c++11">>) = cxx11}
            E == {Found(l, f[1], f[2]) : f \in F}
<1>1. F \subseteq clean.raw[l].faults
  OBVIOUS
<1>2. IsFiniteSet(F) /\ \A f \in F : f[1] \in Categories
  BY <1>1, FS_Subset
<1>3. Faults(clean, l, cxx11) = FlattenSeq(SetToSeq(E))
  BY DEF Faults
<1>. HIDE DEF F
<1>4. IsFiniteSet(E)
  <2>. DEFINE g == [f \in F |-> Found(l, f[1], f[2])]
  <2>1. g \in Surjection(F, E)
    BY DEF Surjection
  <2>. HIDE DEF g, E
  <2>. QED
    BY <1>2, <2>1, FS_Surjection
<1>5. \A es \in E : ErrorsBut(es, U)
  BY <1>2, OneError
<1>. HIDE DEF E
<1>. QED
  BY <1>3, <1>4, <1>5, ErrorsOfSet

\* Numbers that are bounded have a greatest one.
LEMMA BoundedGreatest ==
  ASSUME NEW l \in Int, NEW D, D # {}, \A x \in D : x \in Int /\ x <= l
  PROVE  \E x \in D : \A y \in D : x >= y
<1>. DEFINE E == {l - x : x \in D}
<1>1. E \in SUBSET Nat /\ E # {}
  OBVIOUS
<1>2. PICK e \in E : \A y \in E : e <= y
  <2>. HIDE DEF E
  <2>. QED
    BY <1>1, LeastExists
<1>3. PICK x \in D : e = l - x
  OBVIOUS
<1>4. ASSUME NEW y \in D PROVE x >= y
  <2>1. l - y \in E
    OBVIOUS
  <2>. HIDE DEF E
  <2>. QED
    BY <1>2, <1>3, <2>1
<1>. QED
  BY <1>3, <1>4

\* The lines below l that are excused are none that is read later.
Later(U, l) == l \in Int /\ \A i \in U : i \in Int /\ i > l

LEMMA LaterIs ==
  ASSUME NEW U, NEW l, Later(U, l), NEW k \in Int, k <= l
  PROVE  \A i \in U : k # i /\ k # i + 1
BY DEF Later

LEMMA EndErrors ==
  ASSUME NEW U, NEW l, Later(U, l), NEW b, NEW clean
  PROVE  ErrorsBut(CheckEnd(b, clean, l), U)
<1>1. \A k \in Int : k <= l => \A i \in U : k # i /\ k # i + 1
  BY LaterIs
<1>2. l \in Int /\ l <= l
  BY DEF Later
<1>3. /\ <<"readability", "namespace">> \in Categories
      /\ <<"readability", "constructors">> \in Categories
      /\ <<"whitespace", "indent">> \in Categories
  BY CategoriesAssumption
<1>4. ErrorsBut(CheckEndOfNamespace(b, clean, l), U)
  BY <1>1, <1>2, <1>3, OneError, WhenErrors, Zenon DEF CheckEndOfNamespace
<1>5. ErrorsBut(CheckEndOfClass(b, clean, l), U)
  <2>. DEFINE E == clean.elided
              Names(i) == \E p \in DOMAIN E[i] :
                             /\ E[i][p] \in Disallow
                             /\ IsPrefix(<<"(", b.name, ")">>, From(E[i], p + 1))
              D == {i \in b.start + 1..l - 1 : Names(i)}
              i == CHOOSE k \in D : \A j \in D : k >= j
              one == When(D # {} /\ (\E k \in i + 1..l - 1 : E[k] # <<>>),
                          Found(i, <<"readability", "constructors">>, 3))
              two == When(Directive(E[l]) = "}" /\ clean.raw[l].indent # b.indent,
                          Found(l, <<"whitespace", "indent">>, 3))
  <2>1. CheckEndOfClass(b, clean, l) = one \o two
    BY DEF CheckEndOfClass
  <2>2. \A x \in D : x \in Int /\ x <= l
    <3>1. \A x \in b.start + 1 .. l - 1 : x \in Int /\ x <= l
      BY <1>2
    <3>. HIDE DEF Names
    <3>. QED
      BY <3>1
  <2>3. D # {} => i \in D
    <3>. HIDE DEF D
    <3>. QED
      BY <1>2, <2>2, BoundedGreatest
  <2>. HIDE DEF D, i
  <2>4. ErrorsBut(one, U)
    <3>1. D # {} => i \in Int /\ i <= l
      BY <2>2, <2>3
    <3>2. D # {} => \A k \in U : i # k /\ i # k + 1
      BY <1>1, <3>1
    <3>3. D # {} => ErrorsBut(Found(i, <<"readability", "constructors">>, 3), U)
      BY <1>3, <3>2, OneError
    <3>. QED
      BY <3>3, WhenErrors
  <2>5. ErrorsBut(two, U)
    BY <1>1, <1>2, <1>3, OneError, WhenErrors, Zenon
  <2>. HIDE DEF one, two
  <2>. QED
    BY <2>1, <2>4, <2>5, BothErrors
<1>. QED
  BY <1>4, <1>5, NoErrors DEF CheckEnd

\* Stacks stay sequences.
LEMMA ListSteps ==
  ASSUME NEW s, IsList(s)
  PROVE  /\ \A b : IsList(Append(s, b))
         /\ s # <<>> => IsList(Front(s)) /\ \A b : IsList(OnTop(s, b))
         /\ \A t : IsList(t) => IsList(s \o t)
<1>1. s \in Seq(ToSet(s))
  BY DEF IsList
<1>2. ASSUME NEW t, IsList(t), NEW b PROVE IsList(Append(t, b))
  <2>. DEFINE S == ToSet(t) \cup {b}
  <2>1. t \in Seq(ToSet(t)) /\ ToSet(t) \subseteq S /\ b \in S
    BY <1>2 DEF IsList
  <2>. HIDE DEF S
  <2>2. Append(t, b) \in Seq(S)
    BY <2>1
  <2>. QED
    BY <2>2, ListIs
<1>3. s # <<>> => IsList(Front(s))
  BY <1>1, FrontProperties, ListIs
<1>4. ASSUME NEW t, IsList(t) PROVE IsList(s \o t)
  <2>. DEFINE S == ToSet(s) \cup ToSet(t)
  <2>1. s \in Seq(ToSet(s)) /\ t \in Seq(ToSet(t)) /\ ToSet(s) \subseteq S /\ ToSet(t) \subseteq S
    BY <1>4 DEF IsList
  <2>. HIDE DEF S
  <2>2. s \o t \in Seq(S)
    BY <2>1
  <2>. QED
    BY <2>2, ListIs
<1>5. s # <<>> => \A b : IsList(OnTop(s, b))
  BY <1>2, <1>3 DEF OnTop
<1>. QED
  BY <1>2, <1>3, <1>4, <1>5

\* The stack and the errors while the braces of a line are read.
Bracing(v, U) ==
  v = [stack |-> v.stack, errors |-> v.errors] /\ IsList(v.stack) /\ ErrorsBut(v.errors, U)

LEMMA BraceKeeps ==
  ASSUME NEW U, NEW l, Later(U, l), NEW clean, NEW v, Bracing(v, U), NEW i, NEW from
  PROVE  Bracing(Brace(v, clean, l, i, from), U)
<1>. DEFINE w == Brace(v, clean, l, i, from)
            o == OpenBrace(v.stack, clean, l, i, from)
            e == CheckEnd(Last(v.stack), clean, l)
<1>1. IsList(v.stack) /\ ErrorsBut(v.errors, U)
  BY DEF Bracing
<1>2. IsList(o)
  <2>1. v.stack # <<>> => \A b : IsList(OnTop(v.stack, b))
    BY <1>1, ListSteps
  <2>2. \A b : IsList(Append(v.stack, b))
    BY <1>1, ListSteps
  <2>3. ~SeenOpenBrace(v.stack) => v.stack # <<>>
    BY DEF SeenOpenBrace
  <2>4. \/ v.stack # <<>> /\ \E b : o = OnTop(v.stack, b)
        \/ \E b : o = Append(v.stack, b)
    BY <2>3 DEF OpenBrace
  <2>. QED
    BY <2>1, <2>2, <2>4
<1>3. ErrorsBut(v.errors \o e, U)
  BY <1>1, EndErrors, BothErrors
<1>4. v.stack # <<>> => IsList(Front(v.stack))
  BY <1>1, ListSteps
<1>5. \/ w = [v EXCEPT !.stack = o]
      \/ v.stack # <<>> /\ w = [v EXCEPT !.stack = Front(v.stack)]
      \/ v.stack # <<>> /\ w = [stack |-> Front(v.stack), errors |-> v.errors \o e]
      \/ w = v
  BY Zenon DEF Brace, SeenOpenBrace
<1>. DEFINE g == v.errors \o e
            f == Front(v.stack)
            s == v.stack
            r == v.errors
<1>. HIDE DEF w, o, g, f
<1>6. v = [stack |-> s, errors |-> r]
  BY DEF Bracing
<1>7. CASE w = [v EXCEPT !.stack = o]
  <2>1. w = [stack |-> o, errors |-> r]
    BY <1>6, <1>7
  <2>. QED
    BY <1>1, <1>2, <2>1 DEF Bracing, w
<1>8. CASE s # <<>> /\ w = [v EXCEPT !.stack = f]
  <2>1. w = [stack |-> f, errors |-> r]
    BY <1>6, <1>8
  <2>. QED
    BY <1>1, <1>4, <1>8, <2>1 DEF Bracing, w, f
<1>9. CASE s # <<>> /\ w = [stack |-> f, errors |-> g]
  BY <1>3, <1>4, <1>9 DEF Bracing, w, f, g
<1>10. CASE w = v
  BY <1>10 DEF w
<1>. QED
  BY <1>5, <1>7, <1>8, <1>9, <1>10 DEF f, g

\* What is left of a line is read token by token.
BraceTurn(v, clean, l, i, from) == IF i < from THEN v ELSE Brace(v, clean, l, i, from)
BracesUpto(h, m, u, clean, l, from) ==
  h = [i \in 0 .. m |-> IF i = 0 THEN u ELSE BraceTurn(h[i - 1], clean, l, i, from)]

LEMMA BracesExist ==
  ASSUME NEW n \in Nat, NEW u, NEW clean, NEW l, NEW from
  PROVE  \E h : BracesUpto(h, n, u, clean, l, from)
<1>. DEFINE OK(m) == \E h : BracesUpto(h, m, u, clean, l, from)
            Bad == {m \in 0 .. n : ~OK(m)}
<1>1. OK(0)
  <2>. DEFINE h == [i \in 0 .. 0 |-> u]
  <2>1. \A i \in 0 .. 0 : i = 0
    OBVIOUS
  <2>2. BracesUpto(h, 0, u, clean, l, from)
    BY <2>1 DEF BracesUpto
  <2>. QED
    BY <2>2
<1>2. ASSUME NEW m \in 1 .. n, OK(m - 1) PROVE OK(m)
  <2>1. PICK g : BracesUpto(g, m - 1, u, clean, l, from)
    BY <1>2
  <2>. DEFINE x == BraceTurn(g[m - 1], clean, l, m, from)
              h == [i \in 0 .. m |-> IF i = m THEN x ELSE g[i]]
  <2>2. /\ m \in 0 .. m /\ 0 \in 0 .. m /\ m # 0 /\ m - 1 \in 0 .. m /\ m - 1 # m
        /\ \A i \in 0 .. m : i # m => i \in 0 .. m - 1
        /\ \A i \in 0 .. m : i # 0 => i - 1 \in 0 .. m /\ i - 1 # m
    OBVIOUS
  <2>3. \A i \in 0 .. m - 1 : g[i] = IF i = 0 THEN u ELSE BraceTurn(g[i - 1], clean, l, i, from)
    BY <2>1 DEF BracesUpto
  <2>. DEFINE w == m - 1
  <2>. HIDE DEF x, w
  <2>4. \A i \in 0 .. m : h[i] = IF i = 0 THEN u ELSE BraceTurn(h[i - 1], clean, l, i, from)
    <3>1. ASSUME NEW i \in 0 .. m, i = m
          PROVE  h[i] = IF i = 0 THEN u ELSE BraceTurn(h[i - 1], clean, l, i, from)
      <4>1. h[i] = x /\ h[m - 1] = g[m - 1]
        BY <2>2, <3>1
      <4>. QED
        BY <2>2, <3>1, <4>1 DEF x
    <3>2. ASSUME NEW i \in 0 .. m, i # m
          PROVE  h[i] = IF i = 0 THEN u ELSE BraceTurn(h[i - 1], clean, l, i, from)
      <4>1. h[i] = g[i] /\ i \in 0 .. m - 1
        BY <2>2, <3>2
      <4>2. i # 0 => h[i - 1] = g[i - 1]
        BY <2>2
      <4>. QED
        BY <2>3, <4>1, <4>2
    <3>. QED
      BY <3>1, <3>2
  <2>5. h = [i \in 0 .. m |-> h[i]]
    OBVIOUS
  <2>. HIDE DEF h
  <2>6. BracesUpto(h, m, u, clean, l, from)
    BY <2>4, <2>5 DEF BracesUpto
  <2>. QED
    BY <2>6
<1>3. ASSUME Bad # {} PROVE FALSE
  <2>. HIDE DEF OK
  <2>1. Bad \in SUBSET Nat
    OBVIOUS
  <2>2. PICK k \in Bad : \A j \in Bad : k <= j
    BY <1>3, <2>1, LeastExists
  <2>3. k # 0 /\ k \in 0 .. n
    BY <1>1, <2>2
  <2>4. k \in 1 .. n /\ k - 1 \in 0 .. n /\ ~(k <= k - 1)
    BY <2>3
  <2>5. OK(k - 1)
    BY <2>2, <2>4
  <2>. QED
    BY <1>2, <2>2, <2>4, <2>5
<1>4. n \in 0 .. n
  OBVIOUS
<1>5. OK(n)
  <2>. HIDE DEF OK
  <2>. QED
    BY <1>3, <1>4
<1>. QED
  BY <1>5

LEMMA BracesKeep ==
  ASSUME NEW U, NEW l, Later(U, l), NEW clean, Len(clean.elided[l]) \in Nat,
         NEW u, Bracing(u, U), NEW from
  PROVE  Bracing(Braces(u, clean, l, from), U)
<1>. DEFINE n == Len(clean.elided[l])
            g == CHOOSE h : h = [i \in 0 .. n |-> IF i = 0 THEN u
                                                  ELSE IF i < from THEN h[i - 1]
                                                  ELSE Brace(h[i - 1], clean, l, i, from)]
<1>1. n \in Nat /\ n \in 0 .. n
  OBVIOUS
<1>2. Braces(u, clean, l, from) = g[n]
  BY DEF Braces
<1>3. BracesUpto(g, n, u, clean, l, from)
  <2>. HIDE DEF n
  <2>. QED
    BY <1>1, BracesExist DEF BracesUpto, BraceTurn
<1>. HIDE DEF g, n
<1>. DEFINE OK(i) == Bracing(g[i], U)
            Bad == {i \in 0 .. n : ~OK(i)}
<1>4. /\ g[0] = u
      /\ \A i \in 1 .. n : g[i] = BraceTurn(g[i - 1], clean, l, i, from)
  <2>1. 0 \in 0 .. n /\ \A k \in 1 .. n : k \in 0 .. n /\ k # 0
    BY <1>1
  <2>. QED
    BY <1>3, <2>1 DEF BracesUpto
<1>5. OK(0)
  BY <1>4
<1>6. ASSUME NEW i \in 1 .. n, OK(i - 1) PROVE OK(i)
  BY <1>4, <1>6, BraceKeeps DEF BraceTurn
<1>7. ASSUME Bad # {} PROVE FALSE
  <2>. HIDE DEF OK
  <2>1. Bad \in SUBSET Nat
    OBVIOUS
  <2>2. PICK k \in Bad : \A j \in Bad : k <= j
    BY <1>7, <2>1, LeastExists
  <2>3. k # 0 /\ k \in 0 .. n
    BY <1>5, <2>2
  <2>4. k \in 1 .. n /\ k - 1 \in 0 .. n /\ ~(k <= k - 1)
    BY <1>1, <2>3
  <2>5. OK(k - 1)
    BY <2>2, <2>4
  <2>. QED
    BY <1>6, <2>2, <2>4, <2>5
<1>8. OK(n)
  <2>. HIDE DEF OK
  <2>. QED
    BY <1>1, <1>7
<1>. QED
  BY <1>2, <1>8

\* The namespaces that a line may begin with.
Space(l, x, b) == [Block("namespace", l) EXCEPT !.name = x, !.seen = b]
Spaces(s, l) == UNION {{Space(l, x, b) : b \in BOOLEAN} : x \in ToSet(s) \cup {""}}
SpaceState(s, l) == [blocks : Seq(Spaces(s, l)), at : Nat \ {0}]

LEMMA SpaceIn ==
  ASSUME NEW s, NEW l, NEW y \in ToSet(s) \cup {""}, NEW c \in BOOLEAN
  PROVE  Space(l, y, c) \in Spaces(s, l)
<1>1. Space(l, y, c) \in {Space(l, y, b) : b \in BOOLEAN}
  OBVIOUS
<1>. QED
  BY <1>1 DEF Spaces

LEMMA NextNamespaceType ==
  ASSUME NEW T, NEW s \in Seq(T), NEW l, NEW u \in SpaceState(s, l)
  PROVE  NextNamespace(u, s, l) \in SpaceState(s, l)
<1>. DEFINE p == u.at
            named == p < Len(s) /\ Word(s[p + 1])
            brace == First({i \in Places(s, "{") : i > p})
            x == IF named THEN s[p + 1] ELSE ""
            b == brace # 0
            ns == Space(l, x, b)
            at == IF brace # 0 THEN brace + 1 ELSE IF named THEN p + 2 ELSE p + 1
<1>1. p \in Nat \ {0} /\ u.blocks \in Seq(Spaces(s, l)) /\ Len(s) \in Nat /\ DOMAIN s = 1 .. Len(s)
  BY DEF SpaceState
<1>2. brace \in Nat
  <2>1. {i \in Places(s, "{") : i > p} \in SUBSET (Nat \ {0})
    <3>1. Places(s, "{") \subseteq 1 .. Len(s)
      BY <1>1 DEF Places
    <3>3. \A i \in 1 .. Len(s) : i \in Nat \ {0}
      BY <1>1
    <3>2. \A i \in Places(s, "{") : i \in Nat \ {0}
      BY <3>1, <3>3, Zenon
    <3>. QED
      BY <3>2, Zenon
  <2>. QED
    BY <2>1, FirstIs
<1>3. x \in ToSet(s) \cup {""}
  <2>1. p < Len(s) => p + 1 \in DOMAIN s
    BY <1>1
  <2>. QED
    BY <2>1 DEF ToSet
<1>. DEFINE nx == NextNamespace(u, s, l)
            new == Append(u.blocks, ns)
<1>4. nx = u \/ nx = [blocks |-> new, at |-> at]
  BY DEF NextNamespace, Space
<1>5. at \in Nat \ {0}
  <2>. HIDE DEF brace, named
  <2>. QED
    BY <1>1, <1>2
<1>. HIDE DEF x, b
<1>6. ns \in Spaces(s, l)
  <2>1. b \in BOOLEAN
    BY DEF b
  <2>. QED
    BY <1>3, <2>1, SpaceIn
<1>. HIDE DEF ns, at, nx
<1>7. new \in Seq(Spaces(s, l))
  BY <1>1, <1>6
<1>. HIDE DEF new
<1>8. nx \in SpaceState(s, l)
  BY <1>4, <1>5, <1>7 DEF SpaceState
<1>. QED
  BY <1>8 DEF nx

\* The namespaces of a line are read one by one.
LEMMA NamespaceTurns ==
  ASSUME NEW W, NEW s \in Seq(W), NEW l
  PROVE  \E K : /\ K[0] = [blocks |-> <<>>, at |-> 1]
                /\ \A i \in 1 .. Len(s) : K[i] = NextNamespace(K[i - 1], s, l)
                /\ \A i \in 0 .. Len(s) : K[i] \in SpaceState(s, l)
                /\ Namespaces(s, l) = K[Len(s)]
<1>. DEFINE n == Len(s)
            S == SpaceState(s, l)
            F == [x \in (1 .. n) \X S |-> NextNamespace(x[2], s, l)]
            Val(g, T) == IF T = {} THEN [blocks |-> <<>>, at |-> 1] ELSE NextNamespace(g[T \ {Max(T)}], s, l)
            P == SUBSET (1 .. n)
<1>1. n \in Nat /\ DOMAIN s = 1 .. n
  BY IndicesOfSeq
<1>2. [blocks |-> <<>>, at |-> 1] \in S
  BY DEF SpaceState
<1>3. ASSUME NEW i \in 1 .. n, NEW a \in S
      PROVE  F[<<i, a>>] = NextNamespace(a, s, l) /\ F[<<i, a>>] \in S
  <2>1. F[<<i, a>>] = NextNamespace(a, s, l)
    OBVIOUS
  <2>. QED
    BY <1>1, <2>1, NextNamespaceType
<1>. HIDE DEF F
<1>4. PICK G : FoldOf(G, F, n, [blocks |-> <<>>, at |-> 1], S)
  <2>1. FoldStep(F, n, S)
    BY <1>3 DEF FoldStep
  <2>. HIDE DEF n, S
  <2>. QED
    BY <1>1, <1>2, <2>1, FoldExists
<1>5. \A T \in P : T # {} => Max(T) \in 1 .. n /\ T \ {Max(T)} \in P
  BY <1>1, GreatestAndRest
<1>6. G = [T \in P |-> Val(G, T)] /\ \A T \in P : G[T] \in S
  <2>. HIDE DEF P, S
  <2>3. /\ G = [T \in P |-> IF T = {} THEN [blocks |-> <<>>, at |-> 1] ELSE F[<<Max(T), G[T \ {Max(T)}]>>]]
        /\ \A T \in P : G[T] \in S
    BY <1>4 DEF FoldOf, P
  <2>1. \A T \in P : G[T] = Val(G, T)
    BY <1>3, <1>5, <2>3
  <2>2. G = [T \in P |-> G[T]]
    BY <2>3
  <2>. QED
    BY <2>1, <2>2, <2>3
<1>. DEFINE g == CHOOSE f : f = [T \in P |-> Val(f, T)]
<1>7. g = [T \in P |-> Val(g, T)]
  BY <1>6
<1>8. Namespaces(s, l) = g[1 .. n]
  BY <1>1 DEF Namespaces, FoldLeft, MapThenFoldSet
<1>. HIDE DEF g
<1>9. \A T \in P : g[T] = Val(g, T)
  BY <1>7
<1>. DEFINE K == [i \in 0 .. n |-> g[1 .. i]]
<1>10. 1 .. 0 = {} /\ 1 .. 0 \in P /\ 0 \in 0 .. n /\ n \in 0 .. n
  BY <1>1
<1>11. K[0] = [blocks |-> <<>>, at |-> 1] /\ K[n] = g[1 .. n]
  BY <1>9, <1>10
<1>12. ASSUME NEW i \in 1 .. n PROVE K[i] = NextNamespace(K[i - 1], s, l) /\ i \in 0 .. n /\ i - 1 \in 0 .. n
  <2>1. i \in 0 .. n /\ i - 1 \in 0 .. n
    BY <1>1
  <2>2. 1 .. i \in P /\ 1 .. i # {} /\ Max(1 .. i) = i /\ (1 .. i) \ {Max(1 .. i)} = 1 .. i - 1
    BY <1>1, FirstNumbers
  <2>3. g[1 .. i] = NextNamespace(g[1 .. i - 1], s, l)
    BY <1>9, <2>2
  <2>. QED
    BY <2>1, <2>3
<1>13. \A i \in 0 .. n : K[i] \in S
  <2>. DEFINE OK(i) == K[i] \in S
              Bad == {i \in 0 .. n : ~OK(i)}
  <2>1. OK(0)
    BY <1>2, <1>11
  <2>2. ASSUME NEW i \in 1 .. n, OK(i - 1) PROVE OK(i)
    <3>. HIDE DEF K, S
    <3>. QED
      BY <1>3, <1>12, <2>2, ZenonT(40)
  <2>3. CASE Bad # {}
    <3>1. Bad \in SUBSET Nat
      OBVIOUS
    <3>2. PICK k \in Bad : \A j \in Bad : k <= j
      BY <2>3, <3>1, LeastExists
    <3>. HIDE DEF OK
    <3>3. k # 0 /\ k \in 0 .. n
      BY <2>1, <3>2
    <3>4. k \in 1 .. n /\ k - 1 \in 0 .. n /\ ~(k <= k - 1)
      BY <1>1, <3>3
    <3>5. OK(k - 1)
      BY <3>2, <3>4
    <3>. QED
      BY <2>2, <3>2, <3>4, <3>5
  <2>. QED
    BY <2>3
<1>. HIDE DEF K
<1>. QED
  BY <1>8, <1>11, <1>12, <1>13

\* A stack of blocks with the stacks that the conditionals keep.
Nesting(nest) ==
  /\ nest = [stack |-> nest.stack, top |-> nest.top, pp |-> nest.pp]
  /\ IsList(nest.stack) /\ IsList(nest.pp)
  /\ \A p \in ToSet(nest.pp) : /\ p = [before |-> p.before, saved |-> p.saved, seen |-> p.seen]
                               /\ IsList(p.before) /\ IsList(p.saved)

LEMMA TopOf ==
  ASSUME NEW s, IsList(s), s # <<>>
  PROVE  Last(s) \in ToSet(s) /\ ToSet(Front(s)) \subseteq ToSet(s)
<1>1. s \in Seq(ToSet(s)) /\ Len(s) \in Nat /\ DOMAIN s = 1 .. Len(s)
  BY IndicesOfSeq DEF IsList
<1>2. Len(s) \in 1 .. Len(s)
  BY <1>1, EmptySeq
<1>3. Last(s) \in ToSet(s)
  BY <1>1, <1>2 DEF Last, ToSet
<1>. DEFINE S == ToSet(s)
<1>. HIDE DEF S
<1>4. Front(s) \in Seq(S)
  <2>1. s \in Seq(S)
    BY <1>1 DEF S
  <2>. QED
    BY <2>1, FrontProperties
<1>5. ToSet(Front(s)) \subseteq S
  BY <1>4, IndicesOfSeq
<1>. QED
  BY <1>3, <1>5 DEF S

LEMMA AppendElements ==
  ASSUME NEW s, IsList(s), NEW b
  PROVE  ToSet(Append(s, b)) = ToSet(s) \cup {b}
<1>. DEFINE S == ToSet(s) \cup {b}
<1>1. s \in Seq(ToSet(s)) /\ ToSet(s) \subseteq S /\ b \in S
  BY DEF IsList
<1>. HIDE DEF S
<1>2. s \in Seq(S)
  BY <1>1
<1>. QED
  BY <1>1, <1>2, PushBack DEF S

\* What a conditional keeps of the stack.
Kept(p) == /\ p = [before |-> p.before, saved |-> p.saved, seen |-> p.seen]
           /\ IsList(p.before) /\ IsList(p.saved)

LEMMA PreprocessorKeeps ==
  ASSUME NEW nest, Nesting(nest), NEW s
  PROVE  Nesting(UpdatePreprocessor(nest, s))
<1>. DEFINE b == nest.stack
            q == nest.pp
            o == nest.top
            top == Last(q)
            w == UpdatePreprocessor(nest, s)
            new == [before |-> b, saved |-> <<>>, seen |-> FALSE]
            alt == [top EXCEPT !.seen = TRUE, !.saved = b]
<1>1. nest = [stack |-> b, top |-> o, pp |-> q] /\ IsList(b) /\ IsList(q)
  BY DEF Nesting
<1>2. \A p \in ToSet(q) : Kept(p)
  BY DEF Nesting, Kept
<1>3. q # <<>> => Kept(top) /\ ToSet(Front(q)) \subseteq ToSet(q)
  BY <1>1, <1>2, TopOf
<1>4. \/ w = [nest EXCEPT !.pp = Append(q, new)]
      \/ q # <<>> /\ top.seen /\ w = [nest EXCEPT !.stack = top.before, !.pp = q]
      \/ q # <<>> /\ w = [nest EXCEPT !.stack = top.before, !.pp = OnTop(q, alt)]
      \/ q # <<>> /\ w = [nest EXCEPT !.stack = top.saved, !.pp = Front(q)]
      \/ q # <<>> /\ w = [nest EXCEPT !.stack = b, !.pp = Front(q)]
      \/ w = nest
  <2>. DEFINE d == Directive(s)
  <2>1. w = CASE d \in Conditional -> [nest EXCEPT !.pp = Append(q, new)]
              [] d \in Alternative /\ q # <<>> ->
                   [nest EXCEPT !.stack = top.before, !.pp = IF top.seen THEN q ELSE OnTop(q, alt)]
              [] d = "#endif" /\ q # <<>> ->
                   [nest EXCEPT !.stack = IF top.seen THEN top.saved ELSE b, !.pp = Front(q)]
              [] OTHER -> nest
    BY DEF UpdatePreprocessor
  <2>. HIDE DEF d, w, q, b, new, alt, top
  <2>2. d \in Conditional => w = [nest EXCEPT !.pp = Append(q, new)]
    BY <2>1 DEF Conditional, Alternative
  <2>3. d \in Alternative /\ q # <<>> =>
          w = [nest EXCEPT !.stack = top.before, !.pp = IF top.seen THEN q ELSE OnTop(q, alt)]
    BY <2>1 DEF Conditional, Alternative
  <2>4. d = "#endif" /\ q # <<>> =>
          w = [nest EXCEPT !.stack = IF top.seen THEN top.saved ELSE b, !.pp = Front(q)]
    BY <2>1 DEF Conditional, Alternative
  <2>5. \/ d \in Conditional
        \/ d \in Alternative /\ q # <<>>
        \/ d = "#endif" /\ q # <<>>
        \/ w = nest
    BY <2>1
  <2>. QED
    BY <2>2, <2>3, <2>4, <2>5
<1>5. IsList(<<>>)
  <2>1. <<>> \in Seq({})
    OBVIOUS
  <2>. QED
    BY <2>1, ListIs
<1>6. Kept(new)
  BY <1>1, <1>5 DEF Kept
<1>7. q # <<>> => Kept(alt)
  <2>. HIDE DEF top, b
  <2>1. ASSUME q # <<>>
        PROVE  alt = [before |-> top.before, saved |-> b, seen |-> TRUE] /\ IsList(top.before)
    <3>1. PICK x, y, z : top = [before |-> x, saved |-> y, seen |-> z] /\ IsList(x)
      BY <1>3, <2>1 DEF Kept
    <3>2. alt = [before |-> x, saved |-> b, seen |-> TRUE]
      <4>. DEFINE yes == TRUE
                  w1 == alt
      <4>1. w1 = [top EXCEPT !.seen = yes, !.saved = b]
        OBVIOUS
      <4>. HIDE DEF yes, w1, alt
      <4>2. w1 = [before |-> x, saved |-> b, seen |-> yes]
        BY <3>1, <4>1
      <4>. QED
        BY <4>2 DEF yes, w1
    <3>3. top.before = x
      BY <3>1
    <3>. QED
      BY <3>1, <3>2, <3>3
  <2>. HIDE DEF alt
  <2>. QED
    BY <1>1, <2>1 DEF Kept
<1>. DEFINE more == Append(q, new)
            other == OnTop(q, alt)
            less == Front(q)
<1>. HIDE DEF new, alt
<1>8. IsList(more) /\ \A p \in ToSet(more) : Kept(p)
  BY <1>1, <1>2, <1>6, ListSteps, AppendElements
<1>9. q # <<>> => IsList(less) /\ \A p \in ToSet(less) : Kept(p)
  BY <1>1, <1>2, <1>3, ListSteps
<1>10. q # <<>> => IsList(other) /\ \A p \in ToSet(other) : Kept(p)
  BY <1>7, <1>9, ListSteps, AppendElements DEF OnTop, less
<1>11. q # <<>> => IsList(top.before) /\ IsList(top.saved)
  BY <1>3 DEF Kept
<1>. DEFINE tb == top.before
            ts == top.saved
<1>. HIDE DEF more, other, less, w, top, tb, ts
<1>12. ASSUME NEW x, NEW y, IsList(x), IsList(y), \A p \in ToSet(y) : Kept(p),
              w = [stack |-> x, top |-> o, pp |-> y]
       PROVE  Nesting(w)
  BY <1>12 DEF Nesting, Kept
<1>. HIDE DEF b, q, o
<1>20. SUFFICES Nesting(w)
  BY DEF w
<1>13. CASE w = [nest EXCEPT !.pp = more]
  <2>1. w = [stack |-> b, top |-> o, pp |-> more]
    BY <1>1, <1>13
  <2>. QED
    BY <1>1, <1>8, <1>12, <2>1
<1>14. CASE q # <<>> /\ w = [nest EXCEPT !.stack = tb, !.pp = q]
  <2>1. w = [stack |-> tb, top |-> o, pp |-> q]
    BY <1>1, <1>14
  <2>. QED
    BY <1>1, <1>2, <1>11, <1>12, <1>14, <2>1 DEF tb
<1>15. CASE q # <<>> /\ w = [nest EXCEPT !.stack = tb, !.pp = other]
  <2>1. w = [stack |-> tb, top |-> o, pp |-> other]
    BY <1>1, <1>15
  <2>. QED
    BY <1>10, <1>11, <1>12, <1>15, <2>1 DEF tb
<1>16. CASE q # <<>> /\ w = [nest EXCEPT !.stack = ts, !.pp = less]
  <2>1. w = [stack |-> ts, top |-> o, pp |-> less]
    BY <1>1, <1>16
  <2>. QED
    BY <1>9, <1>11, <1>12, <1>16, <2>1 DEF ts
<1>17. CASE q # <<>> /\ w = [nest EXCEPT !.stack = b, !.pp = less]
  <2>1. w = [stack |-> b, top |-> o, pp |-> less]
    BY <1>1, <1>17
  <2>. QED
    BY <1>1, <1>9, <1>12, <1>17, <2>1
<1>18. CASE w = nest
  BY <1>18
<1>. QED
  BY <1>4, <1>13, <1>14, <1>15, <1>16, <1>17, <1>18 DEF more, other, less, tb, ts

LEMMA ParensKeep ==
  ASSUME NEW stack, IsList(stack), NEW s
  PROVE  IsList(CountParens(stack, s))
<1>1. stack = <<>> => CountParens(stack, s) = stack
  BY DEF CountParens
<1>2. stack # <<>> => \E b : CountParens(stack, s) = OnTop(stack, b)
  BY DEF CountParens
<1>. QED
  BY <1>1, <1>2, ListSteps

\* A line changes the stack and reports what stands before the next line.
LEMMA UpdateKeeps ==
  ASSUME NEW U, NEW l, Later(U, l), NEW clean, NEW T, clean.elided[l] \in Seq(T),
         NEW nest, Nesting(nest)
  PROVE  /\ Nesting(Update(nest, clean, l).nest)
         /\ ErrorsBut(Update(nest, clean, l).errors, U)
<1>. DEFINE s == clean.elided[l]
            pp == UpdatePreprocessor(nest, s)
            par == CountParens(pp.stack, s)
            ns == Namespaces(s, l)
            heads == Heads(par, clean, l)
            ua == UpdateAccess(heads.stack, clean, l, heads.from)
            u == Tails(heads, clean, l)
<1>1. Nesting(pp)
  BY PreprocessorKeeps
<1>. HIDE DEF pp
<1>2. IsList(par)
  BY <1>1, ParensKeep DEF Nesting
<1>. HIDE DEF par
<1>3. IsList(par \o ns.blocks)
  <2>1. ns \in SpaceState(s, l)
    <3>1. Len(s) \in 0 .. Len(s)
      OBVIOUS
    <3>. QED
      BY <3>1, NamespaceTurns
  <2>2. IsList(ns.blocks)
    BY <2>1, ListIs DEF SpaceState
  <2>. QED
    BY <1>2, <2>2, ListSteps
<1>. DEFINE two == par \o ns.blocks
<1>4. heads = ClassHead(two, clean, l, ns.at)
  BY DEF Heads
<1>. HIDE DEF heads, two, ns
<1>5. IsList(heads.stack)
  <2>1. heads.stack = two \/ \E b : heads.stack = Append(two, b)
    BY <1>4 DEF ClassHead
  <2>. QED
    BY <1>3, <2>1, ListSteps DEF two
<1>6. Bracing(ua, U)
  <2>. DEFINE k == heads.stack
              es(b) == When(b, Found(l, <<"whitespace", "indent">>, 3))
  <2>1. \/ ua = [stack |-> k, errors |-> <<>>]
        \/ k # <<>> /\ \E t, b : ua = [stack |-> OnTop(k, t), errors |-> es(b)]
    BY Zenon DEF UpdateAccess
  <2>2. \A b : ErrorsBut(es(b), U)
    <3>1. <<"whitespace", "indent">> \in Categories
      BY CategoriesAssumption
    <3>2. \A i \in U : l # i /\ l # i + 1
      BY LaterIs DEF Later
    <3>. QED
      BY <3>1, <3>2, OneError, WhenErrors
  <2>. HIDE DEF ua, k, es
  <2>3. ErrorsBut(<<>>, U)
    BY NoErrors
  <2>4. k # <<>> => \A t : IsList(OnTop(k, t))
    BY <1>5, ListSteps DEF k
  <2>5. IsList(k)
    BY <1>5 DEF k
  <2>6. CASE ua = [stack |-> k, errors |-> <<>>]
    BY <2>3, <2>5, <2>6 DEF Bracing
  <2>7. CASE k # <<>> /\ \E t, b : ua = [stack |-> OnTop(k, t), errors |-> es(b)]
    <3>1. PICK t, b : ua = [stack |-> OnTop(k, t), errors |-> es(b)]
      BY <2>7
    <3>2. IsList(OnTop(k, t)) /\ ErrorsBut(es(b), U)
      BY <2>2, <2>4, <2>7
    <3>. QED
      BY <3>1, <3>2 DEF Bracing
  <2>. QED
    BY <2>1, <2>6, <2>7
<1>7. Bracing(u, U)
  <2>1. Len(s) \in Nat
    OBVIOUS
  <2>. QED
    BY <1>6, <2>1, BracesKeep DEF Tails
<1>8. PICK top : Update(nest, clean, l) = Updated(u, top, pp.pp)
  BY Zenon DEF Update, heads, par, pp
<1>. HIDE DEF u, ua
<1>9. /\ Update(nest, clean, l).errors = u.errors
      /\ Update(nest, clean, l).nest = [stack |-> u.stack, top |-> top, pp |-> pp.pp]
  BY <1>8 DEF Updated
<1>10. IsList(u.stack) /\ ErrorsBut(u.errors, U)
  BY <1>7 DEF Bracing
<1>11. IsList(pp.pp) /\ \A p \in ToSet(pp.pp) : Kept(p)
  BY <1>1 DEF Nesting, Kept
<1>. DEFINE us == u.stack
            q == pp.pp
            w == Update(nest, clean, l).nest
<1>. HIDE DEF us, q, w
<1>12. w = [stack |-> us, top |-> top, pp |-> q] /\ IsList(us) /\ IsList(q) /\ \A p \in ToSet(q) : Kept(p)
  BY <1>9, <1>10, <1>11 DEF us, q, w
<1>13. Nesting(w)
  BY <1>12 DEF Nesting, Kept
<1>. QED
  BY <1>9, <1>10, <1>13 DEF w

-----------------------------------------------------------------------------
\* The tokens of a file, and those of its first line.
FirstTokens == {"//", "marker", "so", "/*", "*/"} \cup Glue
TokensOf(L) == UNION {ToSet(line.toks) : line \in ToSet(L)}
Tokens(name) == FirstTokens \cup TokensOf(disk.files[name].lines)

LEMMA RawType ==
  ASSUME NEW name, FileLines(disk.files[name].lines)
  PROVE  /\ \A i \in 1 .. Len(Raw(name)) : Raw(name)[i].toks \in Seq(Tokens(name))
         /\ Raw(name)[1].toks \in Seq(FirstTokens)
         /\ \A i \in 1 .. Len(Raw(name)) :
               /\ IsFiniteSet(Raw(name)[i].faults) /\ \A f \in Raw(name)[i].faults : f[1] \in Categories
               /\ IsFiniteSet(Raw(name)[i].bad) /\ Raw(name)[i].bad \subseteq Categories
<1>. DEFINE L == disk.files[name].lines
            W == Marked(name)
            T == Tokens(name)
            n == Len(L)
            Fine(line) == /\ IsFiniteSet(line.faults) /\ \A f \in line.faults : f[1] \in Categories
                          /\ IsFiniteSet(line.bad) /\ line.bad \subseteq Categories
<1>1. /\ n \in Nat /\ Len(Raw(name)) = n + 2 /\ W[1] = Marker(53) /\ W[n + 2] = Marker(44)
      /\ \A i \in 1 .. n : W[i + 1] = L[i] /\ L[i] \in ToSet(L)
      /\ \A i \in 1 .. n + 2 : Raw(name)[i] = IF i \in Gone(name) THEN Plain(<<"/*", "*/">>) ELSE W[i]
  <2>1. /\ n \in Nat /\ W[1] = Marker(53) /\ W[n + 2] = Marker(44)
        /\ \A i \in 1 .. n : W[i + 1] = L[i] /\ L[i] \in ToSet(L)
    BY MarkedIs, Zenon DEF Marked
  <2>2. /\ Len(Raw(name)) = n + 2
        /\ \A i \in 1 .. n + 2 : Raw(name)[i] = IF i \in Gone(name) THEN Plain(<<"/*", "*/">>) ELSE W[i]
    BY RawIs, Zenon
  <2>. QED
    BY ONLY <2>1, <2>2
<1>2. \A w : Marker(w).toks \in Seq(FirstTokens)
  <2>1. <<"//", "marker", "so">> \in Seq(FirstTokens)
    BY DEF FirstTokens
  <2>2. \A w : Marker(w).toks = <<"//", "marker", "so">>
    BY DEF Marker, Plain
  <2>. QED
    BY <2>1, <2>2
<1>3. Plain(<<"/*", "*/">>).toks \in Seq(FirstTokens)
  <2>1. <<"/*", "*/">> \in Seq(FirstTokens)
    BY DEF FirstTokens
  <2>2. Plain(<<"/*", "*/">>).toks = <<"/*", "*/">>
    BY DEF Plain
  <2>. QED
    BY <2>1, <2>2
<1>4. FirstTokens \subseteq T
  BY Zenon DEF Tokens
<1>5. Seq(FirstTokens) \subseteq Seq(T)
  <2>. HIDE DEF T
  <2>. QED
    BY <1>4
<1>6. \A line \in ToSet(L) : line.toks \in Seq(T)
  <2>1. ASSUME NEW line \in ToSet(L) PROVE line.toks \in Seq(T)
    <3>1. line.toks \in Seq(ToSet(line.toks))
      BY DEF FileLines
    <3>2. ToSet(line.toks) \subseteq TokensOf(L)
      BY DEF TokensOf
    <3>3. TokensOf(L) \subseteq T
      BY DEF Tokens
    <3>. HIDE DEF T
    <3>. QED
      BY <3>1, <3>2, <3>3
  <2>. QED
    BY <2>1
<1>7. \A line \in ToSet(L) : Fine(line)
  BY DEF FileLines
<1>8. (\A w : Fine(Marker(w))) /\ Fine(Plain(<<"/*", "*/">>))
  <2>1. IsFiniteSet({})
    BY FS_EmptySet
  <2>2. \A w : Marker(w).faults = {} /\ Marker(w).bad = {}
    BY DEF Marker, Plain
  <2>3. Plain(<<"/*", "*/">>).faults = {} /\ Plain(<<"/*", "*/">>).bad = {}
    BY DEF Plain
  <2>. QED
    BY <2>1, <2>2, <2>3
<1>. HIDE DEF Fine, T, W, n
<1>9. ASSUME NEW i \in 1 .. n + 2
      PROVE  Raw(name)[i].toks \in Seq(T) /\ Fine(Raw(name)[i])
  <2>1. CASE i \in Gone(name)
    BY <1>1, <1>3, <1>5, <1>8, <2>1
  <2>2. CASE i \notin Gone(name)
    <3>1. Raw(name)[i] = W[i]
      BY <1>1, <2>2
    <3>2. i = 1 \/ i = n + 2 \/ (i - 1 \in 1 .. n /\ (i - 1) + 1 = i)
      BY <1>1
    <3>3. CASE i = 1 \/ i = n + 2
      BY <1>1, <1>2, <1>5, <1>8, <3>1, <3>3
    <3>4. CASE i - 1 \in 1 .. n /\ (i - 1) + 1 = i
      <4>1. W[(i - 1) + 1] = L[i - 1] /\ L[i - 1] \in ToSet(L)
        BY <1>1, <3>4
      <4>2. Raw(name)[i] = L[i - 1]
        BY <3>1, <3>4, <4>1
      <4>. HIDE DEF L
      <4>. QED
        BY <1>6, <1>7, <4>1, <4>2
    <3>5. 1 - 1 = 0
      OBVIOUS
    <3>. QED
      BY <3>2, <3>3, <3>4, <3>5, Zenon
  <2>. QED
    BY <2>1, <2>2
<1>10. Raw(name)[1].toks \in Seq(FirstTokens)
  <2>1. 1 \in 1 .. n + 2
    BY <1>1
  <2>. QED
    BY <1>1, <1>2, <1>3, <2>1
<1>. QED
  BY <1>1, <1>9, <1>10 DEF Fine, T

\* The copies of the text of a file; the first line has no brace.
LEMMA TextType ==
  ASSUME NEW name, FileLines(disk.files[name].lines)
  PROVE  LET c == CleansedLines(Raw(name)) IN
         /\ c.raw = Raw(name) /\ Len(c.elided) = Len(Raw(name))
         /\ DOMAIN c.elided = 1 .. Len(Raw(name))
         /\ \A i \in 1 .. Len(Raw(name)) : c.elided[i] \in Seq(Tokens(name))
         /\ c.elided[1] \in Seq(FirstTokens)
<1>. DEFINE raw == Raw(name)
            n == Len(raw)
            t == Toks(raw)
            T == Tokens(name)
            R == CleanseRawStrings(t)
            c == CleansedLines(raw)
<1>1. n \in Nat /\ n >= 2 /\ DOMAIN raw = 1 .. n
  BY RawIs
<1>2. Glue \subseteq T /\ Glue \subseteq FirstTokens /\ "q" \in T /\ "q" \in FirstTokens
  <2>1. FirstTokens \subseteq T
    BY Zenon DEF Tokens
  <2>2. Glue \subseteq FirstTokens
    BY Zenon DEF FirstTokens
  <2>3. "q" \in Glue
    BY DEF Glue
  <2>. HIDE DEF T
  <2>. QED
    BY <2>1, <2>2, <2>3
<1>3. (\A i \in 1 .. n : raw[i].toks \in Seq(T)) /\ raw[1].toks \in Seq(FirstTokens)
  BY RawType
<1>4. Len(t) = n /\ DOMAIN t = 1 .. n /\ (\A i \in 1 .. n : t[i] \in Seq(T)) /\ t[1] \in Seq(FirstTokens)
  BY <1>1, <1>3 DEF Toks
<1>. HIDE DEF T
<1>5. c.raw = raw /\ Len(c.elided) = n /\ DOMAIN c.elided = 1 .. n /\ \A i \in 1 .. n : c.elided[i] \in Seq(T)
  <2>. HIDE DEF raw
  <2>. QED
    BY <1>1, <1>2, <1>3, CopiesType
<1>6. c.elided[1] = CleanseComments(CollapseStrings(R[1]))
  <2>1. c.elided = [i \in DOMAIN R |-> CleanseComments(CollapseStrings(R[i]))]
    BY DEF CleansedLines
  <2>. HIDE DEF t
  <2>2. 1 \in DOMAIN R
    BY <1>1, <1>2, <1>4, NoRawType
  <2>. HIDE DEF c, R
  <2>. QED
    BY <2>1, <2>2
<1>7. R[1] \in Seq(FirstTokens)
  <2>. HIDE DEF t
  <2>1. PICK K : RawTurning(K, t, T)
    BY <1>1, <1>2, <1>4, RawTurns
  <2>2. 1 \in 1 .. Len(t) /\ 1 \in DOMAIN t
    BY <1>1, <1>4
  <2>3. R[1] = K[1].toks /\ K[1] = CleanseLine(t[1], K[0].open) /\ K[0] = [toks |-> <<>>, open |-> FALSE]
    <3>1. R = [i \in DOMAIN t |-> K[i].toks]
      BY <2>1 DEF RawTurning
    <3>2. K[1] = CleanseLine(t[1], K[1 - 1].open)
      BY <2>1, <2>2 DEF RawTurning
    <3>3. K[0] = [toks |-> <<>>, open |-> FALSE]
      BY <2>1 DEF RawTurning
    <3>. HIDE DEF R
    <3>4. R[1] = K[1].toks
      BY <2>2, <3>1
    <3>5. 1 - 1 = 0
      OBVIOUS
    <3>. QED
      BY <3>2, <3>3, <3>4, <3>5, Zenon
  <2>4. CleanseLine(t[1], FALSE) \in Collapsing(FirstTokens)
    BY <1>2, <1>4, CleanseLineType
  <2>5. K[0].open = FALSE
    BY <2>3
  <2>6. K[1] \in Collapsing(FirstTokens)
    BY <2>3, <2>4, <2>5
  <2>. QED
    BY <2>3, <2>6 DEF Collapsing
<1>. HIDE DEF R, c
<1>8. c.elided[1] \in Seq(FirstTokens)
  BY <1>2, <1>6, <1>7, CollapseStringsType, CleanseCommentsType
<1>. QED
  BY <1>5, <1>8 DEF c, T

\* An expression ends on its line or on a later one.
LEMMA CloseLine ==
  ASSUME NEW lines, NEW n \in Nat, Len(lines) = n, NEW l \in 1 .. n, NEW p,
         CloseExpression(lines, l, p) # Nowhere
  PROVE  CloseExpression(lines, l, p)[1] \in l .. n
<1>. DEFINE Scan == CHOOSE f : f = [k \in l .. Len(lines) |->
                      IF k = l THEN FindEndOfExpressionInLine(lines[l], p, <<>>)
                      ELSE IF f[k - 1].over THEN f[k - 1]
                      ELSE FindEndOfExpressionInLine(lines[k], 1, f[k - 1].stack)]
            K == {k \in l .. Len(lines) : Scan[k].over}
            end == First(K)
<1>1. end # 0 /\ CloseExpression(lines, l, p) = <<end, Scan[end].at>>
  BY DEF CloseExpression
<1>. HIDE DEF Scan
<1>2. K \in SUBSET (Nat \ {0}) /\ K \subseteq l .. n
  OBVIOUS
<1>. HIDE DEF K
<1>3. end \in K
  BY <1>1, <1>2, FirstIs
<1>. HIDE DEF end
<1>. QED
  BY <1>1, <1>2, <1>3

\* A redundant semicolon is on the line at hand or on a later one.
LEMMA TrailingIs ==
  ASSUME NEW clean, NEW n \in Nat, Len(clean.elided) = n, NEW l \in 1 .. n
  PROVE  TrailingSemicolon(clean, l) = 0 \/ TrailingSemicolon(clean, l) \in l .. n
<1>. DEFINE E == clean.elided
            C == {CloseExpression(E, l, p) : p \in EligibleBrace(clean, l)}
            D == {e \in C : e # Nowhere /\ e[2] < Len(E[e[1]]) /\ E[e[1]][e[2] + 1] = ";"}
            F == {end[1] : end \in D}
<1>1. TrailingSemicolon(clean, l) = First(F)
  BY DEF TrailingSemicolon
<1>2. \A e \in D : e[1] \in l .. n
  BY CloseLine
<1>3. \A x \in F : x \in l .. n
  <2>. HIDE DEF D
  <2>. QED
    BY <1>2
<1>. HIDE DEF F
<1>4. F \in SUBSET (Nat \ {0})
  BY <1>3
<1>. QED
  BY <1>1, <1>3, <1>4, FirstIs

\* The first line has no brace.
LEMMA NoBraceFirst ==
  ASSUME NEW clean, clean.elided[1] \in Seq(FirstTokens)
  PROVE  TrailingSemicolon(clean, 1) = 0
<1>. DEFINE s == clean.elided[1]
<1>1. "{" \notin FirstTokens
  BY DEF FirstTokens, Glue
<1>2. Places(s, "{") = {}
  <2>1. \A i \in DOMAIN s : s[i] \in FirstTokens
    OBVIOUS
  <2>. QED
    BY <1>1, <2>1, Zenon DEF Places
<1>3. Directive(s) # "{"
  <2>1. s # <<>> => Head(s) \in FirstTokens
    OBVIOUS
  <2>2. "" # "{"
    OBVIOUS
  <2>. QED
    BY <1>1, <2>1, <2>2 DEF Directive
<1>. DEFINE Before(t) == {p \in Places(s, "{") : p > 1 /\ s[p - 1] = t}
            other == Before("else") \cup {p \in Before("const") : p > 2 /\ s[p - 2] = ")"}
<1>4. EligibleBrace(clean, 1) \subseteq {p \in {1} : Directive(s) = "{"}
  <2>1. \A t : Before(t) = {}
    BY <1>2
  <2>2. other = {}
    BY <2>1
  <2>3. \E b : EligibleBrace(clean, 1) =
             IF Before(")") # {}
             THEN {p \in Rightmost(Before(")")) : ~Spared(clean.elided, ReverseCloseExpression(clean.elided, 1, p - 1))}
             ELSE IF other # {} THEN Rightmost(other)
             ELSE {p \in {1} : Directive(s) = "{" /\ b}
    BY Zenon DEF EligibleBrace
  <2>. HIDE DEF Before, other
  <2>. QED
    BY <2>1, <2>2, <2>3
<1>5. EligibleBrace(clean, 1) = {}
  BY <1>3, <1>4
<1>. DEFINE E == clean.elided
            F == {end[1] : end \in {e \in {CloseExpression(E, 1, p) : p \in EligibleBrace(clean, 1)} :
                  e # Nowhere /\ e[2] < Len(E[e[1]]) /\ E[e[1]][e[2] + 1] = ";"}}
<1>6. F = {}
  BY <1>5
<1>7. TrailingSemicolon(clean, 1) = First(F)
  BY DEF TrailingSemicolon
<1>. HIDE DEF F
<1>. QED
  BY <1>6, <1>7 DEF First

\* The reports are right, and the marks of the lines in R are in force.
Followed(j, R) ==
  JudgedOK(j) /\ R \subseteq 1 .. Len(Raw(file.name)) /\ Suppressing(j.suppress, file.name, R)

\* Errors at lines that no mark left to read excuses, and empty bodies below
\* the lines up to one that have been read.
LEMMA ErrorsFollowed ==
  ASSUME AtFile, FileLines(disk.files[file.name].lines), NEW j, NEW R, Followed(j, R),
         NEW at, at # 0, NEW es, IsList(es),
         \A e \in ToSet(es) :
           /\ e.category \in Categories
           /\ \/ \A i \in (1 .. Len(Raw(file.name))) \ R : e.line # i /\ e.line # i + 1
              \/ e.category \in EmptyBodies /\ e.line > at /\ 1 .. at \subseteq R
  PROVE  Followed(Errors(j, at, es), R)
<1>1. /\ JudgedOK(j) /\ R \subseteq 1 .. Len(Raw(file.name))
      /\ Suppressing(j.suppress, file.name, R)
  BY DEF Followed
<1>2. ASSUME NEW e \in ToSet(es) PROVE Judges(j.suppress, at, e)
  <2>. DEFINE m == ReadFor(e.category, e.line, at, file.name)
  <2>1. ASSUME NEW i \in (1 .. Len(Raw(file.name))) \ R
        PROVE  (e.line # i /\ e.line # i + 1) \/ i \notin 1 .. m
    <3>1. CASE e.line # i /\ e.line # i + 1
      BY <3>1
    <3>2. CASE e.category \in EmptyBodies /\ e.line > at /\ 1 .. at \subseteq R
      BY <3>2 DEF ReadFor
    <3>. QED
      BY <2>1, <3>1, <3>2
  <2>. HIDE DEF m
  <2>2. /\ IsErrorSuppressedByNolint(j.suppress, e.category, e.line)
             => Excused(file.name, e.category, e.line, WholeFile(file.name))
        /\ Excused(file.name, e.category, e.line, m)
             => IsErrorSuppressedByNolint(j.suppress, e.category, e.line)
    BY <1>1, <2>1, ExcusedIs
  <2>. QED
    BY <2>2 DEF Judges, m
<1>3. JudgedOK(Errors(j, at, es)) /\ Errors(j, at, es).suppress = j.suppress
  BY <1>1, <1>2, ErrorsJudged
<1>. QED
  BY <1>1, <1>3 DEF Followed

LEMMA MoreErrors ==
  ASSUME AtFile, FileLines(disk.files[file.name].lines), NEW j, NEW R, Followed(j, R),
         NEW at, at # 0, NEW es, ErrorsBut(es, (1 .. Len(Raw(file.name))) \ R)
  PROVE  Followed(Errors(j, at, es), R)
BY ErrorsFollowed DEF ErrorsBut

LEMMA MoreMarks ==
  ASSUME AtFile, FileLines(disk.files[file.name].lines), NEW j, NEW R, Followed(j, R),
         NEW at, NEW clean, clean.raw = Raw(file.name), NEW l \in 1 .. Len(Raw(file.name))
  PROVE  Followed(Nolint(j, at, clean, l), R \cup {l})
<1>. DEFINE line == clean.raw[l]
            p == ParseNolintSuppressions(j.suppress, line, l)
            k == [j EXCEPT !.suppress = p]
            e == [line |-> l, category |-> Malformed, confidence |-> 5]
            b == MalformedNolint(line)
            es == When(b, Found(l, Malformed, 5))
<1>1. /\ JudgedOK(j) /\ R \cup {l} \subseteq 1 .. Len(Raw(file.name))
      /\ Suppressing(j.suppress, file.name, R)
  BY DEF Followed
<1>2. Nolint(j, at, clean, l) = Errors(k, at, es)
  BY DEF Nolint, Malformed
<1>3. Suppressing(p, file.name, R \cup {l})
  BY <1>1, OneMark
<1>. HIDE DEF p
<1>. DEFINE s == j.suppress
            r == j.reports
            c == j.count
<1>4. j = [suppress |-> s, reports |-> r, count |-> c] /\ IsList(r) /\ \A x \in ToSet(r) : Right(x)
  BY <1>1 DEF JudgedOK
<1>. HIDE DEF s, r, c
<1>5. k = [suppress |-> p, reports |-> r, count |-> c]
  <2>. DEFINE w == k
  <2>1. w = [j EXCEPT !.suppress = p]
    OBVIOUS
  <2>. HIDE DEF w, k
  <2>2. w = [suppress |-> p, reports |-> r, count |-> c]
    BY <1>4, <2>1
  <2>. QED
    BY <2>2 DEF w
<1>. HIDE DEF k
<1>6. JudgedOK(k) /\ k.suppress = p
  BY <1>4, <1>5 DEF JudgedOK
<1>7. IsList(es) /\ \A x \in ToSet(es) : Judges(k.suppress, at, x)
  <2>1. es = <<e>> \/ es = <<>>
    BY DEF When, Found
  <2>2. Judges(k.suppress, at, e)
    <3>1. e.category = Malformed
      OBVIOUS
    <3>. HIDE DEF e
    <3>. QED
      BY <3>1 DEF Judges
  <2>. HIDE DEF e, es
  <2>3. <<e>> \in Seq({e}) /\ <<>> \in Seq({e}) /\ ToSet(<<e>>) = {e} /\ ToSet(<<>>) = {}
    BY DEF ToSet
  <2>. QED
    BY <2>1, <2>2, <2>3, ListIs
<1>. HIDE DEF es
<1>8. JudgedOK(Errors(k, at, es)) /\ Errors(k, at, es).suppress = p
  BY <1>6, <1>7, ErrorsJudged
<1>. QED
  BY <1>1, <1>2, <1>3, <1>8 DEF Followed

\* What is found when a file is opened.
LEMMA OpeningErrors ==
  ASSUME NEW lines
  PROVE  /\ IsList(FoundAtOpening(lines))
         /\ \A e \in ToSet(FoundAtOpening(lines)) :
              e.category \in {<<"legal", "copyright">>, <<"readability", "multiline", "_comment">>}
<1>. DEFINE c1 == <<"legal", "copyright">>
            c2 == <<"readability", "multiline", "_comment">>
            open == MultiLineComments(Toks(lines)).open
            e1 == [line |-> 1, category |-> c1, confidence |-> 5]
            e2 == [line |-> open + 1, category |-> c2, confidence |-> 5]
            A == CheckForCopyright(lines)
            B == When(open # 0, Found(open + 1, c2, 5))
            S == {e1, e2}
<1>1. FoundAtOpening(lines) = A \o B
  BY DEF FoundAtOpening
<1>2. A = <<e1>> \/ A = <<>>
  BY DEF CheckForCopyright, When, Found
<1>3. B = <<e2>> \/ B = <<>>
  BY DEF When, Found
<1>4. e1.category = c1 /\ e2.category = c2
  OBVIOUS
<1>. HIDE DEF A, B, e1, e2, c1, c2
<1>5. A \in Seq(S) /\ B \in Seq(S)
  <2>1. e1 \in S /\ e2 \in S
    OBVIOUS
  <2>. HIDE DEF S
  <2>2. <<e1>> \in Seq(S) /\ <<e2>> \in Seq(S) /\ <<>> \in Seq(S)
    BY <2>1
  <2>. QED
    BY <1>2, <1>3, <2>2
<1>6. \A e \in S : e.category \in {c1, c2}
  BY <1>4
<1>. HIDE DEF S
<1>. DEFINE x == A \o B
<1>7. x \in Seq(S) /\ ToSet(x) \subseteq S
  BY <1>5, ConcatElements, IndicesOfSeq
<1>. HIDE DEF x
<1>8. IsList(x) /\ \A e \in ToSet(x) : e.category \in {c1, c2}
  BY <1>6, <1>7, ListIs
<1>. QED
  BY <1>1, <1>8 DEF x, c1, c2

\* Errors found when the lines up to l have been read.
LEMMA LineErrors ==
  ASSUME AtFile, FileLines(disk.files[file.name].lines), NEW j, NEW R, Followed(j, R),
         NEW l \in Nat, 1 .. l \subseteq R, l # 0,
         NEW es, ErrorsBut(es, l + 1 .. Len(Raw(file.name)))
  PROVE  Followed(Errors(j, l, es), R)
<1>1. Len(Raw(file.name)) \in Nat
  BY RawIs
<1>2. (1 .. Len(Raw(file.name))) \ R \subseteq l + 1 .. Len(Raw(file.name))
  <2>. DEFINE n == Len(Raw(file.name))
  <2>. HIDE DEF n
  <2>1. \A i \in 1 .. n : i \notin 1 .. l => i \in l + 1 .. n
    BY <1>1 DEF n
  <2>2. (1 .. n) \ R \subseteq l + 1 .. n
    BY <2>1
  <2>. QED
    BY <2>2 DEF n
<1>3. ErrorsBut(es, (1 .. Len(Raw(file.name))) \ R)
  BY <1>2, FewerLines
<1>. QED
  BY <1>3, MoreErrors

LEMMA SemicolonFollowed ==
  ASSUME AtFile, FileLines(disk.files[file.name].lines),
         NEW clean, clean = CleansedLines(Raw(file.name)), NEW l \in 1 .. Len(Raw(file.name)),
         NEW j, NEW R, Followed(j, R)
  PROVE  \E Q : R \subseteq Q /\ Followed(CheckTrailingSemicolon(j, clean, l), Q)
<1>. DEFINE n == Len(Raw(file.name))
            end == TrailingSemicolon(clean, l)
            c == CheckTrailingSemicolon(j, clean, l)
<1>1. n \in Nat /\ clean.raw = Raw(file.name) /\ Len(clean.elided) = n /\ clean.elided[1] \in Seq(FirstTokens)
  BY RawIs, TextType
<1>2. CASE end = 0
  BY <1>2 DEF CheckTrailingSemicolon
<1>3. CASE end # 0
  <2>1. end \in l .. n
    BY <1>1, <1>3, TrailingIs
  <2>2. end # 1
    <3>1. end = 1 => l = 1
      <4>. HIDE DEF end, n
      <4>. QED
        BY <1>1, <2>1 DEF n
    <3>2. TrailingSemicolon(clean, 1) = 0
      BY <1>1, NoBraceFirst
    <3>. QED
      BY <1>3, <3>1, <3>2
  <2>. DEFINE a == end - 1
              b == end
  <2>3. a \in 1 .. n /\ b \in 1 .. n /\ a + 1 = b
    <3>. HIDE DEF end, n
    <3>. QED
      BY <1>1, <2>1, <2>2 DEF n
  <2>. DEFINE j1 == Nolint(j, l, clean, a)
              j2 == Nolint(j1, l, clean, b)
              es == Found(end, <<"readability", "braces">>, 4)
              Q == (R \cup {a}) \cup {b}
  <2>4. c = Errors(j2, l, es)
    BY <1>3 DEF CheckTrailingSemicolon
  <2>. HIDE DEF a, b
  <2>5. Followed(j1, R \cup {a})
    BY <1>1, <2>3, MoreMarks
  <2>. HIDE DEF j1
  <2>6. Followed(j2, Q)
    BY <1>1, <2>3, <2>5, MoreMarks
  <2>. HIDE DEF j2
  <2>7. ErrorsBut(es, (1 .. n) \ Q)
    <3>1. ASSUME NEW i \in (1 .. n) \ Q PROVE end # i /\ end # i + 1
      <4>1. i # a /\ i # b /\ i \in Int
        OBVIOUS
      <4>2. a \in Int
        BY <2>3
      <4>3. i + 1 # a + 1
        BY <4>1, <4>2
      <4>. QED
        BY <2>3, <4>1, <4>3 DEF b
    <3>2. <<"readability", "braces">> \in Categories
      BY CategoriesAssumption
    <3>. HIDE DEF Q, n
    <3>. QED
      BY <3>1, <3>2, OneError
  <2>8. l # 0
    OBVIOUS
  <2>9. Followed(Errors(j2, l, es), Q)
    <3>. HIDE DEF es, Q
    <3>. QED
      BY <2>6, <2>7, <2>8, MoreErrors
  <2>. QED
    BY <2>4, <2>9
<1>. QED
  BY <1>2, <1>3

\* Errors of known categories, none at a line that a line in U may excuse but
\* for empty bodies below the line l.
ErrorsAhead(es, l, U) ==
  /\ IsList(es)
  /\ \A e \in ToSet(es) :
       /\ e.category \in Categories
       /\ \/ \A i \in U : e.line # i /\ e.line # i + 1
          \/ e.category \in EmptyBodies /\ e.line > l

LEMMA BothAhead ==
  ASSUME NEW U, NEW l, NEW es, NEW fs, ErrorsAhead(es, l, U), ErrorsAhead(fs, l, U)
  PROVE  ErrorsAhead(es \o fs, l, U)
<1>. DEFINE A == ToSet(es) \cup ToSet(fs)
            Fits(e) == /\ e.category \in Categories
                       /\ \/ \A i \in U : e.line # i /\ e.line # i + 1
                          \/ e.category \in EmptyBodies /\ e.line > l
<1>1. es \in Seq(ToSet(es)) /\ fs \in Seq(ToSet(fs))
  BY DEF ErrorsAhead, IsList
<1>2. ToSet(es) \subseteq A /\ ToSet(fs) \subseteq A
  OBVIOUS
<1>3. \A e \in A : Fits(e)
  BY DEF ErrorsAhead
<1>. HIDE DEF A
<1>4. es \in Seq(A) /\ fs \in Seq(A)
  BY <1>1, <1>2
<1>5. es \o fs \in Seq(A) /\ ToSet(es \o fs) = A
  BY <1>4, ConcatElements DEF A
<1>. QED
  BY <1>3, <1>5 DEF ErrorsAhead, IsList

LEMMA OneAhead ==
  ASSUME NEW U, NEW l \in Int, \A i \in U : l # i /\ l # i + 1, NEW k \in Int, k >= l,
         NEW category \in EmptyBodies, NEW confidence, NEW b
  PROVE  ErrorsAhead(When(b, Found(k, category, confidence)), l, U)
<1>. DEFINE e == [line |-> k, category |-> category, confidence |-> confidence]
            x == When(b, Found(k, category, confidence))
<1>1. e.category = category /\ e.line = k
  OBVIOUS
<1>2. x = <<e>> \/ x = <<>>
  BY DEF When, Found
<1>. HIDE DEF e, x
<1>3. x \in Seq({e}) /\ ToSet(x) \subseteq {e}
  <2>1. <<e>> \in Seq({e}) /\ <<>> \in Seq({e}) /\ ToSet(<<e>>) = {e} /\ ToSet(<<>>) = {}
    BY DEF ToSet
  <2>. QED
    BY <1>2, <2>1
<1>4. category \in Categories
  BY CategoriesAssumption
<1>5. k > l \/ \A i \in U : k # i /\ k # i + 1
  <2>1. k > l \/ k = l
    OBVIOUS
  <2>. QED
    BY <2>1
<1>6. IsList(x)
  BY <1>3, ListIs
<1>. QED
  BY <1>1, <1>3, <1>4, <1>5, <1>6 DEF ErrorsAhead, x

\* An empty body is reported at the line at hand or at a later one.
LEMMA EmptyBodyErrors ==
  ASSUME NEW clean, NEW n \in Nat, Len(clean.elided) = n, NEW l \in 1 .. n,
         NEW U, \A i \in U : l # i /\ l # i + 1
  PROVE  ErrorsAhead(CheckEmptyBlockBody(clean, l), l, U)
<1>. DEFINE end == CloseExpression(clean.elided, l, 2)
            c == CheckEmptyBlockBody(clean, l)
            E == EmptyBodies
<1>1. \/ c = <<>>
      \/ /\ end # Nowhere
         /\ \E a, b : \E body \in {"empty_conditional_body", "empty_loop_body"} :
              c = When(a, Found(end[1], <<"whitespace", body>>, 5))
                  \o When(b, Found(end[1], <<"whitespace", "empty_if_body">>, 4))
  BY Zenon DEF CheckEmptyBlockBody
<1>2. /\ \A body \in {"empty_conditional_body", "empty_loop_body"} : <<"whitespace", body>> \in E
      /\ <<"whitespace", "empty_if_body">> \in E
  BY DEF EmptyBodies
<1>3. end # Nowhere => end[1] \in l .. n
  BY CloseLine
<1>. HIDE DEF c, end, E
<1>4. CASE c = <<>>
  <2>1. <<>> \in Seq({}) /\ ToSet(<<>>) = {}
    BY DEF ToSet
  <2>. QED
    BY <1>4, <2>1 DEF ErrorsAhead, IsList, c
<1>5. ASSUME end # Nowhere, NEW a, NEW b, NEW body \in {"empty_conditional_body", "empty_loop_body"},
             c = When(a, Found(end[1], <<"whitespace", body>>, 5))
                 \o When(b, Found(end[1], <<"whitespace", "empty_if_body">>, 4))
      PROVE  ErrorsAhead(c, l, U)
  <2>1. end[1] \in Int /\ end[1] >= l /\ l \in Int
    BY <1>3, <1>5
  <2>2. /\ ErrorsAhead(When(a, Found(end[1], <<"whitespace", body>>, 5)), l, U)
        /\ ErrorsAhead(When(b, Found(end[1], <<"whitespace", "empty_if_body">>, 4)), l, U)
    BY <1>2, <2>1, OneAhead DEF E
  <2>. QED
    BY <1>5, <2>2, BothAhead
<1>. QED
  BY <1>1, <1>4, <1>5 DEF c

LEMMA AheadFollowed ==
  ASSUME AtFile, FileLines(disk.files[file.name].lines), NEW j, NEW R, Followed(j, R),
         NEW l \in Nat, 1 .. l \subseteq R, l # 0,
         NEW es, ErrorsAhead(es, l, l + 1 .. Len(Raw(file.name)))
  PROVE  Followed(Errors(j, l, es), R)
<1>. DEFINE n == Len(Raw(file.name))
<1>1. n \in Nat
  BY RawIs
<1>2. (1 .. n) \ R \subseteq l + 1 .. n
  <2>. HIDE DEF n
  <2>1. \A i \in 1 .. n : i \notin 1 .. l => i \in l + 1 .. n
    BY <1>1
  <2>. QED
    BY <2>1
<1>3. /\ IsList(es)
      /\ \A e \in ToSet(es) :
           /\ e.category \in Categories
           /\ \/ \A i \in l + 1 .. n : e.line # i /\ e.line # i + 1
              \/ e.category \in EmptyBodies /\ e.line > l
  BY DEF ErrorsAhead
<1>. HIDE DEF n
<1>4. \A e \in ToSet(es) :
        /\ e.category \in Categories
        /\ \/ \A i \in (1 .. n) \ R : e.line # i /\ e.line # i + 1
           \/ e.category \in EmptyBodies /\ e.line > l /\ 1 .. l \subseteq R
  BY <1>2, <1>3
<1>. QED
  BY <1>3, <1>4, ErrorsFollowed DEF n

\* While the lines of a file are gone through: its text is at hand, and the
\* marks of the lines that have been gone through are in force.
AtLines ==
  /\ file.name \in DOMAIN disk.files
  /\ file.clean = CleansedLines(Raw(file.name))
  /\ file.at \in 1 .. Len(Raw(file.name)) + 1
  /\ \E R : 1 .. file.at - 1 \subseteq R /\ Followed(Judged, R)

LEMMA LineFollowed ==
  ASSUME AtFile, FileLines(disk.files[file.name].lines), AtLines, Nesting(file.nest), ProcessLine
  PROVE  /\ \E Q, j : 1 .. file.at \subseteq Q /\ Followed(j, Q) /\ Judge(j)
         /\ \E u, x, y : /\ Nesting(u)
                         /\ \/ file' = [file EXCEPT !.at = file.at + 1, !.nest = u]
                            \/ file' = [file EXCEPT !.at = file.at + 1, !.nest = u, !.fn = x, !.inc = y]
         /\ file.at \in 1 .. Len(Raw(file.name))
<1>. DEFINE l == file.at
            clean == file.clean
            raw == Raw(file.name)
            n == Len(raw)
            U == l + 1 .. n
            w == Update(file.nest, clean, l)
            j0 == Nolint(Judged, l, clean, l)
            e0 == w.errors \o CheckForNamespaceIndentation(w.nest, clean, l)
            j1 == Errors(j0, l, e0)
            fn == CheckForFunctionLengths(file.fn, clean, l, st.verbose)
            lang == CheckLanguage(file.path, file.inc, clean, l)
            e1 == fn.errors \o CheckForMultilineCommentsAndStrings(clean, l)
                     \o CheckStyle(clean, l, st.width)
            j2 == Errors(j1, l, e1)
            j3 == CheckTrailingSemicolon(j2, clean, l)
            body == CheckEmptyBlockBody(clean, l)
            class == CheckClass(w.nest, clean, l)
            e2 == body \o class \o lang.errors \o Faults(clean, l, FALSE) \o Faults(clean, l, TRUE)
            j4 == Errors(j3, l, e2)
            jasm == Errors(j1, l, Faults(clean, l, TRUE))
<1>1. /\ n \in Nat /\ DOMAIN raw = 1 .. n /\ clean.raw = raw /\ clean = CleansedLines(raw)
      /\ \A i \in 1 .. n : clean.elided[i] \in Seq(Tokens(file.name))
      /\ Len(clean.elided) = n
  BY RawIs, TextType DEF AtLines
<1>2. /\ \/ Judge(jasm) /\ file' = [file EXCEPT !.at = l + 1, !.nest = w.nest]
         \/ Judge(j4) /\ file' = [file EXCEPT !.at = l + 1, !.nest = w.nest, !.fn = fn.fn, !.inc = lang.inc]
      /\ l \in DOMAIN clean.raw
  BY DEF ProcessLine
<1>3. l \in 1 .. n
  BY <1>1, <1>2
<1>. HIDE DEF raw, n
<1>4. Later(U, l) /\ (\A i \in U : l # i /\ l # i + 1) /\ l \in Nat /\ l # 0
  BY <1>1, <1>3 DEF Later
<1>5. Nesting(w.nest) /\ ErrorsBut(w.errors, U)
  <2>. HIDE DEF l, U, clean
  <2>. QED
    BY <1>1, <1>3, <1>4, UpdateKeeps
<1>. HIDE DEF w
<1>6. /\ ErrorsBut(Faults(clean, l, TRUE), U) /\ ErrorsBut(Faults(clean, l, FALSE), U)
  <2>1. IsFiniteSet(clean.raw[l].faults) /\ \A f \in clean.raw[l].faults : f[1] \in Categories
    BY <1>1, <1>3, RawType DEF raw, n
  <2>. HIDE DEF l, U, clean
  <2>. QED
    BY <1>4, <2>1, FaultsOf
<1>7. ErrorsBut(e0, U) /\ ErrorsBut(e1, U) /\ ErrorsAhead(e2, l, U)
  <2>1. ErrorsBut(lang.errors, U)
    <3>. HIDE DEF l, U, clean
    <3>. QED
      BY <1>4, IncludeChecks
  <2>2. /\ ErrorsBut(CheckForNamespaceIndentation(w.nest, clean, l), U)
        /\ ErrorsBut(CheckForMultilineCommentsAndStrings(clean, l), U)
        /\ ErrorsBut(fn.errors, U)
        /\ ErrorsBut(CheckStyle(clean, l, st.width), U)
        /\ ErrorsBut(CheckClass(w.nest, clean, l), U)
    <3>. HIDE DEF l, U, clean
    <3>. QED
      BY <1>4, OneLineChecks
  <2>3. ErrorsAhead(body, l, U)
    <3>. HIDE DEF l, U, clean
    <3>. QED
      BY <1>1, <1>3, <1>4, EmptyBodyErrors
  <2>. HIDE DEF l, U, clean, lang, fn, body, class
  <2>4. ErrorsBut(e0, U)
    BY <1>5, <2>2, BothErrors
  <2>5. ErrorsBut(e1, U)
    BY <2>2, BothErrors
  <2>6. ErrorsAhead(e2, l, U)
    <3>1. \A es : ErrorsBut(es, U) => ErrorsAhead(es, l, U)
      BY DEF ErrorsBut, ErrorsAhead
    <3>. QED
      BY <1>6, <2>1, <2>2, <2>3, <3>1, BothAhead DEF class
  <2>. QED
    BY <2>4, <2>5, <2>6
<1>. HIDE DEF e0, e1, e2
<1>8. PICK R : 1 .. l - 1 \subseteq R /\ Followed(Judged, R)
  BY DEF AtLines
<1>9. Followed(j0, R \cup {l}) /\ 1 .. l \subseteq R \cup {l}
  <2>1. 1 .. l \subseteq R \cup {l}
    <3>1. \A i \in 1 .. l : i \in 1 .. l - 1 \/ i = l
      BY <1>4
    <3>. HIDE DEF l
    <3>. QED
      BY <1>8, <3>1
  <2>2. clean.raw = Raw(file.name) /\ l \in 1 .. Len(Raw(file.name))
    BY <1>1, <1>3 DEF raw, n
  <2>. HIDE DEF l, clean
  <2>. QED
    BY <1>8, <2>1, <2>2, MoreMarks
<1>. DEFINE S == R \cup {l}
<1>. HIDE DEF j0, S
<1>10. ASSUME NEW k, NEW Q, Followed(k, Q), 1 .. l \subseteq Q, NEW es, ErrorsBut(es, U)
       PROVE  Followed(Errors(k, l, es), Q)
  <2>. HIDE DEF l
  <2>. QED
    BY <1>4, <1>10, LineErrors DEF raw, n
<1>11. Followed(j1, S)
  BY <1>7, <1>9, <1>10 DEF S
<1>. HIDE DEF j1
<1>12. Followed(jasm, S)
  BY <1>6, <1>9, <1>10, <1>11 DEF S
<1>13. Followed(j2, S)
  BY <1>7, <1>9, <1>10, <1>11 DEF S
<1>. HIDE DEF j2
<1>14. PICK Q : S \subseteq Q /\ Followed(j3, Q)
  <2>. HIDE DEF l, clean
  <2>. QED
    BY <1>1, <1>3, <1>13, SemicolonFollowed DEF raw, n
<1>. HIDE DEF j3
<1>15. Followed(j4, Q) /\ 1 .. l \subseteq Q
  <2>1. 1 .. l \subseteq Q
    BY <1>9, <1>14 DEF S
  <2>. HIDE DEF l
  <2>. QED
    BY <1>4, <1>7, <1>14, <2>1, AheadFollowed DEF raw, n
<1>. HIDE DEF j4, jasm
<1>16. \E X, j : 1 .. l \subseteq X /\ Followed(j, X) /\ Judge(j)
  BY <1>2, <1>9, <1>12, <1>15 DEF S
<1>. DEFINE fx == fn.fn
            ly == lang.inc
<1>. HIDE DEF fn, lang
<1>17. \/ file' = [file EXCEPT !.at = l + 1, !.nest = w.nest]
       \/ file' = [file EXCEPT !.at = l + 1, !.nest = w.nest, !.fn = fx, !.inc = ly]
  BY <1>2
<1>. HIDE DEF fx, ly
<1>. QED
  BY <1>3, <1>5, <1>16, <1>17 DEF raw, n

\* Many lists of errors, one for each number.
LEMMA ErrorsOfEach ==
  ASSUME NEW U, NEW n \in Nat, NEW ss, DOMAIN ss = 1 .. n, ss = [i \in 1 .. n |-> ss[i]],
         \A i \in 1 .. n : ErrorsBut(ss[i], U)
  PROVE  ErrorsBut(FlattenSeq(ss), U)
<1>1. Len(ss) = n
  OBVIOUS
<1>2. n = 0 => ss = <<>>
  <2>. SUFFICES ASSUME n = 0 PROVE ss = <<>>
    OBVIOUS
  <2>1. ss \in Seq({ss[i] : i \in 1 .. n})
    BY FunctionIsSeq
  <2>. QED
    BY <1>1, <2>1, EmptySeq
<1>. QED
  BY <1>1, <1>2, ManyErrors

\* What is found at the end of a file, when no line is left.
LEMMA BlocksErrors ==
  ASSUME NEW nest, Nesting(nest)
  PROVE  ErrorsBut(CheckCompletedBlocks(nest), {})
<1>. DEFINE s == nest.stack
            n == Len(s)
            ss == [i \in DOMAIN s |->
                     When(s[i].kind = "class", Found(s[i].start, <<"build", "class">>, 5))
                     \o When(s[i].kind = "namespace", Found(s[i].start, <<"build", "namespaces">>, 5))]
<1>1. n \in Nat /\ DOMAIN s = 1 .. n
  BY IndicesOfSeq DEF Nesting, IsList
<1>2. CheckCompletedBlocks(nest) = FlattenSeq(ss)
  BY DEF CheckCompletedBlocks
<1>3. <<"build", "class">> \in Categories /\ <<"build", "namespaces">> \in Categories
  BY CategoriesAssumption
<1>4. \A l : \A c \in Categories : ErrorsBut(Found(l, c, 5), {})
  BY OneError
<1>. HIDE DEF s, n
<1>5. ASSUME NEW i \in 1 .. n PROVE ErrorsBut(ss[i], {})
  <2>1. ss[i] = When(s[i].kind = "class", Found(s[i].start, <<"build", "class">>, 5))
                \o When(s[i].kind = "namespace", Found(s[i].start, <<"build", "namespaces">>, 5))
    BY <1>1
  <2>. HIDE DEF ss
  <2>. QED
    BY <1>3, <1>4, <2>1, WhenErrors, BothErrors
<1>6. DOMAIN ss = 1 .. n /\ ss = [i \in 1 .. n |-> ss[i]]
  BY <1>1
<1>. HIDE DEF ss
<1>. QED
  BY <1>1, <1>2, <1>5, <1>6, ErrorsOfEach

LEMMA UsesErrors ==
  ASSUME NEW f, NEW inc, NEW clean, NEW files
  PROVE  ErrorsBut(CheckForIncludeWhatYouUse(f, inc, clean, files), {})
<1>. DEFINE H == {Needs[t].header : t \in DOMAIN Needs}
            own  == OwnHeaders(f, inc, files)
            have == {e.name : e \in ToSet(Included(inc))}
                      \cup UNION {UpdateIncludeState(files[g].lines) : g \in own}
            c == <<"build", "include", "_what_you_use">>
            lack == {h \in H : LastUse(clean, h) # 0 /\ h \notin have}
            E == {Found(LastUse(clean, h), c, 4) : h \in lack}
            r == CheckForIncludeWhatYouUse(f, inc, clean, files)
<1>1. r = <<>> \/ r = FlattenSeq(SetToSeq(E))
  BY DEF CheckForIncludeWhatYouUse
<1>2. IsFiniteSet(H)
  <2>. DEFINE g == [t \in DOMAIN Needs |-> Needs[t].header]
  <2>1. g \in Surjection(DOMAIN Needs, H)
    BY DEF Surjection
  <2>. HIDE DEF g, H
  <2>. QED
    BY <2>1, NeedsAssumption, FS_Surjection
<1>3. IsFiniteSet(lack)
  <2>1. lack \subseteq H
    OBVIOUS
  <2>. HIDE DEF H, lack
  <2>. QED
    BY <1>2, <2>1, FS_Subset
<1>4. c \in Categories
  BY CategoriesAssumption
<1>. HIDE DEF lack, c
<1>5. \A es \in E : ErrorsBut(es, {})
  BY <1>4, OneError
<1>6. IsFiniteSet(E)
  <2>. DEFINE g == [h \in lack |-> Found(LastUse(clean, h), c, 4)]
  <2>1. g \in Surjection(lack, E)
    BY DEF Surjection
  <2>. HIDE DEF g, E
  <2>. QED
    BY <1>3, <2>1, FS_Surjection
<1>. HIDE DEF E, r
<1>7. ErrorsBut(r, {})
  BY <1>1, <1>5, <1>6, NoErrors, ErrorsOfSet
<1>. QED
  BY <1>7 DEF r

LEMMA CharacterErrors ==
  ASSUME NEW raw, NEW n \in Nat, DOMAIN raw = 1 .. n,
         \A i \in 1 .. n : IsFiniteSet(raw[i].bad) /\ raw[i].bad \subseteq Categories
  PROVE  ErrorsBut(CheckForBadCharacters(raw), {})
<1>. DEFINE E(i) == {Found(i, c, 5) : c \in raw[i].bad}
            ss == [i \in DOMAIN raw |-> FlattenSeq(SetToSeq(E(i)))]
<1>1. CheckForBadCharacters(raw) = FlattenSeq(ss)
  BY DEF CheckForBadCharacters
<1>2. ASSUME NEW i \in 1 .. n PROVE ErrorsBut(FlattenSeq(SetToSeq(E(i))), {})
  <2>. DEFINE b == raw[i].bad
              D == E(i)
              g == [c \in b |-> Found(i, c, 5)]
  <2>1. IsFiniteSet(b) /\ b \subseteq Categories
    OBVIOUS
  <2>2. g \in Surjection(b, D)
    BY DEF Surjection
  <2>3. \A es \in D : ErrorsBut(es, {})
    BY <2>1, OneError
  <2>. HIDE DEF b, g, D
  <2>4. IsFiniteSet(D)
    BY <2>1, <2>2, FS_Surjection
  <2>5. ErrorsBut(FlattenSeq(SetToSeq(D)), {})
    BY <2>3, <2>4, ErrorsOfSet
  <2>. QED
    BY <2>5 DEF D
<1>. HIDE DEF E
<1>3. DOMAIN ss = 1 .. n /\ ss = [i \in 1 .. n |-> ss[i]] /\ \A i \in 1 .. n : ErrorsBut(ss[i], {})
  BY <1>2
<1>. HIDE DEF ss
<1>. QED
  BY <1>1, <1>3, ErrorsOfEach

LEMMA EndingErrors ==
  ASSUME NEW lines, Len(lines) \in Nat
  PROVE  ErrorsBut(MixedEndings(lines), {})
<1>. DEFINE n == Len(lines) - 1
            ended == 1 .. n
            cr == {i \in ended : lines[i].cr}
            ss == [i \in ended |-> When(i \in cr, Found(i + 1, <<"whitespace", "newline">>, 1))]
            r == MixedEndings(lines)
<1>1. r = IF cr = ended THEN <<>> ELSE FlattenSeq(ss)
  BY DEF MixedEndings
<1>2. CASE Len(lines) = 0
  <2>1. ended = {} /\ cr = {}
    BY <1>2
  <2>. HIDE DEF r, ss
  <2>. QED
    BY <1>1, <2>1, NoErrors DEF r
<1>3. CASE Len(lines) # 0
  <2>1. n \in Nat
    BY <1>3
  <2>. HIDE DEF n, cr, r
  <2>2. <<"whitespace", "newline">> \in Categories
    BY CategoriesAssumption
  <2>3. \A l : \A b : ErrorsBut(When(b, Found(l, <<"whitespace", "newline">>, 1)), {})
    BY <2>2, OneError, WhenErrors
  <2>4. DOMAIN ss = 1 .. n /\ ss = [i \in 1 .. n |-> ss[i]] /\ \A i \in 1 .. n : ErrorsBut(ss[i], {})
    BY <2>3
  <2>. HIDE DEF ss
  <2>5. ErrorsBut(FlattenSeq(ss), {})
    BY <2>1, <2>4, ErrorsOfEach
  <2>. QED
    BY <1>1, <2>5, NoErrors DEF r
<1>. QED
  BY <1>2, <1>3

\* What is found when all lines of a file have been gone through.
LEMMA FinishFollowed ==
  ASSUME AtFile, FileLines(disk.files[file.name].lines), AtLines, Nesting(file.nest), FinishFile
  PROVE  \E Q, j : Followed(j, Q) /\ Judge(j)
<1>. DEFINE clean == file.clean
            raw == Raw(file.name)
            n == Len(raw)
            a == CheckCompletedBlocks(file.nest)
            b == CheckForIncludeWhatYouUse(file.path, file.inc, clean, disk.files)
            c == CheckHeaderFileIncluded(file.path, file.inc, disk.files)
            d == CheckForBadCharacters(clean.raw)
            e == CheckForNewlineAtEOF(clean.raw)
            f == MixedEndings(disk.files[file.name].lines)
            found == a \o b \o c \o d \o e \o f
            j == Errors(Judged, file.at, found)
<1>1. n \in Nat /\ DOMAIN raw = 1 .. n /\ clean.raw = raw
  BY RawIs, TextType DEF AtLines
<1>2. Judge(j) /\ file.at = n + 1
  BY <1>1 DEF FinishFile
<1>3. ErrorsBut(a, {}) /\ ErrorsBut(b, {})
  BY BlocksErrors, UsesErrors
<1>4. ErrorsBut(c, {})
  <2>1. <<"build", "include">> \in Categories
    BY CategoriesAssumption
  <2>2. \A l, g : ErrorsBut(When(g, Found(l, <<"build", "include">>, 5)), {})
    BY <2>1, OneError, WhenErrors
  <2>. QED
    BY <2>2 DEF CheckHeaderFileIncluded
<1>5. ErrorsBut(d, {})
  <2>1. \A i \in 1 .. n : IsFiniteSet(raw[i].bad) /\ raw[i].bad \subseteq Categories
    BY RawType
  <2>. HIDE DEF raw, n, clean
  <2>. QED
    BY <1>1, <2>1, CharacterErrors
<1>6. ErrorsBut(e, {})
  <2>1. <<"whitespace", "ending_newline">> \in Categories
    BY CategoriesAssumption
  <2>2. \A l, g : ErrorsBut(When(g, Found(l, <<"whitespace", "ending_newline">>, 5)), {})
    BY <2>1, OneError, WhenErrors
  <2>. QED
    BY <2>2 DEF CheckForNewlineAtEOF
<1>7. ErrorsBut(f, {})
  BY MarkedIs, EndingErrors
<1>8. ErrorsBut(found, {})
  <2>. HIDE DEF a, b, c, d, e, f
  <2>. QED
    BY <1>3, <1>4, <1>5, <1>6, <1>7, BothErrors
<1>. HIDE DEF found
<1>9. PICK R : 1 .. file.at - 1 \subseteq R /\ Followed(Judged, R)
  BY DEF AtLines
<1>10. (1 .. Len(Raw(file.name))) \ R = {}
  <2>. HIDE DEF raw, n
  <2>1. file.at - 1 = n
    BY <1>1, <1>2
  <2>2. 1 .. n \subseteq R
    BY <1>9, <2>1
  <2>. QED
    BY <2>2 DEF n, raw
<1>11. file.at # 0
  BY <1>1, <1>2
<1>12. Followed(j, R)
  <2>1. ErrorsBut(found, (1 .. Len(Raw(file.name))) \ R)
    BY <1>8, <1>10
  <2>. QED
    BY <1>9, <1>11, <2>1, MoreErrors
<1>. HIDE DEF j
<1>. QED
  BY <1>2, <1>12

\* A file is opened: no mark of it has been read.
LEMMA OpeningFollowed ==
  ASSUME AtFile, file.name \in DOMAIN disk.files, FileLines(disk.files[file.name].lines),
         JudgedOK(Judged), OpenFile, phase' = "lines"
  PROVE  /\ \E j : Followed(j, {}) /\ Judge(j)
         /\ \E clean : clean = CleansedLines(Raw(file.name)) /\ file' = [file EXCEPT !.clean = clean, !.at = 1]
<1>. DEFINE lines == WithMarkers(disk.files[file.name].lines)
            clean == CleansedLines(RemoveMultiLineComments(lines))
            g == ProcessGlobalSuppressions(lines)
            fresh == [NoSuppressions EXCEPT !.global = g]
            k == [Judged EXCEPT !.suppress = fresh]
            es == FoundAtOpening(lines)
            j == Errors(k, 0, es)
<1>1. Judge(j) /\ file' = [file EXCEPT !.clean = clean, !.at = 1]
  BY DEF OpenFile, Leave
<1>2. clean = CleansedLines(Raw(file.name))
  BY DEF Raw, Marked
<1>. HIDE DEF clean
<1>3. fresh = [global |-> g, lines |-> {}]
  BY DEF NoSuppressions
<1>4. g \subseteq {<<"readability", "casting">>, <<"whitespace", "tab">>}
  BY DEF ProcessGlobalSuppressions
<1>5. Suppressing(fresh, file.name, {})
  <2>1. MarksOf(Raw(file.name), {}) = {}
    BY DEF MarksOf
  <2>2. g = ProcessGlobalSuppressions(Marked(file.name))
    BY DEF Marked
  <2>. HIDE DEF g
  <2>. QED
    BY <1>3, <2>1, <2>2 DEF Suppressing
<1>. HIDE DEF g, lines
<1>6. IsList(es) /\ \A e \in ToSet(es) :
        e.category \in {<<"legal", "copyright">>, <<"readability", "multiline", "_comment">>}
  BY OpeningErrors
<1>7. ASSUME NEW e \in ToSet(es) PROVE Judges(fresh, 0, e)
  <2>1. e.category \notin {<<"readability", "casting">>, <<"whitespace", "tab">>}
    BY <1>6
  <2>2. ~IsErrorSuppressedByNolint(fresh, e.category, e.line)
    <3>1. fresh.global = g /\ fresh.lines = {}
      BY <1>3
    <3>. HIDE DEF fresh
    <3>. QED
      BY <1>4, <2>1, <3>1 DEF IsErrorSuppressedByNolint
  <2>. HIDE DEF fresh
  <2>. QED
    BY <2>2 DEF Judges
<1>. HIDE DEF es, fresh
<1>8. JudgedOK(k) /\ k.suppress = fresh
  <2>. DEFINE r == reports
              c == count
              w == k
  <2>1. w = [suppress |-> fresh, reports |-> r, count |-> c]
    BY DEF Judged
  <2>2. IsList(r) /\ \A x \in ToSet(r) : Right(x)
    BY DEF JudgedOK, Judged
  <2>. HIDE DEF w, r, c, k
  <2>3. JudgedOK(w) /\ w.suppress = fresh
    BY <2>1, <2>2 DEF JudgedOK
  <2>. QED
    BY <2>3 DEF w
<1>. HIDE DEF k
<1>9. JudgedOK(j) /\ j.suppress = fresh
  BY <1>6, <1>7, <1>8, ErrorsJudged
<1>10. Followed(j, {})
  <2>1. {} \subseteq 1 .. Len(Raw(file.name))
    OBVIOUS
  <2>. HIDE DEF j
  <2>. QED
    BY <1>5, <1>9, <2>1 DEF Followed
<1>. HIDE DEF j
<1>. QED
  BY <1>1, <1>2, <1>10

\* What is promised of reports does not depend on what a step changes.
LEMMA RightStays ==
  ASSUME command' = command, disk' = disk
  PROVE  \A r : Right(r)' <=> Right(r)
<1>1. \A name, default : Given(name, default)' = Given(name, default)
  BY DEF Given
<1>2. \A f, c : Hidden(f, c)' <=> Hidden(f, c)
  <2>1. \A f : FiltersFor(f)' = FiltersFor(f)
    BY DEF FiltersFor, Given
  <2>. QED
    BY <2>1 DEF Hidden
<1>3. \A f, c, l, n : Excused(f, c, l, n)' <=> Excused(f, c, l, n)
  BY DEF Excused
<1>4. \A f : WholeFile(f)' = WholeFile(f)
  BY DEF WholeFile
<1>5. \A c, l, at, f : ReadFor(c, l, at, f)' = ReadFor(c, l, at, f)
  BY <1>4 DEF ReadFor
<1>. QED
  BY <1>1, <1>2, <1>3, <1>4, <1>5 DEF Right

LEMMA JudgedStays ==
  ASSUME command' = command, disk' = disk, NEW j, JudgedOK(j), Judge(j)
  PROVE  JudgedOK(Judged)'
<1>1. Judged' = j
  BY DEF JudgedOK, Judge, Judged
<1>2. IsList(j.reports) /\ \A r \in ToSet(j.reports) : Right(r)'
  BY RightStays DEF JudgedOK
<1>. QED
  BY <1>1, <1>2 DEF JudgedOK, IsList

LEMMA FollowedStays ==
  ASSUME command' = command, disk' = disk, file'.name = file.name,
         NEW j, NEW R, Followed(j, R), Judge(j)
  PROVE  Followed(Judged, R)'
<1>1. JudgedOK(Judged)' /\ Judged' = j
  BY JudgedStays DEF Followed, JudgedOK, Judge, Judged
<1>2. \A name : Marked(name)' = Marked(name)
  BY DEF Marked
<1>3. \A name : Raw(name)' = Raw(name)
  BY <1>2 DEF Raw
<1>4. \A s : Suppressing(s, file.name, R)' <=> Suppressing(s, file.name, R)
  BY <1>2, <1>3 DEF Suppressing
<1>5. R \subseteq 1 .. Len(Raw(file.name)) /\ Suppressing(j.suppress, file.name, R)
  BY DEF Followed
<1>. QED
  BY <1>1, <1>3, <1>4, <1>5 DEF Followed

\* Every report is right, and while a file is gone through the marks and the
\* blocks are those of its lines so far.
ReportsInv ==
  /\ JudgedOK(Judged)
  /\ phase \in {"open", "lines"} => Nesting(file.nest)
  /\ phase = "lines" => AtLines

LEMMA NoNesting ==
  Nesting(NestingState)
<1>1. NestingState = [stack |-> <<>>, top |-> NoTop, pp |-> <<>>]
  BY DEF NestingState
<1>2. IsList(<<>>) /\ ToSet(<<>>) = {}
  BY DEF IsList, ToSet
<1>. QED
  BY <1>1, <1>2 DEF Nesting

LEMMA ReportsInit ==
  ASSUME Init
  PROVE  ReportsInv
<1>1. IsList(<<>>) /\ ToSet(<<>>) = {}
  BY DEF IsList, ToSet
<1>2. reports = <<>> /\ phase = "arguments"
  BY DEF Init
<1>. QED
  BY <1>1, <1>2 DEF ReportsInv, JudgedOK, Judged

LEMMA AtFileIs ==
  ASSUME SettingsInv, FilterInv, phase \in {"open", "lines"}
  PROVE  AtFile
BY DEF SettingsInv, FilterInv, AtFile, Settings

LEMMA ReportsNext ==
  ASSUME InputOK, SettingsInv, FilterInv, ReportsInv, Next
  PROVE  ReportsInv'
<1>1. command' = command /\ disk' = disk
  BY InputStays
<1>2. IsFile(file)
  BY DEF FilterInv
<1>3. ASSUME UNCHANGED <<suppress, reports, count>>
      PROVE  JudgedOK(Judged)'
  <2>1. Judge(Judged) /\ JudgedOK(Judged)
    BY <1>3 DEF Judge, Judged, ReportsInv
  <2>. QED
    BY <1>1, <1>3, <2>1, RightStays DEF JudgedOK, Judged, IsList
<1>4. ASSUME JudgedOK(Judged)', phase' \notin {"open", "lines"}
      PROVE  ReportsInv'
  BY <1>4 DEF ReportsInv
<1>5. CASE ParseArguments
  BY <1>3, <1>4, <1>5 DEF ParseArguments, Exit
<1>6. CASE Configure
  <2>1. JudgedOK(Judged)'
    BY <1>3, <1>6 DEF Configure
  <2>2. \/ phase' \notin {"open", "lines"}
        \/ phase' = "open" /\ \E a, b : file' = [NoFile EXCEPT !.name = a, !.path = b]
    BY <1>6 DEF Configure, Exit
  <2>3. \A a, b : [NoFile EXCEPT !.name = a, !.path = b].nest = NestingState
    BY DEF NoFile
  <2>4. phase' = "open" => Nesting(file'.nest)
    BY <2>2, <2>3, NoNesting
  <2>. QED
    BY <1>4, <2>1, <2>2, <2>4 DEF ReportsInv, Nesting, IsList
<1>7. CASE OpenFile
  <2>1. CASE phase' # "lines"
    BY <1>3, <1>4, <1>7, <2>1 DEF OpenFile, Leave
  <2>2. CASE phase' = "lines"
    <3>1. phase = "open" /\ file.name \in DOMAIN disk.files
      BY <1>7, <2>2 DEF OpenFile, Leave
    <3>2. AtFile /\ FileLines(disk.files[file.name].lines) /\ JudgedOK(Judged) /\ Nesting(file.nest)
      BY <3>1, AtFileIs DEF InputOK, ReportsInv
    <3>3. /\ \E j : Followed(j, {}) /\ Judge(j)
          /\ \E clean : clean = CleansedLines(Raw(file.name)) /\ file' = [file EXCEPT !.clean = clean, !.at = 1]
      BY <1>7, <2>2, <3>1, <3>2, OpeningFollowed
    <3>4. PICK clean : clean = CleansedLines(Raw(file.name)) /\ file' = [file EXCEPT !.clean = clean, !.at = 1]
      BY <3>3
    <3>5. file'.name = file.name /\ file'.nest = file.nest /\ file'.clean = clean /\ file'.at = 1
      BY <1>2, <3>4 DEF IsFile
    <3>6. Followed(Judged, {})'
      BY <1>1, <3>3, <3>5, FollowedStays
    <3>7. Raw(file.name)' = Raw(file.name)
      BY <1>1, <3>5 DEF Raw, Marked
    <3>8. Len(Raw(file.name)) \in Nat
      BY <3>2, RawIs
    <3>9. AtLines'
      <4>1. 1 .. file'.at - 1 \subseteq {} /\ file'.at \in 1 .. Len(Raw(file.name)) + 1
        BY <3>5, <3>8
      <4>2. (CleansedLines(Raw(file.name)))' = clean
        BY <3>4, <3>7
      <4>. QED
        BY <1>1, <3>1, <3>5, <3>6, <3>7, <4>1, <4>2 DEF AtLines
    <3>10. JudgedOK(Judged)'
      BY <3>6 DEF Followed
    <3>11. Nesting(file.nest)'
      BY <3>2, <3>5 DEF Nesting, IsList
    <3>. QED
      BY <3>9, <3>10, <3>11 DEF ReportsInv
  <2>. QED
    BY <2>1, <2>2
<1>8. ASSUME phase = "lines"
      PROVE  AtFile /\ FileLines(disk.files[file.name].lines) /\ AtLines /\ Nesting(file.nest)
  BY <1>8, AtFileIs DEF InputOK, ReportsInv, AtLines
<1>9. CASE ProcessLine
  <2>1. phase = "lines" /\ phase' = "lines"
    BY <1>9 DEF ProcessLine
  <2>2. /\ \E Q, j : 1 .. file.at \subseteq Q /\ Followed(j, Q) /\ Judge(j)
        /\ \E u, x, y : /\ Nesting(u)
                        /\ \/ file' = [file EXCEPT !.at = file.at + 1, !.nest = u]
                           \/ file' = [file EXCEPT !.at = file.at + 1, !.nest = u, !.fn = x, !.inc = y]
        /\ file.at \in 1 .. Len(Raw(file.name))
    BY <1>8, <1>9, <2>1, LineFollowed
  <2>3. PICK Q, j : 1 .. file.at \subseteq Q /\ Followed(j, Q) /\ Judge(j)
    BY <2>2
  <2>4. PICK u : /\ Nesting(u)
                 /\ \E x, y : \/ file' = [file EXCEPT !.at = file.at + 1, !.nest = u]
                              \/ file' = [file EXCEPT !.at = file.at + 1, !.nest = u, !.fn = x, !.inc = y]
    BY <2>2
  <2>5. file'.name = file.name /\ file'.clean = file.clean /\ file'.nest = u /\ file'.at = file.at + 1
    BY <1>2, <2>4 DEF IsFile
  <2>6. Followed(Judged, Q)'
    BY <1>1, <2>3, <2>5, FollowedStays
  <2>7. Raw(file.name)' = Raw(file.name)
    BY <1>1, <2>5 DEF Raw, Marked
  <2>8. AtLines'
    <3>1. file.name \in DOMAIN disk.files /\ file.clean = CleansedLines(Raw(file.name)) /\ Len(Raw(file.name)) \in Nat
      BY <1>8, <2>1, RawIs DEF AtLines
    <3>2. file'.at - 1 = file.at /\ file'.at \in 1 .. Len(Raw(file.name)) + 1
      BY <2>2, <2>5, <3>1
    <3>3. (CleansedLines(Raw(file.name)))' = file'.clean
      BY <2>5, <2>7, <3>1
    <3>4. 1 .. file'.at - 1 \subseteq Q
      BY <2>3, <3>2
    <3>. QED
      BY <1>1, <2>5, <2>6, <2>7, <3>1, <3>2, <3>3, <3>4 DEF AtLines
  <2>9. JudgedOK(Judged)'
    BY <2>6 DEF Followed
  <2>10. Nesting(file.nest)'
    BY <2>4, <2>5 DEF Nesting, IsList
  <2>. QED
    BY <2>1, <2>8, <2>9, <2>10 DEF ReportsInv
<1>10. CASE FinishFile
  <2>1. phase = "lines" /\ phase' = "next"
    BY <1>10 DEF FinishFile, Leave
  <2>2. PICK j : JudgedOK(j) /\ Judge(j)
    BY <1>8, <1>10, <2>1, FinishFollowed DEF Followed
  <2>3. JudgedOK(Judged)'
    BY <1>1, <2>2, JudgedStays
  <2>. QED
    BY <1>4, <2>1, <2>3
<1>11. CASE Finish
  BY <1>3, <1>4, <1>11 DEF Finish, Exit
<1>. QED
  BY <1>5, <1>6, <1>7, <1>9, <1>10, <1>11 DEF Next

FilesAgree == InputOK /\ SettingsInv /\ FilterInv /\ ReportsInv

LEMMA FilesAlways ==
  Spec => []FilesAgree
<1>1. Init => FilesAgree
  <2>1. ASSUME Init PROVE FilterInv
    BY <2>1 DEF Init, FilterInv, IsFile, NoFile
  <2>. QED
    BY <2>1, InputInit, SettingsInit, ReportsInit DEF FilesAgree
<1>2. FilesAgree /\ [Next]_vars => FilesAgree'
  <2>1. SUFFICES ASSUME FilesAgree, [Next]_vars
                 PROVE  FilesAgree'
    OBVIOUS
  <2>2. InputOK /\ SettingsInv /\ FilterInv /\ ReportsInv
    BY <2>1 DEF FilesAgree
  <2>3. CASE Next
    <3>1. InputOK'
      BY <2>2, <2>3, InputStays DEF InputOK
    <3>. QED
      BY <2>2, <2>3, <3>1, SettingsNext, FilterNext, ReportsNext DEF FilesAgree
  <2>4. CASE UNCHANGED vars
    <3>1. /\ command' = command /\ disk' = disk /\ phase' = phase /\ todo' = todo /\ st' = st
          /\ file' = file /\ suppress' = suppress /\ reports' = reports /\ count' = count
      BY <2>4 DEF vars
    <3>2. InputOK' /\ SettingsInv'
      BY <2>2, <3>1 DEF InputOK, SettingsInv
    <3>3. FilterInv'
      BY <2>2, <3>1 DEF FilterInv, FiltersFor, Given, IsFile
    <3>4. JudgedOK(Judged) /\ Judge(Judged)
      BY <2>2, <3>1 DEF ReportsInv, Judge, Judged
    <3>5. JudgedOK(Judged)'
      BY <3>1, <3>4, RightStays DEF JudgedOK, Judged, IsList
    <3>6. ASSUME phase = "lines" PROVE AtLines'
      <4>1. PICK R : 1 .. file.at - 1 \subseteq R /\ Followed(Judged, R)
        BY <2>2, <3>6 DEF ReportsInv, AtLines
      <4>2. \A name : Raw(name)' = Raw(name) /\ Marked(name)' = Marked(name)
        BY <3>1 DEF Raw, Marked
      <4>3. Judged' = Judged
        BY <3>1 DEF Judged
      <4>4. Followed(Judged, R)'
        BY <3>1, <3>5, <4>1, <4>2, <4>3 DEF Followed, Suppressing
      <4>. QED
        BY <2>2, <3>1, <3>6, <4>1, <4>2, <4>4 DEF ReportsInv, AtLines
    <3>7. ReportsInv'
      BY <2>2, <3>1, <3>5, <3>6 DEF ReportsInv, Nesting, IsList
    <3>. QED
      BY <3>2, <3>3, <3>7 DEF FilesAgree
  <2>. QED
    BY <2>1, <2>3, <2>4
<1>. QED
  BY <1>1, <1>2, PTL DEF Spec

\* For every set of inputs, an error is printed exactly when no NOLINT in its
\* own file excuses it, no filter for that file hides it and it is sure enough,
\* however far the file had been read when it was found and whatever files came
\* before (Error, IsErrorSuppressedByNolint, ProcessConfigOverrides,
\* ResetNolintSuppressions, CheckTrailingSemicolon).  For an empty body further
\* down, one that no mark excuses is printed, and one that is printed has no
\* mark among the lines read by then (CheckEmptyBlockBody).
THEOREM ReportedAlwaysUnlessExcused ==
  Spec => []ReportedUnlessExcused
<1>1. FilesAgree => ReportedUnlessExcused
  <2>1. SUFFICES ASSUME FilesAgree, NEW i \in DOMAIN reports PROVE Right(reports[i])
    BY DEF ReportedUnlessExcused, Right, Malformed, ReadFor, LooksAhead
  <2>2. \A r \in ToSet(reports) : Right(r)
    BY <2>1 DEF FilesAgree, ReportsInv, JudgedOK, Judged
  <2>. QED
    BY <2>2 DEF ToSet
<1>. QED
  BY <1>1, FilesAlways, PTL

-----------------------------------------------------------------------------
\* Reports are only added.
Listed(j) == j = [suppress |-> j.suppress, reports |-> j.reports, count |-> j.count] /\ IsList(j.reports)
Grown(j, k) == Listed(k) /\ ToSet(j.reports) \subseteq ToSet(k.reports)

LEMMA ErrorsAdded ==
  ASSUME NEW j, Listed(j), NEW at, NEW es, IsList(es)
  PROVE  /\ Grown(j, Errors(j, at, es))
         /\ \A e \in ToSet(es) : Report(j, at, e) \in ToSet(Errors(j, at, es).reports)
<1>. DEFINE new == [i \in DOMAIN es |-> Report(j, at, es[i])]
            N == {Report(j, at, e) : e \in ToSet(es)}
            old == j.reports
            S == ToSet(old) \cup N
            s == j.suppress
            c == j.count
<1>1. PICK x : Errors(j, at, es) = [j EXCEPT !.reports = old \o new, !.count = x]
  BY Zenon DEF Errors
<1>2. es \in Seq(ToSet(es)) /\ DOMAIN es = 1 .. Len(es) /\ Len(es) \in Nat
  BY IndicesOfSeq DEF IsList
<1>3. new \in Seq(N) /\ ToSet(new) = N
  <2>1. \A i \in 1 .. Len(es) : Report(j, at, es[i]) \in N
    BY <1>2 DEF ToSet
  <2>2. new = [i \in 1 .. Len(es) |-> Report(j, at, es[i])]
    BY <1>2
  <2>3. new \in Seq(N)
    BY <1>2, <2>1, <2>2, FunctionIsSeq
  <2>4. ToSet(new) = N
    BY <1>2 DEF ToSet
  <2>. QED
    BY <2>3, <2>4
<1>. DEFINE all == old \o new
            w == Errors(j, at, es)
<1>. HIDE DEF new
<1>4. IsList(all) /\ ToSet(all) = S
  <2>1. old \in Seq(ToSet(old)) /\ ToSet(old) \subseteq S /\ N \subseteq S
    BY DEF Listed, IsList
  <2>2. old \in Seq(S) /\ new \in Seq(S)
    <3>. HIDE DEF S, N
    <3>. QED
      BY <1>3, <2>1
  <2>3. ToSet(all) = ToSet(old) \cup ToSet(new) /\ all \in Seq(S)
    <3>. HIDE DEF S, N
    <3>. QED
      BY <2>2, ConcatElements
  <2>. QED
    BY <1>3, <2>3, ListIs
<1>. HIDE DEF w, N
<1>5. w = [suppress |-> s, reports |-> all, count |-> x]
  <2>1. j = [suppress |-> s, reports |-> old, count |-> c]
    BY DEF Listed
  <2>2. w = [j EXCEPT !.reports = all, !.count = x]
    BY <1>1 DEF w
  <2>. HIDE DEF s, old, c, all
  <2>. QED
    BY <2>1, <2>2
<1>6. Listed(w) /\ w.reports = all
  BY <1>4, <1>5 DEF Listed
<1>7. ToSet(old) \subseteq ToSet(w.reports) /\ N \subseteq ToSet(w.reports)
  BY <1>4, <1>6
<1>8. \A e \in ToSet(es) : Report(j, at, e) \in N
  BY Zenon DEF N
<1>. QED
  BY <1>6, <1>7, <1>8 DEF w, Grown

LEMMA MarksAdded ==
  ASSUME NEW j, Listed(j), NEW at, NEW clean, NEW l
  PROVE  Grown(j, Nolint(j, at, clean, l))
<1>. DEFINE p == ParseNolintSuppressions(j.suppress, clean.raw[l], l)
            k == [j EXCEPT !.suppress = p]
            e == [line |-> l, category |-> <<"readability", "nolint">>, confidence |-> 5]
            es == When(MalformedNolint(clean.raw[l]), Found(l, <<"readability", "nolint">>, 5))
<1>1. Nolint(j, at, clean, l) = Errors(k, at, es)
  BY DEF Nolint
<1>2. IsList(es)
  <2>1. es = <<e>> \/ es = <<>>
    BY DEF When, Found
  <2>. HIDE DEF e, es
  <2>2. <<e>> \in Seq({e}) /\ <<>> \in Seq({e})
    OBVIOUS
  <2>. QED
    BY <2>1, <2>2, ListIs
<1>. HIDE DEF p, es
<1>. DEFINE s == j.suppress
            r == j.reports
            c == j.count
<1>3. j = [suppress |-> s, reports |-> r, count |-> c] /\ IsList(r)
  BY DEF Listed
<1>. DEFINE w == k
<1>4. w = [j EXCEPT !.suppress = p]
  OBVIOUS
<1>. HIDE DEF s, c, w, k
<1>. HIDE DEF r
<1>5. w = [suppress |-> p, reports |-> r, count |-> c]
  BY <1>3, <1>4
<1>6. Listed(w) /\ w.reports = j.reports
  BY <1>3, <1>5 DEF Listed, r
<1>7. Grown(w, Errors(w, at, es))
  BY <1>2, <1>6, ErrorsAdded
<1>. QED
  BY <1>1, <1>6, <1>7 DEF Grown, w

LEMMA SemicolonAdded ==
  ASSUME NEW j, Listed(j), NEW clean, NEW l
  PROVE  Grown(j, CheckTrailingSemicolon(j, clean, l))
<1>. DEFINE end == TrailingSemicolon(clean, l)
            k1 == Nolint(j, l, clean, end - 1)
            k2 == Nolint(k1, l, clean, end)
            es == Found(end, <<"readability", "braces">>, 4)
            e == [line |-> end, category |-> <<"readability", "braces">>, confidence |-> 4]
<1>1. CheckTrailingSemicolon(j, clean, l) = IF end = 0 THEN j ELSE Errors(k2, l, es)
  BY DEF CheckTrailingSemicolon
<1>2. IsList(es)
  <2>1. es = <<e>>
    BY DEF Found
  <2>. HIDE DEF e, es
  <2>2. <<e>> \in Seq({e})
    OBVIOUS
  <2>. QED
    BY <2>1, <2>2, ListIs
<1>. HIDE DEF end, es
<1>3. Grown(j, k1)
  BY MarksAdded
<1>. HIDE DEF k1
<1>4. Grown(k1, k2)
  BY <1>3, MarksAdded DEF Grown
<1>. HIDE DEF k2
<1>5. Grown(k2, Errors(k2, l, es))
  BY <1>2, <1>4, ErrorsAdded DEF Grown
<1>6. Grown(j, j)
  BY DEF Grown
<1>. QED
  BY <1>1, <1>3, <1>4, <1>5, <1>6 DEF Grown

\* Blocks that are not inline assembly.
Calm(b) == b = [x \in DOMAIN b |-> b[x]] /\ "asm" \in DOMAIN b /\ b.asm = "none"
CalmStack(s) == IsList(s) /\ \A b \in ToSet(s) : Calm(b)
CalmNesting(nest) ==
  CalmStack(nest.stack) /\ \A p \in ToSet(nest.pp) : CalmStack(p.before) /\ CalmStack(p.saved)

LEMMA CalmIs ==
  /\ CalmStack(<<>>)
  /\ \A s, b : CalmStack(s) /\ Calm(b) => CalmStack(Append(s, b))
  /\ \A s : CalmStack(s) /\ s # <<>> =>
       /\ Calm(Last(s)) /\ CalmStack(Front(s))
       /\ \A b : Calm(b) => CalmStack(OnTop(s, b))
  /\ \A s, t : CalmStack(s) /\ CalmStack(t) => CalmStack(s \o t)
<1>1. CalmStack(<<>>)
  <2>1. <<>> \in Seq({}) /\ ToSet(<<>>) = {}
    BY DEF ToSet
  <2>. QED
    BY <2>1, ListIs DEF CalmStack
<1>2. ASSUME NEW s, NEW b, CalmStack(s), Calm(b) PROVE CalmStack(Append(s, b))
  <2>1. IsList(Append(s, b)) /\ ToSet(Append(s, b)) = ToSet(s) \cup {b}
    BY <1>2, ListSteps, AppendElements DEF CalmStack
  <2>. QED
    BY <1>2, <2>1 DEF CalmStack
<1>3. ASSUME NEW s, CalmStack(s), s # <<>> PROVE Calm(Last(s)) /\ CalmStack(Front(s))
  <2>1. IsList(Front(s)) /\ Last(s) \in ToSet(s) /\ ToSet(Front(s)) \subseteq ToSet(s)
    BY <1>3, ListSteps, TopOf DEF CalmStack
  <2>. QED
    BY <1>3, <2>1 DEF CalmStack
<1>4. ASSUME NEW s, CalmStack(s), s # <<>>, NEW b, Calm(b) PROVE CalmStack(OnTop(s, b))
  BY <1>2, <1>3, <1>4 DEF OnTop
<1>5. ASSUME NEW s, NEW t, CalmStack(s), CalmStack(t) PROVE CalmStack(s \o t)
  <2>. DEFINE S == ToSet(s) \cup ToSet(t)
              A == ToSet(s)
              B == ToSet(t)
  <2>1. s \in Seq(A) /\ t \in Seq(B) /\ A \subseteq S /\ B \subseteq S /\ \A b \in S : Calm(b)
    BY <1>5 DEF CalmStack, IsList
  <2>. HIDE DEF S, A, B
  <2>2. s \in Seq(S) /\ t \in Seq(S)
    BY <2>1
  <2>3. s \o t \in Seq(S) /\ ToSet(s \o t) = ToSet(s) \cup ToSet(t)
    BY <2>2, ConcatElements
  <2>4. IsList(s \o t)
    BY <2>3, ListIs
  <2>. QED
    BY <2>1, <2>3, <2>4 DEF CalmStack, S, A, B
<1>. QED
  BY <1>1, <1>2, <1>3, <1>4, <1>5

\* A change to a block that is none of its assembly.
LEMMA CalmChange ==
  ASSUME NEW b, Calm(b), NEW y
  PROVE  Calm([b EXCEPT !.access = y]) /\ Calm([b EXCEPT !.seen = y]) /\ Calm([b EXCEPT !.parens = y, !.asm = "none"])
<1>1. PICK D, f : b = [x \in D |-> f[x]] /\ "asm" \in D /\ f["asm"] = "none" /\ b.asm = "none"
  BY DEF Calm
<1>2. ASSUME NEW w, DOMAIN w = D, w = [x \in D |-> w[x]], w.asm = "none" PROVE Calm(w)
  BY <1>1, <1>2 DEF Calm
<1>3. Calm([b EXCEPT !.access = y])
  BY <1>1, <1>2
<1>4. Calm([b EXCEPT !.seen = y])
  BY <1>1, <1>2
<1>5. Calm([b EXCEPT !.parens = y, !.asm = "none"])
  BY <1>1, <1>2
<1>. QED
  BY <1>3, <1>4, <1>5

LEMMA CalmBlock ==
  ASSUME NEW kind, NEW l
  PROVE  Calm(Block(kind, l))
BY DEF Calm, Block

LEMMA CalmParens ==
  ASSUME NEW stack, CalmStack(stack), NEW T, NEW s \in Seq(T), "asm" \notin ToSet(s)
  PROVE  CalmStack(CountParens(stack, s))
<1>. DEFINE b == Last(stack)
            w == CountParens(stack, s)
<1>1. ~MatchAsm(s)
  <2>1. Len(s) >= 2 => 1 \in DOMAIN s
    OBVIOUS
  <2>. QED
    BY <2>1 DEF MatchAsm, ToSet
<1>2. stack = <<>> => w = stack
  BY DEF CountParens
<1>3. ASSUME stack # <<>> PROVE \E n : w = OnTop(stack, [b EXCEPT !.parens = n, !.asm = "none"])
  <2>1. Calm(b)
    BY <1>3, CalmIs
  <2>. DEFINE change == CountOf(s, {"("}) - CountOf(s, {")"})
              open == b.parens + change
              asm == CASE b.asm \in {"none", "end"} ->
                            IF change # 0 /\ open = 1 /\ MatchAsm(s) THEN "inside" ELSE "none"
                       [] b.asm = "inside" /\ open = 0 -> "end"
                       [] OTHER -> b.asm
  <2>2. w = OnTop(stack, [b EXCEPT !.parens = open, !.asm = asm])
    BY <1>3, Zenon DEF CountParens
  <2>3. b.asm = "none"
    BY <2>1 DEF Calm
  <2>4. asm = "none"
    BY <1>1, <2>3
  <2>. HIDE DEF asm, open, b
  <2>. QED
    BY <2>2, <2>4
<1>4. stack # <<>> => \A n : CalmStack(OnTop(stack, [b EXCEPT !.parens = n, !.asm = "none"]))
  BY CalmIs, CalmChange
<1>. HIDE DEF w, b
<1>5. CalmStack(w)
  BY <1>2, <1>3, <1>4
<1>. QED
  BY <1>5 DEF w

LEMMA CalmPreprocessor ==
  ASSUME NEW nest, Nesting(nest), CalmNesting(nest), NEW s
  PROVE  CalmNesting(UpdatePreprocessor(nest, s))
<1>. DEFINE b == nest.stack
            q == nest.pp
            o == nest.top
            top == Last(q)
            w == UpdatePreprocessor(nest, s)
            new == [before |-> b, saved |-> <<>>, seen |-> FALSE]
            alt == [top EXCEPT !.seen = TRUE, !.saved = b]
            Good(p) == CalmStack(p.before) /\ CalmStack(p.saved)
<1>1. nest = [stack |-> b, top |-> o, pp |-> q] /\ IsList(q) /\ CalmStack(b) /\ \A p \in ToSet(q) : Good(p)
  BY DEF Nesting, CalmNesting
<1>2. q # <<>> => /\ ToSet(Front(q)) \subseteq ToSet(q) /\ Good(top)
                  /\ top = [before |-> top.before, saved |-> top.saved, seen |-> top.seen]
  <2>1. q # <<>> => top \in ToSet(q) /\ ToSet(Front(q)) \subseteq ToSet(q)
    BY <1>1, TopOf
  <2>. QED
    BY <1>1, <2>1 DEF Nesting
<1>3. \/ w = [nest EXCEPT !.pp = Append(q, new)]
      \/ q # <<>> /\ w = [nest EXCEPT !.stack = top.before, !.pp = q]
      \/ q # <<>> /\ w = [nest EXCEPT !.stack = top.before, !.pp = OnTop(q, alt)]
      \/ q # <<>> /\ w = [nest EXCEPT !.stack = top.saved, !.pp = Front(q)]
      \/ q # <<>> /\ w = [nest EXCEPT !.stack = b, !.pp = Front(q)]
      \/ w = nest
  <2>. DEFINE d == Directive(s)
  <2>1. w = CASE d \in Conditional -> [nest EXCEPT !.pp = Append(q, new)]
              [] d \in Alternative /\ q # <<>> ->
                   [nest EXCEPT !.stack = top.before, !.pp = IF top.seen THEN q ELSE OnTop(q, alt)]
              [] d = "#endif" /\ q # <<>> ->
                   [nest EXCEPT !.stack = IF top.seen THEN top.saved ELSE b, !.pp = Front(q)]
              [] OTHER -> nest
    BY DEF UpdatePreprocessor
  <2>. HIDE DEF d, w, q, b, new, alt, top
  <2>2. d \in Conditional => w = [nest EXCEPT !.pp = Append(q, new)]
    BY <2>1 DEF Conditional, Alternative
  <2>3. d \in Alternative /\ q # <<>> =>
          w = [nest EXCEPT !.stack = top.before, !.pp = IF top.seen THEN q ELSE OnTop(q, alt)]
    BY <2>1 DEF Conditional, Alternative
  <2>4. d = "#endif" /\ q # <<>> =>
          w = [nest EXCEPT !.stack = IF top.seen THEN top.saved ELSE b, !.pp = Front(q)]
    BY <2>1 DEF Conditional, Alternative
  <2>5. \/ d \in Conditional
        \/ d \in Alternative /\ q # <<>>
        \/ d = "#endif" /\ q # <<>>
        \/ w = nest
    BY <2>1
  <2>. QED
    BY <2>2, <2>3, <2>4, <2>5
<1>4. Good(new)
  <2>1. new.before = b /\ new.saved = <<>>
    OBVIOUS
  <2>. QED
    BY <1>1, <2>1, CalmIs
<1>5. q # <<>> => Good(alt)
  <2>. HIDE DEF top, b, q
  <2>1. ASSUME q # <<>> PROVE alt.before = top.before /\ alt.saved = b
    <3>1. PICK x, y, z : top = [before |-> x, saved |-> y, seen |-> z]
      BY <1>2, <2>1
    <3>. DEFINE yes == TRUE
                w1 == alt
    <3>2. w1 = [top EXCEPT !.seen = yes, !.saved = b]
      OBVIOUS
    <3>. HIDE DEF yes, w1, alt
    <3>3. w1 = [before |-> x, saved |-> b, seen |-> yes]
      BY <3>1, <3>2
    <3>4. w1.before = top.before /\ w1.saved = b
      BY <3>1, <3>3
    <3>. QED
      BY <3>4 DEF w1
  <2>. QED
    BY <1>1, <1>2, <2>1 DEF Good
<1>. DEFINE more == Append(q, new)
            other == OnTop(q, alt)
            less == Front(q)
<1>. HIDE DEF new, alt
<1>. HIDE DEF Good
<1>6. \A p \in ToSet(more) : Good(p)
  BY <1>1, <1>4, AppendElements
<1>7. q # <<>> => IsList(less) /\ \A p \in ToSet(less) : Good(p)
  BY <1>1, <1>2, ListSteps
<1>8. q # <<>> => \A p \in ToSet(other) : Good(p)
  BY <1>5, <1>7, AppendElements DEF OnTop, less
<1>9. q # <<>> => CalmStack(top.before) /\ CalmStack(top.saved)
  BY <1>2 DEF Good
<1>. DEFINE tb == top.before
            ts == top.saved
<1>. HIDE DEF more, other, less, w, top, tb, ts
<1>10. ASSUME NEW x, NEW y, CalmStack(x), \A p \in ToSet(y) : Good(p), w = [stack |-> x, top |-> o, pp |-> y]
       PROVE  CalmNesting(w)
  BY <1>10 DEF CalmNesting, Good
<1>. HIDE DEF b, q, o
<1>11. SUFFICES CalmNesting(w)
  BY DEF w
<1>12. CASE w = [nest EXCEPT !.pp = more]
  <2>1. w = [stack |-> b, top |-> o, pp |-> more]
    BY <1>1, <1>12
  <2>. QED
    BY <1>1, <1>6, <1>10, <2>1
<1>13. CASE q # <<>> /\ w = [nest EXCEPT !.stack = tb, !.pp = q]
  <2>1. w = [stack |-> tb, top |-> o, pp |-> q]
    BY <1>1, <1>13
  <2>. QED
    BY <1>1, <1>9, <1>10, <1>13, <2>1 DEF tb
<1>14. CASE q # <<>> /\ w = [nest EXCEPT !.stack = tb, !.pp = other]
  <2>1. w = [stack |-> tb, top |-> o, pp |-> other]
    BY <1>1, <1>14
  <2>. QED
    BY <1>8, <1>9, <1>10, <1>14, <2>1 DEF tb
<1>15. CASE q # <<>> /\ w = [nest EXCEPT !.stack = ts, !.pp = less]
  <2>1. w = [stack |-> ts, top |-> o, pp |-> less]
    BY <1>1, <1>15
  <2>. QED
    BY <1>7, <1>9, <1>10, <1>15, <2>1 DEF ts
<1>16. CASE q # <<>> /\ w = [nest EXCEPT !.stack = b, !.pp = less]
  <2>1. w = [stack |-> b, top |-> o, pp |-> less]
    BY <1>1, <1>16
  <2>. QED
    BY <1>1, <1>7, <1>10, <1>16, <2>1
<1>17. CASE w = nest
  BY <1>17
<1>. QED
  BY <1>3, <1>12, <1>13, <1>14, <1>15, <1>16, <1>17 DEF more, other, less, tb, ts

\* The heads of a line: the blocks are calm, and what follows begins in it.
LEMMA CalmHeads ==
  ASSUME NEW stack, CalmStack(stack), NEW T, NEW clean, NEW l, clean.elided[l] \in Seq(T)
  PROVE  CalmStack(Heads(stack, clean, l).stack) /\ Heads(stack, clean, l).from \in Nat \ {0}
<1>. DEFINE s == clean.elided[l]
            ns == Namespaces(s, l)
            two == stack \o ns.blocks
            rest == From(s, ns.at)
            c == ClassAt(rest)
            heads == Heads(stack, clean, l)
            info == ClassInfo(clean, l, rest[c], rest[c + 1])
<1>1. ns \in SpaceState(s, l)
  <2>1. Len(s) \in 0 .. Len(s)
    OBVIOUS
  <2>. QED
    BY <2>1, NamespaceTurns
<1>2. ns.blocks \in Seq(Spaces(s, l)) /\ ns.at \in Nat \ {0}
  BY <1>1 DEF SpaceState
<1>3. \A b \in Spaces(s, l) : Calm(b)
  <2>1. \A x, b : Calm(Space(l, x, b))
    <3>1. ASSUME NEW x, NEW b PROVE Calm(Space(l, x, b))
      <4>. DEFINE k == Block("namespace", l)
                  w == Space(l, x, b)
      <4>1. w = [k EXCEPT !.name = x, !.seen = b]
        BY DEF Space
      <4>2. Calm(k)
        BY CalmBlock
      <4>. HIDE DEF k, w
      <4>3. PICK D, f : k = [z \in D |-> f[z]] /\ "asm" \in D /\ k.asm = "none"
        BY <4>2 DEF Calm
      <4>4. DOMAIN w = D /\ w = [z \in D |-> w[z]] /\ w.asm = "none"
        BY <4>1, <4>3
      <4>5. Calm(w)
        BY <4>3, <4>4 DEF Calm
      <4>. QED
        BY <4>5 DEF w
    <3>. QED
      BY <3>1
  <2>. QED
    BY <2>1 DEF Spaces
<1>4. CalmStack(two)
  <2>. DEFINE bs == ns.blocks
  <2>1. IsList(bs) /\ ToSet(bs) \subseteq Spaces(s, l)
    BY <1>2, ListIs, IndicesOfSeq
  <2>2. CalmStack(bs)
    BY <1>3, <2>1 DEF CalmStack
  <2>. QED
    BY <2>2, CalmIs
<1>5. rest \in Seq(T)
  <2>. DEFINE a == ns.at
  <2>1. a \in Nat \ {0}
    BY <1>2
  <2>. HIDE DEF a
  <2>2. SubSeq(s, a, Len(s)) \in Seq(T)
    BY <2>1
  <2>. QED
    BY <2>2 DEF From, a
<1>6. c \in Nat
  <2>. HIDE DEF rest
  <2>. DEFINE Head1(p) ==
                /\ p < Len(rest) /\ rest[p] \in {"class", "struct"} /\ Word(rest[p + 1])
                /\ \/ p = 1
                   \/ /\ p > 3 /\ rest[1] = "template" /\ rest[2] = "<" /\ rest[p - 1] = ">"
                      /\ \A i \in 3..p - 2 : Word(rest[i]) \/ rest[i] \in {"<", ">", ",", ":", "::"}
              P == {p \in DOMAIN rest : Head1(p)}
  <2>1. c = IF P = {} THEN 0 ELSE CHOOSE p \in P : \A j \in P : p >= j
    BY DEF ClassAt
  <2>2. DOMAIN rest = 1 .. Len(rest) /\ Len(rest) \in Nat
    BY <1>5
  <2>3. P \in SUBSET (1 .. Len(rest))
    BY <2>2
  <2>. HIDE DEF Head1, P
  <2>4. P # {} => \E p \in P : \A j \in P : p >= j
    <3>1. Len(rest) \in Int /\ \A x \in P : x \in Int /\ x <= Len(rest)
      BY <2>2, <2>3
    <3>. QED
      BY <3>1, BoundedGreatest
  <2>5. P # {} => c \in P
    BY <2>1, <2>4
  <2>. HIDE DEF c
  <2>6. c = 0 \/ c \in 1 .. Len(rest)
    BY <2>1, <2>3, <2>5
  <2>. QED
    BY <2>2, <2>6
<1>7. Calm(info)
  <2>1. ASSUME NEW b, Calm(b), NEW m, NEW h, NEW a, NEW d, NEW e
        PROVE  Calm([b EXCEPT !.name = m, !.struct = h, !.access = a, !.indent = d, !.last = e])
    BY <2>1 DEF Calm
  <2>2. Calm(Block("class", l))
    BY DEF Calm, Block
  <2>. QED
    BY ONLY <2>1, <2>2 DEF ClassInfo, info
<1>8. heads = ClassHead(two, clean, l, ns.at)
  BY DEF Heads
<1>9. \/ heads = [stack |-> Append(two, info), from |-> ns.at + c + 1]
      \/ heads = [stack |-> two, from |-> ns.at]
  <2>. HIDE DEF heads, two, ns
  <2>. QED
    BY <1>8, Zenon DEF ClassHead
<1>10. CalmStack(Append(two, info))
  BY <1>4, <1>7, CalmIs
<1>11. ns.at + c + 1 \in Nat \ {0}
  <2>. DEFINE a == ns.at
  <2>. HIDE DEF a, c
  <2>. QED
    BY <1>2, <1>6 DEF a
<1>. DEFINE three == Append(two, info)
            f == ns.at + c + 1
            a == ns.at
<1>12. SUFFICES CalmStack(heads.stack) /\ heads.from \in Nat \ {0}
  OBVIOUS
<1>. HIDE DEF heads, two, c
<1>13. heads = [stack |-> three, from |-> f] \/ heads = [stack |-> two, from |-> a]
  BY <1>9
<1>14. CalmStack(three) /\ CalmStack(two) /\ f \in Nat \ {0} /\ a \in Nat \ {0}
  BY <1>2, <1>4, <1>10, <1>11
<1>. HIDE DEF three, f, a, ns
<1>. QED
  BY ONLY <1>13, <1>14

LEMMA CalmAccess ==
  ASSUME NEW stack, CalmStack(stack), NEW clean, NEW l, NEW from
  PROVE  CalmStack(UpdateAccess(stack, clean, l, from).stack)
<1>. DEFINE w == UpdateAccess(stack, clean, l, from)
            top == Last(stack)
<1>1. \/ w.stack = stack
      \/ stack # <<>> /\ \E y : w.stack = OnTop(stack, [top EXCEPT !.access = y])
  BY Zenon DEF UpdateAccess
<1>2. stack # <<>> => \A y : CalmStack(OnTop(stack, [top EXCEPT !.access = y]))
  BY CalmIs, CalmChange
<1>. QED
  BY <1>1, <1>2

LEMMA CalmBrace ==
  ASSUME NEW T, NEW clean, NEW l, clean.elided[l] \in Seq(T), "asm" \notin ToSet(clean.elided[l]),
         NEW v, v = [stack |-> v.stack, errors |-> v.errors], CalmStack(v.stack),
         NEW i \in 1 .. Len(clean.elided[l]), NEW from \in Nat \ {0}
  PROVE  /\ CalmStack(BraceTurn(v, clean, l, i, from).stack)
         /\ LET w == BraceTurn(v, clean, l, i, from) IN w = [stack |-> w.stack, errors |-> w.errors]
<1>. DEFINE s == clean.elided[l]
            stack == v.stack
            o == OpenBrace(stack, clean, l, i, from)
            e == v.errors
            e2 == v.errors \o CheckEnd(Last(v.stack), clean, l)
            w == BraceTurn(v, clean, l, i, from)
<1>1. CalmStack(o)
  <2>1. CASE ~SeenOpenBrace(stack)
    <3>. DEFINE yes == TRUE
                top == Last(stack)
    <3>1. o = OnTop(stack, [top EXCEPT !.seen = yes])
      BY <2>1 DEF OpenBrace
    <3>2. stack # <<>>
      BY <2>1 DEF SeenOpenBrace
    <3>. HIDE DEF yes, top
    <3>3. Calm([top EXCEPT !.seen = yes])
      BY <3>2, CalmIs, CalmChange DEF top
    <3>. QED
      BY <3>1, <3>2, <3>3, CalmIs
  <2>2. CASE SeenOpenBrace(stack)
    <3>1. ~(i > from /\ s[i - 1] = "asm")
      <4>1. i > from => i - 1 \in DOMAIN s
        OBVIOUS
      <4>. QED
        BY <4>1 DEF ToSet
    <3>. DEFINE kind == IF /\ i = 4 /\ from = 1 /\ SubSeq(s, 1, 3) = <<"extern", "q", "q">>
                           /\ clean.raw[l].indent = 0
                        THEN "extern" ELSE "block"
                asm == kind = "block" /\ i > from /\ s[i - 1] = "asm"
                       /\ (i = from + 1 \/ s[i - 2] \in {"{", "}", ";", ")"})
                no == IF asm THEN "block" ELSE "none"
                k == Block(kind, l)
                b == [k EXCEPT !.asm = no]
    <3>2. o = Append(stack, b)
      BY <2>2 DEF OpenBrace
    <3>3. no = "none"
      BY <3>1
    <3>4. Calm(k)
      BY CalmBlock
    <3>. HIDE DEF no, k
    <3>5. PICK D, f : k = [z \in D |-> f[z]] /\ "asm" \in D
      BY <3>4 DEF Calm
    <3>6. DOMAIN b = D /\ b = [z \in D |-> b[z]] /\ b.asm = "none"
      BY <3>3, <3>5
    <3>7. Calm(b)
      BY <3>5, <3>6 DEF Calm
    <3>. HIDE DEF b
    <3>. QED
      BY <3>2, <3>7, CalmIs
  <2>. QED
    BY <2>1, <2>2
<1>2. stack # <<>> => CalmStack(Front(stack))
  BY CalmIs
<1>3. \/ w = [v EXCEPT !.stack = o]
      \/ stack # <<>> /\ w = [v EXCEPT !.stack = Front(stack)]
      \/ stack # <<>> /\ w = [stack |-> Front(stack), errors |-> e2]
      \/ w = v
  BY Zenon DEF BraceTurn, Brace, SeenOpenBrace
<1>4. v = [stack |-> stack, errors |-> e]
  OBVIOUS
<1>5. SUFFICES CalmStack(w.stack) /\ w = [stack |-> w.stack, errors |-> w.errors]
  OBVIOUS
<1>. DEFINE f == Front(stack)
<1>. HIDE DEF w, o, e2, f, stack, e
<1>6. \/ w = [stack |-> o, errors |-> e]
      \/ stack # <<>> /\ w = [stack |-> f, errors |-> e]
      \/ stack # <<>> /\ w = [stack |-> f, errors |-> e2]
      \/ w = [stack |-> stack, errors |-> e]
  BY <1>3, <1>4 DEF f
<1>7. CalmStack(o) /\ CalmStack(stack) /\ (stack # <<>> => CalmStack(f))
  BY <1>1, <1>2 DEF f, stack
<1>. QED
  BY ONLY <1>6, <1>7

LEMMA CalmBraces ==
  ASSUME NEW T, NEW clean, NEW l, clean.elided[l] \in Seq(T), "asm" \notin ToSet(clean.elided[l]),
         NEW u, u = [stack |-> u.stack, errors |-> u.errors], CalmStack(u.stack), NEW from \in Nat \ {0}
  PROVE  CalmStack(Braces(u, clean, l, from).stack)
<1>. DEFINE n == Len(clean.elided[l])
            g == CHOOSE h : h = [i \in 0 .. n |-> IF i = 0 THEN u
                                                  ELSE IF i < from THEN h[i - 1]
                                                  ELSE Brace(h[i - 1], clean, l, i, from)]
<1>1. n \in Nat /\ n \in 0 .. n
  OBVIOUS
<1>2. Braces(u, clean, l, from) = g[n]
  BY DEF Braces
<1>3. BracesUpto(g, n, u, clean, l, from)
  <2>. HIDE DEF n
  <2>1. \E h : BracesUpto(h, n, u, clean, l, from)
    BY <1>1, BracesExist
  <2>. QED
    BY ONLY <2>1 DEF BracesUpto, BraceTurn
<1>. HIDE DEF g
<1>. DEFINE OK(i) == CalmStack(g[i].stack) /\ g[i] = [stack |-> g[i].stack, errors |-> g[i].errors]
            Bad == {i \in 0 .. n : ~OK(i)}
<1>4. /\ g[0] = u
      /\ \A i \in 1 .. n : g[i] = BraceTurn(g[i - 1], clean, l, i, from)
  <2>1. 0 \in 0 .. n /\ \A k \in 1 .. n : k \in 0 .. n /\ k # 0
    BY <1>1
  <2>. HIDE DEF n
  <2>. QED
    BY <1>3, <2>1 DEF BracesUpto
<1>5. OK(0)
  BY <1>4
<1>6. ASSUME NEW i \in 1 .. n, OK(i - 1) PROVE OK(i)
  <2>. DEFINE v == g[i - 1]
  <2>1. CalmStack(v.stack) /\ v = [stack |-> v.stack, errors |-> v.errors]
    BY <1>6
  <2>. HIDE DEF v
  <2>2. /\ CalmStack(BraceTurn(v, clean, l, i, from).stack)
        /\ LET w == BraceTurn(v, clean, l, i, from) IN w = [stack |-> w.stack, errors |-> w.errors]
    BY <2>1, CalmBrace
  <2>3. g[i] = BraceTurn(v, clean, l, i, from)
    BY <1>4 DEF v
  <2>. QED
    BY <2>2, <2>3
<1>7. ASSUME Bad # {} PROVE FALSE
  <2>. HIDE DEF OK, n
  <2>1. Bad \in SUBSET Nat
    OBVIOUS
  <2>2. PICK k \in Bad : \A j \in Bad : k <= j
    BY <1>7, <2>1, LeastExists
  <2>3. k # 0 /\ k \in 0 .. n
    BY <1>5, <2>2
  <2>4. k \in 1 .. n /\ k - 1 \in 0 .. n /\ ~(k <= k - 1)
    BY <1>1, <2>3
  <2>5. OK(k - 1)
    BY <2>2, <2>4
  <2>. QED
    BY <1>6, <2>2, <2>4, <2>5
<1>8. OK(n)
  <2>. HIDE DEF OK, n
  <2>. QED
    BY <1>1, <1>7
<1>. QED
  BY <1>2, <1>8

\* A line without the word brings no block of inline assembly.
LEMMA CalmUpdate ==
  ASSUME NEW clean, NEW l, NEW T, clean.elided[l] \in Seq(T), "asm" \notin ToSet(clean.elided[l]),
         NEW nest, Nesting(nest), CalmNesting(nest)
  PROVE  CalmNesting(Update(nest, clean, l).nest)
<1>. DEFINE s == clean.elided[l]
            pp == UpdatePreprocessor(nest, s)
            par == CountParens(pp.stack, s)
            heads == Heads(par, clean, l)
            ua == UpdateAccess(heads.stack, clean, l, heads.from)
            u == Tails(heads, clean, l)
            w == Update(nest, clean, l).nest
<1>1. CalmNesting(pp)
  BY CalmPreprocessor
<1>2. CalmStack(par)
  <2>. HIDE DEF pp
  <2>. QED
    BY <1>1, CalmParens DEF CalmNesting
<1>3. CalmStack(heads.stack) /\ heads.from \in Nat \ {0}
  <2>. HIDE DEF par
  <2>. QED
    BY <1>2, CalmHeads
<1>4. CalmStack(ua.stack) /\ ua = [stack |-> ua.stack, errors |-> ua.errors]
  <2>. HIDE DEF heads
  <2>1. CalmStack(ua.stack)
    BY <1>3, CalmAccess
  <2>2. \E x, y : ua = [stack |-> x, errors |-> y]
    BY Zenon DEF UpdateAccess
  <2>. QED
    BY <2>1, <2>2
<1>5. CalmStack(u.stack)
  <2>1. u = Braces(ua, clean, l, heads.from)
    BY DEF Tails
  <2>. HIDE DEF ua, heads
  <2>. QED
    BY <1>3, <1>4, <2>1, CalmBraces
<1>6. w.stack = u.stack /\ w.pp = pp.pp
  <2>1. PICK top : Update(nest, clean, l) = Updated(u, top, pp.pp)
    BY Zenon DEF Update, heads, par, pp
  <2>. HIDE DEF u, pp
  <2>. QED
    BY <2>1 DEF Updated
<1>. QED
  BY <1>1, <1>5, <1>6 DEF CalmNesting

\* What a line does to the conditionals that are open.
OpenTurn(open, d) ==
  CASE d \in Conditional -> Append(open, FALSE)
    [] d \in Alternative /\ open # <<>> -> OnTop(open, TRUE)
    [] d = "#endif" /\ open # <<>> -> Front(open)
    [] OTHER -> open

LEMMA OpenTurnIs ==
  ASSUME NEW open, NEW d
  PROVE  /\ d \in Conditional => OpenTurn(open, d) = Append(open, FALSE)
         /\ d \in Alternative /\ open # <<>> => OpenTurn(open, d) = OnTop(open, TRUE)
         /\ d = "#endif" /\ open # <<>> => OpenTurn(open, d) = Front(open)
         /\ d \notin Conditional /\ open = <<>> => OpenTurn(open, d) = open
         /\ d \notin Conditional \union Alternative \union {"#endif"} => OpenTurn(open, d) = open
BY DEF OpenTurn, Conditional, Alternative

OpenUpto(h, n, E) == h = [i \in 0 .. n |-> IF i = 0 THEN <<>> ELSE OpenTurn(h[i - 1], Directive(E[i]))]

LEMMA OpenExists ==
  ASSUME NEW n \in Nat, NEW E
  PROVE  \E h : OpenUpto(h, n, E)
<1>. DEFINE OK(m) == \E h : OpenUpto(h, m, E)
            Bad == {m \in 0 .. n : ~OK(m)}
<1>1. OK(0)
  <2>. DEFINE h == [i \in 0 .. 0 |-> <<>>]
  <2>1. \A i \in 0 .. 0 : i = 0
    OBVIOUS
  <2>2. OpenUpto(h, 0, E)
    BY <2>1 DEF OpenUpto
  <2>. QED
    BY <2>2
<1>2. ASSUME NEW m \in 1 .. n, OK(m - 1) PROVE OK(m)
  <2>1. PICK g : OpenUpto(g, m - 1, E)
    BY <1>2
  <2>. DEFINE x == OpenTurn(g[m - 1], Directive(E[m]))
              h == [i \in 0 .. m |-> IF i = m THEN x ELSE g[i]]
  <2>2. /\ m \in 0 .. m /\ 0 \in 0 .. m /\ m # 0 /\ m - 1 \in 0 .. m /\ m - 1 # m
        /\ \A i \in 0 .. m : i # m => i \in 0 .. m - 1
        /\ \A i \in 0 .. m : i # 0 => i - 1 \in 0 .. m /\ i - 1 # m
    OBVIOUS
  <2>3. \A i \in 0 .. m - 1 : g[i] = IF i = 0 THEN <<>> ELSE OpenTurn(g[i - 1], Directive(E[i]))
    BY <2>1 DEF OpenUpto
  <2>. HIDE DEF x
  <2>4. \A i \in 0 .. m : h[i] = IF i = 0 THEN <<>> ELSE OpenTurn(h[i - 1], Directive(E[i]))
    <3>1. ASSUME NEW i \in 0 .. m, i = m
          PROVE  h[i] = IF i = 0 THEN <<>> ELSE OpenTurn(h[i - 1], Directive(E[i]))
      <4>1. h[i] = x /\ h[m - 1] = g[m - 1]
        BY <2>2, <3>1
      <4>. QED
        BY <2>2, <3>1, <4>1 DEF x
    <3>2. ASSUME NEW i \in 0 .. m, i # m
          PROVE  h[i] = IF i = 0 THEN <<>> ELSE OpenTurn(h[i - 1], Directive(E[i]))
      <4>1. h[i] = g[i] /\ i \in 0 .. m - 1
        BY <2>2, <3>2
      <4>2. i # 0 => h[i - 1] = g[i - 1]
        BY <2>2
      <4>. QED
        BY <2>3, <4>1, <4>2
    <3>. QED
      BY <3>1, <3>2
  <2>5. h = [i \in 0 .. m |-> h[i]]
    OBVIOUS
  <2>. HIDE DEF h
  <2>6. OpenUpto(h, m, E)
    BY <2>4, <2>5 DEF OpenUpto
  <2>. QED
    BY <2>6
<1>3. ASSUME Bad # {} PROVE FALSE
  <2>. HIDE DEF OK
  <2>1. Bad \in SUBSET Nat
    OBVIOUS
  <2>2. PICK k \in Bad : \A j \in Bad : k <= j
    BY <1>3, <2>1, LeastExists
  <2>3. k # 0 /\ k \in 0 .. n
    BY <1>1, <2>2
  <2>4. k \in 1 .. n /\ k - 1 \in 0 .. n /\ ~(k <= k - 1)
    BY <2>3
  <2>5. OK(k - 1)
    BY <2>2, <2>4
  <2>. QED
    BY <1>2, <2>2, <2>4, <2>5
<1>4. n \in 0 .. n
  OBVIOUS
<1>5. OK(n)
  <2>. HIDE DEF OK
  <2>. QED
    BY <1>3, <1>4
<1>. QED
  BY <1>5

\* The conditionals that are open behind each line, line by line.
LEMMA OpenIs ==
  ASSUME NEW E, Len(E) \in Nat
  PROVE  LET open == OpenConditionals(E) IN
         /\ open[0] = <<>>
         /\ \A i \in 1 .. Len(E) : open[i] = OpenTurn(open[i - 1], Directive(E[i]))
         /\ \A i \in 0 .. Len(E) : IsList(open[i])
<1>. DEFINE n == Len(E)
            g == CHOOSE h : h = [i \in 0 .. n |->
                   IF i = 0 THEN <<>>
                   ELSE LET d == Directive(E[i]) open == h[i - 1] IN
                        CASE d \in Conditional -> Append(open, FALSE)
                          [] d \in Alternative /\ open # <<>> -> OnTop(open, TRUE)
                          [] d = "#endif" /\ open # <<>> -> Front(open)
                          [] OTHER -> open]
<1>1. OpenConditionals(E) = g
  BY DEF OpenConditionals
<1>2. OpenUpto(g, n, E)
  <2>. HIDE DEF n
  <2>1. n \in Nat
    BY DEF n
  <2>2. \E h : OpenUpto(h, n, E)
    BY <2>1, OpenExists
  <2>. QED
    BY ONLY <2>2 DEF OpenUpto, OpenTurn
<1>. HIDE DEF g
<1>3. g[0] = <<>> /\ \A i \in 1 .. n : g[i] = OpenTurn(g[i - 1], Directive(E[i]))
  <2>1. 0 \in 0 .. n /\ \A k \in 1 .. n : k \in 0 .. n /\ k # 0
    OBVIOUS
  <2>. HIDE DEF n
  <2>. QED
    BY <1>2, <2>1 DEF OpenUpto
<1>. DEFINE OK(i) == IsList(g[i])
            Bad == {i \in 0 .. n : ~OK(i)}
<1>4. OK(0)
  <2>1. <<>> \in Seq({})
    OBVIOUS
  <2>2. IsList(<<>>)
    BY <2>1, ListIs
  <2>. QED
    BY <1>3, <2>2
<1>5. ASSUME NEW i \in 1 .. n, OK(i - 1) PROVE OK(i)
  <2>. DEFINE o == g[i - 1]
              d == Directive(E[i])
  <2>1. IsList(Append(o, FALSE)) /\ (o # <<>> => IsList(OnTop(o, TRUE)) /\ IsList(Front(o)))
    BY <1>5, ListSteps
  <2>2. g[i] = OpenTurn(o, d)
    BY <1>3
  <2>. HIDE DEF o, d
  <2>3. \/ OpenTurn(o, d) \in {Append(o, FALSE), o}
        \/ o # <<>> /\ OpenTurn(o, d) \in {OnTop(o, TRUE), Front(o)}
    BY OpenTurnIs
  <2>. QED
    BY <1>5, <2>1, <2>2, <2>3 DEF o
<1>6. ASSUME Bad # {} PROVE FALSE
  <2>. HIDE DEF OK, n
  <2>0. n \in Nat
    BY DEF n
  <2>1. Bad \in SUBSET Nat
    OBVIOUS
  <2>2. PICK k \in Bad : \A j \in Bad : k <= j
    BY <1>6, <2>1, LeastExists
  <2>3. k # 0 /\ k \in 0 .. n
    BY <1>4, <2>2
  <2>4. k \in 1 .. n /\ k - 1 \in 0 .. n /\ ~(k <= k - 1)
    BY <2>0, <2>3
  <2>5. OK(k - 1)
    BY <2>2, <2>4
  <2>. QED
    BY <1>5, <2>2, <2>4, <2>5
<1>7. \A i \in 0 .. n : OK(i)
  <2>. HIDE DEF OK, n
  <2>. QED
    BY <1>6
<1>. QED
  BY <1>1, <1>3, <1>7

\* A list after one more element, or with another last one.
LEMMA ListEnds ==
  ASSUME NEW s, IsList(s), NEW x
  PROVE  /\ Len(s) \in Nat /\ DOMAIN s = 1 .. Len(s)
         /\ Len(Append(s, x)) = Len(s) + 1 /\ (\A j \in 1 .. Len(s) : Append(s, x)[j] = s[j])
         /\ Append(s, x)[Len(s) + 1] = x /\ Append(s, x) # <<>>
         /\ s # <<>> => /\ Len(s) >= 1 /\ Last(s) = s[Len(s)]
                        /\ Len(OnTop(s, x)) = Len(s)
                        /\ \A j \in 1 .. Len(s) - 1 : OnTop(s, x)[j] = s[j]
                        /\ OnTop(s, x)[Len(s)] = x /\ OnTop(s, x) # <<>>
<1>. DEFINE S == ToSet(s)
<1>0. s \in Seq(S)
  BY DEF IsList
<1>. HIDE DEF S
<1>1. /\ Len(s) \in Nat /\ DOMAIN s = 1 .. Len(s)
      /\ Len(Append(s, x)) = Len(s) + 1 /\ (\A j \in 1 .. Len(s) : Append(s, x)[j] = s[j])
      /\ Append(s, x)[Len(s) + 1] = x /\ Append(s, x) # <<>>
  BY <1>0
<1>2. ASSUME s # <<>>
      PROVE  /\ Len(s) >= 1 /\ Last(s) = s[Len(s)]
             /\ Len(OnTop(s, x)) = Len(s)
             /\ \A j \in 1 .. Len(s) - 1 : OnTop(s, x)[j] = s[j]
             /\ OnTop(s, x)[Len(s)] = x /\ OnTop(s, x) # <<>>
  <2>. DEFINE f == Front(s)
  <2>1. /\ f \in Seq(S) /\ Len(f) = Len(s) - 1 /\ (\A i \in 1 .. Len(s) - 1 : f[i] = s[i])
        /\ Last(s) = s[Len(s)]
    BY <1>0, <1>2, FrontProperties
  <2>. HIDE DEF f
  <2>2. /\ Len(Append(f, x)) = Len(f) + 1 /\ (\A j \in 1 .. Len(f) : Append(f, x)[j] = f[j])
        /\ Append(f, x)[Len(f) + 1] = x /\ Append(f, x) # <<>>
    BY <2>1
  <2>3. OnTop(s, x) = Append(f, x)
    BY DEF OnTop, f
  <2>. DEFINE n == Len(s)
  <2>4. n \in Nat /\ n >= 1
    BY <1>0, <1>2
  <2>5. Len(f) + 1 = n /\ Len(f) = n - 1
    BY <2>1, <2>4
  <2>. HIDE DEF n
  <2>. QED
    BY <2>1, <2>2, <2>3, <2>4, <2>5 DEF n
<1>. QED
  BY <1>1, <1>2

\* A header is in one of the first b lists.
Known(lists, b, x) == \E j \in 1 .. b : \E e \in ToSet(lists[j]) : e.name = x

NameAt(clean, i) == Include(clean.lines[i]).name
Alien(path, x) == Path[x].ext = "cc" /\ Path[x].dir # path.dir

\* The includes outside of conditionals are in lists that nothing empties,
\* the first b of them; while a conditional is open others have been begun.
Remembered(lists, b, clean, path, l) ==
  LET open == OpenConditionals(clean.elided) IN
  /\ b \in 1 .. Len(lists)
  /\ IF open[l] = <<>> THEN b = Len(lists) ELSE b < Len(lists)
  /\ \A i \in 1 .. l : /\ IncludeLine(clean.elided[i]) /\ open[i] = <<>>
                       /\ ~Path[NameAt(clean, i)].foreign /\ ~Alien(path, NameAt(clean, i))
                       => Known(lists, b, NameAt(clean, i))
Lists(inc) == /\ inc = [lists |-> inc.lists, section |-> inc.section, last |-> inc.last]
              /\ IsList(inc.lists) /\ \A s \in ToSet(inc.lists) : IsList(s)
IncludesKept(inc, clean, path, l) ==
  Lists(inc) /\ \E b \in 1 .. Len(inc.lists) : Remembered(inc.lists, b, clean, path, l)

LEMMA StartIncludes ==
  ASSUME NEW clean, Len(clean.elided) \in Nat, NEW path
  PROVE  IncludesKept(IncludeState, clean, path, 0)
<1>. DEFINE s == << <<>> >>
<1>1. IncludeState = [lists |-> s, section |-> 0, last |-> 0]
  BY DEF IncludeState
<1>2. s \in Seq({<<>>}) /\ ToSet(s) = {<<>>} /\ Len(s) = 1
  BY DEF ToSet
<1>3. IsList(<<>>)
  BY EmptySeq DEF IsList
<1>4. IsList(s) /\ \A x \in ToSet(s) : IsList(x)
  BY <1>2, <1>3, ListIs
<1>5. OpenConditionals(clean.elided)[0] = <<>>
  BY OpenIs
<1>6. 1 \in 1 .. Len(s) /\ 1 .. 0 = {}
  BY <1>2
<1>7. Remembered(s, 1, clean, path, 0)
  BY <1>2, <1>5, <1>6 DEF Remembered
<1>. HIDE DEF s
<1>8. IncludeState.lists = s /\ Lists(IncludeState)
  BY <1>1, <1>4 DEF Lists
<1>. QED
  BY <1>6, <1>7, <1>8 DEF IncludesKept

LEMMA KnownIncluded ==
  ASSUME NEW inc, Lists(inc), inc.lists # <<>>, NEW b \in 1 .. Len(inc.lists), NEW x
  PROVE  /\ Known(inc.lists, b, x) => \E e \in ToSet(Included(inc)) : e.name = x
         /\ (\E e \in ToSet(Included(inc)) : e.name = x) => Known(inc.lists, Len(inc.lists), x)
<1>. DEFINE s == inc.lists
            n == Len(s)
            S == UNION {ToSet(y) : y \in ToSet(s)}
<1>1. IsList(s) /\ (\A y \in ToSet(s) : IsList(y)) /\ n \in Nat /\ DOMAIN s = 1 .. n
  BY ListEnds DEF Lists
<1>2. \A i \in 1 .. n : s[i] \in ToSet(s)
  BY <1>1 DEF ToSet
<1>3. ASSUME NEW i \in 1 .. n PROVE s[i] \in Seq(S)
  <2>1. s[i] \in Seq(ToSet(s[i])) /\ ToSet(s[i]) \subseteq S
    BY <1>1, <1>2 DEF IsList
  <2>. HIDE DEF S, s
  <2>. QED
    BY <2>1
<1>4. ToSet(FlattenSeq(s)) = UNION {ToSet(s[i]) : i \in 1 .. n}
  <2>. HIDE DEF S
  <2>1. n # 0
    OBVIOUS
  <2>. HIDE DEF n
  <2>. QED
    BY <1>1, <1>3, <2>1, FlattenElements DEF n
<1>5. Included(inc) = FlattenSeq(s)
  BY DEF Included
<1>6. 1 .. b \subseteq 1 .. n
  BY <1>1
<1>. HIDE DEF s, n
<1>. QED
  BY <1>4, <1>5, <1>6 DEF Known, s, n

\* What an include does to the lists.
Added(w, inc, path, clean, l) ==
  LET s == inc.lists x == NameAt(clean, l) IN
  \/ w = inc /\ (Alien(path, x) \/ Path[x].foreign \/ \E e \in ToSet(Included(inc)) : e.name = x)
  \/ \E e, m, k : /\ e.name = x
                  /\ w = [lists |-> OnTop(s, Append(Last(s), e)), section |-> m, last |-> k]

LEMMA IncludeAdds ==
  ASSUME NEW inc, Lists(inc), NEW path, NEW clean, NEW l
  PROVE  Added(CheckIncludeLine(path, inc, clean, l).inc, inc, path, clean, l)
<1>. DEFINE i == Include(clean.lines[l])
            p == Path[i.name]
            order == CheckNextIncludeOrder(inc, ClassifyInclude(path, i))
            again == \E e \in ToSet(Included(inc)) : e.name = i.name
            alien == p.ext = "cc" /\ p.dir # path.dir
            e == [name |-> i.name, line |-> l]
            s == inc.lists
            t == OnTop(order.inc.lists, Append(Last(order.inc.lists), e))
            w == CheckIncludeLine(path, inc, clean, l).inc
<1>1. \/ w = inc /\ (again \/ alien \/ p.foreign)
      \/ w = [order.inc EXCEPT !.lists = t, !.last = p.rank]
  BY Zenon DEF CheckIncludeLine
<1>2. \E x, y : order.inc = [lists |-> s, section |-> x, last |-> y]
  <2>. DEFINE kind == ClassifyInclude(path, i)
  <2>1. \/ order.inc = [inc EXCEPT !.last = 0]
        \/ \E at, k : order.inc = [inc EXCEPT !.section = at, !.last = k]
    BY Zenon DEF CheckNextIncludeOrder
  <2>. DEFINE a == inc.section
              b == inc.last
  <2>2. inc = [lists |-> s, section |-> a, last |-> b]
    BY DEF Lists
  <2>. HIDE DEF order, s, a, b
  <2>3. CASE order.inc = [inc EXCEPT !.last = 0]
    <3>1. order.inc = [lists |-> s, section |-> a, last |-> 0]
      BY <2>2, <2>3
    <3>. QED
      BY <3>1
  <2>4. CASE \E at, k : order.inc = [inc EXCEPT !.section = at, !.last = k]
    <3>1. PICK at, k : order.inc = [inc EXCEPT !.section = at, !.last = k]
      BY <2>4
    <3>2. order.inc = [lists |-> s, section |-> at, last |-> k]
      BY <2>2, <3>1
    <3>. QED
      BY <3>2
  <2>. QED
    BY <2>1, <2>3, <2>4
<1>3. PICK x, y : order.inc = [lists |-> s, section |-> x, last |-> y]
  BY <1>2
<1>4. e.name = NameAt(clean, l) /\ i.name = NameAt(clean, l)
  BY DEF NameAt
<1>5. alien = Alien(path, NameAt(clean, l))
  BY <1>4 DEF Alien
<1>6. again = \E f \in ToSet(Included(inc)) : f.name = NameAt(clean, l)
  BY <1>4
<1>7. t = OnTop(s, Append(Last(s), e))
  <2>1. order.inc.lists = s
    BY <1>3
  <2>. HIDE DEF order, s, e
  <2>. QED
    BY <2>1
<1>8. CASE w = inc /\ (again \/ alien \/ p.foreign)
  <2>1. p.foreign <=> Path[NameAt(clean, l)].foreign
    BY <1>4
  <2>. HIDE DEF w, p, again, alien
  <2>. QED
    BY <1>5, <1>6, <1>8, <2>1 DEF Added, w
<1>9. CASE w = [order.inc EXCEPT !.lists = t, !.last = p.rank]
  <2>. DEFINE k == p.rank
              o == order.inc
  <2>0. w = [o EXCEPT !.lists = t, !.last = k] /\ o = [lists |-> s, section |-> x, last |-> y]
    BY <1>3, <1>9
  <2>. HIDE DEF w, o, t, k, s
  <2>1. w = [lists |-> t, section |-> x, last |-> k]
    BY ONLY <2>0
  <2>2. t = OnTop(s, Append(Last(s), e))
    BY <1>7
  <2>. HIDE DEF e
  <2>3. \E f, m, n : /\ f.name = NameAt(clean, l)
                     /\ w = [lists |-> OnTop(s, Append(Last(s), f)), section |-> m, last |-> n]
    BY <1>4, <2>1, <2>2
  <2>. QED
    BY <2>3, Zenon DEF Added, s, w
<1>. QED
  BY <1>1, <1>8, <1>9

\* What a line does to the lists.
Turned(w, inc, path, clean, l) ==
  LET s == inc.lists d == Directive(clean.elided[l]) IN
  \/ IncludeLine(clean.elided[l]) /\ Added(w, inc, path, clean, l)
  \/ d \in Conditional /\ \E m, k : w = [lists |-> Append(s, <<>>), section |-> m, last |-> k]
  \/ d \in Alternative /\ \E m, k : w = [lists |-> OnTop(s, <<>>), section |-> m, last |-> k]
  \/ d = "#endif" /\ \E m, k : w = [lists |-> s, section |-> m, last |-> k]
  \/ ~IncludeLine(clean.elided[l]) /\ d \notin Conditional \union Alternative \union {"#endif"} /\ w = inc

LEMMA LanguageTurns ==
  ASSUME NEW inc, Lists(inc), NEW path, NEW clean, NEW l
  PROVE  Turned(CheckLanguage(path, inc, clean, l).inc, inc, path, clean, l)
<1>. DEFINE d == Directive(clean.elided[l])
            w == CheckLanguage(path, inc, clean, l).inc
<1>1. CASE IncludeLine(clean.elided[l])
  <2>1. w = CheckIncludeLine(path, inc, clean, l).inc
    BY <1>1, Zenon DEF CheckLanguage
  <2>. HIDE DEF w
  <2>2. Added(w, inc, path, clean, l)
    BY <2>1, IncludeAdds
  <2>. QED
    BY <1>1, <2>2 DEF Turned, w
<1>2. CASE ~IncludeLine(clean.elided[l]) /\ d \in Conditional \union Alternative \union {"#endif"}
  <2>1. w = ResetSection(inc, d)
    BY <1>2 DEF CheckLanguage
  <2>. DEFINE s == inc.lists
  <2>2. /\ d \in Conditional => w = [lists |-> Append(s, <<>>), section |-> 0, last |-> 0]
        /\ d \in Alternative => w = [lists |-> OnTop(s, <<>>), section |-> 0, last |-> 0]
        /\ d = "#endif" => w = [lists |-> s, section |-> 0, last |-> 0]
    <3>. HIDE DEF d, w, s
    <3>1. (d \in Alternative => d \notin Conditional) /\ (d = "#endif" => d \notin Conditional /\ d \notin Alternative)
      BY DEF Conditional, Alternative
    <3>. QED
      BY <2>1, <3>1 DEF ResetSection, s
  <2>. HIDE DEF w
  <2>. QED
    BY <1>2, <2>2, Zenon DEF Turned, w
<1>3. CASE ~IncludeLine(clean.elided[l]) /\ d \notin Conditional \union Alternative \union {"#endif"}
  BY <1>3 DEF CheckLanguage, Turned
<1>. QED
  BY <1>1, <1>2, <1>3

LEMMA RememberMore ==
  ASSUME NEW clean, NEW path, NEW l \in Nat, l >= 1, NEW s, NEW b, Remembered(s, b, clean, path, l - 1),
         NEW t, NEW c \in 1 .. Len(t),
         IF OpenConditionals(clean.elided)[l] = <<>> THEN c = Len(t) ELSE c < Len(t),
         \A x : Known(s, b, x) => Known(t, c, x),
         /\ IncludeLine(clean.elided[l]) /\ OpenConditionals(clean.elided)[l] = <<>>
         /\ ~Path[NameAt(clean, l)].foreign /\ ~Alien(path, NameAt(clean, l))
         => Known(t, c, NameAt(clean, l))
  PROVE  Remembered(t, c, clean, path, l)
<1>. DEFINE open == OpenConditionals(clean.elided)
            Top(i) == /\ IncludeLine(clean.elided[i]) /\ open[i] = <<>>
                      /\ ~Path[NameAt(clean, i)].foreign /\ ~Alien(path, NameAt(clean, i))
<1>1. \A i \in 1 .. l - 1 : Top(i) => Known(s, b, NameAt(clean, i))
  BY DEF Remembered
<1>2. \A i \in 1 .. l : i \in 1 .. l - 1 \/ i = l
  OBVIOUS
<1>3. Top(l) => Known(t, c, NameAt(clean, l))
  OBVIOUS
<1>4. IF open[l] = <<>> THEN c = Len(t) ELSE c < Len(t)
  OBVIOUS
<1>5. \A i \in 1 .. l : Top(i) => Known(t, c, NameAt(clean, i))
  <2>. HIDE DEF Top
  <2>. QED
    BY <1>1, <1>2, <1>3
<1>. QED
  BY <1>4, <1>5 DEF Remembered

LEMMA KnownMore ==
  ASSUME NEW s, NEW b \in Int, NEW t, NEW c \in Int, b <= c, \A j \in 1 .. b : ToSet(s[j]) \subseteq ToSet(t[j]), NEW x,
         Known(s, b, x)
  PROVE  Known(t, c, x)
<1>1. 1 .. b \subseteq 1 .. c
  OBVIOUS
<1>. QED
  BY <1>1 DEF Known

LEMMA IncludesKeep ==
  ASSUME NEW clean, Len(clean.elided) \in Nat, NEW path, NEW l \in 1 .. Len(clean.elided), NEW inc,
         IncludesKept(inc, clean, path, l - 1),
         Directive(clean.elided[l]) \in Alternative => OpenConditionals(clean.elided)[l - 1] # <<>>
  PROVE  IncludesKept(CheckLanguage(path, inc, clean, l).inc, clean, path, l)
<1>. DEFINE E == clean.elided
            open == OpenConditionals(E)
            d == Directive(E[l])
            o == open[l - 1]
            p == open[l]
            s == inc.lists
            n == Len(s)
            w == CheckLanguage(path, inc, clean, l).inc
            x == NameAt(clean, l)
<1>1. Lists(inc) /\ \E b \in 1 .. n : Remembered(s, b, clean, path, l - 1)
  BY DEF IncludesKept
<1>2. PICK b \in 1 .. n : Remembered(s, b, clean, path, l - 1)
  BY <1>1
<1>3. l \in Nat /\ l >= 1 /\ l - 1 \in 0 .. Len(E)
  OBVIOUS
<1>4. IsList(o) /\ p = OpenTurn(o, d)
  BY <1>3, OpenIs
<1>5. IF o = <<>> THEN b = n ELSE b < n
  BY <1>2 DEF Remembered
<1>6. IsList(s) /\ (\A y \in ToSet(s) : IsList(y)) /\ n \in Nat /\ DOMAIN s = 1 .. n
  BY <1>1, ListEnds DEF Lists
<1>7. s # <<>>
  <2>1. s = <<>> => n = 0
    OBVIOUS
  <2>. HIDE DEF n, s
  <2>. QED
    BY <1>2, <1>6, <2>1
<1>8. Turned(w, inc, path, clean, l)
  BY <1>1, LanguageTurns
<1>9. (IncludeLine(E[l]) => d = "#include") /\ "#include" \notin Conditional \union Alternative \union {"#endif"}
  BY DEF IncludeLine, Directive, Conditional, Alternative
<1>. HIDE DEF w, n, s, o, p, d, x
<1>10. SUFFICES IncludesKept(w, clean, path, l)
  BY DEF w
<1>11. IsList(<<>>)
  BY EmptySeq DEF IsList
\* A number of lists that is right behind the line.
<1>12. ASSUME NEW t, w.lists = t, Lists(w), NEW c \in 1 .. Len(t),
              IF p = <<>> THEN c = Len(t) ELSE c < Len(t),
              \A y : Known(s, b, y) => Known(t, c, y),
              IncludeLine(E[l]) /\ p = <<>> /\ ~Path[x].foreign /\ ~Alien(path, x) => Known(t, c, x)
       PROVE  IncludesKept(w, clean, path, l)
  <2>1. Remembered(t, c, clean, path, l)
    <3>1. IF open[l] = <<>> THEN c = Len(t) ELSE c < Len(t)
      BY <1>12 DEF p
    <3>2. /\ IncludeLine(E[l]) /\ open[l] = <<>>
          /\ ~Path[NameAt(clean, l)].foreign /\ ~Alien(path, NameAt(clean, l))
          => Known(t, c, NameAt(clean, l))
      BY <1>12 DEF p, x
    <3>. QED
      BY <1>2, <1>3, <1>12, <3>1, <3>2, RememberMore
  <2>. QED
    BY <1>12, <2>1 DEF IncludesKept
\* The same lists, when the line is no include of an unknown header outside.
<1>13. ASSUME w.lists = s, Lists(w), o = <<>> => p = <<>>,
              IncludeLine(E[l]) /\ p = <<>> /\ ~Path[x].foreign /\ ~Alien(path, x) => Known(s, n, x)
       PROVE  IncludesKept(w, clean, path, l)
  <2>. DEFINE c == IF p = <<>> THEN n ELSE b
  <2>1. c \in 1 .. n /\ b <= c /\ c \in Int /\ b \in Int /\ (IF p = <<>> THEN c = n ELSE c < n)
    BY <1>2, <1>5, <1>6, <1>13
  <2>2. \A y : Known(s, b, y) => Known(s, c, y)
    <3>. HIDE DEF c
    <3>. QED
      BY <2>1, KnownMore
  <2>3. IncludeLine(E[l]) /\ p = <<>> /\ ~Path[x].foreign /\ ~Alien(path, x) => Known(s, c, x)
    BY <1>13
  <2>. HIDE DEF c
  <2>. QED
    BY <1>12, <1>13, <2>1, <2>2, <2>3 DEF n
\* Another last list.
<1>14. ASSUME NEW y, IsList(y), NEW m, NEW k, w = [lists |-> OnTop(s, y), section |-> m, last |-> k]
       PROVE  /\ w.lists = OnTop(s, y) /\ Lists(w) /\ Len(w.lists) = n /\ w.lists[n] = y
              /\ \A j \in 1 .. n - 1 : w.lists[j] = s[j]
  <2>. DEFINE t == OnTop(s, y)
  <2>1. /\ Len(t) = n /\ t[n] = y /\ \A j \in 1 .. n - 1 : t[j] = s[j]
    BY <1>6, <1>7, ListEnds DEF n
  <2>2. IsList(t)
    BY <1>6, <1>7, ListSteps
  <2>3. \A z \in ToSet(t) : IsList(z)
    <3>1. IsList(Front(s)) /\ ToSet(Front(s)) \subseteq ToSet(s)
      BY <1>6, <1>7, ListSteps, TopOf
    <3>2. ToSet(t) = ToSet(Front(s)) \cup {y}
      BY <3>1, AppendElements DEF OnTop
    <3>. HIDE DEF t
    <3>. QED
      BY <1>6, <1>14, <3>1, <3>2
  <2>. HIDE DEF t
  <2>4. w = [lists |-> t, section |-> m, last |-> k]
    BY <1>14 DEF t
  <2>5. w.lists = t /\ Lists(w)
    BY <2>2, <2>3, <2>4 DEF Lists
  <2>. QED
    BY <2>1, <2>5 DEF t
\* While a conditional is open, another last list leaves the first b alone.
<1>15. ASSUME NEW y, IsList(y), NEW m, NEW k, w = [lists |-> OnTop(s, y), section |-> m, last |-> k],
              o # <<>>, p # <<>>
       PROVE  IncludesKept(w, clean, path, l)
  <2>. DEFINE t == w.lists
  <2>1. Lists(w) /\ Len(t) = n /\ \A j \in 1 .. n - 1 : t[j] = s[j]
    BY <1>14, <1>15
  <2>2. b < n /\ b \in 1 .. Len(t) /\ b \in Int /\ b <= b /\ \A j \in 1 .. b : j \in 1 .. n - 1
    BY <1>2, <1>5, <1>6, <1>15, <2>1
  <2>. HIDE DEF t
  <2>3. \A j \in 1 .. b : ToSet(s[j]) \subseteq ToSet(t[j])
    BY <2>1, <2>2
  <2>4. \A z : Known(s, b, z) => Known(t, b, z)
    BY <2>2, <2>3, KnownMore
  <2>5. IF p = <<>> THEN b = Len(t) ELSE b < Len(t)
    BY <1>15, <2>1, <2>2
  <2>. QED
    BY <1>12, <1>15, <2>1, <2>2, <2>4, <2>5 DEF t
<1>16. CASE IncludeLine(E[l]) /\ Added(w, inc, path, clean, l)
  <2>1. p = o
    BY <1>4, <1>9, <1>16, OpenTurnIs
  <2>2. CASE w = inc /\ (Alien(path, x) \/ Path[x].foreign \/ \E e \in ToSet(Included(inc)) : e.name = x)
    <3>1. w.lists = s /\ Lists(w)
      BY <1>1, <2>2 DEF s
    <3>2. (\E e \in ToSet(Included(inc)) : e.name = x) => Known(s, n, x)
      BY <1>1, <1>2, <1>7, KnownIncluded DEF s, n
    <3>. QED
      BY <1>13, <2>1, <2>2, <3>1, <3>2
  <2>3. CASE \E e, m, k : /\ e.name = x
                          /\ w = [lists |-> OnTop(s, Append(Last(s), e)), section |-> m, last |-> k]
    <3>1. PICK e, m, k : /\ e.name = x
                         /\ w = [lists |-> OnTop(s, Append(Last(s), e)), section |-> m, last |-> k]
      BY <2>3
    <3>. DEFINE y == Append(Last(s), e)
                t == w.lists
    <3>2. Last(s) \in ToSet(s) /\ Last(s) = s[n] /\ n >= 1
      BY <1>6, <1>7, TopOf, ListEnds DEF n
    <3>3. IsList(y) /\ ToSet(y) = ToSet(s[n]) \cup {e}
      BY <1>6, <3>2, ListSteps, AppendElements
    <3>. HIDE DEF y
    <3>4. w = [lists |-> OnTop(s, y), section |-> m, last |-> k]
      BY <3>1 DEF y
    <3>5. CASE o # <<>>
      BY <1>15, <2>1, <3>3, <3>4, <3>5
    <3>6. CASE o = <<>>
      <4>1. Lists(w) /\ Len(t) = n /\ t[n] = y /\ \A j \in 1 .. n - 1 : t[j] = s[j]
        BY <1>14, <3>3, <3>4
      <4>2. b = n /\ n \in 1 .. Len(t) /\ n \in Int /\ n <= n /\ n \in 1 .. n
            /\ \A j \in 1 .. n : j \in 1 .. n - 1 \/ j = n
        BY <1>2, <1>5, <1>6, <3>2, <3>6, <4>1
      <4>. HIDE DEF t
      <4>3. \A j \in 1 .. b : ToSet(s[j]) \subseteq ToSet(t[j])
        BY <3>3, <4>1, <4>2
      <4>4. \A z : Known(s, b, z) => Known(t, n, z)
        BY <4>2, <4>3, KnownMore
      <4>5. Known(t, n, x)
        BY <3>1, <3>3, <4>1, <4>2 DEF Known
      <4>6. IF p = <<>> THEN n = Len(t) ELSE n < Len(t)
        BY <2>1, <3>6, <4>1
      <4>. QED
        BY <1>12, <4>1, <4>2, <4>4, <4>5, <4>6 DEF t
    <3>. QED
      BY <3>5, <3>6
  <2>. QED
    BY <1>16, <2>2, <2>3 DEF Added, s, x
<1>17. CASE d \in Conditional /\ \E m, k : w = [lists |-> Append(s, <<>>), section |-> m, last |-> k]
  <2>1. PICK m, k : w = [lists |-> Append(s, <<>>), section |-> m, last |-> k]
    BY <1>17
  <2>. DEFINE t == Append(s, <<>>)
  <2>2. Len(t) = n + 1 /\ (\A j \in 1 .. n : t[j] = s[j])
    BY <1>6, ListEnds DEF n
  <2>3. IsList(t) /\ \A z \in ToSet(t) : IsList(z)
    <3>. DEFINE new == <<>>
                r == Append(s, new)
    <3>1. IsList(new)
      BY <1>11
    <3>. HIDE DEF new
    <3>2. IsList(r) /\ ToSet(r) = ToSet(s) \cup {new}
      BY <1>6, ListSteps, AppendElements
    <3>. HIDE DEF r
    <3>3. IsList(r) /\ \A z \in ToSet(r) : IsList(z)
      BY <1>6, <3>1, <3>2
    <3>. QED
      BY <3>3 DEF r, new
  <2>4. p # <<>>
    <3>. DEFINE no == FALSE
    <3>1. p = Append(o, no)
      BY <1>4, <1>17, OpenTurnIs
    <3>. HIDE DEF no
    <3>2. Append(o, no) # <<>>
      BY ONLY <1>4, ListEnds
    <3>. QED
      BY <3>1, <3>2
  <2>. HIDE DEF t
  <2>5. w = [lists |-> t, section |-> m, last |-> k]
    BY <2>1 DEF t
  <2>6. w.lists = t /\ Lists(w)
    BY <2>3, <2>5 DEF Lists
  <2>7. b < Len(t) /\ b \in 1 .. Len(t) /\ b \in Int /\ b <= b /\ \A j \in 1 .. b : j \in 1 .. n
    BY <1>2, <1>6, <2>2
  <2>8. \A z : Known(s, b, z) => Known(t, b, z)
    <3>1. \A j \in 1 .. b : ToSet(s[j]) \subseteq ToSet(t[j])
      BY <2>2, <2>7
    <3>. QED
      BY <2>7, <3>1, KnownMore
  <2>. QED
    BY <1>12, <2>4, <2>6, <2>7, <2>8
<1>18. CASE d \in Alternative /\ \E m, k : w = [lists |-> OnTop(s, <<>>), section |-> m, last |-> k]
  <2>1. PICK m, k : w = [lists |-> OnTop(s, <<>>), section |-> m, last |-> k]
    BY <1>18
  <2>2. o # <<>>
    BY <1>18 DEF o, d
  <2>3. p # <<>>
    <3>. DEFINE yes == TRUE
    <3>1. p = OnTop(o, yes)
      BY <1>4, <1>18, <2>2, OpenTurnIs
    <3>. HIDE DEF yes
    <3>2. OnTop(o, yes) # <<>>
      BY ONLY <1>4, <2>2, ListEnds
    <3>. QED
      BY <3>1, <3>2
  <2>. QED
    BY <1>11, <1>15, <2>1, <2>2, <2>3
<1>19. CASE d = "#endif" /\ \E m, k : w = [lists |-> s, section |-> m, last |-> k]
  <2>1. PICK m, k : w = [lists |-> s, section |-> m, last |-> k]
    BY <1>19
  <2>2. w.lists = s /\ Lists(w)
    BY <1>6, <2>1 DEF Lists
  <2>3. o = <<>> => p = <<>>
    BY <1>4, <1>19, OpenTurnIs DEF Conditional
  <2>4. ~IncludeLine(E[l])
    BY <1>9, <1>19
  <2>. QED
    BY <1>13, <2>2, <2>3, <2>4
<1>20. CASE ~IncludeLine(E[l]) /\ d \notin Conditional \union Alternative \union {"#endif"} /\ w = inc
  <2>1. w.lists = s /\ Lists(w)
    BY <1>1, <1>20 DEF s
  <2>2. p = o
    BY <1>4, <1>20, OpenTurnIs
  <2>. QED
    BY <1>13, <1>20, <2>1, <2>2
<1>. QED
  BY <1>8, <1>16, <1>17, <1>18, <1>19, <1>20 DEF Turned, s, d

\* A header that was included outside of conditionals is found again.
LEMMA RepeatFound ==
  ASSUME NEW clean, Len(clean.elided) \in Nat, NEW path, NEW l \in 1 .. Len(clean.elided), NEW inc,
         IncludesKept(inc, clean, path, l - 1), IncludeLine(clean.elided[l]),
         NEW i \in 1 .. l - 1, IncludeLine(clean.elided[i]), NameAt(clean, i) = NameAt(clean, l),
         ~Path[NameAt(clean, i)].foreign, OpenConditionals(clean.elided)[i] = <<>>
  PROVE  \E e \in ToSet(CheckLanguage(path, inc, clean, l).errors) : e.category = <<"build", "include">>
<1>. DEFINE x == NameAt(clean, l)
            p == Path[x]
            s == inc.lists
            n == Len(s)
            c == <<"build", "include">>
            w == CheckLanguage(path, inc, clean, l)
            again == \E e \in ToSet(Included(inc)) : e.name = x
            cond == clean.raw[l].indent = 0 /\ ~Include(clean.lines[l]).system /\ p.dir = <<>> /\ p.ext = "h" /\ ~p.foreign
            first == When(cond, Found(l, c, 4))
<1>1. PICK b \in 1 .. n : Remembered(s, b, clean, path, l - 1)
  BY DEF IncludesKept
<1>2. Lists(inc) /\ n \in Nat
  BY ListEnds DEF IncludesKept, Lists
<1>3. s # <<>>
  <2>1. s = <<>> => n = 0
    OBVIOUS
  <2>. HIDE DEF n, s
  <2>. QED
    BY <1>1, <1>2, <2>1
<1>4. again \/ Alien(path, x)
  <2>1. Alien(path, x) \/ Known(s, b, x)
    BY <1>1 DEF Remembered
  <2>2. Known(s, b, x) => again
    BY <1>1, <1>2, <1>3, KnownIncluded
  <2>. QED
    BY <2>1, <2>2
<1>5. w.errors = first \o Found(l, c, 4)
  <2>1. w = CheckIncludeLine(path, inc, clean, l)
    BY Zenon DEF CheckLanguage
  <2>2. CheckIncludeLine(path, inc, clean, l).errors = first \o Found(l, c, 4)
    BY <1>4 DEF CheckIncludeLine, NameAt, Alien
  <2>. HIDE DEF w
  <2>. QED
    BY <2>1, <2>2
<1>. DEFINE e == [line |-> l, category |-> c, confidence |-> 4]
<1>6. Found(l, c, 4) = <<e>> /\ e.category = c
  BY DEF Found
<1>7. first = <<e>> \/ first = <<>>
  BY <1>6 DEF When
<1>. HIDE DEF w, first, e
<1>. DEFINE one == <<e>>
<1>8. first \in Seq({e}) /\ one \in Seq({e}) /\ ToSet(one) = {e}
  <2>1. <<e>> \in Seq({e}) /\ <<>> \in Seq({e})
    BY ONLY TRUE
  <2>2. ToSet(<<e>>) = {e}
    BY ONLY TRUE DEF ToSet
  <2>. QED
    BY ONLY <1>7, <2>1, <2>2
<1>9. e \in ToSet(first \o one)
  <2>. HIDE DEF one
  <2>1. ToSet(first \o one) = ToSet(first) \cup ToSet(one)
    BY ONLY <1>8, ConcatElements
  <2>. QED
    BY ONLY <1>8, <2>1
<1>. QED
  BY <1>5, <1>6, <1>9 DEF w

\* No inline assembly and no #else without an #if so far.
Plainly(clean, l) ==
  \A m \in 1 .. l : /\ Directive(clean.elided[m]) \in Alternative => OpenConditionals(clean.elided)[m - 1] # <<>>
                    /\ "asm" \notin ToSet(clean.elided[m])

\* Every header that was repeated so far is among the reports.
RepeatsReported(name, clean, l, rs) ==
  \A i, k \in {m \in 1 .. l : IncludeLine(clean.elided[m])} :
    /\ i < k /\ NameAt(clean, i) = NameAt(clean, k) /\ ~Path[NameAt(clean, i)].foreign
    /\ OpenConditionals(clean.elided)[i] = <<>>
    => \E r \in rs : r.file = name /\ r.at = k /\ r.category = <<"build", "include">>

RepeatsAt(f, rs) ==
  Plainly(f.clean, f.at - 1) =>
    /\ CalmNesting(f.nest) /\ IncludesKept(f.inc, f.clean, f.path, f.at - 1)
    /\ RepeatsReported(f.name, f.clean, f.at - 1, rs)

LEMMA RepeatsOneMore ==
  ASSUME NEW name, NEW clean, NEW l \in Nat, l >= 1, NEW rs, NEW qs, rs \subseteq qs,
         RepeatsReported(name, clean, l - 1, rs),
         IncludeLine(clean.elided[l]) =>
           \A i \in 1 .. l - 1 :
             /\ IncludeLine(clean.elided[i]) /\ NameAt(clean, i) = NameAt(clean, l)
             /\ ~Path[NameAt(clean, i)].foreign /\ OpenConditionals(clean.elided)[i] = <<>>
             => \E r \in qs : r.file = name /\ r.at = l /\ r.category = <<"build", "include">>
  PROVE  RepeatsReported(name, clean, l, qs)
<1>1. SUFFICES ASSUME NEW i \in 1 .. l, NEW k \in 1 .. l, IncludeLine(clean.elided[i]), IncludeLine(clean.elided[k]),
                      i < k, NameAt(clean, i) = NameAt(clean, k), ~Path[NameAt(clean, i)].foreign,
                      OpenConditionals(clean.elided)[i] = <<>>
               PROVE  \E r \in qs : r.file = name /\ r.at = k /\ r.category = <<"build", "include">>
  BY DEF RepeatsReported
<1>2. i \in 1 .. l - 1 /\ (k = l \/ k \in 1 .. l - 1)
  BY <1>1
<1>3. CASE k = l
  BY <1>1, <1>2, <1>3
<1>4. CASE k \in 1 .. l - 1
  <2>1. \E r \in rs : r.file = name /\ r.at = k /\ r.category = <<"build", "include">>
    BY <1>1, <1>2, <1>4 DEF RepeatsReported
  <2>. QED
    BY <2>1
<1>. QED
  BY <1>2, <1>3, <1>4

LEMMA GrownOn ==
  ASSUME NEW j, NEW k, Grown(j, k), NEW m, Grown(k, m)
  PROVE  Grown(j, m)
BY DEF Grown

\* A line without inline assembly is looked at, and its includes are judged.
LEMMA LineLooked ==
  ASSUME FileLines(disk.files[file.name].lines), AtLines, Nesting(file.nest), CalmNesting(file.nest),
         Listed(Judged), "asm" \notin ToSet(file.clean.elided[file.at]), ProcessLine
  PROVE  LET l == file.at
             w == Update(file.nest, file.clean, l)
             lang == CheckLanguage(file.path, file.inc, file.clean, l)
         IN  /\ CalmNesting(w.nest)
             /\ \E x : file' = [file EXCEPT !.at = l + 1, !.nest = w.nest, !.fn = x, !.inc = lang.inc]
             /\ \E j : /\ Grown(Judged, j) /\ Judge(j)
                       /\ \A e \in ToSet(lang.errors) : \E i : Report(i, l, e) \in ToSet(j.reports)
<1>. DEFINE l == file.at
            clean == file.clean
            raw == Raw(file.name)
            n == Len(raw)
            w == Update(file.nest, clean, l)
            j0 == Nolint(Judged, l, clean, l)
            e0 == w.errors \o CheckForNamespaceIndentation(w.nest, clean, l)
            j1 == Errors(j0, l, e0)
            fn == CheckForFunctionLengths(file.fn, clean, l, st.verbose)
            lang == CheckLanguage(file.path, file.inc, clean, l)
            e1 == fn.errors \o CheckForMultilineCommentsAndStrings(clean, l)
                     \o CheckStyle(clean, l, st.width)
            j2 == Errors(j1, l, e1)
            j3 == CheckTrailingSemicolon(j2, clean, l)
            body == CheckEmptyBlockBody(clean, l)
            class == CheckClass(w.nest, clean, l)
            a2 == body \o class
            b2 == a2 \o lang.errors
            c2 == b2 \o Faults(clean, l, FALSE)
            e2 == c2 \o Faults(clean, l, TRUE)
            j4 == Errors(j3, l, e2)
<1>1. /\ n \in Nat /\ DOMAIN raw = 1 .. n /\ clean.raw = raw
      /\ \A i \in 1 .. n : clean.elided[i] \in Seq(Tokens(file.name))
      /\ Len(clean.elided) = n
  BY RawIs, TextType DEF AtLines
<1>2. l \in 1 .. n
  BY <1>1 DEF ProcessLine
<1>3. CalmNesting(w.nest)
  <2>. HIDE DEF l, clean
  <2>. QED
    BY <1>1, <1>2, CalmUpdate DEF l, clean
<1>4. ~InAsmBlock(w.nest)
  <2>. DEFINE s == w.nest.stack
  <2>1. CalmStack(s)
    BY <1>3 DEF CalmNesting
  <2>. HIDE DEF s
  <2>2. s # <<>> => Last(s).asm = "none"
    BY <2>1, CalmIs DEF Calm
  <2>. QED
    BY <2>2 DEF InAsmBlock, s
<1>5. /\ Judge(j4)
      /\ file' = [file EXCEPT !.at = l + 1, !.nest = w.nest, !.fn = fn.fn, !.inc = lang.inc]
  <2>. DEFINE u == w
  <2>1. ~InAsmBlock(u.nest)
    BY <1>4
  <2>. QED
    BY <2>1 DEF ProcessLine
<1>. HIDE DEF raw, n
<1>6. l \in Int /\ Later({}, l)
  BY <1>1, <1>2 DEF Later
<1>7. ErrorsBut(w.errors, {})
  <2>1. Nesting(w.nest) /\ ErrorsBut(w.errors, {})
    <3>. HIDE DEF l, clean
    <3>. QED
      BY <1>1, <1>2, <1>6, UpdateKeeps DEF l, clean
  <2>. QED
    BY <2>1
<1>. HIDE DEF w
<1>8. ErrorsBut(Faults(clean, l, TRUE), {}) /\ ErrorsBut(Faults(clean, l, FALSE), {})
  <2>1. IsFiniteSet(clean.raw[l].faults) /\ \A f \in clean.raw[l].faults : f[1] \in Categories
    BY <1>1, <1>2, RawType DEF raw, n
  <2>. HIDE DEF l, clean
  <2>. QED
    BY <2>1, FaultsOf
<1>9. ErrorsBut(lang.errors, {})
  <2>. HIDE DEF l, clean
  <2>. QED
    BY IncludeChecks
<1>10. /\ ErrorsBut(CheckForNamespaceIndentation(w.nest, clean, l), {})
       /\ ErrorsBut(CheckForMultilineCommentsAndStrings(clean, l), {})
       /\ ErrorsBut(fn.errors, {})
       /\ ErrorsBut(CheckStyle(clean, l, st.width), {})
       /\ ErrorsBut(a2, {})
  <2>1. ErrorsAhead(body, l, {})
    <3>. HIDE DEF l, clean
    <3>. QED
      BY <1>1, <1>2, EmptyBodyErrors
  <2>2. ErrorsBut(body, {})
    BY <2>1 DEF ErrorsAhead, ErrorsBut
  <2>. HIDE DEF l, clean, body
  <2>3. ErrorsBut(class, {})
    BY OneLineChecks
  <2>. QED
    BY <2>2, <2>3, OneLineChecks, BothErrors
<1>11. ErrorsBut(e0, {}) /\ ErrorsBut(e1, {}) /\ ErrorsBut(b2, {}) /\ ErrorsBut(c2, {}) /\ ErrorsBut(e2, {})
  <2>. HIDE DEF l, clean, lang, fn, a2
  <2>1. ErrorsBut(e0, {})
    BY <1>7, <1>10, BothErrors
  <2>2. ErrorsBut(e1, {})
    BY <1>10, BothErrors
  <2>3. ErrorsBut(b2, {})
    BY <1>9, <1>10, BothErrors
  <2>. HIDE DEF b2
  <2>4. ErrorsBut(c2, {})
    BY <1>8, <2>3, BothErrors
  <2>. HIDE DEF c2
  <2>5. ErrorsBut(e2, {})
    BY <1>8, <2>4, BothErrors
  <2>. QED
    BY <2>1, <2>2, <2>3, <2>4, <2>5
<1>12. \A s, t : ErrorsBut(s, {}) /\ ErrorsBut(t, {}) => ToSet(s) \subseteq ToSet(s \o t) /\ ToSet(t) \subseteq ToSet(s \o t)
  <2>1. ASSUME NEW s, NEW t, ErrorsBut(s, {}), ErrorsBut(t, {})
        PROVE  ToSet(s) \subseteq ToSet(s \o t) /\ ToSet(t) \subseteq ToSet(s \o t)
    <3>. DEFINE A == ToSet(s)
                B == ToSet(t)
                S == A \cup B
    <3>1. s \in Seq(A) /\ t \in Seq(B) /\ A \subseteq S /\ B \subseteq S
      BY <2>1 DEF ErrorsBut, IsList
    <3>. HIDE DEF S, A, B
    <3>2. s \in Seq(S) /\ t \in Seq(S)
      BY <3>1
    <3>3. ToSet(s \o t) = ToSet(s) \cup ToSet(t)
      BY ONLY <3>2, ConcatElements
    <3>. QED
      BY ONLY <3>3
  <2>. QED
    BY <2>1
<1>13. ToSet(lang.errors) \subseteq ToSet(e2)
  <2>. DEFINE b == lang.errors
              f == Faults(clean, l, FALSE)
              g == Faults(clean, l, TRUE)
  <2>1. ErrorsBut(f, {}) /\ ErrorsBut(g, {}) /\ ErrorsBut(a2, {}) /\ ErrorsBut(b, {})
        /\ ErrorsBut(b2, {}) /\ ErrorsBut(c2, {})
    BY <1>8, <1>9, <1>10, <1>11
  <2>2. b2 = a2 \o b /\ c2 = b2 \o f /\ e2 = c2 \o g
    OBVIOUS
  <2>. HIDE DEF a2, b2, c2, e2, b, f, g
  <2>. QED
    BY <1>12, <2>1, <2>2 DEF b
<1>. HIDE DEF e0, e1, e2
<1>14. IsList(e0) /\ IsList(e1) /\ IsList(e2)
  BY <1>11 DEF ErrorsBut
<1>15. Grown(Judged, j0)
  <2>. HIDE DEF l, clean
  <2>. QED
    BY MarksAdded
<1>. HIDE DEF j0, l
<1>16. Grown(j0, j1)
  BY <1>14, <1>15, ErrorsAdded DEF Grown
<1>. HIDE DEF j1
<1>17. Grown(j1, j2)
  BY <1>14, <1>16, ErrorsAdded DEF Grown
<1>. HIDE DEF j2, clean
<1>18. Grown(j2, j3)
  BY <1>17, SemicolonAdded DEF Grown
<1>. HIDE DEF j3
<1>19. Grown(j3, j4) /\ \A e \in ToSet(e2) : Report(j3, l, e) \in ToSet(j4.reports)
  BY <1>14, <1>18, ErrorsAdded DEF Grown
<1>. HIDE DEF j4
<1>20. Grown(Judged, j4)
  BY <1>15, <1>16, <1>17, <1>18, <1>19, GrownOn
<1>21. \A e \in ToSet(lang.errors) : \E i : Report(i, l, e) \in ToSet(j4.reports)
  BY <1>13, <1>19
<1>22. \E j : /\ Grown(Judged, j) /\ Judge(j)
              /\ \A e \in ToSet(lang.errors) : \E i : Report(i, l, e) \in ToSet(j.reports)
  BY <1>5, <1>20, <1>21
<1>23. \E x : file' = [file EXCEPT !.at = l + 1, !.nest = w.nest, !.fn = x, !.inc = lang.inc]
  BY <1>5
<1>. QED
  BY <1>3, <1>22, <1>23 DEF l, clean, w

LEMMA LineRepeats ==
  ASSUME FileLines(disk.files[file.name].lines), AtLines, Nesting(file.nest), IsFile(file),
         Listed(Judged), ProcessLine, RepeatsAt(file, ToSet(reports))
  PROVE  RepeatsAt(file', ToSet(reports'))
<1>. DEFINE l == file.at
            clean == file.clean
            E == clean.elided
            lang == CheckLanguage(file.path, file.inc, clean, l)
            w == Update(file.nest, clean, l)
<1>1. /\ clean.raw = Raw(file.name) /\ Len(Raw(file.name)) \in Nat
      /\ DOMAIN Raw(file.name) = 1 .. Len(Raw(file.name)) /\ Len(E) = Len(Raw(file.name))
  BY RawIs, TextType DEF AtLines
<1>2. l \in 1 .. Len(E) /\ Len(E) \in Nat
  BY <1>1 DEF ProcessLine
<1>3. /\ file'.name = file.name /\ file'.path = file.path /\ file'.clean = clean /\ file'.at = l + 1
  <2>1. \/ \E x : file' = [file EXCEPT !.at = l + 1, !.nest = x]
        \/ \E x, y, z : file' = [file EXCEPT !.at = l + 1, !.nest = x, !.fn = y, !.inc = z]
    BY Zenon DEF ProcessLine
  <2>. QED
    BY <2>1 DEF IsFile
<1>4. l \in Nat /\ l >= 1 /\ (l + 1) - 1 = l /\ l \in 1 .. l /\ 1 .. l - 1 \subseteq 1 .. l
  BY <1>2
<1>5. SUFFICES ASSUME Plainly(clean, l)
               PROVE  /\ CalmNesting(file'.nest) /\ IncludesKept(file'.inc, clean, file.path, l)
                      /\ RepeatsReported(file.name, clean, l, ToSet(reports'))
  BY <1>3, <1>4 DEF RepeatsAt
<1>6. Plainly(clean, l - 1)
  BY <1>4, <1>5 DEF Plainly
<1>7. /\ CalmNesting(file.nest) /\ IncludesKept(file.inc, clean, file.path, l - 1)
      /\ RepeatsReported(file.name, clean, l - 1, ToSet(reports))
  BY <1>6 DEF RepeatsAt
<1>8. "asm" \notin ToSet(E[l]) /\ (Directive(E[l]) \in Alternative => OpenConditionals(E)[l - 1] # <<>>)
  BY <1>4, <1>5 DEF Plainly
<1>9. /\ CalmNesting(w.nest)
      /\ \E x : file' = [file EXCEPT !.at = l + 1, !.nest = w.nest, !.fn = x, !.inc = lang.inc]
      /\ \E j : /\ Grown(Judged, j) /\ Judge(j)
                /\ \A e \in ToSet(lang.errors) : \E i : Report(i, l, e) \in ToSet(j.reports)
  BY <1>7, <1>8, LineLooked
<1>. HIDE DEF w
<1>10. file'.nest = w.nest /\ file'.inc = lang.inc
  <2>1. PICK x : file' = [file EXCEPT !.at = l + 1, !.nest = w.nest, !.fn = x, !.inc = lang.inc]
    BY <1>9
  <2>. HIDE DEF lang
  <2>. QED
    BY <2>1 DEF IsFile
<1>11. IncludesKept(lang.inc, clean, file.path, l)
  <2>. HIDE DEF l, clean
  <2>. QED
    BY <1>2, <1>7, <1>8, IncludesKeep
<1>12. PICK j : /\ Grown(Judged, j) /\ Judge(j)
                /\ \A e \in ToSet(lang.errors) : \E i : Report(i, l, e) \in ToSet(j.reports)
  BY <1>9
<1>13. ToSet(reports) \subseteq ToSet(reports') /\ reports' = j.reports
  BY <1>12 DEF Grown, Judged, Judge
<1>14. ASSUME IncludeLine(E[l]), NEW i \in 1 .. l - 1,
              IncludeLine(E[i]), NameAt(clean, i) = NameAt(clean, l),
              ~Path[NameAt(clean, i)].foreign, OpenConditionals(E)[i] = <<>>
       PROVE  \E r \in ToSet(reports') : r.file = file.name /\ r.at = l /\ r.category = <<"build", "include">>
  <2>1. \E e \in ToSet(lang.errors) : e.category = <<"build", "include">>
    <3>. DEFINE path == file.path
                inc == file.inc
    <3>1. /\ Len(clean.elided) \in Nat /\ l \in 1 .. Len(clean.elided)
          /\ IncludesKept(inc, clean, path, l - 1) /\ IncludeLine(clean.elided[l])
          /\ i \in 1 .. l - 1 /\ IncludeLine(clean.elided[i]) /\ NameAt(clean, i) = NameAt(clean, l)
          /\ ~Path[NameAt(clean, i)].foreign /\ OpenConditionals(clean.elided)[i] = <<>>
      BY <1>2, <1>7, <1>14
    <3>. HIDE DEF l, clean, path, inc
    <3>2. \E e \in ToSet(CheckLanguage(path, inc, clean, l).errors) : e.category = <<"build", "include">>
      BY ONLY <3>1, RepeatFound
    <3>. QED
      BY <3>2 DEF path, inc
  <2>2. PICK e \in ToSet(lang.errors) : e.category = <<"build", "include">>
    BY <2>1
  <2>3. PICK i1 : Report(i1, l, e) \in ToSet(j.reports)
    BY <1>12
  <2>. DEFINE r == Report(i1, l, e)
  <2>4. r.file = file.name /\ r.at = l /\ r.category = e.category
    BY DEF Report
  <2>. HIDE DEF r
  <2>. QED
    BY <1>13, <2>2, <2>3, <2>4 DEF r
<1>15. RepeatsReported(file.name, clean, l, ToSet(reports'))
  <2>. DEFINE rs == ToSet(reports)
              qs == ToSet(reports')
  <2>1. rs \subseteq qs /\ RepeatsReported(file.name, clean, l - 1, rs)
    BY <1>7, <1>13
  <2>2. IncludeLine(E[l]) =>
           \A i \in 1 .. l - 1 :
             /\ IncludeLine(E[i]) /\ NameAt(clean, i) = NameAt(clean, l)
             /\ ~Path[NameAt(clean, i)].foreign /\ OpenConditionals(E)[i] = <<>>
             => \E r \in qs : r.file = file.name /\ r.at = l /\ r.category = <<"build", "include">>
    BY <1>14
  <2>. HIDE DEF rs, qs, l, clean
  <2>3. RepeatsReported(file.name, clean, l, qs)
    BY <1>4, <2>1, <2>2, RepeatsOneMore
  <2>. QED
    BY <2>3 DEF qs
<1>. QED
  BY <1>9, <1>10, <1>11, <1>15

\* While a file is gone through its repeated includes have been reported.
RepeatsInv ==
  /\ phase = "open" => file.nest = NestingState /\ file.inc = IncludeState
  /\ phase = "lines" => RepeatsAt(file, ToSet(reports))

LEMMA RepeatsNext ==
  ASSUME FilesAgree, RepeatsInv, Next
  PROVE  RepeatsInv'
<1>0. InputOK /\ SettingsInv /\ FilterInv /\ ReportsInv
  BY DEF FilesAgree
<1>1. IsFile(file) /\ Listed(Judged)
  BY <1>0 DEF FilterInv, ReportsInv, JudgedOK, Listed
<1>2. CASE phase' \notin {"open", "lines"}
  BY <1>2 DEF RepeatsInv
<1>3. CASE Configure /\ phase' \in {"open", "lines"}
  <2>1. phase' = "open" /\ \E a, b : file' = [NoFile EXCEPT !.name = a, !.path = b]
    BY <1>3 DEF Configure, Exit
  <2>2. \A a, b : /\ [NoFile EXCEPT !.name = a, !.path = b].nest = NestingState
                  /\ [NoFile EXCEPT !.name = a, !.path = b].inc = IncludeState
    BY DEF NoFile
  <2>3. file'.nest = NestingState /\ file'.inc = IncludeState
    BY <2>1, <2>2
  <2>. QED
    BY <2>1, <2>3 DEF RepeatsInv
<1>4. CASE OpenFile /\ phase' \in {"open", "lines"}
  <2>1. phase = "open" /\ phase' = "lines"
    BY <1>4 DEF OpenFile, Leave
  <2>2. \E clean : file' = [file EXCEPT !.clean = clean, !.at = 1]
    BY <1>4, <2>1 DEF OpenFile, Leave
  <2>3. file'.at = 1 /\ file'.nest = NestingState /\ file'.inc = IncludeState
    BY <1>1, <2>1, <2>2 DEF IsFile, RepeatsInv
  <2>4. CalmNesting(NestingState)
    <3>1. NestingState.stack = <<>> /\ NestingState.pp = <<>> /\ ToSet(<<>>) = {}
      BY DEF NestingState, ToSet
    <3>. QED
      BY <3>1, CalmIs DEF CalmNesting
  <2>5. Len(file'.clean.elided) \in Nat
    <3>1. file.name \in DOMAIN disk.files /\ file' = [file EXCEPT !.clean = CleansedLines(Raw(file.name)), !.at = 1]
      BY <1>4, <2>1 DEF OpenFile, Leave, Raw, Marked
    <3>2. FileLines(disk.files[file.name].lines)
      BY <1>0, <3>1 DEF InputOK
    <3>3. file'.clean = CleansedLines(Raw(file.name))
      BY <1>1, <3>1 DEF IsFile
    <3>4. Len(CleansedLines(Raw(file.name)).elided) = Len(Raw(file.name)) /\ Len(Raw(file.name)) \in Nat
      BY <3>2, TextType, RawIs
    <3>. QED
      BY <3>3, <3>4
  <2>6. IncludesKept(IncludeState, file'.clean, file'.path, 0)
    BY <2>5, StartIncludes
  <2>7. \A name, clean, rs : RepeatsReported(name, clean, 0, rs)
    <3>1. 1 .. 0 = {}
      OBVIOUS
    <3>. QED
      BY <3>1 DEF RepeatsReported
  <2>8. 1 - 1 = 0
    OBVIOUS
  <2>9. RepeatsAt(file', ToSet(reports'))
    BY <2>3, <2>4, <2>6, <2>7, <2>8 DEF RepeatsAt
  <2>. QED
    BY <2>1, <2>9 DEF RepeatsInv
<1>5. CASE ProcessLine
  <2>1. phase = "lines" /\ phase' = "lines"
    BY <1>5 DEF ProcessLine
  <2>2. FileLines(disk.files[file.name].lines) /\ AtLines /\ Nesting(file.nest)
    BY <1>0, <2>1 DEF InputOK, ReportsInv, AtLines
  <2>3. RepeatsAt(file, ToSet(reports))
    BY <2>1 DEF RepeatsInv
  <2>4. RepeatsAt(file', ToSet(reports'))
    BY <1>1, <1>5, <2>2, <2>3, LineRepeats
  <2>. QED
    BY <2>1, <2>4 DEF RepeatsInv
<1>6. ParseArguments \/ FinishFile \/ Finish => phase' \notin {"open", "lines"}
  BY DEF ParseArguments, FinishFile, Finish, Exit, Leave
<1>. QED
  BY <1>2, <1>3, <1>4, <1>5, <1>6 DEF Next

\* For every set of inputs, a header that a file includes again is reported,
\* whatever conditionals stand between and around, if it was included outside of
\* all conditionals before (_IncludeState.ResetSection, CheckIncludeLine).
THEOREM RepeatedIncludesAlwaysReported ==
  Spec => []RepeatedIncludeReported
<1>1. Init => RepeatsInv
  BY DEF Init, RepeatsInv
<1>2. FilesAgree /\ RepeatsInv /\ [Next]_vars => RepeatsInv'
  <2>1. CASE UNCHANGED vars
    BY <2>1 DEF vars, RepeatsInv
  <2>. QED
    BY <2>1, RepeatsNext
<1>3. FilesAgree /\ RepeatsInv => RepeatedIncludeReported
  <2>1. SUFFICES ASSUME RepeatsInv, phase = "lines", Plainly(file.clean, file.at - 1)
                 PROVE  RepeatsReported(file.name, file.clean, file.at - 1, ToSet(reports))
    BY DEF RepeatedIncludeReported, Plainly, RepeatsReported, NameAt
  <2>. QED
    BY <2>1 DEF RepeatsInv, RepeatsAt
<1>. QED
  BY <1>1, <1>2, <1>3, FilesAlways, PTL DEF Spec

-----------------------------------------------------------------------------
\* Blocks that differ at most in their access, their assembly and what their
\* classes look like.
Features == {"kind", "name", "start", "seen", "parens"}
Whole(b) == b = [x \in DOMAIN b |-> b[x]] /\ Features \subseteq DOMAIN b /\ b["parens"] \in Int
Like(a, b) == Whole(a) /\ Whole(b) /\ \A x \in Features : a[x] = b[x]
Alike(s, t) ==
  IsList(s) /\ IsList(t) /\ Len(s) = Len(t) /\ \A j \in 1 .. Len(s) : Like(s[j], t[j])

LEMMA FrontIs ==
  ASSUME NEW s, IsList(s), s # <<>>
  PROVE  Len(Front(s)) = Len(s) - 1 /\ \A j \in 1 .. Len(s) - 1 : Front(s)[j] = s[j]
<1>. DEFINE S == ToSet(s)
<1>1. s \in Seq(S)
  BY DEF IsList
<1>. HIDE DEF S
<1>. QED
  BY <1>1, FrontProperties

LEMMA AlikeIs ==
  /\ Alike(<<>>, <<>>)
  /\ \A s, t, a, b : Alike(s, t) /\ Like(a, b) => Alike(Append(s, a), Append(t, b))
  /\ \A s, t : Alike(s, t) => (s = <<>> <=> t = <<>>)
  /\ \A s, t : Alike(s, t) /\ s # <<>> =>
       /\ Like(Last(s), Last(t)) /\ Alike(Front(s), Front(t))
       /\ \A a, b : Like(a, b) => Alike(OnTop(s, a), OnTop(t, b))
<1>1. Alike(<<>>, <<>>)
  <2>1. <<>> \in Seq({}) /\ Len(<<>>) = 0
    OBVIOUS
  <2>2. IsList(<<>>)
    BY <2>1, ListIs
  <2>3. \A j \in 1 .. Len(<<>>) : FALSE
    BY <2>1
  <2>. QED
    BY <2>2, <2>3 DEF Alike
<1>2. ASSUME NEW s, NEW t, NEW a, NEW b, Alike(s, t), Like(a, b) PROVE Alike(Append(s, a), Append(t, b))
  <2>1. IsList(s) /\ IsList(t) /\ Len(s) = Len(t) /\ \A j \in 1 .. Len(s) : Like(s[j], t[j])
    BY <1>2 DEF Alike
  <2>. DEFINE v == Append(s, a)
              w == Append(t, b)
              n == Len(s)
  <2>2. IsList(v) /\ IsList(w)
    BY <2>1, ListSteps
  <2>3. /\ n \in Nat /\ Len(v) = n + 1 /\ v[n + 1] = a /\ \A j \in 1 .. n : v[j] = s[j]
        /\ Len(w) = n + 1 /\ w[n + 1] = b /\ \A j \in 1 .. n : w[j] = t[j]
    BY <2>1, ListEnds
  <2>. HIDE DEF v, w, n
  <2>4. ASSUME NEW j \in 1 .. n + 1 PROVE j \in 1 .. n \/ j = n + 1
    BY <2>3
  <2>5. \A j \in 1 .. n : Like(s[j], t[j])
    BY <2>1 DEF n
  <2>6. \A j \in 1 .. n + 1 : Like(v[j], w[j])
    BY <1>2, <2>3, <2>4, <2>5
  <2>7. Alike(v, w)
    BY <2>2, <2>3, <2>6 DEF Alike
  <2>. QED
    BY <2>7 DEF v, w
<1>3. ASSUME NEW s, NEW t, Alike(s, t) PROVE s = <<>> <=> t = <<>>
  <2>1. IsList(s) /\ IsList(t) /\ Len(s) = Len(t)
    BY <1>3 DEF Alike
  <2>. DEFINE S == ToSet(s)
              T == ToSet(t)
  <2>2. s \in Seq(S) /\ t \in Seq(T)
    BY <2>1 DEF IsList
  <2>. HIDE DEF S, T
  <2>. QED
    BY <2>1, <2>2
<1>4. ASSUME NEW s, NEW t, Alike(s, t), s # <<>> PROVE Like(Last(s), Last(t)) /\ Alike(Front(s), Front(t))
  <2>1. IsList(s) /\ IsList(t) /\ Len(s) = Len(t) /\ \A j \in 1 .. Len(s) : Like(s[j], t[j])
    BY <1>4 DEF Alike
  <2>2. t # <<>>
    BY <1>3, <1>4
  <2>. DEFINE v == Front(s)
              w == Front(t)
              n == Len(s)
  <2>3. IsList(v) /\ IsList(w)
    BY <1>4, <2>1, <2>2, ListSteps
  <2>4. /\ Len(v) = n - 1 /\ \A j \in 1 .. n - 1 : v[j] = s[j]
        /\ Len(w) = n - 1 /\ \A j \in 1 .. n - 1 : w[j] = t[j]
    BY <1>4, <2>1, <2>2, FrontIs
  <2>5. n \in Nat /\ n >= 1 /\ Last(s) = s[n] /\ Last(t) = t[n]
    BY <1>4, <2>1, <2>2, ListEnds
  <2>. HIDE DEF v, w, n
  <2>6. \A j \in 1 .. n : Like(s[j], t[j])
    BY <2>1 DEF n
  <2>7. n \in 1 .. n /\ \A j \in 1 .. n - 1 : j \in 1 .. n
    BY <2>5
  <2>8. Alike(v, w)
    BY <2>3, <2>4, <2>6, <2>7 DEF Alike
  <2>. QED
    BY <2>5, <2>6, <2>7, <2>8 DEF v, w
<1>5. ASSUME NEW s, NEW t, Alike(s, t), s # <<>>, NEW a, NEW b, Like(a, b) PROVE Alike(OnTop(s, a), OnTop(t, b))
  BY <1>2, <1>4, <1>5 DEF OnTop
<1>. QED
  BY <1>1, <1>2, <1>3, <1>4, <1>5

\* Blocks of their own are put on alike stacks.
LEMMA AlikeMore ==
  ASSUME NEW s, NEW t, Alike(s, t), NEW u, IsList(u), \A b \in ToSet(u) : Whole(b)
  PROVE  Alike(s \o u, t \o u)
<1>1. IsList(s) /\ IsList(t) /\ Len(s) = Len(t) /\ \A j \in 1 .. Len(s) : Like(s[j], t[j])
  BY DEF Alike
<1>. DEFINE v == s \o u
            w == t \o u
            n == Len(s)
            m == Len(u)
<1>2. IsList(v) /\ IsList(w)
  BY <1>1, ListSteps
<1>3. ASSUME NEW x, IsList(x)
      PROVE  /\ Len(x \o u) = Len(x) + m /\ Len(x) \in Nat /\ m \in Nat
             /\ \A j \in 1 .. Len(x) : (x \o u)[j] = x[j]
             /\ \A j \in 1 .. m : (x \o u)[Len(x) + j] = u[j]
  <2>. DEFINE A == ToSet(x)
              B == ToSet(u)
              S == A \cup B
  <2>1. x \in Seq(A) /\ u \in Seq(B) /\ A \subseteq S /\ B \subseteq S
    BY <1>3 DEF IsList
  <2>. HIDE DEF A, B, S
  <2>2. x \in Seq(S) /\ u \in Seq(S)
    BY <2>1
  <2>. QED
    BY <2>2
<1>4. /\ Len(v) = n + m /\ n \in Nat /\ m \in Nat /\ Len(w) = n + m
      /\ \A j \in 1 .. n : v[j] = s[j] /\ w[j] = t[j]
      /\ \A j \in 1 .. m : v[n + j] = u[j] /\ w[n + j] = u[j]
  BY <1>1, <1>3
<1>5. \A j \in 1 .. m : u[j] \in ToSet(u)
  <2>1. DOMAIN u = 1 .. m
    BY ListEnds
  <2>. QED
    BY <2>1 DEF ToSet
<1>. HIDE DEF v, w, n, m
<1>6. \A j \in 1 .. n : Like(s[j], t[j])
  BY <1>1 DEF n
<1>7. \A j \in 1 .. m : Like(u[j], u[j])
  BY <1>5 DEF Like
<1>8. ASSUME NEW j \in 1 .. n + m PROVE j \in 1 .. n \/ \E i \in 1 .. m : j = n + i
  <2>1. j > n => j - n \in 1 .. m /\ j = n + (j - n)
    BY <1>4
  <2>2. j <= n => j \in 1 .. n
    BY <1>4
  <2>3. j > n \/ j <= n
    BY <1>4
  <2>. QED
    BY <2>1, <2>2, <2>3
<1>9. \A j \in 1 .. n + m : Like(v[j], w[j])
  BY <1>4, <1>6, <1>7, <1>8
<1>10. Alike(v, w)
  BY <1>2, <1>4, <1>9 DEF Alike
<1>. QED
  BY <1>10 DEF v, w

\* What the program changes of a block.
Opened(w, b, y) == Whole(w) /\ w["seen"] = y /\ \A x \in Features \ {"seen"} : w[x] = b[x]
Counted(w, b, n) == Whole(w) /\ w["parens"] = n /\ \A x \in Features \ {"parens"} : w[x] = b[x]

LEMMA WholeChange ==
  ASSUME NEW b, Whole(b)
  PROVE  /\ \A y : Like([b EXCEPT !.access = y], b)
         /\ \A y : Like([b EXCEPT !.asm = y], b)
         /\ \A y : Opened([b EXCEPT !.seen = y], b, y)
         /\ \A y : \A n \in Int : Counted([b EXCEPT !.parens = n, !.asm = y], b, n)
         /\ \A y, z : Whole([b EXCEPT !.name = y, !.seen = z])
<1>1. PICK D, f : b = [x \in D |-> f[x]] /\ DOMAIN b = D /\ Features \subseteq D /\ b["parens"] \in Int
  BY DEF Whole
<1>2. ASSUME NEW w, DOMAIN w = D, w = [x \in D |-> w[x]], w["parens"] \in Int PROVE Whole(w)
  BY <1>1, <1>2 DEF Whole
<1>3. {"kind", "name", "start", "seen", "parens"} \subseteq D
  BY <1>1 DEF Features
<1>4. ASSUME NEW y PROVE Like([b EXCEPT !.access = y], b)
  <2>. DEFINE w == [b EXCEPT !.access = y]
  <2>1. DOMAIN w = D /\ w = [x \in D |-> w[x]] /\ \A x \in D : x # "access" => w[x] = b[x]
    BY <1>1
  <2>. HIDE DEF w
  <2>2. \A x \in Features : w[x] = b[x]
    BY <1>1, <2>1 DEF Features
  <2>. QED
    BY <1>1, <1>2, <2>1, <2>2 DEF Like, Features, w
<1>5. ASSUME NEW y PROVE Like([b EXCEPT !.asm = y], b)
  <2>. DEFINE w == [b EXCEPT !.asm = y]
  <2>1. DOMAIN w = D /\ w = [x \in D |-> w[x]] /\ \A x \in D : x # "asm" => w[x] = b[x]
    BY <1>1
  <2>. HIDE DEF w
  <2>2. \A x \in Features : w[x] = b[x]
    BY <1>1, <2>1 DEF Features
  <2>. QED
    BY <1>1, <1>2, <2>1, <2>2 DEF Like, Features, w
<1>6. ASSUME NEW y PROVE Opened([b EXCEPT !.seen = y], b, y)
  <2>. DEFINE w == [b EXCEPT !.seen = y]
  <2>1. DOMAIN w = D /\ w = [x \in D |-> w[x]] /\ (\A x \in D : x # "seen" => w[x] = b[x]) /\ w["seen"] = y
    BY <1>1, <1>3
  <2>. HIDE DEF w
  <2>2. Opened(w, b, y)
    BY <1>1, <1>2, <2>1 DEF Opened, Features
  <2>. QED
    BY <2>2 DEF w
<1>7. ASSUME NEW y, NEW n \in Int PROVE Counted([b EXCEPT !.parens = n, !.asm = y], b, n)
  <2>. DEFINE w == [b EXCEPT !.parens = n, !.asm = y]
  <2>1. /\ DOMAIN w = D /\ w = [x \in D |-> w[x]] /\ (\A x \in D : x \notin {"parens", "asm"} => w[x] = b[x])
        /\ w["parens"] = n
    BY <1>1, <1>3
  <2>. HIDE DEF w
  <2>2. Counted(w, b, n)
    BY <1>1, <1>2, <2>1 DEF Counted, Features
  <2>. QED
    BY <2>2 DEF w
<1>8. ASSUME NEW y, NEW z PROVE Whole([b EXCEPT !.name = y, !.seen = z])
  <2>. DEFINE w == [b EXCEPT !.name = y, !.seen = z]
  <2>1. DOMAIN w = D /\ w = [x \in D |-> w[x]] /\ w["parens"] = b["parens"]
    BY <1>1, <1>3
  <2>. QED
    BY <1>1, <1>2, <2>1
<1>. QED
  BY <1>4, <1>5, <1>6, <1>7, <1>8

LEMMA WholeBlock ==
  ASSUME NEW kind, NEW l
  PROVE  Whole(Block(kind, l))
<1>1. Block(kind, l)["parens"] = 0 /\ DOMAIN Block(kind, l) = {"kind", "start", "seen", "parens", "asm", "name", "access", "struct", "indent", "last"}
  BY DEF Block
<1>2. Block(kind, l) = [x \in DOMAIN Block(kind, l) |-> Block(kind, l)[x]]
  BY DEF Block
<1>. QED
  BY <1>1, <1>2 DEF Whole, Features

\* The parentheses of a line are counted in the innermost block alone.
Change(s) == CountOf(s, {"("}) - CountOf(s, {")"})

LEMMA ParensAre ==
  ASSUME NEW T, NEW s \in Seq(T)
  PROVE  /\ Change(s) \in Int
         /\ \A z : z = <<>> => CountParens(z, s) = z
         /\ \A z : z # <<>> =>
              \E a : CountParens(z, s) =
                       OnTop(z, [Last(z) EXCEPT !.parens = Last(z).parens + Change(s), !.asm = a])
<1>. DEFINE change == Change(s)
<1>1. change \in Int
  <2>1. ASSUME NEW S PROVE CountOf(s, S) \in Int
    <3>1. IsFiniteSet({i \in DOMAIN s : s[i] \in S})
      <4>1. DOMAIN s = 1 .. Len(s) /\ Len(s) \in Nat
        OBVIOUS
      <4>2. IsFiniteSet(1 .. Len(s))
        BY <4>1, FS_Interval
      <4>. QED
        BY <4>1, <4>2, FS_Subset
    <3>. QED
      BY <3>1, FS_CardinalityType DEF CountOf
  <2>. QED
    BY <2>1 DEF Change
<1>2. ASSUME NEW z, z = <<>> PROVE CountParens(z, s) = z
  BY <1>2 DEF CountParens
<1>3. ASSUME NEW z, z # <<>>
      PROVE  \E a : CountParens(z, s) = OnTop(z, [Last(z) EXCEPT !.parens = Last(z).parens + change, !.asm = a])
  <2>. DEFINE b == Last(z)
              open == b.parens + change
              asm == CASE b.asm \in {"none", "end"} ->
                            IF change # 0 /\ open = 1 /\ MatchAsm(s) THEN "inside" ELSE "none"
                       [] b.asm = "inside" /\ open = 0 -> "end"
                       [] OTHER -> b.asm
  <2>1. CountParens(z, s) = OnTop(z, [b EXCEPT !.parens = open, !.asm = asm])
    BY <1>3, Zenon DEF CountParens, Change
  <2>. QED
    BY <2>1
<1>. QED
  BY <1>1, <1>2, <1>3

LEMMA AlikeParens ==
  ASSUME NEW x, NEW y, Alike(x, y), NEW T, NEW s \in Seq(T)
  PROVE  Alike(CountParens(x, s), CountParens(y, s))
<1>. DEFINE change == Change(s)
<1>1. change \in Int
  BY ParensAre
<1>2. ASSUME NEW z, z = <<>> PROVE CountParens(z, s) = z
  BY <1>2, ParensAre
<1>3. ASSUME NEW z, z # <<>>
      PROVE  \E a : CountParens(z, s) = OnTop(z, [Last(z) EXCEPT !.parens = Last(z).parens + change, !.asm = a])
  BY <1>3, ParensAre
<1>. HIDE DEF change
<1>4. CASE x = <<>>
  <2>1. y = <<>>
    BY <1>4, AlikeIs
  <2>. QED
    BY <1>2, <1>4, <2>1
<1>5. CASE x # <<>>
  <2>. DEFINE a == Last(x)
              b == Last(y)
              n == a.parens + change
  <2>1. y # <<>> /\ Like(a, b)
    BY <1>5, AlikeIs
  <2>2. Whole(a) /\ Whole(b) /\ a["parens"] = b["parens"] /\ n \in Int /\ \A k \in Features : a[k] = b[k]
    BY <1>1, <2>1 DEF Like, Whole, Features
  <2>3. PICK p : CountParens(x, s) = OnTop(x, [a EXCEPT !.parens = n, !.asm = p])
    BY <1>3, <1>5
  <2>4. PICK q : CountParens(y, s) = OnTop(y, [b EXCEPT !.parens = n, !.asm = q])
    BY <1>3, <2>1, <2>2
  <2>. HIDE DEF a, b, n
  <2>. DEFINE v == [a EXCEPT !.parens = n, !.asm = p]
              w == [b EXCEPT !.parens = n, !.asm = q]
  <2>5. Counted(v, a, n)
    BY <2>2, WholeChange
  <2>6. Counted(w, b, n)
    BY <2>2, WholeChange
  <2>. HIDE DEF v, w
  <2>7. Like(v, w)
    BY <2>2, <2>5, <2>6 DEF Counted, Like
  <2>8. Alike(OnTop(x, v), OnTop(y, w))
    BY <1>5, <2>7, AlikeIs
  <2>. QED
    BY <2>3, <2>4, <2>8 DEF v, w
<1>. QED
  BY <1>4, <1>5

\* What the heads of a line are is the same on alike stacks.
LEMMA AlikeHeads ==
  ASSUME NEW x, NEW y, Alike(x, y), NEW T, NEW clean, NEW l, clean.elided[l] \in Seq(T)
  PROVE  /\ Alike(Heads(x, clean, l).stack, Heads(y, clean, l).stack)
         /\ Heads(x, clean, l).from = Heads(y, clean, l).from
<1>. DEFINE s == clean.elided[l]
            ns == Namespaces(s, l)
            rest == From(s, ns.at)
            c == ClassAt(rest)
            info == ClassInfo(clean, l, rest[c], rest[c + 1])
            two == x \o ns.blocks
            too == y \o ns.blocks
<1>1. ns \in SpaceState(s, l)
  <2>1. Len(s) \in 0 .. Len(s)
    OBVIOUS
  <2>. QED
    BY <2>1, NamespaceTurns
<1>2. ns.blocks \in Seq(Spaces(s, l))
  BY <1>1 DEF SpaceState
<1>3. \A b \in Spaces(s, l) : Whole(b)
  <2>1. \A m, b : Whole(Space(l, m, b))
    BY WholeBlock, WholeChange DEF Space
  <2>. TAKE b \in Spaces(s, l)
  <2>2. PICK m, v : b = Space(l, m, v)
    BY Zenon DEF Spaces
  <2>3. Whole(Space(l, m, v))
    BY <2>1
  <2>. QED
    BY <2>2, <2>3
<1>4. Alike(two, too)
  <2>. DEFINE bs == ns.blocks
  <2>1. IsList(bs) /\ ToSet(bs) \subseteq Spaces(s, l)
    BY <1>2, ListIs, IndicesOfSeq
  <2>2. IsList(bs) /\ \A b \in ToSet(bs) : Whole(b)
    BY <1>3, <2>1
  <2>. HIDE DEF bs
  <2>3. Alike(x \o bs, y \o bs)
    BY <2>2, AlikeMore
  <2>. QED
    BY <2>3 DEF bs
<1>5. Whole(info)
  <2>. DEFINE k == Block("class", l)
  <2>1. ASSUME NEW m, NEW h, NEW a, NEW d, NEW e
        PROVE  Whole([k EXCEPT !.name = m, !.struct = h, !.access = a, !.indent = d, !.last = e])
    <3>. DEFINE w == [k EXCEPT !.name = m, !.struct = h, !.access = a, !.indent = d, !.last = e]
    <3>1. Whole(k)
      BY WholeBlock
    <3>. HIDE DEF k
    <3>2. PICK D, f : k = [z \in D |-> f[z]] /\ DOMAIN k = D /\ Features \subseteq D /\ k["parens"] \in Int
      BY <3>1 DEF Whole
    <3>3. DOMAIN w = D /\ w = [z \in D |-> w[z]] /\ w["parens"] = k["parens"]
      BY <3>2 DEF Features
    <3>. HIDE DEF w
    <3>4. Whole(w)
      BY <3>2, <3>3 DEF Whole
    <3>. QED
      BY <3>4 DEF w
  <2>. HIDE DEF ns, c
  <2>. QED
    BY <2>1 DEF ClassInfo
<1>6. Like(info, info)
  BY <1>5 DEF Like
<1>. DEFINE ok == c # 0 /\ ~InTemplateArgumentList(clean.elided, l, c + 2)
            Heading(z) == IF ok /\ (z = <<>> \/ Last(z).parens = 0)
                          THEN [stack |-> Append(z, info), from |-> ns.at + c + 1]
                          ELSE [stack |-> z, from |-> ns.at]
<1>7. \A z : ClassHead(z, clean, l, ns.at) = Heading(z)
  BY Zenon DEF ClassHead
<1>8. Heads(x, clean, l) = Heading(two) /\ Heads(y, clean, l) = Heading(too)
  BY <1>7 DEF Heads
<1>9. (two = <<>> <=> too = <<>>) /\ (two # <<>> => Last(two)["parens"] = Last(too)["parens"])
  <2>1. two # <<>> => Like(Last(two), Last(too))
    BY <1>4, AlikeIs
  <2>. QED
    BY <1>4, <2>1, AlikeIs DEF Like, Features
<1>10. Alike(Append(two, info), Append(too, info))
  BY <1>4, <1>6, AlikeIs
<1>. HIDE DEF two, too, info, ok, ns, c
<1>11. CASE ok /\ (two = <<>> \/ Last(two).parens = 0)
  BY <1>8, <1>9, <1>10, <1>11
<1>12. CASE ~(ok /\ (two = <<>> \/ Last(two).parens = 0))
  BY <1>4, <1>8, <1>9, <1>12
<1>. QED
  BY <1>11, <1>12

LEMMA AlikeAccess ==
  ASSUME NEW x, NEW y, Alike(x, y), NEW clean, NEW l, NEW from
  PROVE  Alike(UpdateAccess(x, clean, l, from).stack, UpdateAccess(y, clean, l, from).stack)
<1>. DEFINE p == AccessLabel(clean.elided[l], from)
            acc == clean.elided[l][p]
            ok == p # 0
            w(z) == UpdateAccess(z, clean, l, from).stack
<1>1. ASSUME NEW z
      PROVE  w(z) = IF z # <<>> /\ Last(z).kind = "class" /\ ok
                    THEN OnTop(z, [Last(z) EXCEPT !.access = acc]) ELSE z
  BY Zenon DEF UpdateAccess
<1>2. x = <<>> <=> y = <<>>
  BY AlikeIs
<1>. DEFINE a == Last(x)
            b == Last(y)
<1>3. x # <<>> => Like(a, b) /\ a["kind"] = b["kind"]
  BY AlikeIs DEF Like, Features
<1>. HIDE DEF a, b, acc, ok
<1>4. x # <<>> => Like([a EXCEPT !.access = acc], [b EXCEPT !.access = acc])
  <2>1. ASSUME x # <<>> PROVE Like([a EXCEPT !.access = acc], [b EXCEPT !.access = acc])
    <3>. DEFINE v == [a EXCEPT !.access = acc]
                u == [b EXCEPT !.access = acc]
    <3>1. Like(v, a) /\ Like(u, b) /\ Like(a, b)
      BY <1>3, <2>1, WholeChange DEF Like
    <3>. HIDE DEF v, u
    <3>2. Like(v, u)
      BY <3>1 DEF Like
    <3>. QED
      BY <3>2 DEF v, u
  <2>. QED
    BY <2>1
<1>. DEFINE v == [a EXCEPT !.access = acc]
            u == [b EXCEPT !.access = acc]
<1>. HIDE DEF v, u
<1>5. x # <<>> => Alike(OnTop(x, v), OnTop(y, u))
  BY <1>4, AlikeIs DEF v, u
<1>6. \/ w(x) = OnTop(x, v) /\ w(y) = OnTop(y, u) /\ x # <<>>
      \/ w(x) = x /\ w(y) = y
  BY <1>1, <1>2, <1>3 DEF v, u, a, b
<1>. HIDE DEF w
<1>7. Alike(w(x), w(y))
  BY <1>5, <1>6
<1>. QED
  BY <1>7 DEF w

LEMMA AlikeOpen ==
  ASSUME NEW x, NEW y, Alike(x, y), NEW clean, NEW l, NEW i, NEW from
  PROVE  /\ SeenOpenBrace(x) <=> SeenOpenBrace(y)
         /\ Alike(OpenBrace(x, clean, l, i, from), OpenBrace(y, clean, l, i, from))
<1>. DEFINE s == clean.elided[l]
            kind == IF /\ i = 4 /\ from = 1 /\ SubSeq(s, 1, 3) = <<"extern", "q", "q">>
                       /\ clean.raw[l].indent = 0
                    THEN "extern" ELSE "block"
            asm == kind = "block" /\ i > from /\ s[i - 1] = "asm"
                   /\ (i = from + 1 \/ s[i - 2] \in {"{", "}", ";", ")"})
            no == IF asm THEN "block" ELSE "none"
            k == Block(kind, l)
            b == [k EXCEPT !.asm = no]
            o(z) == OpenBrace(z, clean, l, i, from)
            yes == TRUE
            p == Last(x)
            q == Last(y)
            v == [p EXCEPT !.seen = yes]
            u == [q EXCEPT !.seen = yes]
<1>1. ASSUME NEW z
      PROVE  o(z) = IF ~SeenOpenBrace(z) THEN OnTop(z, [Last(z) EXCEPT !.seen = yes]) ELSE Append(z, b)
  BY DEF OpenBrace
<1>2. (x = <<>> <=> y = <<>>) /\ (x # <<>> => Like(p, q))
  BY AlikeIs
<1>3. SeenOpenBrace(x) <=> SeenOpenBrace(y)
  <2>. HIDE DEF p, q
  <2>1. x # <<>> => p["seen"] = q["seen"]
    BY <1>2 DEF Like, Features
  <2>. QED
    BY <1>2, <2>1 DEF SeenOpenBrace, p, q
<1>4. Like(b, b)
  <2>1. Whole(k)
    BY WholeBlock
  <2>. HIDE DEF k, no
  <2>2. Like(b, k)
    BY <2>1, WholeChange
  <2>. HIDE DEF b
  <2>. QED
    BY <2>2 DEF Like
<1>5. x # <<>> => Like(v, u)
  <2>. HIDE DEF p, q, yes
  <2>1. x # <<>> => Opened(v, p, yes) /\ Opened(u, q, yes)
    BY <1>2, WholeChange DEF Like
  <2>. HIDE DEF v, u
  <2>. QED
    BY <1>2, <2>1 DEF Opened, Like
<1>6. Alike(Append(x, b), Append(y, b))
  <2>. HIDE DEF b
  <2>. QED
    BY <1>4, AlikeIs
<1>7. x # <<>> => Alike(OnTop(x, v), OnTop(y, u))
  <2>. HIDE DEF v, u
  <2>. QED
    BY <1>5, AlikeIs
<1>8. SUFFICES Alike(o(x), o(y))
  BY <1>3
<1>. HIDE DEF b, yes
<1>9. SeenOpenBrace(x) => o(x) = Append(x, b) /\ o(y) = Append(y, b)
  BY <1>1, <1>3
<1>10. ~SeenOpenBrace(x) => o(x) = OnTop(x, v) /\ o(y) = OnTop(y, u) /\ x # <<>>
  <2>1. ~SeenOpenBrace(x) => x # <<>>
    BY DEF SeenOpenBrace
  <2>. QED
    BY <1>1, <1>3, <2>1
<1>. HIDE DEF o, v, u
<1>. QED
  BY <1>6, <1>7, <1>9, <1>10

\* One token does the same to alike stacks.
Twins(v, w) == /\ v = [stack |-> v.stack, errors |-> v.errors]
               /\ w = [stack |-> w.stack, errors |-> w.errors]
               /\ Alike(v.stack, w.stack)

LEMMA AlikeBrace ==
  ASSUME NEW v, NEW w, Twins(v, w), NEW clean, NEW l, NEW i, NEW from
  PROVE  Twins(BraceTurn(v, clean, l, i, from), BraceTurn(w, clean, l, i, from))
<1>. DEFINE t == clean.elided[l][i]
            Turn(z) == BraceTurn(z, clean, l, i, from)
            Open(z) == OpenBrace(z, clean, l, i, from)
            x == v.stack
            y == w.stack
            ex == v.errors
            ey == w.errors
            fx == ex \o CheckEnd(Last(x), clean, l)
            fy == ey \o CheckEnd(Last(y), clean, l)
<1>1. v = [stack |-> x, errors |-> ex] /\ w = [stack |-> y, errors |-> ey] /\ Alike(x, y)
  BY DEF Twins
<1>2. /\ x = <<>> <=> y = <<>>
      /\ x # <<>> => Alike(Front(x), Front(y))
  BY <1>1, AlikeIs
<1>3. (SeenOpenBrace(x) <=> SeenOpenBrace(y)) /\ Alike(Open(x), Open(y)) /\ (~SeenOpenBrace(x) => x # <<>>)
  <2>. HIDE DEF x, y
  <2>. QED
    BY <1>1, AlikeOpen DEF SeenOpenBrace
<1>4. ASSUME NEW z
      PROVE  Turn(z) = IF i < from THEN z
                       ELSE CASE t = "{" -> [z EXCEPT !.stack = Open(z.stack)]
                              [] t \in {";", ")"} /\ ~SeenOpenBrace(z.stack) -> [z EXCEPT !.stack = Front(z.stack)]
                              [] t = "}" /\ z.stack # <<>> ->
                                   [stack  |-> Front(z.stack),
                                    errors |-> z.errors \o CheckEnd(Last(z.stack), clean, l)]
                              [] OTHER -> z
  BY DEF BraceTurn, Brace
<1>5. ASSUME NEW a, NEW b, NEW c, NEW d, Alike(a, b) PROVE Twins([stack |-> a, errors |-> c], [stack |-> b, errors |-> d])
  BY <1>5 DEF Twins
<1>6. SUFFICES Twins(Turn(v), Turn(w))
  OBVIOUS
<1>. DEFINE ox == Open(x)
            oy == Open(y)
            gx == Front(x)
            gy == Front(y)
<1>7. ASSUME NEW z, NEW a, NEW e, z = [stack |-> a, errors |-> e], NEW b
      PROVE  [z EXCEPT !.stack = b] = [stack |-> b, errors |-> e]
  BY <1>7
<1>8. CASE i < from
  BY <1>4, <1>8
<1>9. CASE ~(i < from) /\ t = "{"
  <2>1. Turn(v) = [v EXCEPT !.stack = ox] /\ Turn(w) = [w EXCEPT !.stack = oy]
    BY <1>4, <1>9
  <2>. HIDE DEF Turn, ox, oy, x, y, ex, ey
  <2>2. Turn(v) = [stack |-> ox, errors |-> ex] /\ Turn(w) = [stack |-> oy, errors |-> ey]
    BY <1>1, <1>7, <2>1
  <2>3. Alike(ox, oy)
    BY <1>3 DEF ox, oy
  <2>. QED
    BY <1>5, <2>2, <2>3
<1>10. CASE ~(i < from) /\ t \in {";", ")"} /\ ~SeenOpenBrace(x)
  <2>1. Turn(v) = [v EXCEPT !.stack = gx] /\ Turn(w) = [w EXCEPT !.stack = gy]
    BY <1>3, <1>4, <1>10
  <2>. HIDE DEF Turn, gx, gy, x, y, ex, ey
  <2>2. Turn(v) = [stack |-> gx, errors |-> ex] /\ Turn(w) = [stack |-> gy, errors |-> ey]
    BY <1>1, <1>7, <2>1
  <2>3. Alike(gx, gy)
    BY <1>2, <1>3, <1>10 DEF gx, gy
  <2>. QED
    BY <1>5, <2>2, <2>3
<1>11. CASE ~(i < from) /\ t = "}" /\ x # <<>>
  <2>1. Turn(v) = [stack |-> gx, errors |-> fx] /\ Turn(w) = [stack |-> gy, errors |-> fy]
    BY <1>2, <1>4, <1>11
  <2>. HIDE DEF Turn, gx, gy, fx, fy, x, y
  <2>3. Alike(gx, gy)
    BY <1>2, <1>11 DEF gx, gy
  <2>. QED
    BY <1>5, <2>1, <2>3
<1>12. CASE /\ ~(i < from) /\ t # "{" /\ ~(t \in {";", ")"} /\ ~SeenOpenBrace(x))
            /\ ~(t = "}" /\ x # <<>>)
  <2>1. Turn(v) = v /\ Turn(w) = w
    BY <1>2, <1>3, <1>4, <1>12
  <2>. QED
    BY <2>1
<1>. QED
  BY <1>8, <1>9, <1>10, <1>11, <1>12

LEMMA BracesTurns ==
  ASSUME NEW T, NEW clean, NEW l, clean.elided[l] \in Seq(T), NEW u, NEW from
  PROVE  \E g : /\ g[0] = u
                /\ \A i \in 1 .. Len(clean.elided[l]) : g[i] = BraceTurn(g[i - 1], clean, l, i, from)
                /\ Braces(u, clean, l, from) = g[Len(clean.elided[l])]
<1>. DEFINE n == Len(clean.elided[l])
            g == CHOOSE h : h = [i \in 0 .. n |-> IF i = 0 THEN u
                                                  ELSE IF i < from THEN h[i - 1]
                                                  ELSE Brace(h[i - 1], clean, l, i, from)]
<1>1. n \in Nat /\ n \in 0 .. n
  OBVIOUS
<1>2. Braces(u, clean, l, from) = g[n]
  BY DEF Braces
<1>3. BracesUpto(g, n, u, clean, l, from)
  <2>. HIDE DEF n
  <2>1. \E h : BracesUpto(h, n, u, clean, l, from)
    BY <1>1, BracesExist
  <2>. QED
    BY ONLY <2>1 DEF BracesUpto, BraceTurn
<1>. HIDE DEF g
<1>4. /\ g[0] = u
      /\ \A i \in 1 .. n : g[i] = BraceTurn(g[i - 1], clean, l, i, from)
  <2>1. 0 \in 0 .. n /\ \A k \in 1 .. n : k \in 0 .. n /\ k # 0
    BY <1>1
  <2>. HIDE DEF n
  <2>. QED
    BY <1>3, <2>1 DEF BracesUpto
<1>. QED
  BY <1>2, <1>4

LEMMA AlikeBraces ==
  ASSUME NEW T, NEW clean, NEW l, clean.elided[l] \in Seq(T), NEW v, NEW w, Twins(v, w), NEW from
  PROVE  Alike(Braces(v, clean, l, from).stack, Braces(w, clean, l, from).stack)
<1>. DEFINE n == Len(clean.elided[l])
<1>1. n \in Nat
  OBVIOUS
<1>2. PICK g : /\ g[0] = v
               /\ \A i \in 1 .. n : g[i] = BraceTurn(g[i - 1], clean, l, i, from)
               /\ Braces(v, clean, l, from) = g[n]
  BY BracesTurns
<1>3. PICK h : /\ h[0] = w
               /\ \A i \in 1 .. n : h[i] = BraceTurn(h[i - 1], clean, l, i, from)
               /\ Braces(w, clean, l, from) = h[n]
  BY BracesTurns
<1>. DEFINE OK(i) == Twins(g[i], h[i])
            Bad == {i \in 0 .. n : ~OK(i)}
<1>4. OK(0)
  BY <1>2, <1>3
<1>5. ASSUME NEW i \in 1 .. n, OK(i - 1) PROVE OK(i)
  <2>1. Twins(BraceTurn(g[i - 1], clean, l, i, from), BraceTurn(h[i - 1], clean, l, i, from))
    BY <1>5, AlikeBrace
  <2>. QED
    BY <1>2, <1>3, <2>1
<1>6. ASSUME Bad # {} PROVE FALSE
  <2>. HIDE DEF OK, n
  <2>1. Bad \in SUBSET Nat
    OBVIOUS
  <2>2. PICK k \in Bad : \A j \in Bad : k <= j
    BY <1>6, <2>1, LeastExists
  <2>3. k # 0 /\ k \in 0 .. n
    BY <1>4, <2>2
  <2>4. k \in 1 .. n /\ k - 1 \in 0 .. n /\ ~(k <= k - 1)
    BY <1>1, <2>3
  <2>5. OK(k - 1)
    BY <2>2, <2>4
  <2>. QED
    BY <1>5, <2>2, <2>4, <2>5
<1>7. OK(n)
  <2>. HIDE DEF OK, n
  <2>. QED
    BY <1>1, <1>6
<1>. QED
  BY <1>2, <1>3, <1>7 DEF Twins

\* What a line does to a stack, whatever conditionals there are.
LineStack(x, clean, l) == Tails(Heads(CountParens(x, clean.elided[l]), clean, l), clean, l).stack

LEMMA AlikeLine ==
  ASSUME NEW T, NEW clean, NEW l, clean.elided[l] \in Seq(T), NEW x, NEW y, Alike(x, y)
  PROVE  Alike(LineStack(x, clean, l), LineStack(y, clean, l))
<1>. DEFINE s == clean.elided[l]
            hx == Heads(CountParens(x, s), clean, l)
            hy == Heads(CountParens(y, s), clean, l)
            ux == UpdateAccess(hx.stack, clean, l, hx.from)
            uy == UpdateAccess(hy.stack, clean, l, hy.from)
<1>1. Alike(hx.stack, hy.stack) /\ hx.from = hy.from
  <2>1. Alike(CountParens(x, s), CountParens(y, s))
    BY AlikeParens
  <2>. QED
    BY <2>1, AlikeHeads
<1>. DEFINE from == hx.from
<1>2. Alike(ux.stack, uy.stack)
  <2>. HIDE DEF hx, hy
  <2>. QED
    BY <1>1, AlikeAccess
<1>3. ASSUME NEW h PROVE LET r == UpdateAccess(h.stack, clean, l, h.from) IN r = [stack |-> r.stack, errors |-> r.errors]
  <2>. DEFINE r == UpdateAccess(h.stack, clean, l, h.from)
  <2>1. \E a, b : r = [stack |-> a, errors |-> b]
    BY Zenon DEF UpdateAccess
  <2>. HIDE DEF r
  <2>2. r = [stack |-> r.stack, errors |-> r.errors]
    BY <2>1
  <2>. QED
    BY <2>2 DEF r
<1>4. Twins(ux, uy)
  <2>1. ux = [stack |-> ux.stack, errors |-> ux.errors] /\ uy = [stack |-> uy.stack, errors |-> uy.errors]
    BY <1>3
  <2>. HIDE DEF ux, uy
  <2>. QED
    BY <1>2, <2>1 DEF Twins
<1>5. /\ LineStack(x, clean, l) = Braces(ux, clean, l, from).stack
      /\ LineStack(y, clean, l) = Braces(uy, clean, l, hy.from).stack
  BY DEF LineStack, Tails
<1>6. hy.from = from
  BY <1>1
<1>. HIDE DEF ux, uy, from, hx, hy
<1>. QED
  BY <1>4, <1>5, <1>6, AlikeBraces

\* Another last block that is like the one it replaces.
LEMMA AlikeTop ==
  ASSUME NEW x, NEW y, Alike(x, y), x # <<>>, NEW v, Like(v, Last(x))
  PROVE  Alike(OnTop(x, v), y)
<1>. DEFINE w == OnTop(x, v)
            n == Len(x)
<1>1. IsList(x) /\ IsList(y) /\ Len(x) = Len(y) /\ \A j \in 1 .. Len(x) : Like(x[j], y[j])
  BY DEF Alike
<1>2. IsList(w)
  BY <1>1, ListSteps
<1>3. /\ n \in Nat /\ n >= 1 /\ Last(x) = x[n]
      /\ Len(w) = n /\ (\A j \in 1 .. n - 1 : w[j] = x[j]) /\ w[n] = v
  BY <1>1, ListEnds
<1>. HIDE DEF w, n
<1>4. n \in 1 .. n /\ \A j \in 1 .. n : j = n \/ j \in 1 .. n - 1
  BY <1>3
<1>5. \A j \in 1 .. n : Like(x[j], y[j])
  BY <1>1 DEF n
<1>6. Like(v, y[n])
  BY <1>3, <1>4, <1>5 DEF Like
<1>7. \A j \in 1 .. n : Like(w[j], y[j])
  BY <1>3, <1>4, <1>5, <1>6
<1>8. Alike(w, y)
  BY <1>1, <1>2, <1>3, <1>7 DEF Alike, n
<1>. QED
  BY <1>8 DEF w

\* The line of an #endif with nothing else but words.
EndifLine(s) == Directive(s) = "#endif" /\ \A t \in ToSet(s) : Word(t)

LEMMA EndifIs ==
  ASSUME NEW T, NEW s \in Seq(T), EndifLine(s)
  PROVE  /\ s # <<>> /\ s[1] = "#endif" /\ Len(s) \in Nat /\ Len(s) >= 1 /\ DOMAIN s = 1 .. Len(s)
         /\ \A i \in 1 .. Len(s) : s[i] \notin {"(", ")", "{", "}", ";", ":"}
<1>1. s # <<>> /\ s[1] = "#endif"
  BY DEF EndifLine, Directive
<1>2. Len(s) \in Nat /\ Len(s) >= 1 /\ DOMAIN s = 1 .. Len(s)
  BY <1>1
<1>3. \A i \in 1 .. Len(s) : s[i] \notin Signs
  BY <1>2 DEF EndifLine, ToSet, Word
<1>. QED
  BY <1>1, <1>2, <1>3 DEF Signs

\* It opens and closes no parenthesis,
LEMMA EndifParens ==
  ASSUME NEW T, NEW s \in Seq(T), EndifLine(s), NEW x, NEW y, Alike(x, y)
  PROVE  Alike(CountParens(x, s), y)
<1>1. Change(s) = 0
  <2>1. ASSUME NEW S \in {{"("}, {")"}} PROVE CountOf(s, S) = 0
    <3>1. {i \in DOMAIN s : s[i] \in S} = {}
      BY EndifIs
    <3>. QED
      BY <3>1, FS_EmptySet DEF CountOf
  <2>. QED
    BY <2>1 DEF Change
<1>2. CASE x = <<>>
  BY <1>2, ParensAre
<1>3. CASE x # <<>>
  <2>. DEFINE a == Last(x)
              n == a.parens
  <2>1. Like(a, Last(y))
    BY <1>3, AlikeIs
  <2>2. Whole(a) /\ n \in Int /\ n + 0 = n /\ n = a["parens"]
    BY <2>1 DEF Like, Whole
  <2>. DEFINE m == Last(x).parens + Change(s)
  <2>7. PICK p : CountParens(x, s) = OnTop(x, [a EXCEPT !.parens = m, !.asm = p])
    BY <1>3, ParensAre
  <2>8. m = n
    <3>1. m = n + 0
      BY <1>1
    <3>. QED
      BY <2>2, <3>1
  <2>. HIDE DEF a, n, m
  <2>3. CountParens(x, s) = OnTop(x, [a EXCEPT !.parens = n, !.asm = p])
    BY <2>7, <2>8
  <2>. DEFINE v == [a EXCEPT !.parens = n, !.asm = p]
  <2>4. Counted(v, a, n)
    BY <2>2, WholeChange
  <2>. HIDE DEF v
  <2>5. Like(v, a)
    BY <2>2, <2>4 DEF Counted, Like
  <2>6. Alike(OnTop(x, v), y)
    BY <1>3, <2>5, AlikeTop DEF a
  <2>. QED
    BY <2>3, <2>6 DEF v
<1>. QED
  BY <1>2, <1>3

\* begins no namespace and no class,
LEMMA EndifHeads ==
  ASSUME NEW T, NEW clean, NEW l, clean.elided[l] \in Seq(T), EndifLine(clean.elided[l]), NEW x, IsList(x)
  PROVE  Heads(x, clean, l) = [stack |-> x, from |-> 1]
<1>. DEFINE s == clean.elided[l]
            none == [blocks |-> <<>>, at |-> 1]
            n == Len(s)
<1>0. n \in Nat /\ n >= 1 /\ s[1] = "#endif" /\ DOMAIN s = 1 .. n /\ s \in Seq(T)
  BY EndifIs
<1>1. Namespaces(s, l) = none
  <2>1. PICK K : /\ K[0] = none
                 /\ \A i \in 1 .. n : K[i] = NextNamespace(K[i - 1], s, l)
                 /\ Namespaces(s, l) = K[n]
    BY NamespaceTurns
  <2>2. NextNamespace(none, s, l) = none
    <3>1. none.at = 1 /\ s[1] # "namespace"
      BY <1>0
    <3>. HIDE DEF none
    <3>. QED
      BY <3>1 DEF NextNamespace
  <2>. HIDE DEF none, s
  <2>. DEFINE OK(i) == K[i] = none
              Bad == {i \in 0 .. n : ~OK(i)}
  <2>3. OK(0)
    BY <2>1
  <2>4. ASSUME NEW i \in 1 .. n, OK(i - 1) PROVE OK(i)
    BY <2>1, <2>2, <2>4
  <2>5. ASSUME Bad # {} PROVE FALSE
    <3>. HIDE DEF OK, n
    <3>1. Bad \in SUBSET Nat
      OBVIOUS
    <3>2. PICK k \in Bad : \A j \in Bad : k <= j
      BY <2>5, <3>1, LeastExists
    <3>3. k # 0 /\ k \in 0 .. n
      BY <2>3, <3>2
    <3>4. k \in 1 .. n /\ k - 1 \in 0 .. n /\ ~(k <= k - 1)
      BY <1>0, <3>3
    <3>5. OK(k - 1)
      BY <3>2, <3>4
    <3>. QED
      BY <2>4, <3>2, <3>4, <3>5
  <2>6. OK(n)
    <3>. HIDE DEF OK, n
    <3>. QED
      BY <1>0, <2>5
  <2>. QED
    BY <2>1, <2>6
<1>2. From(s, 1) = s
  <2>. HIDE DEF s
  <2>1. SubSeq(s, 1, Len(s)) = s
    BY <1>0
  <2>. QED
    BY <2>1 DEF From
<1>3. ClassAt(s) = 0
  <2>. HIDE DEF s
  <2>1. s[1] \notin {"class", "struct", "template"}
    BY <1>0
  <2>. DEFINE P == {p \in DOMAIN s :
                      /\ p < Len(s) /\ s[p] \in {"class", "struct"} /\ Word(s[p + 1])
                      /\ \/ p = 1
                         \/ /\ p > 3 /\ s[1] = "template" /\ s[2] = "<" /\ s[p - 1] = ">"
                            /\ \A i \in 3..p - 2 : Word(s[i]) \/ s[i] \in {"<", ">", ",", ":", "::"}}
  <2>2. ClassAt(s) = IF P = {} THEN 0 ELSE CHOOSE p \in P : \A j \in P : p >= j
    BY DEF ClassAt
  <2>3. P = {}
    BY <2>1
  <2>. QED
    BY <2>2, <2>3
<1>4. x \o <<>> = x
  <2>. DEFINE S == ToSet(x)
  <2>1. x \in Seq(S)
    BY DEF IsList
  <2>. HIDE DEF S
  <2>. QED
    BY <2>1
<1>5. none.blocks = <<>> /\ none.at = 1
  OBVIOUS
<1>6. ClassHead(x, clean, l, 1) = [stack |-> x, from |-> 1]
  <2>1. ClassAt(From(clean.elided[l], 1)) = 0
    BY <1>2, <1>3
  <2>. QED
    BY <2>1, Zenon DEF ClassHead
<1>7. Heads(x, clean, l) = ClassHead(x \o none.blocks, clean, l, none.at)
  BY <1>1 DEF Heads
<1>. HIDE DEF none
<1>. QED
  BY <1>4, <1>5, <1>6, <1>7

\* has no label and no brace: the stack stays as it was.
LEMMA EndifKeeps ==
  ASSUME NEW T, NEW clean, NEW l, clean.elided[l] \in Seq(T), EndifLine(clean.elided[l]),
         NEW x, NEW y, Alike(x, y)
  PROVE  Alike(LineStack(x, clean, l), y)
<1>. DEFINE s == clean.elided[l]
            p == CountParens(x, s)
            heads == Heads(p, clean, l)
            none == <<>>
            u == [stack |-> p, errors |-> none]
            n == Len(s)
<1>1. Alike(p, y)
  BY EndifParens
<1>2. heads = [stack |-> p, from |-> 1]
  <2>. HIDE DEF p
  <2>. QED
    BY <1>1, EndifHeads DEF Alike
<1>3. n \in Nat /\ s \in Seq(T) /\ DOMAIN s = 1 .. n /\ \A i \in 1 .. n : s[i] \notin {"(", ")", "{", "}", ";", ":"}
  BY EndifIs
<1>4. UpdateAccess(p, clean, l, 1) = u
  <2>1. AccessLabel(s, 1) = 0
    <3>. HIDE DEF s
    <3>. DEFINE A == {q \in 1 .. Len(s) - 1 : /\ s[q] \in {"public", "private", "protected", "signals"}
                                              /\ s[q + 1] = ":"}
    <3>1. AccessLabel(s, 1) = IF A = {} THEN 0 ELSE CHOOSE q \in A : \A j \in A : q >= j
      BY DEF AccessLabel
    <3>2. ASSUME NEW q \in 1 .. Len(s) - 1 PROVE s[q + 1] # ":"
      <4>. DEFINE m == Len(s)
      <4>2. m \in Nat /\ q \in 1 .. m - 1
        BY <1>3
      <4>. HIDE DEF m
      <4>1. q + 1 \in 1 .. m
        BY ONLY <4>2
      <4>. QED
        BY <1>3, <4>1 DEF m
    <3>3. A = {}
      BY <3>2
    <3>. QED
      BY <3>1, <3>3
  <2>2. AccessLabel(clean.elided[l], 1) = 0
    BY <2>1
  <2>. HIDE DEF p
  <2>. QED
    BY <2>2, Zenon DEF UpdateAccess
<1>5. PICK g : /\ g[0] = u
               /\ \A i \in 1 .. n : g[i] = BraceTurn(g[i - 1], clean, l, i, 1)
               /\ Braces(u, clean, l, 1) = g[n]
  <2>. HIDE DEF u
  <2>. QED
    BY BracesTurns
<1>6. ASSUME NEW i \in 1 .. n, NEW z PROVE BraceTurn(z, clean, l, i, 1) = z
  <2>1. clean.elided[l][i] \notin {"{", "}", ";", ")"}
    BY <1>3
  <2>. QED
    BY <2>1 DEF BraceTurn, Brace
<1>7. g[n] = u
  <2>1. n \in Nat
    BY <1>3
  <2>. HIDE DEF u, s
  <2>. DEFINE OK(i) == g[i] = u
              Bad == {i \in 0 .. n : ~OK(i)}
  <2>3. OK(0)
    BY <1>5
  <2>4. ASSUME NEW i \in 1 .. n, OK(i - 1) PROVE OK(i)
    BY <1>5, <1>6, <2>4
  <2>5. ASSUME Bad # {} PROVE FALSE
    <3>. HIDE DEF OK, n
    <3>1. Bad \in SUBSET Nat
      OBVIOUS
    <3>2. PICK k \in Bad : \A j \in Bad : k <= j
      BY <2>5, <3>1, LeastExists
    <3>3. k # 0 /\ k \in 0 .. n
      BY <2>3, <3>2
    <3>4. k \in 1 .. n /\ k - 1 \in 0 .. n /\ ~(k <= k - 1)
      BY <2>1, <3>3
    <3>5. OK(k - 1)
      BY <3>2, <3>4
    <3>. QED
      BY <2>4, <3>2, <3>4, <3>5
  <2>6. OK(n)
    <3>. HIDE DEF OK, n
    <3>. QED
      BY <2>1, <2>5
  <2>. QED
    BY <2>6
<1>8. LineStack(x, clean, l) = p
  <2>. HIDE DEF p
  <2>1. heads.stack = p /\ heads.from = 1
    BY <1>2
  <2>2. LineStack(x, clean, l) = Braces(UpdateAccess(heads.stack, clean, l, heads.from), clean, l, heads.from).stack
    BY DEF LineStack, Tails, p
  <2>. HIDE DEF heads
  <2>3. LineStack(x, clean, l) = u.stack
    BY <1>4, <1>5, <1>7, <2>1, <2>2
  <2>. QED
    BY <2>3
<1>. QED
  BY <1>1, <1>8

\* Outside of all alternatives the stack is the one of the first branches;
\* inside, the outermost conditional that has come to one keeps it.
Clear(open) == \A j \in 1 .. Len(open) : open[j] = FALSE
Outermost(open, k) == open[k] = TRUE /\ \A j \in 1 .. k - 1 : open[j] = FALSE
Traced(x, p, open, stack) ==
  /\ IsList(p) /\ IsList(open) /\ Len(p) = Len(open)
  /\ \A j \in 1 .. Len(open) : open[j] \in BOOLEAN /\ p[j].seen = open[j]
  /\ Clear(open) => Alike(x, stack)
  /\ \A k \in 1 .. Len(open) : Outermost(open, k) => Alike(p[k].saved, stack)

\* An #if opens a first branch,
LEMMA TracedMore ==
  ASSUME NEW x, NEW p, NEW open, NEW stack, Traced(x, p, open, stack), NEW e, e.seen = FALSE
  PROVE  Traced(x, Append(p, e), Append(open, FALSE), stack)
<1>. DEFINE n == Len(open)
            no == FALSE
            q == Append(p, e)
            o == Append(open, no)
<1>1. IsList(p) /\ IsList(open) /\ Len(p) = n
  BY DEF Traced
<1>2. IsList(q) /\ IsList(o)
  BY <1>1, ListSteps
<1>. HIDE DEF no
<1>3. /\ n \in Nat /\ Len(q) = n + 1 /\ q[n + 1] = e /\ \A j \in 1 .. n : q[j] = p[j]
      /\ Len(o) = n + 1 /\ o[n + 1] = no /\ \A j \in 1 .. n : o[j] = open[j]
  BY <1>1, ListEnds
<1>. HIDE DEF q, o, n
<1>4. /\ \A j \in 1 .. n : open[j] \in BOOLEAN /\ p[j].seen = open[j]
      /\ Clear(open) => Alike(x, stack)
      /\ \A k \in 1 .. n : Outermost(open, k) => Alike(p[k].saved, stack)
  BY DEF Traced, n
<1>5. \A j \in 1 .. n + 1 : j \in 1 .. n \/ j = n + 1
  BY <1>3
<1>6. \A j \in 1 .. n : j \in 1 .. n + 1 /\ \A i \in 1 .. j - 1 : i \in 1 .. n
  BY <1>3
<1>7. \A j \in 1 .. n + 1 : o[j] \in BOOLEAN /\ q[j].seen = o[j]
  BY <1>3, <1>4, <1>5 DEF no
<1>8. Clear(o) => Alike(x, stack)
  <2>1. Clear(o) => Clear(open)
    BY <1>3, <1>6 DEF Clear, n
  <2>. QED
    BY <1>4, <2>1
<1>9. ASSUME NEW k \in 1 .. n + 1, Outermost(o, k) PROVE Alike(q[k].saved, stack)
  <2>1. k \in 1 .. n
    BY <1>3, <1>5, <1>9 DEF Outermost, no
  <2>2. Outermost(open, k)
    BY <1>3, <1>6, <1>9, <2>1 DEF Outermost
  <2>. QED
    BY <1>3, <1>4, <2>1, <2>2
<1>10. Traced(x, q, o, stack)
  BY <1>2, <1>3, <1>7, <1>8, <1>9 DEF Traced
<1>. QED
  BY <1>10 DEF q, o, no

\* an alternative ends one: the stack is kept if it was the first,
LEMMA TracedOther ==
  ASSUME NEW x, NEW p, NEW open, NEW stack, Traced(x, p, open, stack), open # <<>>,
         NEW y, NEW q, IsList(q), Len(q) = Len(p), \A j \in 1 .. Len(p) - 1 : q[j] = p[j],
         q[Len(p)].seen = TRUE,
         \/ Last(p).seen = TRUE /\ q[Len(p)] = p[Len(p)]
         \/ Last(p).seen = FALSE /\ q[Len(p)].saved = x
  PROVE  Traced(y, q, OnTop(open, TRUE), stack)
<1>. DEFINE n == Len(open)
            yes == TRUE
            o == OnTop(open, yes)
<1>1. IsList(p) /\ IsList(open) /\ Len(p) = n
  BY DEF Traced
<1>2. IsList(o)
  BY <1>1, ListSteps
<1>. HIDE DEF yes
<1>3. /\ n \in Nat /\ n >= 1
      /\ Len(o) = n /\ o[n] = yes /\ \A j \in 1 .. n - 1 : o[j] = open[j]
  BY <1>1, ListEnds
<1>4. Last(p) = p[n]
  <2>1. p # <<>>
    <3>1. Len(p) = n /\ n >= 1
      BY <1>1, <1>3
    <3>2. Len(<<>>) = 0
      OBVIOUS
    <3>. HIDE DEF n
    <3>. QED
      BY <3>1, <3>2
  <2>. QED
    BY <1>1, <2>1, ListEnds
<1>. HIDE DEF o, n
<1>5. /\ \A j \in 1 .. n : open[j] \in BOOLEAN /\ p[j].seen = open[j]
      /\ Clear(open) => Alike(x, stack)
      /\ \A k \in 1 .. n : Outermost(open, k) => Alike(p[k].saved, stack)
  BY DEF Traced, n
<1>6. /\ n \in 1 .. n /\ (\A j \in 1 .. n : j \in 1 .. n - 1 \/ j = n)
      /\ \A j \in 1 .. n - 1 : j \in 1 .. n /\ \A i \in 1 .. j - 1 : i \in 1 .. n - 1
  BY <1>3
<1>7. \A j \in 1 .. n - 1 : q[j] = p[j]
  BY <1>1
<1>8. q[n].seen = TRUE
  BY <1>1
<1>9. \A j \in 1 .. n : o[j] \in BOOLEAN /\ q[j].seen = o[j]
  BY <1>3, <1>5, <1>6, <1>7, <1>8 DEF yes
<1>10. ~Clear(o)
  BY <1>3, <1>6 DEF Clear, yes
<1>11. ASSUME NEW k \in 1 .. n, Outermost(o, k) PROVE Alike(q[k].saved, stack)
  <2>1. CASE k \in 1 .. n - 1
    <3>1. Outermost(open, k)
      BY <1>3, <1>6, <1>11, <2>1 DEF Outermost
    <3>. QED
      BY <1>5, <1>7, <2>1, <3>1
  <2>2. CASE k = n
    <3>1. \A j \in 1 .. n - 1 : open[j] = FALSE
      BY <1>3, <1>11, <2>2 DEF Outermost
    <3>2. CASE Last(p).seen = TRUE /\ q[Len(p)] = p[Len(p)]
      <4>1. Outermost(open, n)
        BY <1>4, <1>5, <1>6, <3>1, <3>2 DEF Outermost
      <4>. QED
        BY <1>1, <1>5, <1>6, <2>2, <3>2, <4>1
    <3>3. CASE Last(p).seen = FALSE /\ q[Len(p)].saved = x
      <4>1. Clear(open)
        BY <1>4, <1>5, <1>6, <3>1, <3>3 DEF Clear, n
      <4>. QED
        BY <1>1, <1>5, <2>2, <3>3, <4>1
    <3>. QED
      BY <3>2, <3>3
  <2>. QED
    BY <1>6, <2>1, <2>2
<1>12. Traced(y, q, o, stack)
  BY <1>1, <1>2, <1>3, <1>9, <1>10, <1>11 DEF Traced
<1>. QED
  BY <1>12 DEF o, yes

\* and an #endif takes it back, if there was one.
LEMMA TracedLess ==
  ASSUME NEW x, NEW p, NEW open, NEW stack, Traced(x, p, open, stack), open # <<>>,
         NEW y, y = IF Last(p).seen THEN Last(p).saved ELSE x
  PROVE  Traced(y, Front(p), Front(open), stack)
<1>. DEFINE n == Len(open)
            q == Front(p)
            o == Front(open)
<1>1. IsList(p) /\ IsList(open) /\ Len(p) = n
  BY DEF Traced
<1>3. n \in Nat /\ n >= 1
  BY <1>1, ListEnds
<1>4. p # <<>>
  <2>1. Len(p) = n /\ n >= 1
    BY <1>1, <1>3
  <2>2. Len(<<>>) = 0
    OBVIOUS
  <2>. HIDE DEF n
  <2>. QED
    BY <2>1, <2>2
<1>2. IsList(o) /\ IsList(q)
  BY <1>1, <1>4, ListSteps
<1>7. /\ Last(p) = p[n]
      /\ Len(q) = n - 1 /\ \A j \in 1 .. n - 1 : q[j] = p[j]
      /\ Len(o) = n - 1 /\ \A j \in 1 .. n - 1 : o[j] = open[j]
  <2>1. Last(p) = p[Len(p)]
    BY <1>1, <1>4, ListEnds
  <2>2. Len(q) = Len(p) - 1 /\ \A j \in 1 .. Len(p) - 1 : q[j] = p[j]
    BY <1>1, <1>4, FrontIs
  <2>3. Len(o) = n - 1 /\ \A j \in 1 .. n - 1 : o[j] = open[j]
    BY <1>1, FrontIs
  <2>. QED
    BY <1>1, <2>1, <2>2, <2>3
<1>. HIDE DEF q, o, n
<1>5. /\ \A j \in 1 .. n : open[j] \in BOOLEAN /\ p[j].seen = open[j]
      /\ Clear(open) => Alike(x, stack)
      /\ \A k \in 1 .. n : Outermost(open, k) => Alike(p[k].saved, stack)
  BY DEF Traced, n
<1>6. /\ n \in 1 .. n /\ (\A j \in 1 .. n : j \in 1 .. n - 1 \/ j = n)
      /\ \A j \in 1 .. n - 1 : j \in 1 .. n /\ \A i \in 1 .. j - 1 : i \in 1 .. n - 1
  BY <1>3
<1>8. \A j \in 1 .. n - 1 : o[j] \in BOOLEAN /\ q[j].seen = o[j]
  BY <1>5, <1>6, <1>7
<1>9. Clear(o) => Alike(y, stack)
  <2>1. ASSUME Clear(o) PROVE \A j \in 1 .. n - 1 : open[j] = FALSE
    BY <1>7, <2>1 DEF Clear
  <2>2. CASE open[n] = TRUE
    <3>1. Clear(o) => Outermost(open, n)
      BY <2>1, <2>2 DEF Outermost
    <3>2. y = p[n].saved
      BY <1>5, <1>6, <1>7, <2>2
    <3>. QED
      BY <1>5, <1>6, <3>1, <3>2
  <2>3. CASE open[n] = FALSE
    <3>1. Clear(o) => Clear(open)
      BY <1>6, <2>1, <2>3 DEF Clear, n
    <3>2. y = x
      BY <1>5, <1>6, <1>7, <2>3
    <3>. QED
      BY <1>5, <3>1, <3>2
  <2>. QED
    BY <1>5, <1>6, <2>2, <2>3
<1>10. ASSUME NEW k \in 1 .. n - 1, Outermost(o, k) PROVE Alike(q[k].saved, stack)
  <2>1. Outermost(open, k)
    BY <1>6, <1>7, <1>10 DEF Outermost
  <2>. QED
    BY <1>5, <1>6, <1>7, <2>1
<1>11. Traced(y, q, o, stack)
  BY <1>2, <1>7, <1>8, <1>9, <1>10 DEF Traced
<1>. QED
  BY <1>11 DEF q, o

LEMMA TracedPreprocessor ==
  ASSUME NEW nest, Nesting(nest), NEW open, NEW stack, Traced(nest.stack, nest.pp, open, stack), NEW s
  PROVE  LET w == UpdatePreprocessor(nest, s)
         IN  Traced(w.stack, w.pp, OpenTurn(open, Directive(s)), stack)
<1>. DEFINE x == nest.stack
            p == nest.pp
            d == Directive(s)
            top == Last(p)
            w == UpdatePreprocessor(nest, s)
            no == FALSE
            yes == TRUE
            new == [before |-> x, saved |-> <<>>, seen |-> no]
            alt == [top EXCEPT !.seen = yes, !.saved = x]
            o == OpenTurn(open, d)
<1>0. nest = [stack |-> x, top |-> nest.top, pp |-> p] /\ IsList(p) /\ IsList(open) /\ Len(p) = Len(open)
      /\ \A e \in ToSet(p) : e = [before |-> e.before, saved |-> e.saved, seen |-> e.seen]
  BY DEF Nesting, Traced
<1>1. w = CASE d \in Conditional -> [nest EXCEPT !.pp = Append(p, new)]
            [] d \in Alternative /\ p # <<>> ->
                 [nest EXCEPT !.stack = top.before, !.pp = IF top.seen THEN p ELSE OnTop(p, alt)]
            [] d = "#endif" /\ p # <<>> ->
                 [nest EXCEPT !.stack = IF top.seen THEN top.saved ELSE x, !.pp = Front(p)]
            [] OTHER -> nest
  BY DEF UpdatePreprocessor
<1>12. /\ d \in Conditional => w = [nest EXCEPT !.pp = Append(p, new)]
       /\ d \in Alternative /\ p # <<>> =>
            w = [nest EXCEPT !.stack = top.before, !.pp = IF top.seen THEN p ELSE OnTop(p, alt)]
       /\ d = "#endif" /\ p # <<>> =>
            w = [nest EXCEPT !.stack = IF top.seen THEN top.saved ELSE x, !.pp = Front(p)]
       /\ \/ d \in Conditional
          \/ d \in Alternative /\ p # <<>>
          \/ d = "#endif" /\ p # <<>>
          \/ w = nest
  <2>. HIDE DEF d, w, p, x, new, alt, top
  <2>1. d \in Conditional => w = [nest EXCEPT !.pp = Append(p, new)]
    BY <1>1 DEF Conditional, Alternative
  <2>2. d \in Alternative /\ p # <<>> =>
          w = [nest EXCEPT !.stack = top.before, !.pp = IF top.seen THEN p ELSE OnTop(p, alt)]
    BY <1>1 DEF Conditional, Alternative
  <2>3. d = "#endif" /\ p # <<>> =>
          w = [nest EXCEPT !.stack = IF top.seen THEN top.saved ELSE x, !.pp = Front(p)]
    BY <1>1 DEF Conditional, Alternative
  <2>4. \/ d \in Conditional
        \/ d \in Alternative /\ p # <<>>
        \/ d = "#endif" /\ p # <<>>
        \/ w = nest
    BY <1>1
  <2>. QED
    BY <2>1, <2>2, <2>3, <2>4
<1>2. p = <<>> <=> open = <<>>
  <2>. DEFINE S == ToSet(p)
              T == ToSet(open)
  <2>1. p \in Seq(S) /\ open \in Seq(T) /\ Len(p) = Len(open)
    BY <1>0 DEF IsList
  <2>. HIDE DEF S, T, p
  <2>. QED
    BY <2>1
<1>3. Traced(x, p, open, stack)
  OBVIOUS
<1>4. new.seen = FALSE
  OBVIOUS
<1>5. ASSUME p # <<>>
      PROVE  /\ top.seen \in BOOLEAN /\ top = p[Len(p)] /\ Len(p) \in Nat
             /\ alt.seen = TRUE /\ alt.saved = x
  <2>1. top \in ToSet(p) /\ top = p[Len(p)] /\ Len(p) \in Nat /\ Len(p) >= 1
    BY <1>0, <1>5, TopOf, ListEnds
  <2>2. top.seen \in BOOLEAN
    <3>1. Len(p) \in 1 .. Len(open)
      BY <1>0, <2>1
    <3>. QED
      BY <2>1, <3>1 DEF Traced
  <2>3. top = [before |-> top.before, saved |-> top.saved, seen |-> top.seen]
    BY <1>0, <2>1
  <2>4. alt.seen = TRUE /\ alt.saved = x
    <3>. HIDE DEF top
    <3>1. PICK a, b, c : top = [before |-> a, saved |-> b, seen |-> c]
      BY <2>3
    <3>. DEFINE w1 == alt
    <3>2. w1 = [top EXCEPT !.seen = yes, !.saved = x]
      OBVIOUS
    <3>. HIDE DEF yes, w1, alt, x
    <3>3. w1 = [before |-> a, saved |-> x, seen |-> yes]
      BY <3>1, <3>2
    <3>4. w1.seen = yes /\ w1.saved = x
      BY <3>3
    <3>. QED
      BY <3>4 DEF w1, yes
  <2>. HIDE DEF alt
  <2>. QED
    BY <2>1, <2>2, <2>4
<1>. HIDE DEF new, alt
<1>6. SUFFICES Traced(w.stack, w.pp, o, stack)
  OBVIOUS
<1>. HIDE DEF w, o, d
<1>7. ASSUME NEW a, NEW b, Traced(a, b, o, stack), w = [nest EXCEPT !.stack = a, !.pp = b]
      PROVE  Traced(w.stack, w.pp, o, stack)
  <2>. HIDE DEF x, p
  <2>1. w = [stack |-> a, top |-> nest.top, pp |-> b]
    BY <1>0, <1>7
  <2>. QED
    BY <1>7, <2>1
<1>8. CASE d \in Conditional
  <2>1. w = [nest EXCEPT !.pp = Append(p, new)]
    BY <1>8, <1>12
  <2>2. o = Append(open, FALSE)
    BY <1>8, OpenTurnIs DEF o
  <2>3. Traced(x, Append(p, new), o, stack)
    BY <1>3, <1>4, <2>2, TracedMore
  <2>4. [nest EXCEPT !.pp = Append(p, new)] = [nest EXCEPT !.stack = x, !.pp = Append(p, new)]
    BY <1>0
  <2>. QED
    BY <1>7, <2>1, <2>3, <2>4
<1>9. CASE d \in Alternative /\ p # <<>>
  <2>. DEFINE q == IF top.seen THEN p ELSE OnTop(p, alt)
              y == top.before
  <2>2. w = [nest EXCEPT !.stack = y, !.pp = q]
    BY <1>9, <1>12
  <2>3. o = OnTop(open, TRUE)
    BY <1>2, <1>9, OpenTurnIs DEF o
  <2>4. /\ IsList(q) /\ Len(q) = Len(p) /\ \A j \in 1 .. Len(p) - 1 : q[j] = p[j]
        /\ q[Len(p)].seen = TRUE
        /\ \/ top.seen = TRUE /\ q[Len(p)] = p[Len(p)]
           \/ top.seen = FALSE /\ q[Len(p)].saved = x
    <3>. HIDE DEF top
    <3>1. CASE top.seen = TRUE
      BY <1>0, <1>5, <1>9, <3>1
    <3>2. CASE top.seen = FALSE
      <4>. DEFINE r == OnTop(p, alt)
      <4>1. q = r
        BY <3>2
      <4>2. IsList(r) /\ Len(r) = Len(p) /\ (\A j \in 1 .. Len(p) - 1 : r[j] = p[j]) /\ r[Len(p)] = alt
        BY <1>0, <1>9, ListSteps, ListEnds
      <4>. HIDE DEF q, r
      <4>. QED
        BY <1>5, <1>9, <3>2, <4>1, <4>2
    <3>. QED
      BY <1>5, <1>9, <3>1, <3>2
  <2>. HIDE DEF q, y
  <2>5. Traced(y, q, OnTop(open, TRUE), stack)
    <3>. HIDE DEF x, p
    <3>1. open # <<>> /\ Traced(x, p, open, stack)
      BY <1>2, <1>3, <1>9
    <3>. QED
      BY <2>4, <3>1, TracedOther DEF top
  <2>. QED
    BY <1>7, <2>2, <2>3, <2>5
<1>10. CASE d = "#endif" /\ p # <<>>
  <2>. DEFINE q == Front(p)
              y == IF top.seen THEN top.saved ELSE x
  <2>2. w = [nest EXCEPT !.stack = y, !.pp = q]
    BY <1>10, <1>12
  <2>3. o = Front(open)
    BY <1>2, <1>10, OpenTurnIs DEF o
  <2>4. Traced(y, q, Front(open), stack)
    <3>. HIDE DEF x, p
    <3>. QED
      BY <1>2, <1>3, <1>10, TracedLess DEF top
  <2>. HIDE DEF q, y
  <2>. QED
    BY <1>7, <2>2, <2>3, <2>4
<1>11. CASE ~(d \in Conditional) /\ ~(d \in Alternative /\ p # <<>>) /\ ~(d = "#endif" /\ p # <<>>)
  <2>1. w = nest
    BY <1>11, <1>12
  <2>2. o = open
    BY <1>2, <1>11, OpenTurnIs DEF o
  <2>. QED
    BY <1>3, <2>1, <2>2
<1>. QED
  BY <1>8, <1>9, <1>10, <1>11

\* A line of a first branch does to both stacks the same, another one
\* changes only the program's.
LEMMA TracedLine ==
  ASSUME NEW nest, Nesting(nest), NEW open, NEW stack, Traced(nest.stack, nest.pp, open, stack),
         NEW T, NEW clean, NEW l, clean.elided[l] \in Seq(T),
         Directive(clean.elided[l]) = "#endif" => EndifLine(clean.elided[l])
  PROVE  LET w == Update(nest, clean, l).nest
             d == Directive(clean.elided[l])
             o == OpenTurn(open, d)
         IN  Traced(w.stack, w.pp, o,
                    IF d # "#endif" /\ Clear(o) THEN LineStack(stack, clean, l) ELSE stack)
<1>. DEFINE s == clean.elided[l]
            d == Directive(s)
            o == OpenTurn(open, d)
            q == UpdatePreprocessor(nest, s)
            w == Update(nest, clean, l).nest
            x == LineStack(q.stack, clean, l)
            other == LineStack(stack, clean, l)
            now == IF d # "#endif" /\ Clear(o) THEN other ELSE stack
<1>1. w.stack = x /\ w.pp = q.pp
  <2>. DEFINE u == Tails(Heads(CountParens(q.stack, s), clean, l), clean, l)
  <2>1. PICK top : Update(nest, clean, l) = Updated(u, top, q.pp)
    BY Zenon DEF Update
  <2>. HIDE DEF u, q
  <2>2. w.stack = u.stack /\ w.pp = q.pp
    BY <2>1 DEF Updated
  <2>. QED
    BY <2>2 DEF u, LineStack
<1>2. Traced(q.stack, q.pp, o, stack)
  BY TracedPreprocessor
<1>3. Clear(o) => Alike(q.stack, stack)
  BY <1>2 DEF Traced
<1>4. Alike(q.stack, stack) => Alike(x, other)
  <2>. HIDE DEF q
  <2>. QED
    BY AlikeLine
<1>5. d = "#endif" /\ Alike(q.stack, stack) => Alike(x, stack)
  <2>. HIDE DEF q
  <2>. QED
    BY EndifKeeps
<1>6. Clear(o) => Alike(x, now)
  BY <1>3, <1>4, <1>5
<1>7. ~Clear(o) => now = stack
  OBVIOUS
<1>8. \A k \in 1 .. Len(o) : Outermost(o, k) => ~Clear(o)
  BY DEF Outermost, Clear
<1>. HIDE DEF now, x, o
<1>9. Traced(x, q.pp, o, now)
  BY <1>2, <1>6, <1>7, <1>8 DEF Traced
<1>. QED
  BY <1>1, <1>9 DEF now, o

\* The stack of the first branches is read line by line.
InFirstBranch(clean, i) ==
  Directive(clean.elided[i]) # "#endif" /\ TRUE \notin ToSet(OpenConditionals(clean.elided)[i])
StackTurn(x, clean, i) ==
  IF ~InFirstBranch(clean, i) THEN x
  ELSE Update([NestingState EXCEPT !.stack = x], clean, i).nest.stack
StackUpto(h, n, clean) == h = [i \in 0 .. n |-> IF i = 0 THEN <<>> ELSE StackTurn(h[i - 1], clean, i)]

LEMMA StackExists ==
  ASSUME NEW n \in Nat, NEW clean
  PROVE  \E h : StackUpto(h, n, clean)
<1>. DEFINE OK(m) == \E h : StackUpto(h, m, clean)
            Bad == {m \in 0 .. n : ~OK(m)}
<1>1. OK(0)
  <2>. DEFINE h == [i \in 0 .. 0 |-> <<>>]
  <2>1. \A i \in 0 .. 0 : i = 0
    OBVIOUS
  <2>2. StackUpto(h, 0, clean)
    BY <2>1 DEF StackUpto
  <2>. QED
    BY <2>2
<1>2. ASSUME NEW m \in 1 .. n, OK(m - 1) PROVE OK(m)
  <2>1. PICK g : StackUpto(g, m - 1, clean)
    BY <1>2
  <2>. DEFINE x == StackTurn(g[m - 1], clean, m)
              h == [i \in 0 .. m |-> IF i = m THEN x ELSE g[i]]
  <2>2. /\ m \in 0 .. m /\ 0 \in 0 .. m /\ m # 0 /\ m - 1 \in 0 .. m /\ m - 1 # m
        /\ \A i \in 0 .. m : i # m => i \in 0 .. m - 1
        /\ \A i \in 0 .. m : i # 0 => i - 1 \in 0 .. m /\ i - 1 # m
    OBVIOUS
  <2>3. \A i \in 0 .. m - 1 : g[i] = IF i = 0 THEN <<>> ELSE StackTurn(g[i - 1], clean, i)
    BY <2>1 DEF StackUpto
  <2>. HIDE DEF x
  <2>4. \A i \in 0 .. m : h[i] = IF i = 0 THEN <<>> ELSE StackTurn(h[i - 1], clean, i)
    <3>1. ASSUME NEW i \in 0 .. m, i = m
          PROVE  h[i] = IF i = 0 THEN <<>> ELSE StackTurn(h[i - 1], clean, i)
      <4>1. h[i] = x /\ h[m - 1] = g[m - 1]
        BY <2>2, <3>1
      <4>. QED
        BY <2>2, <3>1, <4>1 DEF x
    <3>2. ASSUME NEW i \in 0 .. m, i # m
          PROVE  h[i] = IF i = 0 THEN <<>> ELSE StackTurn(h[i - 1], clean, i)
      <4>1. h[i] = g[i] /\ i \in 0 .. m - 1
        BY <2>2, <3>2
      <4>2. i # 0 => h[i - 1] = g[i - 1]
        BY <2>2
      <4>. QED
        BY <2>3, <4>1, <4>2
    <3>. QED
      BY <3>1, <3>2
  <2>5. h = [i \in 0 .. m |-> h[i]]
    OBVIOUS
  <2>. HIDE DEF h
  <2>6. StackUpto(h, m, clean)
    BY <2>4, <2>5 DEF StackUpto
  <2>. QED
    BY <2>6
<1>3. ASSUME Bad # {} PROVE FALSE
  <2>. HIDE DEF OK
  <2>1. Bad \in SUBSET Nat
    OBVIOUS
  <2>2. PICK k \in Bad : \A j \in Bad : k <= j
    BY <1>3, <2>1, LeastExists
  <2>3. k # 0 /\ k \in 0 .. n
    BY <1>1, <2>2
  <2>4. k \in 1 .. n /\ k - 1 \in 0 .. n /\ ~(k <= k - 1)
    BY <2>3
  <2>5. OK(k - 1)
    BY <2>2, <2>4
  <2>. QED
    BY <1>2, <2>2, <2>4, <2>5
<1>4. n \in 0 .. n
  OBVIOUS
<1>5. OK(n)
  <2>. HIDE DEF OK
  <2>. QED
    BY <1>3, <1>4
<1>. QED
  BY <1>5

LEMMA StackSteps ==
  ASSUME NEW clean, NEW n \in Nat
  PROVE  \E g : /\ g[0] = <<>> /\ StackOf(clean, n) = g[n]
                /\ \A i \in 1 .. n : g[i] = StackTurn(g[i - 1], clean, i)
<1>. DEFINE g == CHOOSE h : h = [i \in 0 .. n |->
                   IF i = 0 THEN <<>>
                   ELSE IF ~(Directive(clean.elided[i]) # "#endif"
                             /\ TRUE \notin ToSet(OpenConditionals(clean.elided)[i]))
                   THEN h[i - 1]
                   ELSE Update([NestingState EXCEPT !.stack = h[i - 1]], clean, i).nest.stack]
<1>1. StackOf(clean, n) = g[n]
  BY DEF StackOf
<1>2. StackUpto(g, n, clean)
  <2>1. \E h : StackUpto(h, n, clean)
    BY StackExists
  <2>. QED
    BY ONLY <2>1 DEF StackUpto, StackTurn, InFirstBranch
<1>. HIDE DEF g
<1>3. g[0] = <<>> /\ \A i \in 1 .. n : g[i] = StackTurn(g[i - 1], clean, i)
  <2>1. 0 \in 0 .. n /\ \A k \in 1 .. n : k \in 0 .. n /\ k # 0
    OBVIOUS
  <2>. QED
    BY <1>2, <2>1 DEF StackUpto
<1>. QED
  BY <1>1, <1>3

LEMMA StackOfIs ==
  ASSUME NEW clean
  PROVE  /\ StackOf(clean, 0) = <<>>
         /\ \A l \in Nat \ {0} : StackOf(clean, l) = StackTurn(StackOf(clean, l - 1), clean, l)
<1>1. StackOf(clean, 0) = <<>>
  BY StackSteps
<1>2. ASSUME NEW l \in Nat \ {0} PROVE StackOf(clean, l) = StackTurn(StackOf(clean, l - 1), clean, l)
  <2>. DEFINE n == l - 1
  <2>1. n \in Nat /\ l = n + 1 /\ l \in Nat /\ l \in 1 .. l
    OBVIOUS
  <2>2. PICK g : /\ g[0] = <<>> /\ StackOf(clean, l) = g[l]
                 /\ \A i \in 1 .. l : g[i] = StackTurn(g[i - 1], clean, i)
    BY <2>1, StackSteps
  <2>. HIDE DEF n
  <2>3. PICK h : /\ h[0] = <<>> /\ StackOf(clean, n) = h[n]
                 /\ \A i \in 1 .. n : h[i] = StackTurn(h[i - 1], clean, i)
    BY <2>1, StackSteps
  <2>. DEFINE OK(i) == g[i] = h[i]
              Bad == {i \in 0 .. n : ~OK(i)}
  <2>4. OK(0)
    BY <2>2, <2>3
  <2>5. ASSUME NEW i \in 1 .. n, OK(i - 1) PROVE OK(i)
    <3>1. i \in 1 .. l
      BY <2>1
    <3>. QED
      BY <2>2, <2>3, <2>5, <3>1
  <2>6. ASSUME Bad # {} PROVE FALSE
    <3>. HIDE DEF OK
    <3>1. Bad \in SUBSET Nat
      OBVIOUS
    <3>2. PICK k \in Bad : \A j \in Bad : k <= j
      BY <2>6, <3>1, LeastExists
    <3>3. k # 0 /\ k \in 0 .. n
      BY <2>4, <3>2
    <3>4. k \in 1 .. n /\ k - 1 \in 0 .. n /\ ~(k <= k - 1)
      BY <2>1, <3>3
    <3>5. OK(k - 1)
      BY <3>2, <3>4
    <3>. QED
      BY <2>5, <3>2, <3>4, <3>5
  <2>7. OK(n)
    <3>. HIDE DEF OK
    <3>1. n \in 0 .. n
      BY <2>1
    <3>. QED
      BY <2>6, <3>1
  <2>8. g[l] = StackTurn(g[n], clean, l)
    BY <2>1, <2>2 DEF n
  <2>. QED
    BY <2>2, <2>3, <2>7, <2>8 DEF n
<1>. QED
  BY <1>1, <1>2

\* On a stack of its own, a line does what it does to any stack.
LEMMA LoneLine ==
  ASSUME NEW x, NEW clean, NEW l
  PROVE  Update([NestingState EXCEPT !.stack = x], clean, l).nest.stack = LineStack(x, clean, l)
<1>. DEFINE s == clean.elided[l]
            nest == [NestingState EXCEPT !.stack = x]
            q == UpdatePreprocessor(nest, s)
            u == Tails(Heads(CountParens(q.stack, s), clean, l), clean, l)
<1>1. nest.stack = x /\ nest.pp = <<>> /\ nest = [stack |-> x, top |-> NoTop, pp |-> <<>>]
  BY DEF NestingState
<1>2. q.stack = x
  <2>. HIDE DEF nest
  <2>1. \/ q = nest
        \/ \E p : q = [nest EXCEPT !.pp = p]
    BY <1>1 DEF UpdatePreprocessor
  <2>. QED
    BY <1>1, <2>1
<1>3. PICK top, p : Update(nest, clean, l) = Updated(u, top, p)
  BY Zenon DEF Update
<1>. HIDE DEF u, nest, q
<1>4. Update(nest, clean, l).nest.stack = u.stack
  BY <1>3 DEF Updated
<1>5. u.stack = LineStack(x, clean, l)
  BY <1>2 DEF u, LineStack
<1>. QED
  BY <1>4, <1>5 DEF nest

\* Every #endif so far stands alone.
Ended(clean, l) ==
  \A i \in 1 .. l : Directive(clean.elided[i]) = "#endif" => EndifLine(clean.elided[i])

BranchesAt(f) ==
  LET l == f.at - 1 IN
  Ended(f.clean, l) =>
    Traced(f.nest.stack, f.nest.pp, OpenConditionals(f.clean.elided)[l], StackOf(f.clean, l))

LEMMA BranchesStart ==
  ASSUME NEW clean, Len(clean.elided) \in Nat
  PROVE  Traced(NestingState.stack, NestingState.pp, OpenConditionals(clean.elided)[0], StackOf(clean, 0))
<1>. DEFINE none == <<>>
<1>1. NestingState.stack = none /\ NestingState.pp = none
  BY DEF NestingState
<1>2. OpenConditionals(clean.elided)[0] = none /\ StackOf(clean, 0) = none
  BY OpenIs, StackOfIs
<1>3. IsList(none) /\ Alike(none, none) /\ 1 .. Len(none) = {}
  <2>1. none \in Seq({}) /\ Len(none) = 0
    OBVIOUS
  <2>2. IsList(none)
    BY <2>1, ListIs
  <2>3. Alike(none, none)
    BY AlikeIs
  <2>4. 1 .. Len(none) = {}
    BY <2>1
  <2>. QED
    BY <2>2, <2>3, <2>4
<1>. HIDE DEF none
<1>4. Traced(none, none, none, none)
  BY <1>3 DEF Traced
<1>. QED
  BY <1>1, <1>2, <1>4

LEMMA LineBranches ==
  ASSUME FileLines(disk.files[file.name].lines), AtLines, Nesting(file.nest), IsFile(file),
         ProcessLine, BranchesAt(file)
  PROVE  BranchesAt(file')
<1>. DEFINE l == file.at
            clean == file.clean
            E == clean.elided
            open == OpenConditionals(E)[l - 1]
            o == OpenConditionals(E)[l]
            stack == StackOf(clean, l - 1)
            d == Directive(E[l])
            w == Update(file.nest, clean, l).nest
            then == IF d # "#endif" /\ Clear(o) THEN LineStack(stack, clean, l) ELSE stack
<1>1. /\ clean.raw = Raw(file.name) /\ Len(Raw(file.name)) \in Nat
      /\ DOMAIN Raw(file.name) = 1 .. Len(Raw(file.name)) /\ Len(E) = Len(Raw(file.name))
      /\ \A i \in 1 .. Len(Raw(file.name)) : E[i] \in Seq(Tokens(file.name))
  BY RawIs, TextType DEF AtLines
<1>2. l \in 1 .. Len(E) /\ Len(E) \in Nat /\ E[l] \in Seq(Tokens(file.name))
  BY <1>1 DEF ProcessLine
<1>3. file'.clean = clean /\ file'.at = l + 1 /\ file'.nest = w
  <2>1. \/ file' = [file EXCEPT !.at = l + 1, !.nest = w]
        \/ \E y, z : file' = [file EXCEPT !.at = l + 1, !.nest = w, !.fn = y, !.inc = z]
    BY Zenon DEF ProcessLine
  <2>. HIDE DEF w
  <2>. QED
    BY <2>1 DEF IsFile
<1>4. l \in Nat /\ l >= 1 /\ (l + 1) - 1 = l /\ l \in 1 .. l /\ 1 .. l - 1 \subseteq 1 .. l /\ l \in Nat \ {0}
  BY <1>2
<1>5. SUFFICES ASSUME Ended(clean, l)
               PROVE  Traced(w.stack, w.pp, o, StackOf(clean, l))
  BY <1>3, <1>4 DEF BranchesAt
<1>6. Traced(file.nest.stack, file.nest.pp, open, stack)
  <2>1. Ended(clean, l - 1)
    BY <1>4, <1>5 DEF Ended
  <2>. QED
    BY <2>1 DEF BranchesAt
<1>7. d = "#endif" => EndifLine(E[l])
  BY <1>4, <1>5 DEF Ended
<1>8. o = OpenTurn(open, d)
  BY <1>2, OpenIs
<1>9. Traced(w.stack, w.pp, o, then)
  <2>. DEFINE nest == file.nest
  <2>1. Nesting(nest) /\ Traced(nest.stack, nest.pp, open, stack)
    BY <1>6
  <2>. HIDE DEF l, clean, nest, open, stack, o
  <2>2. LET v == Update(nest, clean, l).nest
            e == Directive(clean.elided[l])
            p == OpenTurn(open, e)
        IN  Traced(v.stack, v.pp, p, IF e # "#endif" /\ Clear(p) THEN LineStack(stack, clean, l) ELSE stack)
    BY <1>2, <1>7, <2>1, TracedLine
  <2>. QED
    BY <1>8, <2>2 DEF nest
<1>10. then = StackOf(clean, l)
  <2>1. StackOf(clean, l) = StackTurn(stack, clean, l)
    BY <1>4, StackOfIs
  <2>2. Clear(o) <=> TRUE \notin ToSet(o)
    <3>1. IsList(o) /\ \A j \in 1 .. Len(o) : o[j] \in BOOLEAN
      BY <1>9 DEF Traced
    <3>. HIDE DEF o
    <3>2. DOMAIN o = 1 .. Len(o)
      BY <3>1, ListEnds
    <3>3. \A j \in 1 .. Len(o) : o[j] \in ToSet(o)
      BY <3>2 DEF ToSet
    <3>4. \A b \in ToSet(o) : \E j \in 1 .. Len(o) : o[j] = b
      BY <3>2 DEF ToSet
    <3>5. Clear(o) => TRUE \notin ToSet(o)
      BY <3>4 DEF Clear
    <3>6. TRUE \notin ToSet(o) => Clear(o)
      BY <3>1, <3>3 DEF Clear
    <3>. QED
      BY <3>5, <3>6
  <2>3. InFirstBranch(clean, l) <=> d # "#endif" /\ Clear(o)
    <3>1. InFirstBranch(clean, l) <=> d # "#endif" /\ TRUE \notin ToSet(o)
      BY DEF InFirstBranch
    <3>. QED
      BY <2>2, <3>1
  <2>4. StackTurn(stack, clean, l) = IF InFirstBranch(clean, l) THEN LineStack(stack, clean, l) ELSE stack
    <3>. HIDE DEF stack, clean, l
    <3>. QED
      BY LoneLine DEF StackTurn
  <2>. HIDE DEF stack, o, d, l, clean
  <2>. QED
    BY <2>1, <2>3, <2>4
<1>. HIDE DEF then
<1>. QED
  BY <1>9, <1>10

\* While a file is gone through, its stack is traced.
BranchesInv ==
  /\ phase = "open" => file.nest = NestingState
  /\ phase = "lines" => BranchesAt(file)

LEMMA BranchesNext ==
  ASSUME FilesAgree, BranchesInv, Next
  PROVE  BranchesInv'
<1>0. InputOK /\ SettingsInv /\ FilterInv /\ ReportsInv
  BY DEF FilesAgree
<1>1. IsFile(file)
  BY <1>0 DEF FilterInv
<1>2. CASE phase' \notin {"open", "lines"}
  BY <1>2 DEF BranchesInv
<1>3. CASE Configure /\ phase' \in {"open", "lines"}
  <2>1. phase' = "open" /\ \E a, b : file' = [NoFile EXCEPT !.name = a, !.path = b]
    BY <1>3 DEF Configure, Exit
  <2>2. \A a, b : [NoFile EXCEPT !.name = a, !.path = b].nest = NestingState
    BY DEF NoFile
  <2>3. file'.nest = NestingState
    BY <2>1, <2>2
  <2>. QED
    BY <2>1, <2>3 DEF BranchesInv
<1>4. CASE OpenFile /\ phase' \in {"open", "lines"}
  <2>1. phase = "open" /\ phase' = "lines"
    BY <1>4 DEF OpenFile, Leave
  <2>2. \E clean : file' = [file EXCEPT !.clean = clean, !.at = 1]
    BY <1>4, <2>1 DEF OpenFile, Leave
  <2>3. file'.at = 1 /\ file'.nest = NestingState
    BY <1>1, <2>1, <2>2 DEF IsFile, BranchesInv
  <2>5. Len(file'.clean.elided) \in Nat
    <3>1. file.name \in DOMAIN disk.files /\ file' = [file EXCEPT !.clean = CleansedLines(Raw(file.name)), !.at = 1]
      BY <1>4, <2>1 DEF OpenFile, Leave, Raw, Marked
    <3>2. FileLines(disk.files[file.name].lines)
      BY <1>0, <3>1 DEF InputOK
    <3>3. file'.clean = CleansedLines(Raw(file.name))
      BY <1>1, <3>1 DEF IsFile
    <3>4. Len(CleansedLines(Raw(file.name)).elided) = Len(Raw(file.name)) /\ Len(Raw(file.name)) \in Nat
      BY <3>2, TextType, RawIs
    <3>. QED
      BY <3>3, <3>4
  <2>6. 1 - 1 = 0
    OBVIOUS
  <2>7. BranchesAt(file')
    BY <2>3, <2>5, <2>6, BranchesStart DEF BranchesAt
  <2>. QED
    BY <2>1, <2>7 DEF BranchesInv
<1>5. CASE ProcessLine
  <2>1. phase = "lines" /\ phase' = "lines"
    BY <1>5 DEF ProcessLine
  <2>2. FileLines(disk.files[file.name].lines) /\ AtLines /\ Nesting(file.nest)
    BY <1>0, <2>1 DEF InputOK, ReportsInv, AtLines
  <2>3. BranchesAt(file)
    BY <2>1 DEF BranchesInv
  <2>4. BranchesAt(file')
    BY <1>1, <1>5, <2>2, <2>3, LineBranches
  <2>. QED
    BY <2>1, <2>4 DEF BranchesInv
<1>6. ParseArguments \/ FinishFile \/ Finish => phase' \notin {"open", "lines"}
  BY DEF ParseArguments, FinishFile, Finish, Exit, Leave
<1>. QED
  BY <1>2, <1>3, <1>4, <1>5, <1>6 DEF Next

\* What the property compares of two stacks is the same of alike ones.
LEMMA AlikeSeen ==
  ASSUME NEW s, NEW t, Alike(s, t)
  PROVE  [i \in DOMAIN s |-> <<s[i].kind, s[i].name, s[i].start, s[i].seen, s[i].parens>>]
         = [i \in DOMAIN t |-> <<t[i].kind, t[i].name, t[i].start, t[i].seen, t[i].parens>>]
<1>1. IsList(s) /\ IsList(t) /\ Len(s) = Len(t) /\ \A j \in 1 .. Len(s) : Like(s[j], t[j])
  BY DEF Alike
<1>2. DOMAIN s = 1 .. Len(s) /\ DOMAIN t = 1 .. Len(s)
  BY <1>1, ListEnds
<1>3. \A j \in 1 .. Len(s) : /\ s[j].kind = t[j].kind /\ s[j].name = t[j].name /\ s[j].start = t[j].start
                             /\ s[j].seen = t[j].seen /\ s[j].parens = t[j].parens
  BY <1>1 DEF Like, Features
<1>. QED
  BY <1>2, <1>3

\* For every set of inputs, the blocks that the first branches of all
\* conditionals leave are the blocks on the stack once every conditional has
\* its #endif, however #else and #elif are nested and whatever blocks their
\* lines open and close (UpdatePreprocessor).
THEOREM ElseNeverLeavesATrace ==
  Spec => []ElseLeavesNoTrace
<1>1. Init => BranchesInv
  BY DEF Init, BranchesInv
<1>2. FilesAgree /\ BranchesInv /\ [Next]_vars => BranchesInv'
  <2>1. CASE UNCHANGED vars
    BY <2>1 DEF vars, BranchesInv
  <2>. QED
    BY <2>1, BranchesNext
<1>3. BranchesInv => ElseLeavesNoTrace
  <2>. DEFINE clean == file.clean
              l == file.at - 1
              stack == file.nest.stack
  <2>1. SUFFICES ASSUME BranchesInv, phase = "lines", file.nest.pp = <<>>, Ended(clean, l)
                 PROVE  [i \in DOMAIN stack |-> <<stack[i].kind, stack[i].name, stack[i].start,
                                                  stack[i].seen, stack[i].parens>>]
                        = LET other == StackOf(clean, l)
                          IN  [i \in DOMAIN other |-> <<other[i].kind, other[i].name, other[i].start,
                                                        other[i].seen, other[i].parens>>]
    BY DEF ElseLeavesNoTrace, Ended, EndifLine
  <2>2. Traced(stack, <<>>, OpenConditionals(clean.elided)[l], StackOf(clean, l))
    BY <2>1 DEF BranchesInv, BranchesAt
  <2>. DEFINE open == OpenConditionals(clean.elided)[l]
  <2>3. Len(open) = 0
    BY <2>2 DEF Traced
  <2>4. Clear(open)
    BY <2>3 DEF Clear
  <2>5. Alike(stack, StackOf(clean, l))
    BY <2>2, <2>4 DEF Traced
  <2>. QED
    BY <2>5, AlikeSeen
<1>. QED
  BY <1>1, <1>2, <1>3, FilesAlways, PTL DEF Spec
=============================================================================
