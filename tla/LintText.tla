------------------------------ MODULE LintText ------------------------------
(***************************************************************************)
(* The text of a file as cpplint.py prepares it: comments over several     *)
(* lines are blanked, raw strings and strings are collapsed to "", comments*)
(* are cut.                                                                *)
(*                                                                         *)
(* A line is a record: its tokens, the columns it is indented by, its      *)
(* width, the NOLINT in it and its faults: what the checks that look at one*)
(* line alone (casts, integer types, tabs, ...) find there.  The tokens    *)
(* stand apart, so that two of them never make a third; only a semicolon   *)
(* may follow without a blank, when its line is tight.  The tokens that    *)
(* open or close something are                                             *)
(*    q   "        bq  \"       R(  R"(        )q  )"                      *)
(*    //  /*  */                                                           *)
(* Character literals, digit separators, the delimiters of raw strings and *)
(* strings over several lines are left out.                                *)
(***************************************************************************)
EXTENDS Integers, Sequences, FiniteSets, SequencesExt

\* A line without anything of note.
Plain(toks) == [toks |-> toks, indent |-> 0, width |-> 1, nolint |-> "none",
                about |-> <<>>, faults |-> {}, bad |-> {}, cr |-> FALSE, tight |-> FALSE]

Toks(lines) == [i \in DOMAIN lines |-> lines[i].toks]

\* Where a token stands in a line, and the first place; 0 when nowhere.
Places(s, t) == {i \in DOMAIN s : s[i] = t}
First(S) == IF S = {} THEN 0 ELSE CHOOSE i \in S : \A j \in S : i <= j
Find(s, t) == First(Places(s, t))
From(s, i) == SubSeq(s, i, Len(s))

CountOf(s, T) == Cardinality({i \in DOMAIN s : s[i] \in T})

IncludeLine(s) == s # <<>> /\ Head(s) = "#include"

-----------------------------------------------------------------------------
(* Comments over several lines                                             *)

\* The next line that begins a comment and does not end one.
FindNextMultiLineCommentStart(lines, k) ==
    First({i \in k..Len(lines) : /\ lines[i] # <<>>
                                 /\ Head(lines[i]) = "/*"
                                 /\ Find(lines[i], "*/") = 0})

\* The next line whose end is the end of a comment.
FindNextMultiLineCommentEnd(lines, k) ==
    First({i \in k..Len(lines) : lines[i] # <<>> /\ Last(lines[i]) = "*/"})

\* The lines that are blanked, and the line of a comment without end, which
\* is reported one line late: 0 for none.
MultiLineComments(lines) ==
    LET From1[k \in 1..Len(lines) + 1] ==
            LET b == FindNextMultiLineCommentStart(lines, k)
                e == FindNextMultiLineCommentEnd(lines, b)
            IN  IF b = 0 THEN [removed |-> {}, open |-> 0]
                ELSE IF e = 0 THEN [removed |-> {}, open |-> b]
                ELSE [From1[e + 1] EXCEPT !.removed = @ \union b..e]
    IN  From1[1]

\* They become empty comments, so that they are no blank lines.
RemoveMultiLineComments(lines) ==
    LET gone == MultiLineComments(Toks(lines)).removed
    IN  [i \in DOMAIN lines |-> IF i \in gone THEN Plain(<<"/*", "*/">>)
                                ELSE lines[i]]

-----------------------------------------------------------------------------
(* Raw strings                                                             *)

\* Whether some way to pair the quotes before place k leaves a // outside of
\* them; an escaped quote may be taken for the end of a string too.
InLineComment(s, k) ==
    LET May[i \in 0..k - 1] ==
            IF i = 0 THEN [out |-> TRUE, in |-> FALSE]
            ELSE LET m == May[i - 1] IN
                 CASE s[i] \in {"q", ")q"} -> [out |-> m.in, in |-> m.out]
                   [] s[i] = "bq" -> [out |-> m.in, in |-> m.out \/ m.in]
                   [] OTHER       -> m
    IN  \E i \in 1..k - 1 : s[i] = "//" /\ May[i - 1].out

\* The first raw string of a line: the line that is left, and whether it ends
\* inside one.
CollapseRawString(u) ==
    LET t == u.toks
        b == Find(t, "R(")
        e == First({j \in Places(t, ")q") : j > b})
        head == SubSeq(t, 1, b - 1) \o <<"q", "q">>
    IN  IF u.open \/ b = 0 \/ InLineComment(t, b) THEN u
        ELSE IF e = 0 THEN [toks |-> head, open |-> TRUE]
        ELSE [toks |-> head \o From(t, e + 1), open |-> FALSE]

\* All of them; there are no more than tokens.
CollapseRawStrings(t) ==
    FoldLeft(LAMBDA u, token : CollapseRawString(u), [toks |-> t, open |-> FALSE], t)

\* One line, begun inside a raw string or not.
CleanseLine(s, open) ==
    LET end == Find(s, ")q")
    IN  IF ~open THEN CollapseRawStrings(s)
        ELSE IF end = 0 THEN [toks |-> <<"q", "q">>, open |-> TRUE]
        ELSE CollapseRawStrings(<<"q", "q">> \o From(s, end + 1))

\* All lines, with what each leaves open handed to the next.
CleanseRawStrings(lines) ==
    LET Cleansed[i \in 0..Len(lines)] ==
            IF i = 0 THEN [toks |-> <<>>, open |-> FALSE]
            ELSE CleanseLine(lines[i], Cleansed[i - 1].open)
    IN  [i \in DOMAIN lines |-> Cleansed[i].toks]

-----------------------------------------------------------------------------
(* Comments and strings on a line                                          *)

\* The characters " of a line that are not escaped, counted by parity.
IsCppString(s) == CountOf(s, {"q", "R(", ")q"}) % 2 = 1

\* /* ... */ pairs of one line.
DropCComments(s) ==
    LET Upto[i \in 0..Len(s)] ==
            IF i = 0 THEN [out |-> <<>>, held |-> <<>>]
            ELSE LET u == Upto[i - 1] IN
                 IF u.held = <<>> /\ s[i] # "/*"
                 THEN [u EXCEPT !.out = Append(@, s[i])]
                 ELSE IF u.held # <<>> /\ s[i] = "*/" THEN [u EXCEPT !.held = <<>>]
                 ELSE [u EXCEPT !.held = Append(@, s[i])]
    IN  Upto[Len(s)].out \o Upto[Len(s)].held

\* Only the first // is looked at, and it is kept when it is in a string.
CleanseComments(s) ==
    LET p == Find(s, "//")
    IN  DropCComments(IF p # 0 /\ ~IsCppString(SubSeq(s, 1, p - 1))
                      THEN SubSeq(s, 1, p - 1) ELSE s)

\* Faulty variant: escaped quotes are kept as quotes.
FaultyUnescaped(s) == FlattenSeq([i \in DOMAIN s |->
                    CASE s[i] = "R(" -> <<"a", "q", "(">>
                      [] s[i] = ")q" -> <<")", "q">>
                      [] s[i] = "bq" -> <<"q">>
                      [] OTHER       -> <<s[i]>>])

\* What is left of raw strings falls apart, escaped quotes disappear.
Unescaped(s) == FlattenSeq([i \in DOMAIN s |->
                    CASE s[i] = "R(" -> <<"a", "q", "(">>
                      [] s[i] = ")q" -> <<")", "q">>
                      [] s[i] = "bq" -> <<>>
                      [] OTHER       -> <<s[i]>>])

\* Pairs of quotes lose what is between them; a quote without a second one
\* ends the work on the line.
CollapseStrings(s) ==
    LET t == Unescaped(s)
        Upto[i \in 0..Len(t)] ==
            IF i = 0 THEN [out |-> <<>>, held |-> <<>>]
            ELSE LET u == Upto[i - 1] IN
                 IF u.held = <<>> /\ t[i] # "q"
                 THEN [u EXCEPT !.out = Append(@, t[i])]
                 ELSE IF u.held # <<>> /\ t[i] = "q"
                 THEN [out |-> u.out \o <<"q", "q">>, held |-> <<>>]
                 ELSE [u EXCEPT !.held = Append(@, t[i])]
    IN  IF IncludeLine(s) THEN s ELSE Upto[Len(t)].out \o Upto[Len(t)].held

\* The four copies of a file.
CleansedLines(lines) ==
    LET noRaw == CleanseRawStrings(Toks(lines))
    IN  [raw    |-> lines,
         noRaw  |-> noRaw,
         lines  |-> [i \in DOMAIN noRaw |-> CleanseComments(noRaw[i])],
         elided |-> [i \in DOMAIN noRaw |-> CleanseComments(CollapseStrings(noRaw[i]))]]

-----------------------------------------------------------------------------
(* The language's own reading of a text, to compare with                   *)

\* Code, a comment to the end of the line, a comment between marks, a string
\* or a raw string: what one token does, read in each.
ReadToken(mode, t) ==
    CASE mode = "code" /\ t = "//" -> "line"
      [] mode = "code" /\ t = "/*" -> "comment"
      [] mode = "code" /\ t \in {"q", ")q"} -> "string"
      [] mode = "code" /\ t = "R(" -> "raw"
      [] mode = "comment" /\ t = "*/" -> "code"
      [] mode = "string" /\ t \in {"q", "R(", ")q"} -> "code"
      [] mode = "raw" /\ t = ")q" -> "code"
      [] OTHER -> mode

\* The modes before each token and after the last, line by line.
ReadLine(s, mode) ==
    LET Mode[i \in 0..Len(s)] == IF i = 0 THEN mode ELSE ReadToken(Mode[i - 1], s[i])
    IN  [i \in 1..Len(s) + 1 |-> Mode[i - 1]]

Reading(lines) ==
    LET Read[i \in 1..Len(lines)] ==
            LET before == IF i = 1 THEN "code" ELSE Last(Read[i - 1])
            IN  ReadLine(lines[i], IF before = "line" THEN "code" ELSE before)
    IN  [i \in 1..Len(lines) |-> Read[i]]

Marks == {"//", "/*", "*/", "q", "bq", "R(", ")q"}

\* The code of a line: what is read as code, where a quote may have another
\* sign with it.
CodeOf(s, modes) ==
    FlattenSeq([i \in DOMAIN s |->
        CASE modes[i] = "code" /\ s[i] \notin Marks -> <<s[i]>>
          [] modes[i] = "code" /\ s[i] = ")q" -> <<")">>
          [] modes[i] = "string" /\ s[i] = "R(" -> <<"(">>
          [] OTHER -> <<>>])

WithoutQuotes(s) == SelectSeq(s, LAMBDA t : t # "q")

\* What the checker does not promise to read: a comment over several lines
\* with code behind it, quotes in any comment between marks, strings over
\* several lines, raw strings in strings, and raw strings that look like
\* comments.
Readable(lines) ==
    LET R == Reading(lines) IN
    \A i \in DOMAIN lines :
        /\ R[i][1] = "comment" /\ (\E k \in DOMAIN R[i] : R[i][k] # "comment")
              => Last(lines[i]) = "*/" /\ Cardinality({k \in DOMAIN R[i] : R[i][k] # "comment"}) = 1
        /\ R[i][1] # "string"
        /\ R[i][1] = "raw" => lines[i] = <<>> \/ (Head(lines[i]) # "/*" /\ Last(lines[i]) # "*/")
        /\ \A k \in DOMAIN lines[i] :
              /\ lines[i][k] \in {"q", "bq", "R(", ")q"} => R[i][k] # "comment"
              /\ lines[i][k] \in {"R("} => R[i][k] # "string"
              /\ lines[i][k] \in {"bq", "*/"} => R[i][k] # "code"
=============================================================================
