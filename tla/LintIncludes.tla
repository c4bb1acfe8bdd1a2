----------------------------- MODULE LintIncludes -----------------------------
(***************************************************************************)
(* What cpplint.py knows of the #include lines of a file: the list of the  *)
(* headers, cut at preprocessor branches, and how far the order of headers *)
(* has come since the last branch.                                         *)
(*                                                                         *)
(* A path is a record: its directories, its base name without a suffix     *)
(* like _test or -inl, that suffix, the extension, the first component of  *)
(* the base name, its rank in the alphabet, and whether it is a header of  *)
(* C++ or of a third party.  That one path is part of another is told by   *)
(* whole directories.                                                      *)
(***************************************************************************)
EXTENDS LintChecks

CONSTANTS Path,     \* the path of each file and of each header that is named
          Needs     \* the uses of the standard library: token to header

ASSUME NeedsAssumption == IsFiniteSet(DOMAIN Needs)

Include(s) == [name |-> s[3], system |-> s[2] = "<"]

IncludeState == [lists |-> << <<>> >>, section |-> 0, last |-> 0]

Included(inc) == FlattenSeq(inc.lists)

\* Faulty variant: an alternative forgets every header.
FaultyResetSection(inc, directive) ==
    LET lists == CASE directive \in Conditional -> Append(inc.lists, <<>>)
                   [] directive \in Alternative -> << <<>> >>
                   [] OTHER -> inc.lists
    IN  [lists |-> lists, section |-> 0, last |-> 0]

\* The lists are never taken away again: an alternative empties the last one
\* that was begun.
ResetSection(inc, directive) ==
    LET lists == CASE directive \in Conditional -> Append(inc.lists, <<>>)
                   [] directive \in Alternative -> OnTop(inc.lists, <<>>)
                   [] OTHER -> inc.lists
    IN  [lists |-> lists, section |-> 0, last |-> 0]

-----------------------------------------------------------------------------
(* Kinds of headers and their order                                        *)

\* Without the suffixes that files of one module may have.
CommonSuffixes(ext) ==
    CASE ext = "cc" -> {"_test", "-test", "_regtest", "-regtest", "_unittest", "-unittest"}
      [] ext = "h" -> {"_inl", "-inl", "_impl", "-impl", "_internal", "-internal"}
      [] OTHER -> {}

DropCommonSuffixes(p) ==
    IF p.suffix \in CommonSuffixes(p.ext) THEN <<p.base, "">> ELSE <<p.base, p.suffix>>

ClassifyInclude(file, i) ==
    LET p == Path[i.name]
        same == DropCommonSuffixes(p) = DropCommonSuffixes(file)
        near == p.dir = file.dir \/ (file.dir # <<>> /\ p.dir = OnTop(file.dir, "public"))
    IN  IF i.system THEN IF p.cpp THEN "cpp" ELSE "c"
        ELSE IF same /\ near THEN "mine"
        ELSE IF p.first = file.first THEN "maybe"
        ELSE "other"

\* 1 headers of the file, 2 of C, 3 of C++, 4 others: a step back is wrong
\* for system headers only.
CheckNextIncludeOrder(inc, kind) ==
    LET at == CASE kind = "c" -> 2
                [] kind = "cpp" -> 3
                [] kind \in {"mine", "maybe"} -> IF inc.section <= 1 THEN 1 ELSE 4
                [] OTHER -> 4
        wrong == at < inc.section
    IN  [inc |-> IF wrong THEN [inc EXCEPT !.last = 0]
                 ELSE [inc EXCEPT !.section = at, !.last = IF at = inc.section THEN @ ELSE 0],
         wrong |-> wrong]

\* The last header comes later in the alphabet, and the line before is an
\* include.
IsInAlphabeticalOrder(inc, rank, clean, l) ==
    ~(inc.last > rank /\ IncludeLine(clean.elided[l - 1]))

\* A line that includes a header: the state after it, and what is wrong.
CheckIncludeLine(file, inc, clean, l) ==
    LET i     == Include(clean.lines[l])
        p     == Path[i.name]
        order == CheckNextIncludeOrder(inc, ClassifyInclude(file, i))
        first == When(/\ clean.raw[l].indent = 0
                      /\ ~i.system /\ p.dir = <<>> /\ p.ext = "h" /\ ~p.foreign,
                      Found(l, <<"build", "include">>, 4))
        again == \E e \in ToSet(Included(inc)) : e.name = i.name
        alien == p.ext = "cc" /\ p.dir # file.dir
    IN  IF again \/ alien
        THEN [inc |-> inc, errors |-> first \o Found(l, <<"build", "include">>, 4)]
        ELSE IF p.foreign THEN [inc |-> inc, errors |-> first]
        ELSE [inc |-> [order.inc EXCEPT
                         !.lists = OnTop(@, Append(Last(@), [name |-> i.name, line |-> l])),
                         !.last = p.rank],
              errors |-> first
                  \o When(order.wrong, Found(l, <<"build", "include", "_order">>, 4))
                  \o When(~IsInAlphabeticalOrder(order.inc, p.rank, clean, l),
                          Found(l, <<"build", "include", "_alpha">>, 4))]

\* The part of CheckLanguage that is about includes.
CheckLanguage(file, inc, clean, l) ==
    LET s == clean.elided[l] IN
    IF IncludeLine(s) THEN CheckIncludeLine(file, inc, clean, l)
    ELSE IF Directive(s) \in Conditional \union Alternative \union {"#endif"}
    THEN [inc |-> ResetSection(inc, Directive(s)), errors |-> <<>>]
    ELSE [inc |-> inc, errors |-> <<>>]

-----------------------------------------------------------------------------
(* At the end of the file                                                  *)

Source(p) == p.ext \in {"c", "cc", "cpp", "cxx"}
TestSuffixes == {"_test", "_unittest", "_regtest"}

FullName(p) == Append(p.dir, <<p.base, p.suffix, p.ext>>)

\* A source file includes the header of its name, when there is one.
CheckHeaderFileIncluded(file, inc, disk) ==
    LET header == [file EXCEPT !.ext = "h"]
        exists == \E f \in DOMAIN disk : FullName(Path[f]) = FullName(header)
        names  == {FullName(Path[e.name]) : e \in ToSet(Included(inc))}
        found  == \E n \in names : IsSuffix(n, FullName(header)) \/ IsSuffix(FullName(header), n)
        all    == Included(inc)
    IN  When(Source(file) /\ file.suffix \notin TestSuffixes /\ exists /\ ~found,
             Found(IF all = <<>> THEN 1 ELSE Head(all).line, <<"build", "include">>, 5))

\* The directory that has to be put before a header's to find it next to a
\* file of the same module: a set of at most one.
CommonPath(file, p) ==
    LET Strip(dir) == SelectSeq(dir, LAMBDA d : d \notin {"public", "internal"})
        base == IF file.suffix \in TestSuffixes THEN <<file.base, "">>
                ELSE <<file.base, file.suffix>>
        own  == IF p.suffix = "-inl" THEN <<p.base, "">> ELSE <<p.base, p.suffix>>
        up   == Strip(file.dir)
        down == Strip(p.dir)
    IN  IF Source(file) /\ p.ext = "h" /\ base = own /\ IsSuffix(down, up)
        THEN {SubSeq(up, 1, Len(up) - Len(down))} ELSE {}

\* The headers of a file's own module that can be read.
OwnHeaders(file, inc, disk) ==
    {f \in DOMAIN disk : \E e \in ToSet(Included(inc)) :
        \E c \in CommonPath(file, Path[e.name]) :
            FullName(Path[f]) = c \o FullName(Path[e.name])}

\* What a header includes, comments over several lines not looked at.
UpdateIncludeState(lines) ==
    {Include(CleanseComments(lines[i].toks)).name :
        i \in {j \in DOMAIN lines : IncludeLine(CleanseComments(lines[j].toks))}}

\* The last line that uses something of a standard header: 0 for none.  Of
\* the mentions of a class in a line the first decides.
LastUse(clean, header) ==
    LET kinds == {Needs[t].kind : t \in {u \in DOMAIN Needs : Needs[u].header = header}}
        Uses(s, l, kind) ==
            LET p == First({i \in DOMAIN s :
                        /\ s[i] \in DOMAIN Needs
                        /\ Needs[s[i]].header = header /\ Needs[s[i]].kind = kind
                        /\ kind # "class" => i < Len(s)
                        /\ kind = "template" => s[i + 1] = "<"
                        /\ kind = "function" => s[i + 1] = "("
                                                /\ (i > 1 \/ clean.raw[l].indent > 0)})
            IN  p # 0 /\ Needs[s[p]].std
        U == {l \in DOMAIN clean.elided :
                /\ ~(Directive(clean.elided[l]) \in Conditional \union Alternative
                        \union {"#endif", "#include", "#define"} /\ clean.raw[l].indent = 0)
                /\ \E kind \in kinds : Uses(clean.elided[l], l, kind)}
    IN  IF U = {} THEN 0 ELSE CHOOSE l \in U : \A k \in U : l >= k

\* Headers that are used and not included, neither here nor in the own
\* header; a .cc file whose own header is not found is left alone.
CheckForIncludeWhatYouUse(file, inc, clean, disk) ==
    LET own  == OwnHeaders(file, inc, disk)
        have == {e.name : e \in ToSet(Included(inc))}
                \union UNION {UpdateIncludeState(disk[f].lines) : f \in own}
        lack == {h \in {Needs[t].header : t \in DOMAIN Needs} :
                    LastUse(clean, h) # 0 /\ h \notin have}
    IN  IF file.ext = "cc" /\ own = {} THEN <<>>
        ELSE FlattenSeq(SetToSeq({Found(LastUse(clean, h),
                                        <<"build", "include", "_what_you_use">>, 4) : h \in lack}))
=============================================================================
