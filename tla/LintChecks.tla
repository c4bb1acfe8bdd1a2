------------------------------ MODULE LintChecks ------------------------------
(***************************************************************************)
(* The checks of a line of cpplint.py that look at more than the line: the *)
(* lengths of functions, indentation in namespaces, sections of classes,   *)
(* indentation and width, semicolons after blocks, and empty bodies.  The  *)
(* last two report at a line that may be further down.  What is about      *)
(* spacing and wording, and is reported at the line itself, is a fault of  *)
(* the line (LintText).                                                    *)
(***************************************************************************)
EXTENDS LintNesting

CONSTANTS NormalTrigger,  \* the lines a function may have, with --verbose=0
          TestTrigger,    \* the lines a test may have
          SectionLines,   \* a class has to be longer to have blank lines before labels
          Macros          \* names in capitals, those of tests apart

ASSUME TriggersAssumption == /\ {NormalTrigger, TestTrigger} \subseteq Nat \ {0}
                             /\ SectionLines \in Nat

Blank(s) == s = <<>>

-----------------------------------------------------------------------------
(* Lengths of functions                                                    *)

FunctionState == [inside |-> FALSE, lines |-> 0, test |-> FALSE]

Tests == {"TEST", "TEST_F"}

\* A line that is not indented and has a name, other than a macro's, before
\* its first parenthesis begins a function.
FunctionName(clean, l) ==
    LET s == clean.lines[l]
        p == Find(s, "(")
        decl == /\ p > 1 /\ clean.raw[l].indent = 0 /\ Word(s[1])
                /\ \A i \in 1..p - 1 : Word(s[i]) \/ s[i] \in {"::", "*", "&"}
    IN  IF decl /\ s[p - 1] \notin Macros THEN s[p - 1] ELSE ""

Log2(n) == CHOOSE k \in 0..n : (n = 0 \/ 2 ^ k <= n) /\ n < 2 ^ (k + 1)

\* At the brace that ends a function.
CheckLength(fn, l, verbose) ==
    LET base == IF fn.test THEN TestTrigger ELSE NormalTrigger
        level == Log2(fn.lines \div base)
    IN  When(fn.inside /\ fn.lines > base * 2 ^ verbose,
             Found(l, <<"readability", "fn_size">>, IF level > 5 THEN 5 ELSE level))

\* Declarations and functions on one line have a ; or } before the line that
\* has the first brace, or on it.
CheckForFunctionLengths(fn, clean, l, verbose) ==
    LET s    == clean.lines[l]
        name == FunctionName(clean, l)
        L    == clean.lines
        body == First({k \in l..Len(L) : CountOf(L[k], {";", "{", "}"}) > 0})
    IN  IF name # ""
        THEN IF body = 0 THEN [fn |-> fn, errors |-> Found(l, <<"readability", "fn_size">>, 5)]
             ELSE IF CountOf(L[body], {";", "}"}) > 0 THEN [fn |-> fn, errors |-> <<>>]
             ELSE [fn |-> [inside |-> TRUE, lines |-> 0, test |-> name \in Tests],
                   errors |-> <<>>]
        ELSE IF s = <<"}">> /\ clean.raw[l].indent = 0
        THEN [fn |-> [fn EXCEPT !.inside = FALSE], errors |-> CheckLength(fn, l, verbose)]
        ELSE [fn |-> IF ~Blank(s) /\ fn.inside THEN [fn EXCEPT !.lines = @ + 1] ELSE fn,
              errors |-> <<>>]

-----------------------------------------------------------------------------
(* Indentation in namespaces                                               *)

IsMacroDefinition(clean, l) ==
    \/ Directive(clean.elided[l]) = "#define" /\ clean.raw[l].indent = 0
    \/ l > 1 /\ ~Blank(clean.elided[l - 1]) /\ Last(clean.elided[l - 1]) = "bs"

IsForwardClassDeclaration(s) ==
    LET n == Len(s) IN n > 2 /\ s[n - 2] = "class" /\ Word(s[n - 1]) /\ s[n] = ";"

\* A class or namespace that this line put right on top of a namespace, or a
\* forward declaration in one, is not indented.
CheckForNamespaceIndentation(nest, clean, l) ==
    LET n       == Len(nest.stack)
        forward == IsForwardClassDeclaration(clean.elided[l])
        item    == /\ n > 1 /\ CheckNamespaceIndentation(nest.stack[n])
                   /\ nest.top = [depth |-> n - 1, kind |-> "namespace"]
        direct  == IF forward THEN IsTop(nest, "namespace")
                   ELSE /\ n > 1 /\ CheckNamespaceIndentation(nest.stack[n])
                        /\ nest.stack[n - 1].kind = "namespace"
    IN  When(/\ item \/ forward
             /\ ~IsMacroDefinition(clean, l)
             /\ direct
             /\ clean.raw[l].indent > 0,
             Found(l, <<"runtime", "indentation_namespace">>, 4))

-----------------------------------------------------------------------------
(* Comments and strings that go on                                         *)

CheckForMultilineCommentsAndStrings(clean, l) ==
    LET s == clean.elided[l] IN
    When(CountOf(s, {"/*"}) > CountOf(s, {"*/"}),
         Found(l, <<"readability", "multiline", "_comment">>, 5))
    \o When(CountOf(s, {"q"}) % 2 = 1,
            Found(l, <<"readability", "multiline", "_string">>, 5))

-----------------------------------------------------------------------------
(* Style                                                                   *)

GetPreviousNonBlankLine(clean, l) ==
    LET P == {i \in 1..l - 1 : ~Blank(clean.elided[i])}
    IN  IF P = {} THEN <<>> ELSE clean.elided[CHOOSE i \in P : \A j \in P : i >= j]

\* One or three blanks, but for labels and what continues a line.
WeirdIndent(clean, l) ==
    LET e    == clean.elided[l]
        prev == IF l > 1 THEN clean.noRaw[l - 1] ELSE <<>>
        label == /\ Len(e) \in {2, 3} /\ Word(e[1]) /\ e[2] = ":"
                 /\ Len(e) = 3 => e[3] = "bs"
        rawString == /\ clean.noRaw[l] # clean.raw[l].toks
                     /\ IsPrefix(<<"q", "q">>, clean.noRaw[l])
    IN  /\ clean.raw[l].indent \in {1, 3}
        /\ Blank(prev) \/ Last(prev) \notin {"q", "bq", ")q", ",", "=", ">", "<", ">=", "<=",
                                             "<<", "->"}
        /\ ~label /\ ~rawString

\* Includes that are not indented, and comments of one word, may be wide;
\* header guards, which may be too, are left out, and so is the width of what
\* is left of a line with a raw string.
TooWide(clean, l, width) ==
    LET s == clean.noRaw[l] IN
    /\ ~(IncludeLine(s) /\ clean.raw[l].indent = 0)
    /\ ~(Len(s) \in 1..2 /\ s[1] = "//")
    /\ s = clean.raw[l].toks /\ clean.raw[l].width > width

ManyCommands(clean, l) ==
    LET e    == clean.elided[l]
        prev == GetPreviousNonBlankLine(clean, l)
    IN  /\ CountOf(e, {";"}) > 1
        /\ Find(e, "for") = 0
        /\ Find(prev, "for") = 0 \/ Find(prev, ";") # 0
        /\ ~(CountOf(e, {"case", "default"}) > 0 /\ Find(e, "break") # 0)

\* DISALLOW macros are private.
CheckAccess(nest, clean, l) ==
    When(/\ Directive(clean.elided[l]) \in Disallow
         /\ IsTop(nest, "class") /\ Last(nest.stack).access # "private",
         Found(l, <<"readability", "constructors">>, 3))

\* In a large class a label comes after a blank line, or after the head.
CheckSectionSpacing(b, clean, l) ==
    LET s    == clean.lines[l]
        prev == clean.lines[l - 1]
        heads == {i \in b.start..l - 1 : ~Blank(clean.lines[i]) /\ Last(clean.lines[i]) = "{"}
        head == IF heads = {} THEN b.start ELSE First(heads)
    IN  When(/\ b.last - b.start > SectionLines /\ l > b.start
             /\ \E a \in {"public", "protected", "private"} : IsPrefix(<<a, ":">>, s)
             /\ ~Blank(prev) /\ CountOf(prev, {"class", "struct"}) = 0 /\ Last(prev) # "bs"
             /\ head < l - 1,
             Found(l, <<"whitespace", "blank_line">>, 3))

\* What comes before the braces; semicolons, empty bodies and classes follow.
CheckStyle(clean, l, width) ==
    When(WeirdIndent(clean, l), Found(l, <<"whitespace", "indent">>, 3))
    \o When(TooWide(clean, l, width), Found(l, <<"whitespace", "line_length">>, 2))
    \o When(ManyCommands(clean, l), Found(l, <<"whitespace", "newline">>, 0))

CheckClass(nest, clean, l) ==
    LET i == InnermostClass(nest)
    IN  CheckAccess(nest, clean, l)
        \o (IF i = 0 THEN <<>> ELSE CheckSectionSpacing(nest.stack[i], clean, l))

-----------------------------------------------------------------------------
(* Semicolons after blocks                                                 *)

SafeMacros == Tests \union {"MATCHER", "LOCKS_EXCLUDED", "INTERFACE_DEF"}

\* What may stand before the parentheses of a head whose block ends without a
\* question of its semicolon: macros, lambdas, initialisers, alignas.
Spared(E, open) ==
    LET before == SubSeq(E[open[1]], 1, open[2] - 1)
        n      == open[2] - 1
    IN  /\ open # Nowhere
        /\ \/ /\ n > 0
              /\ \/ before[n] \in Macros \union Tests /\ before[n] \notin SafeMacros
                 \/ before[n] \in {"=", "decltype"}
                 \/ before[n] = "]" /\ \A i \in 1..n - 2 :
                                          SubSeq(before, i, i + 2) # <<"operator", "[", "]">>
                 \/ n > 1 /\ before[n] = "alignas" /\ before[n - 1] \in {"struct", "union"}
           \/ open[1] > 2 /\ ~Blank(E[open[1] - 1]) /\ Last(E[open[1] - 1]) = "]"

Rightmost(P) == {p \in P : \A j \in P : p >= j}

\* The brace of a line that opens a block which needs no semicolon, in a set
\* of at most one.  Before it stands an argument list that is not spared, an
\* else, a const, or nothing after a statement or block.
EligibleBrace(clean, l) ==
    LET E     == clean.elided
        s     == E[l]
        Before(t) == {p \in Places(s, "{") : p > 1 /\ s[p - 1] = t}
        other == Before("else") \union {p \in Before("const") : p > 2 /\ s[p - 2] = ")"}
        prev  == GetPreviousNonBlankLine(clean, l)
    IN  IF Before(")") # {}
        THEN {p \in Rightmost(Before(")")) : ~Spared(E, ReverseCloseExpression(E, l, p - 1))}
        ELSE IF other # {} THEN Rightmost(other)
        ELSE {p \in {1} : Directive(s) = "{" /\ ~Blank(prev) /\ Last(prev) \in {";", "{", "}"}}

\* The line of the redundant semicolon, which may be after this one: 0 for none.
TrailingSemicolon(clean, l) ==
    LET E == clean.elided
    IN  First({end[1] : end \in {e \in {CloseExpression(E, l, p) : p \in EligibleBrace(clean, l)} :
                  e # Nowhere /\ e[2] < Len(E[e[1]]) /\ E[e[1]][e[2] + 1] = ";"}})
-----------------------------------------------------------------------------
(* Empty bodies                                                            *)

EmptyBodies == {<<"whitespace", "empty_loop_body">>, <<"whitespace", "empty_conditional_body">>,
                <<"whitespace", "empty_if_body">>}

\* The place of the next code behind a place, and its token.
NextCode(E, at) ==
    LET next == First({l \in at[1] + 1..Len(E) : ~Blank(E[l])})
    IN  IF at[2] < Len(E[at[1]]) THEN <<at[1], at[2] + 1>>
        ELSE IF next = 0 THEN Nowhere ELSE <<next, 1>>

TokenAt(E, at) == IF at = Nowhere THEN "" ELSE E[at[1]][at[2]]

\* Nothing stands between two braces, and no comment does.
NothingBetween(clean, open, close) ==
    /\ CleanseComments(clean.raw[open[1]].toks) = clean.raw[open[1]].toks
    /\ IF open[1] = close[1] THEN close[2] = open[2] + 1
       ELSE /\ open[2] = Len(clean.elided[open[1]]) /\ close[2] = 1
            /\ \A l \in open[1] + 1..close[1] - 1 : Blank(clean.raw[l].toks)

\* The head of a loop or condition is followed from its first line to its
\* last, where a semicolon right behind it, or braces without anything in
\* them and without an else, are reported.
CheckEmptyBlockBody(clean, l) ==
    LET E     == clean.elided
        s     == E[l]
        end   == CloseExpression(E, l, 2)
        open  == NextCode(E, end)
        close == CloseExpression(E, open[1], open[2])
        body  == IF s[1] = "if" THEN "empty_conditional_body" ELSE "empty_loop_body"
    IN  IF \/ Len(s) < 2 \/ s[1] \notin {"for", "while", "if"} \/ s[2] # "("
           \/ end = Nowhere
        THEN <<>>
        ELSE When(TokenAt(E, open) = ";" /\ open[1] = end[1] /\ clean.raw[end[1]].tight,
                  Found(end[1], <<"whitespace", body>>, 5))
             \o When(/\ s[1] = "if" /\ TokenAt(E, open) = "{" /\ close # Nowhere
                     /\ NothingBetween(clean, open, close)
                     /\ TokenAt(E, NextCode(E, close)) # "else",
                     Found(end[1], <<"whitespace", "empty_if_body">>, 4))
=============================================================================
