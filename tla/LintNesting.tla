----------------------------- MODULE LintNesting -----------------------------
(***************************************************************************)
(* The stack of blocks that cpplint.py keeps while it goes through a file: *)
(* namespaces, classes, extern "C" and other blocks, with a checkpoint at  *)
(* each #if.  A check returns the errors it finds, in their order.  Macros *)
(* that decorate a class are left out, and that a class is derived, which  *)
(* nothing reads.                                                          *)
(***************************************************************************)
EXTENDS LintExpressions

CONSTANTS NamespaceLines,  \* a namespace of fewer lines needs no comment at its end
          Dotted           \* the tokens with a dot in them, such as names of headers

ASSUME NamespaceLinesAssumption == NamespaceLines \in Nat

\* An error at a line, with its category and the confidence in it.
Found(l, category, confidence) ==
    <<[line |-> l, category |-> category, confidence |-> confidence]>>
When(condition, errors) == IF condition THEN errors ELSE <<>>

Signs == {"(", ")", "[", "]", "{", "}", "<", ">", "<<", ">=", "<=", "->", ";",
          ":", "::", ",", "=", "*", "&", "...", "q", "bq", "R(", ")q", "//",
          "/*", "*/", "bs"}
Word(t) == t \notin Signs

Block(kind, l) ==
    [kind |-> kind, start |-> l, seen |-> kind \in {"block", "extern"},
     parens |-> 0, asm |-> "none", name |-> "", access |-> "", struct |-> FALSE,
     indent |-> 0, last |-> 0]

CheckNamespaceIndentation(b) == b.kind \in {"class", "namespace"}

NoTop == [depth |-> 0, kind |-> "none"]

NestingState == [stack |-> <<>>, top |-> NoTop, pp |-> <<>>]

SeenOpenBrace(stack) == stack = <<>> \/ Last(stack).seen
InAsmBlock(nest) == nest.stack # <<>> /\ Last(nest.stack).asm # "none"
IsTop(nest, kind) == nest.stack # <<>> /\ Last(nest.stack).kind = kind

\* The place of the innermost class on the stack: 0 for none.
InnermostClass(nest) ==
    LET C == {i \in DOMAIN nest.stack : nest.stack[i].kind = "class"}
    IN  IF C = {} THEN 0 ELSE CHOOSE i \in C : \A k \in C : k <= i

\* Something changes the last element of a stack.
OnTop(stack, b) == Append(Front(stack), b)

-----------------------------------------------------------------------------
(* Preprocessor branches                                                   *)

Directive(s) == IF s = <<>> THEN "" ELSE Head(s)
Conditional == {"#if", "#ifdef", "#ifndef"}
Alternative == {"#else", "#elif"}

\* Faulty variant: every alternative keeps the stack.
FaultyUpdatePreprocessor(nest, s) ==
    LET d   == Directive(s)
        top == Last(nest.pp)
    IN  CASE d \in Conditional ->
               [nest EXCEPT !.pp = Append(@, [before |-> nest.stack, saved |-> <<>>,
                                              seen |-> FALSE])]
          [] d \in Alternative /\ nest.pp # <<>> ->
               [nest EXCEPT
                  !.stack = top.before,
                  !.pp = OnTop(@, [top EXCEPT !.seen = TRUE, !.saved = nest.stack])]
          [] d = "#endif" /\ nest.pp # <<>> ->
               [nest EXCEPT !.stack = IF top.seen THEN top.saved ELSE @,
                            !.pp = Front(@)]
          [] OTHER -> nest

\* The first alternative keeps the stack for the #endif, each one begins
\* with the stack there was before the #if.
UpdatePreprocessor(nest, s) ==
    LET d   == Directive(s)
        top == Last(nest.pp)
    IN  CASE d \in Conditional ->
               [nest EXCEPT !.pp = Append(@, [before |-> nest.stack, saved |-> <<>>,
                                              seen |-> FALSE])]
          [] d \in Alternative /\ nest.pp # <<>> ->
               [nest EXCEPT
                  !.stack = top.before,
                  !.pp = IF top.seen THEN @
                         ELSE OnTop(@, [top EXCEPT !.seen = TRUE, !.saved = nest.stack])]
          [] d = "#endif" /\ nest.pp # <<>> ->
               [nest EXCEPT !.stack = IF top.seen THEN top.saved ELSE @,
                            !.pp = Front(@)]
          [] OTHER -> nest

-----------------------------------------------------------------------------
(* Parentheses and inline assembly                                         *)

MatchAsm(s) == Len(s) >= 2 /\ s[1] = "asm" /\ s[2] \in {"{", "("}

\* The innermost block counts the parentheses that are open.
CountParens(stack, s) ==
    LET change == CountOf(s, {"("}) - CountOf(s, {")"})
        b      == Last(stack)
        open   == b.parens + change
        asm    == CASE b.asm \in {"none", "end"} ->
                         IF change # 0 /\ open = 1 /\ MatchAsm(s) THEN "inside" ELSE "none"
                    [] b.asm = "inside" /\ open = 0 -> "end"
                    [] OTHER -> b.asm
    IN  IF stack = <<>> THEN stack
        ELSE OnTop(stack, [b EXCEPT !.parens = open, !.asm = asm])

-----------------------------------------------------------------------------
(* Heads of namespaces and classes                                         *)

\* The next namespace of a line, after those that have been read.
NextNamespace(u, s, l) ==
    LET p     == u.at
        named == p < Len(s) /\ Word(s[p + 1])
        brace == First({i \in Places(s, "{") : i > p})
        ns    == [Block("namespace", l) EXCEPT !.name = IF named THEN s[p + 1] ELSE "",
                                               !.seen = brace # 0]
    IN  IF p > Len(s) \/ s[p] # "namespace" THEN u
        ELSE [blocks |-> Append(u.blocks, ns),
              at |-> IF brace # 0 THEN brace + 1 ELSE IF named THEN p + 2 ELSE p + 1]

\* The namespaces a line begins with, and the place after them.
Namespaces(s, l) == FoldLeft(LAMBDA u, t : NextNamespace(u, s, l), [blocks |-> <<>>, at |-> 1], s)

\* The place of class or struct in a line that begins with it, or with a
\* template head before it; 0 for none.
ClassAt(s) ==
    LET Head1(p) == /\ p < Len(s) /\ s[p] \in {"class", "struct"} /\ Word(s[p + 1])
                    /\ \/ p = 1
                       \/ /\ p > 3 /\ s[1] = "template" /\ s[2] = "<" /\ s[p - 1] = ">"
                          /\ \A i \in 3..p - 2 : Word(s[i]) \/ s[i] \in {"<", ">", ",", ":", "::"}
        P == {p \in DOMAIN s : Head1(p)}
    IN  IF P = {} THEN 0 ELSE CHOOSE p \in P : \A j \in P : p >= j

\* From a place of a line on: does what follows look like the inside of
\* template arguments?
InTemplateArgumentList(lines, line, place) ==
    LET Args == {">", "=", "[", "]", "...", ">=", "->"} \union Dotted
        Telling == Args \union {"{", "}", ";", "<", "<<", "<="}
        From1[l \in line..Len(lines) + 1, p \in Nat] ==
            LET q   == First({i \in DOMAIN lines[l] : i >= p /\ lines[l][i] \in Telling})
                end == CloseExpression(lines, l, q)
            IN  IF l > Len(lines) THEN FALSE
                ELSE IF q = 0 THEN From1[l + 1, 1]
                ELSE CASE lines[l][q] \in {"{", "}", ";"} -> FALSE
                       [] lines[l][q] \in Args -> TRUE
                       [] OTHER -> end # Nowhere /\ From1[end[1], end[2] + 1]
    IN  From1[line, place]

\* The line where the braces of a class are even: its own, when it has none.
LastLine(lines, l) ==
    LET Depth[i \in l - 1..Len(lines)] ==
            IF i < l THEN 0
            ELSE Depth[i - 1] + CountOf(lines[i], {"{"}) - CountOf(lines[i], {"}"})
    IN  First({i \in l..Len(lines) : Depth[i] = 0})

ClassInfo(clean, l, kind, name) ==
    [Block("class", l) EXCEPT
        !.name = name, !.struct = kind = "struct",
        !.access = IF kind = "struct" THEN "public" ELSE "private",
        !.indent = clean.raw[l].indent, !.last = LastLine(clean.elided, l)]

-----------------------------------------------------------------------------
(* Ends of namespaces and classes                                          *)

Disallow == {"DISALLOW_COPY_AND_ASSIGN", "DISALLOW_IMPLICIT_CONSTRUCTORS"}

\* The comment that ends a namespace stands after } and semicolons; it says
\* namespace, and then the name and nothing else.
EndComment(s) ==
    LET c == First({i \in 2..Len(s) : s[i] # ";"})
    IN  IF s = <<>> \/ Directive(s) # "}" \/ c = 0 THEN <<>>
        ELSE IF s[c] \in {"//", "/*"} THEN SelectSeq(From(s, c + 1), LAMBDA t : t # "*/")
        ELSE <<>>

CheckEndOfNamespace(b, clean, l) ==
    LET said == EndComment(clean.raw[l].toks)
        right == IF b.name = "" THEN IsSuffix(<<"namespace">>, said)
                 ELSE IsSuffix(<<"namespace", b.name>>, said)
        large == l - b.start >= NamespaceLines \/ Find(said, "namespace") # 0
    IN  When(large /\ ~right, Found(l, <<"readability", "namespace">>, 5))

\* DISALLOW macros come last in a class, and a brace that begins its line is
\* aligned with the class.
CheckEndOfClass(b, clean, l) ==
    LET E == clean.elided
        Names(i) == \E p \in DOMAIN E[i] :
                       /\ E[i][p] \in Disallow
                       /\ IsPrefix(<<"(", b.name, ")">>, From(E[i], p + 1))
        D == {i \in b.start + 1..l - 1 : Names(i)}
        i == CHOOSE k \in D : \A j \in D : k >= j
    IN  When(D # {} /\ (\E k \in i + 1..l - 1 : E[k] # <<>>),
             Found(i, <<"readability", "constructors">>, 3))
        \o When(Directive(E[l]) = "}" /\ clean.raw[l].indent # b.indent,
                Found(l, <<"whitespace", "indent">>, 3))

CheckEnd(b, clean, l) ==
    CASE b.kind = "namespace" -> CheckEndOfNamespace(b, clean, l)
      [] b.kind = "class" -> CheckEndOfClass(b, clean, l)
      [] OTHER -> <<>>

-----------------------------------------------------------------------------
(* One line                                                                *)

\* A class that the line names at a place is put on the stack, unless a
\* parenthesis is open; from is the first place not used up.
ClassHead(stack, clean, l, at) ==
    LET rest == From(clean.elided[l], at)
        c    == ClassAt(rest)
    IN  IF /\ c # 0
           /\ stack = <<>> \/ Last(stack).parens = 0
           /\ ~InTemplateArgumentList(clean.elided, l, c + 2)
        THEN [stack |-> Append(stack, ClassInfo(clean, l, rest[c], rest[c + 1])),
              from |-> at + c + 1]
        ELSE [stack |-> stack, from |-> at]

\* The namespaces and the class a line begins with.
Heads(stack, clean, l) ==
    LET ns == Namespaces(clean.elided[l], l)
    IN  ClassHead(stack \o ns.blocks, clean, l, ns.at)

\* A label of access in what is left of the line, the last one.
AccessLabel(s, from) ==
    LET A == {p \in from..Len(s) - 1 : /\ s[p] \in {"public", "private", "protected", "signals"}
                                       /\ s[p + 1] = ":"}
    IN  IF A = {} THEN 0 ELSE CHOOSE p \in A : \A j \in A : p >= j

UpdateAccess(stack, clean, l, from) ==
    LET s == clean.elided[l]
        p == AccessLabel(s, from)
    IN  IF stack # <<>> /\ Last(stack).kind = "class" /\ p # 0
        THEN [stack |-> OnTop(stack, [Last(stack) EXCEPT !.access = s[p]]),
              errors |-> When(p = 1 /\ clean.raw[l].indent # Last(stack).indent + 1,
                              Found(l, <<"whitespace", "indent">>, 3))]
        ELSE [stack |-> stack, errors |-> <<>>]

\* A brace completes the head that waits for it, or opens a block.
OpenBrace(stack, clean, l, i, from) ==
    LET s == clean.elided[l]
        kind == IF /\ i = 4 /\ from = 1 /\ SubSeq(s, 1, 3) = <<"extern", "q", "q">>
                   /\ clean.raw[l].indent = 0
                THEN "extern" ELSE "block"
        asm == kind = "block" /\ i > from /\ s[i - 1] = "asm"
               /\ (i = from + 1 \/ s[i - 2] \in {"{", "}", ";", ")"})
    IN  IF ~SeenOpenBrace(stack) THEN OnTop(stack, [Last(stack) EXCEPT !.seen = TRUE])
        ELSE Append(stack, [Block(kind, l) EXCEPT !.asm = IF asm THEN "block" ELSE "none"])

\* A token behind the heads: braces, and the signs that tell that a head
\* without a brace was a declaration or an argument.
Brace(v, clean, l, i, from) ==
    LET t == clean.elided[l][i] IN
    CASE t = "{" -> [v EXCEPT !.stack = OpenBrace(@, clean, l, i, from)]
      [] t \in {";", ")"} /\ ~SeenOpenBrace(v.stack) -> [v EXCEPT !.stack = Front(@)]
      [] t = "}" /\ v.stack # <<>> ->
           [stack  |-> Front(v.stack),
            errors |-> v.errors \o CheckEnd(Last(v.stack), clean, l)]
      [] OTHER -> v

\* What is left of the line.
Braces(u, clean, l, from) ==
    LET Upto[i \in 0..Len(clean.elided[l])] ==
            IF i = 0 THEN u
            ELSE IF i < from THEN Upto[i - 1]
            ELSE Brace(Upto[i - 1], clean, l, i, from)
    IN  Upto[Len(clean.elided[l])]

\* What follows the heads: a label of access, braces and semicolons.
Tails(heads, clean, l) ==
    Braces(UpdateAccess(heads.stack, clean, l, heads.from), clean, l, heads.from)

Updated(u, top, pp) == [nest |-> [stack |-> u.stack, top |-> top, pp |-> pp], errors |-> u.errors]

\* The line's effect on the stack, and what it reports.
Update(nest, clean, l) ==
    LET s   == clean.elided[l]
        top == IF nest.stack = <<>> \/ Directive(s) \in Alternative \union {"#endif"} THEN NoTop
               ELSE [depth |-> Len(nest.stack), kind |-> Last(nest.stack).kind]
        pp  == UpdatePreprocessor(nest, s)
    IN  Updated(Tails(Heads(CountParens(pp.stack, s), clean, l), clean, l), top, pp.pp)

\* What has not come to its end when the file has.
CheckCompletedBlocks(nest) ==
    FlattenSeq([i \in DOMAIN nest.stack |->
        LET b == nest.stack[i] IN
        When(b.kind = "class", Found(b.start, <<"build", "class">>, 5))
        \o When(b.kind = "namespace", Found(b.start, <<"build", "namespaces">>, 5))])
=============================================================================
