--------------------------- MODULE LintExpressions ---------------------------
(***************************************************************************)
(* How cpplint.py finds the other end of a parenthesised expression, on    *)
(* the elided lines of a file.  A < may be a sign or open template         *)
(* arguments, which only what follows tells; each of the two directions    *)
(* decides with a stack of its own.  An operator and its sign are one      *)
(* token.  A place in the text is <<line, place in the line>>.             *)
(***************************************************************************)
EXTENDS LintText

Opening == {"(", "[", "{"}
Closing == {")", "]", "}"}
CloseOf == [o \in Opening |-> CASE o = "(" -> ")" [] o = "[" -> "]" [] o = "{" -> "}"]
OpenOf == [c \in Closing |-> CHOOSE o \in Opening : CloseOf[o] = c]

Nowhere == <<0, 0>>

\* The stack without the signs that wait at its top for a partner.
Without(stack, t) ==
    LET kept == {i \in 0..Len(stack) : i = 0 \/ stack[i] # t}
    IN  SubSeq(stack, 1, CHOOSE i \in kept : \A j \in kept : i >= j)

\* A scan: the stack, the place where it became empty by a match, and
\* whether there is nothing left to look for.
Scanning(stack) == [stack |-> stack, at |-> 0, over |-> FALSE]
Failed == [stack |-> <<>>, at |-> 0, over |-> TRUE]
Popped(stack, i) == [stack |-> Front(stack), at |-> IF Len(stack) = 1 THEN i ELSE 0,
                     over |-> Len(stack) = 1]

\* A bracket that meets the stack: what waits for a sign is dropped first.
Meet(stack, sign, partner, i) ==
    LET left == Without(stack, sign)
    IN  IF left # <<>> /\ Last(left) = partner THEN Popped(left, i) ELSE Failed

\* A semicolon ends what waits for a sign.
Statement(stack, sign) ==
    LET left == Without(stack, sign)
    IN  IF left = <<>> THEN Failed ELSE Scanning(left)

-----------------------------------------------------------------------------
(* Forward                                                                 *)

\* Faulty variant: a semicolon does not end what waits for a sign.
FaultyEndStep(stack, t, i) ==
    CASE t \in Opening -> Scanning(Append(stack, t))
      [] t \in {"<", "<="} -> Scanning(Append(stack, "<"))
      [] t = "operator<<" /\ Last(stack) = "<" ->
            IF Len(stack) = 1 THEN Failed ELSE Scanning(Front(stack))
      [] t \in Closing -> Meet(stack, "<", OpenOf[t], i)
      [] t \in {">", ">=", "operator>"} /\ Last(stack) = "<" -> Popped(stack, i)
      [] OTHER -> Scanning(stack)

EndStep(stack, t, i) ==
    CASE t \in Opening -> Scanning(Append(stack, t))
      [] t \in {"<", "<="} -> Scanning(Append(stack, "<"))
      [] t = "operator<<" /\ Last(stack) = "<" ->
            IF Len(stack) = 1 THEN Failed ELSE Scanning(Front(stack))
      [] t \in Closing -> Meet(stack, "<", OpenOf[t], i)
      [] t \in {">", ">=", "operator>"} /\ Last(stack) = "<" -> Popped(stack, i)
      [] t = ";" -> Statement(stack, "<")
      [] OTHER -> Scanning(stack)

\* The first place of a line is scanned with an empty stack only when it
\* opens an expression.
FindEndOfExpressionInLine(s, start, stack) ==
    LET Upto[i \in start - 1..Len(s)] ==
            IF i = start - 1 THEN Scanning(stack)
            ELSE LET u == Upto[i - 1] IN
                 IF u.over THEN u
                 ELSE IF u.stack = <<>> THEN Scanning(<<s[i]>>)
                 ELSE EndStep(u.stack, s[i], i)
    IN  Upto[Len(s)]

CloseExpression(lines, l, p) ==
    LET Scan[k \in l..Len(lines)] ==
            IF k = l THEN FindEndOfExpressionInLine(lines[l], p, <<>>)
            ELSE LET u == Scan[k - 1] IN
                 IF u.over THEN u ELSE FindEndOfExpressionInLine(lines[k], 1, u.stack)
        end == First({k \in l..Len(lines) : Scan[k].over})
    IN  IF lines[l][p] \notin Opening \union {"<"} THEN Nowhere
        ELSE IF end = 0 \/ Scan[Len(lines)].at = 0 THEN Nowhere
        ELSE <<end, Scan[end].at>>

-----------------------------------------------------------------------------
(* Backward                                                                *)

\* A >= between other tokens is no end of template arguments here.
StartStep(stack, s, i) ==
    LET t == s[i] IN
    CASE t \in Closing -> Scanning(Append(stack, t))
      [] t = ">" \/ (t = ">=" /\ i \in {1, Len(s)}) -> Scanning(Append(stack, ">"))
      [] t \in {"<", "<=", "operator<"} /\ Last(stack) = ">" -> Popped(stack, i)
      [] t \in Opening -> Meet(stack, ">", CloseOf[t], i)
      [] t = ";" -> Statement(stack, ">")
      [] OTHER -> Scanning(stack)

FindStartOfExpressionInLine(s, end, stack) ==
    LET Downto[i \in 1..end + 1] ==
            IF i = end + 1 THEN Scanning(stack)
            ELSE LET d == Downto[i + 1] IN
                 IF d.over THEN d
                 ELSE IF d.stack = <<>> THEN Scanning(<<s[i]>>)
                 ELSE StartStep(d.stack, s, i)
    IN  Downto[1]

ReverseCloseExpression(lines, l, p) ==
    LET Scan[k \in 1..l] ==
            IF k = l THEN FindStartOfExpressionInLine(lines[l], p, <<>>)
            ELSE LET d == Scan[k + 1] IN
                 IF d.over THEN d
                 ELSE FindStartOfExpressionInLine(lines[k], Len(lines[k]), d.stack)
        over == {k \in 1..l : Scan[k].over}
        start == IF over = {} THEN 0 ELSE CHOOSE k \in over : \A j \in over : k >= j
    IN  IF lines[l][p] \notin Closing \union {">"} THEN Nowhere
        ELSE IF start = 0 \/ Scan[1].at = 0 THEN Nowhere
        ELSE <<start, Scan[start].at>>
=============================================================================
