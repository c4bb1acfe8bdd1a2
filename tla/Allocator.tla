----------------------------- MODULE Allocator -----------------------------
(***************************************************************************)
(* What the heap promises whoever allocates from it, however it keeps its  *)
(* free memory: allocated blocks lie in its memory and share no byte, a    *)
(* block keeps its address, size and content until it is freed, and only a *)
(* WRITE at or below a byte changes that byte.                             *)
(***************************************************************************)
EXTENDS Naturals

CONSTANT Memory         \* the addresses of the bytes that can be allocated

VARIABLE allocated      \* blocks: address, size and the bytes at 0 .. size - 1

Covers(b) == b.address .. b.address + b.size - 1

Malloc == \E b \in allocated' :
            /\ allocated' = allocated \cup {b}
            /\ Covers(b) \subseteq Memory
            /\ \A c \in allocated : Covers(b) \cap Covers(c) = {}

Free == \E b \in allocated : allocated' = allocated \ {b}

\* b after a WRITE at address a.
Rewritten(b, a, c) ==
  /\ c.address = b.address /\ c.size = b.size
  /\ DOMAIN c.payload = DOMAIN b.payload
  /\ \A i \in DOMAIN b.payload :
       b.address + i < a => c.payload[i] = b.payload[i]

Write == \E a \in Memory :
           /\ \E b \in allocated : a \in Covers(b)
           /\ \A b \in allocated : \E c \in allocated' : Rewritten(b, a, c)
           /\ \A c \in allocated' : \E b \in allocated : Rewritten(b, a, c)

Reset == allocated' = {}

Init == allocated = {}

Next == Malloc \/ Free \/ Write \/ Reset

Spec == Init /\ [][Next]_allocated
=============================================================================
