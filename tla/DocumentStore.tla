--------------------------- MODULE DocumentStore ---------------------------
(***************************************************************************)
(* What the database promises its client, whatever caches, task queues and *)
(* servers are behind it: a map from document names to texts.  An EDIT     *)
(* replaces a document's text and is acknowledged at once; a GET returns   *)
(* the text of the last acknowledged EDIT, or "(null)" when there is none. *)
(***************************************************************************)
EXTENDS Replies

VARIABLES store,   \* the text of every document
          reply    \* the last response to the client

vars == <<store, reply>>

TypeOK == /\ store \in [Docs -> Contents \cup {NoContent}]
          /\ reply \in Reply

Init == /\ store = [d \in Docs |-> NoContent]
        /\ reply = NoReply

Edit(d, x) == /\ reply' = Queued(d)
              /\ store' = [store EXCEPT ![d] = x]

Get(d) == /\ reply' = Text(d, store[d])
          /\ UNCHANGED store

Next == \E d \in Docs : Get(d) \/ \E x \in Contents : Edit(d, x)

Spec == Init /\ [][Next]_vars
=============================================================================
