------------------------------ MODULE Replies ------------------------------
(***************************************************************************)
(* The responses the database prints (constants.h).  A response is the     *)
(* kind of its message, the document it is about and, when the message is  *)
(* a document's text, that text.  "(null)" is a "content" response without *)
(* content.                                                                *)
(***************************************************************************)
CONSTANTS Docs,       \* document names
          Contents,   \* document texts
          NoDoc,      \* the NULL document name
          NoContent   \* the NULL text

ASSUME NullAssumption == NoDoc \notin Docs /\ NoContent \notin Contents

Reply == [kind  : {"none", "queued", "created", "overridden", "content"},
          doc   : Docs \cup {NoDoc},
          value : Contents \cup {NoContent}]

Message(k, d) == [kind |-> k, doc |-> d, value |-> NoContent]

NoReply       == Message("none", NoDoc)
Queued(d)     == Message("queued", d)        \* MSG_A
Overridden(d) == Message("overridden", d)    \* MSG_B
Created(d)    == Message("created", d)       \* MSG_C
Text(d, x)    == [kind |-> "content", doc |-> d, value |-> x]
=============================================================================
