------------------------------- MODULE Users -------------------------------
(***************************************************************************)
(* The users of the Facebook clone (users.c), numbered in the order of     *)
(* users.db, and the process that serves the input.  A name and its number *)
(* stand for each other: get_user_id and get_user_name are inverse on the  *)
(* users there are, and the input names no other.                          *)
(***************************************************************************)
EXTENDS Integers

CONSTANTS UsersNumber,   \* users_number
          UintModulus    \* one more than the largest unsigned int

\* users_number is an unsigned short.
ASSUME UsersAssumption == UintModulus \in Nat \ {0} /\ UsersNumber \in 1 .. UintModulus

VARIABLE running         \* the process has not dereferenced NULL

Users == 0 .. UsersNumber - 1

\* A command that dereferences NULL.
Die == running /\ running' = FALSE
=============================================================================
