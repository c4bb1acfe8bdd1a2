----------------------------- MODULE MCFriends -----------------------------
EXTENDS Friends

MCPairs == {p \in Users \X Users : p[1] < p[2]}
=============================================================================
