--------------------------- MODULE MCLoadBalancer ---------------------------
EXTENDS LoadBalancer

MCContents == 1 .. RequestsNum

\* "low" has the very hash of server 2; "high" and "top" lie between servers 2
\* and 3, so without server 3 they are beyond the last tag and belong to the head.
MCDocHash == [d \in Docs |-> IF d = "low" THEN 20 ELSE IF d = "high" THEN 30 ELSE 35]
MCServerHash ==
  [s \in ServerIds |-> IF s = 1 THEN 5 ELSE IF s = 2 THEN 20 ELSE 40]
=============================================================================
