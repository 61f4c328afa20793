------------------------------ MODULE MCChannels ------------------------------
(* Channels for TLC: small trees of channels and two or three jobs.        *)
EXTENDS Channels, TLC

CONSTANTS root, a, b, s,   \* channels
          j1, j2, j3       \* jobs

\* a and b below the root, s below a
TreeParent == (a :> root) @@ (b :> root) @@ (s :> a)
TreeCap    == (root :> 1) @@ (a :> 2) @@ (b :> 0) @@ (s :> 1)
TreeThrottle == (root :> 0) @@ (a :> 2) @@ (b :> 0) @@ (s :> 0)

\* s below the root
TwoParent   == s :> root
TwoCap      == (root :> 1) @@ (s :> 1)
TwoThrottle == (root :> 0) @@ (s :> 0)

Order == [j \in Jobs |-> IF j = j1 THEN 1 ELSE IF j = j2 THEN 2 ELSE 3]
=============================================================================
