---------------------------- MODULE RemoteExport ----------------------------
(***************************************************************************)
(* What the connectors promise of a document they create in somebody       *)
(* else's system: requests may post it again and again until one of them   *)
(* has stored the id of the copy, and only the requests that began before  *)
(* that may still post it afterwards.                                      *)
(***************************************************************************)
EXTENDS Naturals

CONSTANT Documents

VARIABLES
    attempts,   \* requests that may still post the document
    copies,     \* the copies of it that exist on the other side
    stored      \* the id of a copy is stored

vars == <<attempts, copies, stored>>

Init ==
    /\ attempts = [d \in Documents |-> 0]
    /\ copies = [d \in Documents |-> 0]
    /\ stored = [d \in Documents |-> FALSE]

Begin(d) ==
    /\ ~stored[d]
    /\ attempts' = [attempts EXCEPT ![d] = @ + 1]
    /\ UNCHANGED <<copies, stored>>

Post(d) ==
    /\ attempts[d] > 0
    /\ attempts' = [attempts EXCEPT ![d] = @ - 1]
    /\ copies' = [copies EXCEPT ![d] = @ + 1]
    /\ UNCHANGED stored

GiveUp(d) ==
    /\ attempts[d] > 0
    /\ attempts' = [attempts EXCEPT ![d] = @ - 1]
    /\ UNCHANGED <<copies, stored>>

(* Once is enough: an id that is stored is not replaced.                   *)
Store(d) ==
    /\ copies[d] > 0 /\ ~stored[d]
    /\ stored' = [stored EXCEPT ![d] = TRUE]
    /\ UNCHANGED <<attempts, copies>>

Next == \E d \in Documents : Begin(d) \/ Post(d) \/ GiveUp(d) \/ Store(d)

Spec == Init /\ [][Next]_vars
=============================================================================
