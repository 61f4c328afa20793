----------------------------- MODULE MCQueueJob -----------------------------
(* QueueJob for TLC: at most MaxFaults of the steps of Faults.             *)
EXTENDS QueueJob, TLC

CONSTANT MaxFaults

VARIABLE faults

mcvars == <<vars, faults>>

MCInit == Init /\ faults = 0

MCNext ==
    \/ (System \/ Creation) /\ UNCHANGED faults
    \/ faults < MaxFaults /\ Faults /\ faults' = faults + 1

MCSpec == MCInit /\ [][MCNext]_mcvars

MCFairSpec == MCSpec /\ Fairness

Symmetric == Permutations(Jobs) \cup Permutations(Requests)

(* Only the vacuum looks at date_done: when no fault is left, states that  *)
(* differ in it are the same.                                              *)
Looked ==
    <<state, eta, runner, about, srv, cli, overridden, faults,
      IF faults < MaxFaults THEN <<dated, loaded>> ELSE <<>> >>
=============================================================================
