----------------------------- MODULE JobLifecycle -----------------------------
(***************************************************************************)
(* What module queue_job promises of one job: the moves between the states *)
(* of job.py, with an execution in at most one worker at a time.  A worker *)
(* that dies leaves its job stalled: nothing but a user moves it on.       *)
(***************************************************************************)
CONSTANT Jobs

VARIABLE phase

Moves ==
    [none      |-> {"pending"},
     pending   |-> {"enqueued"},
     enqueued  |-> {"executing", "pending"},
     executing |-> {"done", "pending", "failed", "stalled"},
     failed    |-> {"pending", "done", "gone"},
     done      |-> {"pending", "gone"},
     stalled   |-> {},
     gone      |-> {},
     free      |-> {}]

Init == phase = [j \in Jobs |-> "none"]

(* Job j moves on.                                                         *)
Move(j) == \E p \in Moves[phase[j]] : phase' = [phase EXCEPT ![j] = p]

(* Someone sets j to done, requeues or deletes it while it is in progress: *)
(* nothing is promised of j any more.                                      *)
Free(j) ==
    /\ phase[j] \in {"pending", "enqueued", "executing", "stalled"}
    /\ phase' = [phase EXCEPT ![j] = "free"]

Next == \E j \in Jobs : Move(j) \/ Free(j)

Spec == Init /\ [][Next]_phase
=============================================================================
