------------------------------- MODULE JobKeys -------------------------------
(***************************************************************************)
(* What the senders of jobs may expect of queue_job: jobs with one         *)
(* identity key, that all do the same work for whatever their senders have *)
(* changed; their retries; and the effects their attempts leave.           *)
(*                                                                         *)
(* QueueJob is about the life of a row.  Here the runner is the write that *)
(* makes a row enqueued or pending again, and a transaction is what it     *)
(* sees: a sender decides on its snapshot whether there is a job already,  *)
(* and its change is seen by attempts that begin after its commit.         *)
(***************************************************************************)
EXTENDS Integers, FiniteSets, FiniteSetsExt

CONSTANTS
    KeyJobs,    \* ids of rows of queue_job, all with the same identity key
    Senders,    \* requests that change something and call with_delay
    Workers,
    KeyCapacity, \* of their channel
    MaxTouches  \* how often users change a job

ASSUME KeysAssumption ==
    /\ KeyJobs \subseteq Nat \ {0}
    /\ KeyCapacity \in Nat /\ MaxTouches \in Nat

VARIABLES
    job,        \* column state, or "none"
    decided,    \* of a sender: "idle", it has "found" a job, or none: "new", or "late" if
                \* there was one after its search, "over"
    work,       \* of a worker: what it executes
    saved,      \* the senders that have committed
    told,       \* the job a sender has found or made
    served,     \* the senders for whose change an effect was committed
    applied,    \* observation: the "clean" jobs whose effects were committed
    mark,       \* observation: of a job that left effects behind without being done, or
                \* that a user has changed ("redone"), or that was written when its
                \* method had not looked at the database yet ("hidden")
    touches,    \* how often users have changed a job
    overtaken   \* observation: senders whose job was taken before they committed

keyseen == <<applied, mark, touches, overtaken>>
keyvars == <<job, decided, work, saved, told, served, keyseen>>

NoKeyJob   == 0
OpenStates == {"pending", "enqueued"}
JobStates  == OpenStates \cup {"none", "started", "done", "failed"}
Open       == {j \in KeyJobs : job[j] \in OpenStates}
Created    == {j \in KeyJobs : job[j] # "none"}

NoWork == [job |-> NoKeyJob, at |-> "idle", sees |-> {}, stale |-> FALSE]
Attempts == [job : KeyJobs, at : {"started", "working", "leaving"},
             sees : SUBSET Senders, stale : BOOLEAN]

KeyTypeOK ==
    /\ job \in [KeyJobs -> JobStates]
    /\ decided \in [Senders -> {"idle", "found", "new", "late", "over"}]
    /\ work \in [Workers -> Attempts \cup {NoWork}]
    /\ saved \subseteq Senders /\ served \subseteq Senders /\ overtaken \subseteq Senders
    /\ told \in [Senders -> KeyJobs \cup {NoKeyJob}]
    /\ applied \subseteq KeyJobs
    /\ mark \in [KeyJobs -> {"clean", "redone", "hidden"}] /\ touches \in 0..MaxTouches

KeyInit ==
    /\ job = [j \in KeyJobs |-> "none"]
    /\ decided = [s \in Senders |-> "idle"]
    /\ work = [w \in Workers |-> NoWork]
    /\ saved = {} /\ served = {} /\ told = [s \in Senders |-> NoKeyJob]
    /\ applied = {}
    /\ mark = [j \in KeyJobs |-> "clean"] /\ touches = 0
    /\ overtaken = {}

(* Workers that execute j; an attempt that has looked at the database      *)
(* cannot update the row any more when somebody else does.                 *)
Executing(j) == {w \in Workers : work[w].job = j}
MadeStale(j, but) ==
    [w \in Workers |-> IF w \in Executing(j) \ but /\ work[w].at = "working"
                       THEN [work[w] EXCEPT !.stale = TRUE] ELSE work[w]]

(* A job waits again, or for the first time, after their search.           *)
MadeLate == [s \in Senders |-> IF decided[s] = "new" THEN "late" ELSE decided[s]]

Row(j, s) == job' = [job EXCEPT ![j] = s]

-----------------------------------------------------------------------------
(* The senders: Job.enqueue with an identity key.                          *)

(* Mutant of SameKey: started jobs count as well.                          *)
SameKeyOrStarted == {j \in KeyJobs : job[j] \in OpenStates \cup {"started"}}

(* Mutant of SameKey: enqueued jobs do not count.                          *)
SameKeyPending == {j \in KeyJobs : job[j] = "pending"}

(* job_record_with_same_identity_key: jobs that have not begun.            *)
SameKey == Open

(* Search and decision, in the sender's snapshot; several may be found.    *)
Send(s) ==
    /\ decided[s] = "idle"
    /\ IF SameKey = {}
       THEN decided' = [decided EXCEPT ![s] = "new"] /\ UNCHANGED told
       ELSE \E j \in SameKey : /\ decided' = [decided EXCEPT ![s] = "found"]
                               /\ told' = [told EXCEPT ![s] = j]
    /\ UNCHANGED <<job, work, saved, served, keyseen>>

(* store() and the commit of the sender: its change and the job, if it was *)
(* to be created, appear together.                                         *)
CommitSend(s) ==
    /\ decided[s] \notin {"idle", "over"}
    /\ saved' = saved \cup {s}
    /\ IF decided[s] = "found"
       THEN decided' = [decided EXCEPT ![s] = "over"] /\ UNCHANGED <<job, told>>
       ELSE LET j == Min(KeyJobs \ Created) IN
            /\ Created # KeyJobs
            /\ told' = [told EXCEPT ![s] = j]
            /\ decided' = [MadeLate EXCEPT ![s] = "over"]
            /\ Row(j, "pending")
    /\ UNCHANGED <<work, served, keyseen>>

(* The sender's transaction is rolled back; it may come again.             *)
LoseSend(s) ==
    /\ decided[s] \notin {"idle", "over"}
    /\ decided' = [decided EXCEPT ![s] = "idle"]
    /\ told' = [told EXCEPT ![s] = NoKeyJob]
    /\ UNCHANGED <<job, work, saved, served, keyseen>>

-----------------------------------------------------------------------------
(* The runner and the cron write a row.                                    *)

(* The capacity is what QueueJob!BusyWithinCapacity is about.              *)
Dispatched(j) ==
    /\ job[j] = "pending"
    /\ Cardinality({i \in KeyJobs : job[i] \in {"enqueued", "started"}}) < KeyCapacity
    /\ Row(j, "enqueued")
    /\ work' = MadeStale(j, {})
    /\ UNCHANGED <<decided, saved, told, served, keyseen>>

(* The request was not answered in time, or requeue_stuck_jobs.            *)
TimedOut(j) ==
    /\ job[j] = "enqueued"
    /\ Row(j, "pending")
    /\ work' = MadeStale(j, {})
    /\ UNCHANGED <<decided, saved, told, served, keyseen>>

-----------------------------------------------------------------------------
(* An attempt: runjob and Job.perform.                                     *)

(* Who has found the job and not committed yet when somebody takes it.     *)
Late(j) == {s \in Senders : decided[s] = "found" /\ told[s] = j}

(* Job.load and set_started, committed.                                    *)
Take(w, j) ==
    /\ work[w] = NoWork /\ job[j] = "enqueued"
    /\ Row(j, "started")
    /\ work' = [MadeStale(j, {w}) EXCEPT
                    ![w] = [NoWork EXCEPT !.job = j, !.at = "started"]]
    /\ overtaken' = overtaken \cup Late(j)
    /\ UNCHANGED <<decided, saved, told, served, applied, mark, touches>>

(* The first query of the method.                                          *)
Look(w) ==
    /\ work[w].at = "started"
    /\ work' = [work EXCEPT ![w].at = "working", ![w].sees = saved]
    /\ UNCHANGED <<job, decided, saved, told, served, keyseen>>

Rests(w, j) == work' = [MadeStale(j, {w}) EXCEPT ![w] = NoWork]

(* The effects of j are counted as long as it is clean.                    *)
Applied(j, S) ==
    /\ served' = served \cup S
    /\ applied' = IF mark[j] = "clean" THEN applied \cup {j} ELSE applied

(* The row is written while an attempt of somebody else than but has begun *)
(* and not looked at the database yet: that attempt will write over it.    *)
Hides(j, but) == \E w \in Executing(j) \ but : work[w].at = "started"

Mark(j, but, m) ==
    LET n == IF mark[j] = "hidden" \/ Hides(j, but) THEN "hidden" ELSE m IN
    /\ mark' = [mark EXCEPT ![j] = n]
    /\ applied' = IF n = "clean" THEN applied ELSE applied \ {j}

(* perform() returns: set_done and the effects in one commit.              *)
Succeed(w) ==
    LET j == work[w].job IN
    /\ work[w].at = "working" /\ ~ work[w].stale
    /\ Row(j, "done")
    /\ Applied(j, work[w].sees)
    /\ Rests(w, j)
    /\ UNCHANGED <<decided, saved, told, mark, touches, overtaken>>

(* Mutant of Postpone: the transaction is not rolled back.                 *)
PostponeSaved(w) ==
    LET j == work[w].job IN
    /\ work[w].at = "working"
    /\ Row(j, "pending")
    /\ Applied(j, work[w].sees)
    /\ Rests(w, j)
    /\ decided' = MadeLate
    /\ UNCHANGED <<saved, told, mark, touches, overtaken>>

(* A serialization failure, of the row or of the data: the transaction is  *)
(* lost, the job postponed.                                                *)
Postpone(w) ==
    LET j == work[w].job IN
    /\ work[w].at = "working"
    /\ Row(j, "pending")
    /\ Mark(j, {w}, mark[j])
    /\ Rests(w, j)
    /\ decided' = MadeLate
    /\ UNCHANGED <<saved, told, served, touches, overtaken>>

(* RetryableJobError.  The row is postponed in a transaction of its own;   *)
(* what the method has flushed so far, S, is committed when the request    *)
(* ends.  The last one that is allowed makes the job fail instead.         *)
RaiseRetryable(w) ==
    LET j == work[w].job IN
    /\ work[w].at = "working"
    /\ Row(j, "pending")
    /\ \E S \in {{}, work[w].sees} :
          /\ work' = [MadeStale(j, {w}) EXCEPT ![w] =
                        IF S = {} THEN NoWork
                        ELSE [NoWork EXCEPT !.job = j, !.at = "leaving", !.sees = S]]
          /\ Mark(j, {w}, IF S = {} THEN mark[j] ELSE "redone")
    /\ decided' = MadeLate
    /\ UNCHANGED <<saved, told, served, touches, overtaken>>

(* The request returns normally, and commits.                              *)
CommitLeft(w) ==
    /\ work[w].at = "leaving"
    /\ served' = served \cup work[w].sees
    /\ work' = [work EXCEPT ![w] = NoWork]
    /\ UNCHANGED <<job, decided, saved, told, keyseen>>

(* Any other exception, or the last retryable one: everything is rolled    *)
(* back, set_failed.                                                       *)
FailJob(w) ==
    LET j == work[w].job IN
    /\ work[w].at = "working"
    /\ Row(j, "failed")
    /\ Mark(j, {w}, mark[j])
    /\ Rests(w, j)
    /\ UNCHANGED <<decided, saved, told, served, touches, overtaken>>

(* The worker dies; the row stays as it is.                                *)
Die(w) ==
    /\ work[w] # NoWork
    /\ work' = [work EXCEPT ![w] = NoWork]
    /\ UNCHANGED <<job, decided, saved, told, served, keyseen>>

-----------------------------------------------------------------------------
(* Users: requeue and button_done, of any job, MaxTouches times.           *)

Touch(j) ==
    /\ touches < MaxTouches
    /\ touches' = touches + 1
    /\ Mark(j, {}, "redone")
    /\ work' = MadeStale(j, {})

RequeueJob(j) ==
    /\ job[j] # "none"
    /\ Row(j, "pending")
    /\ Touch(j)
    /\ decided' = MadeLate
    /\ UNCHANGED <<saved, told, served, overtaken>>

(* The work is done by hand, for all who rely on it.                       *)
SetDoneJob(j) ==
    /\ job[j] \notin {"none", "done"}
    /\ Row(j, "done")
    /\ Touch(j)
    /\ served' = served \cup {s \in saved : told[s] = j}
    /\ overtaken' = overtaken \cup Late(j)
    /\ UNCHANGED <<decided, saved, told>>

KeyNext ==
    \/ \E s \in Senders : Send(s) \/ CommitSend(s) \/ LoseSend(s)
    \/ \E j \in KeyJobs : \/ Dispatched(j) \/ TimedOut(j)
                          \/ RequeueJob(j) \/ SetDoneJob(j)
    \/ \E w \in Workers : \/ Look(w) \/ Succeed(w) \/ Postpone(w) \/ RaiseRetryable(w)
                          \/ CommitLeft(w) \/ FailJob(w) \/ Die(w)
                          \/ \E j \in KeyJobs : Take(w, j)

KeySpec == KeyInit /\ [][KeyNext]_keyvars

-----------------------------------------------------------------------------
(* "if ... a job with the same key has not yet been run, the new job will  *)
(* not be added": no row is inserted next to one that waits, unless the    *)
(* other one was made, or has come back, after the sender's search.        *)
OneWaits ==
    [][\A j \in KeyJobs : job[j] = "none" /\ job'[j] # "none" /\ Open # {} =>
           \E s \in Senders : decided[s] = "late" /\ decided'[s] = "over"]_keyvars

(* ... and it is safe not to insert it: when the job a sender relies on is *)
(* done, the sender's change was dealt with, through conflicts, retries    *)
(* and requests that are lost.  Unless a worker (or a user who sets it to  *)
(* done) took the job between the sender's search and its commit, or the   *)
(* row was made pending after set_started and before the first query of    *)
(* the method: the attempt writes over that, and nothing conflicts.        *)
NoChangeMissed ==
    \A s \in saved \ overtaken :
        job[told[s]] = "done" /\ mark[told[s]] # "hidden" => s \in served

(* The effects of a job are committed once: with its row, not by attempts  *)
(* that conflict, fail or die.  Unless a retryable error left some, or a   *)
(* user had the job done again.                                            *)
AppliedOnce ==
    \A j \in KeyJobs : mark[j] = "clean" => (job[j] = "done" <=> j \in applied)

=============================================================================
