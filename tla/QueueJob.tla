------------------------------- MODULE QueueJob -------------------------------
(***************************************************************************)
(* The life of the rows of table queue_job in one database: the runner     *)
(* thread, the HTTP requests it sends, the Odoo workers that serve them,   *)
(* the users and the two crons, all of which write the same rows.          *)
(*                                                                         *)
(* Sources: queue_job/jobrunner/runner.py, controllers/main.py, job.py,    *)
(* models/queue_job.py and the trigger of post_init_hook.py.  The channel  *)
(* manager is the abstract one of module JobView.                          *)
(***************************************************************************)
EXTENDS JobView

CONSTANTS
    Requests,   \* the HTTP requests that can be outstanding at once
    NoJob       \* not a job

ASSUME NoJobAssumption == NoJob \notin Jobs

VARIABLES
    (* the table *)
    state,      \* column "state"; "none" before the INSERT, "gone" after the DELETE
    eta,        \* the jobs whose column "eta" is in the future
    dated,      \* the jobs with a "date_done"; its age is not modelled
    (* the runner *)
    notes,      \* committed notifications the runner has not handled yet
    pc,         \* where QueueJobRunner.run is
    cur,        \* the job run_jobs is working on
    (* the requests *)
    about,      \* the job a request is about
    srv,        \* the server's side of a request
    cli,        \* "waiting": the thread of _async_http_get is still there
    loaded,     \* the requests whose Job object holds a "date_done"
    (* observation only, no action reads it *)
    overridden  \* jobs a user or the vacuum changed before they were settled

table    == <<state, eta, dated>>
runner   == <<view, notes, pc, cur>>
requests == <<about, srv, cli, loaded>>
vars     == <<table, runner, requests, overridden>>

Stored   == {"pending", "enqueued", "started", "done", "failed"}
NotDone  == {"pending", "enqueued", "started", "failed"}
Settled  == {"none", "done", "failed", "gone"}
PCs      == {"down", "listening", "notify", "run", "popped", "sending"}
Executes == {"started", "working", "conflicted"}
Servers  == {"free", "sent", "ok", "error"} \cup Executes

TypeOK ==
    /\ ViewTypeOK
    /\ state \in [Jobs -> Stored \cup {"none", "gone"}]
    /\ eta \in SUBSET Jobs
    /\ dated \in SUBSET Jobs
    /\ notes \in SUBSET Jobs
    /\ pc \in PCs
    /\ cur \in Jobs \cup {NoJob}
    /\ about \in [Requests -> Jobs \cup {NoJob}]
    /\ srv \in [Requests -> Servers]
    /\ cli \in [Requests -> {"idle", "waiting"}]
    /\ loaded \in SUBSET Requests
    /\ overridden \in SUBSET Jobs

Init ==
    /\ ViewInit
    /\ state = [j \in Jobs |-> "none"]
    /\ eta = {}
    /\ dated = {}
    /\ notes = {}
    /\ pc = "down"
    /\ cur = NoJob
    /\ about = [r \in Requests |-> NoJob]
    /\ srv = [r \in Requests |-> "free"]
    /\ cli = [r \in Requests |-> "idle"]
    /\ loaded = {}
    /\ overridden = {}

Up   == pc \in {"notify", "run", "popped", "sending"}
Busy == {j \in Jobs : state[j] \in {"enqueued", "started"}}

(* What ChannelManager.notify makes of a row; of a missing row,            *)
(* process_notifications makes remove_job.                                 *)
ViewOf(j) ==
    CASE state[j] \in {"none", "gone", "done"}  -> "absent"
      [] state[j] = "pending"                   -> IF j \in eta THEN "postponed" ELSE "waiting"
      [] state[j] \in {"enqueued", "started"}   -> "running"
      [] state[j] = "failed"                    -> "failed"

Executing(r) == srv[r] \in Executes
ExecutedBy(r, j) == Executing(r) /\ about[r] = j

-----------------------------------------------------------------------------
(* Writing a row.                                                          *)

(* Mutant of NotifyDelete: the trigger is on INSERT and UPDATE only.       *)
DeleteUnnoticed(j) == notes' = notes

(* The trigger notifies every INSERT and UPDATE, and the DELETE of a row   *)
(* that is not done; nobody listens while the runner is down.              *)
Notify(j) == notes' = IF pc = "down" THEN notes ELSE notes \cup {j}
NotifyDelete(j) == IF state[j] = "done" THEN notes' = notes ELSE Notify(j)

(* A committed write is a conflict for the transactions whose snapshot is  *)
(* older (REPEATABLE READ): they cannot write this row any more.           *)
Conflict(s, j) ==
    [r \in Requests |-> IF s[r] = "working" /\ about[r] = j THEN "conflicted" ELSE s[r]]

Override(j) == overridden' = IF state[j] \in Settled THEN overridden ELSE overridden \cup {j}

SetState(j, s) == state' = [state EXCEPT ![j] = s]

-----------------------------------------------------------------------------
(* Users and crons.                                                        *)

(* Job.enqueue: with_delay(), with or without an eta.                      *)
Create(j) ==
    /\ state[j] = "none"
    /\ SetState(j, "pending")
    /\ eta' \in {eta, eta \cup {j}}
    /\ Notify(j)
    /\ UNCHANGED <<dated, view, pc, cur, requests, overridden>>

(* button_done and the wizard "Set all selected jobs to done": any row.    *)
ButtonDone(j) ==
    /\ state[j] \in Stored
    /\ SetState(j, "done")
    /\ dated' = dated \cup {j}
    /\ Notify(j)
    /\ srv' = Conflict(srv, j)
    /\ Override(j)
    /\ UNCHANGED <<eta, view, pc, cur, about, cli, loaded>>

(* requeue and the wizard "Requeue Jobs": any row; eta and date_done stay. *)
Requeue(j) ==
    /\ state[j] \in Stored
    /\ SetState(j, "pending")
    /\ Notify(j)
    /\ srv' = Conflict(srv, j)
    /\ Override(j)
    /\ UNCHANGED <<eta, dated, view, pc, cur, about, cli, loaded>>

(* autovacuum, daily: every row with an old date_done, whatever its state; *)
(* the removal interval may be over at any time after the job was done.    *)
Autovacuum(j) ==
    /\ state[j] \in Stored /\ j \in dated
    /\ SetState(j, "gone")
    /\ eta' = eta \ {j}
    /\ dated' = dated \ {j}
    /\ NotifyDelete(j)
    /\ srv' = Conflict(srv, j)
    /\ Override(j)
    /\ UNCHANGED <<view, pc, cur, about, cli, loaded>>

(* Mutant of RequeueStuck: started jobs are taken for stuck ones as well.  *)
RequeueStarted(j) ==
    /\ state[j] \in {"enqueued", "started"}
    /\ ~ (pc = "sending" /\ cur = j)
    /\ \A r \in Requests : about[r] = j => cli[r] = "idle"
    /\ SetState(j, "pending")
    /\ Notify(j)
    /\ srv' = Conflict(srv, j)
    /\ UNCHANGED <<eta, dated, view, pc, cur, about, cli, loaded, overridden>>

(* Mutant of RequeueStuck: enqueued_delta is 0, the cron does nothing.     *)
RequeueOff(j) == j \notin Jobs /\ UNCHANGED vars

(* requeue_stuck_jobs(enqueued_delta=5, started_delta=0), every 5 minutes. *)
(* A row enqueued for 5 minutes is older than the 1 second timeout of the  *)
(* thread that was to send its request.                                    *)
RequeueStuck(j) ==
    /\ state[j] = "enqueued"
    /\ ~ (pc = "sending" /\ cur = j)
    /\ \A r \in Requests : about[r] = j => cli[r] = "idle"
    /\ SetState(j, "pending")
    /\ Notify(j)
    /\ srv' = Conflict(srv, j)
    /\ UNCHANGED <<eta, dated, view, pc, cur, about, cli, loaded, overridden>>

(* The clock reaches the eta of j.                                         *)
EtaReached(j) ==
    /\ j \in eta
    /\ eta' = eta \ {j}
    /\ ViewDue({j})
    /\ UNCHANGED <<state, dated, notes, pc, cur, requests, overridden>>

-----------------------------------------------------------------------------
(* The runner.                                                             *)

(* initialize_databases, Database._initialize: LISTEN comes first ...      *)
Listen ==
    /\ pc = "down"
    /\ pc' = "listening"
    /\ UNCHANGED <<table, view, notes, cur, requests, overridden>>

(* Mutant of LoadJobs: the SELECT is limited to the pending rows.          *)
LoadPending ==
    /\ pc = "listening"
    /\ view' = [j \in Jobs |-> IF state[j] = "pending" THEN ViewOf(j) ELSE view[j]]
    /\ pc' = "notify"
    /\ UNCHANGED <<table, notes, cur, requests, overridden>>

(* ... then one SELECT of the rows that are not done.                      *)
LoadJobs ==
    /\ pc = "listening"
    /\ view' = [j \in Jobs |-> IF state[j] \in NotDone THEN ViewOf(j) ELSE view[j]]
    /\ pc' = "notify"
    /\ UNCHANGED <<table, notes, cur, requests, overridden>>

(* process_notifications: the row is read again, its present state counts. *)
HandleNote(j) ==
    /\ pc = "notify" /\ j \in notes
    /\ notes' = notes \ {j}
    /\ ViewNotify(j, ViewOf(j))
    /\ UNCHANGED <<table, pc, cur, requests, overridden>>

(* The notifications received were all handled; others may be on the wire. *)
BeginRun ==
    /\ pc = "notify"
    /\ pc' = "run"
    /\ UNCHANGED <<table, view, notes, cur, requests, overridden>>

(* run_jobs takes the next job of get_jobs_to_run ...                      *)
Dispatch(j) ==
    /\ pc = "run"
    /\ ViewDispatch(j)
    /\ pc' = "popped" /\ cur' = j
    /\ UNCHANGED <<table, notes, requests, overridden>>

(* ... set_job_enqueued: UPDATE ... WHERE uuid, without a look at state ... *)
SetEnqueued ==
    /\ pc = "popped"
    /\ pc' = "sending"
    /\ IF state[cur] \in Stored
       THEN /\ SetState(cur, "enqueued")
            /\ Notify(cur)
            /\ srv' = Conflict(srv, cur)
       ELSE UNCHANGED <<state, notes, srv>>
    /\ UNCHANGED <<eta, dated, view, cur, about, cli, loaded, overridden>>

(* ... _async_http_get: a thread of its own sends the request.             *)
SendRequest(r) ==
    /\ pc = "sending" /\ srv[r] = "free"
    /\ about' = [about EXCEPT ![r] = cur]
    /\ srv' = [srv EXCEPT ![r] = "sent"]
    /\ cli' = [cli EXCEPT ![r] = "waiting"]
    /\ pc' = "run" /\ cur' = NoJob
    /\ UNCHANGED <<table, view, notes, loaded, overridden>>

(* get_jobs_to_run is exhausted; wait_notification.                        *)
EndRun ==
    /\ pc = "run"
    /\ \A j \in Jobs : ~ CanDispatch(j)
    /\ pc' = "notify"
    /\ UNCHANGED <<table, view, notes, cur, requests, overridden>>

(* An exception anywhere in the loop: close_databases, then start again.   *)
RunnerError ==
    /\ pc # "down"
    /\ pc' = "down" /\ cur' = NoJob
    /\ notes' = {}
    /\ ViewClear
    /\ UNCHANGED <<table, requests, overridden>>

(* The process of the runner ends, and the threads of its requests with it. *)
RunnerKilled ==
    /\ pc' = "down" /\ cur' = NoJob
    /\ notes' = {}
    /\ ViewClear
    /\ cli' = [r \in Requests |-> "idle"]
    /\ srv' = [r \in Requests |-> IF srv[r] \in {"ok", "error"} THEN "free" ELSE srv[r]]
    /\ about' = [r \in Requests |-> IF srv[r] \in {"ok", "error"} THEN NoJob ELSE about[r]]
    /\ UNCHANGED <<table, loaded, overridden>>

-----------------------------------------------------------------------------
(* The threads of _async_http_get.                                         *)

(* The thread of r ends; r is free once the server is done with it too.    *)
ThreadEnds(r) ==
    /\ cli[r] = "waiting"
    /\ cli' = [cli EXCEPT ![r] = "idle"]
    /\ about' = IF srv[r] \in {"ok", "error"} THEN [about EXCEPT ![r] = NoJob] ELSE about

FreeIfAnswered(s, r) == IF s[r] \in {"ok", "error"} THEN [s EXCEPT ![r] = "free"] ELSE s

(* Mutant of ResetAndEnd: the UPDATE lacks its "AND state = 'enqueued'".   *)
ResetBlindly(r) ==
    /\ ThreadEnds(r)
    /\ IF state[about[r]] \in Stored
       THEN /\ SetState(about[r], "pending")
            /\ Notify(about[r])
            /\ srv' = FreeIfAnswered(Conflict(srv, about[r]), r)
       ELSE /\ srv' = FreeIfAnswered(srv, r)
            /\ UNCHANGED <<state, notes>>
    /\ UNCHANGED <<eta, dated, view, pc, cur, loaded, overridden>>

(* set_job_pending: UPDATE ... WHERE uuid AND state = 'enqueued'.          *)
ResetAndEnd(r) ==
    /\ ThreadEnds(r)
    /\ IF state[about[r]] = "enqueued"
       THEN /\ SetState(about[r], "pending")
            /\ Notify(about[r])
            /\ srv' = FreeIfAnswered(Conflict(srv, about[r]), r)
       ELSE /\ srv' = FreeIfAnswered(srv, r)
            /\ UNCHANGED <<state, notes>>
    /\ UNCHANGED <<eta, dated, view, pc, cur, loaded, overridden>>

(* The answer came within the second.                                      *)
Answered(r) ==
    /\ srv[r] = "ok"
    /\ ThreadEnds(r)
    /\ srv' = FreeIfAnswered(srv, r)
    /\ UNCHANGED <<table, view, notes, pc, cur, loaded, overridden>>

(* raise_for_status, or any other exception of requests.get.               *)
AnsweredError(r) == srv[r] = "error" /\ ResetAndEnd(r)

(* requests.Timeout while the job executes: the usual case.                *)
Timeout(r) == Executing(r) /\ ResetAndEnd(r)

(* requests.Timeout before the server looked at the request.               *)
TimeoutUnserved(r) == srv[r] = "sent" /\ ResetAndEnd(r)

-----------------------------------------------------------------------------
(* The workers: RunJobController.runjob.                                   *)

(* r's worker is through: the thread that waits gets the answer.           *)
Reply(s, r, answer) ==
    /\ srv' = [s EXCEPT ![r] = IF cli[r] = "waiting" THEN answer ELSE "free"]
    /\ about' = [about EXCEPT ![r] = IF cli[r] = "waiting" THEN @ ELSE NoJob]
    /\ loaded' = loaded \ {r}

(* The "date_done" that r's Job object stores: the one it has loaded, or   *)
(* set_done's.  set_done comes before the UPDATE that may fail, and after  *)
(* the failure retry_postpone and set_failed store the same object.        *)
Dates(r, s) ==
    LET with == dated \cup {about[r]} IN
    IF s = "done" \/ r \in loaded THEN {with} ELSE {with, dated \ {about[r]}}

(* Mutant of Store: the new state of the row is not notified.              *)
StoreSilently(r, s) ==
    /\ SetState(about[r], s)
    /\ dated' \in Dates(r, s)
    /\ notes' = notes

(* Job.store(): every column of r's Job object over whatever the row holds *)
(* now; a row that is gone is inserted again.                              *)
Store(r, s) ==
    /\ SetState(about[r], s)
    /\ dated' \in Dates(r, s)
    /\ Notify(about[r])

(* Mutant of Start: the SELECT lacks its "AND state = 'enqueued'".         *)
StartAnyway(r) ==
    /\ srv[r] = "sent" /\ state[about[r]] \in Stored
    /\ SetState(about[r], "started")
    /\ Notify(about[r])
    /\ srv' = [Conflict(srv, about[r]) EXCEPT ![r] = "started"]
    /\ loaded' = IF about[r] \in dated THEN loaded \cup {r} ELSE loaded
    /\ UNCHANGED <<eta, dated, view, pc, cur, about, cli, overridden>>

(* SELECT ... WHERE state = 'enqueued' FOR UPDATE, Job.load, set_started,  *)
(* store and commit: one transaction under the lock of the row.            *)
Start(r) ==
    /\ srv[r] = "sent" /\ state[about[r]] = "enqueued"
    /\ SetState(about[r], "started")
    /\ Notify(about[r])
    /\ srv' = [Conflict(srv, about[r]) EXCEPT ![r] = "started"]
    /\ loaded' = IF about[r] \in dated THEN loaded \cup {r} ELSE loaded
    /\ UNCHANGED <<eta, dated, view, pc, cur, about, cli, overridden>>

(* The row is missing or not enqueued: nothing to run.                     *)
Refuse(r) ==
    /\ srv[r] = "sent" /\ state[about[r]] # "enqueued"
    /\ Reply(srv, r, "ok")
    /\ UNCHANGED <<table, runner, cli, overridden>>

(* The first query of the method takes the snapshot of its transaction.    *)
BeginWork(r) ==
    /\ srv[r] = "started"
    /\ srv' = [srv EXCEPT ![r] = "working"]
    /\ UNCHANGED <<table, runner, about, cli, loaded, overridden>>

(* store() writes the eta that Job.load has read.  It is past, unless the  *)
(* job was made enqueued before its time (SetEnqueued); an eta the row got *)
(* since then is overwritten.                                              *)
KeepEta(r) == eta' \in {eta, eta \ {about[r]}}

(* perform() returns or raises NothingToDoJob: set_done, store, commit.    *)
Succeed(r) ==
    /\ srv[r] \in {"started", "working"}
    /\ Store(r, "done")
    /\ KeepEta(r)
    /\ Reply(Conflict(srv, about[r]), r, "ok")
    /\ UNCHANGED <<view, pc, cur, cli, overridden>>

(* retry_postpone, in a transaction of its own.                            *)
RetryPostpone(r) ==
    /\ Store(r, "pending")
    /\ eta' = eta \cup {about[r]}
    /\ Reply(Conflict(srv, about[r]), r, "ok")
    /\ UNCHANGED <<view, pc, cur, cli, overridden>>

(* perform() raises RetryableJobError or a serialization failure.          *)
Retry(r) == Executing(r) /\ RetryPostpone(r)

(* perform() returned, but the UPDATE of the row fails to serialize.       *)
ConflictRetry(r) == srv[r] = "conflicted" /\ RetryPostpone(r) /\ about[r] \in dated'

(* NothingToDoJob, then the same failure, in the except clause: it leaves  *)
(* the controller and the row stays as it is.                              *)
ConflictLost(r) ==
    /\ srv[r] = "conflicted"
    /\ Reply(srv, r, "error")
    /\ UNCHANGED <<table, runner, cli, overridden>>

(* Mutant of Fail: the word of the answer is stored as the state.          *)
FailAsError(r) ==
    /\ Executing(r)
    /\ Store(r, "error")
    /\ KeepEta(r)
    /\ Reply(Conflict(srv, about[r]), r, "error")
    /\ UNCHANGED <<view, pc, cur, cli, overridden>>

(* Any other exception: set_failed, in a transaction of its own.           *)
Fail(r) ==
    /\ Executing(r)
    /\ Store(r, "failed")
    /\ KeepEta(r)
    /\ Reply(Conflict(srv, about[r]), r, "error")
    /\ UNCHANGED <<view, pc, cur, cli, overridden>>

(* The connection is refused, or the worker is killed: rolled back.        *)
Abort(r) ==
    /\ srv[r] = "sent" \/ Executing(r)
    /\ Reply(srv, r, "error")
    /\ UNCHANGED <<table, runner, cli, overridden>>

-----------------------------------------------------------------------------
(* The runner, the threads, the workers and the garbage collector.         *)
RunnerStep ==
    \/ Listen \/ LoadJobs \/ BeginRun \/ SetEnqueued \/ EndRun
    \/ \E j \in Jobs : HandleNote(j) \/ Dispatch(j)
    \/ \E r \in Requests : SendRequest(r)

ThreadStep(r) == Answered(r) \/ AnsweredError(r) \/ Timeout(r)

Finish(r) == Succeed(r) \/ ConflictRetry(r) \/ ConflictLost(r) \/ Fail(r)

WorkerStep(r) == Start(r) \/ Refuse(r) \/ BeginWork(r) \/ Finish(r)

System ==
    \/ RunnerStep
    \/ \E r \in Requests : ThreadStep(r) \/ WorkerStep(r)
    \/ \E j \in Jobs : RequeueStuck(j) \/ EtaReached(j)

(* What the users, the jobs' own errors and the machines do.               *)
Faults ==
    \/ \E j \in Jobs : ButtonDone(j) \/ Requeue(j) \/ Autovacuum(j)
    \/ \E r \in Requests : TimeoutUnserved(r) \/ Retry(r) \/ Abort(r)
    \/ RunnerError \/ RunnerKilled

Creation == \E j \in Jobs : Create(j)

Next == System \/ Creation \/ Faults

Spec == Init /\ [][Next]_vars

(* The runner's loop and the threads keep going; the network delivers each *)
(* notification some day (SF: the runner listens again and again); a       *)
(* server in service takes every request and its jobs end; the crons run.  *)
(* Nothing is assumed of Creation and Faults.                              *)
Fairness ==
    /\ WF_vars(Listen) /\ WF_vars(LoadJobs)
    /\ WF_vars(BeginRun) /\ WF_vars(EndRun)
    /\ \A j \in Jobs : SF_vars(HandleNote(j))
    /\ WF_vars(\E j \in Jobs : Dispatch(j))
    /\ WF_vars(SetEnqueued)
    /\ WF_vars(\E r \in Requests : SendRequest(r))
    /\ \A r \in Requests : /\ WF_vars(ThreadStep(r))
                           /\ WF_vars(Start(r) \/ Refuse(r))
                           /\ WF_vars(Finish(r))
    /\ \A j \in Jobs : WF_vars(RequeueStuck(j)) /\ WF_vars(EtaReached(j))

-----------------------------------------------------------------------------
(* Safety.                                                                 *)

(* No notification is lost: while the runner works, what it remembers of a *)
(* job is what the row asks for, unless a notification of that job is      *)
(* still to be handled or run_jobs holds the job (LISTEN before SELECT in  *)
(* initialize_databases, the trigger on every write, the second read of    *)
(* the row in process_notifications).                                      *)
ViewAgrees ==
    Up => \A j \in Jobs : \/ j \in notes
                          \/ pc = "popped" /\ cur = j
                          \/ view[j] = ViewOf(j)

(* The rows enqueued or started never exceed the capacity of the root      *)
(* channel, across restarts of the runner, timeouts of requests, retries   *)
(* and whatever the users press: this is what a restarted runner finds.    *)
BusyWithinCapacity == Cardinality(Busy) <= Capacity

(* Why: the strengthening of the two invariants above that every step of   *)
(* the runner, the requests and the users preserves.                       *)
RunnerHolds ==
    /\ pc \in {"popped", "sending"} => view[cur] = "running"
    /\ pc = "popped" => /\ cur \in notes \/ state[cur] = "pending"
                        /\ cur \notin Busy

AbsentWhenDown == ~ Up => \A j \in Jobs : view[j] = "absent"

BusyIsRunning == Up => Busy \subseteq Running

ManagerInv ==
    /\ ViewAgrees
    /\ RunnerHolds
    /\ AbsentWhenDown
    /\ BusyIsRunning
    /\ Cardinality(Running) <= Capacity
    /\ BusyWithinCapacity

(* Unless someone changed the job while it was in progress, one worker at  *)
(* most executes it, and its row says so: a request that comes late, after *)
(* a timeout, a reset and a second request, finds the row started.         *)
OneExecution ==
    \A r \in Requests :
        Executing(r) /\ about[r] \notin overridden =>
            /\ state[about[r]] = "started"
            /\ \A q \in Requests : ExecutedBy(q, about[r]) => q = r

(* A job that is done, and was not changed while it was in progress, is    *)
(* never run again unless someone requeues it; only the vacuum removes it. *)
DoneIsFinal ==
    [][\A j \in Jobs : state[j] = "done" /\ j \notin overridden =>
           state'[j] \in {"done", "gone"} \/ Requeue(j)]_vars

(* The same for every job, as job.py says: "The start state is pending and *)
(* the final state is done".                                               *)
DoneIsAlwaysFinal ==
    [][\A j \in Jobs : state[j] = "done" =>
           state'[j] \in {"done", "gone"} \/ Requeue(j)]_vars

(* autovacuum: "Delete all jobs done".                                     *)
OnlyDoneDeleted ==
    [][\A j \in Jobs : state[j] # "gone" /\ state'[j] = "gone" => state[j] = "done"]_vars

-----------------------------------------------------------------------------
(* Liveness.                                                               *)
Executors(j) == {r \in Requests : ExecutedBy(r, j)}

(* A started job whose worker is dead: the caveat of runner.py's docstring. *)
Stalled(j) == state[j] = "started" /\ Executors(j) = {}

(* Every pending job is settled some day, whatever timed out, crashed or   *)
(* was retried on the way, unless the worker of some started job died:     *)
(* such a job fills the running queue until a user requeues it.  Nothing   *)
(* is claimed once a job was requeued while it runs: its two workers then  *)
(* fail to serialize in turn, and each conflict postpones the job again.   *)
PendingSettles ==
    \A j \in Jobs :
        state[j] = "pending" ~> \/ state[j] \in Settled
                               \/ \E k \in Jobs : Stalled(k)
                               \/ overridden # {}

(* No job stays enqueued: it is started, or the thread that timed out or   *)
(* the cron requeue_stuck_jobs makes it pending again, even when a worker  *)
(* or the runner died with the request.                                    *)
EnqueuedMoves ==
    \A j \in Jobs : state[j] = "enqueued" ~> state[j] # "enqueued"

-----------------------------------------------------------------------------
(* The abstract life of a job, which every job follows until someone       *)
(* changes it while it is in progress.                                     *)
Phase(j) ==
    CASE j \in overridden                                     -> "free"
      [] j \notin overridden /\ Executors(j) = {}             -> 
             IF state[j] = "started" THEN "stalled" ELSE state[j]
      [] j \notin overridden /\ Executors(j) # {}             ->
             IF state[j] = "started" /\ Cardinality(Executors(j)) = 1
             THEN "executing" ELSE "astray"

Life == INSTANCE JobLifecycle WITH phase <- [j \in Jobs |-> Phase(j)]

FollowsLifecycle == Life!Spec
=============================================================================
