---------------------------- MODULE QueueJob_proofs ----------------------------
(***************************************************************************)
(* Theorems about module QueueJob, for every set of jobs and of requests   *)
(* and every capacity of the root channel.                                 *)
(***************************************************************************)
EXTENDS QueueJob, FiniteSetTheorems, TLAPS

(* A request that is not free is about a job, and so is a thread that waits. *)
RequestsOK ==
    \A r \in Requests : /\ srv[r] # "free" => about[r] \in Jobs
                        /\ cli[r] = "waiting" => srv[r] # "free"

(* run_jobs holds a job between get_jobs_to_run and the request.           *)
CurOK == pc \in {"popped", "sending"} => cur \in Jobs

TypeInv == TypeOK /\ RequestsOK /\ CurOK

(* A conflict leaves the servers' sides well typed.                        *)
LEMMA ConflictType ==
    ASSUME NEW s \in [Requests -> Servers], NEW j
    PROVE  /\ Conflict(s, j) \in [Requests -> Servers]
           /\ \A r \in Requests : Conflict(s, j)[r] = "free" <=> s[r] = "free"
  BY DEF Conflict, Servers, Executes

-----------------------------------------------------------------------------
(* Type correctness.                                                       *)

(* Types: the initial state.                                               *)
LEMMA TypeInit == Init => TypeInv
  BY DEF Init, ViewInit, TypeInv, TypeOK, ViewTypeOK, Views, RequestsOK, CurOK,
         PCs, Servers

(* Types: the steps of users, crons and the clock.                         *)
LEMMA TypeUsers ==
    ASSUME TypeInv, NEW j \in Jobs,
           Create(j) \/ ButtonDone(j) \/ Requeue(j) \/ Autovacuum(j)
             \/ RequeueStuck(j) \/ EtaReached(j)
    PROVE  TypeInv'
  <1> USE DEF TypeInv, TypeOK, ViewTypeOK, RequestsOK, CurOK, SetState, Notify, requests, Stored
  <1>1. CASE Create(j)
    BY <1>1 DEF Create
  <1>2. CASE ButtonDone(j)
    BY <1>2, ConflictType DEF ButtonDone, Override
  <1>3. CASE Requeue(j)
    BY <1>3, ConflictType DEF Requeue, Override
  <1>4. CASE Autovacuum(j)
    BY <1>4, ConflictType DEF Autovacuum, Override, NotifyDelete
  <1>5. CASE RequeueStuck(j)
    BY <1>5, ConflictType DEF RequeueStuck
  <1>6. CASE EtaReached(j)
    BY <1>6 DEF EtaReached, ViewDue, Views
  <1> QED
    BY <1>1, <1>2, <1>3, <1>4, <1>5, <1>6

(* Types: the steps of the runner.                                         *)
LEMMA TypeRunner ==
    ASSUME TypeInv, RunnerStep \/ RunnerError \/ RunnerKilled
    PROVE  TypeInv'
  <1> USE DEF TypeInv, TypeOK, ViewTypeOK, RequestsOK, CurOK, SetState, Notify,
              requests, table, PCs
  <1>1. \A j \in Jobs : ViewOf(j) \in Views
    BY DEF ViewOf, Views, Stored
  <1>2. CASE Listen
    BY <1>2 DEF Listen
  <1>3. CASE LoadJobs
    BY <1>1, <1>3 DEF LoadJobs
  <1>4. CASE BeginRun
    BY <1>4 DEF BeginRun
  <1>5. CASE SetEnqueued
    <2>1. cur \in Jobs
      BY <1>5 DEF SetEnqueued
    <2> QED
      BY <1>5, <2>1, ConflictType DEF SetEnqueued, Stored
  <1>6. CASE EndRun
    BY <1>6 DEF EndRun
  <1>7. ASSUME NEW j \in Jobs, HandleNote(j)
        PROVE  TypeInv'
    BY <1>1, <1>7 DEF HandleNote, ViewNotify
  <1>8. ASSUME NEW j \in Jobs, Dispatch(j)
        PROVE  TypeInv'
    BY <1>8 DEF Dispatch, ViewDispatch, Views
  <1>9. ASSUME NEW r \in Requests, SendRequest(r)
        PROVE  TypeInv'
    BY <1>9 DEF SendRequest, Servers
  <1>10. CASE RunnerError
    BY <1>10 DEF RunnerError, ViewClear, Views
  <1>11. CASE RunnerKilled
    BY <1>11 DEF RunnerKilled, ViewClear, Views, Servers
  <1> QED
    BY <1>2, <1>3, <1>4, <1>5, <1>6, <1>7, <1>8, <1>9, <1>10, <1>11 DEF RunnerStep

(* Types: the steps of the request threads.                                *)
LEMMA TypeThreads ==
    ASSUME TypeInv, NEW r \in Requests, ThreadStep(r) \/ TimeoutUnserved(r)
    PROVE  TypeInv'
  <1> USE DEF TypeInv, TypeOK, ViewTypeOK, RequestsOK, CurOK, requests, table
  <1>1. CASE Answered(r)
    BY <1>1 DEF Answered, ThreadEnds, FreeIfAnswered, Servers
  <1>2. CASE ResetAndEnd(r)
    <2>1. about[r] \in Jobs
      BY <1>2 DEF ResetAndEnd, ThreadEnds
    <2>2. CASE state[about[r]] = "enqueued"
      <3> DEFINE c == Conflict(srv, about[r])
      <3>1. /\ c \in [Requests -> Servers]
            /\ \A q \in Requests : c[q] = "free" <=> srv[q] = "free"
        BY ConflictType
      <3>2. /\ state' = [state EXCEPT ![about[r]] = "pending"]
            /\ notes' \in SUBSET Jobs
            /\ srv' = FreeIfAnswered(c, r)
            /\ UNCHANGED <<eta, dated, view, pc, cur, loaded, overridden>>
        BY <1>2, <2>1, <2>2 DEF ResetAndEnd, SetState, Notify
      <3>3. \A q \in Requests : c[q] \in {"ok", "error"} <=> srv[q] \in {"ok", "error"}
        BY DEF Conflict
      <3> HIDE DEF c
      <3>4. /\ srv' \in [Requests -> Servers]
            /\ about' \in [Requests -> Jobs \cup {NoJob}]
            /\ cli' \in [Requests -> {"idle", "waiting"}]
            /\ RequestsOK'
        BY <1>2, <2>1, <3>1, <3>2, <3>3 DEF ResetAndEnd, ThreadEnds, FreeIfAnswered, Servers
      <3> QED
        BY <2>1, <3>2, <3>4 DEF Stored
    <2>3. CASE state[about[r]] # "enqueued"
      BY <1>2, <2>3 DEF ResetAndEnd, ThreadEnds, FreeIfAnswered, Servers
    <2> QED
      BY <2>2, <2>3
  <1> QED
    BY <1>1, <1>2 DEF ThreadStep, AnsweredError, Timeout, TimeoutUnserved

(* What Reply leaves of the requests.                                      *)
LEMMA ReplyType ==
    ASSUME TypeInv, NEW r \in Requests, srv[r] # "free",
           NEW s \in [Requests -> Servers],
           \A q \in Requests : s[q] = "free" <=> srv[q] = "free",
           NEW answer \in {"ok", "error"},
           Reply(s, r, answer), UNCHANGED cli
    PROVE  /\ srv' \in [Requests -> Servers]
           /\ about' \in [Requests -> Jobs \cup {NoJob}]
           /\ loaded' \in SUBSET Requests
           /\ RequestsOK'
  BY DEF Reply, TypeInv, TypeOK, RequestsOK, Servers

(* Types: the steps of the workers.                                        *)
LEMMA TypeWorkers ==
    ASSUME TypeInv, NEW r \in Requests, WorkerStep(r) \/ Retry(r) \/ Abort(r)
    PROVE  TypeInv'
  <1> DEFINE j == about[r]
             c == Conflict(srv, j)
  <1>1. srv[r] # "free" /\ j \in Jobs
    BY DEF WorkerStep, Start, Refuse, BeginWork, Finish, Succeed, ConflictRetry,
           ConflictLost, Fail, Retry, Abort, Executing, Executes, TypeInv, RequestsOK
  <1>2. /\ srv \in [Requests -> Servers]
        /\ c \in [Requests -> Servers]
        /\ \A q \in Requests : c[q] = "free" <=> srv[q] = "free"
    BY ConflictType DEF TypeInv, TypeOK
  <1>3. ASSUME NEW s \in {"pending", "done", "failed"}, NEW answer \in {"ok", "error"},
               Store(r, s), Reply(c, r, answer),
               eta' = eta \cup {j} \/ eta' = eta \ {j},
               UNCHANGED <<view, pc, cur, cli, overridden>>
        PROVE  TypeInv'
    <2>1. /\ state' \in [Jobs -> Stored \cup {"none", "gone"}]
          /\ dated' \in SUBSET Jobs /\ notes' \in SUBSET Jobs /\ eta' \in SUBSET Jobs
      BY <1>1, <1>3 DEF Store, Dates, SetState, Notify, TypeInv, TypeOK, Stored
    <2> HIDE DEF c
    <2>2. /\ srv' \in [Requests -> Servers]
          /\ about' \in [Requests -> Jobs \cup {NoJob}]
          /\ loaded' \in SUBSET Requests
          /\ RequestsOK'
      BY <1>1, <1>2, <1>3, ReplyType
    <2> QED
      BY <2>1, <2>2, <1>3 DEF TypeInv, TypeOK, ViewTypeOK, CurOK
  <1>4. ASSUME NEW answer \in {"ok", "error"}, Reply(srv, r, answer),
               UNCHANGED <<table, runner, cli, overridden>>
        PROVE  TypeInv'
    <2>1. /\ srv' \in [Requests -> Servers]
          /\ about' \in [Requests -> Jobs \cup {NoJob}]
          /\ loaded' \in SUBSET Requests
          /\ RequestsOK'
      BY <1>1, <1>2, <1>4, ReplyType
    <2> QED
      BY <2>1, <1>4 DEF TypeInv, TypeOK, ViewTypeOK, CurOK, table, runner
  <1>5. CASE Start(r)
    BY <1>1, <1>2, <1>5
       DEF Start, SetState, Notify, TypeInv, TypeOK, ViewTypeOK, RequestsOK, CurOK,
           Stored, Servers, Executes
  <1>6. CASE BeginWork(r)
    BY <1>6 DEF BeginWork, TypeInv, TypeOK, ViewTypeOK, RequestsOK, CurOK, table,
                runner, Servers, Executes
  <1>7. CASE Refuse(r) \/ ConflictLost(r) \/ Abort(r)
    BY <1>4, <1>7 DEF Refuse, ConflictLost, Abort
  <1>8. CASE Succeed(r) \/ ConflictRetry(r) \/ Fail(r) \/ Retry(r)
    BY <1>3, <1>8 DEF Succeed, ConflictRetry, Fail, Retry, RetryPostpone, KeepEta
  <1> QED
    BY <1>5, <1>6, <1>7, <1>8 DEF WorkerStep, Finish

(* Types: every step.                                                      *)
LEMMA TypeNext == TypeInv /\ [Next]_vars => TypeInv'
  <1> SUFFICES ASSUME TypeInv, [Next]_vars PROVE TypeInv'
    OBVIOUS
  <1>1. CASE UNCHANGED vars
    BY <1>1 DEF TypeInv, TypeOK, ViewTypeOK, RequestsOK, CurOK, vars, table, runner,
                requests
  <1>2. CASE System
    BY <1>2, TypeRunner, TypeThreads, TypeWorkers, TypeUsers DEF System
  <1>3. CASE Creation
    BY <1>3, TypeUsers DEF Creation
  <1>4. CASE Faults
    BY <1>4, TypeRunner, TypeThreads, TypeWorkers, TypeUsers DEF Faults
  <1> QED
    BY <1>1, <1>2, <1>3, <1>4 DEF Next

(* The variables keep their types: a request that is served, or whose      *)
(* thread waits, is always about a job.                                    *)
THEOREM TypeCorrect == Spec => []TypeOK
  <1>1. Spec => []TypeInv
    BY TypeInit, TypeNext, PTL DEF Spec
  <1>2. TypeInv => TypeOK
    BY DEF TypeInv
  <1> QED
    BY <1>1, <1>2, PTL

-----------------------------------------------------------------------------
(* No notification is lost, and the rows in progress fit in the root       *)
(* channel.  ManagerInv is inductive relative to TypeInv.                  *)

IInv == TypeInv /\ ManagerInv

(* A subset of a finite set of jobs has no more elements.                  *)
LEMMA SubsetCard ==
    ASSUME NEW S \in SUBSET Jobs, NEW T \in SUBSET S, Cardinality(S) <= Capacity
    PROVE  Cardinality(T) <= Capacity
  BY JobsFinite, CapacityPositive, FS_Subset, FS_CardinalityType

(* The manager: the initial state.                                         *)
LEMMA ManagerInit == Init => ManagerInv
  <1> SUFFICES ASSUME Init PROVE ManagerInv
    OBVIOUS
  <1>1. Running = {} /\ Busy = {}
    BY DEF Init, ViewInit, Running, Busy
  <1> QED
    BY <1>1, FS_EmptySet, CapacityPositive
       DEF Init, ViewInit, ManagerInv, ViewAgrees, RunnerHolds, AbsentWhenDown,
           BusyIsRunning, BusyWithinCapacity, Up

(* Whoever writes the row of j and leaves the runner alone: the write is   *)
(* notified, unless it deletes a row that is done, and it does not make j  *)
(* busy.                                                                   *)
LEMMA RowWritten ==
    ASSUME IInv, NEW j \in Jobs, UNCHANGED <<view, pc, cur>>,
           \A k \in Jobs \ {j} : state'[k] = state[k] /\ (k \in eta' <=> k \in eta),
           notes \subseteq notes',
           \/ j \in notes'
           \/ pc = "down"
           \/ state[j] = "done" /\ state'[j] = "gone",
           state'[j] \in {"enqueued", "started"} => j \in Busy
    PROVE  ManagerInv'
  <1> USE DEF IInv, ManagerInv
  <1>1. Busy' \subseteq Busy /\ Running' = Running
    BY DEF Busy, Running
  <1>2. ViewAgrees'
    <2> SUFFICES ASSUME Up', NEW k \in Jobs, k \notin notes', ~ (pc' = "popped" /\ cur' = k)
                 PROVE  view'[k] = ViewOf(k)'
      BY DEF ViewAgrees
    <2>1. view[k] = ViewOf(k)
      BY DEF ViewAgrees, Up
    <2>2. CASE k # j
      BY <2>1, <2>2 DEF ViewOf
    <2>3. CASE k = j
      BY <2>1, <2>3 DEF ViewOf, Up
    <2> QED
      BY <2>2, <2>3
  <1>3. RunnerHolds'
    <2>1. pc' = "popped" => cur' \in notes' \/ state'[cur'] = "pending"
      <3> SUFFICES ASSUME pc = "popped", cur \notin notes' PROVE state'[cur] = "pending"
        OBVIOUS
      <3>1. cur \in Jobs /\ state[cur] = "pending"
        BY DEF RunnerHolds, TypeInv, CurOK
      <3> QED
        BY <3>1
    <2> QED
      BY <1>1, <2>1 DEF RunnerHolds
  <1>4. AbsentWhenDown' /\ BusyIsRunning'
    BY <1>1 DEF AbsentWhenDown, BusyIsRunning, Up
  <1>5. BusyWithinCapacity'
    <2>1. Busy \in SUBSET Jobs /\ Busy' \in SUBSET Busy
      BY <1>1 DEF Busy
    <2> QED
      BY <2>1, SubsetCard DEF BusyWithinCapacity
  <1> QED
    BY <1>1, <1>2, <1>3, <1>4, <1>5
(* The manager: users and crons write rows.                                *)
LEMMA ManagerUsers ==
    ASSUME IInv, NEW j \in Jobs,
           Create(j) \/ ButtonDone(j) \/ Requeue(j) \/ Autovacuum(j) \/ RequeueStuck(j)
    PROVE  ManagerInv'
  <1>1. UNCHANGED <<view, pc, cur>>
    BY DEF Create, ButtonDone, Requeue, Autovacuum, RequeueStuck
  <1>2. /\ \A k \in Jobs \ {j} : state'[k] = state[k]
        /\ state'[j] \in {"pending", "done", "gone"}
    BY DEF Create, ButtonDone, Requeue, Autovacuum, RequeueStuck, SetState, IInv,
           TypeInv, TypeOK
  <1>3. \A k \in Jobs \ {j} : k \in eta' <=> k \in eta
    BY DEF Create, ButtonDone, Requeue, Autovacuum, RequeueStuck
  <1>4. /\ notes \subseteq notes'
        /\ j \in notes' \/ pc = "down" \/ (state[j] = "done" /\ state'[j] = "gone")
    <2>1. CASE Autovacuum(j)
      BY <2>1 DEF Autovacuum, NotifyDelete, Notify, SetState, IInv, TypeInv, TypeOK
    <2>2. CASE ~ Autovacuum(j)
      BY <2>2 DEF Create, ButtonDone, Requeue, RequeueStuck, Notify
    <2> QED
      BY <2>1, <2>2
  <1> QED
    BY <1>1, <1>2, <1>3, <1>4, RowWritten

(* The manager: a thread makes an enqueued row pending.                    *)
LEMMA ManagerThreads ==
    ASSUME IInv, NEW r \in Requests, ThreadStep(r) \/ TimeoutUnserved(r)
    PROVE  ManagerInv'
  <1> DEFINE j == about[r]
  <1>1. CASE UNCHANGED <<state, eta, notes, view, pc, cur>>
    BY <1>1 DEF IInv, ManagerInv, ViewAgrees, RunnerHolds, AbsentWhenDown, BusyIsRunning,
                BusyWithinCapacity, Up, Busy, Running, ViewOf
  <1>2. CASE ResetAndEnd(r) /\ state[j] = "enqueued"
    <2>1. j \in Jobs
      BY <1>2 DEF ResetAndEnd, ThreadEnds, IInv, TypeInv, RequestsOK
    <2>2. /\ UNCHANGED <<view, pc, cur, eta>>
          /\ state' = [state EXCEPT ![j] = "pending"]
          /\ Notify(j)
      BY <1>2 DEF ResetAndEnd, SetState
    <2>3. /\ \A k \in Jobs \ {j} : state'[k] = state[k]
          /\ state'[j] = "pending"
          /\ notes \subseteq notes' /\ (j \in notes' \/ pc = "down")
      BY <2>1, <2>2 DEF Notify, IInv, TypeInv, TypeOK
    <2> HIDE DEF j
    <2> QED
      BY <2>1, <2>2, <2>3, RowWritten
  <1> QED
    BY <1>1, <1>2 DEF ThreadStep, AnsweredError, Timeout, TimeoutUnserved, Answered,
                      ResetAndEnd, table

(* The manager: a worker writes the row of its job.                        *)
LEMMA ManagerWorkers ==
    ASSUME IInv, NEW r \in Requests, WorkerStep(r) \/ Retry(r) \/ Abort(r)
    PROVE  ManagerInv'
  <1> DEFINE j == about[r]
  <1>1. j \in Jobs
    BY DEF WorkerStep, Start, Refuse, BeginWork, Finish, Succeed, ConflictRetry,
           ConflictLost, Fail, Retry, Abort, Executing, Executes, IInv, TypeInv, RequestsOK
  <1>2. CASE UNCHANGED <<state, eta, notes, view, pc, cur>>
    BY <1>2 DEF IInv, ManagerInv, ViewAgrees, RunnerHolds, AbsentWhenDown, BusyIsRunning,
                BusyWithinCapacity, Up, Busy, Running, ViewOf
  <1>3. ASSUME NEW s \in {"pending", "done", "failed"}, Store(r, s),
               eta' = eta \cup {j} \/ eta' = eta \ {j},
               UNCHANGED <<view, pc, cur>>
        PROVE  ManagerInv'
    <2>1. /\ \A k \in Jobs \ {j} : state'[k] = state[k]
          /\ state'[j] = s
          /\ notes \subseteq notes' /\ (j \in notes' \/ pc = "down")
      BY <1>1, <1>3 DEF Store, SetState, Notify, IInv, TypeInv, TypeOK
    <2>2. \A k \in Jobs \ {j} : k \in eta' <=> k \in eta
      BY <1>3
    <2> HIDE DEF j
    <2> QED
      BY <1>1, <1>3, <2>1, <2>2, RowWritten
  <1>4. CASE Start(r)
    <2>1. /\ \A k \in Jobs \ {j} : state'[k] = state[k]
          /\ j \in Busy
          /\ notes \subseteq notes' /\ (j \in notes' \/ pc = "down")
          /\ UNCHANGED <<eta, view, pc, cur>>
          /\ state'[j] # "gone"
      BY <1>1, <1>4 DEF Start, SetState, Notify, Busy, IInv, TypeInv, TypeOK
    <2> HIDE DEF j
    <2> QED
      BY <1>1, <2>1, RowWritten
  <1>5. CASE BeginWork(r) \/ Refuse(r) \/ ConflictLost(r) \/ Abort(r)
    BY <1>2, <1>5 DEF BeginWork, Refuse, ConflictLost, Abort, table, runner
  <1>6. CASE Succeed(r) \/ ConflictRetry(r) \/ Fail(r) \/ Retry(r)
    BY <1>3, <1>6 DEF Succeed, ConflictRetry, Fail, Retry, RetryPostpone, KeepEta
  <1> QED
    BY <1>4, <1>5, <1>6 DEF WorkerStep, Finish

(* The manager: an eta is reached.                                         *)
LEMMA ManagerEta ==
    ASSUME IInv, NEW j \in Jobs, EtaReached(j)
    PROVE  ManagerInv'
  <1> USE DEF IInv, ManagerInv, TypeInv, TypeOK, ViewTypeOK
  <1>1. /\ UNCHANGED <<state, notes, pc, cur>>
        /\ eta' = eta \ {j}
        /\ \A k \in Jobs \ {j} : view'[k] = view[k]
        /\ view'[j] = IF view[j] = "postponed" THEN "waiting" ELSE view[j]
    BY DEF EtaReached, ViewDue
  <1>2. Running' = Running /\ Busy' = Busy
    BY <1>1 DEF Running, Busy
  <1>3. ViewAgrees'
    <2> SUFFICES ASSUME Up', NEW k \in Jobs, k \notin notes', ~ (pc' = "popped" /\ cur' = k)
                 PROVE  view'[k] = ViewOf(k)'
      BY DEF ViewAgrees
    <2>1. view[k] = ViewOf(k)
      BY <1>1 DEF ViewAgrees, Up
    <2>2. CASE k # j
      BY <1>1, <2>1, <2>2 DEF ViewOf
    <2>3. CASE k = j
      BY <1>1, <2>1, <2>3 DEF ViewOf, Stored
    <2> QED
      BY <2>2, <2>3
  <1>4. AbsentWhenDown'
    BY <1>1 DEF AbsentWhenDown, Up
  <1>5. RunnerHolds'
    BY <1>1, <1>2 DEF RunnerHolds, CurOK
  <1> QED
    BY <1>1, <1>2, <1>3, <1>4, <1>5 DEF BusyIsRunning, BusyWithinCapacity, Up

(* The runner goes down: it forgets every job, and no row becomes busy.    *)
LEMMA ManagerDown ==
    ASSUME IInv, RunnerError \/ RunnerKilled
    PROVE  ManagerInv'
  <1>1. /\ state' = state /\ pc' = "down"
        /\ view' = [j \in Jobs |-> "absent"]
    BY DEF RunnerError, RunnerKilled, ViewClear, table
  <1>2. Running' = {} /\ Busy' = Busy
    BY <1>1 DEF Running, Busy
  <1> QED
    BY <1>1, <1>2, FS_EmptySet, CapacityPositive
       DEF IInv, ManagerInv, ViewAgrees, RunnerHolds, AbsentWhenDown, BusyIsRunning,
           BusyWithinCapacity, Up

(* The manager: the steps of the runner.                                   *)
LEMMA ManagerRunner ==
    ASSUME IInv, RunnerStep
    PROVE  ManagerInv'
  <1> USE DEF IInv, ManagerInv, TypeInv, TypeOK, ViewTypeOK
  <1>1. CASE Listen \/ BeginRun \/ EndRun
    BY <1>1 DEF Listen, BeginRun, EndRun, table, ViewAgrees, RunnerHolds,
                AbsentWhenDown, BusyIsRunning, BusyWithinCapacity, Up, Busy, Running, ViewOf
  <1>2. CASE LoadJobs
    <2>1. /\ pc = "listening" /\ pc' = "notify"
          /\ state' = state /\ eta' = eta
          /\ \A j \in Jobs : view[j] = "absent"
      BY <1>2 DEF LoadJobs, table, AbsentWhenDown, Up
    <2>2. \A j \in Jobs : view'[j] = ViewOf(j)
      BY <1>2, <2>1 DEF LoadJobs, ViewOf, NotDone, Stored
    <2>3. Running' = Busy /\ Busy' = Busy
      BY <2>1, <2>2 DEF Running, Busy, ViewOf, Stored
    <2> QED
      BY <2>1, <2>2, <2>3 DEF ViewAgrees, RunnerHolds, AbsentWhenDown, BusyIsRunning,
                              BusyWithinCapacity, Up, ViewOf
  <1>3. ASSUME NEW j \in Jobs, HandleNote(j)
        PROVE  ManagerInv'
    <2>1. /\ pc = "notify" /\ pc' = "notify"
          /\ state' = state /\ eta' = eta /\ notes' = notes \ {j}
          /\ \A k \in Jobs : view'[k] = IF k = j THEN ViewOf(j) ELSE view[k]
      BY <1>3 DEF HandleNote, ViewNotify, table
    <2>2. Busy' = Busy /\ Busy \subseteq Running
      BY <2>1 DEF Busy, BusyIsRunning, Up
    <2>3. Running' \in SUBSET Running /\ Busy \subseteq Running'
      BY <2>1, <2>2 DEF Running, Busy, ViewOf, Stored
    <2>4. Cardinality(Running') <= Capacity
      <3>1. Running \in SUBSET Jobs
        BY DEF Running
      <3> QED
        BY <3>1, <2>3, SubsetCard
    <2> QED
      BY <2>1, <2>2, <2>3, <2>4 DEF ViewAgrees, RunnerHolds, AbsentWhenDown, BusyIsRunning,
                                    BusyWithinCapacity, Up, ViewOf
  <1>4. ASSUME NEW j \in Jobs, Dispatch(j)
        PROVE  ManagerInv'
    <2>1. /\ pc = "run" /\ pc' = "popped" /\ cur' = j
          /\ state' = state /\ eta' = eta /\ notes' = notes
          /\ view[j] = "waiting" /\ Cardinality(Running) < Capacity
          /\ \A k \in Jobs : view'[k] = IF k = j THEN "running" ELSE view[k]
      BY <1>4 DEF Dispatch, ViewDispatch, CanDispatch, table
    <2>2. Running' = Running \cup {j} /\ j \notin Running
      BY <2>1 DEF Running
    <2>3. Busy' = Busy /\ Busy \subseteq Running
      BY <2>1 DEF Busy, BusyIsRunning, Up
    <2>4. Cardinality(Running') <= Capacity
      <3>1. IsFiniteSet(Running)
        BY JobsFinite, FS_Subset DEF Running
      <3>2. /\ Cardinality(Running) \in Nat
            /\ Cardinality(Running \cup {j}) = Cardinality(Running) + 1
        BY <2>2, <3>1, FS_AddElement, FS_CardinalityType
      <3> QED
        BY <2>1, <2>2, <3>2, CapacityPositive
    <2>5. j \in notes \/ state[j] = "pending"
      BY <2>1 DEF ViewAgrees, Up, ViewOf, Stored
    <2> QED
      BY <2>1, <2>2, <2>3, <2>4, <2>5
         DEF ViewAgrees, RunnerHolds, AbsentWhenDown, BusyIsRunning, BusyWithinCapacity,
             Up, ViewOf
  <1>5. CASE SetEnqueued
    <2>1. /\ pc = "popped" /\ pc' = "sending" /\ cur' = cur /\ cur \in Jobs
          /\ view' = view /\ eta' = eta /\ view[cur] = "running"
          /\ cur \in notes \/ state[cur] = "pending"
      BY <1>5 DEF SetEnqueued, RunnerHolds, CurOK
    <2>2. /\ \A k \in Jobs \ {cur} : state'[k] = state[k]
          /\ notes' = notes \cup {cur}
      BY <1>5, <2>1 DEF SetEnqueued, SetState, Notify, Stored
    <2>3. Running' = Running /\ Busy' \subseteq Running
      BY <2>1, <2>2 DEF Running, Busy, BusyIsRunning, Up
    <2>4. Cardinality(Busy') <= Capacity
      <3>1. Running \in SUBSET Jobs
        BY DEF Running
      <3> QED
        BY <3>1, <2>3, SubsetCard
    <2> QED
      BY <2>1, <2>2, <2>3, <2>4 DEF ViewAgrees, RunnerHolds, AbsentWhenDown, BusyIsRunning,
                                    BusyWithinCapacity, Up, ViewOf
  <1>6. ASSUME NEW r \in Requests, SendRequest(r)
        PROVE  ManagerInv'
    BY <1>6 DEF SendRequest, table, ViewAgrees, RunnerHolds, AbsentWhenDown,
                BusyIsRunning, BusyWithinCapacity, Up, Busy, Running, ViewOf
  <1> QED
    BY <1>1, <1>2, <1>3, <1>4, <1>5, <1>6 DEF RunnerStep

(* IInv is inductive.                                                      *)
LEMMA ManagerNext == IInv /\ [Next]_vars => IInv'
  <1> SUFFICES ASSUME IInv, [Next]_vars PROVE ManagerInv'
    BY TypeNext DEF IInv
  <1>1. CASE UNCHANGED vars
    BY <1>1 DEF IInv, ManagerInv, ViewAgrees, RunnerHolds, AbsentWhenDown, BusyIsRunning,
                BusyWithinCapacity, Up, Busy, Running, ViewOf, vars, table, runner
  <1>2. CASE System
    BY <1>2, ManagerRunner, ManagerThreads, ManagerWorkers, ManagerUsers, ManagerEta
       DEF System
  <1>3. CASE Creation
    BY <1>3, ManagerUsers DEF Creation
  <1>4. CASE Faults
    BY <1>4, ManagerDown, ManagerThreads, ManagerWorkers, ManagerUsers DEF Faults
  <1> QED
    BY <1>1, <1>2, <1>3, <1>4 DEF Next

(* IInv holds in every reachable state.                                    *)
LEMMA ManagerCorrect == Spec => []IInv
  BY TypeInit, ManagerInit, ManagerNext, PTL DEF Spec, IInv

(* What the runner remembers of a job is what the row asks for, or a       *)
(* notification is on its way, or run_jobs holds the job.                  *)
THEOREM NoLostNotification == Spec => []ViewAgrees
  <1>1. IInv => ViewAgrees
    BY DEF IInv, ManagerInv
  <1> QED
    BY <1>1, ManagerCorrect, PTL

(* The rows enqueued or started never exceed the root channel's capacity.  *)
THEOREM CapacityRespected == Spec => []BusyWithinCapacity
  <1>1. IInv => BusyWithinCapacity
    BY DEF IInv, ManagerInv
  <1> QED
    BY <1>1, ManagerCorrect, PTL

-----------------------------------------------------------------------------
(* One execution at a time, and what is done stays done.                   *)

(* The controller's transactions are over once it has replied.             *)
LEMMA ReplyExecutes ==
    ASSUME NEW r \in Requests, NEW s \in [Requests -> Servers],
           \A q \in Requests : s[q] \in Executes <=> Executing(q),
           about \in [Requests -> Jobs \cup {NoJob}],
           NEW answer \in {"ok", "error"}, Reply(s, r, answer)
    PROVE  \A q \in Requests : Executing(q)' =>
               q # r /\ Executing(q) /\ about'[q] = about[q]
  BY DEF Reply, Executing, Executes, Servers

(* A conflict neither starts nor ends an execution.                        *)
LEMMA ConflictExecutes ==
    ASSUME NEW s \in [Requests -> Servers], NEW j
    PROVE  \A q \in Requests : Conflict(s, j)[q] \in Executes <=> s[q] \in Executes
  BY DEF Conflict, Executes

(* A step that starts no execution, and that changes the row of a job only *)
(* if nobody executes it afterwards or a user interferes.                  *)
LEMMA NothingStarts ==
    ASSUME OneExecution,
           \A q \in Requests : Executing(q)' => Executing(q) /\ about'[q] = about[q],
           overridden \subseteq overridden',
           \A q \in Requests : Executing(q)' /\ about[q] \notin overridden' =>
               state'[about[q]] = state[about[q]]
    PROVE  OneExecution'
  BY DEF OneExecution, ExecutedBy

(* Executions: the steps of users, crons and the clock.                    *)
LEMMA OneUsers ==
    ASSUME IInv, OneExecution, NEW j \in Jobs,
           Create(j) \/ ButtonDone(j) \/ Requeue(j) \/ Autovacuum(j)
             \/ RequeueStuck(j) \/ EtaReached(j)
    PROVE  OneExecution'
  <1>1. srv \in [Requests -> Servers] /\ state \in [Jobs -> Stored \cup {"none", "gone"}]
    BY DEF IInv, TypeInv, TypeOK
  <1>2. srv' = srv \/ srv' = Conflict(srv, j)
    BY DEF Create, ButtonDone, Requeue, Autovacuum, RequeueStuck, EtaReached, requests
  <1>3. about' = about /\ overridden \subseteq overridden'
    BY DEF Create, ButtonDone, Requeue, Autovacuum, RequeueStuck, EtaReached, requests,
           Override
  <1>4. \A q \in Requests : Executing(q)' => Executing(q) /\ about'[q] = about[q]
    BY <1>1, <1>2, <1>3, ConflictExecutes DEF Executing
  <1>5. \A k \in Jobs \ {j} : state'[k] = state[k]
    BY <1>1 DEF Create, ButtonDone, Requeue, Autovacuum, RequeueStuck, EtaReached, SetState
  <1>6. state' = state \/ state[j] # "started" \/ j \in overridden'
    BY DEF Create, ButtonDone, Requeue, Autovacuum, RequeueStuck, EtaReached, Override,
           Settled, Stored
  <1>7. \A q \in Requests : Executing(q) => about[q] \in Jobs
    BY DEF IInv, TypeInv, RequestsOK, Executing, Executes
  <1>8. ASSUME NEW q \in Requests, Executing(q)', about[q] \notin overridden'
        PROVE  state'[about[q]] = state[about[q]]
    <2>1. Executing(q) /\ about[q] \notin overridden
      BY <1>3, <1>4, <1>8
    <2>2. state[about[q]] = "started" /\ about[q] \in Jobs
      BY <1>7, <2>1 DEF OneExecution
    <2> QED
      BY <1>5, <1>6, <1>8, <2>2
  <1> QED
    BY <1>3, <1>4, <1>8, NothingStarts

(* Executions: the steps of the runner.                                    *)
LEMMA OneRunner ==
    ASSUME IInv, OneExecution, RunnerStep \/ RunnerError \/ RunnerKilled
    PROVE  OneExecution'
  <1>1. /\ srv \in [Requests -> Servers] /\ about \in [Requests -> Jobs \cup {NoJob}]
        /\ state \in [Jobs -> Stored \cup {"none", "gone"}]
    BY DEF IInv, TypeInv, TypeOK
  <1>2. CASE SetEnqueued
    <2>1. cur \in Jobs /\ state[cur] # "started"
      BY <1>2 DEF SetEnqueued, IInv, TypeInv, CurOK, ManagerInv, RunnerHolds, Busy
    <2>2. srv' = srv \/ srv' = Conflict(srv, cur)
      BY <1>2 DEF SetEnqueued
    <2>3. \A k \in Jobs \ {cur} : state'[k] = state[k]
      BY <1>1, <1>2 DEF SetEnqueued, SetState
    <2>4. about' = about /\ overridden' = overridden
      BY <1>2 DEF SetEnqueued
    <2>5. \A q \in Requests : Executing(q)' => Executing(q) /\ about'[q] = about[q]
      BY <1>1, <2>2, <2>4, ConflictExecutes DEF Executing
    <2>6. \A q \in Requests : Executing(q) => about[q] \in Jobs
      BY DEF IInv, TypeInv, RequestsOK, Executing, Executes
    <2>7. \A q \in Requests : Executing(q)' /\ about[q] \notin overridden' =>
              state'[about[q]] = state[about[q]]
      BY <2>1, <2>3, <2>4, <2>5, <2>6 DEF OneExecution
    <2> QED
      BY <2>4, <2>5, <2>7, NothingStarts
  <1>3. CASE (RunnerStep /\ ~ SetEnqueued) \/ RunnerError \/ RunnerKilled
    <2>1. \A q \in Requests : Executing(q)' => Executing(q) /\ about'[q] = about[q]
      BY <1>1, <1>3
         DEF RunnerStep, Listen, LoadJobs, BeginRun, EndRun, HandleNote, Dispatch,
             SendRequest, RunnerError, RunnerKilled, requests, Executing, Executes
    <2>2. state' = state /\ overridden' = overridden
      BY <1>3
         DEF RunnerStep, Listen, LoadJobs, BeginRun, EndRun, HandleNote, Dispatch,
             SendRequest, RunnerError, RunnerKilled, table
    <2> QED
      BY <2>1, <2>2, NothingStarts
  <1> QED
    BY <1>2, <1>3

(* Executions: the steps of the request threads.                           *)
LEMMA OneThreads ==
    ASSUME IInv, OneExecution, NEW r \in Requests, ThreadStep(r) \/ TimeoutUnserved(r)
    PROVE  OneExecution'
  <1>1. /\ srv \in [Requests -> Servers] /\ about \in [Requests -> Jobs \cup {NoJob}]
        /\ state \in [Jobs -> Stored \cup {"none", "gone"}]
    BY DEF IInv, TypeInv, TypeOK
  <1>2. Answered(r) \/ ResetAndEnd(r)
    BY DEF ThreadStep, AnsweredError, Timeout, TimeoutUnserved
  <1>3. \A q \in Requests : Executing(q)' => Executing(q) /\ about'[q] = about[q]
    <2>1. PICK s \in [Requests -> Servers] :
              /\ srv' = FreeIfAnswered(s, r)
              /\ \A q \in Requests : s[q] \in Executes <=> srv[q] \in Executes
      <3>1. /\ Conflict(srv, about[r]) \in [Requests -> Servers]
            /\ \A q \in Requests : Conflict(srv, about[r])[q] \in Executes
                                      <=> srv[q] \in Executes
        BY <1>1, ConflictType, ConflictExecutes
      <3> QED
        BY <1>1, <1>2, <3>1 DEF Answered, ResetAndEnd
    <2>2. \A q \in Requests : srv'[q] \in Executes => s[q] \in Executes
      BY <1>1, <2>1 DEF FreeIfAnswered, Executes
    <2>3. ThreadEnds(r)
      BY <1>2 DEF Answered, ResetAndEnd
    <2>4. \A q \in Requests : srv[q] \in Executes => about'[q] = about[q]
      BY <1>1, <2>3 DEF ThreadEnds, Executes
    <2> QED
      BY <2>1, <2>2, <2>4 DEF Executing
  <1>4. \A k \in Jobs : state'[k] = state[k] \/ state[k] = "enqueued"
    BY <1>1, <1>2 DEF Answered, ResetAndEnd, SetState, table
  <1>5. overridden' = overridden
    BY <1>2 DEF Answered, ResetAndEnd
  <1>6. \A q \in Requests : Executing(q) => about[q] \in Jobs
    BY DEF IInv, TypeInv, RequestsOK, Executing, Executes
  <1>7. \A q \in Requests : Executing(q)' /\ about[q] \notin overridden' =>
            state'[about[q]] = state[about[q]]
    BY <1>3, <1>4, <1>5, <1>6 DEF OneExecution
  <1> QED
    BY <1>3, <1>5, <1>7, NothingStarts

(* Executions: the steps of the workers.                                   *)
LEMMA OneWorkers ==
    ASSUME IInv, OneExecution, NEW r \in Requests, WorkerStep(r) \/ Retry(r) \/ Abort(r)
    PROVE  OneExecution'
  <1> DEFINE j == about[r]
             c == Conflict(srv, j)
  <1>1. /\ srv \in [Requests -> Servers] /\ about \in [Requests -> Jobs \cup {NoJob}]
        /\ state \in [Jobs -> Stored \cup {"none", "gone"}]
    BY DEF IInv, TypeInv, TypeOK
  <1>2. c \in [Requests -> Servers] /\ \A q \in Requests : c[q] \in Executes <=> Executing(q)
    BY <1>1, ConflictType, ConflictExecutes DEF Executing
  <1>3. \A q \in Requests : Executing(q) => about[q] \in Jobs
    BY DEF IInv, TypeInv, RequestsOK, Executing, Executes
  <1>4. ASSUME Executing(r), NEW s, Store(r, s), NEW answer \in {"ok", "error"},
               Reply(c, r, answer), UNCHANGED overridden
        PROVE  OneExecution'
    <2> HIDE DEF c
    <2>1. \A q \in Requests : Executing(q)' => q # r /\ Executing(q) /\ about'[q] = about[q]
      BY <1>1, <1>2, <1>4, ReplyExecutes
    <2>2. \A k \in Jobs \ {j} : state'[k] = state[k]
      BY <1>1, <1>4 DEF Store, SetState
    <2>3. \A q \in Requests : Executing(q)' /\ about[q] \notin overridden' =>
              state'[about[q]] = state[about[q]]
      BY <1>3, <1>4, <2>1, <2>2 DEF OneExecution, ExecutedBy
    <2> QED
      BY <1>4, <2>1, <2>3, NothingStarts
  <1>5. CASE Succeed(r) \/ ConflictRetry(r) \/ Fail(r) \/ Retry(r)
    <2>1. Executing(r)
      BY <1>5 DEF Succeed, ConflictRetry, Fail, Retry, Executing, Executes
    <2> QED
      BY <1>4, <1>5, <2>1 DEF Succeed, ConflictRetry, Fail, Retry, RetryPostpone
  <1>6. CASE Refuse(r) \/ ConflictLost(r) \/ Abort(r)
    <2>1. \E answer \in {"ok", "error"} : Reply(srv, r, answer)
      BY <1>6 DEF Refuse, ConflictLost, Abort
    <2>2. \A q \in Requests : Executing(q)' => Executing(q) /\ about'[q] = about[q]
      BY <1>1, <2>1, ReplyExecutes DEF Executing
    <2>3. state' = state /\ overridden' = overridden
      BY <1>6 DEF Refuse, ConflictLost, Abort, table
    <2> QED
      BY <2>2, <2>3, NothingStarts
  <1>7. CASE BeginWork(r)
    <2>1. \A q \in Requests : Executing(q)' => Executing(q) /\ about'[q] = about[q]
      BY <1>1, <1>7 DEF BeginWork, Executing, Executes
    <2> QED
      BY <1>7, <2>1, NothingStarts DEF BeginWork, table
  <1>8. CASE Start(r)
    <2>1. /\ state[j] = "enqueued" /\ j \in Jobs /\ about' = about
          /\ overridden' = overridden
      BY <1>8 DEF Start, IInv, TypeInv, RequestsOK
    <2>2. state'[j] = "started" /\ \A k \in Jobs \ {j} : state'[k] = state[k]
      BY <1>1, <1>8, <2>1 DEF Start, SetState
    <2>3. \A q \in Requests \ {r} : Executing(q)' => Executing(q)
      BY <1>1, <1>2, <1>8 DEF Start, Executing
    <2>4. \A q \in Requests : Executing(q) /\ about[q] = j => j \in overridden
      BY <2>1 DEF OneExecution
    <2>5. ASSUME NEW q \in Requests, Executing(q)', about'[q] \notin overridden'
          PROVE  /\ state'[about'[q]] = "started"
                 /\ \A p \in Requests : ExecutedBy(p, about[q])' => p = q
      <3>1. CASE q = r
        BY <2>1, <2>2, <2>3, <2>4, <2>5, <3>1 DEF ExecutedBy
      <3>2. CASE q # r
        <4>1. Executing(q) /\ about[q] # j /\ about[q] \notin overridden
          BY <2>1, <2>3, <2>4, <2>5, <3>2
        <4> QED
          BY <1>3, <2>1, <2>2, <2>3, <4>1 DEF OneExecution, ExecutedBy
      <3> QED
        BY <3>1, <3>2
    <2> QED
      BY <2>1, <2>5 DEF OneExecution, ExecutedBy
  <1> QED
    BY <1>5, <1>6, <1>7, <1>8 DEF WorkerStep, Finish

(* OneExecution is inductive together with IInv.                           *)
LEMMA OneNext == IInv /\ OneExecution /\ [Next]_vars => OneExecution'
  <1> SUFFICES ASSUME IInv, OneExecution, [Next]_vars PROVE OneExecution'
    OBVIOUS
  <1>1. CASE UNCHANGED vars
    BY <1>1 DEF OneExecution, ExecutedBy, Executing, vars, table, requests
  <1>2. CASE System
    BY <1>2, OneRunner, OneThreads, OneWorkers, OneUsers DEF System
  <1>3. CASE Creation
    BY <1>3, OneUsers DEF Creation
  <1>4. CASE Faults
    BY <1>4, OneRunner, OneThreads, OneWorkers, OneUsers DEF Faults
  <1> QED
    BY <1>1, <1>2, <1>3, <1>4 DEF Next

(* One worker at most executes a job that nobody changed while it was in   *)
(* progress, however many requests were sent for it.                       *)
THEOREM OneWorkerPerJob == Spec => []OneExecution
  <1>1. Init => OneExecution
    BY DEF Init, OneExecution, Executing, Executes
  <1> QED
    BY <1>1, ManagerCorrect, OneNext, PTL DEF Spec

-----------------------------------------------------------------------------
(* What is done is final, unless someone interferes.                       *)

(* The runner has a job waiting, or in its hands, only while the row is    *)
(* pending.                                                                *)
WaitingIsPending ==
    Up => \A j \in Jobs : view[j] \in {"waiting", "postponed"} =>
              state[j] = "pending" \/ j \in overridden

PoppedIsPending == pc = "popped" => state[cur] = "pending" \/ cur \in overridden

FinalInv == WaitingIsPending /\ PoppedIsPending

Allowed(j) ==
    \/ state[j] \in {"none", "enqueued", "started"}
    \/ state[j] \in {"done", "failed"} /\ (state'[j] \in {"done", "gone"} \/ Requeue(j))
    \/ SetEnqueued /\ cur = j

(* Who changes the state of a job that was not changed in progress: its    *)
(* creator, its worker, the thread or the cron that finds it enqueued, a   *)
(* user who finds it settled, or run_jobs, which holds it.                 *)
LEMMA WhoWrites ==
    ASSUME IInv, OneExecution, [Next]_vars,
           NEW j \in Jobs, j \notin overridden', state'[j] # state[j]
    PROVE  Allowed(j)
  <1>1. state \in [Jobs -> Stored \cup {"none", "gone"}]
    BY DEF IInv, TypeInv, TypeOK
  <1>2. ASSUME NEW k \in Jobs,
               Create(k) \/ ButtonDone(k) \/ Requeue(k) \/ Autovacuum(k)
                 \/ RequeueStuck(k) \/ EtaReached(k)
        PROVE  Allowed(j)
    <2>1. k = j
      BY <1>1, <1>2
         DEF Create, ButtonDone, Requeue, Autovacuum, RequeueStuck, EtaReached, SetState
    <2>2. CASE Create(j) \/ RequeueStuck(j)
      BY <2>2 DEF Create, RequeueStuck, Allowed
    <2>3. CASE ButtonDone(j) \/ Requeue(j) \/ Autovacuum(j)
      <3>1. state[j] \in {"done", "failed"}
        BY <2>3 DEF ButtonDone, Requeue, Autovacuum, Override, Settled, Stored
      <3>2. state'[j] \in {"done", "gone"} \/ Requeue(j)
        BY <1>1, <2>3 DEF ButtonDone, Autovacuum, SetState
      <3> QED
        BY <3>1, <3>2 DEF Allowed
    <2>4. CASE EtaReached(j)
      BY <2>4 DEF EtaReached
    <2> QED
      BY <1>2, <2>1, <2>2, <2>3, <2>4
  <1>3. ASSUME NEW r \in Requests, ThreadStep(r) \/ TimeoutUnserved(r)
        PROVE  Allowed(j)
    <2>1. Answered(r) \/ ResetAndEnd(r)
      BY <1>3 DEF ThreadStep, AnsweredError, Timeout, TimeoutUnserved
    <2>2. state[j] = "enqueued"
      BY <1>1, <2>1 DEF Answered, ResetAndEnd, SetState, table
    <2> QED
      BY <2>2 DEF Allowed
  <1>4. ASSUME NEW r \in Requests, WorkerStep(r) \/ Retry(r) \/ Abort(r)
        PROVE  Allowed(j)
    <2>1. CASE Start(r)
      BY <1>1, <2>1 DEF Start, SetState, Allowed
    <2>2. CASE Refuse(r) \/ BeginWork(r) \/ ConflictLost(r) \/ Abort(r)
      BY <2>2 DEF Refuse, BeginWork, ConflictLost, Abort, table
    <2>3. CASE Succeed(r) \/ ConflictRetry(r) \/ Fail(r) \/ Retry(r)
      <3>1. /\ Executing(r)
            /\ j = about[r]
            /\ overridden' = overridden
        BY <1>1, <2>3 DEF Succeed, ConflictRetry, Fail, Retry, RetryPostpone, Store,
                          SetState, Executing, Executes
      <3> QED
        BY <3>1 DEF OneExecution, Allowed
    <2> QED
      BY <1>4, <2>1, <2>2, <2>3 DEF WorkerStep, Finish
  <1>5. ASSUME RunnerStep \/ RunnerError \/ RunnerKilled
        PROVE  Allowed(j)
    <2>1. SetEnqueued
      BY <1>5 DEF RunnerStep, Listen, LoadJobs, BeginRun, EndRun, HandleNote, Dispatch,
                  SendRequest, RunnerError, RunnerKilled, table
    <2>2. cur = j
      BY <1>1, <2>1 DEF SetEnqueued, SetState
    <2> QED
      BY <2>1, <2>2 DEF Allowed
  <1>6. state' # state
    OBVIOUS
  <1> QED
    BY <1>2, <1>3, <1>4, <1>5, <1>6 DEF Next, System, Creation, Faults, vars, table

(* overridden only grows, by jobs that are changed while in progress.      *)
LEMMA Observed ==
    ASSUME IInv, [Next]_vars
    PROVE  /\ overridden \subseteq overridden'
           /\ \A k \in overridden' \ overridden : state[k] \notin Settled
  <1>1. CASE overridden' = overridden
    BY <1>1
  <1>2. ASSUME NEW j \in Jobs, Override(j)
        PROVE  /\ overridden \subseteq overridden'
               /\ \A k \in overridden' \ overridden : state[k] \notin Settled
    BY <1>2 DEF Override
  <1>3. ASSUME RunnerStep \/ RunnerError \/ RunnerKilled PROVE overridden' = overridden
    BY <1>3 DEF RunnerStep, Listen, LoadJobs, BeginRun, SetEnqueued, EndRun, HandleNote,
                Dispatch, SendRequest, RunnerError, RunnerKilled
  <1>4. ASSUME NEW r \in Requests,
               ThreadStep(r) \/ TimeoutUnserved(r) \/ WorkerStep(r) \/ Retry(r) \/ Abort(r)
        PROVE  overridden' = overridden
    BY <1>4 DEF ThreadStep, Answered, AnsweredError, Timeout, TimeoutUnserved, ResetAndEnd,
                WorkerStep, Finish, Start, Refuse, BeginWork, Succeed, ConflictRetry,
                ConflictLost, Fail, Retry, Abort, RetryPostpone
  <1>5. ASSUME NEW j \in Jobs,
               Create(j) \/ ButtonDone(j) \/ Requeue(j) \/ Autovacuum(j)
                 \/ RequeueStuck(j) \/ EtaReached(j)
        PROVE  overridden' = overridden \/ Override(j)
    BY <1>5 DEF Create, ButtonDone, Requeue, Autovacuum, RequeueStuck, EtaReached
  <1> QED
    BY <1>1, <1>2, <1>3, <1>4, <1>5 DEF Next, System, Creation, Faults, vars

(* FinalInv is inductive together with the invariants above.               *)
LEMMA FinalNext ==
    ASSUME IInv, OneExecution, FinalInv, [Next]_vars
    PROVE  FinalInv'
  <1>1. overridden \subseteq overridden'
    BY Observed
  <1>2. ASSUME NEW j \in Jobs, state[j] = "pending" \/ j \in overridden,
               ~ (SetEnqueued /\ cur = j)
        PROVE  state'[j] = "pending" \/ j \in overridden'
    BY <1>1, <1>2, WhoWrites DEF Allowed
  <1>3. state \in [Jobs -> Stored \cup {"none", "gone"}] /\ view \in [Jobs -> Views]
        /\ (pc \in {"popped", "sending"} => cur \in Jobs /\ view[cur] = "running")
    BY DEF IInv, TypeInv, TypeOK, ViewTypeOK, CurOK, ManagerInv, RunnerHolds
  <1>4. CASE UNCHANGED <<view, pc, cur>>
    <2>1. ~ SetEnqueued
      BY <1>4 DEF SetEnqueued
    <2> QED
      BY <1>2, <1>3, <1>4, <2>1 DEF FinalInv, WaitingIsPending, PoppedIsPending, Up
  <1>5. CASE SetEnqueued
    BY <1>2, <1>3, <1>5 DEF SetEnqueued, FinalInv, WaitingIsPending, PoppedIsPending, Up
  <1>6. CASE \E j \in Jobs : EtaReached(j)
    BY <1>3, <1>6 DEF EtaReached, ViewDue, FinalInv, WaitingIsPending, PoppedIsPending, Up
  <1>7. CASE RunnerError \/ RunnerKilled \/ Listen
    BY <1>7 DEF RunnerError, RunnerKilled, Listen, FinalInv, WaitingIsPending,
                PoppedIsPending, Up
  <1>8. CASE LoadJobs
    <2>1. \A j \in Jobs : view[j] = "absent"
      BY <1>8 DEF LoadJobs, IInv, ManagerInv, AbsentWhenDown, Up
    <2> QED
      BY <1>8, <2>1 DEF LoadJobs, ViewOf, NotDone, table, FinalInv, WaitingIsPending,
                        PoppedIsPending, Up
  <1>9. ASSUME NEW k \in Jobs, HandleNote(k) PROVE FinalInv'
    BY <1>3, <1>9 DEF HandleNote, ViewNotify, ViewOf, Stored, table, FinalInv, WaitingIsPending,
                      PoppedIsPending, Up
  <1>10. ASSUME NEW k \in Jobs, Dispatch(k) PROVE FinalInv'
    <2>1. view[k] = "waiting" /\ pc = "run" /\ pc' = "popped" /\ cur' = k
          /\ view' = [view EXCEPT ![k] = "running"]
          /\ UNCHANGED <<state, overridden>>
      BY <1>10 DEF Dispatch, ViewDispatch, CanDispatch, table
    <2> QED
      BY <1>3, <2>1 DEF FinalInv, WaitingIsPending, PoppedIsPending, Up
  <1>11. CASE BeginRun \/ EndRun \/ \E r \in Requests : SendRequest(r)
    BY <1>11 DEF BeginRun, EndRun, SendRequest, table, FinalInv, WaitingIsPending,
                 PoppedIsPending, Up
  <1>12. ASSUME NEW r \in Requests,
                ThreadStep(r) \/ TimeoutUnserved(r) \/ WorkerStep(r) \/ Retry(r) \/ Abort(r)
         PROVE  UNCHANGED <<view, pc, cur>>
    BY <1>12 DEF ThreadStep, Answered, AnsweredError, Timeout, TimeoutUnserved, ResetAndEnd,
                 WorkerStep, Finish, Start, Refuse, BeginWork, Succeed, ConflictRetry,
                 ConflictLost, Fail, Retry, Abort, RetryPostpone, runner
  <1>13. ASSUME NEW j \in Jobs,
                Create(j) \/ ButtonDone(j) \/ Requeue(j) \/ Autovacuum(j) \/ RequeueStuck(j)
         PROVE  UNCHANGED <<view, pc, cur>>
    BY <1>13 DEF Create, ButtonDone, Requeue, Autovacuum, RequeueStuck
  <1>14. CASE Next
    BY <1>4, <1>5, <1>6, <1>7, <1>8, <1>9, <1>10, <1>11, <1>12, <1>13, <1>14
       DEF Next, System, RunnerStep, Creation, Faults
  <1>15. CASE UNCHANGED vars
    BY <1>4, <1>15 DEF vars, runner
  <1> QED
    BY <1>14, <1>15

(* A job that is done, and was not changed while it was in progress, stays *)
(* done until the vacuum deletes it or someone requeues it.                *)
THEOREM DoneForGood == Spec => DoneIsFinal
  <1>1. Init => OneExecution /\ FinalInv
    BY DEF Init, OneExecution, Executing, Executes, FinalInv, WaitingIsPending,
           PoppedIsPending, Up
  <1>2. ASSUME IInv, OneExecution, FinalInv, [Next]_vars
        PROVE  [\A j \in Jobs : state[j] = "done" /\ j \notin overridden =>
                    state'[j] \in {"done", "gone"} \/ Requeue(j)]_vars
    <2> SUFFICES ASSUME NEW j \in Jobs, state[j] = "done", j \notin overridden,
                        state'[j] # "done"
                 PROVE  state'[j] = "gone" \/ Requeue(j)
      OBVIOUS
    <2>1. ~ (SetEnqueued /\ cur = j)
      BY <1>2 DEF SetEnqueued, FinalInv, PoppedIsPending
    <2>2. CASE j \notin overridden'
      BY <1>2, <2>1, <2>2, WhoWrites DEF Allowed
    <2>3. CASE j \in overridden'
      BY <1>2, <2>3, Observed DEF Settled
    <2> QED
      BY <2>2, <2>3
  <1> QED
    BY <1>1, <1>2, ManagerCorrect, OneNext, FinalNext, PTL DEF Spec, DoneIsFinal

-----------------------------------------------------------------------------
(* The detailed job follows the abstract life of module JobLifecycle.      *)

Runs(j) == \E r \in Requests : ExecutedBy(r, j)

phases == [j \in Jobs |-> Phase(j)]

SimplePhase(j) ==
    IF j \in overridden THEN "free"
    ELSE IF Runs(j) THEN "executing"
    ELSE IF state[j] = "started" THEN "stalled" ELSE state[j]

PhasesSimple == \A j \in Jobs : Phase(j) = SimplePhase(j)

(* The moves of JobLifecycle, as pairs.                                    *)
Steps ==
    {<<"none", "pending">>, <<"pending", "enqueued">>, <<"enqueued", "executing">>,
     <<"enqueued", "pending">>, <<"executing", "done">>, <<"executing", "pending">>,
     <<"executing", "failed">>, <<"executing", "stalled">>, <<"failed", "pending">>,
     <<"failed", "done">>, <<"failed", "gone">>, <<"done", "pending">>, <<"done", "gone">>,
     <<"pending", "free">>, <<"enqueued", "free">>, <<"executing", "free">>,
     <<"stalled", "free">>}

(* One execution at most: no job goes astray.                              *)
LEMMA PhaseIs == OneExecution => PhasesSimple
  <1> SUFFICES ASSUME OneExecution, NEW j \in Jobs, j \notin overridden
               PROVE  Phase(j) = IF Runs(j) THEN "executing"
                                 ELSE IF state[j] = "started" THEN "stalled" ELSE state[j]
    BY DEF Phase, PhasesSimple, SimplePhase
  <1>1. CASE Runs(j)
    <2>1. PICK r \in Requests : ExecutedBy(r, j)
      BY <1>1 DEF Runs
    <2>2. state[j] = "started" /\ Executors(j) = {r}
      BY <2>1 DEF OneExecution, ExecutedBy, Executors
    <2>3. Cardinality({r}) = 1
      BY FS_Singleton
    <2> QED
      BY <1>1, <2>2, <2>3 DEF Phase
  <1>2. CASE ~ Runs(j)
    <2>1. Executors(j) = {}
      BY <1>2 DEF Runs, Executors
    <2> QED
      BY <1>2, <2>1 DEF Phase
  <1> QED
    BY <1>1, <1>2

(* One job moves, the others keep their phase.                             *)
LEMMA OneMoves ==
    ASSUME NEW j \in Jobs, \A k \in Jobs \ {j} : Phase(k)' = Phase(k),
           <<Phase(j), Phase(j)'>> \in Steps
    PROVE  Life!Next
  <1>1. phases' = [phases EXCEPT ![j] = Phase(j)']
    BY DEF phases
  <1>2. phases[j] = Phase(j)
    BY DEF phases
  <1>3. CASE Phase(j)' = "free"
    BY <1>1, <1>2, <1>3 DEF Steps, Life!Next, Life!Free, phases
  <1>4. CASE Phase(j)' # "free"
    <2>1. Phase(j)' \in Life!Moves[Phase(j)]
      BY <1>4 DEF Steps, Life!Moves
    <2> QED
      BY <1>1, <1>2, <2>1 DEF Life!Next, Life!Move, phases
  <1> QED
    BY <1>3, <1>4

(* What a step must keep of the other jobs, and make of job j.             *)
LEMMA Follows ==
    ASSUME OneExecution, OneExecution', NEW j \in Jobs,
           \A k \in Jobs \ {j} : k \in overridden' <=> k \in overridden,
           \A k \in Jobs \ {j} : k \notin overridden => state'[k] = state[k],
           \A k \in Jobs \ {j} : k \notin overridden => (Runs(k)' <=> Runs(k)),
           j \in overridden => j \in overridden',
           j \notin overridden => Phase(j)' = Phase(j) \/ <<Phase(j), Phase(j)'>> \in Steps
    PROVE  [Life!Next]_phases
  <1>1. PhasesSimple /\ PhasesSimple'
    BY PhaseIs, PTL
  <1>2. \A k \in Jobs \ {j} : SimplePhase(k)' = SimplePhase(k)
    BY DEF SimplePhase
  <1>3. j \in overridden => Phase(j)' = Phase(j)
    BY <1>1 DEF SimplePhase, PhasesSimple
  <1>4. \A k \in Jobs \ {j} : Phase(k)' = Phase(k)
    BY <1>1, <1>2 DEF PhasesSimple
  <1>5. CASE Phase(j)' = Phase(j)
    BY <1>4, <1>5 DEF phases
  <1>6. CASE Phase(j)' # Phase(j)
    BY <1>3, <1>4, <1>6, OneMoves
  <1> QED
    BY <1>5, <1>6

(* A step that leaves the rows, the executions and the overridden jobs.    *)
LEMMA Stutters ==
    ASSUME OneExecution, OneExecution', state' = state, overridden' = overridden,
           \A k \in Jobs : Runs(k)' <=> Runs(k)
    PROVE  phases' = phases
  <1>1. PhasesSimple /\ PhasesSimple'
    BY PhaseIs, PTL
  <1>2. \A k \in Jobs : SimplePhase(k)' = SimplePhase(k)
    BY DEF SimplePhase
  <1> QED
    BY <1>1, <1>2 DEF PhasesSimple, phases

(* Executions are the same when every request executes what it executed.   *)
LEMMA SameRuns ==
    ASSUME \A q \in Requests : Executing(q)' <=> Executing(q),
           \A q \in Requests : Executing(q) => about'[q] = about[q]
    PROVE  \A k \in Jobs : Runs(k)' <=> Runs(k)
  BY DEF Runs, ExecutedBy

(* Lifecycle: the steps of users, crons and the clock.                     *)
LEMMA LifeUsers ==
    ASSUME IInv, OneExecution, OneExecution', NEW j \in Jobs,
           Create(j) \/ ButtonDone(j) \/ Requeue(j) \/ Autovacuum(j)
             \/ RequeueStuck(j) \/ EtaReached(j)
    PROVE  [Life!Next]_phases
  <1>1. srv \in [Requests -> Servers] /\ state \in [Jobs -> Stored \cup {"none", "gone"}]
    BY DEF IInv, TypeInv, TypeOK
  <1>2. (srv' = srv \/ srv' = Conflict(srv, j)) /\ about' = about
    BY DEF Create, ButtonDone, Requeue, Autovacuum, RequeueStuck, EtaReached, requests
  <1>3. \A k \in Jobs : Runs(k)' <=> Runs(k)
    BY <1>1, <1>2, ConflictExecutes, SameRuns DEF Executing
  <1>4. \A k \in Jobs \ {j} : state'[k] = state[k]
    BY <1>1 DEF Create, ButtonDone, Requeue, Autovacuum, RequeueStuck, EtaReached, SetState
  <1>5. \/ overridden' = overridden
        \/ overridden' = overridden \cup {j}
    BY DEF Create, ButtonDone, Requeue, Autovacuum, RequeueStuck, EtaReached, Override
  <1>6. ASSUME j \notin overridden
        PROVE  Phase(j)' = Phase(j) \/ <<Phase(j), Phase(j)'>> \in Steps
    <2>0. PhasesSimple /\ PhasesSimple'
      BY PhaseIs, PTL
    <2>1. Phase(j) = SimplePhase(j) /\ Phase(j)' = SimplePhase(j)'
      BY <2>0 DEF PhasesSimple
    <2>2. Runs(j) => state[j] = "started"
      BY <1>6 DEF Runs, OneExecution, ExecutedBy
    <2>3. CASE Create(j) \/ RequeueStuck(j)
      <3>1. /\ state'[j] = "pending" /\ overridden' = overridden
            /\ state[j] \in {"none", "enqueued"}
        BY <1>1, <2>3 DEF Create, RequeueStuck, SetState
      <3> QED
        BY <1>3, <1>6, <2>1, <2>2, <3>1 DEF SimplePhase, Steps
    <2>4. CASE EtaReached(j)
      BY <1>3, <2>1, <2>4 DEF EtaReached, SimplePhase
    <2>5. CASE (ButtonDone(j) \/ Requeue(j) \/ Autovacuum(j)) /\ state[j] \in {"done", "failed"}
      <3>1. /\ state'[j] \in {"pending", "done", "gone"}
            /\ overridden' = overridden
        BY <1>1, <2>5 DEF ButtonDone, Requeue, Autovacuum, SetState, Override, Settled
      <3> QED
        BY <1>3, <1>6, <2>1, <2>2, <2>5, <3>1 DEF SimplePhase, Steps
    <2>6. CASE (ButtonDone(j) \/ Requeue(j) \/ Autovacuum(j))
                 /\ state[j] \in {"pending", "enqueued", "started"}
      <3>1. j \in overridden'
        BY <2>6 DEF ButtonDone, Requeue, Autovacuum, Override, Settled
      <3> QED
        BY <1>6, <2>1, <2>2, <2>6, <3>1 DEF SimplePhase, Steps
    <2> QED
      BY <2>3, <2>4, <2>5, <2>6 DEF ButtonDone, Requeue, Autovacuum, Stored
  <1> QED
    BY <1>3, <1>4, <1>5, <1>6, Follows

(* Lifecycle: the steps of the runner.                                     *)
LEMMA LifeRunner ==
    ASSUME IInv, OneExecution, OneExecution', FinalInv,
           RunnerStep \/ RunnerError \/ RunnerKilled
    PROVE  [Life!Next]_phases
  <1>1. /\ srv \in [Requests -> Servers] /\ about \in [Requests -> Jobs \cup {NoJob}]
        /\ state \in [Jobs -> Stored \cup {"none", "gone"}]
    BY DEF IInv, TypeInv, TypeOK
  <1>2. CASE SetEnqueued
    <2>1. PICK j \in Jobs : j = cur /\ (state[j] = "pending" \/ j \in overridden)
      BY <1>2 DEF SetEnqueued, IInv, TypeInv, CurOK, FinalInv, PoppedIsPending
    <2>2. (srv' = srv \/ srv' = Conflict(srv, j)) /\ about' = about
          /\ overridden' = overridden
      BY <1>2, <2>1 DEF SetEnqueued
    <2>3. \A k \in Jobs : Runs(k)' <=> Runs(k)
      BY <1>1, <2>2, ConflictExecutes, SameRuns DEF Executing
    <2>4. \A k \in Jobs \ {j} : state'[k] = state[k]
      BY <1>1, <1>2, <2>1 DEF SetEnqueued, SetState
    <2>5. state'[j] = state[j] \/ state'[j] = "enqueued"
      BY <1>1, <1>2, <2>1 DEF SetEnqueued, SetState
    <2>6. ASSUME j \notin overridden
          PROVE  Phase(j)' = Phase(j) \/ <<Phase(j), Phase(j)'>> \in Steps
      <3>1. PhasesSimple /\ PhasesSimple'
        BY PhaseIs, PTL
      <3>2. ~ Runs(j)
        BY <2>1, <2>6 DEF Runs, OneExecution, ExecutedBy
      <3>3. SimplePhase(j) = "pending"
        BY <2>1, <2>6, <3>2 DEF SimplePhase
      <3>4. SimplePhase(j)' \in {"pending", "enqueued"}
        BY <2>1, <2>2, <2>3, <2>5, <2>6, <3>2 DEF SimplePhase
      <3> QED
        BY <3>1, <3>3, <3>4 DEF PhasesSimple, Steps
    <2> QED
      BY <2>2, <2>3, <2>4, <2>6, Follows
  <1>3. CASE (RunnerStep /\ ~ SetEnqueued) \/ RunnerError \/ RunnerKilled
    <2>1. /\ \A q \in Requests : Executing(q)' <=> Executing(q)
          /\ \A q \in Requests : Executing(q) => about'[q] = about[q]
      BY <1>1, <1>3
         DEF RunnerStep, Listen, LoadJobs, BeginRun, EndRun, HandleNote, Dispatch,
             SendRequest, RunnerError, RunnerKilled, requests, Executing, Executes
    <2>2. state' = state /\ overridden' = overridden
      BY <1>3
         DEF RunnerStep, Listen, LoadJobs, BeginRun, EndRun, HandleNote, Dispatch,
             SendRequest, RunnerError, RunnerKilled, table
    <2> QED
      BY <2>1, <2>2, SameRuns, Stutters
  <1> QED
    BY <1>2, <1>3

(* Lifecycle: the steps of the request threads.                            *)
LEMMA LifeThreads ==
    ASSUME IInv, OneExecution, OneExecution', NEW r \in Requests,
           ThreadStep(r) \/ TimeoutUnserved(r)
    PROVE  [Life!Next]_phases
  <1>1. /\ srv \in [Requests -> Servers] /\ about \in [Requests -> Jobs \cup {NoJob}]
        /\ state \in [Jobs -> Stored \cup {"none", "gone"}]
    BY DEF IInv, TypeInv, TypeOK
  <1>2. (Answered(r) \/ ResetAndEnd(r)) /\ ThreadEnds(r) /\ overridden' = overridden
    BY DEF ThreadStep, AnsweredError, Timeout, TimeoutUnserved, Answered, ResetAndEnd
  <1>3. \A k \in Jobs : Runs(k)' <=> Runs(k)
    <2>1. PICK s \in [Requests -> Servers] :
              /\ srv' = FreeIfAnswered(s, r)
              /\ \A q \in Requests : s[q] \in Executes <=> srv[q] \in Executes
      <3>1. /\ Conflict(srv, about[r]) \in [Requests -> Servers]
            /\ \A q \in Requests : Conflict(srv, about[r])[q] \in Executes
                                      <=> srv[q] \in Executes
        BY <1>1, ConflictType, ConflictExecutes
      <3> QED
        BY <1>1, <1>2, <3>1 DEF Answered, ResetAndEnd
    <2>2. \A q \in Requests : srv'[q] \in Executes <=> s[q] \in Executes
      BY <2>1 DEF FreeIfAnswered, Executes
    <2>3. \A q \in Requests : srv[q] \in Executes => about'[q] = about[q]
      BY <1>1, <1>2 DEF ThreadEnds, Executes
    <2> QED
      BY <2>1, <2>2, <2>3, SameRuns DEF Executing
  <1>4. CASE state' = state
    BY <1>2, <1>3, <1>4, Stutters
  <1>5. CASE state' # state
    <2>1. PICK j \in Jobs : j = about[r] /\ state[j] = "enqueued"
      BY <1>2, <1>5 DEF Answered, ResetAndEnd, ThreadEnds, table, IInv, TypeInv, RequestsOK
    <2>2. state'[j] = "pending" /\ \A k \in Jobs \ {j} : state'[k] = state[k]
      BY <1>1, <1>2, <1>5, <2>1 DEF Answered, ResetAndEnd, SetState, table
    <2>3. ASSUME j \notin overridden
          PROVE  <<Phase(j), Phase(j)'>> \in Steps
      <3>1. PhasesSimple /\ PhasesSimple'
        BY PhaseIs, PTL
      <3>2. ~ Runs(j)
        BY <2>1, <2>3 DEF Runs, OneExecution, ExecutedBy
      <3>3. SimplePhase(j) = "enqueued" /\ SimplePhase(j)' = "pending"
        BY <1>2, <1>3, <2>1, <2>2, <2>3, <3>2 DEF SimplePhase
      <3> QED
        BY <3>1, <3>3 DEF PhasesSimple, Steps
    <2> QED
      BY <1>2, <1>3, <2>2, <2>3, Follows
  <1> QED
    BY <1>4, <1>5

(* The end of an execution ends no other.                                  *)
LEMMA ReplyRuns ==
    ASSUME NEW r \in Requests, NEW s \in [Requests -> Servers],
           \A q \in Requests : s[q] \in Executes <=> Executing(q),
           about \in [Requests -> Jobs \cup {NoJob}],
           NEW answer \in {"ok", "error"}, Reply(s, r, answer)
    PROVE  /\ ~ Executing(r)'
           /\ \A q \in Requests \ {r} : /\ Executing(q)' <=> Executing(q)
                                        /\ about'[q] = about[q]
  BY DEF Reply, Executing, Executes, Servers

(* Lifecycle: a worker ends its execution, and maybe writes its row.       *)
LEMMA LifeEnds ==
    ASSUME IInv, OneExecution, OneExecution', NEW r \in Requests, NEW j \in Jobs,
           j = about[r], Executing(r), ~ Executing(r)', overridden' = overridden,
           \A q \in Requests \ {r} : (Executing(q)' <=> Executing(q)) /\ about'[q] = about[q],
           \A k \in Jobs \ {j} : state'[k] = state[k],
           state'[j] = state[j] \/ state'[j] \in {"pending", "done", "failed"}
    PROVE  [Life!Next]_phases
  <1>1. \A k \in Jobs \ {j} : Runs(k)' <=> Runs(k)
    BY DEF Runs, ExecutedBy
  <1>2. ASSUME j \notin overridden
        PROVE  <<Phase(j), Phase(j)'>> \in Steps
    <2>1. PhasesSimple /\ PhasesSimple'
      BY PhaseIs, PTL
    <2>2. Runs(j) /\ ~ Runs(j)' /\ state[j] = "started"
      BY <1>2 DEF Runs, OneExecution, ExecutedBy
    <2>3. SimplePhase(j) = "executing"
      BY <1>2, <2>2 DEF SimplePhase
    <2>4. SimplePhase(j)' \in {"stalled", "pending", "done", "failed"}
      BY <1>2, <2>2 DEF SimplePhase
    <2> QED
      BY <2>1, <2>3, <2>4 DEF PhasesSimple, Steps
  <1> QED
    BY <1>1, <1>2, Follows

(* Lifecycle: the steps of the workers.                                    *)
LEMMA LifeWorkers ==
    ASSUME IInv, OneExecution, OneExecution', NEW r \in Requests,
           WorkerStep(r) \/ Retry(r) \/ Abort(r)
    PROVE  [Life!Next]_phases
  <1> DEFINE c == Conflict(srv, about[r])
  <1>1. /\ srv \in [Requests -> Servers] /\ about \in [Requests -> Jobs \cup {NoJob}]
        /\ state \in [Jobs -> Stored \cup {"none", "gone"}]
    BY DEF IInv, TypeInv, TypeOK
  <1>2. c \in [Requests -> Servers] /\ \A q \in Requests : c[q] \in Executes <=> Executing(q)
    BY <1>1, ConflictType, ConflictExecutes DEF Executing
  <1>3. PICK j \in Jobs : j = about[r]
    BY DEF WorkerStep, Start, Refuse, BeginWork, Finish, Succeed, ConflictRetry,
           ConflictLost, Fail, Retry, Abort, Executing, Executes, IInv, TypeInv, RequestsOK
  <1>4. CASE Succeed(r) \/ ConflictRetry(r) \/ Fail(r) \/ Retry(r)
    <2> HIDE DEF c
    <2>1. Executing(r) /\ overridden' = overridden
      BY <1>4 DEF Succeed, ConflictRetry, Fail, Retry, RetryPostpone, Executing, Executes
    <2>2. /\ \E answer \in {"ok", "error"} : Reply(c, r, answer)
          /\ \E s \in {"pending", "done", "failed"} : Store(r, s)
      BY <1>4 DEF Succeed, ConflictRetry, Fail, Retry, RetryPostpone, c
    <2>3. state'[j] \in {"pending", "done", "failed"}
          /\ \A k \in Jobs \ {j} : state'[k] = state[k]
      BY <1>1, <1>3, <2>2 DEF Store, SetState
    <2> QED
      BY <1>1, <1>2, <1>3, <2>1, <2>2, <2>3, ReplyRuns, LifeEnds
  <1>5. CASE Refuse(r) \/ ConflictLost(r) \/ Abort(r)
    <2>1. /\ \E answer \in {"ok", "error"} : Reply(srv, r, answer)
          /\ state' = state /\ overridden' = overridden
      BY <1>5 DEF Refuse, ConflictLost, Abort, table
    <2>2. /\ ~ Executing(r)'
          /\ \A q \in Requests \ {r} : (Executing(q)' <=> Executing(q)) /\ about'[q] = about[q]
      BY <1>1, <2>1, ReplyRuns DEF Executing
    <2>3. CASE Executing(r)
      BY <1>3, <2>1, <2>2, <2>3, LifeEnds
    <2>4. CASE ~ Executing(r)
      <3>1. \A k \in Jobs : Runs(k)' <=> Runs(k)
        BY <2>2, <2>4 DEF Runs, ExecutedBy
      <3> QED
        BY <2>1, <3>1, Stutters
    <2> QED
      BY <2>3, <2>4
  <1>6. CASE BeginWork(r)
    <2>1. /\ \A q \in Requests : Executing(q)' <=> Executing(q)
          /\ about' = about /\ state' = state /\ overridden' = overridden
      BY <1>1, <1>6 DEF BeginWork, Executing, Executes, table
    <2> QED
      BY <2>1, SameRuns, Stutters
  <1>7. CASE Start(r)
    <2>1. /\ state[j] = "enqueued" /\ about' = about /\ overridden' = overridden
          /\ state'[j] = "started" /\ \A k \in Jobs \ {j} : state'[k] = state[k]
      BY <1>1, <1>3, <1>7 DEF Start, SetState
    <2>2. /\ Executing(r)'
          /\ \A q \in Requests \ {r} : Executing(q)' <=> Executing(q)
      BY <1>1, <1>2, <1>7 DEF Start, Executing, Executes
    <2>3. \A k \in Jobs \ {j} : Runs(k)' <=> Runs(k)
      <3>1. ASSUME NEW q \in Requests, NEW k \in Jobs \ {j}
            PROVE  ExecutedBy(q, k)' <=> ExecutedBy(q, k)
        BY <1>3, <2>1, <2>2 DEF ExecutedBy
      <3> QED
        BY <3>1 DEF Runs
    <2>4. ASSUME j \notin overridden
          PROVE  <<Phase(j), Phase(j)'>> \in Steps
      <3>1. PhasesSimple /\ PhasesSimple'
        BY PhaseIs, PTL
      <3>2. ~ Runs(j) /\ Runs(j)'
        BY <1>3, <2>1, <2>2, <2>4 DEF Runs, OneExecution, ExecutedBy
      <3>3. SimplePhase(j) = "enqueued" /\ SimplePhase(j)' = "executing"
        BY <2>1, <2>4, <3>2 DEF SimplePhase
      <3> QED
        BY <3>1, <3>3 DEF PhasesSimple, Steps
    <2> QED
      BY <2>1, <2>3, <2>4, Follows
  <1> QED
    BY <1>4, <1>5, <1>6, <1>7 DEF WorkerStep, Finish

(* Every step is a step of the abstract life, or leaves it as it is.       *)
LEMMA LifeNext ==
    ASSUME IInv, OneExecution, OneExecution', FinalInv, [Next]_vars
    PROVE  [Life!Next]_phases
  <1>1. CASE UNCHANGED vars
    <2>1. /\ \A q \in Requests : Executing(q)' <=> Executing(q)
          /\ about' = about /\ state' = state /\ overridden' = overridden
      BY <1>1 DEF vars, table, requests, Executing
    <2> QED
      BY <2>1, SameRuns, Stutters
  <1>2. CASE System
    BY <1>2, LifeRunner, LifeThreads, LifeWorkers, LifeUsers DEF System
  <1>3. CASE Creation
    BY <1>3, LifeUsers DEF Creation
  <1>4. CASE Faults
    BY <1>4, LifeRunner, LifeThreads, LifeWorkers, LifeUsers DEF Faults
  <1> QED
    BY <1>1, <1>2, <1>3, <1>4 DEF Next

(* Every job follows the life of module JobLifecycle until someone changes *)
(* it while it is in progress, whatever times out, fails or is restarted.  *)
THEOREM LifecycleFollowed == Spec => FollowsLifecycle
  <1>1. Init => OneExecution /\ FinalInv
    BY DEF Init, OneExecution, Executing, Executes, FinalInv, WaitingIsPending,
           PoppedIsPending, Up
  <1>2. Init => Life!Init
    <2> SUFFICES ASSUME Init PROVE phases = [j \in Jobs |-> "none"]
      BY DEF phases, Life!Init
    <2>1. OneExecution /\ PhasesSimple
      BY <1>1, PhaseIs
    <2>2. \A j \in Jobs : SimplePhase(j) = "none"
      BY DEF Init, SimplePhase, Runs, ExecutedBy, Executing, Executes
    <2> QED
      BY <2>1, <2>2 DEF PhasesSimple, phases
  <1>3. IInv /\ OneExecution /\ OneExecution' /\ FinalInv /\ [Next]_vars
          => [Life!Next]_phases
    BY LifeNext
  <1> QED
    BY <1>1, <1>2, <1>3, ManagerCorrect, OneNext, FinalNext, PTL
       DEF Spec, FollowsLifecycle, Life!Spec, phases
=============================================================================
