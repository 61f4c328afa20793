--------------------------- MODULE JobKeys_proofs ---------------------------
(***************************************************************************)
(* Theorems about module JobKeys, for any number of senders, workers and   *)
(* jobs of a key, whatever the users do to the jobs.                       *)
(***************************************************************************)
EXTENDS JobKeys, WellFoundedInduction, TLAPS

-----------------------------------------------------------------------------
(* Types.                                                                  *)

Work == Attempts \cup {NoWork}

(* The least of some ids.                                                  *)
LEMMA LeastKey ==
    ASSUME NEW S \in SUBSET Nat, S # {}
    PROVE  Min(S) \in S
  <1>1. PICK x \in S : \A y \in S : ~ (<<y, x>> \in OpToRel(<, Nat))
    BY NatLessThanWellFounded, WFMin
  <1>2. ASSUME NEW y \in S, ~ (x <= y) PROVE FALSE
    <2>1. y \in Nat /\ x \in Nat /\ y < x
      BY <1>2
    <2>2. <<y, x>> \in OpToRel(<, Nat)
      BY <2>1 DEF OpToRel
    <2> QED
      BY <1>1, <2>2
  <1>3. \E z \in S : \A y \in S : z <= y
    BY <1>2
  <1> QED
    BY <1>3 DEF Min

(* A worker at work has a job.                                             *)
LEMMA WorkKinds ==
    ASSUME NEW x \in Work
    PROVE  /\ x.at \in {"idle", "started", "working", "leaving"}
           /\ x.at # "idle" => x \in Attempts /\ x.job \in KeyJobs /\ x.sees \in SUBSET Senders
           /\ x.job \in KeyJobs => x.at # "idle" /\ x # NoWork
           /\ x = NoWork => x.at = "idle" /\ x.job \notin KeyJobs
           /\ x.stale \in BOOLEAN
  <1>1. NoKeyJob \notin KeyJobs /\ NoWork.at = "idle" /\ NoWork.job = NoKeyJob /\ NoWork.stale = FALSE
    BY KeysAssumption DEF NoWork, NoKeyJob
  <1>2. CASE x = NoWork
    BY <1>1, <1>2
  <1>3. CASE x \in Attempts
    <2>1. x.job \in KeyJobs /\ x.at \in {"started", "working", "leaving"} /\ x.sees \in SUBSET Senders
      BY <1>3 DEF Attempts
    <2>2. x.stale \in BOOLEAN
      BY <1>3 DEF Attempts
    <2> QED
      BY <1>1, <1>3, <2>1, <2>2
  <1> QED
    BY <1>2, <1>3 DEF Work

(* A write of the row of j, seen by the workers outside of but.            *)
LEMMA StaleEffect ==
    ASSUME KeyTypeOK, NEW j, NEW but, NEW x \in Workers
    PROVE  /\ MadeStale(j, but)[x] \in Work
           /\ MadeStale(j, but)[x].job = work[x].job
           /\ MadeStale(j, but)[x].at = work[x].at
           /\ MadeStale(j, but)[x].sees = work[x].sees
           /\ work[x].stale => MadeStale(j, but)[x].stale
           /\ work[x].job = j /\ work[x].at = "working" /\ x \notin but => MadeStale(j, but)[x].stale
  <1>1. work[x] \in Work
    BY DEF KeyTypeOK, Work
  <1>2. CASE x \in Executing(j) \ but /\ work[x].at = "working"
    <2>1. work[x] \in Attempts
      BY <1>1, <1>2, WorkKinds
    <2>2. MadeStale(j, but)[x] = [work[x] EXCEPT !.stale = TRUE]
      BY <1>2 DEF MadeStale
    <2> QED
      BY <2>1, <2>2 DEF Attempts, Work
  <1>3. CASE ~ (x \in Executing(j) \ but /\ work[x].at = "working")
    <2>1. MadeStale(j, but)[x] = work[x]
      BY <1>3 DEF MadeStale
    <2> QED
      BY <1>1, <1>3, <2>1 DEF Executing
  <1> QED
    BY <1>2, <1>3

LEMMA StaleTyped ==
    ASSUME KeyTypeOK, NEW j, NEW but
    PROVE  MadeStale(j, but) \in [Workers -> Work]
  BY StaleEffect DEF MadeStale
(* What a step does to the workers: w does something else, the others may  *)
(* lose the right to write the row of j.                                   *)
WorkStep(j, w, new) ==
    /\ work' \in [Workers -> Work]
    /\ work'[w] = new
    /\ \A x \in Workers \ {w} :
          /\ work'[x].job = work[x].job /\ work'[x].at = work[x].at /\ work'[x].sees = work[x].sees
          /\ work[x].stale => work'[x].stale
          /\ work[x].job = j /\ work[x].at = "working" => work'[x].stale

LEMMA WorkStepIs ==
    ASSUME KeyTypeOK, NEW j, NEW w \in Workers, NEW new \in Work,
           work' = [MadeStale(j, {w}) EXCEPT ![w] = new]
    PROVE  WorkStep(j, w, new)
  <1>1. MadeStale(j, {w}) \in [Workers -> Work]
    BY StaleTyped
  <1>2. work' \in [Workers -> Work] /\ work'[w] = new
    BY <1>1
  <1>3. \A x \in Workers \ {w} : work'[x] = MadeStale(j, {w})[x]
    BY <1>1
  <1> SUFFICES ASSUME NEW x \in Workers \ {w}
               PROVE  /\ work'[x].job = work[x].job /\ work'[x].at = work[x].at
                      /\ work'[x].sees = work[x].sees
                      /\ work[x].stale => work'[x].stale
                      /\ work[x].job = j /\ work[x].at = "working" => work'[x].stale
    BY <1>2 DEF WorkStep
  <1> DEFINE new2 == MadeStale(j, {w})[x]
  <1>4. /\ new2.job = work[x].job /\ new2.at = work[x].at /\ new2.sees = work[x].sees
        /\ work[x].stale => new2.stale
        /\ work[x].job = j /\ work[x].at = "working" => new2.stale
    BY StaleEffect
  <1>5. work'[x] = new2
    BY <1>3
  <1> HIDE DEF new2
  <1> QED
    BY <1>4, <1>5

-----------------------------------------------------------------------------
(* Types: every step.                                                      *)

LEMMA KeyTypeInit == KeyInit => KeyTypeOK
  <1> SUFFICES ASSUME KeyInit PROVE KeyTypeOK
    OBVIOUS
  <1>1. touches \in 0..MaxTouches
    BY KeysAssumption DEF KeyInit
  <1>2. /\ job \in [KeyJobs -> JobStates] /\ decided \in [Senders -> {"idle", "found", "new", "late", "over"}]
        /\ work \in [Workers -> Attempts \cup {NoWork}]
        /\ mark \in [KeyJobs -> {"clean", "redone", "hidden"}]
    BY DEF KeyInit, JobStates
  <1>3. told \in [Senders -> KeyJobs \cup {NoKeyJob}]
    BY DEF KeyInit
  <1>4. saved = {} /\ served = {} /\ overtaken = {} /\ applied = {}
    BY DEF KeyInit
  <1> QED
    BY <1>1, <1>2, <1>3, <1>4 DEF KeyTypeOK

LEMMA LateTyped ==
    KeyTypeOK => MadeLate \in [Senders -> {"idle", "found", "new", "late", "over"}]
  BY DEF KeyTypeOK, MadeLate

LEMMA KeyTypeNext == KeyTypeOK /\ [KeyNext]_keyvars => KeyTypeOK'
  <1> SUFFICES ASSUME KeyTypeOK, [KeyNext]_keyvars PROVE KeyTypeOK'
    OBVIOUS
  <1>0. /\ job \in [KeyJobs -> JobStates] /\ work \in [Workers -> Work]
        /\ decided \in [Senders -> {"idle", "found", "new", "late", "over"}]
        /\ NoWork \in Work /\ \A w \in Workers : work[w] \in Work
    BY DEF KeyTypeOK, Work
  <1>1. CASE UNCHANGED keyvars
    BY <1>1 DEF keyvars, keyseen, KeyTypeOK
  <1>2. ASSUME NEW s \in Senders, Send(s) PROVE KeyTypeOK'
    <2>1. /\ decided' \in [Senders -> {"idle", "found", "new", "late", "over"}]
          /\ told' \in [Senders -> KeyJobs \cup {NoKeyJob}]
      BY <1>2 DEF Send, SameKey, Open, KeyTypeOK
    <2>2. UNCHANGED <<job, work, saved, served, applied, mark, touches, overtaken>>
      BY <1>2 DEF Send, keyseen
    <2> QED
      BY <2>1, <2>2 DEF KeyTypeOK
  <1>3. ASSUME NEW s \in Senders, CommitSend(s) PROVE KeyTypeOK'
    <2>1. /\ saved' = saved \cup {s}
          /\ UNCHANGED <<work, served, applied, mark, touches, overtaken>>
      BY <1>3 DEF CommitSend, keyseen
    <2>2. CASE decided[s] = "found"
      <3>1. decided' = [decided EXCEPT ![s] = "over"] /\ UNCHANGED <<job, told>>
        BY <1>3, <2>2 DEF CommitSend
      <3>2. decided' \in [Senders -> {"idle", "found", "new", "late", "over"}]
        BY <1>0, <3>1
      <3> QED
        BY <2>1, <3>1, <3>2 DEF KeyTypeOK
    <2>3. CASE decided[s] # "found"
      <3> DEFINE j == Min(KeyJobs \ Created)
      <3>1. j \in KeyJobs
        <4>1. KeyJobs \ Created \in SUBSET Nat /\ KeyJobs \ Created # {}
          BY <1>3, <2>3, KeysAssumption DEF CommitSend, Created
        <4> QED
          BY <4>1, LeastKey
      <3>2. /\ told' = [told EXCEPT ![s] = j] /\ decided' = [MadeLate EXCEPT ![s] = "over"]
            /\ job' = [job EXCEPT ![j] = "pending"]
        BY <1>3, <2>3 DEF CommitSend, Row
      <3> HIDE DEF j
      <3>3. /\ told' \in [Senders -> KeyJobs \cup {NoKeyJob}]
            /\ decided' \in [Senders -> {"idle", "found", "new", "late", "over"}]
            /\ job' \in [KeyJobs -> JobStates]
        BY <1>0, <3>1, <3>2, LateTyped DEF KeyTypeOK, JobStates, OpenStates
      <3> QED
        BY <2>1, <3>3 DEF KeyTypeOK
    <2> QED
      BY <2>2, <2>3
  <1>4. ASSUME NEW s \in Senders, LoseSend(s) PROVE KeyTypeOK'
    <2>1. /\ decided' \in [Senders -> {"idle", "found", "new", "late", "over"}]
          /\ told' \in [Senders -> KeyJobs \cup {NoKeyJob}]
      BY <1>4 DEF LoseSend, KeyTypeOK
    <2>2. UNCHANGED <<job, work, saved, served, applied, mark, touches, overtaken>>
      BY <1>4 DEF LoseSend, keyseen
    <2> QED
      BY <2>1, <2>2 DEF KeyTypeOK
  <1>5. ASSUME NEW j \in KeyJobs, Dispatched(j) \/ TimedOut(j) PROVE KeyTypeOK'
    <2>1. /\ job' \in [KeyJobs -> JobStates]
          /\ work' = MadeStale(j, {})
          /\ UNCHANGED <<decided, saved, told, served, applied, mark, touches, overtaken>>
      BY <1>0, <1>5 DEF Dispatched, TimedOut, Row, keyseen, JobStates, OpenStates
    <2> QED
      BY <2>1, StaleTyped DEF KeyTypeOK, Work
  <1>6. ASSUME NEW w \in Workers, NEW j \in KeyJobs, Take(w, j) PROVE KeyTypeOK'
    <2> DEFINE new == [NoWork EXCEPT !.job = j, !.at = "started"]
    <2>1. new \in Work
      BY DEF NoWork, Attempts, Work
    <2>2. work' = [MadeStale(j, {w}) EXCEPT ![w] = new]
      BY <1>6 DEF Take
    <2>3. WorkStep(j, w, new)
      BY <2>1, <2>2, WorkStepIs
    <2>4. /\ job' \in [KeyJobs -> JobStates]
          /\ overtaken' \in SUBSET Senders
          /\ UNCHANGED <<decided, saved, told, served, applied, mark, touches>>
      BY <1>0, <1>6 DEF Take, Row, JobStates, KeyTypeOK, Late
    <2> QED
      BY <2>3, <2>4 DEF WorkStep, KeyTypeOK, Work
  <1>7. ASSUME NEW w \in Workers, Look(w) \/ CommitLeft(w) \/ Die(w) PROVE KeyTypeOK'
    <2>1. /\ UNCHANGED <<job, decided, saved, told, applied, mark, touches, overtaken>>
          /\ served' \in SUBSET Senders
      BY <1>0, <1>7, WorkKinds DEF Look, CommitLeft, Die, keyseen, KeyTypeOK
    <2>2. work' \in [Workers -> Work]
      <3>1. CASE Look(w)
        <4>1. work[w] \in Attempts /\ saved \in SUBSET Senders
          BY <1>0, <3>1, WorkKinds DEF Look, KeyTypeOK
        <4>2. [work[w] EXCEPT !.at = "working", !.sees = saved] \in Work
          BY <4>1 DEF Attempts, Work
        <4>3. work' = [work EXCEPT ![w] = [work[w] EXCEPT !.at = "working", !.sees = saved]]
          BY <1>0, <3>1 DEF Look
        <4> QED
          BY <1>0, <4>2, <4>3
      <3>2. CASE CommitLeft(w) \/ Die(w)
        BY <1>0, <3>2 DEF CommitLeft, Die
      <3> QED
        BY <1>7, <3>1, <3>2
    <2> QED
      BY <2>1, <2>2 DEF KeyTypeOK, Work
  <1>8. ASSUME NEW w \in Workers,
               Succeed(w) \/ Postpone(w) \/ RaiseRetryable(w) \/ FailJob(w)
        PROVE  KeyTypeOK'
    <2> DEFINE j == work[w].job
    <2>1. j \in KeyJobs /\ work[w].sees \in SUBSET Senders
      BY <1>0, <1>8, WorkKinds DEF Succeed, Postpone, RaiseRetryable, FailJob
    <2>2. /\ job' \in [KeyJobs -> JobStates]
          /\ UNCHANGED <<saved, told, touches, overtaken>>
      BY <1>0, <1>8, <2>1
         DEF Succeed, Postpone, RaiseRetryable, FailJob, Row, JobStates, OpenStates
    <2>3. decided' \in [Senders -> {"idle", "found", "new", "late", "over"}]
      BY <1>0, <1>8, LateTyped DEF Succeed, Postpone, RaiseRetryable, FailJob
    <2>4. served' \in SUBSET Senders /\ applied' \in SUBSET KeyJobs
      BY <1>8, <2>1 DEF Succeed, Postpone, RaiseRetryable, FailJob, Applied, Mark, KeyTypeOK
    <2>5. mark' \in [KeyJobs -> {"clean", "redone", "hidden"}]
      BY <1>8, <2>1 DEF Succeed, Postpone, RaiseRetryable, FailJob, Mark, KeyTypeOK
    <2>6. work' \in [Workers -> Work]
      <3>1. \E new \in Work : work' = [MadeStale(j, {w}) EXCEPT ![w] = new]
        <4>1. CASE Rests(w, j)
          BY <1>0, <4>1 DEF Rests
        <4>2. CASE RaiseRetryable(w)
          <5>1. PICK S \in {{}, work[w].sees} :
                   work' = [MadeStale(j, {w}) EXCEPT ![w] =
                              IF S = {} THEN NoWork
                              ELSE [NoWork EXCEPT !.job = j, !.at = "leaving", !.sees = S]]
            BY <4>2 DEF RaiseRetryable
          <5>2. [NoWork EXCEPT !.job = j, !.at = "leaving", !.sees = S] \in Work
            BY <2>1 DEF NoWork, Attempts, Work
          <5> QED
            BY <1>0, <5>1, <5>2
        <4> QED
          BY <1>8, <4>1, <4>2 DEF Succeed, Postpone, FailJob
      <3> QED
        BY <3>1, StaleTyped
    <2> QED
      BY <2>2, <2>3, <2>4, <2>5, <2>6 DEF KeyTypeOK, Work
  <1>9. ASSUME NEW j \in KeyJobs, RequeueJob(j) \/ SetDoneJob(j) PROVE KeyTypeOK'
    <2>1. /\ job' \in [KeyJobs -> JobStates] /\ saved' = saved /\ told' = told
          /\ work' = MadeStale(j, {})
      BY <1>0, <1>9 DEF RequeueJob, SetDoneJob, Row, Touch, JobStates, OpenStates
    <2>2. decided' \in [Senders -> {"idle", "found", "new", "late", "over"}]
      BY <1>0, <1>9, LateTyped DEF RequeueJob, SetDoneJob
    <2>3. /\ served' \in SUBSET Senders /\ overtaken' \in SUBSET Senders
          /\ applied' \in SUBSET KeyJobs
      BY <1>9 DEF RequeueJob, SetDoneJob, Touch, Mark, Late, KeyTypeOK
    <2>4. mark' \in [KeyJobs -> {"clean", "redone", "hidden"}]
      BY <1>9 DEF RequeueJob, SetDoneJob, Touch, Mark, KeyTypeOK
    <2>5. touches' \in 0..MaxTouches
      BY <1>9, KeysAssumption DEF RequeueJob, SetDoneJob, Touch, KeyTypeOK
    <2> QED
      BY <2>1, <2>2, <2>3, <2>4, <2>5, StaleTyped DEF KeyTypeOK, Work
  <1> QED
    BY <1>1, <1>2, <1>3, <1>4, <1>5, <1>6, <1>7, <1>8, <1>9 DEF KeyNext

(* The variables keep their types.                                         *)
THEOREM KeyTypes == KeySpec => []KeyTypeOK
  BY KeyTypeInit, KeyTypeNext, PTL DEF KeySpec
-----------------------------------------------------------------------------
(* The inductive invariant.                                                *)

(* An attempt that may still write the row of j: it has not looked at the  *)
(* database yet, or nobody has written the row since it did.               *)
Live(w, j) ==
    /\ work[w].job = j
    /\ work[w].at = "started" \/ (work[w].at = "working" /\ ~ work[w].stale)

(* A clean job has one attempt at a time, and no effects before it is done.*)
CleanInv ==
    \A j \in KeyJobs : mark[j] = "clean" =>
        /\ job[j] = "done" <=> j \in applied
        /\ \A w \in Workers : work[w].job = j => job[j] = "started"
        /\ \A w, x \in Workers : work[w].job = j /\ work[x].job = j => w = x

(* Unless the row was written behind its back, a live attempt is the only  *)
(* one, and its job is started.                                            *)
LiveInv ==
    \A j \in KeyJobs : mark[j] # "hidden" =>
        /\ \A w \in Workers : Live(w, j) => job[j] = "started"
        /\ \A w, x \in Workers : Live(w, j) /\ Live(x, j) => w = x

(* A job that does not exist has no past.                                  *)
BornInv ==
    \A j \in KeyJobs : job[j] = "none" =>
        mark[j] = "clean" /\ \A w \in Workers : work[w].job # j

(* The job that a sender has found waits until the sender commits, and     *)
(* when it has found none, none waits.                                     *)
SenderInv ==
    \A s \in Senders :
        /\ s \in saved <=> decided[s] = "over"
        /\ decided[s] \in {"found", "over"} => told[s] \in KeyJobs
        /\ decided[s] = "found" /\ s \notin overtaken /\ mark[told[s]] # "hidden" =>
              job[told[s]] \in {"pending", "enqueued", "failed"}
        /\ decided[s] = "new" => Open = {}

(* A change that was not dealt with is one that every attempt will see.    *)
ServedInv ==
    \A s \in saved \ overtaken : s \notin served /\ mark[told[s]] # "hidden" =>
        /\ job[told[s]] # "done"
        /\ \A w \in Workers : Live(w, told[s]) /\ work[w].at = "working" => s \in work[w].sees

KeyInv == KeyTypeOK /\ CleanInv /\ LiveInv /\ BornInv /\ SenderInv /\ ServedInv

(* Somebody writes the row of j; the workers outside of but go on.         *)
OthersWork(j, but) ==
    \A x \in Workers \ but :
        /\ work'[x].job = work[x].job /\ work'[x].at = work[x].at /\ work'[x].sees = work[x].sees
        /\ \A i : Live(x, i)' => Live(x, i)
        /\ Live(x, j)' => work[x].at = "started"

LEMMA OthersAfter ==
    ASSUME KeyTypeOK, NEW j \in KeyJobs, NEW w \in Workers, NEW new, WorkStep(j, w, new)
    PROVE  OthersWork(j, {w})
  BY DEF OthersWork, WorkStep, Live

LEMMA AllAfter ==
    ASSUME KeyTypeOK, NEW j \in KeyJobs, work' = MadeStale(j, {})
    PROVE  OthersWork(j, {})
  <1> SUFFICES ASSUME NEW x \in Workers
               PROVE  /\ work'[x].job = work[x].job /\ work'[x].at = work[x].at
                      /\ work'[x].sees = work[x].sees
                      /\ \A i : Live(x, i)' => Live(x, i)
                      /\ Live(x, j)' => work[x].at = "started"
    BY DEF OthersWork
  <1> DEFINE new == MadeStale(j, {})[x]
  <1>1. /\ new.job = work[x].job /\ new.at = work[x].at /\ new.sees = work[x].sees
        /\ work[x].stale => new.stale
        /\ work[x].job = j /\ work[x].at = "working" => new.stale
    BY StaleEffect
  <1>2. work'[x] = new
    OBVIOUS
  <1> HIDE DEF new
  <1> QED
    BY <1>1, <1>2 DEF Live

(* What becomes of the mark of a job whose row is written.                 *)
LEMMA MarkEffect ==
    ASSUME KeyTypeOK, NEW j \in KeyJobs, NEW but, NEW m \in {mark[j], "redone"}, Mark(j, but, m)
    PROVE  /\ \A i \in KeyJobs \ {j} : mark'[i] = mark[i] /\ (i \in applied' <=> i \in applied)
           /\ mark'[j] = "clean" => mark[j] = "clean" /\ m = "clean" /\ applied' = applied
           /\ mark'[j] # "hidden" =>
                 /\ mark[j] # "hidden"
                 /\ \A x \in Workers \ but : ~ (work[x].job = j /\ work[x].at = "started")
  BY DEF Mark, Hides, Executing, KeyTypeOK

LEMMA SendKeeps ==
    ASSUME KeyInv, KeyTypeOK', NEW s \in Senders, Send(s) \/ LoseSend(s)
    PROVE  KeyInv'
  <1>1. /\ UNCHANGED <<job, work, saved, served, applied, mark, overtaken>>
        /\ decided[s] # "over" /\ s \notin saved
        /\ \A r \in Senders \ {s} : decided'[r] = decided[r] /\ told'[r] = told[r]
        /\ \/ decided'[s] = "idle"
           \/ decided'[s] = "new" /\ Open = {}
           \/ decided'[s] = "found" /\ told'[s] \in KeyJobs /\ job[told'[s]] \in OpenStates
    BY DEF KeyInv, KeyTypeOK, SenderInv, Send, LoseSend, keyseen, SameKey, Open
  <1>2. CleanInv' /\ LiveInv' /\ BornInv'
    BY <1>1 DEF KeyInv, CleanInv, LiveInv, BornInv, Live
  <1>3. SenderInv'
    BY <1>1 DEF KeyInv, SenderInv, Open, OpenStates
  <1>4. ServedInv'
    <2> SUFFICES ASSUME NEW r \in saved \ overtaken, r \notin served, mark[told'[r]] # "hidden"
                 PROVE  /\ job[told'[r]] # "done"
                        /\ \A w \in Workers :
                              Live(w, told'[r]) /\ work[w].at = "working" => r \in work[w].sees
      BY <1>1 DEF ServedInv, Live
    <2>1. r \in Senders \ {s}
      BY <1>1 DEF KeyInv, KeyTypeOK
    <2>2. told'[r] = told[r]
      BY <1>1, <2>1
    <2> QED
      BY <2>2 DEF KeyInv, ServedInv
  <1> QED
    BY <1>2, <1>3, <1>4 DEF KeyInv

(* A row that is made pending or enqueued by the runner, with nobody alive *)
(* behind it unless it is hidden.                                          *)
LEMMA RunnerKeeps ==
    ASSUME KeyInv, KeyTypeOK', NEW j \in KeyJobs, Dispatched(j) \/ TimedOut(j)
    PROVE  KeyInv'
  <1>1. /\ UNCHANGED <<decided, told, saved, served, applied, mark, overtaken>>
        /\ job[j] \in OpenStates /\ job'[j] \in OpenStates
        /\ \A i \in KeyJobs \ {j} : job'[i] = job[i]
        /\ work' = MadeStale(j, {})
    BY DEF KeyInv, KeyTypeOK, Dispatched, TimedOut, Row, keyseen, OpenStates
  <1>2. OthersWork(j, {})
    BY <1>1, AllAfter DEF KeyInv
  <1>3. \A x \in Workers : /\ work'[x].job = work[x].job /\ work'[x].at = work[x].at
                           /\ work'[x].sees = work[x].sees
                           /\ \A i : Live(x, i)' => Live(x, i)
    BY <1>2 DEF OthersWork
  <1>4. CleanInv'
    BY <1>1, <1>3 DEF KeyInv, CleanInv, OpenStates
  <1>5. LiveInv'
    BY <1>1, <1>3 DEF KeyInv, LiveInv, OpenStates
  <1>6. BornInv'
    BY <1>1, <1>3 DEF KeyInv, BornInv, OpenStates
  <1>7. SenderInv'
    <2>1. Open' = Open
      BY <1>1 DEF Open
    <2>2. \A s \in Senders : decided[s] = "found" => told[s] \in KeyJobs
      BY DEF KeyInv, SenderInv
    <2> QED
      BY <1>1, <2>1, <2>2 DEF KeyInv, SenderInv, OpenStates
  <1>8. ServedInv'
    <2> SUFFICES ASSUME NEW s \in saved \ overtaken, s \notin served, mark[told[s]] # "hidden"
                 PROVE  /\ job'[told[s]] # "done"
                        /\ \A w \in Workers :
                              Live(w, told[s])' /\ work'[w].at = "working" => s \in work'[w].sees
      BY <1>1 DEF ServedInv, Live
    <2>1. told[s] \in KeyJobs
      BY DEF KeyInv, SenderInv, KeyTypeOK
    <2> QED
      BY <1>1, <1>3, <2>1 DEF KeyInv, ServedInv, OpenStates
  <1> QED
    BY <1>4, <1>5, <1>6, <1>7, <1>8 DEF KeyInv

(* The commit of a sender: either its job is one that waits or failed, or  *)
(* it is a new one.                                                        *)
LEMMA CommitKeeps ==
    ASSUME KeyInv, KeyTypeOK', NEW s \in Senders, CommitSend(s)
    PROVE  KeyInv'
  <1>1. /\ UNCHANGED <<work, served, applied, mark, overtaken>>
        /\ saved' = saved \cup {s} /\ s \notin saved
        /\ decided[s] \in {"found", "new", "late"}
    BY DEF KeyInv, KeyTypeOK, SenderInv, CommitSend, keyseen
  <1>2. CASE decided[s] = "found"
    <2>1. /\ UNCHANGED <<job, told>> /\ decided'[s] = "over"
          /\ \A r \in Senders \ {s} : decided'[r] = decided[r]
      BY <1>2 DEF CommitSend, KeyInv, KeyTypeOK
    <2>2. CleanInv' /\ LiveInv' /\ BornInv'
      BY <1>1, <2>1 DEF KeyInv, CleanInv, LiveInv, BornInv, Live
    <2>3. SenderInv'
      BY <1>1, <1>2, <2>1 DEF KeyInv, SenderInv, Open
    <2>4. ServedInv'
      <3> SUFFICES ASSUME NEW r \in saved', r \notin overtaken,
                          r \notin served, mark[told[r]] # "hidden"
                   PROVE  /\ job[told[r]] # "done"
                          /\ \A w \in Workers :
                                Live(w, told[r]) /\ work[w].at = "working" => r \in work[w].sees
        BY <1>1, <2>1 DEF ServedInv, Live
      <3>1. CASE r \in saved
        BY <3>1 DEF KeyInv, ServedInv
      <3>2. CASE r = s
        <4>1. told[s] \in KeyJobs /\ job[told[s]] \in {"pending", "enqueued", "failed"}
          BY <1>2, <3>2 DEF KeyInv, SenderInv
        <4>2. \A w \in Workers : ~ Live(w, told[s])
          BY <3>2, <4>1 DEF KeyInv, LiveInv
        <4> QED
          BY <3>2, <4>1, <4>2
      <3> QED
        BY <1>1, <3>1, <3>2
    <2> QED
      BY <2>2, <2>3, <2>4 DEF KeyInv
  <1>3. CASE decided[s] # "found"
    <2> DEFINE j == Min(KeyJobs \ Created)
    <2>1. j \in KeyJobs /\ job[j] = "none"
      <3>1. KeyJobs \ Created \in SUBSET Nat /\ KeyJobs \ Created # {}
        BY <1>3, KeysAssumption DEF CommitSend, Created
      <3> QED
        BY <3>1, LeastKey DEF Created
    <2>2. /\ told' = [told EXCEPT ![s] = j] /\ decided' = [MadeLate EXCEPT ![s] = "over"]
          /\ job' = [job EXCEPT ![j] = "pending"]
      BY <1>3 DEF CommitSend, Row
    <2> HIDE DEF j
    <2>3. /\ job'[j] = "pending" /\ \A i \in KeyJobs \ {j} : job'[i] = job[i]
          /\ told'[s] = j /\ \A r \in Senders \ {s} : told'[r] = told[r]
          /\ decided'[s] = "over"
          /\ \A r \in Senders \ {s} :
                decided'[r] = IF decided[r] = "new" THEN "late" ELSE decided[r]
      BY <2>1, <2>2, LateTyped DEF KeyInv, KeyTypeOK, MadeLate
    <2>4. mark[j] = "clean" /\ \A w \in Workers : work[w].job # j
      BY <2>1 DEF KeyInv, BornInv
    <2>5. CleanInv' /\ LiveInv' /\ BornInv'
      BY <1>1, <2>1, <2>3, <2>4 DEF KeyInv, CleanInv, LiveInv, BornInv, Live
    <2>6. SenderInv'
      <3> SUFFICES ASSUME NEW r \in Senders
                   PROVE  /\ r \in saved' <=> decided'[r] = "over"
                          /\ decided'[r] \in {"found", "over"} => told'[r] \in KeyJobs
                          /\ decided'[r] = "found" /\ r \notin overtaken /\ mark[told'[r]] # "hidden" =>
                                job'[told'[r]] \in {"pending", "enqueued", "failed"}
                          /\ decided'[r] # "new"
        BY <1>1 DEF SenderInv
      <3>1. CASE r = s
        BY <1>1, <2>1, <2>3, <3>1
      <3>2. CASE r # s
        BY <1>1, <2>1, <2>3, <3>2 DEF KeyInv, SenderInv
      <3> QED
        BY <3>1, <3>2
    <2>7. ServedInv'
      <3> SUFFICES ASSUME NEW r \in saved', r \notin overtaken,
                          r \notin served, mark[told'[r]] # "hidden"
                   PROVE  /\ job'[told'[r]] # "done"
                          /\ \A w \in Workers :
                                Live(w, told'[r]) /\ work[w].at = "working" => r \in work[w].sees
        BY <1>1 DEF ServedInv, Live
      <3>1. CASE r = s
        BY <2>3, <2>4, <3>1 DEF Live
      <3>2. CASE r \in saved
        <4>1. r \in Senders \ {s} /\ told[r] \in KeyJobs /\ told'[r] = told[r]
          BY <1>1, <2>3, <3>2 DEF KeyInv, KeyTypeOK, SenderInv
        <4>2. job'[told[r]] # "done"
          BY <2>3, <3>2, <4>1 DEF KeyInv, ServedInv
        <4> QED
          BY <3>2, <4>1, <4>2 DEF KeyInv, ServedInv
      <3> QED
        BY <1>1, <3>1, <3>2
    <2> QED
      BY <2>5, <2>6, <2>7 DEF KeyInv
  <1> QED
    BY <1>2, <1>3

(* Somebody takes the job: nobody alive was behind it.                     *)
LEMMA TakeKeeps ==
    ASSUME KeyInv, KeyTypeOK', NEW w \in Workers, NEW j \in KeyJobs, Take(w, j)
    PROVE  KeyInv'
  <1> DEFINE new == [NoWork EXCEPT !.job = j, !.at = "started"]
  <1>1. new \in Work /\ new.job = j /\ new.at = "started"
    BY DEF NoWork, Attempts, Work
  <1>2. WorkStep(j, w, new)
    <2>1. work' = [MadeStale(j, {w}) EXCEPT ![w] = new]
      BY DEF Take
    <2> HIDE DEF new
    <2> QED
      BY <1>1, <2>1, WorkStepIs DEF KeyInv
  <1>3. work'[w].job = j /\ work'[w].at = "started"
    BY <1>1, <1>2 DEF WorkStep
  <1> HIDE DEF new
  <1>4. OthersWork(j, {w})
    BY <1>2, OthersAfter DEF KeyInv
  <1>5. \A x \in Workers \ {w} : /\ work'[x].job = work[x].job /\ work'[x].at = work[x].at
                                 /\ work'[x].sees = work[x].sees
                                 /\ \A i : Live(x, i)' => Live(x, i)
    BY <1>4 DEF OthersWork
  <1>6. /\ UNCHANGED <<decided, told, saved, served, applied, mark>>
        /\ overtaken' = overtaken \cup Late(j)
        /\ job[j] = "enqueued" /\ job'[j] = "started"
        /\ \A i \in KeyJobs \ {j} : job'[i] = job[i]
    BY DEF KeyInv, KeyTypeOK, Take, Row
  <1>7. CleanInv'
    BY <1>3, <1>5, <1>6 DEF KeyInv, CleanInv
  <1>8. LiveInv'
    <2> SUFFICES ASSUME NEW i \in KeyJobs, mark[i] # "hidden"
                 PROVE  /\ \A x \in Workers : Live(x, i)' => job'[i] = "started"
                        /\ \A x, y \in Workers : Live(x, i)' /\ Live(y, i)' => x = y
      BY <1>6 DEF LiveInv
    <2>1. CASE i = j
      <3>1. \A x \in Workers : ~ Live(x, i)
        BY <1>6, <2>1 DEF KeyInv, LiveInv
      <3> QED
        BY <1>5, <1>6, <2>1, <3>1
    <2>2. CASE i # j
      <3>1. ~ Live(w, i)'
        BY <1>3, <2>2 DEF Live
      <3> QED
        BY <1>5, <1>6, <2>2, <3>1 DEF KeyInv, LiveInv
    <2> QED
      BY <2>1, <2>2
  <1>9. BornInv'
    BY <1>3, <1>5, <1>6 DEF KeyInv, BornInv
  <1>10. SenderInv'
    <2> SUFFICES ASSUME NEW s \in Senders
                 PROVE  /\ decided[s] = "found" /\ s \notin overtaken' /\ mark[told[s]] # "hidden" =>
                              job'[told[s]] \in {"pending", "enqueued", "failed"}
                        /\ decided[s] = "new" => Open' = {}
      BY <1>6 DEF KeyInv, SenderInv
    <2>1. decided[s] = "new" => Open' = {}
      BY <1>6 DEF KeyInv, SenderInv, Open, OpenStates
    <2>2. decided[s] = "found" /\ told[s] = j => s \in overtaken'
      BY <1>6 DEF Late
    <2>3. decided[s] = "found" => told[s] \in KeyJobs
      BY DEF KeyInv, SenderInv
    <2> QED
      BY <1>6, <2>1, <2>2, <2>3 DEF KeyInv, SenderInv
  <1>11. ServedInv'
    <2> SUFFICES ASSUME NEW s \in saved \ overtaken, s \notin served, mark[told[s]] # "hidden"
                 PROVE  /\ job'[told[s]] # "done"
                        /\ \A x \in Workers :
                              Live(x, told[s])' /\ work'[x].at = "working" => s \in work'[x].sees
      BY <1>6 DEF ServedInv, Live
    <2>1. told[s] \in KeyJobs
      BY DEF KeyInv, SenderInv, KeyTypeOK
    <2>2. job'[told[s]] # "done"
      BY <1>6, <2>1 DEF KeyInv, ServedInv
    <2> QED
      BY <1>3, <1>5, <1>6, <2>1, <2>2 DEF KeyInv, ServedInv
  <1> QED
    BY <1>7, <1>8, <1>9, <1>10, <1>11 DEF KeyInv

(* Steps of a worker alone.                                                *)
LEMMA AloneKeeps ==
    ASSUME KeyInv, KeyTypeOK', NEW w \in Workers, Look(w) \/ CommitLeft(w) \/ Die(w)
    PROVE  KeyInv'
  <1>1. /\ UNCHANGED <<job, decided, told, saved, applied, mark, overtaken>>
        /\ served \subseteq served'
    BY DEF Look, CommitLeft, Die, keyseen
  <1>2. \A x \in Workers \ {w} : work'[x] = work[x]
    BY DEF KeyInv, KeyTypeOK, Look, CommitLeft, Die
  <1>3. /\ work'[w].job \in KeyJobs => work'[w].job = work[w].job
        /\ \A i \in KeyJobs : Live(w, i)' => Live(w, i) /\ work'[w].sees = saved
    <2>1. CASE Look(w)
      <3>1. work[w] \in Attempts
        BY <2>1, WorkKinds DEF Look, KeyInv, KeyTypeOK, Work
      <3>2. work'[w] = [work[w] EXCEPT !.at = "working", !.sees = saved]
        BY <2>1 DEF Look, KeyInv, KeyTypeOK
      <3>3. work'[w].job = work[w].job /\ work'[w].sees = saved
        BY <3>1, <3>2 DEF Attempts
      <3>4. work[w].at = "started"
        BY <2>1 DEF Look
      <3> QED
        BY <3>3, <3>4 DEF Live
    <2>2. CASE CommitLeft(w) \/ Die(w)
      <3>1. work'[w] = NoWork
        BY <2>2 DEF CommitLeft, Die, KeyInv, KeyTypeOK
      <3>2. NoWork.job \notin KeyJobs
        BY KeysAssumption DEF NoWork, NoKeyJob
      <3> QED
        BY <3>1, <3>2 DEF Live
    <2> QED
      BY <2>1, <2>2
  <1>4. CleanInv'
    BY <1>1, <1>2, <1>3 DEF KeyInv, CleanInv
  <1>5. LiveInv'
    BY <1>1, <1>2, <1>3 DEF KeyInv, LiveInv, Live
  <1>6. BornInv'
    BY <1>1, <1>2, <1>3 DEF KeyInv, BornInv
  <1>7. SenderInv'
    BY <1>1 DEF KeyInv, SenderInv, Open
  <1>8. ServedInv'
    <2> SUFFICES ASSUME NEW s \in saved \ overtaken, s \notin served, mark[told[s]] # "hidden"
                 PROVE  /\ job[told[s]] # "done"
                        /\ \A x \in Workers :
                              Live(x, told[s])' /\ work'[x].at = "working" => s \in work'[x].sees
      BY <1>1 DEF ServedInv, Live
    <2>1. told[s] \in KeyJobs
      BY DEF KeyInv, SenderInv, KeyTypeOK
    <2>2. \A x \in Workers \ {w} :
             Live(x, told[s])' /\ work'[x].at = "working" => s \in work'[x].sees
      BY <1>1, <1>2 DEF KeyInv, ServedInv, Live
    <2>3. Live(w, told[s])' => s \in work'[w].sees
      BY <1>1, <1>3, <2>1
    <2> QED
      BY <2>2, <2>3 DEF KeyInv, ServedInv
  <1> QED
    BY <1>4, <1>5, <1>6, <1>7, <1>8 DEF KeyInv

(* The row of j is written by an attempt that gives up (the one of but) or *)
(* by a user (nobody's), who marks the job.                                *)
Rewritten(j, but, m) ==
    /\ Mark(j, but, m) /\ OthersWork(j, but)
    /\ job[j] # "none" /\ job'[j] \in {"pending", "failed", "done"}
    /\ \A i \in KeyJobs \ {j} : job'[i] = job[i]
    /\ \A w \in but, i \in KeyJobs :
          /\ ~ Live(w, i)'
          /\ work'[w].job = i => work[w].job = i /\ m = "redone"
    /\ m = "clean" => job'[j] # "done" /\ \E w \in but : work[w].job = j

LEMMA RewrittenKeeps ==
    ASSUME KeyInv, NEW j \in KeyJobs, NEW but \in SUBSET Workers, NEW m \in {mark[j], "redone"},
           Rewritten(j, but, m), \A w \in but : work[w].job = j
    PROVE  /\ CleanInv' /\ LiveInv' /\ BornInv'
           /\ \A i \in KeyJobs : mark'[i] # "hidden" => mark[i] # "hidden"
           /\ mark'[j] # "hidden" => \A x \in Workers : ~ Live(x, j)'
           /\ \A x \in Workers, i \in KeyJobs : Live(x, i)' => Live(x, i) /\ work'[x].sees = work[x].sees
  <1>1. /\ job[j] # "none" /\ job'[j] \in {"pending", "failed", "done"}
        /\ \A i \in KeyJobs \ {j} : job'[i] = job[i]
        /\ \A w \in but, i \in KeyJobs :
              /\ ~ Live(w, i)'
              /\ work'[w].job = i => work[w].job = i /\ m = "redone"
    BY DEF Rewritten
  <1>2. \A x \in Workers \ but :
           /\ work'[x].job = work[x].job /\ work'[x].at = work[x].at /\ work'[x].sees = work[x].sees
           /\ \A i : Live(x, i)' => Live(x, i)
           /\ Live(x, j)' => work[x].at = "started"
    BY DEF Rewritten, OthersWork
  <1>3. /\ \A i \in KeyJobs \ {j} : mark'[i] = mark[i] /\ (i \in applied' <=> i \in applied)
        /\ mark'[j] = "clean" => mark[j] = "clean" /\ m = "clean" /\ applied' = applied
        /\ mark'[j] # "hidden" =>
              /\ mark[j] # "hidden"
              /\ \A x \in Workers \ but : ~ (work[x].job = j /\ work[x].at = "started")
    BY MarkEffect DEF Rewritten, KeyInv
  <1>4. \A x \in Workers, i \in KeyJobs : Live(x, i)' => Live(x, i) /\ work'[x].sees = work[x].sees
    BY <1>1, <1>2
  <1>5. mark'[j] # "hidden" => \A x \in Workers : ~ Live(x, j)'
    <2> SUFFICES ASSUME mark'[j] # "hidden", NEW x \in Workers, Live(x, j)' PROVE FALSE
      OBVIOUS
    <2>1. x \notin but
      BY <1>1
    <2>2. work[x].at = "started" /\ work[x].job = j
      BY <1>2, <2>1 DEF Live
    <2> QED
      BY <1>3, <2>1, <2>2
  <1>6. CleanInv'
    <2> SUFFICES ASSUME NEW i \in KeyJobs, mark'[i] = "clean"
                 PROVE  /\ job'[i] = "done" <=> i \in applied'
                        /\ \A x \in Workers : work'[x].job = i => job'[i] = "started"
                        /\ \A x, y \in Workers : work'[x].job = i /\ work'[y].job = i => x = y
      BY DEF CleanInv
    <2>1. CASE i = j
      <3>1. mark[j] = "clean" /\ m = "clean" /\ applied' = applied
        BY <1>3, <2>1
      <3>2. PICK w \in but : work[w].job = j
        BY <3>1 DEF Rewritten
      <3>3. job[j] = "started" /\ j \notin applied /\ \A x \in Workers : work[x].job = j => x = w
        BY <3>1, <3>2 DEF KeyInv, CleanInv
      <3>4. job'[j] # "done"
        BY <3>1 DEF Rewritten
      <3>5. \A x \in Workers : work'[x].job # j
        <4> SUFFICES ASSUME NEW x \in Workers, work'[x].job = j PROVE FALSE
          OBVIOUS
        <4>1. CASE x \in but
          BY <1>1, <3>1, <4>1
        <4>2. CASE x \notin but
          BY <1>2, <3>2, <3>3, <4>2
        <4> QED
          BY <4>1, <4>2
      <3> QED
        BY <2>1, <3>1, <3>3, <3>4, <3>5
    <2>2. CASE i # j
      <3>1. mark[i] = "clean" /\ (i \in applied' <=> i \in applied) /\ job'[i] = job[i]
        BY <1>1, <1>3, <2>2
      <3>2. \A x \in Workers : work'[x].job = i => work[x].job = i
        BY <1>1, <1>2
      <3> QED
        BY <3>1, <3>2 DEF KeyInv, CleanInv
    <2> QED
      BY <2>1, <2>2
  <1>7. LiveInv'
    <2> SUFFICES ASSUME NEW i \in KeyJobs, mark'[i] # "hidden"
                 PROVE  /\ \A x \in Workers : Live(x, i)' => job'[i] = "started"
                        /\ \A x, y \in Workers : Live(x, i)' /\ Live(y, i)' => x = y
      BY DEF LiveInv
    <2>1. CASE i = j
      BY <1>5, <2>1
    <2>2. CASE i # j
      BY <1>1, <1>3, <1>4, <2>2 DEF KeyInv, LiveInv
    <2> QED
      BY <2>1, <2>2
  <1>8. BornInv'
    <2> SUFFICES ASSUME NEW i \in KeyJobs, job'[i] = "none"
                 PROVE  mark'[i] = "clean" /\ \A x \in Workers : work'[x].job # i
      BY DEF BornInv
    <2>1. i # j /\ job[i] = "none"
      BY <1>1
    <2>2. mark[i] = "clean" /\ \A x \in Workers : work[x].job # i
      BY <2>1 DEF KeyInv, BornInv
    <2> QED
      BY <1>1, <1>2, <1>3, <2>1, <2>2
  <1> QED
    BY <1>3, <1>4, <1>5, <1>6, <1>7, <1>8

(* An attempt that gives up: the job waits again, or has failed.           *)
LEMMA GiveUpKeeps ==
    ASSUME KeyInv, KeyTypeOK', NEW w \in Workers, Postpone(w) \/ RaiseRetryable(w) \/ FailJob(w)
    PROVE  KeyInv'
  <1>0. /\ work[w].job \in KeyJobs /\ work[w].at = "working"
        /\ work[w].sees \in SUBSET Senders
    BY WorkKinds DEF Postpone, RaiseRetryable, FailJob, KeyInv, KeyTypeOK, Work
  <1>1. PICK j \in KeyJobs : j = work[w].job
    BY <1>0
  <1>2. PICK m \in {mark[j], "redone"}, new \in Work :
           /\ Mark(j, {w}, m) /\ work' = [MadeStale(j, {w}) EXCEPT ![w] = new]
           /\ new = NoWork \/ (new.at = "leaving" /\ new.job = j /\ m = "redone")
    <2>1. NoWork \in Work
      BY DEF Work
    <2>2. CASE Postpone(w) \/ FailJob(w)
      BY <1>1, <2>1, <2>2 DEF Postpone, FailJob, Rests
    <2>3. CASE RaiseRetryable(w)
      <3>1. PICK S \in {{}, work[w].sees} :
               /\ work' = [MadeStale(j, {w}) EXCEPT ![w] =
                             IF S = {} THEN NoWork
                             ELSE [NoWork EXCEPT !.job = j, !.at = "leaving", !.sees = S]]
               /\ Mark(j, {w}, IF S = {} THEN mark[j] ELSE "redone")
        BY <1>1, <2>3 DEF RaiseRetryable
      <3> DEFINE left == [NoWork EXCEPT !.job = j, !.at = "leaving", !.sees = S]
      <3>2. left \in Work /\ left.job = j /\ left.at = "leaving"
        BY <1>0, <1>1 DEF NoWork, Attempts, Work
      <3>3. CASE S = {}
        BY <2>1, <3>1, <3>3
      <3>4. CASE S # {}
        <4>1. Mark(j, {w}, "redone") /\ work' = [MadeStale(j, {w}) EXCEPT ![w] = left]
          BY <3>1, <3>4
        <4> HIDE DEF left
        <4> QED
          BY <3>2, <4>1
      <3> QED
        BY <3>3, <3>4
    <2> QED
      BY <2>2, <2>3
  <1>3. WorkStep(j, w, new)
    BY <1>2, WorkStepIs DEF KeyInv
  <1>4. work'[w] = new /\ OthersWork(j, {w})
    BY <1>1, <1>3, OthersAfter DEF WorkStep, KeyInv
  <1>5. NoWork.job \notin KeyJobs /\ NoWork.at = "idle"
    BY KeysAssumption DEF NoWork, NoKeyJob
  <1>6. \A i \in KeyJobs : ~ Live(w, i)' /\ (work'[w].job = i => work[w].job = i /\ m = "redone")
    BY <1>1, <1>2, <1>4, <1>5 DEF Live
  <1>7. /\ UNCHANGED <<told, saved, served, overtaken>>
        /\ \/ job'[j] = "pending" /\ decided' = MadeLate
           \/ job'[j] = "failed" /\ decided' = decided
        /\ \A i \in KeyJobs \ {j} : job'[i] = job[i]
    BY <1>1 DEF KeyInv, KeyTypeOK, Postpone, RaiseRetryable, FailJob, Row
  <1>8. job[j] # "none"
    BY <1>1 DEF KeyInv, BornInv
  <1>9. Rewritten(j, {w}, m)
    <2>1. \A x \in {w}, i \in KeyJobs :
             ~ Live(x, i)' /\ (work'[x].job = i => work[x].job = i /\ m = "redone")
      BY <1>6
    <2>2. job'[j] \in {"pending", "failed"} /\ \E x \in {w} : work[x].job = j
      BY <1>1, <1>7
    <2> QED
      BY <1>2, <1>4, <1>7, <1>8, <2>1, <2>2 DEF Rewritten
  <1>10. /\ CleanInv' /\ LiveInv' /\ BornInv'
         /\ \A i \in KeyJobs : mark'[i] # "hidden" => mark[i] # "hidden"
         /\ mark'[j] # "hidden" => \A x \in Workers : ~ Live(x, j)'
         /\ \A x \in Workers, i \in KeyJobs : Live(x, i)' => Live(x, i) /\ work'[x].sees = work[x].sees
    <2>1. {w} \in SUBSET Workers /\ \A x \in {w} : work[x].job = j
      BY <1>1
    <2> QED
      BY <1>2, <1>9, <2>1, RewrittenKeeps
  <1>11. \A x \in Workers, i \in KeyJobs : Live(x, i)' /\ work'[x].at = "working" => work[x].at = "working"
    BY <1>2, <1>4, <1>6 DEF OthersWork
  <1>12. \A s \in Senders : decided'[s] = IF decided[s] = "new" /\ job'[j] = "pending"
                                          THEN "late" ELSE decided[s]
    BY <1>7 DEF KeyInv, KeyTypeOK, MadeLate
  <1>13. SenderInv'
    <2> SUFFICES ASSUME NEW s \in Senders
                 PROVE  /\ s \in saved <=> decided'[s] = "over"
                        /\ decided'[s] \in {"found", "over"} => told[s] \in KeyJobs
                        /\ decided'[s] = "found" /\ s \notin overtaken /\ mark'[told[s]] # "hidden" =>
                              job'[told[s]] \in {"pending", "enqueued", "failed"}
                        /\ decided'[s] = "new" => Open' = {}
      BY <1>7 DEF SenderInv
    <2>1. decided'[s] = "new" => Open' = {}
      <3>1. job'[j] = "failed" => Open' \subseteq Open
        BY <1>7 DEF Open, OpenStates
      <3> QED
        BY <1>7, <1>12, <3>1 DEF KeyInv, SenderInv
    <2>2. /\ s \in saved <=> decided'[s] = "over"
          /\ decided'[s] \in {"found", "over"} => told[s] \in KeyJobs
      BY <1>12 DEF KeyInv, SenderInv
    <2>3. ASSUME decided'[s] = "found", s \notin overtaken, mark'[told[s]] # "hidden"
          PROVE  job'[told[s]] \in {"pending", "enqueued", "failed"}
      <3>1. decided[s] = "found" /\ told[s] \in KeyJobs
        BY <1>12, <2>2, <2>3
      <3>2. mark[told[s]] # "hidden"
        BY <1>10, <2>3, <3>1
      <3>3. job[told[s]] \in {"pending", "enqueued", "failed"}
        BY <2>3, <3>1, <3>2 DEF KeyInv, SenderInv
      <3> QED
        BY <1>7, <3>1, <3>3
    <2> QED
      BY <2>1, <2>2, <2>3
  <1>14. ServedInv'
    <2> SUFFICES ASSUME NEW s \in saved \ overtaken, s \notin served, mark'[told[s]] # "hidden"
                 PROVE  /\ job'[told[s]] # "done"
                        /\ \A x \in Workers :
                              Live(x, told[s])' /\ work'[x].at = "working" => s \in work'[x].sees
      BY <1>7 DEF ServedInv, Live
    <2>1. told[s] \in KeyJobs
      BY DEF KeyInv, SenderInv, KeyTypeOK
    <2>2. mark[told[s]] # "hidden"
      BY <1>10, <2>1
    <2>3. PICK i \in KeyJobs : i = told[s]
      BY <2>1
    <2>4. job'[i] # "done"
      BY <1>7, <2>2, <2>3 DEF KeyInv, ServedInv
    <2>5. \A x \in Workers : Live(x, i) /\ work[x].at = "working" => s \in work[x].sees
      BY <2>2, <2>3 DEF KeyInv, ServedInv
    <2>6. \A x \in Workers : Live(x, i)' /\ work'[x].at = "working" => s \in work'[x].sees
      BY <1>10, <1>11, <2>5
    <2>7. told'[s] = i
      BY <1>7, <2>3
    <2> QED
      BY <2>3, <2>4, <2>6, <2>7 DEF Live
  <1> QED
    BY <1>10, <1>13, <1>14 DEF KeyInv

(* The only live attempt of a job ends it: it has seen all who rely on it. *)
LEMMA SucceedKeeps ==
    ASSUME KeyInv, KeyTypeOK', NEW w \in Workers, Succeed(w)
    PROVE  KeyInv'
  <1>0. /\ work[w].job \in KeyJobs /\ work[w].at = "working" /\ ~ work[w].stale
        /\ NoWork \in Work
    BY WorkKinds DEF Succeed, KeyInv, KeyTypeOK, Work
  <1>1. PICK j \in KeyJobs : j = work[w].job
    BY <1>0
  <1>2. Live(w, j)
    BY <1>0, <1>1 DEF Live
  <1>3. WorkStep(j, w, NoWork)
    BY <1>0, <1>1, WorkStepIs DEF Succeed, Rests, KeyInv
  <1>4. work'[w] = NoWork /\ OthersWork(j, {w})
    BY <1>3, OthersAfter DEF WorkStep, KeyInv
  <1>5. NoWork.job \notin KeyJobs /\ NoWork.at = "idle"
    BY KeysAssumption DEF NoWork, NoKeyJob
  <1>6. \A i \in KeyJobs : ~ Live(w, i)' /\ work'[w].job # i
    BY <1>4, <1>5 DEF Live
  <1>7. \A x \in Workers \ {w} :
           /\ work'[x].job = work[x].job /\ work'[x].at = work[x].at /\ work'[x].sees = work[x].sees
           /\ \A i : Live(x, i)' => Live(x, i)
    BY <1>4 DEF OthersWork
  <1>8. /\ UNCHANGED <<decided, saved, told, mark, overtaken>>
        /\ job'[j] = "done" /\ \A i \in KeyJobs \ {j} : job'[i] = job[i]
        /\ served' = served \cup work[w].sees
        /\ applied' = IF mark[j] = "clean" THEN applied \cup {j} ELSE applied
    BY <1>1 DEF KeyInv, KeyTypeOK, Succeed, Row, Applied
  <1>9. CleanInv'
    <2> SUFFICES ASSUME NEW i \in KeyJobs, mark[i] = "clean"
                 PROVE  /\ job'[i] = "done" <=> i \in applied'
                        /\ \A x \in Workers : work'[x].job = i => job'[i] = "started"
                        /\ \A x, y \in Workers : work'[x].job = i /\ work'[y].job = i => x = y
      BY <1>8 DEF CleanInv
    <2>1. \A x \in Workers : work'[x].job = i => x # w /\ work[x].job = i
      BY <1>6, <1>7
    <2>2. CASE i = j
      <3>1. \A x \in Workers : work[x].job = i => x = w
        BY <1>1, <2>2 DEF KeyInv, CleanInv
      <3> QED
        BY <1>8, <2>1, <2>2, <3>1
    <2>3. CASE i # j
      BY <1>8, <2>1, <2>3 DEF KeyInv, CleanInv
    <2> QED
      BY <2>2, <2>3
  <1>10. LiveInv'
    <2> SUFFICES ASSUME NEW i \in KeyJobs, mark[i] # "hidden"
                 PROVE  /\ \A x \in Workers : Live(x, i)' => job'[i] = "started"
                        /\ \A x, y \in Workers : Live(x, i)' /\ Live(y, i)' => x = y
      BY <1>8 DEF LiveInv
    <2>1. \A x \in Workers : Live(x, i)' => x # w /\ Live(x, i)
      BY <1>6, <1>7
    <2>2. CASE i = j
      BY <1>2, <2>1, <2>2 DEF KeyInv, LiveInv
    <2>3. CASE i # j
      BY <1>8, <2>1, <2>3 DEF KeyInv, LiveInv
    <2> QED
      BY <2>2, <2>3
  <1>11. BornInv'
    BY <1>6, <1>7, <1>8 DEF KeyInv, BornInv
  <1>12. SenderInv'
    <2> SUFFICES ASSUME NEW s \in Senders
                 PROVE  /\ decided[s] = "found" /\ s \notin overtaken /\ mark[told[s]] # "hidden" =>
                              job'[told[s]] \in {"pending", "enqueued", "failed"}
                        /\ decided[s] = "new" => Open' = {}
      BY <1>8 DEF KeyInv, SenderInv
    <2>1. decided[s] = "new" => Open' = {}
      BY <1>8 DEF KeyInv, SenderInv, Open, OpenStates
    <2>2. mark[j] # "hidden" => job[j] = "started"
      BY <1>2 DEF KeyInv, LiveInv
    <2>3. decided[s] = "found" => told[s] \in KeyJobs
      BY DEF KeyInv, SenderInv
    <2> QED
      BY <1>8, <2>1, <2>2, <2>3 DEF KeyInv, SenderInv
  <1>13. ServedInv'
    <2> SUFFICES ASSUME NEW s \in saved \ overtaken, s \notin served', mark[told[s]] # "hidden"
                 PROVE  /\ job'[told[s]] # "done"
                        /\ \A x \in Workers :
                              Live(x, told[s])' /\ work'[x].at = "working" => s \in work'[x].sees
      BY <1>8 DEF ServedInv, Live
    <2>1. told[s] \in KeyJobs
      BY DEF KeyInv, SenderInv, KeyTypeOK
    <2>2. PICK i \in KeyJobs : i = told[s]
      BY <2>1
    <2>3. s \notin served /\ s \notin work[w].sees
      BY <1>8
    <2>4. /\ job[i] # "done"
          /\ \A x \in Workers : Live(x, i) /\ work[x].at = "working" => s \in work[x].sees
      BY <2>2, <2>3 DEF KeyInv, ServedInv
    <2>5. i # j
      BY <1>0, <1>2, <2>3, <2>4
    <2>6. /\ job'[i] # "done"
          /\ \A x \in Workers : Live(x, i)' /\ work'[x].at = "working" => s \in work'[x].sees
      BY <1>6, <1>7, <1>8, <2>4, <2>5
    <2>7. told'[s] = i
      BY <1>8, <2>2
    <2> QED
      BY <2>2, <2>6, <2>7 DEF Live
  <1> QED
    BY <1>9, <1>10, <1>11, <1>12, <1>13 DEF KeyInv

(* What users do to a job.                                                 *)
LEMMA UserKeeps ==
    ASSUME KeyInv, KeyTypeOK', NEW j \in KeyJobs, RequeueJob(j) \/ SetDoneJob(j)
    PROVE  KeyInv'
  <1>1. /\ UNCHANGED <<saved, told>> /\ job[j] # "none"
        /\ \A i \in KeyJobs \ {j} : job'[i] = job[i]
        /\ Mark(j, {}, "redone") /\ work' = MadeStale(j, {})
    BY DEF KeyInv, KeyTypeOK, RequeueJob, SetDoneJob, Touch, Row
  <1>2. \/ /\ job'[j] = "pending" /\ decided' = MadeLate /\ UNCHANGED <<served, overtaken>>
        \/ /\ job'[j] = "done" /\ decided' = decided
           /\ served' = served \cup {s \in saved : told[s] = j}
           /\ overtaken' = overtaken \cup Late(j)
    BY DEF KeyInv, KeyTypeOK, RequeueJob, SetDoneJob, Touch, Row
  <1>3. OthersWork(j, {})
    BY <1>1, AllAfter DEF KeyInv
  <1>4. Rewritten(j, {}, "redone")
    BY <1>1, <1>2, <1>3 DEF Rewritten
  <1>5. /\ CleanInv' /\ LiveInv' /\ BornInv'
        /\ \A i \in KeyJobs : mark'[i] # "hidden" => mark[i] # "hidden"
        /\ mark'[j] # "hidden" => \A x \in Workers : ~ Live(x, j)'
        /\ \A x \in Workers, i \in KeyJobs : Live(x, i)' => Live(x, i) /\ work'[x].sees = work[x].sees
    <2>1. {} \in SUBSET Workers /\ \A x \in {} : work[x].job = j
      OBVIOUS
    <2> QED
      BY <1>4, <2>1, RewrittenKeeps
  <1>6. \A x \in Workers : work'[x].at = work[x].at
    BY <1>3 DEF OthersWork
  <1>7. \A s \in Senders : decided'[s] = IF decided[s] = "new" /\ job'[j] = "pending"
                                         THEN "late" ELSE decided[s]
    BY <1>2 DEF KeyInv, KeyTypeOK, MadeLate
  <1>8. SenderInv'
    <2> SUFFICES ASSUME NEW s \in Senders
                 PROVE  /\ s \in saved <=> decided'[s] = "over"
                        /\ decided'[s] \in {"found", "over"} => told[s] \in KeyJobs
                        /\ decided'[s] = "found" /\ s \notin overtaken' /\ mark'[told[s]] # "hidden" =>
                              job'[told[s]] \in {"pending", "enqueued", "failed"}
                        /\ decided'[s] = "new" => Open' = {}
      BY <1>1 DEF SenderInv
    <2>1. decided'[s] = "new" => Open' = {}
      <3>1. job'[j] = "done" => Open' \subseteq Open
        BY <1>1 DEF Open, OpenStates
      <3> QED
        BY <1>2, <1>7, <3>1 DEF KeyInv, SenderInv
    <2>2. /\ s \in saved <=> decided'[s] = "over"
          /\ decided'[s] \in {"found", "over"} => told[s] \in KeyJobs
      BY <1>7 DEF KeyInv, SenderInv
    <2>3. ASSUME decided'[s] = "found", s \notin overtaken', mark'[told[s]] # "hidden"
          PROVE  job'[told[s]] \in {"pending", "enqueued", "failed"}
      <3>1. decided[s] = "found" /\ told[s] \in KeyJobs /\ s \notin overtaken
        BY <1>2, <1>7, <2>2, <2>3
      <3>2. mark[told[s]] # "hidden"
        BY <1>5, <2>3, <3>1
      <3>3. job[told[s]] \in {"pending", "enqueued", "failed"}
        BY <3>1, <3>2 DEF KeyInv, SenderInv
      <3>4. told[s] = j => job'[j] = "pending"
        BY <1>2, <2>3, <3>1 DEF Late
      <3> QED
        BY <1>1, <3>1, <3>3, <3>4
    <2> QED
      BY <2>1, <2>2, <2>3
  <1>9. ServedInv'
    <2> SUFFICES ASSUME NEW s \in saved, s \notin overtaken', s \notin served', mark'[told[s]] # "hidden"
                 PROVE  /\ job'[told[s]] # "done"
                        /\ \A x \in Workers :
                              Live(x, told[s])' /\ work'[x].at = "working" => s \in work'[x].sees
      BY <1>1 DEF ServedInv, Live
    <2>1. told[s] \in KeyJobs
      BY DEF KeyInv, SenderInv, KeyTypeOK
    <2>2. mark[told[s]] # "hidden" /\ s \notin served /\ s \notin overtaken
      BY <1>2, <1>5, <2>1
    <2>3. PICK i \in KeyJobs : i = told[s]
      BY <2>1
    <2>4. /\ job[i] # "done"
          /\ \A x \in Workers : Live(x, i) /\ work[x].at = "working" => s \in work[x].sees
      BY <2>2, <2>3 DEF KeyInv, ServedInv
    <2>5. job'[i] # "done"
      BY <1>1, <1>2, <2>3, <2>4
    <2>6. \A x \in Workers : Live(x, i)' /\ work'[x].at = "working" => s \in work'[x].sees
      BY <1>5, <1>6, <2>4
    <2>7. told'[s] = i
      BY <1>1, <2>3
    <2> QED
      BY <2>3, <2>5, <2>6, <2>7 DEF Live
  <1> QED
    BY <1>5, <1>8, <1>9 DEF KeyInv

-----------------------------------------------------------------------------
(* The theorems.                                                           *)

LEMMA KeyInvInit == KeyInit => KeyInv
  <1> SUFFICES ASSUME KeyInit PROVE KeyInv
    OBVIOUS
  <1>1. NoWork.job \notin KeyJobs /\ NoWork.at = "idle"
    BY KeysAssumption DEF NoWork, NoKeyJob
  <1>2. \A w \in Workers : work[w].job \notin KeyJobs /\ work[w].at = "idle"
    BY <1>1 DEF KeyInit
  <1>3. CleanInv /\ LiveInv /\ BornInv
    BY <1>2 DEF KeyInit, CleanInv, LiveInv, BornInv, Live
  <1>4. SenderInv
    BY DEF KeyInit, SenderInv
  <1>5. ServedInv
    BY DEF KeyInit, ServedInv
  <1> QED
    BY <1>3, <1>4, <1>5, KeyTypeInit DEF KeyInv

LEMMA KeyInvNext == KeyInv /\ [KeyNext]_keyvars => KeyInv'
  <1> SUFFICES ASSUME KeyInv, [KeyNext]_keyvars PROVE KeyInv'
    OBVIOUS
  <1>1. KeyTypeOK'
    BY KeyTypeNext DEF KeyInv
  <1>2. CASE UNCHANGED keyvars
    BY <1>1, <1>2
       DEF keyvars, keyseen, KeyInv, CleanInv, LiveInv, BornInv, SenderInv, ServedInv, Live, Open
  <1>3. ASSUME NEW s \in Senders, Send(s) \/ CommitSend(s) \/ LoseSend(s) PROVE KeyInv'
    BY <1>1, <1>3, SendKeeps, CommitKeeps
  <1>4. ASSUME NEW j \in KeyJobs,
               Dispatched(j) \/ TimedOut(j) \/ RequeueJob(j) \/ SetDoneJob(j)
        PROVE  KeyInv'
    BY <1>1, <1>4, RunnerKeeps, UserKeeps
  <1>5. ASSUME NEW w \in Workers,
               \/ Look(w) \/ Succeed(w) \/ Postpone(w) \/ RaiseRetryable(w)
               \/ CommitLeft(w) \/ FailJob(w) \/ Die(w)
        PROVE  KeyInv'
    BY <1>1, <1>5, AloneKeeps, SucceedKeeps, GiveUpKeeps
  <1>6. ASSUME NEW w \in Workers, NEW j \in KeyJobs, Take(w, j) PROVE KeyInv'
    BY <1>1, <1>6, TakeKeeps
  <1> QED
    BY <1>2, <1>3, <1>4, <1>5, <1>6 DEF KeyNext

LEMMA KeyInvAlways == KeySpec => []KeyInv
  BY KeyInvInit, KeyInvNext, PTL DEF KeySpec

(* A job that is done has been done once, whatever conflicts, failures and *)
(* deaths its attempts met, as long as it is clean.                        *)
THEOREM AppliedAlwaysOnce == KeySpec => []AppliedOnce
  <1>1. KeyInv => AppliedOnce
    BY DEF KeyInv, CleanInv, AppliedOnce
  <1> QED
    BY <1>1, KeyInvAlways, PTL

(* No change of a sender is left behind when the job it relies on is done. *)
THEOREM NoChangeLost == KeySpec => []NoChangeMissed
  <1>1. KeyInv => NoChangeMissed
    BY DEF KeyInv, ServedInv, NoChangeMissed
  <1> QED
    BY <1>1, KeyInvAlways, PTL

(* No row is inserted beside one that waited when its sender searched.     *)
LEMMA OneWaitsStep ==
    ASSUME KeyInv, KeyNext
    PROVE  \A j \in KeyJobs : job[j] = "none" /\ job'[j] # "none" /\ Open # {} =>
               \E s \in Senders : decided[s] = "late" /\ decided'[s] = "over"
  <1> SUFFICES ASSUME NEW j \in KeyJobs, job[j] = "none", job'[j] # "none", Open # {}
               PROVE  \E s \in Senders : decided[s] = "late" /\ decided'[s] = "over"
    OBVIOUS
  <1>1. \A w \in Workers : work[w].job # j
    BY DEF KeyInv, BornInv
  <1>2. ASSUME NEW s \in Senders, CommitSend(s)
        PROVE  decided[s] = "late" /\ decided'[s] = "over"
    <2>1. decided[s] # "found"
      BY <1>2 DEF CommitSend
    <2>2. decided[s] = "late"
      BY <1>2, <2>1 DEF CommitSend, KeyInv, KeyTypeOK, SenderInv
    <2>3. decided' = [MadeLate EXCEPT ![s] = "over"]
      BY <1>2, <2>1 DEF CommitSend
    <2> QED
      BY <2>2, <2>3 DEF MadeLate
  <1>3. ASSUME NEW s \in Senders, Send(s) \/ LoseSend(s) PROVE FALSE
    BY <1>3 DEF Send, LoseSend
  <1>4. ASSUME NEW i \in KeyJobs, Dispatched(i) \/ TimedOut(i) \/ RequeueJob(i) \/ SetDoneJob(i)
        PROVE  FALSE
    <2>1. job[i] # "none" /\ \A k \in KeyJobs \ {i} : job'[k] = job[k]
      BY <1>4 DEF Dispatched, TimedOut, RequeueJob, SetDoneJob, Row, KeyInv, KeyTypeOK
    <2> QED
      BY <2>1
  <1>5. ASSUME NEW w \in Workers,
               \/ Look(w) \/ Succeed(w) \/ Postpone(w) \/ RaiseRetryable(w)
               \/ CommitLeft(w) \/ FailJob(w) \/ Die(w)
        PROVE  FALSE
    <2>1. CASE Look(w) \/ CommitLeft(w) \/ Die(w)
      BY <2>1 DEF Look, CommitLeft, Die
    <2>2. CASE Succeed(w) \/ Postpone(w) \/ RaiseRetryable(w) \/ FailJob(w)
      <3>1. \A k \in KeyJobs \ {work[w].job} : job'[k] = job[k]
        BY <2>2 DEF Succeed, Postpone, RaiseRetryable, FailJob, Row, KeyInv, KeyTypeOK
      <3> QED
        BY <1>1, <3>1
    <2> QED
      BY <1>5, <2>1, <2>2
  <1>6. ASSUME NEW w \in Workers, NEW i \in KeyJobs, Take(w, i) PROVE FALSE
    <2>1. job[i] = "enqueued" /\ \A k \in KeyJobs \ {i} : job'[k] = job[k]
      BY <1>6 DEF Take, Row, KeyInv, KeyTypeOK
    <2> QED
      BY <2>1
  <1> QED
    BY <1>2, <1>3, <1>4, <1>5, <1>6 DEF KeyNext

THEOREM OneRowWaits == KeySpec => OneWaits
  <1>1. KeyInv /\ [KeyNext]_keyvars =>
          [\A j \in KeyJobs : job[j] = "none" /\ job'[j] # "none" /\ Open # {} =>
               \E s \in Senders : decided[s] = "late" /\ decided'[s] = "over"]_keyvars
    BY OneWaitsStep
  <1> QED
    BY <1>1, KeyInvAlways, PTL DEF KeySpec, OneWaits


=============================================================================
