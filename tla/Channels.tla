------------------------------- MODULE Channels -------------------------------
(***************************************************************************)
(* The ChannelManager of the job runner (jobrunner/channels.py): a tree of *)
(* channels, each with a queue, a set of running jobs and a set of failed  *)
(* jobs.  A job that leaves the queue of its channel runs there and joins  *)
(* the queue of the parent, down to the root, which dispatches it.         *)
(*                                                                         *)
(* A pass of get_jobs_to_run is several steps here: each channel is        *)
(* entered after its children are exhausted, yields jobs one at a time and *)
(* is left.  The order of siblings does not matter, they only meet in the  *)
(* queue of their parent.                                                  *)
(***************************************************************************)
EXTENDS Integers, FiniteSets, FiniteSetsExt

CONSTANTS
    Jobs, Channels, Root,
    Parent,     \* the parent of every channel but the root
    Cap,        \* capacity of a channel, 0 for unlimited
    Throttle,   \* seconds between two jobs of a channel, or 0
    Sequential, \* the sequential channels
    Seq,        \* order of creation of the jobs (date_created, then id)
    Priorities, \* values of column "priority"
    Etas,       \* values of column "eta"; 0 is NULL
    MaxTime     \* bound of the clock

(* S holds the parents of its channels.                                    *)
Upward(S) == \A d \in S \ {Root} : Parent[d] \in S

(* A channel and its ancestors: the least upward set that holds it.        *)
Above ==
    [c \in Channels |->
        {d \in Channels : \A S \in SUBSET Channels : c \in S /\ Upward(S) => d \in S}]

ASSUME TreeAssumption ==
    /\ Root \in Channels
    /\ Parent \in [Channels \ {Root} -> Channels]
    /\ \A c \in Channels : Root \in Above[c]

ASSUME ConfigAssumption ==
    /\ Cap \in [Channels -> Nat]
    /\ Throttle \in [Channels -> Nat]
    /\ Sequential \subseteq {c \in Channels : Cap[c] = 1}   \* Channel.configure

ASSUME JobsAssumption ==
    /\ IsFiniteSet(Jobs)
    /\ Seq \in [Jobs -> Nat]
    /\ \A j, k \in Jobs : Seq[j] = Seq[k] => j = k
    /\ Priorities \subseteq Nat /\ Etas \subseteq Nat

VARIABLES
    chan, prio, eta,    \* the attributes of a ChannelJob; eta is 0 once it is due
    ready,      \* ChannelQueue._queue
    later,      \* ChannelQueue._eta_queue
    running,    \* Channel._running
    failed,     \* Channel._failed
    pause,      \* Channel._pause_until
    pass,       \* where the generator of a channel is
    now,        \* the clock
    settled     \* a pass has ended and nothing was notified since

attributes == <<chan, prio, eta>>
places     == <<ready, later, running, failed>>
vars       == <<attributes, places, pause, pass, now, settled>>

TypeOK ==
    /\ chan \in [Jobs -> Channels]
    /\ prio \in [Jobs -> Priorities]
    /\ eta \in [Jobs -> Etas \cup {0}]
    /\ \A p \in {ready, later, running, failed} : p \in [Channels -> SUBSET Jobs]
    /\ pause \in [Channels -> Nat]
    /\ pass \in [Channels -> {"idle", "todo", "open", "over"}]
    /\ now \in Nat
    /\ settled \in BOOLEAN

Nowhere == [c \in Channels |-> {}]

Init ==
    /\ chan = [j \in Jobs |-> Root]
    /\ prio \in [Jobs -> Priorities] /\ \A j, k \in Jobs : prio[j] = prio[k]
    /\ eta = [j \in Jobs |-> 0]
    /\ ready = Nowhere /\ later = Nowhere /\ running = Nowhere /\ failed = Nowhere
    /\ pause = [c \in Channels |-> 0]
    /\ pass = [c \in Channels |-> "idle"]
    /\ now = 1
    /\ settled = FALSE

Idle == \A c \in Channels : pass[c] = "idle"

Queue(c) == ready[c] \cup later[c]

Children(c) == {d \in Channels \ {Root} : Parent[d] = c}

Known(j) == \E c \in Channels : j \in Queue(c) \cup running[c] \cup failed[c]

(* Mutant of HasCapacity: off by one.                                      *)
HasRoomForOneMore(c) ==
    /\ ~ (c \in Sequential /\ failed[c] # {})
    /\ Cap[c] = 0 \/ Cardinality(running[c]) <= Cap[c]

(* Channel.has_capacity.                                                   *)
HasCapacity(c) ==
    /\ ~ (c \in Sequential /\ failed[c] # {})
    /\ Cap[c] = 0 \/ Cardinality(running[c]) < Cap[c]

(* ChannelJob.sorting_key_ignoring_eta.                                    *)
Before(j, k) == prio[j] < prio[k] \/ (prio[j] = prio[k] /\ Seq[j] < Seq[k])

(* ChannelJob.__lt__ between two jobs with an eta.                         *)
EtaBefore(j, k) == eta[j] < eta[k] \/ (eta[j] = eta[k] /\ Before(j, k))

-----------------------------------------------------------------------------
(* Notifications.                                                          *)

(* j leaves every place of the channels of S and enters one of those of T. *)
Moved(p, j, S, T) ==
    [c \in Channels |-> (IF c \in S THEN p[c] \ {j} ELSE p[c]) \cup (IF c \in T THEN {j} ELSE {})]

Put(j, S, T, place) ==
    /\ ready'   = Moved(ready, j, S, IF place = "ready" THEN T ELSE {})
    /\ later'   = Moved(later, j, S, IF place = "later" THEN T ELSE {})
    /\ running' = Moved(running, j, S, IF place = "running" THEN T ELSE {})
    /\ failed'  = Moved(failed, j, S, IF place = "failed" THEN T ELSE {})

(* ChannelManager.notify removes a job whose attributes have changed, and  *)
(* then treats it as one it did not know.                                  *)
Changed(j, c, p, e) == Known(j) /\ <<chan[j], prio[j], eta[j]>> # <<c, p, e>>
Fresh(j, c, p, e)   == ~ Known(j) \/ Changed(j, c, p, e)
Left(j, c, p, e)    == IF Changed(j, c, p, e) THEN Above[chan[j]] ELSE {}

Describe(j, c, p, e) ==
    /\ chan' = [chan EXCEPT ![j] = c]
    /\ prio' = [prio EXCEPT ![j] = p]
    /\ eta' = [eta EXCEPT ![j] = e]

(* Mutant of SetPending: the job is taken out of its own channel only.     *)
SetPendingHere(j, c, p, e) ==
    /\ Describe(j, c, p, e)
    /\ IF ~ Fresh(j, c, p, e) /\ j \in Queue(c)
       THEN UNCHANGED places
       ELSE Put(j, Left(j, c, p, e) \cup {c}, {c}, IF e # 0 THEN "later" ELSE "ready")

(* Channel.set_pending                                                     *)
SetPending(j, c, p, e) ==
    /\ Describe(j, c, p, e)
    /\ IF ~ Fresh(j, c, p, e) /\ j \in Queue(c)
       THEN UNCHANGED places
       ELSE Put(j, Left(j, c, p, e) \cup Above[c], {c}, IF e # 0 THEN "later" ELSE "ready")

(* Channel.set_running: upwards from c, as far as the first channel that   *)
(* has j running already.                                                  *)
SetRunning(j, c, p, e) ==
    LET up == {d \in Above[c] :
                  Fresh(j, c, p, e) \/ \A b \in Above[c] : d \in Above[b] => j \notin running[b]}
    IN  /\ Describe(j, c, p, e)
        /\ Put(j, Left(j, c, p, e) \cup up, up, "running")

(* Channel.set_failed                                                      *)
SetFailed(j, c, p, e) ==
    /\ Describe(j, c, p, e)
    /\ IF ~ Fresh(j, c, p, e) /\ j \in failed[c]
       THEN UNCHANGED places
       ELSE Put(j, Left(j, c, p, e) \cup Above[c], {c}, "failed")

(* Channel.set_done                                                        *)
SetDone(j, c, p, e) ==
    /\ UNCHANGED attributes
    /\ Put(j, Left(j, c, p, e) \cup Above[c], {}, "nowhere")

(* What the rows guarantee: a row becomes enqueued or started only after   *)
(* its job was dispatched (QueueJob!BusyIsRunning), or it is so when the   *)
(* runner starts, and then the rows fit in the channels they came from; no *)
(* user moves a running job to a channel that is full.                     *)
MayRun(j, c) ==
    /\ j \in running[Root] \/ ~ Known(j)
    /\ \A d \in Above[c] : j \in running[d] \/ Cap[d] = 0 \/ Cardinality(running[d]) < Cap[d]

(* ChannelManager.notify: the row as process_notifications has read it.    *)
Notify(j, c, p, e) ==
    /\ Idle
    /\ \/ SetPending(j, c, p, e)
       \/ MayRun(j, c) /\ SetRunning(j, c, p, e)
       \/ SetFailed(j, c, p, e)
       \/ SetDone(j, c, p, e)
    /\ settled' = FALSE
    /\ UNCHANGED <<pause, pass, now>>

(* ChannelManager.remove_job: the row is gone.                             *)
RemoveJob(j) ==
    /\ Idle /\ Known(j)
    /\ Put(j, Above[chan[j]], {}, "nowhere")
    /\ settled' = FALSE
    /\ UNCHANGED <<attributes, pause, pass, now>>

(* ChannelManager.remove_db: the runner recovers from an exception.        *)
RemoveDb ==
    /\ Idle /\ \E j \in Jobs : Known(j)
    /\ ready' = Nowhere /\ later' = Nowhere /\ running' = Nowhere /\ failed' = Nowhere
    /\ settled' = FALSE
    /\ UNCHANGED <<attributes, pause, pass, now>>

-----------------------------------------------------------------------------
(* A pass: get_jobs_to_run(now) on the root.                               *)

Begin ==
    /\ Idle
    /\ pass' = [c \in Channels |-> "todo"]
    /\ settled' = FALSE
    /\ UNCHANGED <<attributes, places, pause, now>>

Paused(c) == Throttle[c] # 0 /\ pause[c] # 0 /\ now < pause[c]

(* Mutant of Enter: a channel does not wait for its children.              *)
EnterEarly(c) ==
    /\ pass[c] = "todo"
    /\ pass' = [pass EXCEPT ![c] = IF Paused(c) THEN "over" ELSE "open"]
    /\ pause' = IF Throttle[c] # 0 /\ ~ Paused(c) THEN [pause EXCEPT ![c] = 0] ELSE pause
    /\ UNCHANGED <<attributes, places, now, settled>>

(* The children are exhausted.  A pause that is over is forgotten.         *)
Enter(c) ==
    /\ pass[c] = "todo"
    /\ \A d \in Children(c) : pass[d] = "over"
    /\ pass' = [pass EXCEPT ![c] = IF Paused(c) THEN "over" ELSE "open"]
    /\ pause' = IF Throttle[c] # 0 /\ ~ Paused(c) THEN [pause EXCEPT ![c] = 0] ELSE pause
    /\ UNCHANGED <<attributes, places, now, settled>>

(* Mutant of Due: the etas are popped without a look at the clock.         *)
DueAlready(c) == later[c]

(* ChannelQueue.pop: the jobs whose eta is past join the others ...        *)
Due(c)       == {j \in later[c] : eta[j] <= now}
Contenders(c) == ready[c] \cup Due(c)
NotDue(c)    == later[c] \ Due(c)

(* ... and in a sequential queue, the first job by eta makes the others    *)
(* wait if it comes before them, eta ignored.                              *)
Waits(c) ==
    /\ c \in Sequential
    /\ \E e \in NotDue(c) :
          /\ \A k \in NotDue(c) \ {e} : EtaBefore(e, k)
          /\ \A j \in Contenders(c) : Before(e, j)

Pops(c, j) ==
    /\ j \in Contenders(c)
    /\ \A k \in Contenders(c) \ {j} : Before(j, k)
    /\ ~ Waits(c)

ForgetEtas(c) == eta' = [j \in Jobs |-> IF j \in Due(c) THEN 0 ELSE eta[j]]

(* c has room: it takes its first job and hands it to its parent, or, if c *)
(* is the root, to run_jobs.  A throttled channel then pauses.             *)
Yield(c, j) ==
    /\ pass[c] = "open" /\ HasCapacity(c) /\ Pops(c, j)
    /\ ForgetEtas(c)
    /\ ready' = [d \in Channels |->
                    IF d = c THEN Contenders(c) \ {j}
                    ELSE IF c # Root /\ d = Parent[c] THEN ready[d] \cup {j} ELSE ready[d]]
    /\ later' = [later EXCEPT ![c] = NotDue(c)]
    /\ running' = [running EXCEPT ![c] = @ \cup {j}]
    /\ pause' = IF Throttle[c] # 0 THEN [pause EXCEPT ![c] = now + Throttle[c]] ELSE pause
    /\ pass' = IF Throttle[c] # 0 THEN [pass EXCEPT ![c] = "over"] ELSE pass
    /\ UNCHANGED <<chan, prio, failed, now, settled>>

(* c has room but nothing to run.                                          *)
Exhausted(c) ==
    /\ pass[c] = "open" /\ HasCapacity(c)
    /\ \A j \in Jobs : ~ Pops(c, j)
    /\ ForgetEtas(c)
    /\ ready' = [ready EXCEPT ![c] = Contenders(c)]
    /\ later' = [later EXCEPT ![c] = NotDue(c)]
    /\ pass' = [pass EXCEPT ![c] = "over"]
    /\ UNCHANGED <<chan, prio, running, failed, pause, now, settled>>

Full(c) ==
    /\ pass[c] = "open" /\ ~ HasCapacity(c)
    /\ pass' = [pass EXCEPT ![c] = "over"]
    /\ UNCHANGED <<attributes, places, pause, now, settled>>

End ==
    /\ pass[Root] = "over"
    /\ pass' = [c \in Channels |-> "idle"]
    /\ settled' = TRUE
    /\ UNCHANGED <<attributes, places, pause, now>>

(* The runner reads the clock once per pass.                               *)
Tick ==
    /\ Idle /\ now < MaxTime
    /\ now' = now + 1
    /\ UNCHANGED <<attributes, places, pause, pass, settled>>

Next ==
    \/ \E j \in Jobs, c \in Channels, p \in Priorities, e \in Etas : Notify(j, c, p, e)
    \/ \E j \in Jobs : RemoveJob(j)
    \/ RemoveDb \/ Begin \/ End \/ Tick
    \/ \E c \in Channels : \/ Enter(c) \/ Exhausted(c) \/ Full(c)
                          \/ \E j \in Jobs : Yield(c, j)

Spec == Init /\ [][Next]_vars

-----------------------------------------------------------------------------
(* Safety.                                                                 *)

(* j is at channel d: it waits there, runs in every channel of its path    *)
(* below d and is nowhere else.                                            *)
WaitsAt(j, d) ==
    /\ d \in Above[chan[j]]
    /\ \A c \in Channels :
          /\ j \in Queue(c) <=> c = d
          /\ j \in running[c] <=> c \in Above[chan[j]] \ Above[d]
          /\ j \notin failed[c]

RunsEverywhere(j) ==
    \A c \in Channels :
        /\ j \in running[c] <=> c \in Above[chan[j]]
        /\ j \notin Queue(c) \cup failed[c]

FailedAtHome(j) ==
    \A c \in Channels :
        /\ j \in failed[c] <=> c = chan[j]
        /\ j \notin Queue(c) \cup running[c]

(* The water-pipe picture of class Channel: a job is at one place of the   *)
(* path from its channel to the root, whatever order the notifications and *)
(* the passes come in.  No job is queued twice, so none is dispatched      *)
(* twice, and no slot of a channel is held by a job that is elsewhere.     *)
OnePlace ==
    \A j \in Jobs : \/ ~ Known(j)
                    \/ \E d \in Channels : WaitsAt(j, d)
                    \/ RunsEverywhere(j)
                    \/ FailedAtHome(j)

(* No channel runs more jobs than its capacity.                            *)
WithinCapacity == \A c \in Channels : Cap[c] # 0 => Cardinality(running[c]) <= Cap[c]

(* A job of d could be dispatched, or move on, at once.                    *)
OpenAt(d) == \A c \in Above[d] : HasCapacity(c) /\ ~ Paused(c)
Movable == \E d \in Channels : OpenAt(d) /\ \E j \in Jobs : Pops(d, j)

(* A pass leaves no job behind that could run: the children are exhausted  *)
(* before their parent, which takes nothing away from them.                *)
PassIsComplete == pass[Root] = "over" => ~ Movable

(* Channel.get_wakeup_time: the pause or the first eta of every channel    *)
(* that has capacity, below channels that have capacity and do not pause.  *)
Asked(c) == /\ \A d \in Above[c] : HasCapacity(d)
            /\ \A d \in Above[c] \ {c} : pause[d] = 0
(* Mutant of WakeTimes: nobody wakes up for the end of a pause.            *)
EtaTimes == UNION {{eta[j] : j \in later[c]} : c \in {d \in Channels : Asked(d) /\ pause[d] = 0}}

WakeTimes ==
    {pause[c] : c \in {d \in Channels : Asked(d) /\ pause[d] # 0}}
      \cup UNION {{eta[j] : j \in later[c]} : c \in {d \in Channels : Asked(d) /\ pause[d] = 0}}
GetWakeupTime == IF WakeTimes = {} THEN 0 ELSE Min(WakeTimes)

(* The runner sleeps after a pass until a notification or the wakeup time: *)
(* no job becomes ready to run while it sleeps, although a full or paused  *)
(* channel hides the etas of the channels below it.                        *)
NoMissedWakeup ==
    settled /\ Movable => GetWakeupTime # 0 /\ GetWakeupTime <= now

(* "eta ignored, the job with eta has higher priority than the job without *)
(* eta; since it's a sequential queue we wait until eta"                   *)
SequentialOrder ==
    [][\A c \in Sequential, j \in Jobs :
           Yield(c, j) => \A k \in Queue(c) \ {j} : Before(j, k)]_vars

-----------------------------------------------------------------------------
(* The manager implements what module QueueJob assumes of it.              *)
ViewOf(j) ==
    IF j \in running[Root] THEN "running"
    ELSE IF \E c \in Channels : j \in failed[c] THEN "failed"
    ELSE IF \E c \in Channels : j \in later[c] /\ eta[j] > now THEN "postponed"
    ELSE IF Known(j) THEN "waiting" ELSE "absent"

Abstract == INSTANCE JobView WITH view <- [j \in Jobs |-> ViewOf(j)], Capacity <- Cap[Root]

ImplementsView == Abstract!ViewSpec
=============================================================================
