------------------------------- MODULE JobView -------------------------------
(***************************************************************************)
(* What the job runner remembers of each job, seen from the root channel.  *)
(*                                                                         *)
(* The runner keeps a ChannelManager (jobrunner/channels.py).  Whatever    *)
(* the tree of channels looks like, only a job that runs in the root       *)
(* channel is sent to Odoo, so this module keeps one value per job and     *)
(* leaves the order in which waiting jobs are taken, and the capacities of *)
(* subchannels, to module Channels, which implements this one.             *)
(***************************************************************************)
EXTENDS Integers, FiniteSets

CONSTANTS
    Jobs,       \* the uuids of the jobs
    Capacity    \* capacity of the root channel ("root:N", default 1)

ASSUME JobsFinite == IsFiniteSet(Jobs)
ASSUME CapacityPositive == Capacity \in Nat \ {0}

VARIABLE view

(* "absent"    : in no channel (unknown to the manager, or done)           *)
(* "waiting"   : in the queue of a channel, ready                          *)
(* "postponed" : in the queue of a channel, its eta is in the future       *)
(* "running"   : in the running set of the root channel                    *)
(* "failed"    : in the failed set of its channel                          *)
Views == {"absent", "waiting", "postponed", "running", "failed"}

ViewTypeOK == view \in [Jobs -> Views]

Running == {j \in Jobs : view[j] = "running"}

ViewInit == view = [j \in Jobs |-> "absent"]

(* ChannelManager.notify and remove_job: the job takes the view its row    *)
(* asks for, wherever it was before.                                       *)
ViewNotify(j, v) == view' = [view EXCEPT ![j] = v]

(* Channel.get_jobs_to_run on the root channel yields j.                   *)
CanDispatch(j) == view[j] = "waiting" /\ Cardinality(Running) < Capacity

ViewDispatch(j) ==
    /\ CanDispatch(j)
    /\ view' = [view EXCEPT ![j] = "running"]

(* The clock reaches the etas of the jobs of S.                            *)
ViewDue(S) ==
    view' = [j \in Jobs |-> IF j \in S /\ view[j] = "postponed" THEN "waiting"
                                                              ELSE view[j]]

(* ChannelManager.remove_db.                                               *)
ViewClear == view' = [j \in Jobs |-> "absent"]

-----------------------------------------------------------------------------
(* The manager on its own.  A row becomes enqueued or started only after   *)
(* the runner dispatched its job, so a notification makes a job running    *)
(* only while there is room (when the runner starts) or when it already is *)
(* running; module QueueJob establishes this.                              *)
ViewNext ==
    \/ \E j \in Jobs, v \in Views :
          /\ v = "running" => \/ view[j] = "running"
                              \/ view[j] = "absent" /\ Cardinality(Running) < Capacity
          /\ ViewNotify(j, v)
    \/ \E j \in Jobs : ViewDispatch(j)
    \/ \E S \in SUBSET Jobs : ViewDue(S)
    \/ ViewClear

ViewSpec == ViewInit /\ [][ViewNext]_view
=============================================================================
