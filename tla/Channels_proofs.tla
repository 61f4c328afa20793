---------------------------- MODULE Channels_proofs ----------------------------
(***************************************************************************)
(* Theorems about module Channels, for every tree of channels, whatever    *)
(* their capacities and throttles, and for every finite set of jobs.       *)
(***************************************************************************)
EXTENDS Channels, FiniteSetTheorems, WellFoundedInduction, TLAPS

-----------------------------------------------------------------------------
(* The tree.                                                               *)

(* Above[c] is an upward set that holds c, and the least of them.          *)
LEMMA AboveLeast ==
    ASSUME NEW c \in Channels
    PROVE  /\ Above[c] \subseteq Channels /\ c \in Above[c]
           /\ Upward(Above[c])
           /\ \A S \in SUBSET Channels : c \in S /\ Upward(S) => Above[c] \subseteq S
  BY TreeAssumption DEF Above, Upward

(* The ancestors of an ancestor are ancestors.                             *)
LEMMA AboveTransitive ==
    ASSUME NEW c \in Channels, NEW d \in Above[c]
    PROVE  Above[d] \subseteq Above[c]
  BY AboveLeast

(* The root has no ancestor but itself.                                    *)
LEMMA AboveRoot == Above[Root] = {Root}
  <1>1. Upward({Root}) /\ {Root} \in SUBSET Channels
    BY TreeAssumption DEF Upward
  <1> QED
    BY <1>1, AboveLeast, TreeAssumption

(* The ancestors of a channel are the channel and those of its parent.     *)
LEMMA AboveParent ==
    ASSUME NEW c \in Channels \ {Root}
    PROVE  /\ Parent[c] \in Channels
           /\ Above[c] = {c} \cup Above[Parent[c]]
           /\ c \notin Above[Parent[c]]
  <1>1. Parent[c] \in Channels
    BY TreeAssumption
  <1>2. Above[c] \subseteq {c} \cup Above[Parent[c]]
    <2>1. Upward({c} \cup Above[Parent[c]])
      BY <1>1, AboveLeast DEF Upward
    <2>2. {c} \cup Above[Parent[c]] \in SUBSET Channels
      BY <1>1, AboveLeast
    <2> QED
      BY <2>1, <2>2, AboveLeast
  <1>3. {c} \cup Above[Parent[c]] \subseteq Above[c]
    <2>1. c \in Above[c] /\ Parent[c] \in Above[c]
      BY AboveLeast DEF Upward
    <2> QED
      BY <2>1, AboveTransitive
  <1>4. ASSUME c \in Above[Parent[c]] PROVE FALSE
    <2> DEFINE S == {x \in Above[c] : c \in Above[x]}
    <2>1. c \in S /\ S \in SUBSET Channels
      BY AboveLeast
    <2>2. Upward(S)
      <3> SUFFICES ASSUME NEW x \in S \ {Root} PROVE Parent[x] \in S
        BY DEF Upward
      <3>1. Parent[x] \in Above[c] /\ x \in Channels \ {Root} /\ Parent[x] \in Channels
        BY AboveLeast, TreeAssumption DEF Upward
      <3>2. Above[x] \subseteq {x} \cup Above[Parent[x]]
        <4>1. Upward({x} \cup Above[Parent[x]])
          BY <3>1, AboveLeast DEF Upward
        <4>2. {x} \cup Above[Parent[x]] \in SUBSET Channels
          BY <3>1, AboveLeast
        <4> QED
          BY <3>1, <4>1, <4>2, AboveLeast
      <3>3. c = x \/ c \in Above[Parent[x]]
        BY <3>2
      <3> QED
        BY <1>4, <3>1, <3>3
    <2>3. Root \in S
      BY <2>1, <2>2, AboveLeast, TreeAssumption
    <2> QED
      BY <2>3, AboveRoot
  <1> QED
    BY <1>1, <1>2, <1>3, <1>4

(* Two channels that are above each other are the same.                    *)
LEMMA AboveAntisymmetric ==
    ASSUME NEW c \in Channels, NEW d \in Above[c], c \in Above[d]
    PROVE  c = d
  <1> SUFFICES ASSUME c # d PROVE FALSE
    OBVIOUS
  <1>1. c # Root
    BY AboveRoot
  <1>2. d \in Above[Parent[c]] /\ Parent[c] \in Channels
    BY <1>1, AboveParent
  <1>3. Above[d] \subseteq Above[Parent[c]]
    BY <1>2, AboveTransitive
  <1> QED
    BY <1>1, <1>3, AboveParent

(* A channel below c is, or is below, a child of c.                        *)
LEMMA AboveChild ==
    ASSUME NEW d \in Channels, NEW c \in Above[d], c # d
    PROVE  \E b \in Above[d] : b \in Children(c)
  <1> DEFINE S == {x \in Above[d] : x = d \/ \E b \in Above[d] : b \in Children(x)}
  <1>1. d \in S /\ S \in SUBSET Channels
    BY AboveLeast
  <1>2. Upward(S)
    <2> SUFFICES ASSUME NEW x \in S \ {Root} PROVE Parent[x] \in S
      BY DEF Upward
    <2>1. Parent[x] \in Above[d] /\ x \in Channels \ {Root}
      BY AboveLeast DEF Upward
    <2>2. x \in Children(Parent[x])
      BY <2>1 DEF Children
    <2> QED
      BY <2>1, <2>2
  <1> QED
    BY <1>1, <1>2, AboveLeast

-----------------------------------------------------------------------------
(* Types.                                                                  *)

PlacesType == \A p \in {ready, later, running, failed} : p \in [Channels -> SUBSET Jobs]

(* What Put makes of the four places: only j moves.                        *)
LEMMA PutEffect ==
    ASSUME TypeOK, NEW j \in Jobs, NEW S, NEW T, NEW place, Put(j, S, T, place)
    PROVE  /\ PlacesType'
           /\ \A c \in Channels, k \in Jobs \ {j} :
                 /\ k \in ready'[c] <=> k \in ready[c]
                 /\ k \in later'[c] <=> k \in later[c]
                 /\ k \in running'[c] <=> k \in running[c]
                 /\ k \in failed'[c] <=> k \in failed[c]
           /\ \A c \in Channels :
                 /\ j \in ready'[c] <=> (j \in ready[c] /\ c \notin S) \/ (place = "ready" /\ c \in T)
                 /\ j \in later'[c] <=> (j \in later[c] /\ c \notin S) \/ (place = "later" /\ c \in T)
                 /\ j \in running'[c] <=> (j \in running[c] /\ c \notin S) \/ (place = "running" /\ c \in T)
                 /\ j \in failed'[c] <=> (j \in failed[c] /\ c \notin S) \/ (place = "failed" /\ c \in T)
  BY DEF TypeOK, Put, Moved, PlacesType

(* An eta is a number of seconds.                                          *)
LEMMA EtasNatural == \A e \in Etas \cup {0} : e \in Nat
  <1>1. Etas \subseteq Nat
    BY JobsAssumption
  <1> QED
    BY <1>1

(* Types: the initial state.                                               *)
LEMMA TypeInit == Init => TypeOK
  <1> SUFFICES ASSUME Init PROVE TypeOK
    OBVIOUS
  <1>1. PlacesType
    BY DEF Init, Nowhere, PlacesType
  <1>2. chan \in [Jobs -> Channels] /\ prio \in [Jobs -> Priorities]
    BY TreeAssumption DEF Init
  <1>3. eta \in [Jobs -> Etas \cup {0}]
    BY DEF Init
  <1> QED
    BY <1>1, <1>2, <1>3 DEF Init, TypeOK, PlacesType

(* Types: a notification.                                                  *)
LEMMA TypeNotify ==
    ASSUME TypeOK, NEW j \in Jobs, NEW c \in Channels, NEW p \in Priorities, NEW e \in Etas,
           Notify(j, c, p, e)
    PROVE  TypeOK'
  <1>1. PlacesType'
    <2>1. CASE UNCHANGED places
      BY <2>1 DEF places, TypeOK, PlacesType
    <2>2. ASSUME NEW S, NEW T, NEW place, Put(j, S, T, place)
          PROVE  PlacesType'
      BY <2>2, PutEffect
    <2> QED
      BY <2>1, <2>2 DEF Notify, SetPending, SetRunning, SetFailed, SetDone
  <1>2. /\ chan' \in [Jobs -> Channels]
        /\ prio' \in [Jobs -> Priorities]
        /\ eta' \in [Jobs -> Etas \cup {0}]
    BY DEF Notify, SetPending, SetRunning, SetFailed, SetDone, Describe, attributes, TypeOK
  <1>3. UNCHANGED <<pause, pass, now>> /\ settled' = FALSE
    BY DEF Notify
  <1> QED
    BY <1>1, <1>2, <1>3 DEF TypeOK, PlacesType

(* Types: a channel takes its first job.                                   *)
LEMMA TypeYield ==
    ASSUME TypeOK, NEW c \in Channels, NEW j \in Jobs, Yield(c, j)
    PROVE  TypeOK'
  <1>1. PlacesType'
    BY DEF Yield, Contenders, Due, NotDue, TypeOK, PlacesType
  <1>2. eta' \in [Jobs -> Etas \cup {0}]
    BY DEF Yield, ForgetEtas, TypeOK
  <1>3. pass' \in [Channels -> {"idle", "todo", "open", "over"}]
    BY DEF Yield, TypeOK
  <1>4. pause' \in [Channels -> Nat]
    <2>1. now + Throttle[c] \in Nat
      BY ConfigAssumption DEF TypeOK
    <2> QED
      BY <2>1 DEF Yield, TypeOK
  <1> QED
    BY <1>1, <1>2, <1>3, <1>4 DEF Yield, TypeOK, PlacesType

(* Types: every step.                                                      *)
LEMMA TypeNext == TypeOK /\ [Next]_vars => TypeOK'
  <1> SUFFICES ASSUME TypeOK, [Next]_vars PROVE TypeOK'
    OBVIOUS
  <1>1. CASE UNCHANGED vars
    BY <1>1 DEF vars, attributes, places, TypeOK
  <1>2. ASSUME NEW j \in Jobs, RemoveJob(j) PROVE TypeOK'
    <2>1. PlacesType'
      BY <1>2, PutEffect DEF RemoveJob
    <2> QED
      BY <1>2, <2>1 DEF RemoveJob, attributes, TypeOK, PlacesType
  <1>3. CASE RemoveDb
    BY <1>3 DEF RemoveDb, Nowhere, attributes, TypeOK
  <1>4. CASE Begin \/ End \/ Tick
    <2>1. UNCHANGED <<attributes, places, pause>>
      BY <1>4 DEF Begin, End, Tick
    <2>2. pass' \in [Channels -> {"idle", "todo", "open", "over"}]
      BY <1>4 DEF Begin, End, Tick, TypeOK
    <2>3. now' \in Nat
      BY <1>4 DEF Begin, End, Tick, TypeOK
    <2>4. settled' \in BOOLEAN
      BY <1>4 DEF Begin, End, Tick, TypeOK
    <2> QED
      BY <2>1, <2>2, <2>3, <2>4 DEF attributes, places, TypeOK
  <1>5. ASSUME NEW c \in Channels, Enter(c) \/ Full(c) PROVE TypeOK'
    <2>1. /\ pass' \in [Channels -> {"idle", "todo", "open", "over"}]
          /\ pause' \in [Channels -> Nat]
      BY <1>5 DEF Enter, Full, TypeOK
    <2>2. UNCHANGED <<attributes, places, now, settled>>
      BY <1>5 DEF Enter, Full
    <2> QED
      BY <2>1, <2>2 DEF attributes, places, TypeOK
  <1>6. ASSUME NEW c \in Channels, Exhausted(c) PROVE TypeOK'
    <2>1. PlacesType'
      BY <1>6 DEF Exhausted, Contenders, Due, NotDue, TypeOK, PlacesType
    <2>2. eta' \in [Jobs -> Etas \cup {0}]
      BY <1>6 DEF Exhausted, ForgetEtas, TypeOK
    <2>3. pass' \in [Channels -> {"idle", "todo", "open", "over"}]
      BY <1>6 DEF Exhausted, TypeOK
    <2> QED
      BY <1>6, <2>1, <2>2, <2>3 DEF Exhausted, TypeOK, PlacesType
  <1> QED
    BY <1>1, <1>2, <1>3, <1>4, <1>5, <1>6, TypeNotify, TypeYield DEF Next

(* The variables keep their types.                                         *)
THEOREM TypeCorrect == Spec => []TypeOK
  BY TypeInit, TypeNext, PTL DEF Spec

-----------------------------------------------------------------------------
(* A job is at one place of its path.                                      *)

HasOnePlace(j) ==
    \/ ~ Known(j)
    \/ \E d \in Channels : WaitsAt(j, d)
    \/ RunsEverywhere(j)
    \/ FailedAtHome(j)

(* The two heaps of a ChannelQueue do not share a job: the strengthening   *)
(* that makes OnePlace inductive.  Without it a job that is taken from one *)
(* of them would remain in the other.                                      *)
QueuedOnce(j) == \A c \in Channels : ~ (j \in ready[c] /\ j \in later[c])

AtOnePlace(j) == HasOnePlace(j) /\ QueuedOnce(j)

OneInv == \A j \in Jobs : AtOnePlace(j)

(* A job is nowhere but on the path from its channel to the root.          *)
LEMMA OnItsPath ==
    ASSUME TypeOK, NEW j \in Jobs, AtOnePlace(j), NEW c \in Channels \ Above[chan[j]]
    PROVE  j \notin Queue(c) \cup running[c] \cup failed[c]
  <1>1. chan[j] \in Channels /\ chan[j] \in Above[chan[j]]
    BY AboveLeast DEF TypeOK
  <1> QED
    BY <1>1 DEF AtOnePlace, HasOnePlace, Known, WaitsAt, RunsEverywhere, FailedAtHome

(* Where a step leaves k alone, k stays at one place.                      *)
LEMMA StaysPut ==
    ASSUME NEW k \in Jobs, AtOnePlace(k), chan'[k] = chan[k],
           \A c \in Channels : /\ k \in Queue(c)' <=> k \in Queue(c)
                               /\ k \in running'[c] <=> k \in running[c]
                               /\ k \in failed'[c] <=> k \in failed[c],
           QueuedOnce(k)'
    PROVE  AtOnePlace(k)'
  BY DEF AtOnePlace, HasOnePlace, Known, WaitsAt, RunsEverywhere, FailedAtHome

(* The same where k stays in its heaps.                                    *)
LEMMA StaysQuiet ==
    ASSUME NEW k \in Jobs, AtOnePlace(k), chan'[k] = chan[k],
           \A c \in Channels : /\ k \in ready'[c] <=> k \in ready[c]
                               /\ k \in later'[c] <=> k \in later[c]
                               /\ k \in running'[c] <=> k \in running[c]
                               /\ k \in failed'[c] <=> k \in failed[c]
    PROVE  AtOnePlace(k)'
  BY StaysPut DEF AtOnePlace, QueuedOnce, Queue

(* A job that leaves every place it has, and enters one of its path.       *)
LEMMA EntersOnePlace ==
    ASSUME TypeOK, NEW j \in Jobs, NEW c \in Channels, chan'[j] = c,
           NEW S, NEW T, NEW place, Put(j, S, T, place),
           \A d \in Channels \ S : j \notin Queue(d) \cup running[d] \cup failed[d],
           \/ place \in {"ready", "later", "failed"} /\ T = {c}
           \/ place = "running" /\ T = Above[c]
           \/ T = {}
    PROVE  AtOnePlace(j)'
  <1>1. \A d \in Channels :
           /\ j \in Queue(d)' <=> place \in {"ready", "later"} /\ d \in T
           /\ j \in running'[d] <=> place = "running" /\ d \in T
           /\ j \in failed'[d] <=> place = "failed" /\ d \in T
           /\ ~ (j \in ready'[d] /\ j \in later'[d])
    BY PutEffect DEF Queue
  <1>2. c \in Above[c]
    BY AboveLeast
  <1>3. CASE place \in {"ready", "later"} /\ T = {c}
    BY <1>1, <1>2, <1>3 DEF AtOnePlace, HasOnePlace, QueuedOnce, WaitsAt
  <1>4. CASE place = "failed" /\ T = {c}
    BY <1>1, <1>4 DEF AtOnePlace, HasOnePlace, QueuedOnce, FailedAtHome
  <1>5. CASE place = "running" /\ T = Above[c]
    BY <1>1, <1>5 DEF AtOnePlace, HasOnePlace, QueuedOnce, RunsEverywhere
  <1>6. CASE T = {}
    BY <1>1, <1>6 DEF AtOnePlace, HasOnePlace, QueuedOnce, Known
  <1> QED
    BY <1>3, <1>4, <1>5, <1>6

(* One place: a notification takes j out of every place it has.            *)
LEMMA NotifiedLeaves ==
    ASSUME TypeOK, NEW j \in Jobs, AtOnePlace(j), NEW c \in Channels, NEW p, NEW e,
           NEW d \in Channels \ (Left(j, c, p, e) \cup Above[c])
    PROVE  j \notin Queue(d) \cup running[d] \cup failed[d]
  <1>1. CASE ~ Known(j)
    BY <1>1 DEF Known
  <1>2. CASE Changed(j, c, p, e) \/ chan[j] = c
    <2>1. d \notin Above[chan[j]]
      BY <1>2 DEF Left
    <2> QED
      BY <2>1, OnItsPath
  <1> QED
    BY <1>1, <1>2 DEF Changed

(* A job that is queued, failed or unknown does not run in the root.       *)
LEMMA RunsInRoot ==
    ASSUME TypeOK, NEW j \in Jobs, AtOnePlace(j), j \in running[Root]
    PROVE  RunsEverywhere(j)
  <1>1. Known(j) /\ ~ FailedAtHome(j)
    BY TreeAssumption DEF Known, FailedAtHome
  <1>2. \A d \in Channels : ~ WaitsAt(j, d)
    BY TreeAssumption DEF WaitsAt
  <1> QED
    BY <1>1, <1>2 DEF AtOnePlace, HasOnePlace

(* One place: a notification of a job that runs changes nothing.           *)
LEMMA RunningAgain ==
    ASSUME TypeOK, NEW j \in Jobs, AtOnePlace(j), NEW c \in Channels, NEW p, NEW e,
           MayRun(j, c), SetRunning(j, c, p, e), ~ Fresh(j, c, p, e)
    PROVE  Put(j, {}, {}, "running")
  <1>1. Known(j) /\ chan[j] = c /\ j \in running[Root] /\ Left(j, c, p, e) = {}
    BY DEF MayRun, Fresh, Changed, Left
  <1>2. c \in Above[c] /\ j \in running[c]
    BY <1>1, RunsInRoot, AboveLeast DEF RunsEverywhere
  <1>3. {d \in Above[c] : Fresh(j, c, p, e)
             \/ \A b \in Above[c] : d \in Above[b] => j \notin running[b]} = {}
    BY <1>2
  <1> QED
    BY <1>1, <1>3 DEF SetRunning

(* One place: a notification.                                              *)
LEMMA OneNotify ==
    ASSUME TypeOK, OneInv, NEW j \in Jobs, NEW c \in Channels, NEW p \in Priorities,
           NEW e \in Etas, Notify(j, c, p, e)
    PROVE  OneInv'
  <1>1. \A k \in Jobs : AtOnePlace(k)
    BY DEF OneInv
  <1>2. /\ \A k \in Jobs \ {j} : chan'[k] = chan[k]
        /\ chan' = chan \/ chan'[j] = c
    BY DEF Notify, SetPending, SetRunning, SetFailed, SetDone, Describe, attributes, TypeOK
  <1>3. ASSUME NEW k \in Jobs \ {j} PROVE AtOnePlace(k)'
    <2>1. \/ UNCHANGED places
          \/ \E S, T : \E place \in {"ready", "later", "running", "failed", "nowhere"} :
                Put(j, S, T, place)
      BY DEF Notify, SetPending, SetRunning, SetFailed, SetDone
    <2>2. \A d \in Channels : /\ k \in ready'[d] <=> k \in ready[d]
                              /\ k \in later'[d] <=> k \in later[d]
                              /\ k \in running'[d] <=> k \in running[d]
                              /\ k \in failed'[d] <=> k \in failed[d]
      BY <2>1, PutEffect DEF places
    <2> QED
      BY <1>1, <1>2, <2>2, StaysQuiet
  <1>4. AtOnePlace(j)'
    <2>1. CASE chan' = chan /\ (UNCHANGED places \/ Put(j, {}, {}, "running"))
      <3>1. \A d \in Channels : /\ j \in ready'[d] <=> j \in ready[d]
                                /\ j \in later'[d] <=> j \in later[d]
                                /\ j \in running'[d] <=> j \in running[d]
                                /\ j \in failed'[d] <=> j \in failed[d]
        BY <2>1, PutEffect DEF places
      <3> QED
        BY <1>1, <2>1, <3>1, StaysQuiet
    <2>2. CASE SetPending(j, c, p, e)
      <3>1. CASE ~ Fresh(j, c, p, e) /\ j \in Queue(c)
        <4>1. chan[j] = c /\ UNCHANGED places /\ chan' = chan
          BY <2>2, <3>1 DEF Fresh, Changed, SetPending, Describe, TypeOK
        <4> QED
          BY <2>1, <4>1
      <3>2. CASE ~ (~ Fresh(j, c, p, e) /\ j \in Queue(c))
        <4>1. /\ chan'[j] = c
              /\ \E place \in {"ready", "later"} :
                    Put(j, Left(j, c, p, e) \cup Above[c], {c}, place)
          BY <2>2, <3>2 DEF SetPending, Describe, TypeOK
        <4> QED
          BY <1>1, <4>1, NotifiedLeaves, EntersOnePlace
      <3> QED
        BY <3>1, <3>2
    <2>3. CASE SetFailed(j, c, p, e)
      <3>1. CASE ~ Fresh(j, c, p, e) /\ j \in failed[c]
        <4>1. chan[j] = c /\ UNCHANGED places /\ chan' = chan
          BY <2>3, <3>1 DEF Fresh, Changed, SetFailed, Describe, TypeOK
        <4> QED
          BY <2>1, <4>1
      <3>2. CASE ~ (~ Fresh(j, c, p, e) /\ j \in failed[c])
        <4>1. chan'[j] = c /\ Put(j, Left(j, c, p, e) \cup Above[c], {c}, "failed")
          BY <2>3, <3>2 DEF SetFailed, Describe, TypeOK
        <4> QED
          BY <1>1, <4>1, NotifiedLeaves, EntersOnePlace
      <3> QED
        BY <3>1, <3>2
    <2>4. CASE SetDone(j, c, p, e)
      <3>1. /\ chan'[j] = chan[j] /\ chan[j] \in Channels
            /\ Put(j, Left(j, c, p, e) \cup Above[c], {}, "nowhere")
        BY <2>4 DEF SetDone, attributes, TypeOK
      <3> QED
        BY <1>1, <3>1, NotifiedLeaves, EntersOnePlace
    <2>5. CASE MayRun(j, c) /\ SetRunning(j, c, p, e)
      <3>1. CASE Fresh(j, c, p, e)
        <4>1. {d \in Above[c] : Fresh(j, c, p, e)
                  \/ \A b \in Above[c] : d \in Above[b] => j \notin running[b]} = Above[c]
          BY <3>1
        <4>2. chan'[j] = c /\ Put(j, Left(j, c, p, e) \cup Above[c], Above[c], "running")
          BY <2>5, <4>1 DEF SetRunning, Describe, TypeOK
        <4> QED
          BY <1>1, <4>2, NotifiedLeaves, EntersOnePlace
      <3>2. CASE ~ Fresh(j, c, p, e)
        <4>1. chan[j] = c /\ chan' = chan
          BY <2>5, <3>2 DEF Fresh, Changed, SetRunning, Describe, TypeOK
        <4> QED
          BY <1>1, <2>1, <2>5, <3>2, <4>1, RunningAgain
      <3> QED
        BY <3>1, <3>2
    <2> QED
      BY <2>2, <2>3, <2>4, <2>5 DEF Notify
  <1> QED
    BY <1>3, <1>4 DEF OneInv

(* The first job of a queue waits there.                                   *)
LEMMA PopsWaits ==
    ASSUME TypeOK, OneInv, NEW c \in Channels, NEW j \in Contenders(c)
    PROVE  j \in Jobs /\ WaitsAt(j, c) /\ QueuedOnce(j)
  <1>1. j \in Jobs /\ j \in Queue(c)
    BY DEF Contenders, Due, Queue, TypeOK
  <1> QED
    BY <1>1 DEF OneInv, AtOnePlace, HasOnePlace, Known, WaitsAt, RunsEverywhere, FailedAtHome

(* One place: j moves from the queue of c to that of its parent.           *)
LEMMA OneYield ==
    ASSUME TypeOK, OneInv, NEW c \in Channels, NEW j \in Jobs, Yield(c, j)
    PROVE  OneInv'
  <1>1. /\ WaitsAt(j, c) /\ QueuedOnce(j) /\ chan' = chan /\ failed' = failed
        /\ \A k \in Jobs : AtOnePlace(k)
    BY PopsWaits DEF Yield, Pops, OneInv
  <1>2. \A d \in Channels, k \in Jobs :
           /\ k \in running'[d] <=> k \in running[d] \/ (d = c /\ k = j)
           /\ k \in Queue(d)' <=> \/ d = c /\ k # j /\ k \in Queue(d)
                                  \/ d # c /\ k \in Queue(d)
                                  \/ d # c /\ c # Root /\ d = Parent[c] /\ k = j
    <2> SUFFICES ASSUME NEW d \in Channels, NEW k \in Jobs
                 PROVE  /\ k \in running'[d] <=> k \in running[d] \/ (d = c /\ k = j)
                        /\ k \in Queue(d)' <=> \/ d = c /\ k # j /\ k \in Queue(d)
                                               \/ d # c /\ k \in Queue(d)
                                               \/ d # c /\ c # Root /\ d = Parent[c] /\ k = j
      OBVIOUS
    <2>1. k \in running'[d] <=> k \in running[d] \/ (d = c /\ k = j)
      BY DEF Yield, TypeOK
    <2>2. /\ ready'[d] = IF d = c THEN Contenders(c) \ {j}
                         ELSE IF c # Root /\ d = Parent[c] THEN ready[d] \cup {j} ELSE ready[d]
          /\ later'[d] = IF d = c THEN NotDue(c) ELSE later[d]
      BY DEF Yield, TypeOK
    <2>3. j \in Contenders(c) /\ j \notin NotDue(c) /\ Contenders(c) \cup NotDue(c) = Queue(c)
      BY <1>1 DEF Yield, Pops, QueuedOnce, Contenders, Due, NotDue, Queue
    <2> QED
      BY <2>1, <2>2, <2>3 DEF Queue
  <1>3. ASSUME NEW k \in Jobs PROVE QueuedOnce(k)'
    <2> SUFFICES ASSUME NEW d \in Channels, k \in ready'[d], k \in later'[d] PROVE FALSE
      BY DEF QueuedOnce
    <2>1. /\ later'[d] = IF d = c THEN NotDue(c) ELSE later[d]
          /\ ready'[d] = IF d = c THEN Contenders(c) \ {j}
                         ELSE IF c # Root /\ d = Parent[c] THEN ready[d] \cup {j} ELSE ready[d]
      BY DEF Yield, TypeOK
    <2>2. ~ (k \in ready[d] /\ k \in later[d])
      BY <1>1 DEF AtOnePlace, QueuedOnce
    <2>3. d # c => j \notin later[d]
      BY <1>1 DEF WaitsAt, Queue
    <2> QED
      BY <2>1, <2>2, <2>3 DEF Contenders, NotDue, Due
  <1>4. ASSUME NEW k \in Jobs \ {j} PROVE AtOnePlace(k)'
    BY <1>1, <1>2, <1>3, StaysPut
  <1>5. CASE c = Root
    <2>1. chan[j] \in Channels /\ Root \in Above[chan[j]] /\ Above[Root] = {Root}
      BY AboveRoot, TreeAssumption DEF TypeOK
    <2>2. RunsEverywhere(j)'
      BY <1>1, <1>2, <1>5, <2>1 DEF WaitsAt, RunsEverywhere
    <2> QED
      BY <1>3, <1>4, <2>2 DEF OneInv, AtOnePlace, HasOnePlace
  <1>6. CASE c # Root
    <2>1. /\ chan[j] \in Channels /\ Parent[c] \in Channels /\ Parent[c] # c
          /\ Above[c] = {c} \cup Above[Parent[c]] /\ c \notin Above[Parent[c]]
          /\ Above[Parent[c]] \subseteq Above[chan[j]]
          /\ Parent[c] \in Above[Parent[c]]
      BY <1>1, <1>6, AboveParent, AboveLeast, AboveTransitive DEF WaitsAt, TypeOK
    <2>2. WaitsAt(j, Parent[c])'
      BY <1>1, <1>2, <1>6, <2>1 DEF WaitsAt
    <2> QED
      BY <1>3, <1>4, <2>1, <2>2 DEF OneInv, AtOnePlace, HasOnePlace
  <1> QED
    BY <1>5, <1>6

(* OneInv is inductive together with TypeOK.                               *)
LEMMA OneNext == TypeOK /\ OneInv /\ [Next]_vars => OneInv'
  <1> SUFFICES ASSUME TypeOK, OneInv, [Next]_vars PROVE OneInv'
    OBVIOUS
  <1>1. \A k \in Jobs : AtOnePlace(k)
    BY DEF OneInv
  <1>2. ASSUME UNCHANGED <<chan, places>> PROVE OneInv'
    BY <1>1, <1>2, StaysQuiet DEF places, OneInv
  <1>3. ASSUME NEW j \in Jobs, RemoveJob(j) PROVE OneInv'
    <2>1. chan' = chan /\ Put(j, Above[chan[j]], {}, "nowhere") /\ chan[j] \in Channels
      BY <1>3 DEF RemoveJob, attributes, TypeOK
    <2>2. \A k \in Jobs \ {j} : AtOnePlace(k)'
      BY <1>1, <2>1, PutEffect, StaysQuiet
    <2>3. AtOnePlace(j)'
      BY <1>1, <2>1, OnItsPath, EntersOnePlace
    <2> QED
      BY <2>2, <2>3 DEF OneInv
  <1>4. CASE RemoveDb
    BY <1>4 DEF RemoveDb, Nowhere, OneInv, AtOnePlace, HasOnePlace, QueuedOnce, Known, Queue
  <1>5. ASSUME NEW c \in Channels, Exhausted(c) PROVE OneInv'
    <2>1. chan' = chan /\ running' = running /\ failed' = failed
      BY <1>5 DEF Exhausted
    <2>2. \A d \in Channels : Queue(d)' = Queue(d)
      BY <1>5 DEF Exhausted, Queue, Contenders, Due, NotDue, TypeOK
    <2>3. \A k \in Jobs : QueuedOnce(k)'
      BY <1>1, <1>5 DEF Exhausted, AtOnePlace, QueuedOnce, Contenders, Due, NotDue, TypeOK
    <2> QED
      BY <1>1, <2>1, <2>2, <2>3, StaysPut DEF OneInv
  <1>6. CASE UNCHANGED vars \/ Begin \/ End \/ Tick \/ \E c \in Channels : Enter(c) \/ Full(c)
    BY <1>2, <1>6 DEF vars, attributes, Begin, End, Tick, Enter, Full
  <1> QED
    BY <1>3, <1>4, <1>5, <1>6, OneNotify, OneYield DEF Next

(* A job is at one place of the path from its channel to the root: it is   *)
(* queued once, and holds no slot of a channel while it is elsewhere.      *)
THEOREM OnePlaceAlways == Spec => []OnePlace
  <1>1. Init => OneInv
    BY DEF Init, Nowhere, OneInv, AtOnePlace, HasOnePlace, QueuedOnce, Known, Queue
  <1>2. OneInv => OnePlace
    BY DEF OneInv, AtOnePlace, HasOnePlace, OnePlace
  <1> QED
    BY <1>1, <1>2, TypeCorrect, OneNext, PTL DEF Spec

-----------------------------------------------------------------------------
(* Capacities.                                                             *)

(* A set of jobs that grows by one job.                                    *)
LEMMA OneMore ==
    ASSUME NEW S \in SUBSET Jobs, NEW T, NEW j \in Jobs, T \subseteq S \cup {j}, NEW n \in Nat,
           \/ j \in S /\ Cardinality(S) <= n
           \/ Cardinality(S) < n
           \/ T \subseteq S /\ Cardinality(S) <= n
    PROVE  Cardinality(T) <= n
  <1>1. IsFiniteSet(S) /\ IsFiniteSet(S \cup {j}) /\ Cardinality(S) \in Nat
    BY JobsAssumption, FS_Subset, FS_AddElement, FS_CardinalityType
  <1>2. Cardinality(S \cup {j}) <= n \/ T \subseteq S
    BY <1>1, FS_AddElement
  <1>3. Cardinality(T) <= Cardinality(S \cup {j}) /\ Cardinality(S \cup {j}) \in Nat
    BY <1>1, FS_Subset, FS_CardinalityType
  <1>4. T \subseteq S => Cardinality(T) <= Cardinality(S) /\ Cardinality(T) \in Nat
    BY <1>1, FS_Subset, FS_CardinalityType
  <1>5. Cardinality(T) \in Nat
    BY <1>1, FS_Subset, FS_CardinalityType
  <1>6. CASE T \subseteq S
    BY <1>1, <1>4, <1>6
  <1>7. CASE ~ (T \subseteq S)
    BY <1>2, <1>3, <1>5, <1>7
  <1> QED
    BY <1>6, <1>7

(* WithinCapacity is inductive together with TypeOK.                       *)
LEMMA CapacityNext == TypeOK /\ WithinCapacity /\ [Next]_vars => WithinCapacity'
  <1> SUFFICES ASSUME TypeOK, WithinCapacity, [Next]_vars,
                      NEW d \in Channels, Cap[d] # 0
               PROVE  Cardinality(running'[d]) <= Cap[d]
    BY DEF WithinCapacity
  <1>1. /\ running[d] \in SUBSET Jobs /\ Cap[d] \in Nat
        /\ Cardinality(running[d]) <= Cap[d]
    BY ConfigAssumption DEF TypeOK, WithinCapacity
  <1>2. ASSUME running'[d] \subseteq running[d]
        PROVE  Cardinality(running'[d]) <= Cap[d]
    <2>1. IsFiniteSet(running[d])
      BY <1>1, JobsAssumption, FS_Subset
    <2>2. Cardinality(running'[d]) <= Cardinality(running[d])
      BY <1>2, <2>1, FS_Subset
    <2>3. Cardinality(running'[d]) \in Nat /\ Cardinality(running[d]) \in Nat
      BY <1>2, <2>1, FS_Subset, FS_CardinalityType
    <2> QED
      BY <1>1, <2>2, <2>3
  <1>3. ASSUME NEW j \in Jobs, NEW S, NEW T, NEW place, Put(j, S, T, place),
               place # "running" \/ T = {}
        PROVE  running'[d] \subseteq running[d]
    BY <1>3 DEF Put, Moved
  <1>4. ASSUME NEW j \in Jobs, NEW c \in Channels, NEW p \in Priorities, NEW e \in Etas,
               Notify(j, c, p, e)
        PROVE  Cardinality(running'[d]) <= Cap[d]
    <2>1. CASE SetPending(j, c, p, e) \/ SetFailed(j, c, p, e) \/ SetDone(j, c, p, e)
      <3>1. running'[d] \subseteq running[d]
        BY <1>3, <2>1 DEF SetPending, SetFailed, SetDone, places
      <3> QED
        BY <1>2, <3>1
    <2>2. CASE MayRun(j, c) /\ SetRunning(j, c, p, e)
      <3>1. running'[d] \subseteq running[d] \cup {j}
        BY <2>2 DEF SetRunning, Put, Moved
      <3>2. CASE d \in Above[c]
        <4>1. j \in running[d] \/ Cardinality(running[d]) < Cap[d]
          BY <2>2, <3>2 DEF MayRun, WithinCapacity
        <4> QED
          BY <1>1, <3>1, <4>1, OneMore
      <3>3. CASE d \notin Above[c]
        <4>1. running'[d] \subseteq running[d]
          BY <2>2, <3>3 DEF SetRunning, Put, Moved
        <4> QED
          BY <1>2, <4>1
      <3> QED
        BY <3>2, <3>3
    <2> QED
      BY <1>4, <2>1, <2>2 DEF Notify
  <1>5. ASSUME NEW j \in Jobs, RemoveJob(j)
        PROVE  Cardinality(running'[d]) <= Cap[d]
    BY <1>2, <1>3, <1>5 DEF RemoveJob
  <1>6. CASE RemoveDb
    BY <1>2, <1>6 DEF RemoveDb, Nowhere
  <1>7. ASSUME NEW c \in Channels, NEW j \in Jobs, Yield(c, j)
        PROVE  Cardinality(running'[d]) <= Cap[d]
    <2>1. CASE d = c
      <3>1. running'[d] = running[d] \cup {j} /\ Cardinality(running[d]) < Cap[d]
        BY <1>7, <2>1 DEF Yield, HasCapacity, TypeOK
      <3> QED
        BY <1>1, <3>1, OneMore
    <2>2. CASE d # c
      BY <1>2, <1>7, <2>2 DEF Yield, TypeOK
    <2> QED
      BY <2>1, <2>2
  <1>8. CASE UNCHANGED vars \/ Begin \/ End \/ Tick
               \/ \E c \in Channels : Enter(c) \/ Exhausted(c) \/ Full(c)
    BY <1>2, <1>8 DEF vars, places, Begin, End, Tick, Enter, Exhausted, Full
  <1> QED
    BY <1>4, <1>5, <1>6, <1>7, <1>8 DEF Next

(* No channel runs more jobs than its capacity.                            *)
THEOREM CapacityKept == Spec => []WithinCapacity
  <1>1. Init => WithinCapacity
    BY FS_EmptySet, ConfigAssumption DEF Init, Nowhere, WithinCapacity
  <1> QED
    BY <1>1, TypeCorrect, CapacityNext, PTL DEF Spec

-----------------------------------------------------------------------------
(* The manager implements the abstract one of module JobView.              *)

views == [j \in Jobs |-> ViewOf(j)]

ViewInv == TypeOK /\ OneInv

(* Every job has a view.                                                   *)
LEMMA ViewsType == \A j \in Jobs : ViewOf(j) \in Abstract!Views
  BY DEF ViewOf, Abstract!Views

(* Both modules count a set in the same way.                               *)
LEMMA SameCount == \A S : Abstract!Cardinality(S) = Cardinality(S)
  BY DEF Abstract!Cardinality, Cardinality

(* The running jobs of the abstract manager are those of the root channel. *)
LEMMA ViewsRunning == TypeOK => Abstract!Running = running[Root]
  BY TreeAssumption DEF Abstract!Running, ViewOf, TypeOK

(* The view of a job that a step leaves alone.                             *)
LEMMA SameView ==
    ASSUME NEW k \in Jobs, eta'[k] = eta[k], now' = now,
           k \in running'[Root] <=> k \in running[Root],
           \A c \in Channels : /\ k \in failed'[c] <=> k \in failed[c]
                               /\ k \in later'[c] <=> k \in later[c],
           Known(k)' <=> Known(k)
    PROVE  ViewOf(k)' = ViewOf(k)
  BY DEF ViewOf

(* The view of a job that is about to leave its queue.                     *)
LEMMA ContenderWaits ==
    ASSUME ViewInv, NEW c \in Channels, NEW j \in Contenders(c)
    PROVE  ViewOf(j) = "waiting"
  <1>1. j \in Jobs /\ WaitsAt(j, c) /\ QueuedOnce(j)
    BY PopsWaits DEF ViewInv
  <1>2. j \notin running[Root] /\ Known(j) /\ \A d \in Channels : j \notin failed[d]
    BY <1>1, TreeAssumption DEF WaitsAt, Known
  <1>3. ASSUME NEW d \in Channels, j \in later[d], eta[j] > now PROVE FALSE
    <2>1. d = c /\ j \notin ready[c]
      BY <1>1, <1>3 DEF WaitsAt, Queue, QueuedOnce
    <2>2. eta[j] <= now
      BY <2>1 DEF Contenders, Due
    <2>3. eta[j] \in Etas \cup {0} /\ now \in Nat
      BY <1>1 DEF ViewInv, TypeOK
    <2>4. eta[j] \in Nat
      BY <2>3, EtasNatural
    <2> QED
      BY <1>3, <2>2, <2>3, <2>4
  <1> QED
    BY <1>2, <1>3 DEF ViewOf

(* Views: one job is notified or removed.                                  *)
LEMMA ViewsNotified ==
    ASSUME NEW j \in Jobs, \A k \in Jobs \ {j} : ViewOf(k)' = ViewOf(k),
           ViewOf(j)' = "running" =>
               \/ ViewOf(j) = "running"
               \/ ViewOf(j) = "absent" /\ Cardinality(Abstract!Running) < Cap[Root]
    PROVE  Abstract!ViewNext
  <1>1. views' = [views EXCEPT ![j] = ViewOf(j)']
    BY DEF views
  <1>2. views[j] = ViewOf(j)
    BY DEF views
  <1>3. ViewOf(j)' \in Abstract!Views
    BY DEF ViewOf, Abstract!Views
  <1>4. ViewOf(j)' = "running" =>
           \/ views[j] = "running"
           \/ views[j] = "absent" /\ Abstract!Cardinality(Abstract!Running) < Cap[Root]
    BY <1>2, SameCount
  <1>5. \E v \in Abstract!Views :
           /\ v = "running" => \/ views[j] = "running"
                               \/ /\ views[j] = "absent"
                                  /\ Abstract!Cardinality(Abstract!Running) < Cap[Root]
           /\ Abstract!ViewNotify(j, v)
    BY <1>1, <1>3, <1>4 DEF views, Abstract!ViewNotify
  <1> QED
    BY <1>5 DEF views, Abstract!ViewNext

(* Views: a notification.                                                  *)
LEMMA ViewsNotify ==
    ASSUME ViewInv, Cap[Root] # 0, NEW j \in Jobs, NEW c \in Channels, NEW p \in Priorities,
           NEW e \in Etas, Notify(j, c, p, e)
    PROVE  Abstract!ViewNext
  <1>1. /\ TypeOK /\ Root \in Channels /\ Root \in Above[c]
        /\ now' = now /\ \A k \in Jobs \ {j} : eta'[k] = eta[k]
    BY TreeAssumption
       DEF ViewInv, Notify, SetPending, SetRunning, SetFailed, SetDone, Describe, attributes,
           TypeOK
  <1>2. ASSUME NEW k \in Jobs \ {j} PROVE ViewOf(k)' = ViewOf(k)
    <2>1. \/ UNCHANGED places
          \/ \E S, T : \E place \in {"ready", "later", "running", "failed", "nowhere"} :
                Put(j, S, T, place)
      BY DEF Notify, SetPending, SetRunning, SetFailed, SetDone
    <2>2. \A d \in Channels : /\ k \in ready'[d] <=> k \in ready[d]
                              /\ k \in later'[d] <=> k \in later[d]
                              /\ k \in running'[d] <=> k \in running[d]
                              /\ k \in failed'[d] <=> k \in failed[d]
      BY <1>1, <2>1, PutEffect DEF places
    <2>3. Known(k)' <=> Known(k)
      BY <2>2 DEF Known, Queue
    <2> QED
      BY <1>1, <2>2, <2>3, SameView
  <1>3. CASE MayRun(j, c)
    <2>1. CASE j \in running[Root]
      <3>1. ViewOf(j) = "running"
        BY <2>1 DEF ViewOf
      <3> QED
        BY <1>2, <3>1, ViewsNotified
    <2>2. CASE ~ Known(j) /\ j \notin running[Root]
      <3>1. ViewOf(j) = "absent"
        BY <2>2 DEF ViewOf, Known, Queue
      <3>2. Cardinality(Abstract!Running) < Cap[Root]
        BY <1>1, <1>3, <2>2, ViewsRunning DEF MayRun
      <3> QED
        BY <1>2, <3>1, <3>2, ViewsNotified
    <2> QED
      BY <1>3, <2>1, <2>2 DEF MayRun
  <1>4. CASE SetPending(j, c, p, e) \/ SetFailed(j, c, p, e) \/ SetDone(j, c, p, e)
    <2>1. UNCHANGED places \/ j \notin running'[Root]
      BY <1>1, <1>4, PutEffect DEF SetPending, SetFailed, SetDone
    <2>2. ViewOf(j)' = "running" => ViewOf(j) = "running"
      BY <2>1 DEF ViewOf, places
    <2> QED
      BY <1>2, <2>2, ViewsNotified
  <1> QED
    BY <1>3, <1>4 DEF Notify

(* Views: the root channel yields a job, another one moves it on.          *)
LEMMA ViewsYield ==
    ASSUME ViewInv, Cap[Root] # 0, NEW c \in Channels, NEW j \in Jobs, Yield(c, j)
    PROVE  [Abstract!ViewNext]_views
  <1>1. /\ TypeOK /\ OneInv /\ now' = now /\ failed' = failed
        /\ j \in Contenders(c) /\ WaitsAt(j, c) /\ ViewOf(j) = "waiting"
    BY ContenderWaits, PopsWaits DEF ViewInv, Yield, Pops
  <1>2. \A d \in Channels, k \in Jobs :
           /\ k \in running'[d] <=> k \in running[d] \/ (d = c /\ k = j)
           /\ k \in later'[d] <=> k \in later[d] /\ ~ (d = c /\ k \in Due(c))
    BY <1>1 DEF Yield, NotDue, TypeOK
  <1>3. \A k \in Jobs : /\ Known(k)' <=> Known(k)
                        /\ k \notin Due(c) => eta'[k] = eta[k]
    <2>1. \A d \in Channels :
             ready'[d] = IF d = c THEN Contenders(c) \ {j}
                         ELSE IF c # Root /\ d = Parent[c] THEN ready[d] \cup {j} ELSE ready[d]
      BY DEF Yield
    <2>2. \A k \in Jobs : k \notin Due(c) => eta'[k] = eta[k]
      BY <1>1 DEF Yield, ForgetEtas, TypeOK
    <2>3. Known(j) /\ Known(j)'
      BY <1>1, <1>2 DEF WaitsAt, Known
    <2>4. ASSUME NEW k \in Jobs \ {j} PROVE Known(k)' <=> Known(k)
      <3>1. \A d \in Channels : k \in Queue(d)' <=> k \in Queue(d)
        BY <1>2, <2>1 DEF Queue, Contenders, Due
      <3> QED
        BY <1>1, <1>2, <3>1 DEF Known
    <2> QED
      BY <2>2, <2>3, <2>4
  <1>4. ASSUME NEW k \in Jobs, k # j \/ c # Root PROVE ViewOf(k)' = ViewOf(k)
    <2>1. CASE k \in Contenders(c)
      <3>1. WaitsAt(k, c) /\ ViewOf(k) = "waiting" /\ QueuedOnce(k)
        BY <1>1, <2>1, PopsWaits, ContenderWaits DEF ViewInv
      <3>2. k \notin running'[Root] /\ Known(k)'
        BY <1>2, <1>3, <1>4, <3>1, TreeAssumption DEF WaitsAt, Known
      <3>3. \A d \in Channels : k \notin later'[d] /\ k \notin failed'[d]
        BY <1>1, <1>2, <2>1, <3>1 DEF WaitsAt, Queue, QueuedOnce, Contenders
      <3> QED
        BY <3>1, <3>2, <3>3 DEF ViewOf
    <2>2. CASE k \notin Contenders(c)
      <3>1. k \notin Due(c) /\ k # j
        BY <1>1, <2>2 DEF Contenders
      <3> QED
        BY <1>1, <1>2, <1>3, <3>1, SameView, TreeAssumption
    <2> QED
      BY <2>1, <2>2
  <1>5. CASE c # Root
    BY <1>4, <1>5 DEF views
  <1>6. CASE c = Root
    <2>1. ViewOf(j)' = "running"
      BY <1>2, <1>6 DEF ViewOf
    <2>2. views' = [views EXCEPT ![j] = "running"]
      BY <1>4, <2>1 DEF views
    <2>3. Cardinality(Abstract!Running) < Cap[Root]
      BY <1>1, <1>6, ViewsRunning DEF Yield, HasCapacity
    <2>4. Abstract!CanDispatch(j)
      BY <1>1, <2>3, SameCount DEF Abstract!CanDispatch
    <2>5. Abstract!ViewDispatch(j)
      BY <2>2, <2>4 DEF views, Abstract!ViewDispatch
    <2> QED
      BY <2>5 DEF Abstract!ViewNext
  <1> QED
    BY <1>5, <1>6

(* Views: a channel is exhausted.                                          *)
LEMMA ViewsExhausted ==
    ASSUME ViewInv, NEW c \in Channels, Exhausted(c)
    PROVE  views' = views
  <1> SUFFICES ASSUME NEW k \in Jobs PROVE ViewOf(k)' = ViewOf(k)
    BY DEF views
  <1>1. /\ TypeOK /\ now' = now /\ running' = running /\ failed' = failed
        /\ \A d \in Channels : Queue(d)' = Queue(d)
        /\ \A d \in Channels : later'[d] = IF d = c THEN NotDue(c) ELSE later[d]
        /\ k \notin Due(c) => eta'[k] = eta[k]
    BY DEF ViewInv, Exhausted, ForgetEtas, Queue, Contenders, Due, NotDue, TypeOK
  <1>2. Known(k)' <=> Known(k)
    BY <1>1 DEF Known
  <1>3. CASE k \in Contenders(c)
    <2>1. WaitsAt(k, c) /\ ViewOf(k) = "waiting" /\ QueuedOnce(k)
      BY <1>3, PopsWaits, ContenderWaits DEF ViewInv
    <2>2. k \notin running[Root] /\ \A d \in Channels : k \notin failed[d]
      BY <2>1, TreeAssumption DEF WaitsAt
    <2>3. \A d \in Channels : k \notin later'[d]
      BY <1>1, <1>3, <2>1 DEF WaitsAt, Queue, QueuedOnce, Contenders, NotDue
    <2>4. Known(k)
      BY <2>1 DEF WaitsAt, Known
    <2> QED
      BY <1>1, <1>2, <2>1, <2>2, <2>3, <2>4 DEF ViewOf
  <1>4. CASE k \notin Contenders(c)
    <2>1. k \notin Due(c) /\ \A d \in Channels : k \in later'[d] <=> k \in later[d]
      BY <1>1, <1>4 DEF Contenders, NotDue
    <2> QED
      BY <1>1, <1>2, <2>1, SameView
  <1> QED
    BY <1>3, <1>4

(* Views: the clock.                                                       *)
LEMMA ViewsTick ==
    ASSUME ViewInv, Tick
    PROVE  Abstract!ViewNext
  <1> DEFINE S == {k \in Jobs : ViewOf(k) = "postponed" /\ ViewOf(k)' # "postponed"}
  <1>1. /\ UNCHANGED <<chan, prio, eta, ready, later, running, failed>>
        /\ now' = now + 1 /\ now \in Nat /\ \A k \in Jobs : eta[k] \in Etas \cup {0}
    BY DEF Tick, attributes, places, ViewInv, TypeOK
  <1>2. ASSUME NEW k \in Jobs
        PROVE  ViewOf(k)' = IF k \in S /\ ViewOf(k) = "postponed" THEN "waiting" ELSE ViewOf(k)
    <2>1. Known(k)' <=> Known(k)
      BY <1>1 DEF Known, Queue
    <2>2. \A d \in Channels : k \in later[d] => Known(k)
      BY DEF Known, Queue
    <2>3. eta'[k] > now' => eta[k] > now
      <3>1. eta[k] \in Nat
        BY <1>1, EtasNatural
      <3> QED
        BY <1>1, <3>1
    <2> QED
      BY <1>1, <2>1, <2>2, <2>3 DEF ViewOf
  <1>3. views' = [k \in Jobs |-> IF k \in S /\ views[k] = "postponed" THEN "waiting" ELSE views[k]]
    BY <1>2 DEF views
  <1>4. S \in SUBSET Jobs
    OBVIOUS
  <1> QED
    BY <1>3, <1>4 DEF views, Abstract!ViewNext, Abstract!ViewDue

(* Every step of the manager is a step of the abstract one, or stutters.   *)
LEMMA ViewsNext ==
    ASSUME ViewInv, Cap[Root] # 0, [Next]_vars
    PROVE  [Abstract!ViewNext]_views
  <1>1. ASSUME UNCHANGED <<eta, now, places>> PROVE views' = views
    BY <1>1 DEF views, ViewOf, Known, Queue, places
  <1>2. ASSUME NEW j \in Jobs, RemoveJob(j) PROVE Abstract!ViewNext
    <2>1. /\ Put(j, Above[chan[j]], {}, "nowhere") /\ TypeOK /\ Root \in Above[chan[j]]
          /\ eta' = eta /\ now' = now
      BY <1>2, TreeAssumption DEF RemoveJob, attributes, ViewInv, TypeOK
    <2>2. ASSUME NEW k \in Jobs \ {j} PROVE ViewOf(k)' = ViewOf(k)
      <3>1. Known(k)' <=> Known(k)
        BY <2>1, PutEffect DEF Known, Queue
      <3> QED
        BY <2>1, <3>1, PutEffect, SameView, TreeAssumption
    <2>3. ViewOf(j)' # "running"
      BY <2>1, PutEffect, TreeAssumption DEF ViewOf
    <2> QED
      BY <2>2, <2>3, ViewsNotified
  <1>3. CASE RemoveDb
    <2>1. \A k \in Jobs : ViewOf(k)' = "absent"
      BY <1>3, TreeAssumption DEF RemoveDb, Nowhere, ViewOf, Known, Queue
    <2>2. views' = [k \in Jobs |-> "absent"]
      BY <2>1 DEF views
    <2> QED
      BY <2>2 DEF views, Abstract!ViewNext, Abstract!ViewClear
  <1>4. CASE UNCHANGED vars \/ Begin \/ End \/ \E c \in Channels : Enter(c) \/ Full(c)
    BY <1>1, <1>4 DEF vars, attributes, Begin, End, Enter, Full
  <1> QED
    BY <1>2, <1>3, <1>4, ViewsNotify, ViewsYield, ViewsExhausted, ViewsTick DEF Next

(* The tree of channels implements the single channel that module QueueJob *)
(* assumes, if the root channel has a capacity (by default it has, 1).     *)
THEOREM ManagerRefines ==
    ASSUME Cap[Root] # 0
    PROVE  Spec => ImplementsView
  <1>1. Init => OneInv
    BY DEF Init, Nowhere, OneInv, AtOnePlace, HasOnePlace, QueuedOnce, Known, Queue
  <1>2. Init => Abstract!ViewInit
    <2> SUFFICES ASSUME Init PROVE views = [j \in Jobs |-> "absent"]
      BY DEF views, Abstract!ViewInit
    <2>1. \A j \in Jobs : ViewOf(j) = "absent"
      BY TreeAssumption DEF Init, Nowhere, ViewOf, Known, Queue
    <2> QED
      BY <2>1 DEF views
  <1>3. TypeOK /\ OneInv /\ [Next]_vars => [Abstract!ViewNext]_views
    BY ViewsNext DEF ViewInv
  <1> QED
    BY <1>1, <1>2, <1>3, TypeCorrect, OneNext, PTL
       DEF Spec, ImplementsView, Abstract!ViewSpec, views
-----------------------------------------------------------------------------
(* A pass leaves no job behind.                                            *)

(* A channel is entered after its children are exhausted ...               *)
ChildrenFirst ==
    \A c \in Channels : pass[c] \in {"open", "over"} => \A d \in Children(c) : pass[d] = "over"

(* ... and one that is exhausted has no room, or pauses, or has no job     *)
(* that may leave its queue.                                               *)
Spent(c) == ~ HasCapacity(c) \/ Paused(c) \/ \A j \in Jobs : ~ Pops(c, j)
OverIsSpent == \A c \in Channels : pass[c] = "over" => Spent(c)

PassInv == ChildrenFirst /\ OverIsSpent

(* All channels below one that is entered are exhausted.                   *)
LEMMA BelowIsOver ==
    ASSUME TypeOK, ChildrenFirst, NEW d \in Channels, NEW c \in Above[d], c # d,
           pass[c] \in {"open", "over"}
    PROVE  pass[d] = "over"
  <1> SUFFICES ASSUME pass[d] # "over" PROVE FALSE
    OBVIOUS
  <1> DEFINE S == {x \in Above[d] : x = d \/ pass[x] \notin {"open", "over"}}
  <1>1. d \in S /\ S \in SUBSET Channels
    BY AboveLeast
  <1>2. Upward(S)
    <2> SUFFICES ASSUME NEW x \in S \ {Root} PROVE Parent[x] \in S
      BY DEF Upward
    <2>1. /\ Parent[x] \in Above[d] /\ Parent[x] \in Channels
          /\ x \in Channels \ {Root} /\ pass[x] # "over"
      BY AboveLeast, TreeAssumption DEF Upward
    <2>2. x \in Children(Parent[x])
      BY <2>1 DEF Children
    <2>3. pass[Parent[x]] \notin {"open", "over"}
      BY <2>1, <2>2 DEF ChildrenFirst
    <2> QED
      BY <2>1, <2>3
  <1> QED
    BY <1>1, <1>2, AboveLeast

(* A channel that a step leaves alone, with its jobs, stays spent.         *)
LEMMA StaysSpent ==
    ASSUME NEW d \in Channels, Spent(d), now' = now, prio' = prio,
           ready'[d] = ready[d], later'[d] = later[d], running'[d] = running[d],
           failed'[d] = failed[d], pause'[d] = pause[d],
           \A j \in later[d] : eta'[j] = eta[j]
    PROVE  Spent(d)'
  <1>1. HasCapacity(d)' <=> HasCapacity(d)
    BY DEF HasCapacity
  <1>2. Paused(d)' <=> Paused(d)
    BY DEF Paused
  <1>3. Contenders(d)' = Contenders(d) /\ NotDue(d)' = NotDue(d) /\ NotDue(d) \subseteq later[d]
    BY DEF Contenders, NotDue, Due
  <1>4. \A j, k : Before(j, k)' <=> Before(j, k)
    BY DEF Before
  <1>5. \A j, k \in later[d] : EtaBefore(j, k)' <=> EtaBefore(j, k)
    BY <1>4 DEF EtaBefore
  <1>6. Waits(d)' <=> Waits(d)
    BY <1>3, <1>4, <1>5 DEF Waits
  <1>7. \A j \in Jobs : Pops(d, j)' <=> Pops(d, j)
    BY <1>3, <1>4, <1>6 DEF Pops
  <1> QED
    BY <1>1, <1>2, <1>7 DEF Spent

(* A queue whose due jobs have joined the others pops the same job.        *)
LEMMA ExhaustedIsSpent ==
    ASSUME TypeOK, OneInv, NEW c \in Channels, Exhausted(c)
    PROVE  Spent(c)'
  <1>1. /\ \A j \in Jobs : ~ Pops(c, j)
        /\ ready'[c] = Contenders(c) /\ later'[c] = NotDue(c) /\ now' = now /\ prio' = prio
        /\ \A j \in Jobs : j \notin Due(c) => eta'[j] = eta[j]
        /\ later[c] \subseteq Jobs
    BY DEF Exhausted, ForgetEtas, TypeOK
  <1>2. \A j \in NotDue(c) : j \in Jobs /\ j \in later[c] /\ eta'[j] = eta[j] /\ ~ (eta[j] <= now)
    BY <1>1 DEF NotDue, Due
  <1>3. Contenders(c)' = Contenders(c) /\ NotDue(c)' = NotDue(c)
    BY <1>1, <1>2 DEF Contenders, NotDue, Due
  <1>4. \A j, k : Before(j, k)' <=> Before(j, k)
    BY <1>1 DEF Before
  <1>5. \A j, k \in NotDue(c) : EtaBefore(j, k)' <=> EtaBefore(j, k)
    BY <1>2, <1>4 DEF EtaBefore
  <1>6. Waits(c)' <=> Waits(c)
    BY <1>3, <1>4, <1>5 DEF Waits
  <1>7. \A j \in Jobs : Pops(c, j)' <=> Pops(c, j)
    BY <1>3, <1>4, <1>6 DEF Pops
  <1> QED
    BY <1>1, <1>7 DEF Spent

(* A job that is due in one queue waits in no other.                       *)
LEMMA DueElsewhere ==
    ASSUME TypeOK, OneInv, NEW c \in Channels, NEW d \in Channels \ {c}, ForgetEtas(c)
    PROVE  \A j \in later[d] : eta'[j] = eta[j]
  <1> SUFFICES ASSUME NEW j \in later[d] PROVE eta'[j] = eta[j]
    OBVIOUS
  <1>1. j \in Jobs
    BY DEF TypeOK
  <1>2. j \notin Due(c)
    <2> SUFFICES ASSUME j \in Due(c) PROVE FALSE
      OBVIOUS
    <2>1. WaitsAt(j, c)
      BY PopsWaits DEF Contenders
    <2> QED
      BY <2>1 DEF WaitsAt, Queue
  <1> QED
    BY <1>1, <1>2 DEF ForgetEtas

(* The pass: every step.                                                   *)
LEMMA PassNext == TypeOK /\ OneInv /\ PassInv /\ [Next]_vars => PassInv'
  <1> SUFFICES ASSUME TypeOK, OneInv, PassInv, [Next]_vars PROVE PassInv'
    OBVIOUS
  <1>1. pass \in [Channels -> {"idle", "todo", "open", "over"}]
    BY DEF TypeOK
  <1>2. ASSUME \A c \in Channels : pass'[c] \in {"idle", "todo"} PROVE PassInv'
    BY <1>2 DEF PassInv, ChildrenFirst, OverIsSpent
  <1>3. CASE Begin \/ End \/ Tick \/ RemoveDb \/ (\E j \in Jobs : RemoveJob(j))
               \/ \E j \in Jobs, c \in Channels, p \in Priorities, e \in Etas : Notify(j, c, p, e)
    BY <1>2, <1>3 DEF Begin, End, Tick, RemoveDb, RemoveJob, Notify, Idle
  <1>4. CASE UNCHANGED vars
    <2>1. ChildrenFirst'
      BY <1>4 DEF PassInv, ChildrenFirst, vars
    <2>2. OverIsSpent'
      BY <1>4, StaysSpent DEF PassInv, OverIsSpent, vars, places, attributes
    <2> QED
      BY <2>1, <2>2 DEF PassInv
  <1>5. ASSUME NEW c \in Channels, pass[c] \in {"todo", "open"},
               \A d \in Channels \ {c} : pass'[d] = pass[d],
               pass'[c] \in {"open", "over"}, \A d \in Children(c) : pass[d] = "over"
        PROVE  ChildrenFirst'
    BY <1>5, <1>1 DEF PassInv, ChildrenFirst, Children
  <1>6. ASSUME NEW c \in Channels, pass[c] = "open"
        PROVE  \A d \in Children(c) : pass[d] = "over"
    BY <1>6 DEF PassInv, ChildrenFirst
  <1>7. ASSUME NEW c \in Channels, Enter(c) PROVE PassInv'
    <2>1. ChildrenFirst'
      BY <1>1, <1>5, <1>7 DEF Enter
    <2>2. ASSUME NEW d \in Channels, pass'[d] = "over" PROVE Spent(d)'
      <3>1. CASE d # c
        <4>1. Spent(d)
          BY <1>1, <1>7, <2>2, <3>1 DEF Enter, PassInv, OverIsSpent
        <4> QED
          BY <1>7, <3>1, <4>1, StaysSpent DEF Enter, attributes, places, TypeOK
      <3>2. CASE d = c
        BY <1>1, <1>7, <2>2, <3>2 DEF Enter, Paused, Spent
      <3> QED
        BY <3>1, <3>2
    <2> QED
      BY <2>1, <2>2 DEF PassInv, OverIsSpent
  <1>8. ASSUME NEW c \in Channels, Full(c) PROVE PassInv'
    <2>1. ChildrenFirst'
      BY <1>1, <1>5, <1>6, <1>8 DEF Full
    <2>2. ASSUME NEW d \in Channels, pass'[d] = "over" PROVE Spent(d)'
      <3>1. Spent(d)
        BY <1>1, <1>8, <2>2 DEF Full, PassInv, OverIsSpent, Spent
      <3> QED
        BY <1>8, <3>1, StaysSpent DEF Full, attributes, places
    <2> QED
      BY <2>1, <2>2 DEF PassInv, OverIsSpent
  <1>9. ASSUME NEW c \in Channels, Exhausted(c) PROVE PassInv'
    <2>1. ChildrenFirst'
      BY <1>1, <1>5, <1>6, <1>9 DEF Exhausted
    <2>2. ASSUME NEW d \in Channels, pass'[d] = "over", d # c PROVE Spent(d)'
      <3>1. Spent(d)
        BY <1>1, <1>9, <2>2 DEF Exhausted, PassInv, OverIsSpent
      <3>2. \A j \in later[d] : eta'[j] = eta[j]
        BY <1>9, <2>2, DueElsewhere DEF Exhausted
      <3> QED
        BY <1>9, <2>2, <3>1, <3>2, StaysSpent DEF Exhausted, TypeOK
    <2> QED
      BY <1>9, <2>1, <2>2, ExhaustedIsSpent DEF PassInv, OverIsSpent
  <1>10. ASSUME NEW c \in Channels, NEW j \in Jobs, Yield(c, j) PROVE PassInv'
    <2>1. ChildrenFirst'
      <3>1. CASE pass' = pass
        BY <3>1 DEF PassInv, ChildrenFirst
      <3>2. CASE pass' = [pass EXCEPT ![c] = "over"]
        BY <1>1, <1>5, <1>6, <1>10, <3>2 DEF Yield
      <3> QED
        BY <1>10, <3>1, <3>2 DEF Yield
    <2>2. ASSUME NEW d \in Channels, pass'[d] = "over", d # c PROVE Spent(d)'
      <3>1. Spent(d) /\ pass[d] = "over"
        BY <1>1, <1>10, <2>2 DEF Yield, PassInv, OverIsSpent
      <3>2. \A k \in later[d] : eta'[k] = eta[k]
        BY <1>10, <2>2, DueElsewhere DEF Yield
      <3>3. ~ (c # Root /\ d = Parent[c])
        <4> SUFFICES ASSUME c # Root, d = Parent[c] PROVE FALSE
          OBVIOUS
        <4>1. c \in Children(d)
          BY DEF Children
        <4>2. pass[c] = "over"
          BY <3>1, <4>1 DEF PassInv, ChildrenFirst
        <4> QED
          BY <1>10, <4>2 DEF Yield
      <3> QED
        BY <1>10, <2>2, <3>1, <3>2, <3>3, StaysSpent DEF Yield, TypeOK
    <2>3. ASSUME pass'[c] = "over" PROVE Spent(c)'
      <3>1. Throttle[c] # 0 /\ pause'[c] = now + Throttle[c] /\ now' = now
        BY <1>1, <1>10, <2>3 DEF Yield, TypeOK
      <3>2. now \in Nat /\ Throttle[c] \in Nat
        BY ConfigAssumption DEF TypeOK
      <3>3. now' < pause'[c] /\ pause'[c] # 0
        BY <3>1, <3>2
      <3> QED
        BY <3>1, <3>3 DEF Spent, Paused
    <2> QED
      BY <2>1, <2>2, <2>3 DEF PassInv, OverIsSpent
  <1> QED
    BY <1>3, <1>4, <1>7, <1>8, <1>9, <1>10 DEF Next

(* When the root is exhausted every channel is, and none has a job to give *)
(* that its ancestors have room for.                                       *)
LEMMA PassComplete == TypeOK /\ PassInv => PassIsComplete
  <1> SUFFICES ASSUME TypeOK, PassInv, pass[Root] = "over", NEW d \in Channels, OpenAt(d),
                      NEW j \in Jobs, Pops(d, j)
               PROVE  FALSE
    BY DEF PassIsComplete, Movable
  <1>1. Root \in Above[d] /\ d \in Above[d]
    BY TreeAssumption, AboveLeast
  <1>2. pass[d] = "over"
    BY <1>1, BelowIsOver DEF PassInv
  <1> QED
    BY <1>1, <1>2 DEF PassInv, OverIsSpent, Spent, OpenAt

LEMMA OneInit == Init => OneInv
  BY DEF Init, Nowhere, OneInv, AtOnePlace, HasOnePlace, QueuedOnce, Known, Queue

LEMMA PassInit == Init => PassInv
  BY DEF Init, PassInv, ChildrenFirst, OverIsSpent

(* A pass of get_jobs_to_run leaves no job behind that could run.          *)
THEOREM PassCompletes == Spec => []PassIsComplete
  BY OneInit, PassInit, TypeCorrect, OneNext, PassNext, PassComplete, PTL DEF Spec
-----------------------------------------------------------------------------
(* The runner does not sleep while a job could run.                        *)

(* No job of d may leave its queue before a pause ends or a job falls due. *)
Quiet(d) ==
    \/ \E c \in Above[d] : ~ HasCapacity(c) \/ pause[c] # 0
    \/ Due(d) # {}
    \/ \A j \in Jobs : ~ Pops(d, j)

SettledIsQuiet == settled => Idle /\ \A d \in Channels : Quiet(d)

(* Only throttled channels pause, and a job that waits for its eta has one.*)
PausesThrottled == \A c \in Channels : pause[c] # 0 => Throttle[c] # 0
LaterHasEta == \A c \in Channels : \A j \in later[c] : eta[j] # 0

WakeInv == SettledIsQuiet /\ PausesThrottled /\ LaterHasEta

(* Of the pausing channels of a path, one has none above it.               *)
LEMMA TopmostPause ==
    ASSUME NEW d \in Channels, NEW c \in Above[d], pause[c] # 0
    PROVE  \E x \in Above[d] : pause[x] # 0 /\ \A y \in Above[x] \ {x} : pause[y] = 0
  <1> SUFFICES ASSUME \A x \in Above[d] : pause[x] # 0 => \E y \in Above[x] \ {x} : pause[y] # 0
               PROVE  FALSE
    OBVIOUS
  <1> DEFINE S == {x \in Above[d] : \E y \in Above[x] : pause[y] # 0}
  <1>1. d \in S /\ S \in SUBSET Channels
    BY AboveLeast
  <1>2. Upward(S)
    <2> SUFFICES ASSUME NEW x \in S \ {Root} PROVE Parent[x] \in S
      BY DEF Upward
    <2>1. x \in Above[d] /\ x \in Channels \ {Root} /\ Parent[x] \in Above[d]
      BY AboveLeast DEF Upward
    <2>2. PICK y \in Above[x] : pause[y] # 0
      OBVIOUS
    <2>3. \E z \in Above[x] \ {x} : pause[z] # 0
      BY <2>1, <2>2
    <2>4. Above[x] \ {x} \subseteq Above[Parent[x]]
      BY <2>1, AboveParent
    <2> QED
      BY <2>1, <2>3, <2>4
  <1>3. Root \in S
    BY <1>1, <1>2, AboveLeast, TreeAssumption
  <1>4. Root \in Above[d] /\ pause[Root] # 0
    BY <1>3, AboveRoot
  <1> QED
    BY <1>4, AboveRoot

(* The least of some natural numbers.                                      *)
LEMMA LeastNatural ==
    ASSUME NEW S \in SUBSET Nat, NEW n \in S
    PROVE  Min(S) \in S /\ Min(S) <= n
  <1>1. \E x \in S : \A y \in S : x <= y
    <2>1. PICK x \in S : \A y \in S : ~ (<<y, x>> \in OpToRel(<, Nat))
      BY NatLessThanWellFounded, WFMin
    <2>2. ASSUME NEW y \in S, ~ (x <= y) PROVE FALSE
      <3>1. y \in Nat /\ x \in Nat /\ y < x
        BY <2>2
      <3>2. <<y, x>> \in OpToRel(<, Nat)
        BY <3>1 DEF OpToRel
      <3> QED
        BY <2>1, <3>2
    <2> QED
      BY <2>2
  <1> QED
    BY <1>1 DEF Min

(* The wakeup time is not later than any of the times that are asked for.  *)
LEMMA WakesInTime ==
    ASSUME TypeOK, LaterHasEta, NEW t \in WakeTimes, t <= now
    PROVE  GetWakeupTime # 0 /\ GetWakeupTime <= now
  <1>1. WakeTimes \subseteq Nat \ {0}
    <2>1. \A c \in Channels : pause[c] \in Nat
      BY DEF TypeOK
    <2>2. \A c \in Channels : \A j \in later[c] : eta[j] \in Nat \ {0}
      BY EtasNatural DEF TypeOK, LaterHasEta
    <2> QED
      BY <2>1, <2>2 DEF WakeTimes
  <1>2. Min(WakeTimes) \in WakeTimes /\ Min(WakeTimes) <= t
    BY <1>1, LeastNatural
  <1>3. now \in Nat /\ t \in Nat /\ Min(WakeTimes) \in Nat \ {0}
    BY <1>1, <1>2 DEF TypeOK
  <1>4. GetWakeupTime = Min(WakeTimes)
    BY DEF GetWakeupTime
  <1> QED
    BY <1>2, <1>3, <1>4

LEMMA WakeupNotMissed == TypeOK /\ WakeInv => NoMissedWakeup
  <1> SUFFICES ASSUME TypeOK, WakeInv, settled, NEW d \in Channels, OpenAt(d),
                      NEW j \in Jobs, Pops(d, j)
               PROVE  GetWakeupTime # 0 /\ GetWakeupTime <= now
    BY DEF NoMissedWakeup, Movable
  <1>1. /\ \A c \in Above[d] : HasCapacity(c) /\ ~ Paused(c)
        /\ d \in Above[d] /\ Above[d] \subseteq Channels
    BY AboveLeast DEF OpenAt
  <1>2. CASE \E c \in Above[d] : pause[c] # 0
    <2>1. PICK x \in Above[d] : pause[x] # 0 /\ \A y \in Above[x] \ {x} : pause[y] = 0
      BY <1>2, TopmostPause
    <2>2. Asked(x)
      BY <1>1, <2>1, AboveTransitive DEF Asked
    <2>3. pause[x] \in WakeTimes
      BY <1>1, <2>1, <2>2 DEF WakeTimes
    <2>4. pause[x] <= now
      <3>1. ~ (now < pause[x])
        BY <1>1, <2>1 DEF Paused, WakeInv, PausesThrottled
      <3>2. now \in Nat /\ pause[x] \in Nat
        BY <1>1 DEF TypeOK
      <3> QED
        BY <3>1, <3>2
    <2> QED
      BY <2>3, <2>4, WakesInTime DEF WakeInv
  <1>3. CASE ~ \E c \in Above[d] : pause[c] # 0
    <2>1. PICK k \in later[d] : eta[k] <= now
      BY <1>1, <1>3 DEF WakeInv, SettledIsQuiet, Quiet, Due
    <2>2. Asked(d) /\ pause[d] = 0
      BY <1>1, <1>3 DEF Asked
    <2>3. eta[k] \in WakeTimes
      BY <2>1, <2>2 DEF WakeTimes
    <2> QED
      BY <2>1, <2>3, WakesInTime DEF WakeInv
  <1> QED
    BY <1>2, <1>3
(* Wakeups: the etas of the jobs that wait for one.                        *)
LEMMA LaterNotify ==
    ASSUME TypeOK, OneInv, LaterHasEta, NEW j \in Jobs, NEW c \in Channels,
           NEW p \in Priorities, NEW e \in Etas, Notify(j, c, p, e)
    PROVE  LaterHasEta'
  <1> SUFFICES ASSUME NEW d \in Channels, NEW k \in later'[d] PROVE eta'[k] # 0
    BY DEF LaterHasEta
  <1>1. AtOnePlace(j) /\ \A x \in Jobs \ {j} : eta'[x] = eta[x]
    BY DEF OneInv, Notify, SetPending, SetRunning, SetFailed, SetDone, Describe, attributes,
           TypeOK
  <1>2. k \in Jobs
    BY TypeNotify DEF TypeOK
  <1>3. CASE k # j
    <2>1. \/ UNCHANGED places
          \/ \E S, T : \E place \in {"ready", "later", "running", "failed", "nowhere"} :
                Put(j, S, T, place)
      BY DEF Notify, SetPending, SetRunning, SetFailed, SetDone
    <2>2. k \in later[d]
      BY <1>2, <1>3, <2>1, PutEffect DEF places
    <2> QED
      BY <1>1, <1>2, <1>3, <2>2 DEF LaterHasEta
  <1>4. ASSUME k = j, NEW T, NEW place, Put(j, Left(j, c, p, e) \cup Above[c], T, place)
        PROVE  place = "later"
    <2>1. (j \in later[d] /\ d \notin Left(j, c, p, e) \cup Above[c]) \/ place = "later"
      BY <1>4, PutEffect
    <2>2. d \notin Left(j, c, p, e) \cup Above[c] => j \notin later[d]
      BY <1>1, NotifiedLeaves DEF Queue
    <2> QED
      BY <2>1, <2>2
  <1>5. ASSUME k = j, ~ Fresh(j, c, p, e), UNCHANGED places, Describe(j, c, p, e)
        PROVE  eta'[k] # 0
    <2>1. eta[j] = e /\ eta'[j] = e
      BY <1>2, <1>5 DEF Fresh, Changed, Describe, TypeOK
    <2>2. j \in later[d]
      BY <1>5 DEF places
    <2> QED
      BY <1>5, <2>1, <2>2 DEF LaterHasEta
  <1>6. CASE k = j /\ SetPending(j, c, p, e)
    <2>1. CASE ~ Fresh(j, c, p, e) /\ j \in Queue(c)
      BY <1>5, <1>6, <2>1 DEF SetPending
    <2>2. CASE ~ (~ Fresh(j, c, p, e) /\ j \in Queue(c))
      <3>1. /\ eta'[j] = e
            /\ Put(j, Left(j, c, p, e) \cup Above[c], {c}, IF e # 0 THEN "later" ELSE "ready")
        BY <1>2, <1>6, <2>2 DEF SetPending, Describe, TypeOK
      <3>2. e # 0
        BY <1>4, <1>6, <3>1
      <3> QED
        BY <1>6, <3>1, <3>2
    <2> QED
      BY <2>1, <2>2
  <1>7. CASE k = j /\ SetFailed(j, c, p, e)
    <2>1. CASE ~ Fresh(j, c, p, e) /\ j \in failed[c]
      BY <1>5, <1>7, <2>1 DEF SetFailed
    <2>2. CASE ~ (~ Fresh(j, c, p, e) /\ j \in failed[c])
      BY <1>4, <1>7, <2>2 DEF SetFailed
    <2> QED
      BY <2>1, <2>2
  <1>8. CASE k = j /\ SetDone(j, c, p, e)
    BY <1>4, <1>8 DEF SetDone
  <1>9. CASE k = j /\ MayRun(j, c) /\ SetRunning(j, c, p, e)
    <2>1. CASE Fresh(j, c, p, e)
      <3>1. {x \in Above[c] : Fresh(j, c, p, e)
                \/ \A b \in Above[c] : x \in Above[b] => j \notin running[b]} = Above[c]
        BY <2>1
      <3> QED
        BY <1>4, <1>9, <3>1 DEF SetRunning
    <2>2. CASE ~ Fresh(j, c, p, e)
      <3>1. Put(j, {}, {}, "running")
        BY <1>1, <1>9, <2>2, RunningAgain
      <3>2. j \in later[d]
        BY <1>9, <3>1, PutEffect
      <3>3. eta[j] = e /\ eta'[j] = e
        BY <1>2, <1>9, <2>2 DEF SetRunning, Fresh, Changed, Describe, TypeOK
      <3> QED
        BY <1>9, <3>2, <3>3 DEF LaterHasEta
    <2> QED
      BY <2>1, <2>2
  <1> QED
    BY <1>3, <1>6, <1>7, <1>8, <1>9 DEF Notify

LEMMA LaterNext == TypeOK /\ OneInv /\ LaterHasEta /\ [Next]_vars => LaterHasEta'
  <1> SUFFICES ASSUME TypeOK, OneInv, LaterHasEta, [Next]_vars PROVE LaterHasEta'
    OBVIOUS
  <1>1. ASSUME NEW j \in Jobs, RemoveJob(j) PROVE LaterHasEta'
    BY <1>1 DEF RemoveJob, Put, Moved, attributes, LaterHasEta
  <1>2. CASE RemoveDb
    BY <1>2 DEF RemoveDb, Nowhere, LaterHasEta
  <1>3. ASSUME NEW c \in Channels, ForgetEtas(c), \A d \in Channels \ {c} : later'[d] = later[d],
               later'[c] = NotDue(c)
        PROVE  LaterHasEta'
    <2>1. ASSUME NEW d \in Channels, NEW j \in later'[d] PROVE eta'[j] # 0
      <3>1. CASE d # c
        BY <1>3, <2>1, <3>1, DueElsewhere DEF LaterHasEta
      <3>2. CASE d = c
        <4>1. j \in later[c] /\ j \notin Due(c) /\ j \in Jobs
          BY <1>3, <2>1, <3>2 DEF NotDue, TypeOK
        <4> QED
          BY <1>3, <4>1 DEF ForgetEtas, LaterHasEta
      <3> QED
        BY <3>1, <3>2
    <2> QED
      BY <2>1 DEF LaterHasEta
  <1>4. ASSUME NEW c \in Channels, Exhausted(c) \/ \E j \in Jobs : Yield(c, j) PROVE LaterHasEta'
    BY <1>3, <1>4 DEF Exhausted, Yield, TypeOK
  <1>5. CASE UNCHANGED vars \/ Begin \/ End \/ Tick \/ \E c \in Channels : Enter(c) \/ Full(c)
    BY <1>5 DEF vars, attributes, places, Begin, End, Tick, Enter, Full, LaterHasEta
  <1> QED
    BY <1>1, <1>2, <1>4, <1>5, LaterNotify DEF Next

(* Wakeups: who pauses.                                                    *)
LEMMA PausesNext == TypeOK /\ PausesThrottled /\ [Next]_vars => PausesThrottled'
  BY DEF Next, Notify, RemoveJob, RemoveDb, Begin, End, Tick, Enter, Exhausted, Full, Yield, vars,
         PausesThrottled, TypeOK

(* Wakeups: the clock uncovers no job but the due ones.                    *)
LEMMA QuietTick ==
    ASSUME TypeOK, NEW d \in Channels, Quiet(d), Tick
    PROVE  Quiet(d)'
  <1>1. UNCHANGED <<chan, prio, eta, ready, later, running, failed, pause>> /\ now' = now + 1
    BY DEF Tick, attributes, places
  <1>2. Due(d) \subseteq Due(d)'
    <2>1. now \in Nat /\ \A j \in later[d] : eta[j] \in Nat
      BY EtasNatural DEF TypeOK
    <2> QED
      BY <1>1, <2>1 DEF Due
  <1>3. CASE Due(d)' # {}
    BY <1>3 DEF Quiet
  <1>4. CASE Due(d)' = {} /\ \A j \in Jobs : ~ Pops(d, j)
    <2>1. Due(d)' = Due(d)
      BY <1>2, <1>4
    <2>2. Contenders(d)' = Contenders(d) /\ NotDue(d)' = NotDue(d)
      BY <1>1, <2>1 DEF Contenders, NotDue
    <2>3. \A j, k : Before(j, k)' <=> Before(j, k)
      BY <1>1 DEF Before
    <2>4. \A j, k : EtaBefore(j, k)' <=> EtaBefore(j, k)
      BY <1>1, <2>3 DEF EtaBefore
    <2>5. \A j \in Jobs : Pops(d, j)' <=> Pops(d, j)
      BY <2>2, <2>3, <2>4 DEF Pops, Waits
    <2> QED
      BY <1>4, <2>5 DEF Quiet
  <1>5. CASE \E c \in Above[d] : ~ HasCapacity(c) \/ pause[c] # 0
    BY <1>1, <1>5 DEF Quiet, HasCapacity
  <1> QED
    BY <1>2, <1>3, <1>4, <1>5 DEF Quiet

(* Wakeups: after a pass, and until something is notified.                 *)
LEMMA QuietNext ==
    ASSUME TypeOK, PassIsComplete, SettledIsQuiet, [Next]_vars
    PROVE  SettledIsQuiet'
  <1>1. CASE End
    <2>1. Idle'
      BY <1>1 DEF End, Idle
    <2>2. ASSUME NEW d \in Channels PROVE Quiet(d)
      BY <1>1 DEF End, PassIsComplete, Movable, OpenAt, Paused, Quiet
    <2>3. \A d \in Channels : Quiet(d)'
      BY <1>1, <2>2
         DEF End, attributes, places, Quiet, HasCapacity, Due, Pops, Contenders, Waits, NotDue,
             Before, EtaBefore
    <2> QED
      BY <2>1, <2>3 DEF SettledIsQuiet
  <1>2. CASE Tick
    <2>1. Idle' /\ settled' = settled
      BY <1>2 DEF Tick, Idle
    <2> QED
      BY <1>2, <2>1, QuietTick DEF SettledIsQuiet
  <1>3. CASE UNCHANGED vars
    BY <1>3
       DEF vars, attributes, places, SettledIsQuiet, Idle, Quiet, HasCapacity, Due, Pops,
           Contenders, Waits, NotDue, Before, EtaBefore
  <1>4. ASSUME NEW c \in Channels,
               Enter(c) \/ Exhausted(c) \/ Full(c) \/ \E j \in Jobs : Yield(c, j)
        PROVE  SettledIsQuiet'
    <2>1. settled' = settled /\ ~ Idle
      BY <1>4 DEF Enter, Exhausted, Full, Yield, Idle
    <2> QED
      BY <2>1 DEF SettledIsQuiet
  <1>5. CASE \/ Begin \/ RemoveDb \/ \E j \in Jobs : RemoveJob(j)
             \/ \E j \in Jobs, c \in Channels, p \in Priorities, e \in Etas : Notify(j, c, p, e)
    <2>1. settled' = FALSE
      BY <1>5 DEF Begin, RemoveDb, RemoveJob, Notify
    <2> QED
      BY <2>1 DEF SettledIsQuiet
  <1> QED
    BY <1>1, <1>2, <1>3, <1>4, <1>5 DEF Next

LEMMA WakeInit == Init => WakeInv
  BY DEF Init, Nowhere, WakeInv, SettledIsQuiet, PausesThrottled, LaterHasEta

(* No job becomes ready to run while the runner sleeps until the time that *)
(* get_wakeup_time has told it.                                            *)
THEOREM WakesUp == Spec => []NoMissedWakeup
  <1>1. TypeOK /\ OneInv /\ PassIsComplete /\ WakeInv /\ [Next]_vars => WakeInv'
    BY LaterNext, PausesNext, QuietNext DEF WakeInv
  <1> QED
    BY <1>1, OneInit, WakeInit, TypeCorrect, OneNext, PassCompletes, WakeupNotMissed, PTL
       DEF Spec
=============================================================================
