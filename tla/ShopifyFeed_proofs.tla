-------------------------- MODULE ShopifyFeed_proofs --------------------------
(***************************************************************************)
(* Theorems about module ShopifyFeed, for any number of workers and of     *)
(* ids, and however many requests come and faults happen.                  *)
(***************************************************************************)
EXTENDS ShopifyFeed, FiniteSetTheorems, WellFoundedInduction, TLAPS

-----------------------------------------------------------------------------
(* Rows.                                                                   *)

(* The greatest of finitely many ids is one of them.                       *)
LEMMA GreatestId ==
    ASSUME NEW S \in SUBSET Nat, IsFiniteSet(S), S # {}
    PROVE  Max(S) \in S
  <1> DEFINE R == OpToRel(<, Nat)
             n(x) == Cardinality({y \in S : y > x})
             Sizes == {n(x) : x \in S}
  <1>1. \A x \in S : n(x) \in Nat
    BY FS_Subset, FS_CardinalityType
  <1>2. PICK m \in Sizes : \A k \in Sizes : ~ (<<k, m>> \in R)
    <2>1. Sizes \subseteq Nat /\ Sizes # {}
      BY <1>1
    <2> HIDE DEF Sizes
    <2> QED
      BY <2>1, NatLessThanWellFounded, WFMin
  <1>3. PICK x \in S : m = n(x)
    BY <1>2
  <1>4. ASSUME NEW y \in S, ~ (x >= y) PROVE FALSE
    <2>1. x \in Nat /\ y \in Nat /\ y > x
      BY <1>4
    <2>2. {z \in S : z > y} \subseteq {z \in S : z > x} \ {y}
      <3> SUFFICES ASSUME NEW z \in S, z > y PROVE z > x /\ z # y
        OBVIOUS
      <3>1. z \in Nat
        OBVIOUS
      <3> QED
        BY <2>1, <3>1
    <2>3. IsFiniteSet({z \in S : z > x}) /\ y \in {z \in S : z > x}
      BY <2>1, FS_Subset
    <2>4. /\ IsFiniteSet({z \in S : z > x} \ {y})
          /\ Cardinality({z \in S : z > x} \ {y}) = n(x) - 1
      BY <2>3, FS_RemoveElement
    <2>5. n(y) <= n(x) - 1
      BY <2>2, <2>4, FS_Subset
    <2>6. n(y) \in Nat /\ n(x) \in Nat /\ n(y) < n(x)
      BY <1>1, <2>5
    <2>7. <<n(y), n(x)>> \in R
      BY <2>6 DEF OpToRel
    <2> QED
      BY <1>2, <1>3, <2>7
  <1>5. \E z \in S : \A y \in S : z >= y
    BY <1>4
  <1> QED
    BY <1>5 DEF Max

(* What a search with limit=1 returns.                                     *)
LEMMA LatestFound ==
    ASSUME NEW S, S \in SUBSET Feeds \/ S \in SUBSET Orders
    PROVE  /\ Latest(S) = None <=> S = {}
           /\ S # {} => Latest(S) \in S
  <1>1. S \in SUBSET Nat /\ IsFiniteSet(S) /\ None \notin S
    BY IdsAssumption, FS_Subset
  <1>2. CASE S = {}
    BY <1>2 DEF Latest
  <1>3. CASE S # {}
    <2>1. Max(S) \in S
      BY <1>1, <1>3, GreatestId
    <2> QED
      BY <1>1, <1>3, <2>1 DEF Latest
  <1> QED
    BY <1>2, <1>3
-----------------------------------------------------------------------------
(* Types.                                                                  *)

StaleRows == (Feeds \X {"feed"}) \cup (Orders \X {"order"})
States    == {"draft", "processed", "failed"}
Points    == {"idle", "ready", "found"} \cup InTransaction

(* The blank snapshot is one.                                              *)
LEMMA BlankTyped ==
    /\ Blank \in Snapshots /\ Rows(Blank.feed) = {} /\ Placed(Blank.order) = {}
    /\ Blank.feed = [f \in Feeds |-> None] /\ Blank.order = [o \in Orders |-> "none"]
  BY DEF Blank, Snapshots, Rows, Placed

(* A record is a row of the database.                                      *)
LEMMA RowIsThere ==
    /\ \A row \in FeedRow : row # None
    /\ \A fs \in [Feeds -> FeedRow \cup {None}] : \A f \in Rows(fs) : f \in Feeds /\ fs[f] \in FeedRow
    /\ \A row \in FeedRow : row.data \in Stages /\ row.state \in States
  BY IdsAssumption DEF FeedRow, Rows, States

LEMMA StateSet ==
    ASSUME NEW row \in FeedRow, NEW s \in States
    PROVE  /\ [row EXCEPT !.state = s] \in FeedRow /\ [row EXCEPT !.state = s] # None
           /\ [row EXCEPT !.state = s].data = row.data /\ [row EXCEPT !.state = s].state = s
  BY IdsAssumption DEF FeedRow, States

(* The snapshot of a new transaction: what is committed, with at most one  *)
(* row of the old snapshot.                                                *)
LEMMA BeginEffect ==
    ASSUME TypeOK, NEW p \in Procs, Begin(p), Rows(snap[p].feed) \subseteq Rows(feed)
    PROVE  /\ snap' \in [Procs -> Snapshots] /\ \A q \in Procs \ {p} : snap'[q] = snap[q]
           /\ stale' \in [Procs -> SUBSET StaleRows]
           /\ snap'[p].order = order /\ Rows(snap'[p].feed) = Rows(feed)
           /\ \A f \in Rows(feed) : \/ snap'[p].feed[f] = feed[f]
                                    \/ f \in Rows(snap[p].feed) /\ snap'[p].feed[f] = snap[p].feed[f]
  <1>1. /\ stale' \in [Procs -> SUBSET StaleRows]
        /\ snap[p] \in Snapshots /\ Committed \in Snapshots
        /\ Committed.order = order /\ Committed.feed = feed
        /\ feed \in [Feeds -> FeedRow \cup {None}] /\ snap[p].feed \in [Feeds -> FeedRow \cup {None}]
    BY DEF Begin, TypeOK, StaleRows, Committed, Snapshots
  <1>2. CASE snap' = [snap EXCEPT ![p] = Committed]
    BY <1>1, <1>2 DEF TypeOK
  <1>3. ASSUME NEW f \in Rows(snap[p].feed),
               snap' = [snap EXCEPT ![p] = [Committed EXCEPT !.feed[f] = snap[p].feed[f]]]
        PROVE  /\ snap' \in [Procs -> Snapshots] /\ \A q \in Procs \ {p} : snap'[q] = snap[q]
               /\ snap'[p].order = order
               /\ snap'[p].feed = [feed EXCEPT ![f] = snap[p].feed[f]]
    <2> DEFINE new == [Committed EXCEPT !.feed[f] = snap[p].feed[f]]
    <2>1. snap[p].feed[f] \in FeedRow
      BY <1>1, RowIsThere
    <2>2. new = [Committed EXCEPT !.feed = [feed EXCEPT ![f] = snap[p].feed[f]]]
      BY <1>1
    <2>3. new \in Snapshots /\ new.order = order /\ new.feed = [feed EXCEPT ![f] = snap[p].feed[f]]
      BY <1>1, <2>1, <2>2 DEF Snapshots
    <2> QED
      BY <1>3, <2>3 DEF TypeOK
  <1>4. ASSUME NEW f \in Rows(snap[p].feed),
               snap' = [snap EXCEPT ![p] = [Committed EXCEPT !.feed[f] = snap[p].feed[f]]]
        PROVE  /\ Rows(snap'[p].feed) = Rows(feed)
               /\ \A g \in Rows(feed) :
                     \/ snap'[p].feed[g] = feed[g]
                     \/ g \in Rows(snap[p].feed) /\ snap'[p].feed[g] = snap[p].feed[g]
    <2>1. snap'[p].feed = [feed EXCEPT ![f] = snap[p].feed[f]]
      BY <1>3, <1>4
    <2>2. f \in Feeds /\ feed[f] # None /\ snap[p].feed[f] # None
      BY DEF Rows
    <2>3. \A g \in Feeds : snap'[p].feed[g] = IF g = f THEN snap[p].feed[f] ELSE feed[g]
      BY <1>1, <2>1, <2>2
    <2> QED
      BY <2>2, <2>3 DEF Rows
  <1> QED
    BY <1>1, <1>2, <1>3, <1>4 DEF Begin

(* Between two transactions.                                               *)
LEMMA CacheEffect ==
    ASSUME TypeOK, NEW p \in Procs, NEW f \in Feeds, NEW row \in FeedRow, Cache(p, f, row)
    PROVE  /\ snap' \in [Procs -> Snapshots] /\ \A q \in Procs \ {p} : snap'[q] = snap[q]
           /\ Rows(snap'[p].feed) = {f} /\ snap'[p].feed[f] = row
           /\ Placed(snap'[p].order) = {}
  <1> DEFINE new == [Blank EXCEPT !.feed[f] = row]
  <1>1. /\ new \in Snapshots /\ new.order = Blank.order
        /\ new.feed = [[g \in Feeds |-> None] EXCEPT ![f] = row]
    BY BlankTyped DEF Snapshots, Blank
  <1>2. row # None
    BY RowIsThere
  <1>3. Rows(new.feed) = {f} /\ new.feed[f] = row
    BY <1>1, <1>2 DEF Rows
  <1>4. snap' = [snap EXCEPT ![p] = new]
    BY DEF Cache
  <1> QED
    BY <1>1, <1>3, <1>4, BlankTyped DEF TypeOK

LEMMA StaleTyped ==
    ASSUME TypeOK, NEW p, NEW U \in SUBSET StaleRows, Commit(p, U)
    PROVE  stale' \in [Procs -> SUBSET StaleRows]
  BY DEF TypeOK, Commit, StaleRows
(* The effect on the row that a request writes.                            *)
StateIs(s) ==
    /\ feed' \in [Feeds -> FeedRow \cup {None}]
    /\ Rows(feed') = Rows(feed)
    /\ \A f \in Rows(feed) : /\ feed'[f].data = feed[f].data
                             /\ feed'[f].state \in {feed[f].state, s}

LEMMA SaveEffect ==
    ASSUME TypeOK, NEW p \in Procs, NEW s \in States, mine[p] \in Rows(feed),
           SetFeedState(p, s) \/ SaveState(p, s) \/ feed' = feed
    PROVE  StateIs(s) /\ (SetFeedState(p, s) => feed'[mine[p]].state = s)
  <1>1. feed \in [Feeds -> FeedRow \cup {None}] /\ mine[p] \in Feeds /\ feed[mine[p]] \in FeedRow
    BY RowIsThere DEF TypeOK, Committed, Snapshots, Rows
  <1>2. ASSUME feed' = feed PROVE StateIs(s)
    BY <1>1, <1>2 DEF StateIs
  <1>3. ASSUME SetFeedState(p, s) PROVE StateIs(s)
    <2> DEFINE row == [feed[mine[p]] EXCEPT !.state = s]
    <2>1. feed' = [feed EXCEPT ![mine[p]] = row]
      BY <1>3 DEF SetFeedState
    <2>2. row \in FeedRow /\ row.data = feed[mine[p]].data /\ row.state = s /\ row # None
      BY <1>1, StateSet
    <2> HIDE DEF row
    <2> QED
      BY <1>1, <2>1, <2>2 DEF StateIs, Rows
  <1> QED
    <2>1. SetFeedState(p, s) => feed'[mine[p]].state = s
      <3> SUFFICES ASSUME SetFeedState(p, s) PROVE feed'[mine[p]].state = s
        OBVIOUS
      <3>1. feed' = [feed EXCEPT ![mine[p]] = [feed[mine[p]] EXCEPT !.state = s]]
        BY DEF SetFeedState
      <3>2. [feed[mine[p]] EXCEPT !.state = s].state = s
        BY <1>1, StateSet
      <3> QED
        BY <1>1, <3>1, <3>2
    <2> QED
      BY <1>2, <1>3, <2>1 DEF SaveState

(* What the other processes hold.                                          *)
OthersKept(p) ==
    \A q \in Procs \ {p} : /\ pc'[q] = pc[q] /\ snap'[q] = snap[q] /\ msg'[q] = msg[q]
                           /\ mine'[q] = mine[q]

(* The local variables, as a whole.                                        *)
LocalsTyped ==
    /\ pc \in [Procs -> Points]
    /\ kind \in [Procs -> {"webhook", "wizard", "button"}]
    /\ msg \in [Procs -> Stages]
    /\ mine \in [Procs -> Feeds \cup {None}]
    /\ again \in [Procs -> BOOLEAN] /\ created \in [Procs -> BOOLEAN]
    /\ snap \in [Procs -> Snapshots]
    /\ stale \in [Procs -> SUBSET StaleRows]

LEMMA TypesOf ==
    TypeOK <=> /\ shop \in Stages /\ raced \in BOOLEAN /\ LocalsTyped
               /\ feed \in [Feeds -> FeedRow \cup {None}]
               /\ order \in [Orders -> {"none", "draft", "sale", "cancel"}]
               /\ customers \in SUBSET Customers
  BY DEF TypeOK, LocalsTyped, Points, StaleRows, Committed, Snapshots

LEMMA TypesNext ==
    ASSUME shop' \in Stages, raced' \in BOOLEAN, LocalsTyped',
           feed' \in [Feeds -> FeedRow \cup {None}],
           order' \in [Orders -> {"none", "draft", "sale", "cancel"}],
           customers' \in SUBSET Customers
    PROVE  TypeOK'
  BY DEF TypeOK, LocalsTyped, Points, StaleRows, Committed, Snapshots

(* A request that has ended.                                               *)
LEMMA EndEffect ==
    ASSUME TypeOK, NEW p \in Procs, Goto(p, "idle"), Forget(p),
           stale' \in [Procs -> SUBSET StaleRows]
    PROVE  /\ LocalsTyped' /\ OthersKept(p)
           /\ pc'[p] = "idle" /\ mine'[p] = None /\ msg'[p] = 0
           /\ Rows(snap'[p].feed) = {} /\ Placed(snap'[p].order) = {}
  <1>1. LocalsTyped
    BY TypesOf
  <1>2. pc' \in [Procs -> Points] /\ kind' \in [Procs -> {"webhook", "wizard", "button"}]
    BY <1>1 DEF LocalsTyped, Goto, Forget, Points
  <1>3. msg' \in [Procs -> Stages] /\ mine' \in [Procs -> Feeds \cup {None}]
    BY <1>1 DEF LocalsTyped, Forget, DropMsg, Stages
  <1>4. again' \in [Procs -> BOOLEAN] /\ created' \in [Procs -> BOOLEAN]
    BY <1>1 DEF LocalsTyped, Forget
  <1>5. snap' \in [Procs -> Snapshots] /\ snap'[p] = Blank
    BY <1>1, BlankTyped DEF LocalsTyped, Forget
  <1>6. OthersKept(p) /\ pc'[p] = "idle" /\ mine'[p] = None /\ msg'[p] = 0
    BY <1>1 DEF LocalsTyped, Goto, Forget, DropMsg, OthersKept
  <1> QED
    BY <1>2, <1>3, <1>4, <1>5, <1>6, BlankTyped DEF LocalsTyped

(* process_feed_order returns after its commit.                            *)
LEMMA ReturnEffect ==
    ASSUME TypeOK, NEW p \in Procs, NEW s \in States, mine[p] \in Rows(snap[p].feed),
           Return(p, s), stale' \in [Procs -> SUBSET StaleRows]
    PROVE  /\ LocalsTyped' /\ OthersKept(p)
           /\ pc'[p] \in {"idle", "ready"} /\ mine'[p] \in {mine[p], None} /\ msg'[p] = 0
           /\ Rows(snap'[p].feed) \subseteq {mine[p]} /\ Placed(snap'[p].order) = {}
           /\ \A f \in Rows(snap'[p].feed) : snap'[p].feed[f].data = snap[p].feed[f].data
  <1>1. CASE ~ again[p]
    <2>1. Goto(p, "idle") /\ Forget(p)
      BY <1>1 DEF Return
    <2> QED
      BY <2>1, EndEffect
  <1>2. CASE again[p]
    <2> DEFINE row == [snap[p].feed[mine[p]] EXCEPT !.state = s]
    <2>1. snap[p].feed[mine[p]] \in FeedRow /\ mine[p] \in Feeds
      BY RowIsThere DEF TypeOK, Snapshots, Rows
    <2>2. row \in FeedRow /\ row.data = snap[p].feed[mine[p]].data
      BY <2>1, StateSet
    <2>3. Cache(p, mine[p], row)
      BY <1>2 DEF Return
    <2> HIDE DEF row
    <2>4. /\ snap' \in [Procs -> Snapshots] /\ \A q \in Procs \ {p} : snap'[q] = snap[q]
          /\ Rows(snap'[p].feed) = {mine[p]} /\ snap'[p].feed[mine[p]] = row
          /\ Placed(snap'[p].order) = {}
      BY <2>1, <2>2, <2>3, CacheEffect
    <2>5. LocalsTyped /\ Goto(p, "ready") /\ DropMsg(p) /\ UNCHANGED <<kind, mine, created>>
          /\ again' = [again EXCEPT ![p] = FALSE]
      BY <1>2, TypesOf DEF Return
    <2>6. /\ pc' \in [Procs -> Points] /\ pc'[p] = "ready"
          /\ msg' \in [Procs -> Stages] /\ msg'[p] = 0 /\ mine'[p] = mine[p]
          /\ OthersKept(p)
      BY <2>4, <2>5 DEF Goto, DropMsg, LocalsTyped, OthersKept, Points, Stages
    <2>7. again' \in [Procs -> BOOLEAN]
      BY <2>5 DEF LocalsTyped
    <2>8. LocalsTyped'
      BY <2>4, <2>5, <2>6, <2>7 DEF LocalsTyped
    <2> QED
      BY <2>2, <2>4, <2>6, <2>8
  <1> QED
    BY <1>1, <1>2
(* process_feed_order returns before its commit.                           *)
LEMMA ReturnEarlyEffect ==
    ASSUME TypeOK, NEW p \in Procs, NEW s \in States, NEW R \in SUBSET StaleRows,
           mine[p] \in Rows(snap[p].feed), mine[p] \in Rows(feed), ReturnEarly(p, s, R)
    PROVE  /\ LocalsTyped' /\ OthersKept(p) /\ StateIs(s)
           /\ pc'[p] \in {"idle", "ready", "check", "recheck"}
           /\ mine'[p] \in {mine[p], None} /\ msg'[p] = 0
           /\ Rows(snap'[p].feed) \subseteq Rows(snap[p].feed)
           /\ Placed(snap'[p].order) \subseteq Placed(snap[p].order)
           /\ \A f \in Rows(snap'[p].feed) : snap'[p].feed[f].data = snap[p].feed[f].data
           /\ pc'[p] \in {"check", "recheck"} => /\ mine'[p] \in Rows(snap'[p].feed)
                                                 /\ snap'[p].order = snap[p].order
           /\ pc'[p] = "recheck" => StateUpdate(p, s) # {}
           /\ StateUpdate(p, s) = {} => feed' = feed
  <1>1. mine[p] \in Feeds /\ snap[p].feed[mine[p]] \in FeedRow /\ snap[p] \in Snapshots
    BY RowIsThere DEF TypeOK, Snapshots, Rows
  <1>2. CASE again[p] /\ ~ created[p]
    <2> DEFINE l == IF StateUpdate(p, s) = {} THEN "check" ELSE "recheck"
               row == [snap[p].feed[mine[p]] EXCEPT !.state = s]
               new == [snap[p] EXCEPT !.feed = [snap[p].feed EXCEPT ![mine[p]] = row]]
    <2>1. /\ LocalsTyped /\ pc' = [pc EXCEPT ![p] = l] /\ again' = [again EXCEPT ![p] = FALSE]
          /\ msg' = [msg EXCEPT ![p] = 0] /\ UNCHANGED <<feed, kind, mine, created, stale>>
          /\ snap' = [snap EXCEPT ![p] = new]
      BY <1>2, TypesOf DEF ReturnEarly, Goto, DropMsg
    <2>2. /\ row \in FeedRow /\ row.data = snap[p].feed[mine[p]].data /\ row # None
          /\ l \in {"check", "recheck"} /\ (l = "recheck" => StateUpdate(p, s) # {})
      BY <1>1, StateSet
    <2> HIDE DEF row, l
    <2>3. /\ new \in Snapshots /\ new.order = snap[p].order
          /\ new.feed = [snap[p].feed EXCEPT ![mine[p]] = row]
      BY <1>1, <2>2 DEF Snapshots
    <2>4. /\ Rows(new.feed) = Rows(snap[p].feed)
          /\ \A f \in Rows(new.feed) : new.feed[f].data = snap[p].feed[f].data
      BY <1>1, <2>2, <2>3 DEF Snapshots, Rows
    <2> HIDE DEF new
    <2>5. /\ pc' \in [Procs -> Points] /\ pc'[p] = l /\ msg' \in [Procs -> Stages] /\ msg'[p] = 0
          /\ snap' \in [Procs -> Snapshots] /\ snap'[p] = new /\ OthersKept(p)
      BY <2>1, <2>2, <2>3 DEF LocalsTyped, OthersKept, Points, InTransaction, Stages
    <2>6. again' \in [Procs -> BOOLEAN]
      BY <2>1 DEF LocalsTyped
    <2>7. LocalsTyped'
      BY <2>1, <2>5, <2>6 DEF LocalsTyped
    <2>8. StateIs(s)
      BY <2>1, SaveEffect
    <2> QED
      BY <2>1, <2>2, <2>3, <2>4, <2>5, <2>7, <2>8
  <1>3. CASE ~ (again[p] /\ ~ created[p])
    <2> DEFINE U == R \cup StateUpdate(p, s)
    <2>1. SaveState(p, s) /\ Commit(p, U) /\ Return(p, s)
      BY <1>3 DEF ReturnEarly
    <2>2. U \in SUBSET StaleRows
      BY <1>1 DEF StateUpdate, FeedRowOf, StaleRows
    <2>3. stale' \in [Procs -> SUBSET StaleRows]
      BY <2>1, <2>2, StaleTyped
    <2>4. StateIs(s)
      BY <2>1, SaveEffect
    <2>5. StateUpdate(p, s) = {} => feed' = feed
      BY <2>1 DEF SaveState
    <2> HIDE DEF U
    <2>6. /\ LocalsTyped' /\ OthersKept(p)
          /\ pc'[p] \in {"idle", "ready"} /\ mine'[p] \in {mine[p], None} /\ msg'[p] = 0
          /\ Rows(snap'[p].feed) \subseteq {mine[p]} /\ Placed(snap'[p].order) = {}
          /\ \A f \in Rows(snap'[p].feed) : snap'[p].feed[f].data = snap[p].feed[f].data
      BY <2>1, <2>3, ReturnEffect
    <2> QED
      BY <2>4, <2>5, <2>6
  <1> QED
    BY <1>2, <1>3

-----------------------------------------------------------------------------
(* Payloads are events that have happened, and rows stay.                  *)

(* What a process holds: rows that were committed, the payload of an event *)
(* that has happened, and a confirmed one if it makes a sale order of it.  *)
LocalInv(p) ==
    /\ Rows(snap[p].feed) \subseteq Rows(feed) /\ Placed(snap[p].order) \subseteq Placed(order)
    /\ mine[p] # None => mine[p] \in Rows(feed)
    /\ pc[p] \in {"check", "recheck", "found", "create"} => mine[p] \in Rows(snap[p].feed)
    /\ msg[p] <= shop
    /\ pc[p] \in {"found", "create"} => Confirmed(msg[p])
    /\ \A f \in Rows(snap[p].feed) : snap[p].feed[f].data <= shop

FeedsHappened == \A f \in Rows(feed) : feed[f].data <= shop

FeedInv == TypeOK /\ (\A p \in Procs : LocalInv(p)) /\ FeedsHappened /\ ConfirmedOnly

(* A step of p that keeps the invariant for what p holds, and the rows.    *)
StepOK(p) ==
    /\ TypeOK' /\ LocalInv(p)' /\ OthersKept(p) /\ shop' = shop
    /\ Rows(feed) \subseteq Rows(feed') /\ Placed(order) \subseteq Placed(order')
    /\ FeedsHappened' /\ ConfirmedOnly'

LEMMA StepKeeps ==
    ASSUME FeedInv, NEW p \in Procs, StepOK(p)
    PROVE  FeedInv'
  <1>1. ASSUME NEW q \in Procs \ {p} PROVE LocalInv(q)'
    BY DEF StepOK, OthersKept, FeedInv, LocalInv
  <1> QED
    BY <1>1 DEF StepOK, FeedInv

(* At most one request was busy at a time before there was a sale order.   *)
RaceLocal(p) ==
    /\ pc[p] \in {"found", "create"} => Placed(order) = {}
    /\ pc[p] \in {"check", "recheck"} /\ Placed(snap[p].order) = {} => Placed(order) = {}
    /\ pc[p] = "recheck" => Placed(snap[p].order) = {}
    /\ pc[p] = "feed" /\ Rows(snap[p].feed) = {} => Rows(feed) = {}

Alone == Placed(order) = {} => \A p, q \in Procs : pc[p] # "idle" /\ pc[q] # "idle" => p = q

RaceGlobal ==
    /\ \A o1, o2 \in Placed(order) : o1 = o2
    /\ \A f, g \in Rows(feed) : f = g
    /\ \A f \in Rows(feed) : /\ feed[f].state = "failed" => Placed(order) = {}
                             /\ Placed(order) # {} => feed[f].state = "processed"
    /\ Placed(order) # {} => Rows(feed) # {}

RaceInv == ~ raced => Alone /\ RaceGlobal /\ \A p \in Procs : RaceLocal(p)

LEMMA RaceKept ==
    ASSUME RaceInv, ~ raced, NEW p \in Procs, pc[p] # "idle", OthersKept(p), RaceLocal(p)', RaceGlobal',
           \/ Placed(order') = Placed(order) /\ Rows(feed') = Rows(feed)
           \/ Placed(order) = {}
    PROVE  RaceInv'
  <1>1. ASSUME NEW q \in Procs \ {p} PROVE RaceLocal(q)'
    <2>1. CASE Placed(order) = {}
      <3>1. pc'[q] = "idle"
        BY <2>1 DEF RaceInv, Alone, OthersKept
      <3> QED
        BY <3>1 DEF RaceLocal
    <2>2. CASE Placed(order') = Placed(order) /\ Rows(feed') = Rows(feed)
      BY <2>2 DEF RaceInv, RaceLocal, OthersKept
    <2> QED
      BY <2>1, <2>2
  <1>2. Alone'
    <2> SUFFICES ASSUME Placed(order') = {}, NEW q \in Procs, NEW r \in Procs,
                        pc'[q] # "idle", pc'[r] # "idle"
                 PROVE  q = r
      BY DEF Alone
    <2>1. Placed(order) = {}
      OBVIOUS
    <2>2. \A x \in Procs : pc[x] # "idle" => x = p
      BY <2>1 DEF RaceInv, Alone
    <2> QED
      BY <2>2 DEF OthersKept
  <1> QED
    BY <1>1, <1>2 DEF RaceInv
-----------------------------------------------------------------------------
(* Every step keeps the invariant.                                         *)

IInv == FeedInv /\ RaceInv

(* A step of a busy process.                                               *)
LEMMA BusyStep ==
    ASSUME IInv, NEW p \in Procs, StepOK(p), pc[p] # "idle", raced' = raced,
           ~ raced => /\ RaceLocal(p)' /\ RaceGlobal'
                      /\ \/ Placed(order') = Placed(order) /\ Rows(feed') = Rows(feed)
                         \/ Placed(order) = {}
    PROVE  IInv'
  <1>1. CASE raced
    BY <1>1, StepKeeps DEF IInv, RaceInv
  <1>2. CASE ~ raced
    <2>1. RaceInv'
      BY <1>2, RaceKept DEF IInv, StepOK
    <2> QED
      BY <2>1, StepKeeps DEF IInv
  <1> QED
    BY <1>1, <1>2

(* A step that leaves the database alone.                                  *)
LEMMA QuietStep ==
    ASSUME IInv, NEW p \in Procs, UNCHANGED <<shop, database, raced>>, LocalsTyped', OthersKept(p),
           LocalInv(p)', RaceLocal(p)' \/ raced, pc[p] # "idle"
    PROVE  IInv'
  <1>1. TypeOK'
    <2>1. /\ shop \in Stages /\ raced \in BOOLEAN
          /\ feed \in [Feeds -> FeedRow \cup {None}]
          /\ order \in [Orders -> {"none", "draft", "sale", "cancel"}]
          /\ customers \in SUBSET Customers
      BY TypesOf DEF IInv, FeedInv
    <2> QED
      BY <2>1, TypesNext DEF database
  <1>2. StepOK(p)
    BY <1>1 DEF IInv, FeedInv, StepOK, FeedsHappened, ConfirmedOnly, database
  <1>3. ~ raced => RaceGlobal'
    BY DEF IInv, RaceInv, RaceGlobal, database
  <1> QED
    BY <1>2, <1>3, BusyStep DEF database

(* The next transaction.                                                   *)
LEMMA ResumeKeeps ==
    ASSUME IInv, NEW p \in Procs, Resume(p)
    PROVE  IInv'
  <1>1. /\ TypeOK /\ LocalsTyped /\ LocalInv(p) /\ UNCHANGED <<shop, database, locals, raced>>
        /\ feed' = feed /\ order' = order /\ mine' = mine /\ msg' = msg /\ pc[p] # "idle"
        /\ feed \in [Feeds -> FeedRow \cup {None}]
    BY TypesOf DEF IInv, FeedInv, Resume, database, locals
  <1>2. /\ snap' \in [Procs -> Snapshots] /\ \A q \in Procs \ {p} : snap'[q] = snap[q]
        /\ stale' \in [Procs -> SUBSET StaleRows]
        /\ snap'[p].order = order /\ Rows(snap'[p].feed) = Rows(feed)
        /\ \A f \in Rows(feed) : \/ snap'[p].feed[f] = feed[f]
                                 \/ f \in Rows(snap[p].feed) /\ snap'[p].feed[f] = snap[p].feed[f]
    BY <1>1, BeginEffect DEF Resume, LocalInv
  <1>3. PICK l \in {"feed", "check", "create"} :
            /\ pc' = [pc EXCEPT ![p] = l]
            /\ l = "check" => mine[p] # None
            /\ l = "create" => pc[p] = "found"
    BY DEF Resume, Goto
  <1>4. LocalsTyped' /\ OthersKept(p) /\ pc'[p] = l
    <2>1. pc' \in [Procs -> Points] /\ pc'[p] = l /\ \A q \in Procs \ {p} : pc'[q] = pc[q]
      BY <1>1, <1>3 DEF LocalsTyped, Points, InTransaction
    <2> QED
      BY <1>1, <1>2, <2>1 DEF LocalsTyped, OthersKept, locals
  <1>5. LocalInv(p)'
    <2>1. \A f \in Rows(feed) : snap'[p].feed[f].data <= shop
      BY <1>1, <1>2 DEF IInv, FeedInv, FeedsHappened, LocalInv
    <2>2. l = "create" => mine[p] # None
      BY <1>1, <1>3, IdsAssumption DEF LocalInv, Rows, TypeOK
    <2> QED
      BY <1>1, <1>2, <1>3, <1>4, <2>1, <2>2 DEF LocalInv
  <1>6. RaceLocal(p)' \/ raced
    BY <1>1, <1>2, <1>3, <1>4 DEF IInv, RaceInv, RaceLocal
  <1> QED
    BY <1>1, <1>4, <1>5, <1>6, QuietStep
(* A request begins.                                                       *)
LEMMA StartKeeps ==
    ASSUME IInv, NEW p \in Procs, NEW k, NEW l \in {"feed", "ready"}, Start(p, k, l),
           LocalsTyped', OthersKept(p), pc'[p] = l, LocalInv(p)',
           l = "feed" => Rows(snap'[p].feed) = Rows(feed)
    PROVE  IInv'
  <1>1. /\ UNCHANGED <<shop, feed, order, customers>> /\ pc[p] = "idle"
        /\ raced' = (raced \/ (Placed(order) = {} /\ \E q \in Procs : pc[q] # "idle"))
    BY DEF Start, database
  <1>2. FeedInv'
    <2>1. raced' \in BOOLEAN
      BY <1>1
    <2>2. TypeOK'
      BY <1>1, <2>1, TypesOf, TypesNext DEF IInv, FeedInv
    <2> QED
      BY <1>1, <2>2, StepKeeps DEF IInv, FeedInv, StepOK, FeedsHappened, ConfirmedOnly
  <1>3. RaceInv'
    <2> SUFFICES ASSUME ~ raced' PROVE Alone' /\ RaceGlobal' /\ \A q \in Procs : RaceLocal(q)'
      BY DEF RaceInv
    <2>1. /\ ~ raced /\ Alone /\ RaceGlobal /\ \A q \in Procs : RaceLocal(q)
          /\ Placed(order) = {} => \A q \in Procs : pc[q] = "idle"
      BY <1>1 DEF IInv, RaceInv
    <2>2. Alone'
      BY <1>1, <2>1 DEF Alone, OthersKept
    <2>3. RaceGlobal'
      BY <1>1, <2>1 DEF RaceGlobal
    <2>4. RaceLocal(p)'
      BY <1>1 DEF RaceLocal
    <2>5. ASSUME NEW q \in Procs \ {p} PROVE RaceLocal(q)'
      BY <1>1, <2>1 DEF RaceLocal, OthersKept
    <2> QED
      BY <2>2, <2>3, <2>4, <2>5
  <1> QED
    BY <1>2, <1>3 DEF IInv

LEMMA ReceiveKeeps == ASSUME IInv, NEW p \in Procs, Receive(p) PROVE IInv'
  <1>1. /\ TypeOK /\ LocalsTyped /\ LocalInv(p) /\ shop \in Stages
        /\ Start(p, "webhook", "feed") /\ Begin(p) /\ UNCHANGED <<shop, feed, order>>
        /\ pc' = [pc EXCEPT ![p] = "feed"] /\ kind' = [kind EXCEPT ![p] = "webhook"]
        /\ again' = [again EXCEPT ![p] = TRUE] /\ UNCHANGED <<mine, created>>
    BY TypesOf DEF IInv, FeedInv, Receive, Start, Goto, database
  <1>2. PICK v \in 0..shop : msg' = [msg EXCEPT ![p] = v]
    BY DEF Receive
  <1>3. /\ snap' \in [Procs -> Snapshots] /\ \A q \in Procs \ {p} : snap'[q] = snap[q]
        /\ stale' \in [Procs -> SUBSET StaleRows] /\ Rows(snap'[p].feed) = Rows(feed)
        /\ snap'[p].order = order
        /\ \A f \in Rows(feed) : \/ snap'[p].feed[f] = feed[f]
                                 \/ f \in Rows(snap[p].feed) /\ snap'[p].feed[f] = snap[p].feed[f]
    BY <1>1, BeginEffect DEF LocalInv
  <1>4. v \in Stages /\ v <= shop
    BY <1>1 DEF Stages
  <1>5. /\ pc' \in [Procs -> Points] /\ pc'[p] = "feed" /\ msg' \in [Procs -> Stages] /\ msg'[p] = v
        /\ kind' \in [Procs -> {"webhook", "wizard", "button"}] /\ OthersKept(p)
    BY <1>1, <1>2, <1>3, <1>4 DEF LocalsTyped, OthersKept, Points, InTransaction
  <1>6. again' \in [Procs -> BOOLEAN]
    BY <1>1 DEF LocalsTyped
  <1>7. LocalsTyped'
    BY <1>1, <1>3, <1>5, <1>6 DEF LocalsTyped
  <1>8. LocalInv(p)'
    <2>1. \A f \in Rows(feed) : snap'[p].feed[f].data <= shop
      BY <1>3 DEF IInv, FeedInv, FeedsHappened, LocalInv
    <2> QED
      BY <1>1, <1>3, <1>4, <1>5, <2>1 DEF LocalInv
  <1> QED
    BY <1>1, <1>3, <1>5, <1>7, <1>8, StartKeeps

LEMMA FetchKeeps == ASSUME IInv, NEW p \in Procs, Fetch(p) PROVE IInv'
  <1>1. /\ TypeOK /\ LocalsTyped /\ LocalInv(p) /\ shop \in Stages
        /\ Start(p, "wizard", "ready") /\ UNCHANGED <<shop, feed, order>>
        /\ pc' = [pc EXCEPT ![p] = "ready"] /\ kind' = [kind EXCEPT ![p] = "wizard"]
        /\ msg' = [msg EXCEPT ![p] = shop]
        /\ UNCHANGED <<mine, again, created, snap, stale>>
    BY TypesOf DEF IInv, FeedInv, Fetch, Start, Goto, database
  <1>2. LocalsTyped' /\ OthersKept(p) /\ pc'[p] = "ready" /\ msg'[p] = shop
    BY <1>1 DEF LocalsTyped, OthersKept, Points
  <1>3. LocalInv(p)'
    BY <1>1, <1>2 DEF LocalInv, Stages
  <1> QED
    BY <1>1, <1>2, <1>3, StartKeeps

LEMMA PressKeeps == ASSUME IInv, NEW p \in Procs, Press(p) PROVE IInv'
  <1>1. /\ TypeOK /\ LocalsTyped /\ LocalInv(p)
        /\ Start(p, "button", "ready") /\ UNCHANGED <<shop, feed, order>>
        /\ pc' = [pc EXCEPT ![p] = "ready"] /\ kind' = [kind EXCEPT ![p] = "button"]
        /\ UNCHANGED <<msg, again, created, snap, stale>>
    BY TypesOf DEF IInv, FeedInv, Press, Start, Goto, database
  <1>2. PICK f \in Rows(feed) : mine' = [mine EXCEPT ![p] = f]
    BY DEF Press
  <1>3. f \in Feeds
    BY DEF Rows
  <1>4. LocalsTyped' /\ OthersKept(p) /\ pc'[p] = "ready" /\ mine'[p] = f
    BY <1>1, <1>2, <1>3 DEF LocalsTyped, OthersKept, Points
  <1>5. LocalInv(p)'
    BY <1>1, <1>4 DEF LocalInv
  <1> QED
    BY <1>1, <1>4, <1>5, StartKeeps

(* A request is rolled back.                                               *)
LEMMA RollBackKeeps ==
    ASSUME IInv, NEW p \in Procs, pc[p] # "idle", RollBack(p)
    PROVE  IInv'
  <1>1. /\ TypeOK /\ UNCHANGED <<shop, database, raced>> /\ shop \in Stages
        /\ stale' \in [Procs -> SUBSET StaleRows] /\ feed' = feed
    BY TypesOf DEF IInv, FeedInv, RollBack, LocalsTyped, database
  <1>2. /\ LocalsTyped' /\ OthersKept(p)
        /\ pc'[p] = "idle" /\ mine'[p] = None /\ msg'[p] = 0
        /\ Rows(snap'[p].feed) = {} /\ Placed(snap'[p].order) = {}
    BY <1>1, EndEffect DEF RollBack
  <1>3. LocalInv(p)' /\ RaceLocal(p)'
    BY <1>1, <1>2 DEF LocalInv, RaceLocal, Stages
  <1> QED
    BY <1>1, <1>2, <1>3, QuietStep
(* The feed row of the request.                                            *)
LEMMA NewFeedKeeps == ASSUME IInv, NEW p \in Procs, NewFeed(p) PROVE IInv'
  <1>1. /\ TypeOK /\ LocalsTyped /\ LocalInv(p) /\ shop \in Stages
        /\ feed \in [Feeds -> FeedRow \cup {None}]
        /\ pc[p] = "feed" /\ FoundFeed(p) = None
        /\ created' = [created EXCEPT ![p] = TRUE] /\ Commit(p, {})
        /\ pc' = [pc EXCEPT ![p] = "ready"] /\ msg' = [msg EXCEPT ![p] = 0]
        /\ UNCHANGED <<shop, order, customers, kind, again, raced>>
    BY TypesOf DEF IInv, FeedInv, NewFeed, Leave, Goto, DropMsg
  <1> DEFINE row == [data |-> msg[p], state |-> "draft"]
  <1>2. PICK f \in Feeds \ Rows(feed) :
            feed' = [feed EXCEPT ![f] = row] /\ mine' = [mine EXCEPT ![p] = f] /\ Cache(p, f, row)
    BY DEF NewFeed
  <1>3. row \in FeedRow /\ row.data = msg[p] /\ row.state = "draft" /\ row # None
    <2>1. msg[p] \in Stages
      BY <1>1 DEF LocalsTyped
    <2>2. row \in FeedRow
      BY <2>1 DEF FeedRow
    <2> QED
      BY <2>2, RowIsThere
  <1> HIDE DEF row
  <1>4. /\ snap' \in [Procs -> Snapshots] /\ \A q \in Procs \ {p} : snap'[q] = snap[q]
        /\ Rows(snap'[p].feed) = {f} /\ snap'[p].feed[f] = row /\ Placed(snap'[p].order) = {}
    BY <1>1, <1>2, <1>3, CacheEffect
  <1>5. /\ feed' \in [Feeds -> FeedRow \cup {None}] /\ Rows(feed') = Rows(feed) \cup {f}
        /\ feed'[f] = row /\ \A g \in Rows(feed) : feed'[g] = feed[g]
    BY <1>1, <1>2, <1>3 DEF Rows
  <1>6. LocalsTyped' /\ OthersKept(p) /\ pc'[p] = "ready" /\ msg'[p] = 0 /\ mine'[p] = f
    <2>1. stale' \in [Procs -> SUBSET StaleRows]
      BY <1>1, StaleTyped
    <2>2. created' \in [Procs -> BOOLEAN]
      BY <1>1 DEF LocalsTyped
    <2>3. /\ pc' \in [Procs -> Points] /\ pc'[p] = "ready" /\ OthersKept(p)
          /\ msg' \in [Procs -> Stages] /\ msg'[p] = 0
          /\ mine' \in [Procs -> Feeds \cup {None}] /\ mine'[p] = f
      BY <1>1, <1>2, <1>4 DEF LocalsTyped, OthersKept, Points, Stages
    <2> QED
      BY <1>1, <1>4, <2>1, <2>2, <2>3 DEF LocalsTyped
  <1>7. StepOK(p)
    <2>1. TypeOK'
      BY <1>1, <1>5, <1>6, TypesOf, TypesNext
    <2>2. LocalInv(p)'
      BY <1>1, <1>3, <1>4, <1>5, <1>6 DEF LocalInv, Stages
    <2>3. FeedsHappened'
      BY <1>1, <1>3, <1>5 DEF IInv, FeedInv, FeedsHappened, LocalInv
    <2> QED
      BY <1>1, <1>5, <1>6, <2>1, <2>2, <2>3 DEF IInv, FeedInv, StepOK, ConfirmedOnly
  <1>8. ASSUME ~ raced PROVE RaceLocal(p)' /\ RaceGlobal' /\ Placed(order) = {}
    <2>1. Rows(snap[p].feed) = {}
      <3>1. Rows(snap[p].feed) \in SUBSET Feeds
        BY DEF Rows
      <3> QED
        BY <1>1, <3>1, LatestFound DEF FoundFeed
    <2>2. Rows(feed) = {} /\ Placed(order) = {}
      BY <1>1, <1>8, <2>1 DEF IInv, RaceInv, RaceLocal, RaceGlobal
    <2> QED
      BY <1>1, <1>5, <1>6, <2>2 DEF RaceLocal, RaceGlobal
  <1> QED
    BY <1>1, <1>7, <1>8, BusyStep

LEMMA FoundFeedKeeps ==
    ASSUME IInv, NEW p \in Procs, KeepFeed(p) \/ RefreshFeed(p)
    PROVE  IInv'
  <1> DEFINE f == FoundFeed(p)
  <1>1. /\ TypeOK /\ LocalsTyped /\ LocalInv(p) /\ shop \in Stages
        /\ feed \in [Feeds -> FeedRow \cup {None}]
        /\ pc[p] = "feed" /\ f # None
        /\ mine' = [mine EXCEPT ![p] = f] /\ snap' = [snap EXCEPT ![p] = Blank]
        /\ pc' = [pc EXCEPT ![p] = "ready"] /\ msg' = [msg EXCEPT ![p] = 0]
        /\ UNCHANGED <<shop, order, customers, kind, again, raced, created>>
        /\ feed' = feed \/ feed' = [feed EXCEPT ![f].data = msg[p]]
        /\ Commit(p, {}) \/ Commit(p, {<<f, "feed">>})
    BY TypesOf DEF IInv, FeedInv, KeepFeed, RefreshFeed, Leave, Goto, DropMsg
  <1>2. f \in Rows(feed) /\ f \in Feeds
    <2>1. Rows(snap[p].feed) \in SUBSET Feeds
      BY DEF Rows
    <2>2. f \in Rows(snap[p].feed)
      BY <1>1, <2>1, LatestFound DEF FoundFeed
    <2> QED
      BY <1>1, <2>1, <2>2 DEF LocalInv
  <1> HIDE DEF f
  <1>3. /\ feed' \in [Feeds -> FeedRow \cup {None}] /\ Rows(feed') = Rows(feed)
        /\ \A g \in Rows(feed) : /\ feed'[g].state = feed[g].state
                                 /\ feed'[g].data \in {feed[g].data, msg[p]}
    <2>1. CASE feed' = feed
      BY <1>1, <2>1
    <2>2. CASE feed' = [feed EXCEPT ![f].data = msg[p]]
      <3> DEFINE row == [feed[f] EXCEPT !.data = msg[p]]
      <3>1. feed[f] \in FeedRow /\ msg[p] \in Stages
        BY <1>1, <1>2, RowIsThere DEF LocalsTyped
      <3>2. row \in FeedRow /\ row.data = msg[p] /\ row.state = feed[f].state /\ row # None
        BY <3>1, IdsAssumption DEF FeedRow
      <3>3. feed' = [feed EXCEPT ![f] = row]
        BY <2>2
      <3> HIDE DEF row
      <3> QED
        BY <1>1, <1>2, <3>2, <3>3 DEF Rows
    <2> QED
      BY <1>1, <2>1, <2>2
  <1>4. LocalsTyped' /\ OthersKept(p) /\ pc'[p] = "ready" /\ msg'[p] = 0 /\ mine'[p] = f /\ snap'[p] = Blank
    <2>1. stale' \in [Procs -> SUBSET StaleRows]
      BY <1>1, <1>2, StaleTyped DEF StaleRows
    <2>2. /\ pc' \in [Procs -> Points] /\ pc'[p] = "ready" /\ OthersKept(p)
          /\ msg' \in [Procs -> Stages] /\ msg'[p] = 0
          /\ mine' \in [Procs -> Feeds \cup {None}] /\ mine'[p] = f
          /\ snap' \in [Procs -> Snapshots] /\ snap'[p] = Blank
      BY <1>1, <1>2, BlankTyped DEF LocalsTyped, OthersKept, Points, Stages
    <2> QED
      BY <1>1, <2>1, <2>2 DEF LocalsTyped
  <1>5. StepOK(p)
    <2>1. TypeOK'
      BY <1>1, <1>3, <1>4, TypesOf, TypesNext
    <2>2. LocalInv(p)'
      BY <1>1, <1>2, <1>3, <1>4, BlankTyped DEF LocalInv, Stages
    <2>3. FeedsHappened'
      BY <1>1, <1>3 DEF IInv, FeedInv, FeedsHappened, LocalInv
    <2> QED
      BY <1>1, <1>3, <1>4, <2>1, <2>2, <2>3 DEF IInv, FeedInv, StepOK, ConfirmedOnly
  <1>6. ASSUME ~ raced PROVE RaceLocal(p)' /\ RaceGlobal'
    BY <1>1, <1>3, <1>4, <1>6 DEF IInv, RaceInv, RaceLocal, RaceGlobal
  <1> QED
    BY <1>1, <1>3, <1>5, <1>6, BusyStep
(* The row that a process works on is there.                               *)
LEMMA OwnRow ==
    ASSUME IInv, NEW p \in Procs, pc[p] \in {"check", "recheck", "found", "create"}
    PROVE  /\ mine[p] \in Rows(snap[p].feed) /\ mine[p] \in Rows(feed) /\ mine[p] \in Feeds
           /\ snap[p].feed[mine[p]] \in FeedRow /\ snap[p] \in Snapshots
           /\ OwnState(p) \in States
  <1>1. mine[p] \in Rows(snap[p].feed) /\ mine[p] \in Rows(feed) /\ snap[p] \in Snapshots
    BY DEF IInv, FeedInv, LocalInv, TypeOK
  <1>2. snap[p].feed[mine[p]] \in FeedRow /\ mine[p] \in Feeds
    BY <1>1, RowIsThere DEF Snapshots, Rows
  <1> QED
    BY <1>1, <1>2, RowIsThere DEF OwnState

(* Whether a search finds a sale order.                                    *)
LEMMA SaleFound ==
    ASSUME IInv, NEW p \in Procs
    PROVE  /\ FoundOrder(p) = None <=> Placed(snap[p].order) = {}
           /\ FoundOrder(p) # None => FoundOrder(p) \in Orders /\ FoundOrder(p) \in Placed(snap[p].order)
  <1>1. Placed(snap[p].order) \in SUBSET Orders
    BY DEF Placed
  <1> QED
    BY <1>1, LatestFound DEF FoundOrder

(* A step that writes the state s of the feed and leaves its payload.      *)
LEMMA StateStep ==
    ASSUME IInv, NEW p \in Procs, pc[p] # "idle", NEW s \in States, StateIs(s),
           LocalsTyped', OthersKept(p), UNCHANGED <<shop, raced>>,
           order' \in [Orders -> {"none", "draft", "sale", "cancel"}],
           Placed(order') = Placed(order),
           customers' \in SUBSET Customers,
           mine'[p] \in {mine[p], None}, msg'[p] <= shop,
           Rows(snap'[p].feed) \subseteq Rows(snap[p].feed),
           Placed(snap'[p].order) \subseteq Placed(snap[p].order),
           \A f \in Rows(snap'[p].feed) : snap'[p].feed[f].data = snap[p].feed[f].data,
           pc'[p] \in {"check", "recheck", "found", "create"} => mine'[p] \in Rows(snap'[p].feed),
           pc'[p] \in {"found", "create"} => Confirmed(msg'[p]),
           ~ raced => RaceLocal(p)' /\ (s = "processed" \/ Placed(order) = {})
    PROVE  IInv'
  <1>1. LocalInv(p)'
    BY DEF IInv, FeedInv, LocalInv, StateIs
  <1>2. TypeOK'
    BY TypesOf, TypesNext DEF IInv, FeedInv, StateIs
  <1>3. StepOK(p)
    BY <1>1, <1>2 DEF IInv, FeedInv, StepOK, StateIs, FeedsHappened, ConfirmedOnly
  <1>4. ~ raced => RaceGlobal'
    BY DEF IInv, RaceInv, RaceGlobal, StateIs
  <1> QED
    BY <1>3, <1>4, BusyStep DEF StateIs

(* The sale order is there: it keeps its state or is cancelled.            *)
LEMMA SaveOrderKeeps ==
    ASSUME IInv, NEW p \in Procs, NEW os, SaveOrder(p, os),
           os = order \/ os = [order EXCEPT ![FoundOrder(p)] = "cancel"]
    PROVE  IInv'
  <1> DEFINE o == FoundOrder(p)
             U == {OrderRow(p)} \cup StateUpdate(p, "processed")
  <1>1. /\ pc[p] \in {"check", "recheck"} /\ o # None /\ TypeOK /\ shop \in Stages
        /\ order' = os
        /\ SaveState(p, "processed") /\ Commit(p, U) /\ Return(p, "processed")
        /\ UNCHANGED <<shop, customers, raced>>
        /\ order \in [Orders -> {"none", "draft", "sale", "cancel"}] /\ customers \in SUBSET Customers
    BY TypesOf DEF IInv, FeedInv, SaveOrder, Checking
  <1>2. /\ mine[p] \in Rows(snap[p].feed) /\ mine[p] \in Rows(feed) /\ mine[p] \in Feeds
        /\ o \in Orders /\ o \in Placed(snap[p].order) /\ "processed" \in States
    BY <1>1, OwnRow, SaleFound DEF States
  <1>3. stale' \in [Procs -> SUBSET StaleRows]
    <2>1. U \in SUBSET StaleRows
      BY <1>2 DEF OrderRow, StateUpdate, FeedRowOf, StaleRows
    <2> QED
      BY <1>1, <2>1, StaleTyped
  <1>4. StateIs("processed")
    BY <1>1, <1>2, SaveEffect
  <1>5. /\ LocalsTyped' /\ OthersKept(p)
        /\ pc'[p] \in {"idle", "ready"} /\ mine'[p] \in {mine[p], None} /\ msg'[p] = 0
        /\ Rows(snap'[p].feed) \subseteq {mine[p]} /\ Placed(snap'[p].order) = {}
        /\ \A f \in Rows(snap'[p].feed) : snap'[p].feed[f].data = snap[p].feed[f].data
    BY <1>1, <1>2, <1>3, ReturnEffect
  <1>6. order' \in [Orders -> {"none", "draft", "sale", "cancel"}] /\ Placed(order') = Placed(order)
    <2>1. CASE os = order
      BY <1>1, <2>1
    <2>2. CASE os = [order EXCEPT ![o] = "cancel"]
      <3>1. order[o] # "none"
        BY <1>1, <1>2 DEF IInv, FeedInv, LocalInv, Placed
      <3> QED
        BY <1>1, <1>2, <2>2, <3>1 DEF Placed
    <2> QED
      BY <2>1, <2>2
  <1>7. RaceLocal(p)'
    BY <1>5 DEF RaceLocal
  <1>8. msg'[p] <= shop /\ Rows(snap'[p].feed) \subseteq Rows(snap[p].feed)
    BY <1>1, <1>2, <1>5 DEF Stages
  <1> QED
    BY <1>1, <1>2, <1>4, <1>5, <1>6, <1>7, <1>8, StateStep

LEMMA UpdateOrderKeeps ==
    ASSUME IInv, NEW p \in Procs, UpdateOrder(p) \/ CancelAsks(p)
    PROVE  IInv'
  <1>1. \/ SaveOrder(p, order)
        \/ SaveOrder(p, [order EXCEPT ![FoundOrder(p)] = "cancel"])
    BY DEF UpdateOrder, CancelAsks
  <1> QED
    BY <1>1, SaveOrderKeeps

(* The call returns early, at any of its exits.                            *)
LEMMA EarlyKeeps ==
    ASSUME IInv, NEW p \in Procs, NEW s \in States, NEW R \in SUBSET StaleRows,
           ReturnEarly(p, s, R),
           UNCHANGED <<shop, order, customers, raced>>,
           pc[p] \in {"check", "recheck", "create"},
           ~ raced => /\ s = "processed" \/ Placed(order) = {} \/ StateUpdate(p, s) = {}
                      /\ Placed(snap[p].order) = {} => Placed(order) = {}
                      /\ Placed(snap[p].order) = {} \/ StateUpdate(p, s) = {}
    PROVE  IInv'
  <1>1. /\ TypeOK /\ mine[p] \in Rows(snap[p].feed) /\ mine[p] \in Rows(feed) /\ shop \in Stages
        /\ order \in [Orders -> {"none", "draft", "sale", "cancel"}] /\ customers \in SUBSET Customers
    BY OwnRow, TypesOf DEF IInv, FeedInv
  <1>2. /\ LocalsTyped' /\ OthersKept(p) /\ StateIs(s)
        /\ pc'[p] \in {"idle", "ready", "check", "recheck"}
        /\ mine'[p] \in {mine[p], None} /\ msg'[p] = 0
        /\ Rows(snap'[p].feed) \subseteq Rows(snap[p].feed)
        /\ Placed(snap'[p].order) \subseteq Placed(snap[p].order)
        /\ \A f \in Rows(snap'[p].feed) : snap'[p].feed[f].data = snap[p].feed[f].data
        /\ pc'[p] \in {"check", "recheck"} => /\ mine'[p] \in Rows(snap'[p].feed)
                                              /\ snap'[p].order = snap[p].order
        /\ pc'[p] = "recheck" => StateUpdate(p, s) # {}
        /\ StateUpdate(p, s) = {} => feed' = feed
    BY <1>1, ReturnEarlyEffect
  <1>3. ~ raced => RaceLocal(p)'
    BY <1>2 DEF RaceLocal
  <1>4. msg'[p] <= shop
    BY <1>1, <1>2 DEF Stages
  <1>5. PICK t \in States : StateIs(t) /\ (~ raced => t = "processed" \/ Placed(order) = {})
    <2>1. CASE StateUpdate(p, s) = {}
      <3>1. "processed" \in States
        BY DEF States
      <3>2. StateIs("processed")
        BY <1>1, <1>2, <2>1, <3>1, SaveEffect
      <3> QED
        BY <3>1, <3>2
    <2>2. CASE StateUpdate(p, s) # {}
      BY <1>2, <2>2
    <2> QED
      BY <2>1, <2>2
  <1>6. /\ UNCHANGED <<shop, raced>> /\ Placed(order') = Placed(order) /\ pc[p] # "idle"
        /\ order' \in [Orders -> {"none", "draft", "sale", "cancel"}] /\ customers' \in SUBSET Customers
        /\ pc'[p] \in {"check", "recheck", "found", "create"} => mine'[p] \in Rows(snap'[p].feed)
        /\ pc'[p] \in {"found", "create"} => Confirmed(msg'[p])
        /\ ~ raced => RaceLocal(p)' /\ (t = "processed" \/ Placed(order) = {})
    BY <1>1, <1>2, <1>3, <1>5
  <1> QED
    BY <1>2, <1>4, <1>5, <1>6, StateStep

LEMMA UnconfirmedKeeps == ASSUME IInv, NEW p \in Procs, Unconfirmed(p) PROVE IInv'
  <1>1. /\ pc[p] \in {"check", "recheck"} /\ ReturnEarly(p, "processed", {})
        /\ "processed" \in States /\ {} \in SUBSET StaleRows /\ FoundOrder(p) = None
        /\ UNCHANGED <<shop, order, customers, raced>>
    BY DEF Unconfirmed, Checking, States
  <1>2. Placed(snap[p].order) = {} /\ (~ raced => Placed(order) = {})
    BY <1>1, SaleFound DEF IInv, RaceInv, RaceLocal
  <1> QED
    BY <1>1, <1>2, EarlyKeeps

LEMMA FailFeedKeeps == ASSUME IInv, NEW p \in Procs, FailFeed(p) PROVE IInv'
  <1>1. /\ pc[p] = "create" /\ ReturnEarly(p, "failed", {}) /\ "failed" \in States
        /\ {} \in SUBSET StaleRows
        /\ UNCHANGED <<shop, order, customers, raced>>
    BY DEF FailFeed, States
  <1>2. ~ raced => Placed(order) = {} /\ Placed(snap[p].order) = {}
    BY <1>1 DEF IInv, FeedInv, LocalInv, RaceInv, RaceLocal
  <1> QED
    BY <1>1, <1>2, EarlyKeeps

(* The feed keeps the state that the call found.                           *)
LEMMA CancelRaisesKeeps == ASSUME IInv, NEW p \in Procs, CancelRaises(p) PROVE IInv'
  <1> DEFINE s == OwnState(p)
  <1>1. /\ pc[p] \in {"check", "recheck"} /\ ReturnEarly(p, s, {OrderRow(p)})
        /\ FoundOrder(p) # None
        /\ UNCHANGED <<shop, order, customers, raced>>
    BY DEF CancelRaises, Checking
  <1>2. s \in States /\ {OrderRow(p)} \in SUBSET StaleRows /\ Placed(snap[p].order) # {}
    BY <1>1, OwnRow, SaleFound DEF OrderRow, StaleRows
  <1>3. ~ raced => StateUpdate(p, s) = {}
    BY <1>1, <1>2 DEF IInv, RaceInv, RaceLocal, StateUpdate, OwnState
  <1> HIDE DEF s
  <1> QED
    BY <1>1, <1>2, <1>3, EarlyKeeps

(* The least of some ids.                                                  *)
LEMMA LeastId ==
    ASSUME NEW S \in SUBSET Nat, S # {}
    PROVE  Min(S) \in S
  <1>1. PICK x \in S : \A y \in S : ~ (<<y, x>> \in OpToRel(<, Nat))
    BY NatLessThanWellFounded, WFMin
  <1>2. ASSUME NEW y \in S, ~ (x <= y) PROVE FALSE
    <2>1. y \in Nat /\ x \in Nat /\ y < x
      BY <1>2
    <2>2. <<y, x>> \in OpToRel(<, Nat)
      BY <2>1 DEF OpToRel
    <2> QED
      BY <1>1, <2>2
  <1>3. \E z \in S : \A y \in S : z <= y
    BY <1>2
  <1> QED
    BY <1>3 DEF Min

LEMMA FindCustomerKeeps == ASSUME IInv, NEW p \in Procs, FindCustomer(p) PROVE IInv'
  <1>1. /\ pc[p] \in {"check", "recheck"} /\ FoundOrder(p) = None /\ Confirmed(Payload(p))
        /\ SaveState(p, OwnState(p)) /\ customers' = WithCustomer(p)
        /\ msg' = [msg EXCEPT ![p] = Payload(p)] /\ Commit(p, StateUpdate(p, OwnState(p)))
        /\ pc' = [pc EXCEPT ![p] = "found"] /\ Cache(p, mine[p], snap[p].feed[mine[p]])
        /\ UNCHANGED <<shop, order, kind, mine, again, created, raced>>
        /\ snap[p].customers # {} \/ customers # Customers
    BY DEF FindCustomer, TakeCustomer, Checking, Goto
  <1>2. /\ mine[p] \in Rows(snap[p].feed) /\ mine[p] \in Rows(feed) /\ mine[p] \in Feeds
        /\ snap[p].feed[mine[p]] \in FeedRow /\ OwnState(p) \in States
    BY <1>1, OwnRow
  <1>3. /\ TypeOK /\ LocalsTyped /\ LocalInv(p) /\ customers \in SUBSET Customers
        /\ order \in [Orders -> {"none", "draft", "sale", "cancel"}]
    BY TypesOf DEF IInv, FeedInv
  <1>4. StateIs(OwnState(p))
    BY <1>1, <1>2, <1>3, SaveEffect
  <1>5. customers' \in SUBSET Customers
    <2>1. CASE snap[p].customers # {}
      BY <1>1, <1>3, <2>1 DEF WithCustomer
    <2>2. CASE snap[p].customers = {}
      <3>1. Customers \ customers \in SUBSET Nat /\ Customers \ customers # {}
        BY <1>1, <1>3, <2>2, IdsAssumption
      <3>2. Min(Customers \ customers) \in Customers \ customers
        BY <3>1, LeastId
      <3> QED
        BY <1>1, <1>3, <2>2, <3>2 DEF WithCustomer
    <2> QED
      BY <2>1, <2>2
  <1>6. /\ snap' \in [Procs -> Snapshots] /\ \A q \in Procs \ {p} : snap'[q] = snap[q]
        /\ Rows(snap'[p].feed) = {mine[p]} /\ snap'[p].feed[mine[p]] = snap[p].feed[mine[p]]
        /\ Placed(snap'[p].order) = {}
    BY <1>1, <1>2, <1>3, CacheEffect
  <1>7. stale' \in [Procs -> SUBSET StaleRows]
    <2>1. StateUpdate(p, OwnState(p)) \in SUBSET StaleRows
      BY <1>2 DEF StateUpdate, FeedRowOf, StaleRows
    <2> QED
      BY <1>1, <1>3, <2>1, StaleTyped
  <1>8. Payload(p) \in Stages /\ Payload(p) <= shop
    BY <1>2, <1>3, RowIsThere DEF Payload, LocalInv
  <1>9. /\ pc' \in [Procs -> Points] /\ pc'[p] = "found" /\ OthersKept(p)
        /\ msg' \in [Procs -> Stages] /\ msg'[p] = Payload(p)
    BY <1>1, <1>3, <1>6, <1>8 DEF LocalsTyped, OthersKept, Points
  <1>10. LocalsTyped'
    BY <1>1, <1>3, <1>6, <1>7, <1>9 DEF LocalsTyped
  <1>11. ~ raced => Placed(order) = {}
    BY <1>1, SaleFound DEF IInv, RaceInv, RaceLocal
  <1>12. ~ raced => RaceLocal(p)'
    BY <1>1, <1>9, <1>11 DEF RaceLocal
  <1> QED
    BY <1>1, <1>2, <1>3, <1>4, <1>5, <1>6, <1>8, <1>9, <1>10, <1>11, <1>12, StateStep

LEMMA CreateOrderKeeps == ASSUME IInv, NEW p \in Procs, CreateOrder(p) PROVE IInv'
  <1>1. /\ pc[p] = "create" /\ SetFeedState(p, "processed") /\ Commit(p, {FeedRowOf(p)})
        /\ Return(p, "processed") /\ UNCHANGED <<shop, customers, raced>> /\ "processed" \in States
    BY DEF CreateOrder, States
  <1>2. PICK o \in Orders \ Placed(order), s \in FirstStates(msg[p]) :
            order' = [order EXCEPT ![o] = s]
    BY DEF CreateOrder
  <1>3. /\ mine[p] \in Rows(snap[p].feed) /\ mine[p] \in Rows(feed) /\ mine[p] \in Feeds
    BY <1>1, OwnRow
  <1>4. /\ TypeOK /\ LocalsTyped /\ LocalInv(p) /\ customers \in SUBSET Customers /\ shop \in Stages
        /\ order \in [Orders -> {"none", "draft", "sale", "cancel"}] /\ raced \in BOOLEAN
    BY TypesOf DEF IInv, FeedInv
  <1>5. StateIs("processed") /\ feed'[mine[p]].state = "processed"
    BY <1>1, <1>3, <1>4, SaveEffect
  <1>6. stale' \in [Procs -> SUBSET StaleRows]
    <2>1. {FeedRowOf(p)} \in SUBSET StaleRows
      BY <1>3 DEF FeedRowOf, StaleRows
    <2> QED
      BY <1>1, <1>4, <2>1, StaleTyped
  <1>7. /\ LocalsTyped' /\ OthersKept(p)
        /\ pc'[p] \in {"idle", "ready"} /\ mine'[p] \in {mine[p], None} /\ msg'[p] = 0
        /\ Rows(snap'[p].feed) \subseteq {mine[p]} /\ Placed(snap'[p].order) = {}
        /\ \A f \in Rows(snap'[p].feed) : snap'[p].feed[f].data = snap[p].feed[f].data
    BY <1>1, <1>3, <1>4, <1>6, ReturnEffect
  <1>8. /\ order' \in [Orders -> {"none", "draft", "sale", "cancel"}]
        /\ Placed(order') = Placed(order) \cup {o}
    BY <1>2, <1>4 DEF FirstStates, Placed
  <1>9. Confirmed(shop)
    <2>1. msg[p] \in Nat /\ shop \in Nat /\ msg[p] >= 1 /\ msg[p] <= shop
      BY <1>1, <1>4 DEF LocalInv, LocalsTyped, Stages, Confirmed
    <2> QED
      BY <2>1 DEF Confirmed
  <1>10. StepOK(p)
    <2>1. TypeOK'
      BY <1>1, <1>4, <1>5, <1>7, <1>8, TypesNext DEF StateIs
    <2>2. LocalInv(p)'
      BY <1>1, <1>3, <1>4, <1>5, <1>7 DEF LocalInv, StateIs, Stages
    <2>3. FeedsHappened' /\ ConfirmedOnly'
      BY <1>1, <1>5, <1>9 DEF IInv, FeedInv, FeedsHappened, StateIs, ConfirmedOnly
    <2> QED
      BY <1>1, <1>5, <1>7, <1>8, <2>1, <2>2, <2>3 DEF StepOK, StateIs
  <1>11. ASSUME ~ raced PROVE RaceLocal(p)' /\ RaceGlobal' /\ Placed(order) = {}
    <2>1. Placed(order) = {} /\ RaceGlobal
      BY <1>1, <1>11 DEF IInv, RaceInv, RaceLocal
    <2>2. RaceLocal(p)'
      BY <1>7 DEF RaceLocal
    <2>3. RaceGlobal'
      BY <1>3, <1>5, <1>8, <2>1 DEF RaceGlobal, StateIs
    <2> QED
      BY <2>1, <2>2, <2>3
  <1> QED
    BY <1>1, <1>10, <1>11, BusyStep

LEMMA AdvanceKeeps == ASSUME IInv, Advance PROVE IInv'
  <1>1. /\ shop \in Stages /\ shop' = shop + 1 /\ shop < 2
        /\ UNCHANGED <<feed, order, customers, pc, locals, snap, stale, raced>>
    BY TypesOf DEF IInv, FeedInv, Advance, database
  <1>2. shop' \in Stages /\ shop <= shop' /\ \A n \in Stages : n <= shop => n <= shop'
    BY <1>1 DEF Stages
  <1>3. TypeOK'
    BY <1>1, <1>2, TypesOf, TypesNext DEF IInv, FeedInv, LocalsTyped, locals
  <1>4. \A p \in Procs : LocalInv(p)'
    <2> SUFFICES ASSUME NEW p \in Procs PROVE LocalInv(p)'
      OBVIOUS
    <2>1. msg[p] \in Stages /\ \A f \in Rows(snap[p].feed) : snap[p].feed[f].data \in Stages
      BY RowIsThere DEF IInv, FeedInv, TypeOK, Snapshots
    <2> QED
      BY <1>1, <1>2, <2>1 DEF IInv, FeedInv, LocalInv, locals
  <1>5. FeedsHappened' /\ ConfirmedOnly'
    <2>1. \A f \in Rows(feed) : feed[f].data \in Stages
      BY RowIsThere DEF IInv, FeedInv, TypeOK, Committed, Snapshots
    <2>2. Confirmed(shop) => Confirmed(shop')
      BY <1>1 DEF Confirmed, Stages
    <2> QED
      BY <1>1, <1>2, <2>1, <2>2 DEF IInv, FeedInv, FeedsHappened, ConfirmedOnly
  <1>6. RaceInv'
    BY <1>1 DEF IInv, RaceInv, Alone, RaceGlobal, RaceLocal
  <1> QED
    BY <1>3, <1>4, <1>5, <1>6 DEF IInv, FeedInv

LEMMA IInvInit == Init => IInv
  <1> SUFFICES ASSUME Init PROVE IInv
    OBVIOUS
  <1>1. /\ shop = 0 /\ raced = FALSE /\ pc = [p \in Procs |-> "idle"] /\ msg = [p \in Procs |-> 0]
        /\ mine = [p \in Procs |-> None] /\ snap = [p \in Procs |-> Blank]
        /\ Rows(feed) = {} /\ Placed(order) = {} /\ Rows(Blank.feed) = {} /\ Placed(Blank.order) = {}
    BY BlankTyped DEF Init
  <1>2. TypeOK
    <2>1. Committed \in Snapshots
      BY BlankTyped DEF Init, Committed, Snapshots, Blank
    <2>2. /\ kind \in [Procs -> {"webhook", "wizard", "button"}]
          /\ again \in [Procs -> BOOLEAN] /\ created \in [Procs -> BOOLEAN]
          /\ stale \in [Procs -> SUBSET StaleRows]
      BY DEF Init
    <2>3. shop \in Stages
      BY <1>1 DEF Stages
    <2>4. raced \in BOOLEAN
      BY DEF Init
    <2>5. /\ pc \in [Procs -> {"idle", "ready", "found"} \cup InTransaction]
          /\ msg \in [Procs -> Stages] /\ mine \in [Procs -> Feeds \cup {None}]
          /\ snap \in [Procs -> Snapshots]
      BY <1>1, BlankTyped DEF Stages
    <2> QED
      BY <2>1, <2>2, <2>3, <2>4, <2>5 DEF TypeOK, StaleRows
  <1>3. ASSUME NEW p \in Procs PROVE LocalInv(p) /\ RaceLocal(p)
    BY <1>1 DEF LocalInv, RaceLocal
  <1> QED
    BY <1>1, <1>2, <1>3 DEF IInv, FeedInv, FeedsHappened, ConfirmedOnly, RaceInv, Alone, RaceGlobal

LEMMA IInvNext == IInv /\ [Next]_vars => IInv'
  <1> SUFFICES ASSUME IInv, [Next]_vars PROVE IInv'
    OBVIOUS
  <1>1. CASE UNCHANGED vars
    <2>1. TypeOK'
      BY <1>1 DEF IInv, FeedInv, TypeOK, Committed, vars, database, locals
    <2>2. /\ UNCHANGED <<shop, feed, order, pc, mine, msg, snap, raced>>
      BY <1>1 DEF vars, database, locals
    <2> QED
      BY <2>1, <2>2
         DEF IInv, FeedInv, LocalInv, FeedsHappened, ConfirmedOnly, RaceInv, Alone, RaceGlobal,
             RaceLocal
  <1>2. ASSUME NEW p \in Procs, Lose(p) \/ Crash(p) PROVE IInv'
    BY <1>2, RollBackKeeps DEF Lose, Crash, Checking
  <1> QED
    BY <1>1, <1>2, AdvanceKeeps, ReceiveKeeps, PressKeeps, FetchKeeps, ResumeKeeps, NewFeedKeeps,
       FoundFeedKeeps, UpdateOrderKeeps, UnconfirmedKeeps, FindCustomerKeeps, CreateOrderKeeps,
       FailFeedKeeps, CancelRaisesKeeps
       DEF Next, Requested, Faults, Work

LEMMA Invariant == Spec => []IInv
  BY IInvInit, IInvNext, PTL DEF Spec

-----------------------------------------------------------------------------
(* The variables keep their types.                                         *)
THEOREM FeedTypes == Spec => []TypeOK
  <1>1. IInv => TypeOK
    BY DEF IInv, FeedInv
  <1> QED
    BY <1>1, Invariant, PTL

(* One sale order is made of a Shopify order, unless two requests were     *)
(* busy with it before there was one.                                      *)
THEOREM OneOrderMade == Spec => []OneOrder
  <1>1. IInv => OneOrder
    <2> SUFFICES ASSUME IInv, ~ raced PROVE Cardinality(Placed(order)) <= 1
      BY DEF OneOrder
    <2>1. \A o1, o2 \in Placed(order) : o1 = o2
      BY DEF IInv, RaceInv, RaceGlobal
    <2>2. CASE Placed(order) = {}
      BY <2>2, FS_EmptySet
    <2>3. CASE Placed(order) # {}
      <3>1. PICK o : Placed(order) = {o}
        BY <2>1, <2>3
      <3> QED
        BY <3>1, FS_Singleton
    <2> QED
      BY <2>2, <2>3
  <1> QED
    BY <1>1, Invariant, PTL

(* Only a confirmed order becomes a sale order.                            *)
THEOREM OnlyConfirmed == Spec => []ConfirmedOnly
  <1>1. IInv => ConfirmedOnly
    BY DEF IInv, FeedInv
  <1> QED
    BY <1>1, Invariant, PTL

(* The state of the feed tells whether there is a sale order.              *)
THEOREM FeedTells == Spec => []FeedTellsOrder
  <1>1. IInv => FeedTellsOrder
    BY DEF IInv, RaceInv, RaceGlobal, FeedTellsOrder
  <1> QED
    BY <1>1, Invariant, PTL
=============================================================================
