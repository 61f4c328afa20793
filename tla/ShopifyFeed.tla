------------------------------ MODULE ShopifyFeed ------------------------------
(***************************************************************************)
(* How one Shopify order becomes a sale order (syncoria_shopify): webhook  *)
(* requests, runs of the fetch wizard and the button of the feed form all  *)
(* execute ShopifyFeedOrders.process_feed_order, in Odoo workers that      *)
(* share one database.                                                     *)
(*                                                                         *)
(* PostgreSQL runs their transactions at REPEATABLE READ: a process reads  *)
(* its snapshot and its own writes, and an UPDATE of a row that somebody   *)
(* else has updated since the snapshot is an error.  The code commits in   *)
(* the middle of a request, so one request is several transactions.        *)
(*                                                                         *)
(* Left out: the rows of payments, refunds and fulfilments that the same   *)
(* requests write after the sale order, and orders without a customer.     *)
(***************************************************************************)
EXTENDS Integers, FiniteSets, FiniteSetsExt

CONSTANTS
    Procs,      \* the Odoo workers that may be busy with this order
    Feeds,      \* ids of rows of shopify.feed.orders
    Orders,     \* ids of rows of sale.order
    Customers,  \* ids of rows of res.partner
    None        \* no row

Stages  == 0..2
FeedRow == [data : Stages, state : {"draft", "processed", "failed"}]

(* A column id is an int4, so there are finitely many.                     *)
ASSUME IdsAssumption ==
    /\ Feeds \subseteq Nat /\ Orders \subseteq Nat /\ Customers \subseteq Nat
    /\ IsFiniteSet(Feeds) /\ IsFiniteSet(Orders) /\ IsFiniteSet(Customers)
    /\ None \notin Feeds \cup Orders \cup FeedRow

VARIABLES
    shop,       \* the order in Shopify: 0 unconfirmed, 1 confirmed, 2 cancelled
    feed, order, customers,     \* what is committed
    pc, kind,   \* of a process; kind is what it serves
    msg,        \* the payload it works with
    mine,       \* its feed row
    again,      \* the webhook controller will call process_feed_order once more
    created,    \* the webhook request has inserted its feed row
    snap,       \* its snapshot
    stale,      \* the rows others have updated since
    raced       \* observation only: two processes were busy at a time before
                \* there was a sale order

database == <<feed, order, customers>>
locals   == <<kind, msg, mine, again, created>>
vars     == <<shop, database, pc, locals, snap, stale, raced>>

Confirmed(v) == v >= 1
Cancelled(v) == v = 2

InTransaction == {"feed", "check", "recheck", "create"}

Committed == [feed |-> feed, order |-> order, customers |-> customers]
Snapshots == [feed : [Feeds -> FeedRow \cup {None}],
              order : [Orders -> {"none", "draft", "sale", "cancel"}],
              customers : SUBSET Customers]
Blank     == [feed |-> [f \in Feeds |-> None], order |-> [o \in Orders |-> "none"],
              customers |-> {}]

TypeOK ==
    /\ shop \in Stages
    /\ Committed \in Snapshots
    /\ pc \in [Procs -> {"idle", "ready", "found"} \cup InTransaction]
    /\ kind \in [Procs -> {"webhook", "wizard", "button"}]
    /\ msg \in [Procs -> Stages]
    /\ mine \in [Procs -> Feeds \cup {None}]
    /\ again \in [Procs -> BOOLEAN] /\ created \in [Procs -> BOOLEAN]
    /\ snap \in [Procs -> Snapshots]
    /\ stale \in [Procs -> SUBSET ((Feeds \X {"feed"}) \cup (Orders \X {"order"}))]
    /\ raced \in BOOLEAN

Init ==
    /\ shop = 0
    /\ feed = Blank.feed /\ order = Blank.order /\ customers = {}
    /\ pc = [p \in Procs |-> "idle"]
    /\ kind = [p \in Procs |-> "webhook"]
    /\ msg = [p \in Procs |-> 0]
    /\ mine = [p \in Procs |-> None]
    /\ again = [p \in Procs |-> FALSE] /\ created = [p \in Procs |-> FALSE]
    /\ snap = [p \in Procs |-> Blank]
    /\ stale = [p \in Procs |-> {}]
    /\ raced = FALSE

Rows(fs)   == {f \in Feeds : fs[f] # None}
Placed(os) == {o \in Orders : os[o] # "none"}
(* The row a search with limit=1 returns: feeds by name DESC, orders by id *)
(* desc.  A name or id is drawn before the commit, so rows do not appear   *)
(* in the order of their ids.                                              *)
Latest(S) == IF S = {} THEN None ELSE Max(S)

-----------------------------------------------------------------------------
(* Transactions.                                                           *)

(* The first query after a commit takes the snapshot.  The feed row that   *)
(* the request has seen or written stays in the cache of the ORM across    *)
(* commits, until some method invalidates the cache.                       *)
Begin(p) ==
    /\ \/ snap' = [snap EXCEPT ![p] = Committed]
       \/ \E f \in Rows(snap[p].feed) :
             snap' = [snap EXCEPT ![p] = [Committed EXCEPT !.feed[f] = snap[p].feed[f]]]
    /\ stale' = [stale EXCEPT ![p] = {}]

(* Between two transactions only the cached row is kept.                   *)
Cache(p, f, row) == snap' = [snap EXCEPT ![p] = [Blank EXCEPT !.feed[f] = row]]

(* p commits its updates of the rows of U: those are stale for the others. *)
Commit(p, U) ==
    stale' = [q \in Procs |-> IF q = p THEN {}
                              ELSE IF pc[q] \in InTransaction THEN stale[q] \cup U ELSE {}]

FeedRowOf(p) == <<mine[p], "feed">>

Goto(p, l) == pc' = [pc EXCEPT ![p] = l]

(* From here on, p does not use the payload it has parsed.                 *)
DropMsg(p) == msg' = [msg EXCEPT ![p] = 0]

Forget(p) ==
    /\ DropMsg(p)
    /\ kind' = [kind EXCEPT ![p] = "webhook"]
    /\ mine' = [mine EXCEPT ![p] = None]
    /\ again' = [again EXCEPT ![p] = FALSE] /\ created' = [created EXCEPT ![p] = FALSE]
    /\ snap' = [snap EXCEPT ![p] = Blank]

(* process_feed_order returns, with s as the state of the feed: the        *)
(* webhook controller calls it once more.                                  *)
Return(p, s) ==
    IF again[p]
    THEN /\ Goto(p, "ready")
         /\ again' = [again EXCEPT ![p] = FALSE]
         /\ Cache(p, mine[p], [snap[p].feed[mine[p]] EXCEPT !.state = s])
         /\ DropMsg(p)
         /\ UNCHANGED <<kind, mine, created>>
    ELSE Goto(p, "idle") /\ Forget(p)

-----------------------------------------------------------------------------
(* A request begins.                                                       *)

Start(p, k, l) ==
    /\ pc[p] = "idle"
    /\ Goto(p, l)
    /\ kind' = [kind EXCEPT ![p] = k]
    /\ raced' = (raced \/ (Placed(order) = {} /\ \E q \in Procs : pc[q] # "idle"))
    /\ UNCHANGED <<shop, database, created>>

(* The order moves on in Shopify.                                          *)
Advance ==
    /\ shop < 2
    /\ shop' = shop + 1
    /\ UNCHANGED <<database, pc, locals, snap, stale, raced>>

(* A webhook, with the payload of any event so far: Shopify repeats and    *)
(* reorders deliveries.                                                    *)
Receive(p) ==
    /\ Start(p, "webhook", "feed")
    /\ \E v \in 0..shop : msg' = [msg EXCEPT ![p] = v]
    /\ again' = [again EXCEPT ![p] = TRUE]
    /\ Begin(p)
    /\ UNCHANGED mine

(* shopify_fetch_orders, with an answer that holds this order: the wizard  *)
(* of a user asks for dates or for an id, without dates (as the scheduled  *)
(* action does) for the orders created today and the refunded ones updated *)
(* today.  It comes to this order some time later.                         *)
Fetch(p) ==
    /\ Start(p, "wizard", "ready")
    /\ msg' = [msg EXCEPT ![p] = shop]
    /\ UNCHANGED <<mine, again, snap, stale>>

(* The button "Process Feed Order".                                        *)
Press(p) ==
    /\ Start(p, "button", "ready")
    /\ \E f \in Rows(feed) : mine' = [mine EXCEPT ![p] = f]
    /\ UNCHANGED <<msg, again, snap, stale>>

(* The next transaction of p.                                              *)
Resume(p) ==
    /\ \/ pc[p] = "ready" /\ mine[p] = None /\ Goto(p, "feed")
       \/ pc[p] = "ready" /\ mine[p] # None /\ Goto(p, "check")
       \/ pc[p] = "found" /\ Goto(p, "create")
    /\ Begin(p)
    /\ UNCHANGED <<shop, database, locals, raced>>

-----------------------------------------------------------------------------
(* create_feed_orders, of the controller and of the wizard.                *)

FoundFeed(p) == Latest(Rows(snap[p].feed))

Leave(p) ==
    /\ Goto(p, "ready")
    /\ DropMsg(p)
    /\ UNCHANGED <<shop, order, customers, kind, again, raced>>

NewFeed(p) ==
    /\ pc[p] = "feed" /\ FoundFeed(p) = None
    /\ \E f \in Feeds \ Rows(feed) :
          /\ feed' = [feed EXCEPT ![f] = [data |-> msg[p], state |-> "draft"]]
          /\ mine' = [mine EXCEPT ![p] = f]
          /\ Cache(p, f, [data |-> msg[p], state |-> "draft"])
    /\ created' = [created EXCEPT ![p] = TRUE]
    /\ Commit(p, {})
    /\ Leave(p)

(* The controller leaves the feed as it is, its payload is dropped ...     *)
KeepFeed(p) ==
    /\ pc[p] = "feed" /\ kind[p] = "webhook" /\ FoundFeed(p) # None
    /\ mine' = [mine EXCEPT ![p] = FoundFeed(p)]
    /\ snap' = [snap EXCEPT ![p] = Blank]
    /\ Commit(p, {})
    /\ Leave(p)
    /\ UNCHANGED <<feed, created>>

(* Mutant of RefreshFeed: the wizard too leaves the payload of a feed.     *)
DropPayload(p) ==
    /\ pc[p] = "feed" /\ kind[p] = "wizard" /\ FoundFeed(p) # None
    /\ mine' = [mine EXCEPT ![p] = FoundFeed(p)]
    /\ snap' = [snap EXCEPT ![p] = Blank]
    /\ Commit(p, {})
    /\ Leave(p)
    /\ UNCHANGED <<feed, created>>

(* ... the wizard replaces the payload, and leaves the state.  It has not  *)
(* read the row, so the ORM writes an equal payload as well.               *)
RefreshFeed(p) ==
    LET f == FoundFeed(p)
    IN  /\ pc[p] = "feed" /\ kind[p] = "wizard" /\ f # None
        /\ <<f, "feed">> \notin stale[p]
        /\ feed' = [feed EXCEPT ![f].data = msg[p]]
        /\ mine' = [mine EXCEPT ![p] = f]
        /\ snap' = [snap EXCEPT ![p] = Blank]
        /\ Commit(p, {<<f, "feed">>})
        /\ Leave(p)
        /\ UNCHANGED created

-----------------------------------------------------------------------------
(* process_feed_order.                                                     *)

Payload(p)    == snap[p].feed[mine[p]].data
FoundOrder(p) == Latest(Placed(snap[p].order))

OwnState(p)   == snap[p].feed[mine[p]].state

SetFeedState(p, s) == feed' = [feed EXCEPT ![mine[p]].state = s]

(* "recheck" is the second call in the transaction of the first one, which *)
(* has changed the state of the feed and has not committed that.           *)
Checking(p)       == pc[p] \in {"check", "recheck"}
StateUpdate(p, s) == IF pc[p] # "recheck" /\ snap[p].feed[mine[p]].state = s
                     THEN {} ELSE {FeedRowOf(p)}
SaveState(p, s)   == IF StateUpdate(p, s) = {} THEN feed' = feed ELSE SetFeedState(p, s)

(* The call returns without having reached its own commit, with s as the   *)
(* state of the feed and the rows of R written besides.  The webhook       *)
(* then commits the log record of a feed it has created; without one the   *)
(* second call goes on in the same transaction (and writes R again, in the *)
(* snapshot of the first).  Every other request commits at its end.        *)
ReturnEarly(p, s, R) ==
    IF again[p] /\ ~ created[p]
    THEN /\ Goto(p, IF StateUpdate(p, s) = {} THEN "check" ELSE "recheck")
         /\ again' = [again EXCEPT ![p] = FALSE]
         /\ snap' = [snap EXCEPT ![p].feed[mine[p]].state = s]
         /\ DropMsg(p)
         /\ UNCHANGED <<feed, kind, mine, created, stale>>
    ELSE LET U == R \cup StateUpdate(p, s)
         IN  /\ U \cap stale[p] = {}
             /\ SaveState(p, s)
             /\ Commit(p, U)
             /\ Return(p, s)

(* The else branch: the sale order exists, and its instance is written.  A *)
(* cancelled order is cancelled here too, every other change of the        *)
(* payload stays out.  os is what becomes of the orders.                   *)
OrderRow(p) == <<FoundOrder(p), "order">>

SaveOrder(p, os) ==
    LET U == {OrderRow(p)} \cup StateUpdate(p, "processed")
    IN  /\ Checking(p) /\ FoundOrder(p) # None
        /\ U \cap stale[p] = {}
        /\ order' = os
        /\ SaveState(p, "processed")
        /\ Commit(p, U)
        /\ Return(p, "processed")
        /\ UNCHANGED <<shop, customers, raced>>

(* Mutant of UpdateOrder: no action_cancel in the else branch.             *)
UpdateWithoutCancel(p) == SaveOrder(p, order)

UpdateOrder(p) ==
    SaveOrder(p, IF Cancelled(Payload(p)) THEN [order EXCEPT ![FoundOrder(p)] = "cancel"]
                                          ELSE order)

(* action_cancel answers an order that has a draft invoice with a wizard,  *)
(* which nobody opens: the order stays as it is.                           *)
CancelAsks(p) == Checking(p) /\ Cancelled(Payload(p)) /\ SaveOrder(p, order)

(* action_cancel raises: the exception is caught, the feed keeps its state *)
(* and no order is left for the payments and the commit.                   *)
CancelRaises(p) ==
    /\ Checking(p) /\ FoundOrder(p) # None /\ Cancelled(Payload(p))
    /\ ReturnEarly(p, OwnState(p), {OrderRow(p)})
    /\ UNCHANGED <<shop, order, customers, raced>>

(* The else branch for an unconfirmed order: there is no sale order, the   *)
(* feed counts as processed, and the unbound order_id ends the call.       *)
Unconfirmed(p) ==
    /\ Checking(p) /\ FoundOrder(p) = None /\ ~ Confirmed(Payload(p))
    /\ ReturnEarly(p, "processed", {})
    /\ UNCHANGED <<shop, order, customers, raced>>

(* The row of the customer; nobody looks at its id.                        *)
WithCustomer(p) ==
    IF snap[p].customers # {} THEN customers
                              ELSE customers \cup {Min(Customers \ customers)}

(* The commit of get_customer_id, which saves what the first call left     *)
(* uncommitted too.                                                        *)
TakeCustomer(p) ==
    /\ snap[p].customers # {} \/ customers # Customers
    /\ StateUpdate(p, OwnState(p)) \cap stale[p] = {}
    /\ SaveState(p, OwnState(p))
    /\ customers' = WithCustomer(p)
    /\ msg' = [msg EXCEPT ![p] = Payload(p)]
    /\ Commit(p, StateUpdate(p, OwnState(p)))
    /\ Goto(p, "found")
    /\ Cache(p, mine[p], snap[p].feed[mine[p]])
    /\ UNCHANGED <<shop, order, kind, mine, again, created, raced>>

(* Mutant of FindCustomer: no search for the sale order.                   *)
FindCustomerAlways(p) ==
    /\ Checking(p) /\ Confirmed(Payload(p))
    /\ TakeCustomer(p)

(* Mutant of FindCustomer: unconfirmed orders are not left out.            *)
FindCustomerOfAny(p) ==
    /\ Checking(p) /\ FoundOrder(p) = None
    /\ TakeCustomer(p)

(* A confirmed order that has no sale order: get_customer_id finds or      *)
(* creates the customer and commits, long before the sale order is made.   *)
FindCustomer(p) ==
    /\ Checking(p) /\ FoundOrder(p) = None /\ Confirmed(Payload(p))
    /\ TakeCustomer(p)

(* What becomes of the new order: action_confirm and action_cancel may     *)
(* raise; the exception is caught and the order stays.                     *)
FirstStates(v) == {"draft", "sale"} \cup IF Cancelled(v) THEN {"cancel"} ELSE {}

(* Mutant of CreateOrder: the state of the feed is forgotten.              *)
CreateUnmarked(p) ==
    /\ pc[p] = "create"
    /\ FeedRowOf(p) \notin stale[p]
    /\ \E o \in Orders \ Placed(order), s \in FirstStates(msg[p]) :
          order' = [order EXCEPT ![o] = s]
    /\ feed' = feed
    /\ Commit(p, {FeedRowOf(p)})
    /\ Return(p, "processed")
    /\ UNCHANGED <<shop, customers, raced>>

(* The sale order is created, the feed gets its state and its sale_id.     *)
CreateOrder(p) ==
    /\ pc[p] = "create"
    /\ FeedRowOf(p) \notin stale[p]
    /\ \E o \in Orders \ Placed(order), s \in FirstStates(msg[p]) :
          order' = [order EXCEPT ![o] = s]
    /\ SetFeedState(p, "processed")
    /\ Commit(p, {FeedRowOf(p)})
    /\ Return(p, "processed")
    /\ UNCHANGED <<shop, customers, raced>>

(* A product of the order is missing in Odoo.                              *)
FailFeed(p) ==
    /\ pc[p] = "create"
    /\ ReturnEarly(p, "failed", {})
    /\ UNCHANGED <<shop, order, customers, raced>>

(* The request ends and its open transaction is rolled back.               *)
RollBack(p) ==
    /\ Goto(p, "idle")
    /\ Forget(p)
    /\ stale' = [stale EXCEPT ![p] = {}]
    /\ UNCHANGED <<shop, database, raced>>

(* An UPDATE fails to serialize.  The exception is caught somewhere above, *)
(* but the transaction is aborted and nothing can be done in it any more.  *)
Lose(p) ==
    /\ \/ /\ pc[p] = "feed" /\ kind[p] = "wizard" /\ FoundFeed(p) # None
          /\ <<FoundFeed(p), "feed">> \in stale[p]
       \/ /\ Checking(p) /\ FoundOrder(p) # None
          /\ stale[p] \cap ({OrderRow(p)} \cup StateUpdate(p, "processed")) # {}
       \/ /\ Checking(p) /\ FoundOrder(p) = None /\ ~ Confirmed(Payload(p))
          /\ stale[p] \cap StateUpdate(p, "processed") # {}
       \/ pc[p] \in {"recheck", "create"} /\ FeedRowOf(p) \in stale[p]
    /\ RollBack(p)

(* The worker dies, or an exception leaves the wizard or the button: one   *)
(* of the payments and refunds fetched before the last commit, outside the *)
(* try, among them.  (The webhook catches that one, and commits.)          *)
Crash(p) == pc[p] # "idle" /\ RollBack(p)

-----------------------------------------------------------------------------
Work(p) ==
    \/ Resume(p)
    \/ NewFeed(p) \/ KeepFeed(p) \/ RefreshFeed(p)
    \/ UpdateOrder(p) \/ Unconfirmed(p) \/ FindCustomer(p) \/ CreateOrder(p)
    \/ Lose(p)

Requested == \E p \in Procs : Receive(p) \/ Press(p)
Faults    == \E p \in Procs : FailFeed(p) \/ CancelAsks(p) \/ CancelRaises(p) \/ Crash(p)

Next ==
    \/ Advance \/ Requested \/ Faults
    \/ \E p \in Procs : Fetch(p) \/ Work(p)

Spec == Init /\ [][Next]_vars

(* A request that has begun is served to its end.  Nothing says that one   *)
(* begins: webhooks get lost, the scheduled fetch is installed inactive.   *)
Fairness == \A p \in Procs : WF_vars(Work(p))

-----------------------------------------------------------------------------
(* However often webhooks are repeated, requests crash and users process   *)
(* the feed again, at a time or in turn, one sale order is made of a       *)
(* Shopify order: unless two requests are busy with it before there is     *)
(* one, when both may miss the other's.                                    *)
OneOrder == ~ raced => Cardinality(Placed(order)) <= 1

(* "Process Only Shopify Confirmed Orders": late payloads included.        *)
ConfirmedOnly == Placed(order) # {} => Confirmed(shop)

(* What the feed says is what happened, also after a crash at any commit:  *)
(* a failed feed has no sale order, and one that has is processed.         *)
FeedTellsOrder ==
    ~ raced =>
        \A f \in Rows(feed) :
            /\ feed[f].state = "failed" => Placed(order) = {}
            /\ Placed(order) # {} => feed[f].state = "processed"

(* "check the customer associated with the order, if the customer is new,  *)
(* then create a new customer, otherwise select existing record"           *)
OneCustomer == Cardinality(customers) <= 1

(* p serves a fetch and comes to the order next.                           *)
Fetched(p) == pc[p] = "ready" /\ kind[p] = "wizard" /\ mine[p] = None

(* Another request updates a row under p, or another fetch, whose payload  *)
(* may be older, is under way.                                             *)
Disturbed(p) == stale[p] # {} \/ \E q \in Procs \ {p} : kind[q] = "wizard"
=============================================================================
