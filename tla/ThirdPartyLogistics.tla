------------------------- MODULE ThirdPartyLogistics -------------------------
(***************************************************************************)
(* Transfers that a 3PL warehouse executes (syncoria_3plcentral): a user   *)
(* pushes a delivery or a receipt, the warehouse ships or cancels its      *)
(* order, and a cron or a user updates the transfer and tells Shopify.     *)
(*                                                                         *)
(* Requests to the warehouse and to Shopify take effect at once, what Odoo *)
(* writes with the commit at the end of the request.  The cron handles all *)
(* transfers in one transaction, swallows every exception and has no       *)
(* savepoint: what a transfer did before its exception is committed.       *)
(*                                                                         *)
(* Left out: internal transfers, several lines, carriers and addresses.    *)
(***************************************************************************)
EXTENDS Integers, FiniteSets, FiniteSetsExt, Functions

CONSTANTS
    Transfers,      \* ids of rows of stock.picking; back orders take a new one
                    \* (a bound: who needs one when there is none waits)
    Remotes,        \* ids of orders and receipts of the warehouse
    TplWorkers,     \* Odoo workers; one of them may run the cron
    Ordered         \* the quantity the customer or the company ordered

ASSUME TplAssumption ==
    /\ Transfers \subseteq Nat \ {0} /\ 1 \in Transfers /\ IsFiniteSet(Transfers)
    /\ Remotes \subseteq Nat \ {0} /\ Ordered \in Nat \ {0}
    /\ IsFiniteSet(TplWorkers)

VARIABLES
    receipt,    \* the transfers are receipts; else deliveries of a Shopify order
    transfer,   \* the committed rows
    remote,     \* the orders of the warehouse
    shopify,    \* the quantity Shopify was told that a transfer has shipped
    tpc,        \* of a worker: idle, a user's request, or the cron
    left,       \* the transfers the cron has still to update
    tsnap, tview, \* its snapshot, and the snapshot with its own writes
    lost,       \* observation only: transfers whose export was lost after the
                \* request or made twice at a time, or whose state was
                \* recomputed
    failed      \* observation only: transfers with an update that was lost, or
                \* ended in an exception, a refusal or with nothing to fulfil

tplvars == <<receipt, transfer, remote, shopify, tpc, left, tsnap, tview, lost, failed>>

TransferRow == [state : {"none", "ready", "push_3pl", "done", "cancel"},
                demand : 0..Ordered, qtyDone : 0..Ordered, threeplId : Remotes \cup {0}]
NoTransfer  == [state |-> "none", demand |-> 0, qtyDone |-> 0, threeplId |-> 0]
RemoteOrder == [status : {"none", "open", "shipped", "cancelled"},
                for : Transfers \cup {0}, qty : 0..Ordered]
NoOrder     == [status |-> "none", for |-> 0, qty |-> 0]

TplTypeOK ==
    /\ receipt \in BOOLEAN
    /\ transfer \in [Transfers -> TransferRow]
    /\ remote \in [Remotes -> RemoteOrder]
    /\ shopify \in [Transfers -> Nat]
    /\ tpc \in [TplWorkers -> {"idle", "user", "cron"}]
    /\ left \in [TplWorkers -> SUBSET Transfers]
    /\ tsnap \in [TplWorkers -> [Transfers -> TransferRow]]
    /\ tview \in [TplWorkers -> [Transfers -> TransferRow]]
    /\ lost \subseteq Transfers /\ failed \subseteq Transfers

Nothing == [i \in Transfers |-> NoTransfer]

TplInit ==
    /\ receipt \in BOOLEAN
    /\ transfer = [Nothing EXCEPT ![1] = [NoTransfer EXCEPT !.state = "ready", !.demand = Ordered]]
    /\ remote = [r \in Remotes |-> NoOrder]
    /\ shopify = [i \in Transfers |-> 0]
    /\ tpc = [w \in TplWorkers |-> "idle"]
    /\ left = [w \in TplWorkers |-> {}]
    /\ tsnap = [w \in TplWorkers |-> Nothing] /\ tview = [w \in TplWorkers |-> Nothing]
    /\ lost = {} /\ failed = {}

(* The next id of the sequence.                                            *)
Unused == {i \in Transfers : \A v \in Range(tview) \cup {transfer} : v[i].state = "none"}
NewId  == Min(Unused)

-----------------------------------------------------------------------------
(* Odoo's side of an export and of an update.                              *)

(* Mutant of SplitOff: the rest is given up.                               *)
SplitOffNothing(v, i) == [v EXCEPT ![i].demand = v[i].qtyDone]

(* What is not done by transfer i goes to a back order.                    *)
SplitOff(v, i) ==
    IF v[i].qtyDone >= v[i].demand THEN v
    ELSE [v EXCEPT ![NewId] = [NoTransfer EXCEPT !.state = "ready",
                                                 !.demand = v[i].demand - v[i].qtyDone],
                   ![i].demand = v[i].qtyDone]

CanSplit(v, i, q) == q >= v[i].demand \/ Unused # {}

(* export_picking_to_3pl asks for what the user entered as done and splits *)
(* the rest off; export_picking_to_3pl_purchase_order asks for everything. *)
Exportable(row) == row.state = "ready" /\ (receipt \/ row.qtyDone > 0)
Asked(row)      == IF receipt THEN row.demand ELSE row.qtyDone
Exported(v, i, r) ==
    LET w == IF receipt THEN v ELSE SplitOff(v, i)
    IN [w EXCEPT ![i].threeplId = r, ![i].state = "push_3pl"]

Updatable(row) == row.state = "push_3pl" /\ row.threeplId # 0

(* button_validate with the quantities of the warehouse, and its wizard,   *)
(* which makes a back order.                                               *)
Validated(v, i, qty) ==
    [SplitOff([v EXCEPT ![i].qtyDone = qty], i) EXCEPT ![i].state = "done"]

Begin3pl(w, k, S) ==
    /\ tpc[w] = "idle"
    /\ tpc' = [tpc EXCEPT ![w] = k]
    /\ left' = [left EXCEPT ![w] = S]
    /\ tsnap' = [tsnap EXCEPT ![w] = transfer]

EndWork(w) ==
    /\ tpc' = [tpc EXCEPT ![w] = "idle"]
    /\ left' = [left EXCEPT ![w] = {}]
    /\ tsnap' = [tsnap EXCEPT ![w] = Nothing] /\ tview' = [tview EXCEPT ![w] = Nothing]

Written(w) == {i \in Transfers : tview[w][i] # tsnap[w][i]}

-----------------------------------------------------------------------------
(* Requests of users.                                                      *)

(* action_push_to_3pl: POST, then the id is stored.                        *)
Push(w, i) ==
    /\ Exportable(transfer[i]) /\ (receipt \/ CanSplit(transfer, i, transfer[i].qtyDone))
    /\ Begin3pl(w, "user", {})
    /\ \E r \in Remotes :
          /\ \A s \in Remotes : s < r <=> remote[s] # NoOrder
          /\ remote' = [remote EXCEPT ![r] =
                [status |-> "open", for |-> i, qty |-> Asked(transfer[i])]]
          /\ tview' = [tview EXCEPT ![w] = Exported(transfer, i, r)]
    /\ lost' = IF \E u \in TplWorkers : i \in Written(u) THEN lost \cup {i} ELSE lost
    /\ UNCHANGED <<receipt, transfer, shopify, failed>>

HasShipped(order) == order.status = "shipped"

(* One update: w goes on with the rows v; Shopify is told of n; ok tells   *)
(* whether it ended without exception and refusal.                         *)
Outcome(w, i, v, n, ok) ==
    /\ tview' = [tview EXCEPT ![w] = v]
    /\ shopify' = [shopify EXCEPT ![i] = @ + n]
    /\ failed' = IF ok THEN failed ELSE failed \cup {i}

(* create_shopify_fulfillment posts what is done to an open fulfilment     *)
(* order, and does not know what was posted for this transfer before: as   *)
(* long as that much of the order is open, Shopify takes it, again too.    *)
Takes(n) == SumFunctionOnSet(shopify, Transfers) + n <= Ordered

(* update_picking_from_3pl, for a worker whose rows are v.  The exceptions *)
(* are: the warehouse does not answer or a product is not found, before    *)
(* the transfer is validated; Shopify does not answer, having taken the    *)
(* fulfilment or not, or the location is not mapped, after it.  The cron   *)
(* goes on with what is there, a user's request is rolled back (v again).  *)
Update(w, i, v, keep) ==
    LET order == remote[v[i].threeplId]
        Sure(u) == IF keep THEN u ELSE v
    IN \/ Outcome(w, i, v, 0, FALSE)
       \/ order.status = "open" /\ ~HasShipped(order) /\ Outcome(w, i, v, 0, TRUE)
       \/ order.status = "cancelled" /\ Outcome(w, i, [v EXCEPT ![i].state = "cancel"], 0, TRUE)
       \/ /\ HasShipped(order)
          /\ Outcome(w, i, Sure([v EXCEPT ![i].qtyDone = order.qty]), 0, FALSE)
       \/ /\ HasShipped(order) /\ CanSplit(v, i, order.qty)
          /\ LET u == Validated(v, i, order.qty) IN
                \/ receipt /\ Outcome(w, i, u, 0, TRUE)
                \/ /\ ~receipt
                   /\ \E n \in {0, order.qty} :
                         /\ Takes(n)
                         /\ Outcome(w, i, u, n, n > 0) \/ Outcome(w, i, Sure(u), n, FALSE)

UpdateButton(w, i) ==
    /\ Updatable(transfer[i])
    /\ Begin3pl(w, "user", {})
    /\ Update(w, i, transfer, FALSE)
    /\ UNCHANGED <<receipt, transfer, remote, lost>>

(* action_update_3pl_pickings.                                             *)
Cron(w) ==
    /\ \A u \in TplWorkers : tpc[u] # "cron"
    /\ \E i \in Transfers : transfer[i].state = "push_3pl"
    /\ Begin3pl(w, "cron", {i \in Transfers : transfer[i].state = "push_3pl"})
    /\ tview' = [tview EXCEPT ![w] = transfer]
    /\ UNCHANGED <<receipt, transfer, remote, shopify, lost, failed>>

CronUpdate(w, i) ==
    /\ tpc[w] = "cron" /\ i \in left[w]
    /\ left' = [left EXCEPT ![w] = @ \ {i}]
    /\ IF Updatable(tview[w][i]) THEN Update(w, i, tview[w], TRUE)
                                 ELSE UNCHANGED <<tview, shopify, failed>>
    /\ UNCHANGED <<receipt, transfer, remote, tpc, tsnap, lost>>

Commit3pl(w) ==
    /\ tpc[w] # "idle" /\ left[w] = {}
    /\ \A i \in Written(w) : transfer[i] = tsnap[w][i]
    /\ transfer' = [i \in Transfers |-> IF i \in Written(w) THEN tview[w][i] ELSE transfer[i]]
    /\ EndWork(w)
    /\ UNCHANGED <<receipt, remote, shopify, lost, failed>>

(* A conflict or the death of the worker: nothing is committed.            *)
Lose3pl(w) ==
    /\ tpc[w] # "idle"
    /\ LET mine == {i \in Written(w) : tsnap[w][i].state # "none"} IN
          lost' = lost \cup mine /\ failed' = failed \cup mine
    /\ EndWork(w)
    /\ UNCHANGED <<receipt, transfer, remote, shopify>>

-----------------------------------------------------------------------------
(* Users, Odoo, the warehouse.                                             *)

(* A user enters what is done.                                             *)
EnterDone(i, q) ==
    /\ transfer[i].state = "ready" /\ q \in 1..transfer[i].demand
    /\ transfer[i].qtyDone # q
    /\ transfer' = [transfer EXCEPT ![i].qtyDone = q]
    /\ UNCHANGED <<receipt, remote, shopify, tpc, left, tsnap, tview, lost, failed>>

(* state is a stored computed field: when the moves of a transfer change,  *)
(* Odoo computes it again from their states, none of which is push_3pl.    *)
Recompute(i) ==
    /\ transfer[i].state = "push_3pl"
    /\ transfer' = [transfer EXCEPT ![i].state = "ready"]
    /\ lost' = lost \cup {i}
    /\ UNCHANGED <<receipt, remote, shopify, tpc, left, tsnap, tview, failed>>

(* The warehouse ships all or less, or cancels.                            *)
Ship(r) ==
    /\ remote[r].status = "open"
    /\ \/ \E q \in 1..remote[r].qty :
             remote' = [remote EXCEPT ![r].status = "shipped", ![r].qty = q]
       \/ remote' = [remote EXCEPT ![r].status = "cancelled"]
    /\ UNCHANGED <<receipt, transfer, shopify, tpc, left, tsnap, tview, lost, failed>>

TplNext ==
    \/ \E w \in TplWorkers :
          \/ Cron(w) \/ Commit3pl(w) \/ Lose3pl(w)
          \/ \E i \in Transfers : Push(w, i) \/ UpdateButton(w, i) \/ CronUpdate(w, i)
    \/ \E i \in Transfers : Recompute(i) \/ \E q \in 1..Ordered : EnterDone(i, q)
    \/ \E r \in Remotes : Ship(r)

TplSpec == TplInit /\ [][TplNext]_tplvars

-----------------------------------------------------------------------------
(* Properties.                                                             *)

OrdersFor(i) == {r \in Remotes : remote[r].for = i}

(* A transfer is sent to the warehouse once, unless the export was lost    *)
(* after the request or Odoo recomputed its state.                         *)
TplOneOrder == \A i \in Transfers \ lost : Cardinality(OrdersFor(i)) <= 1

Demanded(v) == SumFunctionOnSet([i \in Transfers |-> v[i].demand], Transfers)

(* Back orders neither lose nor invent goods, and a transfer that is done  *)
(* has moved what the warehouse has shipped for it.                        *)
TplQuantities ==
    /\ Demanded(transfer) = Ordered
    /\ \A i \in Transfers : transfer[i].state = "done" =>
          /\ transfer[i].qtyDone = transfer[i].demand
          /\ LET order == remote[transfer[i].threeplId] IN
                order.status = "shipped" /\ order.for = i /\ order.qty = transfer[i].qtyDone

Moved(v, i) == IF v[i].state = "done" THEN v[i].qtyDone ELSE 0

(* What w has moved, and not committed yet.                                *)
Moving(w, i) == IF tsnap[w][i].state = "done" THEN 0 ELSE Moved(tview[w], i)

(* The customer is told of goods that the warehouse has shipped; and of    *)
(* what a transfer has moved, or is about to commit, exactly, as long as   *)
(* no update of it failed or was lost.  (After that he may be told twice:  *)
(* nothing remembers a fulfilment that was rolled back.)                   *)
TplTold ==
    \A i \in Transfers :
        /\ shopify[i] > 0 => \E r \in OrdersFor(i) : remote[r].status = "shipped"
        /\ ~receipt /\ i \notin failed =>
              shopify[i] = Moved(transfer, i)
                           + SumFunctionOnSet([w \in TplWorkers |-> Moving(w, i)], TplWorkers)

(* What the warehouse ships, once for a transfer, is what was moved and    *)
(* what the customer was told.                                             *)
TplShipped == TplOneOrder /\ TplQuantities /\ TplTold

=============================================================================
