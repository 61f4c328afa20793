--------------------------- MODULE LightspeedSales ---------------------------
(***************************************************************************)
(* Sales of the Lightspeed shops (syncoria_lightspeed): a fetch stores     *)
(* what the API returns as feeds and evaluates them, which makes an order, *)
(* confirms it, invoices it, registers the payments and delivers.  A feed  *)
(* may be fetched and evaluated any number of times.                       *)
(*                                                                         *)
(* An evaluation swallows its exceptions and has no savepoint: what it did *)
(* before is committed with the request.  A request reads its snapshot and *)
(* its own writes, is rolled back if a row it writes was written since and *)
(* shows nothing before it commits: its evaluations are a part of its      *)
(* commit here.                                                            *)
(*                                                                         *)
(* Bounds: sale 1 is a sale or a deposit, sale 2 returns the goods of      *)
(* sale 1; a payment is one unit of money.  Left out: addresses, products, *)
(* customers (a missing one is an exception before the order).             *)
(***************************************************************************)
EXTENDS Integers, FiniteSets, Functions

CONSTANTS
    NPay,           \* the payments of sale 1, which are its price
    LsWorkers

ASSUME LsAssumption == NPay \in Nat \ {0}

LsSales == {1, 2}
Pays    == 1..NPay

VARIABLES
    deposit,    \* sale 1 has no lines
    taken,      \* Lightspeed: how many payments it has taken for sale 1
    completed,  \* Lightspeed: the sales that are completed
    rows,       \* what is committed in Odoo
    lsc,        \* of a worker: the feeds of its request; none if it is idle
    fetched,    \* the feeds it evaluates, as it has them
    lsnap,      \* its snapshot
    halfPaid,   \* observation only: an evaluation of sale 1 ended in an
                \* exception after it had registered a payment
    byHand      \* observation only: a user confirmed the order

lsvars == <<deposit, taken, completed, rows, lsc, fetched, lsnap, halfPaid, byHand>>

(* A feed keeps the answer of the API: payments and completed.             *)
FeedRow  == [state : {"none", "draft", "done", "error"}, taken : 0..NPay, completed : BOOLEAN]
OrderRow == [state : {"none", "draft", "sale"}, price : 0..NPay, shipped : BOOLEAN]
LsRows == [
    feed    : [LsSales -> FeedRow],
    order   : OrderRow,                             \* of sale 1
    orders  : Nat,                                  \* how many it made
    invoice : {"none", "draft", "posted"},
    paid    : [Pays -> Nat],                        \* payments registered
    credit  : {"none", "draft", "posted"} ]

NoOrderRow == [state |-> "none", price |-> 0, shipped |-> FALSE]
NoFeeds == [s \in LsSales |-> [state |-> "none", taken |-> 0, completed |-> FALSE]]
NoRows == [feed |-> NoFeeds,
           order |-> NoOrderRow, orders |-> 0, invoice |-> "none",
           paid |-> [p \in Pays |-> 0], credit |-> "none"]

LsTypeOK ==
    /\ deposit \in BOOLEAN /\ taken \in 0..NPay /\ completed \subseteq LsSales
    /\ halfPaid \in BOOLEAN /\ byHand \in BOOLEAN
    /\ rows \in LsRows
    /\ lsc \in [LsWorkers -> SUBSET LsSales]
    /\ fetched \in [LsWorkers -> [LsSales -> FeedRow]]
    /\ lsnap \in [LsWorkers -> LsRows]

LsInit ==
    /\ deposit \in BOOLEAN /\ taken = 0 /\ completed = {}
    /\ rows = NoRows
    /\ lsc = [w \in LsWorkers |-> {}]
    /\ fetched = [w \in LsWorkers |-> NoFeeds] /\ lsnap = [w \in LsWorkers |-> NoRows]
    /\ halfPaid = FALSE /\ byHand = FALSE

-----------------------------------------------------------------------------
(* What an evaluation may leave behind: pairs of the rows and whether it   *)
(* ended without exception.  Each stage takes the rows the previous one    *)
(* left, and may raise.                                                    *)

Paid(v)      == SumFunctionOnSet(v.paid, Pays)
Residual(v)  == v.order.price - Paid(v)
Raised(v)    == {<<v, FALSE>>}
Went(v)      == {<<v, TRUE>>}
AfterIt(S, Op(_)) == UNION {IF r[2] THEN Op(r[1]) ELSE {r} : r \in S}

(* Mutant of Matching: the sale gets a new order every time.               *)
MatchingNone(v) == FALSE

(* The order with the id of the sale exists.                               *)
Matching(v) == v.order.state # "none"

(* A draft order is written anew, another one is left as it is.            *)
WithOrder(v) ==
    LET new == [NoOrderRow EXCEPT !.state = "draft", !.price = v.feed[1].taken]
    IN Raised(v) \cup Went(
         IF ~Matching(v)
         THEN [v EXCEPT !.order = new, !.orders = @ + 1, !.invoice = "none"]
         ELSE IF v.order.state = "draft" THEN [v EXCEPT !.order = new] ELSE v)

(* It is confirmed if its total is that of the sale, which rounding or a   *)
(* mapping of taxes may prevent.                                           *)
Confirmed(v) ==
    LET u == [v EXCEPT !.order.state = "sale"]
    IN IF v.order.state = "draft" /\ v.order.price = v.feed[1].taken
       THEN Raised(v) \cup Went(v) \cup Went(u)
       ELSE Went(v)

(* The instance has create_invoice and create_payment on.                  *)
(* _create_invoices has nothing to invoice for an order that is not        *)
(* confirmed; action_post may raise and leave a draft.                     *)
Invoiced(v) ==
    IF v.invoice # "none" THEN Went(v)
    ELSE IF v.order.state # "sale" THEN Raised(v)
    ELSE Raised(v) \cup Raised([v EXCEPT !.invoice = "draft"])
                   \cup Went([v EXCEPT !.invoice = "posted"])

(* payment_state is not_paid or partial.                                   *)
Registers(v) == Residual(v) > 0

(* The payments are registered one after the other; a draft invoice, a     *)
(* payment without a mapping or with nothing left to pay raises.           *)
Through(v, n) == [v EXCEPT !.paid = [p \in Pays |-> @[p] + IF p <= n THEN 1 ELSE 0]]
CanPay(v, n)  == \A p \in 1..n : v.invoice = "posted" /\ Residual(Through(v, p - 1)) > 0

PaymentsMade(v) ==
    LET k == v.feed[1].taken
    IN IF ~Registers(v) THEN Went(v)
       ELSE (UNION {Raised(Through(v, n)) : n \in {m \in 0..k : CanPay(v, m)}})
            \cup IF CanPay(v, k) THEN Went(Through(v, k)) ELSE {}

(* The pickings that are available.                                        *)
Delivered(v) ==
    Raised(v) \cup Went(v) \cup
        IF v.order.state = "sale" THEN Went([v EXCEPT !.order.shipped = TRUE]) ELSE {}

SaleEvaluated(v) ==
    AfterIt(WithOrder(v), LAMBDA u :
        IF ~u.feed[1].completed THEN Went(u)
        ELSE AfterIt(AfterIt(AfterIt(Confirmed(u), Invoiced), PaymentsMade), Delivered))

(* create_deposit: of several payments the last one is made, unless the    *)
(* sale has a payment.  action_post may raise and leave a draft, which     *)
(* counts as the payment of the sale from then on.                         *)
DepositEvaluated(v) ==
    LET k == v.feed[1].taken
        made == [v EXCEPT !.paid[k] = 1] IN
    Raised(v) \cup IF k = 0 \/ Paid(v) > 0 THEN Went(v) ELSE Raised(made) \cup Went(made)

Creditable(v) == v.invoice = "posted" /\ ~Registers(v) /\ v.credit = "none"

(* create_credit_note: of the invoice of the order, if that is paid.       *)
RefundEvaluated(v) ==
    LET made == [v EXCEPT !.credit = "draft"] IN
    Raised(v) \cup
        IF v.order.state = "none" THEN {}
        ELSE IF Creditable(v)
        THEN Raised(made) \cup Went([v EXCEPT !.credit = "posted"])
        ELSE IF v.credit = "draft" THEN Went([v EXCEPT !.credit = "posted"]) ELSE Went(v)

(* evaluate_feed of a feed that is not done.                               *)
Evaluated(v, s) ==
    LET results == IF s = 2 THEN RefundEvaluated(v)
                   ELSE IF deposit THEN DepositEvaluated(v) ELSE SaleEvaluated(v)
    IN {<<[r[1] EXCEPT !.feed[s].state = IF r[2] THEN "done" ELSE "error"], r[2]>> : r \in results}

-----------------------------------------------------------------------------
(* Requests.                                                               *)

BeginLs(w, S, feeds) ==
    /\ lsc[w] = {} /\ S # {}
    /\ lsc' = [lsc EXCEPT ![w] = S]
    /\ fetched' = [fetched EXCEPT ![w] = feeds]
    /\ lsnap' = [lsnap EXCEPT ![w] = rows]
    /\ UNCHANGED <<deposit, taken, completed, rows, halfPaid, byHand>>

(* fetch_orders: the feeds of what the API returns, which the wizard may   *)
(* limit, become drafts again.                                             *)
FetchSales(w) ==
    \E S \in SUBSET LsSales :
        /\ 2 \in S => 2 \in completed
        /\ BeginLs(w, S, [s \in LsSales |->
              IF s \in S THEN [state |-> "draft", taken |-> IF s = 1 THEN taken ELSE 0,
                               completed |-> s \in completed]
              ELSE rows.feed[s]])

(* The button of a feed that is not done.                                  *)
EvaluateButton(w, s) ==
    rows.feed[s].state \in {"draft", "error"} /\ BeginLs(w, {s}, rows.feed)

EndLs(w) ==
    /\ lsc' = [lsc EXCEPT ![w] = {}]
    /\ fetched' = [fetched EXCEPT ![w] = NoFeeds] /\ lsnap' = [lsnap EXCEPT ![w] = NoRows]
    /\ UNCHANGED <<deposit, taken, completed, byHand>>

(* A row that the request changed is its own, unless others have committed *)
(* a change of it; another row is what is committed.                       *)
Ours(old, new, now) == IF new = old THEN now ELSE new
Fits(old, new, now) == new # old => now = old

Compatible(u, v, now) ==
    /\ Fits(u.order, v.order, now.order) /\ Fits(u.orders, v.orders, now.orders)
    /\ Fits(u.invoice, v.invoice, now.invoice) /\ Fits(u.paid, v.paid, now.paid)
    /\ Fits(u.credit, v.credit, now.credit)

Merge(u, v, now, S) ==
    [feed    |-> [s \in LsSales |-> IF s \in S THEN v.feed[s] ELSE now.feed[s]],
     order   |-> Ours(u.order, v.order, now.order),
     orders  |-> Ours(u.orders, v.orders, now.orders),
     invoice |-> Ours(u.invoice, v.invoice, now.invoice),
     paid    |-> Ours(u.paid, v.paid, now.paid),
     credit  |-> Ours(u.credit, v.credit, now.credit)]

(* What the evaluations made of the snapshot, v, is committed.             *)
CommitLs(w) ==
    /\ lsc[w] # {}
    /\ \A s \in lsc[w] : rows.feed[s] = lsnap[w].feed[s]
    /\ LET start == [lsnap[w] EXCEPT !.feed = fetched[w]]
       IN \E r1 \in IF 1 \in lsc[w] THEN Evaluated(start, 1) ELSE Went(start) :
          \E r2 \in IF 2 \in lsc[w] THEN Evaluated(r1[1], 2) ELSE Went(r1[1]) :
             LET v == r2[1]
             IN /\ Compatible(lsnap[w], v, rows)
                /\ rows' = Merge(lsnap[w], v, rows, lsc[w])
                /\ halfPaid' = (halfPaid \/ (~r1[2] /\ Paid(v) > 0 /\ Registers(v)))
    /\ EndLs(w)

LoseLs(w) == lsc[w] # {} /\ UNCHANGED <<rows, halfPaid>> /\ EndLs(w)

-----------------------------------------------------------------------------
(* Lightspeed, users.                                                      *)

(* The shop takes a payment, completes sale 1, or returns its goods.       *)
TakePayment ==
    /\ 1 \notin completed /\ taken < NPay
    /\ taken' = taken + 1
    /\ UNCHANGED <<deposit, completed, rows, lsc, fetched, lsnap, halfPaid, byHand>>

Complete(s) ==
    /\ s \notin completed /\ taken = NPay /\ (s = 2 => 1 \in completed)
    /\ completed' = completed \cup {s}
    /\ UNCHANGED <<deposit, taken, rows, lsc, fetched, lsnap, halfPaid, byHand>>

ConfirmByHand ==
    /\ rows.order.state = "draft"
    /\ rows' = [rows EXCEPT !.order.state = "sale"]
    /\ byHand' = TRUE
    /\ UNCHANGED <<deposit, taken, completed, lsc, fetched, lsnap, halfPaid>>

LsNext ==
    \/ \E w \in LsWorkers :
          \/ FetchSales(w) \/ CommitLs(w) \/ LoseLs(w)
          \/ \E s \in LsSales : EvaluateButton(w, s)
    \/ TakePayment \/ ConfirmByHand
    \/ \E s \in LsSales : Complete(s)

LsSpec == LsInit /\ [][LsNext]_lsvars

-----------------------------------------------------------------------------
(* Properties.                                                             *)

(* However often a sale is fetched, and by whom: it has one order, and     *)
(* each of its payments is registered at most once, unless an evaluation   *)
(* broke off among the payments, and all of them when its feed is done and *)
(* completed and its order was confirmed by the connector.                 *)
LsPaidOnce ==
    /\ rows.orders <= 1
    /\ ~halfPaid => \A p \in Pays : rows.paid[p] <= 1 /\ (rows.paid[p] = 1 => p <= taken)
    /\ ~halfPaid /\ ~byHand /\ ~deposit /\ rows.feed[1].state = "done" /\ rows.feed[1].completed
          => \A p \in Pays : rows.paid[p] = 1

(* What is invoiced is the sale as it was completed, and a credit note     *)
(* needs an invoice that was paid.                                         *)
LsCredited ==
    /\ rows.invoice # "none" /\ ~byHand => 1 \in completed /\ rows.order.price = NPay
    /\ rows.credit # "none" => rows.invoice = "posted" /\ Paid(rows) >= rows.order.price

(* The money of a sale, paid or given back, counts once, as stated above.  *)
LsMoney == LsPaidOnce /\ LsCredited
=============================================================================
