--------------------------- MODULE ShopifyPayments ---------------------------
(***************************************************************************)
(* The money of one Shopify order that already is a confirmed sale order   *)
(* (syncoria_shopify/models/sale.py): transactions and refunds are fetched *)
(* from Shopify, and become an invoice, payments and credit notes.  The    *)
(* tail of process_feed_order does all of it at every processing of the    *)
(* feed; process_shopify_refunds and the buttons do parts of it.           *)
(*                                                                         *)
(* A process reads its snapshot and its own writes.  Methods commit in the *)
(* middle of a request.  An UPDATE of a row that somebody else has updated *)
(* since the snapshot is an error (REPEATABLE READ), an INSERT is not: what*)
(* is searched and then created may be created twice.                      *)
(*                                                                         *)
(* Left out: cancelled orders, currencies, journals; the branch of         *)
(* marketplaces without transactions (apply_payment_immediate).            *)
(***************************************************************************)
EXTENDS Integers, FiniteSets, Functions, Sequences

CONSTANTS
    Procs,          \* the Odoo workers that may be busy with this order
    Txs,            \* its sale transactions in Shopify
    Slow,           \* those that may be pending for a while (a bound)
    Refunds,        \* its refunds in Shopify, each with one transaction
    Amount,         \* what a transaction or a refund moves
    Items,          \* the lines of a refund: its skus, and for each sku the
                    \* quantities of the lines with it, in their order
    InvoiceTotal

ASSUME AmountsAssumption ==
    /\ Amount \in [Txs \cup Refunds -> Nat \ {0}] /\ Slow \subseteq Txs
    /\ InvoiceTotal \in Nat \ {0}
    /\ IsFiniteSet(Txs) /\ IsFiniteSet(Procs)
    /\ \A r \in Refunds : /\ IsFiniteSet(DOMAIN Items[r])
                          /\ \A sku \in DOMAIN Items[r] : Items[r][sku] \in Seq(Nat) \ {<<>>}

VARIABLES
    sales, refunded,    \* Shopify: the state of each transaction; the refunds
    db,                 \* what is committed
    pc, kind,           \* of a process
    open,               \* it has a transaction open
    base, view,         \* its snapshot, and the snapshot with its own writes
    todo                \* the refunds its credit loop has still to look at

vars == <<sales, refunded, db, pc, kind, open, base, view, todo>>

Statuses == {"none", "pending", "success"}

Databases == [
    tx       : [Txs -> Statuses],          \* rows of shopify.transactions
    invoices : Nat,                        \* posted invoices of the order
    paid     : [Txs -> Nat],               \* payments with this shopify_id
    byHand   : BOOLEAN,                    \* somebody paid what was left
    isInvoice: BOOLEAN, isRefund : BOOLEAN,\* shopify_is_invoice, _is_refund
    rows     : [Refunds -> SUBSET Procs],  \* who inserted rows for the refund
    (* The credit note of a row, as the set of the rows it was made for:   *)
    (* {} if the row is not processed_in_odoo.                             *)
    note     : [Refunds -> [Procs -> SUBSET Procs]],
    credits  : [Refunds -> Nat],           \* credit notes posted for it
    repaid   : [Refunds -> [Procs -> Nat]] ] \* payments made for the row

Empty == [tx |-> [t \in Txs |-> "none"], invoices |-> 0, paid |-> [t \in Txs |-> 0],
          byHand |-> FALSE, isInvoice |-> FALSE, isRefund |-> FALSE,
          rows |-> [r \in Refunds |-> {}],
          note |-> [r \in Refunds |-> [q \in Procs |-> {}]],
          credits |-> [r \in Refunds |-> 0],
          repaid |-> [r \in Refunds |-> [q \in Procs |-> 0]]]

Stages == {"idle", "fetch", "invoice", "pay", "credit"}

TypeOK ==
    /\ sales \in [Txs -> Statuses] /\ refunded \subseteq Refunds
    /\ db \in Databases
    /\ pc \in [Procs -> Stages] /\ kind \in [Procs -> {"feed", "refunds", "payments"}]
    /\ open \in [Procs -> BOOLEAN]
    /\ base \in [Procs -> Databases] /\ view \in [Procs -> Databases]
    /\ todo \in [Procs -> SUBSET Refunds]

Init ==
    /\ sales = [t \in Txs |-> "none"] /\ refunded = {}
    /\ db = Empty
    /\ pc = [p \in Procs |-> "idle"] /\ kind = [p \in Procs |-> "feed"]
    /\ open = [p \in Procs |-> FALSE]
    /\ base = [p \in Procs |-> Empty] /\ view = [p \in Procs |-> Empty]
    /\ todo = [p \in Procs |-> {}]

-----------------------------------------------------------------------------
(* Amounts.                                                                *)

Due(d) == IF d.byHand THEN 0
          ELSE InvoiceTotal - SumFunctionOnSet([t \in Txs |-> d.paid[t] * Amount[t]], Txs)

(* What a credit note for r gives back: the loop over the refund's lines   *)
(* asks item_dict for the key 'sku', which is never there, so of several   *)
(* lines with one sku only the last one counts.                            *)
NoteTotal(r) ==
    SumFunctionOnSet([sku \in DOMAIN Items[r] |-> Items[r][sku][Len(Items[r][sku])]], DOMAIN Items[r])

Notes(d, r) == {d.note[r][q] : q \in Procs} \ {{}}
Owed(d, r, n) == NoteTotal(r) - Amount[r] * SumFunctionOnSet(d.repaid[r], n)

-----------------------------------------------------------------------------
(* Transactions.  The rows two of them may both update are: the lines of   *)
(* the sale order (every invoice and credit note changes what is invoiced),*)
(* the invoice and each credit note (payments), and the sale order.        *)

Lines(d)      == <<d.invoices, d.note, d.credits>>
Bill(d)       == <<d.paid, d.byHand>>
NoteRow(d, r, n) == [q \in n |-> d.repaid[r][q]]
SaleOrder(d)  == <<d.isInvoice, d.isRefund>>

Touched(a, b) ==
       (IF Lines(a) # Lines(b) THEN {<<"lines", {}>>} ELSE {})
  \cup (IF Bill(a) # Bill(b) THEN {<<"invoice", {}>>} ELSE {})
  \cup (IF SaleOrder(a) # SaleOrder(b) THEN {<<"order", {}>>} ELSE {})
  \cup UNION {{<<r, n>> : n \in {m \in Notes(a, r) : NoteRow(a, r, m) # NoteRow(b, r, m)}} :
              r \in Refunds}

Serializable(p, v) == Touched(base[p], v) \cap Touched(base[p], db) = {}

Newer(s, t) == IF "success" \in {s, t} THEN "success" ELSE IF s = "none" THEN t ELSE s

(* v over what others have committed.                                      *)
Merged(p, v) ==
    LET b == base[p]
        Pick(mine, before, theirs) == IF mine = before THEN theirs ELSE mine
    IN [tx       |-> [t \in Txs |-> Newer(v.tx[t], db.tx[t])],
        invoices |-> Pick(v.invoices, b.invoices, db.invoices),
        paid     |-> [t \in Txs |-> Pick(v.paid[t], b.paid[t], db.paid[t])],
        byHand   |-> v.byHand \/ db.byHand,
        isInvoice|-> v.isInvoice \/ db.isInvoice,
        isRefund |-> v.isRefund \/ db.isRefund,
        rows     |-> [r \in Refunds |-> v.rows[r] \cup db.rows[r]],
        note     |-> [r \in Refunds |-> [q \in Procs |->
                        Pick(v.note[r][q], b.note[r][q], db.note[r][q])]],
        credits  |-> [r \in Refunds |-> Pick(v.credits[r], b.credits[r], db.credits[r])],
        repaid   |-> [r \in Refunds |-> [q \in Procs |->
                        Pick(v.repaid[r][q], b.repaid[r][q], db.repaid[r][q])]]]

Close(p) ==
    /\ open' = [open EXCEPT ![p] = FALSE]
    /\ base' = [base EXCEPT ![p] = Empty] /\ view' = [view EXCEPT ![p] = Empty]

(* p goes on at l after a commit, or in the same transaction.              *)
Commit(p, v, l) ==
    /\ Serializable(p, v)
    /\ db' = Merged(p, v)
    /\ Close(p)
    /\ pc' = [pc EXCEPT ![p] = l]

Continue(p, v, l) ==
    /\ view' = [view EXCEPT ![p] = v]
    /\ pc' = [pc EXCEPT ![p] = l]
    /\ UNCHANGED <<db, open, base>>

At(p, l) == pc[p] = l /\ open[p]

-----------------------------------------------------------------------------
(* A request.                                                              *)

(* p takes its snapshot.                                                   *)
Open(p) ==
    /\ open' = [open EXCEPT ![p] = TRUE]
    /\ base' = [base EXCEPT ![p] = db] /\ view' = [view EXCEPT ![p] = db]

(* process_feed_order has the sale order: "feed".  process_shopify_refunds *)
(* (button, fetch wizard): "refunds".  shopify_invoice_register_payments   *)
(* (button of the order or of the invoice): "payments".                    *)
Request(p) ==
    /\ pc[p] = "idle"
    /\ \E k \in {"feed", "refunds", "payments"} :
          /\ kind' = [kind EXCEPT ![p] = k]
          /\ pc' = [pc EXCEPT ![p] = IF k = "payments" THEN "pay" ELSE "fetch"]
    /\ Open(p)
    /\ UNCHANGED <<sales, refunded, db, todo>>

(* The next transaction of the request, after a commit.                    *)
Begin(p) ==
    /\ pc[p] # "idle" /\ ~open[p]
    /\ Open(p)
    /\ UNCHANGED <<sales, refunded, db, pc, kind, todo>>

(* The request ends without a commit: Shopify does not answer, a row was   *)
(* updated by somebody else, the worker dies.                              *)
RollBack(p) ==
    /\ pc[p] # "idle"
    /\ Close(p)
    /\ pc' = [pc EXCEPT ![p] = "idle"] /\ kind' = [kind EXCEPT ![p] = "feed"]
    /\ todo' = [todo EXCEPT ![p] = {}]
    /\ UNCHANGED <<sales, refunded, db>>

(* A transaction that has a row is not looked at again.                    *)
WithTransactions(v) ==
    [v EXCEPT !.tx = [t \in Txs |-> IF @[t] = "none" THEN sales[t] ELSE @[t]]]

WithRefunds(p, v) ==
    [v EXCEPT !.rows = [r \in Refunds |-> IF @[r] = {} /\ r \in refunded THEN {p} ELSE @[r]]]

(* The refund rows that the credit loop will go through.                   *)
ToCredit(p) ==
    todo' = [todo EXCEPT ![p] =
                IF pc'[p] = "credit" THEN {r \in Refunds : view'[p].rows[r] # {}} ELSE {}]

(* Both fetches swallow every exception.  The feed's payload tells whether *)
(* there are refunds to ask for, and it may be old.                        *)
Fetch(p) ==
    /\ At(p, "fetch")
    /\ \E payments, refunds \in BOOLEAN :
          LET v == IF kind[p] = "feed" /\ payments THEN WithTransactions(view[p]) ELSE view[p]
          IN Continue(p, IF refunds THEN WithRefunds(p, v) ELSE v,
                      IF kind[p] = "feed" THEN "invoice" ELSE "credit")
    /\ ToCredit(p)
    /\ UNCHANGED <<sales, refunded, kind>>

Succeeded(v) == {t \in Txs : v.tx[t] = "success"}

(* process_shopify_invoice: an invoice unless the search finds one.        *)
MayInvoice(v) == Succeeded(v) # {} /\ ~v.isInvoice

WithInvoice(v) == [v EXCEPT !.invoices = IF @ = 0 THEN 1 ELSE @]

Invoice(p) ==
    /\ At(p, "invoice")
    /\ IF MayInvoice(view[p]) THEN Commit(p, WithInvoice(view[p]), "pay")
                              ELSE Continue(p, view[p], "pay")
    /\ UNCHANGED <<sales, refunded, kind, todo>>

(* Mutant of Unpaid: it does not search for the payment.                   *)
UnpaidAll(v) == Succeeded(v)

(* The transactions without a payment; the wizard refuses an invoice that  *)
(* has nothing left to pay.                                                *)
Unpaid(v) == {t \in Succeeded(v) : v.paid[t] = 0}

PaymentsOf(v, S) ==
    LET w == [v EXCEPT !.paid = [t \in Txs |-> IF t \in S THEN @[t] + 1 ELSE @[t]]]
    IN [w EXCEPT !.isInvoice = @ \/ (S # {} /\ Due(w) <= 0)]

(* The loop pays one after the other, until the invoice is in_payment or   *)
(* an exception ends it; what it has paid by then stays.  It is assumed    *)
(* that no exception falls between a payment and its shopify_id.           *)
Payable(v, S) ==
    S # {} => /\ v.invoices > 0
              /\ \E last \in S : Due(PaymentsOf(v, S \ {last})) > 0

Pay(p) ==
    /\ At(p, "pay")
    /\ \E S \in SUBSET Unpaid(view[p]) :
          /\ Payable(view[p], S)
          /\ IF kind[p] = "payments" THEN Commit(p, PaymentsOf(view[p], S), "idle")
                                     ELSE Continue(p, PaymentsOf(view[p], S), "credit")
    /\ ToCredit(p)
    /\ kind' = [kind EXCEPT ![p] = "feed"]
    /\ UNCHANGED <<sales, refunded>>

(* The rows of r whose transactions are not processed_in_odoo.             *)
Fresh(v, r) == {q \in v.rows[r] : v.note[r][q] = {}}

Settled(v) == v.invoices > 0 /\ Due(v) <= 0

(* Mutant of MayCredit: the state of the invoice does not matter.          *)
MayCreditAtOnce(v, r) == Fresh(v, r) # {} /\ ~v.isRefund /\ v.invoices > 0

MayCredit(v, r) == Fresh(v, r) # {} /\ ~v.isRefund /\ Settled(v)

WithNote(v, r) ==
    [v EXCEPT !.note[r] = [q \in Procs |-> IF q \in Fresh(v, r) THEN Fresh(v, r) ELSE @[q]],
              !.credits[r] = @ + 1]

(* process_shopify_credit_note: a round of its loop, with a commit if a    *)
(* credit note is made.                                                    *)
Credit(p) ==
    /\ At(p, "credit")
    /\ \E r \in todo[p] :
          /\ todo' = [todo EXCEPT ![p] = @ \ {r}]
          /\ IF MayCredit(view[p], r) THEN Commit(p, WithNote(view[p], r), "credit")
                                      ELSE Continue(p, view[p], "credit")
    /\ UNCHANGED <<sales, refunded, kind>>

Noted(v) == {rq \in Refunds \X Procs : v.note[rq[1]][rq[2]] # {}}

PaidBack(v, S) ==
    LET w == [v EXCEPT !.repaid =
                [r \in Refunds |-> [q \in Procs |-> IF <<r, q>> \in S THEN @[r][q] + 1 ELSE @[r][q]]]]
    IN [w EXCEPT !.isRefund = @ \/ \E rq \in S : Owed(w, rq[1], w.note[rq[1]][rq[2]]) <= 0]

(* Mutant of Repayable: the state of the credit note does not matter.      *)
RepayableAgain(v, S) == S \subseteq Noted(v)

(* Every processed transaction is paid once more as long as its credit     *)
(* note is open: nobody looks for the payment of an earlier run.           *)
Repayable(v, S) ==
    \A r \in Refunds : \A n \in Notes(v, r) :
        LET mine == {rq \in S : rq[1] = r /\ rq[2] \in n}
        IN mine # {} => \E last \in mine : Owed(PaidBack(v, mine \ {last}), r, n) > 0

PayBack(p) ==
    /\ At(p, "credit") /\ todo[p] = {}
    /\ \E S \in SUBSET Noted(view[p]) :
          Repayable(view[p], S) /\ Commit(p, PaidBack(view[p], S), "idle")
    /\ kind' = [kind EXCEPT ![p] = "feed"]
    /\ UNCHANGED <<sales, refunded, todo>>

-----------------------------------------------------------------------------
(* Customers, Shopify, accountants.                                        *)

Charge(t) ==
    /\ \/ sales[t] # "success" /\ sales' = [sales EXCEPT ![t] = "success"]
       \/ sales[t] = "none" /\ t \in Slow /\ sales' = [sales EXCEPT ![t] = "pending"]
    /\ UNCHANGED <<refunded, db, pc, kind, open, base, view, todo>>

Refund(r) ==
    /\ r \notin refunded /\ "success" \in {sales[t] : t \in Txs}
    /\ refunded' = refunded \cup {r}
    /\ UNCHANGED <<sales, db, pc, kind, open, base, view, todo>>

PayByHand ==
    /\ db.invoices > 0 /\ Due(db) > 0
    /\ db' = [db EXCEPT !.byHand = TRUE]
    /\ UNCHANGED <<sales, refunded, pc, kind, open, base, view, todo>>

Next ==
    \/ \E p \in Procs : \/ Request(p) \/ Begin(p) \/ RollBack(p)
                        \/ Fetch(p) \/ Invoice(p) \/ Pay(p)
                        \/ Credit(p) \/ PayBack(p)
    \/ \E t \in Txs : Charge(t)
    \/ \E r \in Refunds : Refund(r)
    \/ PayByHand

Spec == Init /\ [][Next]_vars

-----------------------------------------------------------------------------
(* Properties.                                                             *)

(* However many requests process the order at a time, it has one invoice.  *)
OneInvoice == db.invoices <= 1

(* No transaction of the customer is registered twice.                     *)
SalePaidOnce == \A t \in Txs : db.paid[t] <= 1

(* What the customer bought is billed once and paid once.                  *)
BilledOnce == OneInvoice /\ SalePaidOnce

(* A refund gives one credit note, unless two requests inserted its rows   *)
(* at the same time.                                                       *)
OneCreditNote == \A r \in Refunds : Cardinality(db.rows[r]) <= 1 => db.credits[r] <= 1

(* A credit note that its transaction settles is paid back once, whatever  *)
(* the rows and the processings.                                           *)
PaidBackOnce ==
    \A r \in Refunds : \A n \in Notes(db, r) :
        NoteTotal(r) <= Amount[r] => SumFunctionOnSet(db.repaid[r], n) <= 1

(* A refund is credited once and paid back once, as stated above.          *)
RefundedOnce == OneCreditNote /\ PaidBackOnce

(* Nothing is credited before the invoice is settled, and an order that is *)
(* flagged as invoiced or as refunded is settled.                          *)
CreditAfterSettlement ==
    \/ Settled(db)
    \/ ~db.isInvoice /\ ~db.isRefund /\ \A r \in Refunds : Notes(db, r) = {}
=============================================================================
