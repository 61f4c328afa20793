----------------------------- MODULE ResolvePay -----------------------------
(***************************************************************************)
(* Invoices that ResolvePay finances (syncoria_resolvepay): an invoice is  *)
(* exported, and the payout transactions of ResolvePay are fetched, per    *)
(* invoice (button, wizard) or per day (cron), and registered as payments. *)
(*                                                                         *)
(* Requests to ResolvePay take effect at once, Odoo's writes with the      *)
(* commit at the end.  A request reads its snapshot and its own writes,    *)
(* and is rolled back if an invoice it writes was written meanwhile.       *)
(*                                                                         *)
(* Left out: customers, the checks of an order's tag and customer.         *)
(***************************************************************************)
EXTENDS Integers, FiniteSets, FiniteSetsExt

CONSTANTS
    Invoices,       \* posted invoices
    Payouts,        \* payout transactions, numbered in the order of the answers
    Gross,          \* the amount of each
    Total,          \* what a customer owes for each invoice
    RpWorkers,
    MaxCopies       \* bound on the copies of an invoice in ResolvePay

ASSUME RpAssumption ==
    /\ Payouts \subseteq Nat /\ Invoices \subseteq Nat \ {0}
    /\ IsFiniteSet(Payouts) /\ IsFiniteSet(RpWorkers)
    /\ Gross \in [Payouts -> Nat \ {0}]
    /\ Total \in Nat \ {0} /\ MaxCopies \in Nat

VARIABLES
    payoutOf,   \* the invoice of a payout transaction; 0 for a fee
    copies,     \* ResolvePay: the copies of each invoice
    arrived,    \* ResolvePay: the transactions whose payout has been paid
    books,      \* what is committed in Odoo
    rpc,        \* of a worker: idle, export, posted, fetch or daily
    doc,        \* the invoices it has still to export or fetch
    txs,        \* the transactions the cron has still to register
    rsnap, rview

rpvars == <<payoutOf, copies, arrived, books, rpc, doc, txs, rsnap, rview>>

Books == [
    stored : [Invoices -> BOOLEAN],         \* resolvepay_invoice_id is set
    due    : [Invoices -> 0..Total],        \* amount_residual
    paid   : [Payouts -> Nat],              \* payments made for it
    rows   : [Payouts -> SUBSET (Invoices \cup {0})] ]  \* the invoices, or none,
                                            \* of its payout_transaction rows

NewBooks == [stored |-> [i \in Invoices |-> FALSE], due |-> [i \in Invoices |-> Total],
             paid |-> [p \in Payouts |-> 0], rows |-> [p \in Payouts |-> {}]]

RpTypeOK ==
    /\ payoutOf \in [Payouts -> Invoices \cup {0}]
    /\ copies \in [Invoices -> 0..MaxCopies] /\ arrived \subseteq Payouts
    /\ books \in Books
    /\ rpc \in [RpWorkers -> {"idle", "export", "posted", "fetch", "daily"}]
    /\ doc \in [RpWorkers -> SUBSET Invoices] /\ txs \in [RpWorkers -> SUBSET Payouts]
    /\ rsnap \in [RpWorkers -> Books] /\ rview \in [RpWorkers -> Books]

RpInit ==
    /\ payoutOf \in [Payouts -> Invoices \cup {0}]
    /\ copies = [i \in Invoices |-> 0] /\ arrived = {}
    /\ books = NewBooks
    /\ rpc = [w \in RpWorkers |-> "idle"]
    /\ doc = [w \in RpWorkers |-> {}] /\ txs = [w \in RpWorkers |-> {}]
    /\ rsnap = [w \in RpWorkers |-> NewBooks] /\ rview = [w \in RpWorkers |-> NewBooks]

-----------------------------------------------------------------------------
(* Requests.                                                               *)

BeginRp(w, k, I, T) ==
    /\ rpc[w] = "idle"
    /\ rpc' = [rpc EXCEPT ![w] = k]
    /\ doc' = [doc EXCEPT ![w] = I] /\ txs' = [txs EXCEPT ![w] = T]
    /\ rsnap' = [rsnap EXCEPT ![w] = books] /\ rview' = [rview EXCEPT ![w] = books]
    /\ UNCHANGED <<payoutOf, copies, arrived, books>>

EndRp(w) ==
    /\ rpc' = [rpc EXCEPT ![w] = "idle"]
    /\ doc' = [doc EXCEPT ![w] = {}] /\ txs' = [txs EXCEPT ![w] = {}]
    /\ rsnap' = [rsnap EXCEPT ![w] = NewBooks] /\ rview' = [rview EXCEPT ![w] = NewBooks]

Changed(a, b) == {i \in Invoices : a.stored[i] # b.stored[i] \/ a.due[i] # b.due[i]}

Over(w) ==
    LET old == rsnap[w]  mine == Changed(old, rview[w])
        paidNow == {p \in Payouts : rview[w].paid[p] # old.paid[p]}
    IN [stored |-> [i \in Invoices |-> IF i \in mine THEN rview[w].stored[i] ELSE books.stored[i]],
        due    |-> [i \in Invoices |-> IF i \in mine THEN rview[w].due[i] ELSE books.due[i]],
        paid   |-> [p \in Payouts |-> IF p \in paidNow THEN rview[w].paid[p] ELSE books.paid[p]],
        rows   |-> [p \in Payouts |-> rview[w].rows[p] \cup books.rows[p]]]

CommitRp(w) ==
    /\ rpc[w] \in {"posted", "fetch", "daily"}
    /\ rpc[w] # "posted" => doc[w] = {} /\ txs[w] = {}
    /\ Changed(rsnap[w], rview[w]) \cap Changed(rsnap[w], books) = {}
    /\ books' = Over(w)
    /\ EndRp(w)
    /\ UNCHANGED <<payoutOf, copies, arrived>>

(* ResolvePay does not answer, a conflict, the worker dies.                *)
LoseRp(w) ==
    /\ rpc[w] # "idle"
    /\ EndRp(w)
    /\ UNCHANGED <<payoutOf, copies, arrived, books>>

-----------------------------------------------------------------------------
(* create_invoice_resolvepay.                                              *)

(* Mutant of ToExport: the id that is stored does not matter.              *)
ToExportAgain(i) == i \in Invoices

ToExport(i) == ~books.stored[i]

Export(w, i) == ToExport(i) /\ BeginRp(w, "export", {i}, {})

PostInvoice(w, i) ==
    /\ rpc[w] = "export" /\ doc[w] = {i} /\ copies[i] < MaxCopies
    /\ copies' = [copies EXCEPT ![i] = @ + 1]
    /\ rview' = [rview EXCEPT ![w].stored[i] = TRUE]
    /\ rpc' = [rpc EXCEPT ![w] = "posted"]
    /\ UNCHANGED <<payoutOf, arrived, books, doc, txs, rsnap>>

-----------------------------------------------------------------------------
(* Payouts.                                                                *)

(* Mutant of Registrable: it does not look for the payment.                *)
RegistrableAgain(v, p, i) == Gross[p] <= v.due[i] /\ i = payoutOf[p] /\ v.due[i] > 0

(* register_resolvepay_payment returns without a payment for one that has  *)
(* its payment, for a fee, for more than what is due, and for an invoice   *)
(* that is paid.                                                           *)
Registrable(v, p, i) ==
    v.paid[p] = 0 /\ i = payoutOf[p] /\ v.due[i] > 0 /\ Gross[p] <= v.due[i]

Registered(v, p, i) ==
    IF Registrable(v, p, i) THEN [v EXCEPT !.paid[p] = @ + 1, !.due[i] = @ - Gross[p]] ELSE v

(* create_payout_transaction: a row that is there is never linked anew.    *)
WithRow(v, p, i) == IF v.rows[p] = {} THEN [v EXCEPT !.rows[p] = {i}] ELSE v

(* resolvepay_fetch_invoice returns at the first transaction whose payout  *)
(* has not been paid: those after it are not looked at.                    *)
Fetched(v, i) ==
    LET mine  == {p \in Payouts : payoutOf[p] = i}
        ready == {p \in mine : \A q \in mine : q <= p => q \in arrived}
        After[S \in SUBSET ready] ==
            IF S = {} THEN v
            ELSE LET p == Max(S) IN WithRow(Registered(After[S \ {p}], p, i), p, i)
    IN After[ready]

FetchStart(w) ==
    \E I \in SUBSET {i \in Invoices : books.stored[i]} : I # {} /\ BeginRp(w, "fetch", I, {})

FetchInvoice(w, i) ==
    /\ rpc[w] = "fetch" /\ i \in doc[w]
    /\ doc' = [doc EXCEPT ![w] = @ \ {i}]
    /\ rview' = [rview EXCEPT ![w] = Fetched(@, i)]
    /\ UNCHANGED <<payoutOf, copies, arrived, books, rpc, txs, rsnap>>

(* action_update_resolve_pay: the payouts paid and expected today.         *)
Daily(w) == \E T \in SUBSET arrived : T # {} /\ BeginRp(w, "daily", {}, T)

(* The invoice with the id of the transaction.  A fee has none: the search *)
(* finds an invoice without an id, which gets the row.                     *)
Found(v, p) ==
    IF payoutOf[p] = 0 THEN {i \in Invoices : ~v.stored[i]}
                       ELSE {i \in Invoices : v.stored[i] /\ i = payoutOf[p]}

DailyTransaction(w, p) ==
    /\ rpc[w] = "daily" /\ p \in txs[w]
    /\ txs' = [txs EXCEPT ![w] = @ \ {p}]
    /\ LET v == rview[w] IN
          \/ \E i \in Found(v, p) : rview' = [rview EXCEPT ![w] = WithRow(Registered(v, p, i), p, i)]
          \/ /\ Found(v, p) = {} /\ payoutOf[p] # 0
             /\ rview' = [rview EXCEPT ![w] = WithRow(v, p, 0)]
    /\ UNCHANGED <<payoutOf, copies, arrived, books, rpc, doc, rsnap>>

-----------------------------------------------------------------------------
(* ResolvePay, accountants.                                                *)

Arrive(p) ==
    /\ p \notin arrived /\ (payoutOf[p] # 0 => copies[payoutOf[p]] > 0)
    /\ arrived' = arrived \cup {p}
    /\ UNCHANGED <<payoutOf, copies, books, rpc, doc, txs, rsnap, rview>>

PayByHand(i) ==
    /\ books.due[i] > 0
    /\ books' = [books EXCEPT !.due[i] = @ - 1]
    /\ UNCHANGED <<payoutOf, copies, arrived, rpc, doc, txs, rsnap, rview>>

RpNext ==
    \/ \E w \in RpWorkers :
          \/ FetchStart(w) \/ Daily(w) \/ CommitRp(w) \/ LoseRp(w)
          \/ \E i \in Invoices : Export(w, i) \/ PostInvoice(w, i) \/ FetchInvoice(w, i)
          \/ \E p \in Payouts : DailyTransaction(w, p)
    \/ \E p \in Payouts : Arrive(p)
    \/ \E i \in Invoices : PayByHand(i)

RpSpec == RpInit /\ [][RpNext]_rpvars

-----------------------------------------------------------------------------
(* Properties.                                                             *)

(* A payout transaction is registered once, whoever fetches it when, and   *)
(* what is registered was paid by ResolvePay for that very invoice, whose  *)
(* id Odoo knows.                                                          *)
RpPaidOnce ==
    \A p \in Payouts : books.paid[p] > 0 =>
        /\ books.paid[p] = 1 /\ p \in arrived
        /\ books.stored[payoutOf[p]]

Attempting(i) == Cardinality({w \in RpWorkers : rpc[w] = "export" /\ i \in doc[w]})

(* Invoices are exported as RemoteExport promises.                         *)
E == INSTANCE RemoteExport WITH
        Documents <- Invoices, attempts <- [i \in Invoices |-> Attempting(i)],
        copies <- copies, stored <- books.stored
RpExports == E!Spec
=============================================================================
