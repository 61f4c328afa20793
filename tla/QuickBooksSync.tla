---------------------------- MODULE QuickBooksSync ----------------------------
(***************************************************************************)
(* What QuickBooks and Odoo exchange (pragmatic_quickbooks_connector).     *)
(* An import asks for the objects of one kind whose id is above the last   *)
(* one it imported, at most Limit of them, and moves that cursor, a field  *)
(* of the company.  An export posts a document and stores the id it gets.  *)
(*                                                                         *)
(* Every kind has a cursor of its own, all of them on one row: of two      *)
(* transactions that move cursors one fails.  Most kinds are imported in   *)
(* one transaction; taxes, categories, products, journal entries and sale  *)
(* orders are committed one by one, before the cursor moves.  An           *)
(* exception, an answer other than 200 or a dead worker ends a request at  *)
(* any point and rolls back what is not committed (QbLose).                *)
(*                                                                         *)
(* Bounds: N objects, MaxItems if they are orders, products or taxes; an   *)
(* import starts while no object has QbMaxCopies records.  Left out: the   *)
(* fields of an object and of its lines, the window of dates of an import, *)
(* what an import fetches on demand (accounts, taxes, customers), updates  *)
(* of what was exported before, an export that finds its document in       *)
(* QuickBooks.                                                             *)
(***************************************************************************)
EXTENDS Integers, FiniteSets, FiniteSetsExt, Sequences

CONSTANTS
    N,              \* objects of QuickBooks
    Limit,          \* MAXRESULTS
    QbLines,        \* lines of an order
    Shapes,         \* the lines of an order that are the first of their product
    MaxItems,       \* orders, products or taxes in QuickBooks
    QbMaxCopies,
    Docs,           \* the documents of Odoo that may be exported
    Worlds,         \* the kinds of objects there are, taken together
    QbWorkers

QbKinds == {"partner", "account", "department", "employee", "agency", "method",
            "tax", "category", "product", "journal", "purchase", "term", "refund",
            "order", "invoice", "bill", "payment", "billpay"}

ASSUME QbAssumption ==
    /\ N \in Nat \ {0} /\ Limit \in Nat \ {0} /\ QbLines \in Nat \ {0}
    /\ QbMaxCopies \in Nat /\ MaxItems \in Nat
    /\ Worlds \subseteq SUBSET QbKinds
    /\ Shapes \subseteq SUBSET (1..QbLines)
    /\ IsFiniteSet(QbWorkers) /\ 0 \notin Docs

Ids == 1..N

(* Kinds whose objects are committed one by one.                           *)
Stepwise == {"tax", "category", "product", "journal", "order"}
InvoiceKinds == {"invoice", "bill"}
PayKinds == {"payment", "billpay"}
ByCode == {"account", "product"}    \* searched by their number or Sku, too
AllLines == 1..QbLines

VARIABLES
    world,      \* the kinds in play
    docKind,    \* the kind of the documents of Odoo
    remote,     \* QuickBooks: its objects, by id
    qdb,        \* what is committed in Odoo
    qbc,        \* of a worker: "idle", the kind it imports, "export", "posted"
    qtodo,      \* the objects it has still to import
    line,       \* how many lines of the first of them it has committed
    pend,       \* what it has written and not committed
    qsnap,      \* its snapshot
    stale,      \* the row of the company was committed since
    item,       \* the document it exports and the id it got
    raced,      \* observation only: objects that an import fetched while another
                \* request was importing or exporting them
    broken      \* observation only: orders whose import ended half-way, until
                \* an import gives them all their lines

qbvars == <<world, docKind, remote, qdb, qbc, qtodo, line, pend, qsnap, stale, item, raced, broken>>

(* of: the invoice that a payment pays, the parent of a category.  home:   *)
(* the document of Odoo it was made from.  odd: an import leaves it out (a *)
(* tax that is not active, an item of another type, an order of an unknown *)
(* customer, an invoice without lines, a payment of nothing); an employee  *)
(* that is odd has no address.  twin: an account or a product whose number *)
(* or Sku another record of Odoo has (none of Docs); a payment that pays   *)
(* one more invoice or bill, that is not modelled.  fresh: the lines of an *)
(* order with a product that no line before them has.                      *)
RemoteObject == [kind : QbKinds, of : 0..N, home : {0} \cup Docs, odd : BOOLEAN,
                 twin : BOOLEAN, fresh : SUBSET AllLines]

Rows == [
    copies : [Ids -> Nat],              \* records with this id
    lines  : [Ids -> SUBSET AllLines],  \* of the records of an order
    drafts : SUBSET Ids,                \* invoices put back to draft
    cursor : [world -> 0..N],           \* of each kind in play
    id     : [Docs -> 0..N] ]           \* 0: not exported

NoWrites == [cursor |-> 0, met |-> {}, made |-> {}]
Moved(i) == [NoWrites EXCEPT !.cursor = i]
NoItem   == [doc |-> 0, id |-> 0]
EmptyRows == [
    copies |-> [i \in Ids |-> 0], lines |-> [i \in Ids |-> {}], drafts |-> {},
    cursor |-> [k \in world |-> 0], id |-> [d \in Docs |-> 0]]

QbTypeOK ==
    /\ world \in Worlds /\ docKind \in world
    /\ remote \in Seq(RemoteObject) /\ Len(remote) <= N
    /\ qdb \in Rows
    /\ qbc \in [QbWorkers -> QbKinds \cup {"idle", "export", "posted"}]
    /\ qtodo \in [QbWorkers -> SUBSET Ids]
    /\ line \in [QbWorkers -> 0..QbLines]
    /\ pend \in [QbWorkers -> [cursor : 0..N, met : SUBSET Ids,
                             made : SUBSET Ids]]
    /\ qsnap \in [QbWorkers -> Rows]
    /\ stale \in [QbWorkers -> BOOLEAN]
    /\ item \in [QbWorkers -> [doc : {0} \cup Docs, id : 0..N]]
    /\ raced \subseteq Ids /\ broken \subseteq Ids

QbInit ==
    /\ world \in Worlds /\ docKind \in world
    /\ remote = <<>> /\ qdb = EmptyRows
    /\ qbc = [w \in QbWorkers |-> "idle"]
    /\ qtodo = [w \in QbWorkers |-> {}] /\ line = [w \in QbWorkers |-> 0]
    /\ pend = [w \in QbWorkers |-> NoWrites]
    /\ qsnap = [w \in QbWorkers |-> EmptyRows]
    /\ stale = [w \in QbWorkers |-> FALSE]
    /\ item = [w \in QbWorkers |-> NoItem]
    /\ raced = {} /\ broken = {}

Made      == 1..Len(remote)
Kind(i)   == remote[i].kind
Room(k)   == /\ Len(remote) < N
             /\ k \in {"order", "product", "tax"} => Len(remote) < MaxItems
Taken(S)  == {i \in S : ~remote[i].odd}
New(w, S) == {i \in Taken(S) : qsnap[w].copies[i] = 0}
Twins(S)  == {i \in S : remote[i].twin}
Shape(k)  == IF k = "order" THEN Shapes ELSE {{}}
One(b)    == IF b THEN 1 ELSE 0

-----------------------------------------------------------------------------
(* Transactions.                                                           *)

(* What is committed when w adds copies of the objects of S.               *)
WithCopies(S) == [i \in Ids |-> qdb.copies[i] + One(i \in S)]

(* w writes the company if it has moved a cursor or moves one now.         *)
MayCommit(w, moves) == moves \/ pend[w].cursor # 0 => ~stale[w]

QbEnd(w) ==
    /\ qbc' = [qbc EXCEPT ![w] = "idle"]
    /\ qtodo' = [qtodo EXCEPT ![w] = {}] /\ line' = [line EXCEPT ![w] = 0]
    /\ pend' = [pend EXCEPT ![w] = NoWrites]
    /\ qsnap' = [qsnap EXCEPT ![w] = EmptyRows]
    /\ item' = [item EXCEPT ![w] = NoItem]

(* Whoever else is at work has an old row of the company from now on.      *)
Outdate(w, moves) ==
    stale' = [x \in QbWorkers |-> x # w /\ qbc[x] # "idle" /\ (stale[x] \/ moves)]

(* The lines of an order that an import has met again: one is searched by  *)
(* its product, and added if there is none.                                *)
Completed(i) == qdb.lines[i] \cup remote[i].fresh
Whole(S)     == {i \in S : Completed(i) = AllLines}

(* A request commits v and ends.                                           *)
EndWith(w, v, moves) ==
    /\ qdb' = v
    /\ Outdate(w, moves)
    /\ broken' = broken \ Whole(pend[w].met)
    /\ QbEnd(w)
    /\ UNCHANGED <<world, docKind, remote, raced>>

CommitAndEnd(w, v, moves) == MayCommit(w, moves) /\ EndWith(w, v, moves)

(* v with what the transaction has written before: a cursor, the lines of  *)
(* the orders that were there, the categories below others.                *)
WithPending(w, v) ==
    [v EXCEPT !.cursor = [k \in world |-> IF k = qbc[w] /\ pend[w].cursor # 0
                                            THEN pend[w].cursor ELSE @[k]],
              !.lines = [i \in Ids |-> IF i \in pend[w].met THEN @[i] \cup remote[i].fresh
                                                              ELSE @[i]],
              !.copies = [i \in Ids |-> @[i] + One(i \in pend[w].made)]]

(* A request commits v with what it wrote before, and goes on in the next  *)
(* transaction, where it writes p.                                         *)
CommitAndGoOn(w, v, p) ==
    /\ MayCommit(w, FALSE)
    /\ qdb' = WithPending(w, v) /\ qsnap' = [qsnap EXCEPT ![w] = WithPending(w, v)]
    /\ pend' = [pend EXCEPT ![w] = p]
    /\ broken' = broken \ Whole(pend[w].met)
    /\ Outdate(w, pend[w].cursor # 0)

(* The order that a request ends in the middle of.                         *)
Halfway(w) == IF line[w] > 0 THEN {Min(qtodo[w])} ELSE {}

QbLose(w) ==
    /\ qbc[w] # "idle"
    /\ broken' = broken \cup Halfway(w)
    /\ stale' = [stale EXCEPT ![w] = FALSE]
    /\ QbEnd(w)
    /\ UNCHANGED <<world, docKind, remote, qdb, raced>>

-----------------------------------------------------------------------------
(* Imports.                                                                *)

Lowest(S, n) == {i \in S : Cardinality({j \in S : j < i}) < n}

(* Mutant of Fetched: the order of the answer is not asked for.            *)
FetchedUnordered(k) ==
    LET all == {i \in Made : Kind(i) = k /\ i > qdb.cursor[k]}
    IN all \ Lowest(all, Cardinality(all) - Limit)

Fetched(k) == Lowest({i \in Made : Kind(i) = k /\ i > qdb.cursor[k]}, Limit)

(* An import that gets no objects raises: "already imported".              *)
QbBegin(w, k) ==
    /\ qbc[w] = "idle" /\ k \in world /\ Fetched(k) # {}
    /\ \A i \in Made : qdb.copies[i] < QbMaxCopies
    /\ qbc' = [qbc EXCEPT ![w] = k]
    /\ qtodo' = [qtodo EXCEPT ![w] = Fetched(k)]
    /\ qsnap' = [qsnap EXCEPT ![w] = qdb]
    /\ stale' = [stale EXCEPT ![w] = FALSE]
    /\ raced' = raced \cup {i \in Fetched(k) : \E x \in QbWorkers \ {w} :
                               i \in qtodo[x] \/ (qbc[x] = "posted" /\ item[x].id = i)}
    /\ UNCHANGED <<world, docKind, remote, qdb, line, pend, item, broken>>

(* One transaction: each object is searched by its id, and created or      *)
(* updated; the cursor moves to the last of them.                          *)
Upserted(w, k) ==
    /\ qbc[w] = k
    /\ CommitAndEnd(w, [qdb EXCEPT !.copies = WithCopies({i \in qtodo[w] : qsnap[w].copies[i] = 0}),
                                   !.cursor[k] = Max(qtodo[w])], TRUE)

ImportPartners(w)    == Upserted(w, "partner")      \* customers and vendors
ImportDepartments(w) == Upserted(w, "department")

(* An account is searched by its number or its id, a product by its Sku or *)
(* its id.  Of the objects of S, that have no record, those of new get     *)
(* one.  A twin may not: the record of its number or Sku is written, and   *)
(* loses the id it had, only if the company updates what it imports.       *)
Holders(w) == {i \in Twins(Made) : /\ Kind(i) = qbc[w]
                                   /\ qsnap[w].copies[i] > 0
                                   /\ qdb.copies[i] = qsnap[w].copies[i]}

Matched(w, S, new, lost) ==
    /\ S \ Twins(S) \subseteq new
    /\ lost \subseteq Holders(w) /\ (lost # {} => Twins(new) # {})

Exchanged(new, lost) ==
    [i \in Ids |-> qdb.copies[i] + One(i \in new) - One(i \in lost)]

ImportAccounts(w) ==
    LET absent == {i \in qtodo[w] : qsnap[w].copies[i] = 0} IN
    /\ qbc[w] = "account"
    /\ \E new \in SUBSET absent, lost \in SUBSET Made :
          /\ Matched(w, absent, new, lost)
          /\ CommitAndEnd(w, [qdb EXCEPT !.copies = Exchanged(new, lost),
                                         !.cursor["account"] = Max(qtodo[w])], TRUE)

(* import_employee: a new employee without an address does not move the    *)
(* cursor; it is met again, updated, and does.                             *)
Moving(w) == Taken(qtodo[w]) \cup {i \in qtodo[w] : qsnap[w].copies[i] > 0}

ImportEmployees(w) ==
    LET moving == Moving(w) IN
    /\ qbc[w] = "employee"
    /\ CommitAndEnd(w,
         [qdb EXCEPT !.copies = WithCopies({i \in qtodo[w] : qsnap[w].copies[i] = 0}),
                     !.cursor["employee"] = IF moving = {} THEN @ ELSE Max(moving)],
         moving # {})

(* create_account_tax_agency: without a search.                            *)
ImportAgencies(w) ==
    /\ qbc[w] = "agency"
    /\ CommitAndEnd(w, [qdb EXCEPT !.copies = WithCopies(qtodo[w]),
                                   !.cursor["agency"] = Max(qtodo[w])], TRUE)

(* create_payment_method: without a search, but as a journal whose code is *)
(* made of the id, and codes are unique.  An exported journal has another. *)
Coded(i) == qdb.copies[i] > Cardinality({d \in Docs : qdb.id[d] = i})

ImportMethods(w) ==
    /\ qbc[w] = "method" /\ \A i \in qtodo[w] : ~Coded(i)
    /\ CommitAndEnd(w, [qdb EXCEPT !.copies = WithCopies(qtodo[w]),
                                   !.cursor["method"] = Max(qtodo[w])], TRUE)

(* The cursor moves with an object that is created; one that is there, or  *)
(* is left out, is passed over.                                            *)
OnlyCreated(w, k) ==
    LET new == New(w, qtodo[w]) IN
    /\ qbc[w] = k
    /\ CommitAndEnd(w, [qdb EXCEPT !.copies = WithCopies(new),
                                   !.cursor[k] = IF new = {} THEN @ ELSE Max(new)], new # {})

ImportPurchases(w) == OnlyCreated(w, "purchase")
ImportRefunds(w)   == OnlyCreated(w, "refund")      \* stays in draft

(* import_payment_term_from_quickbooks: odd, if the name is taken.  The    *)
(* cursor becomes the last of the new ids as strings, "9" after "10".      *)
ImportTerms(w) ==
    LET new == New(w, qtodo[w]) IN
    /\ qbc[w] = "term"
    /\ \E last \in IF new = {} THEN {qdb.cursor["term"]} ELSE new :
          CommitAndEnd(w, [qdb EXCEPT !.copies = WithCopies(new),
                                      !.cursor["term"] = last], new # {})

(* The records that the import of an object creates.                       *)
Absent(w, i) == New(w, {i})

(* Each object that is not left out is committed, with the records there   *)
(* are then.                                                               *)
ImportOne(w, i, records) ==
    /\ qtodo' = [qtodo EXCEPT ![w] = @ \ {i}]
    /\ IF ~remote[i].odd
       THEN /\ CommitAndGoOn(w, [qdb EXCEPT !.copies = records], NoWrites)
            /\ item' = [item EXCEPT ![w].id = i]
       ELSE UNCHANGED <<qdb, qsnap, pend, stale, item, broken>>
    /\ UNCHANGED <<world, docKind, remote, qbc, line, raced>>

(* create_product raises if it finds two.                                  *)
ImportProduct(w) ==
    LET i == Min(qtodo[w]) IN
    /\ qbc[w] = "product" /\ qtodo[w] # {} /\ qsnap[w].copies[i] <= 1
    /\ \E new \in SUBSET Absent(w, i), lost \in SUBSET Made :
          /\ Matched(w, Absent(w, i), new, lost)
          /\ ImportOne(w, i, Exchanged(new, lost))

(* create_account_tax, with the records of one of the two scopes.          *)
ImportTax(w) ==
    LET i == Min(qtodo[w]) IN
    /\ qbc[w] = "tax" /\ qtodo[w] # {}
    /\ ImportOne(w, i, WithCopies(Absent(w, i)))

(* A category and those above it: the least set that holds it and, with a  *)
(* category, its parent.                                                   *)
Upwards(S) == \A i \in S : remote[i].of # 0 => remote[i].of \in S
Above(i)   == {j \in Made : \A S \in SUBSET Made : i \in S /\ Upwards(S) => j \in S}

(* create_product_category.  A category at the top is searched, created if *)
(* need be, and committed.  Below the top, what was written is committed   *)
(* first, the parent is imported likewise, and the category is created     *)
(* without a search; it is committed with what comes next.                 *)
ImportCategory(w) ==
    LET i   == Min(qtodo[w])
        up  == Above(i)
        top == Min(up)
        new == IF top = i THEN New(w, {i}) ELSE {j \in {top} : qdb.copies[j] = 0} IN
    /\ qbc[w] = "category" /\ qtodo[w] # {}
    /\ top # i => qdb.copies[top] <= 1
    /\ qtodo' = [qtodo EXCEPT ![w] = @ \ {i}]
    /\ IF remote[i].odd
       THEN UNCHANGED <<qdb, qsnap, pend, stale, item, broken>>
       ELSE /\ CommitAndGoOn(w, [qdb EXCEPT !.copies = WithCopies(new)],
                             [NoWrites EXCEPT !.made = up \ {top}])
            /\ item' = [item EXCEPT ![w].id = i]
    /\ UNCHANGED <<world, docKind, remote, qbc, line, raced>>

(* import_product, import_tax and import_product_category move the cursor  *)
(* to the last object that was not left out, if there was one.             *)
EndItems(w) ==
    LET last == item[w].id IN
    /\ qbc[w] \in {"tax", "category", "product"} /\ qtodo[w] = {}
    /\ qbc[w] = "category" /\ last # 0 => remote[last].of # 0 \/ qsnap[w].copies[last] <= 1
    /\ CommitAndEnd(w, [WithPending(w, qdb) EXCEPT !.cursor[qbc[w]] = IF last = 0 THEN @ ELSE last],
                    last # 0)

(* import_inventory asks for items above the same cursor, sets the stock   *)
(* of those whose quantity differs, and moves the cursor to the last one.  *)
ImportInventory(w) ==
    /\ qbc[w] = "idle" /\ "product" \in world
    /\ \A i \in Fetched("product") : qdb.copies[i] <= 1
    /\ \E S \in SUBSET {i \in Fetched("product") : qdb.copies[i] = 1} :
          S # {} /\ qdb' = [qdb EXCEPT !.cursor["product"] = Max(S)]
    /\ Outdate(w, TRUE)
    /\ UNCHANGED <<world, docKind, remote, qbc, qtodo, line, pend, qsnap, item, raced, broken>>

(* create_journal_entry: commit, then move the cursor; an entry that is    *)
(* there does not move it.                                                 *)
ImportJournal(w) ==
    LET i == Min(qtodo[w]) IN
    /\ qbc[w] = "journal" /\ qtodo[w] # {}
    /\ qtodo' = [qtodo EXCEPT ![w] = @ \ {i}]
    /\ IF New(w, {i}) # {}
       THEN CommitAndGoOn(w, [qdb EXCEPT !.copies = WithCopies({i})], Moved(i))
       ELSE UNCHANGED <<qdb, qsnap, stale, pend, broken>>
    /\ UNCHANGED <<world, docKind, remote, qbc, line, item, raced>>

(* import_sale_order.  A new order is committed without its lines, and     *)
(* then line by line; each line moves the cursor, in what will be          *)
(* committed with the next one.                                            *)
OrderHeader(w) ==
    LET i == Min(qtodo[w]) IN
    /\ qbc[w] = "order" /\ qtodo[w] # {} /\ line[w] = 0 /\ New(w, {i}) # {}
    /\ CommitAndGoOn(w, [qdb EXCEPT !.copies = WithCopies({i})], NoWrites)
    /\ line' = [line EXCEPT ![w] = 1]
    /\ UNCHANGED <<world, docKind, remote, qbc, qtodo, item, raced>>

OrderLine(w) ==
    LET i == Min(qtodo[w]) IN
    /\ line[w] > 0
    /\ CommitAndGoOn(w, [qdb EXCEPT !.lines[i] = @ \cup {line[w]}], Moved(i))
    /\ IF line[w] = QbLines
       THEN line' = [line EXCEPT ![w] = 0] /\ qtodo' = [qtodo EXCEPT ![w] = @ \ {i}]
       ELSE line' = [line EXCEPT ![w] = @ + 1] /\ UNCHANGED qtodo
    /\ UNCHANGED <<world, docKind, remote, qbc, item, raced>>

(* An order that is there is given the lines whose product it lacks,       *)
(* without a commit: the second line of a product only overwrites the      *)
(* first, and the cursor moves.  With two orders of the same id, the       *)
(* import fails (expected singleton).                                      *)
OrderAgain(w) ==
    LET i == Min(qtodo[w]) IN
    /\ qbc[w] = "order" /\ qtodo[w] # {} /\ line[w] = 0
    /\ \/ /\ remote[i].odd
          /\ UNCHANGED pend
       \/ /\ ~remote[i].odd /\ qsnap[w].copies[i] = 1
          /\ pend' = [pend EXCEPT ![w].cursor = i, ![w].met = @ \cup {i}]
    /\ qtodo' = [qtodo EXCEPT ![w] = @ \ {i}]
    /\ UNCHANGED <<world, docKind, remote, qdb, qbc, line, qsnap, stale, item, raced, broken>>

EndSteps(w) ==
    /\ qbc[w] \in {"journal", "order"} /\ qtodo[w] = {}
    /\ CommitAndEnd(w, WithPending(w, qdb), pend[w].cursor # 0)

(* create_payment.  A payment that is there is created again: the search   *)
(* only keeps it from being registered with its invoice.  A payment that   *)
(* is new posts its invoice if that is in draft, and makes a record for    *)
(* each invoice or bill it pays.  A payment of nothing is left out.        *)
WithPayments(w, S) ==
    [i \in Ids |-> qdb.copies[i] + One(i \in Taken(S)) + One(i \in Twins(New(w, S)))]

Reposted(w, S) == {remote[p].of : p \in New(w, S)}

ImportPayments(w) ==
    LET k == qbc[w] IN
    /\ k \in PayKinds
    /\ CommitAndEnd(w, [qdb EXCEPT !.copies = WithPayments(w, qtodo[w]),
                                   !.drafts = @ \ Reposted(w, qtodo[w]),
                                   !.cursor[k] = Max(qtodo[w])], TRUE)

LinkedTo(I) == {p \in Made : Kind(p) = "payment" /\ remote[p].of \in I}

(* create_invoice, for invoices and vendor bills.  The import of a new     *)
(* invoice imports its payments, and their cursor moves to the last of     *)
(* them.  An invoice that is there is put back to draft, gets its lines    *)
(* anew and is not posted again.                                           *)
ImportInvoices(w) ==
    LET k     == qbc[w]
        taken == Taken(qtodo[w])
        new   == New(w, qtodo[w])
        pays  == LinkedTo(new)
        last  == IF pays = {} THEN {IF "payment" \in world THEN qdb.cursor["payment"] ELSE 0}
                 ELSE LinkedTo({Max({remote[p].of : p \in pays})}) IN
    /\ k \in InvoiceKinds
    /\ \E p \in last :
         CommitAndEnd(w, [qdb EXCEPT !.copies = [i \in Ids |-> WithPayments(w, pays)[i]
                                                                + One(i \in new)],
                                     !.drafts = @ \cup (taken \ new),
                                     !.cursor = [l \in world |->
                                         CASE l = k /\ taken # {} -> Max(taken)
                                           [] l = "payment"       -> p
                                           [] OTHER               -> @[l]]], taken # {})

-----------------------------------------------------------------------------
(* Exports.                                                                *)

(* Mutant of ToExportQb: the id that is stored does not matter.            *)
ToExportAnyhow(d) == d \in Docs

(* A document with an id is not exported, or updates what it was exported  *)
(* to; tax agencies, taxes, payment methods and, of several that are       *)
(* exported together, vendor payments are exported again.                  *)
Twice == {"agency", "tax", "method", "billpay"}
ToExportQb(d) == docKind \notin {"category", "refund"} /\ (qdb.id[d] = 0 \/ docKind \in Twice)

ExportQb(w, d) ==
    /\ qbc[w] = "idle" /\ ToExportQb(d)
    /\ qbc' = [qbc EXCEPT ![w] = "export"]
    /\ item' = [item EXCEPT ![w].doc = d]
    /\ qsnap' = [qsnap EXCEPT ![w] = qdb]
    /\ stale' = [stale EXCEPT ![w] = FALSE]
    /\ UNCHANGED <<world, docKind, remote, qdb, qtodo, line, pend, raced, broken>>

PostQb(w) ==
    /\ qbc[w] = "export" /\ Room(docKind)
    /\ \E fresh \in Shape(docKind) :
          remote' = Append(remote, [kind |-> docKind, of |-> 0, home |-> item[w].doc,
                                    odd |-> FALSE, twin |-> FALSE, fresh |-> fresh])
    /\ item' = [item EXCEPT ![w].id = Len(remote) + 1]
    /\ qbc' = [qbc EXCEPT ![w] = "posted"]
    /\ UNCHANGED <<world, docKind, qdb, qtodo, line, pend, qsnap, stale, raced, broken>>

(* v with the id of what w has posted.                                     *)
Stored(w) ==
    LET d == item[w].doc  i == item[w].id  old == qsnap[w].id[d] IN
    [qdb EXCEPT !.id[d] = i,
                !.copies = [j \in Ids |-> @[j] + One(j = i) - One(j = old)],
                !.lines[i] = IF docKind = "order" THEN AllLines ELSE {}]

SameId(w) == qdb.id[item[w].doc] = qsnap[w].id[item[w].doc]

(* The export of a document of kind k stores its id and ends.              *)
StoreOnly(w, k) ==
    /\ qbc[w] = "posted" /\ docKind = k /\ SameId(w)
    /\ CommitAndEnd(w, Stored(w), FALSE)

StoreEmployee(w)   == StoreOnly(w, "employee")      \* exportEmployee
StoreDepartment(w) == StoreOnly(w, "department")    \* exportDepartment
StoreTerm(w)       == StoreOnly(w, "term")  \* export_payment_term_to_quickbooks
StoreQb(w) ==
    \E k \in QbKinds \ {"account", "agency", "method", "tax", "employee", "department", "term"} :
        StoreOnly(w, k)

(* The export of an account, an agency or a method moves a cursor to its   *)
(* id; that of a method the cursor of the agencies.                        *)
StoreAndMove(w, k, cursor) ==
    /\ qbc[w] = "posted" /\ docKind = k /\ SameId(w)
    /\ CommitAndEnd(w, [Stored(w) EXCEPT !.cursor[cursor] = item[w].id], TRUE)

StoreAccount(w) == StoreAndMove(w, "account", "account")
StoreAgency(w)  == StoreAndMove(w, "agency", "agency")
StoreMethod(w)  == StoreAndMove(w, "method", "agency")

(* export_tax_code_to_qbo commits, and then may move the cursor.           *)
StoreTax(w) ==
    /\ qbc[w] = "posted" /\ docKind = "tax" /\ SameId(w)
    /\ \/ EndWith(w, Stored(w), FALSE)
       \/ /\ qdb.cursor["tax"] < item[w].id
          /\ EndWith(w, [Stored(w) EXCEPT !.cursor["tax"] = item[w].id], TRUE)

(* update_account_to_qbo moves the cursor too, back if need be.            *)
UpdateAccount(w, d) ==
    /\ qbc[w] = "idle" /\ docKind = "account" /\ qdb.id[d] # 0
    /\ qdb.cursor["account"] # qdb.id[d]
    /\ qdb' = [qdb EXCEPT !.cursor["account"] = qdb.id[d]]
    /\ Outdate(w, TRUE)
    /\ UNCHANGED <<world, docKind, remote, qbc, qtodo, line, pend, qsnap, item, raced, broken>>

-----------------------------------------------------------------------------
(* Somebody works in QuickBooks.                                           *)

MakeQb(k) ==
    /\ k \in world /\ Room(k)
    /\ \E odd \in BOOLEAN, twin \in BOOLEAN, of \in 0..Len(remote), fresh \in Shape(k) :
          /\ twin => ~odd /\ k \in ByCode \cup PayKinds
          /\ odd => k \notin {"partner", "account", "department", "agency", "method"}
          /\ of # 0 => \/ k = "payment" /\ Kind(of) = "invoice"
                       \/ k = "category" /\ Kind(of) = "category" /\ ~odd /\ ~remote[of].odd
          /\ remote' = Append(remote, [kind |-> k, of |-> of, home |-> 0, odd |-> odd,
                                       twin |-> twin, fresh |-> fresh])
    /\ UNCHANGED <<world, docKind, qdb, qbc, qtodo, line, pend, qsnap, stale, item, raced, broken>>

QbNext ==
    \/ \E w \in QbWorkers :
          \/ \E k \in QbKinds : QbBegin(w, k)
          \/ ImportPartners(w) \/ ImportAccounts(w) \/ ImportDepartments(w)
          \/ ImportEmployees(w) \/ ImportAgencies(w) \/ ImportMethods(w)
          \/ ImportPurchases(w) \/ ImportTerms(w) \/ ImportRefunds(w)
          \/ ImportProduct(w) \/ ImportTax(w) \/ ImportCategory(w) \/ EndItems(w)
          \/ ImportInventory(w) \/ ImportJournal(w)
          \/ OrderHeader(w) \/ OrderLine(w) \/ OrderAgain(w) \/ EndSteps(w)
          \/ ImportPayments(w) \/ ImportInvoices(w)
          \/ \E d \in Docs : ExportQb(w, d) \/ UpdateAccount(w, d)
          \/ PostQb(w) \/ StoreQb(w) \/ StoreTax(w) \/ QbLose(w)
          \/ StoreEmployee(w) \/ StoreDepartment(w) \/ StoreTerm(w)
          \/ StoreAccount(w) \/ StoreAgency(w) \/ StoreMethod(w)
    \/ \E k \in QbKinds : MakeQb(k)

QbSpec == QbInit /\ [][QbNext]_qbvars

-----------------------------------------------------------------------------
(* Properties.                                                             *)

Exported(k) == \E i \in Made : Kind(i) = k /\ remote[i].home # 0

(* Where the code may create an object twice: two requests at it at a time *)
(* (one of them exporting it, or each object being committed before the    *)
(* cursor moves, or an employee not moving it); payments, if Odoo exported *)
(* them, they pay two documents or an invoice has moved their cursor;      *)
(* agencies and methods, if a method was exported; and categories below    *)
(* others.                                                                 *)
QbExcused(i) ==
    \/ i \in raced /\ (Kind(i) \in Stepwise \/ remote[i].home # 0 \/ remote[i].odd)
    \/ Kind(i) \in PayKinds /\ (\/ remote[i].home # 0 \/ remote[i].twin
                                \/ \E p \in Made : remote[p].of # 0)
    \/ Kind(i) \in {"agency", "method"} /\ Exported("method")
    \/ Kind(i) = "category" /\ remote[i].of # 0

(* Imports, exports, overlaps and interruptions never make two records of  *)
(* one object of QuickBooks, but for the cases above.                      *)
QbOnce == \A i \in Made : qdb.copies[i] <= 1 \/ QbExcused(i)

(* Where the cursor jumps or a record loses its id: payments, when they    *)
(* are imported with their invoice; accounts, agencies and taxes, when one *)
(* of them is exported; products, when the inventory meets an exported     *)
(* one; methods and vendor payments, when one is exported again.           *)
Jumping(k) ==
    \/ k = "payment" /\ \E p \in Made : remote[p].of # 0
    \/ k \in {"account", "agency", "tax", "product", "method", "billpay"} /\ Exported(k)
    \/ k = "agency" /\ Exported("method")

(* An account or a product whose number or Sku is that of another record.  *)
Shared(i) == Kind(i) \in ByCode /\ remote[i].twin

(* What the cursor has passed is in Odoo, unless the import leaves it out, *)
(* finds another record by its number or Sku, or the cursor jumps: it is   *)
(* never asked for again.                                                  *)
QbNoGap ==
    \A i \in Made :
        i <= qdb.cursor[Kind(i)] /\ ~remote[i].odd /\ ~Shared(i) /\ ~Jumping(Kind(i)) =>
            qdb.copies[i] > 0

(* An order lacks lines only while an import is at it, or after one that   *)
(* ended in the middle of it, until an import gives it all of them.        *)
QbWholeOrders ==
    \A i \in Made :
        Kind(i) = "order" /\ qdb.copies[i] > 0 /\ qdb.lines[i] # AllLines =>
            i \in broken \/ \E w \in QbWorkers : line[w] > 0 /\ i = Min(qtodo[w])

(* An invoice that came from QuickBooks stays posted: only those that Odoo *)
(* had exported are put back to draft, when the import meets them.         *)
QbStayPosted == \A i \in qdb.drafts : remote[i].home # 0

(* Every object that the cursor has passed is imported exactly once, an    *)
(* order with its lines, and an invoice remains posted.                    *)
QbImported == QbOnce /\ QbNoGap /\ QbWholeOrders /\ QbStayPosted

(* Documents are exported as RemoteExport promises, but for the kinds that *)
(* are exported again.                                                     *)
SendersOf(d) == {w \in QbWorkers : qbc[w] = "export" /\ item[w].doc = d}
CopiesOf(d)  == {i \in Made : remote[i].home = d}
OnlyOnce(n)  == IF docKind \in Twice THEN 0 ELSE n

QbAttempts == [d \in Docs |-> OnlyOnce(Cardinality(SendersOf(d)))]
QbCopies   == [d \in Docs |-> OnlyOnce(Cardinality(CopiesOf(d)))]
QbStored   == [d \in Docs |-> docKind \notin Twice /\ qdb.id[d] # 0]

Q == INSTANCE RemoteExport WITH
        Documents <- Docs, attempts <- QbAttempts, copies <- QbCopies, stored <- QbStored
QbExports == Q!Spec
=============================================================================
