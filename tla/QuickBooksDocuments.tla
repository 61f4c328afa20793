------------------------ MODULE QuickBooksDocuments ------------------------
(***************************************************************************)
(* A document exported to QuickBooks and the records it refers to:         *)
(* account_move.py, export_sale_order.py, export_purchase_order.py,        *)
(* account_invoice.py (payments), product.py, account.py, account_tax.py.  *)
(* What is not in QuickBooks yet is exported on demand, each record with a *)
(* commit of its own, before the document is posted.                       *)
(*                                                                         *)
(* Names of items, accounts and taxes are unique in QuickBooks: a record   *)
(* whose POST went through and whose id was lost is refused the next time. *)
(* LoseDesk is an exception, a serialization failure or a dead worker; so  *)
(* a raise of the code has no action of its own.                           *)
(***************************************************************************)
EXTENDS Naturals, SequencesExt

CONSTANTS
    Desks,      \* requests
    Goods,      \* products
    Skus,       \* those with an internal reference
    Ledgers,    \* accounts
    LedgerOf,   \* the account of a product
    Levies,     \* taxes
    NoLevy,
    Papers      \* the documents that may be exported

(* The other records: the partner, the sale order or bill that a document  *)
(* continues, the agency of the taxes, the document itself.                *)
Others  == {"client", "origin", "agency", "document"}
Masters == Goods \cup Ledgers \cup Levies \cup Others
Kinds   == {"invoice", "estimate", "purchase", "journal", "payment", "billpay"}

ASSUME PapersAssumption ==
    /\ Skus \subseteq Goods /\ LedgerOf \in [Goods -> Ledgers]
    \* an item of another kind of line is none of these names
    /\ Others \cap (Goods \cup Ledgers \cup Levies) = {}
    /\ \A d \in Papers :
          /\ d.kind \in Kinds
          /\ d.origin \in BOOLEAN         \* it continues an order or a bill
          /\ d.lines \in Seq([item : Goods, tax : Levies \cup {NoLevy}])
          /\ d.accounts \in Seq(Ledgers)   \* of its lines, payable, of the bank

VARIABLES
    paper,      \* the document, which stays as it is
    link,       \* the records with a committed id of QuickBooks
    there,      \* the records that QuickBooks has
    posted,     \* the copies of the document there: [refs, taxes]
    desk        \* per request: what it still has to do, what it sees

docvars == <<paper, link, there, posted, desk>>

AtRest == [at |-> "idle", doc |-> FALSE, todo |-> <<>>, sees |-> {}, own |-> {}, taxes |-> <<>>]

(* What a document needs of a record: that it is exported on demand, that  *)
(* it was exported before ("must"), or that it was and is exported before  *)
(* the refusal ("refuse").                                                 *)
Demand(what, m) == [what |-> what, of |-> m]

QbDocTypeOK ==
    /\ paper \in Papers
    /\ link \subseteq Masters /\ there \subseteq Masters
    /\ \A w \in Desks :
          /\ desk[w].at \in {"idle", "prepare", "store", "posted"}
          /\ desk[w].sees \cup desk[w].own \subseteq Masters

DocInit ==
    /\ paper \in Papers
    /\ link \in SUBSET (IF paper.origin THEN {"origin"} ELSE {})
    /\ there \in SUBSET link      \* a linked order may have been deleted
    /\ posted = {}
    /\ desk = [w \in Desks |-> AtRest]

View(w) == desk[w].sees \cup desk[w].own

Put(w, new) == desk' = [desk EXCEPT ![w] = new]

(* A commit fails on a record that somebody else linked meanwhile.         *)
CommitDesk(w, own, new) ==
    /\ own \cap link = {}
    /\ link' = link \cup own
    /\ Put(w, IF new = AtRest THEN AtRest
              ELSE [new EXCEPT !.sees = link', !.own = {}])

LoseDesk(w) ==
    /\ desk[w].at # "idle"
    /\ Put(w, AtRest)
    /\ UNCHANGED <<paper, link, there, posted>>

(***************************************************************************)
(* What the _prepare_..._dict of each kind asks for, in its order.         *)
(***************************************************************************)
OriginDemand(d) == IF d.origin THEN <<Demand("must", "origin")>> ELSE <<>>

(* get_qbo_product_ref for the item, export_one_tax_at_a_time for its tax. *)
LineDemands(line) ==
    <<Demand("export", line.item)>> \o
    (IF line.tax = NoLevy THEN <<>> ELSE <<Demand("export", line.tax)>>)

(* A purchase order with a taxed line is refused before its item is asked. *)
PurchaseDemands(line) ==
    IF line.tax = NoLevy THEN <<Demand("export", line.item)>> ELSE <<Demand("never", line.item)>>

OfLines(d) == FlattenSeq([k \in DOMAIN d.lines |->
                  IF d.kind = "purchase" THEN PurchaseDemands(d.lines[k]) ELSE LineDemands(d.lines[k])])
Accounts(d, what)  == [k \in DOMAIN d.accounts |-> Demand(what, d.accounts[k])]

Client == <<Demand("export", "client")>>

Demands(d) ==
    CASE d.kind = "invoice"  -> OriginDemand(d) \o Client \o OfLines(d)
      [] d.kind = "estimate" -> Client \o OfLines(d)
      [] d.kind = "purchase" -> Client \o OfLines(d) \o Accounts(d, "must")
      [] d.kind = "journal"  -> Accounts(d, "refuse")
      [] d.kind = "payment"  -> Client
      [] d.kind = "billpay"  -> Client \o OriginDemand(d) \o Accounts(d, "must")

(***************************************************************************)
(* Requests.                                                               *)
(***************************************************************************)
BeginDocument(w) ==
    /\ desk[w].at = "idle" /\ "document" \notin link
    /\ Put(w, [AtRest EXCEPT !.at = "prepare", !.doc = TRUE, !.todo = Demands(paper), !.sees = link])
    /\ UNCHANGED <<paper, link, there, posted>>

(* The buttons of products, accounts and taxes, on some of them in turn.   *)
BeginRecords(w, batch) ==
    /\ desk[w].at = "idle"
    /\ Put(w, [AtRest EXCEPT !.at = "prepare", !.sees = link,
                             !.todo = [k \in DOMAIN batch |-> Demand("export", batch[k])]])
    /\ UNCHANGED <<paper, link, there, posted>>

Working(w) == desk[w].at = "prepare" /\ desk[w].todo # <<>>
Next1(w)   == Head(desk[w].todo)
Wanted(w)  == Working(w) /\ Next1(w).what \in {"export", "refuse"} /\ Next1(w).of \notin View(w)

(* The demand is met: the tax of a line goes to the list of taxes.         *)
Done(w) ==
    LET m == Next1(w).of
    IN  [desk[w] EXCEPT !.at = "prepare", !.todo = Tail(@),
                        !.taxes = IF m \in Levies THEN Append(@, m) ELSE @]

Linked(w) ==
    /\ Working(w) /\ Next1(w).of \in View(w) /\ Next1(w).what # "never"
    /\ Next1(w).of = "origin" => "origin" \in there    \* get_linked_..._ref
    /\ Put(w, Done(w))
    /\ UNCHANGED <<paper, link, there, posted>>

(* check_product_by_sku_in_xero, which ends a batch (break), and the look  *)
(* for a partner's name after a refusal (QuickBooksContacts).              *)
FindRecord(w) ==
    /\ Wanted(w)
    /\ LET m == Next1(w).of
       IN  /\ m \in (Skus \cup {"client"}) \cap there
           /\ CommitDesk(w, desk[w].own \cup {m},
                         IF desk[w].doc THEN Done(w) ELSE [Done(w) EXCEPT !.todo = <<>>])
    /\ UNCHANGED <<paper, there, posted>>

(* What is exported before: the account of an item, the agency of a tax.   *)
Before(m) == IF m \in Goods THEN {LedgerOf[m]} ELSE IF m \in Levies THEN {"agency"} ELSE {}

Precede(w) ==
    /\ Wanted(w) /\ Next1(w).of \notin Skus \cap there
    /\ \E m \in Before(Next1(w).of) \ View(w) :
          Put(w, [desk[w] EXCEPT !.todo = <<Demand("export", m)>> \o @])
    /\ UNCHANGED <<paper, link, there, posted>>

PostRecord(w) ==
    /\ Wanted(w) /\ Next1(w).of \notin there /\ Before(Next1(w).of) \subseteq View(w)
    /\ there' = there \cup {Next1(w).of}
    /\ Put(w, [desk[w] EXCEPT !.at = "store"])
    /\ UNCHANGED <<paper, link, posted>>

(* Mutant of Uncommitted: nor the id of an item.                           *)
UncommittedItems == {"agency"} \cup Goods

(* The id of an agency waits for the commit of its tax.                    *)
Uncommitted == {"agency"}

(* A journal entry is refused even so: the user exports it again.          *)
StoreRecord(w) ==
    /\ desk[w].at = "store"
    /\ LET m == Next1(w).of
       IN  IF m \in Uncommitted
           THEN Put(w, [Done(w) EXCEPT !.own = @ \cup {m}]) /\ UNCHANGED link
           ELSE CommitDesk(w, desk[w].own \cup {m},
                           IF Next1(w).what = "refuse" THEN AtRest ELSE Done(w))
    /\ UNCHANGED <<paper, there, posted>>

(* An item, a tax or a partner that could not be exported is passed over   *)
(* in silence, unless the answer of an item is 400.                        *)
PassOver(w) ==
    /\ Wanted(w) /\ Before(Next1(w).of) \subseteq View(w)
    /\ Next1(w).of \in Goods \cup Levies \cup {"client"}
    /\ Put(w, [desk[w] EXCEPT !.todo = Tail(@)])
    /\ UNCHANGED <<paper, link, there, posted>>

EndRecords(w) ==
    /\ desk[w].at = "prepare" /\ desk[w].todo = <<>> /\ ~desk[w].doc
    /\ CommitDesk(w, desk[w].own, AtRest)
    /\ UNCHANGED <<paper, there, posted>>

(***************************************************************************)
(* export_to_qbo, exportSaleOrder, exportPurchaseOrder and                 *)
(* export_journal_entry, from the taxes on.                                *)
(***************************************************************************)
(* Mutant of SameTax: the last pair of lines is not compared.              *)
SameTaxButLast(taxes) == \A j \in 1 .. Len(taxes) - 2 : taxes[j] = taxes[j + 1]

SameTax(taxes) == \A j \in 1 .. Len(taxes) - 1 : taxes[j] = taxes[j + 1]

LinesHave == {paper.lines[k].item : k \in DOMAIN paper.lines}
Taxes     == {paper.lines[k].tax : k \in DOMAIN paper.lines} \ {NoLevy}
Refers    == LinesHave \cup {"client"} \cup Range(paper.accounts)
                 \cup (IF paper.origin THEN {"origin"} ELSE {})

(* The tax of a sale order is an exception: the code reads a name that     *)
(* does not exist (export_sale_order.py:94).  QuickBooks refuses a         *)
(* document without a partner.                                             *)
PostDocument(w) ==
    /\ desk[w].at = "prepare" /\ desk[w].todo = <<>> /\ desk[w].doc
    /\ SameTax(desk[w].taxes)
    /\ paper.kind = "estimate" => desk[w].taxes = <<>>
    /\ paper.kind # "journal" => "client" \in View(w)
    /\ posted' = posted \cup
          {[refs |-> Refers \cap View(w), taxes |-> Range(desk[w].taxes)]}
    /\ Put(w, [desk[w] EXCEPT !.at = "posted"])
    /\ UNCHANGED <<paper, link, there>>

StoreDocument(w) ==
    /\ desk[w].at = "posted"
    /\ CommitDesk(w, desk[w].own \cup {"document"}, AtRest)
    /\ UNCHANGED <<paper, there, posted>>

(* The records that a user selects: the items or accounts of the document. *)
Batches == {[k \in DOMAIN paper.lines |-> paper.lines[k].item], paper.accounts} \ {<<>>}

DocNext ==
    \/ \E w \in Desks :
          \/ BeginDocument(w) \/ \E b \in Batches : BeginRecords(w, b)
          \/ Linked(w) \/ FindRecord(w) \/ Precede(w) \/ PostRecord(w) \/ StoreRecord(w)
          \/ PassOver(w) \/ EndRecords(w) \/ PostDocument(w) \/ StoreDocument(w) \/ LoseDesk(w)

DocSpec == DocInit /\ [][DocNext]_docvars

(***************************************************************************)
(* Properties.                                                             *)
(***************************************************************************)
(* What a copy of the document in QuickBooks refers to is linked in Odoo   *)
(* for good, whatever happened to the request that posted it: the records  *)
(* are committed one by one on the way (product.py:421, account.py:312,    *)
(* account_tax.py:354).                                                    *)
RefsKnown == \A copy \in posted : copy.refs \cup copy.taxes \subseteq link

(* All taxed lines of a posted document have the one tax that it names     *)
(* (account_move.py:1860), unless a tax could not be exported on the way,  *)
(* which the comparison passes over.                                       *)
OneTax == \A copy \in posted : copy.taxes = Taxes => \A t \in Taxes : Taxes = {t}

(* Both parts, for every document that was posted.                         *)
QbDocuments == RefsKnown /\ OneTax
=============================================================================
