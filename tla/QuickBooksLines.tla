--------------------------- MODULE QuickBooksLines ---------------------------
(***************************************************************************)
(* How an invoice, a credit memo, a refund or a bill of QuickBooks becomes *)
(* an entry of Odoo: create_invoice, create_invoice_dict and               *)
(* odoo_create_invoice_line_dict (account_move.py).  The lines are read    *)
(* into a list with up to three members for each of them (its line, the    *)
(* receivable and the tax), the list is tidied in a loop that takes        *)
(* members out of the list it goes through, the discounts are added in     *)
(* another loop, and what belongs to the tab of the lines is written.  The *)
(* same document may be imported again: its lines are deleted and written  *)
(* anew.                                                                   *)
(*                                                                         *)
(* It is one request with nobody else at it; an exception undoes it all.   *)
(* Of a tax only its origin matters: the code or the rate of the document, *)
(* or the tax called TAX.                                                  *)
(***************************************************************************)
EXTENDS Integers, Sequences, FiniteSets, SequencesExt

CONSTANTS
    Forms,      \* documents of QuickBooks
    NoMove

Sales == {"out_invoice", "out_refund"}

ASSUME FormsAssumption ==
    \A f \in Forms :
        /\ f.type \in Sales \cup {"in_invoice"}
        /\ f.party \in {"customer", "vendor", "both", "unknown"}
        /\ f.code \in {"none", "known", "unknown"}   \* TxnTaxCodeRef, and whether Odoo has it
        /\ f.rate \in {"none", "known", "unknown"}   \* the rate of the first TaxLine
        /\ f.plain \in BOOLEAN                       \* Odoo has a tax with the id TAX
        /\ f.taxable \in Nat                         \* NetAmountTaxable of the first TaxLine
        /\ f.lines \in Seq(Range(f.lines))
        /\ \A l \in Range(f.lines) :
              /\ l.kind \in {"item", "expense", "text", "discount", "percent", "subtotal"}
              /\ l.tax \in {"TAX", "NON", "absent"}
              /\ l.qty \in Nat /\ l.price \in Nat /\ l.amount \in Nat   \* 0: it is not there
              /\ l.price # 0 => l.amount = (IF l.qty = 0 THEN 1 ELSE l.qty) * l.price

VARIABLES
    form, found,    \* the document; how many products Odoo has for each item
    stage,          \* idle, read, tidy, discount, write, or refused by an exception
    at,             \* the line or the member that the loop is at
    members,        \* inv_line_data
    move            \* the entry with its lines, and whether it is posted

linevars == <<form, found, stage, at, members, move>>

ItemsOf(f) == {l.item : l \in Range(f.lines)}

LineTypeOK ==
    /\ form \in Forms /\ stage \in {"idle", "read", "tidy", "discount", "write", "refused"}
    /\ found \in [ItemsOf(form) -> Nat] /\ at \in Nat
    /\ move # NoMove => move.posted \in BOOLEAN

LineInit ==
    /\ form \in Forms
    /\ found \in [ItemsOf(form) -> {0, 1}]
    /\ stage = "idle" /\ at = 1 /\ members = <<>> /\ move = NoMove

(* create_invoice_dict: a partner that is not there is imported.  The      *)
(* journal of a customer who is a vendor too is one of purchases, which an *)
(* invoice refuses.                                                        *)
SuitsJournal(f) == f.party = "both" => f.type = "in_invoice"

BeginImport ==
    /\ stage = "idle"
    /\ stage' = IF move # NoMove \/ SuitsJournal(form) THEN "read" ELSE "refused"
    /\ at' = 1 /\ members' = <<>>
    /\ UNCHANGED <<form, found, move>>

(***************************************************************************)
(* The lines.                                                              *)
(***************************************************************************)
NoTax == "none"

(* custom_tax_id and custom_discount_tax_id of the document: the code is   *)
(* looked up first, then the rate replaces what was found.                 *)
TaxOfForm(f)   == IF f.type \in Sales /\ f.rate = "known" THEN "rate" ELSE NoTax
DiscountTax(f) == IF f.type \notin Sales THEN NoTax
                  ELSE IF f.rate = "known" THEN "rate" ELSE IF f.code = "known" THEN "code" ELSE NoTax

(* Mutant of TaxOfLine: it is not reset for a line without tax.            *)
TaxOfAll(f, l) == IF l.tax = "TAX" /\ f.plain THEN "TAX" ELSE TaxOfForm(f)

(* What the line's own code makes of it: TAX is looked up by this name.    *)
TaxOfLine(f, l) ==
    IF l.tax # "TAX" \/ f.type \notin Sales THEN NoTax
    ELSE IF f.plain THEN "TAX" ELSE TaxOfForm(f)

Member(no, part, role, qty, price, levy) ==
    [no |-> no, part |-> part, role |-> role, qty |-> qty, price |-> price, tax |-> levy]

(* Unit price, else the amount when there is no quantity either.           *)
PriceOf(l) == IF l.price # 0 THEN l.price ELSE IF l.qty = 0 THEN l.amount ELSE 0

(* A line and its receivable; a tax for sales with a code.                 *)
WithCounterparts(k, part, qty, price, levy) ==
    <<Member(k, part, "line", qty, price, levy), Member(k, part, "receivable", qty, -price, levy)>> \o
    (IF form.type \in Sales /\ form.code # "none"
     THEN <<Member(k, part, "tax", qty, 0, levy)>> ELSE <<>>)

Reading(kind) == stage = "read" /\ at <= Len(form.lines) /\ form.lines[at].kind = kind

(* The tax of a line asks for the percentage of the first TaxLine.         *)
PercentMissing == form.type \in Sales /\ form.code # "none" /\ form.rate = "none"

ReadOn(new) ==
    /\ IF PercentMissing /\ form.lines[at].kind \in {"item", "expense"}
       THEN stage' = "refused" /\ UNCHANGED <<members, at>>
       ELSE members' = members \o new /\ at' = at + 1 /\ UNCHANGED stage

(* An item without a product gets one, a service.                          *)
ReadItem ==
    /\ Reading("item")
    /\ LET l == form.lines[at]
       IN  /\ ReadOn(WithCounterparts(at, "item", l.qty, PriceOf(l), TaxOfLine(form, l)))
           /\ found' = [found EXCEPT ![l.item] = IF @ = 0 THEN 1 ELSE @]
    /\ UNCHANGED <<form, move>>

(* The quantity of an expense is 1 unless there is one; its tax is found   *)
(* by the code of the line.                                                *)
ReadExpense ==
    /\ Reading("expense")
    /\ LET l == form.lines[at]
       IN  ReadOn(WithCounterparts(at, "expense", IF l.qty = 0 THEN 1 ELSE l.qty, PriceOf(l),
                                   IF l.tax = "TAX" /\ form.plain THEN "TAX" ELSE NoTax))
    /\ UNCHANGED <<form, found, move>>

(* A line with an id and no detail that is known, a text or a bundle: its  *)
(* price is the taxable amount of the document.                            *)
ReadText ==
    /\ Reading("text")
    /\ ReadOn(<<Member(at, "text", "line", 1, IF form.rate = "none" THEN 0 ELSE form.taxable,
                  IF form.rate = "known" THEN "rate" ELSE NoTax)>>)
    /\ UNCHANGED <<form, found, move>>

ReadOver ==
    /\ Reading("subtotal") \/ Reading("discount") \/ Reading("percent")
    /\ ReadOn(<<>>)
    /\ UNCHANGED <<form, found, move>>

EndReading ==
    /\ stage = "read" /\ at > Len(form.lines)
    /\ stage' = "tidy" /\ at' = 1
    /\ UNCHANGED <<form, found, members, move>>

(***************************************************************************)
(* "for j in inv_line_data": with its member taken out of the list, the    *)
(* loop steps over the next one.                                           *)
(***************************************************************************)
WithoutProduct(m) == m.part = "item" /\ m.role # "line"     \* product_id is False
InTab(m)          == m.role = "line"

Tidying == stage = "tidy" /\ at <= Len(members)

TidyKeep ==
    /\ Tidying /\ ~WithoutProduct(members[at])
    /\ members' = IF members[at].part = "item" /\ members[at].qty = 0
                  THEN [members EXCEPT ![at].qty = 1] ELSE members
    /\ at' = at + 1
    /\ UNCHANGED <<form, found, stage, move>>

TidyRemove ==
    /\ Tidying /\ WithoutProduct(members[at])
    /\ members' = LET one == [members[at] EXCEPT !.qty = IF @ = 0 THEN 1 ELSE @]
                  IN  RemoveFirst([members EXCEPT ![at] = one], one)
    /\ at' = at + 1
    /\ UNCHANGED <<form, found, stage, move>>

EndTidying ==
    /\ stage = "tidy" /\ at > Len(members)
    /\ stage' = "discount" /\ at' = 1
    /\ UNCHANGED <<form, found, members, move>>

(***************************************************************************)
(* The discounts.  It is one dict for all of them that is filled and added *)
(* to the list each time, so all have what the last one wrote into it.     *)
(***************************************************************************)
WithDiscount(k, amount) ==
    Append([j \in DOMAIN members |->
               IF members[j].part = "discount" THEN [members[j] EXCEPT !.price = -amount] ELSE members[j]],
           Member(k, "discount", "line", 1, -amount, DiscountTax(form)))

Discounting(kinds) == stage = "discount" /\ at <= Len(form.lines) /\ form.lines[at].kind \in kinds

AddDiscount ==
    /\ Discounting({"discount"})
    /\ members' = WithDiscount(at, form.lines[at].amount) /\ at' = at + 1
    /\ UNCHANGED <<form, found, stage, move>>

(* A discount in percent is an exception.                                  *)
RefusePercent ==
    /\ Discounting({"percent"})
    /\ stage' = "refused"
    /\ UNCHANGED <<form, found, at, members, move>>

NoDiscount ==
    /\ Discounting({"item", "expense", "text", "subtotal"})
    /\ at' = at + 1
    /\ UNCHANGED <<form, found, stage, members, move>>

EndDiscounts ==
    /\ stage = "discount" /\ at > Len(form.lines)
    /\ stage' = "write"
    /\ UNCHANGED <<form, found, at, members, move>>

(***************************************************************************)
(* create_invoice: of the members, what is in the tab.                     *)
(***************************************************************************)
CreateMove ==
    /\ stage = "write" /\ move = NoMove
    /\ move' = IF members = <<>> THEN NoMove
               ELSE [lines |-> RestrictValues(members, InTab), posted |-> TRUE]
    /\ stage' = "idle"
    /\ UNCHANGED <<form, found, at, members>>

(* The document is there: a text has no key that tells whether it is in    *)
(* the tab, a KeyError.  The entry stays a draft.                          *)
RewriteMove ==
    /\ stage = "write" /\ move # NoMove
    /\ IF \E m \in Range(members) : m.part = "text"
       THEN stage' = "refused" /\ UNCHANGED move
       ELSE /\ move' = [lines |-> RestrictValues(members, InTab), posted |-> FALSE]
            /\ stage' = "idle"
    /\ UNCHANGED <<form, found, at, members>>

LineNext ==
    \/ BeginImport \/ ReadItem \/ ReadExpense \/ ReadText \/ ReadOver \/ EndReading
    \/ TidyKeep \/ TidyRemove \/ EndTidying
    \/ AddDiscount \/ RefusePercent \/ NoDiscount \/ EndDiscounts
    \/ CreateMove \/ RewriteMove

LineSpec == LineInit /\ [][LineNext]_linevars

(***************************************************************************)
(* Properties.                                                             *)
(***************************************************************************)
Of(k) == {j \in DOMAIN move.lines : move.lines[j].no = k}
Amounts  == [j \in DOMAIN move.lines |-> move.lines[j].qty * move.lines[j].price]
Worth(k) == SumFunctionOnSet(Amounts, Of(k))

(* The lines whose amount does not arrive: a quantity without a price; a   *)
(* text of a taxed document; an item without a quantity, which stays 0     *)
(* when the loop steps over it, behind another item of a document whose    *)
(* lines have no member for the tax; and a discount before another one.    *)
SteppedOver(k) == /\ form.type \notin Sales \/ form.code = "none"
                  /\ \E j \in 1 .. k - 1 : form.lines[j].kind = "item"

Astray(k) ==
    LET l == form.lines[k]
    IN  \/ l.kind \in {"item", "expense"} /\ l.qty # 0 /\ l.price = 0
        \/ l.kind = "text"
        \/ l.kind = "item" /\ l.qty = 0 /\ SteppedOver(k)
        \/ l.kind = "discount" /\ \E j \in k + 1 .. Len(form.lines) : form.lines[j].kind = "discount"

Expected(l) == CASE l.kind = "discount" -> -l.amount [] l.kind = "subtotal" -> 0 [] OTHER -> l.amount

(* Every other line arrives once and with its amount, also when the        *)
(* document is imported again.                                             *)
AmountsArrive ==
    move # NoMove =>
        \A k \in DOMAIN form.lines : ~Astray(k) =>
            /\ Worth(k) = Expected(form.lines[k])
            /\ Cardinality(Of(k)) = IF form.lines[k].kind = "subtotal" THEN 0 ELSE 1

(* A line of a sale carries a tax only if its own code says so, whatever   *)
(* the lines before it carry.                                              *)
TaxedAsMarked ==
    move # NoMove /\ form.type \in Sales =>
        \A j \in DOMAIN move.lines :
            move.lines[j].part = "item" /\ move.lines[j].tax # NoTax =>
                form.lines[move.lines[j].no].tax = "TAX"

(* An item on several lines has one product.                               *)
OneProduct == \A i \in DOMAIN found : found[i] <= 1

QbLines == AmountsArrive /\ TaxedAsMarked /\ OneProduct
=============================================================================
