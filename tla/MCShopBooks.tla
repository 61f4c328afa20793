----------------------------- MODULE MCShopBooks -----------------------------
(***************************************************************************)
(* The money of a Shopify order (of two units, paid in two parts and       *)
(* refunded), the contents of orders and the contacts of their customers;  *)
(* the exports of partners and of documents to QuickBooks, and the         *)
(* contents of those that are imported from there.  They share no state: a *)
(* behaviour of this model is one of one of them, while the others stay    *)
(* where they begin.                                                       *)
(***************************************************************************)
EXTENDS ShopifyPayments, QuickBooksContacts, QuickBooksDocuments, QuickBooksLines,
        ShopifyOrderLines, ShopifyContacts, TLC

CONSTANTS t1, t2, r1, r2, sku

VARIABLE system     \* the component that runs

MCAmount == [x \in Txs \cup Refunds |-> IF x = t1 THEN 1 ELSE 2]
MCItems == r1 :> (sku :> <<1, 1>>) @@ r2 :> (sku :> <<2>>)

(* A company and its contact, and a namesake of the contact: all of them   *)
(* customers, or vendors, or in a family with both ranks.  Or no family,   *)
(* and a partner with both ranks.                                          *)
MCName  == "p1" :> "Acme Ltd" @@ "p2" :> "Ann" @@ "p3" :> "Ann Lee"
MCGiven == "p1" :> NoName @@ "p2" :> "Ann" @@ "p3" :> "Ann"
MCBook(customers, suppliers, parents) ==
    [parent |-> parents @@ [p \in Contacts |-> NoContact], customer |-> customers,
     supplier |-> suppliers, name |-> MCName, given |-> MCGiven]

MCBooks == {MCBook(Contacts, {}, "p2" :> "p1"), MCBook({}, Contacts, "p2" :> "p1"),
            MCBook({"p2"}, {"p1", "p3"}, "p2" :> "p1" @@ "p3" :> "p1"),
            MCBook({"p1", "p2"}, {"p1", "p3"}, <<>>)}

MCLine(good, levy) == [item |-> good, tax |-> levy]
MCPaper(paperKind, origin, lines, accounts) ==
    [kind |-> paperKind, origin |-> origin, lines |-> lines, accounts |-> accounts]

MCPapers == {MCPaper("invoice", TRUE, <<MCLine("g1", NoLevy)>>, <<>>),
             MCPaper("invoice", FALSE, <<MCLine("g2", "t1"), MCLine("g2", "t2")>>, <<>>),
             MCPaper("estimate", FALSE, <<MCLine("g2", "t1")>>, <<>>),
             MCPaper("purchase", FALSE, <<MCLine("g1", NoLevy)>>, <<"a1">>),
             MCPaper("purchase", FALSE, <<MCLine("g2", "t1")>>, <<"a1">>),
             MCPaper("journal", FALSE, <<>>, <<"a1", "a2">>),
             MCPaper("payment", FALSE, <<>>, <<>>),
             MCPaper("billpay", TRUE, <<>>, <<"a2">>)}

MCLedgerOf == "g1" :> "a1" @@ "g2" :> "a2"

(* Documents of QuickBooks: the lines that change how the next ones are    *)
(* read, in documents of three types; and each combination of type,        *)
(* partner, tax code and tax rate with an item and a discount.             *)
MCQbLine(lineKind, item, qty, price, amount, levy) ==
    [kind |-> lineKind, item |-> item, qty |-> qty, price |-> price, amount |-> amount, tax |-> levy]

MCQbItems == {MCQbLine("item", "i1", 2, 2, 4, "TAX"), MCQbLine("item", "i1", 0, 0, 3, "NON"),
              MCQbLine("item", "i2", 0, 2, 2, "TAX")}
MCQbOdd   == {MCQbLine("item", "i1", 2, 0, 4, "absent"), MCQbLine("text", "i1", 0, 0, 3, "absent"),
              MCQbLine("expense", "i1", 0, 0, 5, "TAX"), MCQbLine("discount", "i1", 0, 0, 1, "absent"),
              MCQbLine("discount", "i1", 0, 0, 2, "absent"),
              MCQbLine("percent", "i1", 0, 0, 1, "absent"), MCQbLine("subtotal", "i1", 0, 0, 5, "absent")}
MCQbLists == {<<k, l, n>> : k \in MCQbItems \cup MCQbOdd, l \in MCQbItems \cup MCQbOdd, n \in MCQbItems}

MCForm(formType, buyer, code, rate, plain, lines) ==
    [type |-> formType, party |-> buyer, code |-> code, rate |-> rate, plain |-> plain,
     taxable |-> 7, lines |-> lines]

MCForms ==
    {MCForm("in_invoice", "both", "none", "none", TRUE, l) : l \in MCQbLists}
    \cup {MCForm("out_invoice", "unknown", "known", "known", FALSE, l) : l \in MCQbLists}
    \cup {MCForm("out_refund", "customer", "none", "none", TRUE, l) : l \in MCQbLists}
    \cup {MCForm(formType, buyer, code, rate, plain,
                 <<MCQbLine("item", "i1", 2, 2, 4, "TAX"), MCQbLine("discount", "i1", 0, 0, 1, "absent")>>) :
             formType \in {"out_invoice", "in_invoice"}, buyer \in {"vendor", "both"},
             code \in {"none", "known"}, rate \in {"none", "known", "unknown"}, plain \in BOOLEAN}

(* Orders of Shopify: a discounted line about the limit of what two        *)
(* decimals can tell, and orders that are edited, with lines of quantity   *)
(* or price 0, with a discount of their own, or in another currency.       *)
MCSoldLine(article, qty, price, allocated, direct) ==
    [sku |-> article, qty |-> qty, price |-> price, allocated |-> allocated, direct |-> direct]
MCPayload(no, lines, shipping, foreign, edits) ==
    [no |-> no, lines |-> lines, shipping |-> shipping, foreign |-> foreign, edits |-> edits]

MCPayloads ==
    {MCPayload(a + 1000 * p + 100000 * q, <<MCSoldLine("s1", q, p, a, 0)>>, <<500>>, FALSE, {}) :
        a \in {1, 33, 667, 4999}, p \in {5000, 9999, 10001, 33333, 35000}, q \in {1, 2, 3}}
    \cup {MCPayload(1, <<MCSoldLine("s1", 2, 999, 333, 0), MCSoldLine("s2", 1, 0, 0, 0)>>, <<>>, FALSE, {2, 3}),
          MCPayload(2, <<MCSoldLine("s1", 1, 999, 0, 100), MCSoldLine("s2", 0, 10, 0, 0)>>, <<5, 7>>, FALSE, {1}),
          MCPayload(3, <<MCSoldLine("s2", 1, 0, 5, 0), MCSoldLine("s1", 0, 10, 0, 0)>>, <<5, 7>>, TRUE, {1}),
          MCPayload(4, <<MCSoldLine("s2", 1, 10, 5, 0), MCSoldLine("s1", 2, 10, 0, 0)>>, <<5, 7>>, TRUE, {1})}

MCListPrice == "s1" :> 700 @@ "s2" :> 0

(* Orders of three customers, one without email and one that Odoo exports: *)
(* to one address in two spellings, without a phone, zip or street.        *)
MCAddress(street, zip, phone) == [street |-> street, zip |-> zip, phone |-> phone]
MCOrder(no, customer, maisonette, bill, ship) ==
    [no |-> no, customer |-> customer, maisonette |-> maisonette, bill |-> bill, ship |-> ship]
MCPlain   == MCAddress("1 a st", "z", "555")
MCCaps    == MCAddress("1 A St", "z", "555")
MCOther   == MCAddress("2 b st", "z", "555")
MCSilent  == MCAddress("1 a st", "z", Null)
MCNoZip   == MCAddress("1 a st", Null, "555")
MCNowhere == MCAddress(Null, Null, "555")

Nobody == {MCOrder(1, Null, FALSE, Null, Null)}

MCFeeds ==
    {{MCOrder(1, "c1", FALSE, MCPlain, MCPlain), MCOrder(2, "c1", FALSE, MCCaps, MCCaps)},
     {MCOrder(1, "c1", FALSE, Null, MCPlain), MCOrder(2, "c1", FALSE, Null, MCCaps),
      MCOrder(3, "c1", FALSE, MCPlain, Null)},
     {MCOrder(1, "c1", FALSE, Null, MCNoZip), MCOrder(2, "c1", FALSE, MCPlain, MCCaps)},
     {MCOrder(1, "c1", FALSE, MCNowhere, MCOther), MCOrder(2, "c2", FALSE, MCSilent, MCSilent)},
     {MCOrder(1, "c3", FALSE, MCPlain, MCOther), MCOrder(2, "c3", FALSE, MCOther, MCPlain)},
     {MCOrder(1, Null, TRUE, MCPlain, MCOther), MCOrder(2, Null, TRUE, MCPlain, MCOther),
      MCOrder(3, Null, FALSE, Null, MCOther)},
     Nobody}

MCEmail == "c1" :> "e1" @@ "c2" :> Null @@ "c3" :> "e3"
MCLower == "1 a st" :> "1 a st" @@ "1 A St" :> "1 a st" @@ "2 b st" :> "2 b st" @@ "z" :> "z"

(* The workers of all components are the same model values.                *)
Symmetric == Permutations(Procs)

mcvars == <<vars, contactvars, docvars, linevars, orderlinevars, contactbookvars, system>>

MCInit ==
    /\ Init /\ ContactInit /\ DocInit
    /\ system \in {"money", "contacts", "documents", "lines", "orders", "people"}
    /\ system # "contacts" =>
          book = MCBook(Contacts, {}, "p2" :> "p1") /\ listed = [n \in DisplayNames |-> "free"]
    /\ system # "documents" => paper = MCPaper("payment", FALSE, <<>>, <<>>)
    /\ IF system = "lines" THEN LineInit
       ELSE /\ form = NoMove /\ found = <<>> /\ stage = "idle" /\ at = 1
            /\ members = <<>> /\ move = NoMove
    /\ IF system = "orders" THEN OrderLinesInit
       ELSE /\ order = NoSale /\ known = {} /\ feedState = "draft" /\ sale = NoSale
            /\ shipped = [f \in Fulfilments |-> "none"] /\ recorded = [f \in Fulfilments |-> <<>>]
    /\ PeopleInit /\ (system # "people" => arrived = Nobody)

StillMoney     == UNCHANGED <<contactvars, docvars, linevars, orderlinevars, contactbookvars, system>>
StillContacts  == UNCHANGED <<vars, docvars, linevars, orderlinevars, contactbookvars, system>>
StillDocuments == UNCHANGED <<vars, contactvars, linevars, orderlinevars, contactbookvars, system>>
StillLines     == UNCHANGED <<vars, contactvars, docvars, orderlinevars, contactbookvars, system>>
StillOrders    == UNCHANGED <<vars, contactvars, docvars, linevars, contactbookvars, system>>
StillPeople    == UNCHANGED <<vars, contactvars, docvars, linevars, orderlinevars, system>>

MCNext ==
    \/ \E p \in Procs :
          \/ system = "money" /\ Request(p) /\ StillMoney
          \/ system = "money" /\ Begin(p) /\ StillMoney
          \/ system = "money" /\ RollBack(p) /\ StillMoney
          \/ system = "money" /\ Fetch(p) /\ StillMoney
          \/ system = "money" /\ Invoice(p) /\ StillMoney
          \/ system = "money" /\ Pay(p) /\ StillMoney
          \/ system = "money" /\ Credit(p) /\ StillMoney
          \/ system = "money" /\ PayBack(p) /\ StillMoney
    \/ \E t \in Txs : system = "money" /\ Charge(t) /\ StillMoney
    \/ \E r \in Refunds : system = "money" /\ Refund(r) /\ StillMoney
    \/ system = "money" /\ PayByHand /\ StillMoney
    \/ \E c \in Clerks :
          \/ \E p \in Contacts : system = "contacts" /\ BeginContact(c, p) /\ StillContacts
          \/ system = "contacts" /\ UpdateContact(c) /\ StillContacts
          \/ system = "contacts" /\ CheckParent(c) /\ StillContacts
          \/ system = "contacts" /\ ExportAlone(c) /\ StillContacts
          \/ system = "contacts" /\ PostContact(c) /\ StillContacts
          \/ system = "contacts" /\ RefuseContact(c) /\ StillContacts
          \/ system = "contacts" /\ Duplicate(c) /\ StillContacts
          \/ system = "contacts" /\ StoreParent(c) /\ StillContacts
          \/ system = "contacts" /\ StoreContact(c) /\ StillContacts
          \/ system = "contacts" /\ EndContact(c) /\ StillContacts
          \/ system = "contacts" /\ LoseContact(c) /\ StillContacts
    \/ \E w \in Desks :
          \/ \E b \in Batches : system = "documents" /\ BeginRecords(w, b) /\ StillDocuments
          \/ system = "documents" /\ BeginDocument(w) /\ StillDocuments
          \/ system = "documents" /\ Linked(w) /\ StillDocuments
          \/ system = "documents" /\ FindRecord(w) /\ StillDocuments
          \/ system = "documents" /\ Precede(w) /\ StillDocuments
          \/ system = "documents" /\ PostRecord(w) /\ StillDocuments
          \/ system = "documents" /\ StoreRecord(w) /\ StillDocuments
          \/ system = "documents" /\ PassOver(w) /\ StillDocuments
          \/ system = "documents" /\ EndRecords(w) /\ StillDocuments
          \/ system = "documents" /\ PostDocument(w) /\ StillDocuments
          \/ system = "documents" /\ StoreDocument(w) /\ StillDocuments
          \/ system = "documents" /\ LoseDesk(w) /\ StillDocuments
    \/ system = "lines" /\ BeginImport /\ StillLines
    \/ system = "lines" /\ ReadItem /\ StillLines
    \/ system = "lines" /\ ReadExpense /\ StillLines
    \/ system = "lines" /\ ReadText /\ StillLines
    \/ system = "lines" /\ ReadOver /\ StillLines
    \/ system = "lines" /\ EndReading /\ StillLines
    \/ system = "lines" /\ TidyKeep /\ StillLines
    \/ system = "lines" /\ TidyRemove /\ StillLines
    \/ system = "lines" /\ EndTidying /\ StillLines
    \/ system = "lines" /\ AddDiscount /\ StillLines
    \/ system = "lines" /\ RefusePercent /\ StillLines
    \/ system = "lines" /\ NoDiscount /\ StillLines
    \/ system = "lines" /\ EndDiscounts /\ StillLines
    \/ system = "lines" /\ CreateMove /\ StillLines
    \/ system = "lines" /\ RewriteMove /\ StillLines
    \/ system = "orders" /\ ProcessNew /\ StillOrders
    \/ system = "orders" /\ ProcessAgain /\ StillOrders
    \/ \E s \in AllSkus : system = "orders" /\ AddProduct(s) /\ StillOrders
    \/ \E n \in {1, 2, 3} : system = "orders" /\ EditOrder(n) /\ StillOrders
    \/ \E f \in Fulfilments :
          \/ system = "orders" /\ Ship(f) /\ StillOrders
          \/ system = "orders" /\ CancelShipment(f) /\ StillOrders
    \/ \E w \in Parties :
          \/ \E o \in arrived : system = "people" /\ BeginOrder(w, o) /\ StillPeople
          \/ system = "people" /\ BillTo(w) /\ StillPeople
          \/ system = "people" /\ DeliverTo(w) /\ StillPeople
          \/ system = "people" /\ Sell(w) /\ StillPeople
          \/ \E c \in {o.customer : o \in arrived} \ {Null} :
                system = "people" /\ FetchCustomer(w, c) /\ StillPeople
          \/ system = "people" /\ SaveCustomer(w) /\ StillPeople
          \/ system = "people" /\ CreateCustomer(w) /\ StillPeople
          \/ system = "people" /\ StoreCustomer(w) /\ StillPeople
          \/ system = "people" /\ LoseParty(w) /\ StillPeople

MCSpec == MCInit /\ [][MCNext]_mcvars
=============================================================================
