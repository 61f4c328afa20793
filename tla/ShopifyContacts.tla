--------------------------- MODULE ShopifyContacts ---------------------------
(***************************************************************************)
(* The partners that Shopify customers become, and the contacts that the   *)
(* addresses of their orders become: get_customer_id with                  *)
(* get_partner_invoice_id and get_partner_shipping_id, each of which       *)
(* commits (syncoria_shopify/models/shopify_feed_orders.py), the import of *)
(* customers (wizard/fetch_customers_wiz.py) and the button that creates a *)
(* partner in Shopify (models/res_partner.py).                             *)
(*                                                                         *)
(* Requests work on what they read when they began: the children of a      *)
(* partner are read once and cached.  A contact is found by its type, its  *)
(* street and zip in lower case, and its phone.  An order is processed by  *)
(* one request at a time here; several at one order are the subject of     *)
(* ShopifyFeed.                                                            *)
(***************************************************************************)
EXTENDS Naturals, Sequences, FiniteSets

CONSTANTS
    Parties,        \* requests
    Feeds,          \* sets of orders, one of which arrives
    Email,          \* of each customer of Shopify; Null if it has none
    Newcomer,       \* the id that Shopify gives to the partner that is exported
    Lower,          \* the lower case of streets and zips
    Null,           \* a value that is missing
    MaxPeople       \* a bound on the rows of res.partner

Buyers == DOMAIN Email

ASSUME FeedsAssumption ==
    /\ Newcomer \in Buyers /\ Null \notin Buyers
    /\ \A feed \in Feeds : \A o \in feed :
          /\ o.customer \in Buyers \cup {Null} /\ o.maisonette \in BOOLEAN
          /\ \A a \in {o.bill, o.ship} \ {Null} :
                a.street \in DOMAIN Lower \cup {Null} /\ a.zip \in DOMAIN Lower \cup {Null}

VARIABLES
    arrived,        \* the orders
    people,         \* rows of res.partner
    inShopify,      \* the customers that Shopify has
    sold,          \* the order's partner and delivery contact, or Null
    refusals,       \* orders whose last processing ended with an exception
    party,          \* what each request does, with what it has read
    met             \* customers whose rows were created under another request

contactbookvars == <<arrived, people, inShopify, sold, refusals, party, met>>

Idle == [step |-> "idle"]
Row(sid, email, parent, type, a, phone) ==
    [sid |-> sid, email |-> email, parent |-> parent, type |-> type,
     street |-> a.street, zip |-> a.zip, phone |-> phone]

NoAddress == [street |-> Null, zip |-> Null, phone |-> Null]

(* The partner that is exported, and the one of orders without a customer. *)
ToExport == Row(Null, Email[Newcomer], 0, "contact", NoAddress, Null)
Default  == Row(Null, "", 0, "contact", NoAddress, Null)

PeopleTypeOK ==
    /\ arrived \in Feeds /\ Len(people) <= MaxPeople
    /\ \A i \in DOMAIN people : people[i].sid \in Buyers \cup {Null} /\ people[i].parent \in 0 .. Len(people)
    /\ inShopify \subseteq Buyers /\ met \subseteq Buyers
    /\ DOMAIN sold = arrived /\ refusals \subseteq arrived
    /\ \A w \in Parties : party[w].step \in {"idle", "bill", "deliver", "sell", "store", "fetch"}

PeopleInit ==
    /\ arrived \in Feeds
    /\ people = <<ToExport, Default>>
    /\ inShopify = Buyers \ {Newcomer}
    /\ sold = [o \in arrived |-> Null]
    /\ refusals = {}
    /\ party = [w \in Parties |-> Idle]
    /\ met = {}

Doing(w, s) == party[w].step = s
BusyWith(c)       == {w \in Parties : party[w].step # "idle" /\ party[w].customer = c}
Return(w)   == party' = [party EXCEPT ![w] = Idle]

(* Rows are created for a customer; somebody else has read them before.    *)
Meet(w, c) == met' = IF c # Null /\ BusyWith(c) \ {w} # {} THEN met \cup {c} ELSE met

(***************************************************************************)
(* An order.                                                               *)
(***************************************************************************)
WithSid(c, rows)      == {i \in DOMAIN rows : c # Null /\ rows[i].sid = c}
ContactsOf(p, rows)     == {i \in DOMAIN rows : rows[i].parent = p}
Minimum(S)            == CHOOSE i \in S : \A j \in S : i <= j

(* lower() of a street or zip that is missing is an exception: of any      *)
(* contact of the type, or of the order's own address.                     *)
Readable(row, a) ==
    /\ row.street # Null /\ a.street # Null
    /\ Lower[row.street] = Lower[a.street] => row.zip # Null /\ a.zip # Null

(* Mutant of SamePlace: as it is written.                                  *)
SameSpelling(row, a) == row.street = a.street /\ row.zip = a.zip

SamePlace(row, a) == Lower[row.street] = Lower[a.street] /\ Lower[row.zip] = Lower[a.zip]

(* A phone that is missing is False in Odoo and None in the order.         *)
SamePhone(row, a) == a.phone # Null /\ row.phone = a.phone

OfType(T, p, rows) == {i \in ContactsOf(p, rows) : rows[i].type = T}
Matches(T, p, a, rows) ==
    {i \in OfType(T, p, rows) : SamePlace(rows[i], a) /\ SamePhone(rows[i], a)}

Raises(T, p, a, rows) == \E i \in OfType(T, p, rows) : ~Readable(rows[i], a)

(* The contact is overwritten, but for its phone.                          *)
Rewritten(rows, S, a) ==
    [i \in DOMAIN rows |-> IF i \in S THEN [rows[i] EXCEPT !.street = a.street, !.zip = a.zip] ELSE rows[i]]

Refuse(w, o) == refusals' = refusals \cup {o} /\ Return(w)

(* An order without a customer is only taken for Maisonette, and goes to   *)
(* the default partner.                                                    *)
BeginOrder(w, o) ==
    /\ Doing(w, "idle") /\ sold[o] = Null
    /\ o.customer # Null => o.customer \in inShopify
    /\ \A v \in Parties : party[v].step \in {"bill", "deliver", "sell"} => party[v].order # o
    /\ Len(people) + 3 * Cardinality({v \in Parties : party[v].step # "idle"}) + 3 <= MaxPeople
    /\ IF o.customer = Null /\ ~o.maisonette
       THEN refusals' = refusals \cup {o} /\ UNCHANGED party
       ELSE /\ party' = [party EXCEPT ![w] = [step |-> "bill", customer |-> o.customer, order |-> o,
                                             read |-> people, partner |-> 0, found |-> {}]]
            /\ UNCHANGED refusals
    /\ UNCHANGED <<arrived, people, inShopify, sold, met>>

Known(c, rows) == IF c = Null THEN {2} ELSE WithSid(c, rows)

(* get_customer_id: a customer with this id, the first one, or a new one;  *)
(* get_partner_invoice_id: all contacts that match are taken, or one is    *)
(* created; for Maisonette another one is, without a phone.  Then both are *)
(* committed, unless a row that is written has changed meanwhile.          *)
BillTo(w) ==
    /\ Doing(w, "bill")
    /\ LET r     == party[w]
           o     == r.order
           isNew == Known(r.customer, r.read) = {}
           p     == IF isNew THEN Len(people) + 1 ELSE Minimum(Known(r.customer, r.read))
           base  == IF isNew THEN Append(people, Row(r.customer, IF Email[r.customer] = Null THEN "" ELSE Email[r.customer],
                                                     0, "contact", NoAddress, Null))
                    ELSE people
           S     == IF o.bill = Null \/ isNew THEN {} ELSE Matches("invoice", p, o.bill, r.read)
           fresh == o.bill # Null /\ (S = {} \/ o.customer = Null)
           phone == IF S # {} THEN Null ELSE o.bill.phone
       IN  IF o.bill # Null /\ ~isNew /\ Raises("invoice", p, o.bill, r.read)
           THEN Refuse(w, o) /\ UNCHANGED <<people, met>>
           ELSE /\ fresh \/ \A i \in S : people[i] = r.read[i]
                /\ people' = IF fresh
                             THEN Append(base, Row(Null, Null, p, "invoice", o.bill, phone))
                             ELSE IF S # {} THEN Rewritten(base, S, o.bill) ELSE base
                /\ party' = [party EXCEPT ![w] =
                       [r EXCEPT !.step = "deliver", !.partner = p,
                                 !.read = IF isNew THEN base ELSE IF o.bill = Null THEN <<>> ELSE r.read,
                                 !.found = IF fresh THEN {Len(people')} ELSE S]]
                /\ IF isNew \/ fresh THEN Meet(w, r.customer) ELSE UNCHANGED met
                /\ UNCHANGED refusals
    /\ UNCHANGED <<arrived, inShopify, sold>>

(* get_partner_shipping_id: several contacts that match are an exception.  *)
(* Without a billing address the children are read now.                    *)
DeliverTo(w) ==
    /\ Doing(w, "deliver")
    /\ LET r    == party[w]
           o    == r.order
           rows == IF r.read = <<>> THEN people ELSE r.read
           S    == IF o.ship = Null THEN {} ELSE Matches("delivery", r.partner, o.ship, rows)
           fresh == o.ship # Null /\ (S = {} \/ o.customer = Null)
       IN  IF o.ship # Null /\ (\/ Raises("delivery", r.partner, o.ship, rows)
                                \/ Cardinality(S) > 1 /\ o.customer # Null)
           THEN Refuse(w, o) /\ UNCHANGED <<people, met>>
           ELSE /\ people' = IF fresh
                             THEN Append(people, Row(Null, Null, r.partner, "delivery", o.ship, o.ship.phone))
                             ELSE Rewritten(people, S, o.ship)
                /\ party' = [party EXCEPT ![w] =
                       [step |-> "sell", customer |-> r.customer, order |-> o, partner |-> r.partner, found |-> r.found,
                        contact |-> IF fresh THEN Len(people') ELSE IF S = {} THEN r.partner ELSE Minimum(S)]]
                /\ IF fresh THEN Meet(w, r.customer) ELSE UNCHANGED met
                /\ UNCHANGED refusals
    /\ UNCHANGED <<arrived, inShopify, sold>>

(* The order is created for the partner and the delivery contact, its      *)
(* invoice address is the partner's (:665).  With several contacts for the *)
(* bill, their id is an exception.                                         *)
Sell(w) ==
    /\ Doing(w, "sell")
    /\ IF Cardinality(party[w].found) > 1
       THEN refusals' = refusals \cup {party[w].order} /\ UNCHANGED sold
       ELSE /\ sold' = [sold EXCEPT ![party[w].order] =
                            [partner |-> party[w].partner, contact |-> party[w].contact]]
            /\ refusals' = refusals \ {party[w].order}
    /\ Return(w)
    /\ UNCHANGED <<arrived, people, inShopify, met>>

(***************************************************************************)
(* The import of a customer.  Who is not known by the id is searched by    *)
(* email, a missing one among the rows without email, and takes over the   *)
(* other addresses, but is not linked.                                     *)
(***************************************************************************)
FetchCustomer(w, c) ==
    /\ Doing(w, "idle") /\ c \in inShopify
    /\ Len(people) + 3 * Cardinality({v \in Parties : party[v].step # "idle"}) + 1 <= MaxPeople
    /\ party' = [party EXCEPT ![w] = [step |-> "fetch", customer |-> c, read |-> people]]
    /\ UNCHANGED <<arrived, people, inShopify, sold, refusals, met>>

SaveCustomer(w) ==
    /\ Doing(w, "fetch")
    /\ LET r == party[w]
       IN  IF \E i \in DOMAIN r.read : r.read[i].sid = r.customer \/ r.read[i].email = Email[r.customer]
           THEN UNCHANGED <<people, met>>
           ELSE /\ people' = Append(people, Row(r.customer, IF Email[r.customer] = Null THEN "" ELSE Email[r.customer],
                                                0, "invoice", NoAddress, Null))
                /\ Meet(w, r.customer)
    /\ Return(w)
    /\ UNCHANGED <<arrived, inShopify, sold, refusals>>

(***************************************************************************)
(* The export of the partner.  Shopify is asked for its email, and refuses *)
(* a second customer with it.  If the answer has no address, the address   *)
(* is posted, and reading its answer is an exception that undoes the id.   *)
(***************************************************************************)
CreateCustomer(w) ==
    /\ Doing(w, "idle") /\ Newcomer \notin inShopify
    /\ inShopify' = inShopify \cup {Newcomer}
    /\ party' = [party EXCEPT ![w] = [step |-> "store", customer |-> Newcomer]]
    /\ UNCHANGED <<arrived, people, sold, refusals, met>>

StoreCustomer(w) ==
    /\ Doing(w, "store")
    /\ people' = [people EXCEPT ![1].sid = Newcomer]
    /\ Meet(w, Newcomer)
    /\ Return(w)
    /\ UNCHANGED <<arrived, inShopify, sold, refusals>>

(* The request is lost, with what it has not committed: an exception of    *)
(* the export, a conflict, a worker that dies.                             *)
LoseParty(w) ==
    /\ ~Doing(w, "idle")
    /\ Return(w)
    /\ UNCHANGED <<arrived, people, inShopify, sold, refusals, met>>

PeopleNext ==
    \/ \E w \in Parties :
          \/ \E o \in arrived : BeginOrder(w, o)
          \/ BillTo(w) \/ DeliverTo(w) \/ Sell(w)
          \/ \E c \in Buyers : FetchCustomer(w, c)
          \/ SaveCustomer(w) \/ CreateCustomer(w) \/ StoreCustomer(w) \/ LoseParty(w)

PeopleSpec == PeopleInit /\ [][PeopleNext]_contactbookvars

(***************************************************************************)
(* Properties.                                                             *)
(***************************************************************************)
(* A customer has one partner, unless two requests created it at a time.   *)
OnePartner == \A c \in Buyers \ met : Cardinality(WithSid(c, people)) <= 1

(* An order belongs to its customer and is delivered to a contact of this  *)
(* customer with the order's address, also after others have rewritten it. *)
Delivered ==
    \A o \in arrived : sold[o] # Null =>
        LET s == sold[o]
            d == people[s.contact]
        IN  /\ o.customer # Null => people[s.partner].sid = o.customer
            /\ IF o.ship = Null THEN s.contact = s.partner
               ELSE /\ d.parent = s.partner /\ d.type = "delivery" /\ d.phone = o.ship.phone
                    /\ o.ship.street # Null /\ o.ship.zip # Null => SamePlace(d, o.ship)

(* An address with a phone is one contact of the customer, however often   *)
(* and in whatever spelling it is ordered to.                              *)
Whole(a) == a.street # Null /\ a.zip # Null
OneContact ==
    \A c \in Buyers \ met : \A p \in WithSid(c, people) :
        \A i, j \in ContactsOf(p, people) :
            /\ people[i].type = people[j].type
            /\ Whole(people[i]) /\ Whole(people[j])
            /\ Lower[people[i].street] = Lower[people[j].street]
            /\ Lower[people[i].zip] = Lower[people[j].zip]
            /\ SamePhone(people[i], people[j])
            => i = j

(* An order is refused only if it has no customer, if requests have met at *)
(* the customer, or if an address of the customer lacks its street or zip: *)
(* such an address refuses the orders after it.                            *)
RefusedOnly ==
    \A o \in refusals :
        \/ o.customer = Null /\ ~o.maisonette
        \/ o.customer \in met
        \/ \E a \in {o.bill, o.ship} \ {Null} : ~Whole(a)
        \/ \E p \in Known(o.customer, people) :
              \E i \in ContactsOf(p, people) : ~Whole(people[i])

ContactsRight == OnePartner /\ Delivered /\ OneContact /\ RefusedOnly
=============================================================================
