-------------------------- MODULE ShopifyOrderLines --------------------------
(***************************************************************************)
(* What process_feed_order (syncoria_shopify/models/shopify_feed_orders.py)*)
(* makes of the contents of a confirmed Shopify order: the lines of the    *)
(* sale order with their products, prices, discounts and taxes, the lines  *)
(* for the delivery, and the rows of shopify.fulfilment.  Who processes it *)
(* when, and with which payload, is the subject of ShopifyFeed; here one   *)
(* request follows the other, while products are added, the order is       *)
(* edited and its goods are shipped.                                       *)
(*                                                                         *)
(* Money is counted in cents, a discount in hundredths of a percent.       *)
(***************************************************************************)
EXTENDS Integers, Sequences, Functions

CONSTANTS
    Payloads,       \* contents that the order may have in Shopify
    ListPrice,      \* fixed price of a sku in the pricelist, 0 if there is none
    Fulfilments,    \* ids of its fulfilments
    NoSale

SkusOf(o) == {l.sku : l \in Range(o.lines)}
AllSkus   == UNION {SkusOf(o) : o \in Payloads}

ASSUME PayloadsAssumption ==
    /\ \A o \in Payloads :
          /\ o.foreign \in BOOLEAN      \* the shop's currency is not the pricelist's
          /\ o.shipping \in Seq(Nat)    \* the price of each shipping line
          /\ o.lines \in Seq(Range(o.lines))
          /\ \A l \in Range(o.lines) :
                /\ l.qty \in Nat /\ l.price \in Nat
                /\ l.allocated \in Nat  \* the sum of its discount allocations
                /\ l.direct \in Nat     \* total_discount
    /\ ListPrice \in [AllSkus -> Nat]

VARIABLES
    order,          \* the order in Shopify
    known,          \* the skus with a product in Odoo
    feedState,      \* of the feed row
    sale,           \* the sale order: the payload it was made of, its lines by those of
                    \* the payload, and the lines for the delivery
    shipped,        \* Shopify: the status of a fulfilment, or "none"
    recorded        \* Odoo: the rows for a fulfilment, each with a status

orderlinevars == <<order, known, feedState, sale, shipped, recorded>>

OrderLinesTypeOK ==
    /\ order \in Payloads /\ known \subseteq AllSkus
    /\ feedState \in {"draft", "failed", "processed"}
    /\ sale # NoSale => sale.of \in Payloads
    /\ shipped \in [Fulfilments -> {"none", "success", "cancelled"}]
    /\ \A f \in Fulfilments : Range(recorded[f]) \subseteq {"success", "cancelled"}

OrderLinesInit ==
    /\ order \in Payloads
    /\ known \in SUBSET SkusOf(order)
    /\ feedState = "draft" /\ sale = NoSale
    /\ shipped = [f \in Fulfilments |-> "none"]
    /\ recorded = [f \in Fulfilments |-> <<>>]

(***************************************************************************)
(* The lines.                                                              *)
(***************************************************************************)
Abs(n) == IF n < 0 THEN -n ELSE n

(* a / b, to the next integer, halves up.                                  *)
Rounded(a, b) == (2 * a + b) \div (2 * b)

(* The price in the shop's currency, unless the pricelist has another      *)
(* currency and a price for the product (compute_price_unit).              *)
UnitPrice(o, l) == IF o.foreign /\ ListPrice[l.sku] # 0 THEN ListPrice[l.sku] ELSE l.price

(* Mutant of Discount: the allocations are compared with one unit.         *)
DiscountOfUnit(l) == IF l.allocated = 0 \/ l.direct # 0 THEN 0 ELSE Rounded(l.allocated * 10000, l.price)

(* The allocations in percent of the line, only if there is no discount of *)
(* the line's own; the column keeps two decimals.                          *)
Discount(l) ==
    IF l.allocated = 0 \/ l.direct # 0 THEN 0
    ELSE Rounded(l.allocated * 10000, l.price * l.qty)

(* Allocations on a line that costs nothing: a division by zero.           *)
Divides(o) == \A l \in Range(o.lines) : l.qty > 0 /\ l.allocated # 0 /\ l.direct = 0 => l.price # 0

KeptLines(o) == RestrictValues(o.lines, LAMBDA l : l.qty > 0)

SaleLine(o, l) == [sku |-> l.sku, qty |-> l.qty, price |-> UnitPrice(o, l), discount |-> Discount(l)]

(* _get_delivery_line: the one service product; a line of 0 without        *)
(* shipping lines.                                                         *)
Delivery == "shipping"
DeliveryLine(price) == [sku |-> Delivery, qty |-> 1, price |-> price, discount |-> 0]
DeliveryLines(o) ==
    IF o.shipping = <<>> THEN <<DeliveryLine(0)>>
    ELSE [k \in DOMAIN o.shipping |-> DeliveryLine(o.shipping[k])]

SaleOf(o) ==
    [of |-> o, lines |-> [k \in DOMAIN KeptLines(o) |-> SaleLine(o, KeptLines(o)[k])],
     delivery |-> DeliveryLines(o)]

ASSUME NoSaleAssumption == \A o \in Payloads : Divides(o) => SaleOf(o) # NoSale

(* What the sale order makes of a line.                                    *)
Subtotal(l) == Rounded(l.qty * l.price * (10000 - l.discount), 10000)

(***************************************************************************)
(* The fulfilments, told in the payload and fetched afterwards             *)
(* (get_order_fullfillments).  A row that is there is not updated: update  *)
(* is called on an empty set of rows (:815).                               *)
(***************************************************************************)
(* Mutant of WithFulfilments: the row of an earlier request is not found.  *)
WithFulfilmentsAgain(r) ==
    [f \in Fulfilments |-> IF shipped[f] # "none" THEN Append(r[f], shipped[f]) ELSE r[f]]

WithFulfilments(r) ==
    [f \in Fulfilments |-> IF shipped[f] # "none" /\ r[f] = <<>> THEN <<shipped[f]>> ELSE r[f]]

(***************************************************************************)
(* A request.                                                              *)
(***************************************************************************)
Missing(o, K) == \E l \in Range(KeptLines(o)) : l.sku \notin K

(* No sale order yet: products that are missing may be fetched from        *)
(* Shopify on the way (auto_create_product).                               *)
ProcessNew ==
    /\ sale = NoSale
    /\ \E fetched \in SUBSET (SkusOf(order) \ known) :
          /\ known' = known \cup fetched
          /\ IF ~Divides(order)
             THEN UNCHANGED <<feedState, sale, recorded>>
             ELSE IF Missing(order, known')
             THEN feedState' = "failed" /\ UNCHANGED <<sale, recorded>>
             ELSE /\ feedState' = "processed"
                  /\ sale' = SaleOf(order)
                  /\ recorded' = WithFulfilments(recorded)
    /\ UNCHANGED <<order, shipped>>

ProcessAgain ==
    /\ sale # NoSale
    /\ feedState' = "processed" /\ recorded' = WithFulfilments(recorded)
    /\ UNCHANGED <<order, known, sale, shipped>>

AddProduct(s) ==
    /\ s \in AllSkus \ known
    /\ known' = known \cup {s}
    /\ UNCHANGED <<order, feedState, sale, shipped, recorded>>

EditOrder(o) ==
    /\ o \in order.edits
    /\ \E q \in Payloads : q.no = o /\ order' = q
    /\ UNCHANGED <<known, feedState, sale, shipped, recorded>>

Ship(f) ==
    /\ shipped[f] = "none" /\ shipped' = [shipped EXCEPT ![f] = "success"]
    /\ UNCHANGED <<order, known, feedState, sale, recorded>>

CancelShipment(f) ==
    /\ shipped[f] = "success" /\ shipped' = [shipped EXCEPT ![f] = "cancelled"]
    /\ UNCHANGED <<order, known, feedState, sale, recorded>>

OrderLinesNext ==
    \/ ProcessNew \/ ProcessAgain
    \/ \E s \in AllSkus : AddProduct(s)
    \/ \E n \in order.edits : EditOrder(n)
    \/ \E f \in Fulfilments : Ship(f) \/ CancelShipment(f)

OrderLinesSpec == OrderLinesInit /\ [][OrderLinesNext]_orderlinevars

(***************************************************************************)
(* Properties.                                                             *)
(***************************************************************************)
(* What Shopify charges for a line of the payload.                         *)
Charged(l) == l.qty * l.price - l.allocated

(* Where the sale order is not meant to agree: another currency; a         *)
(* discount of the line's own, which is not taken over.                    *)
Comparable(o, l) == ~o.foreign /\ l.direct = 0

(* The sale order has a line for every line of the payload it was made of, *)
(* and a cent more or less for each 200 of them at most: the discount in   *)
(* percent is rounded (shopify_feed_orders.py:573).                        *)
LinesAddUp ==
    sale # NoSale =>
        LET kept == KeptLines(sale.of)
        IN  \A k \in DOMAIN kept :
               /\ sale.lines[k].sku = kept[k].sku
               /\ Comparable(sale.of, kept[k]) =>
                     LET gap == Abs(Subtotal(sale.lines[k]) - Charged(kept[k]))
                     IN  20000 * gap <= kept[k].qty * kept[k].price + 10000

(* A line below 100 is exact, so that a full payment settles the invoice.  *)
SmallLinesExact ==
    sale # NoSale =>
        LET kept == KeptLines(sale.of)
        IN  \A k \in DOMAIN kept :
               Comparable(sale.of, kept[k]) /\ kept[k].qty * kept[k].price < 10000 =>
                   Subtotal(sale.lines[k]) = Charged(kept[k])

(* The feed is processed when there is a sale order, and a fulfilment has  *)
(* one row at most, however often the order is processed.                  *)
OneRow == \A f \in Fulfilments : Len(recorded[f]) <= 1
ProcessedIsSold == (feedState = "processed") <=> (sale # NoSale)

OrderLines == LinesAddUp /\ SmallLinesExact /\ OneRow /\ ProcessedIsSold
=============================================================================
