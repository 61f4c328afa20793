----------------------------- MODULE Books_proofs -----------------------------
(***************************************************************************)
(* The money of a Shopify order: one invoice, every transaction paid once, *)
(* every refund credited and paid back once, and nothing credited before   *)
(* the invoice is settled, for any workers, transactions, refunds and      *)
(* amounts.  Then the documents and the partners that are exported to      *)
(* QuickBooks, and the contacts of the customers of Shopify; at the end,   *)
(* what the lines of orders and of documents charge.                       *)
(*                                                                         *)
(* Every set of rows that somebody has before him, the committed one, each *)
(* snapshot and each view, is Sound; a view has Grown out of its snapshot, *)
(* and so has what is committed.  The heart of the proof is that two such  *)
(* developments of a snapshot, if PostgreSQL lets them both commit, merge  *)
(* into rows that are Sound and have grown out of both.                    *)
(***************************************************************************)
EXTENDS ShopifyPayments, ShopifyContacts, ShopifyOrderLines, QuickBooksDocuments, QuickBooksContacts,
        QuickBooksLines, Sums_proofs, SequenceTheorems

(* The notes of a refund do not overlap.                                   *)
Disjoint(d) ==
    \A r \in Refunds, q \in Procs : d.note[r][q] # {} =>
        q \in d.note[r][q] /\ \A k \in d.note[r][q] : d.note[r][k] = d.note[r][q]

(* A second credit note needs a second row.                                *)
Credited(d) ==
    \A r \in Refunds :
        /\ d.credits[r] = 1 => \E q \in d.rows[r] : d.note[r][q] # {}
        /\ d.credits[r] > 1 => \E q, k \in d.rows[r] : q # k

(* Only rows with a note are paid back, and of a note that its transaction *)
(* settles one row, once.                                                  *)
Repaid(d) ==
    \A r \in Refunds, q \in Procs : d.repaid[r][q] > 0 =>
        /\ d.note[r][q] # {}
        /\ NoteTotal(r) <= Amount[r] =>
              /\ d.repaid[r][q] = 1
              /\ \A k \in Procs : d.repaid[r][k] > 0 /\ d.note[r][k] = d.note[r][q] => k = q

Flagged(d) == d.isInvoice \/ d.isRefund \/ \E r \in Refunds, q \in Procs : d.note[r][q] # {}

Sound(d) ==
    /\ d.invoices <= 1 /\ \A t \in Txs : d.paid[t] <= 1
    /\ Disjoint(d) /\ Credited(d) /\ Repaid(d)
    /\ Flagged(d) => Settled(d)

(* Nothing of a is taken back in b.                                        *)
Grown(a, b) ==
    /\ a.invoices <= b.invoices /\ (a.byHand => b.byHand)
    /\ \A t \in Txs : a.paid[t] <= b.paid[t]
    /\ \A r \in Refunds :
          /\ a.rows[r] \subseteq b.rows[r]
          /\ \A q \in Procs : /\ a.note[r][q] # {} => b.note[r][q] = a.note[r][q]
                              /\ a.repaid[r][q] <= b.repaid[r][q]

(* What a request changes only with the commit that follows at once.       *)
Quiet(a, b) == Lines(a) = Lines(b) /\ a.repaid = b.repaid

PayInv ==
    /\ TypeOK /\ Sound(db)
    /\ \A p \in Procs : /\ Sound(base[p]) /\ Sound(view[p])
                        /\ Grown(base[p], db) /\ Grown(base[p], view[p])
                        /\ Quiet(base[p], view[p])

-----------------------------------------------------------------------------
(* Rows.                                                                   *)

LEMMA Fields ==
    ASSUME NEW d \in Databases
    PROVE  /\ d.tx \in [Txs -> Statuses] /\ d.invoices \in Nat /\ d.paid \in [Txs -> Nat]
           /\ d.byHand \in BOOLEAN /\ d.isInvoice \in BOOLEAN /\ d.isRefund \in BOOLEAN
           /\ d.rows \in [Refunds -> SUBSET Procs]
           /\ d.note \in [Refunds -> [Procs -> SUBSET Procs]]
           /\ d.credits \in [Refunds -> Nat] /\ d.repaid \in [Refunds -> [Procs -> Nat]]
  BY DEF Databases

LEMMA EmptyRight == Empty \in Databases /\ Sound(Empty) /\ \A d \in Databases : Grown(Empty, d)
  <1>1. Empty \in Databases
    BY DEF Empty, Databases, Statuses
  <1>2. Sound(Empty)
    BY DEF Empty, Sound, Disjoint, Credited, Repaid, Flagged
  <1>3. ASSUME NEW d \in Databases PROVE Grown(Empty, d)
    <2>1. /\ d.invoices >= 0 /\ \A t \in Txs : d.paid[t] >= 0
          /\ \A r \in Refunds, q \in Procs : d.repaid[r][q] >= 0
      BY Fields
    <2> QED
      BY <2>1 DEF Empty, Grown
  <1> QED
    BY <1>1, <1>2, <1>3

LEMMA GrownSelf == ASSUME NEW a \in Databases PROVE Grown(a, a)
  BY Fields DEF Grown

LEMMA GrownOn ==
    ASSUME NEW a \in Databases, NEW b \in Databases, NEW c \in Databases, Grown(a, b), Grown(b, c)
    PROVE  Grown(a, c)
  <1>1. a.invoices <= c.invoices /\ (a.byHand => c.byHand)
    BY Fields DEF Grown
  <1>2. \A t \in Txs : a.paid[t] <= c.paid[t]
    <2>1. \A t \in Txs : /\ a.paid[t] \in Nat /\ b.paid[t] \in Nat /\ c.paid[t] \in Nat
                         /\ a.paid[t] <= b.paid[t] /\ b.paid[t] <= c.paid[t]
      BY Fields DEF Grown
    <2> QED
      BY <2>1
  <1>3. \A r \in Refunds, q \in Procs : a.repaid[r][q] <= c.repaid[r][q]
    <2>1. \A r \in Refunds, q \in Procs :
             /\ a.repaid[r][q] \in Nat /\ b.repaid[r][q] \in Nat /\ c.repaid[r][q] \in Nat
             /\ a.repaid[r][q] <= b.repaid[r][q] /\ b.repaid[r][q] <= c.repaid[r][q]
      BY Fields DEF Grown
    <2> QED
      BY <2>1
  <1>4. \A r \in Refunds : a.rows[r] \subseteq c.rows[r]
    BY DEF Grown
  <1>5. \A r \in Refunds, q \in Procs : a.note[r][q] # {} => c.note[r][q] = a.note[r][q]
    BY DEF Grown
  <1> QED
    BY <1>1, <1>2, <1>3, <1>4, <1>5 DEF Grown

(* Once it is paid, an invoice remains paid.                               *)
LEMMA TimesAtMost ==
    ASSUME NEW m \in Nat, NEW n \in Nat, NEW a \in Nat, m <= n
    PROVE  m * a \in Int /\ n * a \in Int /\ m * a <= n * a
  <1>1. n = m + (n - m) /\ n - m \in Nat
    OBVIOUS
  <1>2. PICK k \in Nat : n = m + k
    BY <1>1
  <1>3. (m + k) * a = m * a + k * a /\ k * a \in Nat /\ m * a \in Nat
    OBVIOUS
  <1> QED
    BY <1>2, <1>3

LEMMA SettledGrows ==
    ASSUME NEW a \in Databases, NEW b \in Databases, Grown(a, b), Settled(a)
    PROVE  Settled(b)
  <1> DEFINE f == [t \in Txs |-> a.paid[t] * Amount[t]]
             g == [t \in Txs |-> b.paid[t] * Amount[t]]
  <1>1. \A t \in Txs : f[t] \in Int /\ g[t] \in Int /\ f[t] <= g[t]
    <2>1. \A t \in Txs : /\ a.paid[t] \in Nat /\ b.paid[t] \in Nat /\ Amount[t] \in Nat
                         /\ a.paid[t] <= b.paid[t]
      BY Fields, AmountsAssumption DEF Grown
    <2> QED
      BY <2>1, TimesAtMost
  <1> HIDE DEF f, g
  <1>2. IsFiniteSet(Txs)
    BY AmountsAssumption
  <1>3. SumFunctionOnSet(f, Txs) <= SumFunctionOnSet(g, Txs)
    BY <1>1, <1>2, SumAtMost
  <1>4. SumFunctionOnSet(f, Txs) \in Int /\ SumFunctionOnSet(g, Txs) \in Int
    BY <1>1, <1>2, SumType
  <1>5. b.invoices > 0
    BY Fields DEF Settled, Grown
  <1>6. CASE b.byHand
    BY <1>5, <1>6 DEF Settled, Due
  <1>7. CASE ~ b.byHand
    <2>1. ~ a.byHand
      BY <1>7 DEF Grown
    <2>2. InvoiceTotal - SumFunctionOnSet(f, Txs) <= 0
      BY <2>1 DEF Settled, Due, f
    <2>3. InvoiceTotal - SumFunctionOnSet(g, Txs) <= 0
      BY <1>3, <1>4, <2>2, AmountsAssumption
    <2> QED
      BY <1>5, <1>7, <2>3 DEF Settled, Due, g
  <1> QED
    BY <1>6, <1>7

-----------------------------------------------------------------------------
(* Two developments of a snapshot that may both be committed.              *)

Meeting(p, v) ==
    /\ base[p] \in Databases /\ v \in Databases /\ db \in Databases
    /\ Sound(base[p]) /\ Sound(v) /\ Sound(db)
    /\ Grown(base[p], v) /\ Grown(base[p], db)
    /\ Lines(v) = Lines(base[p]) \/ v.repaid = base[p].repaid
    /\ Serializable(p, v)

LEMMA MergedFields ==
    ASSUME NEW p \in Procs, NEW v, Meeting(p, v)
    PROVE  LET m == Merged(p, v)  b == base[p] IN
           /\ m \in Databases
           /\ Lines(v) = Lines(b) => Lines(m) = Lines(db)
           /\ Lines(v) # Lines(b) => Lines(m) = Lines(v) /\ Lines(db) = Lines(b)
           /\ \A t \in Txs : m.paid[t] = IF v.paid[t] = b.paid[t] THEN db.paid[t] ELSE v.paid[t]
           /\ Bill(v) # Bill(b) => Bill(db) = Bill(b)
           /\ m.byHand = (v.byHand \/ db.byHand)
           /\ m.isInvoice = (v.isInvoice \/ db.isInvoice) /\ m.isRefund = (v.isRefund \/ db.isRefund)
           /\ \A r \in Refunds : m.rows[r] = v.rows[r] \cup db.rows[r]
           /\ \A r \in Refunds, q \in Procs : m.repaid[r][q] =
                 IF v.repaid[r][q] = b.repaid[r][q] THEN db.repaid[r][q] ELSE v.repaid[r][q]
  <1> DEFINE m == Merged(p, v)
             b == base[p]
             tx == [t \in Txs |-> Newer(v.tx[t], db.tx[t])]
             invoices == IF v.invoices = b.invoices THEN db.invoices ELSE v.invoices
             paid == [t \in Txs |-> IF v.paid[t] = b.paid[t] THEN db.paid[t] ELSE v.paid[t]]
             rows == [r \in Refunds |-> v.rows[r] \cup db.rows[r]]
             note == [r \in Refunds |-> [q \in Procs |->
                         IF v.note[r][q] = b.note[r][q] THEN db.note[r][q] ELSE v.note[r][q]]]
             credits == [r \in Refunds |->
                         IF v.credits[r] = b.credits[r] THEN db.credits[r] ELSE v.credits[r]]
             repaid == [r \in Refunds |-> [q \in Procs |->
                         IF v.repaid[r][q] = b.repaid[r][q] THEN db.repaid[r][q] ELSE v.repaid[r][q]]]
  <1>0. b \in Databases /\ v \in Databases /\ db \in Databases /\ Serializable(p, v)
    BY DEF Meeting
  <1>1. m = [tx |-> tx, invoices |-> invoices, paid |-> paid, byHand |-> v.byHand \/ db.byHand,
             isInvoice |-> v.isInvoice \/ db.isInvoice, isRefund |-> v.isRefund \/ db.isRefund,
             rows |-> rows, note |-> note, credits |-> credits, repaid |-> repaid]
    BY DEF Merged
  <1>2. /\ tx \in [Txs -> Statuses] /\ invoices \in Nat /\ paid \in [Txs -> Nat]
        /\ rows \in [Refunds -> SUBSET Procs] /\ credits \in [Refunds -> Nat]
    BY <1>0, Fields DEF Newer, Statuses
  <1>3. note \in [Refunds -> [Procs -> SUBSET Procs]] /\ repaid \in [Refunds -> [Procs -> Nat]]
    <2>1. \A r \in Refunds, q \in Procs :
             /\ v.note[r][q] \in SUBSET Procs /\ db.note[r][q] \in SUBSET Procs
             /\ v.repaid[r][q] \in Nat /\ db.repaid[r][q] \in Nat
      BY <1>0, Fields
    <2> QED
      BY <2>1
  <1> HIDE DEF m, tx, invoices, paid, rows, note, credits, repaid
  <1>4. m \in Databases
    BY <1>1, <1>2, <1>3 DEF Databases
  <1>5. Lines(v) = Lines(b) => Lines(m) = Lines(db)
    <2>1. ASSUME Lines(v) = Lines(b)
          PROVE  invoices = db.invoices /\ note = db.note /\ credits = db.credits
      <3>1. v.invoices = b.invoices /\ v.note = b.note /\ v.credits = b.credits
        BY <2>1 DEF Lines
      <3>2. invoices = db.invoices
        BY <3>1 DEF invoices
      <3>3. credits = db.credits
        BY <1>0, <3>1, Fields DEF credits
      <3>4. \A r \in Refunds : db.note[r] = [q \in Procs |-> db.note[r][q]]
        BY <1>0, Fields
      <3>5. note = [r \in Refunds |-> db.note[r]]
        BY <3>1, <3>4 DEF note
      <3>6. note = db.note
        BY <1>0, <3>5, Fields
      <3> QED
        BY <3>2, <3>3, <3>6
    <2> QED
      BY <1>1, <2>1 DEF Lines
  <1>6. Lines(v) # Lines(b) => Lines(m) = Lines(v) /\ Lines(db) = Lines(b)
    <2> SUFFICES ASSUME Lines(v) # Lines(b) PROVE Lines(m) = Lines(v) /\ Lines(db) = Lines(b)
      OBVIOUS
    <2>1. <<"lines", {}>> \in Touched(b, v)
      BY DEF Touched
    <2>2. <<"lines", {}>> \notin Touched(b, db)
      BY <1>0, <2>1 DEF Serializable
    <2>3. Lines(db) = Lines(b)
      BY <2>2 DEF Touched
    <2>4. db.invoices = b.invoices /\ db.note = b.note /\ db.credits = b.credits
      BY <2>3 DEF Lines
    <2>5. invoices = v.invoices
      BY <2>4 DEF invoices
    <2>6. credits = v.credits
      BY <1>0, <2>4, Fields DEF credits
    <2>7. \A r \in Refunds : v.note[r] = [q \in Procs |-> v.note[r][q]]
      BY <1>0, Fields
    <2>8. note = [r \in Refunds |-> [q \in Procs |-> v.note[r][q]]]
      BY <2>4 DEF note
    <2>9. note = v.note
      BY <1>0, <2>7, <2>8, Fields
    <2> QED
      BY <1>1, <2>3, <2>5, <2>6, <2>9 DEF Lines
  <1>7. Bill(v) # Bill(b) => Bill(db) = Bill(b)
    <2> SUFFICES ASSUME Bill(v) # Bill(b) PROVE Bill(db) = Bill(b)
      OBVIOUS
    <2>1. <<"invoice", {}>> \in Touched(b, v)
      BY DEF Touched
    <2>2. <<"invoice", {}>> \notin Touched(b, db)
      BY <1>0, <2>1 DEF Serializable
    <2> QED
      BY <2>2 DEF Touched
  <1>8. /\ m.byHand = (v.byHand \/ db.byHand) /\ m.isInvoice = (v.isInvoice \/ db.isInvoice)
        /\ m.isRefund = (v.isRefund \/ db.isRefund) /\ m.paid = paid /\ m.rows = rows
        /\ m.repaid = repaid
    BY <1>1
  <1>9. \A t \in Txs : m.paid[t] = IF v.paid[t] = b.paid[t] THEN db.paid[t] ELSE v.paid[t]
    BY <1>8 DEF paid
  <1>10. \A r \in Refunds : m.rows[r] = v.rows[r] \cup db.rows[r]
    BY <1>8 DEF rows
  <1>11. \A r \in Refunds, q \in Procs : m.repaid[r][q] =
            IF v.repaid[r][q] = b.repaid[r][q] THEN db.repaid[r][q] ELSE v.repaid[r][q]
    BY <1>8 DEF repaid
  <1> QED
    BY <1>4, <1>5, <1>6, <1>7, <1>8, <1>9, <1>10, <1>11 DEF m

LEMMA Merging ==
    ASSUME NEW p \in Procs, NEW v, Meeting(p, v), NEW m, m = Merged(p, v)
    PROVE  m \in Databases /\ Grown(v, m) /\ Grown(db, m) /\ Sound(m)
  <1> DEFINE b == base[p]
  <1>0. /\ b \in Databases /\ v \in Databases /\ db \in Databases
        /\ Sound(v) /\ Sound(db) /\ Grown(b, v) /\ Grown(b, db) /\ Sound(b)
        /\ Lines(v) = Lines(b) \/ v.repaid = b.repaid
    BY DEF Meeting
  <1>1. /\ m \in Databases
        /\ Lines(v) = Lines(b) => Lines(m) = Lines(db)
        /\ Lines(v) # Lines(b) => Lines(m) = Lines(v) /\ Lines(db) = Lines(b)
        /\ \A t \in Txs : m.paid[t] = IF v.paid[t] = b.paid[t] THEN db.paid[t] ELSE v.paid[t]
        /\ Bill(v) # Bill(b) => Bill(db) = Bill(b)
        /\ m.byHand = (v.byHand \/ db.byHand)
        /\ m.isInvoice = (v.isInvoice \/ db.isInvoice) /\ m.isRefund = (v.isRefund \/ db.isRefund)
        /\ \A r \in Refunds : m.rows[r] = v.rows[r] \cup db.rows[r]
        /\ \A r \in Refunds, q \in Procs : m.repaid[r][q] =
              IF v.repaid[r][q] = b.repaid[r][q] THEN db.repaid[r][q] ELSE v.repaid[r][q]
    BY MergedFields
  <1> HIDE DEF b
  <1>2. \/ Lines(v) = Lines(b) /\ Lines(m) = Lines(db)
        \/ Lines(m) = Lines(v) /\ Lines(db) = Lines(b)
    BY <1>1
  <1>3. \/ /\ v.invoices = b.invoices /\ v.note = b.note /\ v.credits = b.credits
           /\ m.invoices = db.invoices /\ m.note = db.note /\ m.credits = db.credits
        \/ /\ db.invoices = b.invoices /\ db.note = b.note /\ db.credits = b.credits
           /\ m.invoices = v.invoices /\ m.note = v.note /\ m.credits = v.credits
    BY <1>2 DEF Lines
  <1>4. v.invoices <= m.invoices /\ db.invoices <= m.invoices
    BY <1>0, <1>3, Fields DEF Grown
  <1>5. ASSUME NEW t \in Txs PROVE v.paid[t] <= m.paid[t] /\ db.paid[t] <= m.paid[t] /\ m.paid[t] <= 1
    <2>1. /\ b.paid[t] \in Nat /\ v.paid[t] \in Nat /\ db.paid[t] \in Nat
          /\ b.paid[t] <= v.paid[t] /\ b.paid[t] <= db.paid[t] /\ v.paid[t] <= 1 /\ db.paid[t] <= 1
      BY <1>0, Fields DEF Grown, Sound
    <2>2. v.paid[t] # b.paid[t] => db.paid[t] = b.paid[t]
      BY <1>1 DEF Bill
    <2> QED
      BY <1>1, <2>1, <2>2
  <1>6. ASSUME NEW r \in Refunds, NEW q \in Procs
        PROVE  /\ v.note[r][q] # {} => m.note[r][q] = v.note[r][q]
               /\ db.note[r][q] # {} => m.note[r][q] = db.note[r][q]
               /\ v.repaid[r][q] # b.repaid[r][q] =>
                     /\ b.note[r][q] # {} /\ Lines(v) = Lines(b) /\ v.repaid[r][q] > 0
                     /\ \A k \in b.note[r][q] : db.repaid[r][k] = b.repaid[r][k]
               /\ v.repaid[r][q] <= m.repaid[r][q] /\ db.repaid[r][q] <= m.repaid[r][q]
    <2>1. /\ b.note[r][q] # {} => v.note[r][q] = b.note[r][q] /\ db.note[r][q] = b.note[r][q]
          /\ b.repaid[r][q] \in Nat /\ v.repaid[r][q] \in Nat /\ db.repaid[r][q] \in Nat
          /\ b.repaid[r][q] <= v.repaid[r][q] /\ b.repaid[r][q] <= db.repaid[r][q]
      BY <1>0, Fields DEF Grown
    <2>2. /\ v.note[r][q] # {} => m.note[r][q] = v.note[r][q]
          /\ db.note[r][q] # {} => m.note[r][q] = db.note[r][q]
      BY <1>3, <2>1
    <2>3. ASSUME v.repaid[r][q] # b.repaid[r][q]
          PROVE  /\ b.note[r][q] # {} /\ Lines(v) = Lines(b) /\ v.repaid[r][q] > 0
                 /\ \A k \in b.note[r][q] : db.repaid[r][k] = b.repaid[r][k]
      <3>1. Lines(v) = Lines(b) /\ v.note = b.note
        BY <1>0, <2>3 DEF Lines
      <3>2. v.repaid[r][q] > 0
        BY <2>1, <2>3
      <3>3. b.note[r][q] # {}
        BY <1>0, <3>1, <3>2 DEF Sound, Repaid
      <3> DEFINE n == b.note[r][q]
      <3>4. q \in n /\ n \in Notes(b, r) /\ n \in SUBSET Procs
        BY <1>0, <3>3, Fields DEF Sound, Disjoint, Notes
      <3> HIDE DEF n
      <3>5. NoteRow(b, r, n) # NoteRow(v, r, n)
        <4>1. NoteRow(b, r, n)[q] = b.repaid[r][q] /\ NoteRow(v, r, n)[q] = v.repaid[r][q]
          BY <3>4 DEF NoteRow
        <4> QED
          BY <2>3, <4>1
      <3>6. <<r, n>> \in Touched(b, v)
        BY <3>4, <3>5 DEF Touched
      <3>7. <<r, n>> \notin Touched(b, db)
        BY <3>6 DEF Meeting, Serializable, b
      <3>8. NoteRow(b, r, n) = NoteRow(db, r, n)
        BY <3>4, <3>7 DEF Touched
      <3>9. \A k \in n : NoteRow(b, r, n)[k] = b.repaid[r][k] /\ NoteRow(db, r, n)[k] = db.repaid[r][k]
        BY DEF NoteRow
      <3>10. \A k \in n : db.repaid[r][k] = b.repaid[r][k]
        BY <3>8, <3>9
      <3> QED
        BY <3>1, <3>2, <3>3, <3>10 DEF n
    <2>4. v.repaid[r][q] # b.repaid[r][q] => db.repaid[r][q] = b.repaid[r][q]
      BY <1>0, <2>3 DEF Sound, Disjoint
    <2> QED
      BY <1>1, <2>1, <2>2, <2>3, <2>4
  <1>7. Grown(v, m) /\ Grown(db, m)
    BY <1>1, <1>4, <1>5, <1>6 DEF Grown
  <1>8. Disjoint(m)
    BY <1>0, <1>3 DEF Sound, Disjoint
  <1>9. Credited(m)
    <2>1. \A r \in Refunds : v.rows[r] \subseteq m.rows[r] /\ db.rows[r] \subseteq m.rows[r]
      BY <1>1
    <2> QED
      BY <1>0, <1>3, <2>1 DEF Sound, Credited
  <1>10. Flagged(m) => Settled(m)
    <2>1. Flagged(m) => Flagged(v) \/ Flagged(db)
      BY <1>1, <1>3 DEF Flagged
    <2>2. Settled(v) \/ Settled(db) => Settled(m)
      BY <1>0, <1>1, <1>7, SettledGrows
    <2> QED
      BY <1>0, <2>1, <2>2 DEF Sound
  <1>11. Repaid(m)
    <2> SUFFICES ASSUME NEW r \in Refunds, NEW q \in Procs, m.repaid[r][q] > 0
                 PROVE  /\ m.note[r][q] # {}
                        /\ NoteTotal(r) <= Amount[r] =>
                              /\ m.repaid[r][q] = 1
                              /\ \A k \in Procs :
                                    m.repaid[r][k] > 0 /\ m.note[r][k] = m.note[r][q] => k = q
      BY DEF Repaid
    <2>1. \/ v.repaid[r][q] # b.repaid[r][q] /\ m.repaid[r][q] = v.repaid[r][q]
          \/ v.repaid[r][q] = b.repaid[r][q] /\ m.repaid[r][q] = db.repaid[r][q]
      BY <1>1
    <2>2. m.note[r][q] # {}
      BY <1>0, <1>6, <2>1 DEF Sound, Repaid
    <2>3. NoteTotal(r) <= Amount[r] => m.repaid[r][q] = 1
      BY <1>0, <1>6, <2>1 DEF Sound, Repaid
    <2>4. ASSUME NoteTotal(r) <= Amount[r], NEW k \in Procs, m.repaid[r][k] > 0,
                 m.note[r][k] = m.note[r][q]
          PROVE  k = q
      <3>1. \/ v.repaid[r][k] # b.repaid[r][k] /\ m.repaid[r][k] = v.repaid[r][k]
            \/ v.repaid[r][k] = b.repaid[r][k] /\ m.repaid[r][k] = db.repaid[r][k]
        BY <1>1
      <3>2. \A x \in {q, k} : v.repaid[r][x] # b.repaid[r][x] =>
               \A y \in {q, k} : m.repaid[r][y] = v.repaid[r][y]
        <4> SUFFICES ASSUME NEW x \in {q, k}, v.repaid[r][x] # b.repaid[r][x], NEW y \in {q, k}
                     PROVE  m.repaid[r][y] = v.repaid[r][y]
          OBVIOUS
        <4>1. /\ b.note[r][x] # {} /\ Lines(v) = Lines(b)
              /\ \A z \in b.note[r][x] : db.repaid[r][z] = b.repaid[r][z]
          BY <1>6
        <4>2. db.note[r][x] = b.note[r][x] /\ m.note = db.note
          BY <1>0, <1>3, <4>1 DEF Grown, Lines
        <4>3. db.note[r][y] = db.note[r][x]
          BY <2>4, <4>2
        <4>4. y \in b.note[r][x]
          BY <1>0, <4>1, <4>2, <4>3 DEF Sound, Disjoint
        <4>5. db.repaid[r][y] = b.repaid[r][y]
          BY <4>1, <4>4
        <4> QED
          BY <1>1, <4>5
      <3>3. CASE \E x \in {q, k} : v.repaid[r][x] # b.repaid[r][x]
        <4>1. /\ m.repaid[r][q] = v.repaid[r][q] /\ m.repaid[r][k] = v.repaid[r][k]
          BY <3>2, <3>3
        <4>2. v.repaid[r][q] > 0 /\ v.repaid[r][k] > 0
          BY <2>4, <4>1
        <4>3. v.note[r][q] # {} /\ v.note[r][k] # {}
          BY <1>0, <4>2 DEF Sound, Repaid
        <4>4. v.note[r][k] = v.note[r][q]
          BY <1>6, <2>4, <4>3
        <4> QED
          BY <1>0, <2>4, <4>2, <4>4 DEF Sound, Repaid
      <3>4. CASE \A x \in {q, k} : v.repaid[r][x] = b.repaid[r][x]
        <4>1. m.repaid[r][q] = db.repaid[r][q] /\ m.repaid[r][k] = db.repaid[r][k]
          BY <2>1, <3>1, <3>4
        <4>2. db.repaid[r][q] > 0 /\ db.repaid[r][k] > 0
          BY <2>4, <4>1
        <4>3. db.note[r][q] # {} /\ db.note[r][k] # {}
          BY <1>0, <4>2 DEF Sound, Repaid
        <4>4. db.note[r][k] = db.note[r][q]
          BY <1>6, <2>4, <4>3
        <4> QED
          BY <1>0, <2>4, <4>2, <4>4 DEF Sound, Repaid
      <3> QED
        BY <3>3, <3>4
    <2> QED
      BY <2>2, <2>3, <2>4
  <1>12. m.invoices <= 1
    BY <1>0, <1>3 DEF Sound
  <1> QED
    BY <1>1, <1>5, <1>7, <1>8, <1>9, <1>10, <1>11, <1>12 DEF Sound

-----------------------------------------------------------------------------
(* What a request does to its view.                                        *)

Develops(v, u) == u \in Databases /\ Sound(u) /\ Grown(v, u)

LEMMA NothingDone == ASSUME NEW v \in Databases, Sound(v) PROVE Develops(v, v) /\ Quiet(v, v)
  BY GrownSelf DEF Develops, Quiet

(* Steps that leave the notes, the payments and the flags alone.           *)
LEMMA RowsOnly ==
    ASSUME NEW v \in Databases, Sound(v), NEW u \in Databases,
           u.invoices = v.invoices, u.paid = v.paid, u.byHand = v.byHand,
           u.isInvoice = v.isInvoice, u.isRefund = v.isRefund,
           u.note = v.note, u.credits = v.credits, u.repaid = v.repaid,
           \A r \in Refunds : v.rows[r] \subseteq u.rows[r]
    PROVE  Develops(v, u) /\ Quiet(v, u)
  <1>1. Grown(v, v)
    BY GrownSelf
  <1>2. Grown(v, u)
    BY <1>1 DEF Grown
  <1>3. Flagged(u) = Flagged(v) /\ Settled(u) = Settled(v)
    BY DEF Flagged, Settled, Due
  <1>4. Credited(u)
    BY DEF Sound, Credited
  <1>5. Disjoint(u) /\ Repaid(u)
    BY DEF Sound, Disjoint, Repaid
  <1>6. Sound(u)
    BY <1>3, <1>4, <1>5 DEF Sound
  <1> QED
    BY <1>2, <1>6 DEF Develops, Quiet, Lines

LEMMA WithTransactionsDevelops ==
    ASSUME NEW v \in Databases, Sound(v), sales \in [Txs -> Statuses]
    PROVE  Develops(v, WithTransactions(v)) /\ Quiet(v, WithTransactions(v))
  <1> DEFINE tx == [t \in Txs |-> IF v.tx[t] = "none" THEN sales[t] ELSE v.tx[t]]
             u == [v EXCEPT !.tx = tx]
  <1>1. tx \in [Txs -> Statuses]
    BY Fields
  <1>2. WithTransactions(v) = u
    BY DEF WithTransactions
  <1> HIDE DEF tx
  <1>3. u \in Databases
    BY <1>1 DEF Databases
  <1>4. /\ u.invoices = v.invoices /\ u.paid = v.paid /\ u.byHand = v.byHand
        /\ u.isInvoice = v.isInvoice /\ u.isRefund = v.isRefund
        /\ u.note = v.note /\ u.credits = v.credits /\ u.repaid = v.repaid /\ u.rows = v.rows
    BY DEF Databases
  <1> HIDE DEF u
  <1> QED
    BY <1>2, <1>3, <1>4, RowsOnly

LEMMA WithRefundsDevelops ==
    ASSUME NEW v \in Databases, Sound(v), NEW p \in Procs
    PROVE  Develops(v, WithRefunds(p, v)) /\ Quiet(v, WithRefunds(p, v))
  <1> DEFINE rows == [r \in Refunds |-> IF v.rows[r] = {} /\ r \in refunded THEN {p} ELSE v.rows[r]]
             u == [v EXCEPT !.rows = rows]
  <1>1. rows \in [Refunds -> SUBSET Procs] /\ \A r \in Refunds : v.rows[r] \subseteq rows[r]
    BY Fields
  <1>2. WithRefunds(p, v) = u
    BY DEF WithRefunds
  <1> HIDE DEF rows
  <1>3. u \in Databases
    BY <1>1 DEF Databases
  <1>4. /\ u.invoices = v.invoices /\ u.paid = v.paid /\ u.byHand = v.byHand
        /\ u.isInvoice = v.isInvoice /\ u.isRefund = v.isRefund
        /\ u.note = v.note /\ u.credits = v.credits /\ u.repaid = v.repaid /\ u.rows = rows
    BY DEF Databases
  <1> HIDE DEF u
  <1> QED
    BY <1>1, <1>2, <1>3, <1>4, RowsOnly

LEMMA WithInvoiceDevelops ==
    ASSUME NEW v \in Databases, Sound(v)
    PROVE  Develops(v, WithInvoice(v)) /\ WithInvoice(v).repaid = v.repaid
  <1> DEFINE n == IF v.invoices = 0 THEN 1 ELSE v.invoices
             u == [v EXCEPT !.invoices = n]
  <1>1. n \in Nat /\ n <= 1 /\ v.invoices <= n
    BY Fields DEF Sound
  <1>2. WithInvoice(v) = u
    BY DEF WithInvoice
  <1> HIDE DEF n
  <1>3. u \in Databases
    BY <1>1 DEF Databases
  <1>4. /\ u.invoices = n /\ u.paid = v.paid /\ u.byHand = v.byHand
        /\ u.isInvoice = v.isInvoice /\ u.isRefund = v.isRefund
        /\ u.note = v.note /\ u.credits = v.credits /\ u.repaid = v.repaid /\ u.rows = v.rows
    BY DEF Databases
  <1> HIDE DEF u
  <1>5. Grown(v, v)
    BY GrownSelf
  <1>6. Grown(v, u)
    BY <1>1, <1>4, <1>5 DEF Grown
  <1>7. Flagged(u) = Flagged(v)
    BY <1>4 DEF Flagged
  <1>8. Disjoint(u) /\ Repaid(u) /\ Credited(u)
    BY <1>4 DEF Sound, Disjoint, Repaid, Credited
  <1>9. Sound(u)
    BY <1>1, <1>3, <1>4, <1>6, <1>7, <1>8, SettledGrows DEF Sound
  <1> QED
    BY <1>2, <1>3, <1>4, <1>6, <1>9 DEF Develops

LEMMA PaymentsDevelop ==
    ASSUME NEW v \in Databases, Sound(v), NEW S \in SUBSET Unpaid(v), Payable(v, S)
    PROVE  Develops(v, PaymentsOf(v, S)) /\ Quiet(v, PaymentsOf(v, S))
  <1> DEFINE paid == [t \in Txs |-> IF t \in S THEN v.paid[t] + 1 ELSE v.paid[t]]
             w == [v EXCEPT !.paid = paid]
             flag == w.isInvoice \/ (S # {} /\ Due(w) <= 0)
             u == [w EXCEPT !.isInvoice = flag]
  <1>1. /\ paid \in [Txs -> Nat]
        /\ \A t \in Txs : v.paid[t] <= paid[t] /\ paid[t] <= 1
    <2>1. \A t \in Txs : v.paid[t] \in Nat /\ v.paid[t] <= 1 /\ (t \in S => v.paid[t] = 0)
      BY Fields DEF Sound, Unpaid
    <2> QED
      BY <2>1
  <1>2. PaymentsOf(v, S) = u
    BY DEF PaymentsOf
  <1> HIDE DEF paid
  <1>3. w \in Databases
    BY <1>1 DEF Databases
  <1>4. /\ w.invoices = v.invoices /\ w.paid = paid /\ w.byHand = v.byHand
        /\ w.isInvoice = v.isInvoice /\ w.isRefund = v.isRefund
        /\ w.note = v.note /\ w.credits = v.credits /\ w.repaid = v.repaid /\ w.rows = v.rows
    BY DEF Databases
  <1> HIDE DEF w
  <1>5. flag \in BOOLEAN
    BY <1>3, Fields
  <1> HIDE DEF flag
  <1>6. u \in Databases
    BY <1>3, <1>5 DEF Databases
  <1>7. /\ u.invoices = w.invoices /\ u.paid = w.paid /\ u.byHand = w.byHand
        /\ u.isInvoice = flag /\ u.isRefund = w.isRefund
        /\ u.note = w.note /\ u.credits = w.credits /\ u.repaid = w.repaid /\ u.rows = w.rows
    BY <1>3 DEF Databases
  <1> HIDE DEF u
  <1>8. Grown(v, v)
    BY GrownSelf
  <1>9. Grown(v, u)
    BY <1>1, <1>4, <1>7, <1>8 DEF Grown
  <1>10. Flagged(u) => Settled(u)
    <2>1. Flagged(u) => Flagged(v) \/ (S # {} /\ Due(w) <= 0)
      BY <1>4, <1>7 DEF Flagged, flag
    <2>2. Flagged(v) => Settled(u)
      BY <1>6, <1>9, SettledGrows DEF Sound
    <2>3. Due(u) = Due(w)
      BY <1>7 DEF Due
    <2>4. S # {} => u.invoices > 0
      BY <1>4, <1>7 DEF Payable
    <2> QED
      BY <2>1, <2>2, <2>3, <2>4 DEF Settled
  <1>11. Disjoint(u) /\ Repaid(u) /\ Credited(u)
    BY <1>4, <1>7 DEF Sound, Disjoint, Repaid, Credited
  <1>12. Sound(u)
    BY <1>1, <1>4, <1>7, <1>10, <1>11 DEF Sound
  <1> QED
    BY <1>2, <1>4, <1>6, <1>7, <1>9, <1>12 DEF Develops, Quiet, Lines

LEMMA WithNoteDevelops ==
    ASSUME NEW v \in Databases, Sound(v), NEW r \in Refunds, MayCredit(v, r)
    PROVE  Develops(v, WithNote(v, r)) /\ WithNote(v, r).repaid = v.repaid
  <1> DEFINE F == Fresh(v, r)
             mine == [q \in Procs |-> IF q \in F THEN F ELSE v.note[r][q]]
             note == [v.note EXCEPT ![r] = mine]
             credits == [v.credits EXCEPT ![r] = v.credits[r] + 1]
             u == [v EXCEPT !.note = note, !.credits = credits]
  <1>1. /\ F # {} /\ F \in SUBSET Procs /\ F \in SUBSET v.rows[r] /\ Settled(v)
        /\ \A q \in F : v.note[r][q] = {}
    BY Fields DEF MayCredit, Fresh
  <1>2. WithNote(v, r) = u
    <2>1. WithNote(v, r) = [[v EXCEPT !.note[r] = mine] EXCEPT !.credits[r] = v.credits[r] + 1]
      BY DEF WithNote, Databases
    <2>2. [v EXCEPT !.note[r] = mine] = [v EXCEPT !.note = note]
      BY DEF Databases
    <2> HIDE DEF note, mine
    <2>3. u = [[v EXCEPT !.note = note] EXCEPT !.credits = credits]
      OBVIOUS
    <2>4. [v EXCEPT !.note = note].credits = v.credits
      BY DEF Databases
    <2> QED
      BY <2>1, <2>2, <2>3, <2>4
  <1> HIDE DEF F
  <1>3. mine \in [Procs -> SUBSET Procs] /\ \A q \in Procs : mine[q] = IF q \in F THEN F ELSE v.note[r][q]
    BY <1>1, Fields
  <1> HIDE DEF mine
  <1>4. /\ note \in [Refunds -> [Procs -> SUBSET Procs]] /\ note[r] = mine
        /\ \A x \in Refunds \ {r} : note[x] = v.note[x]
    BY <1>3, Fields
  <1>5. /\ credits \in [Refunds -> Nat] /\ credits[r] = v.credits[r] + 1
        /\ \A x \in Refunds \ {r} : credits[x] = v.credits[x]
    BY Fields
  <1> HIDE DEF note, credits
  <1>6. u \in Databases
    <2>1. u = [[v EXCEPT !.note = note] EXCEPT !.credits = credits]
      OBVIOUS
    <2> HIDE DEF u
    <2>2. [v EXCEPT !.note = note] \in Databases
      BY <1>4 DEF Databases
    <2> QED
      BY <1>5, <2>1, <2>2 DEF Databases
  <1>7. /\ u.invoices = v.invoices /\ u.paid = v.paid /\ u.byHand = v.byHand
        /\ u.isInvoice = v.isInvoice /\ u.isRefund = v.isRefund
        /\ u.note = note /\ u.credits = credits /\ u.repaid = v.repaid /\ u.rows = v.rows
    BY DEF Databases
  <1> HIDE DEF u
  <1>8. \A x \in Refunds, q \in Procs : u.note[x][q] = IF x = r /\ q \in F THEN F ELSE v.note[x][q]
    BY <1>3, <1>4, <1>7
  <1>9. Grown(v, v)
    BY GrownSelf
  <1>10. Grown(v, u)
    BY <1>1, <1>7, <1>8, <1>9 DEF Grown
  <1>11. Settled(u)
    BY <1>1, <1>6, <1>10, SettledGrows
  <1>12. Disjoint(u)
    <2> SUFFICES ASSUME NEW x \in Refunds, NEW q \in Procs, u.note[x][q] # {}
                 PROVE  q \in u.note[x][q] /\ \A k \in u.note[x][q] : u.note[x][k] = u.note[x][q]
      BY DEF Disjoint
    <2>1. CASE x = r /\ q \in F
      BY <1>1, <1>8, <2>1
    <2>2. CASE ~ (x = r /\ q \in F)
      <3>1. u.note[x][q] = v.note[x][q]
        BY <1>8, <2>2
      <3>2. v.note[x][q] \in SUBSET Procs
        BY Fields
      <3>3. q \in v.note[x][q] /\ \A k \in v.note[x][q] : v.note[x][k] = v.note[x][q]
        BY <3>1 DEF Sound, Disjoint
      <3>4. \A k \in v.note[x][q] : ~ (x = r /\ k \in F)
        BY <1>1, <3>1, <3>3
      <3> QED
        BY <1>8, <3>1, <3>2, <3>3, <3>4
    <2> QED
      BY <2>1, <2>2
  <1>13. Credited(u)
    <2> SUFFICES ASSUME NEW x \in Refunds
                 PROVE  /\ u.credits[x] = 1 => \E q \in u.rows[x] : u.note[x][q] # {}
                        /\ u.credits[x] > 1 => \E q, k \in u.rows[x] : q # k
      BY DEF Credited
    <2>1. CASE x # r
      <3>1. v.rows[x] \in SUBSET Procs
        BY Fields
      <3> QED
        BY <1>5, <1>7, <1>8, <2>1, <3>1 DEF Sound, Credited
    <2>2. CASE x = r
      <3>1. PICK f \in F : f \in v.rows[r] /\ f \in Procs /\ v.note[r][f] = {}
        BY <1>1
      <3>2. u.note[r][f] # {}
        BY <1>8, <3>1
      <3>3. v.credits[r] \in Nat /\ u.credits[r] = v.credits[r] + 1
        BY <1>5, <1>7, Fields
      <3>4. v.credits[r] = 1 => \E q \in v.rows[r] : q # f
        BY <3>1 DEF Sound, Credited
      <3>5. v.credits[r] > 1 => \E q, k \in v.rows[r] : q # k
        BY DEF Sound, Credited
      <3> QED
        BY <1>7, <2>2, <3>1, <3>2, <3>3, <3>4, <3>5
    <2> QED
      BY <2>1, <2>2
  <1>14. Repaid(u)
    <2> SUFFICES ASSUME NEW x \in Refunds, NEW q \in Procs, v.repaid[x][q] > 0
                 PROVE  /\ u.note[x][q] # {}
                        /\ NoteTotal(x) <= Amount[x] =>
                              /\ v.repaid[x][q] = 1
                              /\ \A k \in Procs :
                                    v.repaid[x][k] > 0 /\ u.note[x][k] = u.note[x][q] => k = q
      BY <1>7 DEF Repaid
    <2>1. \A k \in Procs : v.repaid[x][k] > 0 => v.note[x][k] # {} /\ u.note[x][k] = v.note[x][k]
      BY <1>1, <1>8 DEF Sound, Repaid
    <2> QED
      BY <2>1 DEF Sound, Repaid
  <1>15. Sound(u)
    BY <1>7, <1>11, <1>12, <1>13, <1>14 DEF Sound
  <1> QED
    BY <1>2, <1>6, <1>7, <1>10, <1>15 DEF Develops

LEMMA SumIsNatural ==
    ASSUME NEW S, IsFiniteSet(S), NEW f, \A x \in S : f[x] \in Nat
    PROVE  SumFunctionOnSet(f, S) \in Nat
  <1> DEFINE z == [x \in S |-> 0]
  <1>1. SumFunctionOnSet(f, S) \in Int
    BY SumType
  <1>2. SumFunctionOnSet(z, S) = 0
    BY SumZero
  <1>3. \A x \in S : z[x] \in Int /\ f[x] \in Int /\ z[x] <= f[x]
    OBVIOUS
  <1> HIDE DEF z
  <1>4. SumFunctionOnSet(z, S) <= SumFunctionOnSet(f, S)
    BY <1>3, SumAtMost
  <1> QED
    BY <1>1, <1>2, <1>4

LEMMA SumOfNothing ==
    ASSUME NEW S, IsFiniteSet(S), NEW f, \A x \in S : f[x] \in Nat, SumFunctionOnSet(f, S) < 1,
           NEW x \in S
    PROVE  f[x] = 0
  <1>1. SumFunctionOnSet(f, S) = f[x] + SumFunctionOnSet(f, S \ {x})
    BY SumOne
  <1>2. IsFiniteSet(S \ {x})
    BY FS_RemoveElement
  <1>3. SumFunctionOnSet(f, S \ {x}) \in Nat
    BY <1>2, SumIsNatural
  <1> QED
    BY <1>1, <1>3

LEMMA SumOfOne ==
    ASSUME NEW S, IsFiniteSet(S), NEW f, \A x \in S : f[x] \in Nat /\ f[x] <= 1,
           \A x, y \in S : f[x] > 0 /\ f[y] > 0 => x = y
    PROVE  SumFunctionOnSet(f, S) <= 1
  <1>1. CASE \A x \in S : f[x] = 0
    BY <1>1, SumZero
  <1>2. CASE \E x \in S : f[x] # 0
    <2>1. PICK x \in S : f[x] # 0
      BY <1>2
    <2>2. SumFunctionOnSet(f, S) = f[x] + SumFunctionOnSet(f, S \ {x})
      BY SumOne
    <2>3. IsFiniteSet(S \ {x}) /\ \A y \in S \ {x} : f[y] = 0
      BY <2>1, FS_RemoveElement
    <2>4. SumFunctionOnSet(f, S \ {x}) = 0
      BY <2>3, SumZero
    <2> QED
      BY <2>2, <2>4
  <1> QED
    BY <1>1, <1>2

LEMMA NoteTotalType == ASSUME NEW r \in Refunds PROVE NoteTotal(r) \in Int
  <1> DEFINE D == DOMAIN Items[r]
             f == [sku \in D |-> Items[r][sku][Len(Items[r][sku])]]
  <1>1. IsFiniteSet(D)
    BY AmountsAssumption
  <1>2. \A sku \in D : f[sku] \in Int
    <2> SUFFICES ASSUME NEW sku \in D PROVE f[sku] \in Int
      OBVIOUS
    <2>1. PICK lines \in Seq(Nat) : lines = Items[r][sku] /\ lines # <<>>
      BY AmountsAssumption
    <2>2. lines[Len(lines)] \in Nat
      BY <2>1
    <2> QED
      BY <2>1, <2>2
  <1> HIDE DEF f
  <1>3. SumFunctionOnSet(f, D) \in Int
    BY <1>1, <1>2, SumType
  <1> QED
    BY <1>3 DEF NoteTotal, f

LEMMA PaidBackFields ==
    ASSUME NEW v \in Databases, NEW S \in SUBSET (Refunds \X Procs)
    PROVE  LET u == PaidBack(v, S) IN
           /\ u \in Databases
           /\ u.invoices = v.invoices /\ u.paid = v.paid /\ u.byHand = v.byHand
           /\ u.isInvoice = v.isInvoice /\ (u.isRefund => v.isRefund \/ S # {})
           /\ u.note = v.note /\ u.credits = v.credits /\ u.rows = v.rows
           /\ \A r \in Refunds, q \in Procs :
                 u.repaid[r][q] = IF <<r, q>> \in S THEN v.repaid[r][q] + 1 ELSE v.repaid[r][q]
  <1> DEFINE repaid == [r \in Refunds |-> [q \in Procs |->
                            IF <<r, q>> \in S THEN v.repaid[r][q] + 1 ELSE v.repaid[r][q]]]
             w == [v EXCEPT !.repaid = repaid]
             flag == w.isRefund \/ \E rq \in S : Owed(w, rq[1], w.note[rq[1]][rq[2]]) <= 0
             u == [w EXCEPT !.isRefund = flag]
  <1>1. repaid \in [Refunds -> [Procs -> Nat]]
    <2>1. ASSUME NEW r \in Refunds, NEW q \in Procs
          PROVE  v.repaid[r][q] \in Nat /\ v.repaid[r][q] + 1 \in Nat
      BY Fields
    <2> QED
      BY <2>1
  <1>2. PaidBack(v, S) = u
    BY DEF PaidBack
  <1>3. \A r \in Refunds, q \in Procs :
           repaid[r][q] = IF <<r, q>> \in S THEN v.repaid[r][q] + 1 ELSE v.repaid[r][q]
    OBVIOUS
  <1> HIDE DEF repaid
  <1>4. w \in Databases
    BY <1>1 DEF Databases
  <1>5. /\ w.invoices = v.invoices /\ w.repaid = repaid /\ w.byHand = v.byHand
        /\ w.isInvoice = v.isInvoice /\ w.isRefund = v.isRefund
        /\ w.note = v.note /\ w.credits = v.credits /\ w.paid = v.paid /\ w.rows = v.rows
    BY DEF Databases
  <1> HIDE DEF w
  <1>6. flag \in BOOLEAN /\ (flag => v.isRefund \/ S # {})
    BY <1>4, <1>5, Fields
  <1> HIDE DEF flag
  <1>7. u \in Databases
    BY <1>4, <1>6 DEF Databases
  <1>8. /\ u.invoices = w.invoices /\ u.repaid = w.repaid /\ u.byHand = w.byHand
        /\ u.isInvoice = w.isInvoice /\ u.isRefund = flag
        /\ u.note = w.note /\ u.credits = w.credits /\ u.paid = w.paid /\ u.rows = w.rows
    BY <1>4 DEF Databases
  <1> HIDE DEF u
  <1> QED
    BY <1>2, <1>3, <1>5, <1>6, <1>7, <1>8

LEMMA PaidBackRepaid ==
    ASSUME NEW v \in Databases, NEW S \in SUBSET (Refunds \X Procs),
           NEW r \in Refunds, NEW q \in Procs
    PROVE  PaidBack(v, S).repaid[r][q] =
              IF <<r, q>> \in S THEN v.repaid[r][q] + 1 ELSE v.repaid[r][q]
  BY PaidBackFields

(* A note that its transaction settles is only open as long as nothing is  *)
(* paid back.                                                              *)
LEMMA OpenNote ==
    ASSUME NEW v \in Databases, NEW T \in SUBSET (Refunds \X Procs), NEW r \in Refunds,
           NEW n \in SUBSET Procs, NoteTotal(r) <= Amount[r], Owed(PaidBack(v, T), r, n) > 0
    PROVE  \A q \in n : v.repaid[r][q] = 0 /\ <<r, q>> \notin T
  <1> DEFINE x == PaidBack(v, T)
             s == SumFunctionOnSet(x.repaid[r], n)
  <1>1. IsFiniteSet(n)
    BY AmountsAssumption, FS_Subset
  <1>2. ASSUME NEW q \in n
        PROVE  /\ x.repaid[r][q] = IF <<r, q>> \in T THEN v.repaid[r][q] + 1 ELSE v.repaid[r][q]
               /\ v.repaid[r][q] \in Nat /\ v.repaid[r][q] + 1 \in Nat
    BY PaidBackRepaid, Fields
  <1>3. NoteTotal(r) - Amount[r] * s > 0
    BY DEF Owed
  <1> HIDE DEF x
  <1>4. ASSUME NEW q \in n PROVE x.repaid[r][q] \in Nat
    BY <1>2
  <1>5. s \in Nat
    BY <1>1, <1>4, SumIsNatural
  <1>6. s < 1
    <2> SUFFICES ASSUME s >= 1 PROVE FALSE
      BY <1>5
    <2>1. Amount[r] \in Nat /\ Amount[r] > 0 /\ NoteTotal(r) \in Int
      BY AmountsAssumption, NoteTotalType
    <2> HIDE DEF s
    <2>2. 1 * Amount[r] <= s * Amount[r]
      BY <1>5, <2>1, TimesAtMost
    <2>3. s * Amount[r] = Amount[r] * s /\ 1 * Amount[r] = Amount[r] /\ s * Amount[r] \in Int
      BY <1>5, <2>1
    <2> QED
      BY <1>3, <2>1, <2>2, <2>3
  <1>7. \A q \in n : x.repaid[r][q] = 0
    BY <1>1, <1>4, <1>6, SumOfNothing
  <1> QED
    BY <1>2, <1>7

(* So one row pays it back, once.                                          *)
LEMMA PaidOnce ==
    ASSUME NEW v \in Databases, NEW S \in SUBSET Noted(v), Repayable(v, S),
           NEW r \in Refunds, NEW n \in Notes(v, r), NoteTotal(r) <= Amount[r],
           NEW k \in n, <<r, k>> \in S
    PROVE  \A q \in n : v.repaid[r][q] = 0 /\ (<<r, q>> \in S => q = k)
  <1> DEFINE mine == {rq \in S : rq[1] = r /\ rq[2] \in n}
  <1>1. /\ S \in SUBSET (Refunds \X Procs) /\ n \in SUBSET Procs
    BY Fields DEF Notes, Noted
  <1>2. <<r, k>> \in mine
    OBVIOUS
  <1>3. PICK last \in mine : Owed(PaidBack(v, mine \ {last}), r, n) > 0
    BY <1>2 DEF Repayable
  <1>4. PICK T : T = mine \ {last}
    OBVIOUS
  <1>5. T \in SUBSET (Refunds \X Procs)
    BY <1>1, <1>4
  <1>6. Owed(PaidBack(v, T), r, n) > 0
    BY <1>3, <1>4
  <1>7. \A q \in n : v.repaid[r][q] = 0 /\ <<r, q>> \notin T
    BY <1>1, <1>5, <1>6, OpenNote
  <1>8. last = <<r, k>>
    BY <1>2, <1>4, <1>7
  <1> QED
    BY <1>4, <1>7, <1>8

LEMMA PaidBackDevelops ==
    ASSUME NEW v \in Databases, Sound(v), NEW S \in SUBSET Noted(v), Repayable(v, S)
    PROVE  Develops(v, PaidBack(v, S)) /\ Lines(PaidBack(v, S)) = Lines(v)
  <1> DEFINE u == PaidBack(v, S)
  <1>1. S \in SUBSET (Refunds \X Procs) /\ \A r \in Refunds, q \in Procs :
                                              <<r, q>> \in S => v.note[r][q] # {}
    BY DEF Noted
  <1>2. /\ u \in Databases
        /\ u.invoices = v.invoices /\ u.paid = v.paid /\ u.byHand = v.byHand
        /\ u.isInvoice = v.isInvoice /\ (u.isRefund => v.isRefund \/ S # {})
        /\ u.note = v.note /\ u.credits = v.credits /\ u.rows = v.rows
        /\ \A r \in Refunds, q \in Procs :
              u.repaid[r][q] = IF <<r, q>> \in S THEN v.repaid[r][q] + 1 ELSE v.repaid[r][q]
    BY <1>1, PaidBackFields
  <1> HIDE DEF u
  <1>3. \A r \in Refunds, q \in Procs : v.repaid[r][q] \in Nat
    BY Fields
  <1>4. Grown(v, v)
    BY GrownSelf
  <1>5. Grown(v, u)
    <2>1. ASSUME NEW r \in Refunds, NEW q \in Procs PROVE v.repaid[r][q] <= u.repaid[r][q]
      <3>1. v.repaid[r][q] \in Nat /\ v.repaid[r][q] <= v.repaid[r][q] + 1
        BY <1>3
      <3>2. u.repaid[r][q] = IF <<r, q>> \in S THEN v.repaid[r][q] + 1 ELSE v.repaid[r][q]
        BY <1>2
      <3> QED
        BY <3>1, <3>2
    <2>2. v.invoices <= v.invoices /\ \A t \in Txs : v.paid[t] <= v.paid[t]
      BY <1>4 DEF Grown
    <2> QED
      BY <1>2, <2>1, <2>2 DEF Grown
  <1>6. Flagged(u) => Settled(u)
    <2>1. S # {} => \E r \in Refunds, q \in Procs : v.note[r][q] # {}
      BY DEF Noted
    <2>2. Flagged(u) => Flagged(v)
      BY <1>2, <2>1 DEF Flagged
    <2> QED
      BY <1>2, <1>5, <2>2, SettledGrows DEF Sound
  <1>7. Disjoint(u) /\ Credited(u)
    BY <1>2 DEF Sound, Disjoint, Credited
  <1>8. Repaid(u)
    <2> SUFFICES ASSUME NEW r \in Refunds, NEW q \in Procs, u.repaid[r][q] > 0
                 PROVE  /\ v.note[r][q] # {}
                        /\ NoteTotal(r) <= Amount[r] =>
                              /\ u.repaid[r][q] = 1
                              /\ \A k \in Procs :
                                    u.repaid[r][k] > 0 /\ v.note[r][k] = v.note[r][q] => k = q
      BY <1>2 DEF Repaid
    <2>1. v.note[r][q] # {}
      BY <1>1, <1>2 DEF Sound, Repaid
    <2> DEFINE n == v.note[r][q]
    <2>2. n \in Notes(v, r) /\ n \in SUBSET Procs /\ q \in n
      BY <2>1, Fields DEF Notes, Sound, Disjoint
    <2>3. \A k \in Procs : v.note[r][k] = n => k \in n
      BY <2>1 DEF Sound, Disjoint
    <2> HIDE DEF n
    <2>4. CASE \A k \in n : <<r, k>> \notin S
      <3>1. \A k \in n : u.repaid[r][k] = v.repaid[r][k]
        BY <1>2, <2>2, <2>4
      <3> QED
        BY <2>1, <2>2, <2>3, <3>1 DEF Sound, Repaid, n
    <2>5. ASSUME NEW k \in n, <<r, k>> \in S, NoteTotal(r) <= Amount[r]
          PROVE  \A x \in n : u.repaid[r][x] > 0 => u.repaid[r][x] = 1 /\ x = k
      <3>1. \A x \in n : v.repaid[r][x] = 0 /\ (<<r, x>> \in S => x = k)
        BY <2>2, <2>5, PaidOnce
      <3> SUFFICES ASSUME NEW x \in n, u.repaid[r][x] > 0 PROVE u.repaid[r][x] = 1 /\ x = k
        OBVIOUS
      <3>2. x \in Procs /\ v.repaid[r][x] = 0 /\ (<<r, x>> \in S => x = k)
        BY <2>2, <3>1
      <3>3. u.repaid[r][x] = IF <<r, x>> \in S THEN v.repaid[r][x] + 1 ELSE v.repaid[r][x]
        BY <1>2, <3>2
      <3> QED
        BY <3>2, <3>3
    <2>6. ASSUME NEW k \in n, <<r, k>> \in S, NoteTotal(r) <= Amount[r]
          PROVE  /\ u.repaid[r][q] = 1
                 /\ \A x \in Procs : u.repaid[r][x] > 0 /\ v.note[r][x] = v.note[r][q] => x = q
      <3>1. \A x \in n : u.repaid[r][x] > 0 => u.repaid[r][x] = 1 /\ x = k
        BY <2>5, <2>6
      <3> QED
        BY <2>2, <2>3, <3>1 DEF n
    <2> QED
      BY <2>1, <2>4, <2>6
  <1>9. Sound(u)
    BY <1>2, <1>6, <1>7, <1>8 DEF Sound
  <1> QED
    BY <1>2, <1>5, <1>9 DEF Develops, Lines, u

-----------------------------------------------------------------------------
(* Steps of a transaction.                                                 *)

(* What the variables that a step of p may set besides its rows become.    *)
Told ==
    /\ sales' \in [Txs -> Statuses] /\ refunded' \subseteq Refunds
    /\ kind' \in [Procs -> {"feed", "refunds", "payments"}]
    /\ todo' \in [Procs -> SUBSET Refunds]

LEMMA CommitKeeps ==
    ASSUME PayInv, NEW p \in Procs, NEW v, NEW l \in Stages, Develops(view[p], v),
           Lines(v) = Lines(view[p]) \/ v.repaid = view[p].repaid, Commit(p, v, l), Told
    PROVE  PayInv'
  <1> DEFINE b == base[p]
  <1>1. /\ b \in Databases /\ view[p] \in Databases /\ v \in Databases /\ db \in Databases
        /\ Sound(b) /\ Sound(v) /\ Sound(db) /\ Grown(b, db)
        /\ Grown(b, view[p]) /\ Grown(view[p], v) /\ Quiet(b, view[p])
    BY DEF PayInv, TypeOK, Develops
  <1>2. Grown(b, v)
    BY <1>1, GrownOn
  <1>3. Meeting(p, v)
    BY <1>1, <1>2 DEF Meeting, Quiet, Commit
  <1>4. PICK m : m = Merged(p, v)
    OBVIOUS
  <1>5. m \in Databases /\ Grown(db, m) /\ Sound(m)
    BY <1>3, <1>4, Merging
  <1>6. db' = m /\ pc' = [pc EXCEPT ![p] = l] /\ open' = [open EXCEPT ![p] = FALSE]
        /\ base' = [base EXCEPT ![p] = Empty] /\ view' = [view EXCEPT ![p] = Empty]
    BY <1>4 DEF Commit, Close
  <1>7. TypeOK'
    BY <1>5, <1>6, EmptyRight DEF PayInv, TypeOK, Told
  <1>8. ASSUME NEW q \in Procs
        PROVE  /\ Sound(base'[q]) /\ Sound(view'[q])
               /\ Grown(base'[q], m) /\ Grown(base'[q], view'[q])
               /\ Quiet(base'[q], view'[q])
    <2>1. CASE q = p
      <3>1. base'[q] = Empty /\ view'[q] = Empty
        BY <1>6, <2>1 DEF PayInv, TypeOK
      <3> QED
        BY <1>5, <3>1, EmptyRight DEF Quiet
    <2>2. CASE q # p
      <3>1. base'[q] = base[q] /\ view'[q] = view[q]
        BY <1>6, <2>2 DEF PayInv, TypeOK
      <3>2. /\ base[q] \in Databases /\ Sound(base[q]) /\ Sound(view[q]) /\ Grown(base[q], db)
            /\ Grown(base[q], view[q]) /\ Quiet(base[q], view[q])
        BY DEF PayInv, TypeOK
      <3>3. Grown(base[q], m)
        BY <1>1, <1>5, <3>2, GrownOn
      <3> QED
        BY <3>1, <3>2, <3>3
    <2> QED
      BY <2>1, <2>2
  <1> QED
    BY <1>5, <1>6, <1>7, <1>8 DEF PayInv

LEMMA ContinueKeeps ==
    ASSUME PayInv, NEW p \in Procs, NEW v, NEW l \in Stages, Develops(view[p], v),
           Quiet(view[p], v), Continue(p, v, l), Told
    PROVE  PayInv'
  <1>1. /\ base[p] \in Databases /\ view[p] \in Databases /\ v \in Databases /\ Sound(v)
        /\ Grown(base[p], view[p]) /\ Grown(view[p], v) /\ Quiet(base[p], view[p])
    BY DEF PayInv, TypeOK, Develops
  <1>2. Grown(base[p], v) /\ Quiet(base[p], v)
    BY <1>1, GrownOn DEF Quiet
  <1>3. /\ db' = db /\ base' = base /\ open' = open /\ view' = [view EXCEPT ![p] = v]
        /\ pc' = [pc EXCEPT ![p] = l]
    BY DEF Continue
  <1>4. TypeOK'
    BY <1>1, <1>3 DEF PayInv, TypeOK, Told
  <1>5. ASSUME NEW q \in Procs
        PROVE  /\ Sound(view'[q]) /\ Grown(base[q], view'[q]) /\ Quiet(base[q], view'[q])
    BY <1>1, <1>2, <1>3 DEF PayInv, TypeOK
  <1> QED
    BY <1>3, <1>4, <1>5 DEF PayInv

(* p has no transaction open, or a new one.                                *)
LEMMA SnapshotKeeps ==
    ASSUME PayInv, NEW p \in Procs, NEW d, d = db \/ d = Empty,
           base' = [base EXCEPT ![p] = d], view' = [view EXCEPT ![p] = d], db' = db,
           pc' \in [Procs -> Stages], open' \in [Procs -> BOOLEAN], Told
    PROVE  PayInv'
  <1>1. d \in Databases /\ Sound(d) /\ Grown(d, db) /\ Grown(d, d) /\ Quiet(d, d)
    BY EmptyRight, GrownSelf DEF PayInv, TypeOK, Quiet
  <1>2. TypeOK'
    BY <1>1 DEF PayInv, TypeOK, Told
  <1>3. ASSUME NEW q \in Procs
        PROVE  /\ Sound(base'[q]) /\ Sound(view'[q]) /\ Grown(base'[q], db)
               /\ Grown(base'[q], view'[q]) /\ Quiet(base'[q], view'[q])
    BY <1>1 DEF PayInv, TypeOK
  <1> QED
    BY <1>2, <1>3 DEF PayInv

LEMMA PayInitInv == Init => PayInv
  <1> SUFFICES ASSUME Init PROVE PayInv
    OBVIOUS
  <1>1. Grown(Empty, Empty) /\ Quiet(Empty, Empty)
    BY EmptyRight DEF Quiet
  <1>2. TypeOK
    BY EmptyRight DEF Init, TypeOK, Statuses, Stages
  <1> QED
    BY <1>1, <1>2, EmptyRight DEF Init, PayInv

LEMMA RequestKeeps == ASSUME PayInv, NEW p \in Procs, Request(p) PROVE PayInv'
  <1>1. PICK k \in {"feed", "refunds", "payments"} :
           /\ kind' = [kind EXCEPT ![p] = k]
           /\ pc' = [pc EXCEPT ![p] = IF k = "payments" THEN "pay" ELSE "fetch"]
    BY DEF Request
  <1>2. Told /\ pc' \in [Procs -> Stages] /\ open' \in [Procs -> BOOLEAN]
    BY <1>1 DEF Request, Open, Told, PayInv, TypeOK, Stages
  <1>3. PICK d : d = db
    OBVIOUS
  <1> QED
    BY <1>2, <1>3, SnapshotKeeps DEF Request, Open

LEMMA BeginKeeps == ASSUME PayInv, NEW p \in Procs, Begin(p) PROVE PayInv'
  <1>1. Told /\ pc' \in [Procs -> Stages] /\ open' \in [Procs -> BOOLEAN]
    BY DEF Begin, Open, Told, PayInv, TypeOK
  <1>2. PICK d : d = db
    OBVIOUS
  <1> QED
    BY <1>1, <1>2, SnapshotKeeps DEF Begin, Open

LEMMA RollBackKeeps == ASSUME PayInv, NEW p \in Procs, RollBack(p) PROVE PayInv'
  <1>1. Told /\ pc' \in [Procs -> Stages] /\ open' \in [Procs -> BOOLEAN]
    BY DEF RollBack, Close, Told, PayInv, TypeOK, Stages
  <1> QED
    BY <1>1, SnapshotKeeps DEF RollBack, Close

LEMMA FetchKeeps == ASSUME PayInv, NEW p \in Procs, Fetch(p) PROVE PayInv'
  <1>1. PICK payments, refunds \in BOOLEAN :
           LET v == IF kind[p] = "feed" /\ payments THEN WithTransactions(view[p]) ELSE view[p]
           IN Continue(p, IF refunds THEN WithRefunds(p, v) ELSE v,
                       IF kind[p] = "feed" THEN "invoice" ELSE "credit")
    BY DEF Fetch
  <1>2. PICK v : v = IF kind[p] = "feed" /\ payments THEN WithTransactions(view[p]) ELSE view[p]
    OBVIOUS
  <1>3. PICK u : u = IF refunds THEN WithRefunds(p, v) ELSE v
    OBVIOUS
  <1>4. PICK l : l = IF kind[p] = "feed" THEN "invoice" ELSE "credit"
    OBVIOUS
  <1>5. Continue(p, u, l) /\ l \in Stages
    BY <1>1, <1>2, <1>3, <1>4 DEF Stages
  <1>6. view[p] \in Databases /\ Sound(view[p]) /\ sales \in [Txs -> Statuses]
    BY DEF PayInv, TypeOK
  <1>7. Develops(view[p], v) /\ Quiet(view[p], v)
    BY <1>2, <1>6, NothingDone, WithTransactionsDevelops
  <1>8. Develops(v, u) /\ Quiet(v, u)
    BY <1>3, <1>7, NothingDone, WithRefundsDevelops DEF Develops
  <1>9. Develops(view[p], u) /\ Quiet(view[p], u)
    BY <1>6, <1>7, <1>8, GrownOn DEF Develops, Quiet
  <1>10. Told
    BY DEF Fetch, ToCredit, Told, PayInv, TypeOK
  <1> QED
    BY <1>5, <1>9, <1>10, ContinueKeeps

LEMMA InvoiceKeeps == ASSUME PayInv, NEW p \in Procs, Invoice(p) PROVE PayInv'
  <1>1. view[p] \in Databases /\ Sound(view[p])
    BY DEF PayInv, TypeOK
  <1>2. Told
    BY DEF Invoice, Told, PayInv, TypeOK
  <1>3. CASE Commit(p, WithInvoice(view[p]), "pay")
    <2>1. PICK v : v = WithInvoice(view[p])
      OBVIOUS
    <2>2. Develops(view[p], v) /\ v.repaid = view[p].repaid
      BY <1>1, <2>1, WithInvoiceDevelops
    <2> QED
      BY <1>2, <1>3, <2>1, <2>2, CommitKeeps DEF Stages
  <1>4. CASE Continue(p, view[p], "pay")
    <2>1. PICK v : v = view[p]
      OBVIOUS
    <2> QED
      BY <1>1, <1>2, <1>4, <2>1, NothingDone, ContinueKeeps DEF Stages
  <1> QED
    BY <1>3, <1>4 DEF Invoice

LEMMA PayKeeps == ASSUME PayInv, NEW p \in Procs, Pay(p) PROVE PayInv'
  <1>1. view[p] \in Databases /\ Sound(view[p])
    BY DEF PayInv, TypeOK
  <1>2. Told
    BY DEF Pay, ToCredit, Told, PayInv, TypeOK
  <1>3. PICK S \in SUBSET Unpaid(view[p]) :
           /\ Payable(view[p], S)
           /\ \/ Commit(p, PaymentsOf(view[p], S), "idle")
              \/ Continue(p, PaymentsOf(view[p], S), "credit")
    BY DEF Pay
  <1>4. PICK v : v = PaymentsOf(view[p], S)
    OBVIOUS
  <1>5. Develops(view[p], v) /\ Quiet(view[p], v)
    BY <1>1, <1>3, <1>4, PaymentsDevelop
  <1>6. CASE Commit(p, v, "idle")
    BY <1>2, <1>5, <1>6, CommitKeeps DEF Stages, Quiet
  <1>7. CASE Continue(p, v, "credit")
    BY <1>2, <1>5, <1>7, ContinueKeeps DEF Stages
  <1> QED
    BY <1>3, <1>4, <1>6, <1>7

LEMMA CreditKeeps == ASSUME PayInv, NEW p \in Procs, Credit(p) PROVE PayInv'
  <1>1. view[p] \in Databases /\ Sound(view[p])
    BY DEF PayInv, TypeOK
  <1>2. PICK r \in todo[p] :
           /\ todo' = [todo EXCEPT ![p] = @ \ {r}]
           /\ IF MayCredit(view[p], r) THEN Commit(p, WithNote(view[p], r), "credit")
                                       ELSE Continue(p, view[p], "credit")
    BY DEF Credit
  <1>3. Told /\ r \in Refunds
    BY <1>2 DEF Credit, Told, PayInv, TypeOK
  <1>4. CASE MayCredit(view[p], r)
    <2>1. PICK v : v = WithNote(view[p], r)
      OBVIOUS
    <2>2. Develops(view[p], v) /\ v.repaid = view[p].repaid
      BY <1>1, <1>3, <1>4, <2>1, WithNoteDevelops
    <2> QED
      BY <1>2, <1>3, <1>4, <2>1, <2>2, CommitKeeps DEF Stages
  <1>5. CASE ~ MayCredit(view[p], r)
    <2>1. PICK v : v = view[p]
      OBVIOUS
    <2> QED
      BY <1>1, <1>2, <1>3, <1>5, <2>1, NothingDone, ContinueKeeps DEF Stages
  <1> QED
    BY <1>4, <1>5

LEMMA PayBackKeeps == ASSUME PayInv, NEW p \in Procs, PayBack(p) PROVE PayInv'
  <1>1. view[p] \in Databases /\ Sound(view[p])
    BY DEF PayInv, TypeOK
  <1>2. Told
    BY DEF PayBack, Told, PayInv, TypeOK
  <1>3. PICK S \in SUBSET Noted(view[p]) :
           Repayable(view[p], S) /\ Commit(p, PaidBack(view[p], S), "idle")
    BY DEF PayBack
  <1>4. PICK v : v = PaidBack(view[p], S)
    OBVIOUS
  <1>5. Develops(view[p], v) /\ Lines(v) = Lines(view[p])
    BY <1>1, <1>3, <1>4, PaidBackDevelops
  <1> QED
    BY <1>2, <1>3, <1>4, <1>5, CommitKeeps DEF Stages

LEMMA ShopifyKeeps ==
    ASSUME PayInv, \/ \E t \in Txs : Charge(t)
                   \/ \E r \in Refunds : Refund(r)
    PROVE  PayInv'
  <1>1. sales' \in [Txs -> Statuses] /\ refunded' \subseteq Refunds
    BY DEF PayInv, TypeOK, Charge, Refund, Statuses
  <1>2. UNCHANGED <<db, pc, kind, open, base, view, todo>>
    BY DEF Charge, Refund
  <1> QED
    BY <1>1, <1>2 DEF PayInv, TypeOK

LEMMA PayByHandKeeps == ASSUME PayInv, PayByHand PROVE PayInv'
  <1>1. PICK d : d = db
    OBVIOUS
  <1>2. d \in Databases /\ Sound(d) /\ Grown(d, d)
    BY <1>1, GrownSelf DEF PayInv, TypeOK
  <1> DEFINE u == [d EXCEPT !.byHand = TRUE]
  <1>3. /\ u \in Databases
        /\ u.invoices = d.invoices /\ u.paid = d.paid /\ u.byHand = TRUE
        /\ u.isInvoice = d.isInvoice /\ u.isRefund = d.isRefund
        /\ u.note = d.note /\ u.credits = d.credits /\ u.repaid = d.repaid /\ u.rows = d.rows
    BY <1>2 DEF Databases
  <1>4. db' = u /\ UNCHANGED <<sales, refunded, pc, kind, open, base, view, todo>>
    BY <1>1 DEF PayByHand
  <1> HIDE DEF u
  <1>5. Grown(d, u)
    BY <1>2, <1>3 DEF Grown
  <1>6. Flagged(u) = Flagged(d)
    BY <1>3 DEF Flagged
  <1>7. Disjoint(u) /\ Repaid(u) /\ Credited(u)
    BY <1>2, <1>3 DEF Sound, Disjoint, Repaid, Credited
  <1>8. Sound(u)
    BY <1>2, <1>3, <1>5, <1>6, <1>7, SettledGrows DEF Sound
  <1>9. TypeOK'
    BY <1>3, <1>4 DEF PayInv, TypeOK
  <1>10. \A q \in Procs : Grown(base[q], u)
    <2>1. \A q \in Procs : base[q] \in Databases /\ Grown(base[q], d)
      BY <1>1 DEF PayInv, TypeOK
    <2> QED
      BY <1>2, <1>3, <1>5, <2>1, GrownOn
  <1> QED
    BY <1>4, <1>8, <1>9, <1>10 DEF PayInv

LEMMA PayNextInv == ASSUME PayInv, [Next]_vars PROVE PayInv'
  <1>1. CASE Next
    BY <1>1, RequestKeeps, BeginKeeps, RollBackKeeps, FetchKeeps, InvoiceKeeps, PayKeeps,
       CreditKeeps, PayBackKeeps, ShopifyKeeps, PayByHandKeeps DEF Next
  <1>2. CASE UNCHANGED vars
    BY <1>2 DEF PayInv, TypeOK, vars
  <1> QED
    BY <1>1, <1>2

-----------------------------------------------------------------------------
(* What the invariant says about the committed rows.                       *)

LEMMA AlwaysPayInv == Spec => []PayInv
  BY PayInitInv, PayNextInv, PTL DEF Spec

(* Every variable keeps its type, whatever the requests do.                *)
THEOREM PaymentsTyped == Spec => []TypeOK
  <1>1. PayInv => TypeOK
    BY DEF PayInv
  <1> QED
    BY <1>1, AlwaysPayInv, PTL

(* However many requests process the order at a time, it has one invoice   *)
(* and each of its transactions is paid once: two of them cannot both      *)
(* commit (process_shopify_invoice, shopify_invoice_register_payments).    *)
THEOREM BilledOnceAlways == Spec => []BilledOnce
  <1>1. PayInv => BilledOnce
    BY DEF PayInv, Sound, BilledOnce, OneInvoice, SalePaidOnce
  <1> QED
    BY <1>1, AlwaysPayInv, PTL

(* A refund gives one credit note unless two requests inserted its rows at *)
(* the same time, and a note that its transaction settles is paid back     *)
(* once (process_shopify_credit_note).                                     *)
THEOREM RefundsOnce == Spec => []RefundedOnce
  <1>1. ASSUME PayInv PROVE OneCreditNote
    <2> SUFFICES ASSUME NEW r \in Refunds, Cardinality(db.rows[r]) <= 1 PROVE db.credits[r] <= 1
      BY DEF OneCreditNote
    <2>1. db \in Databases /\ Sound(db)
      BY <1>1 DEF PayInv, TypeOK
    <2>2. PICK rows \in SUBSET Procs : rows = db.rows[r]
      BY <2>1, Fields
    <2>3. IsFiniteSet(rows) /\ db.credits[r] \in Nat
      BY <2>1, AmountsAssumption, FS_Subset, Fields
    <2>4. ASSUME NEW q \in rows, NEW k \in rows, q # k PROVE FALSE
      <3>1. IsFiniteSet(rows \ {q}) /\ Cardinality(rows \ {q}) = Cardinality(rows) - 1
        BY <2>3, FS_RemoveElement
      <3>2. Cardinality(rows) \in Nat /\ Cardinality(rows \ {q}) \in Nat
        BY <2>3, <3>1, FS_CardinalityType
      <3>3. Cardinality(rows \ {q}) = 0
        BY <2>2, <3>1, <3>2
      <3> QED
        BY <2>4, <3>1, <3>3, FS_EmptySet
    <2> QED
      BY <2>1, <2>2, <2>3, <2>4 DEF Sound, Credited
  <1>2. ASSUME PayInv PROVE PaidBackOnce
    <2> SUFFICES ASSUME NEW r \in Refunds, NEW n \in Notes(db, r), NoteTotal(r) <= Amount[r]
                 PROVE  SumFunctionOnSet(db.repaid[r], n) <= 1
      BY DEF PaidBackOnce
    <2>1. db \in Databases /\ Sound(db)
      BY <1>2 DEF PayInv, TypeOK
    <2>2. n \in SUBSET Procs /\ \A k \in n : db.note[r][k] = n
      BY <2>1, Fields DEF Notes, Sound, Disjoint
    <2>3. IsFiniteSet(n)
      BY <2>2, AmountsAssumption, FS_Subset
    <2>4. PICK f : f = db.repaid[r]
      OBVIOUS
    <2>5. \A k \in n : f[k] \in Nat /\ (f[k] > 0 => f[k] = 1)
      BY <2>1, <2>2, <2>4, Fields DEF Sound, Repaid
    <2>6. \A k, q \in n : f[k] > 0 /\ f[q] > 0 => k = q
      BY <2>1, <2>2, <2>4 DEF Sound, Repaid
    <2>7. \A k \in n : f[k] \in Nat /\ f[k] <= 1
      BY <2>5
    <2> QED
      BY <2>3, <2>4, <2>6, <2>7, SumOfOne
  <1>3. PayInv => RefundedOnce
    BY <1>1, <1>2 DEF RefundedOnce
  <1> QED
    BY <1>3, AlwaysPayInv, PTL

(* Nothing is credited before the invoice is settled, and an order that is *)
(* flagged as invoiced or as refunded is settled.                         *)
THEOREM CreditsSettled == Spec => []CreditAfterSettlement
  <1>1. ASSUME PayInv PROVE CreditAfterSettlement
    <2>1. Sound(db)
      BY <1>1 DEF PayInv
    <2>2. (\A r \in Refunds, q \in Procs : db.note[r][q] = {}) =>
             \A r \in Refunds : Notes(db, r) = {}
      BY DEF Notes
    <2> QED
      BY <2>1, <2>2 DEF Sound, Flagged, CreditAfterSettlement
  <1> QED
    BY <1>1, AlwaysPayInv, PTL

-----------------------------------------------------------------------------
(* Documents in QuickBooks.                                                *)
Fielded(k) == k = [at |-> k.at, doc |-> k.doc, todo |-> k.todo, sees |-> k.sees,
                   own |-> k.own, taxes |-> k.taxes]

(* A request sees committed links, and has linked nothing else but the     *)
(* agency of a tax, to which no document refers; the taxes that it has     *)
(* collected are committed.                                                *)
GoodDesk(k, ids) ==
    /\ Fielded(k)
    /\ k.sees \subseteq ids /\ k.own \subseteq {"agency"}
    /\ k.taxes \in Seq(Levies)
    /\ \A j \in 1 .. Len(k.taxes) : k.taxes[j] \in ids

GoodCopies(copies, ids) ==
    \A copy \in copies :
        copy.refs \cup copy.taxes \subseteq ids /\ \A s, t \in copy.taxes : s = t

DocInv ==
    /\ paper \in Papers
    /\ desk = [w \in Desks |-> desk[w]] /\ \A w \in Desks : GoodDesk(desk[w], link)
    /\ GoodCopies(posted, link)

LEMMA Elements ==
    ASSUME NEW S, NEW q \in Seq(S)
    PROVE  \A n \in DOMAIN q : q[n] \in S
  OBVIOUS

(* Neighbours that are equal are all equal.                                *)
LEMMA AllTheSame ==
    ASSUME NEW S, NEW q \in Seq(S), SameTax(q)
    PROVE  \A s, t \in Range(q) : s = t
  <1> DEFINE Bad == {n \in 1 .. Len(q) : q[n] # q[1]}
  <1>1. Bad = {}
    <2> SUFFICES ASSUME Bad # {} PROVE FALSE
      OBVIOUS
    <2>1. PICK m \in Bad : \A k \in Bad : m <= k
      <3>1. Bad \in SUBSET Nat
        OBVIOUS
      <3> HIDE DEF Bad
      <3> QED
        BY <3>1, LeastNatural
    <2>2. m # 1 /\ m - 1 \in 1 .. Len(q) - 1 /\ Len(q) \in Nat
      BY <2>1
    <2>3. q[m - 1] = q[(m - 1) + 1] /\ (m - 1) + 1 = m
      BY <2>2 DEF SameTax
    <2>4. m - 1 \in 1 .. Len(q) /\ ~ (m <= m - 1)
      BY <2>2
    <2>5. q[m - 1] = q[1]
      BY <2>1, <2>4
    <2> QED
      BY <2>1, <2>3, <2>5
  <1>2. \A n \in 1 .. Len(q) : q[n] = q[1]
    BY <1>1
  <1>3. \A s \in Range(q) : \E n \in 1 .. Len(q) : s = q[n]
    BY DEF Range
  <1> QED
    BY <1>2, <1>3

LEMMA DeskFields ==
    ASSUME NEW k, Fielded(k), NEW x
    PROVE  /\ [k EXCEPT !.at = x] = [at |-> x, doc |-> k.doc, todo |-> k.todo, sees |-> k.sees,
                                     own |-> k.own, taxes |-> k.taxes]
           /\ [k EXCEPT !.doc = x] = [at |-> k.at, doc |-> x, todo |-> k.todo, sees |-> k.sees,
                                      own |-> k.own, taxes |-> k.taxes]
           /\ [k EXCEPT !.todo = x] = [at |-> k.at, doc |-> k.doc, todo |-> x, sees |-> k.sees,
                                       own |-> k.own, taxes |-> k.taxes]
           /\ [k EXCEPT !.sees = x] = [at |-> k.at, doc |-> k.doc, todo |-> k.todo, sees |-> x,
                                       own |-> k.own, taxes |-> k.taxes]
           /\ [k EXCEPT !.own = x] = [at |-> k.at, doc |-> k.doc, todo |-> k.todo, sees |-> k.sees,
                                      own |-> x, taxes |-> k.taxes]
  BY DEF Fielded

LEMMA AtWork ==
    ASSUME NEW t, NEW s
    PROVE  /\ [AtRest EXCEPT !.at = "prepare", !.doc = TRUE, !.todo = t, !.sees = s] =
                 [at |-> "prepare", doc |-> TRUE, todo |-> t, sees |-> s, own |-> {}, taxes |-> <<>>]
           /\ [AtRest EXCEPT !.at = "prepare", !.sees = s, !.todo = t] =
                 [at |-> "prepare", doc |-> FALSE, todo |-> t, sees |-> s, own |-> {}, taxes |-> <<>>]
  <1> DEFINE none == {}
             nil == <<>>
             r1 == [at |-> "prepare", doc |-> FALSE, todo |-> nil, sees |-> none, own |-> none,
                    taxes |-> nil]
             r2 == [at |-> "prepare", doc |-> TRUE, todo |-> nil, sees |-> none, own |-> none,
                    taxes |-> nil]
             r3 == [at |-> "prepare", doc |-> TRUE, todo |-> t, sees |-> none, own |-> none,
                    taxes |-> nil]
             r4 == [at |-> "prepare", doc |-> FALSE, todo |-> nil, sees |-> s, own |-> none,
                    taxes |-> nil]
  <1>1. AtRest = [at |-> "idle", doc |-> FALSE, todo |-> nil, sees |-> none, own |-> none,
                  taxes |-> nil]
    BY DEF AtRest
  <1> HIDE DEF none, nil
  <1>2. Fielded(AtRest) /\ Fielded(r1) /\ Fielded(r2) /\ Fielded(r3) /\ Fielded(r4)
    BY <1>1 DEF Fielded
  <1>3. [AtRest EXCEPT !.at = "prepare"] = r1
    <2>1. /\ AtRest.doc = FALSE /\ AtRest.todo = nil /\ AtRest.sees = none
          /\ AtRest.own = none /\ AtRest.taxes = nil
      BY <1>1
    <2>2. [AtRest EXCEPT !.at = "prepare"] =
           [at |-> "prepare", doc |-> AtRest.doc, todo |-> AtRest.todo, sees |-> AtRest.sees,
            own |-> AtRest.own, taxes |-> AtRest.taxes]
      BY <1>2, DeskFields
    <2> QED
      BY <2>1, <2>2
  <1>4. /\ r1.at = "prepare" /\ r1.doc = FALSE /\ r1.todo = nil
        /\ r1.sees = none /\ r1.own = none /\ r1.taxes = nil
    OBVIOUS
  <1>5. /\ r2.at = "prepare" /\ r2.doc = TRUE /\ r2.todo = nil
        /\ r2.sees = none /\ r2.own = none /\ r2.taxes = nil
    OBVIOUS
  <1>6. /\ r3.at = "prepare" /\ r3.doc = TRUE /\ r3.todo = t
        /\ r3.sees = none /\ r3.own = none /\ r3.taxes = nil
    OBVIOUS
  <1>7. /\ r4.at = "prepare" /\ r4.doc = FALSE /\ r4.todo = nil
        /\ r4.sees = s /\ r4.own = none /\ r4.taxes = nil
    OBVIOUS
  <1>8. /\ [AtRest EXCEPT !.at = "prepare", !.doc = TRUE, !.todo = t, !.sees = s] =
              [[[r1 EXCEPT !.doc = TRUE] EXCEPT !.todo = t] EXCEPT !.sees = s]
        /\ [AtRest EXCEPT !.at = "prepare", !.sees = s, !.todo = t] =
              [[r1 EXCEPT !.sees = s] EXCEPT !.todo = t]
    <2> HIDE DEF r1
    <2> QED
      BY <1>3
  <1>9. [r1 EXCEPT !.doc = TRUE] = r2
    <2> HIDE DEF r1
    <2>1. [r1 EXCEPT !.doc = TRUE] =
           [at |-> r1.at, doc |-> TRUE, todo |-> r1.todo, sees |-> r1.sees,
            own |-> r1.own, taxes |-> r1.taxes]
      BY <1>2, DeskFields
    <2> QED
      BY <1>4, <2>1
  <1>10. [r1 EXCEPT !.sees = s] = r4
    <2> HIDE DEF r1
    <2>1. [r1 EXCEPT !.sees = s] =
           [at |-> r1.at, doc |-> r1.doc, todo |-> r1.todo, sees |-> s,
            own |-> r1.own, taxes |-> r1.taxes]
      BY <1>2, DeskFields
    <2> QED
      BY <1>4, <2>1
  <1>11. [r2 EXCEPT !.todo = t] = r3
    <2> HIDE DEF r2
    <2>1. [r2 EXCEPT !.todo = t] =
           [at |-> r2.at, doc |-> r2.doc, todo |-> t, sees |-> r2.sees,
            own |-> r2.own, taxes |-> r2.taxes]
      BY <1>2, DeskFields
    <2> QED
      BY <1>5, <2>1
  <1>12. [r3 EXCEPT !.sees = s] =
           [at |-> "prepare", doc |-> TRUE, todo |-> t, sees |-> s, own |-> none, taxes |-> nil]
    <2> HIDE DEF r3
    <2>1. [r3 EXCEPT !.sees = s] =
           [at |-> r3.at, doc |-> r3.doc, todo |-> r3.todo, sees |-> s,
            own |-> r3.own, taxes |-> r3.taxes]
      BY <1>2, DeskFields
    <2> QED
      BY <1>6, <2>1
  <1>13. [r4 EXCEPT !.todo = t] =
           [at |-> "prepare", doc |-> FALSE, todo |-> t, sees |-> s, own |-> none, taxes |-> nil]
    <2> HIDE DEF r4
    <2>1. [r4 EXCEPT !.todo = t] =
           [at |-> r4.at, doc |-> r4.doc, todo |-> t, sees |-> r4.sees,
            own |-> r4.own, taxes |-> r4.taxes]
      BY <1>2, DeskFields
    <2> QED
      BY <1>7, <2>1
  <1> HIDE DEF r1, r2, r3, r4
  <1> QED
    BY <1>8, <1>9, <1>10, <1>11, <1>12, <1>13 DEF none, nil

LEMMA RestGood ==
    ASSUME NEW ids
    PROVE  GoodDesk(AtRest, ids) /\ AtRest.own = {} /\ AtRest.taxes = <<>>
  BY DEF GoodDesk, Fielded, AtRest

(* What one request does at its desk leaves the others as they are.        *)
LEMMA DeskMoves ==
    ASSUME DocInv, NEW w \in Desks, NEW r, NEW ids, link \subseteq ids, link' = ids,
           GoodDesk(r, ids), Put(w, r), GoodCopies(posted', ids), UNCHANGED paper
    PROVE  DocInv'
  <1>1. desk' = [desk EXCEPT ![w] = r] /\ desk = [v \in Desks |-> desk[v]]
    BY DEF Put, DocInv
  <1>2. desk' = [v \in Desks |-> desk'[v]] /\ desk'[w] = r
        /\ \A v \in Desks : v # w => desk'[v] = desk[v]
    BY <1>1
  <1>3. ASSUME NEW v \in Desks PROVE GoodDesk(desk'[v], ids)
    <2>1. GoodDesk(desk[v], link)
      BY DEF DocInv
    <2>2. GoodDesk(desk[v], ids)
      BY <2>1 DEF GoodDesk
    <2> QED
      BY <1>2, <2>2
  <1> QED
    BY <1>2, <1>3 DEF DocInv

LEMMA DeskCommits ==
    ASSUME DocInv, NEW w \in Desks, NEW own, NEW new, CommitDesk(w, own, new),
           GoodDesk(new, link \cup own), UNCHANGED <<paper, posted>>
    PROVE  DocInv'
  <1>1. PICK ids : ids = link \cup own
    OBVIOUS
  <1>2. link' = ids /\ link \subseteq ids
    BY <1>1 DEF CommitDesk
  <1> DEFINE kept == [new EXCEPT !.sees = ids, !.own = {}]
  <1>3. GoodDesk(kept, ids)
    <2> DEFINE seeing == [new EXCEPT !.sees = ids]
               none == {}
    <2>1. seeing = [at |-> new.at, doc |-> new.doc, todo |-> new.todo, sees |-> ids,
                    own |-> new.own, taxes |-> new.taxes]
      BY DeskFields DEF GoodDesk
    <2>2. kept = [seeing EXCEPT !.own = none]
      OBVIOUS
    <2> HIDE DEF kept, seeing, none
    <2>3. Fielded(seeing) /\ seeing.sees = ids /\ seeing.taxes = new.taxes
      BY <2>1 DEF Fielded
    <2>4. kept = [at |-> seeing.at, doc |-> seeing.doc, todo |-> seeing.todo,
                  sees |-> seeing.sees, own |-> none, taxes |-> seeing.taxes]
      BY <2>2, <2>3, DeskFields
    <2> QED
      BY <1>1, <2>3, <2>4 DEF GoodDesk, Fielded, none
  <1>4. GoodCopies(posted', ids)
    BY <1>2 DEF DocInv, GoodCopies
  <1>5. Put(w, AtRest) \/ Put(w, kept)
    BY <1>2 DEF CommitDesk, Put
  <1> HIDE DEF kept
  <1> QED
    BY <1>2, <1>3, <1>4, <1>5, RestGood, DeskMoves

LEMMA DemandMet ==
    ASSUME DocInv, NEW w \in Desks, NEW ids, link \subseteq ids,
           Next1(w).of \in Levies => Next1(w).of \in ids
    PROVE  GoodDesk(Done(w), ids) /\ Done(w).own = desk[w].own
  <1>1. PICK k : k = desk[w]
    OBVIOUS
  <1>2. GoodDesk(k, link)
    BY <1>1 DEF DocInv
  <1> DEFINE m == Next1(w).of
             t == IF m \in Levies THEN Append(k.taxes, m) ELSE k.taxes
  <1>3. t \in Seq(Levies) /\ \A j \in 1 .. Len(t) : t[j] \in ids
    BY <1>2 DEF GoodDesk
  <1>4. Done(w) = [k EXCEPT !.at = "prepare", !.todo = Tail(@), !.taxes = t]
    BY <1>1, <1>2 DEF Done, GoodDesk, Fielded
  <1> HIDE DEF t
  <1> QED
    BY <1>1, <1>2, <1>3, <1>4 DEF GoodDesk, Fielded

LEMMA DocStep == DocInv /\ [DocNext]_docvars => DocInv'
  <1> SUFFICES ASSUME DocInv, [DocNext]_docvars PROVE DocInv'
    OBVIOUS
  <1>0. /\ Others \cap (Goods \cup Ledgers \cup Levies) = {}
        /\ {"client", "origin", "agency", "document"} = Others
    BY PapersAssumption DEF Others
  <1>1. CASE UNCHANGED docvars
    <2>1. UNCHANGED <<paper, link, posted, desk>>
      BY <1>1 DEF docvars
    <2> QED
      BY <2>1 DEF DocInv, GoodDesk, GoodCopies, Fielded
  <1> SUFFICES ASSUME NEW w \in Desks,
                      \/ BeginDocument(w) \/ \E b \in Batches : BeginRecords(w, b)
                      \/ Linked(w) \/ FindRecord(w) \/ Precede(w) \/ PostRecord(w)
                      \/ StoreRecord(w) \/ PassOver(w) \/ EndRecords(w) \/ PostDocument(w)
                      \/ StoreDocument(w) \/ LoseDesk(w)
               PROVE  DocInv'
    BY <1>1 DEF DocNext
  <1> DEFINE k == desk[w]
             m == Next1(w).of
  <1>2. GoodDesk(k, link) /\ GoodCopies(posted, link) /\ k.own \subseteq {"agency"}
    BY DEF DocInv, GoodDesk
  <1>3. CASE BeginDocument(w)
    <2> DEFINE r == [AtRest EXCEPT !.at = "prepare", !.doc = TRUE, !.todo = Demands(paper),
                                   !.sees = link]
    <2>1. GoodDesk(r, link)
      <3>1. r = [at |-> "prepare", doc |-> TRUE, todo |-> Demands(paper), sees |-> link,
                 own |-> {}, taxes |-> <<>>]
        BY AtWork
      <3> HIDE DEF r
      <3> QED
        BY <3>1 DEF GoodDesk, Fielded
    <2>2. Put(w, r) /\ UNCHANGED <<paper, link, posted>>
      BY <1>3 DEF BeginDocument
    <2> HIDE DEF r
    <2> QED
      BY <1>2, <2>1, <2>2, DeskMoves
  <1>4. CASE \E b \in Batches : BeginRecords(w, b)
    <2>1. PICK b \in Batches : BeginRecords(w, b)
      BY <1>4
    <2> DEFINE r == [AtRest EXCEPT !.at = "prepare", !.sees = link,
                                   !.todo = [n \in DOMAIN b |-> Demand("export", b[n])]]
    <2>2. GoodDesk(r, link)
      <3>1. r = [at |-> "prepare", doc |-> FALSE,
                 todo |-> [n \in DOMAIN b |-> Demand("export", b[n])], sees |-> link,
                 own |-> {}, taxes |-> <<>>]
        BY AtWork
      <3> HIDE DEF r
      <3> QED
        BY <3>1 DEF GoodDesk, Fielded
    <2>3. Put(w, r) /\ UNCHANGED <<paper, link, posted>>
      BY <2>1 DEF BeginRecords
    <2> HIDE DEF r
    <2> QED
      BY <1>2, <2>2, <2>3, DeskMoves
  <1>5. CASE Linked(w)
    <2>1. m \in View(w) /\ Put(w, Done(w)) /\ UNCHANGED <<paper, link, posted>>
      BY <1>5 DEF Linked
    <2>2. m \in Levies => m \in link
      BY <1>0, <1>2, <2>1 DEF View, GoodDesk
    <2>3. GoodDesk(Done(w), link)
      BY <2>2, DemandMet
    <2> QED
      BY <1>2, <2>1, <2>3, DeskMoves
  <1>6. CASE FindRecord(w)
    <2> DEFINE own == k.own \cup {m}
               new == IF k.doc THEN Done(w) ELSE [Done(w) EXCEPT !.todo = <<>>]
    <2>1. CommitDesk(w, own, new) /\ UNCHANGED <<paper, posted>>
      BY <1>6 DEF FindRecord
    <2>2. GoodDesk(Done(w), link \cup own)
      BY DemandMet
    <2>3. GoodDesk(new, link \cup own)
      BY <2>2 DEF GoodDesk, Fielded
    <2> HIDE DEF own, new
    <2> QED
      BY <2>1, <2>3, DeskCommits
  <1>7. CASE Precede(w)
    <2>1. PICK before : Put(w, [desk[w] EXCEPT !.todo = <<Demand("export", before)>> \o @])
                        /\ UNCHANGED <<paper, link, posted>>
      BY <1>7 DEF Precede
    <2> DEFINE r == [k EXCEPT !.todo = <<Demand("export", before)>> \o @]
    <2>2. GoodDesk(r, link)
      <3>1. r = [at |-> k.at, doc |-> k.doc, todo |-> <<Demand("export", before)>> \o k.todo,
                 sees |-> k.sees, own |-> k.own, taxes |-> k.taxes]
        BY <1>2, DeskFields DEF GoodDesk
      <3> HIDE DEF r
      <3> QED
        BY <1>2, <3>1 DEF GoodDesk, Fielded
    <2> HIDE DEF r
    <2> QED
      BY <1>2, <2>1, <2>2, DeskMoves DEF r
  <1>8. CASE PostRecord(w)
    <2> DEFINE r == [k EXCEPT !.at = "store"]
    <2>1. Put(w, r) /\ UNCHANGED <<paper, link, posted>>
      BY <1>8 DEF PostRecord
    <2>2. GoodDesk(r, link)
      BY <1>2 DEF GoodDesk, Fielded
    <2> HIDE DEF r
    <2> QED
      BY <1>2, <2>1, <2>2, DeskMoves
  <1>9. CASE StoreRecord(w) /\ m \in Uncommitted
    <2> DEFINE r == [Done(w) EXCEPT !.own = @ \cup {m}]
    <2>1. Put(w, r) /\ UNCHANGED <<paper, link, posted>>
      BY <1>9 DEF StoreRecord
    <2>2. m = "agency" /\ m \notin Levies
      BY <1>0, <1>9 DEF Uncommitted
    <2>3. GoodDesk(Done(w), link)
      BY <2>2, DemandMet
    <2>4. GoodDesk(r, link)
      <3> DEFINE e == Done(w)
      <3>1. r = [at |-> e.at, doc |-> e.doc, todo |-> e.todo, sees |-> e.sees,
                 own |-> e.own \cup {m}, taxes |-> e.taxes]
        BY <2>3, DeskFields DEF GoodDesk
      <3> HIDE DEF r
      <3> QED
        BY <2>2, <2>3, <3>1 DEF GoodDesk, Fielded
    <2> HIDE DEF r
    <2> QED
      BY <1>2, <2>1, <2>4, DeskMoves
  <1>10. CASE StoreRecord(w) /\ m \notin Uncommitted
    <2> DEFINE own == k.own \cup {m}
               new == IF Next1(w).what = "refuse" THEN AtRest ELSE Done(w)
    <2>1. CommitDesk(w, own, new) /\ UNCHANGED <<paper, posted>>
      BY <1>10 DEF StoreRecord
    <2>2. GoodDesk(Done(w), link \cup own)
      BY DemandMet
    <2>3. GoodDesk(new, link \cup own)
      BY <2>2, RestGood
    <2> HIDE DEF own, new
    <2> QED
      BY <2>1, <2>3, DeskCommits
  <1>11. CASE PassOver(w)
    <2> DEFINE r == [k EXCEPT !.todo = Tail(@)]
    <2>1. Put(w, r) /\ UNCHANGED <<paper, link, posted>>
      BY <1>11 DEF PassOver
    <2>2. GoodDesk(r, link)
      <3>1. r = [at |-> k.at, doc |-> k.doc, todo |-> Tail(k.todo), sees |-> k.sees,
                 own |-> k.own, taxes |-> k.taxes]
        BY <1>2, DeskFields DEF GoodDesk
      <3> HIDE DEF r
      <3> QED
        BY <1>2, <3>1 DEF GoodDesk, Fielded
    <2> HIDE DEF r
    <2> QED
      BY <1>2, <2>1, <2>2, DeskMoves
  <1>12. CASE EndRecords(w)
    <2>1. CommitDesk(w, k.own, AtRest) /\ UNCHANGED <<paper, posted>>
      BY <1>12 DEF EndRecords
    <2> QED
      BY <2>1, RestGood, DeskCommits
  <1>13. CASE PostDocument(w)
    <2> DEFINE r == [k EXCEPT !.at = "posted"]
               copy == [refs |-> Refers \cap View(w), taxes |-> Range(k.taxes)]
    <2>1. Put(w, r) /\ UNCHANGED <<paper, link>> /\ posted' = posted \cup {copy}
          /\ SameTax(k.taxes)
      BY <1>13 DEF PostDocument
    <2>2. GoodDesk(r, link)
      BY <1>2 DEF GoodDesk, Fielded
    <2>3. "agency" \notin Refers
      <3>1. /\ paper.lines \in Seq([item : Goods, tax : Levies \cup {NoLevy}])
            /\ paper.accounts \in Seq(Ledgers)
        BY PapersAssumption DEF DocInv
      <3>2. LinesHave \subseteq Goods
        <4>1. \A n \in DOMAIN paper.lines :
                 paper.lines[n] \in [item : Goods, tax : Levies \cup {NoLevy}]
          BY <3>1, Elements
        <4>2. \A n \in DOMAIN paper.lines : paper.lines[n].item \in Goods
          BY <4>1
        <4> QED
          BY <4>2 DEF LinesHave
      <3>3. Range(paper.accounts) \subseteq Ledgers
        BY <3>1 DEF Range
      <3> QED
        BY <1>0, <3>2, <3>3 DEF Refers
    <2>4. copy.refs \subseteq link
      BY <1>2, <2>3 DEF View, GoodDesk
    <2>5. k.taxes \in Seq(Levies) /\ \A j \in 1 .. Len(k.taxes) : k.taxes[j] \in link
      BY <1>2 DEF GoodDesk
    <2>6. copy.taxes \subseteq link
      BY <2>5 DEF Range
    <2>7. \A s, t \in copy.taxes : s = t
      BY <2>1, <2>5, AllTheSame
    <2> HIDE DEF r, copy
    <2>8. GoodCopies(posted', link)
      BY <1>2, <2>1, <2>4, <2>6, <2>7 DEF GoodCopies
    <2> QED
      BY <2>1, <2>2, <2>8, DeskMoves
  <1>14. CASE StoreDocument(w)
    <2>1. CommitDesk(w, k.own \cup {"document"}, AtRest) /\ UNCHANGED <<paper, posted>>
      BY <1>14 DEF StoreDocument
    <2> QED
      BY <2>1, RestGood, DeskCommits
  <1>15. CASE LoseDesk(w)
    BY <1>2, <1>15, RestGood, DeskMoves DEF LoseDesk
  <1> QED
    BY <1>3, <1>4, <1>5, <1>6, <1>7, <1>8, <1>9, <1>10, <1>11, <1>12, <1>13, <1>14, <1>15

(* A document in QuickBooks refers only to records whose ids are committed *)
(* in Odoo, and its taxed lines have the one tax it names: for all         *)
(* documents, records and requests.                                        *)
THEOREM DocumentsRight == DocSpec => []QbDocuments
  <1>1. DocInit => DocInv
    BY RestGood DEF DocInit, DocInv, GoodCopies
  <1>2. DocInv => QbDocuments
    BY DEF DocInv, GoodCopies, QbDocuments, RefsKnown, OneTax
  <1> QED
    BY <1>1, <1>2, DocStep, PTL DEF DocSpec

-----------------------------------------------------------------------------
(* Partners in QuickBooks.                                                 *)

LinkRow == [customer : DisplayNames \cup {NoName}, vendor : DisplayNames \cup {NoName}, exported : BOOLEAN]
LinkRows == [Contacts -> LinkRow]
CallRecord == [at : {"idle", "export", "parent", "own", "more"}, partner : Contacts \cup {NoContact},
               todo : Seq(Lists), answer : DisplayNames \cup {NoName},
               rows : LinkRows \cup {<<>>}, base : LinkRows \cup {<<>>}]
Catalogue == [DisplayNames -> Lists \cup {"free", "other"}]

(* The names that are taken keep what has taken them, links are kept.      *)
Taken(ls, now) == \A n \in DisplayNames : ls[n] # "free" => now[n] = ls[n]
Kept(cs, now) ==
    \A p \in Contacts : /\ cs[p].customer # NoName => now[p].customer # NoName
                        /\ cs[p].vendor # NoName => now[p].vendor # NoName

(* What a row tells of p is true.                                          *)
TrueRow(p, row, ls) ==
    OneRank(p) =>
        /\ row.customer # NoName => row.customer = book.name[p] /\ ls[book.name[p]] = "customer"
        /\ row.vendor # NoName => row.vendor = book.name[p] /\ ls[book.name[p]] \in {"vendor", "customer"}

Single(p) == OneRank(p) /\ Family(p) = {p}
FlagTold(p, row) ==
    /\ row.exported /\ Single(p) /\ (\A q \in Contacts : book.name[q] = book.given[p] => q = p)
    => IF Role(p) = "customer" THEN row.customer # NoName ELSE row.vendor # NoName

(* The partners whose next export makes up for a lost one.                 *)
MadeUp(p) == /\ Role(p) = "customer" /\ Single(p) /\ book.given[p] = book.name[p]
             /\ \A q \in Contacts \ {p} : book.name[q] # book.name[p]

DataOf(k) == IF k.at = "parent" THEN book.parent[k.partner] ELSE k.partner

(* What a request has sent was taken under the name, in a list of a rank   *)
(* of its partner; with one rank nothing is left to be sent after that.    *)
GoodSends(k, ls) ==
    /\ k.at = "parent" => book.parent[k.partner] \in Contacts
    /\ \A i \in 1 .. Len(k.todo) : k.partner \in Ranked(k.todo[i])
    /\ OneRank(k.partner) => k.todo = <<>> \/ (k.answer = NoName /\ Len(k.todo) = 1)
    /\ k.answer # NoName =>
          /\ k.answer = book.name[DataOf(k)]
          /\ \E l \in Lists : k.partner \in Ranked(l) /\ ls[book.name[DataOf(k)]] = l

GoodLinks(k, cs, ls) ==
    /\ k.partner \in Contacts /\ k.rows \in LinkRows /\ k.base \in LinkRows
    /\ Kept(k.base, k.rows) /\ Kept(k.base, cs)
    /\ \A p \in Contacts :
          /\ TrueRow(p, k.rows[p], ls)
          /\ FlagTold(p, k.rows[p]) \/ (k.at = "own" /\ k.answer # NoName /\ p = k.partner)

GoodEnd(k) ==
    k.at = "more" \/ (k.at = "own" /\ k.todo = <<>> /\ k.answer = NoName)
        => (MadeUp(k.partner) => k.rows[k.partner].customer # NoName)

GoodCall(k, cs, ls) ==
    /\ k \in CallRecord
    /\ k.at # "idle" => GoodLinks(k, cs, ls) /\ GoodEnd(k)
    /\ k.at \in {"parent", "own"} => GoodSends(k, ls)

GoodRows(cs, ls) ==
    /\ cs \in LinkRows /\ ls \in Catalogue
    /\ \A p \in Contacts : TrueRow(p, cs[p], ls) /\ FlagTold(p, cs[p])

PartnersInv ==
    /\ book \in AddressBooks /\ GoodRows(contact, listed)
    /\ call \in [Clerks -> CallRecord]
    /\ \A c \in Clerks : GoodCall(call[c], contact, listed)

(* What the address book says.                                             *)
LEMMA BookFacts ==
    ASSUME book \in AddressBooks
    PROVE  /\ NoContact \notin Contacts /\ NoName \notin DisplayNames
           /\ book.parent \in [Contacts -> Contacts \cup {NoContact}]
           /\ book.name \in [Contacts -> DisplayNames] /\ book.given \in [Contacts -> DisplayNames \cup {NoName}]
           /\ book.customer \cup book.supplier = Contacts
           /\ \A p \in Contacts : book.parent[p] # p
           /\ \A p \in Contacts : p \notin book.customer => p \in book.supplier
  BY BooksAssumption DEF AddressBook

LEMMA BookStays ==
    ASSUME book' = book, book \in AddressBooks, GoodRows(contact', listed'),
           call' \in [Clerks -> CallRecord], \A c \in Clerks : GoodCall(call'[c], contact', listed')
    PROVE  PartnersInv'
  BY DEF PartnersInv, GoodRows, GoodCall, GoodLinks, GoodEnd, GoodSends, DataOf, TrueRow, FlagTold,
         MadeUp, Single, OneRank, Family, Children, Ranked, Other, Role

(* Of two ranks p has one.                                                 *)
LEMMA Ranks ==
    ASSUME book \in AddressBooks, NEW p \in Contacts
    PROVE  /\ Role(p) \in Lists /\ p \in Ranked(Role(p))
           /\ Ranked("customer") = book.customer /\ Ranked("vendor") = book.supplier
           /\ OneRank(p) => \A q \in Family(p) : \A l \in Lists : q \in Ranked(l) => l = Role(p)
           /\ OneRank(p) /\ p \in book.customer => Role(p) = "customer" /\ p \notin book.supplier
           /\ OneRank(p) /\ p \in book.supplier => Role(p) = "vendor" /\ p \notin book.customer
  BY BookFacts DEF Role, Ranked, Lists, OneRank, Family, Other

(* What is sent for p.                                                     *)
LEMMA SentTo ==
    ASSUME book \in AddressBooks, NEW p \in Contacts
    PROVE  /\ SendTo(p) \in Seq(Lists) /\ SendTo(p) # <<>>
           /\ \A i \in 1 .. Len(SendTo(p)) : p \in Ranked(SendTo(p)[i])
           /\ OneRank(p) => Len(SendTo(p)) = 1
  <1>1. /\ "customer" \in Lists /\ "vendor" \in Lists
        /\ Ranked("customer") = book.customer /\ Ranked("vendor") = book.supplier
    BY DEF Lists, Ranked
  <1>2. CASE p \notin book.customer
    <2>1. SendTo(p) = <<"vendor">> /\ p \in book.supplier
      BY <1>2, BookFacts DEF SendTo
    <2> QED
      BY <1>1, <2>1
  <1>3. CASE p \in book.customer /\ p \notin book.supplier
    <2>1. SendTo(p) = <<"customer">>
      BY <1>3 DEF SendTo
    <2> QED
      BY <1>1, <1>3, <2>1
  <1>4. CASE p \in book.customer /\ p \in book.supplier
    <2>1. SendTo(p) = <<"customer", "vendor">>
      BY <1>4 DEF SendTo
    <2>2. ~ OneRank(p)
      BY <1>4, Ranks
    <2> QED
      BY <1>1, <1>4, <2>1, <2>2
  <1> QED
    BY <1>2, <1>3, <1>4

(* The relations.                                                          *)
LEMMA KeptOn ==
    ASSUME NEW a, NEW b, NEW c, Kept(a, b), Kept(b, c)
    PROVE  Kept(a, c)
  BY DEF Kept

(* Nobody is hurt by what others do.                                       *)
LEMMA OthersGood ==
    ASSUME book \in AddressBooks, NEW k, NEW cs, NEW now, NEW ls \in Catalogue, NEW lnow \in Catalogue,
           GoodCall(k, cs, ls), Kept(cs, now), Taken(ls, lnow)
    PROVE  GoodCall(k, now, lnow)
  <1>1. \A p \in Contacts : book.name[p] \in DisplayNames
    BY BookFacts
  <1>2. k.at # "idle" => GoodLinks(k, now, lnow)
    <2> SUFFICES ASSUME k.at # "idle" PROVE GoodLinks(k, now, lnow)
      OBVIOUS
    <2>1. GoodLinks(k, cs, ls)
      BY DEF GoodCall
    <2>2. \A p \in Contacts : TrueRow(p, k.rows[p], ls) => TrueRow(p, k.rows[p], lnow)
      BY <1>1 DEF TrueRow, Taken
    <2>3. Kept(k.base, now)
      BY <2>1, KeptOn DEF GoodLinks
    <2> QED
      BY <2>1, <2>2, <2>3 DEF GoodLinks
  <1>3. k.at \in {"parent", "own"} => GoodSends(k, lnow)
    <2> SUFFICES ASSUME k.at \in {"parent", "own"} PROVE GoodSends(k, lnow)
      OBVIOUS
    <2>1. GoodSends(k, ls) /\ GoodLinks(k, cs, ls)
      BY DEF GoodCall
    <2>2. DataOf(k) \in Contacts
      BY <2>1 DEF DataOf, GoodSends, GoodLinks
    <2>3. \A l \in Lists : ls[book.name[DataOf(k)]] = l => lnow[book.name[DataOf(k)]] = l
      BY <1>1, <2>2 DEF Taken, Lists
    <2> QED
      BY <2>1, <2>3 DEF GoodSends
  <1> QED
    BY <1>2, <1>3 DEF GoodCall

(* A request goes on to new without a commit.                              *)
LEMMA Goes ==
    ASSUME PartnersInv, NEW c \in Clerks, NEW new, Go(c, new), listed' \in Catalogue,
           Taken(listed, listed'), GoodCall(new, contact, listed')
    PROVE  PartnersInv'
  <1>1. book' = book /\ contact' = contact /\ book \in AddressBooks /\ listed \in Catalogue
    BY DEF Go, PartnersInv, GoodRows
  <1>2. call' = [call EXCEPT ![c] = new] /\ call \in [Clerks -> CallRecord] /\ new \in CallRecord
    BY DEF Go, PartnersInv, GoodCall
  <1>3. Kept(contact, contact)
    BY DEF Kept
  <1>4. \A d \in Clerks : GoodCall(call'[d], contact', listed')
    <2> TAKE d \in Clerks
    <2>1. CASE d = c
      BY <1>1, <1>2, <2>1
    <2>2. CASE d # c
      <3>1. call'[d] = call[d] /\ GoodCall(call[d], contact, listed)
        BY <1>2, <2>2 DEF PartnersInv
      <3> HIDE DEF Taken
      <3> QED
        BY <1>1, <1>3, <3>1, OthersGood
    <2> QED
      BY <2>1, <2>2
  <1>5. GoodRows(contact', listed')
    <2>1. \A p \in Contacts : book.name[p] \in DisplayNames
      BY <1>1, BookFacts
    <2>2. \A p \in Contacts : TrueRow(p, contact[p], listed) => TrueRow(p, contact[p], listed')
      BY <2>1 DEF TrueRow, Taken
    <2> QED
      BY <1>1, <2>2 DEF PartnersInv, GoodRows
  <1>6. call' \in [Clerks -> CallRecord]
    BY <1>2
  <1> QED
    BY <1>1, <1>4, <1>5, <1>6, BookStays

(* What others have committed and the request has not changed stays.       *)
LEMMA LinksKept ==
    ASSUME PartnersInv, NEW c \in Clerks, call[c].at # "idle", NEW rows \in LinkRows, NEW ls \in Catalogue,
           Taken(listed, ls), Kept(call[c].base, rows), CanCommit(c, rows),
           \A p \in Contacts : TrueRow(p, rows[p], ls) /\ FlagTold(p, rows[p])
    PROVE  /\ GoodRows(LinksWith(c, rows), ls)
           /\ Kept(contact, LinksWith(c, rows)) /\ Kept(rows, LinksWith(c, rows))
  <1> DEFINE now == LinksWith(c, rows)
             saw  == call[c].base
  <1>1. GoodLinks(call[c], contact, listed) /\ contact \in LinkRows /\ book \in AddressBooks
    BY DEF PartnersInv, GoodCall, GoodRows
  <1>2. \A p \in Contacts : \/ now[p] = rows[p] /\ contact[p] = saw[p]
                            \/ now[p] = contact[p] /\ rows[p] = saw[p]
    BY DEF LinksWith, Dirty, CanCommit
  <1>3. now \in LinkRows
    BY <1>1 DEF LinksWith, LinkRows
  <1>4. \A p \in Contacts : book.name[p] \in DisplayNames
    BY <1>1, BookFacts
  <1>5. \A p \in Contacts : TrueRow(p, contact[p], ls) /\ FlagTold(p, contact[p])
    <2>1. \A p \in Contacts : TrueRow(p, contact[p], listed) => TrueRow(p, contact[p], ls)
      BY <1>4 DEF TrueRow, Taken
    <2> QED
      BY <2>1 DEF PartnersInv, GoodRows
  <1>6. Kept(saw, contact) /\ Kept(saw, rows)
    BY <1>1 DEF GoodLinks
  <1> HIDE DEF now, saw
  <1>7. Kept(contact, now) /\ Kept(rows, now)
    BY <1>2, <1>6 DEF Kept
  <1>8. GoodRows(now, ls)
    BY <1>2, <1>3, <1>5 DEF GoodRows
  <1> QED
    BY <1>7, <1>8 DEF now

(* A request commits rows and goes on to new, or ends.                     *)
LEMMA Commits ==
    ASSUME PartnersInv, NEW c \in Clerks, call[c].at # "idle", NEW rows \in LinkRows, NEW new \in CallRecord,
           CommitAndGo(c, rows, new), listed' \in Catalogue, Taken(listed, listed'),
           Kept(call[c].base, rows),
           \A p \in Contacts : TrueRow(p, rows[p], listed') /\ FlagTold(p, rows[p]),
           new # NoCall =>
              /\ new.partner \in Contacts
              /\ new.at \in {"parent", "own"} => GoodSends(new, listed')
              /\ new.at = "more" \/ (new.at = "own" /\ new.todo = <<>> /\ new.answer = NoName)
                    => (MadeUp(new.partner) => rows[new.partner].customer # NoName)
    PROVE  PartnersInv'
  <1> DEFINE now == LinksWith(c, rows)
             r1 == [new EXCEPT !.rows = now]
             r2 == [r1 EXCEPT !.base = now]
             then == IF new = NoCall THEN NoCall ELSE r2
  <1>1. book' = book /\ contact' = now /\ book \in AddressBooks /\ listed \in Catalogue
        /\ CanCommit(c, rows)
    BY DEF CommitAndGo, PartnersInv, GoodRows
  <1>2. call' = [call EXCEPT ![c] = then]
    <2>1. [new EXCEPT !.rows = contact', !.base = contact'] = r2
      BY <1>1
    <2> QED
      BY <2>1 DEF CommitAndGo
  <1>3. GoodRows(now, listed') /\ Kept(contact, now) /\ Kept(rows, now)
    BY <1>1, LinksKept
  <1>4. now \in LinkRows
    BY <1>3 DEF GoodRows
  <1> HIDE DEF now
  <1>5. /\ r1 \in CallRecord /\ r1.rows = now /\ r1.at = new.at /\ r1.partner = new.partner
        /\ r1.todo = new.todo /\ r1.answer = new.answer
    BY <1>4 DEF CallRecord
  <1> HIDE DEF r1
  <1>6. /\ r2 \in CallRecord /\ r2.rows = now /\ r2.base = now /\ r2.at = new.at
        /\ r2.partner = new.partner /\ r2.todo = new.todo /\ r2.answer = new.answer
    BY <1>4, <1>5 DEF CallRecord
  <1> HIDE DEF r2
  <1>7. Kept(now, now)
    BY DEF Kept
  <1>8. GoodCall(then, now, listed')
    <2>1. CASE new = NoCall
      <3>1. NoCall.at = "idle"
        BY DEF NoCall
      <3> QED
        BY <2>1, <3>1 DEF GoodCall
    <2>2. CASE new # NoCall
      <3>1. GoodLinks(r2, now, listed')
        BY <1>3, <1>4, <1>6, <1>7, <2>2 DEF GoodLinks, GoodRows
      <3>2. GoodEnd(r2)
        BY <1>3, <1>6, <2>2 DEF GoodEnd, Kept
      <3>3. r2.at \in {"parent", "own"} => GoodSends(r2, listed')
        BY <1>6, <2>2 DEF GoodSends, DataOf
      <3> QED
        BY <1>6, <2>2, <3>1, <3>2, <3>3 DEF GoodCall
    <2> QED
      BY <2>1, <2>2
  <1>9. \A d \in Clerks : GoodCall(call'[d], contact', listed')
    <2> TAKE d \in Clerks
    <2>1. CASE d = c
      <3>1. call'[d] = then
        BY <1>2, <2>1 DEF PartnersInv
      <3> QED
        BY <1>1, <1>8, <3>1
    <2>2. CASE d # c
      <3>1. call'[d] = call[d] /\ GoodCall(call[d], contact, listed)
        BY <1>2, <2>2 DEF PartnersInv
      <3> QED
        BY <1>1, <1>3, <3>1, OthersGood
    <2> QED
      BY <2>1, <2>2
  <1>10. call' \in [Clerks -> CallRecord]
    <2>1. then \in CallRecord
      BY <1>8 DEF GoodCall
    <2> HIDE DEF then
    <2> QED
      BY <1>2, <2>1 DEF PartnersInv
  <1> QED
    BY <1>1, <1>3, <1>9, <1>10, BookStays

(* The fields of a request, and of what one field is changed of.           *)
LEMMA CallFields ==
    ASSUME NEW k \in CallRecord, NEW x
    PROVE  /\ x \in {"idle", "export", "parent", "own", "more"} =>
                 /\ [k EXCEPT !.at = x] \in CallRecord /\ [k EXCEPT !.at = x].at = x
                 /\ [k EXCEPT !.at = x].partner = k.partner /\ [k EXCEPT !.at = x].todo = k.todo
                 /\ [k EXCEPT !.at = x].answer = k.answer /\ [k EXCEPT !.at = x].rows = k.rows
                 /\ [k EXCEPT !.at = x].base = k.base
           /\ x \in Contacts =>
                 /\ [k EXCEPT !.partner = x] \in CallRecord /\ [k EXCEPT !.partner = x].at = k.at
                 /\ [k EXCEPT !.partner = x].partner = x /\ [k EXCEPT !.partner = x].todo = k.todo
                 /\ [k EXCEPT !.partner = x].answer = k.answer /\ [k EXCEPT !.partner = x].rows = k.rows
                 /\ [k EXCEPT !.partner = x].base = k.base
           /\ x \in Seq(Lists) =>
                 /\ [k EXCEPT !.todo = x] \in CallRecord /\ [k EXCEPT !.todo = x].at = k.at
                 /\ [k EXCEPT !.todo = x].partner = k.partner /\ [k EXCEPT !.todo = x].todo = x
                 /\ [k EXCEPT !.todo = x].answer = k.answer /\ [k EXCEPT !.todo = x].rows = k.rows
                 /\ [k EXCEPT !.todo = x].base = k.base
           /\ x \in DisplayNames \cup {NoName} =>
                 /\ [k EXCEPT !.answer = x] \in CallRecord /\ [k EXCEPT !.answer = x].at = k.at
                 /\ [k EXCEPT !.answer = x].partner = k.partner /\ [k EXCEPT !.answer = x].todo = k.todo
                 /\ [k EXCEPT !.answer = x].answer = x /\ [k EXCEPT !.answer = x].rows = k.rows
                 /\ [k EXCEPT !.answer = x].base = k.base
  BY DEF CallRecord

LEMMA AtIdle == NoCall \in CallRecord /\ NoCall.at = "idle" /\ NoCall.todo = <<>> /\ NoCall.answer = NoName
  <1>1. <<>> \in Seq(Lists)
    OBVIOUS
  <1> DEFINE nil == <<>>
  <1> HIDE DEF nil
  <1>2. NoCall = [at |-> "idle", partner |-> NoContact, todo |-> nil, answer |-> NoName,
                  rows |-> nil, base |-> nil] /\ nil \in Seq(Lists) /\ nil = <<>>
    BY <1>1 DEF NoCall, nil
  <1>3. {<<>>} = {nil}
    BY <1>2
  <1> QED
    BY <1>2, <1>3 DEF CallRecord

(* A row gets an id.                                                       *)
WithId(rows, p, l, id) == [rows EXCEPT ![p][l] = id]
WithFlag(rows, p)      == [rows EXCEPT ![p].exported = TRUE]

LEMMA FlagFields ==
    ASSUME NEW rows \in LinkRows, NEW p \in Contacts
    PROVE  LET u == WithFlag(rows, p)
           IN  /\ u \in LinkRows /\ \A q \in Contacts : u[q].customer = rows[q].customer
               /\ \A q \in Contacts : u[q].vendor = rows[q].vendor
               /\ \A q \in Contacts \ {p} : u[q] = rows[q]
  <1> DEFINE r == [rows[p] EXCEPT !.exported = TRUE]
  <1>1. r \in LinkRow /\ r.customer = rows[p].customer /\ r.vendor = rows[p].vendor
    BY DEF LinkRows, LinkRow
  <1>2. WithFlag(rows, p) = [rows EXCEPT ![p] = r]
    BY DEF WithFlag
  <1> HIDE DEF r
  <1> QED
    BY <1>1, <1>2 DEF LinkRows

LEMMA LinkFields ==
    ASSUME NEW rows \in LinkRows, NEW p \in Contacts, NEW l \in Lists, NEW id \in DisplayNames
    PROVE  LET u == WithId(rows, p, l, id)
           IN  /\ u \in LinkRows /\ \A q \in Contacts : u[q].exported = rows[q].exported
               /\ \A q \in Contacts \ {p} : u[q] = rows[q]
               /\ u[p].customer = IF l = "customer" THEN id ELSE rows[p].customer
               /\ u[p].vendor = IF l = "vendor" THEN id ELSE rows[p].vendor
  <1> DEFINE r == [rows[p] EXCEPT ![l] = id]
  <1>0. "customer" # "vendor"
    OBVIOUS
  <1>1. /\ r \in LinkRow /\ r.exported = rows[p].exported
        /\ r.customer = IF l = "customer" THEN id ELSE rows[p].customer
        /\ r.vendor = IF l = "vendor" THEN id ELSE rows[p].vendor
    <2>1. CASE l = "customer"
      BY <2>1, <1>0 DEF LinkRows, LinkRow
    <2>2. CASE l = "vendor"
      BY <2>2, <1>0 DEF LinkRows, LinkRow
    <2> QED
      BY <2>1, <2>2 DEF Lists
  <1>2. WithId(rows, p, l, id) = [rows EXCEPT ![p] = r]
    BY DEF WithId
  <1> HIDE DEF r
  <1> QED
    BY <1>1, <1>2 DEF LinkRows

LEMMA AdoptedFields ==
    ASSUME NEW rows \in LinkRows, NEW p \in Contacts, NEW id \in DisplayNames
    PROVE  LET u == Adopted(rows, p, id)
           IN  /\ u \in LinkRows
               /\ \A q \in Contacts \ {p} : u[q] = rows[q]
               /\ u[p].customer = IF p \in book.customer THEN id ELSE rows[p].customer
               /\ u[p].vendor = IF p \in book.supplier THEN id ELSE rows[p].vendor
  <1> DEFINE x == IF p \in book.customer THEN id ELSE rows[p].customer
             y == IF p \in book.supplier THEN id ELSE rows[p].vendor
             r1 == [rows[p] EXCEPT !.customer = x]
             r2 == [r1 EXCEPT !.vendor = y]
             r3 == [r2 EXCEPT !.exported = TRUE]
             u1 == [rows EXCEPT ![p] = r1]
             u2 == [u1 EXCEPT ![p] = r2]
             u3 == [u2 EXCEPT ![p] = r3]
  <1>1. x \in DisplayNames \cup {NoName} /\ y \in DisplayNames \cup {NoName}
    BY DEF LinkRows, LinkRow
  <1> HIDE DEF x, y
  <1>2. r3 \in LinkRow /\ r3.customer = x /\ r3.vendor = y
    BY <1>1 DEF LinkRows, LinkRow
  <1>3. u1[p] = r1 /\ u2[p] = r2
    BY DEF LinkRows
  <1>4. rows[p].vendor = r1.vendor
    BY DEF LinkRows, LinkRow
  <1>5. Adopted(rows, p, id) = u3
    <2>1. [rows EXCEPT ![p].customer = IF p \in book.customer THEN id ELSE @] = u1
      BY DEF x
    <2>2. [u1 EXCEPT ![p].vendor = IF p \in book.supplier THEN id ELSE @] = u2
      BY <1>3, <1>4 DEF y
    <2>3. [u2 EXCEPT ![p].exported = TRUE] = u3
      BY <1>3
    <2> HIDE DEF u1, u2, u3
    <2> QED
      BY <2>1, <2>2, <2>3 DEF Adopted
  <1>6. u3 \in LinkRows /\ u3[p] = r3 /\ \A q \in Contacts \ {p} : u3[q] = rows[q]
    <2>1. r1 \in LinkRow /\ r2 \in LinkRow
      BY <1>1 DEF LinkRows, LinkRow
    <2> HIDE DEF r1, r2, r3
    <2> QED
      BY <1>2, <2>1 DEF LinkRows
  <1> HIDE DEF u3, r3
  <1> QED
    BY <1>2, <1>5, <1>6 DEF x, y

(* A request at work.                                                      *)
LEMMA AtDesk ==
    ASSUME PartnersInv, NEW c \in Clerks
    PROVE  /\ book \in AddressBooks /\ listed \in Catalogue /\ contact \in LinkRows
           /\ call[c] \in CallRecord /\ GoodCall(call[c], contact, listed)
           /\ Taken(listed, listed)
           /\ call[c].at # "idle" =>
                 /\ Partner(c) = call[c].partner /\ Partner(c) \in Contacts
                 /\ call[c].rows \in LinkRows /\ GoodLinks(call[c], contact, listed) /\ GoodEnd(call[c])
                 /\ Parent(c) = book.parent[call[c].partner] /\ Parent(c) \in Contacts \cup {NoContact}
                 /\ Parent(c) # Partner(c) /\ Data(c) = DataOf(call[c])
                 /\ Parent(c) \in Contacts => ~ Single(Parent(c)) /\ ~ Single(Partner(c))
           /\ call[c].at \in {"parent", "own"} => GoodSends(call[c], listed) /\ Data(c) \in Contacts
  <1>1. /\ book \in AddressBooks /\ listed \in Catalogue /\ contact \in LinkRows
        /\ call[c] \in CallRecord /\ GoodCall(call[c], contact, listed) /\ Taken(listed, listed)
    BY DEF PartnersInv, GoodRows, Taken
  <1>2. ASSUME call[c].at # "idle"
        PROVE  /\ Partner(c) = call[c].partner /\ Partner(c) \in Contacts
               /\ call[c].rows \in LinkRows /\ GoodLinks(call[c], contact, listed) /\ GoodEnd(call[c])
               /\ Parent(c) = book.parent[call[c].partner] /\ Parent(c) \in Contacts \cup {NoContact}
               /\ Parent(c) # Partner(c) /\ Data(c) = DataOf(call[c])
               /\ Parent(c) \in Contacts => ~ Single(Parent(c)) /\ ~ Single(Partner(c))
    <2>1. GoodLinks(call[c], contact, listed) /\ GoodEnd(call[c])
      BY <1>1, <1>2 DEF GoodCall
    <2>2. Partner(c) = call[c].partner /\ Partner(c) \in Contacts /\ call[c].rows \in LinkRows
      BY <2>1 DEF GoodLinks, Partner
    <2>3. /\ Parent(c) = book.parent[call[c].partner] /\ Parent(c) \in Contacts \cup {NoContact}
          /\ Parent(c) # Partner(c)
      BY <2>2, <1>1, BookFacts DEF Parent
    <2>4. Data(c) = DataOf(call[c])
      BY <2>2, <2>3 DEF Data, DataOf
    <2>5. Parent(c) \in Contacts => ~ Single(Parent(c)) /\ ~ Single(Partner(c))
      BY <2>2, <2>3, <1>1, BookFacts DEF Single, Family, Children
    <2> QED
      BY <2>1, <2>2, <2>3, <2>4, <2>5
  <1>3. call[c].at \in {"parent", "own"} => GoodSends(call[c], listed) /\ Data(c) \in Contacts
    <2> SUFFICES ASSUME call[c].at \in {"parent", "own"} PROVE GoodSends(call[c], listed) /\ Data(c) \in Contacts
      OBVIOUS
    <2>1. GoodSends(call[c], listed)
      BY <1>1 DEF GoodCall
    <2> QED
      BY <2>1, <1>2 DEF GoodSends, DataOf
  <1> QED
    BY <1>1, <1>2, <1>3

LEMMA AnsweredFields ==
    ASSUME NEW c \in Clerks, call[c] \in CallRecord, call[c].todo # <<>>,
           NEW id \in DisplayNames \cup {NoName}
    PROVE  LET u == Answered(c, id)
           IN  /\ u \in CallRecord /\ u.at = call[c].at /\ u.partner = call[c].partner
               /\ u.todo = Tail(call[c].todo) /\ u.answer = id
               /\ u.rows = call[c].rows /\ u.base = call[c].base
               /\ Len(u.todo) = Len(call[c].todo) - 1 /\ Len(call[c].todo) \in Nat
               /\ Len(u.todo) = 0 <=> u.todo = <<>>
               /\ \A i \in 1 .. Len(u.todo) : i + 1 \in 1 .. Len(call[c].todo) /\ u.todo[i] = call[c].todo[i + 1]
               /\ Head(call[c].todo) = call[c].todo[1] /\ Head(call[c].todo) \in Lists
               /\ 1 \in 1 .. Len(call[c].todo)
  <1> DEFINE k == call[c]
             q == k.todo
             t == Tail(q)
             u1 == [k EXCEPT !.todo = t]
             u2 == [u1 EXCEPT !.answer = id]
  <1>1. q \in Seq(Lists) /\ q # <<>>
    BY DEF CallRecord
  <1>2. /\ t \in Seq(Lists) /\ Len(t) = Len(q) - 1 /\ Len(q) \in Nat
        /\ \A i \in 1 .. Len(t) : t[i] = q[i + 1]
        /\ Head(q) \in Lists
    BY <1>1, HeadTailProperties
  <1>3. Head(q) = q[1] /\ 1 \in 1 .. Len(q)
    BY <1>1, EmptySeq
  <1>4. Len(t) = 0 <=> t = <<>>
    BY <1>2, EmptySeq
  <1>5. \A i \in 1 .. Len(t) : i + 1 \in 1 .. Len(q)
    BY <1>2
  <1>6. Answered(c, id) = u2
    BY DEF Answered
  <1> HIDE DEF q, t
  <1>7. k \in CallRecord
    OBVIOUS
  <1> HIDE DEF k
  <1>8. /\ u1 \in CallRecord /\ u1.at = k.at /\ u1.partner = k.partner /\ u1.todo = t
        /\ u1.rows = k.rows /\ u1.base = k.base
    <2>1. t \in Seq(Lists) /\ k \in CallRecord
      BY <1>2, <1>7
    <2> QED
      BY <2>1 DEF CallRecord
  <1> HIDE DEF u1
  <1>9. /\ u2 \in CallRecord /\ u2.at = k.at /\ u2.partner = k.partner /\ u2.todo = t /\ u2.answer = id
        /\ u2.rows = k.rows /\ u2.base = k.base
    BY <1>8 DEF CallRecord
  <1> HIDE DEF u2
  <1> QED
    BY <1>2, <1>3, <1>4, <1>5, <1>6, <1>9 DEF k, q

LEMMA LosesContact == ASSUME PartnersInv, NEW c \in Clerks, LoseContact(c) PROVE PartnersInv'
  <1>1. GoodCall(NoCall, contact, listed')
    BY AtIdle DEF GoodCall
  <1>2. Go(c, NoCall) /\ listed' \in Catalogue /\ Taken(listed, listed')
    BY AtDesk DEF LoseContact, Go
  <1> QED
    BY <1>1, <1>2, Goes

LEMMA BeginsContact ==
    ASSUME PartnersInv, NEW c \in Clerks, NEW p \in Contacts, BeginContact(c, p)
    PROVE  PartnersInv'
  <1>1. listed' = listed /\ listed \in Catalogue /\ Taken(listed, listed) /\ contact \in LinkRows
        /\ call[c].at \in {"idle", "more"}
    BY AtDesk DEF BeginContact
  <1>2. CASE call[c].at = "idle"
    <2> DEFINE k1 == [NoCall EXCEPT !.at = "export"]
               k2 == [k1 EXCEPT !.partner = p]
               k3 == [k2 EXCEPT !.rows = contact]
               k4 == [k3 EXCEPT !.base = contact]
    <2>1. Go(c, k4)
      BY <1>2 DEF BeginContact
    <2>2. k1 \in CallRecord /\ k1.at = "export"
      BY AtIdle, CallFields
    <2> HIDE DEF k1
    <2>3. k2 \in CallRecord /\ k2.at = "export" /\ k2.partner = p
      BY <2>2, CallFields
    <2> HIDE DEF k2
    <2>4. k3 \in CallRecord /\ k3.at = "export" /\ k3.partner = p /\ k3.rows = contact
      BY <1>1, <2>3 DEF CallRecord
    <2> HIDE DEF k3
    <2>5. k4 \in CallRecord /\ k4.at = "export" /\ k4.partner = p /\ k4.rows = contact /\ k4.base = contact
      BY <1>1, <2>4 DEF CallRecord
    <2> HIDE DEF k4
    <2>6. GoodLinks(k4, contact, listed)
      BY <1>1, <2>5 DEF GoodLinks, Kept, PartnersInv, GoodRows
    <2>7. GoodCall(k4, contact, listed')
      BY <1>1, <2>5, <2>6 DEF GoodCall, GoodEnd
    <2> QED
      BY <1>1, <2>1, <2>7, Goes
  <1>3. CASE call[c].at = "more"
    <2> DEFINE k1 == [call[c] EXCEPT !.at = "export"]
               k2 == [k1 EXCEPT !.partner = p]
    <2>1. Go(c, k2)
      BY <1>3 DEF BeginContact
    <2>2. call[c] \in CallRecord /\ GoodLinks(call[c], contact, listed)
      BY <1>3, AtDesk
    <2>3. k1 \in CallRecord /\ k1.at = "export" /\ k1.rows = call[c].rows /\ k1.base = call[c].base
      BY <2>2, CallFields
    <2> HIDE DEF k1
    <2>4. k2 \in CallRecord /\ k2.at = "export" /\ k2.partner = p /\ k2.rows = call[c].rows
          /\ k2.base = call[c].base
      BY <2>3, CallFields
    <2> HIDE DEF k2
    <2>5. GoodLinks(k2, contact, listed)
      BY <1>3, <2>2, <2>4 DEF GoodLinks
    <2>6. GoodCall(k2, contact, listed')
      BY <1>1, <2>4, <2>5 DEF GoodCall, GoodEnd
    <2> QED
      BY <1>1, <2>1, <2>6, Goes
  <1> QED
    BY <1>1, <1>2, <1>3

(* The places a request goes to whose rows stay as they are.               *)
LEMMA MovesOn ==
    ASSUME PartnersInv, NEW c \in Clerks, NEW new, Go(c, new), listed' = listed,
           call[c].at # "idle", call[c].at = "own" => call[c].answer = NoName,
           new \in CallRecord, new.partner = call[c].partner, new.rows = call[c].rows,
           new.base = call[c].base, GoodEnd(new),
           new.at \in {"parent", "own"} => GoodSends(new, listed)
    PROVE  PartnersInv'
  <1>1. /\ listed \in Catalogue /\ Taken(listed, listed) /\ GoodLinks(call[c], contact, listed)
    BY AtDesk
  <1>2. GoodLinks(new, contact, listed)
    BY <1>1 DEF GoodLinks
  <1>3. GoodCall(new, contact, listed')
    BY <1>2 DEF GoodCall
  <1> QED
    BY <1>1, <1>3, Goes

LEMMA UpdatesContact == ASSUME PartnersInv, NEW c \in Clerks, UpdateContact(c) PROVE PartnersInv'
  <1> DEFINE p == call[c].partner
             new == [call[c] EXCEPT !.at = "more"]
             row == call[c].rows[p]
  <1>1. /\ call[c].at = "export" /\ Go(c, new) /\ listed' = listed /\ KnownContact(c)
    BY DEF UpdateContact
  <1>2. call[c] \in CallRecord /\ GoodLinks(call[c], contact, listed) /\ Partner(c) = p /\ p \in Contacts
    BY <1>1, AtDesk
  <1>3. new \in CallRecord /\ new.at = "more" /\ new.partner = p /\ new.rows = call[c].rows
        /\ new.base = call[c].base
    BY <1>2, CallFields
  <1> HIDE DEF new
  <1>4. ASSUME MadeUp(p) PROVE row.customer # NoName
    <2>1. Role(p) = "customer" /\ Single(p) /\ \A q \in Contacts : book.name[q] = book.given[p] => q = p
      BY <1>4 DEF MadeUp
    <2>2. FlagTold(p, row)
      BY <1>1, <1>2 DEF GoodLinks
    <2>3. row.exported \/ row.customer # NoName
      BY <1>1, <1>2, <2>1 DEF KnownContact
    <2> QED
      BY <1>2, <2>1, <2>2, <2>3 DEF FlagTold
  <1>5. GoodEnd(new)
    BY <1>3, <1>4 DEF GoodEnd
  <1> QED
    BY <1>1, <1>3, <1>5, MovesOn

LEMMA ChecksParent ==
    ASSUME PartnersInv, NEW c \in Clerks, CheckParent(c) \/ ExportAlone(c)
    PROVE  PartnersInv'
  <1> DEFINE k == call[c]
             a == IF Parent(c) = NoContact \/ NameFound(Parent(c)) THEN "own" ELSE "parent"
             t == SendTo(Partner(c))
             k1 == [k EXCEPT !.at = a]
             k2 == [k1 EXCEPT !.todo = t]
             k3 == [k2 EXCEPT !.answer = NoName]
  <1>1. k.at = "export" /\ Go(c, k3) /\ listed' = listed
    BY DEF CheckParent, ExportAlone
  <1>2. /\ k \in CallRecord /\ book \in AddressBooks /\ GoodLinks(k, contact, listed)
        /\ Partner(c) = k.partner /\ Partner(c) \in Contacts
        /\ Parent(c) = book.parent[k.partner] /\ Parent(c) \in Contacts \cup {NoContact}
    BY <1>1, AtDesk
  <1>3. /\ t \in Seq(Lists) /\ t # <<>> /\ \A i \in 1 .. Len(t) : Partner(c) \in Ranked(t[i])
        /\ OneRank(Partner(c)) => Len(t) = 1
    BY <1>2, SentTo
  <1>4. a \in {"own", "parent"} /\ (a = "parent" => Parent(c) \in Contacts)
    BY <1>2
  <1> HIDE DEF a, t
  <1>5. /\ k1 \in CallRecord /\ k1.at = a /\ k1.partner = k.partner /\ k1.rows = k.rows /\ k1.base = k.base
    BY <1>2, <1>4 DEF CallRecord
  <1> HIDE DEF k1
  <1>6. /\ k2 \in CallRecord /\ k2.at = a /\ k2.partner = k.partner /\ k2.rows = k.rows /\ k2.base = k.base
        /\ k2.todo = t
    <2>1. t \in Seq(Lists)
      BY <1>3
    <2> QED
      BY <1>5, <2>1 DEF CallRecord
  <1> HIDE DEF k2
  <1>7. /\ k3 \in CallRecord /\ k3.at = a /\ k3.partner = k.partner /\ k3.rows = k.rows /\ k3.base = k.base
        /\ k3.todo = t /\ k3.answer = NoName
    BY <1>6 DEF CallRecord
  <1> HIDE DEF k3
  <1>8. GoodSends(k3, listed)
    BY <1>2, <1>3, <1>4, <1>7 DEF GoodSends
  <1>9. GoodEnd(k3)
    BY <1>3, <1>4, <1>7 DEF GoodEnd
  <1> QED
    BY <1>1, <1>7, <1>8, <1>9, MovesOn

(* The row of the parent, or of the partner, is flagged.                   *)
LEMMA Flags ==
    ASSUME PartnersInv, NEW c \in Clerks, call[c].at \in {"parent", "own"}
    PROVE  LET u == FamilyFlagged(call[c].rows, Partner(c))
           IN  /\ u \in LinkRows
               /\ \A q \in Contacts : u[q].customer = call[c].rows[q].customer
                                   /\ u[q].vendor = call[c].rows[q].vendor
               /\ \A q \in Contacts : u[q] = call[c].rows[q] \/ ~ Single(q) \/ (q = Partner(c) /\ call[c].at = "own")
  <1> DEFINE f == IF Parent(c) = NoContact THEN Partner(c) ELSE Parent(c)
  <1>1. /\ Partner(c) \in Contacts /\ Parent(c) \in Contacts \cup {NoContact} /\ call[c].rows \in LinkRows
        /\ Parent(c) \in Contacts => ~ Single(Parent(c))
        /\ Parent(c) = book.parent[Partner(c)] /\ NoContact \notin Contacts
    BY AtDesk, BookFacts
  <1>2. call[c].at = "parent" => Parent(c) \in Contacts
    BY AtDesk DEF GoodSends
  <1>3. FamilyFlagged(call[c].rows, Partner(c)) = WithFlag(call[c].rows, f)
    BY <1>1 DEF FamilyFlagged, WithFlag
  <1>4. f \in Contacts /\ (Single(f) => f = Partner(c) /\ call[c].at = "own")
    BY <1>1, <1>2
  <1> HIDE DEF f
  <1> DEFINE rows == call[c].rows
             u == WithFlag(rows, f)
  <1>5. rows \in LinkRows /\ FamilyFlagged(rows, Partner(c)) = u
    BY <1>1, <1>3
  <1> HIDE DEF rows
  <1>6. /\ u \in LinkRows
        /\ \A q \in Contacts : u[q].customer = rows[q].customer
        /\ \A q \in Contacts : u[q].vendor = rows[q].vendor
        /\ \A q \in Contacts \ {f} : u[q] = rows[q]
    BY <1>4, <1>5, FlagFields
  <1> HIDE DEF u
  <1>7. \A q \in Contacts : u[q] = rows[q] \/ ~ Single(q) \/ (q = Partner(c) /\ call[c].at = "own")
    BY <1>4, <1>6
  <1> QED
    BY <1>5, <1>6, <1>7 DEF rows

LEMMA PostsContact == ASSUME PartnersInv, NEW c \in Clerks, PostContact(c) PROVE PartnersInv'
  <1> DEFINE k == call[c]
             n == book.name[Data(c)]
             l == Head(k.todo)
             k1 == Answered(c, n)
             u == FamilyFlagged(k.rows, Partner(c))
             k2 == [k1 EXCEPT !.rows = u]
  <1>1. /\ k.at \in {"parent", "own"} /\ k.todo # <<>> /\ listed[n] = "free"
        /\ listed' = [listed EXCEPT ![n] = l]
    BY DEF PostContact, SendingContact
  <1>2. /\ k \in CallRecord /\ book \in AddressBooks /\ GoodLinks(k, contact, listed) /\ GoodSends(k, listed)
        /\ Partner(c) = k.partner /\ Partner(c) \in Contacts /\ k.rows \in LinkRows
        /\ Data(c) \in Contacts /\ Data(c) = DataOf(k) /\ listed \in Catalogue
    BY <1>1, AtDesk
  <1>3. n \in DisplayNames /\ n # NoName
    BY <1>2, BookFacts
  <1>4. /\ k1 \in CallRecord /\ k1.at = k.at /\ k1.partner = k.partner /\ k1.answer = n
        /\ k1.rows = k.rows /\ k1.base = k.base
        /\ Len(k1.todo) = Len(k.todo) - 1 /\ Len(k.todo) \in Nat
        /\ (Len(k1.todo) = 0 <=> k1.todo = <<>>)
        /\ \A i \in 1 .. Len(k1.todo) : i + 1 \in 1 .. Len(k.todo) /\ k1.todo[i] = k.todo[i + 1]
        /\ l = k.todo[1] /\ l \in Lists /\ 1 \in 1 .. Len(k.todo)
    BY <1>1, <1>2, <1>3, AnsweredFields
  <1>5. Go(c, k2)
    <2>1. [k1 EXCEPT !.rows = FamilyFlagged(@, Partner(c))] = k2
      BY <1>4
    <2> QED
      BY <2>1 DEF PostContact
  <1>6. /\ u \in LinkRows
        /\ \A q \in Contacts : u[q].customer = k.rows[q].customer /\ u[q].vendor = k.rows[q].vendor
        /\ \A q \in Contacts : u[q] = k.rows[q] \/ ~ Single(q) \/ (q = Partner(c) /\ k.at = "own")
    BY <1>1, Flags
  <1> HIDE DEF k1, u, n, l
  <1>7. /\ k2 \in CallRecord /\ k2.at = k.at /\ k2.partner = k.partner /\ k2.answer = n /\ k2.todo = k1.todo
        /\ k2.rows = u /\ k2.base = k.base
    BY <1>4, <1>6 DEF CallRecord
  <1> HIDE DEF k2
  <1>8. listed' \in Catalogue /\ Taken(listed, listed') /\ listed'[n] = l
    BY <1>1, <1>2, <1>3, <1>4 DEF Catalogue, Taken
  <1>9. GoodLinks(k2, contact, listed')
    <2>1. Kept(k.base, u) /\ Kept(k.base, contact)
      BY <1>2, <1>6 DEF GoodLinks, Kept
    <2>2. \A q \in Contacts : book.name[q] \in DisplayNames
      BY <1>2, BookFacts
    <2>3. \A q \in Contacts : TrueRow(q, u[q], listed')
      BY <1>2, <1>6, <1>8, <2>2 DEF GoodLinks, TrueRow, Taken
    <2>4. \A q \in Contacts : FlagTold(q, u[q]) \/ (k2.at = "own" /\ q = Partner(c))
      BY <1>2, <1>6, <1>7 DEF GoodLinks, FlagTold
    <2> QED
      BY <1>2, <1>3, <1>6, <1>7, <2>1, <2>3, <2>4 DEF GoodLinks
  <1>10. GoodSends(k2, listed')
    <2>1. DataOf(k2) = DataOf(k)
      BY <1>7 DEF DataOf
    <2>2. n = book.name[DataOf(k2)]
      BY <1>2, <2>1 DEF n
    <2>3. \A i \in 1 .. Len(k2.todo) : k2.partner \in Ranked(k2.todo[i])
      BY <1>2, <1>4, <1>7 DEF GoodSends
    <2>4. OneRank(k2.partner) => k2.todo = <<>>
      BY <1>1, <1>2, <1>4, <1>7 DEF GoodSends
    <2>5. k2.partner \in Ranked(l)
      BY <1>2, <1>4, <1>7 DEF GoodSends
    <2>6. k2.at = "parent" => book.parent[k2.partner] \in Contacts
      BY <1>2, <1>7 DEF GoodSends
    <2> QED
      BY <1>4, <1>7, <1>8, <2>2, <2>3, <2>4, <2>5, <2>6 DEF GoodSends
  <1>11. GoodEnd(k2)
    BY <1>1, <1>3, <1>7 DEF GoodEnd
  <1>12. GoodCall(k2, contact, listed')
    BY <1>7, <1>9, <1>10, <1>11 DEF GoodCall
  <1> QED
    BY <1>5, <1>8, <1>12, Goes

(* A send that is refused leaves what there was; only a partner of both    *)
(* ranks has been posted before.                                           *)
LEMMA AfterRefusal ==
    ASSUME PartnersInv, NEW c \in Clerks, SendingContact(c)
    PROVE  LET k == call[c]
               u == Answered(c, NoName)
           IN  /\ u \in CallRecord /\ u.at = k.at /\ u.partner = k.partner /\ u.answer = NoName
               /\ u.rows = k.rows /\ u.base = k.base /\ GoodSends(u, listed)
               /\ Head(k.todo) \in Lists /\ Partner(c) \in Ranked(Head(k.todo))
               /\ k.at \in {"parent", "own"}
               /\ \A q \in Contacts : TrueRow(q, k.rows[q], listed) /\ FlagTold(q, k.rows[q])
  <1> DEFINE k == call[c]
             u == Answered(c, NoName)
  <1>1. k.at \in {"parent", "own"} /\ k.todo # <<>>
    BY DEF SendingContact
  <1>2. /\ k \in CallRecord /\ GoodLinks(k, contact, listed) /\ GoodSends(k, listed)
        /\ Partner(c) = k.partner /\ Partner(c) \in Contacts
    BY <1>1, AtDesk
  <1>3. /\ u \in CallRecord /\ u.at = k.at /\ u.partner = k.partner /\ u.answer = NoName
        /\ u.rows = k.rows /\ u.base = k.base
        /\ Len(u.todo) = Len(k.todo) - 1 /\ Len(k.todo) \in Nat
        /\ (Len(u.todo) = 0 <=> u.todo = <<>>)
        /\ \A i \in 1 .. Len(u.todo) : i + 1 \in 1 .. Len(k.todo) /\ u.todo[i] = k.todo[i + 1]
        /\ Head(k.todo) = k.todo[1] /\ Head(k.todo) \in Lists /\ 1 \in 1 .. Len(k.todo)
    BY <1>1, <1>2, AnsweredFields
  <1> HIDE DEF u
  <1>4. GoodSends(u, listed)
    <2>1. \A i \in 1 .. Len(u.todo) : u.partner \in Ranked(u.todo[i])
      BY <1>2, <1>3 DEF GoodSends
    <2>2. OneRank(u.partner) => u.todo = <<>>
      BY <1>1, <1>2, <1>3 DEF GoodSends
    <2> QED
      BY <1>2, <1>3, <2>1, <2>2 DEF GoodSends
  <1>5. Partner(c) \in Ranked(Head(k.todo))
    BY <1>2, <1>3 DEF GoodSends
  <1>6. ASSUME NEW q \in Contacts
        PROVE  TrueRow(q, k.rows[q], listed) /\ FlagTold(q, k.rows[q])
    <2>1. TrueRow(q, k.rows[q], listed)
      BY <1>2 DEF GoodLinks
    <2>2. FlagTold(q, k.rows[q]) \/ (k.answer # NoName /\ q = k.partner)
      BY <1>2 DEF GoodLinks
    <2>3. OneRank(k.partner) => k.answer = NoName
      BY <1>1, <1>2 DEF GoodSends
    <2>4. ~ OneRank(q) => FlagTold(q, k.rows[q])
      BY DEF FlagTold, Single
    <2> QED
      BY <2>1, <2>2, <2>3, <2>4
  <1> QED
    BY <1>1, <1>3, <1>4, <1>5, <1>6 DEF u

LEMMA RefusesContact == ASSUME PartnersInv, NEW c \in Clerks, RefuseContact(c) PROVE PartnersInv'
  <1> DEFINE k == call[c]
             u == Answered(c, NoName)
  <1>1. /\ SendingContact(c) /\ k.at = "own" /\ Parent(c) # NoContact /\ Go(c, u) /\ listed' = listed
    BY DEF RefuseContact, BadParent
  <1>2. /\ u \in CallRecord /\ u.at = k.at /\ u.partner = k.partner /\ u.answer = NoName
        /\ u.rows = k.rows /\ u.base = k.base /\ GoodSends(u, listed)
        /\ \A q \in Contacts : FlagTold(q, k.rows[q])
    BY <1>1, AfterRefusal
  <1> HIDE DEF u
  <1>3. ~ Single(Partner(c)) /\ Partner(c) = k.partner
    BY <1>1, AtDesk
  <1>4. GoodEnd(u)
    BY <1>2, <1>3 DEF GoodEnd, MadeUp
  <1>5. GoodLinks(u, contact, listed)
    <2>1. GoodLinks(k, contact, listed)
      BY <1>1, AtDesk
    <2> QED
      BY <1>2, <2>1 DEF GoodLinks
  <1>6. GoodCall(u, contact, listed') /\ listed' \in Catalogue /\ Taken(listed, listed')
    <2>1. listed \in Catalogue /\ Taken(listed, listed)
      BY AtDesk
    <2> QED
      BY <1>1, <1>2, <1>4, <1>5, <2>1 DEF GoodCall
  <1> QED
    BY <1>1, <1>6, Goes

(* The vendor's refusal ends the request, a customer's is passed over.     *)
LEMMA AfterNamesake ==
    ASSUME PartnersInv, NEW c \in Clerks, SendingContact(c), NEW rows \in LinkRows,
           CommitAndGo(c, rows, IF Head(call[c].todo) = "vendor" THEN NoCall ELSE Answered(c, NoName)),
           listed' \in Catalogue, Taken(listed, listed'), Kept(call[c].rows, rows),
           \A p \in Contacts : TrueRow(p, rows[p], listed') /\ FlagTold(p, rows[p]),
           Head(call[c].todo) = "customer" /\ call[c].at = "own" /\ MadeUp(Partner(c))
               => rows[Partner(c)].customer # NoName
    PROVE  PartnersInv'
  <1> DEFINE k == call[c]
             u == Answered(c, NoName)
             new == IF Head(k.todo) = "vendor" THEN NoCall ELSE u
  <1>1. /\ u \in CallRecord /\ u.at = k.at /\ u.partner = k.partner /\ u.answer = NoName
        /\ u.rows = k.rows /\ u.base = k.base /\ GoodSends(u, listed)
        /\ Head(k.todo) \in Lists /\ k.at \in {"parent", "own"}
    BY AfterRefusal
  <1>2. GoodLinks(k, contact, listed) /\ Partner(c) = k.partner /\ book \in AddressBooks
    BY <1>1, AtDesk
  <1> HIDE DEF u
  <1>3. Kept(k.base, rows)
    BY <1>2, KeptOn DEF GoodLinks
  <1>4. GoodSends(u, listed')
    BY <1>1 DEF GoodSends
  <1>5. new # NoCall =>
           /\ new.partner \in Contacts
           /\ new.at \in {"parent", "own"} => GoodSends(new, listed')
           /\ new.at = "more" \/ (new.at = "own" /\ new.todo = <<>> /\ new.answer = NoName)
                 => (MadeUp(new.partner) => rows[new.partner].customer # NoName)
    BY <1>1, <1>2, <1>4 DEF GoodLinks, Lists
  <1>6. new \in CallRecord /\ CommitAndGo(c, rows, new) /\ k.at # "idle"
    BY <1>1, AtIdle DEF u
  <1> HIDE DEF new
  <1> QED
    BY <1>3, <1>5, <1>6, Commits

LEMMA Duplicates == ASSUME PartnersInv, NEW c \in Clerks, Duplicate(c) PROVE PartnersInv'
  <1> DEFINE k == call[c]
             l == Head(k.todo)
             M == Namesakes(l, Data(c))
             u == Answered(c, NoName)
             new == IF l = "vendor" THEN NoCall ELSE u
  <1>1. SendingContact(c) /\ listed[book.name[Data(c)]] # "free"
    BY DEF Duplicate
  <1>2. /\ u \in CallRecord /\ u.at = k.at /\ u.partner = k.partner /\ u.answer = NoName
        /\ u.rows = k.rows /\ u.base = k.base /\ GoodSends(u, listed)
        /\ l \in Lists /\ Partner(c) \in Ranked(l) /\ k.at \in {"parent", "own"}
        /\ \A q \in Contacts : TrueRow(q, k.rows[q], listed) /\ FlagTold(q, k.rows[q])
    BY <1>1, AfterRefusal
  <1>3. /\ k \in CallRecord /\ book \in AddressBooks /\ GoodLinks(k, contact, listed)
        /\ Partner(c) = k.partner /\ Partner(c) \in Contacts /\ k.rows \in LinkRows
        /\ Data(c) \in Contacts /\ listed \in Catalogue /\ Taken(listed, listed)
        /\ Data(c) = DataOf(k)
    BY <1>2, AtDesk
  <1>4. l = "customer" /\ k.at = "own" /\ MadeUp(Partner(c)) => Partner(c) \in M
    BY <1>2, <1>3 DEF MadeUp, Namesakes, DataOf
  <1>5. \A q \in Contacts : book.name[q] \in DisplayNames /\ book.name[q] # NoName
    BY <1>3, BookFacts
  <1>6. \/ M = {} /\ l = "customer" /\ Go(c, u) /\ listed' = listed
        \/ \E q \in Contacts :
              /\ M = {q} /\ NameFound(q) /\ listed' = listed
              /\ CommitAndGo(c, WithId(k.rows, q, l, book.name[q]), new)
        \/ \E q \in Contacts :
              /\ M = {q} /\ listed[book.name[q]] = "free" /\ listed' = [listed EXCEPT ![book.name[q]] = l]
              /\ CommitAndGo(c, WithId(Adopted(FamilyFlagged(k.rows, Partner(c)), q, book.name[q]),
                                       q, l, book.name[q]), new)
    BY DEF Duplicate, TakenBy, WithId
  <1> HIDE DEF u, M, l
  <1>7. CASE M = {} /\ l = "customer" /\ Go(c, u) /\ listed' = listed
    <2>1. GoodEnd(u)
      BY <1>2, <1>3, <1>4, <1>7 DEF GoodEnd
    <2>2. GoodLinks(u, contact, listed)
      BY <1>2, <1>3 DEF GoodLinks
    <2>3. GoodCall(u, contact, listed') /\ listed' \in Catalogue /\ Taken(listed, listed')
      BY <1>2, <1>3, <1>7, <2>1, <2>2 DEF GoodCall
    <2> QED
      BY <1>7, <2>3, Goes
  <1>8. ASSUME NEW q \in Contacts, M = {q}, NameFound(q), listed' = listed,
               CommitAndGo(c, WithId(k.rows, q, l, book.name[q]), new)
        PROVE  PartnersInv'
    <2> DEFINE rows == WithId(k.rows, q, l, book.name[q])
    <2>1. /\ rows \in LinkRows /\ \A p \in Contacts : rows[p].exported = k.rows[p].exported
          /\ \A p \in Contacts \ {q} : rows[p] = k.rows[p]
          /\ rows[q].customer = IF l = "customer" THEN book.name[q] ELSE k.rows[q].customer
          /\ rows[q].vendor = IF l = "vendor" THEN book.name[q] ELSE k.rows[q].vendor
      BY <1>2, <1>3, <1>5, LinkFields
    <2>2. q \in Ranked(l)
      BY <1>8 DEF M, Namesakes
    <2>3. CommitAndGo(c, rows, new)
      BY <1>8
    <2> HIDE DEF rows
    <2>4. OneRank(q) => /\ l = Role(q)
                        /\ listed[book.name[q]] = "customer" \/ (l = "vendor" /\ listed[book.name[q]] = "vendor")
      BY <1>2, <1>3, <1>8, <2>2, Ranks DEF NameFound, Lists, Family
    <2>5. Kept(k.rows, rows)
      BY <1>5, <2>1 DEF Kept
    <2>6. \A p \in Contacts : TrueRow(p, rows[p], listed') /\ FlagTold(p, rows[p])
      <3> TAKE p \in Contacts
      <3>1. CASE p # q
        BY <1>2, <1>8, <2>1, <3>1
      <3>2. CASE p = q
        <4>1. TrueRow(p, rows[p], listed')
          BY <1>2, <1>8, <2>1, <2>4, <3>2 DEF TrueRow, Lists
        <4>2. FlagTold(p, rows[p])
          BY <1>2, <1>5, <2>1, <2>4, <3>2 DEF FlagTold, Single, Lists
        <4> QED
          BY <4>1, <4>2
      <3> QED
        BY <3>1, <3>2
    <2>7. l = "customer" /\ k.at = "own" /\ MadeUp(Partner(c)) => rows[Partner(c)].customer # NoName
      BY <1>4, <1>5, <1>8, <2>1
    <2>8. listed' \in Catalogue /\ Taken(listed, listed')
      BY <1>3, <1>8
    <2> QED
      BY <1>1, <2>1, <2>3, <2>5, <2>6, <2>7, <2>8, AfterNamesake DEF l, u
  <1>9. ASSUME NEW q \in Contacts, M = {q}, listed[book.name[q]] = "free",
               listed' = [listed EXCEPT ![book.name[q]] = l],
               CommitAndGo(c, WithId(Adopted(FamilyFlagged(k.rows, Partner(c)), q, book.name[q]),
                                     q, l, book.name[q]), new)
        PROVE  PartnersInv'
    <2> DEFINE r1 == FamilyFlagged(k.rows, Partner(c))
               r2 == Adopted(r1, q, book.name[q])
               rows == WithId(r2, q, l, book.name[q])
    <2>1. /\ r1 \in LinkRows
          /\ \A p \in Contacts : r1[p].customer = k.rows[p].customer /\ r1[p].vendor = k.rows[p].vendor
          /\ \A p \in Contacts : r1[p] = k.rows[p] \/ ~ Single(p) \/ (p = Partner(c) /\ k.at = "own")
      BY <1>2, Flags
    <2>2. CommitAndGo(c, rows, new)
      BY <1>9
    <2> HIDE DEF r1
    <2>3. /\ r2 \in LinkRows /\ \A p \in Contacts \ {q} : r2[p] = r1[p]
          /\ r2[q].customer = IF q \in book.customer THEN book.name[q] ELSE r1[q].customer
          /\ r2[q].vendor = IF q \in book.supplier THEN book.name[q] ELSE r1[q].vendor
      BY <1>5, <2>1, AdoptedFields
    <2> HIDE DEF r2
    <2>4. /\ rows \in LinkRows /\ \A p \in Contacts \ {q} : rows[p] = r2[p]
          /\ rows[q].customer = IF l = "customer" THEN book.name[q] ELSE r2[q].customer
          /\ rows[q].vendor = IF l = "vendor" THEN book.name[q] ELSE r2[q].vendor
      BY <1>2, <1>5, <2>3, LinkFields
    <2> HIDE DEF rows
    <2>5. q \in Ranked(l) /\ q \in M /\ M = {p \in Ranked(l) : book.name[p] = book.given[Data(c)]}
      BY <1>9 DEF M, Namesakes
    <2>6. /\ OneRank(q) => l = Role(q)
          /\ q \in book.customer <=> Role(q) = "customer"
          /\ Role(q) = "vendor" => q \in book.supplier
          /\ OneRank(q) => (q \in book.customer <=> l = "customer") /\ (q \in book.supplier <=> l = "vendor")
      BY <1>2, <1>3, <2>5, Ranks DEF Lists, Role, Family, Ranked
    <2>7. /\ listed' \in Catalogue /\ Taken(listed, listed') /\ listed'[book.name[q]] = l
      BY <1>2, <1>3, <1>5, <1>9 DEF Catalogue, Taken
    <2>8. Kept(k.rows, rows)
      BY <1>5, <2>1, <2>3, <2>4 DEF Kept
    <2>9. \A p \in Contacts : TrueRow(p, k.rows[p], listed')
      BY <1>2, <1>5, <2>7 DEF TrueRow, Taken
    <2>10. \A p \in Contacts : TrueRow(p, rows[p], listed')
      <3> TAKE p \in Contacts
      <3>1. CASE p # q
        BY <2>1, <2>3, <2>4, <2>9, <3>1 DEF TrueRow
      <3>2. CASE p = q
        BY <1>2, <2>1, <2>3, <2>4, <2>6, <2>7, <2>9, <3>2 DEF TrueRow, Lists
      <3> QED
        BY <3>1, <3>2
    <2>11. \A p \in Contacts : FlagTold(p, rows[p])
      <3> TAKE p \in Contacts
      <3>1. CASE p = q
        BY <1>5, <2>3, <2>4, <2>6, <3>1 DEF FlagTold, Role
      <3>2. CASE p # q /\ p = Partner(c) /\ k.at = "own"
        <4>1. book.name[q] = book.given[p]
          BY <1>3, <2>5, <3>2 DEF DataOf
        <4> QED
          BY <3>2, <4>1 DEF FlagTold
      <3>3. CASE p # q /\ ~ Single(p)
        BY <3>3 DEF FlagTold
      <3>4. CASE p # q /\ r1[p] = k.rows[p]
        BY <1>2, <2>3, <2>4, <3>4
      <3> QED
        BY <2>1, <3>1, <3>2, <3>3, <3>4
    <2>12. l = "customer" /\ k.at = "own" /\ MadeUp(Partner(c)) => rows[Partner(c)].customer # NoName
      BY <1>4, <1>5, <1>9, <2>4
    <2> QED
      BY <1>1, <2>2, <2>4, <2>7, <2>8, <2>10, <2>11, <2>12, AfterNamesake DEF l, u
  <1> QED
    BY <1>6, <1>7, <1>8, <1>9

LEMMA StoresParent == ASSUME PartnersInv, NEW c \in Clerks, StoreParent(c) PROVE PartnersInv'
  <1> DEFINE k == call[c]
  <1>1. k.at = "parent" /\ k.todo = <<>> /\ listed' = listed
    BY DEF StoreParent
  <1>2. /\ k \in CallRecord /\ book \in AddressBooks /\ GoodLinks(k, contact, listed) /\ GoodSends(k, listed)
        /\ Partner(c) = k.partner /\ Partner(c) \in Contacts /\ k.rows \in LinkRows
        /\ listed \in Catalogue /\ Taken(listed, listed) /\ Parent(c) = book.parent[k.partner]
        /\ Parent(c) \in Contacts /\ ~ Single(Partner(c)) /\ ~ Single(Parent(c))
        /\ DataOf(k) = Parent(c)
    BY <1>1, AtDesk DEF GoodSends, DataOf
  <1>3. CASE k.answer = NoName
    <2> DEFINE new == [k EXCEPT !.at = "more"]
    <2>1. Go(c, new)
      BY <1>3 DEF StoreParent
    <2>2. new \in CallRecord /\ new.at = "more" /\ new.partner = k.partner /\ new.rows = k.rows
          /\ new.base = k.base
      BY <1>2, CallFields
    <2> HIDE DEF new
    <2>3. GoodEnd(new)
      BY <1>2, <2>2 DEF GoodEnd, MadeUp
    <2> QED
      BY <1>1, <2>1, <2>2, <2>3, MovesOn
  <1>4. CASE k.answer # NoName
    <2> DEFINE f == Parent(c)
               id == k.answer
               t == SendTo(Partner(c))
               rows == Adopted(k.rows, f, id)
               k1 == [k EXCEPT !.at = "own"]
               k2 == [k1 EXCEPT !.todo = t]
               k3 == [k2 EXCEPT !.answer = NoName]
               k4 == [k3 EXCEPT !.rows = rows]
    <2>1. [k EXCEPT !.at = "own", !.todo = SendTo(Partner(c)), !.answer = NoName,
                    !.rows = Adopted(@, Parent(c), k.answer)] = k4
      BY DEF CallRecord
    <2>2. Go(c, k4)
      BY <1>4, <2>1 DEF StoreParent
    <2>3. /\ t \in Seq(Lists) /\ t # <<>> /\ \A i \in 1 .. Len(t) : Partner(c) \in Ranked(t[i])
          /\ OneRank(Partner(c)) => Len(t) = 1
      BY <1>2, SentTo
    <2>4. /\ f \in Contacts /\ id = book.name[f] /\ id \in DisplayNames /\ id # NoName
          /\ \E l \in Lists : Partner(c) \in Ranked(l) /\ listed[book.name[f]] = l
      BY <1>2, <1>4, BookFacts DEF GoodSends
    <2>5. /\ rows \in LinkRows /\ \A q \in Contacts \ {f} : rows[q] = k.rows[q]
          /\ rows[f].customer = IF f \in book.customer THEN id ELSE k.rows[f].customer
          /\ rows[f].vendor = IF f \in book.supplier THEN id ELSE k.rows[f].vendor
      BY <1>2, <2>4, AdoptedFields
    <2>6. k \in CallRecord /\ t \in Seq(Lists)
      BY <1>2, <2>3
    <2> HIDE DEF t, rows
    <2>7. /\ k1 \in CallRecord /\ k1.at = "own" /\ k1.partner = k.partner /\ k1.base = k.base
      BY <2>6 DEF CallRecord
    <2> HIDE DEF k1
    <2>8. /\ k2 \in CallRecord /\ k2.at = "own" /\ k2.partner = k.partner /\ k2.base = k.base /\ k2.todo = t
      BY <2>6, <2>7 DEF CallRecord
    <2> HIDE DEF k2
    <2>9. /\ k3 \in CallRecord /\ k3.at = "own" /\ k3.partner = k.partner /\ k3.base = k.base /\ k3.todo = t
          /\ k3.answer = NoName
      BY <2>8 DEF CallRecord
    <2> HIDE DEF k3
    <2>10. /\ k4 \in CallRecord /\ k4.at = "own" /\ k4.partner = k.partner /\ k4.base = k.base /\ k4.todo = t
           /\ k4.answer = NoName /\ k4.rows = rows
      BY <2>5, <2>9 DEF CallRecord
    <2> HIDE DEF k4
    <2>11. GoodSends(k4, listed)
      BY <1>2, <2>3, <2>10 DEF GoodSends
    <2>12. GoodEnd(k4)
      BY <2>3, <2>10 DEF GoodEnd
    <2>13. TrueRow(f, rows[f], listed)
      <3>1. ASSUME OneRank(f)
            PROVE  listed[book.name[f]] = Role(f) /\ Role(f) \in Lists
                   /\ (f \in book.customer <=> Role(f) = "customer") /\ (f \in book.supplier => Role(f) = "vendor")
        <4>1. Partner(c) \in Family(f)
          BY <1>2 DEF Family, Children
        <4> QED
          BY <1>2, <2>4, <3>1, <4>1, Ranks
      <3>2. TrueRow(f, k.rows[f], listed)
        BY <1>2, <2>4 DEF GoodLinks
      <3> QED
        BY <2>4, <2>5, <3>1, <3>2 DEF TrueRow
    <2>14. GoodLinks(k4, contact, listed)
      <3>1. Kept(k.base, rows) /\ Kept(k.base, contact)
        BY <1>2, <2>4, <2>5 DEF GoodLinks, Kept
      <3>2. \A q \in Contacts : TrueRow(q, rows[q], listed)
        BY <1>2, <2>5, <2>13 DEF GoodLinks
      <3>3. \A q \in Contacts : FlagTold(q, rows[q])
        <4>1. \A q \in Contacts : FlagTold(q, k.rows[q])
          BY <1>1, <1>2 DEF GoodLinks
        <4>2. FlagTold(f, rows[f])
          BY <1>2 DEF FlagTold
        <4> QED
          BY <2>5, <4>1, <4>2
      <3>4. k4.partner \in Contacts /\ k4.base \in LinkRows
        BY <1>2, <2>10 DEF GoodLinks
      <3> QED
        BY <2>5, <2>10, <3>1, <3>2, <3>3, <3>4 DEF GoodLinks
    <2>15. GoodCall(k4, contact, listed')
      BY <1>1, <2>10, <2>11, <2>12, <2>14 DEF GoodCall
    <2> QED
      BY <1>1, <1>2, <2>2, <2>15, Goes
  <1> QED
    BY <1>3, <1>4

LEMMA StoresContact == ASSUME PartnersInv, NEW c \in Clerks, StoreContact(c) PROVE PartnersInv'
  <1> DEFINE k == call[c]
             p == Partner(c)
             done == [k EXCEPT !.at = "more"]
  <1>1. k.at = "own" /\ k.todo = <<>> /\ listed' = listed
    BY DEF StoreContact
  <1>2. /\ k \in CallRecord /\ book \in AddressBooks /\ GoodLinks(k, contact, listed) /\ GoodSends(k, listed)
        /\ p = k.partner /\ p \in Contacts /\ k.rows \in LinkRows /\ GoodEnd(k)
        /\ listed \in Catalogue /\ Taken(listed, listed) /\ DataOf(k) = p
    BY <1>1, AtDesk DEF DataOf
  <1>3. done \in CallRecord /\ done.at = "more" /\ done.partner = p /\ done.rows = k.rows /\ done.base = k.base
    BY <1>2, CallFields
  <1>4. CASE k.answer = NoName
    <2>1. Go(c, done)
      BY <1>4 DEF StoreContact
    <2> HIDE DEF done
    <2>2. GoodEnd(done)
      BY <1>1, <1>2, <1>3, <1>4 DEF GoodEnd
    <2> QED
      BY <1>1, <1>2, <1>3, <1>4, <2>1, <2>2, MovesOn
  <1>5. CASE k.answer # NoName
    <2> DEFINE id == k.answer
               u == WithId(k.rows, p, Role(p), id)
               rows == WithFlag(u, p)
    <2>1. CommitAndGo(c, rows, done)
      <3>1. [k.rows EXCEPT ![p][Role(p)] = id, ![p].exported = TRUE] = rows
        BY DEF WithId, WithFlag
      <3> QED
        BY <1>5, <3>1 DEF StoreContact
    <2>2. /\ id = book.name[p] /\ id \in DisplayNames /\ id # NoName
          /\ \E l \in Lists : p \in Ranked(l) /\ listed[book.name[p]] = l
      BY <1>2, <1>5, BookFacts DEF GoodSends
    <2>3. Role(p) \in Lists /\ p \in Ranked(Role(p))
          /\ (OneRank(p) => \A l \in Lists : p \in Ranked(l) => l = Role(p))
      BY <1>2, Ranks DEF Family
    <2>4. /\ u \in LinkRows /\ \A q \in Contacts \ {p} : u[q] = k.rows[q]
          /\ u[p].customer = IF Role(p) = "customer" THEN id ELSE k.rows[p].customer
          /\ u[p].vendor = IF Role(p) = "vendor" THEN id ELSE k.rows[p].vendor
      BY <1>2, <2>2, <2>3, LinkFields
    <2> HIDE DEF u
    <2>5. /\ rows \in LinkRows /\ \A q \in Contacts \ {p} : rows[q] = k.rows[q]
          /\ rows[p].customer = IF Role(p) = "customer" THEN id ELSE k.rows[p].customer
          /\ rows[p].vendor = IF Role(p) = "vendor" THEN id ELSE k.rows[p].vendor
      BY <1>2, <2>4, FlagFields
    <2> HIDE DEF rows, done
    <2>6. Kept(k.base, rows)
      BY <1>2, <2>2, <2>5 DEF GoodLinks, Kept
    <2>7. \A q \in Contacts : TrueRow(q, rows[q], listed') /\ FlagTold(q, rows[q])
      <3> TAKE q \in Contacts
      <3>1. CASE q # p
        BY <1>1, <1>2, <2>5, <3>1 DEF GoodLinks
      <3>2. CASE q = p
        <4>1. TrueRow(p, k.rows[p], listed)
          BY <1>2 DEF GoodLinks
        <4>2. TrueRow(p, rows[p], listed)
          BY <2>2, <2>3, <2>5, <4>1 DEF TrueRow, Lists
        <4>3. FlagTold(p, rows[p])
          BY <2>2, <2>3, <2>5 DEF FlagTold, Lists
        <4> QED
          BY <1>1, <3>2, <4>2, <4>3
      <3> QED
        BY <3>1, <3>2
    <2>8. MadeUp(p) => rows[p].customer # NoName
      BY <2>2, <2>5 DEF MadeUp
    <2> QED
      BY <1>1, <1>2, <1>3, <2>1, <2>5, <2>6, <2>7, <2>8, Commits
  <1> QED
    BY <1>4, <1>5

LEMMA EndsContact == ASSUME PartnersInv, NEW c \in Clerks, EndContact(c) PROVE PartnersInv'
  <1>1. call[c].at = "more" /\ listed' = listed /\ CommitAndGo(c, call[c].rows, NoCall)
    BY DEF EndContact
  <1>2. /\ GoodLinks(call[c], contact, listed) /\ call[c].rows \in LinkRows
        /\ listed \in Catalogue /\ Taken(listed, listed)
    BY <1>1, AtDesk
  <1>3. \A p \in Contacts : TrueRow(p, call[c].rows[p], listed') /\ FlagTold(p, call[c].rows[p])
    BY <1>1, <1>2 DEF GoodLinks
  <1>4. Kept(call[c].base, call[c].rows)
    BY <1>2 DEF GoodLinks
  <1> QED
    BY <1>1, <1>2, <1>3, <1>4, AtIdle, Commits

LEMMA PartnersBegin == ContactInit => PartnersInv
  <1> SUFFICES ASSUME ContactInit PROVE PartnersInv
    OBVIOUS
  <1>1. book \in AddressBooks /\ call = [c \in Clerks |-> NoCall] /\ contact = NoLinks
        /\ listed \in [DisplayNames -> {"free", "customer", "other"}]
    BY DEF ContactInit
  <1>2. contact \in LinkRows /\ \A p \in Contacts : /\ contact[p].customer = NoName
                                                    /\ contact[p].vendor = NoName /\ ~ contact[p].exported
    BY <1>1 DEF NoLinks, Unlinked, LinkRows, LinkRow
  <1>3. listed \in Catalogue
    BY <1>1 DEF Catalogue, Lists
  <1>4. GoodRows(contact, listed)
    BY <1>2, <1>3 DEF GoodRows, TrueRow, FlagTold
  <1>5. GoodCall(NoCall, contact, listed)
    BY AtIdle DEF GoodCall
  <1> QED
    BY <1>1, <1>4, <1>5, AtIdle DEF PartnersInv

LEMMA PartnersRight == PartnersInv => QbContacts
  <1> SUFFICES ASSUME PartnersInv PROVE QbContacts
    OBVIOUS
  <1>1. /\ book \in AddressBooks /\ contact \in LinkRows
        /\ \A p \in Contacts : TrueRow(p, contact[p], listed) /\ FlagTold(p, contact[p])
    BY DEF PartnersInv, GoodRows
  <1>2. TrueLinks
    <2> SUFFICES ASSUME NEW p \in Contacts, NEW l \in Lists, contact[p][l] # NoName, OneRank(p)
                 PROVE  contact[p][l] = book.name[p] /\ listed[book.name[p]] \in {l, "customer"}
      BY DEF TrueLinks
    <2>1. CASE l = "customer"
      BY <1>1, <2>1 DEF TrueRow
    <2>2. CASE l = "vendor"
      BY <1>1, <2>2 DEF TrueRow
    <2> QED
      BY <2>1, <2>2 DEF Lists
  <1>3. FlaggedLinked
    <2> SUFFICES ASSUME NEW p \in Contacts, contact[p].exported, OneRank(p), Family(p) = {p},
                        \A q \in Contacts : book.name[q] = book.given[p] => q = p
                 PROVE  contact[p][Role(p)] # NoName
      BY DEF FlaggedLinked
    <2>1. CASE Role(p) = "customer"
      BY <1>1, <2>1 DEF FlagTold, Single
    <2>2. CASE Role(p) = "vendor"
      BY <1>1, <2>2 DEF FlagTold, Single
    <2> QED
      BY <2>1, <2>2 DEF Role
  <1>4. RetryLinks
    <2> SUFFICES ASSUME NEW c \in Clerks, call[c].at = "more", Role(Partner(c)) = "customer",
                        OneRank(Partner(c)), Family(Partner(c)) = {Partner(c)},
                        book.given[Partner(c)] = book.name[Partner(c)],
                        \A q \in Contacts \ {Partner(c)} : book.name[q] # book.name[Partner(c)]
                 PROVE  call[c].rows[Partner(c)].customer # NoName
      BY DEF RetryLinks
    <2>1. GoodEnd(call[c]) /\ Partner(c) = call[c].partner
      BY AtDesk
    <2> QED
      BY <2>1 DEF GoodEnd, MadeUp, Single
  <1> QED
    BY <1>2, <1>3, <1>4 DEF QbContacts

(* QbContacts: a stored id is that of the partner's own name in the list   *)
(* of its rank, a flag tells of an id, and an export makes up for one that *)
(* was lost, for any partners, families, names and requests that overlap.  *)
THEOREM PartnersLinked == ContactSpec => []QbContacts
  <1>1. PartnersInv /\ [ContactNext]_contactvars => PartnersInv'
    <2> SUFFICES ASSUME PartnersInv, [ContactNext]_contactvars PROVE PartnersInv'
      OBVIOUS
    <2>1. CASE UNCHANGED contactvars
      <3>1. book' = book /\ contact' = contact /\ listed' = listed /\ call' = call
        BY <2>1 DEF contactvars
      <3> QED
        BY <3>1, BookStays DEF PartnersInv
    <2>2. ASSUME NEW c \in Clerks, NEW p \in Contacts, BeginContact(c, p) PROVE PartnersInv'
      BY <2>2, BeginsContact
    <2>3. ASSUME NEW c \in Clerks, UpdateContact(c) PROVE PartnersInv'
      BY <2>3, UpdatesContact
    <2>4. ASSUME NEW c \in Clerks, CheckParent(c) \/ ExportAlone(c) PROVE PartnersInv'
      BY <2>4, ChecksParent
    <2>5. ASSUME NEW c \in Clerks, PostContact(c) PROVE PartnersInv'
      BY <2>5, PostsContact
    <2>6. ASSUME NEW c \in Clerks, RefuseContact(c) PROVE PartnersInv'
      BY <2>6, RefusesContact
    <2>7. ASSUME NEW c \in Clerks, Duplicate(c) PROVE PartnersInv'
      BY <2>7, Duplicates
    <2>8. ASSUME NEW c \in Clerks, StoreParent(c) PROVE PartnersInv'
      BY <2>8, StoresParent
    <2>9. ASSUME NEW c \in Clerks, StoreContact(c) PROVE PartnersInv'
      BY <2>9, StoresContact
    <2>10. ASSUME NEW c \in Clerks, EndContact(c) PROVE PartnersInv'
      BY <2>10, EndsContact
    <2>11. ASSUME NEW c \in Clerks, LoseContact(c) PROVE PartnersInv'
      BY <2>11, LosesContact
    <2> QED
      BY <2>1, <2>2, <2>3, <2>4, <2>5, <2>6, <2>7, <2>8, <2>9, <2>10, <2>11 DEF ContactNext
  <1> QED
    BY <1>1, PartnersBegin, PartnersRight, PTL DEF ContactSpec

-----------------------------------------------------------------------------
(***************************************************************************)
(* Customers of Shopify and their contacts (module ShopifyContacts).       *)
(*                                                                         *)
(* Rows only grow: they get an id or another spelling of their address.    *)
(* What a request has read has grown into what is committed; as long as no *)
(* other request creates rows for its customer, all partners and contacts  *)
(* of the customer were there when it read.                                *)
(***************************************************************************)

IsRoll(q) == \E S : q \in Seq(S)

(* What may have become of a row: an id, another spelling of its address.  *)
SameAddress(a, b) ==
    \/ a.street = b.street /\ a.zip = b.zip
    \/ Whole(a) /\ Whole(b) /\ SamePlace(a, b)
Became(a, b) ==
    /\ b.parent = a.parent /\ b.type = a.type /\ b.phone = a.phone
    /\ a.sid # Null => b.sid = a.sid
    /\ SameAddress(a, b)
Grew(a, b) ==
    /\ IsRoll(a) /\ IsRoll(b) /\ Len(a) <= Len(b)
    /\ \A i \in 1 .. Len(a) : Became(a[i], b[i])

(* The partners with the id of c, and their contacts, are those of before. *)
SameFamily(c, a, b) ==
    /\ WithSid(c, b) = WithSid(c, a)
    /\ \A p \in WithSid(c, b) : ContactsOf(p, b) \subseteq 1 .. Len(a)

Counted(c, m) == c # Null /\ c \notin m

PersonFields(r) ==
    r = [sid |-> r.sid, email |-> r.email, parent |-> r.parent, type |-> r.type,
         street |-> r.street, zip |-> r.zip, phone |-> r.phone]

(* Contacts belong to partners with an id, or to the default one.          *)
GoodPeople(rows) ==
    /\ IsRoll(rows) /\ Len(rows) >= 2 /\ rows[2].sid = Null
    /\ rows[1].sid \in {Null, Newcomer}
    /\ \A i \in 1 .. Len(rows) :
          /\ PersonFields(rows[i]) /\ rows[i].parent \in 0 .. Len(rows)
          /\ rows[i].parent \notin {0, 2} => rows[rows[i].parent].sid # Null

Singles(rows, m) ==
    \A c \in Buyers : c \notin m =>
        /\ \A p, q \in WithSid(c, rows) : p = q
        /\ \A p \in WithSid(c, rows) : \A i, j \in ContactsOf(p, rows) :
              /\ rows[i].type = rows[j].type /\ Whole(rows[i]) /\ Whole(rows[j])
              /\ SamePlace(rows[i], rows[j]) /\ SamePhone(rows[i], rows[j])
              => i = j

(* The contact that order o is delivered to.                               *)
Target(o, partner, k, rows) ==
    /\ partner \in Known(o.customer, rows) /\ k \in 1 .. Len(rows)
    /\ IF o.ship = Null THEN k = partner
       ELSE /\ rows[k].parent = partner /\ rows[k].type = "delivery" /\ rows[k].phone = o.ship.phone
            /\ Whole(o.ship) => Whole(rows[k]) /\ SamePlace(rows[k], o.ship)

Excuse(o, rows, m) ==
    \/ o.customer = Null /\ ~o.maisonette
    \/ o.customer \in m
    \/ \E a \in {o.bill, o.ship} \ {Null} : ~Whole(a)
    \/ \E p \in Known(o.customer, rows) : \E i \in ContactsOf(p, rows) : ~Whole(rows[i])

FewFound(r, m) == (Counted(r.customer, m) \/ r.customer = Null) => \A i, j \in r.found : i = j

GoodRead(r, rows, m) ==
    /\ Grew(r.read, rows) /\ Len(r.read) >= 2
    /\ Counted(r.customer, m) => SameFamily(r.customer, r.read, rows)

GoodChildren(r, rows, m) ==
    r.read # <<>> =>
        /\ Grew(r.read, rows)
        /\ Counted(r.customer, m) => \A i \in ContactsOf(r.partner, rows) :
                                         rows[i].type = "delivery" => i \in 1 .. Len(r.read)

GoodParty(r, feed, rows, m, shop) ==
    /\ r.step \in {"idle", "bill", "deliver", "sell", "store", "fetch"}
    /\ r.step \in {"store", "fetch"} => r.customer \in shop
    /\ r.step \in {"bill", "deliver", "sell"} =>
          r.order \in feed /\ r.customer = r.order.customer /\ r.customer \in shop \cup {Null}
    /\ r.step \in {"bill", "fetch"} => GoodRead(r, rows, m)
    /\ r.step = "bill" => r = [step |-> "bill", customer |-> r.customer, order |-> r.order,
                               read |-> r.read, partner |-> r.partner, found |-> r.found]
    /\ r.step = "store" => /\ r.customer = Newcomer
                           /\ Newcomer \notin m => WithSid(Newcomer, rows) = {}
    /\ r.step \in {"deliver", "sell"} =>
          /\ r.partner \in Known(r.customer, rows) /\ FewFound(r, m)
    /\ r.step = "deliver" => GoodChildren(r, rows, m)
    /\ r.step = "sell" => Target(r.order, r.partner, r.contact, rows)

(* The committed rows, the orders and the customers that Shopify has.      *)
GoodBook(feed, rows, s, refused, m, shop) ==
    /\ GoodPeople(rows) /\ Singles(rows, m)
    /\ s = [o \in feed |-> s[o]]
    /\ \A o \in feed : s[o] # Null => Target(o, s[o].partner, s[o].contact, rows)
    /\ refused \subseteq feed /\ \A o \in refused : Excuse(o, rows, m)
    /\ shop \subseteq Buyers /\ (Newcomer \notin shop => WithSid(Newcomer, rows) = {})

ContactsInv ==
    /\ arrived \in Feeds
    /\ GoodBook(arrived, people, sold, refusals, met, inShopify)
    /\ party = [w \in Parties |-> party[w]]
    /\ \A w \in Parties : GoodParty(party[w], arrived, people, met, inShopify)

-----------------------------------------------------------------------------
(* Lists.                                                                  *)

LEMMA RollFacts ==
    ASSUME NEW q, IsRoll(q)
    PROVE  Len(q) \in Nat /\ DOMAIN q = 1 .. Len(q) /\ q = [i \in 1 .. Len(q) |-> q[i]]
           /\ (q = <<>> <=> Len(q) = 0)
  <1> PICK S : q \in Seq(S)
    BY DEF IsRoll
  <1> QED
    BY EmptySeq

LEMMA RollAppend ==
    ASSUME NEW q, IsRoll(q), NEW x
    PROVE  /\ IsRoll(Append(q, x)) /\ Len(Append(q, x)) = Len(q) + 1
           /\ \A i \in 1 .. Len(q) : Append(q, x)[i] = q[i]
           /\ Append(q, x)[Len(q) + 1] = x
  <1>1. PICK S : q \in Seq(S)
    BY DEF IsRoll
  <1>2. q \in Seq(S \cup {x}) /\ x \in S \cup {x}
    BY <1>1, SeqMonotonic
  <1>3. Append(q, x) \in Seq(S \cup {x}) /\ Len(q) \in Nat
    BY <1>2
  <1> QED
    BY <1>2, <1>3, AppendProperties DEF IsRoll

LEMMA RollFunction ==
    ASSUME NEW n \in Nat, NEW f, f = [i \in 1 .. n |-> f[i]]
    PROVE  IsRoll(f) /\ Len(f) = n
  <1> DEFINE T == {f[i] : i \in 1 .. n}
  <1>1. \A i \in 1 .. n : f[i] \in T
    OBVIOUS
  <1> HIDE DEF T
  <1>2. f \in [1 .. n -> T]
    BY <1>1
  <1>3. f \in Seq(T)
    BY <1>2, IsASeq
  <1>4. Len(f) = n
    BY <1>2, <1>3, LenProperties
  <1> QED
    BY <1>3, <1>4 DEF IsRoll

LEMMA RewrittenRows ==
    ASSUME NEW rows, IsRoll(rows), NEW S, NEW a,
           \A i \in S : i \in 1 .. Len(rows) /\ PersonFields(rows[i])
    PROVE  LET u == Rewritten(rows, S, a)
           IN  /\ IsRoll(u) /\ Len(u) = Len(rows)
               /\ \A i \in 1 .. Len(rows) : i \notin S => u[i] = rows[i]
               /\ \A i \in S : /\ PersonFields(u[i]) /\ u[i].street = a.street /\ u[i].zip = a.zip
                               /\ u[i].sid = rows[i].sid /\ u[i].parent = rows[i].parent
                               /\ u[i].type = rows[i].type /\ u[i].phone = rows[i].phone
  <1> DEFINE u == Rewritten(rows, S, a)
             n == Len(rows)
  <1>1. n \in Nat /\ DOMAIN rows = 1 .. n
    BY RollFacts
  <1>2. u = [i \in 1 .. n |-> IF i \in S THEN [rows[i] EXCEPT !.street = a.street, !.zip = a.zip] ELSE rows[i]]
    BY <1>1 DEF Rewritten
  <1>3. u = [i \in 1 .. n |-> u[i]]
    BY <1>2
  <1> HIDE DEF u
  <1>4. IsRoll(u) /\ Len(u) = n
    BY <1>1, <1>3, RollFunction
  <1>5. ASSUME NEW i \in S
        PROVE  /\ PersonFields(u[i]) /\ u[i].street = a.street /\ u[i].zip = a.zip
               /\ u[i].sid = rows[i].sid /\ u[i].parent = rows[i].parent
               /\ u[i].type = rows[i].type /\ u[i].phone = rows[i].phone
    <2> DEFINE r == rows[i]
               y == [r EXCEPT !.street = a.street]
               v == [y EXCEPT !.zip = a.zip]
    <2>1. u[i] = v
      BY <1>2
    <2>2. PersonFields(r)
      OBVIOUS
    <2> HIDE DEF r
    <2>3. y = [sid |-> r.sid, email |-> r.email, parent |-> r.parent, type |-> r.type,
               street |-> a.street, zip |-> r.zip, phone |-> r.phone]
      BY <2>2 DEF PersonFields
    <2> HIDE DEF y
    <2>4. v = [sid |-> r.sid, email |-> r.email, parent |-> r.parent, type |-> r.type,
               street |-> a.street, zip |-> a.zip, phone |-> r.phone]
      BY <2>3
    <2> HIDE DEF v
    <2> QED
      BY <2>1, <2>4 DEF PersonFields, r
  <1>6. \A i \in 1 .. n : i \notin S => u[i] = rows[i]
    BY <1>2
  <1> QED
    BY <1>4, <1>5, <1>6 DEF u

-----------------------------------------------------------------------------
(* How rows grow.                                                          *)

LEMMA GrewSame ==
    ASSUME NEW a, IsRoll(a)
    PROVE  Grew(a, a)
  <1>1. Len(a) \in Nat
    BY RollFacts
  <1> QED
    BY <1>1 DEF Grew, Became, SameAddress

LEMMA GrewOn ==
    ASSUME NEW a, NEW b, NEW c, Grew(a, b), Grew(b, c)
    PROVE  Grew(a, c)
  <1>1. IsRoll(a) /\ IsRoll(b) /\ IsRoll(c) /\ Len(a) <= Len(b) /\ Len(b) <= Len(c)
    BY DEF Grew
  <1>2. Len(a) \in Nat /\ Len(b) \in Nat /\ Len(c) \in Nat
    BY <1>1, RollFacts
  <1>3. ASSUME NEW i \in 1 .. Len(a)
        PROVE  Became(a[i], c[i])
    <2>1. i \in 1 .. Len(b)
      BY <1>1, <1>2
    <2>2. Became(a[i], b[i]) /\ Became(b[i], c[i])
      BY <2>1 DEF Grew
    <2>3. SameAddress(a[i], c[i])
      BY <2>2 DEF Became, SameAddress, Whole, SamePlace
    <2> QED
      BY <2>2, <2>3 DEF Became
  <1> QED
    BY <1>1, <1>2, <1>3 DEF Grew

LEMMA RowsOf ==
    ASSUME NEW rows, IsRoll(rows)
    PROVE  /\ \A c, i : i \in WithSid(c, rows) <=> i \in 1 .. Len(rows) /\ c # Null /\ rows[i].sid = c
           /\ \A p, i : i \in ContactsOf(p, rows) <=> i \in 1 .. Len(rows) /\ rows[i].parent = p
  <1>1. DOMAIN rows = 1 .. Len(rows)
    BY RollFacts
  <1> QED
    BY <1>1 DEF WithSid, ContactsOf

LEMMA FamilyOn ==
    ASSUME NEW a, NEW b, NEW c, NEW d, Grew(a, b), Grew(b, c),
           SameFamily(d, a, b), SameFamily(d, b, c)
    PROVE  SameFamily(d, a, c)
  <1>1. IsRoll(a) /\ IsRoll(b) /\ IsRoll(c) /\ Len(a) <= Len(b) /\ Len(b) <= Len(c)
    BY DEF Grew
  <1>2. WithSid(d, c) = WithSid(d, a) /\ WithSid(d, c) = WithSid(d, b)
    BY DEF SameFamily
  <1>3. ASSUME NEW p \in WithSid(d, c), NEW i \in ContactsOf(p, c)
        PROVE  i \in 1 .. Len(a)
    <2>1. i \in 1 .. Len(b) /\ c[i].parent = p
      BY <1>1, RowsOf DEF SameFamily
    <2>2. b[i].parent = p
      BY <2>1 DEF Grew, Became
    <2>3. i \in ContactsOf(p, b)
      BY <1>1, <2>1, <2>2, RowsOf
    <2> QED
      BY <1>2, <2>3 DEF SameFamily
  <1> QED
    BY <1>2, <1>3 DEF SameFamily

LEMMA KnownOn ==
    ASSUME NEW a, NEW b, NEW c, Grew(a, b)
    PROVE  Known(c, a) \subseteq Known(c, b)
  <1>1. IsRoll(a) /\ IsRoll(b) /\ Len(a) \in Nat /\ Len(b) \in Nat /\ Len(a) <= Len(b)
    BY RollFacts DEF Grew
  <1>2. ASSUME c # Null, NEW i \in 1 .. Len(a), a[i].sid = c
        PROVE  i \in 1 .. Len(b) /\ b[i].sid = c
    BY <1>1, <1>2 DEF Grew, Became
  <1> QED
    BY <1>1, <1>2, RowsOf DEF Known

LEMMA TargetOn ==
    ASSUME NEW a, NEW b, NEW o, NEW p, NEW k, Grew(a, b), Target(o, p, k, a)
    PROVE  Target(o, p, k, b)
  <1>1. IsRoll(a) /\ IsRoll(b) /\ Len(a) \in Nat /\ Len(b) \in Nat /\ Len(a) <= Len(b)
    BY RollFacts DEF Grew
  <1>2. p \in Known(o.customer, b) /\ k \in 1 .. Len(a) /\ k \in 1 .. Len(b)
    BY <1>1, KnownOn DEF Target
  <1>3. Became(a[k], b[k])
    BY <1>2 DEF Grew
  <1> QED
    BY <1>2, <1>3 DEF Target, Became, SameAddress, Whole, SamePlace

LEMMA ExcuseOn ==
    ASSUME NEW a, NEW b, NEW o, NEW m, NEW n, m \subseteq n, Grew(a, b), Excuse(o, a, m)
    PROVE  Excuse(o, b, n)
  <1>1. IsRoll(a) /\ IsRoll(b) /\ Len(a) \in Nat /\ Len(b) \in Nat /\ Len(a) <= Len(b)
    BY RollFacts DEF Grew
  <1>2. ASSUME NEW p \in Known(o.customer, a), NEW i \in ContactsOf(p, a), ~Whole(a[i])
        PROVE  p \in Known(o.customer, b) /\ i \in ContactsOf(p, b) /\ ~Whole(b[i])
    <2>1. i \in 1 .. Len(a) /\ i \in 1 .. Len(b) /\ a[i].parent = p
      BY <1>1, RowsOf
    <2>2. Became(a[i], b[i])
      BY <2>1 DEF Grew
    <2>3. b[i].parent = p /\ ~Whole(b[i])
      BY <1>2, <2>1, <2>2 DEF Became, SameAddress, Whole
    <2>4. i \in ContactsOf(p, b)
      BY <1>1, <2>1, <2>3, RowsOf
    <2> QED
      BY <2>3, <2>4, KnownOn
  <1> QED
    BY <1>2 DEF Excuse

(* What others do leaves the request where it was, unless it has met them. *)
LEMMA OthersStay ==
    ASSUME NEW a, NEW b, NEW m, NEW n, NEW shop, NEW store, NEW feed, NEW r,
           m \subseteq n, shop \subseteq store, Grew(a, b),
           GoodParty(r, feed, a, m, shop),
           r.step # "idle" /\ Counted(r.customer, n) => SameFamily(r.customer, a, b)
    PROVE  GoodParty(r, feed, b, n, store)
  <1> DEFINE c == r.customer
  <1>1. IsRoll(a) /\ IsRoll(b) /\ Len(a) \in Nat /\ Len(b) \in Nat /\ Len(a) <= Len(b)
    BY RollFacts DEF Grew
  <1>2. Counted(c, n) => Counted(c, m)
    BY DEF Counted
  <1>3. ASSUME r.step \in {"bill", "fetch"}
        PROVE  GoodRead(r, b, n)
    <2>1. GoodRead(r, a, m) /\ r.step # "idle"
      BY <1>3 DEF GoodParty
    <2>2. Grew(r.read, b) /\ Len(r.read) >= 2
      BY <2>1, GrewOn DEF GoodRead
    <2>3. Counted(c, n) => SameFamily(c, r.read, b)
      BY <1>2, <2>1, FamilyOn DEF GoodRead
    <2> QED
      BY <2>2, <2>3 DEF GoodRead
  <1>4. ASSUME r.step = "store"
        PROVE  r.customer = Newcomer /\ (Newcomer \notin n => WithSid(Newcomer, b) = {})
    <2>1. r.customer = Newcomer /\ (Newcomer \notin m => WithSid(Newcomer, a) = {}) /\ r.step # "idle"
      BY <1>4 DEF GoodParty
    <2>2. Newcomer # Null
      BY FeedsAssumption
    <2> QED
      BY <2>1, <2>2 DEF Counted, SameFamily
  <1>5. ASSUME r.step \in {"deliver", "sell"}
        PROVE  r.partner \in Known(c, b) /\ FewFound(r, n)
    <2>1. r.partner \in Known(c, a) /\ FewFound(r, m)
      BY <1>5 DEF GoodParty
    <2> QED
      BY <1>2, <2>1, KnownOn DEF FewFound
  <1>6. ASSUME r.step = "deliver"
        PROVE  GoodChildren(r, b, n)
    <2>1. GoodChildren(r, a, m) /\ r.partner \in Known(c, a) /\ r.step # "idle"
      BY <1>6 DEF GoodParty
    <2>2. r.read # <<>> => Grew(r.read, b)
      BY <2>1, GrewOn DEF GoodChildren
    <2>3. ASSUME r.read # <<>>, Counted(c, n), NEW i \in ContactsOf(r.partner, b), b[i].type = "delivery"
          PROVE  i \in 1 .. Len(r.read)
      <3>1. c # Null /\ r.partner \in WithSid(c, a) /\ SameFamily(c, a, b)
        BY <2>1, <2>3 DEF Counted, Known
      <3>2. i \in 1 .. Len(a) /\ b[i].parent = r.partner
        BY <1>1, <2>3, <3>1, RowsOf DEF SameFamily
      <3>3. a[i].parent = r.partner /\ a[i].type = "delivery"
        BY <2>3, <3>2 DEF Grew, Became
      <3>4. i \in ContactsOf(r.partner, a)
        BY <1>1, <3>2, <3>3, RowsOf
      <3> QED
        BY <1>2, <2>1, <2>3, <3>3, <3>4 DEF GoodChildren
    <2> QED
      BY <2>2, <2>3 DEF GoodChildren
  <1>7. r.step = "sell" => Target(r.order, r.partner, r.contact, b)
    BY TargetOn DEF GoodParty
  <1> QED
    BY <1>3, <1>4, <1>5, <1>6, <1>7 DEF GoodParty

LEMMA RollStays ==
    ASSUME NEW a, NEW b, NEW m, NEW n, NEW shop, NEW store, NEW feed, NEW s, NEW refused,
           m \subseteq n, Grew(a, b), GoodBook(feed, a, s, refused, m, shop),
           GoodPeople(b), Singles(b, n),
           store \subseteq Buyers, Newcomer \notin store => WithSid(Newcomer, b) = {}
    PROVE  GoodBook(feed, b, s, refused, n, store)
  <1>1. \A o \in feed : s[o] # Null => Target(o, s[o].partner, s[o].contact, b)
    BY TargetOn DEF GoodBook
  <1>2. \A o \in refused : Excuse(o, b, n)
    BY ExcuseOn DEF GoodBook
  <1> QED
    BY <1>1, <1>2 DEF GoodBook

-----------------------------------------------------------------------------
(* A row is appended.                                                      *)

LEMMA AppendedFamilies ==
    ASSUME NEW rows, IsRoll(rows), NEW x
    PROVE  LET u == Append(rows, x)
               k == Len(rows) + 1
           IN  /\ \A d : WithSid(d, u) = WithSid(d, rows) \cup {i \in {k} : d # Null /\ x.sid = d}
               /\ \A p : ContactsOf(p, u) = ContactsOf(p, rows) \cup {i \in {k} : x.parent = p}
  <1> DEFINE u == Append(rows, x)
             k == Len(rows) + 1
  <1>1. Len(rows) \in Nat
    BY RollFacts
  <1>2. IsRoll(u) /\ Len(u) = k /\ (\A i \in 1 .. Len(rows) : u[i] = rows[i]) /\ u[k] = x
    BY <1>1, RollAppend
  <1> HIDE DEF u
  <1>3. /\ \A d, i : i \in WithSid(d, u) <=> i \in 1 .. k /\ d # Null /\ u[i].sid = d
        /\ \A p, i : i \in ContactsOf(p, u) <=> i \in 1 .. k /\ u[i].parent = p
    BY <1>2, RowsOf
  <1>4. /\ \A d, i : i \in WithSid(d, rows) <=> i \in 1 .. Len(rows) /\ d # Null /\ rows[i].sid = d
        /\ \A p, i : i \in ContactsOf(p, rows) <=> i \in 1 .. Len(rows) /\ rows[i].parent = p
    BY RowsOf
  <1>5. ASSUME NEW d, NEW i
        PROVE  i \in WithSid(d, u) <=> i \in WithSid(d, rows) \/ (i = k /\ d # Null /\ x.sid = d)
    BY <1>1, <1>2, <1>3, <1>4
  <1>6. ASSUME NEW p, NEW i
        PROVE  i \in ContactsOf(p, u) <=> i \in ContactsOf(p, rows) \/ (i = k /\ x.parent = p)
    BY <1>1, <1>2, <1>3, <1>4
  <1>7. ASSUME NEW d PROVE WithSid(d, u) = WithSid(d, rows) \cup {i \in {k} : d # Null /\ x.sid = d}
    BY <1>5
  <1>8. ASSUME NEW p PROVE ContactsOf(p, u) = ContactsOf(p, rows) \cup {i \in {k} : x.parent = p}
    BY <1>6
  <1> QED
    BY <1>7, <1>8 DEF u

LEMMA AppendedPeople ==
    ASSUME NEW rows, GoodPeople(rows), NEW x, PersonFields(x), x.parent \in 0 .. Len(rows),
           x.parent \notin {0, 2} => rows[x.parent].sid # Null
    PROVE  /\ GoodPeople(Append(rows, x)) /\ Grew(rows, Append(rows, x))
           /\ \A d : /\ d # Null /\ d # x.sid /\ (x.parent \in 1 .. Len(rows) => rows[x.parent].sid # d)
                     => SameFamily(d, rows, Append(rows, x))
  <1> DEFINE u == Append(rows, x)
             n == Len(rows)
  <1>1. IsRoll(rows) /\ n \in Nat /\ n >= 2
    BY RollFacts DEF GoodPeople
  <1>2. IsRoll(u) /\ Len(u) = n + 1 /\ (\A i \in 1 .. n : u[i] = rows[i]) /\ u[n + 1] = x
    BY <1>1, RollAppend
  <1> HIDE DEF u
  <1>3. Grew(rows, u)
    BY <1>1, <1>2 DEF Grew, Became, SameAddress
  <1>4. u[1].sid \in {Null, Newcomer} /\ u[2].sid = Null
    BY <1>1, <1>2 DEF GoodPeople
  <1>5. ASSUME NEW i \in 1 .. n + 1
        PROVE  /\ PersonFields(u[i]) /\ u[i].parent \in 0 .. n + 1
               /\ u[i].parent \notin {0, 2} => u[u[i].parent].sid # Null
    <2>1. CASE i = n + 1
      BY <1>1, <1>2, <2>1
    <2>2. CASE i \in 1 .. n
      <3>1. u[i] = rows[i] /\ PersonFields(rows[i]) /\ rows[i].parent \in 0 .. n
            /\ (rows[i].parent \notin {0, 2} => rows[rows[i].parent].sid # Null)
        BY <1>2, <2>2 DEF GoodPeople
      <3> QED
        BY <1>1, <1>2, <3>1
    <2> QED
      BY <1>1, <2>1, <2>2
  <1>6. GoodPeople(u)
    BY <1>1, <1>2, <1>4, <1>5 DEF GoodPeople
  <1>7. ASSUME NEW d, d # Null, d # x.sid, x.parent \in 1 .. n => rows[x.parent].sid # d
        PROVE  SameFamily(d, rows, u)
    <2>0. WithSid(d, u) = WithSid(d, rows) \cup {i \in {n + 1} : d # Null /\ x.sid = d}
      BY <1>1, AppendedFamilies DEF u
    <2>1. WithSid(d, u) = WithSid(d, rows)
      BY <1>7, <2>0
    <2>2. ASSUME NEW p \in WithSid(d, u), NEW i \in ContactsOf(p, u)
          PROVE  i \in 1 .. n
      <3>1. p \in 1 .. n /\ rows[p].sid = d
        BY <1>1, <2>1, RowsOf
      <3>2. i \in 1 .. n + 1 /\ u[i].parent = p
        BY <1>2, RowsOf
      <3> QED
        BY <1>1, <1>2, <1>7, <3>1, <3>2
    <2> QED
      BY <2>1, <2>2 DEF SameFamily
  <1> QED
    BY <1>3, <1>6, <1>7 DEF u

LEMMA PartnerAdded ==
    ASSUME NEW rows, GoodPeople(rows), NEW x, PersonFields(x), x.parent = 0,
           NEW m, NEW n, m \subseteq n, Singles(rows, m),
           x.sid \in Buyers /\ x.sid \notin n => WithSid(x.sid, rows) = {}
    PROVE  Singles(Append(rows, x), n)
  <1> DEFINE u == Append(rows, x)
             k == Len(rows)
  <1>1. IsRoll(rows) /\ k \in Nat /\ k >= 2 /\ \A i \in 1 .. k : rows[i].parent \in 0 .. k
    BY RollFacts DEF GoodPeople
  <1>2. IsRoll(u) /\ Len(u) = k + 1 /\ (\A i \in 1 .. k : u[i] = rows[i]) /\ u[k + 1] = x
    BY <1>1, RollAppend
  <1> HIDE DEF u
  <1>a. /\ \A d : WithSid(d, u) = WithSid(d, rows) \cup {i \in {k + 1} : d # Null /\ x.sid = d}
        /\ \A p : ContactsOf(p, u) = ContactsOf(p, rows) \cup {i \in {k + 1} : x.parent = p}
    BY <1>1, AppendedFamilies DEF u
  <1>3. ASSUME NEW p \in 1 .. k PROVE ContactsOf(p, u) = ContactsOf(p, rows)
    <2>1. {i \in {k + 1} : x.parent = p} = {}
      BY <1>1
    <2> QED
      BY <1>a, <2>1
  <1>4. ContactsOf(k + 1, u) = {}
    BY <1>1, <1>2, RowsOf
  <1>5. \A p, i : i \in ContactsOf(p, rows) => u[i] = rows[i]
    BY <1>1, <1>2, RowsOf
  <1>6. ASSUME NEW c \in Buyers, c \notin n
        PROVE  /\ \A p, q \in WithSid(c, u) : p = q
               /\ \A p \in WithSid(c, u) : \A i, j \in ContactsOf(p, u) :
                    /\ u[i].type = u[j].type /\ Whole(u[i]) /\ Whole(u[j])
                    /\ SamePlace(u[i], u[j]) /\ SamePhone(u[i], u[j])
                    => i = j
    <2>1. CASE c = x.sid
      <3>1. WithSid(c, u) \subseteq {k + 1}
        BY <1>6, <1>a, <2>1
      <3> QED
        BY <1>4, <3>1
    <2>2. CASE c # x.sid
      <3>1. WithSid(c, u) = WithSid(c, rows)
        BY <1>a, <2>2
      <3>0. \A p \in WithSid(c, rows) : p \in 1 .. k
        BY <1>1, RowsOf
      <3>2. c \notin m
        BY <1>6
      <3> QED
        BY <1>3, <1>5, <3>0, <3>1, <3>2 DEF Singles
    <2> QED
      BY <2>1, <2>2
  <1> QED
    BY <1>6 DEF Singles, u

(* A contact is added when none of its kind was found in what was read.    *)
LEMMA ContactAdded ==
    ASSUME NEW rows, GoodPeople(rows), NEW x, x.sid = Null, NEW m, NEW n, m \subseteq n,
           x.parent \in 1 .. Len(rows), NEW c, x.parent \in Known(c, rows),
           Singles(rows, m),
           c \in Buyers /\ c \notin n /\ Whole(x) /\ x.phone # Null =>
               \A i \in ContactsOf(x.parent, rows) :
                   /\ rows[i].type = x.type /\ Whole(rows[i]) /\ SamePlace(rows[i], x)
                   => rows[i].phone # x.phone
    PROVE  Singles(Append(rows, x), n)
  <1> DEFINE u == Append(rows, x)
             k == Len(rows)
  <1>1. IsRoll(rows) /\ k \in Nat /\ k >= 2 /\ rows[2].sid = Null
    BY RollFacts DEF GoodPeople
  <1>2. IsRoll(u) /\ Len(u) = k + 1 /\ (\A i \in 1 .. k : u[i] = rows[i]) /\ u[k + 1] = x
    BY <1>1, RollAppend
  <1> HIDE DEF u
  <1>a. /\ \A d : WithSid(d, u) = WithSid(d, rows) \cup {i \in {k + 1} : d # Null /\ x.sid = d}
        /\ \A p : ContactsOf(p, u) = ContactsOf(p, rows) \cup {i \in {k + 1} : x.parent = p}
    BY <1>1, AppendedFamilies DEF u
  <1>3. \A d : WithSid(d, u) = WithSid(d, rows)
    BY <1>a
  <1>4. \A p : p # x.parent => ContactsOf(p, u) = ContactsOf(p, rows)
    BY <1>a
  <1>5. ContactsOf(x.parent, u) = ContactsOf(x.parent, rows) \cup {k + 1}
    BY <1>a
  <1>6. \A p, i : i \in ContactsOf(p, rows) => u[i] = rows[i]
    BY <1>1, <1>2, RowsOf
  <1>7. \A p : p \in Known(c, rows) => p = 2 \/ (c # Null /\ rows[p].sid = c)
    BY <1>1, RowsOf DEF Known
  <1>8. ASSUME NEW d \in Buyers, d \notin n, NEW p \in WithSid(d, rows),
               NEW i \in ContactsOf(p, u), NEW j \in ContactsOf(p, u),
               u[i].type = u[j].type, Whole(u[i]), Whole(u[j]),
               SamePlace(u[i], u[j]), SamePhone(u[i], u[j])
        PROVE  i = j
    <2>1. d \notin m
      BY <1>8
    <2>2. CASE i \in ContactsOf(p, rows) /\ j \in ContactsOf(p, rows)
      BY <1>6, <1>8, <2>1, <2>2 DEF Singles
    <2>3. CASE ~(i \in ContactsOf(p, rows) /\ j \in ContactsOf(p, rows)) /\ i # j
      <3>1. p = x.parent /\ (i = k + 1 \/ j = k + 1)
        BY <1>4, <1>5, <2>3
      <3>2. d = c
        BY <1>1, <1>7, <3>1, RowsOf
      <3>3. PICK h \in ContactsOf(p, rows) :
               {h, k + 1} = {i, j} /\ rows[h].type = x.type /\ Whole(rows[h])
               /\ SamePlace(rows[h], x) /\ rows[h].phone = x.phone /\ x.phone # Null /\ Whole(x)
        <4>1. CASE i = k + 1
          <5>1. j \in ContactsOf(p, rows) /\ u[i] = x /\ u[j] = rows[j]
            BY <1>2, <1>5, <1>6, <2>3, <3>1, <4>1
          <5> QED
            BY <1>8, <4>1, <5>1 DEF SamePlace, SamePhone
        <4>2. CASE j = k + 1
          <5>1. i \in ContactsOf(p, rows) /\ u[j] = x /\ u[i] = rows[i]
            BY <1>2, <1>5, <1>6, <2>3, <3>1, <4>2
          <5> QED
            BY <1>8, <4>2, <5>1 DEF SamePlace, SamePhone
        <4> QED
          BY <3>1, <4>1, <4>2
      <3> QED
        BY <1>8, <3>1, <3>2, <3>3
    <2> QED
      BY <2>2, <2>3
  <1>9. \A d \in Buyers : d \notin n => \A p, q \in WithSid(d, rows) : p = q
    BY DEF Singles
  <1>10. Singles(u, n)
    BY <1>3, <1>8, <1>9 DEF Singles
  <1> QED
    BY <1>10 DEF u

-----------------------------------------------------------------------------
(* Rows are rewritten.                                                     *)

LEMMA RewrittenPeople ==
    ASSUME NEW rows, GoodPeople(rows), NEW S, NEW a, NEW m, Singles(rows, m),
           \A i \in S : i \in 1 .. Len(rows) /\ Whole(rows[i]) /\ Whole(a) /\ SamePlace(rows[i], a)
    PROVE  LET u == Rewritten(rows, S, a)
           IN  /\ GoodPeople(u) /\ Grew(rows, u) /\ Singles(u, m) /\ Len(u) = Len(rows)
               /\ \A d : SameFamily(d, rows, u)
               /\ \A i \in S : SamePlace(u[i], a) /\ Whole(u[i])
               /\ \A d : WithSid(d, u) = WithSid(d, rows)
  <1> DEFINE u == Rewritten(rows, S, a)
             n == Len(rows)
  <1>1. IsRoll(rows) /\ n \in Nat /\ n >= 2 /\ \A i \in 1 .. n : PersonFields(rows[i])
    BY RollFacts DEF GoodPeople
  <1>2. /\ IsRoll(u) /\ Len(u) = n
        /\ \A i \in 1 .. n : i \notin S => u[i] = rows[i]
        /\ \A i \in S : /\ PersonFields(u[i]) /\ u[i].street = a.street /\ u[i].zip = a.zip
                        /\ u[i].sid = rows[i].sid /\ u[i].parent = rows[i].parent
                        /\ u[i].type = rows[i].type /\ u[i].phone = rows[i].phone
    BY <1>1, RewrittenRows
  <1> HIDE DEF u
  <1>3. \A i \in S : SamePlace(u[i], a) /\ Whole(u[i])
    BY <1>2 DEF SamePlace, Whole
  <1>4. ASSUME NEW i \in 1 .. n
        PROVE  /\ PersonFields(u[i]) /\ Became(rows[i], u[i]) /\ u[i].sid = rows[i].sid
    <2>1. CASE i \in S
      <3>1. SameAddress(rows[i], u[i])
        BY <1>2, <1>3, <2>1 DEF SameAddress, SamePlace
      <3> QED
        BY <1>2, <2>1, <3>1 DEF Became
    <2>2. CASE i \notin S
      BY <1>1, <1>2, <2>2 DEF Became, SameAddress
    <2> QED
      BY <2>1, <2>2
  <1>5. Grew(rows, u)
    BY <1>1, <1>2, <1>4 DEF Grew
  <1>6. \A i \in 1 .. n : u[i].parent = rows[i].parent /\ u[i].sid = rows[i].sid
    BY <1>4 DEF Became
  <1>a. /\ \A d, i : i \in WithSid(d, u) <=> i \in WithSid(d, rows)
        /\ \A p, i : i \in ContactsOf(p, u) <=> i \in ContactsOf(p, rows)
    <2>1. /\ \A d, i : i \in WithSid(d, u) <=> i \in 1 .. n /\ d # Null /\ u[i].sid = d
          /\ \A p, i : i \in ContactsOf(p, u) <=> i \in 1 .. n /\ u[i].parent = p
      BY <1>2, RowsOf
    <2>2. /\ \A d, i : i \in WithSid(d, rows) <=> i \in 1 .. n /\ d # Null /\ rows[i].sid = d
          /\ \A p, i : i \in ContactsOf(p, rows) <=> i \in 1 .. n /\ rows[i].parent = p
      BY <1>1, RowsOf
    <2> QED
      BY <1>6, <2>1, <2>2
  <1>7. ASSUME NEW d PROVE WithSid(d, u) = WithSid(d, rows)
    <2>1. WithSid(d, u) \subseteq WithSid(d, rows)
      BY <1>a
    <2>2. WithSid(d, rows) \subseteq WithSid(d, u)
      BY <1>a
    <2> QED
      BY <2>1, <2>2, Zenon
  <1>8. ASSUME NEW p PROVE ContactsOf(p, u) = ContactsOf(p, rows)
    <2>1. ContactsOf(p, u) \subseteq ContactsOf(p, rows)
      BY <1>a
    <2>2. ContactsOf(p, rows) \subseteq ContactsOf(p, u)
      BY <1>a
    <2> QED
      BY <2>1, <2>2, Zenon
  <1>9. \A d : SameFamily(d, rows, u)
    BY <1>1, <1>7, <1>8, RowsOf DEF SameFamily
  <1>10. GoodPeople(u)
    <2>1. u[1].sid \in {Null, Newcomer} /\ u[2].sid = Null
      BY <1>1, <1>6 DEF GoodPeople
    <2>2. ASSUME NEW i \in 1 .. n
          PROVE  /\ u[i].parent \in 0 .. n
                 /\ u[i].parent \notin {0, 2} => u[u[i].parent].sid # Null
      <3>1. rows[i].parent \in 0 .. n /\ (rows[i].parent \notin {0, 2} => rows[rows[i].parent].sid # Null)
        BY DEF GoodPeople
      <3>2. rows[i].parent \notin {0, 2} => rows[i].parent \in 1 .. n
        BY <1>1, <3>1
      <3> QED
        BY <1>6, <3>1, <3>2
    <2> QED
      BY <1>1, <1>2, <1>4, <2>1, <2>2 DEF GoodPeople
  <1>11. Singles(u, m)
    <2>1. ASSUME NEW c \in Buyers, c \notin m, NEW p \in WithSid(c, u),
                 NEW i \in ContactsOf(p, u), NEW j \in ContactsOf(p, u),
                 u[i].type = u[j].type, Whole(u[i]), Whole(u[j]),
                 SamePlace(u[i], u[j]), SamePhone(u[i], u[j])
          PROVE  i = j
      <3>1. i \in 1 .. n /\ j \in 1 .. n /\ i \in ContactsOf(p, rows) /\ j \in ContactsOf(p, rows)
        BY <1>1, <1>8, RowsOf
      <3>2. Became(rows[i], u[i]) /\ Became(rows[j], u[j])
        BY <1>4, <3>1
      <3>3. rows[i].type = rows[j].type /\ SamePhone(rows[i], rows[j])
        BY <2>1, <3>2 DEF Became, SamePhone
      <3>4. Whole(rows[i]) /\ Whole(rows[j]) /\ SamePlace(rows[i], rows[j])
        BY <2>1, <3>2 DEF Became, SameAddress, Whole, SamePlace
      <3> QED
        BY <1>7, <2>1, <3>1, <3>3, <3>4 DEF Singles
    <2>2. \A c \in Buyers : c \notin m => \A p, q \in WithSid(c, u) : p = q
      BY <1>7 DEF Singles
    <2> QED
      BY <2>1, <2>2 DEF Singles
  <1> QED
    BY <1>2, <1>3, <1>5, <1>7, <1>9, <1>10, <1>11 DEF u

-----------------------------------------------------------------------------
(* What is found among the contacts that were read.                        *)

LEMMA MinimumFound ==
    ASSUME NEW S, S # {}, S \subseteq Nat
    PROVE  Minimum(S) \in S
  <1>1. \E i \in S : \A j \in S : i <= j
    BY LeastNatural
  <1> QED
    BY <1>1 DEF Minimum

LEMMA Unreadable ==
    ASSUME NEW a, NEW b, Grew(a, b), NEW T, NEW p, NEW x, Raises(T, p, x, a)
    PROVE  ~Whole(x) \/ \E i \in ContactsOf(p, b) : ~Whole(b[i])
  <1>1. IsRoll(a) /\ IsRoll(b) /\ Len(a) \in Nat /\ Len(b) \in Nat /\ Len(a) <= Len(b)
    BY RollFacts DEF Grew
  <1>2. PICK i \in ContactsOf(p, a) : ~Readable(a[i], x)
    BY DEF Raises, OfType
  <1>3. i \in 1 .. Len(a) /\ i \in 1 .. Len(b) /\ a[i].parent = p
    BY <1>1, RowsOf
  <1>4. Became(a[i], b[i])
    BY <1>3 DEF Grew
  <1>5. i \in ContactsOf(p, b)
    BY <1>1, <1>3, <1>4, RowsOf DEF Became
  <1>6. ~Whole(a[i]) => ~Whole(b[i])
    BY <1>4 DEF Became, SameAddress, Whole
  <1>7. ~Whole(x) \/ ~Whole(a[i])
    BY <1>2 DEF Readable, Whole
  <1> QED
    BY <1>5, <1>6, <1>7

LEMMA FoundContact ==
    ASSUME NEW a, NEW b, Grew(a, b), NEW T, NEW p, NEW x, ~Raises(T, p, x, a),
           NEW i \in Matches(T, p, x, a)
    PROVE  /\ i \in 1 .. Len(a) /\ i \in 1 .. Len(b) /\ i \in ContactsOf(p, b)
           /\ b[i].parent = p /\ b[i].type = T /\ b[i].phone = x.phone /\ x.phone # Null
           /\ Whole(x) /\ Whole(b[i]) /\ SamePlace(b[i], x)
  <1>1. IsRoll(a) /\ IsRoll(b) /\ Len(a) \in Nat /\ Len(b) \in Nat /\ Len(a) <= Len(b)
    BY RollFacts DEF Grew
  <1>2. i \in ContactsOf(p, a) /\ a[i].type = T /\ SamePlace(a[i], x) /\ SamePhone(a[i], x)
        /\ Readable(a[i], x)
    BY DEF Matches, OfType, Raises
  <1>3. i \in 1 .. Len(a) /\ i \in 1 .. Len(b) /\ a[i].parent = p
    BY <1>1, <1>2, RowsOf
  <1>4. Became(a[i], b[i])
    BY <1>3 DEF Grew
  <1>5. Whole(a[i]) /\ Whole(x)
    BY <1>2 DEF Readable, SamePlace, Whole
  <1>6. Whole(b[i]) /\ SamePlace(b[i], x)
    BY <1>2, <1>4, <1>5 DEF Became, SameAddress, Whole, SamePlace
  <1>7. b[i].parent = p /\ b[i].type = T /\ b[i].phone = x.phone /\ x.phone # Null
    BY <1>2, <1>3, <1>4 DEF Became, SamePhone
  <1>8. i \in ContactsOf(p, b)
    BY <1>1, <1>3, <1>7, RowsOf
  <1> QED
    BY <1>3, <1>5, <1>6, <1>7, <1>8

LEMMA FoundOne ==
    ASSUME NEW a, NEW b, Grew(a, b), NEW T, NEW p, NEW x, ~Raises(T, p, x, a),
           NEW m, Singles(b, m), NEW c \in Buyers, c \notin m, p \in WithSid(c, b),
           NEW i \in Matches(T, p, x, a), NEW j \in Matches(T, p, x, a)
    PROVE  i = j
  <1>1. /\ i \in ContactsOf(p, b) /\ b[i].type = T /\ b[i].phone = x.phone /\ x.phone # Null
        /\ Whole(b[i]) /\ SamePlace(b[i], x)
    BY FoundContact
  <1>2. /\ j \in ContactsOf(p, b) /\ b[j].type = T /\ b[j].phone = x.phone
        /\ Whole(b[j]) /\ SamePlace(b[j], x)
    BY FoundContact
  <1>3. SamePlace(b[i], b[j]) /\ SamePhone(b[i], b[j])
    BY <1>1, <1>2 DEF SamePlace, SamePhone
  <1> QED
    BY <1>1, <1>2, <1>3 DEF Singles

LEMMA NoneFound ==
    ASSUME NEW a, NEW b, Grew(a, b), NEW T, NEW p, NEW x, Matches(T, p, x, a) = {}, x.phone # Null,
           NEW i \in ContactsOf(p, b), i \in 1 .. Len(a), b[i].type = T, Whole(b[i]), SamePlace(b[i], x)
    PROVE  b[i].phone # x.phone
  <1>1. IsRoll(a) /\ IsRoll(b) /\ Len(a) \in Nat /\ Len(b) \in Nat /\ Len(a) <= Len(b)
    BY RollFacts DEF Grew
  <1>2. Became(a[i], b[i]) /\ b[i].parent = p
    BY <1>1, RowsOf DEF Grew
  <1>3. i \in ContactsOf(p, a) /\ a[i].type = T
    BY <1>1, <1>2, RowsOf DEF Became
  <1>4. SamePlace(a[i], x)
    BY <1>2 DEF Became, SameAddress, SamePlace
  <1>5. ~SamePhone(a[i], x)
    BY <1>3, <1>4 DEF Matches, OfType
  <1> QED
    BY <1>2, <1>5 DEF Became, SamePhone

-----------------------------------------------------------------------------
(* The others in a step of one request.                                    *)

OnlyFamily(c, a, b) == \A d : d # Null /\ d # c => SameFamily(d, a, b)

LEMMA StepAssembled ==
    ASSUME ContactsInv, NEW w \in Parties, NEW x,
           arrived' = arrived, Grew(people, people'), met \subseteq met', inShopify \subseteq inShopify',
           party' = [party EXCEPT ![w] = x],
           GoodParty(x, arrived, people', met', inShopify'),
           \A v \in Parties \ {w} : party[v].step # "idle" /\ Counted(party[v].customer, met')
                                    => SameFamily(party[v].customer, people, people'),
           GoodBook(arrived, people', sold', refusals', met', inShopify')
    PROVE  ContactsInv'
  <1>1. party' = [v \in Parties |-> party'[v]] /\ party'[w] = x
    BY DEF ContactsInv
  <1>2. ASSUME NEW v \in Parties
        PROVE  GoodParty(party'[v], arrived, people', met', inShopify')
    <2>1. CASE v = w
      BY <1>1, <2>1
    <2>2. CASE v # w
      <3>1. party'[v] = party[v]
        BY <2>2 DEF ContactsInv
      <3>2. GoodParty(party[v], arrived, people, met, inShopify)
        BY DEF ContactsInv
      <3>3. GoodParty(party[v], arrived, people', met', inShopify')
        BY <2>2, <3>2, OthersStay
      <3> QED
        BY <3>1, <3>3
    <2> QED
      BY <2>1, <2>2
  <1>3. \A v \in Parties : GoodParty(party'[v], arrived', people', met', inShopify')
    BY <1>2
  <1>4. GoodBook(arrived', people', sold', refusals', met', inShopify')
    OBVIOUS
  <1>5. arrived' \in Feeds
    BY DEF ContactsInv
  <1> QED
    BY <1>1, <1>3, <1>4, <1>5 DEF ContactsInv

LEMMA OthersMet ==
    ASSUME NEW w \in Parties, NEW c, Meet(w, c), OnlyFamily(c, people, people')
    PROVE  /\ met \subseteq met'
           /\ \A v \in Parties \ {w} : party[v].step # "idle" /\ Counted(party[v].customer, met')
                                       => SameFamily(party[v].customer, people, people')
  <1>1. met \subseteq met'
    BY DEF Meet
  <1>2. ASSUME NEW v \in Parties \ {w}, party[v].step # "idle", Counted(party[v].customer, met')
        PROVE  party[v].customer # Null /\ party[v].customer # c
    <2>1. party[v].customer # Null /\ party[v].customer \notin met'
      BY <1>2 DEF Counted
    <2>2. ASSUME party[v].customer = c PROVE FALSE
      <3>1. v \in BusyWith(c) \ {w} /\ c # Null
        BY <1>2, <2>1, <2>2 DEF BusyWith
      <3> QED
        BY <2>1, <2>2, <3>1 DEF Meet
    <2> QED
      BY <2>1, <2>2
  <1> QED
    BY <1>1, <1>2 DEF OnlyFamily

-----------------------------------------------------------------------------
(* The steps that change no rows.                                          *)

LEMMA NoRowsChange ==
    ASSUME ContactsInv, NEW w \in Parties, NEW x, UNCHANGED <<arrived, people, met>>,
           inShopify \subseteq inShopify', inShopify' \subseteq Buyers,
           party' = [party EXCEPT ![w] = x],
           GoodParty(x, arrived, people, met, inShopify'),
           GoodBook(arrived, people, sold', refusals', met, inShopify)
    PROVE  ContactsInv'
  <1>1. GoodBook(arrived, people, sold, refusals, met, inShopify) /\ IsRoll(people)
    BY DEF ContactsInv, GoodBook, GoodPeople
  <1>2. Grew(people, people)
    BY <1>1, GrewSame
  <1>3. \A c : SameFamily(c, people, people)
    BY <1>1, RowsOf DEF SameFamily
  <1>4. GoodBook(arrived, people, sold', refusals', met, inShopify')
    BY DEF GoodBook
  <1> QED
    BY <1>2, <1>3, <1>4, StepAssembled

LEMMA IdleGood == ASSUME NEW feed, NEW rows, NEW m, NEW shop PROVE GoodParty(Idle, feed, rows, m, shop)
  BY DEF GoodParty, Idle

LEMMA LoseKeeps ==
    ASSUME ContactsInv, NEW w \in Parties, LoseParty(w)
    PROVE  ContactsInv'
  <1>1. GoodBook(arrived, people, sold', refusals', met, inShopify)
    BY DEF ContactsInv, LoseParty
  <1>2. inShopify' \subseteq Buyers /\ inShopify \subseteq inShopify'
    BY DEF ContactsInv, LoseParty, GoodBook
  <1> QED
    BY <1>1, <1>2, NoRowsChange, IdleGood DEF LoseParty, Return

LEMMA CreateKeeps ==
    ASSUME ContactsInv, NEW w \in Parties, CreateCustomer(w)
    PROVE  ContactsInv'
  <1> DEFINE x == [step |-> "store", customer |-> Newcomer]
  <1>1. inShopify' \subseteq Buyers /\ inShopify \subseteq inShopify' /\ Newcomer \in inShopify'
    BY FeedsAssumption DEF ContactsInv, CreateCustomer, GoodBook
  <1>2. WithSid(Newcomer, people) = {}
    BY DEF ContactsInv, CreateCustomer, GoodBook
  <1>3. GoodParty(x, arrived, people, met, inShopify')
    BY <1>1, <1>2 DEF GoodParty
  <1>4. GoodBook(arrived, people, sold', refusals', met, inShopify)
    BY DEF ContactsInv, CreateCustomer
  <1> QED
    BY <1>1, <1>3, <1>4, NoRowsChange DEF CreateCustomer

LEMMA FreshRead ==
    ASSUME ContactsInv, NEW r, r.read = people
    PROVE  GoodRead(r, people, met)
  <1>1. IsRoll(people) /\ Len(people) >= 2
    BY DEF ContactsInv, GoodBook, GoodPeople
  <1>2. Grew(people, people)
    BY <1>1, GrewSame
  <1>3. SameFamily(r.customer, people, people)
    BY <1>1, RowsOf DEF SameFamily
  <1> QED
    BY <1>1, <1>2, <1>3 DEF GoodRead

LEMMA ImportKeeps ==
    ASSUME ContactsInv, NEW w \in Parties, NEW c \in Buyers, FetchCustomer(w, c)
    PROVE  ContactsInv'
  <1> DEFINE x == [step |-> "fetch", customer |-> c, read |-> people]
  <1>1. inShopify' \subseteq Buyers /\ inShopify \subseteq inShopify' /\ c \in inShopify'
    BY DEF ContactsInv, FetchCustomer, GoodBook
  <1>2. GoodRead(x, people, met)
    BY FreshRead
  <1>3. GoodParty(x, arrived, people, met, inShopify')
    BY <1>1, <1>2 DEF GoodParty
  <1>4. GoodBook(arrived, people, sold', refusals', met, inShopify)
    BY DEF ContactsInv, FetchCustomer
  <1> QED
    BY <1>1, <1>3, <1>4, NoRowsChange DEF FetchCustomer

LEMMA OrderTypes ==
    ASSUME ContactsInv, NEW o \in arrived
    PROVE  o.customer \in Buyers \cup {Null} /\ o.maisonette \in BOOLEAN
  BY FeedsAssumption DEF ContactsInv

LEMMA OrderKeeps ==
    ASSUME ContactsInv, NEW w \in Parties, NEW o \in arrived, BeginOrder(w, o)
    PROVE  ContactsInv'
  <1> DEFINE x == [step |-> "bill", customer |-> o.customer, order |-> o,
                   read |-> people, partner |-> 0, found |-> {}]
  <1>1. inShopify' \subseteq Buyers /\ inShopify \subseteq inShopify'
    BY DEF ContactsInv, BeginOrder, GoodBook
  <1>2. CASE o.customer = Null /\ ~o.maisonette
    <2>1. refusals' = refusals \cup {o} /\ party' = party /\ sold' = sold
      BY <1>2 DEF BeginOrder
    <2>2. party' = [party EXCEPT ![w] = party[w]]
      BY <2>1 DEF ContactsInv
    <2>3. GoodParty(party[w], arrived, people, met, inShopify')
      BY DEF ContactsInv, BeginOrder
    <2>4. Excuse(o, people, met)
      BY <1>2 DEF Excuse
    <2>5. GoodBook(arrived, people, sold', refusals', met, inShopify)
      BY <2>1, <2>4 DEF ContactsInv, GoodBook
    <2> QED
      BY <1>1, <2>2, <2>3, <2>5, NoRowsChange DEF BeginOrder
  <1>3. CASE ~(o.customer = Null /\ ~o.maisonette)
    <2>1. party' = [party EXCEPT ![w] = x] /\ refusals' = refusals /\ sold' = sold
      BY <1>3 DEF BeginOrder
    <2>2. GoodRead(x, people, met)
      BY FreshRead
    <2>3. o.customer \in inShopify' \cup {Null}
      BY OrderTypes DEF BeginOrder
    <2>4. GoodParty(x, arrived, people, met, inShopify')
      BY <2>2, <2>3 DEF GoodParty
    <2>5. GoodBook(arrived, people, sold', refusals', met, inShopify)
      BY <2>1 DEF ContactsInv
    <2> QED
      BY <1>1, <2>1, <2>4, <2>5, NoRowsChange DEF BeginOrder
  <1> QED
    BY <1>2, <1>3

LEMMA SellKeeps ==
    ASSUME ContactsInv, NEW w \in Parties, Sell(w)
    PROVE  ContactsInv'
  <1> DEFINE r == party[w]
             o == r.order
  <1>1. GoodParty(r, arrived, people, met, inShopify) /\ r.step = "sell"
    BY DEF ContactsInv, Sell, Doing
  <1>2. /\ o \in arrived /\ r.customer = o.customer /\ r.customer \in inShopify \cup {Null}
        /\ FewFound(r, met) /\ Target(o, r.partner, r.contact, people)
    BY <1>1 DEF GoodParty
  <1>3. GoodBook(arrived, people, sold, refusals, met, inShopify)
    BY DEF ContactsInv
  <1>4. GoodBook(arrived, people, sold', refusals', met, inShopify)
    <2>1. CASE Cardinality(r.found) > 1
      <3>1. ~ \A i, j \in r.found : i = j
        <4> SUFFICES ASSUME \A i, j \in r.found : i = j PROVE FALSE
          OBVIOUS
        <4>1. CASE r.found = {}
          BY <2>1, <4>1, FS_EmptySet
        <4>2. CASE r.found # {}
          <5>1. PICK i \in r.found : TRUE
            BY <4>2
          <5>2. r.found = {i}
            BY <5>1
          <5>3. Cardinality({i}) = 1
            BY FS_Singleton
          <5> QED
            BY <2>1, <5>2, <5>3
        <4> QED
          BY <4>1, <4>2
      <3>2. r.customer \in met
        BY <1>2, <3>1 DEF FewFound, Counted
      <3>3. Excuse(o, people, met)
        BY <1>2, <3>2 DEF Excuse
      <3>4. refusals' = refusals \cup {o} /\ sold' = sold
        BY <2>1 DEF Sell
      <3> QED
        BY <1>2, <1>3, <3>3, <3>4 DEF GoodBook
    <2>2. CASE ~(Cardinality(r.found) > 1)
      <3> DEFINE z == [partner |-> r.partner, contact |-> r.contact]
      <3>1. refusals' = refusals \ {o} /\ sold' = [sold EXCEPT ![o] = z]
        BY <2>2 DEF Sell
      <3>2. sold = [q \in arrived |-> sold[q]]
        BY <1>3 DEF GoodBook
      <3>3. sold' = [q \in arrived |-> IF q = o THEN z ELSE sold[q]]
        BY <3>1, <3>2
      <3>4. sold' = [q \in arrived |-> sold'[q]]
        BY <3>3
      <3>5. \A q \in arrived : sold'[q] # Null => Target(q, sold'[q].partner, sold'[q].contact, people)
        BY <1>2, <1>3, <3>3 DEF GoodBook
      <3> QED
        BY <1>3, <3>1, <3>4, <3>5 DEF GoodBook
    <2> QED
      BY <2>1, <2>2
  <1>5. inShopify' \subseteq Buyers /\ inShopify \subseteq inShopify'
    BY <1>3 DEF Sell, GoodBook
  <1> QED
    BY <1>4, <1>5, NoRowsChange, IdleGood DEF Sell, Return

-----------------------------------------------------------------------------
(* The import of a customer, and the id that an export stores.             *)

LEMMA RowFields ==
    ASSUME NEW sid, NEW email, NEW parent, NEW type, NEW a, NEW phone
    PROVE  LET x == Row(sid, email, parent, type, a, phone)
           IN  /\ PersonFields(x) /\ x.sid = sid /\ x.parent = parent /\ x.type = type
               /\ x.street = a.street /\ x.zip = a.zip /\ x.phone = phone
  BY DEF Row, PersonFields

(* A partner is added for a customer whose partner was not in what had     *)
(* been read.                                                              *)
LEMMA CustomerAdded ==
    ASSUME ContactsInv, NEW w \in Parties, NEW c \in inShopify, Meet(w, c),
           NEW read, Grew(read, people), Counted(c, met) => SameFamily(c, read, people),
           WithSid(c, read) = {}, NEW email, NEW type
    PROVE  LET x == Row(c, email, 0, type, NoAddress, Null)
               u == Append(people, x)
           IN  /\ GoodPeople(u) /\ Singles(u, met') /\ Grew(people, u) /\ OnlyFamily(c, people, u)
               /\ IsRoll(u) /\ Len(u) = Len(people) + 1 /\ u[Len(people) + 1] = x /\ x.sid = c
  <1> DEFINE x == Row(c, email, 0, type, NoAddress, Null)
             u == Append(people, x)
  <1>1. GoodPeople(people) /\ Singles(people, met) /\ IsRoll(people) /\ c \in Buyers /\ c # Null
    BY FeedsAssumption DEF ContactsInv, GoodBook, GoodPeople
  <1>2. PersonFields(x) /\ x.parent = 0 /\ x.sid = c
    BY RowFields
  <1> HIDE DEF x
  <1>3. Len(people) \in Nat
    BY <1>1, RollFacts
  <1>4. x.parent \in 0 .. Len(people) /\ x.parent \notin 1 .. Len(people)
    BY <1>2, <1>3
  <1>5. GoodPeople(u) /\ Grew(people, u) /\ OnlyFamily(c, people, u)
    BY <1>1, <1>2, <1>4, AppendedPeople DEF OnlyFamily
  <1>6. met \subseteq met'
    BY DEF Meet
  <1>7. c \notin met' => WithSid(c, people) = {}
    BY <1>1, <1>6 DEF Counted, SameFamily
  <1>8. Singles(u, met')
    BY <1>1, <1>2, <1>6, <1>7, PartnerAdded
  <1>9. IsRoll(u) /\ Len(u) = Len(people) + 1 /\ u[Len(people) + 1] = x
    BY <1>1, RollAppend
  <1> QED
    BY <1>2, <1>5, <1>8, <1>9 DEF x

LEMMA NewcomerStays ==
    ASSUME ContactsInv, NEW u, NEW c \in inShopify \cup {Null}, OnlyFamily(c, people, u)
    PROVE  Newcomer \notin inShopify => WithSid(Newcomer, u) = {}
  <1>1. ASSUME Newcomer \notin inShopify
        PROVE  WithSid(Newcomer, u) = {}
    <2>1. Newcomer # Null /\ Newcomer # c
      BY <1>1, FeedsAssumption
    <2>2. WithSid(Newcomer, people) = {}
      BY <1>1 DEF ContactsInv, GoodBook
    <2> QED
      BY <2>1, <2>2 DEF OnlyFamily, SameFamily
  <1> QED
    BY <1>1

LEMMA SaveKeeps ==
    ASSUME ContactsInv, NEW w \in Parties, SaveCustomer(w)
    PROVE  ContactsInv'
  <1> DEFINE r == party[w]
  <1>1. GoodParty(r, arrived, people, met, inShopify) /\ r.step = "fetch"
    BY DEF ContactsInv, SaveCustomer, Doing
  <1>2. r.customer \in inShopify /\ GoodRead(r, people, met)
    BY <1>1 DEF GoodParty
  <1>3. GoodBook(arrived, people, sold, refusals, met, inShopify)
    BY DEF ContactsInv
  <1>4. /\ arrived' = arrived /\ inShopify' = inShopify /\ sold' = sold /\ refusals' = refusals
        /\ party' = [party EXCEPT ![w] = Idle]
    BY DEF SaveCustomer, Return
  <1>5. CASE people' = people /\ met' = met
    <2>1. inShopify' \subseteq Buyers /\ inShopify \subseteq inShopify'
      BY <1>3, <1>4 DEF GoodBook
    <2>2. GoodBook(arrived, people, sold', refusals', met, inShopify)
      BY <1>3, <1>4
    <2> QED
      BY <1>4, <1>5, <2>1, <2>2, NoRowsChange, IdleGood
  <1>6. CASE /\ ~ \E i \in DOMAIN r.read : r.read[i].sid = r.customer \/ r.read[i].email = Email[r.customer]
             /\ people' = Append(people, Row(r.customer, IF Email[r.customer] = Null THEN "" ELSE Email[r.customer],
                                             0, "invoice", NoAddress, Null))
             /\ Meet(w, r.customer)
    <2>1. WithSid(r.customer, r.read) = {}
      BY <1>6 DEF WithSid
    <2>2. /\ GoodPeople(people') /\ Singles(people', met') /\ Grew(people, people')
          /\ OnlyFamily(r.customer, people, people')
      BY <1>2, <1>6, <2>1, CustomerAdded DEF GoodRead
    <2>3. /\ met \subseteq met'
          /\ \A v \in Parties \ {w} : party[v].step # "idle" /\ Counted(party[v].customer, met')
                                       => SameFamily(party[v].customer, people, people')
      BY <1>6, <2>2, OthersMet
    <2>4. Newcomer \notin inShopify' => WithSid(Newcomer, people') = {}
      BY <1>2, <1>4, <2>2, NewcomerStays
    <2>5. inShopify' \subseteq Buyers /\ inShopify \subseteq inShopify'
      BY <1>3, <1>4 DEF GoodBook
    <2>6. GoodBook(arrived, people', sold', refusals', met', inShopify')
      BY <1>3, <1>4, <2>2, <2>3, <2>4, <2>5, RollStays
    <2> QED
      BY <1>4, <2>2, <2>3, <2>5, <2>6, StepAssembled, IdleGood
  <1> QED
    BY <1>5, <1>6 DEF SaveCustomer

LEMMA StoreKeeps ==
    ASSUME ContactsInv, NEW w \in Parties, StoreCustomer(w)
    PROVE  ContactsInv'
  <1> DEFINE r == people[1]
             y == [r EXCEPT !.sid = Newcomer]
             n == Len(people)
  <1>1. GoodParty(party[w], arrived, people, met, inShopify) /\ party[w].step = "store"
    BY DEF ContactsInv, StoreCustomer, Doing
  <1>2. party[w].customer = Newcomer /\ Newcomer \in inShopify /\ (Newcomer \notin met => WithSid(Newcomer, people) = {})
    BY <1>1 DEF GoodParty
  <1>3. GoodBook(arrived, people, sold, refusals, met, inShopify) /\ GoodPeople(people) /\ IsRoll(people)
    BY DEF ContactsInv, GoodBook, GoodPeople
  <1>4. n \in Nat /\ n >= 2 /\ DOMAIN people = 1 .. n /\ people = [i \in 1 .. n |-> people[i]]
    BY <1>3, RollFacts DEF GoodPeople
  <1>5. PersonFields(r) /\ r.sid \in {Null, Newcomer} /\ Newcomer # Null /\ Newcomer \in Buyers
    BY <1>3, <1>4, FeedsAssumption DEF GoodPeople
  <1>6. people' = [i \in 1 .. n |-> IF i = 1 THEN y ELSE people[i]]
    BY <1>4 DEF StoreCustomer
  <1> HIDE DEF r
  <1>7. y = [sid |-> Newcomer, email |-> r.email, parent |-> r.parent, type |-> r.type,
             street |-> r.street, zip |-> r.zip, phone |-> r.phone]
    BY <1>5 DEF PersonFields
  <1> HIDE DEF y
  <1>8. /\ PersonFields(y) /\ y.sid = Newcomer /\ y.parent = r.parent /\ y.type = r.type
        /\ y.street = r.street /\ y.zip = r.zip /\ y.phone = r.phone
    BY <1>7 DEF PersonFields
  <1>9. people' = [i \in 1 .. n |-> people'[i]]
    BY <1>6
  <1>10. IsRoll(people') /\ Len(people') = n
    BY <1>4, <1>9, RollFunction
  <1>11. ASSUME NEW i \in 1 .. n
         PROVE  /\ Became(people[i], people'[i]) /\ PersonFields(people'[i])
                /\ people'[i].sid # people[i].sid => i = 1 /\ people[1].sid = Null
    <2>1. CASE i = 1
      BY <1>4, <1>5, <1>6, <1>8, <2>1 DEF Became, SameAddress, r
    <2>2. CASE i # 1
      <3>1. people'[i] = people[i]
        BY <1>6, <2>2
      <3> QED
        BY <1>3, <3>1 DEF Became, SameAddress, GoodPeople
    <2> QED
      BY <2>1, <2>2
  <1>12. people'[1].sid = Newcomer
    BY <1>4, <1>6, <1>8
  <1>13. Grew(people, people')
    BY <1>3, <1>4, <1>10, <1>11 DEF Grew
  <1>14. GoodPeople(people')
    <2>1. people'[2].sid = Null
      BY <1>3, <1>4, <1>6 DEF GoodPeople
    <2>2. ASSUME NEW i \in 1 .. n
          PROVE  /\ people'[i].parent \in 0 .. n
                 /\ people'[i].parent \notin {0, 2} => people'[people'[i].parent].sid # Null
      <3>1. people[i].parent \in 0 .. n /\ (people[i].parent \notin {0, 2} => people[people[i].parent].sid # Null)
        BY <1>3 DEF GoodPeople
      <3>2. people'[i].parent = people[i].parent
        BY <1>11 DEF Became
      <3>3. people[i].parent \notin {0, 2} => people[i].parent \in 1 .. n
        BY <1>4, <3>1
      <3> QED
        BY <1>11, <3>1, <3>2, <3>3 DEF Became
    <2> QED
      BY <1>4, <1>10, <1>11, <1>12, <2>1, <2>2 DEF GoodPeople
  <1>15. /\ \A d, i : i \in WithSid(d, people') <=> i \in 1 .. n /\ d # Null /\ people'[i].sid = d
         /\ \A p, i : i \in ContactsOf(p, people') <=> i \in 1 .. n /\ people'[i].parent = p
         /\ \A d, i : i \in WithSid(d, people) <=> i \in 1 .. n /\ d # Null /\ people[i].sid = d
         /\ \A p, i : i \in ContactsOf(p, people) <=> i \in 1 .. n /\ people[i].parent = p
    <2>1. /\ \A d, i : i \in WithSid(d, people') <=> i \in 1 .. n /\ d # Null /\ people'[i].sid = d
          /\ \A p, i : i \in ContactsOf(p, people') <=> i \in 1 .. n /\ people'[i].parent = p
      BY <1>10, RowsOf
    <2>2. /\ \A d, i : i \in WithSid(d, people) <=> i \in 1 .. n /\ d # Null /\ people[i].sid = d
          /\ \A p, i : i \in ContactsOf(p, people) <=> i \in 1 .. n /\ people[i].parent = p
      BY <1>3, RowsOf
    <2> QED
      BY <2>1, <2>2
  <1>16. ASSUME NEW d, d # Null, d # Newcomer
         PROVE  WithSid(d, people') = WithSid(d, people)
    <2>1. \A i \in 1 .. n : people'[i].sid = d <=> people[i].sid = d
      BY <1>11, <1>12, <1>16
    <2>2. WithSid(d, people') \subseteq WithSid(d, people)
      BY <1>15, <2>1
    <2>3. WithSid(d, people) \subseteq WithSid(d, people')
      BY <1>15, <2>1
    <2> QED
      BY <2>2, <2>3, Zenon
  <1>17. OnlyFamily(Newcomer, people, people')
    BY <1>15, <1>16 DEF OnlyFamily, SameFamily
  <1>18. Meet(w, Newcomer)
    BY DEF StoreCustomer
  <1>19. /\ met \subseteq met'
         /\ \A v \in Parties \ {w} : party[v].step # "idle" /\ Counted(party[v].customer, met')
                                     => SameFamily(party[v].customer, people, people')
    BY <1>17, <1>18, OthersMet
  <1>20. Singles(people', met')
    <2>1. ASSUME NEW c \in Buyers, c \notin met'
          PROVE  /\ \A p, q \in WithSid(c, people') : p = q
                 /\ \A p \in WithSid(c, people') : \A i, j \in ContactsOf(p, people') :
                       /\ people'[i].type = people'[j].type /\ Whole(people'[i]) /\ Whole(people'[j])
                       /\ SamePlace(people'[i], people'[j]) /\ SamePhone(people'[i], people'[j])
                       => i = j
      <3>1. c \notin met /\ c # Null
        BY <1>19, <2>1, FeedsAssumption
      <3>2. CASE c = Newcomer
        <4>1. \A i \in 1 .. n : people[i].sid # Newcomer
          BY <1>2, <1>5, <1>15, <3>1, <3>2
        <4>2. \A p \in WithSid(c, people') : p = 1
          BY <1>11, <1>15, <3>2, <4>1
        <4>3. people[1].sid = Null
          BY <1>4, <1>5, <4>1 DEF r
        <4>4. \A i \in 1 .. n : people[i].parent # 1
          BY <1>3, <4>3 DEF GoodPeople
        <4>5. ContactsOf(1, people') = {}
          BY <1>11, <1>15, <4>4 DEF Became
        <4> QED
          BY <4>2, <4>5
      <3>3. CASE c # Newcomer
        <4>1. WithSid(c, people') = WithSid(c, people)
          BY <1>16, <3>1, <3>3
        <4>2. \A p : \A i \in ContactsOf(p, people') : i \in ContactsOf(p, people) /\ i \in 1 .. n
          BY <1>11, <1>15 DEF Became
        <4>3. ASSUME NEW i \in 1 .. n
              PROVE  /\ people'[i].type = people[i].type /\ people'[i].phone = people[i].phone
                     /\ people'[i].street = people[i].street /\ people'[i].zip = people[i].zip
          BY <1>6, <1>8 DEF r
        <4> QED
          BY <3>1, <1>3, <4>1, <4>2, <4>3 DEF Singles, GoodBook, Whole, SamePlace, SamePhone
      <3> QED
        BY <3>2, <3>3
    <2> QED
      BY <2>1 DEF Singles
  <1>21. /\ arrived' = arrived /\ inShopify' = inShopify /\ sold' = sold /\ refusals' = refusals
         /\ party' = [party EXCEPT ![w] = Idle]
    BY DEF StoreCustomer, Return
  <1>22. inShopify' \subseteq Buyers /\ inShopify \subseteq inShopify'
    BY <1>3, <1>21 DEF GoodBook
  <1>23. GoodBook(arrived, people', sold', refusals', met', inShopify')
    BY <1>2, <1>3, <1>13, <1>14, <1>19, <1>20, <1>21, <1>22, RollStays
  <1> QED
    BY <1>13, <1>19, <1>21, <1>22, <1>23, StepAssembled, IdleGood

-----------------------------------------------------------------------------
(* Orders: a contact of a partner of customer c is added.                  *)

LEMMA ContactRow ==
    ASSUME ContactsInv, NEW b, GoodPeople(b), Grew(people, b), NEW c, NEW p \in Known(c, b),
           NEW m, NEW k, m \subseteq k, Singles(b, m),
           NEW type, NEW a, NEW phone,
           c \in Buyers /\ c \notin k /\ Whole(a) /\ phone # Null =>
               \A i \in ContactsOf(p, b) :
                   /\ b[i].type = type /\ Whole(b[i]) /\ SamePlace(b[i], a)
                   => b[i].phone # phone
    PROVE  LET x == Row(Null, Null, p, type, a, phone)
               u == Append(b, x)
           IN  /\ GoodPeople(u) /\ Grew(b, u) /\ Singles(u, k) /\ OnlyFamily(c, b, u)
               /\ Len(u) = Len(b) + 1 /\ Len(b) \in Nat /\ u[Len(b) + 1] = x
               /\ \A i \in 1 .. Len(b) : u[i] = b[i]
               /\ x.parent = p /\ x.type = type /\ x.phone = phone /\ (Whole(a) => Whole(x) /\ SamePlace(x, a))
               /\ ContactsOf(p, u) = ContactsOf(p, b) \cup {Len(b) + 1}
  <1> DEFINE x == Row(Null, Null, p, type, a, phone)
             u == Append(b, x)
  <1>1. IsRoll(b) /\ Len(b) \in Nat /\ Len(b) >= 2 /\ b[2].sid = Null
    BY RollFacts DEF GoodPeople
  <1>2. /\ PersonFields(x) /\ x.sid = Null /\ x.parent = p /\ x.type = type /\ x.phone = phone
        /\ x.street = a.street /\ x.zip = a.zip
    BY RowFields
  <1> HIDE DEF x
  <1>3. p \in 1 .. Len(b) /\ (p = 2 \/ (c # Null /\ b[p].sid = c))
    BY <1>1, RowsOf DEF Known
  <1>4. x.parent \in 0 .. Len(b) /\ x.parent \in 1 .. Len(b) /\ (x.parent \notin {0, 2} => b[x.parent].sid # Null)
    BY <1>1, <1>2, <1>3
  <1>5. GoodPeople(u) /\ Grew(b, u)
    BY <1>2, <1>4, AppendedPeople
  <1>6. OnlyFamily(c, b, u)
    <2> SUFFICES ASSUME NEW d, d # Null, d # c PROVE SameFamily(d, b, u)
      BY DEF OnlyFamily
    <2>1. b[x.parent].sid # d /\ d # x.sid
      BY <1>1, <1>2, <1>3
    <2> QED
      BY <1>2, <1>4, <2>1, AppendedPeople
  <1>7. Whole(x) <=> Whole(a)
    BY <1>2 DEF Whole
  <1>8. \A i : SamePlace(b[i], x) <=> SamePlace(b[i], a)
    BY <1>2 DEF SamePlace
  <1>9. Singles(u, k)
    BY <1>2, <1>4, <1>7, <1>8, ContactAdded
  <1>10. Len(u) = Len(b) + 1 /\ u[Len(b) + 1] = x /\ \A i \in 1 .. Len(b) : u[i] = b[i]
    BY <1>1, RollAppend
  <1>11. Whole(a) => Whole(x) /\ SamePlace(x, a)
    BY <1>2 DEF Whole, SamePlace
  <1>12. ContactsOf(p, u) = ContactsOf(p, b) \cup {Len(b) + 1}
    <2>1. ContactsOf(p, u) = ContactsOf(p, b) \cup {i \in {Len(b) + 1} : x.parent = p}
      BY <1>1, AppendedFamilies
    <2> QED
      BY <1>2, <2>1
  <1> QED
    BY <1>1, <1>2, <1>5, <1>6, <1>9, <1>10, <1>11, <1>12 DEF x

(* The exception for an address that cannot be read, or for several        *)
(* contacts where there should be one.                                     *)
LEMMA RefuseKeeps ==
    ASSUME ContactsInv, NEW w \in Parties, NEW o \in arrived, Refuse(w, o), Excuse(o, people, met),
           UNCHANGED <<arrived, people, met, inShopify, sold>>
    PROVE  ContactsInv'
  <1>1. GoodBook(arrived, people, sold, refusals, met, inShopify)
    BY DEF ContactsInv
  <1>2. refusals' = refusals \cup {o} /\ party' = [party EXCEPT ![w] = Idle]
    BY DEF Refuse, Return
  <1>3. GoodBook(arrived, people, sold', refusals', met, inShopify)
    BY <1>1, <1>2 DEF GoodBook
  <1>4. inShopify' \subseteq Buyers /\ inShopify \subseteq inShopify'
    BY <1>1 DEF GoodBook
  <1> QED
    BY <1>2, <1>3, <1>4, NoRowsChange, IdleGood

Billed(r, p, q, f) == [r EXCEPT !.step = "deliver", !.partner = p, !.read = q, !.found = f]

LEMMA BilledFields ==
    ASSUME NEW r, NEW p, NEW q, NEW f,
           r = [step |-> r.step, customer |-> r.customer, order |-> r.order,
                read |-> r.read, partner |-> r.partner, found |-> r.found]
    PROVE  LET z == Billed(r, p, q, f)
           IN  /\ z.step = "deliver" /\ z.customer = r.customer /\ z.order = r.order
               /\ z.read = q /\ z.partner = p /\ z.found = f
  <1> DEFINE a == [r EXCEPT !.step = "deliver"]
             b == [a EXCEPT !.partner = p]
             c == [b EXCEPT !.read = q]
             d == [c EXCEPT !.found = f]
  <1>1. a = [step |-> "deliver", customer |-> r.customer, order |-> r.order,
             read |-> r.read, partner |-> r.partner, found |-> r.found]
    OBVIOUS
  <1> HIDE DEF a
  <1>2. b = [step |-> "deliver", customer |-> r.customer, order |-> r.order,
             read |-> r.read, partner |-> p, found |-> r.found]
    BY <1>1
  <1> HIDE DEF b
  <1>3. c = [step |-> "deliver", customer |-> r.customer, order |-> r.order,
             read |-> q, partner |-> p, found |-> r.found]
    BY <1>2
  <1> HIDE DEF c
  <1>4. d = [step |-> "deliver", customer |-> r.customer, order |-> r.order,
             read |-> q, partner |-> p, found |-> f]
    BY <1>3
  <1> HIDE DEF d
  <1>5. Billed(r, p, q, f) = d
    BY DEF Billed, a, b, c, d
  <1> QED
    BY <1>4, <1>5

(* What a request that bills leaves: the rows and the others are good, and *)
(* it has a partner of the customer.                                       *)
LEMMA BillDone ==
    ASSUME ContactsInv, NEW w \in Parties, Doing(w, "bill"), NEW p, NEW q, NEW f,
           UNCHANGED <<arrived, inShopify, sold, refusals>>,
           party' = [party EXCEPT ![w] = Billed(party[w], p, q, f)],
           GoodPeople(people'), Singles(people', met'), Grew(people, people'),
           OnlyFamily(party[w].customer, people, people'),
           met \subseteq met',
           \A v \in Parties \ {w} : party[v].step # "idle" /\ Counted(party[v].customer, met')
                                    => SameFamily(party[v].customer, people, people'),
           p \in Known(party[w].customer, people'),
           Counted(party[w].customer, met') \/ party[w].customer = Null => \A i, j \in f : i = j,
           q # <<>> => Grew(q, people') /\
               (Counted(party[w].customer, met') =>
                   \A i \in ContactsOf(p, people') : people'[i].type = "delivery" => i \in 1 .. Len(q))
    PROVE  ContactsInv'
  <1> DEFINE r == party[w]
             z == Billed(r, p, q, f)
  <1>1. GoodParty(r, arrived, people, met, inShopify) /\ r.step = "bill"
    BY DEF ContactsInv, Doing
  <1>2. /\ r = [step |-> r.step, customer |-> r.customer, order |-> r.order,
                read |-> r.read, partner |-> r.partner, found |-> r.found]
        /\ r.order \in arrived /\ r.customer = r.order.customer /\ r.customer \in inShopify \cup {Null}
    BY <1>1 DEF GoodParty
  <1>3. /\ z.step = "deliver" /\ z.customer = r.customer /\ z.order = r.order
        /\ z.read = q /\ z.partner = p /\ z.found = f
    BY <1>2, BilledFields
  <1> HIDE DEF z
  <1>4. FewFound(z, met')
    BY <1>3 DEF FewFound
  <1>5. GoodChildren(z, people', met')
    BY <1>3 DEF GoodChildren
  <1>6. GoodParty(z, arrived, people', met', inShopify')
    BY <1>2, <1>3, <1>4, <1>5 DEF GoodParty
  <1>7. Newcomer \notin inShopify' => WithSid(Newcomer, people') = {}
    BY <1>2, NewcomerStays
  <1>8. GoodBook(arrived, people, sold, refusals, met, inShopify)
    BY DEF ContactsInv
  <1>9. inShopify' \subseteq Buyers /\ inShopify \subseteq inShopify'
    BY <1>8 DEF GoodBook
  <1>10. GoodBook(arrived, people', sold', refusals', met', inShopify')
    BY <1>7, <1>8, <1>9, RollStays
  <1>11. party' = [party EXCEPT ![w] = z]
    BY DEF z
  <1> QED
    BY <1>6, <1>9, <1>10, <1>11, StepAssembled

(* What a request that bills has read of its customer.                     *)
LEMMA KnownRead ==
    ASSUME ContactsInv, NEW r, GoodRead(r, people, met), r.customer \in inShopify \cup {Null}
    PROVE  /\ Known(r.customer, r.read) \subseteq Known(r.customer, people)
           /\ Known(r.customer, r.read) # {} => Minimum(Known(r.customer, r.read)) \in Known(r.customer, r.read)
           /\ Known(r.customer, r.read) = {} => r.customer # Null /\ WithSid(r.customer, r.read) = {}
           /\ Counted(r.customer, met) => \A p \in Known(r.customer, people) :
                                              ContactsOf(p, people) \subseteq 1 .. Len(r.read)
  <1>1. Grew(r.read, people) /\ IsRoll(r.read)
    BY DEF GoodRead, Grew
  <1>2. Known(r.customer, r.read) \subseteq Nat
    BY <1>1, RowsOf, RollFacts DEF Known
  <1>3. Counted(r.customer, met) => \A p \in Known(r.customer, people) :
                                              ContactsOf(p, people) \subseteq 1 .. Len(r.read)
    BY DEF GoodRead, SameFamily, Known, Counted
  <1> QED
    BY <1>1, <1>2, <1>3, KnownOn, MinimumFound DEF Known

(* The customer is new to Odoo.                                            *)
LEMMA BillNew ==
    ASSUME ContactsInv, NEW w \in Parties, Doing(w, "bill"), NEW c, c = party[w].customer, c \in inShopify,
           Meet(w, c), GoodRead(party[w], people, met), WithSid(c, party[w].read) = {},
           NEW email, NEW x, x = Row(c, email, 0, "contact", NoAddress, Null),
           NEW b, b = Append(people, x), NEW p, p = Len(people) + 1, NEW bill, NEW phone, NEW f,
           people' = IF bill # Null THEN Append(b, Row(Null, Null, p, "invoice", bill, phone)) ELSE b,
           \A i, j \in f : i = j,
           UNCHANGED <<arrived, inShopify, sold, refusals>>,
           party' = [party EXCEPT ![w] = Billed(party[w], p, b, f)]
    PROVE  ContactsInv'
  <1>1. /\ GoodPeople(people) /\ Singles(people, met) /\ IsRoll(people) /\ Len(people) \in Nat
        /\ inShopify \subseteq Buyers /\ Null \notin Buyers
    BY RollFacts, FeedsAssumption DEF ContactsInv, GoodBook, GoodPeople
  <1>2. Grew(party[w].read, people) /\ (Counted(c, met) => SameFamily(c, party[w].read, people))
    BY DEF GoodRead
  <1>3. /\ GoodPeople(b) /\ Singles(b, met') /\ Grew(people, b) /\ OnlyFamily(c, people, b)
        /\ IsRoll(b) /\ Len(b) = Len(people) + 1 /\ b[Len(people) + 1] = x /\ x.sid = c
    BY <1>2, CustomerAdded
  <1>4. c # Null /\ p \in 1 .. Len(b) /\ b[p].sid = c
    BY <1>1, <1>3
  <1>5. p \in Known(c, b)
    BY <1>3, <1>4, RowsOf DEF Known
  <1>6. x.parent = 0
    BY RowFields
  <1>7. ASSUME NEW i \in ContactsOf(p, b) PROVE FALSE
    <2>0. \A k : k \in ContactsOf(p, b) <=> k \in 1 .. Len(b) /\ b[k].parent = p
      BY ONLY <1>3, RowsOf
    <2>1. i \in 1 .. Len(b) /\ b[i].parent = p
      BY <1>7, <2>0
    <2>2. CASE i = Len(people) + 1
      BY <1>1, <1>3, <1>6, <2>1, <2>2
    <2>3. CASE i \in 1 .. Len(people)
      <3>1. b[i].parent = people[i].parent /\ people[i].parent \in 0 .. Len(people)
        BY <1>1, <1>3, <2>3 DEF Grew, Became, GoodPeople
      <3> QED
        BY <1>1, <2>1, <3>1
    <2> QED
      BY <1>1, <1>3, <2>1, <2>2, <2>3
  <1>8. ContactsOf(p, b) = {}
    BY <1>7
  <1>9. CASE bill = Null
    <2>1. people' = b
      BY <1>9
    <2>2. Grew(b, people') /\ p \in Known(c, people')
      BY <1>3, <1>5, <2>1, GrewSame
    <2>3. /\ met \subseteq met'
          /\ \A v \in Parties \ {w} : party[v].step # "idle" /\ Counted(party[v].customer, met')
                                       => SameFamily(party[v].customer, people, people')
      BY <1>3, <2>1, OthersMet
    <2>4. \A i \in ContactsOf(p, people') : people'[i].type = "delivery" => i \in 1 .. Len(b)
      BY <1>8, <2>1
    <2> QED
      BY <1>3, <2>1, <2>2, <2>3, <2>4, BillDone
  <1>10. CASE bill # Null
    <2>1. people' = Append(b, Row(Null, Null, p, "invoice", bill, phone))
      BY <1>10
    <2>2. /\ GoodPeople(people') /\ Grew(b, people') /\ Singles(people', met') /\ OnlyFamily(c, b, people')
          /\ Len(people') = Len(b) + 1 /\ Len(b) \in Nat /\ people'[Len(b) + 1].type = "invoice"
          /\ ContactsOf(p, people') = ContactsOf(p, b) \cup {Len(b) + 1}
      <3>1. c \in Buyers /\ c \notin met' /\ Whole(bill) /\ phone # Null =>
               \A i \in ContactsOf(p, b) :
                   b[i].type = "invoice" /\ Whole(b[i]) /\ SamePlace(b[i], bill) => b[i].phone # phone
        BY <1>8
      <3>2. met' \subseteq met' /\ GoodPeople(b) /\ Grew(people, b) /\ Singles(b, met')
        BY <1>3
      <3> DEFINE y == Row(Null, Null, p, "invoice", bill, phone)
                 u == Append(b, y)
      <3>3. /\ GoodPeople(u) /\ Grew(b, u) /\ Singles(u, met') /\ OnlyFamily(c, b, u)
            /\ Len(u) = Len(b) + 1 /\ Len(b) \in Nat /\ u[Len(b) + 1] = y /\ y.type = "invoice"
            /\ ContactsOf(p, u) = ContactsOf(p, b) \cup {Len(b) + 1}
        BY ONLY ContactsInv, <1>5, <3>1, <3>2, ContactRow
      <3> QED
        BY <2>1, <3>3
    <2>3. Grew(people, people')
      BY <1>3, <2>2, GrewOn
    <2>4. OnlyFamily(c, people, people')
      BY <1>3, <2>2, FamilyOn DEF OnlyFamily
    <2>5. /\ met \subseteq met'
          /\ \A v \in Parties \ {w} : party[v].step # "idle" /\ Counted(party[v].customer, met')
                                       => SameFamily(party[v].customer, people, people')
      BY <2>4, OthersMet
    <2>6. \A i \in ContactsOf(p, people') : people'[i].type = "delivery" => i \in 1 .. Len(b)
      BY <1>8, <2>2
    <2>7. p \in Known(c, people')
      BY <1>5, <2>2, KnownOn
    <2> QED
      BY <2>2, <2>3, <2>4, <2>5, <2>6, <2>7, BillDone
  <1> QED
    BY <1>9, <1>10

(* The customer is known, or the order has none: a contact is added.       *)
LEMMA BillAdded ==
    ASSUME ContactsInv, NEW w \in Parties, Doing(w, "bill"), NEW c, c = party[w].customer,
           c \in inShopify \cup {Null}, Meet(w, c), NEW read, Grew(read, people),
           NEW p \in Known(c, people), Counted(c, met) => ContactsOf(p, people) \subseteq 1 .. Len(read),
           NEW bill, NEW phone,
           c # Null => Matches("invoice", p, bill, read) = {} /\ phone = bill.phone,
           people' = Append(people, Row(Null, Null, p, "invoice", bill, phone)),
           UNCHANGED <<arrived, inShopify, sold, refusals>>,
           party' = [party EXCEPT ![w] = Billed(party[w], p, read, {Len(people')})]
    PROVE  ContactsInv'
  <1>1. /\ GoodPeople(people) /\ Singles(people, met) /\ IsRoll(people) /\ Len(people) \in Nat
        /\ inShopify \subseteq Buyers /\ Null \notin Buyers
    BY RollFacts, FeedsAssumption DEF ContactsInv, GoodBook, GoodPeople
  <1>2. met \subseteq met'
    BY DEF Meet
  <1>3. ASSUME c \in Buyers, c \notin met', phone # Null, NEW i \in ContactsOf(p, people),
               people[i].type = "invoice", Whole(people[i]), SamePlace(people[i], bill)
        PROVE  people[i].phone # phone
    <2>1. Counted(c, met) /\ c # Null
      BY <1>1, <1>2, <1>3 DEF Counted
    <2> QED
      BY <1>3, <2>1, NoneFound
  <1>4. Grew(people, people)
    BY <1>1, GrewSame
  <1>5. /\ GoodPeople(people') /\ Grew(people, people') /\ Singles(people', met') /\ OnlyFamily(c, people, people')
        /\ Len(people') = Len(people) + 1 /\ people'[Len(people) + 1].type = "invoice"
        /\ ContactsOf(p, people') = ContactsOf(p, people) \cup {Len(people) + 1}
    BY <1>1, <1>2, <1>3, <1>4, ContactRow
  <1>6. \A v \in Parties \ {w} : party[v].step # "idle" /\ Counted(party[v].customer, met')
                                 => SameFamily(party[v].customer, people, people')
    BY <1>5, OthersMet
  <1>7. p \in Known(c, people') /\ Grew(read, people')
    BY <1>5, KnownOn, GrewOn
  <1>8. ASSUME Counted(c, met'), NEW i \in ContactsOf(p, people'), people'[i].type = "delivery"
        PROVE  i \in 1 .. Len(read)
    <2>1. Counted(c, met)
      BY <1>2, <1>8 DEF Counted
    <2>2. i # Len(people) + 1
      BY <1>5, <1>8
    <2> QED
      BY <1>5, <1>8, <2>1, <2>2
  <1>9. \A i, j \in {Len(people')} : i = j
    OBVIOUS
  <1> QED
    BY <1>2, <1>5, <1>6, <1>7, <1>8, <1>9, BillDone

(* No contact is added: those that were found are overwritten.             *)
LEMMA BillFound ==
    ASSUME ContactsInv, NEW w \in Parties, Doing(w, "bill"), NEW c, c = party[w].customer,
           c \in inShopify \cup {Null}, met' = met, NEW read, Grew(read, people),
           NEW p \in Known(c, people), Counted(c, met) => ContactsOf(p, people) \subseteq 1 .. Len(read),
           NEW bill, NEW S,
           S # {} => c # Null /\ S = Matches("invoice", p, bill, read) /\ ~Raises("invoice", p, bill, read),
           people' = IF S # {} THEN Rewritten(people, S, bill) ELSE people,
           UNCHANGED <<arrived, inShopify, sold, refusals>>,
           NEW q, q = <<>> \/ q = read,
           party' = [party EXCEPT ![w] = Billed(party[w], p, q, S)]
    PROVE  ContactsInv'
  <1>1. /\ GoodPeople(people) /\ Singles(people, met) /\ IsRoll(people) /\ Len(people) \in Nat
        /\ inShopify \subseteq Buyers /\ Null \notin Buyers
    BY RollFacts, FeedsAssumption DEF ContactsInv, GoodBook, GoodPeople
  <1>2. \A i \in S : i \in 1 .. Len(people) /\ Whole(people[i]) /\ Whole(bill) /\ SamePlace(people[i], bill)
    BY FoundContact
  <1>3. /\ GoodPeople(people') /\ Grew(people, people') /\ Singles(people', met')
        /\ \A d : SameFamily(d, people, people')
    <2>1. CASE S # {}
      BY <1>1, <1>2, <2>1, RewrittenPeople
    <2>2. CASE S = {}
      <3>1. \A d : SameFamily(d, people, people)
        BY <1>1, RowsOf DEF SameFamily
      <3> QED
        BY <1>1, <2>2, <3>1, GrewSame
    <2> QED
      BY <2>1, <2>2
  <1>4. ASSUME Counted(c, met') \/ c = Null, NEW i \in S, NEW j \in S
        PROVE  i = j
    <2>1. c \in Buyers /\ c \notin met /\ p \in WithSid(c, people)
      BY <1>1, <1>4 DEF Counted, Known
    <2> QED
      BY <1>1, <1>4, <2>1, FoundOne
  <1>5. p \in Known(c, people') /\ Grew(read, people')
    BY <1>3, KnownOn, GrewOn
  <1>6. ASSUME Counted(c, met'), NEW i \in ContactsOf(p, people')
        PROVE  i \in 1 .. Len(read)
    <2>1. Counted(c, met) /\ c # Null /\ SameFamily(c, people, people') /\ p \in WithSid(c, people')
      BY <1>3, <1>5, <1>6 DEF Counted, Known
    <2>2. i \in 1 .. Len(people)
      BY <1>6, <2>1 DEF SameFamily
    <2>3. people'[i].parent = p
      BY <1>3, RowsOf DEF Grew
    <2>4. people[i].parent = p
      BY <1>3, <2>2, <2>3 DEF Grew, Became
    <2>5. i \in ContactsOf(p, people)
      BY <1>1, <2>2, <2>4, RowsOf
    <2> QED
      BY <2>1, <2>5
  <1>7. OnlyFamily(c, people, people')
    BY <1>3 DEF OnlyFamily
  <1> QED
    BY <1>3, <1>4, <1>5, <1>6, <1>7, BillDone

LEMMA BillKeeps ==
    ASSUME ContactsInv, NEW w \in Parties, BillTo(w)
    PROVE  ContactsInv'
  <1> DEFINE r == party[w]
             o == r.order
             c == r.customer
             isNew == Known(c, r.read) = {}
             p == IF isNew THEN Len(people) + 1 ELSE Minimum(Known(c, r.read))
             email == IF Email[c] = Null THEN "" ELSE Email[c]
             x == Row(c, email, 0, "contact", NoAddress, Null)
             b == IF isNew THEN Append(people, x) ELSE people
             S == IF o.bill = Null \/ isNew THEN {} ELSE Matches("invoice", p, o.bill, r.read)
             fresh == o.bill # Null /\ (S = {} \/ o.customer = Null)
             phone == IF S # {} THEN Null ELSE o.bill.phone
             q == IF isNew THEN b ELSE IF o.bill = Null THEN <<>> ELSE r.read
             f == IF fresh THEN {Len(people')} ELSE S
             Raised == o.bill # Null /\ ~isNew /\ Raises("invoice", p, o.bill, r.read)
  <1>1. GoodParty(r, arrived, people, met, inShopify) /\ r.step = "bill" /\ Doing(w, "bill")
    BY DEF ContactsInv, BillTo, Doing
  <1>2. /\ o \in arrived /\ c = o.customer /\ c \in inShopify \cup {Null}
        /\ GoodRead(r, people, met) /\ Grew(r.read, people)
    BY <1>1 DEF GoodParty, GoodRead
  <1>5. arrived' = arrived /\ inShopify' = inShopify /\ sold' = sold
    BY DEF BillTo
  <1>6. Raised => Refuse(w, o) /\ UNCHANGED <<people, met>>
    BY DEF BillTo
  <1>7. ~Raised =>
          /\ fresh \/ \A i \in S : people[i] = r.read[i]
          /\ people' = IF fresh THEN Append(b, Row(Null, Null, p, "invoice", o.bill, phone))
                       ELSE IF S # {} THEN Rewritten(b, S, o.bill) ELSE b
          /\ party' = [party EXCEPT ![w] = [r EXCEPT !.step = "deliver", !.partner = p, !.read = q, !.found = f]]
          /\ IF isNew \/ fresh THEN Meet(w, c) ELSE UNCHANGED met
          /\ UNCHANGED refusals
    BY DEF BillTo
  <1>8. ~Raised => party' = [party EXCEPT ![w] = Billed(party[w], p, q, f)]
    BY <1>7 DEF Billed
  <1>9. /\ Known(c, r.read) \subseteq Known(c, people)
        /\ Known(c, r.read) # {} => Minimum(Known(c, r.read)) \in Known(c, r.read)
        /\ Known(c, r.read) = {} => c # Null /\ WithSid(c, r.read) = {}
        /\ Counted(c, met) => \A k \in Known(c, people) : ContactsOf(k, people) \subseteq 1 .. Len(r.read)
    BY <1>2, KnownRead
  <1>10. CASE Raised
    <2>1. p \in Known(c, people)
      BY <1>9, <1>10
    <2>2. ~Whole(o.bill) \/ \E i \in ContactsOf(p, people) : ~Whole(people[i])
      BY <1>2, <1>10, Unreadable
    <2>3. Excuse(o, people, met)
      BY <1>2, <1>10, <2>1, <2>2 DEF Excuse
    <2> QED
      BY <1>2, <1>5, <1>6, <1>10, <2>3, RefuseKeeps
  <1>11. CASE isNew
    <2>1. ~Raised /\ S = {} /\ c \in inShopify /\ WithSid(c, r.read) = {} /\ c # Null
      BY <1>2, <1>9, <1>11
    <2>2. Meet(w, c) /\ refusals' = refusals /\ p = Len(people) + 1 /\ q = b /\ b = Append(people, x)
      BY <1>7, <1>11, <2>1
    <2>3. \A i, j \in f : i = j
      BY <2>1
    <2>4. people' = IF o.bill # Null THEN Append(b, Row(Null, Null, p, "invoice", o.bill, o.bill.phone)) ELSE b
      BY <1>7, <2>1
    <2>5. party' = [party EXCEPT ![w] = Billed(party[w], p, b, f)]
      BY <1>8, <2>1, <2>2
    <2>6. x = Row(c, email, 0, "contact", NoAddress, Null)
      OBVIOUS
    <2>7. b = Append(people, x) /\ p = Len(people) + 1 /\ c = party[w].customer
      BY <2>2
    <2> HIDE DEF p, b, x, f, email, c
    <2> QED
      BY <1>1, <1>2, <1>5, <2>1, <2>2, <2>3, <2>4, <2>5, <2>6, <2>7, BillNew
  <1>12. CASE ~isNew /\ ~Raised
    <2>1. p \in Known(c, people) /\ b = people /\ refusals' = refusals
      BY <1>7, <1>9, <1>12
    <2>2. Counted(c, met) => ContactsOf(p, people) \subseteq 1 .. Len(r.read)
      BY <1>9, <2>1
    <2>3. party' = [party EXCEPT ![w] = Billed(party[w], p, q, f)] /\ c = party[w].customer
      BY <1>8, <1>12
    <2>4. CASE fresh
      <3>1. people' = Append(people, Row(Null, Null, p, "invoice", o.bill, phone)) /\ f = {Len(people')}
            /\ Meet(w, c) /\ q = r.read
        BY <1>7, <1>12, <2>1, <2>4
      <3>2. c # Null => Matches("invoice", p, o.bill, r.read) = {} /\ phone = o.bill.phone
        BY <1>2, <1>12, <2>4
      <3>3. party' = [party EXCEPT ![w] = Billed(party[w], p, r.read, {Len(people')})]
        BY <2>3, <3>1
      <3> HIDE DEF p, phone, c
      <3> QED
        BY <1>1, <1>2, <1>5, <2>1, <2>2, <2>3, <3>1, <3>2, <3>3, BillAdded
    <2>5. CASE ~fresh
      <3>1. people' = (IF S # {} THEN Rewritten(people, S, o.bill) ELSE people) /\ f = S /\ met' = met
        BY <1>7, <1>12, <2>1, <2>5
      <3>2. S # {} => c # Null /\ S = Matches("invoice", p, o.bill, r.read) /\ ~Raises("invoice", p, o.bill, r.read)
        BY <1>2, <1>12, <2>5
      <3>3. q = <<>> \/ q = r.read
        BY <1>12
      <3>4. party' = [party EXCEPT ![w] = Billed(party[w], p, q, S)]
        BY <2>3, <3>1
      <3>5. /\ UNCHANGED <<arrived, inShopify, sold, refusals>> /\ c = party[w].customer
            /\ Grew(r.read, people) /\ c \in inShopify \cup {Null}
        BY <1>2, <1>5, <2>1
      <3> HIDE DEF p, q, S, c, r
      <3> QED
        BY <1>1, <2>1, <2>2, <3>1, <3>2, <3>3, <3>4, <3>5, BillFound
    <2> HIDE DEF fresh
    <2> QED
      BY <2>4, <2>5
  <1> QED
    BY <1>10, <1>11, <1>12

LEMMA DeliverDone ==
    ASSUME ContactsInv, NEW w \in Parties, Doing(w, "deliver"), NEW k,
           UNCHANGED <<arrived, inShopify, sold, refusals>>,
           party' = [party EXCEPT ![w] =
                        [step |-> "sell", customer |-> party[w].customer, order |-> party[w].order,
                         partner |-> party[w].partner, found |-> party[w].found, contact |-> k]],
           GoodPeople(people'), Singles(people', met'), Grew(people, people'),
           OnlyFamily(party[w].customer, people, people'),
           met \subseteq met',
           \A v \in Parties \ {w} : party[v].step # "idle" /\ Counted(party[v].customer, met')
                                    => SameFamily(party[v].customer, people, people'),
           Target(party[w].order, party[w].partner, k, people')
    PROVE  ContactsInv'
  <1> DEFINE r == party[w]
             z == [step |-> "sell", customer |-> r.customer, order |-> r.order,
                   partner |-> r.partner, found |-> r.found, contact |-> k]
  <1>1. GoodParty(r, arrived, people, met, inShopify) /\ r.step = "deliver"
    BY DEF ContactsInv, Doing
  <1>2. /\ r.order \in arrived /\ r.customer = r.order.customer /\ r.customer \in inShopify \cup {Null}
        /\ FewFound(r, met) /\ r.partner \in Known(r.customer, people)
    BY <1>1 DEF GoodParty
  <1>3. /\ z.step = "sell" /\ z.customer = r.customer /\ z.order = r.order
        /\ z.partner = r.partner /\ z.found = r.found /\ z.contact = k
    OBVIOUS
  <1> HIDE DEF z
  <1>4. FewFound(z, met')
    BY <1>2, <1>3 DEF FewFound, Counted
  <1>5. z.partner \in Known(z.customer, people')
    BY <1>2, <1>3, KnownOn
  <1>6. GoodParty(z, arrived, people', met', inShopify')
    BY <1>2, <1>3, <1>4, <1>5 DEF GoodParty
  <1>7. Newcomer \notin inShopify' => WithSid(Newcomer, people') = {}
    BY <1>2, NewcomerStays
  <1>8. GoodBook(arrived, people, sold, refusals, met, inShopify)
    BY DEF ContactsInv
  <1>9. inShopify' \subseteq Buyers /\ inShopify \subseteq inShopify'
    BY <1>8 DEF GoodBook
  <1>10. GoodBook(arrived, people', sold', refusals', met', inShopify')
    BY <1>7, <1>8, <1>9, RollStays
  <1>11. party' = [party EXCEPT ![w] = z]
    BY DEF z
  <1> QED
    BY <1>6, <1>9, <1>10, <1>11, StepAssembled

DeliveriesRead(c, p, rows) ==
    Counted(c, met) => \A i \in ContactsOf(p, people) : people[i].type = "delivery" => i \in 1 .. Len(rows)

LEMMA DeliverAdded ==
    ASSUME ContactsInv, NEW w \in Parties, Doing(w, "deliver"), NEW c, c = party[w].customer,
           c \in inShopify \cup {Null}, Meet(w, c), NEW rows, Grew(rows, people),
           NEW p \in Known(c, people), p = party[w].partner,
           DeliveriesRead(c, p, rows),
           NEW ship, ship # Null, ship = party[w].order.ship, c = party[w].order.customer,
           c # Null => Matches("delivery", p, ship, rows) = {},
           NEW phone, phone = ship.phone,
           people' = Append(people, Row(Null, Null, p, "delivery", ship, phone)),
           UNCHANGED <<arrived, inShopify, sold, refusals>>,
           NEW k, k = Len(people'),
           party' = [party EXCEPT ![w] =
                        [step |-> "sell", customer |-> party[w].customer, order |-> party[w].order,
                         partner |-> party[w].partner, found |-> party[w].found, contact |-> k]]
    PROVE  ContactsInv'
  <1>1. /\ GoodPeople(people) /\ Singles(people, met) /\ IsRoll(people) /\ Len(people) \in Nat
        /\ inShopify \subseteq Buyers /\ Null \notin Buyers
    BY RollFacts, FeedsAssumption DEF ContactsInv, GoodBook, GoodPeople
  <1>2. met \subseteq met'
    BY DEF Meet
  <1>3. ASSUME c \in Buyers, c \notin met', ship.phone # Null, NEW i \in ContactsOf(p, people),
               people[i].type = "delivery", Whole(people[i]), SamePlace(people[i], ship)
        PROVE  people[i].phone # ship.phone
    <2>1. Counted(c, met) /\ c # Null
      BY <1>1, <1>2, <1>3 DEF Counted
    <2>2. i \in 1 .. Len(rows) /\ Matches("delivery", p, ship, rows) = {} /\ Grew(rows, people)
      BY <1>3, <2>1 DEF DeliveriesRead
    <2> QED
      BY ONLY <1>3, <2>2, NoneFound
  <1>4. Grew(people, people)
    BY <1>1, GrewSame
  <1> DEFINE y == Row(Null, Null, p, "delivery", ship, phone)
             u == Append(people, y)
             n == Len(people) + 1
  <1>5. /\ GoodPeople(u) /\ Grew(people, u) /\ Singles(u, met') /\ OnlyFamily(c, people, u)
        /\ Len(u) = n /\ u[n] = y /\ y.parent = p /\ y.type = "delivery" /\ y.phone = ship.phone
        /\ Whole(ship) => Whole(y) /\ SamePlace(y, ship)
    BY <1>1, <1>2, <1>3, <1>4, ContactRow
  <1> HIDE DEF y
  <1>6. /\ GoodPeople(people') /\ Grew(people, people') /\ Singles(people', met') /\ OnlyFamily(c, people, people')
        /\ Len(people') = n /\ people'[n] = y
    BY <1>5 DEF y
  <1>7. \A v \in Parties \ {w} : party[v].step # "idle" /\ Counted(party[v].customer, met')
                                 => SameFamily(party[v].customer, people, people')
    BY <1>6, OthersMet
  <1>8. Target(party[w].order, party[w].partner, Len(people'), people')
    <2>1. p \in Known(c, people')
      BY <1>6, KnownOn
    <2>2. Len(people') \in 1 .. Len(people')
      BY <1>1, <1>6
    <2>3. people'[Len(people')] = y
      BY <1>6
    <2> QED
      BY <1>5, <2>1, <2>2, <2>3 DEF Target
  <1> QED
    BY <1>2, <1>6, <1>7, <1>8, DeliverDone

LEMMA DeliverFound ==
    ASSUME ContactsInv, NEW w \in Parties, Doing(w, "deliver"), NEW c, c = party[w].customer,
           c \in inShopify \cup {Null}, met' = met, NEW rows, Grew(rows, people),
           NEW p \in Known(c, people), p = party[w].partner,
           NEW ship, ship = party[w].order.ship, c = party[w].order.customer, NEW S,
           S # {} => ship # Null /\ S = Matches("delivery", p, ship, rows) /\ ~Raises("delivery", p, ship, rows),
           S = {} => ship = Null,
           people' = Rewritten(people, S, ship),
           UNCHANGED <<arrived, inShopify, sold, refusals>>,
           NEW k, k = IF S = {} THEN p ELSE Minimum(S),
           party' = [party EXCEPT ![w] =
                        [step |-> "sell", customer |-> party[w].customer, order |-> party[w].order,
                         partner |-> party[w].partner, found |-> party[w].found, contact |-> k]]
    PROVE  ContactsInv'
  <1>1. /\ GoodPeople(people) /\ Singles(people, met) /\ IsRoll(people) /\ Len(people) \in Nat /\ Len(people) >= 2
    BY RollFacts DEF ContactsInv, GoodBook, GoodPeople
  <1>2. \A i \in S : /\ i \in 1 .. Len(people) /\ Whole(people[i]) /\ Whole(ship) /\ SamePlace(people[i], ship)
                     /\ people[i].parent = p /\ people[i].type = "delivery" /\ people[i].phone = ship.phone
    BY FoundContact
  <1>3. /\ GoodPeople(people') /\ Grew(people, people') /\ Singles(people', met')
        /\ Len(people') = Len(people)
        /\ \A d : SameFamily(d, people, people')
        /\ \A i \in S : SamePlace(people'[i], ship) /\ Whole(people'[i])
    BY <1>1, <1>2, RewrittenPeople
  <1>4. p \in Known(c, people')
    BY <1>3, KnownOn
  <1>5. Target(party[w].order, party[w].partner, k, people')
    <2>1. CASE S = {}
      <3>1. p \in 1 .. Len(people)
        BY <1>1, RowsOf DEF Known
      <3> QED
        BY <1>3, <1>4, <2>1, <3>1 DEF Target
    <2>2. CASE S # {}
      <3>1. S \subseteq Nat
        BY <1>1, <1>2
      <3>2. k \in S
        BY <2>2, <3>1, MinimumFound
      <3>3. k \in 1 .. Len(people) /\ Became(people[k], people'[k])
        BY <1>2, <1>3, <3>2 DEF Grew
      <3>4. people'[k].parent = p /\ people'[k].type = "delivery" /\ people'[k].phone = ship.phone
        BY <1>2, <3>2, <3>3 DEF Became
      <3>5. SamePlace(people'[k], ship) /\ Whole(people'[k]) /\ ship # Null
        BY <1>3, <2>2, <3>2
      <3>6. k \in 1 .. Len(people')
        BY <1>3, <3>3
      <3> QED
        BY <1>4, <3>4, <3>5, <3>6 DEF Target
    <2> QED
      BY <2>1, <2>2
  <1>6. OnlyFamily(c, people, people')
    BY <1>3 DEF OnlyFamily
  <1> QED
    BY <1>3, <1>5, <1>6, DeliverDone

LEMMA DeliverKeeps ==
    ASSUME ContactsInv, NEW w \in Parties, DeliverTo(w)
    PROVE  ContactsInv'
  <1> DEFINE r == party[w]
             o == r.order
             c == r.customer
             p == r.partner
             rows == IF r.read = <<>> THEN people ELSE r.read
             S == IF o.ship = Null THEN {} ELSE Matches("delivery", p, o.ship, rows)
             fresh == o.ship # Null /\ (S = {} \/ o.customer = Null)
             several == Cardinality(S) > 1 /\ o.customer # Null
             Raised == o.ship # Null /\ (Raises("delivery", p, o.ship, rows) \/ several)
             k == IF fresh THEN Len(people') ELSE IF S = {} THEN r.partner ELSE Minimum(S)
  <1>1. GoodParty(r, arrived, people, met, inShopify) /\ r.step = "deliver" /\ Doing(w, "deliver")
    BY DEF ContactsInv, DeliverTo, Doing
  <1>2. /\ o \in arrived /\ c = o.customer /\ c \in inShopify \cup {Null}
        /\ GoodChildren(r, people, met) /\ p \in Known(c, people)
    BY <1>1 DEF GoodParty
  <1>3. /\ GoodPeople(people) /\ Singles(people, met) /\ IsRoll(people) /\ Len(people) \in Nat
        /\ inShopify \subseteq Buyers /\ Null \notin Buyers
    BY RollFacts, FeedsAssumption DEF ContactsInv, GoodBook, GoodPeople
  <1>4. /\ Grew(rows, people)
        /\ Counted(c, met) => \A i \in ContactsOf(p, people) : people[i].type = "delivery" => i \in 1 .. Len(rows)
    <2>1. CASE r.read = <<>>
      BY <1>3, <2>1, GrewSame, RowsOf
    <2>2. CASE r.read # <<>>
      BY <1>2, <2>2 DEF GoodChildren
    <2> QED
      BY <2>1, <2>2
  <1>5. arrived' = arrived /\ inShopify' = inShopify /\ sold' = sold
    BY DEF DeliverTo
  <1>6. Raised => Refuse(w, o) /\ UNCHANGED <<people, met>>
    BY DEF DeliverTo
  <1>7. ~Raised =>
          /\ people' = IF fresh THEN Append(people, Row(Null, Null, p, "delivery", o.ship, o.ship.phone))
                       ELSE Rewritten(people, S, o.ship)
          /\ party' = [party EXCEPT ![w] =
                 [step |-> "sell", customer |-> c, order |-> o, partner |-> r.partner, found |-> r.found, contact |-> k]]
          /\ IF fresh THEN Meet(w, c) ELSE UNCHANGED met
          /\ UNCHANGED refusals
    BY DEF DeliverTo
  <1> HIDE DEF rows
  <1>8. CASE Raised
    <2>1. Excuse(o, people, met)
      <3>1. CASE Raises("delivery", p, o.ship, rows)
        <4>1. ~Whole(o.ship) \/ \E i \in ContactsOf(p, people) : ~Whole(people[i])
          BY <1>4, <3>1, Unreadable
        <4> QED
          BY <1>2, <1>8, <4>1 DEF Excuse
      <3>2. CASE ~Raises("delivery", p, o.ship, rows)
        <4>1. several /\ o.ship # Null /\ S = Matches("delivery", p, o.ship, rows)
          BY <1>8, <3>2
        <4>2. ASSUME c \notin met PROVE FALSE
          <5>1. c \in Buyers /\ p \in WithSid(c, people)
            BY <1>2, <1>3, <4>1 DEF Known
          <5>2. \A i, j \in S : i = j
            BY <1>3, <1>4, <3>2, <4>1, <4>2, <5>1, FoundOne
          <5> HIDE DEF S
          <5>3. CASE S = {}
            BY <4>1, <5>3, FS_EmptySet
          <5>4. CASE S # {}
            <6>1. PICK i \in S : TRUE
              BY <5>4
            <6>2. S = {i}
              BY <5>2, <6>1
            <6>3. Cardinality({i}) = 1
              BY FS_Singleton
            <6> QED
              BY <4>1, <6>2, <6>3
          <5> QED
            BY <5>3, <5>4
        <4> QED
          BY <1>2, <4>2 DEF Excuse
      <3> QED
        BY <3>1, <3>2
    <2> QED
      BY <1>2, <1>5, <1>6, <1>8, <2>1, RefuseKeeps
  <1>9. CASE ~Raised /\ fresh
    <2>1. people' = Append(people, Row(Null, Null, p, "delivery", o.ship, o.ship.phone)) /\ Meet(w, c)
          /\ refusals' = refusals /\ k = Len(people') /\ o.ship # Null
      BY <1>7, <1>9
    <2>2. party' = [party EXCEPT ![w] = [step |-> "sell", customer |-> party[w].customer, order |-> party[w].order,
                         partner |-> party[w].partner, found |-> party[w].found, contact |-> k]]
      BY <1>7, <1>9
    <2>3. c # Null => Matches("delivery", p, o.ship, rows) = {}
      BY <1>2, <1>9
    <2>4. UNCHANGED <<arrived, inShopify, sold, refusals>> /\ c = party[w].customer /\ p = party[w].partner
          /\ o.ship = party[w].order.ship /\ c = party[w].order.customer
      BY <1>2, <1>5, <2>1
    <2>5. Grew(rows, people) /\ c \in inShopify \cup {Null} /\ p \in Known(c, people)
          /\ DeliveriesRead(c, p, rows)
      BY <1>2, <1>4 DEF DeliveriesRead
    <2> DEFINE ship == o.ship
               phone == ship.phone
    <2>6. /\ people' = Append(people, Row(Null, Null, p, "delivery", ship, phone)) /\ ship # Null /\ phone = ship.phone
          /\ ship = party[w].order.ship /\ (c # Null => Matches("delivery", p, ship, rows) = {})
      BY <2>1, <2>3
    <2>7. UNCHANGED <<arrived, inShopify, sold, refusals>> /\ Meet(w, c) /\ c = party[w].customer /\ p = party[w].partner
          /\ c = party[w].order.customer /\ Doing(w, "deliver")
      BY <1>1, <2>1, <2>4
    <2>8. k = Len(people')
      BY <2>1
    <2> HIDE DEF c, p, phone, ship, k
    <2> QED
      BY ONLY <2>8, ContactsInv, <2>2, <2>5, <2>6, <2>7, DeliverAdded
  <1>10. CASE ~Raised /\ ~fresh
    <2>1. people' = Rewritten(people, S, o.ship) /\ refusals' = refusals /\ met' = met
          /\ k = IF S = {} THEN p ELSE Minimum(S)
      BY <1>7, <1>10
    <2>2. party' = [party EXCEPT ![w] = [step |-> "sell", customer |-> party[w].customer, order |-> party[w].order,
                         partner |-> party[w].partner, found |-> party[w].found, contact |-> k]]
      BY <1>7, <1>10
    <2>3. /\ S # {} => o.ship # Null /\ S = Matches("delivery", p, o.ship, rows) /\ ~Raises("delivery", p, o.ship, rows)
          /\ S = {} => o.ship = Null
      BY <1>10
    <2>4. UNCHANGED <<arrived, inShopify, sold, refusals>> /\ c = party[w].customer /\ p = party[w].partner
          /\ o.ship = party[w].order.ship /\ c = party[w].order.customer
      BY <1>2, <1>5, <2>1
    <2>5. Grew(rows, people) /\ c \in inShopify \cup {Null} /\ p \in Known(c, people)
      BY <1>2, <1>4
    <2> DEFINE ship == o.ship
    <2>6. /\ people' = Rewritten(people, S, ship) /\ (S = {} => ship = Null) /\ ship = party[w].order.ship
          /\ S # {} => ship # Null /\ S = Matches("delivery", p, ship, rows) /\ ~Raises("delivery", p, ship, rows)
      BY <2>1, <2>3
    <2>7. k = IF S = {} THEN p ELSE Minimum(S)
      BY <2>1
    <2> HIDE DEF c, p, S, k, ship
    <2> QED
      BY <1>1, <2>1, <2>2, <2>4, <2>5, <2>6, <2>7, DeliverFound
  <1> QED
    BY <1>8, <1>9, <1>10

-----------------------------------------------------------------------------
(* The invariant holds.                                                    *)

LEMMA ContactsBegin ==
    ASSUME PeopleInit
    PROVE  ContactsInv
  <1>1. people = <<ToExport, Default>> /\ arrived \in Feeds /\ met = {} /\ refusals = {}
        /\ inShopify = Buyers \ {Newcomer} /\ sold = [o \in arrived |-> Null] /\ party = [w \in Parties |-> Idle]
    BY DEF PeopleInit
  <1>2. /\ PersonFields(ToExport) /\ ToExport.sid = Null /\ ToExport.parent = 0
        /\ PersonFields(Default) /\ Default.sid = Null /\ Default.parent = 0
    BY DEF ToExport, Default, Row, PersonFields
  <1>3. people \in Seq({ToExport, Default}) /\ Len(people) = 2 /\ people[1] = ToExport /\ people[2] = Default
    BY <1>1
  <1>4. IsRoll(people)
    BY <1>3 DEF IsRoll
  <1>5. \A i \in 1 .. Len(people) : people[i].sid = Null /\ people[i].parent = 0 /\ PersonFields(people[i])
    BY <1>2, <1>3
  <1>6. GoodPeople(people)
    BY <1>3, <1>4, <1>5 DEF GoodPeople
  <1>7. \A c : WithSid(c, people) = {}
    BY <1>4, <1>5, RowsOf
  <1>8. Singles(people, met)
    BY <1>7 DEF Singles
  <1>9. GoodBook(arrived, people, sold, refusals, met, inShopify)
    BY <1>1, <1>6, <1>7, <1>8 DEF GoodBook
  <1> QED
    BY <1>1, <1>9, IdleGood DEF ContactsInv

LEMMA ContactsStep ==
    ASSUME ContactsInv, [PeopleNext]_contactbookvars
    PROVE  ContactsInv'
  <1>1. CASE UNCHANGED contactbookvars
    BY <1>1 DEF ContactsInv, contactbookvars
  <1>2. ASSUME NEW w \in Parties, NEW o \in arrived, BeginOrder(w, o) PROVE ContactsInv'
    BY <1>2, OrderKeeps
  <1>3. ASSUME NEW w \in Parties, NEW c \in Buyers, FetchCustomer(w, c) PROVE ContactsInv'
    BY <1>3, ImportKeeps
  <1>4. ASSUME NEW w \in Parties,
               \/ BillTo(w) \/ DeliverTo(w) \/ Sell(w)
               \/ SaveCustomer(w) \/ CreateCustomer(w) \/ StoreCustomer(w) \/ LoseParty(w)
        PROVE  ContactsInv'
    BY <1>4, BillKeeps, DeliverKeeps, SellKeeps, SaveKeeps, CreateKeeps, StoreKeeps, LoseKeeps
  <1> QED
    BY <1>1, <1>2, <1>3, <1>4 DEF PeopleNext

LEMMA ContactsFollow ==
    ASSUME ContactsInv
    PROVE  ContactsRight
  <1>1. /\ GoodBook(arrived, people, sold, refusals, met, inShopify)
        /\ GoodPeople(people) /\ Singles(people, met) /\ Null \notin Buyers
    BY FeedsAssumption DEF ContactsInv, GoodBook
  <1>2. OnePartner
    <2> SUFFICES ASSUME NEW c \in Buyers \ met PROVE Cardinality(WithSid(c, people)) <= 1
      BY DEF OnePartner
    <2>1. \A p, q \in WithSid(c, people) : p = q
      BY <1>1 DEF Singles
    <2>2. CASE WithSid(c, people) = {}
      BY <2>2, FS_EmptySet
    <2>3. CASE WithSid(c, people) # {}
      <3>1. PICK p \in WithSid(c, people) : TRUE
        BY <2>3
      <3>2. WithSid(c, people) = {p}
        BY <2>1, <3>1
      <3>3. Cardinality({p}) = 1
        BY FS_Singleton
      <3> QED
        BY <3>2, <3>3
    <2> QED
      BY <2>2, <2>3
  <1>3. Delivered
    <2> SUFFICES ASSUME NEW o \in arrived, sold[o] # Null
                 PROVE  LET s == sold[o]
                            d == people[s.contact]
                        IN  /\ o.customer # Null => people[s.partner].sid = o.customer
                            /\ IF o.ship = Null THEN s.contact = s.partner
                               ELSE /\ d.parent = s.partner /\ d.type = "delivery" /\ d.phone = o.ship.phone
                                    /\ o.ship.street # Null /\ o.ship.zip # Null => SamePlace(d, o.ship)
      BY DEF Delivered
    <2>1. Target(o, sold[o].partner, sold[o].contact, people)
      BY <1>1 DEF GoodBook
    <2>2. o.customer # Null => people[sold[o].partner].sid = o.customer
      BY <2>1 DEF Target, Known, WithSid
    <2> QED
      BY <2>1, <2>2 DEF Target, Whole
  <1>4. OneContact
    BY <1>1 DEF Singles, OneContact, SamePlace
  <1>5. RefusedOnly
    BY <1>1 DEF GoodBook, RefusedOnly, Excuse
  <1> QED
    BY <1>2, <1>3, <1>4, <1>5 DEF ContactsRight

(* A customer has one partner and, per address with a phone, one contact   *)
(* unless requests met; an order is the customer's and is delivered to its *)
(* address; only what lacks something is refused (get_customer_id with     *)
(* get_partner_invoice_id and get_partner_shipping_id).                    *)
THEOREM OneContactEach == PeopleSpec => []ContactsRight
  <1>1. PeopleInit => ContactsInv
    BY ContactsBegin
  <1>2. ContactsInv /\ [PeopleNext]_contactbookvars => ContactsInv'
    BY ContactsStep
  <1>3. ContactsInv => ContactsRight
    BY ContactsFollow
  <1> QED
    BY <1>1, <1>2, <1>3, PTL DEF PeopleSpec

-----------------------------------------------------------------------------
(* The contents of orders.                                                 *)
(*                                                                         *)
(* Everything but the rounding is inductive: a sale order is what is made  *)
(* of some payload that does not divide by zero.                           *)

OrderInv ==
    /\ order \in Payloads
    /\ feedState \in {"draft", "failed", "processed"} /\ (feedState = "processed" <=> sale # NoSale)
    /\ sale # NoSale => \E o \in Payloads : Divides(o) /\ sale = SaleOf(o)
    /\ shipped \in [Fulfilments -> {"none", "success", "cancelled"}]
    /\ recorded \in [Fulfilments -> {<<>>, <<"success">>, <<"cancelled">>}]

LEMMA OrdersStart == OrderLinesInit => OrderInv
  BY DEF OrderLinesInit, OrderInv

LEMMA FulfilmentsKeep ==
    ASSUME OrderInv
    PROVE  WithFulfilments(recorded) \in [Fulfilments -> {<<>>, <<"success">>, <<"cancelled">>}]
  <1>1. ASSUME NEW f \in Fulfilments
        PROVE  (IF shipped[f] # "none" /\ recorded[f] = <<>> THEN <<shipped[f]>> ELSE recorded[f])
                   \in {<<>>, <<"success">>, <<"cancelled">>}
    <2>1. shipped[f] \in {"none", "success", "cancelled"}
          /\ recorded[f] \in {<<>>, <<"success">>, <<"cancelled">>}
      BY DEF OrderInv
    <2> QED BY <2>1
  <1> QED BY <1>1 DEF WithFulfilments

LEMMA OrdersStep == OrderInv /\ [OrderLinesNext]_orderlinevars => OrderInv'
  <1> SUFFICES ASSUME OrderInv, [OrderLinesNext]_orderlinevars PROVE OrderInv'
    OBVIOUS
  <1>1. CASE UNCHANGED orderlinevars
    BY <1>1 DEF OrderInv, orderlinevars
  <1>2. CASE ProcessNew
    <2>1. UNCHANGED <<order, shipped>> /\ sale = NoSale
      BY <1>2 DEF ProcessNew
    <2>2. \/ feedState' = feedState /\ UNCHANGED <<sale, recorded>>
          \/ feedState' = "failed" /\ UNCHANGED <<sale, recorded>>
          \/ /\ feedState' = "processed" /\ recorded' = WithFulfilments(recorded)
             /\ sale' = SaleOf(order) /\ Divides(order)
      BY <1>2 DEF ProcessNew
    <2>3. order \in Payloads /\ (Divides(order) => SaleOf(order) # NoSale)
      BY NoSaleAssumption DEF OrderInv
    <2> QED BY <2>1, <2>2, <2>3, FulfilmentsKeep DEF OrderInv
  <1>3. CASE ProcessAgain
    BY <1>3, FulfilmentsKeep DEF ProcessAgain, OrderInv
  <1>4. ASSUME NEW s, AddProduct(s) PROVE OrderInv'
    BY <1>4 DEF AddProduct, OrderInv
  <1>5. ASSUME NEW n, EditOrder(n) PROVE OrderInv'
    BY <1>5 DEF EditOrder, OrderInv
  <1>6. ASSUME NEW f \in Fulfilments, Ship(f) \/ CancelShipment(f) PROVE OrderInv'
    <2>1. UNCHANGED <<order, feedState, sale, recorded>>
      BY <1>6 DEF Ship, CancelShipment
    <2>2. shipped' \in [Fulfilments -> {"none", "success", "cancelled"}]
      BY <1>6 DEF Ship, CancelShipment, OrderInv
    <2> QED BY <2>1, <2>2 DEF OrderInv
  <1> QED
    BY <1>1, <1>2, <1>3, <1>4, <1>5, <1>6 DEF OrderLinesNext

(* A rounded quotient is off by half at most.                              *)
LEMMA RoundedNear ==
    ASSUME NEW a \in Int, NEW b \in Nat \ {0}, NEW r, r = Rounded(a, b)
    PROVE  r \in Int /\ 2 * (b * r) <= 2 * a + b /\ 2 * a < 2 * (b * r) + b
  <1>1. PICK n, m : n = 2 * a + b /\ m = 2 * b
    OBVIOUS
  <1>2. n \in Int /\ m \in Nat \ {0} /\ r = n \div m
    BY <1>1 DEF Rounded
  <1>3. r \in Int /\ m * r <= n /\ n < m * r + m
    BY <1>2, SMT
  <1>4. m * r = 2 * (b * r) /\ b * r \in Int
    BY <1>1, <1>3
  <1> QED BY <1>1, <1>3, <1>4

(* With a discount in hundredths of a percent, a line is off by a part in  *)
(* 20000 and half a cent.                                                  *)
Percents(worth, off, d) ==
    IF off = 0 THEN d = 0 ELSE worth # 0 /\ d = Rounded(off * 10000, worth)
Near(worth, off, net) == 20000 * Abs(net - (worth - off)) <= worth + 10000
NetOf(worth, d, net) == net = Rounded(worth * (10000 - d), 10000)

LEMMA DiscountNear ==
    ASSUME NEW worth \in Nat, NEW off \in Nat, NEW d \in Int, NEW net \in Int,
           Percents(worth, off, d), NetOf(worth, d, net)
    PROVE  Near(worth, off, net)
  <1>0. /\ IF off = 0 THEN d = 0 ELSE worth # 0 /\ d = Rounded(off * 10000, worth)
        /\ net = Rounded(worth * (10000 - d), 10000)
    BY DEF Percents, NetOf
  <1>1. PICK w : w \in Int /\ w = worth * d
    OBVIOUS
  <1>2. - worth <= 2 * (10000 * off) - 2 * w /\ 2 * (10000 * off) - 2 * w <= worth
    <2>1. CASE off = 0
      <3>1. w = 0
        BY <1>0, <1>1, <2>1
      <3> QED BY <2>1, <3>1
    <2>2. CASE off # 0
      <3>1. off * 10000 \in Int /\ worth \in Nat \ {0} /\ d = Rounded(off * 10000, worth)
        BY <1>0, <2>2
      <3>2. 2 * (worth * d) <= 2 * (off * 10000) + worth /\ 2 * (off * 10000) < 2 * (worth * d) + worth
        BY <3>1, RoundedNear
      <3> QED BY <1>1, <3>2
    <2> QED BY <2>1, <2>2
  <1>3. worth * (10000 - d) = 10000 * worth - w
    BY <1>1
  <1>4. PICK a : a \in Int /\ a = 10000 * worth - w
    BY <1>1
  <1>5. net = Rounded(a, 10000)
    BY <1>0, <1>3, <1>4
  <1>6. 2 * (10000 * net) <= 2 * a + 10000 /\ 2 * a < 2 * (10000 * net) + 10000
    <2>1. PICK b : b \in Nat \ {0} /\ b = 10000
      OBVIOUS
    <2>2. net = Rounded(a, b)
      BY <1>5, <2>1
    <2>3. a \in Int /\ b \in Nat \ {0}
      BY <1>4, <2>1
    <2>4. net \in Int /\ 2 * (b * net) <= 2 * a + b /\ 2 * a < 2 * (b * net) + b
      BY <2>2, <2>3, RoundedNear, Zenon
    <2> QED BY <2>1, <2>4
  <1>7. PICK g : g \in Int /\ g = net - (worth - off)
    OBVIOUS
  <1>8. 20000 * g <= worth + 10000 /\ 20000 * (-g) <= worth + 10000
    <2>1. w \in Int /\ g \in Int /\ a \in Int
      BY <1>1, <1>4, <1>7
    <2>2. a = 10000 * worth - w /\ g = net - (worth - off)
      BY <1>4, <1>7
    <2> QED BY <1>2, <1>6, <2>1, <2>2
  <1> QED BY <1>7, <1>8 DEF Abs, Near

LEMMA OrdersAddUp ==
    ASSUME NEW o \in Payloads, Divides(o), NEW k \in DOMAIN KeptLines(o), NEW l, l = KeptLines(o)[k],
           Comparable(o, l)
    PROVE  /\ Charged(l) \in Int /\ Subtotal(SaleLine(o, l)) \in Int
           /\ l.qty * l.price \in Nat
           /\ 20000 * Abs(Subtotal(SaleLine(o, l)) - Charged(l)) <= l.qty * l.price + 10000
  <1>1. k \in DOMAIN o.lines /\ l = o.lines[k] /\ l.qty > 0
    BY DEF KeptLines, RestrictValues, Restrict
  <1>2. l \in Range(o.lines)
    BY <1>1 DEF Range
  <1>3. l.qty \in Nat /\ l.price \in Nat /\ l.allocated \in Nat /\ l.direct = 0 /\ ~o.foreign
    BY <1>2, PayloadsAssumption DEF Comparable
  <1>4. l.allocated # 0 => l.price # 0
    BY <1>1, <1>2, <1>3 DEF Divides
  <1>5. PICK worth, off, d, net :
            /\ worth = l.price * l.qty /\ off = l.allocated
            /\ d = Discount(l) /\ net = Subtotal(SaleLine(o, l))
    OBVIOUS
  <1>6. worth \in Nat /\ off \in Nat /\ l.qty * l.price = worth /\ (off # 0 => worth # 0)
    BY <1>1, <1>3, <1>4, <1>5
  <1>7. Percents(worth, off, d)
    BY <1>3, <1>5, <1>6 DEF Discount, Percents
  <1>8. d \in Int
    BY <1>6, <1>7, RoundedNear DEF Percents
  <1>9. NetOf(worth, d, net)
    BY <1>3, <1>5, <1>6 DEF Subtotal, SaleLine, UnitPrice, NetOf
  <1>10. net \in Int
    BY <1>6, <1>8, <1>9, RoundedNear DEF NetOf
  <1>11. Near(worth, off, net)
    <2>1. worth \in Nat /\ off \in Nat
      BY <1>6
    <2> QED BY <1>7, <1>8, <1>9, <1>10, <2>1, DiscountNear, Zenon
  <1>12. Charged(l) = worth - off
    BY <1>5, <1>6 DEF Charged
  <1> QED BY <1>5, <1>6, <1>10, <1>11, <1>12 DEF Near

LEMMA OrderInvLines == OrderInv => OrderLines
  <1> SUFFICES ASSUME OrderInv PROVE OrderLines
    OBVIOUS
  <1>1. OneRow
    <2> SUFFICES ASSUME NEW f \in Fulfilments PROVE Len(recorded[f]) <= 1
      BY DEF OneRow
    <2>1. recorded[f] \in {<<>>, <<"success">>, <<"cancelled">>}
      BY DEF OrderInv
    <2>2. Len(<<>>) = 0 /\ Len(<<"success">>) = 1 /\ Len(<<"cancelled">>) = 1
      OBVIOUS
    <2>3. recorded[f] = <<>> \/ recorded[f] = <<"success">> \/ recorded[f] = <<"cancelled">>
      BY <2>1
    <2>4. PICK n : n = Len(recorded[f])
      OBVIOUS
    <2>5. n = 0 \/ n = 1
      BY <2>2, <2>3, <2>4, Zenon
    <2>6. n <= 1
      BY <2>5
    <2> QED BY <2>4, <2>6, Zenon
  <1>2. ASSUME sale # NoSale, NEW k \in DOMAIN KeptLines(sale.of)
        PROVE  LET l == KeptLines(sale.of)[k] IN
               /\ sale.lines[k].sku = l.sku
               /\ Comparable(sale.of, l) =>
                     /\ 20000 * Abs(Subtotal(sale.lines[k]) - Charged(l)) <= l.qty * l.price + 10000
                     /\ l.qty * l.price < 10000 => Subtotal(sale.lines[k]) = Charged(l)
    <2>1. PICK o \in Payloads : Divides(o) /\ sale = SaleOf(o)
      BY <1>2 DEF OrderInv
    <2>2. sale.of = o /\ \A j \in DOMAIN KeptLines(o) : sale.lines[j] = SaleLine(o, KeptLines(o)[j])
      BY <2>1 DEF SaleOf
    <2>3. PICK l : l = KeptLines(o)[k]
      OBVIOUS
    <2>4. k \in DOMAIN KeptLines(o) /\ sale.lines[k] = SaleLine(o, l)
      BY <1>2, <2>2, <2>3
    <2>5. SaleLine(o, l).sku = l.sku
      BY DEF SaleLine
    <2>6. ASSUME Comparable(o, l)
          PROVE  /\ 20000 * Abs(Subtotal(SaleLine(o, l)) - Charged(l)) <= l.qty * l.price + 10000
                 /\ l.qty * l.price < 10000 => Subtotal(SaleLine(o, l)) = Charged(l)
      <3>1. /\ Charged(l) \in Int /\ Subtotal(SaleLine(o, l)) \in Int /\ l.qty * l.price \in Nat
            /\ 20000 * Abs(Subtotal(SaleLine(o, l)) - Charged(l)) <= l.qty * l.price + 10000
        BY <2>1, <2>3, <2>4, <2>6, OrdersAddUp
      <3>2. PICK net, due, worth : net = Subtotal(SaleLine(o, l)) /\ due = Charged(l) /\ worth = l.qty * l.price
        OBVIOUS
      <3>3. worth < 10000 => net = due
        BY <3>1, <3>2 DEF Abs
      <3> QED BY <3>1, <3>2, <3>3
    <2> QED BY <2>2, <2>3, <2>4, <2>5, <2>6
  <1>3. LinesAddUp
    BY <1>2 DEF LinesAddUp
  <1>4. SmallLinesExact
    BY <1>2 DEF SmallLinesExact
  <1> QED
    BY <1>1, <1>3, <1>4 DEF OrderLines, OrderInv, ProcessedIsSold

(* OrderLines: a sale order has the lines of the payload it was made of,   *)
(* each with the amount that Shopify charges but for the rounding of a     *)
(* discount to two decimals (shopify_feed_orders.py:573), and exactly if   *)
(* it is below 100; a fulfilment has one row at most; the feed is          *)
(* processed if and only if there is a sale order: for any payloads.       *)
THEOREM OrdersAsCharged == OrderLinesSpec => []OrderLines
  BY OrdersStart, OrdersStep, OrderInvLines, PTL DEF OrderLinesSpec

-----------------------------------------------------------------------------
(* The contents of documents.                                              *)
(*                                                                         *)
(* Of each line the list has one member that goes to the tab, and what     *)
(* this member is worth.  The loop that tidies the list goes wrong where a *)
(* member is taken out, so the invariant says what is next to such a       *)
(* member as long as the loop has not been there (Paired), and that no     *)
(* quantity is 0 behind the loop unless the loop has stepped over it.      *)

PartKinds   == {"item", "expense", "text", "discount"}
TaxOrigins   == {"none", "TAX", "rate", "code"}
MemberSet == [no : Nat, part : PartKinds, role : {"line", "receivable", "tax"},
            qty : Nat, price : Int, tax : TaxOrigins]
LastLine    == Len(form.lines)

ValueOK(m, l) ==
    /\ m.part = "item" => /\ m.qty = l.qty \/ (l.qty = 0 /\ m.qty = 1)
                          /\ m.price = PriceOf(l) /\ m.tax = TaxOfLine(form, l)
    /\ m.part = "expense" => m.qty = (IF l.qty = 0 THEN 1 ELSE l.qty) /\ m.price = PriceOf(l)
    /\ m.part = "discount" => m.qty = 1

MemberOK(m) ==
    /\ m \in MemberSet /\ m.no \in 1 .. LastLine /\ m.part = form.lines[m.no].kind
    /\ m.role = "line" => ValueOK(m, form.lines[m.no])

(* What all members of the list are, and the lines that have a member.     *)
Separate(s) == \A i, j \in DOMAIN s : s[i].no = s[j].no /\ s[i].role = s[j].role => i = j
HasLine(s, k)   == \E j \in DOMAIN s : s[j].no = k /\ s[j].role = "line"
MembersOK(s)    == Separate(s) /\ \A j \in DOMAIN s : MemberOK(s[j])

(* Their order, and what follows what.                                     *)
ByLine(s) == \A i, j \in 1 .. Len(s) : i < j /\ s[j].role = "line" => s[i].no < s[j].no
Threes     == form.type \in Sales /\ form.code # "none"
IsItem(m, role) == m.part = "item" /\ m.role = role
Paired(s, from) ==
    Threes =>
        /\ \A j \in from .. Len(s) :
              IsItem(s[j], "receivable") <=> (j < Len(s) /\ IsItem(s[j + 1], "tax"))
        /\ from <= Len(s) => ~ IsItem(s[from], "tax")

Undiscounted(s) == \A j \in DOMAIN s : s[j].part # "discount"
Unfilled(s, from) ==
    \A j \in DOMAIN s : IsItem(s[j], "line") /\ s[j].qty = 0 => from <= j \/ SteppedOver(s[j].no)
Filled(s) == \A j \in DOMAIN s : IsItem(s[j], "line") /\ s[j].qty = 0 => SteppedOver(s[j].no)

(* The discounts before line k have the amount of the last one of them.    *)
LastOf(d, k) == /\ form.lines[d].kind = "discount"
                /\ \A e \in d + 1 .. k - 1 : form.lines[e].kind # "discount"
Discounted(s, k) ==
    /\ \A j \in DOMAIN s : s[j].part = "discount" =>
          /\ s[j].no < k
          /\ \A d \in 1 .. k - 1 : LastOf(d, k) => s[j].price = - form.lines[d].amount
    /\ \A d \in 1 .. k - 1 : /\ form.lines[d].kind = "discount" => HasLine(s, d)
                             /\ form.lines[d].kind # "percent"

BoughtKinds == {"item", "expense"}

ReadOK(s, k) ==
    /\ k \in 1 .. LastLine + 1 /\ s \in Seq(MemberSet) /\ MembersOK(s)
    /\ ByLine(s) /\ Paired(s, 1) /\ Undiscounted(s)
    /\ \A j \in DOMAIN s : s[j].no < k
    /\ \A i \in 1 .. k - 1 : form.lines[i].kind \in BoughtKinds => HasLine(s, i)

TidyOK(s, k) ==
    /\ k \in Nat \ {0} /\ s \in Seq(MemberSet) /\ MembersOK(s)
    /\ ByLine(s) /\ Paired(s, k) /\ Undiscounted(s) /\ Unfilled(s, k)
    /\ \A i \in 1 .. LastLine : form.lines[i].kind \in BoughtKinds => HasLine(s, i)

DiscountOK(s, k) ==
    /\ k \in 1 .. LastLine + 1 /\ s \in Seq(MemberSet) /\ MembersOK(s)
    /\ Discounted(s, k) /\ Filled(s)
    /\ \A i \in 1 .. LastLine : form.lines[i].kind \in BoughtKinds => HasLine(s, i)

(* What is written of a list that is complete.                             *)
Complete(s) ==
    /\ MembersOK(s) /\ Discounted(s, LastLine + 1) /\ Filled(s)
    /\ \A i \in 1 .. LastLine : form.lines[i].kind \in BoughtKinds => HasLine(s, i)

LineInv ==
    /\ form \in Forms /\ found \in [ItemsOf(form) -> {0, 1}]
    /\ stage \in {"idle", "read", "tidy", "discount", "write", "refused"}
    /\ stage = "read" => ReadOK(members, at)
    /\ stage = "tidy" => TidyOK(members, at)
    /\ stage = "discount" => DiscountOK(members, at)
    /\ stage = "write" => members \in Seq(MemberSet) /\ Complete(members)
    /\ move # NoMove => Complete(move.lines) /\ \A j \in DOMAIN move.lines : move.lines[j].role = "line"

-----------------------------------------------------------------------------
LEMMA FormFacts ==
    ASSUME form \in Forms
    PROVE  /\ LastLine \in Nat /\ DOMAIN form.lines = 1 .. LastLine
           /\ \A k \in 1 .. LastLine :
                 LET l == form.lines[k]
                 IN  /\ l \in Range(form.lines)
                     /\ l.kind \in {"item", "expense", "text", "discount", "percent", "subtotal"}
                     /\ l.qty \in Nat /\ l.price \in Nat /\ l.amount \in Nat
                     /\ l.price # 0 => l.amount = (IF l.qty = 0 THEN 1 ELSE l.qty) * l.price
                     /\ l.item \in ItemsOf(form)
  <1>1. form.lines \in Seq(Range(form.lines)) /\ form.taxable \in Nat
        /\ form.type \in Sales \cup {"in_invoice"}
    BY FormsAssumption
  <1>2. LastLine \in Nat /\ DOMAIN form.lines = 1 .. LastLine
    BY <1>1 DEF LastLine
  <1>3. \A k \in 1 .. LastLine : form.lines[k] \in Range(form.lines)
    BY <1>2 DEF Range
  <1>4. \A l \in Range(form.lines) :
           /\ l.kind \in {"item", "expense", "text", "discount", "percent", "subtotal"}
           /\ l.qty \in Nat /\ l.price \in Nat /\ l.amount \in Nat
           /\ l.price # 0 => l.amount = (IF l.qty = 0 THEN 1 ELSE l.qty) * l.price
    BY FormsAssumption
  <1>5. \A l \in Range(form.lines) : l.item \in ItemsOf(form)
    BY DEF ItemsOf
  <1> QED BY <1>2, <1>3, <1>4, <1>5

(* The members of one line, and that they may be added.                    *)
GroupOK(new, k) ==
    /\ new \in Seq(MemberSet) /\ \A j \in 1 .. Len(new) : MemberOK(new[j]) /\ new[j].no = k
    /\ \A i, j \in 1 .. Len(new) : new[i].role = new[j].role => i = j
    /\ \A j \in 1 .. Len(new) : new[j].role = "line" => j = 1
    /\ \A j \in 1 .. Len(new) : new[j].part # "discount"
    /\ Paired(new, 1)
    /\ form.lines[k].kind \in BoughtKinds => 1 <= Len(new) /\ new[1].role = "line"

LEMMA Joined ==
    ASSUME NEW S, NEW a \in Seq(S), NEW b \in Seq(S)
    PROVE  /\ a \o b \in Seq(S) /\ Len(a \o b) = Len(a) + Len(b)
           /\ Len(a) \in Nat /\ Len(b) \in Nat
           /\ DOMAIN (a \o b) = 1 .. Len(a \o b) /\ DOMAIN a = 1 .. Len(a) /\ DOMAIN b = 1 .. Len(b)
           /\ \A j \in 1 .. Len(a) : (a \o b)[j] = a[j]
           /\ \A j \in 1 .. Len(b) : (a \o b)[Len(a) + j] = b[j]
           /\ \A j \in 1 .. Len(a) + Len(b) : j \in 1 .. Len(a) \/ \E i \in 1 .. Len(b) : j = Len(a) + i
  <1>1. \A j \in 1 .. Len(a) + Len(b) : j \in 1 .. Len(a) \/ (j - Len(a) \in 1 .. Len(b) /\ j = Len(a) + (j - Len(a)))
    OBVIOUS
  <1>2. /\ a \o b \in Seq(S) /\ Len(a \o b) = Len(a) + Len(b)
        /\ Len(a) \in Nat /\ Len(b) \in Nat
    OBVIOUS
  <1>3. DOMAIN (a \o b) = 1 .. Len(a \o b) /\ DOMAIN a = 1 .. Len(a) /\ DOMAIN b = 1 .. Len(b)
    BY <1>2
  <1>4. \A j \in 1 .. Len(a) : (a \o b)[j] = a[j]
    OBVIOUS
  <1>5. \A j \in 1 .. Len(b) : (a \o b)[Len(a) + j] = b[j]
    OBVIOUS
  <1> QED BY <1>1, <1>2, <1>3, <1>4, <1>5

LEMMA ReadMore ==
    ASSUME form \in Forms, NEW s, NEW k, k \in 1 .. LastLine, NEW new,
           ReadOK(s, k), GroupOK(new, k)
    PROVE  ReadOK(s \o new, k + 1)
  <1>0. LastLine \in Nat /\ k \in Nat
    BY FormFacts
  <1>1. s \in Seq(MemberSet) /\ new \in Seq(MemberSet)
    BY DEF ReadOK, GroupOK
  <1>2. PICK t, n, m : t = s \o new /\ n = Len(s) /\ m = Len(new)
    OBVIOUS
  <1>3. /\ t \in Seq(MemberSet) /\ Len(t) = n + m /\ n \in Nat /\ m \in Nat
        /\ DOMAIN t = 1 .. n + m /\ DOMAIN s = 1 .. n /\ DOMAIN new = 1 .. m
        /\ \A j \in 1 .. n : t[j] = s[j]
        /\ \A j \in 1 .. m : t[n + j] = new[j]
        /\ \A j \in 1 .. n + m : j \in 1 .. n \/ \E i \in 1 .. m : j = n + i
    BY <1>1, <1>2, Joined
  <1>4. /\ \A j \in 1 .. n : MemberOK(s[j]) /\ s[j].no < k /\ s[j].part # "discount" /\ s[j].no \in Nat
        /\ \A i, j \in 1 .. n : s[i].no = s[j].no /\ s[i].role = s[j].role => i = j
        /\ \A i, j \in 1 .. n : i < j /\ s[j].role = "line" => s[i].no < s[j].no
        /\ \A i \in 1 .. k - 1 : form.lines[i].kind \in BoughtKinds => HasLine(s, i)
    BY <1>2, <1>3 DEF ReadOK, MembersOK, Separate, ByLine, Undiscounted, MemberOK, MemberSet
  <1>5. /\ \A j \in 1 .. m : MemberOK(new[j]) /\ new[j].no = k /\ new[j].part # "discount"
        /\ \A i, j \in 1 .. m : new[i].role = new[j].role => i = j
        /\ \A j \in 1 .. m : new[j].role = "line" => j = 1
        /\ form.lines[k].kind \in BoughtKinds => 1 <= m /\ new[1].role = "line"
    BY <1>2 DEF GroupOK
  <1>6. ASSUME NEW j \in 1 .. n + m PROVE MemberOK(t[j]) /\ t[j].no < k + 1 /\ t[j].part # "discount"
    <2>1. CASE j \in 1 .. n
      <3>1. t[j] = s[j] /\ s[j].no < k /\ s[j].no \in Nat /\ MemberOK(s[j]) /\ s[j].part # "discount"
        BY <1>3, <1>4, <2>1
      <3> QED BY <1>0, <3>1
    <2>2. ASSUME NEW i \in 1 .. m, j = n + i PROVE MemberOK(t[j]) /\ t[j].no < k + 1 /\ t[j].part # "discount"
      <3>1. t[j] = new[i] /\ new[i].no = k /\ MemberOK(new[i]) /\ new[i].part # "discount"
        BY <1>3, <1>5, <2>2
      <3> QED BY <1>0, <3>1
    <2> QED BY <1>3, <2>1, <2>2
  <1>7. Separate(t)
    <2> SUFFICES ASSUME NEW i \in 1 .. n + m, NEW j \in 1 .. n + m, t[i].no = t[j].no, t[i].role = t[j].role
                 PROVE  i = j
      BY <1>3 DEF Separate
    <2>1. CASE i \in 1 .. n /\ j \in 1 .. n
      BY <1>3, <1>4, <2>1
    <2>2. ASSUME NEW x \in 1 .. m, NEW y \in 1 .. m, i = n + x, j = n + y PROVE i = j
      <3>1. t[i] = new[x] /\ t[j] = new[y]
        BY <1>3, <2>2
      <3>2. x = y
        BY <1>5, <3>1
      <3> QED BY <2>2, <3>2
    <2>3. ASSUME NEW a \in 1 .. n, NEW x \in 1 .. m PROVE t[a].no # t[n + x].no
      <3>1. t[a] = s[a] /\ t[n + x] = new[x] /\ s[a].no < k /\ s[a].no \in Nat /\ new[x].no = k
        BY <1>3, <1>4, <1>5
      <3> QED BY <1>0, <3>1
    <2>4. CASE i \in 1 .. n
      <3>1. ASSUME NEW y \in 1 .. m, j = n + y PROVE FALSE
        BY <2>3, <2>4, <3>1
      <3>2. j \in 1 .. n \/ \E y \in 1 .. m : j = n + y
        BY <1>3
      <3> QED BY <2>1, <2>4, <3>1, <3>2
    <2>5. ASSUME NEW x \in 1 .. m, i = n + x PROVE i = j
      <3>1. CASE j \in 1 .. n
        BY <2>3, <2>5, <3>1
      <3>2. j \in 1 .. n \/ \E y \in 1 .. m : j = n + y
        BY <1>3
      <3> QED BY <2>2, <2>5, <3>1, <3>2
    <2>6. i \in 1 .. n \/ \E x \in 1 .. m : i = n + x
      BY <1>3
    <2> QED BY <2>4, <2>5, <2>6
  <1>8. ByLine(t)
    <2> SUFFICES ASSUME NEW i \in 1 .. n + m, NEW j \in 1 .. n + m, i < j, t[j].role = "line"
                 PROVE  t[i].no < t[j].no
      BY <1>3 DEF ByLine
    <2>1. CASE j \in 1 .. n
      <3>1. i \in 1 .. n
        BY <1>3, <2>1
      <3>2. t[i] = s[i] /\ t[j] = s[j]
        BY <1>3, <2>1, <3>1
      <3> QED BY <1>4, <2>1, <3>1, <3>2
    <2>2. ASSUME NEW y \in 1 .. m, j = n + y PROVE t[i].no < t[j].no
      <3>1. t[j] = new[y] /\ y = 1 /\ new[y].no = k
        BY <1>3, <1>5, <2>2
      <3>2. i \in 1 .. n
        BY <1>3, <2>2, <3>1
      <3> QED BY <1>3, <1>4, <3>1, <3>2
    <2> QED BY <1>3, <2>1, <2>2
  <1>9. Paired(t, 1)
    <2> SUFFICES ASSUME Threes
                 PROVE  /\ \A j \in 1 .. n + m :
                              IsItem(t[j], "receivable") <=> (j < n + m /\ IsItem(t[j + 1], "tax"))
                        /\ 1 <= n + m => ~ IsItem(t[1], "tax")
      BY <1>3 DEF Paired
    <2>1. /\ \A j \in 1 .. n : IsItem(s[j], "receivable") <=> (j < n /\ IsItem(s[j + 1], "tax"))
          /\ 1 <= n => ~ IsItem(s[1], "tax")
      BY <1>2 DEF ReadOK, Paired
    <2>2. /\ \A j \in 1 .. m : IsItem(new[j], "receivable") <=> (j < m /\ IsItem(new[j + 1], "tax"))
          /\ 1 <= m => ~ IsItem(new[1], "tax")
      BY <1>2 DEF GroupOK, Paired
    <2>3. ASSUME NEW j \in 1 .. n
          PROVE  IsItem(t[j], "receivable") <=> (j < n + m /\ IsItem(t[j + 1], "tax"))
      <3>1. CASE j < n
        <4>1. j + 1 \in 1 .. n /\ j < n + m
          BY <1>3, <3>1
        <4>2. t[j] = s[j] /\ t[j + 1] = s[j + 1]
          BY <1>3, <4>1
        <4> QED BY <2>1, <3>1, <4>1, <4>2
      <3>2. CASE j = n
        <4>1. t[j] = s[j] /\ ~ IsItem(s[j], "receivable")
          BY <1>3, <2>1, <3>2
        <4>2. ASSUME j < n + m PROVE ~ IsItem(t[j + 1], "tax")
          <5>1. 1 \in 1 .. m
            BY <1>3, <3>2, <4>2
          <5>2. t[n + 1] = new[1]
            BY <1>3, <5>1
          <5> QED BY <2>2, <3>2, <5>1, <5>2
        <4> QED BY <4>1, <4>2
      <3> QED BY <1>3, <3>1, <3>2
    <2>4. ASSUME NEW j \in 1 .. n + m, NEW i \in 1 .. m, j = n + i
          PROVE  IsItem(t[j], "receivable") <=> (j < n + m /\ IsItem(t[j + 1], "tax"))
      <3>1. t[j] = new[i] /\ (j < n + m <=> i < m)
        BY <1>3, <2>4
      <3>2. ASSUME i < m PROVE t[j + 1] = new[i + 1]
        <4>1. i + 1 \in 1 .. m /\ j + 1 = n + (i + 1)
          BY <1>3, <2>4, <3>2
        <4> QED BY <1>3, <4>1
      <3> QED BY <2>2, <3>1, <3>2
    <2>5. 1 <= n + m => ~ IsItem(t[1], "tax")
      <3>1. CASE n = 0
        <4>1. 1 <= n + m => 1 \in 1 .. m /\ t[1] = new[1]
          <5>1. 1 <= n + m => 1 \in 1 .. m /\ n + 1 = 1
            BY <1>3, <3>1
          <5> QED BY <1>3, <5>1
        <4> QED BY <2>2, <4>1
      <3>2. CASE n # 0
        <4>1. 1 \in 1 .. n /\ t[1] = s[1]
          BY <1>3, <3>2
        <4> QED BY <2>1, <4>1
      <3> QED BY <3>1, <3>2
    <2> QED BY <1>3, <2>3, <2>4, <2>5
  <1>10. ASSUME NEW i \in 1 .. (k + 1) - 1, form.lines[i].kind \in BoughtKinds PROVE HasLine(t, i)
    <2>1. CASE i = k
      <3>1. 1 \in 1 .. m /\ new[1].role = "line" /\ new[1].no = k
        BY <1>3, <1>5, <1>10, <2>1
      <3>2. n + 1 \in DOMAIN t /\ t[n + 1] = new[1]
        BY <1>3, <3>1
      <3> QED BY <2>1, <3>1, <3>2 DEF HasLine
    <2>2. CASE i # k
      <3>1. i \in 1 .. k - 1
        BY <1>0, <2>2
      <3>2. PICK j \in DOMAIN s : s[j].no = i /\ s[j].role = "line"
        BY <1>4, <1>10, <3>1 DEF HasLine
      <3>3. j \in DOMAIN t /\ t[j] = s[j]
        BY <1>3
      <3> QED BY <3>2, <3>3 DEF HasLine
    <2> QED BY <2>1, <2>2
  <1>11. k + 1 \in 1 .. LastLine + 1
    BY <1>0
  <1> QED
    BY <1>2, <1>3, <1>6, <1>7, <1>8, <1>9, <1>10, <1>11 DEF ReadOK, MembersOK, Undiscounted

(* The members of an item, an expense and a text.                          *)
LEMMA PriceIs ==
    ASSUME form \in Forms, NEW k \in 1 .. LastLine, NEW l, l = form.lines[k]
    PROVE  PriceOf(l) \in Nat /\ TaxOfLine(form, l) \in TaxOrigins
  <1>1. l.price \in Nat /\ l.amount \in Nat
    BY FormFacts
  <1> QED BY <1>1 DEF PriceOf, TaxOfLine, TaxOfForm, NoTax, TaxOrigins

LEMMA MemberIs ==
    ASSUME NEW no \in Nat, NEW part \in PartKinds, NEW role \in {"line", "receivable", "tax"},
           NEW qty \in Nat, NEW price \in Int, NEW levy \in TaxOrigins, NEW m,
           m = Member(no, part, role, qty, price, levy)
    PROVE  /\ m \in MemberSet /\ m.no = no /\ m.part = part /\ m.role = role /\ m.qty = qty
           /\ m.price = price /\ m.tax = levy
  BY DEF Member, MemberSet

LEMMA CounterpartsOK ==
    ASSUME form \in Forms, NEW k \in 1 .. LastLine, NEW l, l = form.lines[k],
           NEW part \in BoughtKinds, part = l.kind, NEW qty \in Nat, NEW levy \in TaxOrigins,
           IF part = "item" THEN qty = l.qty /\ levy = TaxOfLine(form, l)
           ELSE qty = (IF l.qty = 0 THEN 1 ELSE l.qty)
    PROVE  GroupOK(WithCounterparts(k, part, qty, PriceOf(l), levy), k)
  <1>0. LastLine \in Nat /\ k \in Nat /\ PriceOf(l) \in Nat /\ part \in PartKinds
    BY FormFacts, PriceIs DEF BoughtKinds, PartKinds
  <1>1. PICK p, new : p = PriceOf(l) /\ new = WithCounterparts(k, part, qty, PriceOf(l), levy)
    OBVIOUS
  <1>2. PICK a, b, c : /\ a = Member(k, part, "line", qty, p, levy)
                       /\ b = Member(k, part, "receivable", qty, -p, levy)
                       /\ c = Member(k, part, "tax", qty, 0, levy)
    OBVIOUS
  <1>3. /\ a \in MemberSet /\ a.no = k /\ a.part = part /\ a.role = "line" /\ a.qty = qty
        /\ a.price = p /\ a.tax = levy
        /\ b \in MemberSet /\ b.no = k /\ b.part = part /\ b.role = "receivable"
        /\ c \in MemberSet /\ c.no = k /\ c.part = part /\ c.role = "tax"
    <2>1. p \in Int /\ -p \in Int /\ 0 \in Int
      BY <1>0, <1>1
    <2>2. /\ a \in MemberSet /\ a.no = k /\ a.part = part /\ a.role = "line" /\ a.qty = qty
          /\ a.price = p /\ a.tax = levy
      BY <1>0, <1>2, <2>1 DEF Member, MemberSet
    <2>3. b \in MemberSet /\ b.no = k /\ b.part = part /\ b.role = "receivable"
      BY <1>0, <1>2, <2>1 DEF Member, MemberSet
    <2>4. c \in MemberSet /\ c.no = k /\ c.part = part /\ c.role = "tax"
      BY <1>0, <1>2, <2>1 DEF Member, MemberSet
    <2> QED BY <2>2, <2>3, <2>4
  <1>4. ValueOK(a, l)
    BY <1>1, <1>3 DEF ValueOK, BoughtKinds
  <1>5. MemberOK(a) /\ MemberOK(b) /\ MemberOK(c)
    BY <1>3, <1>4 DEF MemberOK
  <1>6. PICK u, v : u = <<a, b>> /\ v = (IF Threes THEN <<c>> ELSE <<>>)
    OBVIOUS
  <1>7. u \in Seq(MemberSet) /\ Len(u) = 2 /\ u[1] = a /\ u[2] = b
    BY <1>3, <1>6
  <1>8. /\ new \in Seq(MemberSet) /\ Len(new) = (IF Threes THEN 3 ELSE 2)
        /\ new[1] = a /\ new[2] = b /\ (Threes => new[3] = c)
        /\ \A j \in 1 .. Len(new) : \/ (j = 1 /\ new[j] = a)
                                     \/ (j = 2 /\ new[j] = b)
                                     \/ (j = 3 /\ new[j] = c)
    <2>1. v \in Seq(MemberSet) /\ Len(v) = (IF Threes THEN 1 ELSE 0) /\ (Threes => v[1] = c)
      BY <1>3, <1>6
    <2>2. new = u \o v
      BY <1>1, <1>2, <1>6 DEF WithCounterparts, Threes
    <2>3. /\ u \o v \in Seq(MemberSet) /\ Len(u \o v) = Len(u) + Len(v)
          /\ Len(u) \in Nat /\ Len(v) \in Nat
          /\ DOMAIN (u \o v) = 1 .. Len(u \o v) /\ DOMAIN u = 1 .. Len(u) /\ DOMAIN v = 1 .. Len(v)
          /\ \A j \in 1 .. Len(u) : (u \o v)[j] = u[j]
          /\ \A j \in 1 .. Len(v) : (u \o v)[Len(u) + j] = v[j]
          /\ \A j \in 1 .. Len(u) + Len(v) : j \in 1 .. Len(u) \/ \E i \in 1 .. Len(v) : j = Len(u) + i
      <3>1. u \in Seq(MemberSet) /\ v \in Seq(MemberSet)
        BY <1>7, <2>1
      <3> QED BY <3>1, Joined
    <2>4. /\ new \in Seq(MemberSet) /\ Len(new) = (IF Threes THEN 3 ELSE 2)
          /\ \A j \in 1 .. 2 : new[j] = u[j]
          /\ \A j \in 1 .. Len(v) : new[2 + j] = v[j]
      BY <1>7, <2>1, <2>2, <2>3
    <2>5. new[1] = a /\ new[2] = b
      BY <1>7, <2>4
    <2>6. ASSUME Threes PROVE new[3] = c
      <3>1. 1 \in 1 .. Len(v) /\ 2 + 1 = 3
        BY <2>1, <2>6
      <3> QED BY <2>1, <2>4, <2>6, <3>1
    <2>7. ASSUME NEW j \in 1 .. Len(new) PROVE j = 1 \/ j = 2 \/ (j = 3 /\ Threes)
      BY <2>4
    <2> QED BY <2>4, <2>5, <2>6, <2>7
  <1>9. part # "discount"
    BY DEF BoughtKinds
  <1>10. \A j \in 1 .. Len(new) : MemberOK(new[j]) /\ new[j].no = k /\ new[j].part # "discount"
                                  /\ (new[j].role = "line" => j = 1)
    BY <1>3, <1>5, <1>8, <1>9
  <1>11. \A i, j \in 1 .. Len(new) : new[i].role = new[j].role => i = j
    BY <1>3, <1>8
  <1>12. Paired(new, 1)
    <2> SUFFICES ASSUME Threes
                 PROVE  /\ \A j \in 1 .. Len(new) :
                              IsItem(new[j], "receivable") <=> (j < Len(new) /\ IsItem(new[j + 1], "tax"))
                        /\ 1 <= Len(new) => ~ IsItem(new[1], "tax")
      BY DEF Paired
    <2>1. Len(new) = 3 /\ new[1] = a /\ new[2] = b /\ new[3] = c
      BY <1>8
    <2> QED BY <1>3, <2>1 DEF IsItem
  <1>13. 1 <= Len(new) /\ new[1].role = "line" /\ new \in Seq(MemberSet)
    BY <1>3, <1>8
  <1>14. GroupOK(new, k)
    BY <1>10, <1>11, <1>12, <1>13 DEF GroupOK
  <1> QED BY <1>1, <1>14

LEMMA EmptyGroupOK ==
    ASSUME NEW k, form.lines[k].kind \notin BoughtKinds
    PROVE  GroupOK(<<>>, k)
  BY DEF GroupOK, Paired

LEMMA TextOK ==
    ASSUME form \in Forms, NEW k \in 1 .. LastLine, form.lines[k].kind = "text",
           NEW price \in Nat, NEW levy \in TaxOrigins
    PROVE  GroupOK(<<Member(k, "text", "line", 1, price, levy)>>, k)
  <1>0. LastLine \in Nat /\ k \in Nat
    BY FormFacts
  <1>1. PICK a, new : a = Member(k, "text", "line", 1, price, levy) /\ new = <<a>>
    OBVIOUS
  <1>2. a \in MemberSet /\ a.no = k /\ a.part = "text" /\ a.role = "line"
    BY <1>0, <1>1 DEF Member, MemberSet, PartKinds
  <1>3. MemberOK(a)
    BY <1>2 DEF MemberOK, ValueOK
  <1>4. Len(new) = 1 /\ new[1] = a /\ new \in Seq(MemberSet)
    BY <1>1, <1>2
  <1>5. Paired(new, 1)
    BY <1>2, <1>4 DEF Paired, IsItem
  <1>6. GroupOK(new, k)
    BY <1>2, <1>3, <1>4, <1>5 DEF GroupOK
  <1> QED BY <1>1, <1>6

(* The loop leaves a member where it is.                                   *)
LEMMA KeepOK ==
    ASSUME form \in Forms, NEW s, NEW a, TidyOK(s, a), a <= Len(s), ~ WithoutProduct(s[a]),
           NEW t, t = IF s[a].part = "item" /\ s[a].qty = 0 THEN [s EXCEPT ![a].qty = 1] ELSE s
    PROVE  TidyOK(t, a + 1)
  <1>1. /\ a \in Nat \ {0} /\ s \in Seq(MemberSet) /\ Separate(s) /\ ByLine(s) /\ Paired(s, a)
        /\ Undiscounted(s) /\ Unfilled(s, a)
        /\ \A j \in DOMAIN s : MemberOK(s[j])
        /\ \A i \in 1 .. LastLine : form.lines[i].kind \in BoughtKinds => HasLine(s, i)
    BY DEF TidyOK, MembersOK
  <1>2. PICK n : n = Len(s)
    OBVIOUS
  <1>3. n \in Nat /\ DOMAIN s = 1 .. n /\ a \in 1 .. n
    BY <1>1, <1>2
  <1>4. PICK m, u : m = s[a] /\ u = IF m.part = "item" /\ m.qty = 0 THEN [m EXCEPT !.qty = 1] ELSE m
    OBVIOUS
  <1>5. t = [s EXCEPT ![a] = u]
    <2>1. CASE m.part = "item" /\ m.qty = 0
      BY <1>4, <2>1
    <2>2. CASE ~ (m.part = "item" /\ m.qty = 0)
      <3>1. t = s /\ u = s[a]
        BY <1>4, <2>2
      <3>2. s \in [1 .. n -> MemberSet]
        BY <1>1, <1>2
      <3>3. s = [s EXCEPT ![a] = s[a]]
        BY <1>3, <3>2
      <3> QED BY <3>1, <3>3
    <2> QED BY <2>1, <2>2
  <1>6. m \in MemberSet /\ MemberOK(m)
    BY <1>1, <1>3, <1>4 DEF MemberOK
  <1>7. u \in MemberSet /\ u.no = m.no /\ u.part = m.part /\ u.role = m.role
        /\ u.price = m.price /\ u.tax = m.tax /\ (m.part = "item" => u.qty # 0)
        /\ (u.qty = m.qty \/ (m.part = "item" /\ m.qty = 0 /\ u.qty = 1))
    BY <1>4, <1>6 DEF MemberSet
  <1>8. MemberOK(u)
    BY <1>6, <1>7 DEF MemberOK, ValueOK
  <1>9. /\ t \in Seq(MemberSet) /\ Len(t) = n /\ DOMAIN t = 1 .. n
        /\ t[a] = u /\ \A j \in 1 .. n : j # a => t[j] = s[j]
    BY <1>1, <1>2, <1>3, <1>5, <1>7
  <1>10. \A j \in 1 .. n : t[j].no = s[j].no /\ t[j].role = s[j].role /\ t[j].part = s[j].part
    BY <1>4, <1>7, <1>9
  <1>11. \A j \in 1 .. n : MemberOK(t[j])
    BY <1>1, <1>3, <1>8, <1>9
  <1>12. Separate(t)
    BY <1>1, <1>3, <1>9, <1>10 DEF Separate
  <1>13. ByLine(t)
    BY <1>1, <1>2, <1>9, <1>10 DEF ByLine
  <1>14. Undiscounted(t)
    BY <1>1, <1>3, <1>9, <1>10 DEF Undiscounted
  <1>15. Unfilled(t, a + 1)
    <2> SUFFICES ASSUME NEW j \in 1 .. n, IsItem(t[j], "line"), t[j].qty = 0
                 PROVE  a + 1 <= j \/ SteppedOver(t[j].no)
      BY <1>9 DEF Unfilled
    <2>1. j # a
      BY <1>7, <1>9 DEF IsItem
    <2>2. t[j] = s[j]
      BY <1>9, <2>1
    <2>3. a <= j \/ SteppedOver(s[j].no)
      BY <1>1, <1>3, <2>2 DEF Unfilled
    <2> QED BY <1>3, <2>1, <2>2, <2>3
  <1>16. Paired(t, a + 1)
    <2> SUFFICES ASSUME Threes
                 PROVE  /\ \A j \in a + 1 .. n :
                              IsItem(t[j], "receivable") <=> (j < n /\ IsItem(t[j + 1], "tax"))
                        /\ a + 1 <= n => ~ IsItem(t[a + 1], "tax")
      BY <1>9 DEF Paired
    <2>1. \A j \in a .. n : IsItem(s[j], "receivable") <=> (j < n /\ IsItem(s[j + 1], "tax"))
      BY <1>1, <1>2 DEF Paired
    <2>2. \A j \in 1 .. n, role \in {"receivable", "tax"} : IsItem(t[j], role) <=> IsItem(s[j], role)
      BY <1>10 DEF IsItem
    <2>3. ~ IsItem(s[a], "receivable")
      BY DEF WithoutProduct, IsItem
    <2>4. ASSUME NEW j \in a + 1 .. n
          PROVE  IsItem(t[j], "receivable") <=> (j < n /\ IsItem(t[j + 1], "tax"))
      <3>1. j \in 1 .. n /\ j \in a .. n /\ (j < n => j + 1 \in 1 .. n)
        BY <1>3
      <3> QED BY <2>1, <2>2, <3>1
    <2>5. ASSUME a + 1 <= n PROVE ~ IsItem(t[a + 1], "tax")
      <3>1. a + 1 \in 1 .. n /\ a \in a .. n /\ a < n
        BY <1>3, <2>5
      <3> QED BY <2>1, <2>2, <2>3, <3>1
    <2> QED BY <2>4, <2>5
  <1>17. ASSUME NEW i \in 1 .. LastLine, form.lines[i].kind \in BoughtKinds PROVE HasLine(t, i)
    <2>1. PICK j \in 1 .. n : s[j].no = i /\ s[j].role = "line"
      BY <1>1, <1>3, <1>17 DEF HasLine
    <2> QED BY <1>9, <1>10, <2>1 DEF HasLine
  <1>18. a + 1 \in Nat \ {0}
    BY <1>1
  <1> QED
    BY <1>9, <1>11, <1>12, <1>13, <1>14, <1>15, <1>16, <1>17, <1>18 DEF TidyOK, MembersOK

(* Where a member was before the one at a was taken out.                   *)
Shift(a, j) == IF j < a THEN j ELSE j + 1

LEMMA ShiftFacts ==
    ASSUME NEW n \in Nat, NEW a \in 1 .. n
    PROVE  /\ \A j \in 1 .. n - 1 : Shift(a, j) \in 1 .. n /\ Shift(a, j) # a
           /\ \A i, j \in 1 .. n - 1 : i < j => Shift(a, i) < Shift(a, j)
           /\ \A i, j \in 1 .. n - 1 : Shift(a, i) = Shift(a, j) => i = j
           /\ \A j \in a .. n - 1 : j \in 1 .. n - 1 /\ Shift(a, j) = j + 1
           /\ \A j \in 1 .. n - 1 : a <= Shift(a, j) => a <= j /\ Shift(a, j) = j + 1
           /\ \A i \in 1 .. n : i # a => \E j \in 1 .. n - 1 : Shift(a, j) = i
  <1>1. ASSUME NEW i \in 1 .. n, i # a PROVE \E j \in 1 .. n - 1 : Shift(a, j) = i
    <2>1. CASE i < a
      <3>1. i \in 1 .. n - 1 /\ Shift(a, i) = i
        BY <2>1 DEF Shift
      <3> QED BY <3>1
    <2>2. CASE ~ (i < a)
      <3>1. i - 1 \in 1 .. n - 1 /\ Shift(a, i - 1) = i
        BY <1>1, <2>2 DEF Shift
      <3> QED BY <3>1
    <2> QED BY <2>1, <2>2
  <1> QED BY <1>1 DEF Shift

(* The first of its kind is the one itself, as no other is like it.        *)
Alone(s, n, a, one) == \A j \in 1 .. n : j # a => s[j] # one
TakenOut(s, a, one, t) == t = RemoveFirst([s EXCEPT ![a] = one], one)

Shifted(S, s, n, a, t) ==
    /\ t \in Seq(S) /\ Len(t) = n - 1 /\ DOMAIN t = 1 .. n - 1
    /\ \A j \in 1 .. n - 1 : t[j] = s[Shift(a, j)]

LEMMA RemovedIs ==
    ASSUME NEW S, NEW s, s \in Seq(S), NEW n, n = Len(s), NEW a, a \in 1 .. n, NEW one, one \in S,
           Alone(s, n, a, one), NEW t, TakenOut(s, a, one, t)
    PROVE  Shifted(S, s, n, a, t)
  <1>0. t = RemoveFirst([s EXCEPT ![a] = one], one) /\ \A j \in 1 .. n : j # a => s[j] # one
    BY DEF Alone, TakenOut
  <1>1. PICK u : u = [s EXCEPT ![a] = one]
    OBVIOUS
  <1>2. /\ u \in Seq(S) /\ Len(u) = n /\ n \in Nat /\ u[a] = one /\ a \in 1 .. n
        /\ \A j \in 1 .. n : j # a => u[j] = s[j]
    BY <1>1
  <1>3. {i \in 1 .. Len(u) : u[i] = one} = {a}
    BY <1>0, <1>2
  <1>4. SelectInSeq(u, LAMBDA v : v = one) = a
    <2>1. SelectInSeq(u, LAMBDA v : v = one) = Min({a})
      BY <1>3 DEF SelectInSeq
    <2>2. Min({a}) = a
      BY <1>2 DEF Min
    <2> QED BY <2>1, <2>2
  <1>5. t = RemoveAt(u, a)
    BY <1>0, <1>1, <1>2, <1>4 DEF RemoveFirst
  <1>6. t = SubSeq(u, 1, a - 1) \o SubSeq(u, a + 1, n)
    <2>1. RemoveAt(u, a) = SubSeq(u, 1, a - 1) \o SubSeq(u, a + 1, Len(u))
      BY DEF RemoveAt
    <2>2. Len(u) = n
      BY <1>2
    <2> QED BY <1>5, <2>1, <2>2
  <1>7. PICK p, q : p = SubSeq(u, 1, a - 1) /\ q = SubSeq(u, a + 1, n)
    OBVIOUS
  <1>8. /\ p \in Seq(S) /\ Len(p) = a - 1 /\ \A j \in 1 .. a - 1 : p[j] = u[j]
        /\ q \in Seq(S) /\ Len(q) = n - a /\ \A j \in 1 .. n - a : q[j] = u[a + j]
    <2>1. p \in Seq(S) /\ Len(p) = a - 1 /\ \A j \in 1 .. a - 1 : p[j] = u[j]
      <3>1. PICK b : b = a - 1
        OBVIOUS
      <3>2. b \in Nat /\ b <= Len(u) /\ p = SubSeq(u, 1, b)
        BY <1>2, <1>7, <3>1
      <3>3. p \in Seq(S) /\ Len(p) = b
        BY <1>2, <3>2
      <3>4. \A j \in 1 .. b : p[j] = u[j]
        BY <1>2, <3>2
      <3> QED BY <3>1, <3>3, <3>4
    <2>2. q \in Seq(S) /\ Len(q) = n - a
      BY <1>2, <1>7
    <2>3. \A j \in 1 .. n - a : q[j] = u[a + j]
      BY <1>2, <1>7
    <2> QED BY <2>1, <2>2, <2>3
  <1>9. /\ p \o q \in Seq(S) /\ Len(p \o q) = Len(p) + Len(q)
        /\ Len(p) \in Nat /\ Len(q) \in Nat
        /\ DOMAIN (p \o q) = 1 .. Len(p \o q) /\ DOMAIN p = 1 .. Len(p) /\ DOMAIN q = 1 .. Len(q)
        /\ \A j \in 1 .. Len(p) : (p \o q)[j] = p[j]
        /\ \A j \in 1 .. Len(q) : (p \o q)[Len(p) + j] = q[j]
        /\ \A j \in 1 .. Len(p) + Len(q) : j \in 1 .. Len(p) \/ \E i \in 1 .. Len(q) : j = Len(p) + i
    <2>1. p \in Seq(S) /\ q \in Seq(S)
      BY <1>8
    <2> QED BY <2>1, Joined
  <1>10. t = p \o q /\ Len(p) + Len(q) = n - 1
    <2>1. t = p \o q
      BY <1>6, <1>7
    <2>2. (a - 1) + (n - a) = n - 1
      BY <1>2
    <2> QED BY <1>8, <2>1, <2>2
  <1>11. ASSUME NEW j \in 1 .. n - 1 PROVE t[j] = s[Shift(a, j)]
    <2>1. CASE j < a
      <3>1. j \in 1 .. Len(p) /\ j \in 1 .. a - 1 /\ j \in 1 .. n /\ j # a
        BY <1>2, <1>8, <2>1
      <3>2. Shift(a, j) = j
        BY <2>1 DEF Shift
      <3> QED BY <1>2, <1>8, <1>9, <1>10, <3>1, <3>2
    <2>2. CASE ~ (j < a)
      <3>1. PICK i : i = j - (a - 1)
        OBVIOUS
      <3>2. i \in 1 .. Len(q) /\ i \in 1 .. n - a /\ j = Len(p) + i /\ a + i = j + 1
            /\ j + 1 \in 1 .. n /\ j + 1 # a
        BY <1>2, <1>8, <2>2, <3>1
      <3>3. t[j] = q[i] /\ q[i] = u[a + i] /\ u[j + 1] = s[j + 1]
        BY <1>2, <1>8, <1>9, <1>10, <3>2
      <3>4. Shift(a, j) = j + 1
        BY <2>2 DEF Shift
      <3> QED BY <3>2, <3>3, <3>4
    <2> QED BY <2>1, <2>2
  <1> QED
    BY <1>9, <1>10, <1>11 DEF Shifted

(* The loop takes a member out, and steps over the next one.               *)
LEMMA RemoveOK ==
    ASSUME form \in Forms, NEW s, NEW a, TidyOK(s, a), a <= Len(s), WithoutProduct(s[a]),
           NEW one, one = [s[a] EXCEPT !.qty = IF @ = 0 THEN 1 ELSE @],
           NEW t, t = RemoveFirst([s EXCEPT ![a] = one], one)
    PROVE  TidyOK(t, a + 1)
  <1>1. /\ a \in Nat \ {0} /\ s \in Seq(MemberSet) /\ Separate(s) /\ ByLine(s) /\ Paired(s, a)
        /\ Undiscounted(s) /\ Unfilled(s, a)
        /\ \A j \in DOMAIN s : MemberOK(s[j])
        /\ \A i \in 1 .. LastLine : form.lines[i].kind \in BoughtKinds => HasLine(s, i)
    BY DEF TidyOK, MembersOK
  <1>2. PICK n : n = Len(s)
    OBVIOUS
  <1>3. n \in Nat /\ DOMAIN s = 1 .. n /\ a \in 1 .. n
    BY <1>1, <1>2
  <1>4. \A j \in 1 .. n : s[j] \in MemberSet /\ MemberOK(s[j]) /\ s[j].no \in Nat
    BY <1>1, <1>3 DEF MemberOK, MemberSet
  <1>5. one \in MemberSet /\ one.no = s[a].no /\ one.role = s[a].role
    <2>1. s[a] \in MemberSet
      BY <1>3, <1>4
    <2> QED BY <2>1 DEF MemberSet
  <1>6. Alone(s, n, a, one) /\ TakenOut(s, a, one, t)
    BY <1>1, <1>3, <1>5 DEF Separate, Alone, TakenOut
  <1>7. /\ t \in Seq(MemberSet) /\ Len(t) = n - 1 /\ DOMAIN t = 1 .. n - 1
        /\ \A j \in 1 .. n - 1 : t[j] = s[Shift(a, j)]
    <2>1. s \in Seq(MemberSet)
      BY <1>1
    <2>2. n = Len(s)
      BY <1>2
    <2>3. a \in 1 .. n
      BY <1>3
    <2>4. one \in MemberSet
      BY <1>5
    <2>5. Alone(s, n, a, one)
      BY <1>6
    <2>6. TakenOut(s, a, one, t)
      BY <1>6
    <2>7. Shifted(MemberSet, s, n, a, t)
      BY <2>1, <2>2, <2>3, <2>4, <2>5, <2>6, RemovedIs, Zenon
    <2> QED BY <2>7 DEF Shifted
  <1>8. /\ \A j \in 1 .. n - 1 : Shift(a, j) \in 1 .. n /\ Shift(a, j) # a
        /\ \A i, j \in 1 .. n - 1 : i < j => Shift(a, i) < Shift(a, j)
        /\ \A i, j \in 1 .. n - 1 : Shift(a, i) = Shift(a, j) => i = j
        /\ \A j \in a .. n - 1 : j \in 1 .. n - 1 /\ Shift(a, j) = j + 1
        /\ \A j \in 1 .. n - 1 : a <= Shift(a, j) => a <= j /\ Shift(a, j) = j + 1
        /\ \A i \in 1 .. n : i # a => \E j \in 1 .. n - 1 : Shift(a, j) = i
    <2>1. n \in Nat
      BY <1>3
    <2>2. a \in 1 .. n
      BY <1>3
    <2> QED BY <2>1, <2>2, ShiftFacts, Zenon
  <1>10. Separate(t)
    <2>1. ASSUME NEW i \in 1 .. n - 1, NEW j \in 1 .. n - 1, t[i].no = t[j].no /\ t[i].role = t[j].role
          PROVE  i = j
      <3>1. PICK x, y : x = Shift(a, i) /\ y = Shift(a, j)
        OBVIOUS
      <3>2. x \in 1 .. n /\ y \in 1 .. n
        BY <1>8, <3>1
      <3>3. t[i] = s[x] /\ t[j] = s[y]
        BY <1>7, <3>1
      <3>4. s[x].no = s[y].no /\ s[x].role = s[y].role
        BY <2>1, <3>3
      <3>5. x = y
        BY <1>1, <1>3, <3>2, <3>4 DEF Separate
      <3> QED BY <1>8, <3>1, <3>5
    <2>2. DOMAIN t = 1 .. n - 1
      BY <1>7
    <2>3. \A i, j \in 1 .. n - 1 : t[i].no = t[j].no /\ t[i].role = t[j].role => i = j
      BY <2>1
    <2>4. \A i, j \in DOMAIN t : t[i].no = t[j].no /\ t[i].role = t[j].role => i = j
      BY ONLY <2>2, <2>3
    <2> QED BY <2>4 DEF Separate
  <1>11. ByLine(t)
    <2>1. ASSUME NEW i \in 1 .. n - 1, NEW j \in 1 .. n - 1, i < j /\ t[j].role = "line"
          PROVE  t[i].no < t[j].no
      <3>1. PICK x, y : x = Shift(a, i) /\ y = Shift(a, j)
        OBVIOUS
      <3>2. x \in 1 .. n /\ y \in 1 .. n /\ x < y
        BY <1>8, <2>1, <3>1
      <3>3. t[i] = s[x] /\ t[j] = s[y]
        BY <1>7, <3>1
      <3>4. s[y].role = "line"
        BY <2>1, <3>3
      <3>5. s[x].no < s[y].no
        BY <1>1, <1>2, <3>2, <3>4 DEF ByLine
      <3> QED BY <3>3, <3>5
    <2>2. 1 .. Len(t) = 1 .. n - 1
      BY <1>7
    <2>3. \A i, j \in 1 .. n - 1 : i < j /\ t[j].role = "line" => t[i].no < t[j].no
      BY <2>1
    <2>4. \A i, j \in 1 .. Len(t) : i < j /\ t[j].role = "line" => t[i].no < t[j].no
      BY ONLY <2>2, <2>3
    <2> QED BY <2>4 DEF ByLine
  <1>12. Undiscounted(t) /\ \A j \in 1 .. n - 1 : MemberOK(t[j])
    <2>1. ASSUME NEW j \in 1 .. n - 1 PROVE t[j].part # "discount" /\ MemberOK(t[j])
      <3>1. PICK x : x = Shift(a, j)
        OBVIOUS
      <3>2. x \in 1 .. n /\ t[j] = s[x]
        BY <1>7, <1>8, <3>1
      <3> QED BY <1>1, <1>3, <1>4, <3>2 DEF Undiscounted
    <2> QED BY <1>7, <2>1 DEF Undiscounted
  <1>13. ASSUME NEW i \in 1 .. LastLine, form.lines[i].kind \in BoughtKinds PROVE HasLine(t, i)
    <2>1. PICK j \in 1 .. n : s[j].no = i /\ s[j].role = "line"
      BY <1>1, <1>3, <1>13 DEF HasLine
    <2>2. j # a
      BY <2>1 DEF WithoutProduct
    <2>3. PICK h \in 1 .. n - 1 : Shift(a, h) = j
      BY <1>8, <2>2
    <2> QED BY <1>7, <2>1, <2>3 DEF HasLine
  <1>14. ASSUME Threes
         PROVE  /\ IsItem(s[a], "receivable") /\ a < n /\ IsItem(s[a + 1], "tax")
                /\ \A j \in a .. n : IsItem(s[j], "receivable") <=> (j < n /\ IsItem(s[j + 1], "tax"))
    <2>1. /\ \A j \in a .. n : IsItem(s[j], "receivable") <=> (j < n /\ IsItem(s[j + 1], "tax"))
          /\ a <= n => ~ IsItem(s[a], "tax")
      BY <1>1, <1>2, <1>14 DEF Paired
    <2>2. s[a].part = "item" /\ s[a].role # "line" /\ s[a].role \in {"line", "receivable", "tax"}
      BY <1>3, <1>4 DEF WithoutProduct, MemberSet
    <2>3. IsItem(s[a], "receivable") \/ IsItem(s[a], "tax")
      BY <2>2 DEF IsItem
    <2>4. a \in a .. n
      BY <1>3
    <2> QED BY <1>3, <2>1, <2>3, <2>4
  <1>15. Paired(t, a + 1)
    <2> SUFFICES ASSUME Threes
                 PROVE  /\ \A j \in a + 1 .. n - 1 :
                              IsItem(t[j], "receivable") <=> (j < n - 1 /\ IsItem(t[j + 1], "tax"))
                        /\ a + 1 <= n - 1 => ~ IsItem(t[a + 1], "tax")
      BY <1>7 DEF Paired
    <2>1. \A j \in a .. n - 1 : t[j] = s[j + 1]
      BY <1>7, <1>8
    <2>2. ASSUME NEW j \in a + 1 .. n - 1
          PROVE  IsItem(t[j], "receivable") <=> (j < n - 1 /\ IsItem(t[j + 1], "tax"))
      <3>1. j + 1 \in a .. n /\ j \in a .. n - 1 /\ (j + 1 < n <=> j < n - 1)
            /\ (j < n - 1 => j + 1 \in a .. n - 1)
        BY <1>3
      <3> QED BY <1>14, <2>1, <3>1
    <2>3. ASSUME a + 1 <= n - 1 PROVE ~ IsItem(t[a + 1], "tax")
      <3>1. a + 1 \in a .. n - 1 /\ a + 1 \in a .. n /\ a + 1 < n
        BY <1>3, <2>3
      <3>2. ~ IsItem(s[a + 1], "receivable")
        BY <1>14 DEF IsItem
      <3> QED BY <1>14, <2>1, <3>1, <3>2
    <2> QED BY <2>2, <2>3
  <1>16. Unfilled(t, a + 1)
    <2> SUFFICES ASSUME NEW j \in 1 .. n - 1, IsItem(t[j], "line"), t[j].qty = 0
                 PROVE  a + 1 <= j \/ SteppedOver(t[j].no)
      BY <1>7 DEF Unfilled
    <2>1. PICK i \in 1 .. n : i = Shift(a, j) /\ i # a /\ t[j] = s[i]
      BY <1>7, <1>8
    <2>2. a <= i \/ SteppedOver(s[i].no)
      BY <1>1, <1>3, <2>1 DEF Unfilled
    <2>3. CASE a <= i
      <3>1. a < i
        BY <1>3, <2>1, <2>3
      <3>2. CASE Threes
        <4>1. IsItem(s[a + 1], "tax")
          BY <1>14, <3>2
        <4>2. i # a + 1
          BY <2>1, <4>1 DEF IsItem
        <4>3. a + 1 <= j
          <5>1. i = j + 1
            BY <1>8, <2>1, <2>3
          <5> QED BY <1>3, <3>1, <4>2, <5>1
        <4> QED BY <4>3
      <3>3. CASE ~Threes
        <4>1. s[i].role = "line"
          BY <2>1 DEF IsItem
        <4>2. s[a].no < s[i].no
          BY <1>1, <1>2, <1>3, <3>1, <4>1 DEF ByLine
        <4>3. form.lines[s[a].no].kind = "item" /\ s[a].no \in 1 .. LastLine /\ s[i].no \in Nat
          BY <1>3, <1>4 DEF MemberOK, WithoutProduct
        <4>4. s[a].no \in 1 .. s[i].no - 1
          BY <1>3, <1>4, <4>2, <4>3
        <4>5. SteppedOver(s[i].no)
          BY <3>3, <4>3, <4>4 DEF SteppedOver, Threes
        <4> QED BY <2>1, <4>5
      <3> QED BY <3>2, <3>3
    <2> QED BY <2>1, <2>2, <2>3
  <1>17. a + 1 \in Nat \ {0}
    BY <1>1
  <1> QED
    BY <1>7, <1>10, <1>11, <1>12, <1>13, <1>15, <1>16, <1>17 DEF TidyOK, MembersOK

(* The loop over the list has ended.                                       *)
LEMMA TidiedOK ==
    ASSUME form \in Forms, NEW s, NEW k, TidyOK(s, k), k > Len(s)
    PROVE  DiscountOK(s, 1)
  <1>1. LastLine \in Nat
    BY FormFacts
  <1>2. /\ k \in Nat \ {0} /\ s \in Seq(MemberSet) /\ MembersOK(s) /\ Undiscounted(s) /\ Unfilled(s, k)
        /\ \A i \in 1 .. LastLine : form.lines[i].kind \in BoughtKinds => HasLine(s, i)
    BY DEF TidyOK
  <1>3. DOMAIN s = 1 .. Len(s) /\ Len(s) \in Nat
    BY <1>2
  <1>4. Filled(s)
    <2> SUFFICES ASSUME NEW j \in 1 .. Len(s), IsItem(s[j], "line"), s[j].qty = 0
                 PROVE  SteppedOver(s[j].no)
      BY <1>3 DEF Filled
    <2>1. k <= j \/ SteppedOver(s[j].no)
      BY <1>2, <1>3 DEF Unfilled
    <2>2. ~ (k <= j)
      BY <1>2, <1>3
    <2> QED BY <2>1, <2>2
  <1>5. Discounted(s, 1)
    BY <1>2 DEF Discounted, Undiscounted
  <1>6. 1 \in 1 .. LastLine + 1
    BY <1>1
  <1> QED BY <1>2, <1>4, <1>5, <1>6 DEF DiscountOK

(* A discount is added, and those before it get its amount.                *)
LEMMA DiscountedOK ==
    ASSUME form \in Forms, NEW s, members = s, NEW k, DiscountOK(s, k), k <= LastLine,
           form.lines[k].kind = "discount",
           NEW t, t = WithDiscount(k, form.lines[k].amount)
    PROVE  DiscountOK(t, k + 1)
  <1>1. /\ k \in 1 .. LastLine + 1 /\ s \in Seq(MemberSet) /\ Separate(s)
        /\ Discounted(s, k) /\ Filled(s)
        /\ \A j \in DOMAIN s : MemberOK(s[j])
        /\ \A i \in 1 .. LastLine : form.lines[i].kind \in BoughtKinds => HasLine(s, i)
    BY DEF DiscountOK, MembersOK
  <1>2. LastLine \in Nat /\ k \in 1 .. LastLine /\ k \in Nat
    BY <1>1, FormFacts
  <1>3. PICK n, c : n = Len(s) /\ c = form.lines[k].amount
    OBVIOUS
  <1>4. n \in Nat /\ DOMAIN s = 1 .. n /\ c \in Nat
    BY <1>1, <1>2, <1>3, FormFacts
  <1>5. PICK u, m : /\ u = [j \in 1 .. n |-> IF s[j].part = "discount" THEN [s[j] EXCEPT !.price = -c] ELSE s[j]]
                    /\ m = Member(k, "discount", "line", 1, -c, DiscountTax(form))
    OBVIOUS
  <1>6. t = Append(u, m)
    BY <1>3, <1>4, <1>5 DEF WithDiscount
  <1>7. /\ m \in MemberSet /\ m.no = k /\ m.part = "discount" /\ m.role = "line" /\ m.qty = 1 /\ m.price = -c
        /\ MemberOK(m)
    <2>1. DiscountTax(form) \in TaxOrigins /\ -c \in Int
      BY <1>4 DEF DiscountTax, TaxOrigins, NoTax
    <2>2. /\ m \in MemberSet /\ m.no = k /\ m.part = "discount" /\ m.role = "line" /\ m.qty = 1 /\ m.price = -c
      BY <1>2, <1>5, <2>1 DEF Member, MemberSet, PartKinds
    <2>3. MemberOK(m)
      BY <1>2, <2>2 DEF MemberOK, ValueOK
    <2> QED BY <2>2, <2>3
  <1>8. ASSUME NEW j \in 1 .. n
        PROVE  /\ u[j] \in MemberSet /\ u[j].no = s[j].no /\ u[j].part = s[j].part /\ u[j].role = s[j].role
               /\ u[j].qty = s[j].qty /\ (s[j].part = "discount" => u[j].price = -c) /\ MemberOK(u[j])
    <2>1. PICK x, y : x = s[j] /\ y = u[j]
      OBVIOUS
    <2>2. x \in MemberSet /\ MemberOK(x) /\ -c \in Int
      BY <1>1, <1>4, <2>1 DEF MemberOK
    <2>3. y = IF x.part = "discount" THEN [x EXCEPT !.price = -c] ELSE x
      BY <1>5, <2>1
    <2>4. /\ y \in MemberSet /\ y.no = x.no /\ y.part = x.part /\ y.role = x.role /\ y.qty = x.qty
          /\ (x.part = "discount" => y.price = -c) /\ (x.part # "discount" => y = x)
      BY <2>2, <2>3 DEF MemberSet
    <2>5. MemberOK(y)
      BY <2>2, <2>4 DEF MemberOK, ValueOK
    <2> QED BY <2>1, <2>4, <2>5
  <1>9. u \in Seq(MemberSet) /\ Len(u) = n
    <2>1. u \in [1 .. n -> MemberSet]
      BY <1>5, <1>8
    <2>2. u \in Seq(MemberSet)
      BY <1>4, <2>1
    <2> QED BY <1>4, <2>1, <2>2
  <1>10. /\ t \in Seq(MemberSet) /\ Len(t) = n + 1 /\ DOMAIN t = 1 .. n + 1 /\ t[n + 1] = m
         /\ \A j \in 1 .. n : t[j] = u[j] /\ j \in 1 .. n + 1
    BY <1>4, <1>6, <1>7, <1>9
  <1>11. \A j \in 1 .. n + 1 : j \in 1 .. n \/ j = n + 1
    BY <1>4
  <1>12. \A j \in 1 .. n : /\ t[j].no = s[j].no /\ t[j].part = s[j].part /\ t[j].role = s[j].role
                           /\ t[j].qty = s[j].qty /\ (s[j].part = "discount" => t[j].price = -c)
                           /\ MemberOK(t[j])
    BY <1>8, <1>10
  <1>13. \A j \in 1 .. n + 1 : MemberOK(t[j])
    BY <1>7, <1>10, <1>11, <1>12
  <1>14. \A j \in 1 .. n : s[j].no # k
    <2> SUFFICES ASSUME NEW j \in 1 .. n, s[j].no = k PROVE FALSE
      OBVIOUS
    <2>1. s[j].part = "discount"
      BY <1>1, <1>4 DEF MemberOK
    <2>2. s[j].no < k
      BY <1>1, <1>4, <2>1 DEF Discounted
    <2> QED BY <1>2, <2>2
  <1>15. Separate(t)
    <2> SUFFICES ASSUME NEW i \in 1 .. n + 1, NEW j \in 1 .. n + 1, t[i].no = t[j].no, t[i].role = t[j].role
                 PROVE  i = j
      BY <1>10 DEF Separate
    <2>1. CASE i \in 1 .. n /\ j \in 1 .. n
      BY <1>1, <1>4, <1>12, <2>1 DEF Separate
    <2>2. CASE i \in 1 .. n /\ j = n + 1
      BY <1>7, <1>10, <1>12, <1>14, <2>2
    <2>3. CASE i = n + 1 /\ j \in 1 .. n
      BY <1>7, <1>10, <1>12, <1>14, <2>3
    <2> QED BY <1>11, <2>1, <2>2, <2>3
  <1>16. ASSUME NEW i, HasLine(s, i) PROVE HasLine(t, i)
    <2>1. PICK j \in 1 .. n : s[j].no = i /\ s[j].role = "line"
      BY <1>4, <1>16 DEF HasLine
    <2> QED BY <1>10, <1>12, <2>1 DEF HasLine
  <1>17. Discounted(t, k + 1)
    <2>1. ASSUME NEW d \in 1 .. (k + 1) - 1, LastOf(d, k + 1) PROVE d = k
      <3> SUFFICES ASSUME d # k PROVE FALSE
        OBVIOUS
      <3>1. k \in d + 1 .. (k + 1) - 1
        BY <1>2
      <3> QED BY <2>1, <3>1 DEF LastOf
    <2>2. ASSUME NEW j \in 1 .. n + 1, t[j].part = "discount" PROVE t[j].no < k + 1 /\ t[j].price = -c
      <3>1. CASE j = n + 1
        BY <1>2, <1>7, <1>10, <3>1
      <3>2. CASE j \in 1 .. n
        <4>1. s[j].part = "discount" /\ t[j].no = s[j].no /\ t[j].price = -c
          BY <1>12, <2>2, <3>2
        <4>2. s[j].no < k /\ s[j].no \in Nat
          BY <1>1, <1>4, <3>2, <4>1 DEF Discounted, MemberOK, MemberSet
        <4> QED BY <1>2, <4>1, <4>2
      <3> QED BY <1>11, <3>1, <3>2
    <2>3. ASSUME NEW d \in 1 .. (k + 1) - 1
          PROVE  (form.lines[d].kind = "discount" => HasLine(t, d)) /\ form.lines[d].kind # "percent"
      <3>1. CASE d = k
        <4>1. n + 1 \in DOMAIN t /\ t[n + 1].no = k /\ t[n + 1].role = "line"
          BY <1>4, <1>7, <1>10
        <4> QED BY <3>1, <4>1 DEF HasLine
      <3>2. CASE d # k
        <4>1. d \in 1 .. k - 1
          BY <1>2, <3>2
        <4> QED BY <1>1, <1>16, <4>1 DEF Discounted
      <3> QED BY <3>1, <3>2
    <2>4. ASSUME NEW j \in DOMAIN t, t[j].part = "discount"
          PROVE  /\ t[j].no < k + 1
                 /\ \A d \in 1 .. (k + 1) - 1 : LastOf(d, k + 1) => t[j].price = - form.lines[d].amount
      BY <1>3, <1>10, <2>1, <2>2, <2>4
    <2> QED BY <2>3, <2>4 DEF Discounted
  <1>18. Filled(t)
    <2> SUFFICES ASSUME NEW j \in 1 .. n + 1, IsItem(t[j], "line"), t[j].qty = 0
                 PROVE  SteppedOver(t[j].no)
      BY <1>10 DEF Filled
    <2>1. j \in 1 .. n
      BY <1>7, <1>10, <1>11
    <2>2. IsItem(s[j], "line") /\ s[j].qty = 0 /\ s[j].no = t[j].no
      BY <1>12, <2>1 DEF IsItem
    <2> QED BY <1>1, <1>4, <2>1, <2>2 DEF Filled
  <1>19. k + 1 \in 1 .. LastLine + 1
    BY <1>2
  <1> QED BY <1>1, <1>10, <1>13, <1>15, <1>16, <1>17, <1>18, <1>19 DEF DiscountOK, MembersOK

(* Another line is passed over.                                            *)
LEMMA PassedOK ==
    ASSUME form \in Forms, NEW s, NEW k, DiscountOK(s, k), k <= LastLine,
           form.lines[k].kind \notin {"discount", "percent"}
    PROVE  DiscountOK(s, k + 1)
  <1>1. k \in 1 .. LastLine + 1 /\ s \in Seq(MemberSet) /\ Discounted(s, k) /\ MembersOK(s)
    BY DEF DiscountOK
  <1>2. LastLine \in Nat /\ k \in 1 .. LastLine /\ k \in Nat /\ k + 1 \in 1 .. LastLine + 1
    BY <1>1, FormFacts
  <1>3. ASSUME NEW d \in 1 .. (k + 1) - 1, d # k PROVE d \in 1 .. k - 1
    BY <1>2, <1>3
  <1>4. ASSUME NEW d \in 1 .. (k + 1) - 1, LastOf(d, k + 1) PROVE d \in 1 .. k - 1 /\ LastOf(d, k)
    <2>1. d # k
      BY <1>4 DEF LastOf
    <2>2. \A e \in d + 1 .. k - 1 : e \in d + 1 .. (k + 1) - 1
      BY <1>2
    <2> QED BY <1>3, <1>4, <2>1, <2>2 DEF LastOf
  <1>5. ASSUME NEW j \in DOMAIN s, s[j].part = "discount"
        PROVE  /\ s[j].no < k + 1
               /\ \A d \in 1 .. (k + 1) - 1 : LastOf(d, k + 1) => s[j].price = - form.lines[d].amount
    <2>1. s[j].no < k /\ s[j].no \in Nat
      BY <1>1, <1>5 DEF Discounted, MembersOK, MemberOK, MemberSet
    <2>2. s[j].no < k + 1
      BY <1>2, <2>1
    <2>3. \A d \in 1 .. k - 1 : LastOf(d, k) => s[j].price = - form.lines[d].amount
      BY <1>1, <1>5 DEF Discounted
    <2> QED BY <1>4, <2>2, <2>3
  <1>6. ASSUME NEW d \in 1 .. (k + 1) - 1
        PROVE  (form.lines[d].kind = "discount" => HasLine(s, d)) /\ form.lines[d].kind # "percent"
    BY <1>1, <1>3 DEF Discounted
  <1>7. Discounted(s, k + 1)
    BY <1>5, <1>6 DEF Discounted
  <1> QED BY <1>2, <1>7 DEF DiscountOK

(* All lines have been passed.                                             *)
LEMMA AllDiscounted ==
    ASSUME form \in Forms, NEW s, NEW k, DiscountOK(s, k), k > LastLine
    PROVE  s \in Seq(MemberSet) /\ Complete(s)
  <1>1. LastLine \in Nat
    BY FormFacts
  <1>2. k = LastLine + 1
    BY <1>1 DEF DiscountOK
  <1> QED BY <1>2 DEF DiscountOK, Complete

(* Of a complete list, what is in the tab is complete.                     *)
LEMMA InTabComplete ==
    ASSUME NEW s, Complete(s), NEW t, t = RestrictValues(s, InTab)
    PROVE  Complete(t) /\ \A j \in DOMAIN t : t[j].role = "line"
  <1>1. /\ DOMAIN t = {j \in DOMAIN s : s[j].role = "line"}
        /\ \A j \in DOMAIN t : t[j] = s[j]
    BY DEF RestrictValues, Restrict, InTab
  <1>2. ASSUME NEW i, HasLine(s, i) PROVE HasLine(t, i)
    BY <1>1, <1>2 DEF HasLine
  <1>3. Separate(t) /\ \A j \in DOMAIN t : MemberOK(t[j])
    BY <1>1 DEF Complete, MembersOK, Separate
  <1>4. Filled(t)
    BY <1>1 DEF Complete, Filled
  <1>5. Discounted(t, LastLine + 1)
    BY <1>1, <1>2 DEF Complete, Discounted
  <1> QED BY <1>1, <1>2, <1>3, <1>4, <1>5 DEF Complete, MembersOK

(* The document stays.                                                     *)
LEMMA SameForm ==
    ASSUME form' = form
    PROVE  /\ ReadOK(members', at') => ReadOK(members, at)'
           /\ TidyOK(members', at') => TidyOK(members, at)'
           /\ DiscountOK(members', at') => DiscountOK(members, at)'
           /\ Complete(members') => Complete(members)'
           /\ Complete(move'.lines) => Complete(move.lines)'
  <1>1. LastLine' = LastLine /\ (Threes' <=> Threes)
    BY DEF LastLine, Threes
  <1>2. /\ MembersOK(members') => MembersOK(members)'
        /\ MembersOK(move'.lines) => MembersOK(move.lines)'
    BY <1>1 DEF MembersOK, Separate, MemberOK, ValueOK, TaxOfLine, TaxOfForm
  <1>3. Paired(members', 1) => Paired(members, 1)'
    BY <1>1 DEF Paired
  <1>4. Paired(members', at') => Paired(members, at)'
    BY <1>1 DEF Paired
  <1>5. /\ Unfilled(members', at') => Unfilled(members, at)'
        /\ Filled(members') => Filled(members)'
        /\ Filled(move'.lines) => Filled(move.lines)'
    BY <1>1 DEF Unfilled, Filled, SteppedOver
  <1>6. /\ Discounted(members', at') => Discounted(members, at)'
        /\ Discounted(members', LastLine + 1) => Discounted(members, LastLine + 1)'
        /\ Discounted(move'.lines, LastLine + 1) => Discounted(move.lines, LastLine + 1)'
    BY <1>1 DEF Discounted, LastOf, HasLine
  <1>7. ReadOK(members', at') => ReadOK(members, at)'
    BY <1>1, <1>2, <1>3 DEF ReadOK, ByLine, Undiscounted, HasLine
  <1>8. TidyOK(members', at') => TidyOK(members, at)'
    BY <1>1, <1>2, <1>4, <1>5 DEF TidyOK, ByLine, Undiscounted, HasLine
  <1>9. DiscountOK(members', at') => DiscountOK(members, at)'
    BY <1>1, <1>2, <1>5, <1>6 DEF DiscountOK, HasLine
  <1>10. /\ Complete(members') => Complete(members)'
         /\ Complete(move'.lines) => Complete(move.lines)'
    BY <1>1, <1>2, <1>5, <1>6 DEF Complete, HasLine
  <1> QED BY <1>7, <1>8, <1>9, <1>10

LEMMA NothingRead == form \in Forms => ReadOK(<<>>, 1)
  <1> SUFFICES ASSUME form \in Forms PROVE ReadOK(<<>>, 1)
    OBVIOUS
  <1>1. LastLine \in Nat
    BY FormFacts
  <1>2. PICK s : s = <<>>
    OBVIOUS
  <1>3. s \in Seq(MemberSet) /\ Len(s) = 0 /\ DOMAIN s = {}
    BY <1>2
  <1>4. MembersOK(s) /\ ByLine(s) /\ Paired(s, 1) /\ Undiscounted(s)
    BY <1>3 DEF MembersOK, Separate, ByLine, Paired, Undiscounted
  <1>5. 1 \in 1 .. LastLine + 1 /\ 1 .. 1 - 1 = {}
    BY <1>1
  <1>6. ReadOK(s, 1)
    BY <1>3, <1>4, <1>5 DEF ReadOK
  <1> QED BY <1>2, <1>6

(* A line is read.                                                         *)
LEMMA ReadingOK ==
    ASSUME LineInv, stage = "read", at <= LastLine, NEW new, GroupOK(new, at), ReadOn(new),
           form' = form, move' = move, found' \in [ItemsOf(form') -> {0, 1}]
    PROVE  LineInv'
  <1>1. form \in Forms /\ ReadOK(members, at)
    BY DEF LineInv
  <1>2. LastLine \in Nat /\ at \in 1 .. LastLine
    BY <1>1, FormFacts DEF ReadOK
  <1>3. move' # NoMove => Complete(move.lines)' /\ \A j \in DOMAIN move'.lines : move'.lines[j].role = "line"
    BY SameForm DEF LineInv
  <1>4. CASE stage' = "refused"
    BY <1>1, <1>3, <1>4 DEF LineInv
  <1>5. CASE stage' # "refused"
    <2>1. members' = members \o new /\ at' = at + 1 /\ stage' = "read"
      BY <1>5 DEF ReadOn
    <2>2. PICK s, k : s = members /\ k = at
      OBVIOUS
    <2>3. ReadOK(s \o new, k + 1)
      <3>1. k \in 1 .. LastLine /\ ReadOK(s, k) /\ GroupOK(new, k)
        BY <1>1, <1>2, <2>2
      <3> QED BY <1>1, <3>1, ReadMore
    <2>4. ReadOK(members, at)'
      BY <2>1, <2>2, <2>3, SameForm
    <2> QED BY <1>1, <1>3, <2>1, <2>4 DEF LineInv
  <1> QED BY <1>4, <1>5

LEMMA LinesStart == LineInit => LineInv
  BY DEF LineInit, LineInv

LEMMA LinesStep == LineInv /\ [LineNext]_linevars => LineInv'
  <1> SUFFICES ASSUME LineInv, [LineNext]_linevars PROVE LineInv'
    OBVIOUS
  <1>0. form \in Forms /\ form' = form /\ found \in [ItemsOf(form) -> {0, 1}]
    <2>1. form' = form
      BY DEF LineNext, linevars, BeginImport, ReadItem, ReadExpense, ReadText, ReadOver, EndReading, TidyKeep,
             TidyRemove, EndTidying, AddDiscount, RefusePercent, NoDiscount, EndDiscounts, CreateMove, RewriteMove
    <2> QED BY <2>1 DEF LineInv
  <1>1. LastLine \in Nat
    BY <1>0, FormFacts
  <1>2. ASSUME move' = move
        PROVE  move' # NoMove => Complete(move.lines)'
                                 /\ \A j \in DOMAIN move'.lines : move'.lines[j].role = "line"
    BY <1>0, <1>2, SameForm DEF LineInv
  <1>3. ASSUME found' = found PROVE found' \in [ItemsOf(form') -> {0, 1}]
    BY <1>0, <1>3
  <1>4. CASE UNCHANGED linevars
    <2>1. /\ stage' = stage /\ at' = at /\ members' = members /\ move' = move /\ found' = found
      BY <1>4 DEF linevars
    <2>2. /\ stage = "read" => ReadOK(members', at')
          /\ stage = "tidy" => TidyOK(members', at')
          /\ stage = "discount" => DiscountOK(members', at')
          /\ stage = "write" => Complete(members') /\ members' \in Seq(MemberSet)
      BY <2>1 DEF LineInv
    <2>3. /\ stage = "read" => ReadOK(members, at)'
          /\ stage = "tidy" => TidyOK(members, at)'
          /\ stage = "discount" => DiscountOK(members, at)'
          /\ stage = "write" => Complete(members)' /\ (members \in Seq(MemberSet))'
      BY <1>0, <2>2, SameForm DEF MemberSet
    <2> QED BY <1>0, <1>2, <1>3, <2>1, <2>3 DEF LineInv
  <1>5. CASE BeginImport
    <2>1. /\ move' = move /\ found' = found /\ members' = <<>> /\ at' = 1
          /\ stage' \in {"read", "refused"}
      BY <1>5 DEF BeginImport
    <2>2. ReadOK(members, at)'
      BY <1>0, <2>1, NothingRead, SameForm
    <2> QED BY <1>0, <1>2, <1>3, <2>1, <2>2 DEF LineInv
  <1>6. CASE ReadItem
    <2>1. /\ stage = "read" /\ at <= LastLine /\ form.lines[at].kind = "item" /\ move' = move
      BY <1>6 DEF ReadItem, Reading, LastLine
    <2>2. at \in 1 .. LastLine
      BY <1>1, <2>1 DEF LineInv, ReadOK
    <2>3. PICK l, k : l = form.lines[at] /\ k = at
      OBVIOUS
    <2>4. l.qty \in Nat /\ TaxOfLine(form, l) \in TaxOrigins /\ l.item \in ItemsOf(form) /\ l.kind = "item"
          /\ l = form.lines[k] /\ k \in 1 .. LastLine
      BY <1>0, <2>1, <2>2, <2>3, FormFacts, PriceIs
    <2>5. PICK new : new = WithCounterparts(k, "item", l.qty, PriceOf(l), TaxOfLine(form, l))
      OBVIOUS
    <2>6. GroupOK(new, at)
      <3>1. PICK part, qty, levy : part = "item" /\ qty = l.qty /\ levy = TaxOfLine(form, l)
        OBVIOUS
      <3>2. part \in BoughtKinds /\ part = l.kind /\ qty \in Nat /\ levy \in TaxOrigins
            /\ IF part = "item" THEN qty = l.qty /\ levy = TaxOfLine(form, l)
               ELSE qty = (IF l.qty = 0 THEN 1 ELSE l.qty)
        BY <2>4, <3>1 DEF BoughtKinds
      <3>3. GroupOK(WithCounterparts(k, part, qty, PriceOf(l), levy), k)
        BY <1>0, <2>4, <3>2, CounterpartsOK
      <3> QED BY <2>3, <2>5, <3>1, <3>3
    <2>7. ReadOn(new)
      BY <1>6, <2>3, <2>5 DEF ReadItem
    <2>8. found' \in [ItemsOf(form') -> {0, 1}]
      <3>1. found' = [found EXCEPT ![l.item] = IF found[l.item] = 0 THEN 1 ELSE found[l.item]]
        BY <1>6, <2>3 DEF ReadItem
      <3> QED BY <1>0, <2>4, <3>1
    <2> QED BY <1>0, <2>1, <2>6, <2>7, <2>8, ReadingOK
  <1>7. CASE ReadExpense
    <2>1. /\ stage = "read" /\ at <= LastLine /\ form.lines[at].kind = "expense" /\ move' = move /\ found' = found
      BY <1>7 DEF ReadExpense, Reading, LastLine
    <2>2. at \in 1 .. LastLine
      BY <1>1, <2>1 DEF LineInv, ReadOK
    <2>3. PICK l, k : l = form.lines[at] /\ k = at
      OBVIOUS
    <2>4. l.qty \in Nat /\ l.kind = "expense" /\ l = form.lines[k] /\ k \in 1 .. LastLine
      BY <1>0, <2>1, <2>2, <2>3, FormFacts
    <2>5. PICK part, qty, levy : /\ part = "expense" /\ qty = IF l.qty = 0 THEN 1 ELSE l.qty
                                 /\ levy = IF l.tax = "TAX" /\ form.plain THEN "TAX" ELSE NoTax
      OBVIOUS
    <2>6. part \in BoughtKinds /\ part = l.kind /\ qty \in Nat /\ levy \in TaxOrigins
          /\ IF part = "item" THEN qty = l.qty /\ levy = TaxOfLine(form, l)
             ELSE qty = (IF l.qty = 0 THEN 1 ELSE l.qty)
      BY <2>4, <2>5 DEF BoughtKinds, TaxOrigins, NoTax
    <2>7. PICK new : new = WithCounterparts(k, part, qty, PriceOf(l), levy)
      OBVIOUS
    <2>8. GroupOK(new, at)
      <3>1. GroupOK(WithCounterparts(k, part, qty, PriceOf(l), levy), k)
        BY <1>0, <2>4, <2>6, CounterpartsOK
      <3> QED BY <2>3, <2>7, <3>1
    <2>9. ReadOn(new)
      BY <1>7, <2>3, <2>5, <2>7 DEF ReadExpense
    <2> QED BY <1>0, <1>3, <2>1, <2>8, <2>9, ReadingOK
  <1>8. CASE ReadText
    <2>1. /\ stage = "read" /\ at <= LastLine /\ form.lines[at].kind = "text" /\ move' = move /\ found' = found
      BY <1>8 DEF ReadText, Reading, LastLine
    <2>2. at \in 1 .. LastLine
      BY <1>1, <2>1 DEF LineInv, ReadOK
    <2>3. PICK k, price, levy : /\ k = at /\ price = IF form.rate = "none" THEN 0 ELSE form.taxable
                                /\ levy = IF form.rate = "known" THEN "rate" ELSE NoTax
      OBVIOUS
    <2>4. price \in Nat /\ levy \in TaxOrigins /\ k \in 1 .. LastLine /\ form.lines[k].kind = "text"
      <3>1. form.taxable \in Nat
        BY <1>0, FormsAssumption
      <3> QED BY <2>1, <2>2, <2>3, <3>1 DEF TaxOrigins, NoTax
    <2>5. PICK new : new = <<Member(k, "text", "line", 1, price, levy)>>
      OBVIOUS
    <2>6. GroupOK(new, at)
      <3>1. GroupOK(<<Member(k, "text", "line", 1, price, levy)>>, k)
        BY <1>0, <2>4, TextOK
      <3> QED BY <2>3, <2>5, <3>1
    <2>7. ReadOn(new)
      BY <1>8, <2>3, <2>5 DEF ReadText
    <2> QED BY <1>0, <1>3, <2>1, <2>6, <2>7, ReadingOK
  <1>9. CASE ReadOver
    <2>1. /\ stage = "read" /\ at <= LastLine /\ form.lines[at].kind \notin BoughtKinds /\ move' = move /\ found' = found
      BY <1>9 DEF ReadOver, Reading, LastLine, BoughtKinds
    <2>2. PICK new, k : new = <<>> /\ k = at
      OBVIOUS
    <2>3. GroupOK(new, at)
      <3>1. GroupOK(<<>>, k)
        BY <2>1, <2>2, EmptyGroupOK
      <3> QED BY <2>2, <3>1
    <2>4. ReadOn(new)
      BY <1>9, <2>2 DEF ReadOver
    <2> QED BY <1>0, <1>3, <2>1, <2>3, <2>4, ReadingOK
  <1>10. CASE EndReading
    <2>1. /\ stage = "read" /\ at > LastLine /\ stage' = "tidy" /\ at' = 1
          /\ members' = members /\ move' = move /\ found' = found
      BY <1>10 DEF EndReading, LastLine
    <2>2. ReadOK(members, at) /\ at = LastLine + 1
      BY <1>1, <2>1 DEF LineInv, ReadOK
    <2>3. TidyOK(members, 1)
      <3>1. Unfilled(members, 1)
        <4>1. \A j \in DOMAIN members : 1 <= j
          BY <2>2 DEF ReadOK
        <4> QED BY <4>1 DEF Unfilled
      <3>2. (LastLine + 1) - 1 = LastLine
        BY <1>1
      <3> QED BY <2>2, <3>1, <3>2 DEF ReadOK, TidyOK
    <2>4. TidyOK(members, at)'
      BY <1>0, <2>1, <2>3, SameForm
    <2> QED BY <1>0, <1>2, <1>3, <2>1, <2>4 DEF LineInv
  <1>11. CASE TidyKeep
    <2>1. /\ stage = "tidy" /\ at <= Len(members) /\ ~ WithoutProduct(members[at])
          /\ stage' = stage /\ at' = at + 1 /\ move' = move /\ found' = found
      BY <1>11 DEF TidyKeep, Tidying
    <2>2. PICK s, k, t : s = members /\ k = at /\ t = members'
      OBVIOUS
    <2>3. t = IF s[k].part = "item" /\ s[k].qty = 0 THEN [s EXCEPT ![k].qty = 1] ELSE s
      BY <1>11, <2>2 DEF TidyKeep
    <2>4. TidyOK(t, k + 1)
      <3>1. TidyOK(s, k) /\ k <= Len(s) /\ ~ WithoutProduct(s[k])
        BY <2>1, <2>2 DEF LineInv
      <3> QED BY <1>0, <2>3, <3>1, KeepOK
    <2>5. TidyOK(members, at)'
      BY <1>0, <2>1, <2>2, <2>4, SameForm
    <2> QED BY <1>0, <1>2, <1>3, <2>1, <2>5 DEF LineInv
  <1>12. CASE TidyRemove
    <2>1. /\ stage = "tidy" /\ at <= Len(members) /\ WithoutProduct(members[at])
          /\ stage' = stage /\ at' = at + 1 /\ move' = move /\ found' = found
      BY <1>12 DEF TidyRemove, Tidying
    <2>2. PICK s, k, t : s = members /\ k = at /\ t = members'
      OBVIOUS
    <2>3. PICK one : one = [s[k] EXCEPT !.qty = IF @ = 0 THEN 1 ELSE @]
      OBVIOUS
    <2>4. t = RemoveFirst([s EXCEPT ![k] = one], one)
      BY <1>12, <2>2, <2>3 DEF TidyRemove
    <2>5. TidyOK(t, k + 1)
      <3>1. TidyOK(s, k) /\ k <= Len(s) /\ WithoutProduct(s[k])
        BY <2>1, <2>2 DEF LineInv
      <3> QED BY <1>0, <2>3, <2>4, <3>1, RemoveOK
    <2>6. TidyOK(members, at)'
      BY <1>0, <2>1, <2>2, <2>5, SameForm
    <2> QED BY <1>0, <1>2, <1>3, <2>1, <2>6 DEF LineInv
  <1>13. CASE EndTidying
    <2>1. /\ stage = "tidy" /\ at > Len(members) /\ stage' = "discount" /\ at' = 1
          /\ members' = members /\ move' = move /\ found' = found
      BY <1>13 DEF EndTidying
    <2>2. PICK s, k : s = members /\ k = at
      OBVIOUS
    <2>3. DiscountOK(s, 1)
      <3>1. TidyOK(s, k) /\ k > Len(s)
        BY <2>1, <2>2 DEF LineInv
      <3> QED BY <1>0, <3>1, TidiedOK
    <2>4. DiscountOK(members, at)'
      BY <1>0, <2>1, <2>2, <2>3, SameForm
    <2> QED BY <1>0, <1>2, <1>3, <2>1, <2>4 DEF LineInv
  <1>14. CASE AddDiscount
    <2>1. /\ stage = "discount" /\ at <= LastLine /\ form.lines[at].kind = "discount"
          /\ members' = WithDiscount(at, form.lines[at].amount)
          /\ stage' = stage /\ at' = at + 1 /\ move' = move /\ found' = found
      BY <1>14 DEF AddDiscount, Discounting, LastLine
    <2>2. PICK s, k, t : s = members /\ k = at /\ t = members'
      OBVIOUS
    <2>3. DiscountOK(t, k + 1)
      <3>1. members = s /\ DiscountOK(s, k) /\ k <= LastLine /\ form.lines[k].kind = "discount"
        BY <2>1, <2>2 DEF LineInv
      <3>2. t = WithDiscount(k, form.lines[k].amount)
        BY <2>1, <2>2
      <3> QED BY <1>0, <3>1, <3>2, DiscountedOK
    <2>4. DiscountOK(members, at)'
      BY <1>0, <2>1, <2>2, <2>3, SameForm
    <2> QED BY <1>0, <1>2, <1>3, <2>1, <2>4 DEF LineInv
  <1>15. CASE RefusePercent
    <2>1. stage' = "refused" /\ move' = move /\ found' = found
      BY <1>15 DEF RefusePercent
    <2> QED BY <1>0, <1>2, <1>3, <2>1 DEF LineInv
  <1>16. CASE NoDiscount
    <2>1. /\ stage = "discount" /\ at <= LastLine /\ form.lines[at].kind \notin {"discount", "percent"}
          /\ members' = members /\ stage' = stage /\ at' = at + 1 /\ move' = move /\ found' = found
      BY <1>16 DEF NoDiscount, Discounting, LastLine
    <2>2. PICK s, k : s = members /\ k = at
      OBVIOUS
    <2>3. DiscountOK(s, k + 1)
      <3>1. DiscountOK(s, k) /\ k <= LastLine /\ form.lines[k].kind \notin {"discount", "percent"}
        BY <2>1, <2>2 DEF LineInv
      <3> QED BY <1>0, <3>1, PassedOK
    <2>4. DiscountOK(members, at)'
      BY <1>0, <2>1, <2>2, <2>3, SameForm
    <2> QED BY <1>0, <1>2, <1>3, <2>1, <2>4 DEF LineInv
  <1>17. CASE EndDiscounts
    <2>1. /\ stage = "discount" /\ at > LastLine /\ stage' = "write"
          /\ members' = members /\ move' = move /\ found' = found
      BY <1>17 DEF EndDiscounts, LastLine
    <2>2. PICK s, k : s = members /\ k = at
      OBVIOUS
    <2>3. s \in Seq(MemberSet) /\ Complete(s)
      <3>1. DiscountOK(s, k) /\ k > LastLine
        BY <2>1, <2>2 DEF LineInv
      <3> QED BY <1>0, <3>1, AllDiscounted
    <2>4. Complete(members)' /\ members' \in Seq(MemberSet)
      BY <1>0, <2>1, <2>2, <2>3, SameForm
    <2>5. (members \in Seq(MemberSet))'
      BY <2>4 DEF MemberSet
    <2> QED BY <1>0, <1>2, <1>3, <2>1, <2>4, <2>5 DEF LineInv
  <1>18. CASE CreateMove \/ RewriteMove
    <2>1. stage = "write" /\ Complete(members) /\ stage' \in {"idle", "refused"} /\ found' = found
      BY <1>18 DEF CreateMove, RewriteMove, LineInv
    <2>2. PICK s, t : s = members /\ t = RestrictValues(members, InTab)
      OBVIOUS
    <2>3. Complete(t) /\ \A j \in DOMAIN t : t[j].role = "line"
      <3>1. Complete(s)
        BY <2>1, <2>2
      <3>2. t = RestrictValues(s, InTab)
        BY <2>2
      <3> QED BY <3>1, <3>2, InTabComplete
    <2>4. \/ move' = move
          \/ move' = NoMove
          \/ move'.lines = RestrictValues(members, InTab)
      BY <1>18 DEF CreateMove, RewriteMove
    <2>5. move' # NoMove => Complete(move.lines)' /\ \A j \in DOMAIN move'.lines : move'.lines[j].role = "line"
      <3>1. CASE move' = move
        BY <1>2, <3>1
      <3>2. CASE move'.lines = RestrictValues(members, InTab)
        <4>1. move'.lines = t
          BY <2>2, <3>2
        <4> QED BY <1>0, <2>3, <4>1, SameForm
      <3> QED BY <2>4, <3>1, <3>2
    <2> QED BY <1>0, <1>3, <2>1, <2>5 DEF LineInv
  <1> QED
    BY <1>4, <1>5, <1>6, <1>7, <1>8, <1>9, <1>10, <1>11, <1>12, <1>13, <1>14, <1>15, <1>16, <1>17, <1>18
       DEF LineNext

(* The worth of a line with one member.                                    *)
LEMMA WorthOfOne ==
    ASSUME NEW f, NEW j, f[j] \in Int, NEW S, S = {j}
    PROVE  SumFunctionOnSet(f, S) = f[j] /\ Cardinality(S) = 1
  <1>1. IsFiniteSet(S) /\ Cardinality(S) = 1
    BY FS_Singleton
  <1>2. SumFunctionOnSet(f, S) = f[j] + SumFunctionOnSet(f, S \ {j})
    <2>1. j \in S /\ \A x \in S : f[x] \in Int
      OBVIOUS
    <2> QED BY <1>1, <2>1, SumOne
  <1>3. SumFunctionOnSet(f, S \ {j}) = 0
    <2>1. S \ {j} = {}
      OBVIOUS
    <2> QED BY <2>1, SumEmpty
  <1> QED BY <1>1, <1>2, <1>3

LEMMA NoneWorth ==
    ASSUME NEW f, NEW S, S = {}
    PROVE  SumFunctionOnSet(f, S) = 0 /\ Cardinality(S) = 0
  BY SumEmpty, FS_EmptySet

(* What a member of a line that does not go astray is worth.               *)
LEMMA MemberWorth ==
    ASSUME form \in Forms, NEW k \in 1 .. LastLine, ~ Astray(k), NEW l, l = form.lines[k],
           NEW m, MemberOK(m), m.role = "line", m.no = k,
           IsItem(m, "line") /\ m.qty = 0 => SteppedOver(k),
           m.part = "discount" => \A d \in 1 .. LastLine : LastOf(d, LastLine + 1) => m.price = - form.lines[d].amount
    PROVE  m.qty * m.price = Expected(l) /\ m.qty * m.price \in Int
  <1>1. /\ l.qty \in Nat /\ l.price \in Nat /\ l.amount \in Nat /\ LastLine \in Nat
        /\ l.price # 0 => l.amount = (IF l.qty = 0 THEN 1 ELSE l.qty) * l.price
    BY FormFacts
  <1>2. m.part = l.kind /\ ValueOK(m, l) /\ m \in MemberSet
    BY DEF MemberOK
  <1>3. m.part \in PartKinds /\ m.part # "text"
    BY <1>2 DEF MemberSet, Astray
  <1>4. /\ l.kind \in {"item", "expense"} => ~ (l.qty # 0 /\ l.price = 0)
        /\ l.kind = "item" => ~ (l.qty = 0 /\ SteppedOver(k))
        /\ l.kind = "discount" => ~ \E j \in k + 1 .. LastLine : form.lines[j].kind = "discount"
    BY DEF Astray, LastLine
  <1>5. CASE l.kind = "item"
    <2>1. (m.qty = l.qty \/ (l.qty = 0 /\ m.qty = 1)) /\ m.price = PriceOf(l) /\ Expected(l) = l.amount
      BY <1>2, <1>5 DEF ValueOK, Expected
    <2>2. m.qty # 0
      BY <1>2, <1>4, <1>5, <2>1 DEF IsItem
    <2>3. CASE l.qty = 0
      <3>1. m.qty = 1 /\ m.price = l.amount
        BY <1>1, <2>1, <2>2, <2>3 DEF PriceOf
      <3> QED BY <1>1, <2>1, <3>1
    <2>4. CASE l.qty # 0
      <3>1. m.qty = l.qty /\ m.price = l.price /\ l.amount = l.qty * l.price
        BY <1>1, <1>4, <1>5, <2>1, <2>4 DEF PriceOf
      <3> QED BY <1>1, <2>1, <3>1
    <2> QED BY <2>3, <2>4
  <1>6. CASE l.kind = "expense"
    <2>1. m.qty = (IF l.qty = 0 THEN 1 ELSE l.qty) /\ m.price = PriceOf(l) /\ Expected(l) = l.amount
      BY <1>2, <1>6 DEF ValueOK, Expected
    <2>2. CASE l.qty = 0
      <3>1. m.qty = 1 /\ m.price = l.amount
        BY <1>1, <2>1, <2>2 DEF PriceOf
      <3> QED BY <1>1, <2>1, <3>1
    <2>3. CASE l.qty # 0
      <3>1. m.qty = l.qty /\ m.price = l.price /\ l.amount = l.qty * l.price
        BY <1>1, <1>4, <1>6, <2>1, <2>3 DEF PriceOf
      <3> QED BY <1>1, <2>1, <3>1
    <2> QED BY <2>2, <2>3
  <1>7. CASE l.kind = "discount"
    <2>1. m.qty = 1 /\ Expected(l) = - l.amount
      BY <1>2, <1>7 DEF ValueOK, Expected
    <2>2. LastOf(k, LastLine + 1)
      <3>1. (LastLine + 1) - 1 = LastLine
        BY <1>1
      <3> QED BY <1>4, <1>7, <3>1 DEF LastOf
    <2>3. m.price = - l.amount
      BY <1>2, <1>7, <2>2
    <2> QED BY <1>1, <2>1, <2>3
  <1> QED BY <1>2, <1>3, <1>5, <1>6, <1>7 DEF PartKinds

LEMMA LinesHold == LineInv => QbLines
  <1> SUFFICES ASSUME LineInv PROVE QbLines
    OBVIOUS
  <1>1. form \in Forms /\ found \in [ItemsOf(form) -> {0, 1}]
    BY DEF LineInv
  <1>2. LastLine \in Nat /\ DOMAIN form.lines = 1 .. LastLine
    BY <1>1, FormFacts
  <1>3. OneProduct
    BY <1>1 DEF OneProduct
  <1>4. ASSUME move # NoMove, NEW s, s = move.lines
        PROVE  /\ Separate(s) /\ \A j \in DOMAIN s : MemberOK(s[j]) /\ s[j].role = "line"
               /\ Discounted(s, LastLine + 1) /\ Filled(s)
               /\ \A i \in 1 .. LastLine : form.lines[i].kind \in BoughtKinds => HasLine(s, i)
    BY <1>4 DEF LineInv, Complete, MembersOK
  <1>5. TaxedAsMarked
    <2> SUFFICES ASSUME move # NoMove, form.type \in Sales, NEW j \in DOMAIN move.lines,
                        move.lines[j].part = "item", move.lines[j].tax # NoTax
                 PROVE  form.lines[move.lines[j].no].tax = "TAX"
      BY DEF TaxedAsMarked
    <2>1. PICK m, l : m = move.lines[j] /\ l = form.lines[m.no]
      OBVIOUS
    <2>2. m.role = "line" /\ MemberOK(m)
      BY <1>4, <2>1
    <2>3. m.tax = TaxOfLine(form, l)
      BY <2>1, <2>2 DEF MemberOK, ValueOK
    <2> QED BY <2>1, <2>3 DEF TaxOfLine
  <1>6. AmountsArrive
    <2> SUFFICES ASSUME move # NoMove, NEW k \in 1 .. LastLine, ~ Astray(k)
                 PROVE  /\ Worth(k) = Expected(form.lines[k])
                        /\ Cardinality(Of(k)) = IF form.lines[k].kind = "subtotal" THEN 0 ELSE 1
      BY <1>2 DEF AmountsArrive
    <2>1. PICK s, l : s = move.lines /\ l = form.lines[k]
      OBVIOUS
    <2>2. /\ Separate(s) /\ \A j \in DOMAIN s : MemberOK(s[j]) /\ s[j].role = "line"
          /\ Discounted(s, LastLine + 1) /\ Filled(s)
          /\ \A i \in 1 .. LastLine : form.lines[i].kind \in BoughtKinds => HasLine(s, i)
      BY <1>4, <2>1
    <2>3. PICK S, f : S = Of(k) /\ f = Amounts
      OBVIOUS
    <2>4. S = {j \in DOMAIN s : s[j].no = k} /\ f = [j \in DOMAIN s |-> s[j].qty * s[j].price]
      BY <2>1, <2>3 DEF Of, Amounts
    <2>5. Worth(k) = SumFunctionOnSet(f, S)
      BY <2>3 DEF Worth
    <2>6. l.kind \in {"item", "expense", "text", "discount", "percent", "subtotal"}
      BY <1>1, <2>1, FormFacts
    <2>7. (LastLine + 1) - 1 = LastLine
      BY <1>2
    <2>8. CASE l.kind = "subtotal"
      <3>1. S = {}
        BY <2>1, <2>2, <2>4, <2>8 DEF MemberOK, MemberSet, PartKinds
      <3>2. Expected(l) = 0
        BY <2>8 DEF Expected
      <3> QED BY <2>1, <2>3, <2>5, <2>8, <3>1, <3>2, NoneWorth
    <2>9. CASE l.kind \in {"item", "expense", "discount"}
      <3>1. PICK j \in DOMAIN s : s[j].no = k
        <4>1. HasLine(s, k)
          BY <2>1, <2>2, <2>7, <2>9 DEF BoughtKinds, Discounted
        <4> QED BY <4>1 DEF HasLine
      <3>2. S = {j}
        BY <2>2, <2>4, <3>1 DEF Separate
      <3>3. PICK m : m = s[j]
        OBVIOUS
      <3>4. MemberOK(m) /\ m.role = "line" /\ m.no = k
        BY <2>2, <3>1, <3>3
      <3>5. IsItem(m, "line") /\ m.qty = 0 => SteppedOver(k)
        BY <2>2, <3>1, <3>3 DEF Filled
      <3>6. m.part = "discount" => \A d \in 1 .. LastLine : LastOf(d, LastLine + 1) => m.price = - form.lines[d].amount
        BY <2>2, <2>7, <3>1, <3>3 DEF Discounted
      <3>7. m.qty * m.price = Expected(l) /\ m.qty * m.price \in Int
        BY <1>1, <2>1, <3>4, <3>5, <3>6, MemberWorth
      <3>8. f[j] = Expected(l) /\ f[j] \in Int
        BY <2>4, <3>1, <3>3, <3>7
      <3>9. SumFunctionOnSet(f, S) = f[j] /\ Cardinality(S) = 1
        BY <3>2, <3>8, WorthOfOne
      <3> QED BY <2>1, <2>3, <2>5, <2>9, <3>8, <3>9
    <2>10. CASE l.kind = "percent"
      BY <2>1, <2>2, <2>7, <2>10 DEF Discounted
    <2>11. CASE l.kind = "text"
      BY <2>1, <2>11 DEF Astray
    <2> QED BY <2>6, <2>8, <2>9, <2>10, <2>11
  <1> QED BY <1>3, <1>5, <1>6 DEF QbLines

(* The lines of an entry: what a document of QuickBooks charges arrives,   *)
(* line by line, also when it is imported again, but for the lines that    *)
(* are told to go astray; a line of a sale is taxed only by its own code;  *)
(* and an item has one product.                                            *)
THEOREM LinesArrive == LineSpec => []QbLines
  <1>1. LineSpec => []LineInv
    BY LinesStart, LinesStep, PTL DEF LineSpec
  <1> QED BY <1>1, LinesHold, PTL
=============================================================================
