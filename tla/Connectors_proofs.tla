-------------------------- MODULE Connectors_proofs --------------------------
(***************************************************************************)
(* What the connectors keep: the stock that Shopify shows, the payouts of  *)
(* ResolvePay, the transfers that a 3PL warehouse executes, the sales of   *)
(* the shops, and the products in the stores of Shopify.  They share no    *)
(* state, and no proof about one of them uses another.                     *)
(***************************************************************************)
EXTENDS StockSync, ResolvePay, ThirdPartyLogistics, LightspeedSales, ShopifyCatalog,
        Sums_proofs, TLAPS

-----------------------------------------------------------------------------
(* Stock.                                                                  *)

Visited(x, w) == {l \in Locations : <<l, w>> \in Feeds \ toVisit[x]}

(* The wizard does not go to the locations of w, which stays right.        *)
Spared(x, w) ==
    /\ exporting[x] = "all" /\ \A l \in Feeding(w) : <<l, w>> \notin toVisit[x]
    /\ ~ needSync => level[w] = Sum(free, Feeding(w))

(* A warehouse that is not set to zero has none of its locations behind    *)
(* it, unless it is spared; nobody else touches the quantities of an       *)
(* export that is alone; and as long as the flag, or the conflict at its   *)
(* end, tells of no move, its snapshot is what is free.                    *)
Alone ==
    ~ muddled =>
        /\ \A x, y \in Busy : x = y
        /\ \A x \in Busy :
              /\ \A w \in Warehouses \ zeroed[x] :
                    (\A l \in Feeding(w) : <<l, w>> \in toVisit[x]) \/ Spared(x, w)
              /\ \A w \in zeroed[x] : level[w] = Sum(snapshot[x], Visited(x, w))
              /\ exporting[x] = "flagged" /\ ~ touched[x] => snapshot[x] = free
              /\ exporting[x] = "all" /\ ~ needSync => snapshot[x] = free

(* A warehouse that nothing feeds stays empty.                             *)
Unfed == \A w \in Warehouses : (\A l \in Locations : <<l, w>> \notin Feeds) => level[w] = 0

(* An export that has ended leaves nothing behind.                         *)
Left == \A x \in Exporters : exporting[x] = "no" => zeroed[x] = {} /\ toVisit[x] = {}

StockInv == StockTypeOK /\ Alone /\ Unfed /\ Left /\ StockExported

LEMMA SumNothing == ASSUME NEW f PROVE Sum(f, {}) = 0
  BY SumEmpty DEF Sum

LEMMA SumMore ==
    ASSUME NEW f \in [Locations -> Int], NEW S \in SUBSET Locations, NEW l \in Locations \ S
    PROVE  /\ Sum(f, S) \in Int
           /\ Sum(f, S \cup {l}) = Sum(f, S) + (IF f[l] > 0 THEN f[l] ELSE 0)
  <1> DEFINE g == [k \in Locations |-> IF f[k] > 0 THEN f[k] ELSE 0]
  <1>1. IsFiniteSet(S) /\ IsFiniteSet(S \cup {l})
    BY StockAssumption, FS_Subset
  <1>2. \A k \in Locations : g[k] \in Int
    OBVIOUS
  <1>3. (S \cup {l}) \ {l} = S
    OBVIOUS
  <1> HIDE DEF g
  <1>4. SumFunctionOnSet(g, S) \in Int
    BY <1>1, <1>2, SumType
  <1>5. SumFunctionOnSet(g, S \cup {l}) = g[l] + SumFunctionOnSet(g, S)
    BY <1>1, <1>2, <1>3, SumOne
  <1> USE DEF g
  <1>6. g[l] = IF f[l] > 0 THEN f[l] ELSE 0
    OBVIOUS
  <1> HIDE DEF g
  <1>7. Sum(f, S) = SumFunctionOnSet(g, S) /\ Sum(f, S \cup {l}) = SumFunctionOnSet(g, S \cup {l})
    BY DEF Sum, g
  <1>8. g[l] \in Int
    BY <1>2
  <1> QED
    BY <1>4, <1>5, <1>6, <1>7, <1>8

LEMMA StockInitInv == StockInit => StockInv
  <1> SUFFICES ASSUME StockInit PROVE StockInv
    OBVIOUS
  <1>1. Busy = {}
    BY DEF Busy, StockInit
  <1>2. ASSUME NEW S \in SUBSET Locations PROVE Sum(free, S) = 0
    <2> DEFINE g == [k \in Locations |-> IF free[k] > 0 THEN free[k] ELSE 0]
    <2>1. IsFiniteSet(S)
      BY StockAssumption, FS_Subset
    <2>2. \A k \in S : g[k] = 0
      BY DEF StockInit, Empty
    <2> HIDE DEF g
    <2>3. SumFunctionOnSet(g, S) = 0
      BY <2>1, <2>2, SumZero
    <2> QED
      BY <2>3 DEF Sum, g
  <1>3. StockTypeOK
    <2>1. Empty \in [Locations -> Quantities]
      BY StockAssumption DEF Empty
    <2>2. 0 \in 0..MaxLevel
      BY StockAssumption
    <2> QED
      BY <2>1, <2>2 DEF StockTypeOK, StockInit
  <1>4. Alone /\ Unfed /\ Left
    <2>1. Alone
      <3>1. \A x \in Busy : FALSE
        BY <1>1
      <3>2. \A x, y \in Busy : x = y
        BY <1>1
      <3> QED
        BY <3>1, <3>2, Zenon DEF Alone
    <2> QED
      BY <2>1 DEF Unfed, Left, StockInit
  <1>5. StockExported
    BY <1>2 DEF StockExported, StockInit, Feeding
  <1> QED
    BY <1>3, <1>4, <1>5 DEF StockInv

LEMMA StartExportKeeps ==
    ASSUME StockInv, NEW x \in Exporters, StartExport(x)
    PROVE  StockInv'
  <1>1. PICK k \in {"flagged", "all"}, C \in SUBSET Locations :
           /\ k = "flagged" => needSync /\ C = Locations
           /\ exporting' = [exporting EXCEPT ![x] = k]
           /\ toVisit' = [toVisit EXCEPT ![x] = ToVisit(C)]
           /\ muddled' = (Busy # {} \/ Splits(C) \/ (muddled /\ ToVisit(C) # Feeds))
    BY DEF StartExport
  <1>2. StockTypeOK'
    <2>1. ToVisit(C) \in SUBSET Feeds
      BY DEF ToVisit
    <2> QED
      BY <1>1, <2>1 DEF StartExport, StockInv, StockTypeOK
  <1>3. Busy' = Busy \cup {x}
    BY <1>1 DEF Busy, StockInv, StockTypeOK
  <1>4. /\ snapshot'[x] = free' /\ toVisit'[x] = ToVisit(C) /\ zeroed'[x] = zeroed[x]
        /\ exporting'[x] = k /\ UNCHANGED <<free, needSync, level>>
    BY <1>1 DEF StartExport, StockInv, StockTypeOK
  <1>5. Alone'
    <2> SUFFICES ASSUME ~ muddled'
                 PROVE  /\ \A y, z \in Busy' : y = z
                        /\ \A y \in Busy' :
                              /\ \A w \in Warehouses \ zeroed'[y] :
                                    \/ \A l \in Feeding(w) : <<l, w>> \in toVisit'[y]
                                    \/ Spared(y, w)'
                              /\ \A w \in zeroed'[y] : level'[w] = Sum(snapshot'[y], Visited(y, w)')
                              /\ exporting'[y] = "flagged" /\ ~ touched'[y] => snapshot'[y] = free'
                              /\ exporting'[y] = "all" /\ ~ needSync' => snapshot'[y] = free'
      BY DEF Alone, Feeding
    <2>1. Busy' = {x} /\ exporting[x] = "no" /\ Busy = {} /\ ~ Splits(C)
      BY <1>1, <1>3 DEF StartExport, Busy
    <2>2. zeroed[x] = {}
      BY <2>1 DEF StockInv, Left
    <2>3. ASSUME NEW w \in Warehouses
          PROVE  (\A l \in Feeding(w) : <<l, w>> \in ToVisit(C)) \/ Spared(x, w)'
      <3>1. CASE \A l \in Feeding(w) : l \in C
        BY <3>1 DEF Feeding, ToVisit
      <3>2. CASE \E l \in Feeding(w) : l \notin C
        <4>1. \A l \in Feeding(w) : l \notin C
          BY <2>1, <3>2 DEF Splits, Feeding
        <4>2. k = "all"
          BY <1>1, <3>2 DEF Feeding
        <4>3. ToVisit(C) # Feeds
          BY <3>2 DEF Feeding, ToVisit
        <4>4. ~ muddled
          BY <1>1, <4>3
        <4>5. ~ needSync => level[w] = Sum(free, Feeding(w))
          BY <2>1, <4>4 DEF StockInv, StockExported
        <4>6. Sum(free, Feeding(w))' = Sum(free, Feeding(w))
          BY <1>4 DEF Sum, Feeding
        <4>7. \A l \in Feeding(w) : <<l, w>> \notin ToVisit(C)
          BY <4>1 DEF ToVisit
        <4> QED
          BY <1>4, <4>2, <4>5, <4>6, <4>7 DEF Spared, Feeding
      <3> QED
        BY <3>1, <3>2
    <2> QED
      BY <1>4, <2>1, <2>2, <2>3
  <1>6. Unfed'
    BY DEF StartExport, StockInv, Unfed
  <1>7. StockExported'
    BY <1>3 DEF StockExported
  <1>8. Left'
    BY <1>1, <1>4 DEF StartExport, StockInv, StockTypeOK, Left
  <1> QED
    BY <1>2, <1>5, <1>6, <1>7, <1>8 DEF StockInv

(* A call leaves the types alone, and every other warehouse.               *)
LEMMA CallTypes ==
    ASSUME StockTypeOK, NEW w \in Warehouses, NEW n \in Nat, NEW answered \in BOOLEAN,
           Call(w, n, answered)
    PROVE  /\ level' \in [Warehouses -> 0..MaxLevel] /\ muddled' \in BOOLEAN
           /\ \A v \in Warehouses \ {w} : level'[v] = level[v]
           /\ ~ muddled' => ~ muddled /\ level'[w] = n
  <1>1. n \in 0..MaxLevel
    BY StockAssumption DEF Call
  <1> QED
    BY <1>1 DEF Call, StockTypeOK

LEMMA SetToZeroKeeps ==
    ASSUME StockInv, NEW x \in Exporters, NEW k \in Locations, NEW u \in Warehouses,
           SetToZero(x, k, u)
    PROVE  StockInv'
  <1>1. PICK answered \in BOOLEAN, raised \in BOOLEAN :
           /\ raised => ~answered
           /\ Call(u, 0, answered)
           /\ toVisit' = IF raised THEN [toVisit EXCEPT ![x] = @ \ {<<k, u>>}] ELSE toVisit
    BY DEF SetToZero, Reset
  <1>2. /\ level' \in [Warehouses -> 0..MaxLevel] /\ muddled' \in BOOLEAN
        /\ \A v \in Warehouses \ {u} : level'[v] = level[v]
        /\ ~ muddled' => ~ muddled /\ level'[u] = 0
    BY <1>1, CallTypes DEF StockInv
  <1>3. /\ UNCHANGED <<free, needSync, exporting, snapshot, touched>>
        /\ zeroed' = [zeroed EXCEPT ![x] = @ \cup {u}] /\ Busy' = Busy
        /\ <<k, u>> \in toVisit[x] /\ u \notin zeroed[x]
    BY DEF SetToZero, Busy
  <1>4. StockTypeOK'
    <2>1. toVisit' \in [Exporters -> SUBSET Feeds] /\ zeroed' \in [Exporters -> SUBSET Warehouses]
      BY <1>1, <1>3 DEF StockInv, StockTypeOK
    <2> QED
      BY <1>2, <1>3, <2>1 DEF StockInv, StockTypeOK
  <1>5. x \in Busy
    BY <1>3 DEF StockInv, Left, Busy
  <1>6. Alone'
    <2> SUFFICES ASSUME ~ muddled' PROVE Alone'
      BY DEF Alone
    <2>1. ~ muddled /\ level'[u] = 0 /\ toVisit' = toVisit
      BY <1>1, <1>2 DEF Call
    <2>2. \A y \in Busy : y = x
      BY <1>5, <2>1 DEF StockInv, Alone
    <2>3. zeroed'[x] = zeroed[x] \cup {u} /\ u \notin zeroed[x] /\ zeroed[x] \subseteq Warehouses
      BY <1>3 DEF StockInv, StockTypeOK
    <2>4. Visited(x, u) = {}
      <3>1. k \in Feeding(u) /\ <<k, u>> \in toVisit[x]
        BY <1>3 DEF StockInv, StockTypeOK, Feeding
      <3>2. \A l \in Feeding(u) : <<l, u>> \in toVisit[x]
        BY <1>3, <1>5, <2>1, <3>1 DEF StockInv, Alone, Spared
      <3> QED
        BY <3>2 DEF Visited, Feeding
    <2>5. \A w : Visited(x, w)' = Visited(x, w)
      BY <2>1 DEF Visited
    <2>6. Sum(snapshot[x], Visited(x, u)) = 0
      BY <2>4, SumNothing
    <2>7. \A w \in zeroed'[x] : level'[w] = Sum(snapshot[x], Visited(x, w))
      BY <1>2, <1>5, <2>1, <2>3, <2>6 DEF StockInv, Alone
    <2>8. \A w \in Warehouses \ zeroed'[x] :
             (\A l \in Feeding(w) : <<l, w>> \in toVisit'[x]) \/ Spared(x, w)'
      <3> SUFFICES ASSUME NEW w \in Warehouses, w \notin zeroed'[x]
                   PROVE  (\A l \in Feeding(w) : <<l, w>> \in toVisit'[x]) \/ Spared(x, w)'
        OBVIOUS
      <3>1. w \notin zeroed[x] /\ level'[w] = level[w]
        BY <1>2, <2>3
      <3>2. (\A l \in Feeding(w) : <<l, w>> \in toVisit[x]) \/ Spared(x, w)
        BY <1>5, <2>1, <3>1 DEF StockInv, Alone
      <3>3. Spared(x, w) => Spared(x, w)'
        BY <1>3, <2>1, <3>1 DEF Spared, Sum, Feeding
      <3> QED
        BY <2>1, <3>2, <3>3
    <2> QED
      BY <1>3, <1>5, <2>1, <2>2, <2>5, <2>7, <2>8 DEF StockInv, Alone, Feeding
  <1>7. Unfed'
    <2>1. <<k, u>> \in Feeds
      BY <1>3 DEF StockInv, StockTypeOK
    <2> QED
      BY <1>2, <2>1 DEF StockInv, Unfed
  <1>8. StockExported'
    BY <1>3, <1>5 DEF StockExported
  <1>9. Left'
    BY <1>1, <1>3 DEF StockInv, StockTypeOK, Left
  <1> QED
    BY <1>4, <1>6, <1>7, <1>8, <1>9 DEF StockInv

LEMMA AdjustKeeps ==
    ASSUME StockInv, NEW x \in Exporters, NEW k \in Locations, NEW u \in Warehouses,
           Adjust(x, k, u)
    PROVE  StockInv'
  <1>1. /\ UNCHANGED <<free, needSync, exporting, snapshot, touched, zeroed>> /\ Busy' = Busy
        /\ toVisit' = [toVisit EXCEPT ![x] = @ \ {<<k, u>>}]
        /\ <<k, u>> \in toVisit[x] /\ u \in zeroed[x] /\ <<k, u>> \in Feeds
    BY DEF Adjust, Busy, StockInv, StockTypeOK
  <1>2. level[u] \in Nat /\ snapshot[x] \in [Locations -> Int] /\ snapshot[x][k] \in Int
    <2>1. level[u] \in 0..MaxLevel
      BY DEF StockInv, StockTypeOK
    <2>2. snapshot[x] \in [Locations -> Quantities]
      BY DEF StockInv, StockTypeOK
    <2>3. Quantities \subseteq Int /\ MaxLevel \in Nat
      BY StockAssumption
    <2>4. snapshot[x] \in [Locations -> Int]
      BY <2>2, <2>3
    <2> QED
      BY <2>1, <2>3, <2>4
  <1>3. /\ level' \in [Warehouses -> 0..MaxLevel] /\ muddled' \in BOOLEAN
        /\ \A v \in Warehouses \ {u} : level'[v] = level[v]
        /\ ~ muddled' => /\ ~ muddled
                         /\ level'[u] = level[u] + (IF snapshot[x][k] > 0 THEN snapshot[x][k] ELSE 0)
    <2>1. CASE snapshot[x][k] > 0
      <3>1. PICK answered \in BOOLEAN : Call(u, level[u] + snapshot[x][k], answered)
        BY <2>1 DEF Adjust
      <3>2. level[u] + snapshot[x][k] \in Nat
        BY <1>2, <2>1
      <3> QED
        BY <2>1, <3>1, <3>2, CallTypes DEF StockInv
    <2>2. CASE ~ (snapshot[x][k] > 0)
      <3>1. UNCHANGED <<level, muddled>>
        BY <2>2 DEF Adjust
      <3> QED
        BY <1>2, <2>2, <3>1 DEF StockInv, StockTypeOK
    <2> QED
      BY <2>1, <2>2
  <1>4. StockTypeOK'
    BY <1>1, <1>3 DEF StockInv, StockTypeOK
  <1>5. x \in Busy
    BY <1>1 DEF StockInv, Left, Busy
  <1>6. Alone'
    <2> SUFFICES ASSUME ~ muddled' PROVE Alone'
      BY DEF Alone
    <2>1. /\ ~ muddled
          /\ level'[u] = level[u] + (IF snapshot[x][k] > 0 THEN snapshot[x][k] ELSE 0)
      BY <1>3
    <2>2. \A y \in Busy : y = x
      BY <1>5, <2>1 DEF StockInv, Alone
    <2>3. toVisit'[x] = toVisit[x] \ {<<k, u>>}
      BY <1>1 DEF StockInv, StockTypeOK
    <2>4. /\ \A w \in Warehouses \ {u} : Visited(x, w)' = Visited(x, w)
          /\ Visited(x, u)' = Visited(x, u) \cup {k} /\ k \in Locations \ Visited(x, u)
          /\ Visited(x, u) \in SUBSET Locations
      BY <1>1, <2>3 DEF Visited
    <2>5. level'[u] = Sum(snapshot[x], Visited(x, u)')
      <3>2. level[u] = Sum(snapshot[x], Visited(x, u))
        BY <1>1, <1>5, <2>1 DEF StockInv, Alone
      <3> QED
        BY <1>2, <2>1, <2>4, <3>2, SumMore
    <2>6. zeroed[x] \subseteq Warehouses
      BY DEF StockInv, StockTypeOK
    <2>7. \A w \in zeroed'[x] : level'[w] = Sum(snapshot[x], Visited(x, w)')
      BY <1>1, <1>3, <1>5, <2>1, <2>4, <2>5, <2>6 DEF StockInv, Alone
    <2>8. \A w \in Warehouses \ zeroed'[x] :
             (\A l \in Feeding(w) : <<l, w>> \in toVisit'[x]) \/ Spared(x, w)'
      <3> SUFFICES ASSUME NEW w \in Warehouses, w \notin zeroed'[x]
                   PROVE  (\A l \in Feeding(w) : <<l, w>> \in toVisit'[x]) \/ Spared(x, w)'
        OBVIOUS
      <3>1. w \notin zeroed[x] /\ w # u /\ level'[w] = level[w]
        BY <1>1, <1>3
      <3>2. (\A l \in Feeding(w) : <<l, w>> \in toVisit[x]) \/ Spared(x, w)
        BY <1>5, <2>1, <3>1 DEF StockInv, Alone
      <3>3. Spared(x, w) => Spared(x, w)'
        BY <1>1, <2>3, <3>1 DEF Spared, Sum, Feeding
      <3>4. (\A l \in Feeding(w) : <<l, w>> \in toVisit[x])
                => \A l \in Feeding(w) : <<l, w>> \in toVisit'[x]
        BY <2>3, <3>1
      <3> QED
        BY <3>2, <3>3, <3>4
    <2> QED
      BY <1>1, <1>5, <2>1, <2>2, <2>7, <2>8 DEF StockInv, Alone, Feeding
  <1>7. Unfed'
    BY <1>1, <1>3 DEF StockInv, Unfed
  <1>8. StockExported'
    BY <1>1, <1>5 DEF StockExported
  <1>9. Left'
    BY <1>1 DEF StockInv, StockTypeOK, Left
  <1> QED
    BY <1>4, <1>6, <1>7, <1>8, <1>9 DEF StockInv

LEMMA LeaveTypes ==
    ASSUME StockTypeOK, NEW x \in Exporters, Leave(x)
    PROVE  /\ exporting' \in [Exporters -> {"no", "flagged", "all"}]
           /\ snapshot' \in [Exporters -> [Locations -> Quantities]]
           /\ zeroed' \in [Exporters -> SUBSET Warehouses]
           /\ toVisit' \in [Exporters -> SUBSET Feeds]
           /\ Busy' = Busy \ {x}
           /\ zeroed'[x] = {} /\ toVisit'[x] = {}
           /\ \A y \in Exporters \ {x} :
                 /\ exporting'[y] = exporting[y] /\ snapshot'[y] = snapshot[y]
                 /\ zeroed'[y] = zeroed[y] /\ toVisit'[y] = toVisit[y]
  <1>1. Empty \in [Locations -> Quantities]
    BY StockAssumption DEF Empty
  <1> QED
    BY <1>1 DEF Leave, StockTypeOK, Busy

LEMMA EndExportKeeps ==
    ASSUME StockInv, NEW x \in Exporters, EndExport(x)
    PROVE  StockInv'
  <1>1. /\ exporting' \in [Exporters -> {"no", "flagged", "all"}]
        /\ snapshot' \in [Exporters -> [Locations -> Quantities]]
        /\ zeroed' \in [Exporters -> SUBSET Warehouses]
        /\ toVisit' \in [Exporters -> SUBSET Feeds]
        /\ Busy' = Busy \ {x}
        /\ zeroed'[x] = {} /\ toVisit'[x] = {}
        /\ \A y \in Exporters \ {x} :
              /\ exporting'[y] = exporting[y] /\ snapshot'[y] = snapshot[y]
              /\ zeroed'[y] = zeroed[y] /\ toVisit'[y] = toVisit[y]
    BY LeaveTypes DEF EndExport, StockInv
  <1>2. /\ UNCHANGED <<free, level, muddled>> /\ x \in Busy /\ toVisit[x] = {}
        /\ exporting[x] = "flagged" => ~touched[x]
        /\ needSync' = IF exporting[x] = "flagged" THEN FALSE ELSE needSync
    BY DEF EndExport
  <1>3. StockTypeOK'
    <2>1. touched' \in [Exporters -> BOOLEAN] /\ needSync' \in BOOLEAN
      BY <1>2 DEF EndExport, StockInv, StockTypeOK, Busy
    <2> QED
      BY <1>1, <1>2, <2>1 DEF StockInv, StockTypeOK
  <1>4. ~ muddled => Busy' = {}
    BY <1>1, <1>2 DEF StockInv, Alone
  <1>5. StockExported'
    <2> SUFFICES ASSUME ~ needSync', ~ muddled, NEW w \in Warehouses
                 PROVE  level[w] = Sum(free, Feeding(w))
      BY <1>2 DEF StockExported, Feeding
    <2>1. snapshot[x] = free
      <3>1. exporting[x] \in {"flagged", "all"}
        BY <1>2 DEF StockInv, StockTypeOK, Busy
      <3> QED
        BY <1>2, <3>1 DEF StockInv, Alone
    <2>2. CASE w \in zeroed[x]
      <3>1. level[w] = Sum(free, Visited(x, w))
        BY <1>2, <2>1, <2>2 DEF StockInv, Alone
      <3>2. Visited(x, w) = Feeding(w)
        BY <1>2 DEF Visited, Feeding
      <3> QED
        BY <3>1, <3>2
    <2>3. CASE w \notin zeroed[x]
      <3>1. (\A l \in Feeding(w) : <<l, w>> \in toVisit[x]) \/ Spared(x, w)
        BY <1>2, <2>3 DEF StockInv, Alone
      <3>2. CASE Feeding(w) = {}
        <4>1. level[w] = 0
          BY <3>2 DEF StockInv, Unfed, Feeding
        <4> QED
          BY <3>2, <4>1, SumNothing
      <3>3. CASE Spared(x, w)
        BY <1>2, <3>3 DEF Spared
      <3> QED
        BY <1>2, <3>1, <3>2, <3>3
    <2> QED
      BY <2>2, <2>3
  <1>6. Alone'
    BY <1>2, <1>4 DEF Alone
  <1>7. Unfed' /\ Left'
    BY <1>1, <1>2 DEF StockInv, Unfed, Left
  <1> QED
    BY <1>3, <1>5, <1>6, <1>7 DEF StockInv

LEMMA BreakOffKeeps ==
    ASSUME StockInv, NEW x \in Exporters, BreakOff(x)
    PROVE  StockInv'
  <1>1. /\ exporting' \in [Exporters -> {"no", "flagged", "all"}]
        /\ snapshot' \in [Exporters -> [Locations -> Quantities]]
        /\ zeroed' \in [Exporters -> SUBSET Warehouses]
        /\ toVisit' \in [Exporters -> SUBSET Feeds]
        /\ zeroed'[x] = {} /\ toVisit'[x] = {}
        /\ \A y \in Exporters \ {x} :
              /\ exporting'[y] = exporting[y]
              /\ zeroed'[y] = zeroed[y] /\ toVisit'[y] = toVisit[y]
    BY LeaveTypes DEF BreakOff, StockInv
  <1>2. /\ UNCHANGED <<free, needSync, level>> /\ muddled' = TRUE
        /\ touched' \in [Exporters -> BOOLEAN]
    BY DEF BreakOff, StockInv, StockTypeOK
  <1> QED
    BY <1>1, <1>2 DEF StockInv, StockTypeOK, Alone, Unfed, Left, StockExported

LEMMA MoveKeeps ==
    ASSUME StockInv, NEW k \in Locations, NEW q \in Quantities, Move(k, q)
    PROVE  StockInv'
  <1>1. /\ UNCHANGED <<level, exporting, snapshot, zeroed, toVisit, muddled>> /\ Busy' = Busy
        /\ needSync' = TRUE /\ \A x \in Busy : touched'[x] = TRUE
        /\ \A x, w : Visited(x, w)' = Visited(x, w)
    BY DEF Move, Flagged, Busy, Visited
  <1>2. StockTypeOK'
    <2>1. free' \in [Locations -> Quantities] /\ touched' \in [Exporters -> BOOLEAN]
      BY DEF Move, StockInv, StockTypeOK, Busy
    <2> QED
      BY <1>1, <2>1 DEF StockInv, StockTypeOK
  <1>3. Alone'
    BY <1>1 DEF StockInv, Alone, Spared, Feeding
  <1>4. Unfed' /\ Left' /\ StockExported'
    BY <1>1 DEF StockInv, Unfed, Left, StockExported
  <1> QED
    BY <1>2, <1>3, <1>4 DEF StockInv

LEMMA ReserveKeeps ==
    ASSUME StockInv, NEW k \in Locations, Reserve(k)
    PROVE  StockInv'
  <1>1. /\ UNCHANGED <<needSync, level, exporting, snapshot, touched, zeroed, toVisit>>
        /\ muddled' = TRUE /\ free' \in [Locations -> Quantities]
    BY DEF Reserve, StockInv, StockTypeOK
  <1> QED
    BY <1>1 DEF StockInv, StockTypeOK, Alone, Unfed, Left, StockExported

LEMMA StockNextInv == StockInv /\ [StockNext]_stockvars => StockInv'
  <1> SUFFICES ASSUME StockInv, [StockNext]_stockvars PROVE StockInv'
    OBVIOUS
  <1>1. CASE UNCHANGED stockvars
    <2>1. /\ Busy' = Busy /\ \A x, w : Visited(x, w)' = Visited(x, w)
          /\ \A x, w : Spared(x, w)' = Spared(x, w)
      BY <1>1 DEF stockvars, Busy, Visited, Spared, Feeding, Sum
    <2>2. Alone'
      BY <1>1, <2>1 DEF stockvars, StockInv, Alone, Feeding
    <2> QED
      BY <1>1, <2>1, <2>2 DEF stockvars, StockInv, StockTypeOK, Unfed, Left, StockExported
  <1>2. CASE StockNext
    BY <1>2, StartExportKeeps, SetToZeroKeeps, AdjustKeeps, EndExportKeeps, BreakOffKeeps,
       MoveKeeps, ReserveKeeps DEF StockNext
  <1> QED
    BY <1>1, <1>2

(* When the flag is clear and nothing came between, Shopify shows what is  *)
(* free at all the locations that feed a warehouse, whatever locations the *)
(* exports went to.                                                        *)
THEOREM StockTold == StockSpec => []StockExported
  <1>1. StockInv => StockExported
    BY DEF StockInv
  <1> QED
    BY <1>1, StockInitInv, StockNextInv, PTL DEF StockSpec

-----------------------------------------------------------------------------
(* Payouts.                                                                *)

(* The invoice of the payout p.                                            *)
Of(p) == payoutOf[p]

(* b comes after a: what is due only falls, an id that is stored remains,  *)
(* and a payment that is made takes something off its invoice.             *)
Follows(a, b) ==
    /\ \A i \in Invoices : b.due[i] <= a.due[i] /\ (a.stored[i] => b.stored[i])
    /\ \A p \in Payouts : a.paid[p] # b.paid[p] =>
          /\ a.paid[p] = 0 /\ b.paid[p] = 1
          /\ Of(p) \in Invoices /\ b.due[Of(p)] < a.due[Of(p)]

(* Each payment is made once, for a payout that has been paid, and for an  *)
(* invoice whose id is stored.                                             *)
Honest(v) ==
    \A p \in Payouts : v.paid[p] > 0 =>
        v.paid[p] = 1 /\ p \in arrived /\ Of(p) \in Invoices /\ v.stored[Of(p)]

(* What a request w has read, has written and has still to do.             *)
Working(w) == rpc[w] # "idle" =>
    /\ Follows(rsnap[w], books) /\ Follows(rsnap[w], rview[w]) /\ Honest(rview[w])
    /\ rpc[w] = "fetch" => \A i \in doc[w] : rview[w].stored[i]
    /\ rpc[w] = "daily" => txs[w] \subseteq arrived

(* An id is only stored by the request that has made the copy.             *)
Storing(w) ==
    /\ rpc[w] \in {"export", "posted"} => \E i \in Invoices : doc[w] = {i}
    /\ \A i \in Invoices : rview[w].stored[i] # rsnap[w].stored[i] =>
          rpc[w] = "posted" /\ i \in doc[w] /\ copies[i] > 0

RpInv ==
    /\ RpTypeOK
    /\ Honest(books)
    /\ \A w \in RpWorkers : Working(w) /\ Storing(w)

LEMMA BooksFields ==
    ASSUME NEW v \in Books
    PROVE  /\ \A i \in Invoices : v.stored[i] \in BOOLEAN /\ v.due[i] \in 0..Total /\ v.due[i] \in Int
           /\ \A p \in Payouts : v.paid[p] \in Nat /\ v.rows[p] \in SUBSET (Invoices \cup {0})
  BY RpAssumption DEF Books

LEMMA FollowsSelf == ASSUME NEW v \in Books PROVE Follows(v, v)
  BY BooksFields DEF Follows

LEMMA FollowsOn ==
    ASSUME NEW a \in Books, NEW b \in Books, NEW c \in Books, Follows(a, b), Follows(b, c)
    PROVE  Follows(a, c)
  <1>1. \A i \in Invoices : a.due[i] \in Int /\ b.due[i] \in Int /\ c.due[i] \in Int
    BY BooksFields
  <1>2. \A i \in Invoices : c.due[i] <= a.due[i] /\ (a.stored[i] => c.stored[i])
    BY <1>1 DEF Follows
  <1>3. ASSUME NEW p \in Payouts, a.paid[p] # c.paid[p]
        PROVE  /\ a.paid[p] = 0 /\ c.paid[p] = 1
               /\ Of(p) \in Invoices /\ c.due[Of(p)] < a.due[Of(p)]
    <2>1. CASE a.paid[p] # b.paid[p]
      BY <1>1, <1>3, <2>1 DEF Follows
    <2>2. CASE a.paid[p] = b.paid[p]
      BY <1>1, <1>3, <2>2 DEF Follows
    <2> QED
      BY <2>1, <2>2
  <1> QED
    BY <1>2, <1>3 DEF Follows

LEMMA NewBooksTyped == NewBooks \in Books /\ Honest(NewBooks)
  <1>1. NewBooks \in Books
    BY RpAssumption DEF NewBooks, Books
  <1>2. \A p \in Payouts : NewBooks.paid[p] = 0
    BY DEF NewBooks
  <1> QED
    BY <1>1, <1>2 DEF Honest

(* What the registration of a payout does to the books it sees: for one    *)
(* that has been paid, nothing that a later state would not.               *)
LEMMA RegisteredKeeps ==
    ASSUME NEW v \in Books, NEW p \in Payouts, NEW i \in Invoices,
           p \in arrived, v.stored[i], Honest(v)
    PROVE  /\ Registered(v, p, i) \in Books /\ Follows(v, Registered(v, p, i))
           /\ Honest(Registered(v, p, i)) /\ Registered(v, p, i).stored = v.stored
  <1>1. CASE ~ Registrable(v, p, i)
    BY <1>1, FollowsSelf DEF Registered
  <1>2. CASE Registrable(v, p, i)
    <2> DEFINE u == Registered(v, p, i)
    <2>1. u = [v EXCEPT !.paid[p] = @ + 1, !.due[i] = @ - Gross[p]]
      BY <1>2 DEF Registered
    <2>2. /\ v.paid[p] = 0 /\ i = Of(p) /\ v.due[i] > 0 /\ Gross[p] <= v.due[i]
          /\ Gross[p] \in Nat \ {0} /\ v.due[i] \in 0..Total /\ Total \in Nat
      BY <1>2, RpAssumption, BooksFields DEF Registrable, Of
    <2>3. v.due[i] - Gross[p] \in 0..Total /\ v.due[i] - Gross[p] < v.due[i]
      BY <2>2
    <2>4. u \in Books
      <3> DEFINE newPaid == [v.paid EXCEPT ![p] = @ + 1]
                 newDue  == [v.due EXCEPT ![i] = @ - Gross[p]]
      <3>1. u = [[v EXCEPT !.paid = newPaid] EXCEPT !.due = newDue]
        BY <2>1 DEF Books
      <3>2. newPaid \in [Payouts -> Nat] /\ newDue \in [Invoices -> 0..Total]
        BY <2>3 DEF Books
      <3> HIDE DEF u, newPaid, newDue
      <3> QED
        BY <3>1, <3>2 DEF Books
    <2>5. /\ u.stored = v.stored
          /\ u.paid = [v.paid EXCEPT ![p] = 1] /\ u.due = [v.due EXCEPT ![i] = v.due[i] - Gross[p]]
      BY <2>1, <2>2 DEF Books
    <2>6. /\ \A q \in Payouts : u.paid[q] = IF q = p THEN 1 ELSE v.paid[q]
          /\ \A j \in Invoices : u.due[j] = IF j = i THEN v.due[i] - Gross[p] ELSE v.due[j]
      BY <2>5 DEF Books
    <2> HIDE DEF u
    <2>7. Follows(v, u)
      BY <2>2, <2>3, <2>5, <2>6, BooksFields DEF Follows
    <2>8. Honest(u)
      BY <2>2, <2>5, <2>6 DEF Honest
    <2> QED
      BY <2>4, <2>5, <2>7, <2>8 DEF u
  <1> QED
    BY <1>1, <1>2

LEMMA WithRowKeeps ==
    ASSUME NEW v \in Books, NEW p \in Payouts, NEW i \in Invoices \cup {0}
    PROVE  /\ WithRow(v, p, i) \in Books
           /\ WithRow(v, p, i).stored = v.stored /\ WithRow(v, p, i).due = v.due
           /\ WithRow(v, p, i).paid = v.paid
  BY DEF WithRow, Books

(* Both together.                                                          *)
LEMMA BookedKeeps ==
    ASSUME NEW v \in Books, NEW p \in Payouts, NEW i \in Invoices,
           p \in arrived, v.stored[i], Honest(v)
    PROVE  LET u == WithRow(Registered(v, p, i), p, i)
           IN  u \in Books /\ Follows(v, u) /\ Honest(u) /\ u.stored = v.stored
  <1> DEFINE r == Registered(v, p, i)
             u == WithRow(r, p, i)
  <1>1. r \in Books /\ Follows(v, r) /\ Honest(r) /\ r.stored = v.stored
    BY RegisteredKeeps
  <1> HIDE DEF r
  <1>2. u \in Books /\ u.stored = r.stored /\ u.due = r.due /\ u.paid = r.paid
    BY <1>1, WithRowKeeps
  <1> HIDE DEF u
  <1>3. Follows(v, u) /\ Honest(u)
    BY <1>1, <1>2 DEF Follows, Honest
  <1> QED
    BY <1>1, <1>2, <1>3 DEF u, r

(* The payouts of an invoice are registered one after the other.           *)
LEMMA FetchedKeeps ==
    ASSUME NEW v \in Books, NEW i \in Invoices, v.stored[i], Honest(v)
    PROVE  /\ Fetched(v, i) \in Books /\ Follows(v, Fetched(v, i))
           /\ Honest(Fetched(v, i)) /\ Fetched(v, i).stored = v.stored
  <1> DEFINE mine  == {p \in Payouts : payoutOf[p] = i}
             ready == {p \in mine : \A q \in mine : q <= p => q \in arrived}
             D     == {b \in Books : Follows(v, b) /\ Honest(b) /\ b.stored = v.stored}
             Next(p, b) == WithRow(Registered(b, p, i), p, i)
             IsAfter(g) == g = [S \in SUBSET ready |->
                IF S = {} THEN v ELSE LET p == Max(S) IN WithRow(Registered(g[S \ {p}], p, i), p, i)]
             take  == [S \in SUBSET ready |-> Max(S)]
             step  == [x \in ready \X D |-> Next(x[1], x[2])]
  <1>1. \A p \in ready : p \in Payouts /\ p \in arrived
    <2> HIDE DEF D, Next, IsAfter, take, step
    <2>1. Payouts \subseteq Nat
      BY RpAssumption
    <2>2. \A p \in Payouts : p <= p
      BY <2>1
    <2> QED
      BY <2>2
  <1>2. IsFiniteSet(ready) /\ ready \in SUBSET Nat
    <2> HIDE DEF D, Next, IsAfter, take, step
    <2>1. ready \subseteq Payouts
      OBVIOUS
    <2> HIDE DEF mine, ready
    <2>2. IsFiniteSet(Payouts) /\ Payouts \subseteq Nat
      BY RpAssumption
    <2>3. IsFiniteSet(ready)
      BY <2>1, <2>2, FS_Subset
    <2> QED
      BY <2>1, <2>2, <2>3
  <1>3. ASSUME NEW p \in ready, NEW b \in D PROVE Next(p, b) \in D
    <2>1. b \in Books /\ Follows(v, b) /\ Honest(b) /\ b.stored = v.stored
      OBVIOUS
    <2>2. /\ Next(p, b) \in Books /\ Follows(b, Next(p, b)) /\ Honest(Next(p, b))
          /\ Next(p, b).stored = b.stored
      BY <1>1, <2>1, BookedKeeps
    <2> HIDE DEF Next
    <2> QED
      BY <2>1, <2>2, FollowsOn
  <1>4. v \in D
    BY FollowsSelf
  <1> HIDE DEF mine, ready, D
  <1>5. step \in [ready \X D -> D]
    BY <1>3
  <1>6. \A S \in SUBSET ready : S # {} => Max(S) \in S
    <2> SUFFICES ASSUME NEW S \in SUBSET ready, S # {} PROVE Max(S) \in S
      OBVIOUS
    <2>1. IsFiniteSet(S) /\ S \in SUBSET Nat
      BY <1>2, FS_Subset
    <2>2. \E m \in S : \A k \in S : k <= m
      BY <2>1, GreatestNatural
    <2>3. \E m \in S : \A k \in S : m >= k
      BY <2>1, <2>2
    <2> QED
      BY <2>3 DEF Max
  <1>7. \A S \in SUBSET ready : S # {} => take[S] \in S
    BY <1>6
  <1>8. PICK g \in [SUBSET ready -> D] : Steps(v, take, step, ready, g)
    <2> HIDE DEF take, step
    <2> QED
      BY <1>2, <1>4, <1>5, <1>7, StepsExist
  <1>9. \A S \in SUBSET ready : g[S] = IF S = {} THEN v ELSE Next(Max(S), g[S \ {Max(S)}])
    <2> SUFFICES ASSUME NEW S \in SUBSET ready
                 PROVE  g[S] = IF S = {} THEN v ELSE Next(Max(S), g[S \ {Max(S)}])
      OBVIOUS
    <2>1. g[S] = Stepped(v, take, step, g, S)
      <3> HIDE DEF take, step
      <3>1. g = [s \in SUBSET ready |-> Stepped(v, take, step, g, s)]
        BY <1>8 DEF Steps
      <3> DEFINE h == [s \in SUBSET ready |-> Stepped(v, take, step, g, s)]
      <3>2. h[S] = Stepped(v, take, step, g, S)
        OBVIOUS
      <3>3. g = h
        BY <3>1
      <3> HIDE DEF h
      <3> QED
        BY <3>2, <3>3
    <2>2. CASE S = {}
      BY <2>1, <2>2 DEF Stepped
    <2>3. CASE S # {}
      <3>1. Max(S) \in ready /\ S \ {Max(S)} \in SUBSET ready /\ take[S] = Max(S)
        BY <1>6, <2>3
      <3>2. g[S \ {Max(S)}] \in D
        BY <3>1
      <3>3. step[Max(S), g[S \ {Max(S)}]] = Next(Max(S), g[S \ {Max(S)}])
        <4> HIDE DEF Next
        <4> QED
          BY <3>1, <3>2
      <3> HIDE DEF step, Next, take
      <3> QED
        BY <2>1, <2>3, <3>1, <3>3 DEF Stepped
    <2> QED
      BY <2>2, <2>3
  <1> DEFINE Body(f, S) == IF S = {} THEN v ELSE Next(Max(S), f[S \ {Max(S)}])
  <1>10. IsAfter(g)
    <2>1. g = [S \in SUBSET ready |-> Body(g, S)]
      <3> HIDE DEF Next
      <3> QED
        BY <1>9
    <2> QED
      BY <2>1
  <1> DEFINE after == CHOOSE f : IsAfter(f)
  <1>11. IsAfter(after)
    BY <1>10
  <1>12. Fetched(v, i) = after[ready]
    BY DEF Fetched, mine, ready
  <1> HIDE DEF after
  <1>13. \A S \in SUBSET ready : after[S] = Body(after, S)
    <2>1. after = [S \in SUBSET ready |-> Body(after, S)]
      BY <1>11
    <2> HIDE DEF Body
    <2> DEFINE h == [S \in SUBSET ready |-> Body(after, S)]
    <2>2. \A S \in SUBSET ready : h[S] = Body(after, S)
      OBVIOUS
    <2>3. after = h
      BY <2>1
    <2> HIDE DEF h
    <2> QED
      BY <2>2, <2>3
  <1>14. \A S \in SUBSET ready : g[S] = Body(g, S)
    BY <1>9
  <1> HIDE DEF Next, IsAfter, take, step
  <1> DEFINE Bad == {n \in Nat : \E S \in SUBSET ready : Cardinality(S) = n /\ after[S] # g[S]}
  <1>15. Bad = {}
    <2> SUFFICES ASSUME Bad # {} PROVE FALSE
      OBVIOUS
    <2>1. PICK n \in Bad : \A k \in Bad : n <= k
      <3>1. Bad \in SUBSET Nat
        OBVIOUS
      <3> HIDE DEF Bad
      <3> QED
        BY <3>1, LeastNatural
    <2>2. PICK S \in SUBSET ready : Cardinality(S) = n /\ after[S] # g[S]
      OBVIOUS
    <2>3. S # {}
      BY <1>13, <1>14, <2>2
    <2> DEFINE x == Max(S)
    <2>4. x \in S /\ S \ {x} \in SUBSET ready
      BY <1>6, <2>3
    <2>5. after[S] = Next(x, after[S \ {x}]) /\ g[S] = Next(x, g[S \ {x}])
      BY <1>13, <1>14, <2>3
    <2> HIDE DEF x
    <2>6. Cardinality(S \ {x}) \in Nat /\ Cardinality(S \ {x}) = n - 1 /\ n \in Nat
      BY <1>2, <2>2, <2>4, Smaller
    <2>7. after[S \ {x}] = g[S \ {x}]
      <3>1. ~ (n <= n - 1)
        BY <2>6
      <3>2. n - 1 \notin Bad
        <4> HIDE DEF Bad
        <4> QED
          BY <2>1, <3>1
      <3> QED
        BY <2>4, <2>6, <3>2
    <2> QED
      BY <2>2, <2>5, <2>7
  <1>16. Cardinality(ready) \in Nat
    BY <1>2, FS_CardinalityType
  <1>17. after[ready] = g[ready]
    BY <1>15, <1>16
  <1>18. Fetched(v, i) \in D
    BY <1>8, <1>12, <1>17
  <1> QED
    BY <1>18 DEF D

LEMMA RpInitInv == RpInit => RpInv
  <1> SUFFICES ASSUME RpInit PROVE RpInv
    OBVIOUS
  <1>1. RpTypeOK
    BY RpAssumption, NewBooksTyped DEF RpInit, RpTypeOK
  <1>2. Honest(books)
    BY NewBooksTyped DEF RpInit
  <1>3. \A w \in RpWorkers : Working(w) /\ Storing(w)
    BY DEF RpInit, Working, Storing
  <1> QED
    BY <1>1, <1>2, <1>3 DEF RpInv

(* The requests that do not move.                                          *)
LEMMA OthersGoOn ==
    ASSUME RpInv, NEW u \in RpWorkers, UNCHANGED payoutOf, arrived \subseteq arrived',
           books' \in Books, NEW b, b = books', Follows(books, b),
           \A i \in Invoices : copies[i] > 0 => copies'[i] > 0,
           rpc'[u] = rpc[u], doc'[u] = doc[u], txs'[u] = txs[u],
           rsnap'[u] = rsnap[u], rview'[u] = rview[u]
    PROVE  Working(u)' /\ Storing(u)'
  <1>1. Working(u) /\ Storing(u) /\ books \in Books /\ rsnap[u] \in Books
    BY DEF RpInv, RpTypeOK
  <1>2. Storing(u)'
    BY <1>1 DEF Storing
  <1>3. Working(u)'
    <2> SUFFICES ASSUME rpc[u] # "idle" PROVE Working(u)'
      BY DEF Working
    <2>1. Follows(rsnap[u], b)
      BY <1>1, FollowsOn DEF Working
    <2>2. Follows(rsnap[u], books)'
      BY <2>1 DEF Follows, Of
    <2>3. Follows(rsnap[u], rview[u])' /\ Honest(rview[u])'
      BY <1>1 DEF Working, Follows, Honest, Of
    <2> QED
      BY <1>1, <2>2, <2>3 DEF Working
  <1> QED
    BY <1>2, <1>3

LEMMA BeginRpKeeps ==
    ASSUME RpInv, NEW w \in RpWorkers, NEW k \in {"export", "fetch", "daily"},
           NEW I \in SUBSET Invoices, NEW T \in SUBSET Payouts, BeginRp(w, k, I, T),
           k = "export" => \E i \in Invoices : I = {i},
           k = "fetch" => \A i \in I : books.stored[i],
           k = "daily" => T \subseteq arrived
    PROVE  RpInv'
  <1>1. /\ UNCHANGED <<payoutOf, copies, arrived, books>>
        /\ rpc' = [rpc EXCEPT ![w] = k]
        /\ doc' = [doc EXCEPT ![w] = I] /\ txs' = [txs EXCEPT ![w] = T]
        /\ rsnap' = [rsnap EXCEPT ![w] = books] /\ rview' = [rview EXCEPT ![w] = books]
    BY DEF BeginRp
  <1>2. RpTypeOK'
    BY <1>1 DEF RpInv, RpTypeOK
  <1>3. Honest(books)'
    BY <1>1 DEF RpInv, Honest, Of
  <1>4. books \in Books /\ Follows(books, books) /\ Honest(books)
    BY FollowsSelf DEF RpInv, RpTypeOK
  <1>5. ASSUME NEW u \in RpWorkers PROVE Working(u)' /\ Storing(u)'
    <2>1. CASE u = w
      <3>1. /\ rpc'[u] = k /\ doc'[u] = I /\ txs'[u] = T /\ rsnap'[u] = books /\ rview'[u] = books
        BY <1>1, <2>1 DEF RpInv, RpTypeOK
      <3>2. Follows(rsnap[u], books)' /\ Follows(rsnap[u], rview[u])' /\ Honest(rview[u])'
        BY <1>1, <1>4, <3>1 DEF Follows, Honest, Of
      <3> QED
        BY <1>1, <3>1, <3>2 DEF Working, Storing
    <2>2. CASE u # w
      <3>1. /\ rpc'[u] = rpc[u] /\ doc'[u] = doc[u] /\ txs'[u] = txs[u]
            /\ rsnap'[u] = rsnap[u] /\ rview'[u] = rview[u]
        BY <1>1, <2>2 DEF RpInv, RpTypeOK
      <3>2. PICK b : b = books'
        OBVIOUS
      <3> QED
        BY <1>1, <1>4, <3>1, <3>2, OthersGoOn
    <2> QED
      BY <2>1, <2>2
  <1> QED
    BY <1>2, <1>3, <1>5 DEF RpInv

(* A request ends, whatever has become of the books.                       *)
LEMMA EndRpKeeps ==
    ASSUME RpInv, NEW w \in RpWorkers, EndRp(w), UNCHANGED <<payoutOf, copies, arrived>>,
           books' \in Books, NEW b, b = books', Follows(books, b), Honest(b)
    PROVE  RpInv'
  <1>1. /\ rpc' = [rpc EXCEPT ![w] = "idle"]
        /\ doc' = [doc EXCEPT ![w] = {}] /\ txs' = [txs EXCEPT ![w] = {}]
        /\ rsnap' = [rsnap EXCEPT ![w] = NewBooks] /\ rview' = [rview EXCEPT ![w] = NewBooks]
    BY DEF EndRp
  <1>2. RpTypeOK'
    BY <1>1, NewBooksTyped DEF RpInv, RpTypeOK
  <1>3. Honest(books)'
    BY DEF Honest, Of
  <1>4. ASSUME NEW u \in RpWorkers PROVE Working(u)' /\ Storing(u)'
    <2>1. CASE u = w
      <3>1. rpc'[u] = "idle" /\ rsnap'[u] = rview'[u]
        BY <1>1, <2>1 DEF RpInv, RpTypeOK
      <3> QED
        BY <3>1 DEF Working, Storing
    <2>2. CASE u # w
      <3>1. /\ rpc'[u] = rpc[u] /\ doc'[u] = doc[u] /\ txs'[u] = txs[u]
            /\ rsnap'[u] = rsnap[u] /\ rview'[u] = rview[u]
        BY <1>1, <2>2 DEF RpInv, RpTypeOK
      <3> QED
        BY <3>1, OthersGoOn
    <2> QED
      BY <2>1, <2>2
  <1> QED
    BY <1>2, <1>3, <1>4 DEF RpInv

(* What a request commits comes after what is committed: the two have not  *)
(* written the same invoice.                                               *)
LEMMA OverFollows ==
    ASSUME RpInv, NEW w \in RpWorkers, rpc[w] # "idle",
           Changed(rsnap[w], rview[w]) \cap Changed(rsnap[w], books) = {}
    PROVE  Over(w) \in Books /\ Follows(books, Over(w)) /\ Honest(Over(w))
  <1> DEFINE a == rsnap[w]
             v == rview[w]
             b == books
             c == Over(w)
  <1>1. a \in Books /\ b \in Books /\ v \in Books
    BY DEF RpInv, RpTypeOK
  <1>2. Follows(a, b) /\ Follows(a, v) /\ Honest(v) /\ Honest(b)
    BY DEF RpInv, Working
  <1>3. /\ \A i \in Invoices :
              /\ c.stored[i] = IF i \in Changed(a, v) THEN v.stored[i] ELSE b.stored[i]
              /\ c.due[i] = IF i \in Changed(a, v) THEN v.due[i] ELSE b.due[i]
        /\ \A p \in Payouts : c.paid[p] = IF v.paid[p] # a.paid[p] THEN v.paid[p] ELSE b.paid[p]
    BY DEF Over
  <1>4. c \in Books
    <2>1. /\ \A i \in Invoices : /\ v.stored[i] \in BOOLEAN /\ b.stored[i] \in BOOLEAN
                                 /\ v.due[i] \in 0..Total /\ b.due[i] \in 0..Total
          /\ \A p \in Payouts : /\ v.paid[p] \in Nat /\ b.paid[p] \in Nat
                                /\ v.rows[p] \in SUBSET (Invoices \cup {0})
                                /\ b.rows[p] \in SUBSET (Invoices \cup {0})
      BY <1>1, BooksFields
    <2> QED
      BY <2>1 DEF Over, Books
  <1> HIDE DEF c, a, v, b
  <1>5. \A i \in Changed(a, v) : a.stored[i] = b.stored[i] /\ a.due[i] = b.due[i] /\ i \in Invoices
    BY DEF Changed, a, v, b
  <1>6. \A i \in Invoices : i \notin Changed(a, v) => a.stored[i] = v.stored[i] /\ a.due[i] = v.due[i]
    BY DEF Changed
  <1>7. \A i \in Invoices : a.due[i] \in Int /\ b.due[i] \in Int /\ v.due[i] \in Int /\ c.due[i] \in Int
    BY <1>1, <1>4, BooksFields
  <1>8. \A i \in Invoices : c.due[i] <= b.due[i] /\ (b.stored[i] => c.stored[i])
                            /\ (v.stored[i] => c.stored[i])
    BY <1>2, <1>3, <1>5, <1>6, <1>7 DEF Follows
  <1>9. ASSUME NEW p \in Payouts, v.paid[p] # a.paid[p]
        PROVE  /\ a.paid[p] = 0 /\ b.paid[p] = 0 /\ c.paid[p] = 1 /\ Of(p) \in Invoices
               /\ Of(p) \in Changed(a, v) /\ c.due[Of(p)] < b.due[Of(p)]
    <2>1. a.paid[p] = 0 /\ v.paid[p] = 1 /\ Of(p) \in Invoices /\ v.due[Of(p)] < a.due[Of(p)]
      BY <1>2, <1>9 DEF Follows
    <2>2. Of(p) \in Changed(a, v)
      BY <1>6, <1>7, <2>1
    <2>3. a.due[Of(p)] = b.due[Of(p)] /\ c.due[Of(p)] = v.due[Of(p)]
      BY <1>3, <1>5, <2>1, <2>2
    <2>4. a.paid[p] = b.paid[p]
      BY <1>2, <1>7, <2>1, <2>3 DEF Follows
    <2> QED
      BY <1>3, <1>9, <2>1, <2>2, <2>3, <2>4
  <1>10. Follows(b, c)
    BY <1>3, <1>8, <1>9 DEF Follows
  <1>11. Honest(c)
    <2> SUFFICES ASSUME NEW p \in Payouts, c.paid[p] > 0
                 PROVE  c.paid[p] = 1 /\ p \in arrived /\ Of(p) \in Invoices /\ c.stored[Of(p)]
      BY DEF Honest
    <2>1. CASE v.paid[p] # a.paid[p]
      BY <1>2, <1>3, <1>8, <1>9, <2>1 DEF Honest
    <2>2. CASE v.paid[p] = a.paid[p]
      BY <1>2, <1>3, <1>8, <2>2 DEF Honest
    <2> QED
      BY <2>1, <2>2
  <1> QED
    BY <1>4, <1>10, <1>11 DEF b, c

LEMMA CommitRpKeeps ==
    ASSUME RpInv, NEW w \in RpWorkers, CommitRp(w)
    PROVE  RpInv'
  <1>1. Over(w) \in Books /\ Follows(books, Over(w)) /\ Honest(Over(w))
    BY OverFollows DEF CommitRp
  <1>2. PICK b : b = books'
    OBVIOUS
  <1>3. b = Over(w) /\ EndRp(w) /\ UNCHANGED <<payoutOf, copies, arrived>>
    BY <1>2 DEF CommitRp
  <1> QED
    BY <1>1, <1>2, <1>3, EndRpKeeps

LEMMA LoseRpKeeps ==
    ASSUME RpInv, NEW w \in RpWorkers, LoseRp(w)
    PROVE  RpInv'
  <1>1. PICK b : b = books'
    OBVIOUS
  <1>2. b = books /\ EndRp(w) /\ UNCHANGED <<payoutOf, copies, arrived>>
    BY <1>1 DEF LoseRp
  <1>3. books \in Books /\ Honest(books)
    BY DEF RpInv, RpTypeOK
  <1> QED
    BY <1>1, <1>2, <1>3, FollowsSelf, EndRpKeeps

(* A request goes on with books of its own.                                *)
LEMMA GoesOn ==
    ASSUME RpInv, NEW w \in RpWorkers, rpc[w] # "idle", NEW v \in Books,
           UNCHANGED <<payoutOf, arrived, books, rsnap>>, copies' \in [Invoices -> 0..MaxCopies],
           \A i \in Invoices : copies[i] > 0 => copies'[i] > 0,
           rpc' \in [RpWorkers -> {"idle", "export", "posted", "fetch", "daily"}],
           doc' \in [RpWorkers -> SUBSET Invoices], txs' \in [RpWorkers -> SUBSET Payouts],
           rview' = [rview EXCEPT ![w] = v],
           \A u \in RpWorkers \ {w} : rpc'[u] = rpc[u] /\ doc'[u] = doc[u] /\ txs'[u] = txs[u],
           Follows(rview[w], v), Honest(v),
           rpc'[w] = "fetch" => \A i \in doc'[w] : v.stored[i],
           rpc'[w] = "daily" => txs'[w] \subseteq arrived,
           Storing(w)'
    PROVE  RpInv'
  <1>1. RpTypeOK'
    BY DEF RpInv, RpTypeOK
  <1>2. Honest(books)'
    BY DEF RpInv, Honest, Of
  <1>3. rsnap[w] \in Books /\ rview[w] \in Books /\ Working(w) /\ rview'[w] = v /\ rsnap'[w] = rsnap[w]
    BY DEF RpInv, RpTypeOK
  <1>4. Follows(rsnap[w], v)
    BY <1>3, FollowsOn DEF Working
  <1>5. Working(w)'
    <2>1. Follows(rsnap[w], books)' /\ Follows(rsnap[w], rview[w])' /\ Honest(rview[w])'
      BY <1>3, <1>4 DEF Working, Follows, Honest, Of
    <2> QED
      BY <1>3, <2>1 DEF Working
  <1>6. ASSUME NEW u \in RpWorkers \ {w} PROVE Working(u)' /\ Storing(u)'
    <2>1. rview'[u] = rview[u] /\ rsnap'[u] = rsnap[u]
      BY DEF RpInv, RpTypeOK
    <2>2. books \in Books
      BY DEF RpInv, RpTypeOK
    <2>3. PICK b : b = books'
      OBVIOUS
    <2> QED
      BY <2>1, <2>2, <2>3, FollowsSelf, OthersGoOn
  <1> QED
    BY <1>1, <1>2, <1>5, <1>6 DEF RpInv

LEMMA PostInvoiceKeeps ==
    ASSUME RpInv, NEW w \in RpWorkers, NEW i \in Invoices, PostInvoice(w, i)
    PROVE  RpInv'
  <1> DEFINE v == [rview[w] EXCEPT !.stored[i] = TRUE]
  <1>1. rview[w] \in Books /\ Honest(rview[w]) /\ rpc[w] = "export" /\ doc[w] = {i}
        /\ copies[i] \in Nat /\ copies[i] < MaxCopies
    BY RpAssumption DEF RpInv, RpTypeOK, PostInvoice, Working
  <1>2. /\ UNCHANGED <<payoutOf, arrived, books, doc, txs, rsnap>>
        /\ copies' = [copies EXCEPT ![i] = @ + 1] /\ rpc' = [rpc EXCEPT ![w] = "posted"]
        /\ rview' = [rview EXCEPT ![w] = v]
    BY DEF PostInvoice, RpInv, RpTypeOK
  <1>3. v \in Books /\ v.due = rview[w].due /\ v.paid = rview[w].paid
        /\ v.stored[i] = TRUE /\ \A j \in Invoices \ {i} : v.stored[j] = rview[w].stored[j]
    BY <1>1 DEF Books
  <1>4. Follows(rview[w], v) /\ Honest(v)
    BY <1>1, <1>3, BooksFields DEF Follows, Honest
  <1> HIDE DEF v
  <1>5. rview'[w] = v /\ rsnap'[w] = rsnap[w] /\ rpc'[w] = "posted" /\ doc'[w] = {i} /\ copies'[i] > 0
    BY <1>1, <1>2 DEF RpInv, RpTypeOK
  <1>6. Storing(w)'
    <2>1. \A j \in Invoices : rview[w].stored[j] = rsnap[w].stored[j]
      BY <1>1 DEF RpInv, Storing
    <2>2. \A j \in Invoices : rview'[w].stored[j] # rsnap'[w].stored[j] => j = i
      BY <1>3, <1>5, <2>1
    <2> QED
      BY <1>5, <2>2 DEF Storing
  <1>7. /\ copies' \in [Invoices -> 0..MaxCopies] /\ \A j \in Invoices : copies[j] > 0 => copies'[j] > 0
        /\ rpc' \in [RpWorkers -> {"idle", "export", "posted", "fetch", "daily"}]
        /\ doc' \in [RpWorkers -> SUBSET Invoices] /\ txs' \in [RpWorkers -> SUBSET Payouts]
        /\ \A u \in RpWorkers \ {w} : rpc'[u] = rpc[u] /\ doc'[u] = doc[u] /\ txs'[u] = txs[u]
    BY <1>1, <1>2, RpAssumption DEF RpInv, RpTypeOK
  <1> QED
    BY <1>1, <1>2, <1>3, <1>4, <1>5, <1>6, <1>7, GoesOn

LEMMA FetchInvoiceKeeps ==
    ASSUME RpInv, NEW w \in RpWorkers, NEW i \in Invoices, FetchInvoice(w, i)
    PROVE  RpInv'
  <1>1. rview[w] \in Books /\ Honest(rview[w]) /\ rpc[w] = "fetch" /\ rview[w].stored[i]
    BY DEF RpInv, RpTypeOK, FetchInvoice, Working
  <1> DEFINE v == Fetched(rview[w], i)
  <1>2. /\ UNCHANGED <<payoutOf, copies, arrived, books, rpc, txs, rsnap>>
        /\ doc' = [doc EXCEPT ![w] = @ \ {i}] /\ rview' = [rview EXCEPT ![w] = v]
    BY DEF FetchInvoice, RpInv, RpTypeOK
  <1>3. v \in Books /\ Follows(rview[w], v) /\ Honest(v) /\ v.stored = rview[w].stored
    BY <1>1, FetchedKeeps
  <1> HIDE DEF v
  <1>4. /\ rview'[w] = v /\ rsnap'[w] = rsnap[w] /\ rpc'[w] = "fetch" /\ doc'[w] \subseteq doc[w]
        /\ \A u \in RpWorkers \ {w} : doc'[u] = doc[u]
        /\ doc' \in [RpWorkers -> SUBSET Invoices]
    BY <1>1, <1>2 DEF RpInv, RpTypeOK
  <1>5. Storing(w)'
    <2>1. Storing(w)
      BY DEF RpInv
    <2> QED
      BY <1>1, <1>2, <1>3, <1>4, <2>1 DEF Storing
  <1>6. \A j \in doc'[w] : v.stored[j]
    BY <1>1, <1>3, <1>4 DEF RpInv, Working
  <1>7. /\ copies' \in [Invoices -> 0..MaxCopies]
        /\ rpc' \in [RpWorkers -> {"idle", "export", "posted", "fetch", "daily"}]
        /\ txs' \in [RpWorkers -> SUBSET Payouts]
    BY <1>2 DEF RpInv, RpTypeOK
  <1> QED
    BY <1>1, <1>2, <1>3, <1>4, <1>5, <1>6, <1>7, GoesOn

(* A fee is never registered: no invoice has the number 0.                 *)
LEMMA DailyTransactionKeeps ==
    ASSUME RpInv, NEW w \in RpWorkers, NEW p \in Payouts, DailyTransaction(w, p)
    PROVE  RpInv'
  <1>1. /\ rview[w] \in Books /\ Honest(rview[w]) /\ rpc[w] = "daily"
        /\ p \in arrived /\ txs[w] \subseteq arrived
    BY DEF RpInv, RpTypeOK, DailyTransaction, Working
  <1>2. /\ UNCHANGED <<payoutOf, copies, arrived, books, rpc, doc, rsnap>>
        /\ txs' = [txs EXCEPT ![w] = @ \ {p}]
    BY DEF DailyTransaction
  <1>3. \E v \in Books : /\ rview' = [rview EXCEPT ![w] = v]
                         /\ Follows(rview[w], v) /\ Honest(v) /\ v.stored = rview[w].stored
    <2>1. CASE \E i \in Found(rview[w], p) :
                  rview' = [rview EXCEPT ![w] = WithRow(Registered(rview[w], p, i), p, i)]
      <3>1. PICK i \in Found(rview[w], p) :
                  rview' = [rview EXCEPT ![w] = WithRow(Registered(rview[w], p, i), p, i)]
        BY <2>1
      <3>2. i \in Invoices
        BY DEF Found
      <3>3. CASE rview[w].stored[i]
        <4> DEFINE v == WithRow(Registered(rview[w], p, i), p, i)
        <4>1. v \in Books /\ Follows(rview[w], v) /\ Honest(v) /\ v.stored = rview[w].stored
          BY <1>1, <3>2, <3>3, BookedKeeps
        <4> HIDE DEF v
        <4> QED
          BY <3>1, <4>1 DEF v
      <3>4. CASE ~ rview[w].stored[i]
        <4>1. i # payoutOf[p]
          BY <3>2, <3>4, RpAssumption DEF Found
        <4>2. Registered(rview[w], p, i) = rview[w]
          BY <4>1 DEF Registered, Registrable
        <4> DEFINE v == WithRow(rview[w], p, i)
        <4>3. v \in Books /\ v.stored = rview[w].stored /\ v.due = rview[w].due /\ v.paid = rview[w].paid
          BY <1>1, <3>2, WithRowKeeps
        <4>4. rview' = [rview EXCEPT ![w] = v]
          BY <3>1, <4>2
        <4> HIDE DEF v
        <4>5. Follows(rview[w], v) /\ Honest(v)
          BY <1>1, <4>3, BooksFields DEF Follows, Honest
        <4> QED
          BY <4>3, <4>4, <4>5
      <3> QED
        BY <3>3, <3>4
    <2>2. CASE rview' = [rview EXCEPT ![w] = WithRow(rview[w], p, 0)]
      <3> DEFINE v == WithRow(rview[w], p, 0)
      <3>1. v \in Books /\ v.stored = rview[w].stored /\ v.due = rview[w].due /\ v.paid = rview[w].paid
        BY <1>1, WithRowKeeps
      <3>2. rview' = [rview EXCEPT ![w] = v]
        BY <2>2
      <3> HIDE DEF v
      <3>3. Follows(rview[w], v) /\ Honest(v)
        BY <1>1, <3>1, BooksFields DEF Follows, Honest
      <3> QED
        BY <3>1, <3>2, <3>3
    <2> QED
      BY <2>1, <2>2 DEF DailyTransaction
  <1>4. PICK v \in Books : /\ rview' = [rview EXCEPT ![w] = v]
                           /\ Follows(rview[w], v) /\ Honest(v) /\ v.stored = rview[w].stored
    BY <1>3
  <1>5. /\ rview'[w] = v /\ rsnap'[w] = rsnap[w] /\ rpc'[w] = "daily" /\ txs'[w] \subseteq txs[w]
        /\ \A u \in RpWorkers \ {w} : txs'[u] = txs[u]
        /\ txs' \in [RpWorkers -> SUBSET Payouts]
    BY <1>1, <1>2, <1>4 DEF RpInv, RpTypeOK
  <1>6. Storing(w)'
    <2>1. Storing(w)
      BY DEF RpInv
    <2> QED
      BY <1>1, <1>2, <1>4, <1>5, <2>1 DEF Storing
  <1>7. /\ copies' \in [Invoices -> 0..MaxCopies]
        /\ rpc' \in [RpWorkers -> {"idle", "export", "posted", "fetch", "daily"}]
        /\ doc' \in [RpWorkers -> SUBSET Invoices]
    BY <1>2 DEF RpInv, RpTypeOK
  <1> QED
    BY <1>1, <1>2, <1>4, <1>5, <1>6, <1>7, GoesOn

(* Nothing that a request does: what is committed goes on.                 *)
LEMMA OutsideKeeps ==
    ASSUME RpInv, UNCHANGED <<payoutOf, copies, rpc, doc, txs, rsnap, rview>>,
           arrived \subseteq arrived', arrived' \subseteq Payouts,
           books' \in Books, NEW b, b = books', Follows(books, b), Honest(b)
    PROVE  RpInv'
  <1>1. RpTypeOK'
    BY DEF RpInv, RpTypeOK
  <1>2. Honest(books)'
    BY DEF Honest, Of
  <1>3. \A u \in RpWorkers : Working(u)' /\ Storing(u)'
    BY OthersGoOn
  <1> QED
    BY <1>1, <1>2, <1>3 DEF RpInv

LEMMA ArriveKeeps ==
    ASSUME RpInv, NEW p \in Payouts, Arrive(p)
    PROVE  RpInv'
  <1>1. PICK b : b = books'
    OBVIOUS
  <1>2. b = books /\ books \in Books /\ Honest(books) /\ arrived \subseteq Payouts
    BY <1>1 DEF Arrive, RpInv, RpTypeOK
  <1> QED
    BY <1>1, <1>2, FollowsSelf, OutsideKeeps DEF Arrive

LEMMA PayByHandKeeps ==
    ASSUME RpInv, NEW i \in Invoices, PayByHand(i)
    PROVE  RpInv'
  <1>1. PICK b : b = books'
    OBVIOUS
  <1>2. books \in Books /\ Honest(books) /\ arrived \subseteq Payouts
        /\ b = [books EXCEPT !.due[i] = @ - 1]
    BY <1>1 DEF PayByHand, RpInv, RpTypeOK
  <1>3. books.due[i] - 1 \in 0..Total /\ books.due[i] \in Int
    BY <1>2, RpAssumption, BooksFields DEF PayByHand
  <1>4. b \in Books /\ b.stored = books.stored /\ b.paid = books.paid
        /\ \A j \in Invoices : b.due[j] = IF j = i THEN books.due[i] - 1 ELSE books.due[j]
    BY <1>2, <1>3 DEF Books
  <1>5. Follows(books, b) /\ Honest(b)
    BY <1>2, <1>3, <1>4, BooksFields DEF Follows, Honest
  <1> QED
    BY <1>1, <1>2, <1>4, <1>5, OutsideKeeps DEF PayByHand

LEMMA RpNextInv == RpInv /\ [RpNext]_rpvars => RpInv'
  <1> SUFFICES ASSUME RpInv, [RpNext]_rpvars PROVE RpInv'
    OBVIOUS
  <1>1. CASE UNCHANGED rpvars
    <2>1. PICK b : b = books'
      OBVIOUS
    <2>2. b = books /\ books \in Books /\ Honest(books) /\ arrived \subseteq Payouts
      BY <1>1, <2>1 DEF rpvars, RpInv, RpTypeOK
    <2> QED
      BY <1>1, <2>1, <2>2, FollowsSelf, OutsideKeeps DEF rpvars
  <1>2. ASSUME NEW w \in RpWorkers, FetchStart(w) PROVE RpInv'
    <2>1. PICK I \in SUBSET {i \in Invoices : books.stored[i]} : BeginRp(w, "fetch", I, {})
      BY <1>2 DEF FetchStart
    <2> QED
      BY <2>1, BeginRpKeeps
  <1>3. ASSUME NEW w \in RpWorkers, Daily(w) PROVE RpInv'
    <2>1. PICK T \in SUBSET arrived : BeginRp(w, "daily", {}, T)
      BY <1>3 DEF Daily
    <2>2. T \in SUBSET Payouts
      BY DEF RpInv, RpTypeOK
    <2> QED
      BY <2>1, <2>2, BeginRpKeeps
  <1>4. ASSUME NEW w \in RpWorkers, NEW i \in Invoices, Export(w, i) PROVE RpInv'
    BY <1>4, BeginRpKeeps DEF Export
  <1>5. CASE RpNext
    BY <1>2, <1>3, <1>4, <1>5, CommitRpKeeps, LoseRpKeeps, PostInvoiceKeeps, FetchInvoiceKeeps,
       DailyTransactionKeeps, ArriveKeeps, PayByHandKeeps DEF RpNext
  <1> QED
    BY <1>1, <1>5

(* A payout is registered once, for the invoice it was paid for.           *)
THEOREM PayoutsPaidOnce == RpSpec => []RpPaidOnce
  <1>1. RpInv => RpPaidOnce
    BY DEF RpInv, RpPaidOnce, Honest, Of
  <1> QED
    BY <1>1, RpInitInv, RpNextInv, PTL DEF RpSpec

(* The refinement: who exports an invoice attempts it.                     *)
Exporting(i) == {w \in RpWorkers : rpc[w] = "export" /\ i \in doc[w]}
Attempts     == [i \in Invoices |-> Attempting(i)]

LEMMA AttemptsCount ==
    /\ \A i \in Invoices : Attempting(i) = Cardinality(Exporting(i))
    /\ \A S \in SUBSET RpWorkers : IsFiniteSet(S) /\ Cardinality(S) \in Nat
    /\ \A S \in SUBSET RpWorkers, w \in RpWorkers :
          /\ w \notin S => Cardinality(S \cup {w}) = Cardinality(S) + 1
          /\ w \in S => Cardinality(S \ {w}) = Cardinality(S) - 1 /\ Cardinality(S) > 0
  <1>1. \A S \in SUBSET RpWorkers : IsFiniteSet(S) /\ Cardinality(S) \in Nat
    BY RpAssumption, FS_Subset, FS_CardinalityType
  <1>2. ASSUME NEW S \in SUBSET RpWorkers, NEW w \in RpWorkers, w \notin S
        PROVE  Cardinality(S \cup {w}) = Cardinality(S) + 1
    BY <1>1, <1>2, FS_AddElement
  <1>3. ASSUME NEW S \in SUBSET RpWorkers, NEW w \in RpWorkers, w \in S
        PROVE  Cardinality(S \ {w}) = Cardinality(S) - 1 /\ Cardinality(S) > 0
    BY <1>1, <1>3, Smaller
  <1> QED
    BY <1>1, <1>2, <1>3 DEF Attempting, Exporting

(* The number of attempts when the export of i begins, or ends.            *)
LEMMA AttemptsChange ==
    ASSUME NEW w \in RpWorkers, NEW i \in Invoices,
           \A j \in Invoices \ {i} : Exporting(j)' = Exporting(j)
    PROVE  /\ w \notin Exporting(i) /\ Exporting(i)' = Exporting(i) \cup {w} =>
                 Attempts' = [Attempts EXCEPT ![i] = @ + 1]
           /\ w \in Exporting(i) /\ Exporting(i)' = Exporting(i) \ {w} =>
                 Attempts' = [Attempts EXCEPT ![i] = @ - 1] /\ Attempts[i] > 0
  <1>1. \A j \in Invoices : Attempts[j] = Cardinality(Exporting(j))
    BY AttemptsCount DEF Attempts
  <1>2. Attempts' = [j \in Invoices |-> Cardinality(Exporting(j))']
    BY DEF Attempts, Attempting, Exporting
  <1>3. Attempts = [j \in Invoices |-> Attempts[j]]
    BY DEF Attempts
  <1>4. Exporting(i) \in SUBSET RpWorkers
    BY DEF Exporting
  <1>5. \A j \in Invoices \ {i} : Cardinality(Exporting(j))' = Attempts[j]
    BY <1>1
  <1>6. ASSUME w \notin Exporting(i), Exporting(i)' = Exporting(i) \cup {w}
        PROVE  Cardinality(Exporting(i))' = Attempts[i] + 1
    BY <1>1, <1>4, <1>6, AttemptsCount
  <1>7. ASSUME w \in Exporting(i), Exporting(i)' = Exporting(i) \ {w}
        PROVE  Cardinality(Exporting(i))' = Attempts[i] - 1 /\ Attempts[i] > 0
    BY <1>1, <1>4, <1>7, AttemptsCount
  <1> QED
    BY <1>2, <1>3, <1>5, <1>6, <1>7

LEMMA AttemptsSame ==
    ASSUME \A j \in Invoices : Exporting(j)' = Exporting(j)
    PROVE  Attempts' = Attempts
  BY DEF Attempts, Attempting, Exporting

LEMMA ExportsInit == RpInit => E!Init
  <1> SUFFICES ASSUME RpInit PROVE E!Init
    OBVIOUS
  <1>1. \A i \in Invoices : Exporting(i) = {}
    BY DEF RpInit, Exporting
  <1>2. \A i \in Invoices : Attempting(i) = 0
    BY <1>1, AttemptsCount, FS_EmptySet
  <1> QED
    BY <1>2 DEF RpInit, NewBooks, E!Init

LEMMA ExportsStep ==
    ASSUME RpInv, [RpNext]_rpvars
    PROVE  [E!Next]_(E!vars)
  <1>0. /\ rpc \in [RpWorkers -> {"idle", "export", "posted", "fetch", "daily"}]
        /\ doc \in [RpWorkers -> SUBSET Invoices] /\ copies \in [Invoices -> 0..MaxCopies]
        /\ books \in Books
    BY DEF RpInv, RpTypeOK
  <1>1. CASE UNCHANGED rpvars
    <2>1. Attempts' = Attempts
      BY <1>1, AttemptsSame DEF rpvars, Exporting
    <2> QED
      BY <1>1, <2>1 DEF rpvars, E!vars, Attempts
  <1>2. ASSUME NEW w \in RpWorkers, FetchStart(w) \/ Daily(w) PROVE UNCHANGED E!vars
    <2>1. PICK k \in {"fetch", "daily"} : \E I, T : BeginRp(w, k, I, T)
      BY <1>2 DEF FetchStart, Daily
    <2>2. PICK I : /\ rpc' = [rpc EXCEPT ![w] = k] /\ doc' = [doc EXCEPT ![w] = I]
                   /\ rpc[w] = "idle" /\ UNCHANGED <<copies, books>>
      BY <2>1 DEF BeginRp
    <2>3. \A j \in Invoices : Exporting(j)' = Exporting(j)
      BY <1>0, <2>2 DEF Exporting
    <2> QED
      BY <2>2, <2>3, AttemptsSame DEF E!vars, Attempts
  <1>3. ASSUME NEW w \in RpWorkers, NEW i \in Invoices, Export(w, i) PROVE E!Begin(i)
    <2>1. /\ rpc' = [rpc EXCEPT ![w] = "export"] /\ doc' = [doc EXCEPT ![w] = {i}]
          /\ rpc[w] = "idle" /\ UNCHANGED <<copies, books>> /\ ~ books.stored[i]
      BY <1>3 DEF Export, ToExport, BeginRp
    <2>2. \A j \in Invoices \ {i} : Exporting(j)' = Exporting(j)
      BY <1>0, <2>1 DEF Exporting
    <2>3. w \notin Exporting(i) /\ Exporting(i)' = Exporting(i) \cup {w}
      BY <1>0, <2>1 DEF Exporting
    <2>4. Attempts' = [Attempts EXCEPT ![i] = @ + 1]
      BY <2>2, <2>3, AttemptsChange
    <2> QED
      BY <2>1, <2>4 DEF E!Begin, Attempts
  <1>4. ASSUME NEW w \in RpWorkers, NEW i \in Invoices, PostInvoice(w, i) PROVE E!Post(i)
    <2>1. /\ rpc' = [rpc EXCEPT ![w] = "posted"] /\ doc' = doc /\ rpc[w] = "export"
          /\ doc[w] = {i} /\ copies' = [copies EXCEPT ![i] = @ + 1] /\ books' = books
      BY <1>4 DEF PostInvoice
    <2>2. \A j \in Invoices \ {i} : Exporting(j)' = Exporting(j)
      BY <1>0, <2>1 DEF Exporting
    <2>3. w \in Exporting(i) /\ Exporting(i)' = Exporting(i) \ {w}
      BY <1>0, <2>1 DEF Exporting
    <2>4. Attempts' = [Attempts EXCEPT ![i] = @ - 1] /\ Attempts[i] > 0
      BY <2>2, <2>3, AttemptsChange
    <2> QED
      BY <2>1, <2>4 DEF E!Post, Attempts
  <1>5. ASSUME NEW w \in RpWorkers, LoseRp(w) PROVE [E!Next]_(E!vars)
    <2>1. /\ rpc' = [rpc EXCEPT ![w] = "idle"] /\ doc' = [doc EXCEPT ![w] = {}]
          /\ UNCHANGED <<copies, books>>
      BY <1>5 DEF LoseRp, EndRp
    <2>2. CASE rpc[w] = "export"
      <3>1. PICK i \in Invoices : doc[w] = {i}
        BY <2>2 DEF RpInv, Storing
      <3>2. \A j \in Invoices \ {i} : Exporting(j)' = Exporting(j)
        BY <1>0, <2>1, <3>1 DEF Exporting
      <3>3. w \in Exporting(i) /\ Exporting(i)' = Exporting(i) \ {w}
        BY <1>0, <2>1, <2>2, <3>1 DEF Exporting
      <3>4. Attempts' = [Attempts EXCEPT ![i] = @ - 1] /\ Attempts[i] > 0
        BY <3>2, <3>3, AttemptsChange
      <3>5. E!GiveUp(i)
        BY <2>1, <3>4 DEF E!GiveUp, Attempts
      <3> QED
        BY <3>5 DEF E!Next
    <2>3. CASE rpc[w] # "export"
      <3>1. \A j \in Invoices : Exporting(j)' = Exporting(j)
        BY <1>0, <2>1, <2>3 DEF Exporting
      <3> QED
        BY <2>1, <3>1, AttemptsSame DEF E!vars, Attempts
    <2> QED
      BY <2>2, <2>3
  <1>6. ASSUME NEW w \in RpWorkers, CommitRp(w) PROVE [E!Next]_(E!vars)
    <2>1. /\ rpc' = [rpc EXCEPT ![w] = "idle"] /\ doc' = [doc EXCEPT ![w] = {}]
          /\ rpc[w] # "export" /\ UNCHANGED copies /\ books' = Over(w)
          /\ Changed(rsnap[w], rview[w]) \cap Changed(rsnap[w], books) = {}
      BY <1>6 DEF CommitRp, EndRp
    <2>2. \A j \in Invoices : Exporting(j)' = Exporting(j)
      BY <1>0, <2>1 DEF Exporting
    <2>3. Attempts' = Attempts
      BY <2>2, AttemptsSame
    <2>4. /\ books.stored \in [Invoices -> BOOLEAN] /\ rsnap[w].stored \in [Invoices -> BOOLEAN]
          /\ rview[w].stored \in [Invoices -> BOOLEAN]
      BY DEF RpInv, RpTypeOK, Books
    <2>5. books'.stored = [i \in Invoices |-> IF i \in Changed(rsnap[w], rview[w])
                                              THEN rview[w].stored[i] ELSE books.stored[i]]
      BY <2>1 DEF Over
    <2>6. \A i \in Changed(rsnap[w], rview[w]) : i \in Invoices /\ books.stored[i] = rsnap[w].stored[i]
      BY <2>1 DEF Changed
    <2>7. CASE \A i \in Invoices : rview[w].stored[i] = rsnap[w].stored[i]
      <3>1. books'.stored = books.stored
        BY <2>4, <2>5, <2>6, <2>7
      <3> QED
        BY <2>1, <2>3, <3>1 DEF E!vars, Attempts
    <2>8. CASE \E i \in Invoices : rview[w].stored[i] # rsnap[w].stored[i]
      <3>1. PICK d \in Invoices : rview[w].stored[d] # rsnap[w].stored[d]
        BY <2>8
      <3>2. rpc[w] = "posted" /\ doc[w] = {d} /\ copies[d] > 0
        BY <3>1 DEF RpInv, Storing
      <3>3. \A i \in Invoices \ {d} : rview[w].stored[i] = rsnap[w].stored[i]
        BY <3>2 DEF RpInv, Storing
      <3>4. d \in Changed(rsnap[w], rview[w])
        BY <3>1 DEF Changed
      <3>5. rsnap[w].stored[d] => rview[w].stored[d]
        BY <3>2 DEF RpInv, Working, Follows
      <3>6. rsnap[w].stored[d] = FALSE /\ rview[w].stored[d] = TRUE
        BY <2>4, <3>1, <3>5
      <3>7. ~ books.stored[d] /\ books'.stored = [books.stored EXCEPT ![d] = TRUE]
        BY <2>4, <2>5, <2>6, <3>3, <3>4, <3>6
      <3>8. E!Store(d)
        BY <2>1, <2>3, <3>2, <3>7 DEF E!Store, Attempts
      <3> QED
        BY <3>8 DEF E!Next
    <2> QED
      BY <2>7, <2>8
  <1>7. ASSUME NEW w \in RpWorkers, NEW i \in Invoices, FetchInvoice(w, i) PROVE UNCHANGED E!vars
    <2>1. /\ rpc' = rpc /\ doc' = [doc EXCEPT ![w] = @ \ {i}] /\ rpc[w] = "fetch"
          /\ UNCHANGED <<copies, books>>
      BY <1>7 DEF FetchInvoice
    <2>2. \A j \in Invoices : Exporting(j)' = Exporting(j)
      BY <1>0, <2>1 DEF Exporting
    <2> QED
      BY <2>1, <2>2, AttemptsSame DEF E!vars, Attempts
  <1>8. ASSUME NEW p \in Payouts, (\E w \in RpWorkers : DailyTransaction(w, p)) \/ Arrive(p)
        PROVE  UNCHANGED E!vars
    <2>1. UNCHANGED <<rpc, doc, copies, books>>
      BY <1>8 DEF DailyTransaction, Arrive
    <2>2. \A j \in Invoices : Exporting(j)' = Exporting(j)
      BY <2>1 DEF Exporting
    <2> QED
      BY <2>1, <2>2, AttemptsSame DEF E!vars, Attempts
  <1>9. ASSUME NEW i \in Invoices, PayByHand(i) PROVE UNCHANGED E!vars
    <2>1. UNCHANGED <<rpc, doc, copies>> /\ books'.stored = books.stored
      BY <1>0, <1>9 DEF PayByHand, Books
    <2>2. \A j \in Invoices : Exporting(j)' = Exporting(j)
      BY <2>1 DEF Exporting
    <2> QED
      BY <2>1, <2>2, AttemptsSame DEF E!vars, Attempts
  <1>10. CASE RpNext
    <2>1. ASSUME NEW w \in RpWorkers, NEW i \in Invoices, Export(w, i) \/ PostInvoice(w, i)
          PROVE  E!Next
      BY <1>3, <1>4, <2>1 DEF E!Next
    <2> QED
      BY <1>2, <1>5, <1>6, <1>7, <1>8, <1>9, <1>10, <2>1 DEF RpNext
  <1> QED
    BY <1>1, <1>10

(* Requests post an invoice until one of them has stored its id.           *)
THEOREM InvoicesExported == RpSpec => RpExports
  <1>1. RpInv /\ [RpNext]_rpvars => [E!Next]_(E!vars)
    BY ExportsStep
  <1> QED
    BY <1>1, RpInitInv, RpNextInv, ExportsInit, PTL DEF RpSpec, RpExports, E!Spec

-----------------------------------------------------------------------------
(* Transfers.                                                              *)

(* What one row of a view v, which may not be committed yet, says of the   *)
(* orders of the warehouse.                                                *)
RowOk(v, i) ==
    LET row == v[i]  order == remote[v[i].threeplId] IN
    /\ row.state = "none" => row = NoTransfer
    /\ row.qtyDone <= row.demand
    /\ row.state \in {"push_3pl", "done"} =>
          row.threeplId \in Remotes /\ order.for = i /\ order.qty <= row.demand
    /\ row.state = "done" =>
          /\ row.qtyDone = row.demand /\ order.status = "shipped" /\ order.qty = row.qtyDone

(* What w has written adds up to what it has read, and no row that it has  *)
(* written is ready again.                                                 *)
WorkOk(w) ==
    /\ \A i \in Transfers : RowOk(tview[w], i)
    /\ Demanded(tview[w]) = Demanded(tsnap[w])
    /\ \A i \in Transfers : tview[w][i] # tsnap[w][i] /\ tsnap[w][i].state # "none" =>
          tview[w][i].state \notin {"ready", "none"}
    /\ tpc[w] = "idle" => tsnap[w] = Nothing /\ tview[w] = Nothing

(* It has not touched what was done, and not moved its own new rows.       *)
SnapOk(w) ==
    \A i \in Transfers :
        /\ tsnap[w][i].state = "done" => tview[w][i] = tsnap[w][i]
        /\ tsnap[w][i].state = "none" => tview[w][i].state \in {"ready", "none"}

(* Somebody has pushed the transfer and not committed it yet.              *)
PushedBy(w, i) == tsnap[w][i].state = "ready" /\ tview[w][i].state \notin {"ready", "none"}

OrdersOk ==
    \A i \in Transfers : OrdersFor(i) # {} =>
        /\ transfer[i].state # "none"
        /\ i \notin lost => /\ \A r, s \in OrdersFor(i) : r = s
                            /\ transfer[i].state # "ready" \/ \E w \in TplWorkers : PushedBy(w, i)

(* What the customer should have been told of.                             *)
MovingAll(i) == SumFunctionOnSet([w \in TplWorkers |-> Moving(w, i)], TplWorkers)
Due(i) == Moved(transfer, i) + MovingAll(i)

ToldOk ==
    \A i \in Transfers :
        /\ shopify[i] > 0 => \E r \in OrdersFor(i) : remote[r].status = "shipped"
        /\ ~ receipt /\ i \notin failed => shopify[i] = Due(i)

TplInv ==
    /\ TplTypeOK
    /\ \A i \in Transfers : RowOk(transfer, i)
    /\ Demanded(transfer) = Ordered
    /\ \A w \in TplWorkers : WorkOk(w) /\ SnapOk(w)
    /\ OrdersOk /\ ToldOk

LEMMA RowFields ==
    ASSUME NEW v \in [Transfers -> TransferRow]
    PROVE  /\ \A i \in Transfers :
                 /\ v[i] \in TransferRow /\ v[i].demand \in Int /\ v[i].qtyDone \in Int
                 /\ v[i].demand \in 0..Ordered /\ v[i].qtyDone \in 0..Ordered
                 /\ v[i].threeplId \in Remotes \cup {0}
           /\ Demanded(v) \in Int
  <1>1. \A i \in Transfers :
                 /\ v[i] \in TransferRow /\ v[i].demand \in Int /\ v[i].qtyDone \in Int
                 /\ v[i].demand \in 0..Ordered /\ v[i].qtyDone \in 0..Ordered
                 /\ v[i].threeplId \in Remotes \cup {0}
    BY TplAssumption DEF TransferRow
  <1> DEFINE f == [i \in Transfers |-> v[i].demand]
  <1>2. \A i \in Transfers : f[i] \in Int
    BY <1>1
  <1> HIDE DEF f
  <1>3. SumFunctionOnSet(f, Transfers) \in Int
    BY <1>2, TplAssumption, SumType
  <1> QED
    BY <1>1, <1>3 DEF Demanded, f

(* Two rows are changed, and what one loses the other gets.                *)
LEMMA DemandMoves ==
    ASSUME NEW v \in [Transfers -> TransferRow], NEW u \in [Transfers -> TransferRow],
           NEW i \in Transfers, NEW j \in Transfers \ {i},
           \A k \in Transfers \ {i, j} : u[k].demand = v[k].demand,
           u[i].demand + u[j].demand = v[i].demand + v[j].demand
    PROVE  Demanded(u) = Demanded(v)
  <1> DEFINE f == [k \in Transfers |-> v[k].demand]
             h == [k \in Transfers |-> u[k].demand]
             g == [k \in Transfers |-> IF k = i THEN u[i].demand ELSE v[k].demand]
  <1>1. /\ \A k \in Transfers : f[k] \in Int /\ g[k] \in Int /\ h[k] \in Int
        /\ \A k \in Transfers \ {i} : g[k] = f[k]
        /\ \A k \in Transfers \ {j} : h[k] = g[k]
        /\ g[i] = h[i] /\ g[j] = f[j] /\ h[i] + h[j] = f[i] + f[j]
    BY RowFields
  <1> HIDE DEF f, g, h
  <1>2. IsFiniteSet(Transfers)
    BY TplAssumption
  <1>3. SumFunctionOnSet(g, Transfers) = SumFunctionOnSet(f, Transfers) + g[i] - f[i]
    BY <1>1, <1>2, SumChange
  <1>4. SumFunctionOnSet(h, Transfers) = SumFunctionOnSet(g, Transfers) + h[j] - g[j]
    BY <1>1, <1>2, SumChange
  <1>5. SumFunctionOnSet(f, Transfers) \in Int
    BY <1>1, <1>2, SumType
  <1>6. /\ f[i] \in Int /\ f[j] \in Int /\ h[i] \in Int /\ h[j] \in Int
        /\ g[i] = h[i] /\ g[j] = f[j] /\ h[i] + h[j] = f[i] + f[j]
    BY <1>1
  <1>7. SumFunctionOnSet(h, Transfers) = SumFunctionOnSet(f, Transfers)
    BY <1>3, <1>4, <1>5, <1>6
  <1> QED
    BY <1>7 DEF Demanded, f, h

LEMMA DemandSame ==
    ASSUME NEW v \in [Transfers -> TransferRow], NEW u \in [Transfers -> TransferRow],
           \A k \in Transfers : u[k].demand = v[k].demand
    PROVE  Demanded(u) = Demanded(v)
  <1>1. [k \in Transfers |-> u[k].demand] = [k \in Transfers |-> v[k].demand]
    OBVIOUS
  <1> QED
    BY <1>1 DEF Demanded

(* From v to u the transfer i changes, and a back order may be new.        *)
NewRow(v, u, k) ==
    v[k].state = "none" /\ u[k].state = "ready" /\ u[k].qtyDone <= u[k].demand
OnlyOne(v, u, i) ==
    /\ u \in [Transfers -> TransferRow] /\ Demanded(u) = Demanded(v)
    /\ \A k \in Transfers \ {i} : u[k] = v[k] \/ NewRow(v, u, k)

LEMMA FreshRow ==
    ASSUME NEW d
    PROVE  [NoTransfer EXCEPT !.state = "ready", !.demand = d]
              = [state |-> "ready", demand |-> d, qtyDone |-> 0, threeplId |-> 0]
  <1> DEFINE ready == [NoTransfer EXCEPT !.state = "ready"]
             row == [ready EXCEPT !.demand = d]
  <1>1. ready = [state |-> "ready", demand |-> 0, qtyDone |-> 0, threeplId |-> 0]
    BY DEF NoTransfer
  <1>3. row = [NoTransfer EXCEPT !.state = "ready", !.demand = d]
    BY DEF NoTransfer
  <1> HIDE DEF ready
  <1>2. row = [state |-> "ready", demand |-> d, qtyDone |-> 0, threeplId |-> 0]
    BY <1>1
  <1> QED
    BY <1>2, <1>3

LEMMA SplitKeeps ==
    ASSUME NEW v \in [Transfers -> TransferRow], NEW i \in Transfers, v[i].state # "none",
           \A k \in Unused : v[k] = NoTransfer, CanSplit(v, i, v[i].qtyDone),
           v[i].qtyDone <= v[i].demand
    PROVE  /\ OnlyOne(v, SplitOff(v, i), i)
           /\ SplitOff(v, i)[i] = [v[i] EXCEPT !.demand = v[i].qtyDone]
  <1>0. v[i] \in TransferRow /\ v[i].demand \in 0..Ordered /\ v[i].qtyDone \in 0..Ordered
        /\ Ordered \in Nat
    BY RowFields, TplAssumption
  <1>1. CASE v[i].qtyDone >= v[i].demand
    <2>1. v[i].qtyDone = v[i].demand
      BY <1>0, <1>1
    <2>2. SplitOff(v, i) = v
      BY <1>1 DEF SplitOff
    <2>3. v[i] = [v[i] EXCEPT !.demand = v[i].qtyDone]
      BY <1>0, <2>1 DEF TransferRow
    <2> QED
      BY <2>2, <2>3 DEF OnlyOne
  <1>2. CASE ~ (v[i].qtyDone >= v[i].demand)
    <2> DEFINE j == NewId
               rest == [NoTransfer EXCEPT !.state = "ready", !.demand = v[i].demand - v[i].qtyDone]
               mine == [v[i] EXCEPT !.demand = v[i].qtyDone]
               u == SplitOff(v, i)
    <2>1. j \in Unused
      <3>1. Unused # {} /\ Unused \in SUBSET Nat
        BY <1>2, TplAssumption DEF CanSplit, Unused
      <3>2. \E m \in Unused : \A k \in Unused : m <= k
        BY <3>1, LeastNatural
      <3> QED
        BY <3>2 DEF NewId, Min
    <2>2. v[j] = NoTransfer /\ j # i /\ j \in Transfers
      BY <2>1 DEF NoTransfer, Unused
    <2>3. rest \in TransferRow /\ rest.state = "ready" /\ rest.demand = v[i].demand - v[i].qtyDone
          /\ rest.qtyDone = 0
      <3>1. rest = [state |-> "ready", demand |-> v[i].demand - v[i].qtyDone,
                    qtyDone |-> 0, threeplId |-> 0]
        BY FreshRow
      <3>2. v[i].demand - v[i].qtyDone \in 0..Ordered /\ 0 \in 0..Ordered
        BY <1>0, <1>2
      <3> HIDE DEF rest
      <3> QED
        BY <3>1, <3>2 DEF TransferRow
    <2>4. mine \in TransferRow /\ mine.demand = v[i].qtyDone
      BY <1>0 DEF TransferRow
    <2> HIDE DEF j
    <2>5. u = [[v EXCEPT ![j] = rest] EXCEPT ![i] = mine]
      BY <1>2, <2>2 DEF SplitOff, j
    <2> HIDE DEF u, rest, mine
    <2>6. u \in [Transfers -> TransferRow]
      BY <2>3, <2>4, <2>5
    <2>7. u[i] = mine /\ u[j] = rest /\ \A k \in Transfers \ {i, j} : u[k] = v[k]
      BY <2>2, <2>5
    <2>8. v[j].demand = 0
      BY <2>2 DEF NoTransfer
    <2>9. u[i].demand + u[j].demand = v[i].demand + v[j].demand
      BY <1>0, <2>3, <2>4, <2>7, <2>8
    <2>10. Demanded(u) = Demanded(v)
      BY <2>2, <2>6, <2>7, <2>9, DemandMoves
    <2>11. NewRow(v, u, j)
      BY <1>0, <1>2, <2>2, <2>3, <2>7 DEF NewRow, NoTransfer
    <2>12. OnlyOne(v, u, i)
      BY <2>6, <2>7, <2>10, <2>11 DEF OnlyOne
    <2> QED
      BY <2>7, <2>12 DEF u, mine
  <1> QED
    BY <1>1, <1>2

(* OnlyOne, one change after the other.                                    *)
LEMMA OnlyOneOn ==
    ASSUME NEW v \in [Transfers -> TransferRow], NEW u \in [Transfers -> TransferRow],
           NEW t \in [Transfers -> TransferRow], NEW i \in Transfers,
           OnlyOne(u, t, i), \A k \in Transfers \ {i} : u[k] = v[k], u[i].demand = v[i].demand
    PROVE  OnlyOne(v, t, i)
  <1>1. Demanded(u) = Demanded(v)
    BY DemandSame
  <1> QED
    BY <1>1 DEF OnlyOne, NewRow

LEMMA RowChanged ==
    ASSUME NEW v \in [Transfers -> TransferRow], NEW u \in [Transfers -> TransferRow],
           NEW t, NEW i \in Transfers, NEW row \in TransferRow,
           OnlyOne(v, u, i), t = [u EXCEPT ![i] = row], row.demand = u[i].demand
    PROVE  OnlyOne(v, t, i) /\ t[i] = row
  <1>1. t \in [Transfers -> TransferRow] /\ t[i] = row /\ \A k \in Transfers \ {i} : t[k] = u[k]
    OBVIOUS
  <1>2. Demanded(t) = Demanded(u)
    BY <1>1, DemandSame
  <1> QED
    BY <1>1, <1>2 DEF OnlyOne, NewRow

LEMMA TplInitInv == TplInit => TplInv
  <1> SUFFICES ASSUME TplInit PROVE TplInv
    OBVIOUS
  <1> DEFINE first == [state |-> "ready", demand |-> Ordered, qtyDone |-> 0, threeplId |-> 0]
  <1>1. transfer = [Nothing EXCEPT ![1] = first] /\ 1 \in Transfers
    <2>1. transfer = [Nothing EXCEPT ![1] =
                         [NoTransfer EXCEPT !.state = "ready", !.demand = Ordered]]
      BY DEF TplInit
    <2>2. [NoTransfer EXCEPT !.state = "ready", !.demand = Ordered] = first
      BY FreshRow
    <2> HIDE DEF first
    <2> QED
      BY <2>1, <2>2, TplAssumption
  <1>2. first \in TransferRow /\ NoTransfer \in TransferRow
    BY TplAssumption DEF TransferRow, NoTransfer
  <1>3. Nothing \in [Transfers -> TransferRow] /\ transfer \in [Transfers -> TransferRow]
    BY <1>1, <1>2 DEF Nothing
  <1>4. NoOrder \in RemoteOrder /\ \A r \in Remotes : remote[r] = NoOrder
    BY TplAssumption DEF TplInit, NoOrder, RemoteOrder
  <1>5. TplTypeOK
    BY <1>3, <1>4 DEF TplInit, TplTypeOK
  <1>6. \A i \in Transfers : OrdersFor(i) = {}
    <2>1. \A r \in Remotes : remote[r].for = 0
      BY <1>4 DEF NoOrder
    <2>2. 0 \notin Transfers
      BY TplAssumption
    <2> QED
      BY <2>1, <2>2 DEF OrdersFor
  <1>7. ASSUME NEW i \in Transfers PROVE RowOk(transfer, i) /\ RowOk(Nothing, i)
    <2>1. Nothing[i] = NoTransfer /\ NoTransfer.state = "none" /\ NoTransfer.qtyDone = NoTransfer.demand
          /\ NoTransfer.demand = 0
      BY DEF Nothing, NoTransfer
    <2>2. transfer[i] = first \/ transfer[i] = NoTransfer
      BY <1>1, <2>1 DEF Nothing
    <2>3. first.state = "ready" /\ first.qtyDone <= first.demand
      BY TplAssumption
    <2> HIDE DEF first
    <2> QED
      BY <2>1, <2>2, <2>3 DEF RowOk
  <1>8. Demanded(transfer) = Ordered
    <2> DEFINE f == [i \in Transfers |-> Nothing[i].demand]
               h == [i \in Transfers |-> transfer[i].demand]
    <2>1. /\ \A i \in Transfers : f[i] = 0 /\ f[i] \in Int /\ h[i] \in Int
          /\ h[1] = Ordered /\ \A i \in Transfers \ {1} : h[i] = f[i]
      BY <1>1, TplAssumption DEF Nothing, NoTransfer
    <2> HIDE DEF f, h
    <2>2. IsFiniteSet(Transfers) /\ 1 \in Transfers /\ Ordered \in Int
      BY TplAssumption
    <2>3. SumFunctionOnSet(f, Transfers) = 0
      BY <2>1, <2>2, SumZero
    <2>4. SumFunctionOnSet(h, Transfers) = SumFunctionOnSet(f, Transfers) + h[1] - f[1]
      BY <2>1, <2>2, SumChange
    <2>5. SumFunctionOnSet(h, Transfers) = Ordered
      BY <2>1, <2>2, <2>3, <2>4
    <2> QED
      BY <2>5 DEF Demanded, h
  <1>9. \A w \in TplWorkers : WorkOk(w) /\ SnapOk(w)
    BY <1>7 DEF WorkOk, SnapOk, TplInit
  <1>10. OrdersOk /\ ToldOk
    <2>1. \A w \in TplWorkers, i \in Transfers : Moving(w, i) = 0
      BY DEF TplInit, Nothing, NoTransfer, Moving, Moved
    <2>2. ASSUME NEW i \in Transfers PROVE Due(i) = 0
      <3> DEFINE f == [w \in TplWorkers |-> Moving(w, i)]
      <3>1. \A w \in TplWorkers : f[w] = 0
        BY <2>1
      <3> HIDE DEF f
      <3>2. SumFunctionOnSet(f, TplWorkers) = 0
        BY <3>1, TplAssumption, SumZero
      <3>3. MovingAll(i) = 0
        BY <3>2 DEF MovingAll, f
      <3>4. Moved(transfer, i) = 0
        BY <1>1 DEF Moved, Nothing, NoTransfer
      <3> QED
        BY <3>3, <3>4 DEF Due
    <2> QED
      BY <1>6, <2>2 DEF OrdersOk, ToldOk, TplInit
  <1> QED
    BY <1>5, <1>7, <1>8, <1>9, <1>10 DEF TplInv

(* What the warehouse has only moves on, and so a row that is right stays  *)
(* right.                                                                  *)
LEMMA RowStays ==
    ASSUME NEW v, NEW i \in Transfers, RowOk(v, i), v[i] \in TransferRow,
           \A r \in Remotes : remote[r].for = i =>
              /\ remote'[r].for = i /\ remote'[r].qty <= remote[r].qty
              /\ remote'[r].qty \in Int /\ remote[r].qty \in Int
              /\ remote[r].status = "shipped" => remote'[r] = remote[r],
           NEW u, u[i] = v[i]
    PROVE  RowOk(u, i)'
  <1>1. v[i].demand \in Int /\ u'[i] = v[i]
    BY TplAssumption DEF TransferRow
  <1> QED
    BY <1>1 DEF RowOk

(* A worker writes one row more, u over v, while it updates the transfer i.*)
UpdatedRow(v, u, i, n, ok) ==
    /\ OnlyOne(v, u, i)
    /\ u[i].state \in {"push_3pl", "cancel", "done"} /\ u[i].qtyDone <= u[i].demand
    /\ u[i].threeplId = v[i].threeplId
    /\ u[i].state = "push_3pl" => u[i].demand = v[i].demand
    /\ u[i].state = "done" =>
          /\ u[i].qtyDone = u[i].demand /\ remote[v[i].threeplId].qty = u[i].qtyDone
          /\ HasShipped(remote[v[i].threeplId])
    /\ ~ receipt /\ ok => n = Moved(u, i)
    /\ n > 0 => HasShipped(remote[v[i].threeplId])

LEMMA UpdateRow ==
    ASSUME TplTypeOK, NEW w \in TplWorkers, NEW i \in Transfers,
           NEW v \in [Transfers -> TransferRow], NEW keep \in BOOLEAN,
           v[i].state = "push_3pl", RowOk(v, i), \A k \in Unused : v[k] = NoTransfer,
           Update(w, i, v, keep)
    PROVE  \E u : \E n \in Nat, ok \in BOOLEAN : Outcome(w, i, u, n, ok) /\ UpdatedRow(v, u, i, n, ok)
  <1> DEFINE order == remote[v[i].threeplId]
             Sure(u) == IF keep THEN u ELSE v
             entered == [v EXCEPT ![i].qtyDone = order.qty]
             split == SplitOff(entered, i)
             valid == Validated(v, i, order.qty)
             cancelled == [v EXCEPT ![i].state = "cancel"]
  <1>1. /\ v[i] \in TransferRow /\ v[i].demand \in 0..Ordered /\ v[i].qtyDone \in 0..Ordered
        /\ order \in RemoteOrder /\ order.qty \in 0..Ordered /\ order.qty <= v[i].demand
        /\ v[i].qtyDone <= v[i].demand
    BY RowFields DEF RowOk, TplTypeOK, RemoteOrder
  <1> HIDE DEF order
  <1>2. /\ UpdatedRow(v, v, i, 0, TRUE) /\ UpdatedRow(v, v, i, 0, FALSE)
        /\ \A n \in Nat : HasShipped(order) => UpdatedRow(v, v, i, n, FALSE)
    BY <1>1 DEF UpdatedRow, OnlyOne, Moved, order
  <1>3. UpdatedRow(v, cancelled, i, 0, TRUE)
    <2> DEFINE row == [v[i] EXCEPT !.state = "cancel"]
    <2>1. row \in TransferRow /\ row.state = "cancel" /\ row.demand = v[i].demand
          /\ row.qtyDone = v[i].qtyDone /\ row.threeplId = v[i].threeplId
      BY <1>1 DEF TransferRow
    <2>2. cancelled = [v EXCEPT ![i] = row]
      OBVIOUS
    <2> HIDE DEF row, cancelled
    <2>3. OnlyOne(v, v, i)
      BY DEF OnlyOne
    <2>4. OnlyOne(v, cancelled, i) /\ cancelled[i] = row
      BY <2>1, <2>2, <2>3, RowChanged
    <2> QED
      BY <1>1, <2>1, <2>4 DEF UpdatedRow, Moved
  <1> DEFINE row == [v[i] EXCEPT !.qtyDone = order.qty]
  <1>4. row \in TransferRow /\ row.state = "push_3pl" /\ row.demand = v[i].demand
        /\ row.qtyDone = order.qty /\ row.threeplId = v[i].threeplId
    BY <1>1 DEF TransferRow
  <1>5. entered = [v EXCEPT ![i] = row]
    OBVIOUS
  <1> HIDE DEF row
  <1>6. OnlyOne(v, entered, i) /\ entered[i] = row /\ entered \in [Transfers -> TransferRow]
    <2> HIDE DEF entered
    <2>1. OnlyOne(v, v, i)
      BY DEF OnlyOne
    <2>2. OnlyOne(v, entered, i) /\ entered[i] = row
      BY <1>4, <1>5, <2>1, RowChanged
    <2> QED
      BY <1>4, <1>5, <2>2
  <1>7. UpdatedRow(v, entered, i, 0, FALSE)
    <2> HIDE DEF entered
    <2> QED
      BY <1>1, <1>4, <1>6 DEF UpdatedRow
  <1>8. UpdatedRow(v, Sure(entered), i, 0, FALSE)
    <2> HIDE DEF entered
    <2> QED
      BY <1>2, <1>7
  <1>9. ASSUME CanSplit(v, i, order.qty), HasShipped(order), NEW n \in Nat, NEW ok \in BOOLEAN,
               ~ receipt /\ ok => n = order.qty
        PROVE  UpdatedRow(v, valid, i, n, ok)
    <2>1. \A k \in Unused : entered[k] = NoTransfer
      <3>1. i \notin Unused
        BY DEF NoTransfer
      <3>2. \A k \in Unused : k \in Transfers
        BY DEF Unused
      <3> QED
        BY <1>5, <3>1, <3>2
    <2> HIDE DEF entered, split, valid
    <2>2. CanSplit(entered, i, entered[i].qtyDone) /\ entered[i].state # "none"
          /\ entered[i].qtyDone <= entered[i].demand
      BY <1>1, <1>4, <1>6, <1>9 DEF CanSplit
    <2>3. OnlyOne(entered, split, i) /\ split[i] = [entered[i] EXCEPT !.demand = entered[i].qtyDone]
      BY <1>6, <2>1, <2>2, SplitKeeps DEF split
    <2>4. split \in [Transfers -> TransferRow]
      BY <2>3 DEF OnlyOne
    <2>5. split[i] \in TransferRow /\ split[i].demand = order.qty /\ split[i].qtyDone = order.qty
          /\ split[i].threeplId = v[i].threeplId
      BY <1>4, <1>6, <2>3, <2>4 DEF TransferRow
    <2>6. OnlyOne(v, split, i)
      <3>1. (\A k \in Transfers \ {i} : entered[k] = v[k]) /\ entered[i].demand = v[i].demand
        BY <1>4, <1>5, <1>6
      <3> QED
        BY <1>6, <2>3, <2>4, <3>1, OnlyOneOn
    <2> DEFINE last == [split[i] EXCEPT !.state = "done"]
    <2>7. last \in TransferRow /\ last.state = "done" /\ last.demand = order.qty
          /\ last.qtyDone = order.qty /\ last.threeplId = v[i].threeplId
      BY <2>5 DEF TransferRow
    <2>8. valid = [split EXCEPT ![i] = last]
      BY DEF valid, split, Validated, entered
    <2> HIDE DEF last
    <2>9. OnlyOne(v, valid, i) /\ valid[i] = last
      BY <2>4, <2>5, <2>6, <2>7, <2>8, RowChanged
    <2> QED
      BY <1>1, <1>9, <2>7, <2>9 DEF UpdatedRow, order, Moved
  <1>10. \/ Outcome(w, i, v, 0, FALSE)
         \/ Outcome(w, i, v, 0, TRUE)
         \/ Outcome(w, i, cancelled, 0, TRUE)
         \/ Outcome(w, i, Sure(entered), 0, FALSE)
         \/ HasShipped(order) /\ CanSplit(v, i, order.qty) /\ receipt /\ Outcome(w, i, valid, 0, TRUE)
         \/ /\ HasShipped(order) /\ CanSplit(v, i, order.qty) /\ ~ receipt
            /\ \E n \in {0, order.qty} :
                  Outcome(w, i, valid, n, n > 0) \/ Outcome(w, i, Sure(valid), n, FALSE)
    BY DEF Update, order
  <1> DEFINE Goal == \E u : \E n \in Nat, ok \in BOOLEAN :
                         Outcome(w, i, u, n, ok) /\ UpdatedRow(v, u, i, n, ok)
             sure == Sure(entered)
  <1> HIDE DEF entered, cancelled, valid, sure
  <1>11. ASSUME NEW u, NEW n \in Nat, NEW ok \in BOOLEAN,
                Outcome(w, i, u, n, ok), UpdatedRow(v, u, i, n, ok)
         PROVE  Goal
    BY <1>11
  <1> HIDE DEF Goal
  <1>12. Outcome(w, i, v, 0, FALSE) \/ Outcome(w, i, v, 0, TRUE) => Goal
    BY <1>2, <1>11
  <1>13. Outcome(w, i, cancelled, 0, TRUE) => Goal
    BY <1>3, <1>11
  <1>14. Outcome(w, i, Sure(entered), 0, FALSE) => Goal
    BY <1>8, <1>11 DEF sure
  <1>15. ASSUME HasShipped(order), CanSplit(v, i, order.qty), receipt,
                Outcome(w, i, valid, 0, TRUE)
         PROVE  Goal
    <2>1. 0 \in Nat /\ TRUE \in BOOLEAN
      OBVIOUS
    <2>2. UpdatedRow(v, valid, i, 0, TRUE)
      BY <1>9, <1>15, <2>1
    <2> QED
      BY <1>11, <1>15, <2>1, <2>2
  <1>16. ASSUME HasShipped(order), CanSplit(v, i, order.qty), NEW n \in {0, order.qty},
                Outcome(w, i, valid, n, n > 0)
         PROVE  Goal
    <2>1. n \in Nat /\ (n > 0) \in BOOLEAN /\ (n > 0 => n = order.qty)
      BY <1>1
    <2>2. UpdatedRow(v, valid, i, n, n > 0)
      BY <1>9, <1>16, <2>1
    <2> QED
      BY <1>11, <1>16, <2>1, <2>2
  <1>17. ASSUME HasShipped(order), CanSplit(v, i, order.qty), NEW n \in {0, order.qty},
                Outcome(w, i, Sure(valid), n, FALSE)
         PROVE  Goal
    <2>1. n \in Nat /\ FALSE \in BOOLEAN
      BY <1>1
    <2>2. UpdatedRow(v, valid, i, n, FALSE)
      BY <1>9, <1>17, <2>1
    <2>3. UpdatedRow(v, v, i, n, FALSE)
      BY <1>2, <1>17, <2>1
    <2>4. UpdatedRow(v, Sure(valid), i, n, FALSE)
      BY <2>2, <2>3
    <2> QED
      BY <1>11, <1>17, <2>1, <2>4
  <1>18. Goal
    BY <1>10, <1>12, <1>13, <1>14, <1>15, <1>16, <1>17
  <1> QED
    BY <1>18 DEF Goal

(* What no step of the warehouse, of Shopify and of Odoo takes back.       *)
MovesOn ==
    /\ UNCHANGED receipt /\ failed \subseteq failed'
    /\ \A i \in Transfers, r \in Remotes : remote[r].for = i =>
          /\ remote'[r].for = i /\ remote'[r].qty <= remote[r].qty
          /\ remote[r].status = "shipped" => remote'[r] = remote[r]

LEMMA RowsStay ==
    ASSUME TplInv, TplTypeOK', MovesOn, NEW i \in Transfers
    PROVE  /\ transfer'[i] = transfer[i] => RowOk(transfer, i)'
           /\ transfer'[i].state = "ready" /\ transfer'[i].qtyDone <= transfer'[i].demand =>
                 RowOk(transfer, i)'
           /\ \A w \in TplWorkers :
                 /\ transfer'[i] = tview[w][i] => RowOk(transfer, i)'
                 /\ tview'[w][i] \in {tview[w][i], transfer[i], NoTransfer} => RowOk(tview[w], i)'
                 /\ tview'[w][i].state = "ready" /\ tview'[w][i].qtyDone <= tview'[w][i].demand =>
                       RowOk(tview[w], i)'
  <1>1. \A r \in Remotes : remote[r].for = i =>
              /\ remote'[r].for = i /\ remote'[r].qty <= remote[r].qty
              /\ remote'[r].qty \in Int /\ remote[r].qty \in Int
              /\ remote[r].status = "shipped" => remote'[r] = remote[r]
    BY DEF MovesOn, TplInv, TplTypeOK, RemoteOrder
  <1>3. ASSUME NEW v, RowOk(v, i), v[i] \in TransferRow, NEW u, u[i] = v[i] PROVE RowOk(u, i)'
    BY <1>1, <1>3, RowStays
  <1>4. ASSUME NEW u, u[i].state = "ready", u[i].qtyDone <= u[i].demand PROVE RowOk(u, i)'
    BY <1>4 DEF RowOk
  <1>5. ASSUME NEW u, u[i] = NoTransfer PROVE RowOk(u, i)'
    <2>1. /\ NoTransfer.state = "none" /\ NoTransfer.qtyDone = 0 /\ NoTransfer.demand = 0
      BY DEF NoTransfer
    <2>2. u[i].state = "none" /\ u[i].qtyDone <= u[i].demand
      BY <1>5, <2>1
    <2> QED
      BY <1>5, <2>2 DEF RowOk
  <1>6. RowOk(transfer, i) /\ transfer[i] \in TransferRow
        /\ \A w \in TplWorkers : RowOk(tview[w], i) /\ tview[w][i] \in TransferRow
    BY DEF TplInv, TplTypeOK, WorkOk
  <1>7. PICK o : o = transfer
    OBVIOUS
  <1>8. PICK t : t = transfer'
    OBVIOUS
  <1>9. RowOk(t, i)' => RowOk(transfer, i)'
    BY <1>8 DEF RowOk
  <1>10. RowOk(o, i) /\ o[i] \in TransferRow
    BY <1>6, <1>7 DEF RowOk
  <1>11. transfer'[i] = transfer[i] => RowOk(transfer, i)'
    BY <1>3, <1>7, <1>8, <1>9, <1>10
  <1>12. transfer'[i].state = "ready" /\ transfer'[i].qtyDone <= transfer'[i].demand =>
            RowOk(transfer, i)'
    BY <1>4, <1>8, <1>9
  <1>13. ASSUME NEW w \in TplWorkers
         PROVE  /\ transfer'[i] = tview[w][i] => RowOk(transfer, i)'
                /\ tview'[w][i] \in {tview[w][i], transfer[i], NoTransfer} => RowOk(tview[w], i)'
                /\ tview'[w][i].state = "ready" /\ tview'[w][i].qtyDone <= tview'[w][i].demand =>
                      RowOk(tview[w], i)'
    <2>1. PICK v : v = tview[w]
      OBVIOUS
    <2>2. PICK u : u = tview'[w]
      OBVIOUS
    <2>3. RowOk(u, i)' => RowOk(tview[w], i)'
      BY <2>2 DEF RowOk
    <2>4. RowOk(v, i) /\ v[i] \in TransferRow
      BY <1>6, <2>1 DEF RowOk
    <2>5. transfer'[i] = tview[w][i] => RowOk(transfer, i)'
      BY <1>3, <1>8, <1>9, <2>1, <2>4
    <2>6. tview'[w][i] \in {tview[w][i], transfer[i], NoTransfer} => RowOk(tview[w], i)'
      BY <1>3, <1>5, <1>7, <1>10, <2>1, <2>2, <2>3, <2>4
    <2>7. tview'[w][i].state = "ready" /\ tview'[w][i].qtyDone <= tview'[w][i].demand =>
             RowOk(tview[w], i)'
      BY <1>4, <2>2, <2>3
    <2> QED
      BY <2>5, <2>6, <2>7
  <1> QED
    BY <1>11, <1>12, <1>13

(* A step of worker w, or of nobody, leaves the others as they are.        *)
Alike(u) == tpc'[u] = tpc[u] /\ tsnap'[u] = tsnap[u] /\ tview'[u] = tview[u]

LEMMA WorkStays ==
    ASSUME TplInv, TplTypeOK', MovesOn, NEW u \in TplWorkers, Alike(u)
    PROVE  WorkOk(u)' /\ SnapOk(u)'
  <1>1. \A i \in Transfers : RowOk(tview[u], i)'
    BY RowsStay DEF Alike
  <1>2. WorkOk(u) /\ SnapOk(u)
    BY DEF TplInv
  <1>3. SnapOk(u)'
    BY <1>2 DEF SnapOk, Alike
  <1> QED
    BY <1>1, <1>2, <1>3 DEF WorkOk, Alike, Demanded

(* The steps that neither place an order nor touch a committed row.        *)
LEMMA OrdersStay ==
    ASSUME TplInv, UNCHANGED <<transfer, remote>>, lost \subseteq lost',
           \A w \in TplWorkers, i \in Transfers : PushedBy(w, i) => PushedBy(w, i)' \/ i \in lost'
    PROVE  OrdersOk'
  <1>1. OrdersOk
    BY DEF TplInv
  <1>2. \A i \in Transfers : OrdersFor(i)' = OrdersFor(i)
    BY DEF OrdersFor
  <1> QED
    BY <1>1, <1>2 DEF OrdersOk

(* What is due, by what changes.                                           *)
LEMMA MovingTypes ==
    ASSUME TplTypeOK, NEW i \in Transfers
    PROVE  /\ \A w \in TplWorkers : Moving(w, i) \in Nat
           /\ MovingAll(i) \in Int /\ Moved(transfer, i) \in Nat
  <1>1. \A row \in TransferRow : row.qtyDone \in Nat
    BY TplAssumption DEF TransferRow
  <1>2. \A w \in TplWorkers : Moving(w, i) \in Nat
    BY <1>1 DEF Moving, Moved, TplTypeOK
  <1> DEFINE f == [w \in TplWorkers |-> Moving(w, i)]
  <1>3. \A w \in TplWorkers : f[w] \in Int
    BY <1>2
  <1> HIDE DEF f
  <1>4. SumFunctionOnSet(f, TplWorkers) \in Int
    BY <1>3, TplAssumption, SumType
  <1> QED
    BY <1>1, <1>2, <1>4 DEF MovingAll, f, Moved, TplTypeOK

LEMMA DueStep ==
    ASSUME TplTypeOK, TplTypeOK', NEW w \in TplWorkers, \A x \in TplWorkers \ {w} : Alike(x),
           NEW i \in Transfers
    PROVE  /\ Due(i) \in Int
           /\ Due(i)' = Due(i) + Moved(transfer, i)' - Moved(transfer, i)
                                + Moving(w, i)' - Moving(w, i)
  <1> DEFINE f == [x \in TplWorkers |-> Moving(x, i)]
             g == [x \in TplWorkers |-> Moving(x, i)']
  <1>1. \A x \in TplWorkers : f[x] \in Int
    BY MovingTypes
  <1>2. \A x \in TplWorkers : g[x] \in Int
    <2>1. \A row \in TransferRow : row.qtyDone \in Nat
      BY TplAssumption DEF TransferRow
    <2> QED
      BY <2>1 DEF Moving, Moved, TplTypeOK
  <1>3. \A x \in TplWorkers \ {w} : g[x] = f[x]
    BY DEF Moving, Moved, Alike
  <1>4. f[w] = Moving(w, i) /\ g[w] = Moving(w, i)'
    OBVIOUS
  <1> HIDE DEF f, g
  <1>5. SumFunctionOnSet(g, TplWorkers) = SumFunctionOnSet(f, TplWorkers) + g[w] - f[w]
    BY <1>1, <1>2, <1>3, TplAssumption, SumChange
  <1>6. MovingAll(i) = SumFunctionOnSet(f, TplWorkers) /\ MovingAll(i)' = SumFunctionOnSet(g, TplWorkers)
    BY DEF MovingAll, f, g
  <1>7. MovingAll(i) \in Int /\ Moved(transfer, i) \in Nat
    BY MovingTypes
  <1>8. Moved(transfer, i)' \in Nat
    <2>1. \A row \in TransferRow : row.qtyDone \in Nat
      BY TplAssumption DEF TransferRow
    <2> QED
      BY <2>1 DEF Moved, TplTypeOK
  <1>9. g[w] \in Int /\ f[w] \in Int
    BY <1>1, <1>2
  <1> QED
    BY <1>4, <1>5, <1>6, <1>7, <1>8, <1>9 DEF Due

LEMMA DueSame ==
    ASSUME UNCHANGED <<tsnap, tview>>, NEW i \in Transfers,
           Moved(transfer, i)' = Moved(transfer, i)
    PROVE  Due(i)' = Due(i)
  <1>1. [w \in TplWorkers |-> Moving(w, i)]' = [w \in TplWorkers |-> Moving(w, i)]
    BY DEF Moving, Moved
  <1>2. MovingAll(i)' = MovingAll(i)
    BY <1>1 DEF MovingAll
  <1> QED
    BY <1>2 DEF Due

LEMMA ToldStays ==
    ASSUME TplInv, MovesOn, UNCHANGED shopify,
           \A i \in Transfers \ failed' : Due(i)' = Due(i)
    PROVE  ToldOk'
  <1>1. ToldOk
    BY DEF TplInv
  <1>2. ASSUME NEW i \in Transfers, NEW r \in OrdersFor(i), remote[r].status = "shipped"
        PROVE  r \in OrdersFor(i)' /\ remote'[r].status = "shipped"
    BY <1>2 DEF MovesOn, OrdersFor
  <1>3. ASSUME NEW i \in Transfers, shopify'[i] > 0
        PROVE  \E r \in OrdersFor(i)' : remote'[r].status = "shipped"
    BY <1>1, <1>2, <1>3 DEF ToldOk
  <1>4. ASSUME NEW i \in Transfers, ~ receipt', i \notin failed'
        PROVE  shopify'[i] = Due(i)'
    BY <1>1, <1>4 DEF ToldOk, MovesOn
  <1> QED
    BY <1>3, <1>4 DEF ToldOk

(* The steps of nobody that move no goods.                                 *)
LEMMA ToldAlone ==
    ASSUME TplInv, MovesOn, UNCHANGED <<shopify, tsnap, tview>>,
           \A i \in Transfers : Moved(transfer, i)' = Moved(transfer, i)
    PROVE  ToldOk'
  <1>1. \A i \in Transfers : Due(i)' = Due(i)
    BY DueSame
  <1> QED
    BY <1>1, ToldStays

(* A worker that begins, or goes on, and has not moved more than before.   *)
LEMMA ToldByOne ==
    ASSUME TplInv, TplTypeOK', MovesOn, UNCHANGED <<shopify>>, NEW w \in TplWorkers,
           \A x \in TplWorkers \ {w} : Alike(x),
           \A i \in Transfers \ failed' :
              Moved(transfer, i)' + Moving(w, i)' = Moved(transfer, i) + Moving(w, i)
    PROVE  ToldOk'
  <1>0. TplTypeOK
    BY DEF TplInv
  <1>1. ASSUME NEW i \in Transfers \ failed' PROVE Due(i)' = Due(i)
    <2>1. /\ Due(i) \in Int
          /\ Due(i)' = Due(i) + Moved(transfer, i)' - Moved(transfer, i)
                               + Moving(w, i)' - Moving(w, i)
      BY <1>0, DueStep
    <2>2. Moved(transfer, i) \in Nat /\ Moving(w, i) \in Nat
      BY <1>0, MovingTypes
    <2>3. Moved(transfer, i)' \in Nat /\ Moving(w, i)' \in Nat
      <3>1. \A row \in TransferRow : row.qtyDone \in Nat
        BY TplAssumption DEF TransferRow
      <3> QED
        BY <3>1 DEF Moved, Moving, TplTypeOK
    <2> QED
      BY <1>1, <2>1, <2>2, <2>3
  <1> QED
    BY <1>1, ToldStays

(* An idle worker has nothing in hand.                                     *)
LEMMA IdleMoves ==
    ASSUME NEW w \in TplWorkers, WorkOk(w), NEW i \in Transfers, tpc[w] = "idle"
    PROVE  Moving(w, i) = 0
  BY DEF WorkOk, Nothing, NoTransfer, Moving, Moved

LEMMA CronKeeps ==
    ASSUME TplInv, NEW w \in TplWorkers, Cron(w)
    PROVE  TplInv'
  <1>1. /\ tpc' = [tpc EXCEPT ![w] = "cron"] /\ tsnap' = [tsnap EXCEPT ![w] = transfer]
        /\ tview' = [tview EXCEPT ![w] = transfer] /\ tpc[w] = "idle"
        /\ left' = [left EXCEPT ![w] = {i \in Transfers : transfer[i].state = "push_3pl"}]
        /\ UNCHANGED <<receipt, transfer, remote, shopify, lost, failed>>
    BY DEF Cron, Begin3pl
  <1>2. TplTypeOK /\ WorkOk(w)
    BY DEF TplInv
  <1>3. TplTypeOK'
    BY <1>1, <1>2 DEF TplTypeOK
  <1>4. MovesOn
    <2>1. \A i \in Transfers, r \in Remotes : remote[r].qty \in Int
      BY <1>2 DEF TplTypeOK, RemoteOrder
    <2> QED
      BY <1>1, <2>1 DEF MovesOn
  <1>5. \A i \in Transfers : RowOk(transfer, i)'
    BY <1>1, <1>3, <1>4, RowsStay
  <1>6. tsnap'[w] = transfer /\ tview'[w] = transfer /\ tpc'[w] = "cron"
    BY <1>1, <1>2 DEF TplTypeOK
  <1>7. WorkOk(w)' /\ SnapOk(w)'
    <2>1. \A i \in Transfers : RowOk(tview[w], i)'
      BY <1>3, <1>4, <1>6, RowsStay
    <2> QED
      BY <1>6, <2>1 DEF WorkOk, SnapOk, Demanded
  <1>8. \A u \in TplWorkers : WorkOk(u)' /\ SnapOk(u)'
    BY <1>1, <1>2, <1>3, <1>4, <1>7, WorkStays DEF TplTypeOK, Alike
  <1>9. OrdersOk'
    <2>1. \A u \in TplWorkers, i \in Transfers : PushedBy(u, i) => PushedBy(u, i)'
      <3>1. \A i \in Transfers : ~ PushedBy(w, i)
        BY <1>1, <1>2 DEF PushedBy, WorkOk, Nothing, NoTransfer
      <3> QED
        BY <1>1, <1>2, <3>1 DEF PushedBy, TplTypeOK
    <2> QED
      BY <1>1, <2>1, OrdersStay
  <1>10. ToldOk'
    <2>1. \A u \in TplWorkers \ {w} : Alike(u)
      BY <1>1, <1>2 DEF TplTypeOK, Alike
    <2>2. ASSUME NEW i \in Transfers
          PROVE  Moved(transfer, i)' + Moving(w, i)' = Moved(transfer, i) + Moving(w, i)
      <3>1. Moving(w, i) = 0
        BY <1>1, <1>2, IdleMoves
      <3>2. Moving(w, i)' = 0 /\ Moved(transfer, i)' = Moved(transfer, i)
        BY <1>1, <1>6 DEF Moving, Moved
      <3> QED
        BY <3>1, <3>2
    <2> QED
      BY <1>1, <1>3, <1>4, <2>1, <2>2, ToldByOne
  <1> QED
    BY <1>1, <1>3, <1>4, <1>5, <1>8, <1>9, <1>10 DEF TplInv, Demanded

LEMMA NobodyMoves ==
    ASSUME TplTypeOK, UNCHANGED <<receipt, remote, shopify>>, failed \subseteq failed'
    PROVE  MovesOn
  <1>1. \A r \in Remotes : remote[r].qty \in Int
    BY DEF TplTypeOK, RemoteOrder
  <1> QED
    BY <1>1 DEF MovesOn

LEMMA Lose3plKeeps ==
    ASSUME TplInv, NEW w \in TplWorkers, Lose3pl(w)
    PROVE  TplInv'
  <1> DEFINE mine == {i \in Written(w) : tsnap[w][i].state # "none"}
  <1>1. /\ tpc' = [tpc EXCEPT ![w] = "idle"] /\ tsnap' = [tsnap EXCEPT ![w] = Nothing]
        /\ tview' = [tview EXCEPT ![w] = Nothing] /\ left' = [left EXCEPT ![w] = {}]
        /\ lost' = lost \cup mine /\ failed' = failed \cup mine
        /\ UNCHANGED <<receipt, transfer, remote, shopify>>
    BY DEF Lose3pl, EndWork
  <1>2. TplTypeOK
    BY DEF TplInv
  <1>3. Nothing \in [Transfers -> TransferRow] /\ mine \subseteq Transfers
    BY TplAssumption DEF Nothing, NoTransfer, TransferRow, Written
  <1>4. TplTypeOK'
    <2> HIDE DEF mine
    <2> QED
      BY <1>1, <1>2, <1>3 DEF TplTypeOK
  <1>5. MovesOn
    BY <1>1, <1>2, NobodyMoves
  <1>6. \A i \in Transfers : RowOk(transfer, i)'
    BY <1>1, <1>4, <1>5, RowsStay
  <1>7. tsnap'[w] = Nothing /\ tview'[w] = Nothing
    BY <1>1, <1>2 DEF TplTypeOK
  <1>8. WorkOk(w)' /\ SnapOk(w)'
    <2>1. \A i \in Transfers : tview'[w][i] = NoTransfer
      BY <1>7 DEF Nothing
    <2>2. \A i \in Transfers : RowOk(tview[w], i)'
      BY <1>4, <1>5, <2>1, RowsStay
    <2> QED
      BY <1>7, <2>2 DEF WorkOk, SnapOk, Demanded
  <1>9. \A u \in TplWorkers : WorkOk(u)' /\ SnapOk(u)'
    BY <1>1, <1>2, <1>4, <1>5, <1>8, WorkStays DEF TplTypeOK, Alike
  <1>10. OrdersOk'
    <2>1. \A u \in TplWorkers, i \in Transfers : PushedBy(u, i) => PushedBy(u, i)' \/ i \in lost'
      <3>1. ASSUME NEW i \in Transfers, PushedBy(w, i) PROVE i \in mine
        BY <3>1 DEF PushedBy, Written
      <3> HIDE DEF mine
      <3>2. \A u \in TplWorkers \ {w} : tsnap'[u] = tsnap[u] /\ tview'[u] = tview[u]
        BY <1>1, <1>2 DEF TplTypeOK
      <3> QED
        BY <1>1, <3>1, <3>2 DEF PushedBy
    <2> QED
      BY <1>1, <2>1, OrdersStay
  <1>11. ToldOk'
    <2>1. \A u \in TplWorkers \ {w} : Alike(u)
      BY <1>1, <1>2 DEF TplTypeOK, Alike
    <2>2. ASSUME NEW i \in Transfers \ failed'
          PROVE  Moved(transfer, i)' + Moving(w, i)' = Moved(transfer, i) + Moving(w, i)
      <3>1. Moving(w, i)' = 0 /\ Moved(transfer, i)' = Moved(transfer, i)
        BY <1>1, <1>7 DEF Moving, Moved, Nothing, NoTransfer
      <3>2. tview[w][i] = tsnap[w][i] \/ tsnap[w][i].state = "none"
        BY <1>1, <2>2 DEF Written
      <3>3. SnapOk(w)
        BY DEF TplInv
      <3>4. Moving(w, i) = 0
        BY <3>2, <3>3 DEF Moving, Moved, SnapOk
      <3> QED
        BY <3>1, <3>4
    <2> QED
      BY <1>1, <1>4, <1>5, <2>1, <2>2, ToldByOne
  <1> QED
    BY <1>1, <1>4, <1>5, <1>6, <1>9, <1>10, <1>11 DEF TplInv, Demanded

LEMMA Commit3plKeeps ==
    ASSUME TplInv, NEW w \in TplWorkers, Commit3pl(w)
    PROVE  TplInv'
  <1>1. /\ tpc' = [tpc EXCEPT ![w] = "idle"] /\ tsnap' = [tsnap EXCEPT ![w] = Nothing]
        /\ tview' = [tview EXCEPT ![w] = Nothing] /\ left' = [left EXCEPT ![w] = {}]
        /\ \A i \in Written(w) : transfer[i] = tsnap[w][i]
        /\ transfer' = [i \in Transfers |-> IF i \in Written(w) THEN tview[w][i] ELSE transfer[i]]
        /\ UNCHANGED <<receipt, remote, shopify, lost, failed>>
    BY DEF Commit3pl, EndWork
  <1>2. TplTypeOK /\ WorkOk(w)
    BY DEF TplInv
  <1>3. Nothing \in [Transfers -> TransferRow]
    BY TplAssumption DEF Nothing, NoTransfer, TransferRow
  <1>4. TplTypeOK'
    <2>1. transfer' \in [Transfers -> TransferRow]
      BY <1>1, <1>2 DEF TplTypeOK
    <2> QED
      BY <1>1, <1>2, <1>3, <2>1 DEF TplTypeOK
  <1>5. MovesOn
    BY <1>1, <1>2, NobodyMoves
  <1>6. \A i \in Transfers : RowOk(transfer, i)'
    <2>1. \A i \in Transfers : transfer'[i] \in {tview[w][i], transfer[i]}
      BY <1>1
    <2> QED
      BY <1>4, <1>5, <2>1, RowsStay
  <1>7. tsnap'[w] = Nothing /\ tview'[w] = Nothing
    BY <1>1, <1>2 DEF TplTypeOK
  <1>8. WorkOk(w)' /\ SnapOk(w)'
    <2>1. \A i \in Transfers : tview'[w][i] = NoTransfer
      BY <1>7 DEF Nothing
    <2>2. \A i \in Transfers : RowOk(tview[w], i)'
      BY <1>4, <1>5, <2>1, RowsStay
    <2> QED
      BY <1>7, <2>2 DEF WorkOk, SnapOk, Demanded
  <1>9. \A u \in TplWorkers : WorkOk(u)' /\ SnapOk(u)'
    BY <1>1, <1>2, <1>4, <1>5, <1>8, WorkStays DEF TplTypeOK, Alike
  <1>10. Demanded(transfer)' = Ordered
    <2> DEFINE o == [i \in Transfers |-> transfer[i].demand]
               n == [i \in Transfers |-> transfer'[i].demand]
               s == [i \in Transfers |-> tsnap[w][i].demand]
               v == [i \in Transfers |-> tview[w][i].demand]
    <2>1. \A i \in Transfers : /\ o[i] \in Int /\ n[i] \in Int /\ s[i] \in Int /\ v[i] \in Int
                               /\ n[i] + s[i] = o[i] + v[i]
      <3> SUFFICES ASSUME NEW i \in Transfers
                   PROVE  /\ o[i] \in Int /\ n[i] \in Int /\ s[i] \in Int /\ v[i] \in Int
                          /\ n[i] + s[i] = o[i] + v[i]
        OBVIOUS
      <3>1. \A r \in TransferRow : r.demand \in Int
        BY TplAssumption DEF TransferRow
      <3>2. transfer[i] \in TransferRow /\ transfer'[i] \in TransferRow
            /\ tsnap[w][i] \in TransferRow /\ tview[w][i] \in TransferRow
        BY <1>2, <1>4 DEF TplTypeOK
      <3>3. \/ transfer'[i] = tview[w][i] /\ transfer[i] = tsnap[w][i]
            \/ transfer'[i] = transfer[i] /\ tview[w][i] = tsnap[w][i]
        BY <1>1 DEF Written
      <3> QED
        BY <3>1, <3>2, <3>3
    <2>2. SumFunctionOnSet(s, Transfers) = SumFunctionOnSet(v, Transfers)
      BY <1>2 DEF WorkOk, Demanded
    <2>3. SumFunctionOnSet(o, Transfers) = Ordered
      BY DEF TplInv, Demanded
    <2> HIDE DEF o, n, s, v
    <2>4. IsFiniteSet(Transfers)
      BY TplAssumption
    <2>5. SumFunctionOnSet(n, Transfers)
             = SumFunctionOnSet(o, Transfers) + SumFunctionOnSet(v, Transfers)
                  - SumFunctionOnSet(s, Transfers)
      <3>1. \A i \in Transfers : /\ o[i] \in Int /\ n[i] \in Int /\ s[i] \in Int /\ v[i] \in Int
                                 /\ n[i] = o[i] + v[i] - s[i]
        BY <2>1
      <3> QED
        BY <3>1, <2>4, SumPlus
    <2>8. SumFunctionOnSet(s, Transfers) \in Int
      BY <2>1, <2>4, SumType
    <2>9. SumFunctionOnSet(n, Transfers) = Ordered
      BY <2>2, <2>3, <2>5, <2>8, TplAssumption
    <2> QED
      BY <2>9 DEF Demanded, n
  <1>11. OrdersOk'
    <2> SUFFICES ASSUME NEW i \in Transfers, OrdersFor(i)' # {}
                 PROVE  /\ transfer'[i].state # "none"
                        /\ i \notin lost' =>
                              /\ \A r, s \in OrdersFor(i)' : r = s
                              /\ transfer'[i].state # "ready" \/ \E u \in TplWorkers : PushedBy(u, i)'
      BY DEF OrdersOk
    <2>1. OrdersFor(i)' = OrdersFor(i) /\ lost' = lost
      BY <1>1 DEF OrdersFor
    <2>2. /\ transfer[i].state # "none"
          /\ i \notin lost => /\ \A r, s \in OrdersFor(i) : r = s
                              /\ transfer[i].state # "ready" \/ \E u \in TplWorkers : PushedBy(u, i)
      BY <2>1 DEF TplInv, OrdersOk
    <2>3. CASE i \in Written(w)
      <3>1. transfer'[i] = tview[w][i] /\ tsnap[w][i] = transfer[i] /\ tview[w][i] # tsnap[w][i]
        BY <1>1, <2>3 DEF Written
      <3>2. tview[w][i].state \notin {"ready", "none"}
        BY <1>2, <2>2, <3>1 DEF WorkOk
      <3> QED
        BY <2>1, <2>2, <3>1, <3>2
    <2>4. CASE i \notin Written(w)
      <3>1. transfer'[i] = transfer[i]
        BY <1>1, <2>4
      <3>2. ~ PushedBy(w, i)
        BY <2>4 DEF Written, PushedBy
      <3>3. ASSUME NEW u \in TplWorkers, PushedBy(u, i) PROVE PushedBy(u, i)'
        BY <1>1, <1>2, <3>2, <3>3 DEF PushedBy, TplTypeOK
      <3> QED
        BY <2>1, <2>2, <3>1, <3>3
    <2> QED
      BY <2>3, <2>4
  <1>12. ToldOk'
    <2>1. \A u \in TplWorkers \ {w} : Alike(u)
      BY <1>1, <1>2 DEF TplTypeOK, Alike
    <2>2. ASSUME NEW i \in Transfers
          PROVE  Moved(transfer, i)' + Moving(w, i)' = Moved(transfer, i) + Moving(w, i)
      <3>1. Moving(w, i)' = 0
        BY <1>7 DEF Moving, Moved, Nothing, NoTransfer
      <3>2. SnapOk(w)
        BY DEF TplInv
      <3>3. Moved(transfer, i) \in Nat /\ Moving(w, i) \in Nat
        BY <1>2, MovingTypes
      <3>4. CASE i \in Written(w)
        <4>1. transfer'[i] = tview[w][i] /\ tsnap[w][i] = transfer[i] /\ tview[w][i] # tsnap[w][i]
          BY <1>1, <3>4 DEF Written
        <4>2. tsnap[w][i].state # "done"
          BY <3>2, <4>1 DEF SnapOk
        <4>3. Moved(transfer, i) = 0 /\ Moved(transfer, i)' = Moving(w, i)
          BY <4>1, <4>2 DEF Moving, Moved
        <4> QED
          BY <3>1, <3>3, <4>3
      <3>5. CASE i \notin Written(w)
        <4>1. transfer'[i] = transfer[i] /\ tview[w][i] = tsnap[w][i]
          BY <1>1, <3>5 DEF Written
        <4>2. Moving(w, i) = 0 /\ Moved(transfer, i)' = Moved(transfer, i)
          BY <4>1 DEF Moving, Moved
        <4> QED
          BY <3>1, <4>2
      <3> QED
        BY <3>4, <3>5
    <2> QED
      BY <1>1, <1>4, <1>5, <2>1, <2>2, ToldByOne
  <1> QED
    BY <1>1, <1>4, <1>5, <1>6, <1>9, <1>10, <1>11, <1>12 DEF TplInv

LEMMA UnusedNothing ==
    ASSUME TplInv
    PROVE  \A k \in Unused : /\ k \in Transfers /\ transfer[k] = NoTransfer
                             /\ \A w \in TplWorkers : tview[w][k] = NoTransfer
  <1> SUFFICES ASSUME NEW k \in Unused
               PROVE  /\ k \in Transfers /\ transfer[k] = NoTransfer
                      /\ \A w \in TplWorkers : tview[w][k] = NoTransfer
    OBVIOUS
  <1>1. k \in Transfers /\ transfer[k].state = "none"
    BY DEF Unused
  <1>2. \A w \in TplWorkers : tview[w] \in Range(tview)
    BY DEF TplInv, TplTypeOK, Range
  <1>3. \A w \in TplWorkers : tview[w][k].state = "none"
    BY <1>2 DEF Unused
  <1> QED
    BY <1>1, <1>3 DEF TplInv, WorkOk, RowOk

(* What a worker with the rows v has moved since its snapshot t.           *)
MovedSince(t, v, i) == IF t[i].state = "done" THEN 0 ELSE Moved(v, i)
StepsOn(w, i, v, u) ==
    /\ tview'[w] = u /\ tsnap'[w][i].state # "done"
    /\ \A x \in TplWorkers \ {w} : Alike(x)
    /\ \A j \in Transfers : Moving(w, j) = MovedSince(tsnap'[w], v, j)

(* An update that ended as UpdatedRow tells moves on, its row is right, and*)
(* what the customer is told is right.                                     *)
LEMMA UpdateMoves ==
    ASSUME TplInv, UNCHANGED <<receipt, transfer, remote, lost>>, TplTypeOK',
           NEW w \in TplWorkers, NEW i \in Transfers, NEW v \in [Transfers -> TransferRow],
           v[i].state = "push_3pl", RowOk(v, i),
           NEW u, NEW n \in Nat, NEW ok \in BOOLEAN,
           Outcome(w, i, u, n, ok), UpdatedRow(v, u, i, n, ok),
           StepsOn(w, i, v, u)
    PROVE  MovesOn /\ RowOk(u, i)' /\ ToldOk'
  <1>1. /\ shopify' = [shopify EXCEPT ![i] = @ + n] /\ failed \subseteq failed'
        /\ failed' = IF ok THEN failed ELSE failed \cup {i}
    BY DEF Outcome
  <1>2. TplTypeOK /\ ToldOk
    BY DEF TplInv
  <1>3. shopify'[i] = shopify[i] + n /\ shopify[i] \in Nat
        /\ \A j \in Transfers \ {i} : shopify'[j] = shopify[j]
    BY <1>1, <1>2 DEF TplTypeOK
  <1>4. v[i].threeplId \in Remotes /\ remote[v[i].threeplId].for = i
        /\ remote[v[i].threeplId].qty <= v[i].demand
    BY DEF RowOk
  <1>5. n > 0 => remote[v[i].threeplId].status = "shipped"
    BY DEF UpdatedRow, HasShipped
  <1>7. MovesOn
    <2>1. \A r \in Remotes : remote[r].qty \in Int
      BY <1>2 DEF TplTypeOK, RemoteOrder
    <2> QED
      BY <1>1, <2>1 DEF MovesOn
  <1>8. ASSUME NEW j \in Transfers, shopify'[j] > 0
        PROVE  \E r \in OrdersFor(j)' : remote'[r].status = "shipped"
    <2>1. CASE shopify[j] > 0
      <3>1. PICK r \in OrdersFor(j) : remote[r].status = "shipped"
        BY <1>2, <2>1 DEF ToldOk
      <3> QED
        BY <3>1 DEF OrdersFor
    <2>2. CASE ~ (shopify[j] > 0)
      <3>1. j = i /\ n > 0
        BY <1>3, <1>8, <2>2
      <3> QED
        BY <1>4, <1>5, <3>1 DEF OrdersFor
    <2> QED
      BY <2>1, <2>2
  <1>9. RowOk(u, i)'
    <2>1. /\ u[i].state \in {"push_3pl", "cancel", "done"} /\ u[i].qtyDone <= u[i].demand
          /\ u[i].threeplId = v[i].threeplId
          /\ u[i].state = "push_3pl" => u[i].demand = v[i].demand
          /\ u[i].state = "done" =>
                /\ u[i].qtyDone = u[i].demand /\ remote[v[i].threeplId].qty = u[i].qtyDone
                /\ remote[v[i].threeplId].status = "shipped"
      BY DEF UpdatedRow, HasShipped
    <2>3. remote[v[i].threeplId].qty \in Int /\ u[i].demand \in Int
      <3>1. u[i] \in TransferRow /\ remote[v[i].threeplId] \in RemoteOrder
        BY <1>2, <1>4 DEF UpdatedRow, OnlyOne, TplTypeOK
      <3> QED
        BY <3>1, TplAssumption DEF TransferRow, RemoteOrder
    <2> QED
      BY <1>4, <2>1, <2>3 DEF RowOk
  <1>10. ASSUME NEW j \in Transfers
         PROVE  Moving(w, j)' = MovedSince(tsnap'[w], u, j) /\ Moved(transfer, j)' = Moved(transfer, j)
    BY DEF Moving, Moved, MovedSince, StepsOn
  <1>11. ASSUME NEW j \in Transfers, ~ receipt, j \notin failed' PROVE shopify'[j] = Due(j)'
    <2>1. /\ Due(j) \in Int
          /\ Due(j)' = Due(j) + Moved(transfer, j)' - Moved(transfer, j)
                               + Moving(w, j)' - Moving(w, j)
      BY <1>2, DueStep DEF StepsOn
    <2>2. Moving(w, j) \in Nat /\ Moved(transfer, j) \in Nat
      BY <1>2, MovingTypes
    <2>3. shopify[j] = Due(j)
      BY <1>1, <1>2, <1>11 DEF ToldOk
    <2>4. CASE j = i
      <3>1. ok /\ n = Moved(u, i)
        BY <1>1, <1>11, <2>4 DEF UpdatedRow
      <3>2. Moving(w, i) = 0 /\ MovedSince(tsnap'[w], u, i) = n
        BY <3>1 DEF MovedSince, Moved, StepsOn
      <3> QED
        BY <1>3, <1>10, <2>1, <2>2, <2>3, <2>4, <3>2
    <2>5. CASE j # i
      <3>1. u[j] = v[j] \/ NewRow(v, u, j)
        BY <2>5 DEF UpdatedRow, OnlyOne
      <3>2. MovedSince(tsnap'[w], u, j) = MovedSince(tsnap'[w], v, j)
        BY <3>1 DEF MovedSince, Moved, NewRow
      <3> QED
        BY <1>3, <1>10, <2>1, <2>2, <2>3, <2>5, <3>2 DEF StepsOn
    <2> QED
      BY <2>4, <2>5
  <1>12. ToldOk'
    BY <1>8, <1>11 DEF ToldOk
  <1> QED
    BY <1>7, <1>9, <1>12

LEMMA UpdateTypes ==
    ASSUME TplTypeOK, NEW w \in TplWorkers, NEW i \in Transfers, NEW v,
           NEW u, NEW n \in Nat, NEW ok \in BOOLEAN,
           Outcome(w, i, u, n, ok), UpdatedRow(v, u, i, n, ok)
    PROVE  /\ tview' = [tview EXCEPT ![w] = u] /\ tview'[w] = u
           /\ tview' \in [TplWorkers -> [Transfers -> TransferRow]]
           /\ shopify' \in [Transfers -> Nat] /\ failed' \subseteq Transfers
  <1>1. u \in [Transfers -> TransferRow]
    BY DEF UpdatedRow, OnlyOne
  <1>2. tview' = [tview EXCEPT ![w] = u]
    BY DEF Outcome
  <1>3. tview'[w] = u /\ tview' \in [TplWorkers -> [Transfers -> TransferRow]]
    BY <1>1, <1>2 DEF TplTypeOK
  <1>5. shopify' \in [Transfers -> Nat]
    BY DEF TplTypeOK, Outcome
  <1> QED
    BY <1>2, <1>3, <1>5 DEF TplTypeOK, Outcome

LEMMA UpdateButtonKeeps ==
    ASSUME TplInv, NEW w \in TplWorkers, NEW i \in Transfers, UpdateButton(w, i)
    PROVE  TplInv'
  <1>1. /\ tpc' = [tpc EXCEPT ![w] = "user"] /\ tsnap' = [tsnap EXCEPT ![w] = transfer]
        /\ left' = [left EXCEPT ![w] = {}] /\ tpc[w] = "idle"
        /\ UNCHANGED <<receipt, transfer, remote, lost>>
        /\ transfer[i].state = "push_3pl"
    BY DEF UpdateButton, Begin3pl, Updatable
  <1>2. TplTypeOK /\ WorkOk(w)
    BY DEF TplInv
  <1>3. PICK v : v = transfer
    OBVIOUS
  <1>4. v \in [Transfers -> TransferRow] /\ RowOk(v, i) /\ v[i].state = "push_3pl"
    BY <1>1, <1>2, <1>3 DEF TplInv, TplTypeOK, RowOk
  <1>5. \A k \in Unused : v[k] = NoTransfer
    BY <1>3, UnusedNothing
  <1>6. Update(w, i, v, FALSE)
    BY <1>3 DEF UpdateButton
  <1>7. \E u : \E n \in Nat, ok \in BOOLEAN :
           Outcome(w, i, u, n, ok) /\ UpdatedRow(v, u, i, n, ok)
    BY <1>2, <1>4, <1>5, <1>6, UpdateRow
  <1>8. PICK u : \E n \in Nat, ok \in BOOLEAN :
           Outcome(w, i, u, n, ok) /\ UpdatedRow(v, u, i, n, ok)
    BY <1>7
  <1>9. PICK n \in Nat, ok \in BOOLEAN : Outcome(w, i, u, n, ok) /\ UpdatedRow(v, u, i, n, ok)
    BY <1>8
  <1>10. /\ tview' = [tview EXCEPT ![w] = u] /\ tview'[w] = u
         /\ tview' \in [TplWorkers -> [Transfers -> TransferRow]]
         /\ shopify' \in [Transfers -> Nat] /\ failed' \subseteq Transfers
    BY <1>2, <1>9, UpdateTypes
  <1>11. TplTypeOK'
    BY <1>1, <1>2, <1>10 DEF TplTypeOK
  <1>12. MovesOn /\ RowOk(u, i)' /\ ToldOk'
    <2>1. tsnap'[w] = v /\ v[i].state # "done"
      BY <1>1, <1>2, <1>3 DEF TplTypeOK
    <2>2. \A k \in Transfers : Moving(w, k) = MovedSince(v, v, k)
      BY <1>2, <1>1, IdleMoves DEF MovedSince, Moved
    <2>3. \A x \in TplWorkers \ {w} : Alike(x)
      BY <1>1, <1>2, <1>10 DEF TplTypeOK, Alike
    <2>4. StepsOn(w, i, v, u)
      BY <1>10, <2>1, <2>2, <2>3 DEF StepsOn
    <2> QED
      BY <1>1, <1>4, <1>9, <1>11, <2>4, UpdateMoves
  <1>13. /\ u \in [Transfers -> TransferRow] /\ Demanded(u) = Demanded(v)
         /\ \A k \in Transfers \ {i} : u[k] = v[k] \/ NewRow(v, u, k)
         /\ u[i].state \notin {"ready", "none"}
    BY <1>9 DEF UpdatedRow, OnlyOne
  <1>14. \A j \in Transfers : RowOk(transfer, j)'
    BY <1>1, <1>11, <1>12, RowsStay
  <1>15. WorkOk(w)' /\ SnapOk(w)'
    <2>1. \A j \in Transfers \ {i} : RowOk(tview[w], j)'
      BY <1>3, <1>10, <1>11, <1>12, <1>13, RowsStay DEF NewRow
    <2>2. RowOk(tview[w], i)'
      BY <1>10, <1>12 DEF RowOk
    <2>3. tsnap'[w] = v /\ tpc'[w] = "user"
      BY <1>1, <1>2, <1>3 DEF TplTypeOK
    <2>4. Demanded(tview'[w]) = Demanded(tsnap'[w])
      BY <1>10, <1>13, <2>3
    <2>5. \A j \in Transfers : u[j] # v[j] /\ v[j].state # "none" => u[j].state \notin {"ready", "none"}
      BY <1>13 DEF NewRow
    <2>6. Demanded(tview[w])' = Demanded(tsnap[w])'
      BY <2>4 DEF Demanded
    <2>7. SnapOk(w)'
      BY <1>4, <1>10, <1>13, <2>3 DEF SnapOk, NewRow
    <2> QED
      BY <1>10, <2>1, <2>2, <2>3, <2>5, <2>6, <2>7 DEF WorkOk
  <1>16. \A x \in TplWorkers : WorkOk(x)' /\ SnapOk(x)'
    BY <1>1, <1>2, <1>10, <1>11, <1>12, <1>15, WorkStays DEF TplTypeOK, Alike
  <1>17. OrdersOk'
    <2>1. \A x \in TplWorkers, j \in Transfers : PushedBy(x, j) => PushedBy(x, j)'
      <3>1. \A j \in Transfers : ~ PushedBy(w, j)
        BY <1>1, <1>2 DEF PushedBy, WorkOk, Nothing, NoTransfer
      <3> QED
        BY <1>1, <1>2, <1>10, <3>1 DEF PushedBy, TplTypeOK
    <2> QED
      BY <1>1, <2>1, OrdersStay
  <1> QED
    BY <1>1, <1>11, <1>12, <1>14, <1>16, <1>17 DEF TplInv, Demanded

LEMMA CronUpdateKeeps ==
    ASSUME TplInv, NEW w \in TplWorkers, NEW i \in Transfers, CronUpdate(w, i)
    PROVE  TplInv'
  <1>1. /\ left' = [left EXCEPT ![w] = @ \ {i}] /\ tpc[w] = "cron"
        /\ UNCHANGED <<receipt, transfer, remote, tpc, tsnap, lost>>
    BY DEF CronUpdate
  <1>2. TplTypeOK /\ WorkOk(w)
    BY DEF TplInv
  <1>3. CASE ~ Updatable(tview[w][i])
    <2>1. UNCHANGED <<tview, shopify, failed>>
      BY <1>3 DEF CronUpdate
    <2>2. TplTypeOK'
      BY <1>1, <1>2, <2>1 DEF TplTypeOK
    <2>3. MovesOn
      BY <1>1, <1>2, <2>1, NobodyMoves
    <2>4. \A u \in TplWorkers : WorkOk(u)' /\ SnapOk(u)'
      BY <1>1, <2>1, <2>2, <2>3, WorkStays DEF Alike
    <2>5. \A j \in Transfers : RowOk(transfer, j)'
      BY <1>1, <2>2, <2>3, RowsStay
    <2>6. OrdersOk'
      BY <1>1, <2>1, OrdersStay DEF PushedBy
    <2>7. ToldOk'
      BY <1>1, <2>1, <2>3, ToldAlone DEF Moved
    <2> QED
      BY <1>1, <2>1, <2>2, <2>3, <2>4, <2>5, <2>6, <2>7 DEF TplInv, Demanded
  <1>4. CASE Updatable(tview[w][i])
    <2>1. PICK v : v = tview[w]
      OBVIOUS
    <2>2. v \in [Transfers -> TransferRow] /\ RowOk(v, i) /\ v[i].state = "push_3pl"
      BY <1>2, <1>4, <2>1 DEF WorkOk, TplTypeOK, RowOk, Updatable
    <2>3. \A k \in Unused : v[k] = NoTransfer
      BY <2>1, UnusedNothing
    <2>4. Update(w, i, v, TRUE)
      BY <1>4, <2>1 DEF CronUpdate
    <2>5. \E u : \E n \in Nat, ok \in BOOLEAN :
             Outcome(w, i, u, n, ok) /\ UpdatedRow(v, u, i, n, ok)
      BY <1>2, <2>2, <2>3, <2>4, UpdateRow
    <2>6. PICK u : \E n \in Nat, ok \in BOOLEAN :
             Outcome(w, i, u, n, ok) /\ UpdatedRow(v, u, i, n, ok)
      BY <2>5
    <2>7. PICK n \in Nat, ok \in BOOLEAN : Outcome(w, i, u, n, ok) /\ UpdatedRow(v, u, i, n, ok)
      BY <2>6
    <2>8. /\ tview' = [tview EXCEPT ![w] = u] /\ tview'[w] = u
          /\ tview' \in [TplWorkers -> [Transfers -> TransferRow]]
          /\ shopify' \in [Transfers -> Nat] /\ failed' \subseteq Transfers
      BY <1>2, <2>7, UpdateTypes
    <2>9. TplTypeOK'
      BY <1>1, <1>2, <2>8 DEF TplTypeOK
    <2>10. MovesOn /\ RowOk(u, i)' /\ ToldOk'
      <3>1. PICK t : t = tsnap[w]
        OBVIOUS
      <3>2. tsnap'[w] = t
        BY <1>1, <3>1
      <3>3. t[i].state # "done"
        BY <2>1, <2>2, <3>1 DEF TplInv, SnapOk
      <3>4. \A k \in Transfers : Moving(w, k) = MovedSince(t, v, k)
        BY <2>1, <3>1 DEF MovedSince, Moving, Moved
      <3>5. \A x \in TplWorkers \ {w} : Alike(x)
        BY <1>1, <1>2, <2>8 DEF TplTypeOK, Alike
      <3>6. StepsOn(w, i, v, u)
        BY <2>8, <3>2, <3>3, <3>4, <3>5 DEF StepsOn
      <3> QED
        BY <1>1, <2>2, <2>7, <2>9, <3>6, UpdateMoves
    <2>11. /\ u \in [Transfers -> TransferRow] /\ Demanded(u) = Demanded(v)
           /\ \A k \in Transfers \ {i} : u[k] = v[k] \/ NewRow(v, u, k)
           /\ u[i].state \notin {"ready", "none"}
      BY <2>7 DEF UpdatedRow, OnlyOne
    <2>12. \A j \in Transfers : RowOk(transfer, j)'
      BY <1>1, <2>9, <2>10, RowsStay
    <2>13. WorkOk(w)' /\ SnapOk(w)'
      <3>1. \A j \in Transfers \ {i} : RowOk(tview[w], j)'
        BY <2>1, <2>8, <2>9, <2>10, <2>11, RowsStay DEF NewRow
      <3>2. RowOk(tview[w], i)'
        BY <2>8, <2>10 DEF RowOk
      <3>3. Demanded(v) = Demanded(tsnap[w])
        BY <1>2, <2>1 DEF WorkOk
      <3>4. Demanded(tview'[w]) = Demanded(tsnap'[w])
        BY <1>1, <2>8, <2>11, <3>3
      <3>5. \A j \in Transfers : v[j] # tsnap[w][j] /\ tsnap[w][j].state # "none" =>
               v[j].state \notin {"ready", "none"}
        BY <1>2, <2>1 DEF WorkOk
      <3>6. \A j \in Transfers : u[j] # tsnap[w][j] /\ tsnap[w][j].state # "none" =>
               u[j].state \notin {"ready", "none"}
        BY <2>11, <3>5 DEF NewRow
      <3>7. Demanded(tview[w])' = Demanded(tsnap[w])'
        BY <3>4 DEF Demanded
      <3>8. SnapOk(w)'
        <4>1. SnapOk(w)
          BY DEF TplInv
        <4> QED
          BY <1>1, <2>1, <2>2, <2>8, <2>11, <4>1 DEF SnapOk, NewRow
      <3> QED
        BY <1>1, <2>8, <3>1, <3>2, <3>6, <3>7, <3>8 DEF WorkOk
    <2>14. \A x \in TplWorkers : WorkOk(x)' /\ SnapOk(x)'
      BY <1>1, <1>2, <2>8, <2>9, <2>10, <2>13, WorkStays DEF TplTypeOK, Alike
    <2>15. OrdersOk'
      <3>1. ASSUME NEW j \in Transfers, PushedBy(w, j) PROVE PushedBy(w, j)'
        <4>1. tsnap[w][j].state = "ready" /\ v[j].state \notin {"ready", "none"}
          BY <2>1, <3>1 DEF PushedBy
        <4>2. u[j].state \notin {"ready", "none"}
          BY <2>11, <4>1 DEF NewRow
        <4> QED
          BY <1>1, <2>8, <4>1, <4>2 DEF PushedBy
      <3>2. \A x \in TplWorkers, j \in Transfers : PushedBy(x, j) => PushedBy(x, j)'
        BY <1>1, <1>2, <2>8, <3>1 DEF PushedBy, TplTypeOK
      <3> QED
        BY <1>1, <3>2, OrdersStay
    <2> QED
      BY <1>1, <2>9, <2>10, <2>12, <2>14, <2>15 DEF TplInv, Demanded
  <1> QED
    BY <1>3, <1>4

(* What a push writes: the row is the warehouse's, and asks for all of it. *)
LEMMA ExportRow ==
    ASSUME TplTypeOK, NEW v \in [Transfers -> TransferRow], NEW i \in Transfers,
           NEW r \in Remotes, v[i].state = "ready", v[i].qtyDone <= v[i].demand,
           \A k \in Unused : v[k] = NoTransfer, receipt \/ CanSplit(v, i, v[i].qtyDone)
    PROVE  /\ OnlyOne(v, Exported(v, i, r), i) /\ Asked(v[i]) \in 0..Ordered
           /\ LET row == Exported(v, i, r)[i] IN
                 /\ row.state = "push_3pl" /\ row.threeplId = r
                 /\ row.qtyDone <= row.demand /\ Asked(v[i]) = row.demand
  <1> DEFINE u == IF receipt THEN v ELSE SplitOff(v, i)
             row == [u[i] EXCEPT !.threeplId = r, !.state = "push_3pl"]
  <1>1. v[i] \in TransferRow /\ v[i].demand \in 0..Ordered /\ v[i].qtyDone \in 0..Ordered
        /\ Ordered \in Nat
    BY RowFields, TplAssumption
  <1>2. OnlyOne(v, u, i) /\ (~ receipt => u[i] = [v[i] EXCEPT !.demand = v[i].qtyDone])
    <2>1. OnlyOne(v, v, i)
      BY DEF OnlyOne
    <2>2. CASE ~ receipt
      BY <2>2, SplitKeeps
    <2> QED
      BY <2>1, <2>2
  <1>3. u[i] \in TransferRow
    <2> HIDE DEF u
    <2> QED
      BY <1>2 DEF OnlyOne
  <1>4. u[i].demand = Asked(v[i]) /\ u[i].qtyDone = v[i].qtyDone /\ u[i].qtyDone <= u[i].demand
    BY <1>1, <1>2 DEF Asked, TransferRow
  <1>5. Exported(v, i, r) = [[u EXCEPT ![i].threeplId = r] EXCEPT ![i].state = "push_3pl"]
    BY DEF Exported
  <1> HIDE DEF u
  <1>6. u \in [Transfers -> TransferRow]
    BY <1>2 DEF OnlyOne
  <1>7. Exported(v, i, r) = [u EXCEPT ![i] = row]
    BY <1>5, <1>6
  <1>8. row \in TransferRow /\ row.state = "push_3pl" /\ row.threeplId = r
        /\ row.demand = u[i].demand /\ row.qtyDone = u[i].qtyDone
    BY <1>3 DEF TransferRow
  <1> HIDE DEF row
  <1> DEFINE t == Exported(v, i, r)
  <1>9. t = [u EXCEPT ![i] = row]
    BY <1>7
  <1> HIDE DEF t
  <1>10. OnlyOne(v, t, i) /\ t[i] = row
    BY <1>2, <1>6, <1>8, <1>9, RowChanged
  <1>11. Asked(v[i]) \in 0..Ordered
    BY <1>1 DEF Asked
  <1> QED
    BY <1>4, <1>8, <1>10, <1>11 DEF t

LEMMA PushKeeps ==
    ASSUME TplInv, NEW w \in TplWorkers, NEW i \in Transfers, Push(w, i)
    PROVE  TplInv'
  <1>1. /\ tpc' = [tpc EXCEPT ![w] = "user"] /\ tsnap' = [tsnap EXCEPT ![w] = transfer]
        /\ left' = [left EXCEPT ![w] = {}] /\ tpc[w] = "idle" /\ transfer[i].state = "ready"
        /\ receipt \/ CanSplit(transfer, i, transfer[i].qtyDone)
        /\ lost' = IF \E u \in TplWorkers : i \in Written(u) THEN lost \cup {i} ELSE lost
        /\ UNCHANGED <<receipt, transfer, shopify, failed>>
    BY DEF Push, Begin3pl, Exportable
  <1>2. TplTypeOK /\ WorkOk(w)
    BY DEF TplInv
  <1>3. PICK v : v = transfer
    OBVIOUS
  <1>4. PICK r \in Remotes :
          /\ \A s \in Remotes : s < r <=> remote[s] # NoOrder
          /\ remote' = [remote EXCEPT ![r] = [status |-> "open", for |-> i, qty |-> Asked(v[i])]]
          /\ tview' = [tview EXCEPT ![w] = Exported(v, i, r)]
    BY <1>3 DEF Push
  <1>5. /\ v \in [Transfers -> TransferRow] /\ v[i].state = "ready" /\ v[i].qtyDone <= v[i].demand
        /\ receipt \/ CanSplit(v, i, v[i].qtyDone)
    BY <1>1, <1>2, <1>3 DEF TplInv, TplTypeOK, RowOk
  <1>6. \A k \in Unused : v[k] = NoTransfer
    BY <1>3, UnusedNothing
  <1>7. PICK u : u = Exported(v, i, r)
    OBVIOUS
  <1>8. /\ OnlyOne(v, u, i) /\ Asked(v[i]) \in 0..Ordered
        /\ u[i].state = "push_3pl" /\ u[i].threeplId = r
        /\ u[i].qtyDone <= u[i].demand /\ Asked(v[i]) = u[i].demand
    BY <1>2, <1>5, <1>6, <1>7, ExportRow
  <1>9. remote[r] = NoOrder
    <2>1. ~ (r < r)
      BY TplAssumption
    <2> QED
      BY <1>4, <2>1
  <1>10. remote[r].for = 0 /\ remote[r].status = "none" /\ 0 \notin Transfers
    BY <1>9, TplAssumption DEF NoOrder
  <1> DEFINE order == [status |-> "open", for |-> i, qty |-> Asked(v[i])]
  <1>11. /\ order \in RemoteOrder /\ order.status = "open" /\ order.for = i
         /\ order.qty = Asked(v[i])
    BY <1>8 DEF RemoteOrder
  <1>12. remote' = [remote EXCEPT ![r] = order]
    BY <1>4
  <1> HIDE DEF order
  <1>13. /\ remote' \in [Remotes -> RemoteOrder] /\ remote'[r] = order
         /\ \A s \in Remotes \ {r} : remote'[s] = remote[s]
    BY <1>2, <1>11, <1>12 DEF TplTypeOK
  <1>14. /\ tview' = [tview EXCEPT ![w] = u] /\ u \in [Transfers -> TransferRow]
         /\ tview'[w] = u /\ tsnap'[w] = v /\ tpc'[w] = "user"
    BY <1>1, <1>2, <1>3, <1>4, <1>7, <1>8 DEF OnlyOne, TplTypeOK
  <1>15. TplTypeOK'
    <2>1. lost' \subseteq Transfers
      BY <1>1, <1>2 DEF TplTypeOK
    <2>2. /\ tview' \in [TplWorkers -> [Transfers -> TransferRow]]
          /\ tsnap' \in [TplWorkers -> [Transfers -> TransferRow]]
      BY <1>1, <1>2, <1>14 DEF TplTypeOK
    <2>3. /\ tpc' \in [TplWorkers -> {"idle", "user", "cron"}]
          /\ left' \in [TplWorkers -> SUBSET Transfers]
      BY <1>1, <1>2 DEF TplTypeOK
    <2> QED
      BY <1>1, <1>2, <1>13, <2>1, <2>2, <2>3 DEF TplTypeOK
  <1>16. MovesOn
    <2>1. \A s \in Remotes : remote[s].qty \in Int
      BY <1>2 DEF TplTypeOK, RemoteOrder
    <2>2. \A j \in Transfers, s \in Remotes : remote[s].for = j => remote'[s] = remote[s]
      BY <1>10, <1>13
    <2> QED
      BY <1>1, <2>1, <2>2 DEF MovesOn
  <1>17. \A j \in Transfers : RowOk(transfer, j)'
    BY <1>1, <1>15, <1>16, RowsStay
  <1>18. /\ \A k \in Transfers \ {i} : u[k] = v[k] \/ NewRow(v, u, k)
         /\ Demanded(u) = Demanded(v)
    BY <1>8 DEF OnlyOne
  <1>19. WorkOk(w)' /\ SnapOk(w)'
    <2>1. \A j \in Transfers \ {i} : RowOk(tview[w], j)'
      BY <1>3, <1>14, <1>15, <1>16, <1>18, RowsStay DEF NewRow
    <2>2. RowOk(tview[w], i)'
      <3>1. /\ tview'[w][i].state = "push_3pl" /\ tview'[w][i].threeplId = r
            /\ tview'[w][i].qtyDone <= tview'[w][i].demand
            /\ remote'[r].for = i /\ remote'[r].qty = tview'[w][i].demand
            /\ remote'[r].qty \in Int
        BY <1>8, <1>11, <1>13, <1>14
      <3> QED
        BY <3>1 DEF RowOk
    <2>3. Demanded(tview[w])' = Demanded(tsnap[w])'
      BY <1>14, <1>18 DEF Demanded
    <2>4. \A j \in Transfers : u[j] # v[j] /\ v[j].state # "none" => u[j].state \notin {"ready", "none"}
      BY <1>8, <1>18 DEF NewRow
    <2>5. SnapOk(w)'
      BY <1>5, <1>14, <1>18 DEF SnapOk, NewRow
    <2> QED
      BY <1>14, <2>1, <2>2, <2>3, <2>4, <2>5 DEF WorkOk
  <1>20. \A x \in TplWorkers : WorkOk(x)' /\ SnapOk(x)'
    BY <1>1, <1>2, <1>14, <1>15, <1>16, <1>19, WorkStays DEF TplTypeOK, Alike
  <1>21. ASSUME NEW x \in TplWorkers, NEW j \in Transfers, PushedBy(x, j) PROVE PushedBy(x, j)'
    <2>1. x # w
      BY <1>1, <1>2, <1>21 DEF PushedBy, WorkOk, Nothing, NoTransfer
    <2> QED
      BY <1>1, <1>2, <1>14, <1>21, <2>1 DEF PushedBy, TplTypeOK
  <1>22. OrdersOk'
    <2> SUFFICES ASSUME NEW j \in Transfers, OrdersFor(j)' # {}
                 PROVE  /\ transfer'[j].state # "none"
                        /\ j \notin lost' =>
                              /\ \A s, t \in OrdersFor(j)' : s = t
                              /\ transfer'[j].state # "ready" \/ \E x \in TplWorkers : PushedBy(x, j)'
      BY DEF OrdersOk
    <2>1. lost \subseteq lost' /\ OrdersOk
      BY <1>1 DEF TplInv
    <2>2. CASE j # i
      <3>1. OrdersFor(j)' = OrdersFor(j)
        BY <1>10, <1>11, <1>13, <2>2 DEF OrdersFor
      <3> QED
        BY <1>1, <1>21, <2>1, <3>1 DEF OrdersOk
    <2>3. CASE j = i
      <3>1. transfer'[i].state = "ready"
        BY <1>1
      <3>2. ASSUME i \notin lost' PROVE OrdersFor(i) = {}
        <4>1. i \notin lost /\ \A x \in TplWorkers : tview[x][i] = tsnap[x][i]
          BY <1>1, <3>2 DEF Written
        <4>2. \A x \in TplWorkers : ~ PushedBy(x, i)
          BY <4>1 DEF PushedBy
        <4> QED
          BY <1>1, <2>1, <4>1, <4>2 DEF OrdersOk
      <3>3. ASSUME i \notin lost', NEW s \in OrdersFor(i)' PROVE s = r
        <4>1. s \in Remotes /\ remote'[s].for = i
          BY <3>3 DEF OrdersFor
        <4> QED
          BY <1>13, <3>2, <3>3, <4>1 DEF OrdersFor
      <3>4. PushedBy(w, i)'
        BY <1>5, <1>8, <1>14 DEF PushedBy
      <3> QED
        BY <2>3, <3>1, <3>3, <3>4
    <2> QED
      BY <2>2, <2>3
  <1>23. ToldOk'
    <2>1. \A x \in TplWorkers \ {w} : Alike(x)
      BY <1>1, <1>2, <1>14 DEF TplTypeOK, Alike
    <2>2. ASSUME NEW j \in Transfers
          PROVE  Moved(transfer, j)' + Moving(w, j)' = Moved(transfer, j) + Moving(w, j)
      <3>1. Moving(w, j) = 0
        BY <1>1, <1>2, IdleMoves
      <3>2. Moved(transfer, j)' = Moved(transfer, j)
        BY <1>1 DEF Moved
      <3>3. Moving(w, j)' = 0
        BY <1>5, <1>8, <1>14, <1>18 DEF Moving, Moved, NewRow
      <3> QED
        BY <3>1, <3>2, <3>3
    <2> QED
      BY <1>1, <1>15, <1>16, <2>1, <2>2, ToldByOne
  <1> QED
    BY <1>1, <1>15, <1>16, <1>17, <1>20, <1>22, <1>23 DEF TplInv, Demanded

LEMMA EnterDoneKeeps ==
    ASSUME TplInv, NEW i \in Transfers, NEW q \in 1..Ordered, EnterDone(i, q)
    PROVE  TplInv'
  <1>1. /\ transfer[i].state = "ready" /\ q \in 1..transfer[i].demand
        /\ transfer' = [transfer EXCEPT ![i].qtyDone = q]
        /\ UNCHANGED <<receipt, remote, shopify, tpc, left, tsnap, tview, lost, failed>>
    BY DEF EnterDone
  <1>2. TplTypeOK /\ OrdersOk
    BY DEF TplInv
  <1> DEFINE row == [transfer[i] EXCEPT !.qtyDone = q]
  <1>3. transfer[i] \in TransferRow /\ transfer[i].demand \in 0..Ordered /\ Ordered \in Nat
    BY <1>2, TplAssumption DEF TplTypeOK, TransferRow
  <1>4. row \in TransferRow /\ row.state = "ready" /\ row.demand = transfer[i].demand
        /\ row.qtyDone = q /\ q <= row.demand
    BY <1>1, <1>3 DEF TransferRow
  <1>5. transfer' = [transfer EXCEPT ![i] = row]
    BY <1>1
  <1> HIDE DEF row
  <1>6. transfer' \in [Transfers -> TransferRow] /\ transfer'[i] = row
        /\ \A j \in Transfers \ {i} : transfer'[j] = transfer[j]
    BY <1>2, <1>4, <1>5 DEF TplTypeOK
  <1>7. TplTypeOK' /\ MovesOn
    BY <1>1, <1>2, <1>6, NobodyMoves DEF TplTypeOK
  <1>8. \A j \in Transfers : RowOk(transfer, j)'
    BY <1>4, <1>6, <1>7, RowsStay
  <1>9. \A x \in TplWorkers : WorkOk(x)' /\ SnapOk(x)'
    BY <1>1, <1>7, WorkStays DEF Alike
  <1>10. Demanded(transfer)' = Ordered
    <2>1. PICK o : o = transfer
      OBVIOUS
    <2>2. PICK n : n = transfer'
      OBVIOUS
    <2>3. Demanded(n) = Demanded(o)
      BY <1>2, <1>4, <1>6, <2>1, <2>2, DemandSame DEF TplTypeOK
    <2> QED
      BY <2>1, <2>2, <2>3 DEF TplInv, Demanded
  <1>11. OrdersOk'
    <2>1. \A j \in Transfers : transfer'[j].state = transfer[j].state /\ OrdersFor(j)' = OrdersFor(j)
      BY <1>1, <1>4, <1>6 DEF OrdersFor
    <2>2. \A x \in TplWorkers, j \in Transfers : PushedBy(x, j)' = PushedBy(x, j)
      BY <1>1 DEF PushedBy
    <2> QED
      BY <1>1, <1>2, <2>1, <2>2 DEF OrdersOk
  <1>12. ToldOk'
    <2>1. \A j \in Transfers : Moved(transfer, j)' = Moved(transfer, j)
      BY <1>1, <1>4, <1>6 DEF Moved
    <2> QED
      BY <1>1, <1>7, <2>1, ToldAlone
  <1> QED
    BY <1>1, <1>7, <1>8, <1>9, <1>10, <1>11, <1>12 DEF TplInv

LEMMA RecomputeKeeps ==
    ASSUME TplInv, NEW i \in Transfers, Recompute(i)
    PROVE  TplInv'
  <1>1. /\ transfer[i].state = "push_3pl"
        /\ transfer' = [transfer EXCEPT ![i].state = "ready"] /\ lost' = lost \cup {i}
        /\ UNCHANGED <<receipt, remote, shopify, tpc, left, tsnap, tview, failed>>
    BY DEF Recompute
  <1>2. TplTypeOK /\ OrdersOk /\ RowOk(transfer, i)
    BY DEF TplInv
  <1> DEFINE row == [transfer[i] EXCEPT !.state = "ready"]
  <1>3. transfer[i] \in TransferRow /\ transfer[i].qtyDone <= transfer[i].demand
    BY <1>2 DEF TplTypeOK, RowOk
  <1>4. row \in TransferRow /\ row.state = "ready" /\ row.demand = transfer[i].demand
        /\ row.qtyDone <= row.demand
    BY <1>3 DEF TransferRow
  <1>5. transfer' = [transfer EXCEPT ![i] = row]
    BY <1>1
  <1> HIDE DEF row
  <1>6. transfer' \in [Transfers -> TransferRow] /\ transfer'[i] = row
        /\ \A j \in Transfers \ {i} : transfer'[j] = transfer[j]
    BY <1>2, <1>4, <1>5 DEF TplTypeOK
  <1>7. TplTypeOK' /\ MovesOn
    BY <1>1, <1>2, <1>6, NobodyMoves DEF TplTypeOK
  <1>8. \A j \in Transfers : RowOk(transfer, j)'
    BY <1>4, <1>6, <1>7, RowsStay
  <1>9. \A x \in TplWorkers : WorkOk(x)' /\ SnapOk(x)'
    BY <1>1, <1>7, WorkStays DEF Alike
  <1>10. Demanded(transfer)' = Ordered
    <2>1. PICK o : o = transfer
      OBVIOUS
    <2>2. PICK n : n = transfer'
      OBVIOUS
    <2>3. Demanded(n) = Demanded(o)
      BY <1>2, <1>4, <1>6, <2>1, <2>2, DemandSame DEF TplTypeOK
    <2> QED
      BY <2>1, <2>2, <2>3 DEF TplInv, Demanded
  <1>11. OrdersOk'
    <2>1. \A j \in Transfers : OrdersFor(j)' = OrdersFor(j)
      BY <1>1 DEF OrdersFor
    <2>2. \A x \in TplWorkers, j \in Transfers : PushedBy(x, j)' = PushedBy(x, j)
      BY <1>1 DEF PushedBy
    <2>3. \A j \in Transfers : transfer'[j] = transfer[j] \/ j = i
      BY <1>6
    <2> QED
      BY <1>1, <1>2, <1>4, <1>6, <2>1, <2>2, <2>3 DEF OrdersOk
  <1>12. ToldOk'
    <2>1. \A j \in Transfers : Moved(transfer, j)' = Moved(transfer, j)
      BY <1>1, <1>4, <1>6 DEF Moved
    <2> QED
      BY <1>1, <1>7, <2>1, ToldAlone
  <1> QED
    BY <1>1, <1>7, <1>8, <1>9, <1>10, <1>11, <1>12 DEF TplInv

LEMMA ShipKeeps ==
    ASSUME TplInv, NEW r \in Remotes, Ship(r)
    PROVE  TplInv'
  <1>1. remote[r].status = "open"
        /\ UNCHANGED <<receipt, transfer, shopify, tpc, left, tsnap, tview, lost, failed>>
    BY DEF Ship
  <1>2. TplTypeOK /\ OrdersOk
    BY DEF TplInv
  <1>3. remote[r] \in RemoteOrder /\ remote[r].qty \in 0..Ordered /\ Ordered \in Nat
    BY <1>2, TplAssumption DEF TplTypeOK, RemoteOrder
  <1>4. PICK order \in RemoteOrder :
          /\ order.for = remote[r].for /\ order.qty <= remote[r].qty
          /\ remote' = [remote EXCEPT ![r] = order]
    <2>1. CASE remote' = [remote EXCEPT ![r].status = "cancelled"]
      <3> DEFINE order == [remote[r] EXCEPT !.status = "cancelled"]
      <3>1. order \in RemoteOrder /\ order.for = remote[r].for /\ order.qty <= remote[r].qty
        BY <1>3 DEF RemoteOrder
      <3>2. remote' = [remote EXCEPT ![r] = order]
        BY <2>1
      <3> QED
        BY <3>1, <3>2
    <2>2. ASSUME NEW q \in 1..remote[r].qty,
                 remote' = [remote EXCEPT ![r].status = "shipped", ![r].qty = q]
          PROVE  \E order \in RemoteOrder :
                    /\ order.for = remote[r].for /\ order.qty <= remote[r].qty
                    /\ remote' = [remote EXCEPT ![r] = order]
      <3> DEFINE order == [remote[r] EXCEPT !.status = "shipped", !.qty = q]
      <3>1. order \in RemoteOrder /\ order.for = remote[r].for /\ order.qty <= remote[r].qty
        <4> DEFINE shipped == [remote[r] EXCEPT !.status = "shipped"]
        <4>1. shipped \in RemoteOrder /\ shipped.for = remote[r].for
          BY <1>3 DEF RemoteOrder
        <4>2. q \in 0..Ordered /\ q <= remote[r].qty
          BY <1>3
        <4>3. order = [shipped EXCEPT !.qty = q]
          OBVIOUS
        <4> HIDE DEF shipped
        <4> QED
          BY <4>1, <4>2, <4>3 DEF RemoteOrder
      <3>2. remote' = [[remote EXCEPT ![r].status = "shipped"] EXCEPT ![r].qty = q]
        BY <2>2
      <3>3. remote' = [remote EXCEPT ![r] = order]
        BY <1>2, <3>2 DEF TplTypeOK
      <3> QED
        BY <3>1, <3>3
    <2> QED
      BY <2>1, <2>2 DEF Ship
  <1>5. /\ remote' \in [Remotes -> RemoteOrder] /\ remote'[r] = order
        /\ \A s \in Remotes \ {r} : remote'[s] = remote[s]
    BY <1>2, <1>4 DEF TplTypeOK
  <1>6. TplTypeOK'
    BY <1>1, <1>2, <1>5 DEF TplTypeOK
  <1>7. MovesOn
    <2>1. \A s \in Remotes : remote[s].qty \in Int
      BY <1>2 DEF TplTypeOK, RemoteOrder
    <2> QED
      BY <1>1, <1>4, <1>5, <2>1 DEF MovesOn
  <1>8. \A j \in Transfers : RowOk(transfer, j)'
    BY <1>1, <1>6, <1>7, RowsStay
  <1>9. \A x \in TplWorkers : WorkOk(x)' /\ SnapOk(x)'
    BY <1>1, <1>6, <1>7, WorkStays DEF Alike
  <1>10. OrdersOk'
    <2>1. \A j \in Transfers : OrdersFor(j)' = OrdersFor(j)
      BY <1>4, <1>5 DEF OrdersFor
    <2>2. \A x \in TplWorkers, j \in Transfers : PushedBy(x, j)' = PushedBy(x, j)
      BY <1>1 DEF PushedBy
    <2> QED
      BY <1>1, <1>2, <2>1, <2>2 DEF OrdersOk
  <1>11. ToldOk'
    BY <1>1, <1>7, ToldAlone DEF Moved
  <1> QED
    BY <1>1, <1>6, <1>7, <1>8, <1>9, <1>10, <1>11 DEF TplInv, Demanded

LEMMA TplNextInv == TplInv /\ [TplNext]_tplvars => TplInv'
  <1> SUFFICES ASSUME TplInv, [TplNext]_tplvars PROVE TplInv'
    OBVIOUS
  <1>1. CASE UNCHANGED tplvars
    <2>1. TplTypeOK' /\ MovesOn
      BY <1>1, NobodyMoves DEF TplInv, TplTypeOK, tplvars
    <2>2. \A i \in Transfers : RowOk(transfer, i)'
      BY <1>1, <2>1, RowsStay DEF tplvars
    <2>3. \A w \in TplWorkers : WorkOk(w)' /\ SnapOk(w)'
      BY <1>1, <2>1, WorkStays DEF tplvars, Alike
    <2>4. OrdersOk' /\ ToldOk'
      BY <1>1, <2>1, OrdersStay, ToldAlone DEF tplvars, PushedBy, Moved
    <2> QED
      BY <1>1, <2>1, <2>2, <2>3, <2>4 DEF TplInv, Demanded, tplvars
  <1>2. CASE TplNext
    BY <1>2, CronKeeps, Commit3plKeeps, Lose3plKeeps, PushKeeps, UpdateButtonKeeps,
       CronUpdateKeeps, RecomputeKeeps, EnterDoneKeeps, ShipKeeps DEF TplNext
  <1> QED
    BY <1>1, <1>2

LEMMA TplInvShipped == TplInv => TplShipped
  <1> SUFFICES ASSUME TplInv PROVE TplShipped
    OBVIOUS
  <1>1. ASSUME NEW i \in Transfers \ lost PROVE Cardinality(OrdersFor(i)) <= 1
    <2>1. CASE OrdersFor(i) = {}
      BY <2>1, FS_EmptySet
    <2>2. CASE OrdersFor(i) # {}
      <3>1. PICK r \in OrdersFor(i) : \A s \in OrdersFor(i) : s = r
        BY <2>2 DEF TplInv, OrdersOk
      <3>2. OrdersFor(i) = {r}
        BY <3>1
      <3>3. Cardinality({r}) = 1
        BY FS_Singleton
      <3> QED
        BY <3>2, <3>3
    <2> QED
      BY <2>1, <2>2
  <1>2. TplQuantities
    BY DEF TplInv, TplQuantities, RowOk
  <1>3. TplTold
    BY DEF TplInv, TplTold, ToldOk, Due, MovingAll
  <1> QED
    BY <1>1, <1>2, <1>3 DEF TplShipped, TplOneOrder

(* What the warehouse ships, once for a transfer, is what was moved, and   *)
(* what the customer was told as long as no update was lost or failed.     *)
THEOREM TransfersShipped == TplSpec => []TplShipped
  <1>1. TplInv /\ [TplNext]_tplvars => TplInv'
    BY TplNextInv
  <1>2. TplInv => TplShipped
    BY TplInvShipped
  <1> QED
    BY <1>1, <1>2, TplInitInv, PTL DEF TplSpec

-----------------------------------------------------------------------------
(* Lightspeed.                                                             *)

(* The first n payments are registered, each once.                         *)
FirstPaid(v, n) == \A p \in Pays : v.paid[p] = IF p <= n THEN 1 ELSE 0

(* What an evaluation may find: half is whether a payment was registered   *)
(* before an evaluation broke off.                                         *)
LsSound(v, half) ==
    /\ v.orders = IF v.order.state = "none" THEN 0 ELSE 1
    /\ deposit => v.order.state = "none"
    /\ v.order.state # "sale" => v.invoice = "none"
    /\ v.order.state = "sale" /\ ~byHand => 1 \in completed /\ v.order.price = NPay
    /\ ~deposit /\ v.invoice # "posted" => FirstPaid(v, 0)
    /\ ~deposit /\ ~half => \E n \in 0..taken : FirstPaid(v, n) /\ (n = 0 \/ v.order.price <= n)
    /\ deposit => \A p \in Pays : v.paid[p] <= 1 /\ (v.paid[p] = 1 => p <= taken)
    /\ v.credit # "none" => v.invoice = "posted" /\ v.order.price <= Paid(v)

(* Nothing that counts in u is taken back in v.                            *)
LsFollows(u, v) ==
    /\ \A p \in Pays : u.paid[p] <= v.paid[p]
    /\ u.order.state = "sale" => v.order.state = "sale" /\ v.order.price = u.order.price
    /\ u.invoice = "posted" => v.invoice = "posted"

(* A feed tells what the shop did at some time.                            *)
Fed(f) == f.taken <= taken /\ (f.completed => 1 \in completed /\ f.taken = NPay)

LsWorld == NPay \in Nat \ {0} /\ taken \in 0..NPay /\ deposit \in BOOLEAN /\ byHand \in BOOLEAN

HalfPaid(r) == ~r[2] /\ Paid(r[1]) > 0 /\ Registers(r[1])

(* What a stage of an evaluation leaves of v.                              *)
Staged(v, half, r) ==
    /\ r[1] \in LsRows /\ r[2] \in BOOLEAN
    /\ r[1].feed = v.feed
    /\ LsFollows(v, r[1])
    /\ LsSound(r[1], half \/ HalfPaid(r))

LEMMA PaysFinite ==
    ASSUME NPay \in Nat
    PROVE  IsFiniteSet(Pays)
  BY FS_Interval DEF Pays

(* Who has registered the first n payments has n units.                    *)
LEMMA PaidOfFirst ==
    ASSUME NEW v \in LsRows, NPay \in Nat, NEW n \in 0..NPay, FirstPaid(v, n)
    PROVE  Paid(v) = n
  <1> DEFINE f == [m \in 0..NPay |-> [p \in Pays |-> IF p <= m THEN 1 ELSE 0]]
             Bad == {m \in Nat : m \in 0..NPay /\ SumFunctionOnSet(f[m], Pays) # m}
  <1>0. IsFiniteSet(Pays)
    BY PaysFinite
  <1>1. \A m \in 0..NPay : \A p \in Pays : f[m][p] = (IF p <= m THEN 1 ELSE 0) /\ f[m][p] \in Int
    OBVIOUS
  <1> HIDE DEF f
  <1>2. Bad = {}
    <2> SUFFICES ASSUME Bad # {} PROVE FALSE
      OBVIOUS
    <2>1. PICK m \in Bad : \A k \in Bad : m <= k
      <3>1. Bad \in SUBSET Nat
        OBVIOUS
      <3> HIDE DEF Bad
      <3> QED
        BY <3>1, LeastNatural
    <2>2. CASE m = 0
      <3>1. \A p \in Pays : f[0][p] = 0
        BY <1>1 DEF Pays
      <3> QED
        BY <3>1, <1>0, <2>2, SumZero
    <2>3. CASE m # 0
      <3>1. m \in Pays /\ m - 1 \in 0..NPay /\ m - 1 \in Nat /\ m - 1 \notin Bad /\ m \in 0..NPay
        BY <2>1, <2>3 DEF Pays
      <3>2. SumFunctionOnSet(f[m - 1], Pays) = m - 1
        BY <3>1
      <3>3. \A y \in Pays : f[m][y] \in Int /\ f[m - 1][y] \in Int
        BY <1>1, <3>1
      <3>4. \A y \in Pays \ {m} : f[m][y] = f[m - 1][y]
        BY <1>1, <3>1 DEF Pays
      <3>5. f[m][m] = 1 /\ f[m - 1][m] = 0
        BY <1>1, <3>1 DEF Pays
      <3>6. SumFunctionOnSet(f[m], Pays) = SumFunctionOnSet(f[m - 1], Pays) + f[m][m] - f[m - 1][m]
        BY <1>0, <3>1, <3>3, <3>4, SumChange
      <3> QED
        BY <3>1, <3>2, <3>5, <3>6
    <2> QED
      BY <2>2, <2>3
  <1>3. SumFunctionOnSet(f[n], Pays) = n
    BY <1>2
  <1>4. \A p \in Pays : f[n][p] \in Int /\ v.paid[p] = f[n][p]
    BY <1>1 DEF FirstPaid
  <1>5. SumFunctionOnSet(v.paid, Pays) = SumFunctionOnSet(f[n], Pays)
    BY <1>0, <1>4, SumSame
  <1> QED
    BY <1>3, <1>5 DEF Paid

(* More registered is more money.                                          *)
LEMMA PaidGrows ==
    ASSUME NEW u \in LsRows, NEW v \in LsRows, NPay \in Nat, \A p \in Pays : u.paid[p] <= v.paid[p]
    PROVE  Paid(u) \in Int /\ Paid(v) \in Int /\ Paid(u) <= Paid(v)
  <1>1. \A p \in Pays : u.paid[p] \in Int /\ v.paid[p] \in Int
    BY DEF LsRows
  <1>2. SumFunctionOnSet(u.paid, Pays) <= SumFunctionOnSet(v.paid, Pays)
    BY <1>1, PaysFinite, SumAtMost
  <1>3. SumFunctionOnSet(u.paid, Pays) \in Int /\ SumFunctionOnSet(v.paid, Pays) \in Int
    BY <1>1, PaysFinite, SumType
  <1> QED
    BY <1>2, <1>3 DEF Paid

LEMMA PaidInt ==
    ASSUME NEW v \in LsRows, NPay \in Nat
    PROVE  Paid(v) \in Int
  <1>1. \A p \in Pays : v.paid[p] <= v.paid[p]
    BY DEF LsRows
  <1> QED
    BY <1>1, PaidGrows

(* The fields of the rows.                                                 *)
LEMMA RowsOf ==
    ASSUME NEW v \in LsRows
    PROVE  /\ v.feed \in [LsSales -> FeedRow] /\ v.order \in OrderRow /\ v.orders \in Nat
           /\ v.invoice \in {"none", "draft", "posted"} /\ v.paid \in [Pays -> Nat]
           /\ v.credit \in {"none", "draft", "posted"}
           /\ v.order.state \in {"none", "draft", "sale"} /\ v.order.price \in 0..NPay
           /\ v.feed[1] \in FeedRow /\ v.feed[1].taken \in 0..NPay
           /\ v.feed[1].completed \in BOOLEAN
  BY DEF LsRows, OrderRow, FeedRow, LsSales

(* A stage that raises leaves what it had; one that ends says so.          *)
LEMMA RaisedOrWent ==
    ASSUME NEW v, NEW r
    PROVE  /\ r \in Raised(v) => r[1] = v /\ r[2] \in BOOLEAN /\ ~ r[2]
           /\ r \in Went(v) => r[1] = v /\ r[2] \in BOOLEAN /\ r[2]
  <1>1. ASSUME r \in Raised(v) PROVE r[1] = v /\ r[2] \in BOOLEAN /\ ~ r[2]
    <2>1. r = <<v, FALSE>>
      BY <1>1 DEF Raised
    <2>2. r[2] = FALSE
      BY <2>1
    <2> QED
      BY <2>1, <2>2
  <1>2. ASSUME r \in Went(v) PROVE r[1] = v /\ r[2] \in BOOLEAN /\ r[2]
    <2>1. r = <<v, TRUE>>
      BY <1>2 DEF Went
    <2>2. r[2] = TRUE
      BY <2>1
    <2> QED
      BY <2>1, <2>2
  <1> QED
    BY <1>1, <1>2

(* The order is created, written anew if it is a draft, or left.           *)
LEMMA OrderStage ==
    ASSUME LsWorld, NEW v \in LsRows, NEW half \in BOOLEAN, LsSound(v, half), ~deposit,
           NEW r \in WithOrder(v)
    PROVE  Staged(v, half, r) /\ LsSound(r[1], half)
  <1> DEFINE new == [NoOrderRow EXCEPT !.state = "draft", !.price = v.feed[1].taken]
             b == [v EXCEPT !.order = new]
             c == [b EXCEPT !.orders = v.orders + 1]
             a == [c EXCEPT !.invoice = "none"]
             made == IF ~Matching(v) THEN a
                     ELSE IF v.order.state = "draft" THEN b ELSE v
  <1>0. r \in Raised(v) \cup Went(made)
    BY DEF WithOrder
  <1> HIDE DEF made
  <1>1. (r[1] = v \/ r[1] = made) /\ r[2] \in BOOLEAN
    BY <1>0, RaisedOrWent
  <1>2. /\ r[2] \in BOOLEAN
        /\ \/ r[1] = v
           \/ v.order.state = "none" /\ r[1] = a
           \/ v.order.state = "draft" /\ r[1] = b
    <2> HIDE DEF a, b
    <2>1. \/ made = v
          \/ v.order.state = "none" /\ made = a
          \/ v.order.state = "draft" /\ made = b
      BY DEF made, Matching
    <2> QED
      BY <1>1, <2>1
  <1>3. new \in OrderRow /\ new.state = "draft"
    BY RowsOf DEF NoOrderRow, OrderRow
  <1> HIDE DEF new
  <1>4. /\ b \in LsRows /\ b.order = new /\ b.orders = v.orders /\ b.invoice = v.invoice
        /\ b.paid = v.paid /\ b.credit = v.credit /\ b.feed = v.feed
    BY <1>3 DEF LsRows
  <1> HIDE DEF b
  <1>5. /\ c \in LsRows /\ c.order = new /\ c.orders = v.orders + 1 /\ c.invoice = v.invoice
        /\ c.paid = v.paid /\ c.credit = v.credit /\ c.feed = v.feed
    BY <1>4, RowsOf DEF LsRows
  <1> HIDE DEF c
  <1>6. /\ a \in LsRows /\ a.order = new /\ a.orders = v.orders + 1 /\ a.invoice = "none"
        /\ a.paid = v.paid /\ a.credit = v.credit /\ a.feed = v.feed
    BY <1>5 DEF LsRows
  <1> HIDE DEF a
  <1>7. PICK u \in LsRows : u = r[1] /\ u.feed = v.feed /\ u.paid = v.paid /\ u.credit = v.credit
                         /\ \/ u = v
                            \/ /\ v.order.state # "sale" /\ u.order = new /\ u.invoice = "none"
                               /\ u.orders = IF v.order.state = "none" THEN v.orders + 1 ELSE v.orders
    <2>1. CASE r[1] = v
      BY <2>1
    <2>2. CASE v.order.state = "none" /\ r[1] = a
      BY <2>2, <1>6
    <2>3. CASE v.order.state = "draft" /\ r[1] = b
      <3>1. v.invoice = "none"
        BY <2>3 DEF LsSound
      <3> QED
        BY <2>3, <3>1, <1>4
    <2> QED
      BY <1>2, <2>1, <2>2, <2>3
  <1>8. Paid(u) = Paid(v)
    BY <1>7 DEF Paid
  <1>9. \A p \in Pays : v.paid[p] <= u.paid[p]
    BY <1>7 DEF LsRows
  <1>10. LsFollows(v, u)
    <2>1. v.invoice = "posted" => v.order.state = "sale"
      BY DEF LsSound
    <2> QED
      BY <1>7, <1>9, <2>1 DEF LsFollows
  <1>11. LsSound(u, half)
    <2>1. CASE u = v
      BY <2>1
    <2>2. CASE u # v
      <3>1. /\ u.order.state = "draft" /\ u.invoice = "none" /\ u.orders = 1 /\ u.credit = "none"
            /\ FirstPaid(u, 0)
        <4>1. v.invoice = "none" /\ v.orders = IF v.order.state = "none" THEN 0 ELSE 1
          BY <1>7, <2>2 DEF LsSound
        <4>2. v.order.state \in {"none", "draft"} /\ u.order = new /\ u.invoice = "none"
          BY <1>7, <2>2, RowsOf
        <4>3. FirstPaid(v, 0) /\ v.credit = "none"
          BY <4>1 DEF LsSound
        <4> QED
          BY <4>1, <4>2, <4>3, <1>3, <1>7, <2>2 DEF FirstPaid
      <3>2. 0 \in 0..taken
        BY DEF LsWorld
      <3> QED
        BY <3>1, <3>2 DEF LsSound
    <2> QED
      BY <2>1, <2>2
  <1>12. LsSound(u, half \/ HalfPaid(r))
    BY <1>11 DEF LsSound
  <1> QED
    BY <1>2, <1>7, <1>10, <1>11, <1>12 DEF Staged

LEMMA TrueResult ==
    ASSUME NEW v, NEW half \in BOOLEAN, NEW r, r[2] = TRUE, LsSound(r[1], half \/ HalfPaid(r))
    PROVE  LsSound(r[1], half)
  <1>1. half \/ HalfPaid(r) <=> half
    BY DEF HalfPaid
  <1> QED
    BY <1>1 DEF LsSound

(* A stage that keeps the rows sound, whether it raises or not.            *)
LEMMA SoundStage ==
    ASSUME NEW v \in LsRows, NEW half \in BOOLEAN, NEW r, r[1] \in LsRows, r[2] \in BOOLEAN,
           r[1].feed = v.feed, LsFollows(v, r[1]), LsSound(r[1], half)
    PROVE  Staged(v, half, r)
  <1>1. LsSound(r[1], half \/ HalfPaid(r))
    BY DEF LsSound
  <1> QED
    BY <1>1 DEF Staged

(* A stage that changes nothing.                                           *)
LEMMA Stays ==
    ASSUME NEW v \in LsRows, NEW half \in BOOLEAN, LsSound(v, half), NEW r, r[1] = v, r[2] \in BOOLEAN
    PROVE  Staged(v, half, r) /\ LsSound(r[1], half)
  <1>1. LsFollows(v, v)
    <2>1. \A p \in Pays : v.paid[p] <= v.paid[p]
      BY DEF LsRows
    <2> QED
      BY <2>1 DEF LsFollows
  <1> QED
    BY <1>1, SoundStage

(* One stage after another.                                                *)
LEMMA ThenStage ==
    ASSUME NEW v \in LsRows, NEW half \in BOOLEAN, NEW q, Staged(v, half, q),
           NEW r, Staged(q[1], half, r)
    PROVE  Staged(v, half, r)
  <1>1. \A p \in Pays : v.paid[p] <= r[1].paid[p]
    <2> TAKE p \in Pays
    <2>1. v.paid[p] <= q[1].paid[p] /\ q[1].paid[p] <= r[1].paid[p]
      BY DEF Staged, LsFollows
    <2>2. v.paid[p] \in Nat /\ q[1].paid[p] \in Nat /\ r[1].paid[p] \in Nat
      BY RowsOf DEF Staged
    <2> QED
      BY <2>1, <2>2
  <1>2. LsFollows(v, r[1])
    BY <1>1 DEF Staged, LsFollows
  <1> QED
    BY <1>2 DEF Staged

(* The stages of a completed sale.                                         *)
LEMMA ConfirmStage ==
    ASSUME LsWorld, NEW v \in LsRows, NEW half \in BOOLEAN, LsSound(v, half), ~deposit,
           Fed(v.feed[1]), v.feed[1].completed, NEW r \in Confirmed(v)
    PROVE  Staged(v, half, r) /\ LsSound(r[1], half)
  <1> DEFINE o == [v.order EXCEPT !.state = "sale"]
             u == [v EXCEPT !.order = o]
  <1>1. r[2] \in BOOLEAN /\ (r[1] = v \/ (v.order.state = "draft" /\ v.order.price = v.feed[1].taken /\ r[1] = u))
    <2> DEFINE x == [v EXCEPT !.order.state = "sale"]
    <2>1. x = u
      OBVIOUS
    <2> HIDE DEF u
    <2>2. r \in Raised(v) \/ r \in Went(v)
            \/ (v.order.state = "draft" /\ v.order.price = v.feed[1].taken /\ r \in Went(x))
      BY DEF Confirmed
    <2> HIDE DEF x
    <2> QED
      BY <2>1, <2>2, RaisedOrWent
  <1>2. o \in OrderRow /\ o.state = "sale" /\ o.price = v.order.price
    BY RowsOf DEF OrderRow
  <1> HIDE DEF o
  <1>3. /\ u \in LsRows /\ u.order = o /\ u.orders = v.orders /\ u.invoice = v.invoice
        /\ u.paid = v.paid /\ u.credit = v.credit /\ u.feed = v.feed
    BY <1>2 DEF LsRows
  <1> HIDE DEF u
  <1>4. CASE r[1] = v
    BY <1>1, <1>4, Stays
  <1>5. CASE v.order.state = "draft" /\ v.order.price = v.feed[1].taken /\ r[1] = u
    <2>1. LsFollows(v, u)
      <3>1. \A p \in Pays : v.paid[p] <= u.paid[p]
        BY <1>3 DEF LsRows
      <3>2. v.order.state # "sale"
        BY <1>5
      <3> QED
        BY <1>3, <3>1, <3>2 DEF LsFollows
    <2>2. u.invoice = "none" /\ u.orders = 1 /\ u.credit = "none" /\ FirstPaid(u, 0)
      <3>1. v.invoice = "none" /\ v.orders = 1
        BY <1>5 DEF LsSound
      <3>2. FirstPaid(v, 0) /\ v.credit = "none"
        BY <3>1 DEF LsSound
      <3> QED
        BY <1>3, <3>1, <3>2 DEF FirstPaid
    <2>3. 1 \in completed /\ u.order.price = NPay
      BY <1>2, <1>3, <1>5 DEF Fed
    <2>4. 0 \in 0..taken
      BY DEF LsWorld
    <2>5. LsSound(u, half)
      BY <1>2, <1>3, <2>2, <2>3, <2>4 DEF LsSound
    <2> QED
      BY <1>1, <1>3, <1>5, <2>1, <2>5, SoundStage
  <1> QED
    BY <1>1, <1>4, <1>5

LEMMA InvoiceStage ==
    ASSUME LsWorld, NEW v \in LsRows, NEW half \in BOOLEAN, LsSound(v, half), ~deposit,
           NEW r \in Invoiced(v)
    PROVE  /\ Staged(v, half, r) /\ LsSound(r[1], half)
           /\ r[2] => r[1].order.state = "sale"
  <1> DEFINE d == [v EXCEPT !.invoice = "draft"]
             e == [v EXCEPT !.invoice = "posted"]
  <1>1. /\ r[2] \in BOOLEAN
        /\ \/ r[1] = v /\ (r[2] => v.invoice # "none")
           \/ v.invoice = "none" /\ v.order.state = "sale" /\ (r[1] = d \/ r[1] = e)
    <2>1. \/ v.invoice # "none" /\ r \in Went(v)
          \/ r \in Raised(v)
          \/ v.invoice = "none" /\ v.order.state = "sale" /\ (r \in Raised(d) \/ r \in Went(e))
      BY DEF Invoiced
    <2> HIDE DEF d, e
    <2> QED
      BY <2>1, RaisedOrWent
  <1>2. /\ d \in LsRows /\ d.order = v.order /\ d.orders = v.orders /\ d.invoice = "draft"
        /\ d.paid = v.paid /\ d.credit = v.credit /\ d.feed = v.feed
    BY DEF LsRows
  <1>3. /\ e \in LsRows /\ e.order = v.order /\ e.orders = v.orders /\ e.invoice = "posted"
        /\ e.paid = v.paid /\ e.credit = v.credit /\ e.feed = v.feed
    BY DEF LsRows
  <1> HIDE DEF d, e
  <1>4. CASE r[1] = v /\ (r[2] => v.invoice # "none")
    <2>1. v.invoice # "none" => v.order.state = "sale"
      BY DEF LsSound
    <2> QED
      BY <1>1, <1>4, <2>1, Stays
  <1>5. CASE v.invoice = "none" /\ v.order.state = "sale" /\ (r[1] = d \/ r[1] = e)
    <2>1. PICK u \in LsRows : /\ u = r[1] /\ u.order = v.order /\ u.orders = v.orders
                              /\ u.paid = v.paid /\ u.credit = v.credit /\ u.feed = v.feed
                              /\ u.invoice \in {"draft", "posted"}
      BY <1>2, <1>3, <1>5
    <2>2. FirstPaid(v, 0) /\ v.credit = "none"
      BY <1>5 DEF LsSound
    <2>3. FirstPaid(u, 0)
      BY <2>1, <2>2 DEF FirstPaid
    <2>4. \A p \in Pays : v.paid[p] <= u.paid[p]
      BY <2>1 DEF LsRows
    <2>5. LsFollows(v, u)
      BY <1>5, <2>1, <2>4 DEF LsFollows
    <2>6. LsSound(u, half)
      <3>1. 0 \in 0..taken
        BY DEF LsWorld
      <3> QED
        BY <1>5, <2>1, <2>2, <2>3, <3>1 DEF LsSound
    <2> QED
      BY <1>1, <1>5, <2>1, <2>5, <2>6, SoundStage
  <1> QED
    BY <1>1, <1>4, <1>5

LEMMA PayStage ==
    ASSUME LsWorld, NEW v \in LsRows, NEW half \in BOOLEAN, LsSound(v, half), ~deposit,
           Fed(v.feed[1]), v.feed[1].completed, v.order.state = "sale", NEW r \in PaymentsMade(v)
    PROVE  /\ Staged(v, half, r) /\ (r[2] => LsSound(r[1], half))
           /\ r[2] /\ ~half /\ ~byHand => \A p \in Pays : r[1].paid[p] = 1
  <1> DEFINE k == v.feed[1].taken
             g(n) == Through(v, n)
             May(n) == CanPay(v, n)
  <1>0. k = NPay /\ k \in Nat /\ NPay \in Nat \ {0} /\ k <= taken /\ taken \in 0..NPay
    BY DEF Fed, LsWorld
  <1>1. \/ ~ Registers(v) /\ r \in Went(v)
        \/ Registers(v) /\ \E n \in 0..k : May(n) /\ r \in Raised(g(n))
        \/ Registers(v) /\ May(k) /\ r \in Went(g(k))
    <2> DEFINE early == UNION {Raised(g(n)) : n \in {m \in 0..k : May(m)}}
               all   == IF May(k) THEN Went(g(k)) ELSE {}
    <2>1. PaymentsMade(v) = IF ~ Registers(v) THEN Went(v) ELSE early \cup all
      BY DEF PaymentsMade
    <2> HIDE DEF g, May, k
    <2>2. CASE ~ Registers(v)
      BY <2>1, <2>2
    <2>3. CASE Registers(v) /\ r \in early
      <3>1. PICK n \in {m \in 0..k : May(m)} : r \in Raised(g(n))
        BY <2>3
      <3> QED
        BY <2>3, <3>1
    <2>4. CASE Registers(v) /\ r \in all
      <3>1. May(k)
        BY <2>4
      <3> QED
        BY <2>4, <3>1
    <2>5. r \in Went(v) \/ r \in early \/ r \in all
      <3> HIDE DEF early, all
      <3> QED
        BY <2>1
    <2>6. Registers(v) => r \in early \/ r \in all
      <3> HIDE DEF early, all
      <3> QED
        BY <2>1
    <2> HIDE DEF early, all
    <2> QED
      BY <2>2, <2>3, <2>4, <2>6
  <1>2. \A n \in 0..NPay :
          /\ g(n) \in LsRows /\ g(n).order = v.order /\ g(n).orders = v.orders
          /\ g(n).invoice = v.invoice /\ g(n).credit = v.credit /\ g(n).feed = v.feed
          /\ \A p \in Pays : g(n).paid[p] = v.paid[p] + IF p <= n THEN 1 ELSE 0
    BY DEF LsRows, Through
  <1> HIDE DEF g
  <1>3. Paid(v) \in Int /\ v.order.price \in 0..NPay /\ (Registers(v) <=> v.order.price > Paid(v))
    <2>1. Paid(v) \in Int /\ v.order.price \in 0..NPay
      BY <1>0, PaidInt, RowsOf
    <2> QED
      BY <2>1 DEF Registers, Residual
  <1>4. ASSUME ~ half
        PROVE  \E m \in 0..taken : FirstPaid(v, m) /\ (m = 0 \/ v.order.price <= m) /\ Paid(v) = m
    <2>1. PICK m \in 0..taken : FirstPaid(v, m) /\ (m = 0 \/ v.order.price <= m)
      BY <1>4 DEF LsSound
    <2>2. m \in 0..NPay
      BY <1>0
    <2> QED
      BY <1>0, <2>1, <2>2, PaidOfFirst
  <1>5. CASE ~ Registers(v) /\ r \in Went(v)
    <2>1. r[1] = v /\ r[2] /\ r[2] \in BOOLEAN
      BY <1>5, RaisedOrWent
    <2>2. Staged(v, half, r) /\ LsSound(r[1], half)
      BY <2>1, Stays
    <2>3. ASSUME ~ half, ~ byHand PROVE \A p \in Pays : v.paid[p] = 1
      <3>1. PICK m \in 0..taken : FirstPaid(v, m) /\ Paid(v) = m
        BY <1>4, <2>3
      <3>2. v.order.price = NPay
        BY <2>3 DEF LsSound
      <3>3. m = NPay
        BY <1>0, <1>3, <1>5, <3>1, <3>2
      <3> QED
        BY <3>1, <3>3, <1>0 DEF FirstPaid, Pays
    <2> QED
      BY <2>1, <2>2, <2>3
  <1>6. CASE /\ Registers(v)
             /\ \/ \E n \in 0..k : May(n) /\ r \in Raised(g(n))
                \/ May(k) /\ r \in Went(g(k))
    <2>1. PICK n \in 0..NPay : /\ r[1] = g(n) /\ r[2] \in BOOLEAN /\ (r[2] => n = NPay)
                               /\ May(n)
      <3>1. CASE \E n \in 0..k : May(n) /\ r \in Raised(g(n))
        <4>1. PICK n \in 0..k : May(n) /\ r \in Raised(g(n))
          BY <3>1
        <4>2. r[1] = g(n) /\ r[2] \in BOOLEAN /\ ~ r[2]
          BY <4>1, RaisedOrWent
        <4> QED
          BY <1>0, <4>1, <4>2
      <3>2. CASE May(k) /\ r \in Went(g(k))
        <4>1. r[1] = g(k) /\ r[2] \in BOOLEAN /\ r[2]
          BY <3>2, RaisedOrWent
        <4> QED
          BY <1>0, <3>2, <4>1
      <3> QED
        BY <1>6, <3>1, <3>2
    <2>2. PICK u \in LsRows :
            /\ u = r[1] /\ u.order = v.order /\ u.orders = v.orders
            /\ u.invoice = v.invoice /\ u.credit = v.credit /\ u.feed = v.feed
            /\ \A p \in Pays : u.paid[p] = v.paid[p] + IF p <= n THEN 1 ELSE 0
      BY <1>2, <2>1
    <2>3. v.invoice = "posted" \/ n = 0
      <3>1. n # 0 => 1 \in 1..n
        OBVIOUS
      <3> QED
        BY <2>1, <3>1 DEF CanPay
    <2>4. \A p \in Pays : v.paid[p] \in Nat /\ u.paid[p] \in Nat /\ v.paid[p] <= u.paid[p]
      <3> TAKE p \in Pays
      <3>1. v.paid[p] \in Nat /\ u.paid[p] \in Nat
        BY RowsOf
      <3> QED
        BY <2>2, <3>1
    <2>5. Paid(u) \in Int /\ Paid(v) <= Paid(u)
      BY <1>0, <2>4, PaidGrows
    <2>6. LsFollows(v, u)
      BY <2>2, <2>4 DEF LsFollows
    <2>7. ASSUME ~ half PROVE FirstPaid(u, n) /\ Paid(u) = n
      <3>1. PICK m \in 0..taken : FirstPaid(v, m) /\ (m = 0 \/ v.order.price <= m) /\ Paid(v) = m
        BY <1>4, <2>7
      <3>2. m = 0
        BY <1>3, <1>6, <3>1
      <3>3. FirstPaid(u, n)
        <4> SUFFICES ASSUME NEW p \in Pays PROVE u.paid[p] = IF p <= n THEN 1 ELSE 0
          BY DEF FirstPaid
        <4>1. v.paid[p] = 0
          BY <3>1, <3>2 DEF FirstPaid, Pays
        <4> QED
          BY <2>2, <4>1
      <3> QED
        BY <1>0, <3>3, PaidOfFirst
    <2>8. ~ (half \/ HalfPaid(r)) => \E i \in 0..taken : FirstPaid(u, i) /\ (i = 0 \/ u.order.price <= i)
      <3> SUFFICES ASSUME ~ half, ~ HalfPaid(r) PROVE n \in 0..taken /\ FirstPaid(u, n) /\ (n = 0 \/ u.order.price <= n)
        OBVIOUS
      <3>1. FirstPaid(u, n) /\ Paid(u) = n
        BY <2>7
      <3>2. r[2] => u.order.price <= n
        BY <1>3, <2>1, <2>2
      <3>3. ~ r[2] => ~ (n > 0 /\ u.order.price - n > 0)
        BY <2>2, <3>1 DEF HalfPaid, Registers, Residual
      <3> QED
        BY <1>0, <1>3, <2>2, <3>1, <3>2, <3>3
    <2>9. u.invoice # "posted" => FirstPaid(u, 0)
      <3> SUFFICES ASSUME u.invoice # "posted", NEW p \in Pays PROVE u.paid[p] = IF p <= 0 THEN 1 ELSE 0
        BY DEF FirstPaid
      <3>1. n = 0 /\ FirstPaid(v, 0)
        BY <2>2, <2>3 DEF LsSound
      <3>2. u.paid[p] = v.paid[p] + IF p <= 0 THEN 1 ELSE 0
        BY <2>2, <3>1
      <3>3. v.paid[p] = IF p <= 0 THEN 1 ELSE 0
        BY <3>1 DEF FirstPaid
      <3> QED
        BY <3>2, <3>3 DEF Pays
    <2>10. u.credit # "none" => u.invoice = "posted" /\ u.order.price <= Paid(u)
      <3>1. v.credit # "none" => v.invoice = "posted" /\ v.order.price <= Paid(v)
        BY DEF LsSound
      <3> QED
        BY <1>3, <2>2, <2>5, <3>1
    <2>11. LsSound(u, half \/ HalfPaid(r))
      <3>1. /\ u.orders = IF u.order.state = "none" THEN 0 ELSE 1
            /\ u.order.state = "sale" /\ ~byHand => 1 \in completed /\ u.order.price = NPay
        BY <2>2 DEF LsSound
      <3> QED
        BY <2>2, <2>8, <2>9, <2>10, <3>1 DEF LsSound
    <2>12. Staged(v, half, r)
      BY <2>1, <2>2, <2>6, <2>11 DEF Staged
    <2>13. r[2] => LsSound(r[1], half)
      BY <2>2, <2>11, TrueResult
    <2>14. ASSUME r[2], ~ half PROVE \A p \in Pays : u.paid[p] = 1
      BY <2>1, <2>7, <2>14 DEF FirstPaid, Pays
    <2> QED
      BY <2>2, <2>12, <2>13, <2>14
  <1> QED
    BY <1>1, <1>5, <1>6

LEMMA DeliverStage ==
    ASSUME LsWorld, NEW v \in LsRows, NEW half \in BOOLEAN, LsSound(v, half), ~deposit,
           NEW r \in Delivered(v)
    PROVE  Staged(v, half, r) /\ LsSound(r[1], half) /\ r[1].paid = v.paid
  <1> DEFINE o == [v.order EXCEPT !.shipped = TRUE]
             u == [v EXCEPT !.order = o]
  <1>1. r[2] \in BOOLEAN /\ (r[1] = v \/ r[1] = u)
    <2> DEFINE x == [v EXCEPT !.order.shipped = TRUE]
    <2>1. x = u
      OBVIOUS
    <2> HIDE DEF u
    <2>2. r \in Raised(v) \/ r \in Went(v) \/ r \in Went(x)
      BY DEF Delivered
    <2> HIDE DEF x
    <2> QED
      BY <2>1, <2>2, RaisedOrWent
  <1>2. o \in OrderRow /\ o.state = v.order.state /\ o.price = v.order.price
    BY RowsOf DEF OrderRow
  <1> HIDE DEF o
  <1>3. /\ u \in LsRows /\ u.order = o /\ u.orders = v.orders /\ u.invoice = v.invoice
        /\ u.paid = v.paid /\ u.credit = v.credit /\ u.feed = v.feed
    BY <1>2 DEF LsRows
  <1> HIDE DEF u
  <1>4. CASE r[1] = v
    BY <1>1, <1>4, Stays
  <1>5. CASE r[1] = u
    <2>1. \A p \in Pays : v.paid[p] <= u.paid[p]
      BY <1>3 DEF LsRows
    <2>2. LsFollows(v, u)
      BY <1>2, <1>3, <2>1 DEF LsFollows
    <2>3. Paid(u) = Paid(v) /\ \A n : FirstPaid(u, n) <=> FirstPaid(v, n)
      BY <1>3 DEF Paid, FirstPaid
    <2>4. LsSound(u, half)
      BY <1>2, <1>3, <2>3 DEF LsSound
    <2> QED
      BY <1>1, <1>3, <1>5, <2>2, <2>4, SoundStage
  <1> QED
    BY <1>1, <1>4, <1>5

(* The whole evaluation of a sale: when it ends, everything is paid.       *)
LEMMA SaleStage ==
    ASSUME LsWorld, NEW v \in LsRows, NEW half \in BOOLEAN, LsSound(v, half), ~deposit,
           Fed(v.feed[1]), NEW r \in SaleEvaluated(v)
    PROVE  /\ Staged(v, half, r)
           /\ r[2] /\ v.feed[1].completed /\ ~half /\ ~byHand => \A p \in Pays : r[1].paid[p] = 1
  <1>1. PICK q \in WithOrder(v) :
          IF ~ q[2] THEN r = q
          ELSE IF ~ q[1].feed[1].completed THEN r \in Went(q[1])
          ELSE r \in AfterIt(AfterIt(AfterIt(Confirmed(q[1]), Invoiced), PaymentsMade), Delivered)
    BY DEF SaleEvaluated, AfterIt
  <1>2. Staged(v, half, q) /\ LsSound(q[1], half) /\ q[2] \in BOOLEAN /\ q[1] \in LsRows /\ q[1].feed = v.feed
    BY OrderStage DEF Staged
  <1>3. CASE ~ q[2]
    BY <1>1, <1>2, <1>3
  <1>4. CASE q[2] /\ ~ q[1].feed[1].completed
    <2>1. r \in Went(q[1])
      BY <1>1, <1>4
    <2>2. r[1] = q[1] /\ r[2] \in BOOLEAN
      BY <2>1, RaisedOrWent
    <2>3. Staged(q[1], half, r)
      BY <1>2, <2>2, Stays
    <2> QED
      BY <1>2, <1>4, <2>3, ThenStage
  <1>5. CASE q[2] /\ q[1].feed[1].completed
    <2>0. v.feed[1].completed /\ Fed(q[1].feed[1])
      BY <1>2, <1>5
    <2>1. PICK c \in AfterIt(AfterIt(Confirmed(q[1]), Invoiced), PaymentsMade) :
            IF c[2] THEN r \in Delivered(c[1]) ELSE r = c
      BY <1>1, <1>5 DEF AfterIt
    <2>2. PICK b \in AfterIt(Confirmed(q[1]), Invoiced) :
            IF b[2] THEN c \in PaymentsMade(b[1]) ELSE c = b
      BY DEF AfterIt
    <2>3. PICK a \in Confirmed(q[1]) :
            IF a[2] THEN b \in Invoiced(a[1]) ELSE b = a
      BY DEF AfterIt
    <2>4. Staged(v, half, a) /\ LsSound(a[1], half) /\ a[2] \in BOOLEAN /\ a[1] \in LsRows /\ a[1].feed = v.feed
      <3>1. Staged(q[1], half, a) /\ LsSound(a[1], half)
        BY <1>2, <1>5, <2>0, ConfirmStage
      <3> QED
        BY <1>2, <3>1, ThenStage DEF Staged
    <2>5. /\ Staged(v, half, b) /\ LsSound(b[1], half) /\ b[2] \in BOOLEAN
          /\ b[1] \in LsRows /\ b[1].feed = v.feed
          /\ b[2] => b[1].order.state = "sale"
      <3>1. CASE ~ a[2]
        BY <2>3, <2>4, <3>1
      <3>2. CASE a[2]
        <4>1. Staged(a[1], half, b) /\ LsSound(b[1], half) /\ (b[2] => b[1].order.state = "sale")
          BY <2>3, <2>4, <3>2, InvoiceStage
        <4> QED
          BY <2>4, <4>1, ThenStage DEF Staged
      <3> QED
        BY <3>1, <3>2
    <2>6. /\ Staged(v, half, c) /\ (c[2] => LsSound(c[1], half)) /\ c[2] \in BOOLEAN
          /\ c[1] \in LsRows /\ c[1].feed = v.feed
          /\ c[2] /\ ~half /\ ~byHand => \A p \in Pays : c[1].paid[p] = 1
      <3>1. CASE ~ b[2]
        BY <2>2, <2>5, <3>1
      <3>2. CASE b[2]
        <4>0. Fed(b[1].feed[1]) /\ b[1].feed[1].completed /\ b[1].order.state = "sale"
          BY <1>2, <2>0, <2>5, <3>2
        <4>1. /\ Staged(b[1], half, c) /\ (c[2] => LsSound(c[1], half))
              /\ c[2] /\ ~half /\ ~byHand => \A p \in Pays : c[1].paid[p] = 1
          BY <2>2, <2>5, <3>2, <4>0, PayStage
        <4> QED
          BY <2>5, <4>1, ThenStage DEF Staged
      <3> QED
        BY <3>1, <3>2
    <2>7. CASE ~ c[2]
      BY <2>1, <2>6, <2>7
    <2>8. CASE c[2]
      <3>1. Staged(c[1], half, r) /\ r[1].paid = c[1].paid
        BY <2>1, <2>6, <2>8, DeliverStage
      <3> QED
        BY <2>6, <2>8, <3>1, ThenStage
    <2> QED
      BY <2>6, <2>7, <2>8
  <1> QED
    BY <1>1, <1>3, <1>4, <1>5


(* A deposit has one payment registered, and no order.                     *)
LEMMA DepositStage ==
    ASSUME LsWorld, NEW v \in LsRows, NEW half \in BOOLEAN, LsSound(v, half), deposit,
           Fed(v.feed[1]), NEW r \in DepositEvaluated(v)
    PROVE  Staged(v, half, r)
  <1> DEFINE k == v.feed[1].taken
             u == [v EXCEPT !.paid[k] = 1]
             x == [v EXCEPT !.paid = [@ EXCEPT ![k] = 1]]
             f == [v.paid EXCEPT ![k] = 1]
  <1>1. r[2] \in BOOLEAN /\ (r[1] = v \/ (k # 0 /\ ~ (Paid(v) > 0) /\ r[1] = u))
    <2>1. \/ r \in Raised(v) \/ r \in Went(v)
          \/ k # 0 /\ ~ (Paid(v) > 0) /\ (r \in Raised(u) \/ r \in Went(u))
      BY DEF DepositEvaluated
    <2> HIDE DEF u
    <2> QED
      BY <2>1, RaisedOrWent
  <1>2. CASE r[1] = v
    BY <1>1, <1>2, Stays
  <1>3. CASE k # 0 /\ r[1] = u
    <2>1. k \in Pays /\ k <= taken
      BY <1>3, RowsOf DEF Fed, Pays
    <2>2. f \in [Pays -> Nat] /\ \A p \in Pays : f[p] = IF p = k THEN 1 ELSE v.paid[p]
      BY <2>1, RowsOf
    <2>3. u = [v EXCEPT !.paid = f]
      OBVIOUS
    <2> HIDE DEF k, f, u
    <2>4. /\ u \in LsRows /\ u.order = v.order /\ u.orders = v.orders /\ u.invoice = v.invoice
          /\ u.paid = f /\ u.credit = v.credit /\ u.feed = v.feed
      BY <2>2, <2>3 DEF LsRows
    <2>5. \A p \in Pays : v.paid[p] <= 1 /\ (v.paid[p] = 1 => p <= taken) /\ v.paid[p] \in Nat
      BY RowsOf DEF LsSound
    <2>6. \A p \in Pays : /\ v.paid[p] <= u.paid[p] /\ u.paid[p] <= 1
                          /\ u.paid[p] = 1 => p <= taken
      BY <2>1, <2>2, <2>4, <2>5
    <2>7. LsFollows(v, u)
      BY <2>4, <2>6 DEF LsFollows
    <2>8. v.order.state = "none" /\ v.orders = 0 /\ v.invoice = "none" /\ v.credit = "none"
      <3>1. v.order.state = "none" /\ v.orders = 0 /\ v.invoice = "none"
        BY DEF LsSound
      <3> QED
        BY <3>1 DEF LsSound
    <2>9. LsSound(u, half)
      BY <2>4, <2>6, <2>8 DEF LsSound
    <2> QED
      BY <1>1, <1>3, <2>4, <2>7, <2>9, SoundStage
  <1> QED
    BY <1>1, <1>2, <1>3

(* A return changes the credit note and nothing else.                      *)
LEMMA RefundStage ==
    ASSUME LsWorld, NEW v \in LsRows, NEW half \in BOOLEAN, LsSound(v, half),
           NEW r \in RefundEvaluated(v)
    PROVE  /\ Staged(v, half, r) /\ LsSound(r[1], half)
           /\ r[1].paid = v.paid /\ r[1].order = v.order
  <1> DEFINE d == [v EXCEPT !.credit = "draft"]
             e == [v EXCEPT !.credit = "posted"]
  <1>1. /\ r[2] \in BOOLEAN
        /\ r[1] = v \/ ((Creditable(v) \/ v.credit = "draft") /\ (r[1] = d \/ r[1] = e))
    <2>1. r \in Raised(v) \/ r \in Went(v)
            \/ ((Creditable(v) \/ v.credit = "draft") /\ (r \in Raised(d) \/ r \in Went(e)))
      BY DEF RefundEvaluated
    <2> HIDE DEF d, e
    <2> QED
      BY <2>1, RaisedOrWent
  <1>2. CASE r[1] = v
    BY <1>1, <1>2, Stays
  <1>3. CASE (Creditable(v) \/ v.credit = "draft") /\ (r[1] = d \/ r[1] = e)
    <2>1. PICK u \in LsRows : /\ u = r[1] /\ u.order = v.order /\ u.orders = v.orders
                              /\ u.paid = v.paid /\ u.invoice = v.invoice /\ u.feed = v.feed
      BY <1>3 DEF LsRows
    <2>2. v.invoice = "posted" /\ v.order.price <= Paid(v)
      <3>1. CASE Creditable(v)
        <4>1. Paid(v) \in Int /\ v.order.price \in 0..NPay
          BY PaidInt, RowsOf DEF LsWorld
        <4> QED
          BY <3>1, <4>1 DEF Creditable, Registers, Residual, LsWorld
      <3>2. CASE v.credit = "draft"
        BY <3>2 DEF LsSound
      <3> QED
        BY <1>3, <3>1, <3>2
    <2>3. Paid(u) = Paid(v) /\ \A n : FirstPaid(u, n) <=> FirstPaid(v, n)
      BY <2>1 DEF Paid, FirstPaid
    <2>4. \A p \in Pays : v.paid[p] <= u.paid[p]
      BY <2>1 DEF LsRows
    <2>5. LsFollows(v, u)
      BY <2>1, <2>4 DEF LsFollows
    <2>6. LsSound(u, half)
      BY <2>1, <2>2, <2>3 DEF LsSound
    <2> QED
      BY <1>1, <2>1, <2>5, <2>6, SoundStage
  <1> QED
    BY <1>1, <1>2, <1>3

(* What evaluate_feed makes of a feed.                                     *)
LEMMA EvaluatedStage ==
    ASSUME LsWorld, NEW v \in LsRows, NEW half \in BOOLEAN, LsSound(v, half), Fed(v.feed[1]),
           NEW s \in LsSales, NEW e \in Evaluated(v, s)
    PROVE  /\ e[1] \in LsRows /\ e[2] \in BOOLEAN /\ LsFollows(v, e[1])
           /\ LsSound(e[1], half \/ HalfPaid(e))
           /\ Fed(e[1].feed[1])
           /\ s = 2 => LsSound(e[1], half) /\ e[1].paid = v.paid /\ e[1].order = v.order
                       /\ e[1].feed[1] = v.feed[1]
           /\ s = 1 /\ e[1].feed[1].state = "done" /\ e[1].feed[1].completed
                 /\ ~deposit /\ ~half /\ ~byHand => \A p \in Pays : e[1].paid[p] = 1
  <1> DEFINE results == IF s = 2 THEN RefundEvaluated(v)
                        ELSE IF deposit THEN DepositEvaluated(v) ELSE SaleEvaluated(v)
  <1>1. PICK r \in results :
          e = <<[r[1] EXCEPT !.feed[s].state = IF r[2] THEN "done" ELSE "error"], r[2]>>
    BY DEF Evaluated
  <1>2. /\ Staged(v, half, r)
        /\ s = 2 => LsSound(r[1], half) /\ r[1].paid = v.paid /\ r[1].order = v.order
        /\ s = 1 /\ r[2] /\ v.feed[1].completed /\ ~deposit /\ ~half /\ ~byHand
              => \A p \in Pays : r[1].paid[p] = 1
    <2>1. CASE s = 2
      BY <1>1, <2>1, RefundStage
    <2>2. CASE s = 1 /\ deposit
      BY <1>1, <2>2, DepositStage
    <2>3. CASE s = 1 /\ ~ deposit
      BY <1>1, <2>3, SaleStage
    <2> QED
      BY <2>1, <2>2, <2>3 DEF LsSales
  <1>3. r[1] \in LsRows /\ r[1].feed = v.feed /\ r[2] \in BOOLEAN /\ LsFollows(v, r[1])
    BY <1>2 DEF Staged
  <1> HIDE DEF results
  <1> DEFINE st == IF r[2] THEN "done" ELSE "error"
             row == [v.feed[s] EXCEPT !.state = st]
             fs == [v.feed EXCEPT ![s] = row]
             a == r[1]
             u == [a EXCEPT !.feed = fs]
  <1>4. e[1] = u /\ e[2] = r[2]
    <2>1. e[1] = [a EXCEPT !.feed[s].state = st] /\ e[2] = r[2]
      BY <1>1
    <2>2. a.feed = v.feed
      BY <1>3
    <2> HIDE DEF a, st
    <2>3. [a EXCEPT !.feed[s].state = st] = [a EXCEPT !.feed = [a.feed EXCEPT ![s] = [a.feed[s] EXCEPT !.state = st]]]
      OBVIOUS
    <2> QED
      BY <2>1, <2>2, <2>3
  <1>5. st \in {"done", "error"} /\ (st = "done" => r[2])
    OBVIOUS
  <1>6. a \in LsRows /\ a.feed = v.feed
    BY <1>3
  <1> HIDE DEF st, a
  <1>7. row \in FeedRow /\ row.state = st /\ row.taken = v.feed[s].taken /\ row.completed = v.feed[s].completed
    <2>1. v.feed[s] \in FeedRow
      BY RowsOf
    <2> QED
      BY <1>5, <2>1 DEF FeedRow
  <1> HIDE DEF row
  <1>8. fs \in [LsSales -> FeedRow] /\ fs[s] = row /\ (s = 2 => fs[1] = v.feed[1])
    BY <1>7, RowsOf DEF LsSales
  <1> HIDE DEF fs
  <1>9. /\ u \in LsRows /\ u.feed = fs /\ u.order = a.order /\ u.orders = a.orders
        /\ u.invoice = a.invoice /\ u.paid = a.paid /\ u.credit = a.credit
    BY <1>6, <1>8 DEF LsRows
  <1> HIDE DEF u
  <1>10. LsFollows(v, u)
    BY <1>3, <1>9 DEF LsFollows, a
  <1>11. Paid(u) = Paid(a) /\ (HalfPaid(e) <=> HalfPaid(r)) /\ \A n : FirstPaid(u, n) <=> FirstPaid(a, n)
    <2>1. Paid(u) = Paid(a) /\ \A n : FirstPaid(u, n) <=> FirstPaid(a, n)
      BY <1>9 DEF Paid, FirstPaid
    <2>2. Registers(u) <=> Registers(a)
      BY <1>9, <2>1 DEF Registers, Residual
    <2>3. HalfPaid(e) <=> HalfPaid(r)
      BY <1>4, <2>1, <2>2 DEF HalfPaid, a
    <2> QED
      BY <2>1, <2>3
  <1>12. \A h \in BOOLEAN : LsSound(a, h) => LsSound(u, h)
    BY <1>9, <1>11 DEF LsSound
  <1>13. LsSound(u, half \/ HalfPaid(e))
    <2>1. LsSound(a, half \/ HalfPaid(r))
      BY <1>2 DEF Staged, a
    <2>2. LsSound(u, half \/ HalfPaid(r))
      BY <1>9, <1>11, <2>1 DEF LsSound
    <2> QED
      BY <1>11, <2>2 DEF LsSound
  <1>14. Fed(u.feed[1])
    <2>1. s = 1 \/ s = 2
      BY DEF LsSales
    <2> QED
      BY <1>7, <1>8, <1>9, <2>1 DEF Fed
  <1>15. s = 2 => LsSound(u, half) /\ u.paid = v.paid /\ u.order = v.order /\ u.feed[1] = v.feed[1]
    BY <1>2, <1>8, <1>9, <1>12 DEF a
  <1>16. s = 1 /\ u.feed[1].state = "done" /\ u.feed[1].completed
                 /\ ~deposit /\ ~half /\ ~byHand => \A p \in Pays : u.paid[p] = 1
    <2> SUFFICES ASSUME s = 1, u.feed[1].state = "done", u.feed[1].completed, ~deposit, ~half, ~byHand
                 PROVE  \A p \in Pays : u.paid[p] = 1
      OBVIOUS
    <2>1. r[2] /\ v.feed[1].completed
      BY <1>5, <1>7, <1>8, <1>9
    <2> QED
      BY <1>2, <1>9, <2>1 DEF a
  <1> QED
    BY <1>3, <1>4, <1>9, <1>10, <1>13, <1>14, <1>15, <1>16

(* PostgreSQL merges two sound developments of a snapshot into sound rows, *)
(* which have grown out of both.                                           *)
LEMMA MergeSound ==
    ASSUME LsWorld, NEW half \in BOOLEAN, NEW h \in BOOLEAN, half => h,
           NEW u \in LsRows, NEW v \in LsRows, NEW now \in LsRows, NEW S,
           LsSound(u, half), LsSound(v, h), LsSound(now, half), LsFollows(u, v), LsFollows(u, now),
           Compatible(u, v, now)
    PROVE  LET m == Merge(u, v, now, S)
           IN m \in LsRows /\ LsSound(m, h) /\ LsFollows(now, m) /\ LsFollows(v, m)
  <1> DEFINE m == Merge(u, v, now, S)
  <1>1. /\ m.feed = [s \in LsSales |-> IF s \in S THEN v.feed[s] ELSE now.feed[s]]
        /\ m.order = Ours(u.order, v.order, now.order)
        /\ m.orders = Ours(u.orders, v.orders, now.orders)
        /\ m.invoice = Ours(u.invoice, v.invoice, now.invoice)
        /\ m.paid = Ours(u.paid, v.paid, now.paid)
        /\ m.credit = Ours(u.credit, v.credit, now.credit)
        /\ m = [feed |-> m.feed, order |-> m.order, orders |-> m.orders,
                invoice |-> m.invoice, paid |-> m.paid, credit |-> m.credit]
    BY DEF Merge
  <1> HIDE DEF m
  <1>2. m \in LsRows
    <2>1. m.feed \in [LsSales -> FeedRow]
      BY <1>1, RowsOf
    <2>2. m.order \in OrderRow /\ m.orders \in Nat /\ m.invoice \in {"none", "draft", "posted"}
          /\ m.paid \in [Pays -> Nat] /\ m.credit \in {"none", "draft", "posted"}
      BY <1>1, RowsOf DEF Ours
    <2> QED
      BY <1>1, <2>1, <2>2 DEF LsRows
  <1>3. /\ (m.order = v.order /\ now.order = u.order) \/ (m.order = now.order /\ v.order = u.order)
        /\ (m.orders = v.orders /\ now.orders = u.orders) \/ (m.orders = now.orders /\ v.orders = u.orders)
        /\ (m.invoice = v.invoice /\ now.invoice = u.invoice) \/ (m.invoice = now.invoice /\ v.invoice = u.invoice)
        /\ (m.paid = v.paid /\ now.paid = u.paid) \/ (m.paid = now.paid /\ v.paid = u.paid)
        /\ (m.credit = v.credit /\ now.credit = u.credit) \/ (m.credit = now.credit /\ v.credit = u.credit)
    BY <1>1 DEF Ours, Compatible, Fits
  <1>4. \A p \in Pays : /\ u.paid[p] \in Nat /\ v.paid[p] \in Nat /\ now.paid[p] \in Nat /\ m.paid[p] \in Nat
                        /\ v.paid[p] <= m.paid[p] /\ now.paid[p] <= m.paid[p]
    <2> TAKE p \in Pays
    <2>1. u.paid[p] \in Nat /\ v.paid[p] \in Nat /\ now.paid[p] \in Nat /\ m.paid[p] \in Nat
      BY <1>2, RowsOf
    <2>2. u.paid[p] <= v.paid[p] /\ u.paid[p] <= now.paid[p]
      BY DEF LsFollows
    <2> QED
      BY <1>3, <2>1, <2>2
  <1>5. /\ u.order.state = "sale" => /\ v.order.state = "sale" /\ now.order.state = "sale"
                                     /\ v.order.price = u.order.price /\ now.order.price = u.order.price
        /\ u.invoice = "posted" => v.invoice = "posted" /\ now.invoice = "posted"
    BY DEF LsFollows
  <1>6. /\ v.order.state = "sale" => m.order.state = "sale" /\ m.order.price = v.order.price
        /\ now.order.state = "sale" => m.order.state = "sale" /\ m.order.price = now.order.price
        /\ v.invoice = "posted" => m.invoice = "posted"
        /\ now.invoice = "posted" => m.invoice = "posted"
    BY <1>3, <1>5
  <1>7. LsFollows(now, m) /\ LsFollows(v, m)
    BY <1>4, <1>6 DEF LsFollows
  <1>8. Paid(v) <= Paid(m) /\ Paid(now) <= Paid(m) /\ Paid(v) \in Int /\ Paid(now) \in Int /\ Paid(m) \in Int
    BY <1>2, <1>4, PaidGrows DEF LsWorld
  <1>9. /\ v.order.state # "sale" => v.invoice = "none"
        /\ now.order.state # "sale" => now.invoice = "none"
        /\ v.credit # "none" => v.invoice = "posted" /\ v.order.price <= Paid(v)
        /\ now.credit # "none" => now.invoice = "posted" /\ now.order.price <= Paid(now)
        /\ v.orders = IF v.order.state = "none" THEN 0 ELSE 1
        /\ now.orders = IF now.order.state = "none" THEN 0 ELSE 1
    BY DEF LsSound
  <1>10. m.order.price \in 0..NPay /\ v.order.price \in 0..NPay /\ now.order.price \in 0..NPay
    BY <1>2, RowsOf
  <1>11. m.orders = IF m.order.state = "none" THEN 0 ELSE 1
    <2>1. u.orders = IF u.order.state = "none" THEN 0 ELSE 1
      BY DEF LsSound
    <2> QED
      BY <1>3, <1>9, <2>1
  <1>12. m.order.state # "sale" => m.invoice = "none"
    BY <1>3, <1>6, <1>9
  <1>13. m.credit # "none" => m.invoice = "posted" /\ m.order.price <= Paid(m)
    <2>1. CASE m.credit = v.credit /\ v.credit # "none"
      <3>1. v.order.state = "sale"
        BY <1>9, <2>1
      <3> QED
        BY <1>6, <1>8, <1>9, <1>10, <2>1, <3>1 DEF LsWorld
    <2>2. CASE m.credit = now.credit /\ now.credit # "none"
      <3>1. now.order.state = "sale"
        BY <1>9, <2>2
      <3> QED
        BY <1>6, <1>8, <1>9, <1>10, <2>2, <3>1 DEF LsWorld
    <2> QED
      BY <1>3, <2>1, <2>2
  <1>14. (deposit => m.order.state = "none") /\ (m.order.state = "sale" /\ ~byHand => 1 \in completed /\ m.order.price = NPay)
    <2>1. /\ deposit => v.order.state = "none" /\ now.order.state = "none"
          /\ v.order.state = "sale" /\ ~byHand => 1 \in completed /\ v.order.price = NPay
          /\ now.order.state = "sale" /\ ~byHand => 1 \in completed /\ now.order.price = NPay
      BY DEF LsSound
    <2> QED
      BY <1>3, <2>1
  <1>15. ~deposit /\ m.invoice # "posted" => FirstPaid(m, 0)
    <2> SUFFICES ASSUME ~ deposit, m.invoice # "posted" PROVE FirstPaid(m, 0)
      OBVIOUS
    <2>1. v.invoice # "posted" /\ now.invoice # "posted"
      BY <1>6
    <2>2. FirstPaid(v, 0) /\ FirstPaid(now, 0)
      BY <2>1 DEF LsSound
    <2> QED
      BY <1>3, <2>2 DEF FirstPaid
  <1>16. ~deposit /\ ~h => \E n \in 0..taken : FirstPaid(m, n) /\ (n = 0 \/ m.order.price <= n)
    <2> SUFFICES ASSUME ~ deposit, ~ h
                 PROVE  \E n \in 0..taken : FirstPaid(m, n) /\ (n = 0 \/ m.order.price <= n)
      OBVIOUS
    <2>1. PICK n \in 0..taken : FirstPaid(v, n) /\ (n = 0 \/ v.order.price <= n)
      BY DEF LsSound
    <2>2. PICK k \in 0..taken : FirstPaid(now, k) /\ (k = 0 \/ now.order.price <= k)
      BY DEF LsSound
    <2>3. CASE m.paid = v.paid
      <3>1. FirstPaid(m, n)
        BY <2>1, <2>3 DEF FirstPaid
      <3>2. n = 0 \/ v.order.state = "sale"
        <4> SUFFICES ASSUME n # 0, v.order.state # "sale" PROVE FALSE
          OBVIOUS
        <4>1. FirstPaid(v, 0)
          <5>1. v.invoice # "posted"
            BY <1>9
          <5> QED
            BY <5>1 DEF LsSound
        <4>2. 1 \in Pays /\ 1 <= n
          BY DEF Pays, LsWorld
        <4> QED
          BY <2>1, <4>1, <4>2 DEF FirstPaid
      <3> QED
        BY <1>6, <2>1, <3>1, <3>2
    <2>4. CASE m.paid = now.paid
      <3>1. FirstPaid(m, k)
        BY <2>2, <2>4 DEF FirstPaid
      <3>2. k = 0 \/ now.order.state = "sale"
        <4> SUFFICES ASSUME k # 0, now.order.state # "sale" PROVE FALSE
          OBVIOUS
        <4>1. FirstPaid(now, 0)
          <5>1. now.invoice # "posted"
            BY <1>9
          <5> QED
            BY <5>1 DEF LsSound
        <4>2. 1 \in Pays /\ 1 <= k
          BY DEF Pays, LsWorld
        <4> QED
          BY <2>2, <4>1, <4>2 DEF FirstPaid
      <3> QED
        BY <1>6, <2>2, <3>1, <3>2
    <2> QED
      BY <1>3, <2>3, <2>4
  <1>17. deposit => \A p \in Pays : m.paid[p] <= 1 /\ (m.paid[p] = 1 => p <= taken)
    <2>1. deposit => \A p \in Pays : /\ v.paid[p] <= 1 /\ (v.paid[p] = 1 => p <= taken)
                                     /\ now.paid[p] <= 1 /\ (now.paid[p] = 1 => p <= taken)
      BY DEF LsSound
    <2> QED
      BY <1>3, <2>1
  <1>18. LsSound(m, h)
    BY <1>11, <1>12, <1>13, <1>14, <1>15, <1>16, <1>17 DEF LsSound
  <1> QED
    BY <1>2, <1>7, <1>18 DEF m


(* What is committed is sound and has grown out of every snapshot.         *)
LsInv ==
    /\ LsTypeOK
    /\ 1 \in completed => taken = NPay
    /\ LsSound(rows, halfPaid) /\ Fed(rows.feed[1])
    /\ rows.feed[1].state = "done" /\ rows.feed[1].completed /\ ~deposit /\ ~halfPaid /\ ~byHand
          => \A p \in Pays : rows.paid[p] = 1
    /\ \A w \in LsWorkers : lsc[w] # {} =>
          /\ LsSound(lsnap[w], halfPaid) /\ LsFollows(lsnap[w], rows)
          /\ Fed(fetched[w][1])

(* The invariant says more than the property.                              *)
LEMMA LsMoneyHolds ==
    ASSUME LsInv
    PROVE  LsMoney
  <1>1. /\ rows \in LsRows /\ NPay \in Nat \ {0} /\ taken \in 0..NPay /\ LsSound(rows, halfPaid)
        /\ rows.order.price \in 0..NPay
    BY LsAssumption, RowsOf DEF LsInv, LsTypeOK
  <1>2. rows.orders <= 1
    BY <1>1 DEF LsSound
  <1>3. ASSUME ~ halfPaid PROVE \A p \in Pays : rows.paid[p] <= 1 /\ (rows.paid[p] = 1 => p <= taken)
    <2>1. CASE deposit
      BY <1>1, <2>1 DEF LsSound
    <2>2. CASE ~ deposit
      <3>1. PICK n \in 0..taken : FirstPaid(rows, n)
        BY <1>1, <1>3, <2>2 DEF LsSound
      <3> QED
        BY <1>1, <3>1 DEF FirstPaid, Pays
    <2> QED
      BY <2>1, <2>2
  <1>4. LsPaidOnce
    BY <1>2, <1>3 DEF LsPaidOnce, LsInv
  <1>5. Paid(rows) \in Int
    BY <1>1, PaidInt
  <1>6. LsCredited
    <2>1. rows.invoice # "none" => rows.order.state = "sale"
      BY <1>1 DEF LsSound
    <2>2. rows.invoice # "none" /\ ~byHand => 1 \in completed /\ rows.order.price = NPay
      BY <1>1, <2>1 DEF LsSound
    <2>3. rows.credit # "none" => rows.invoice = "posted" /\ Paid(rows) >= rows.order.price
      BY <1>1, <1>5 DEF LsSound
    <2> QED
      BY <2>2, <2>3 DEF LsCredited
  <1> QED
    BY <1>4, <1>6 DEF LsMoney

LEMMA LsStarts == LsInit => LsInv
  <1> SUFFICES ASSUME LsInit PROVE LsInv
    OBVIOUS
  <1>0. NPay \in Nat \ {0}
    BY LsAssumption
  <1>1. NoFeeds \in [LsSales -> FeedRow] /\ NoFeeds[1] = [state |-> "none", taken |-> 0, completed |-> FALSE]
    BY <1>0 DEF NoFeeds, FeedRow, LsSales
  <1>2. NoOrderRow \in OrderRow /\ NoOrderRow.state = "none" /\ NoOrderRow.price = 0
    BY <1>0 DEF NoOrderRow, OrderRow
  <1>3. NoRows \in LsRows /\ NoRows.feed = NoFeeds /\ NoRows.order = NoOrderRow /\ NoRows.orders = 0
        /\ NoRows.invoice = "none" /\ NoRows.credit = "none" /\ NoRows.paid = [p \in Pays |-> 0]
    BY <1>1, <1>2 DEF NoRows, LsRows
  <1>4. FirstPaid(NoRows, 0)
    BY <1>3 DEF FirstPaid, Pays
  <1>5. taken = 0 /\ 0 \in 0..taken /\ completed = {} /\ rows = NoRows /\ byHand = FALSE /\ halfPaid = FALSE /\ deposit \in BOOLEAN
    BY DEF LsInit
  <1>6. LsSound(rows, halfPaid)
    <2>1. \A p \in Pays : rows.paid[p] <= 1 /\ rows.paid[p] # 1
      BY <1>3, <1>5
    <2>2. ~ deposit /\ ~ halfPaid => FirstPaid(rows, 0) /\ 0 \in 0..taken
      BY <1>4, <1>5
    <2> QED
      BY <1>2, <1>3, <1>4, <1>5, <2>1, <2>2 DEF LsSound
  <1>7. Fed(rows.feed[1]) /\ rows.feed[1].state # "done"
    BY <1>1, <1>3, <1>5, <1>0 DEF Fed
  <1>8. LsTypeOK
    <2>1. taken \in 0..NPay /\ completed \subseteq LsSales /\ rows \in LsRows
      BY <1>0, <1>3, <1>5
    <2>3. deposit \in BOOLEAN /\ halfPaid \in BOOLEAN /\ byHand \in BOOLEAN
      BY DEF LsInit
    <2>2. /\ lsc \in [LsWorkers -> SUBSET LsSales]
          /\ fetched \in [LsWorkers -> [LsSales -> FeedRow]]
          /\ lsnap \in [LsWorkers -> LsRows]
      BY <1>1, <1>3 DEF LsInit
    <2> QED
      BY <2>1, <2>2, <2>3 DEF LsTypeOK
  <1>9. \A w \in LsWorkers : lsc[w] = {}
    BY DEF LsInit
  <1> QED
    BY <1>5, <1>6, <1>7, <1>8, <1>9 DEF LsInv


(* The world only moves on.                                                *)
WorldGrows ==
    /\ taken' \in 0..NPay /\ taken <= taken'
    /\ completed \subseteq completed' /\ completed' \subseteq LsSales
    /\ byHand' \in BOOLEAN /\ (byHand => byHand') /\ deposit' = deposit

LEMMA SoundGrows ==
    ASSUME LsWorld, WorldGrows, NEW v \in LsRows, NEW h \in BOOLEAN, NEW k \in BOOLEAN,
           h => k, LsSound(v, h)
    PROVE  LsSound(v, k)'
  <1>1. \A n \in 0..taken : n \in 0..taken'
    BY DEF LsWorld, WorldGrows
  <1>2. Paid(v)' = Paid(v) /\ \A n : FirstPaid(v, n)' <=> FirstPaid(v, n)
    BY DEF Paid, FirstPaid
  <1>3. ~deposit' /\ ~k => \E n \in 0..taken' : FirstPaid(v, n)' /\ (n = 0 \/ v.order.price <= n)
    <2> SUFFICES ASSUME ~deposit', ~k
                 PROVE \E n \in 0..taken' : FirstPaid(v, n)' /\ (n = 0 \/ v.order.price <= n)
      OBVIOUS
    <2>1. PICK n \in 0..taken : FirstPaid(v, n) /\ (n = 0 \/ v.order.price <= n)
      BY DEF LsSound, WorldGrows
    <2> QED
      BY <1>1, <1>2, <2>1
  <1>4. deposit' => \A p \in Pays : v.paid[p] <= 1 /\ (v.paid[p] = 1 => p <= taken')
    <2> SUFFICES ASSUME deposit', NEW p \in Pays PROVE v.paid[p] <= 1 /\ (v.paid[p] = 1 => p <= taken')
      OBVIOUS
    <2>1. v.paid[p] <= 1 /\ (v.paid[p] = 1 => p <= taken)
      BY DEF LsSound, WorldGrows
    <2> QED
      BY <2>1 DEF LsWorld, WorldGrows, Pays
  <1>5. /\ v.orders = IF v.order.state = "none" THEN 0 ELSE 1
        /\ deposit' => v.order.state = "none"
        /\ v.order.state # "sale" => v.invoice = "none"
        /\ v.order.state = "sale" /\ ~byHand' => 1 \in completed' /\ v.order.price = NPay
        /\ ~deposit' /\ v.invoice # "posted" => FirstPaid(v, 0)'
        /\ v.credit # "none" => v.invoice = "posted" /\ v.order.price <= Paid(v)'
    BY <1>2 DEF LsSound, WorldGrows
  <1> QED
    BY <1>2, <1>3, <1>4, <1>5 DEF LsSound

LEMMA FedGrows ==
    ASSUME LsWorld, WorldGrows, 1 \in completed => taken = NPay, NEW f \in FeedRow, Fed(f)
    PROVE  Fed(f)'
  BY DEF LsWorld, WorldGrows, Fed, FeedRow

LEMMA LsFacts ==
    ASSUME LsInv
    PROVE  /\ LsWorld /\ rows \in LsRows /\ halfPaid \in BOOLEAN /\ completed \subseteq LsSales
           /\ \A w \in LsWorkers : /\ lsc[w] \in SUBSET LsSales /\ lsnap[w] \in LsRows
                                   /\ fetched[w] \in [LsSales -> FeedRow]
           /\ rows.feed \in [LsSales -> FeedRow]
  BY LsAssumption, RowsOf DEF LsInv, LsTypeOK, LsWorld

(* A step of the shop or of a user.                                        *)
LEMMA WorldStep ==
    ASSUME LsInv, WorldGrows, 1 \in completed' => taken' = NPay,
           UNCHANGED <<lsc, fetched, lsnap, halfPaid>>,
           rows' \in LsRows, LsSound(rows, halfPaid)',
           rows'.feed = rows.feed, rows'.paid = rows.paid,
           \A u \in LsRows : LsFollows(u, rows) => LsFollows(u, rows')
    PROVE  LsInv'
  <1>1. LsTypeOK'
    BY DEF LsInv, LsTypeOK, WorldGrows
  <1>2. LsWorld /\ rows \in LsRows /\ (1 \in completed => taken = NPay)
    BY LsFacts DEF LsInv
  <1>3. Fed(rows.feed[1])'
    <2>1. PICK f \in FeedRow : f = rows.feed[1]
      BY <1>2, RowsOf
    <2>2. Fed(f)
      BY <2>1 DEF LsInv
    <2>3. Fed(f)'
      BY <1>2, <2>2, FedGrows
    <2>4. rows'.feed[1] = f
      BY <2>1
    <2> QED
      BY <2>3, <2>4 DEF Fed
  <1>4. (rows.feed[1].state = "done" /\ rows.feed[1].completed /\ ~deposit /\ ~halfPaid /\ ~byHand
          => \A p \in Pays : rows.paid[p] = 1)'
    <2>1. rows.feed[1].state = "done" /\ rows.feed[1].completed /\ ~deposit /\ ~halfPaid /\ ~byHand
          => \A p \in Pays : rows.paid[p] = 1
      BY DEF LsInv
    <2> QED
      BY <2>1 DEF WorldGrows
  <1>5. ASSUME NEW w \in LsWorkers, lsc'[w] # {}
        PROVE  LsSound(lsnap[w], halfPaid)' /\ LsFollows(lsnap[w], rows)' /\ Fed(fetched[w][1])'
    <2>1. lsnap[w] \in LsRows /\ fetched[w][1] \in FeedRow /\ halfPaid \in BOOLEAN
      BY LsFacts DEF LsSales
    <2>2. LsSound(lsnap[w], halfPaid) /\ LsFollows(lsnap[w], rows) /\ Fed(fetched[w][1])
      BY <1>5 DEF LsInv
    <2>3. PICK u \in LsRows, h \in BOOLEAN, f \in FeedRow :
            u = lsnap[w] /\ h = halfPaid /\ f = fetched[w][1]
      BY <2>1
    <2>4. LsSound(u, h) /\ Fed(f)
      BY <2>2, <2>3
    <2>5. LsSound(u, h)'
      BY <1>2, <2>4, SoundGrows
    <2>6. Fed(f)'
      BY <1>2, <2>4, FedGrows
    <2>7. u = lsnap'[w] /\ h = halfPaid' /\ f = fetched'[w][1]
      BY <2>3
    <2>8. LsFollows(lsnap[w], rows')
      BY <2>1, <2>2
    <2>9. LsFollows(lsnap'[w], rows')
      BY <2>8
    <2> QED
      BY <2>5, <2>6, <2>7, <2>9 DEF LsSound, Fed, LsFollows
  <1> QED
    BY <1>1, <1>3, <1>4, <1>5 DEF LsInv


LEMMA ShopStep ==
    ASSUME LsInv, TakePayment \/ \E s \in LsSales : Complete(s)
    PROVE  LsInv'
  <1>0. /\ LsWorld /\ rows \in LsRows /\ halfPaid \in BOOLEAN /\ completed \subseteq LsSales
        /\ (1 \in completed => taken = NPay) /\ LsSound(rows, halfPaid)
    BY LsFacts DEF LsInv
  <1>1. UNCHANGED <<lsc, fetched, lsnap, halfPaid, rows, byHand, deposit>>
    BY DEF TakePayment, Complete
  <1>2. /\ taken' \in 0..NPay /\ taken <= taken' /\ completed \subseteq completed' /\ completed' \subseteq LsSales
        /\ 1 \in completed' => taken' = NPay
    BY <1>0 DEF TakePayment, Complete, LsWorld
  <1>3. byHand' \in BOOLEAN /\ (byHand => byHand') /\ deposit' = deposit
    BY <1>0, <1>1 DEF LsWorld
  <1>4. WorldGrows
    BY <1>2, <1>3 DEF WorldGrows
  <1>5. LsSound(rows, halfPaid)'
    <2>1. PICK v \in LsRows, h \in BOOLEAN : v = rows /\ h = halfPaid
      BY <1>0
    <2>2. LsSound(v, h)'
      BY <1>0, <1>4, <2>1, SoundGrows
    <2>3. v = rows' /\ h = halfPaid'
      BY <1>1, <2>1
    <2> QED
      BY <2>2, <2>3 DEF LsSound
  <1> QED
    BY <1>0, <1>1, <1>2, <1>4, <1>5, WorldStep

LEMMA HandStep ==
    ASSUME LsInv, ConfirmByHand
    PROVE  LsInv'
  <1> DEFINE o == [rows.order EXCEPT !.state = "sale"]
  <1>0. /\ LsWorld /\ rows \in LsRows /\ halfPaid \in BOOLEAN /\ completed \subseteq LsSales
        /\ (1 \in completed => taken = NPay) /\ LsSound(rows, halfPaid)
    BY LsFacts DEF LsInv
  <1>1. /\ UNCHANGED <<lsc, fetched, lsnap, halfPaid, deposit, taken, completed>> /\ byHand'
        /\ rows.order.state = "draft" /\ byHand' \in BOOLEAN
    BY DEF ConfirmByHand
  <1>2. rows' = [rows EXCEPT !.order = o]
    <2>1. rows' = [rows EXCEPT !.order.state = "sale"]
      BY DEF ConfirmByHand
    <2> QED
      BY <2>1
  <1>3. o \in OrderRow /\ o.state = "sale" /\ o.price = rows.order.price
    BY <1>0, RowsOf DEF OrderRow
  <1> HIDE DEF o
  <1>4. /\ rows' \in LsRows /\ rows'.order = o /\ rows'.orders = rows.orders
        /\ rows'.invoice = rows.invoice /\ rows'.paid = rows.paid /\ rows'.credit = rows.credit
        /\ rows'.feed = rows.feed
    BY <1>0, <1>2, <1>3 DEF LsRows
  <1>5. rows.invoice = "none" /\ rows.orders = 1 /\ ~ deposit
    BY <1>0, <1>1 DEF LsSound
  <1>6. FirstPaid(rows, 0) /\ rows.credit = "none"
    BY <1>0, <1>5 DEF LsSound
  <1>7. WorldGrows
    <2>1. taken' \in 0..NPay /\ taken <= taken' /\ completed \subseteq completed' /\ completed' \subseteq LsSales
      BY <1>0, <1>1 DEF LsWorld
    <2>2. byHand => byHand'
      BY <1>1
    <2> QED
      BY <1>1, <2>1, <2>2 DEF WorldGrows
  <1>8. LsSound(rows, halfPaid)'
    <2>1. \A p \in Pays : rows'.paid[p] = IF p <= 0 THEN 1 ELSE 0
      BY <1>4, <1>6 DEF FirstPaid
    <2>2. 0 \in 0..taken'
      BY <1>7 DEF WorldGrows
    <2>3. FirstPaid(rows, 0)'
      BY <2>1 DEF FirstPaid
    <2> QED
      BY <1>1, <1>3, <1>4, <1>5, <1>6, <2>2, <2>3 DEF LsSound
  <1>9. ASSUME NEW u \in LsRows, LsFollows(u, rows) PROVE LsFollows(u, rows')
    BY <1>1, <1>4, <1>5, <1>9 DEF LsFollows
  <1> QED
    BY <1>0, <1>1, <1>4, <1>7, <1>8, <1>9, WorldStep

LEMMA BeginStep ==
    ASSUME LsInv, NEW w \in LsWorkers, FetchSales(w) \/ \E s \in LsSales : EvaluateButton(w, s)
    PROVE  LsInv'
  <1>0. /\ LsWorld /\ rows \in LsRows /\ halfPaid \in BOOLEAN /\ completed \subseteq LsSales
        /\ (1 \in completed => taken = NPay) /\ LsSound(rows, halfPaid) /\ Fed(rows.feed[1])
        /\ rows.feed \in [LsSales -> FeedRow] /\ LsTypeOK
    BY LsFacts DEF LsInv
  <1>1. PICK S \in SUBSET LsSales, feeds \in [LsSales -> FeedRow] :
          BeginLs(w, S, feeds) /\ Fed(feeds[1])
    <2>1. CASE FetchSales(w)
      <3> DEFINE fs(T) == [s \in LsSales |->
                            IF s \in T THEN [state |-> "draft", taken |-> IF s = 1 THEN taken ELSE 0,
                                             completed |-> s \in completed]
                            ELSE rows.feed[s]]
      <3>1. PICK T \in SUBSET LsSales : BeginLs(w, T, fs(T))
        BY <2>1 DEF FetchSales
      <3>2. fs(T) \in [LsSales -> FeedRow]
        <4>1. \A s \in LsSales : s \in T => [state |-> "draft", taken |-> IF s = 1 THEN taken ELSE 0,
                                             completed |-> s \in completed] \in FeedRow
          <5> TAKE s \in LsSales
          <5>1. (s \in completed) \in BOOLEAN /\ (IF s = 1 THEN taken ELSE 0) \in 0..NPay
            BY <1>0 DEF LsWorld
          <5> QED
            BY <5>1 DEF FeedRow
        <4> QED
          BY <1>0, <4>1
      <3>3. Fed(fs(T)[1])
        <4>1. CASE 1 \in T
          <5>1. fs(T)[1].taken = taken /\ (fs(T)[1].completed <=> 1 \in completed)
            BY <4>1 DEF LsSales
          <5> QED
            BY <1>0, <5>1 DEF Fed, LsWorld
        <4>2. CASE 1 \notin T
          BY <1>0, <4>2 DEF LsSales
        <4> QED
          BY <4>1, <4>2
      <3> HIDE DEF fs
      <3> QED
        BY <3>1, <3>2, <3>3
    <2>2. ASSUME NEW s \in LsSales, EvaluateButton(w, s) PROVE BeginLs(w, {s}, rows.feed)
      BY <2>2 DEF EvaluateButton
    <2> QED
      BY <1>0, <2>1, <2>2
  <1>2. /\ lsc' = [lsc EXCEPT ![w] = S] /\ fetched' = [fetched EXCEPT ![w] = feeds]
        /\ lsnap' = [lsnap EXCEPT ![w] = rows]
        /\ UNCHANGED <<deposit, taken, completed, rows, halfPaid, byHand>>
    BY <1>1 DEF BeginLs
  <1>3. LsTypeOK'
    BY <1>0, <1>2 DEF LsTypeOK
  <1>4. LsFollows(rows, rows)
    <2>1. \A p \in Pays : rows.paid[p] <= rows.paid[p]
      BY <1>0, RowsOf
    <2> QED
      BY <2>1 DEF LsFollows
  <1>5. LsSound(rows, halfPaid)' /\ Fed(rows.feed[1])'
    BY <1>0, <1>2 DEF LsSound, Fed, FirstPaid, Paid
  <1>6. ASSUME NEW x \in LsWorkers, lsc'[x] # {}
        PROVE  LsSound(lsnap[x], halfPaid)' /\ LsFollows(lsnap[x], rows)' /\ Fed(fetched[x][1])'
    <2>1. CASE x = w
      <3>1. lsnap'[x] = rows /\ fetched'[x] = feeds /\ rows' = rows
        BY <1>0, <1>2, <2>1 DEF LsTypeOK
      <3>2. LsFollows(lsnap[x], rows)'
        BY <1>4, <3>1 DEF LsFollows
      <3>3. Fed(fetched[x][1])'
        BY <1>1, <1>2, <3>1 DEF Fed
      <3>4. LsSound(lsnap[x], halfPaid)'
        BY <1>0, <1>2, <3>1 DEF LsSound, FirstPaid, Paid
      <3> QED
        BY <3>2, <3>3, <3>4
    <2>2. CASE x # w
      <3>1. lsnap'[x] = lsnap[x] /\ fetched'[x] = fetched[x] /\ rows' = rows /\ lsc'[x] = lsc[x]
        BY <1>0, <1>2, <2>2 DEF LsTypeOK
      <3>2. LsSound(lsnap[x], halfPaid) /\ LsFollows(lsnap[x], rows) /\ Fed(fetched[x][1])
        BY <1>6, <3>1 DEF LsInv
      <3>3. LsFollows(lsnap[x], rows)'
        BY <3>1, <3>2 DEF LsFollows
      <3>4. Fed(fetched[x][1])'
        BY <1>2, <3>1, <3>2 DEF Fed
      <3>5. LsSound(lsnap[x], halfPaid)'
        BY <1>2, <3>1, <3>2 DEF LsSound, FirstPaid, Paid
      <3> QED
        BY <3>3, <3>4, <3>5
    <2> QED
      BY <2>1, <2>2
  <1>7. (rows.feed[1].state = "done" /\ rows.feed[1].completed /\ ~deposit /\ ~halfPaid /\ ~byHand
          => \A p \in Pays : rows.paid[p] = 1)'
    BY <1>2 DEF LsInv
  <1> QED
    BY <1>0, <1>2, <1>3, <1>5, <1>6, <1>7 DEF LsInv


(* Requests.                                                               *)
LEMMA LsFollowsOn ==
    ASSUME NEW u \in LsRows, NEW v \in LsRows, NEW x \in LsRows, LsFollows(u, v), LsFollows(v, x)
    PROVE  LsFollows(u, x)
  <1>1. \A p \in Pays : u.paid[p] <= x.paid[p]
    <2> TAKE p \in Pays
    <2>1. u.paid[p] <= v.paid[p] /\ v.paid[p] <= x.paid[p]
      BY DEF LsFollows
    <2>2. u.paid[p] \in Nat /\ v.paid[p] \in Nat /\ x.paid[p] \in Nat
      BY RowsOf
    <2> QED
      BY <2>1, <2>2
  <1> QED
    BY <1>1 DEF LsFollows

(* A request ends: the committed rows are as before, or r is merged in.    *)
LEMMA EndStep ==
    ASSUME LsInv, NEW w \in LsWorkers, EndLs(w), rows' \in LsRows, halfPaid' \in BOOLEAN,
           halfPaid => halfPaid', LsFollows(rows, rows'), LsSound(rows', halfPaid'),
           Fed(rows'.feed[1]),
           rows'.feed[1].state = "done" /\ rows'.feed[1].completed /\ ~deposit /\ ~halfPaid' /\ ~byHand
             => \A p \in Pays : rows'.paid[p] = 1
    PROVE  LsInv'
  <1>0. /\ LsWorld /\ rows \in LsRows /\ halfPaid \in BOOLEAN /\ completed \subseteq LsSales
        /\ (1 \in completed => taken = NPay) /\ LsTypeOK
    BY LsFacts DEF LsInv
  <1>1. /\ lsc' = [lsc EXCEPT ![w] = {}] /\ fetched' = [fetched EXCEPT ![w] = NoFeeds]
        /\ lsnap' = [lsnap EXCEPT ![w] = NoRows]
        /\ UNCHANGED <<deposit, taken, completed, byHand>>
    BY DEF EndLs
  <1>2. NoFeeds \in [LsSales -> FeedRow] /\ NoRows \in LsRows
    <2>1. NoFeeds \in [LsSales -> FeedRow]
      BY LsAssumption DEF NoFeeds, FeedRow, LsSales
    <2>2. NoOrderRow \in OrderRow
      BY LsAssumption DEF NoOrderRow, OrderRow
    <2> QED
      BY <2>1, <2>2 DEF NoRows, LsRows
  <1>3. LsTypeOK'
    BY <1>0, <1>1, <1>2 DEF LsTypeOK
  <1>4. LsSound(rows, halfPaid)' /\ Fed(rows.feed[1])'
    BY <1>1 DEF LsSound, Fed, FirstPaid, Paid
  <1>5. ASSUME NEW x \in LsWorkers, lsc'[x] # {}
        PROVE  LsSound(lsnap[x], halfPaid)' /\ LsFollows(lsnap[x], rows)' /\ Fed(fetched[x][1])'
    <2>1. x # w
      BY <1>0, <1>1, <1>5 DEF LsTypeOK
    <2>2. lsnap'[x] = lsnap[x] /\ fetched'[x] = fetched[x] /\ lsc'[x] = lsc[x] /\ lsnap[x] \in LsRows
      BY <1>0, <1>1, <2>1 DEF LsTypeOK
    <2>3. LsSound(lsnap[x], halfPaid) /\ LsFollows(lsnap[x], rows) /\ Fed(fetched[x][1])
      BY <1>5, <2>2 DEF LsInv
    <2>4. LsFollows(lsnap[x], rows')
      BY <1>0, <2>2, <2>3, LsFollowsOn
    <2>5. LsSound(lsnap[x], halfPaid)'
      <3>1. halfPaid => halfPaid'
        OBVIOUS
      <3> QED
        BY <1>1, <2>2, <2>3, <3>1 DEF LsSound, FirstPaid, Paid
    <2>6. LsFollows(lsnap[x], rows)'
      BY <2>2, <2>4 DEF LsFollows
    <2>7. Fed(fetched[x][1])'
      BY <1>1, <2>2, <2>3 DEF Fed
    <2> QED
      BY <2>5, <2>6, <2>7
  <1>6. (rows.feed[1].state = "done" /\ rows.feed[1].completed /\ ~deposit /\ ~halfPaid /\ ~byHand
          => \A p \in Pays : rows.paid[p] = 1)'
    BY <1>1
  <1> QED
    BY <1>0, <1>1, <1>3, <1>4, <1>5, <1>6 DEF LsInv

LEMMA LoseStep ==
    ASSUME LsInv, NEW w \in LsWorkers, LoseLs(w)
    PROVE  LsInv'
  <1>1. rows \in LsRows /\ halfPaid \in BOOLEAN /\ rows' = rows /\ halfPaid' = halfPaid /\ EndLs(w)
    BY LsFacts DEF LoseLs
  <1>2. LsFollows(rows, rows)
    <2>1. \A p \in Pays : rows.paid[p] <= rows.paid[p]
      BY <1>1, RowsOf
    <2> QED
      BY <2>1 DEF LsFollows
  <1>3. LsSound(rows, halfPaid) /\ Fed(rows.feed[1])
        /\ (rows.feed[1].state = "done" /\ rows.feed[1].completed /\ ~deposit /\ ~halfPaid /\ ~byHand
              => \A p \in Pays : rows.paid[p] = 1)
    BY DEF LsInv
  <1>4. LsSound(rows', halfPaid')
    BY <1>1, <1>3 DEF LsSound
  <1> QED
    BY <1>1, <1>2, <1>3, <1>4, EndStep

LEMMA CommitStep ==
    ASSUME LsInv, NEW w \in LsWorkers, CommitLs(w)
    PROVE  LsInv'
  <1> DEFINE start == [lsnap[w] EXCEPT !.feed = fetched[w]]
  <1>0. /\ LsWorld /\ rows \in LsRows /\ halfPaid \in BOOLEAN /\ LsSound(rows, halfPaid) /\ Fed(rows.feed[1])
        /\ lsc[w] # {} /\ EndLs(w)
    BY LsFacts DEF LsInv, CommitLs
  <1>1. PICK u \in LsRows : u = lsnap[w]
    BY LsFacts
  <1>2. LsSound(u, halfPaid) /\ LsFollows(u, rows) /\ Fed(fetched[w][1]) /\ fetched[w] \in [LsSales -> FeedRow]
    BY <1>0, <1>1, LsFacts DEF LsInv
  <1>3. PICK r1 \in IF 1 \in lsc[w] THEN Evaluated(start, 1) ELSE Went(start) :
          \E r2 \in IF 2 \in lsc[w] THEN Evaluated(r1[1], 2) ELSE Went(r1[1]) :
             /\ Compatible(lsnap[w], r2[1], rows)
             /\ rows' = Merge(lsnap[w], r2[1], rows, lsc[w])
             /\ halfPaid' = (halfPaid \/ (~r1[2] /\ Paid(r2[1]) > 0 /\ Registers(r2[1])))
    BY DEF CommitLs
  <1>4. PICK r2 \in IF 2 \in lsc[w] THEN Evaluated(r1[1], 2) ELSE Went(r1[1]) :
             /\ Compatible(u, r2[1], rows)
             /\ rows' = Merge(u, r2[1], rows, lsc[w])
             /\ halfPaid' = (halfPaid \/ (~r1[2] /\ Paid(r2[1]) > 0 /\ Registers(r2[1])))
    BY <1>1, <1>3
  <1>5. /\ start \in LsRows /\ start.feed = fetched[w] /\ start.order = u.order /\ start.orders = u.orders
        /\ start.invoice = u.invoice /\ start.paid = u.paid /\ start.credit = u.credit
    BY <1>1, <1>2 DEF LsRows
  <1> HIDE DEF start
  <1>6. LsSound(start, halfPaid) /\ Fed(start.feed[1])
    <2>1. Paid(start) = Paid(u) /\ \A n : FirstPaid(start, n) <=> FirstPaid(u, n)
      BY <1>5 DEF Paid, FirstPaid
    <2> QED
      BY <1>2, <1>5, <2>1 DEF LsSound
  <1>7. LsFollows(u, start)
    <2>1. \A p \in Pays : u.paid[p] <= start.paid[p]
      BY <1>5, RowsOf
    <2> QED
      BY <1>5, <2>1 DEF LsFollows
  <1> DEFINE g == halfPaid \/ HalfPaid(r1)
             Full(v) == v.feed[1].state = "done" /\ v.feed[1].completed /\ ~deposit /\ ~g /\ ~byHand
                          => \A p \in Pays : v.paid[p] = 1
  <1>8. /\ r1[1] \in LsRows /\ LsFollows(u, r1[1]) /\ LsSound(r1[1], g) /\ Fed(r1[1].feed[1])
        /\ g \in BOOLEAN /\ (1 \in lsc[w] => Full(r1[1]))
    <2>1. CASE 1 \in lsc[w]
      <3>1. r1 \in Evaluated(start, 1) /\ 1 \in LsSales
        BY <1>3, <2>1 DEF LsSales
      <3>2. /\ r1[1] \in LsRows /\ r1[2] \in BOOLEAN /\ LsFollows(start, r1[1])
            /\ LsSound(r1[1], halfPaid \/ HalfPaid(r1))
            /\ Fed(r1[1].feed[1])
            /\ r1[1].feed[1].state = "done" /\ r1[1].feed[1].completed
                 /\ ~deposit /\ ~halfPaid /\ ~byHand => \A p \in Pays : r1[1].paid[p] = 1
        BY <1>0, <1>5, <1>6, <3>1, EvaluatedStage
      <3>3. LsFollows(u, r1[1])
        BY <1>5, <1>7, <3>2, LsFollowsOn
      <3>4. Full(r1[1])
        BY <3>2
      <3> QED
        BY <3>2, <3>3, <3>4
    <2>2. CASE 1 \notin lsc[w]
      <3>1. r1[1] = start /\ r1[2]
        BY <1>3, <2>2, RaisedOrWent
      <3>2. LsSound(r1[1], g)
        BY <1>6, <3>1 DEF LsSound
      <3> QED
        BY <1>5, <1>6, <1>7, <2>2, <3>1, <3>2
    <2> QED
      BY <2>1, <2>2
  <1> HIDE DEF g
  <1>9. /\ r2[1] \in LsRows /\ LsFollows(r1[1], r2[1]) /\ LsSound(r2[1], g)
        /\ r2[1].paid = r1[1].paid /\ r2[1].order = r1[1].order /\ r2[1].feed[1] = r1[1].feed[1]
    <2>1. CASE 2 \in lsc[w]
      <3>1. r2 \in Evaluated(r1[1], 2) /\ 2 \in LsSales
        BY <1>4, <2>1 DEF LsSales
      <3> QED
        BY <1>0, <1>8, <3>1, EvaluatedStage
    <2>2. CASE 2 \notin lsc[w]
      <3>1. r2[1] = r1[1]
        BY <1>4, <2>2, RaisedOrWent
      <3>2. \A p \in Pays : r1[1].paid[p] <= r1[1].paid[p]
        BY <1>8, RowsOf
      <3>3. LsFollows(r1[1], r1[1])
        BY <3>2 DEF LsFollows
      <3> QED
        BY <1>8, <3>1, <3>3
    <2> QED
      BY <2>1, <2>2
  <1>10. PICK v \in LsRows : v = r2[1]
    BY <1>9
  <1>11. halfPaid' <=> g
    <2>1. Paid(v) = Paid(r1[1])
      BY <1>9, <1>10 DEF Paid
    <2>2. Registers(v) <=> Registers(r1[1])
      BY <1>9, <1>10, <2>1 DEF Registers, Residual
    <2>3. halfPaid' <=> (halfPaid \/ (~r1[2] /\ Paid(v) > 0 /\ Registers(v)))
      BY <1>4, <1>10
    <2> QED
      BY <2>1, <2>2, <2>3 DEF g, HalfPaid
  <1>12. LsFollows(u, v) /\ LsSound(v, g) /\ Fed(v.feed[1]) /\ (1 \in lsc[w] => Full(v))
    <2>1. LsFollows(u, v)
      BY <1>8, <1>9, <1>10, LsFollowsOn
    <2>2. 1 \in lsc[w] => Full(v)
      BY <1>8, <1>9, <1>10
    <2> QED
      BY <1>8, <1>9, <1>10, <2>1, <2>2
  <1>13. /\ rows' \in LsRows /\ LsSound(rows', g) /\ LsFollows(rows, rows') /\ LsFollows(v, rows')
         /\ halfPaid => g
    <2>1. halfPaid => g
      BY DEF g
    <2>2. LET m == Merge(u, v, rows, lsc[w])
          IN m \in LsRows /\ LsSound(m, g) /\ LsFollows(rows, m) /\ LsFollows(v, m)
      BY <1>0, <1>2, <1>4, <1>8, <1>10, <1>12, <2>1, MergeSound
    <2> QED
      BY <1>4, <1>10, <2>1, <2>2
  <1>14. rows'.feed[1] = IF 1 \in lsc[w] THEN v.feed[1] ELSE rows.feed[1]
    BY <1>4, <1>10 DEF Merge, LsSales
  <1>15. Fed(rows'.feed[1])
    BY <1>0, <1>12, <1>14
  <1>16. Full(rows')
    <2> SUFFICES ASSUME rows'.feed[1].state = "done", rows'.feed[1].completed, ~deposit, ~g, ~byHand,
                        NEW p \in Pays
                 PROVE  rows'.paid[p] = 1
      OBVIOUS
    <2>1. v.paid[p] = 1 \/ rows.paid[p] = 1
      <3>1. CASE 1 \in lsc[w]
        BY <1>12, <1>14, <3>1
      <3>2. CASE 1 \notin lsc[w]
        <4>1. ~ halfPaid
          BY DEF g
        <4> QED
          BY <1>14, <3>2, <4>1 DEF LsInv
      <3> QED
        BY <3>1, <3>2
    <2>2. rows'.paid[p] >= 1 /\ rows'.paid[p] \in Nat
      <3>1. v.paid[p] <= rows'.paid[p] /\ rows.paid[p] <= rows'.paid[p]
        BY <1>13 DEF LsFollows
      <3>2. rows'.paid[p] \in Nat
        BY <1>13, RowsOf
      <3> QED
        BY <2>1, <3>1, <3>2
    <2>3. PICK n \in 0..taken : FirstPaid(rows', n)
      BY <1>13 DEF LsSound
    <2> QED
      BY <2>2, <2>3 DEF FirstPaid
  <1>17. LsSound(rows', halfPaid') /\ halfPaid' \in BOOLEAN /\ (halfPaid => halfPaid')
    <2>1. LsSound(rows', halfPaid')
      BY <1>11, <1>13 DEF LsSound
    <2>2. halfPaid' \in BOOLEAN
      BY <1>4
    <2> QED
      BY <1>11, <1>13, <2>1, <2>2
  <1>18. rows'.feed[1].state = "done" /\ rows'.feed[1].completed /\ ~deposit /\ ~halfPaid' /\ ~byHand
             => \A p \in Pays : rows'.paid[p] = 1
    BY <1>11, <1>16
  <1> QED
    BY <1>0, <1>13, <1>15, <1>17, <1>18, EndStep

(* LsMoney: a sale has one order, its payments are registered once and, when*)
(* its feed is done, all of them; an invoice has the price of the sale, and*)
(* a credit note needs a paid invoice: for any number of payments and of   *)
(* workers that fetch and evaluate.                                        *)
THEOREM SalesMoney == LsSpec => []LsMoney
  <1>1. LsInv /\ [LsNext]_lsvars => LsInv'
    <2> SUFFICES ASSUME LsInv, [LsNext]_lsvars PROVE LsInv'
      OBVIOUS
    <2>1. CASE UNCHANGED lsvars
      BY <2>1 DEF lsvars, LsInv, LsTypeOK, LsSound, FirstPaid, Paid, LsFollows, Fed
    <2>2. CASE TakePayment \/ \E s \in LsSales : Complete(s)
      BY <2>2, ShopStep
    <2>3. CASE ConfirmByHand
      BY <2>3, HandStep
    <2>4. ASSUME NEW w \in LsWorkers, FetchSales(w) \/ \E s \in LsSales : EvaluateButton(w, s) PROVE LsInv'
      BY <2>4, BeginStep
    <2>5. ASSUME NEW w \in LsWorkers, CommitLs(w) PROVE LsInv'
      BY <2>5, CommitStep
    <2>6. ASSUME NEW w \in LsWorkers, LoseLs(w) PROVE LsInv'
      BY <2>6, LoseStep
    <2> QED
      BY <2>1, <2>2, <2>3, <2>4, <2>5, <2>6 DEF LsNext
  <1> QED
    BY <1>1, LsStarts, LsMoneyHolds, PTL DEF LsSpec

-----------------------------------------------------------------------------
(* The products in the stores of Shopify.                                  *)
(*                                                                         *)
(* A request works on a copy of the records and decides by it, so the      *)
(* invariant says of each store that a request is busy with, and that is   *)
(* not confused: the copy fits what is in the store, what is committed is  *)
(* what the request began with, and it fits too as long as the request     *)
(* has not called the store.  Of the other stores the copy has what it     *)
(* began with, so that its commit leaves them alone.                       *)

(* Ids, and the records of a product.                                      *)
Ref(x) == x = Unknown \/ (/\ x = [id |-> x.id, shop |-> x.shop]
                          /\ x.id \in Nat \ {0} /\ x.shop \in Shops)

RecordsOK(r) ==
    /\ Ref(r.tmpl) /\ r.var \in [Parts -> {r.var[v] : v \in Parts}]
    /\ r = [tmpl |-> r.tmpl, var |-> r.var, maps |-> r.maps]
    /\ \A v \in Parts : Ref(r.var[v])

GoodOK(g, top) ==
    /\ g = [shop |-> g.shop, product |-> g.product, part |-> g.part, id |-> g.id]
    /\ g.shop \in Shops /\ g.part \in Parts
    /\ g.id \in 1 .. top[g.shop] /\ g.product \in 1 .. top[g.shop]

Distinct(G) == \A g, h \in G :
    g.shop = h.shop /\ (g.id = h.id \/ (g.product = h.product /\ g.part = h.part)) => g = h

GoodsOK ==
    /\ issued \in [Shops -> Nat]
    /\ \A g \in goods : GoodOK(g, issued)
    /\ Distinct(goods)

(* Synced, member by member, for variants G of a store.                    *)
Agrees(G, r, s) ==
    IF r.tmpl.shop = s
    THEN /\ G # {}
         /\ \A g \in G : g.product = r.tmpl.id /\ r.var[g.part] = [id |-> g.id, shop |-> s]
         /\ \A m \in r.maps : m.shop # s
         /\ \A v \in Parts : r.var[v].shop = s => \E g \in G : g.part = v
    ELSE /\ \A v \in Parts : r.var[v].shop # s
         /\ \A m \in r.maps : m.shop = s => \E g \in G : m = MapOf(g)
         /\ \A g \in G : MapOf(g) \in r.maps
         /\ \A g, h \in G : g.product = h.product

(* What records have of a store.                                           *)
Like(x, y, s) == x.shop = s \/ y.shop = s => x = y
Same(s, a, b) ==
    /\ Like(a.tmpl, b.tmpl, s)
    /\ \A v \in Parts : Like(a.var[v], b.var[v], s)
    /\ \A m \in a.maps \cup b.maps : m.shop = s => m \in a.maps /\ m \in b.maps

(* No variant has an id of a store that the template has none of.         *)
Neat(r, s) == \A v \in Parts : r.var[v].shop = s => r.tmpl.shop = s

(* A deletion may clear what a store that it is not about has on the       *)
(* variants, where the template is of another one.                         *)
Cleared(what, copy, base, v, t) ==
    /\ what = "delete" /\ copy.tmpl = Unknown /\ base.tmpl.shop \notin {NoShop, t}
    /\ base.var[v].shop = t /\ copy.var[v] = Unknown
Spares(what, copy, base, t) ==
    /\ Like(copy.tmpl, base.tmpl, t)
    /\ \A v \in Parts : Like(copy.var[v], base.var[v], t) \/ Cleared(what, copy, base, v, t)
    /\ \A m \in copy.maps \cup base.maps : m.shop = t => m \in copy.maps /\ m \in base.maps

(* A request and its stores that are not confused.                         *)
Knows(m, r, G, bad) ==
    \A s \in m.shops \ bad :
        /\ Same(s, r, m.base)
        /\ Agrees(In(G, s), m.rows, s)
        /\ s \notin m.touched => Agrees(In(G, s), r, s)

(* The wizards: an export to Home is alone with every store whose ids are  *)
(* on the records, as it may write them over; a product is only created    *)
(* in a store that has nothing of it.                                      *)
Exports(m, bad) ==
    /\ Home \in m.todo => OwnShops(m.rows) \subseteq m.shops
    /\ \A s \in m.todo \ bad : Same(s, m.rows, m.base)
    /\ m.what = "create" /\ m.of = Template =>
          \A s \in m.todo : m.base.tmpl.shop # s /\ \A q \in m.base.maps : q.shop # s
    /\ m.what = "delete" => m.rows.tmpl \in {m.base.tmpl, Unknown}

(* An import decides by what it has fetched of its one store.              *)
Imports(m, top) ==
    /\ m.rows = m.base /\ OwnShops(m.rows) \subseteq m.shops
    /\ m.what \in {"single", "multi", "map"}
    /\ \E s \in Shops : /\ m.todo = {s} /\ m.payload # {}
                        /\ \A g \in m.payload : GoodOK(g, top) /\ g.shop = s

KeeperOK(m, r, G, top, bad) ==
    /\ m = [at |-> m.at, what |-> m.what, of |-> m.of, todo |-> m.todo, shops |-> m.shops,
            touched |-> m.touched, payload |-> m.payload, rows |-> m.rows, base |-> m.base]
    /\ RecordsOK(m.rows) /\ RecordsOK(m.base)
    /\ m.todo \subseteq m.shops /\ m.shops \subseteq Shops
    /\ m.at \in {"idle", "export", "import"}
    /\ m.at = "idle" => m = Resting
    /\ Knows(m, r, G, bad)
    /\ \A t \in Shops \ m.shops : Spares(m.what, m.rows, m.base, t)
    /\ m.at = "export" => m.of \in Parts \cup {Template} /\ Exports(m, bad)
    /\ m.at = "import" => Imports(m, top)

KeepersOK ==
    /\ keeper \in [Keepers -> {keeper[k] : k \in Keepers}]
    /\ \A k \in Keepers : KeeperOK(keeper[k], links, goods, issued, confused)
    /\ \A j, k \in Keepers : j # k => keeper[j].shops \cap keeper[k].shops \subseteq confused

(* What is committed.                                                      *)
LinksOK ==
    /\ RecordsOK(links)
    /\ \A s \in Shops \ confused : Neat(links, s)
    /\ \A s \in Shops \ confused :
          (\A k \in Keepers : s \notin keeper[k].shops) => Agrees(In(goods, s), links, s)

CatalogInv == GoodsOK /\ LinksOK /\ KeepersOK

-----------------------------------------------------------------------------
LEMMA SameSelf == ASSUME NEW s, NEW a PROVE Same(s, a, a)
  BY DEF Same, Like

LEMMA SameBack == ASSUME NEW s, NEW a, NEW b, Same(s, a, b) PROVE Same(s, b, a)
  BY DEF Same, Like

LEMMA SameOn ==
    ASSUME NEW s, NEW a, NEW b, NEW c, Same(s, a, b), Same(s, b, c) PROVE Same(s, a, c)
  <1>1. Like(a.tmpl, c.tmpl, s)
    BY DEF Same, Like
  <1>2. ASSUME NEW v \in Parts PROVE Like(a.var[v], c.var[v], s)
    BY DEF Same, Like
  <1>3. ASSUME NEW m \in a.maps \cup c.maps, m.shop = s PROVE m \in a.maps /\ m \in c.maps
    <2>1. m \in a.maps \cup b.maps \/ m \in b.maps \cup c.maps
      OBVIOUS
    <2> QED BY <1>3, <2>1 DEF Same
  <1> QED BY <1>1, <1>2, <1>3 DEF Same

LEMMA SameNeat ==
    ASSUME NEW s, NEW a, NEW b, Same(s, a, b), Neat(a, s) PROVE Neat(b, s)
  BY DEF Same, Like, Neat

LEMMA FitsNeat ==
    ASSUME NEW s, NEW a, NEW G, Agrees(G, a, s) PROVE Neat(a, s)
  BY DEF Agrees, Neat

LEMMA SameFits ==
    ASSUME NEW s, NEW a, NEW b, NEW G, \A g \in G : g.shop = s /\ g.part \in Parts,
           Same(s, a, b), Agrees(G, a, s)
    PROVE  Agrees(G, b, s)
  <1>1. a.tmpl.shop = s <=> b.tmpl.shop = s
    BY DEF Same, Like
  <1>2. ASSUME NEW v \in Parts PROVE a.var[v].shop = s <=> b.var[v].shop = s
    BY DEF Same, Like
  <1>3. ASSUME NEW g \in G PROVE MapOf(g).shop = s
    BY DEF MapOf
  <1>4. CASE a.tmpl.shop = s
    <2>1. a.tmpl = b.tmpl
      BY <1>4 DEF Same, Like
    <2>2. ASSUME NEW g \in G PROVE g.product = b.tmpl.id /\ b.var[g.part] = [id |-> g.id, shop |-> s]
      <3>1. g.product = a.tmpl.id /\ a.var[g.part] = [id |-> g.id, shop |-> s] /\ g.part \in Parts
        BY <1>4 DEF Agrees
      <3> QED BY <2>1, <3>1 DEF Same, Like
    <2>3. \A m \in b.maps : m.shop # s
      BY <1>4 DEF Agrees, Same
    <2>4. ASSUME NEW v \in Parts, b.var[v].shop = s PROVE \E g \in G : g.part = v
      BY <1>2, <1>4, <2>4 DEF Agrees
    <2> QED BY <1>1, <1>4, <2>2, <2>3, <2>4 DEF Agrees
  <1>5. CASE a.tmpl.shop # s
    <2>1. \A v \in Parts : b.var[v].shop # s
      BY <1>2, <1>5 DEF Agrees
    <2>2. ASSUME NEW m \in b.maps, m.shop = s PROVE \E g \in G : m = MapOf(g)
      <3>1. m \in a.maps
        BY <2>2 DEF Same
      <3> QED BY <1>5, <2>2, <3>1 DEF Agrees
    <2>3. ASSUME NEW g \in G PROVE MapOf(g) \in b.maps
      <3>1. MapOf(g) \in a.maps
        BY <1>5 DEF Agrees
      <3> QED BY <1>3, <3>1 DEF Same
    <2> QED BY <1>1, <1>5, <2>1, <2>2, <2>3 DEF Agrees
  <1> QED BY <1>4, <1>5

LEMMA FitsSynced ==
    ASSUME NEW s \in Shops, NEW r, GoodsOK, RecordsOK(r), Agrees(In(goods, s), r, s)
    PROVE  Synced(r, s)
  <1> DEFINE G == In(goods, s)
             own == {v \in Parts : r.var[v].shop = s}
  <1>1. \A g \in G : g.shop = s /\ g.part \in Parts
    BY DEF In, GoodsOK, GoodOK
  <1>2. MapsIn(r, s) = {m \in r.maps : m.shop = s}
    BY DEF MapsIn
  <1>0. Agrees(G, r, s)
    OBVIOUS
  <1> HIDE DEF G
  <1>3. CASE r.tmpl.shop = s
    <2>a. G # {} /\ \A g \in G : g.product = r.tmpl.id
      BY <1>0, <1>3 DEF Agrees
    <2>1. Products(G) = {r.tmpl.id}
      BY <2>a DEF Products
    <2>2. MapsIn(r, s) = {}
      BY <1>0, <1>2, <1>3 DEF Agrees
    <2>3. ASSUME NEW g \in G PROVE g.part \in own /\ r.var[g.part].id = g.id
      <3>1. g.part \in Parts /\ r.var[g.part] = [id |-> g.id, shop |-> s]
        BY <1>0, <1>1, <1>3 DEF Agrees
      <3> QED BY <3>1
    <2>4. ASSUME NEW v \in own PROVE \E g \in G : g.part = v
      BY <1>0, <1>3 DEF Agrees
    <2>5. {<<v, r.var[v].id>> : v \in own} = {<<g.part, g.id>> : g \in G}
      <3> HIDE DEF own
      <3>1. ASSUME NEW g \in G PROVE \E v \in own : <<g.part, g.id>> = <<v, r.var[v].id>>
        BY <2>3
      <3>2. ASSUME NEW v \in own PROVE \E g \in G : <<v, r.var[v].id>> = <<g.part, g.id>>
        BY <2>3, <2>4
      <3> QED BY <3>1, <3>2
    <2> QED BY <1>3, <2>1, <2>2, <2>5 DEF Synced, G
  <1>4. CASE r.tmpl.shop # s
    <2>1. own = {}
      BY <1>0, <1>4 DEF Agrees
    <2>2. ASSUME NEW g \in G PROVE MapOf(g) \in MapsIn(r, s)
      BY <1>0, <1>1, <1>2, <1>4 DEF Agrees, MapOf
    <2>3. ASSUME NEW m \in MapsIn(r, s) PROVE \E g \in G : m = MapOf(g)
      BY <1>0, <1>2, <1>4 DEF Agrees
    <2>4. MapsIn(r, s) = {MapOf(g) : g \in G}
      BY <2>2, <2>3
    <2>5. Products(G) = {} \/ \E p : Products(G) = {p}
      BY <1>0, <1>4 DEF Agrees, Products
    <2>6. Cardinality(Products(G)) <= 1
      <3>1. Products(G) = {} => Cardinality(Products(G)) = 0
        BY FS_EmptySet
      <3>2. ASSUME NEW p, Products(G) = {p} PROVE Cardinality(Products(G)) = 1
        BY <3>2, FS_Singleton
      <3>3. Cardinality(Products(G)) = 0 \/ Cardinality(Products(G)) = 1
        BY <2>5, <3>1, <3>2
      <3> HIDE DEF G
      <3> QED BY <3>3
    <2> QED BY <1>4, <2>1, <2>4, <2>6 DEF Synced, G
  <1> QED BY <1>3, <1>4

(* A request that has nothing to do with what has changed.                 *)
LEMMA KeeperStays ==
    ASSUME NEW m, NEW r, NEW r2, NEW G, NEW G2, NEW top, NEW top2, NEW bad, NEW bad2,
           KeeperOK(m, r, G, top, bad),
           \A t \in m.shops \ bad2 : t \notin bad /\ In(G2, t) = In(G, t) /\ Same(t, r, r2),
           top \in [Shops -> Nat], top2 \in [Shops -> Nat], \A t \in Shops : top[t] <= top2[t],
           \A t \in Shops, g \in G : g.shop = t => g.part \in Parts
    PROVE  KeeperOK(m, r2, G2, top2, bad2)
  <1>1. Knows(m, r2, G2, bad2)
    <2> SUFFICES ASSUME NEW s \in m.shops \ bad2
                 PROVE  /\ Same(s, r2, m.base)
                        /\ Agrees(In(G2, s), m.rows, s)
                        /\ s \notin m.touched => Agrees(In(G2, s), r2, s)
      BY DEF Knows
    <2>1. s \notin bad /\ In(G2, s) = In(G, s) /\ Same(s, r, r2) /\ s \in Shops
      BY DEF KeeperOK
    <2>2. /\ Same(s, r, m.base)
          /\ Agrees(In(G, s), m.rows, s)
          /\ s \notin m.touched => Agrees(In(G, s), r, s)
      BY <2>1 DEF KeeperOK, Knows
    <2>3. Same(s, r2, m.base)
      BY <2>1, <2>2, SameBack, SameOn
    <2>4. \A g \in In(G, s) : g.shop = s /\ g.part \in Parts
      BY <2>1 DEF In
    <2>5. s \notin m.touched => Agrees(In(G, s), r2, s)
      BY <2>1, <2>2, <2>4, SameFits
    <2> QED BY <2>1, <2>2, <2>3, <2>5
  <1>2. ASSUME m.at = "export" PROVE Exports(m, bad2)
    <2>1. Exports(m, bad) /\ m.todo \subseteq m.shops
      BY <1>2 DEF KeeperOK
    <2>2. \A s \in m.todo \ bad2 : s \in m.todo \ bad
      BY <2>1
    <2> QED BY <2>1, <2>2 DEF Exports
  <1>3. ASSUME m.at = "import" PROVE Imports(m, top2)
    <2>1. Imports(m, top)
      BY <1>3 DEF KeeperOK
    <2>2. ASSUME NEW g, GoodOK(g, top) PROVE GoodOK(g, top2)
      <3>1. g.shop \in Shops /\ top[g.shop] \in Nat /\ top2[g.shop] \in Nat /\ top[g.shop] <= top2[g.shop]
        BY <2>2 DEF GoodOK
      <3>2. g.id \in 1 .. top2[g.shop] /\ g.product \in 1 .. top2[g.shop]
        BY <2>2, <3>1 DEF GoodOK
      <3> QED BY <2>2, <3>2 DEF GoodOK
    <2> QED BY <2>1, <2>2 DEF Imports
  <1> QED BY <1>1, <1>2, <1>3 DEF KeeperOK

(* A request after a call for store s, that has written copy.              *)
LEMMA CallerGoesOn ==
    ASSUME NEW m, NEW n, NEW r, NEW G, NEW G2, NEW top, NEW top2, NEW bad, NEW bad2, NEW s, NEW T,
           KeeperOK(m, r, G, top, bad), m.at = "export", s \in m.todo, bad \subseteq bad2,
           n = [at |-> m.at, what |-> m.what, of |-> m.of, todo |-> m.todo \ {s}, shops |-> m.shops,
                touched |-> m.touched \cup T, payload |-> m.payload, rows |-> n.rows, base |-> m.base],
           RecordsOK(n.rows),
           s \in T \/ In(G2, s) = In(G, s),
           \A t \in Shops \ {s} : In(G2, t) = In(G, t),
           s \notin bad2 => Agrees(In(G2, s), n.rows, s),
           \A t \in (m.shops \ {s}) \ bad2 : Same(t, m.rows, n.rows),
           \A t \in Shops \ m.shops : Spares(m.what, n.rows, m.base, t),
           OwnShops(n.rows) \subseteq OwnShops(m.rows) \cup m.shops,
           m.what = "delete" => n.rows.tmpl \in {m.base.tmpl, Unknown},
           \A t \in Shops, g \in G : g.shop = t => g.part \in Parts
    PROVE  KeeperOK(n, r, G2, top2, bad2)
  <1>1. /\ n.at = "export" /\ n.what = m.what /\ n.of = m.of /\ n.todo = m.todo \ {s}
        /\ n.shops = m.shops /\ n.touched = m.touched \cup T /\ n.payload = m.payload
        /\ n.base = m.base
        /\ n = [at |-> n.at, what |-> n.what, of |-> n.of, todo |-> n.todo, shops |-> n.shops,
            touched |-> n.touched, payload |-> n.payload, rows |-> n.rows, base |-> n.base]
    OBVIOUS
  <1>2. RecordsOK(m.base) /\ m.todo \subseteq m.shops /\ m.shops \subseteq Shops
        /\ m.of \in Parts \cup {Template} /\ Knows(m, r, G, bad) /\ Exports(m, bad)
    BY DEF KeeperOK
  <1>3. Knows(n, r, G2, bad2)
    <2> SUFFICES ASSUME NEW t \in n.shops \ bad2
                 PROVE  /\ Same(t, r, n.base)
                        /\ Agrees(In(G2, t), n.rows, t)
                        /\ t \notin n.touched => Agrees(In(G2, t), r, t)
      BY DEF Knows
    <2>1. t \in Shops /\ t \in m.shops \ bad
      BY <1>1, <1>2
    <2>2. /\ Same(t, r, m.base)
          /\ Agrees(In(G, t), m.rows, t)
          /\ t \notin m.touched => Agrees(In(G, t), r, t)
      BY <1>2, <2>1 DEF Knows
    <2>3. CASE t = s
      BY <1>1, <2>2, <2>3
    <2>4. CASE t # s
      <3>1. In(G2, t) = In(G, t) /\ Same(t, m.rows, n.rows)
        BY <1>1, <2>1, <2>4
      <3>2. \A g \in In(G, t) : g.shop = t /\ g.part \in Parts
        BY <2>1 DEF In
      <3>3. Agrees(In(G, t), n.rows, t)
        BY <2>2, <3>1, <3>2, SameFits
      <3> QED BY <1>1, <2>2, <3>1, <3>3
    <2> QED BY <2>3, <2>4
  <1>4. Exports(n, bad2)
    <2>1. ASSUME Home \in n.todo PROVE OwnShops(n.rows) \subseteq n.shops
      BY <1>1, <1>2, <2>1 DEF Exports
    <2>2. ASSUME NEW t \in n.todo \ bad2 PROVE Same(t, n.rows, n.base)
      <3>1. Same(t, m.rows, m.base) /\ Same(t, m.rows, n.rows)
        BY <1>1, <1>2, <2>2 DEF Exports
      <3> QED BY <1>1, <3>1, SameBack, SameOn
    <2>3. n.what = "create" /\ n.of = Template =>
          \A t \in n.todo : n.base.tmpl.shop # t /\ \A q \in n.base.maps : q.shop # t
      BY <1>1, <1>2 DEF Exports
    <2>4. n.what = "delete" => n.rows.tmpl \in {n.base.tmpl, Unknown}
      BY <1>1
    <2> QED BY <2>1, <2>2, <2>3, <2>4 DEF Exports
  <1>5. \A t \in Shops \ n.shops : Spares(n.what, n.rows, n.base, t)
    BY <1>1
  <1> HIDE DEF Exports
  <1> QED BY <1>1, <1>2, <1>3, <1>4, <1>5 DEF KeeperOK

LEMMA CatalogFacts ==
    ASSUME CatalogInv
    PROVE  /\ issued \in [Shops -> Nat]
           /\ \A t \in Shops, g \in goods : g.shop = t => g.part \in Parts
           /\ keeper \in [Keepers -> {keeper[k] : k \in Keepers}]
           /\ \A k \in Keepers : /\ KeeperOK(keeper[k], links, goods, issued, confused)
                                 /\ keeper[k].shops \subseteq Shops
  BY DEF CatalogInv, GoodsOK, GoodOK, KeepersOK, KeeperOK

(* What a call of a request for a store may do.                            *)
Calls(k, s, r2, T) ==
    LET m == keeper[k]
    IN  /\ m.at = "export" /\ s \in m.todo
        /\ Proceed(k, s, r2, T)
        /\ links' = links /\ confused \subseteq confused'
        /\ RecordsOK(r2)
        /\ s \in T \/ In(goods', s) = In(goods, s)
        /\ \A t \in Shops \ {s} : In(goods', t) = In(goods, t)
        /\ \A t \in Shops : issued[t] <= issued'[t]
        /\ s \notin confused' => Agrees(In(goods', s), r2, s)
        /\ \A t \in (m.shops \ {s}) \ confused' : Same(t, m.rows, r2)
        /\ \A t \in Shops \ m.shops : Spares(m.what, r2, m.base, t)
        /\ OwnShops(r2) \subseteq OwnShops(m.rows) \cup m.shops
        /\ m.what = "delete" => r2.tmpl \in {m.base.tmpl, Unknown}

LEMMA CallKeeps ==
    ASSUME NEW k \in Keepers, NEW s \in Shops, NEW r2, NEW T,
           CatalogInv, Calls(k, s, r2, T), GoodsOK'
    PROVE  CatalogInv'
  <1> DEFINE m == keeper[k]
             n == keeper'[k]
  <1>1. /\ m.at = "export" /\ s \in m.todo
        /\ links' = links /\ confused \subseteq confused'
    BY DEF Calls
  <1>2. /\ issued \in [Shops -> Nat] /\ issued' \in [Shops -> Nat]
        /\ \A t \in Shops, g \in goods : g.shop = t => g.part \in Parts
        /\ keeper \in [Keepers -> {keeper[j] : j \in Keepers}]
        /\ \A j \in Keepers : /\ KeeperOK(keeper[j], links, goods, issued, confused)
                              /\ keeper[j].shops \subseteq Shops
    BY CatalogFacts DEF GoodsOK
  <1>3. m = [at |-> m.at, what |-> m.what, of |-> m.of, todo |-> m.todo, shops |-> m.shops,
             touched |-> m.touched, payload |-> m.payload, rows |-> m.rows, base |-> m.base]
    BY <1>2 DEF KeeperOK
  <1>4. /\ n = [at |-> m.at, what |-> m.what, of |-> m.of, todo |-> m.todo \ {s}, shops |-> m.shops,
                touched |-> m.touched \cup T, payload |-> m.payload, rows |-> r2, base |-> m.base]
        /\ \A j \in Keepers \ {k} : keeper'[j] = keeper[j]
        /\ keeper' \in [Keepers -> {keeper'[j] : j \in Keepers}]
    <2>1. keeper' = [keeper EXCEPT ![k].todo = @ \ {s}, ![k].rows = r2, ![k].touched = @ \cup T]
      BY DEF Calls, Proceed
    <2>2. n = [m EXCEPT !.todo = @ \ {s}, !.rows = r2, !.touched = @ \cup T]
      BY <1>2, <2>1
    <2>3. \A j \in Keepers \ {k} : keeper'[j] = keeper[j]
      BY <1>2, <2>1
    <2>4. DOMAIN keeper' = Keepers
      BY <1>2, <2>1
    <2>5. keeper' = [j \in Keepers |-> keeper'[j]]
      BY <1>2, <2>1, <2>4
    <2>6. keeper' \in [Keepers -> {keeper'[j] : j \in Keepers}]
      BY <2>5
    <2> HIDE DEF m
    <2>7. n = [at |-> m.at, what |-> m.what, of |-> m.of, todo |-> m.todo \ {s}, shops |-> m.shops,
                touched |-> m.touched \cup T, payload |-> m.payload, rows |-> r2, base |-> m.base]
      BY <1>3, <2>2
    <2> QED BY <2>3, <2>6, <2>7
  <1>5. KeeperOK(n, links', goods', issued', confused')
    <2>1. n.rows = r2
      BY <1>4
    <2>2. /\ KeeperOK(m, links, goods, issued, confused)
          /\ n = [at |-> m.at, what |-> m.what, of |-> m.of, todo |-> m.todo \ {s}, shops |-> m.shops,
                touched |-> m.touched \cup T, payload |-> m.payload, rows |-> n.rows, base |-> m.base]
      BY <1>2, <1>4, <2>1
    <2>3. /\ RecordsOK(n.rows)
          /\ s \in T \/ In(goods', s) = In(goods, s)
          /\ \A t \in Shops \ {s} : In(goods', t) = In(goods, t)
          /\ s \notin confused' => Agrees(In(goods', s), n.rows, s)
          /\ \A t \in (m.shops \ {s}) \ confused' : Same(t, m.rows, n.rows)
          /\ \A t \in Shops \ m.shops : Spares(m.what, n.rows, m.base, t)
          /\ OwnShops(n.rows) \subseteq OwnShops(m.rows) \cup m.shops
          /\ m.what = "delete" => n.rows.tmpl \in {m.base.tmpl, Unknown}
      BY <2>1 DEF Calls
    <2>4. links' = links
      BY <1>1
    <2> HIDE DEF m, n
    <2>5. KeeperOK(n, links, goods', issued', confused')
      BY <1>1, <1>2, <2>2, <2>3, CallerGoesOn
    <2> QED BY <2>4, <2>5
  <1>6. ASSUME NEW j \in Keepers, j # k PROVE KeeperOK(keeper'[j], links', goods', issued', confused')
    <2> DEFINE q == keeper[j]
    <2>1. KeeperOK(q, links, goods, issued, confused) /\ q.shops \subseteq Shops
      BY <1>2
    <2>2. q.shops \cap m.shops \subseteq confused /\ s \in m.shops
      BY <1>1, <1>2, <1>6 DEF CatalogInv, KeepersOK, KeeperOK
    <2>3. \A t \in q.shops \ confused' : t \notin confused /\ t # s /\ t \in Shops
      BY <1>1, <2>1, <2>2
    <2>4. \A t \in q.shops \ confused' : /\ t \notin confused /\ In(goods', t) = In(goods, t)
                                         /\ Same(t, links, links)
      BY <2>3, SameSelf DEF Calls
    <2>5. \A t \in Shops : issued[t] <= issued'[t]
      BY DEF Calls
    <2>6. keeper'[j] = q /\ links' = links
      BY <1>1, <1>4, <1>6
    <2> HIDE DEF q
    <2>7. KeeperOK(q, links, goods', issued', confused')
      BY <1>2, <2>1, <2>4, <2>5, KeeperStays
    <2> QED BY <2>6, <2>7
  <1>7. \A j \in Keepers : keeper'[j].shops = keeper[j].shops
    BY <1>4
  <1>8. KeepersOK'
    <2>1. ASSUME NEW i \in Keepers, NEW j \in Keepers, i # j
          PROVE  keeper'[i].shops \cap keeper'[j].shops \subseteq confused'
      BY <1>1, <1>7, <2>1 DEF CatalogInv, KeepersOK
    <2>2. \A j \in Keepers : KeeperOK(keeper'[j], links', goods', issued', confused')
      BY <1>5, <1>6
    <2> QED BY <1>4, <2>1, <2>2 DEF KeepersOK
  <1>9. LinksOK'
    <2>1. RecordsOK(links) /\ \A t \in Shops \ confused : Neat(links, t)
      BY DEF CatalogInv, LinksOK
    <2>2. ASSUME NEW t \in Shops \ confused', \A j \in Keepers : t \notin keeper'[j].shops
          PROVE  Agrees(In(goods', t), links, t)
      <3>1. t \notin confused /\ \A j \in Keepers : t \notin keeper[j].shops
        BY <1>1, <1>7, <2>2
      <3>2. s \in m.shops
        BY <1>1, <1>2 DEF KeeperOK
      <3>3. In(goods', t) = In(goods, t)
        BY <3>1, <3>2 DEF Calls
      <3> QED BY <3>1, <3>3 DEF CatalogInv, LinksOK
    <2>3. links' = links /\ \A t \in Shops \ confused' : Neat(links, t)
      BY <1>1, <2>1
    <2>4. RecordsOK(links')
      BY <2>1, <2>3
    <2>5. \A t \in Shops \ confused' : Neat(links', t)
      BY <2>3
    <2>6. \A t \in Shops \ confused' :
             (\A j \in Keepers : t \notin keeper'[j].shops) => Agrees(In(goods', t), links', t)
      BY <2>2, <2>3
    <2> QED BY <2>4, <2>5, <2>6 DEF LinksOK
  <1> QED BY <1>8, <1>9 DEF CatalogInv

LEMMA MaxIs ==
    ASSUME NEW S, IsFiniteSet(S), S \subseteq Nat, S # {}
    PROVE  Max(S) \in S /\ \A x \in S : x <= Max(S)
  <1>1. PICK m \in S : \A x \in S : x <= m
    BY GreatestNatural
  <1>2. \E x \in S : \A y \in S : x >= y
    BY <1>1
  <1>3. Max(S) = CHOOSE x \in S : \A y \in S : x >= y
    BY DEF Max
  <1>4. Max(S) \in S /\ \A y \in S : Max(S) >= y
    BY <1>2, <1>3
  <1> HIDE DEF Max
  <1> QED BY <1>4

LEMMA MaxParts == Max(Parts) \in Nat \ {0} /\ \A v \in Parts : v \in Nat \ {0} /\ v <= Max(Parts)
  BY CatalogAssumption, MaxIs

LEMMA MaxOne == ASSUME NEW p \in Nat PROVE Max({p}) = p /\ Min({p}) = p
  <1>1. Max({p}) = p
    BY DEF Max
  <1>2. Min({p}) = p
    BY DEF Min
  <1> QED BY <1>1, <1>2

(* Goods of a store that are new, besides some of the old ones.            *)
LEMMA MoreGoods ==
    ASSUME NEW s \in Shops, NEW G, NEW n \in Nat, GoodsOK,
           goods' \subseteq goods \cup G, issued' = [issued EXCEPT ![s] = n], issued[s] <= n,
           \A g \in G : /\ g = [shop |-> s, product |-> g.product, part |-> g.part, id |-> g.id]
                        /\ g.shop = s /\ g.part \in Parts
                        /\ g.id \in issued[s] + 1 .. n /\ g.product \in 1 .. n,
           Distinct(G),
           \A g \in G, h \in goods :
               h \in goods' /\ h.shop = s /\ h.product = g.product => h.part # g.part
    PROVE  GoodsOK' /\ \A t \in Shops : issued[t] <= issued'[t]
  <1>1. issued \in [Shops -> Nat] /\ (\A g \in goods : GoodOK(g, issued)) /\ Distinct(goods)
    BY DEF GoodsOK
  <1>2. issued' \in [Shops -> Nat] /\ issued'[s] = n /\ \A t \in Shops \ {s} : issued'[t] = issued[t]
    BY <1>1
  <1>3. \A t \in Shops : issued[t] \in Nat /\ issued'[t] \in Nat /\ issued[t] <= issued'[t]
    BY <1>1, <1>2
  <1>4. ASSUME NEW g \in goods PROVE GoodOK(g, issued')
    <2>1. GoodOK(g, issued)
      BY <1>1
    <2>2. g.shop \in Shops /\ issued[g.shop] \in Nat /\ issued'[g.shop] \in Nat
          /\ issued[g.shop] <= issued'[g.shop]
      BY <1>3, <2>1 DEF GoodOK
    <2>3. g.id \in 1 .. issued'[g.shop] /\ g.product \in 1 .. issued'[g.shop]
      BY <2>1, <2>2 DEF GoodOK
    <2> QED BY <2>1, <2>3 DEF GoodOK
  <1>5. ASSUME NEW g \in G PROVE GoodOK(g, issued')
    <2>1. g.shop = s /\ issued[s] \in Nat /\ issued'[g.shop] = n
          /\ g.id \in issued[s] + 1 .. n /\ g.product \in 1 .. n
      BY <1>2, <1>3
    <2>2. g.id \in 1 .. n
      BY <2>1
    <2> QED BY <2>1, <2>2 DEF GoodOK
  <1>6. ASSUME NEW g \in goods', NEW h \in goods', g.shop = h.shop,
               g.id = h.id \/ (g.product = h.product /\ g.part = h.part)
        PROVE  g = h
    <2>1. CASE g \in goods /\ h \in goods
      BY <1>1, <1>6, <2>1 DEF Distinct
    <2>2. CASE g \in G /\ h \in G
      BY <1>6, <2>2 DEF Distinct
    <2>3. ASSUME NEW a \in G, NEW b \in goods, b \in goods', a.shop = b.shop
          PROVE  a.id # b.id /\ (a.product = b.product => a.part # b.part)
      <3>1. a.shop = s /\ b.shop = s
        BY <2>3
      <3>2. b.id \in 1 .. issued[s] /\ a.id \in issued[s] + 1 .. n /\ issued[s] \in Nat
        BY <1>1, <1>3, <3>1 DEF GoodOK
      <3>3. a.id # b.id
        BY <3>2
      <3> QED BY <2>3, <3>1, <3>3
    <2> QED BY <1>6, <2>1, <2>2, <2>3
  <1>7. Distinct(goods')
    BY <1>6 DEF Distinct
  <1> QED BY <1>2, <1>3, <1>4, <1>5, <1>7 DEF GoodsOK

LEMMA NewGoods ==
    ASSUME NEW s, NEW p, NEW V \in SUBSET Parts, NEW a \in Nat, NEW G, G = Goods(s, p, V, a)
    PROVE  /\ \A g \in G : /\ g = [shop |-> s, product |-> p, part |-> g.part, id |-> a + g.part]
                           /\ g = [shop |-> g.shop, product |-> g.product, part |-> g.part, id |-> g.id]
                           /\ g.shop = s /\ g.product = p /\ g.part \in V /\ g.id = a + g.part
                           /\ g.id \in a + 1 .. a + Max(Parts)
           /\ \A v \in V : \E g \in G : g.part = v
           /\ Distinct(G)
  <1>1. G = {[shop |-> s, product |-> p, part |-> v, id |-> a + v] : v \in V}
    BY DEF Goods
  <1>2. ASSUME NEW v \in V PROVE \E g \in G : g.part = v
    <2>1. [shop |-> s, product |-> p, part |-> v, id |-> a + v] \in G
      BY <1>1
    <2> QED BY <2>1
  <1>3. ASSUME NEW g \in G
        PROVE  /\ g = [shop |-> s, product |-> p, part |-> g.part, id |-> a + g.part]
               /\ g.shop = s /\ g.product = p /\ g.part \in V /\ g.id = a + g.part
    BY <1>1
  <1>4. ASSUME NEW g \in G PROVE g.id \in a + 1 .. a + Max(Parts)
    BY <1>3, MaxParts
  <1>5. ASSUME NEW g \in G, NEW h \in G, g.id = h.id \/ g.part = h.part PROVE g = h
    <2>1. g.part \in Nat /\ h.part \in Nat /\ g.id = a + g.part /\ h.id = a + h.part
      BY <1>3, MaxParts
    <2>2. g.part = h.part
      BY <1>5, <2>1
    <2> QED BY <1>3, <2>2
  <1>6. ASSUME NEW g \in G
        PROVE  g = [shop |-> g.shop, product |-> g.product, part |-> g.part, id |-> g.id]
    BY <1>3
  <1>7. Distinct(G)
    BY <1>5 DEF Distinct
  <1> QED BY <1>2, <1>3, <1>4, <1>6, <1>7

(* The goods of the stores when those of one of them change.               *)
LEMMA InOthers ==
    ASSUME NEW s, NEW A, NEW B, NEW C, A \ B \subseteq C, B \ A \subseteq C, \A g \in C : g.shop = s
    PROVE  \A t : t # s => In(A, t) = In(B, t)
  BY DEF In

(* Variants that are written on the records.                               *)
Writes(var2, var, G, s) == \A v \in Parts :
    \/ \E g \in G : g.part = v /\ var2[v] = [id |-> g.id, shop |-> s]
    \/ (\A g \in G : g.part # v) /\ var2[v] = var[v]

LEMMA WritesFits ==
    ASSUME NEW s, NEW G, NEW p, NEW r, NEW r2,
           G # {}, \A g \in G : g.shop = s /\ g.part \in Parts /\ g.product = p,
           \A g, h \in G : g.part = h.part => g = h,
           r2.tmpl = [id |-> p, shop |-> s], Writes(r2.var, r.var, G, s),
           \A m \in r2.maps : m.shop # s,
           \A v \in Parts : (\A g \in G : g.part # v) => r.var[v].shop # s
    PROVE  Agrees(G, r2, s)
  <1>1. r2.tmpl.shop = s /\ r2.tmpl.id = p
    OBVIOUS
  <1>2. ASSUME NEW g \in G PROVE r2.var[g.part] = [id |-> g.id, shop |-> s]
    <2>1. g.part \in Parts
      OBVIOUS
    <2>2. PICK h \in G : h.part = g.part /\ r2.var[g.part] = [id |-> h.id, shop |-> s]
      BY <2>1 DEF Writes
    <2>3. h = g
      BY <2>2
    <2> QED BY <2>2, <2>3
  <1>3. ASSUME NEW v \in Parts, r2.var[v].shop = s PROVE \E g \in G : g.part = v
    <2>1. CASE (\A g \in G : g.part # v) /\ r2.var[v] = r.var[v]
      BY <1>3, <2>1
    <2> QED BY <2>1 DEF Writes
  <1> QED BY <1>1, <1>2, <1>3 DEF Agrees

LEMMA OnRecordsWrites ==
    ASSUME NEW s, NEW G, NEW var, NEW var2,
           var2 = [v \in Parts |-> IF \E g \in G : g.part = v
                                   THEN [id |-> (CHOOSE g \in G : g.part = v).id, shop |-> s]
                                   ELSE var[v]]
    PROVE  Writes(var2, var, G, s) /\ DOMAIN var2 = Parts
  <1>1. ASSUME NEW v \in Parts, \E g \in G : g.part = v
        PROVE  \E g \in G : g.part = v /\ var2[v] = [id |-> g.id, shop |-> s]
    <2> DEFINE c == CHOOSE g \in G : g.part = v
    <2>1. c \in G /\ c.part = v
      BY <1>1
    <2>2. var2[v] = [id |-> c.id, shop |-> s]
      BY <1>1
    <2> HIDE DEF c
    <2> QED BY <2>1, <2>2
  <1>2. ASSUME NEW v \in Parts, ~ \E g \in G : g.part = v PROVE var2[v] = var[v]
    BY <1>2
  <1>3. DOMAIN var2 = Parts
    OBVIOUS
  <1> QED BY <1>1, <1>2, <1>3 DEF Writes

LEMMA WritesRefs ==
    ASSUME NEW s \in Shops, NEW G, NEW var, NEW var2,
           Writes(var2, var, G, s), \A g \in G : g.id \in Nat \ {0}, \A v \in Parts : Ref(var[v])
    PROVE  \A v \in Parts : Ref(var2[v]) /\ var2[v].shop \in {var[v].shop, s}
  <1> SUFFICES ASSUME NEW v \in Parts PROVE Ref(var2[v]) /\ var2[v].shop \in {var[v].shop, s}
    OBVIOUS
  <1>1. ASSUME NEW g \in G, var2[v] = [id |-> g.id, shop |-> s] PROVE Ref(var2[v]) /\ var2[v].shop = s
    BY <1>1 DEF Ref
  <1> QED BY <1>1 DEF Writes

LEMMA RefShop ==
    ASSUME NEW x, Ref(x)
    PROVE  /\ x.shop \in Shops \cup {NoShop}
           /\ x.id = NoId <=> x.shop = NoShop
           /\ x.shop = NoShop => x = Unknown
           /\ x.shop # NoShop => x = [id |-> x.id, shop |-> x.shop] /\ x.id \in Nat \ {0}
  BY CatalogAssumption DEF Ref, Unknown, NoId

LEMMA NewRecords ==
    ASSUME NEW r, r = [tmpl |-> r.tmpl, var |-> r.var, maps |-> r.maps],
           r.var = [v \in Parts |-> r.var[v]],
           Ref(r.tmpl), \A v \in Parts : Ref(r.var[v])
    PROVE  RecordsOK(r)
  <1>1. r.var \in [Parts -> {r.var[v] : v \in Parts}]
    OBVIOUS
  <1> QED BY <1>1 DEF RecordsOK

LEMMA AnswerHere ==
    ASSUME NEW r, NEW r2, NEW G, RecordsOK(r), r2 = WithAnswer(r, Home, G)
    PROVE  /\ r2 = [tmpl |-> r2.tmpl, var |-> r2.var, maps |-> r2.maps]
           /\ r2.maps = r.maps
           /\ r2.tmpl = IF r.tmpl.id = NoId THEN [id |-> Min(Products(G)), shop |-> Home] ELSE r.tmpl
           /\ Writes(r2.var, r.var, G, Home) /\ r2.var = [v \in Parts |-> r2.var[v]]
  <1> DEFINE tm == IF r.tmpl.id = NoId THEN [id |-> Min(Products(G)), shop |-> Home] ELSE r.tmpl
             va == [v \in Parts |-> IF \E g \in G : g.part = v
                                    THEN [id |-> (CHOOSE g \in G : g.part = v).id, shop |-> Home]
                                    ELSE r.var[v]]
  <1>1. r2 = [r EXCEPT !.tmpl = tm, !.var = va]
    BY DEF WithAnswer
  <1>2. r = [tmpl |-> r.tmpl, var |-> r.var, maps |-> r.maps]
    BY DEF RecordsOK
  <1>3. Writes(va, r.var, G, Home) /\ DOMAIN va = Parts
    BY OnRecordsWrites
  <1>4. va = [v \in Parts |-> va[v]]
    OBVIOUS
  <1>5. tm = IF r.tmpl.id = NoId THEN [id |-> Min(Products(G)), shop |-> Home] ELSE r.tmpl
    OBVIOUS
  <1> HIDE DEF tm, va
  <1>6. r2 = [tmpl |-> tm, var |-> va, maps |-> r.maps]
    BY <1>1, <1>2
  <1>7. r2.tmpl = tm /\ r2.var = va /\ r2.maps = r.maps
    BY <1>6
  <1> QED BY <1>3, <1>4, <1>5, <1>6, <1>7

LEMMA MapsWritten ==
    ASSUME NEW r, NEW r2, NEW M, RecordsOK(r), r2 = [r EXCEPT !.maps = M]
    PROVE  /\ r2.tmpl = r.tmpl /\ r2.var = r.var /\ r2.maps = M
           /\ RecordsOK(r2)
  <1>1. r = [tmpl |-> r.tmpl, var |-> r.var, maps |-> r.maps]
    BY DEF RecordsOK
  <1>2. r2 = [tmpl |-> r.tmpl, var |-> r.var, maps |-> M]
    BY <1>1
  <1>3. r2.tmpl = r.tmpl /\ r2.var = r.var /\ r2.maps = M
    BY <1>2
  <1> QED BY <1>2, <1>3 DEF RecordsOK

LEMMA SparesOn ==
    ASSUME NEW what, what # "delete", NEW t, NEW r, NEW r2, NEW b,
           Spares(what, r, b, t), Same(t, r, r2)
    PROVE  Spares(what, r2, b, t)
  <1>1. Same(t, r, b)
    BY DEF Spares, Cleared, Same
  <1>2. Same(t, r2, b)
    BY <1>1, SameBack, SameOn
  <1> QED BY <1>2 DEF Same, Spares

(* What the answer of a call brings into the records.                      *)
LEMMA AnswersCall ==
    ASSUME NEW k \in Keepers, NEW s \in Shops, NEW r2, NEW T, CatalogInv,
           keeper[k].at = "export", s \in keeper[k].todo, keeper[k].what # "delete",
           Proceed(k, s, r2, T), links' = links, confused \subseteq confused', RecordsOK(r2),
           s \in T \/ In(goods', s) = In(goods, s),
           \A t \in Shops \ {s} : In(goods', t) = In(goods, t),
           \A t \in Shops : issued[t] <= issued'[t],
           s \notin confused' => Agrees(In(goods', s), r2, s),
           \A t \in Shops \ {s} :
               (t \in keeper[k].shops => t \notin confused') => Same(t, keeper[k].rows, r2),
           OwnShops(r2) \subseteq OwnShops(keeper[k].rows) \cup {s}
    PROVE  Calls(k, s, r2, T)
  <1>1. KeeperOK(keeper[k], links, goods, issued, confused)
    BY CatalogFacts
  <1>2. /\ s \in keeper[k].shops /\ keeper[k].shops \subseteq Shops
        /\ \A t \in Shops \ keeper[k].shops : Spares(keeper[k].what, keeper[k].rows, keeper[k].base, t)
    BY <1>1 DEF KeeperOK
  <1>3. ASSUME NEW t \in Shops \ keeper[k].shops
        PROVE  Spares(keeper[k].what, r2, keeper[k].base, t)
    <2>1. Same(t, keeper[k].rows, r2)
      BY <1>2
    <2>2. Spares(keeper[k].what, keeper[k].rows, keeper[k].base, t)
      BY <1>2
    <2> QED BY <2>1, <2>2, SparesOn
  <1>4. \A t \in (keeper[k].shops \ {s}) \ confused' : Same(t, keeper[k].rows, r2)
    BY <1>2
  <1>5. OwnShops(r2) \subseteq OwnShops(keeper[k].rows) \cup keeper[k].shops
    BY <1>2
  <1> QED BY <1>3, <1>4, <1>5 DEF Calls

(* An id that is written at Home leaves what is of the other stores.       *)
LEMMA HomeOnly ==
    ASSUME NEW t, t # Home, NEW r, NEW r2, r2.maps = r.maps,
           r2.tmpl = r.tmpl \/ (r.tmpl.shop # t /\ r2.tmpl.shop = Home),
           \A v \in Parts : r2.var[v] = r.var[v] \/ (r.var[v].shop # t /\ r2.var[v].shop = Home)
    PROVE  Same(t, r, r2)
  BY DEF Same, Like

LEMMA MapsOnly ==
    ASSUME NEW s, NEW t, t # s, NEW r, NEW r2, r2.tmpl = r.tmpl, r2.var = r.var,
           \A m \in r.maps : m \notin r2.maps => m.shop = s,
           \A m \in r2.maps : m \notin r.maps => m.shop = s
    PROVE  Same(t, r, r2)
  BY DEF Same, Like

LEMMA InMore ==
    ASSUME NEW A, NEW C, NEW s, \A g \in C : g.shop = s
    PROVE  In(A \cup C, s) = In(A, s) \cup C /\ \A t : t # s => In(A \cup C, t) = In(A, t)
  BY DEF In

(* What a request knows of the store it is about to call.                  *)
LEMMA CallerFacts ==
    ASSUME NEW k \in Keepers, NEW s \in Shops, CatalogInv,
           keeper[k].at = "export", s \in keeper[k].todo
    PROVE  /\ RecordsOK(keeper[k].rows)
           /\ s \in keeper[k].shops
           /\ s \notin confused => Agrees(In(goods, s), keeper[k].rows, s)
           /\ s \notin confused => Same(s, keeper[k].rows, keeper[k].base)
           /\ keeper[k].what = "create" /\ keeper[k].of = Template =>
                 keeper[k].base.tmpl.shop # s /\ \A q \in keeper[k].base.maps : q.shop # s
           /\ Home \in keeper[k].todo => OwnShops(keeper[k].rows) \subseteq keeper[k].shops
           /\ \A t \in keeper[k].shops \ confused : Agrees(In(goods, t), keeper[k].rows, t)
  <1>1. KeeperOK(keeper[k], links, goods, issued, confused)
    BY CatalogFacts
  <1>2. /\ RecordsOK(keeper[k].rows)
        /\ s \in keeper[k].shops
        /\ Knows(keeper[k], links, goods, confused) /\ Exports(keeper[k], confused)
    BY <1>1 DEF KeeperOK
  <1>3. \A t \in keeper[k].shops \ confused : Agrees(In(goods, t), keeper[k].rows, t)
    BY <1>2 DEF Knows
  <1>4. /\ Home \in keeper[k].todo => OwnShops(keeper[k].rows) \subseteq keeper[k].shops
        /\ s \notin confused => Same(s, keeper[k].rows, keeper[k].base)
        /\ keeper[k].what = "create" /\ keeper[k].of = Template =>
                 keeper[k].base.tmpl.shop # s /\ \A q \in keeper[k].base.maps : q.shop # s
    BY <1>2 DEF Exports
  <1> QED BY <1>2, <1>3, <1>4

LEMMA GoodsFacts ==
    ASSUME GoodsOK
    PROVE  /\ issued \in [Shops -> Nat] /\ \A s \in Shops : issued[s] \in Nat
           /\ \A g \in goods : /\ g = [shop |-> g.shop, product |-> g.product, part |-> g.part, id |-> g.id]
                               /\ g.shop \in Shops /\ g.part \in Parts
                               /\ g.id \in Nat \ {0} /\ g.product \in Nat \ {0}
                               /\ g.product <= issued[g.shop] /\ g.id <= issued[g.shop]
           /\ Distinct(goods)
  <1>1. issued \in [Shops -> Nat] /\ Distinct(goods)
    BY DEF GoodsOK
  <1>2. ASSUME NEW g \in goods
        PROVE /\ g = [shop |-> g.shop, product |-> g.product, part |-> g.part, id |-> g.id]
              /\ g.shop \in Shops /\ g.part \in Parts
              /\ g.id \in 1 .. issued[g.shop] /\ g.product \in 1 .. issued[g.shop]
    BY DEF GoodsOK, GoodOK
  <1>3. ASSUME NEW g \in goods
        PROVE  /\ g.id \in Nat \ {0} /\ g.product \in Nat \ {0}
               /\ g.product <= issued[g.shop] /\ g.id <= issued[g.shop]
    <2>1. issued[g.shop] \in Nat
      BY <1>1, <1>2
    <2> QED BY <1>2, <2>1
  <1> QED BY <1>1, <1>2, <1>3

LEMMA CreateKeeps ==
    ASSUME NEW k \in Keepers, NEW s \in Shops, CatalogInv, CreateProduct(k, s)
    PROVE  CatalogInv'
  <1> DEFINE copy == keeper[k].rows
             G    == Goods(s, issued[s] + 1, Parts, issued[s])
             r2   == WithAnswer(copy, s, G)
             n    == issued[s] + Max(Parts)
             p    == issued[s] + 1
  <1>0. GoodsOK
    BY DEF CatalogInv
  <1>1. /\ issued[s] \in Nat /\ n \in Nat /\ p \in Nat \ {0} /\ issued[s] <= n /\ p <= n
        /\ p > issued[s]
    BY <1>0, GoodsFacts, MaxParts
  <1>2. /\ \A g \in G : /\ g = [shop |-> s, product |-> p, part |-> g.part, id |-> issued[s] + g.part]
                        /\ g = [shop |-> g.shop, product |-> g.product, part |-> g.part, id |-> g.id]
                        /\ g.shop = s /\ g.product = p /\ g.part \in Parts /\ g.id = issued[s] + g.part
                        /\ g.id \in issued[s] + 1 .. n
        /\ \A v \in Parts : \E g \in G : g.part = v
        /\ Distinct(G)
    <2> DEFINE a == issued[s]
    <2>1. a \in Nat /\ n = a + Max(Parts) /\ G = Goods(s, p, Parts, a) /\ Parts \in SUBSET Parts
      BY <1>1
    <2> HIDE DEF a, n, p, G
    <2>2. /\ \A g \in G : /\ g = [shop |-> s, product |-> p, part |-> g.part, id |-> a + g.part]
                          /\ g = [shop |-> g.shop, product |-> g.product, part |-> g.part, id |-> g.id]
                          /\ g.shop = s /\ g.product = p /\ g.part \in Parts /\ g.id = a + g.part
                          /\ g.id \in a + 1 .. a + Max(Parts)
          /\ \A v \in Parts : \E g \in G : g.part = v
          /\ Distinct(G)
      BY <2>1, NewGoods
    <2>3. a + Max(Parts) = n
      BY <2>1
    <2> QED BY <2>2, <2>3 DEF a
  <1>3. /\ keeper[k].at = "export" /\ s \in keeper[k].todo /\ keeper[k].what = "create"
        /\ keeper[k].of = Template
        /\ goods' = goods \cup G /\ issued' = [issued EXCEPT ![s] = n]
        /\ Proceed(k, s, r2, {s})
        /\ confused' = IF s = Home /\ OwnShops(copy) # {}
                       THEN confused \cup {Home} \cup OwnShops(copy) ELSE confused
        /\ links' = links
    BY DEF CreateProduct, Doing
  <1>4. /\ RecordsOK(copy) /\ s \in keeper[k].shops
        /\ s \notin confused => Agrees(In(goods, s), copy, s)
        /\ s \notin confused => Same(s, copy, keeper[k].base)
        /\ keeper[k].base.tmpl.shop # s /\ \A q \in keeper[k].base.maps : q.shop # s
        /\ Home \in keeper[k].todo => OwnShops(copy) \subseteq keeper[k].shops
    BY <1>3, CallerFacts
  <1> HIDE DEF G, r2, n, p
  <1>5. GoodsOK' /\ \A t \in Shops : issued[t] <= issued'[t]
    <2>1. \A g \in G, h \in goods :
             h \in goods' /\ h.shop = s /\ h.product = g.product => h.part # g.part
      <3> SUFFICES ASSUME NEW g \in G, NEW h \in goods, h.shop = s, h.product = g.product PROVE FALSE
        OBVIOUS
      <3>1. h.product \in Nat /\ h.product <= issued[s]
        BY <1>0, GoodsFacts
      <3>2. g.product = p
        BY <1>2
      <3> QED BY <1>1, <3>1, <3>2
    <2>2. goods' \subseteq goods \cup G /\ issued' = [issued EXCEPT ![s] = n]
      BY <1>3
    <2>3. \A g \in G : /\ g = [shop |-> s, product |-> g.product, part |-> g.part, id |-> g.id]
                        /\ g.shop = s /\ g.part \in Parts
                        /\ g.id \in issued[s] + 1 .. n /\ g.product \in 1 .. n
      <3> SUFFICES ASSUME NEW g \in G
                   PROVE  /\ g = [shop |-> s, product |-> g.product, part |-> g.part, id |-> g.id]
                          /\ g.shop = s /\ g.part \in Parts
                          /\ g.id \in issued[s] + 1 .. n /\ g.product \in 1 .. n
        OBVIOUS
      <3>1. /\ g = [shop |-> g.shop, product |-> g.product, part |-> g.part, id |-> g.id]
            /\ g.shop = s /\ g.product = p /\ g.part \in Parts
            /\ g.id \in issued[s] + 1 .. n
        BY <1>2
      <3>2. g.product \in 1 .. n
        BY <1>1, <3>1
      <3> QED BY <3>1, <3>2
    <2> QED BY <1>0, <1>1, <1>2, <2>1, <2>2, <2>3, MoreGoods
  <1>6. In(goods', s) = In(goods, s) \cup G /\ \A t \in Shops \ {s} : In(goods', t) = In(goods, t)
    <2>1. \A g \in G : g.shop = s
      BY <1>2
    <2>2. /\ In(goods \cup G, s) = In(goods, s) \cup G
          /\ \A t : t # s => In(goods \cup G, t) = In(goods, t)
      BY <2>1 DEF In
    <2>3. goods' = goods \cup G
      BY <1>3
    <2> QED BY <2>2, <2>3
  <1>7. s \notin confused =>
           In(goods, s) = {} /\ copy.tmpl.shop # s /\ \A q \in copy.maps : q.shop # s
    <2> SUFFICES ASSUME s \notin confused
                 PROVE  In(goods, s) = {} /\ copy.tmpl.shop # s /\ \A q \in copy.maps : q.shop # s
      OBVIOUS
    <2>1. copy.tmpl.shop # s
      BY <1>4 DEF Same, Like
    <2>2. \A q \in copy.maps : q.shop # s
      BY <1>4 DEF Same
    <2>3. \A g \in In(goods, s) : MapOf(g) \in copy.maps
      BY <1>4, <2>1 DEF Agrees
    <2>4. \A g \in In(goods, s) : MapOf(g).shop = s
      BY DEF MapOf, In
    <2> QED BY <2>1, <2>2, <2>3, <2>4
  <1>8. G # {} /\ Products(G) = {p} /\ Min(Products(G)) = p
    <2>1. G # {}
      BY <1>2, CatalogAssumption
    <2>2. Products(G) = {p}
      BY <1>2, <2>1 DEF Products
    <2>3. Min({p}) = p
      BY <1>1, MaxOne
    <2> QED BY <2>1, <2>2, <2>3
  <1>9. /\ RecordsOK(r2) /\ OwnShops(r2) \subseteq OwnShops(copy) \cup {s}
        /\ s \notin confused' => Agrees(In(goods', s), r2, s)
        /\ \A t \in Shops \ {s} : (t \in keeper[k].shops => t \notin confused') => Same(t, copy, r2)
    <2>1. CASE s = Home
      <3>1. /\ r2 = [tmpl |-> r2.tmpl, var |-> r2.var, maps |-> r2.maps]
            /\ r2.maps = copy.maps
            /\ r2.tmpl = IF copy.tmpl.id = NoId THEN [id |-> p, shop |-> Home] ELSE copy.tmpl
            /\ Writes(r2.var, copy.var, G, Home) /\ r2.var = [v \in Parts |-> r2.var[v]]
        BY <1>4, <1>8, <2>1, AnswerHere DEF r2
      <3>2. /\ Ref(copy.tmpl) /\ \A v \in Parts : Ref(copy.var[v])
        BY <1>4 DEF RecordsOK
      <3>3. \A v \in Parts : Ref(r2.var[v]) /\ r2.var[v].shop \in {copy.var[v].shop, Home}
        <4>1. \A g \in G : g.id \in Nat \ {0}
          <5> SUFFICES ASSUME NEW g \in G PROVE g.id \in Nat \ {0}
            OBVIOUS
          <5>1. g.id \in issued[s] + 1 .. n
            BY <1>2
          <5> QED BY <1>1, <5>1
        <4> QED BY <2>1, <3>1, <3>2, <4>1, WritesRefs
      <3>4. Ref(r2.tmpl) /\ r2.tmpl.shop \in {copy.tmpl.shop, Home}
        BY <1>1, <2>1, <3>1, <3>2 DEF Ref
      <3>5. RecordsOK(r2)
        BY <3>1, <3>3, <3>4, NewRecords
      <3>6. OwnShops(r2) \subseteq OwnShops(copy) \cup {s}
        BY <2>1, <3>3, <3>4 DEF OwnShops
      <3>7. ASSUME s \notin confused' PROVE Agrees(In(goods', s), r2, s)
        <4>1. s \notin confused /\ OwnShops(copy) = {}
          BY <1>3, <2>1, <3>7
        <4>2. copy.tmpl = Unknown
          BY <3>2, <4>1, RefShop DEF OwnShops
        <4>3. r2.tmpl = [id |-> p, shop |-> Home]
          BY <3>1, <4>2 DEF Unknown
        <4>4. In(goods', s) = G
          BY <1>6, <1>7, <4>1
        <4>5. \A v \in Parts : (\A g \in G : g.part # v) => copy.var[v].shop # s
          BY <1>2
        <4>6. \A m \in r2.maps : m.shop # s
          BY <1>7, <3>1, <4>1
        <4>7. \A g, h \in G : g.part = h.part => g = h
          BY <1>2
        <4>8. \A g \in G : g.shop = s /\ g.part \in Parts /\ g.product = p
          BY <1>2
        <4>9. G # {} /\ r2.tmpl = [id |-> p, shop |-> s] /\ Writes(r2.var, copy.var, G, s)
          BY <1>8, <2>1, <3>1, <4>3
        <4>10. Agrees(G, r2, s)
          BY <4>5, <4>6, <4>7, <4>8, <4>9, WritesFits
        <4> QED BY <4>4, <4>10
      <3>8. ASSUME NEW t \in Shops \ {s}, t \in keeper[k].shops => t \notin confused'
            PROVE  Same(t, copy, r2)
        <4>1. t \notin OwnShops(copy)
          BY <1>3, <1>4, <2>1, <3>8
        <4>2. copy.tmpl.shop # t /\ \A v \in Parts : copy.var[v].shop # t
          BY <4>1, CatalogAssumption DEF OwnShops
        <4>3. r2.tmpl = copy.tmpl \/ (copy.tmpl.shop # t /\ r2.tmpl.shop = Home)
          BY <3>1, <4>2
        <4>4. \A v \in Parts : r2.var[v] = copy.var[v] \/ (copy.var[v].shop # t /\ r2.var[v].shop = Home)
          <5> SUFFICES ASSUME NEW v \in Parts
                       PROVE  r2.var[v] = copy.var[v] \/ (copy.var[v].shop # t /\ r2.var[v].shop = Home)
            OBVIOUS
          <5>1. CASE \E g \in G : g.part = v /\ r2.var[v] = [id |-> g.id, shop |-> Home]
            BY <4>2, <5>1
          <5> QED BY <3>1, <5>1 DEF Writes
        <4> QED BY <2>1, <3>1, <4>3, <4>4, HomeOnly
      <3> QED BY <3>5, <3>6, <3>7, <3>8
    <2>2. CASE s # Home
      <3>1. r2 = [copy EXCEPT !.maps = copy.maps \cup {MapOf(g) : g \in G}]
        BY <2>2 DEF r2, WithAnswer
      <3>2. r2.tmpl = copy.tmpl /\ r2.var = copy.var /\ r2.maps = copy.maps \cup {MapOf(g) : g \in G}
            /\ RecordsOK(r2)
        BY <1>4, <3>1, MapsWritten
      <3>3. OwnShops(r2) \subseteq OwnShops(copy) \cup {s}
        BY <3>2 DEF OwnShops
      <3>4. ASSUME s \notin confused' PROVE Agrees(In(goods', s), r2, s)
        <4>1. s \notin confused
          BY <1>3, <2>2, <3>4
        <4>2. In(goods', s) = G /\ copy.tmpl.shop # s /\ \A q \in copy.maps : q.shop # s
          BY <1>6, <1>7, <4>1
        <4>3. \A v \in Parts : r2.var[v].shop # s
          BY <1>4, <3>2, <4>1, <4>2 DEF Agrees
        <4>4. ASSUME NEW m \in r2.maps, m.shop = s PROVE \E g \in G : m = MapOf(g)
          BY <3>2, <4>2, <4>4
        <4>5. \A g \in G : MapOf(g) \in r2.maps
          BY <3>2
        <4>6. \A g, h \in G : g.product = h.product
          BY <1>2
        <4> QED BY <3>2, <4>2, <4>3, <4>4, <4>5, <4>6 DEF Agrees
      <3>5. ASSUME NEW t \in Shops \ {s} PROVE Same(t, copy, r2)
        <4>1. \A g \in G : MapOf(g).shop = s
          BY <1>2 DEF MapOf
        <4>2. \A m \in copy.maps : m \notin r2.maps => m.shop = s
          BY <3>2
        <4>3. \A m \in r2.maps : m \notin copy.maps => m.shop = s
          BY <3>2, <4>1
        <4> QED BY <3>2, <4>2, <4>3, MapsOnly
      <3> QED BY <3>2, <3>3, <3>4, <3>5
    <2> QED BY <2>1, <2>2
  <1>10. confused \subseteq confused' /\ keeper[k].what # "delete" /\ s \in {s}
    BY <1>3
  <1>11. Calls(k, s, r2, {s})
    BY <1>3, <1>5, <1>6, <1>9, <1>10, AnswersCall
  <1> QED BY <1>5, <1>11, CallKeeps

Puts(va, var, v, x) == va = [var EXCEPT ![v] = x]

LEMMA VarWritten ==
    ASSUME NEW r, NEW r2, NEW v \in Parts, NEW x, NEW va, RecordsOK(r), Ref(x),
           Puts(va, r.var, v, x), r2 = [r EXCEPT !.var = va]
    PROVE  /\ r2.tmpl = r.tmpl /\ r2.maps = r.maps /\ r2.var = va
           /\ RecordsOK(r2)
  <1>1. r = [tmpl |-> r.tmpl, var |-> r.var, maps |-> r.maps]
        /\ r.var \in [Parts -> {r.var[w] : w \in Parts}] /\ Ref(r.tmpl) /\ \A w \in Parts : Ref(r.var[w])
    BY DEF RecordsOK
  <1>2. va = [w \in Parts |-> va[w]] /\ va[v] = x /\ \A w \in Parts \ {v} : va[w] = r.var[w]
    BY <1>1 DEF Puts
  <1>4. r2 = [tmpl |-> r.tmpl, var |-> va, maps |-> r.maps]
    BY <1>1
  <1>5. r2.tmpl = r.tmpl /\ r2.var = va /\ r2.maps = r.maps
    BY <1>4
  <1>6. \A w \in Parts : Ref(r2.var[w])
    BY <1>1, <1>2, <1>5
  <1>7. RecordsOK(r2)
    BY <1>1, <1>2, <1>4, <1>5, <1>6, NewRecords
  <1> QED BY <1>2, <1>5, <1>7

LEMMA AddKeeps ==
    ASSUME NEW k \in Keepers, NEW s \in Shops, CatalogInv, AddVariant(k, s)
    PROVE  CatalogInv'
  <1> DEFINE copy == keeper[k].rows
             v    == keeper[k].of
             old  == {r \in MapsIn(copy, s) : r.part = v}
             n    == issued[s] + 1
             New(p) == [shop |-> s, product |-> p, part |-> v, id |-> n]
             After(new) == IF s # Home
                         THEN [copy EXCEPT !.maps = (@ \ old) \cup {MapOf(new)}]
                         ELSE IF copy.var[v].id = NoId
                         THEN [copy EXCEPT !.var[v] = [id |-> new.id, shop |-> Home]]
                         ELSE copy
  <1>0. GoodsOK
    BY DEF CatalogInv
  <1>1. PICK p \in ParentsIn(copy, s) \cap Products(In(goods, s)) :
            /\ \A g \in In(goods, s) : g.product = p => g.part # v
            /\ goods' = goods \cup {New(p)}
            /\ Proceed(k, s, After(New(p)), {s})
            /\ confused' = IF IF s = Home THEN copy.tmpl.shop = s /\ copy.var[v] = Unknown
                              ELSE s \notin OwnShops(copy)
                           THEN confused ELSE confused \cup {s}
            /\ issued' = [issued EXCEPT ![s] = n]
    BY DEF AddVariant
  <1>2. /\ keeper[k].at = "export" /\ s \in keeper[k].todo /\ keeper[k].what # "delete"
        /\ v # Template /\ links' = links /\ v \in Parts
    <2>1. keeper[k].at = "export" /\ s \in keeper[k].todo /\ keeper[k].what # "delete" /\ v # Template
          /\ links' = links
      BY DEF AddVariant, Doing
    <2>2. KeeperOK(keeper[k], links, goods, issued, confused)
      BY CatalogFacts
    <2>3. v \in Parts \cup {Template}
      BY <2>1, <2>2 DEF KeeperOK
    <2> QED BY <2>1, <2>3
  <1>3. /\ RecordsOK(copy) /\ s \in keeper[k].shops
        /\ s \notin confused => Agrees(In(goods, s), copy, s)
    BY <1>2, CallerFacts
  <1>4. issued[s] \in Nat /\ n = issued[s] + 1 /\ n \in Nat \ {0}
    BY <1>0, GoodsFacts
  <1>5. PICK g0 \in In(goods, s) : g0.product = p
    BY <1>1 DEF Products
  <1>6. p \in Nat \ {0} /\ p <= issued[s]
    BY <1>0, <1>5, GoodsFacts DEF In
  <1>7. PICK new : new = New(p)
    OBVIOUS
  <1>8. /\ new = [shop |-> s, product |-> p, part |-> v, id |-> n]
        /\ new.shop = s /\ new.product = p /\ new.part = v /\ new.id = n
        /\ MapOf(new) = [shop |-> s, part |-> v, id |-> n, parent |-> p]
        /\ goods' = goods \cup {new} /\ issued' = [issued EXCEPT ![s] = n]
        /\ \A g \in In(goods, s) : g.product = p => g.part # v
        /\ Proceed(k, s, After(new), {s})
    BY <1>1, <1>7 DEF MapOf
  <1> DEFINE r2 == After(new)
  <1>9. /\ s # Home => r2 = [copy EXCEPT !.maps = (copy.maps \ old) \cup {MapOf(new)}]
        /\ s = Home /\ copy.var[v].id = NoId => r2 = [copy EXCEPT !.var[v] = [id |-> n, shop |-> Home]]
        /\ s = Home /\ copy.var[v].id # NoId => r2 = copy
        /\ Proceed(k, s, r2, {s})
    BY <1>8
  <1> HIDE DEF r2, n, New, After
  <1>10. GoodsOK' /\ \A t \in Shops : issued[t] <= issued'[t]
    <2> DEFINE G == {new}
    <2>1. goods' \subseteq goods \cup G
      BY <1>8
    <2>2. \A g \in G, h \in goods : h \in goods' /\ h.shop = s /\ h.product = g.product => h.part # g.part
      BY <1>8 DEF In
    <2>3. \A g \in G : /\ g = [shop |-> s, product |-> g.product, part |-> g.part, id |-> g.id]
                       /\ g.shop = s /\ g.part \in Parts
                       /\ g.id \in issued[s] + 1 .. n /\ g.product \in 1 .. n
      <3>1. n \in issued[s] + 1 .. n /\ p \in 1 .. n
        BY <1>4, <1>6
      <3> QED BY <1>2, <1>8, <3>1
    <2>4. Distinct(G)
      BY DEF Distinct
    <2>5. issued' = [issued EXCEPT ![s] = n] /\ n \in Nat /\ issued[s] <= n
      BY <1>4, <1>8
    <2> HIDE DEF G
    <2> QED BY <1>0, <2>1, <2>2, <2>3, <2>4, <2>5, MoreGoods
  <1>11. In(goods', s) = In(goods, s) \cup {new} /\ \A t \in Shops \ {s} : In(goods', t) = In(goods, t)
    BY <1>8 DEF In
  <1>12. confused \subseteq confused'
         /\ (s \notin confused' => /\ s \notin confused
                                   /\ s = Home => copy.tmpl.shop = s /\ copy.var[v] = Unknown
                                   /\ s # Home => s \notin OwnShops(copy))
    BY <1>1
  <1>13. /\ RecordsOK(r2) /\ OwnShops(r2) \subseteq OwnShops(copy) \cup {s}
         /\ s \notin confused' => Agrees(In(goods', s), r2, s)
         /\ \A t \in Shops \ {s} : Same(t, copy, r2)
    <2>1. CASE s = Home /\ copy.var[v].id = NoId
      <3>1. Ref([id |-> n, shop |-> Home]) /\ Ref(copy.var[v])
        BY <1>2, <1>3, <1>4, <2>1 DEF Ref, RecordsOK
      <3>2. r2 = [copy EXCEPT !.var[v] = [id |-> n, shop |-> Home]]
        BY <1>9, <2>1
      <3>3. PICK x : x = [id |-> n, shop |-> Home]
        OBVIOUS
      <3>4. Ref(x) /\ r2 = [copy EXCEPT !.var[v] = x] /\ x.id = n /\ x.shop = Home
        BY <3>1, <3>2, <3>3
      <3>5. /\ r2.tmpl = copy.tmpl /\ r2.maps = copy.maps /\ r2.var[v] = x
            /\ \A w \in Parts \ {v} : r2.var[w] = copy.var[w]
            /\ RecordsOK(r2)
        <4>1. RecordsOK(copy) /\ v \in Parts
          BY <1>2, <1>3
        <4>2. PICK va : va = [copy.var EXCEPT ![v] = x] /\ Puts(va, copy.var, v, x)
          BY DEF Puts
        <4>3. r2 = [copy EXCEPT !.var = va]
          BY <3>4, <4>2
        <4>4. va[v] = x /\ \A w \in Parts \ {v} : va[w] = copy.var[w]
          BY <4>1, <4>2 DEF RecordsOK
        <4>5. Ref(x)
          BY <3>4
        <4> HIDE DEF copy, v
        <4>6. r2.tmpl = copy.tmpl /\ r2.maps = copy.maps /\ r2.var = va /\ RecordsOK(r2)
          BY <4>1, <4>2, <4>3, <4>5, VarWritten
        <4> QED BY <4>4, <4>6
      <3>6. copy.var[v] = Unknown /\ copy.var[v].shop = NoShop
        BY <2>1, <3>1, RefShop DEF Unknown
      <3>7. OwnShops(r2) \subseteq OwnShops(copy) \cup {s}
        BY <2>1, <3>4, <3>5 DEF OwnShops
      <3>8. ASSUME s \notin confused' PROVE Agrees(In(goods', s), r2, s)
        <4>1. copy.tmpl.shop = s /\ Agrees(In(goods, s), copy, s) /\ copy.tmpl.id = p
          <5>1. copy.tmpl.shop = s /\ Agrees(In(goods, s), copy, s)
            BY <1>3, <1>12, <2>1, <3>8
          <5> QED BY <1>5, <5>1 DEF Agrees
        <4>2. ASSUME NEW g \in In(goods', s)
              PROVE  g.product = p /\ r2.var[g.part] = [id |-> g.id, shop |-> s]
          <5>1. CASE g = new
            BY <1>8, <2>1, <3>3, <3>5, <5>1
          <5>2. CASE g \in In(goods, s)
            <6>1. g.product = p /\ copy.var[g.part] = [id |-> g.id, shop |-> s]
              BY <4>1, <5>2 DEF Agrees
            <6>2. g.part # v /\ g.part \in Parts
              BY <1>0, <1>8, <5>2, <6>1, GoodsFacts DEF In
            <6> QED BY <3>5, <6>1, <6>2
          <5> QED BY <1>11, <5>1, <5>2
        <4>3. ASSUME NEW w \in Parts, r2.var[w].shop = s PROVE \E g \in In(goods', s) : g.part = w
          <5>1. CASE w = v
            BY <1>8, <1>11, <5>1
          <5>2. CASE w # v
            <6>1. copy.var[w].shop = s
              BY <3>5, <4>3, <5>2
            <6> QED BY <1>11, <4>1, <6>1 DEF Agrees
          <5> QED BY <5>1, <5>2
        <4>4. \A m \in r2.maps : m.shop # s
          BY <3>5, <4>1 DEF Agrees
        <4>5. In(goods', s) # {}
          BY <1>11
        <4> QED BY <3>5, <4>1, <4>2, <4>3, <4>4, <4>5 DEF Agrees
      <3>9. ASSUME NEW t \in Shops \ {s} PROVE Same(t, copy, r2)
        <4>1. \A w \in Parts : r2.var[w] = copy.var[w] \/ (copy.var[w].shop # t /\ r2.var[w].shop = Home)
          BY <3>4, <3>5, <3>6, CatalogAssumption
        <4>2. t # Home /\ r2.maps = copy.maps
              /\ (r2.tmpl = copy.tmpl \/ (copy.tmpl.shop # t /\ r2.tmpl.shop = Home))
          BY <2>1, <3>5
        <4> QED BY <4>1, <4>2, HomeOnly
      <3> QED BY <3>5, <3>7, <3>8, <3>9
    <2>2. CASE s = Home /\ copy.var[v].id # NoId
      <3>1. r2 = copy
        BY <1>9, <2>2
      <3>2. copy.var[v] # Unknown
        BY <2>2 DEF Unknown
      <3>3. s \in confused'
        BY <1>12, <2>2, <3>2
      <3>4. \A t \in Shops \ {s} : Same(t, copy, r2)
        BY <3>1, SameSelf
      <3> QED BY <1>3, <3>1, <3>3, <3>4
    <2>3. CASE s # Home
      <3>1. PICK M : M = (copy.maps \ old) \cup {MapOf(new)}
        OBVIOUS
      <3>2. r2 = [copy EXCEPT !.maps = M]
        BY <1>9, <2>3, <3>1
      <3>3. r2.tmpl = copy.tmpl /\ r2.var = copy.var /\ r2.maps = M /\ RecordsOK(r2)
        BY <1>3, <3>2, MapsWritten
      <3>4. OwnShops(r2) \subseteq OwnShops(copy) \cup {s}
        BY <3>3 DEF OwnShops
      <3>5. ASSUME NEW t \in Shops \ {s} PROVE Same(t, copy, r2)
        <4>1. \A m \in copy.maps : m \notin r2.maps => m.shop = s
          BY <3>1, <3>3 DEF MapsIn
        <4>2. \A m \in r2.maps : m \notin copy.maps => m.shop = s
          BY <1>8, <3>1, <3>3
        <4> QED BY <3>3, <4>1, <4>2, MapsOnly
      <3>6. ASSUME s \notin confused' PROVE Agrees(In(goods', s), r2, s)
        <4>1. s \notin OwnShops(copy) /\ Agrees(In(goods, s), copy, s)
          BY <1>3, <1>12, <2>3, <3>6
        <4>2. copy.tmpl.shop # s
          BY <4>1, CatalogAssumption DEF OwnShops
        <4>3. /\ \A w \in Parts : copy.var[w].shop # s
              /\ \A m \in copy.maps : m.shop = s => \E g \in In(goods, s) : m = MapOf(g)
              /\ \A g \in In(goods, s) : MapOf(g) \in copy.maps
              /\ \A g, h \in In(goods, s) : g.product = h.product
          BY <4>1, <4>2 DEF Agrees
        <4>4. \A g \in In(goods, s) : g.product = p /\ g.part # v
          BY <1>5, <1>8, <4>3
        <4>5. old = {}
          <5> SUFFICES ASSUME NEW q \in old PROVE FALSE
            OBVIOUS
          <5>1. q \in copy.maps /\ q.shop = s /\ q.part = v
            BY DEF MapsIn
          <5>2. PICK g \in In(goods, s) : q = MapOf(g)
            BY <4>3, <5>1
          <5> QED BY <4>4, <5>1, <5>2 DEF MapOf
        <4>6. r2.maps = copy.maps \cup {MapOf(new)}
          BY <3>1, <3>3, <4>5
        <4>7. ASSUME NEW m \in r2.maps, m.shop = s PROVE \E g \in In(goods', s) : m = MapOf(g)
          BY <1>11, <4>3, <4>6, <4>7
        <4>8. \A g \in In(goods', s) : MapOf(g) \in r2.maps
          BY <1>11, <4>3, <4>6
        <4>9. \A g, h \in In(goods', s) : g.product = h.product
          <5>1. \A g \in In(goods', s) : g.product = p
            BY <1>8, <1>11, <4>4
          <5> QED BY <5>1
        <4> QED BY <3>3, <4>2, <4>3, <4>7, <4>8, <4>9 DEF Agrees
      <3> QED BY <3>3, <3>4, <3>5, <3>6
    <2> QED BY <2>1, <2>2, <2>3
  <1>14. s \in {s} /\ Proceed(k, s, r2, {s}) /\ confused \subseteq confused'
    BY <1>9, <1>12
  <1>15. Calls(k, s, r2, {s})
    BY <1>2, <1>10, <1>11, <1>13, <1>14, AnswersCall
  <1> QED BY <1>10, <1>15, CallKeeps

LEMMA UpdateKeeps ==
    ASSUME NEW k \in Keepers, NEW s \in Shops, CatalogInv, UpdateProduct(k, s)
    PROVE  CatalogInv'
  <1> DEFINE copy  == keeper[k].rows
             sent  == {v \in Parts : copy.var[v].id # NoId}
             fresh == Parts \ sent
             a     == issued[s]
             n     == IF fresh = {} THEN a ELSE a + Max(Parts)
             known == {r.parent : r \in MapsIn(copy, s)}
             has(p)  == {g \in In(goods, s) : g.product = p}
             kept(p) == {g \in has(p) : copy.var[g.part] = [id |-> g.id, shop |-> s]}
             new(p)  == Goods(s, p, fresh, a)
  <1>0. GoodsOK
    BY DEF CatalogInv
  <1>1. PICK p \in (IF s # Home THEN known ELSE IF copy.tmpl.shop = s THEN {copy.tmpl.id} ELSE {})
                        \cap Products(In(goods, s)) :
            /\ {g.part : g \in kept(p)} = sent
            /\ goods' = (goods \ has(p)) \cup (kept(p) \cup new(p))
            /\ issued' = [issued EXCEPT ![s] = IF fresh = {} THEN @ ELSE @ + Max(Parts)]
            /\ Proceed(k, s, WithAnswer(copy, s, kept(p) \cup new(p)),
                       IF kept(p) \cup new(p) = has(p) THEN {} ELSE {s})
            /\ confused' = IF s = Home THEN confused ELSE confused \cup {s}
    BY DEF UpdateProduct
  <1>2. /\ keeper[k].at = "export" /\ s \in keeper[k].todo /\ keeper[k].what # "delete"
        /\ links' = links
    BY DEF UpdateProduct, Doing
  <1>3. /\ RecordsOK(copy) /\ s \in keeper[k].shops
        /\ s \notin confused => Agrees(In(goods, s), copy, s)
    BY <1>2, CallerFacts
  <1>4. /\ Ref(copy.tmpl) /\ \A v \in Parts : Ref(copy.var[v])
    BY <1>3 DEF RecordsOK
  <1>5. PICK A, K, F, G, r2, T :
            /\ A = has(p) /\ K = kept(p) /\ F = new(p) /\ G = K \cup F /\ r2 = WithAnswer(copy, s, G)
            /\ T = IF G = A THEN {} ELSE {s}
    OBVIOUS
  <1>6. /\ goods' = (goods \ A) \cup G /\ Proceed(k, s, r2, T)
        /\ confused' = IF s = Home THEN confused ELSE confused \cup {s}
        /\ {g.part : g \in K} = sent /\ F = Goods(s, p, fresh, a)
        /\ s = Home => p = copy.tmpl.id /\ copy.tmpl.shop = s
        /\ p \in Products(In(goods, s))
    BY <1>1, <1>5
  <1>7. /\ issued' = [issued EXCEPT ![s] = n] /\ a \in Nat /\ n \in Nat /\ a <= n
        /\ fresh # {} => n = a + Max(Parts)
    <2>1. issued \in [Shops -> Nat] /\ a \in Nat
      BY <1>0, GoodsFacts
    <2>2. issued' = [issued EXCEPT ![s] = n]
      BY <1>1, <2>1
    <2> QED BY <2>1, <2>2, MaxParts
  <1>8. /\ A = {g \in In(goods, s) : g.product = p}
        /\ K = {g \in A : copy.var[g.part] = [id |-> g.id, shop |-> s]}
    BY <1>5
  <1>9. sent \in SUBSET Parts /\ fresh = Parts \ sent /\ \A v \in Parts : v \in sent <=> copy.var[v].id # NoId
    OBVIOUS
  <1> HIDE DEF sent, fresh, n, known, has, kept, new, a, copy
  <1>10. /\ \A g \in F : /\ g = [shop |-> s, product |-> p, part |-> g.part, id |-> a + g.part]
                         /\ g = [shop |-> g.shop, product |-> g.product, part |-> g.part, id |-> g.id]
                         /\ g.shop = s /\ g.product = p /\ g.part \in fresh /\ g.id = a + g.part
                         /\ g.id \in a + 1 .. a + Max(Parts)
         /\ \A v \in fresh : \E g \in F : g.part = v
         /\ Distinct(F)
    <2>1. /\ a \in Nat /\ fresh \in SUBSET Parts
          /\ F = Goods(s, p, fresh, a)
      BY <1>6, <1>7, <1>9
    <2> QED
      BY ONLY <2>1, NewGoods
  <1>11. \A g \in K : g \in goods /\ g.shop = s /\ g.product = p /\ g.part \in sent
                      /\ copy.var[g.part] = [id |-> g.id, shop |-> s]
    BY <1>6, <1>8 DEF In
  <1>12. \A v \in sent : \E g \in K : g.part = v
    BY <1>6
  <1>13. PICK g0 \in In(goods, s) : g0.product = p
    BY <1>6 DEF Products
  <1>14. p \in Nat \ {0} /\ p <= a
    BY <1>0, <1>13, GoodsFacts DEF In, a
  <1>15. \A g \in goods : /\ g.shop \in Shops /\ g.part \in Parts /\ g.id \in Nat \ {0} /\ g.product \in Nat \ {0}
                          /\ g.shop = s => g.id <= a
    BY <1>0, GoodsFacts DEF a
  <1>16. \A g \in G : g.shop = s /\ g.part \in Parts /\ g.product = p /\ g.id \in Nat \ {0}
    <2>1. \A g \in K : g.shop = s /\ g.part \in Parts /\ g.product = p /\ g.id \in Nat \ {0}
      BY <1>11, <1>15
    <2>2. ASSUME NEW g \in F PROVE g.shop = s /\ g.part \in Parts /\ g.product = p /\ g.id \in Nat \ {0}
      <3>1. /\ g.shop = s /\ g.part \in Parts /\ g.product = p /\ g.part \in fresh
            /\ g.id \in a + 1 .. a + Max(Parts)
        BY <1>9, <1>10
      <3> QED BY <1>7, <3>1, MaxParts
    <2> QED BY <1>5, <2>1, <2>2
  <1>17. GoodsOK' /\ \A t \in Shops : issued[t] <= issued'[t]
    <2>1. goods' \subseteq goods \cup F
      BY <1>5, <1>6, <1>11
    <2>2. ASSUME NEW g \in F, NEW h \in goods, h \in goods', h.shop = s, h.product = g.product
          PROVE  h.part # g.part
      <3>1. h \in A
        BY <1>8, <1>10, <2>2 DEF In
      <3>2. h \in K \/ h \in F
        BY <1>5, <1>6, <2>2, <3>1
      <3>3. ASSUME h \in F PROVE FALSE
        <4>1. h.id \in a + 1 .. a + Max(Parts)
          BY <1>10, <3>3
        <4>2. h.id <= a /\ h.id \in Nat
          BY <1>15, <2>2
        <4> QED BY <1>7, <4>1, <4>2
      <3>4. h.part \in sent /\ g.part \in fresh
        BY <1>10, <1>11, <3>2, <3>3
      <3> QED BY <1>9, <3>4
    <2>3. \A g \in F : /\ g = [shop |-> s, product |-> g.product, part |-> g.part, id |-> g.id]
                       /\ g.shop = s /\ g.part \in Parts
                       /\ g.id \in a + 1 .. n /\ g.product \in 1 .. n
      <3> SUFFICES ASSUME NEW g \in F
                   PROVE  /\ g = [shop |-> s, product |-> g.product, part |-> g.part, id |-> g.id]
                          /\ g.shop = s /\ g.part \in Parts
                          /\ g.id \in a + 1 .. n /\ g.product \in 1 .. n
        OBVIOUS
      <3>1. /\ g = [shop |-> g.shop, product |-> g.product, part |-> g.part, id |-> g.id]
            /\ g.shop = s /\ g.product = p /\ g.part \in fresh
            /\ g.id \in a + 1 .. a + Max(Parts)
        BY <1>10
      <3>2. n = a + Max(Parts)
        BY <1>7, <3>1
      <3>3. g.product \in 1 .. n
        BY <1>7, <1>14, <3>1
      <3> QED BY <1>9, <3>1, <3>2, <3>3
    <2>4. issued[s] = a
      BY DEF a
    <2>5. /\ issued' = [issued EXCEPT ![s] = n] /\ n \in Nat /\ issued[s] <= n /\ Distinct(F)
          /\ \A g \in F : /\ g = [shop |-> s, product |-> g.product, part |-> g.part, id |-> g.id]
                          /\ g.shop = s /\ g.part \in Parts
                          /\ g.id \in issued[s] + 1 .. n /\ g.product \in 1 .. n
      BY <1>7, <1>10, <2>3, <2>4
    <2>6. \A g \in F, h \in goods :
             h \in goods' /\ h.shop = s /\ h.product = g.product => h.part # g.part
      BY <2>2
    <2> QED BY <1>0, <2>1, <2>5, <2>6, MoreGoods
  <1>18. /\ \A t \in Shops \ {s} : In(goods', t) = In(goods, t)
         /\ s \in T \/ In(goods', s) = In(goods, s)
    <2>1. \A t \in Shops \ {s} : In(goods', t) = In(goods, t)
      BY <1>6, <1>8, <1>16 DEF In
    <2>2. CASE G = A
      <3>1. A \subseteq goods
        BY <1>8 DEF In
      <3>2. goods' = goods
        BY <1>6, <2>2, <3>1
      <3> QED BY <2>1, <3>2
    <2>3. CASE G # A
      BY <1>5, <2>1, <2>3
    <2> QED BY <2>2, <2>3
  <1>19. /\ RecordsOK(r2) /\ OwnShops(r2) \subseteq OwnShops(copy) \cup {s}
         /\ s \notin confused' => Agrees(In(goods', s), r2, s)
         /\ \A t \in Shops \ {s} : Same(t, copy, r2)
    <2>1. CASE s = Home
      <3>1. /\ r2 = [tmpl |-> r2.tmpl, var |-> r2.var, maps |-> r2.maps]
            /\ r2.maps = copy.maps
            /\ r2.tmpl = IF copy.tmpl.id = NoId THEN [id |-> Min(Products(G)), shop |-> Home] ELSE copy.tmpl
            /\ Writes(r2.var, copy.var, G, Home) /\ r2.var = [v \in Parts |-> r2.var[v]]
        <4>1. r2 = WithAnswer(copy, Home, G)
          BY <1>5, <2>1
        <4> QED BY <1>3, <4>1, AnswerHere
      <3>2. copy.tmpl = [id |-> p, shop |-> s] /\ r2.tmpl = copy.tmpl
        <4>1. copy.tmpl.shop = s /\ s # NoShop /\ p = copy.tmpl.id
          BY <1>6, <2>1, CatalogAssumption
        <4>2. copy.tmpl = [id |-> copy.tmpl.id, shop |-> copy.tmpl.shop] /\ copy.tmpl.id # NoId
          BY <1>4, <4>1, RefShop
        <4> QED BY <3>1, <4>1, <4>2
      <3>3. \A v \in Parts : Ref(r2.var[v]) /\ r2.var[v].shop \in {copy.var[v].shop, Home}
        <4>1. \A g \in G : g.id \in Nat \ {0}
          BY <1>16
        <4> QED BY <1>4, <2>1, <3>1, <4>1, WritesRefs
      <3>4. RecordsOK(r2)
        BY <1>4, <3>1, <3>2, <3>3, NewRecords
      <3>5. OwnShops(r2) \subseteq OwnShops(copy) \cup {s}
        BY <2>1, <3>2, <3>3 DEF OwnShops
      <3>6. ASSUME NEW v \in Parts PROVE copy.var[v].shop \in {s, NoShop}
        <4>1. CASE v \in sent
          <5>1. PICK g \in K : g.part = v
            BY <1>12, <4>1
          <5>2. copy.var[v] = [id |-> g.id, shop |-> s]
            BY <1>11, <5>1
          <5> QED BY <5>2
        <4>2. CASE v \notin sent
          <5>1. copy.var[v].id = NoId /\ Ref(copy.var[v])
            BY <1>4, <1>9, <4>2
          <5> QED BY <5>1, RefShop
        <4> QED BY <4>1, <4>2
      <3>7. ASSUME NEW t \in Shops \ {s} PROVE Same(t, copy, r2)
        <4>1. ASSUME NEW v \in Parts
              PROVE  r2.var[v] = copy.var[v] \/ (copy.var[v].shop # t /\ r2.var[v].shop = Home)
          <5>1. copy.var[v].shop # t
            BY <3>6, <3>7, CatalogAssumption
          <5>2. CASE \E g \in G : g.part = v /\ r2.var[v] = [id |-> g.id, shop |-> Home]
            BY <5>1, <5>2
          <5> QED BY <3>1, <5>2 DEF Writes
        <4>2. t # Home /\ r2.maps = copy.maps
              /\ (r2.tmpl = copy.tmpl \/ (copy.tmpl.shop # t /\ r2.tmpl.shop = Home))
          BY <2>1, <3>1, <3>2
        <4> QED BY <4>1, <4>2, HomeOnly
      <3>8. ASSUME s \notin confused' PROVE Agrees(In(goods', s), r2, s)
        <4>1. Agrees(In(goods, s), copy, s) /\ copy.tmpl.shop = s /\ copy.tmpl.id = p
          BY <1>3, <1>6, <2>1, <3>2, <3>8
        <4>2. /\ \A g \in In(goods, s) : g.product = p /\ copy.var[g.part] = [id |-> g.id, shop |-> s]
              /\ \A m \in copy.maps : m.shop # s
          BY <4>1 DEF Agrees
        <4>3. In(goods, s) = A /\ A = K
          BY <1>8, <4>2
        <4>4. In(goods', s) = G
          BY <1>6, <1>16, <4>3 DEF In
        <4>5. G # {}
          BY <1>5, <1>13, <4>3
        <4>6. ASSUME NEW g \in G, NEW h \in G, g.part = h.part PROVE g = h
          <5>0. Distinct(goods)
            BY <1>0, GoodsFacts
          <5>1. g \in K /\ h \in K => g = h
            BY <1>11, <4>6, <5>0 DEF Distinct
          <5>2. g \in F /\ h \in F => g = h
            BY <1>10, <4>6 DEF Distinct
          <5>3. \A x \in K, y \in F : x.part # y.part
            BY <1>9, <1>10, <1>11
          <5> QED BY <1>5, <4>6, <5>1, <5>2, <5>3
        <4>7. \A v \in Parts : \E g \in G : g.part = v
          BY <1>5, <1>9, <1>10, <1>12
        <4>8. \A v \in Parts : (\A g \in G : g.part # v) => copy.var[v].shop # s
          BY <4>7
        <4>9. /\ \A g \in G : g.shop = s /\ g.part \in Parts /\ g.product = p
              /\ r2.tmpl = [id |-> p, shop |-> s] /\ Writes(r2.var, copy.var, G, s)
              /\ \A m \in r2.maps : m.shop # s
              /\ \A g, h \in G : g.part = h.part => g = h
          BY <1>16, <2>1, <3>1, <3>2, <4>2, <4>6
        <4>10. Agrees(G, r2, s)
          BY <4>5, <4>8, <4>9, WritesFits
        <4> QED BY <4>4, <4>10
      <3> QED BY <3>4, <3>5, <3>7, <3>8
    <2>2. CASE s # Home
      <3>1. PICK M : M = copy.maps \cup {MapOf(g) : g \in G}
        OBVIOUS
      <3>2. r2 = [copy EXCEPT !.maps = M]
        BY <1>5, <2>2, <3>1 DEF WithAnswer
      <3>3. r2.tmpl = copy.tmpl /\ r2.var = copy.var /\ r2.maps = M /\ RecordsOK(r2)
        BY <1>3, <3>2, MapsWritten
      <3>4. OwnShops(r2) \subseteq OwnShops(copy) \cup {s}
        BY <3>3 DEF OwnShops
      <3>5. s \in confused'
        BY <1>6, <2>2
      <3>6. ASSUME NEW t \in Shops \ {s} PROVE Same(t, copy, r2)
        <4>1. \A g \in G : MapOf(g).shop = s
          BY <1>16 DEF MapOf
        <4>2. \A m \in copy.maps : m \notin r2.maps => m.shop = s
          BY <3>1, <3>3
        <4>3. \A m \in r2.maps : m \notin copy.maps => m.shop = s
          BY <3>1, <3>3, <4>1
        <4> QED BY <3>3, <4>2, <4>3, MapsOnly
      <3> QED BY <3>3, <3>4, <3>5, <3>6
    <2> QED BY <2>1, <2>2
  <1>20. confused \subseteq confused'
    BY <1>6
  <1>21. Calls(k, s, r2, T)
    BY <1>2, <1>6, <1>17, <1>18, <1>19, <1>20, AnswersCall DEF copy
  <1> QED BY <1>17, <1>21, CallKeeps

LEMMA FewerGoods ==
    ASSUME GoodsOK, goods' \subseteq goods, issued' = issued
    PROVE  GoodsOK' /\ \A t \in Shops : issued[t] <= issued'[t]
  <1>1. issued \in [Shops -> Nat]
    BY DEF GoodsOK
  <1>2. \A t \in Shops : issued[t] <= issued'[t]
    BY <1>1
  <1>3. issued' \in [Shops -> Nat]
    BY <1>1
  <1>4. \A g \in goods' : GoodOK(g, issued')
    BY DEF GoodsOK
  <1>5. Distinct(goods')
    BY DEF GoodsOK, Distinct
  <1> QED BY <1>2, <1>3, <1>4, <1>5 DEF GoodsOK

LEMMA DeleterFacts ==
    ASSUME NEW k \in Keepers, CatalogInv, keeper[k].at = "export", keeper[k].what = "delete"
    PROVE  /\ keeper[k].of \in Parts \cup {Template}
           /\ keeper[k].rows.tmpl \in {keeper[k].base.tmpl, Unknown}
           /\ keeper[k].shops \subseteq Shops
           /\ \A t \in Shops \ keeper[k].shops : Spares("delete", keeper[k].rows, keeper[k].base, t)
  <1>1. KeeperOK(keeper[k], links, goods, issued, confused)
    BY CatalogFacts
  <1>2. keeper[k].of \in Parts \cup {Template} /\ Exports(keeper[k], confused)
        /\ keeper[k].shops \subseteq Shops
        /\ \A t \in Shops \ keeper[k].shops : Spares(keeper[k].what, keeper[k].rows, keeper[k].base, t)
    BY <1>1 DEF KeeperOK
  <1>3. keeper[k].rows.tmpl \in {keeper[k].base.tmpl, Unknown}
    BY <1>2 DEF Exports
  <1>4. \A t \in Shops \ keeper[k].shops : Spares("delete", keeper[k].rows, keeper[k].base, t)
    BY <1>2
  <1> QED BY <1>2, <1>3, <1>4

(* Where only mappings of a store have gone, the others see nothing.       *)
LEMMA MapsGone ==
    ASSUME NEW s, NEW r, NEW r2, NEW b, r2.tmpl = r.tmpl, r2.var = r.var,
           r2.maps \subseteq r.maps, \A m \in r.maps : m \notin r2.maps => m.shop = s
    PROVE  \A t : t # s => /\ Same(t, r, r2)
                           /\ Spares("delete", r, b, t) => Spares("delete", r2, b, t)
  <1> SUFFICES ASSUME NEW t, t # s
               PROVE  /\ Same(t, r, r2)
                      /\ Spares("delete", r, b, t) => Spares("delete", r2, b, t)
    OBVIOUS
  <1>1. Same(t, r, r2)
    BY DEF Same, Like
  <1>2. ASSUME Spares("delete", r, b, t) PROVE Spares("delete", r2, b, t)
    <2>1. Like(r2.tmpl, b.tmpl, t)
      BY <1>2 DEF Spares
    <2>2. \A v \in Parts : Like(r2.var[v], b.var[v], t) \/ Cleared("delete", r2, b, v, t)
      BY <1>2 DEF Spares, Cleared
    <2>3. \A m \in r2.maps \cup b.maps : m.shop = t => m \in r2.maps /\ m \in b.maps
      BY <1>2 DEF Spares
    <2> QED BY <2>1, <2>2, <2>3 DEF Spares
  <1> QED BY <1>1, <1>2

(* What a deletion leaves of the records.                                  *)
LEMMA DeletesCall ==
    ASSUME NEW k \in Keepers, NEW s \in Shops, NEW r2, CatalogInv,
           keeper[k].at = "export", s \in keeper[k].todo, keeper[k].what = "delete",
           Proceed(k, s, r2, {s}), links' = links, confused' = confused, RecordsOK(r2),
           \A t \in Shops \ {s} : In(goods', t) = In(goods, t),
           \A t \in Shops : issued[t] <= issued'[t],
           s \notin confused => Agrees(In(goods', s), r2, s),
           \A t \in (keeper[k].shops \ {s}) \ confused : Same(t, keeper[k].rows, r2),
           \A t \in Shops \ keeper[k].shops : Spares("delete", r2, keeper[k].base, t),
           OwnShops(r2) \subseteq OwnShops(keeper[k].rows),
           r2.tmpl \in {keeper[k].base.tmpl, Unknown}
    PROVE  Calls(k, s, r2, {s})
  <1>1. s \in {s} /\ confused \subseteq confused'
    OBVIOUS
  <1>2. \A t \in Shops \ keeper[k].shops : Spares(keeper[k].what, r2, keeper[k].base, t)
    OBVIOUS
  <1>3. OwnShops(r2) \subseteq OwnShops(keeper[k].rows) \cup keeper[k].shops
    OBVIOUS
  <1> QED BY <1>1, <1>2, <1>3 DEF Calls

LEMMA DeleteProductKeeps ==
    ASSUME NEW k \in Keepers, NEW s \in Shops, CatalogInv, DeleteProduct(k, s)
    PROVE  CatalogInv'
  <1> DEFINE copy == keeper[k].rows
             base == keeper[k].base
  <1>0. GoodsOK
    BY DEF CatalogInv
  <1>1. PICK p \in ParentsIn(copy, s) \cap Products(In(goods, s)) :
            /\ goods' = {g \in goods : g.shop # s \/ g.product # p}
            /\ Proceed(k, s, Removed(copy, s), {s})
    BY DEF DeleteProduct
  <1>2. /\ keeper[k].at = "export" /\ s \in keeper[k].todo /\ keeper[k].what = "delete"
        /\ links' = links /\ issued' = issued /\ confused' = confused
    BY DEF DeleteProduct, Doing
  <1>3. /\ RecordsOK(copy) /\ s \in keeper[k].shops
        /\ s \notin confused => Agrees(In(goods, s), copy, s)
        /\ \A t \in keeper[k].shops \ confused : Agrees(In(goods, t), copy, t)
    BY <1>2, CallerFacts
  <1>4. /\ copy.tmpl \in {base.tmpl, Unknown} /\ keeper[k].shops \subseteq Shops
        /\ \A t \in Shops \ keeper[k].shops : Spares("delete", copy, base, t)
    BY <1>2, DeleterFacts
  <1>5. PICK r2 : r2 = Removed(copy, s)
    OBVIOUS
  <1>6. goods' \subseteq goods /\ \A t \in Shops \ {s} : In(goods', t) = In(goods, t)
    BY <1>1 DEF In
  <1>7. GoodsOK' /\ \A t \in Shops : issued[t] <= issued'[t]
    BY <1>0, <1>2, <1>6, FewerGoods
  <1>8. ASSUME \A g \in In(goods, s) : g.product = p PROVE In(goods', s) = {}
    BY <1>1, <1>8 DEF In
  <1>9. s # NoShop /\ Unknown.shop = NoShop /\ \A t \in Shops : t # NoShop
    BY CatalogAssumption DEF Unknown
  <1> HIDE DEF copy, base
  <1>10. /\ RecordsOK(r2) /\ OwnShops(r2) \subseteq OwnShops(copy)
         /\ s \notin confused => Agrees(In(goods', s), r2, s)
         /\ \A t \in (keeper[k].shops \ {s}) \ confused : Same(t, copy, r2)
         /\ \A t \in Shops \ keeper[k].shops : Spares("delete", r2, base, t)
         /\ r2.tmpl \in {base.tmpl, Unknown}
    <2>1. CASE copy.tmpl.shop = s
      <3>1. PICK none : none = [v \in Parts |-> Unknown]
        OBVIOUS
      <3>2. r2 = [copy EXCEPT !.tmpl = Unknown, !.var = none]
        BY <1>5, <2>1, <3>1 DEF Removed
      <3>3. r2 = [tmpl |-> Unknown, var |-> none, maps |-> copy.maps]
        BY <1>3, <3>2 DEF RecordsOK
      <3>4. r2.tmpl = Unknown /\ r2.var = none /\ r2.maps = copy.maps
            /\ \A v \in Parts : r2.var[v] = Unknown
        BY <3>1, <3>3
      <3>5. RecordsOK(r2)
        <4>1. r2.var = [v \in Parts |-> r2.var[v]]
          BY <3>1, <3>4
        <4>2. Ref(Unknown)
          BY DEF Ref
        <4> QED BY <3>3, <3>4, <4>1, <4>2, NewRecords
      <3>6. OwnShops(r2) \subseteq OwnShops(copy)
        BY <1>9, <3>4 DEF OwnShops
      <3>7. ASSUME s \notin confused PROVE Agrees(In(goods', s), r2, s)
        <4>1. /\ \A g \in In(goods, s) : g.product = copy.tmpl.id
              /\ \A m \in copy.maps : m.shop # s
          BY <1>3, <2>1, <3>7 DEF Agrees
        <4>2. p = copy.tmpl.id
          BY <1>1, <4>1 DEF Products, copy
        <4>3. In(goods', s) = {}
          BY <1>8, <4>1, <4>2
        <4> QED BY <1>9, <3>4, <4>1, <4>3 DEF Agrees
      <3>8. ASSUME NEW t \in (keeper[k].shops \ {s}) \ confused PROVE Same(t, copy, r2)
        <4>1. Agrees(In(goods, t), copy, t) /\ t \in Shops /\ copy.tmpl.shop # t
          BY <1>3, <1>4, <2>1
        <4>2. \A v \in Parts : copy.var[v].shop # t
          BY <4>1 DEF Agrees
        <4> QED BY <1>9, <3>4, <4>1, <4>2 DEF Same, Like
      <3>9. ASSUME NEW t \in Shops \ keeper[k].shops PROVE Spares("delete", r2, base, t)
        <4>1. Spares("delete", copy, base, t) /\ t # s /\ copy.tmpl = base.tmpl
          BY <1>3, <1>4, <1>9, <2>1
        <4>2. Like(r2.tmpl, base.tmpl, t)
          BY <1>9, <2>1, <3>4, <4>1 DEF Like
        <4>3. \A v \in Parts : Like(r2.var[v], base.var[v], t) \/ Cleared("delete", r2, base, v, t)
          BY <1>9, <2>1, <3>4, <4>1 DEF Like, Cleared
        <4>4. \A m \in r2.maps \cup base.maps : m.shop = t => m \in r2.maps /\ m \in base.maps
          BY <3>4, <4>1 DEF Spares
        <4> QED BY <4>2, <4>3, <4>4 DEF Spares
      <3> QED BY <3>4, <3>5, <3>6, <3>7, <3>8, <3>9
    <2>2. CASE copy.tmpl.shop # s
      <3>1. PICK M : M = copy.maps \ MapsIn(copy, s)
        OBVIOUS
      <3>2. r2 = [copy EXCEPT !.maps = M]
        BY <1>5, <2>2, <3>1 DEF Removed
      <3>3. r2.tmpl = copy.tmpl /\ r2.var = copy.var /\ r2.maps = M /\ RecordsOK(r2)
        BY <1>3, <3>2, MapsWritten
      <3>4. r2.maps \subseteq copy.maps /\ \A m \in copy.maps : m \notin r2.maps => m.shop = s
        BY <3>1, <3>3 DEF MapsIn
      <3>5. \A m \in r2.maps : m.shop # s
        BY <3>1, <3>3 DEF MapsIn
      <3>6. OwnShops(r2) \subseteq OwnShops(copy)
        BY <3>3 DEF OwnShops
      <3>7. \A t : t # s => /\ Same(t, copy, r2)
                            /\ Spares("delete", copy, base, t) => Spares("delete", r2, base, t)
        BY <3>3, <3>4, MapsGone
      <3>8. ASSUME s \notin confused PROVE Agrees(In(goods', s), r2, s)
        <4>1. /\ \A v \in Parts : copy.var[v].shop # s
              /\ \A g, h \in In(goods, s) : g.product = h.product
          BY <1>3, <2>2, <3>8 DEF Agrees
        <4>2. PICK g0 \in In(goods, s) : g0.product = p
          BY <1>1 DEF Products
        <4>3. In(goods', s) = {}
          BY <1>8, <4>1, <4>2
        <4> QED BY <2>2, <3>3, <3>5, <4>1, <4>3 DEF Agrees
      <3> QED BY <1>3, <1>4, <3>3, <3>6, <3>7, <3>8
    <2> QED BY <2>1, <2>2
  <1>11. Calls(k, s, r2, {s})
    <2>1. Proceed(k, s, r2, {s})
      BY <1>1, <1>5
    <2> QED BY <1>2, <1>6, <1>7, <1>10, <2>1, DeletesCall DEF copy, base
  <1> QED BY <1>7, <1>11, CallKeeps

LEMMA DeleteVariantKeeps ==
    ASSUME NEW k \in Keepers, NEW s \in Shops, CatalogInv, DeleteVariant(k, s)
    PROVE  CatalogInv'
  <1> DEFINE copy == keeper[k].rows
             base == keeper[k].base
             v    == keeper[k].of
             own  == copy.var[v].shop = s
             told == IF own THEN {[id |-> copy.var[v].id, parent |-> copy.tmpl.id, row |-> {}]}
                     ELSE {[id |-> r.id, parent |-> r.parent, row |-> {r}] :
                              r \in {q \in MapsIn(copy, s) : q.part = v}}
  <1>0. GoodsOK
    BY DEF CatalogInv
  <1>1. PICK t \in told, d \in In(goods, s) :
            /\ d.id = t.id /\ d.product = t.parent
            /\ \E h \in In(goods, s) \ {d} : h.product = d.product
            /\ goods' = goods \ {d}
            /\ Proceed(k, s, IF own THEN [copy EXCEPT !.var[v] = Unknown]
                             ELSE [copy EXCEPT !.maps = @ \ t.row], {s})
    BY DEF DeleteVariant
  <1>2. /\ keeper[k].at = "export" /\ s \in keeper[k].todo /\ keeper[k].what = "delete"
        /\ links' = links /\ issued' = issued /\ confused' = confused /\ v # Template
    BY DEF DeleteVariant, Doing
  <1>3. /\ RecordsOK(copy) /\ s \in keeper[k].shops
        /\ s \notin confused => Agrees(In(goods, s), copy, s)
    BY <1>2, CallerFacts
  <1>4. /\ copy.tmpl \in {base.tmpl, Unknown} /\ keeper[k].shops \subseteq Shops
        /\ \A u \in Shops \ keeper[k].shops : Spares("delete", copy, base, u)
        /\ v \in Parts
    BY <1>2, DeleterFacts
  <1>5. PICK r2 : r2 = IF own THEN [copy EXCEPT !.var[v] = Unknown]
                       ELSE [copy EXCEPT !.maps = @ \ t.row]
    OBVIOUS
  <1>6. d \in goods /\ d.shop = s /\ goods' \subseteq goods
        /\ \A u \in Shops \ {s} : In(goods', u) = In(goods, u)
    BY <1>1 DEF In
  <1>7. GoodsOK' /\ \A u \in Shops : issued[u] <= issued'[u]
    BY <1>0, <1>2, <1>6, FewerGoods
  <1>8. In(goods', s) = In(goods, s) \ {d} /\ d \in In(goods, s)
    BY <1>1 DEF In
  <1>9. s # NoShop /\ Unknown.shop = NoShop /\ \A u \in Shops : u # NoShop
    BY CatalogAssumption DEF Unknown
  <1>10. \A g \in In(goods, s) : g.id = d.id => g = d
    <2>1. Distinct(goods)
      BY <1>0, GoodsFacts
    <2> QED BY <1>6, <2>1 DEF Distinct, In
  <1>11. \A g \in In(goods, s) : g.part \in Parts /\ g.shop = s
    BY <1>0, GoodsFacts DEF In
  <1>12. PICK h \in In(goods, s) \ {d} : h.product = d.product
    BY <1>1
  <1>13. own => t.id = copy.var[v].id
    OBVIOUS
  <1>14. ~own => \E r \in MapsIn(copy, s) : r.part = v /\ t.id = r.id /\ t.row = {r}
    OBVIOUS
  <1> HIDE DEF copy, base, v, told
  <1>15. /\ RecordsOK(r2) /\ OwnShops(r2) \subseteq OwnShops(copy)
         /\ s \notin confused => Agrees(In(goods', s), r2, s)
         /\ \A u \in (keeper[k].shops \ {s}) \ confused : Same(u, copy, r2)
         /\ \A u \in Shops \ keeper[k].shops : Spares("delete", r2, base, u)
         /\ r2.tmpl \in {base.tmpl, Unknown}
    <2>1. CASE own
      <3>1. PICK va : va = [copy.var EXCEPT ![v] = Unknown] /\ Puts(va, copy.var, v, Unknown)
        BY DEF Puts
      <3>2. r2 = [copy EXCEPT !.var = va]
        BY <1>5, <2>1, <3>1
      <3>3. va[v] = Unknown /\ \A w \in Parts \ {v} : va[w] = copy.var[w]
        BY <1>3, <1>4, <3>1 DEF RecordsOK
      <3>4. Ref(Unknown)
        BY DEF Ref
      <3>5. r2.tmpl = copy.tmpl /\ r2.maps = copy.maps /\ r2.var = va /\ RecordsOK(r2)
        <4>1. PICK x : x = Unknown
          OBVIOUS
        <4>2. Ref(x) /\ Puts(va, copy.var, v, x) /\ RecordsOK(copy) /\ v \in Parts
          BY <1>3, <1>4, <3>1, <3>4, <4>1
        <4> QED BY <3>2, <4>2, VarWritten
      <3>6. \A w \in Parts : r2.var[w] = copy.var[w] \/ (w = v /\ r2.var[w] = Unknown)
        BY <3>3, <3>5
      <3>7. OwnShops(r2) \subseteq OwnShops(copy)
        BY <1>9, <3>5, <3>6 DEF OwnShops
      <3>8. ASSUME s \notin confused PROVE Agrees(In(goods', s), r2, s)
        <4>1. copy.tmpl.shop = s /\ Agrees(In(goods, s), copy, s)
          BY <1>3, <1>4, <2>1, <3>8 DEF Agrees
        <4>2. /\ \A g \in In(goods, s) : g.product = copy.tmpl.id
                                         /\ copy.var[g.part] = [id |-> g.id, shop |-> s]
              /\ \A m \in copy.maps : m.shop # s
              /\ \A w \in Parts : copy.var[w].shop = s => \E g \in In(goods, s) : g.part = w
          BY <4>1 DEF Agrees
        <4>3. d.part = v
          <5>1. PICK g \in In(goods, s) : g.part = v
            BY <1>4, <2>1, <4>2
          <5>2. copy.var[v] = [id |-> g.id, shop |-> s]
            BY <4>2, <5>1
          <5>3. g.id = d.id
            BY <1>1, <1>13, <2>1, <5>2
          <5> QED BY <1>10, <5>1, <5>3
        <4>4. ASSUME NEW g \in In(goods', s) PROVE r2.var[g.part] = [id |-> g.id, shop |-> s]
          <5>1. g \in In(goods, s) /\ g # d
            BY <1>8
          <5>2. copy.var[g.part] = [id |-> g.id, shop |-> s] /\ copy.var[d.part] = [id |-> d.id, shop |-> s]
            BY <1>8, <4>2, <5>1
          <5>3. g.id # d.id
            BY <1>10, <5>1
          <5>4. g.part # v
            <6> SUFFICES ASSUME g.part = v PROVE FALSE
              OBVIOUS
            <6>1. [id |-> g.id, shop |-> s] = [id |-> d.id, shop |-> s]
              BY <4>3, <5>2
            <6>2. [id |-> g.id, shop |-> s].id = [id |-> d.id, shop |-> s].id
              BY <6>1
            <6> QED BY <5>3, <6>2
          <5> QED BY <1>11, <3>3, <3>5, <5>1, <5>2, <5>4
        <4>5. ASSUME NEW w \in Parts, r2.var[w].shop = s PROVE \E g \in In(goods', s) : g.part = w
          <5>1. w # v /\ copy.var[w].shop = s
            BY <1>9, <3>3, <3>5, <4>5
          <5>2. PICK g \in In(goods, s) : g.part = w
            BY <4>2, <5>1
          <5> QED BY <1>8, <4>3, <5>1, <5>2
        <4>6. In(goods', s) # {}
          BY <1>8, <1>12
        <4>7. \A g \in In(goods', s) : g.product = r2.tmpl.id
          BY <1>8, <3>5, <4>2
        <4>8. \A m \in r2.maps : m.shop # s
          BY <3>5, <4>2
        <4> QED BY <3>5, <4>1, <4>4, <4>5, <4>6, <4>7, <4>8 DEF Agrees
      <3>9. ASSUME NEW u, u # s PROVE Same(u, copy, r2) \/ u = NoShop
        BY <1>9, <2>1, <3>5, <3>6, <3>9 DEF Same, Like
      <3>10. ASSUME NEW u \in Shops \ keeper[k].shops PROVE Spares("delete", r2, base, u)
        <4>1. Spares("delete", copy, base, u) /\ u # s
          BY <1>3, <1>4
        <4>2. Like(r2.tmpl, base.tmpl, u)
          BY <3>5, <4>1 DEF Spares
        <4>3. ASSUME NEW w \in Parts
              PROVE  Like(r2.var[w], base.var[w], u) \/ Cleared("delete", r2, base, w, u)
          <5>1. Like(copy.var[w], base.var[w], u) \/ Cleared("delete", copy, base, w, u)
            BY <4>1 DEF Spares
          <5>2. CASE w = v
            BY <1>9, <2>1, <3>3, <3>5, <4>1, <5>1, <5>2 DEF Like, Cleared
          <5>3. CASE w # v
            BY <3>3, <3>5, <5>1, <5>3 DEF Cleared
          <5> QED BY <5>2, <5>3
        <4>4. \A m \in r2.maps \cup base.maps : m.shop = u => m \in r2.maps /\ m \in base.maps
          BY <3>5, <4>1 DEF Spares
        <4> QED BY <4>2, <4>3, <4>4 DEF Spares
      <3> QED BY <1>4, <1>9, <3>5, <3>7, <3>8, <3>9, <3>10
    <2>2. CASE ~own
      <3>0. PICK q \in MapsIn(copy, s) : q.part = v /\ t.id = q.id /\ t.row = {q}
        BY <1>14, <2>2
      <3>1. PICK M : M = copy.maps \ {q}
        OBVIOUS
      <3>2. r2 = [copy EXCEPT !.maps = M]
        BY <1>5, <2>2, <3>0, <3>1
      <3>3. r2.tmpl = copy.tmpl /\ r2.var = copy.var /\ r2.maps = M /\ RecordsOK(r2)
        BY <1>3, <3>2, MapsWritten
      <3>4. r2.maps \subseteq copy.maps /\ (\A m \in copy.maps : m \notin r2.maps => m.shop = s)
            /\ q \in copy.maps /\ q.shop = s
        BY <3>0, <3>1, <3>3 DEF MapsIn
      <3>5. OwnShops(r2) \subseteq OwnShops(copy)
        BY <3>3 DEF OwnShops
      <3>6. \A u : u # s => /\ Same(u, copy, r2)
                            /\ Spares("delete", copy, base, u) => Spares("delete", r2, base, u)
        BY <3>3, <3>4, MapsGone
      <3>7. ASSUME s \notin confused PROVE Agrees(In(goods', s), r2, s)
        <4>1. copy.tmpl.shop # s
          BY <1>3, <3>4, <3>7 DEF Agrees
        <4>2. /\ \A w \in Parts : copy.var[w].shop # s
              /\ \A m \in copy.maps : m.shop = s => \E g \in In(goods, s) : m = MapOf(g)
              /\ \A g \in In(goods, s) : MapOf(g) \in copy.maps
              /\ \A g, f \in In(goods, s) : g.product = f.product
          BY <1>3, <3>7, <4>1 DEF Agrees
        <4>3. \A g \in In(goods, s) : MapOf(g).id = g.id
          BY DEF MapOf
        <4>4. q = MapOf(d)
          <5>1. PICK g \in In(goods, s) : q = MapOf(g)
            BY <3>4, <4>2
          <5>2. g.id = d.id
            BY <1>1, <3>0, <4>3, <5>1
          <5> QED BY <1>10, <5>1, <5>2
        <4>5. ASSUME NEW m \in r2.maps, m.shop = s PROVE \E g \in In(goods', s) : m = MapOf(g)
          <5>1. m \in copy.maps /\ m # q
            BY <3>1, <3>3, <4>5
          <5>2. PICK g \in In(goods, s) : m = MapOf(g)
            BY <4>2, <4>5, <5>1
          <5> QED BY <1>8, <4>4, <5>1, <5>2
        <4>6. ASSUME NEW g \in In(goods', s) PROVE MapOf(g) \in r2.maps
          <5>1. g \in In(goods, s) /\ g # d
            BY <1>8
          <5>2. g.id # d.id
            BY <1>10, <5>1
          <5>3. MapOf(g) # q
            BY <1>8, <4>3, <4>4, <5>1, <5>2
          <5> QED BY <3>1, <3>3, <4>2, <5>1, <5>3
        <4>7. \A g, f \in In(goods', s) : g.product = f.product
          BY <1>8, <4>2
        <4> QED BY <3>3, <4>1, <4>2, <4>5, <4>6, <4>7 DEF Agrees
      <3> QED BY <1>3, <1>4, <3>3, <3>5, <3>6, <3>7
    <2> QED BY <2>1, <2>2
  <1>16. Calls(k, s, r2, {s})
    <2>1. Proceed(k, s, r2, {s})
      BY <1>1, <1>5
    <2> QED BY <1>2, <1>6, <1>7, <1>15, <2>1, DeletesCall DEF copy, base
  <1> QED BY <1>7, <1>16, CallKeeps

LEMMA PassByKeeps ==
    ASSUME NEW k \in Keepers, NEW s \in Shops, CatalogInv, PassBy(k, s)
    PROVE  CatalogInv'
  <1> DEFINE copy == keeper[k].rows
  <1>1. /\ keeper[k].at = "export" /\ s \in keeper[k].todo /\ keeper[k].what = "delete"
        /\ links' = links /\ issued' = issued /\ confused' = confused /\ goods' = goods
        /\ Proceed(k, s, copy, {})
    BY DEF PassBy, Doing
  <1>2. GoodsOK' /\ \A t \in Shops : issued[t] <= issued'[t]
    BY <1>1, FewerGoods DEF CatalogInv
  <1>3. /\ RecordsOK(copy)
        /\ s \notin confused => Agrees(In(goods, s), copy, s)
    BY <1>1, CallerFacts
  <1>4. /\ copy.tmpl \in {keeper[k].base.tmpl, Unknown}
        /\ \A t \in Shops \ keeper[k].shops : Spares(keeper[k].what, copy, keeper[k].base, t)
    BY <1>1, DeleterFacts
  <1>5. \A t : Same(t, copy, copy)
    BY SameSelf
  <1>6. Calls(k, s, copy, {})
    BY <1>1, <1>2, <1>3, <1>4, <1>5 DEF Calls
  <1> QED BY <1>2, <1>6, CallKeeps

LEMMA UnlinkedOK == RecordsOK(Unlinked) /\ Unlinked.maps = {} /\ Unlinked.tmpl = Unknown
                    /\ \A v \in Parts : Unlinked.var[v] = Unknown
  <1>1. /\ Unlinked = [tmpl |-> Unlinked.tmpl, var |-> Unlinked.var, maps |-> Unlinked.maps]
        /\ Unlinked.maps = {} /\ Unlinked.tmpl = Unknown
        /\ Unlinked.var = [v \in Parts |-> Unlinked.var[v]]
        /\ \A v \in Parts : Unlinked.var[v] = Unknown
    BY DEF Unlinked
  <1>2. Ref(Unknown)
    BY DEF Ref
  <1> QED BY <1>1, <1>2, NewRecords

LEMMA SparesSelf == ASSUME NEW what, NEW r, NEW t PROVE Spares(what, r, r, t)
  BY DEF Spares, Like

LEMMA RestingOK ==
    ASSUME NEW r, NEW G, NEW top, NEW bad
    PROVE  KeeperOK(Resting, r, G, top, bad) /\ Resting.shops = {}
  <1>1. /\ Resting.at = "idle" /\ Resting.shops = {} /\ Resting.todo = {} /\ Resting.what = "none"
        /\ Resting.rows = Unlinked /\ Resting.base = Unlinked
        /\ Resting = [at |-> Resting.at, what |-> Resting.what, of |-> Resting.of,
                      todo |-> Resting.todo, shops |-> Resting.shops, touched |-> Resting.touched,
                      payload |-> Resting.payload, rows |-> Resting.rows, base |-> Resting.base]
    BY DEF Resting
  <1>2. Knows(Resting, r, G, bad)
    BY <1>1 DEF Knows
  <1>3. \A t \in Shops \ Resting.shops : Spares(Resting.what, Resting.rows, Resting.base, t)
    BY <1>1, SparesSelf
  <1>4. RecordsOK(Resting.rows) /\ RecordsOK(Resting.base)
    BY <1>1, UnlinkedOK
  <1> QED BY <1>1, <1>2, <1>3, <1>4 DEF KeeperOK

(* One request changes, the others stay.                                   *)
LEMMA OneChanges ==
    ASSUME NEW k \in Keepers, NEW n, KeepersOK, keeper' = [keeper EXCEPT ![k] = n],
           KeeperOK(n, links', goods', issued', confused'),
           \A j \in Keepers \ {k} : KeeperOK(keeper[j], links', goods', issued', confused'),
           \A i, j \in Keepers \ {k} : i # j => keeper[i].shops \cap keeper[j].shops \subseteq confused',
           \A j \in Keepers \ {k} : keeper[j].shops \cap n.shops \subseteq confused'
    PROVE  KeepersOK' /\ keeper'[k] = n /\ \A j \in Keepers \ {k} : keeper'[j] = keeper[j]
  <1>1. keeper \in [Keepers -> {keeper[j] : j \in Keepers}]
    BY DEF KeepersOK
  <1>2. keeper'[k] = n /\ \A j \in Keepers \ {k} : keeper'[j] = keeper[j]
    BY <1>1
  <1>3. keeper' = [j \in Keepers |-> keeper'[j]]
    BY <1>1
  <1>4. keeper' \in [Keepers -> {keeper'[j] : j \in Keepers}]
    BY <1>3
  <1>5. \A j \in Keepers : KeeperOK(keeper'[j], links', goods', issued', confused')
    BY <1>2
  <1>6. ASSUME NEW i \in Keepers, NEW j \in Keepers, i # j
        PROVE  keeper'[i].shops \cap keeper'[j].shops \subseteq confused'
    <2>1. CASE i = k
      BY <1>2, <1>6, <2>1
    <2>2. CASE j = k
      BY <1>2, <1>6, <2>2
    <2>3. CASE i # k /\ j # k
      BY <1>2, <1>6, <2>3
    <2> QED BY <2>1, <2>2, <2>3
  <1> QED BY <1>2, <1>4, <1>5, <1>6 DEF KeepersOK

LEMMA LoseKeeps ==
    ASSUME NEW k \in Keepers, CatalogInv, LoseCatalog(k)
    PROVE  CatalogInv'
  <1> DEFINE m == keeper[k]
  <1>1. /\ keeper' = [keeper EXCEPT ![k] = Resting] /\ confused' = confused \cup m.touched
        /\ goods' = goods /\ issued' = issued /\ links' = links
    BY DEF LoseCatalog
  <1>2. /\ issued \in [Shops -> Nat]
        /\ \A t \in Shops, g \in goods : g.shop = t => g.part \in Parts
        /\ \A j \in Keepers : /\ KeeperOK(keeper[j], links, goods, issued, confused)
                              /\ keeper[j].shops \subseteq Shops
    BY CatalogFacts
  <1>3. GoodsOK'
    BY <1>1, FewerGoods DEF CatalogInv
  <1>4. ASSUME NEW j \in Keepers \ {k}
        PROVE  KeeperOK(keeper[j], links', goods', issued', confused')
    <2> DEFINE q == keeper[j]
    <2>1. \A t \in q.shops \ confused' : t \notin confused /\ In(goods, t) = In(goods, t) /\ Same(t, links, links)
      BY <1>1, SameSelf
    <2>2. \A t \in Shops : issued[t] <= issued[t]
      BY <1>2
    <2>3. KeeperOK(q, links, goods, issued, confused)
      BY <1>2
    <2> HIDE DEF q
    <2>4. KeeperOK(q, links, goods, issued, confused')
      BY <1>2, <2>1, <2>2, <2>3, KeeperStays
    <2> QED BY <1>1, <2>4 DEF q
  <1>5. KeepersOK' /\ keeper'[k] = Resting /\ \A j \in Keepers \ {k} : keeper'[j] = keeper[j]
    <2>1. KeepersOK
      BY DEF CatalogInv
    <2>2. KeeperOK(Resting, links', goods', issued', confused') /\ Resting.shops = {}
      BY RestingOK
    <2>3. \A i, j \in Keepers \ {k} : i # j => keeper[i].shops \cap keeper[j].shops \subseteq confused'
      BY <1>1, <2>1 DEF KeepersOK
    <2>4. \A j \in Keepers \ {k} : keeper[j].shops \cap Resting.shops \subseteq confused'
      BY <2>2
    <2>5. keeper' = [keeper EXCEPT ![k] = Resting]
      BY <1>1
    <2> QED BY <1>4, <2>1, <2>2, <2>3, <2>4, <2>5, OneChanges
  <1>6. LinksOK'
    <2>1. RecordsOK(links) /\ \A t \in Shops \ confused : Neat(links, t)
      BY DEF CatalogInv, LinksOK
    <2>2. ASSUME NEW t \in Shops \ confused', \A j \in Keepers : t \notin keeper'[j].shops
          PROVE  Agrees(In(goods, t), links, t)
      <3>1. t \notin confused /\ t \notin m.touched
        BY <1>1
      <3>2. CASE t \in m.shops
        <4>1. Knows(m, links, goods, confused)
          BY <1>2 DEF KeeperOK
        <4> QED BY <3>1, <3>2, <4>1 DEF Knows
      <3>3. CASE t \notin m.shops
        <4>1. \A j \in Keepers : t \notin keeper[j].shops
          BY <1>5, <2>2, <3>3
        <4> QED BY <3>1, <4>1 DEF CatalogInv, LinksOK
      <3> QED BY <3>2, <3>3
    <2>3. RecordsOK(links')
      BY <1>1, <2>1
    <2>4. \A t \in Shops \ confused' : Neat(links', t)
      BY <1>1, <2>1
    <2>5. \A t \in Shops \ confused' :
             (\A j \in Keepers : t \notin keeper'[j].shops) => Agrees(In(goods', t), links', t)
      BY <1>1, <2>2
    <2> QED BY <2>3, <2>4, <2>5 DEF LinksOK
  <1> QED BY <1>3, <1>5, <1>6 DEF CatalogInv

(* A request at its begin.                                                 *)
Begun(n, what, of, todo, S, payload) ==
    n = [at |-> IF payload = {} THEN "export" ELSE "import", what |-> what, of |-> of,
         todo |-> todo, shops |-> S, touched |-> {}, payload |-> payload,
         rows |-> links, base |-> links]

LEMMA BeginCatalogKeeps ==
    ASSUME NEW k \in Keepers, NEW what, NEW of, NEW todo, NEW S, NEW payload, NEW n,
           CatalogInv, BeginCatalog(k, what, of, todo, S, payload),
           S \subseteq Shops, todo \subseteq S,
           Begun(n, what, of, todo, S, payload),
           payload = {} => of \in Parts \cup {Template} /\ Exports(n, confused'),
           payload # {} => Imports(n, issued)
    PROVE  CatalogInv'
  <1>1. /\ keeper[k].at = "idle" /\ keeper' = [keeper EXCEPT ![k] = n]
        /\ confused' = confused \cup Contended(k, S)
        /\ goods' = goods /\ issued' = issued /\ links' = links
    BY DEF BeginCatalog, Begun
  <1>2. /\ issued \in [Shops -> Nat]
        /\ \A t \in Shops, g \in goods : g.shop = t => g.part \in Parts
        /\ \A j \in Keepers : /\ KeeperOK(keeper[j], links, goods, issued, confused)
                              /\ keeper[j].shops \subseteq Shops
    BY CatalogFacts
  <1>3. GoodsOK'
    BY <1>1, FewerGoods DEF CatalogInv
  <1>4. ASSUME NEW j \in Keepers \ {k}
        PROVE  KeeperOK(keeper[j], links', goods', issued', confused')
    <2> DEFINE q == keeper[j]
    <2>1. \A t \in q.shops \ confused' : t \notin confused /\ In(goods, t) = In(goods, t) /\ Same(t, links, links)
      BY <1>1, SameSelf
    <2>2. \A t \in Shops : issued[t] <= issued[t]
      BY <1>2
    <2>3. KeeperOK(q, links, goods, issued, confused)
      BY <1>2
    <2> HIDE DEF q
    <2>4. KeeperOK(q, links, goods, issued, confused')
      BY <1>2, <2>1, <2>2, <2>3, KeeperStays
    <2> QED BY <1>1, <2>4 DEF q
  <1>5. \A j \in Keepers \ {k} : keeper[j].shops \cap S \subseteq confused'
    BY <1>1 DEF Contended
  <1>6. keeper[k].shops = {}
    <2>1. keeper[k] = Resting
      BY <1>1, <1>2 DEF KeeperOK
    <2> QED BY <2>1, RestingOK
  <1>7. RecordsOK(links) /\ \A t \in Shops \ confused : Neat(links, t)
    BY DEF CatalogInv, LinksOK
  <1>8. KeeperOK(n, links', goods', issued', confused')
    <2>1. /\ n.at = (IF payload = {} THEN "export" ELSE "import") /\ n.what = what /\ n.of = of
          /\ n.todo = todo /\ n.shops = S /\ n.touched = {} /\ n.payload = payload
          /\ n.rows = links /\ n.base = links
          /\ n = [at |-> n.at, what |-> n.what, of |-> n.of, todo |-> n.todo, shops |-> n.shops,
            touched |-> n.touched, payload |-> n.payload, rows |-> n.rows, base |-> n.base]
      BY DEF Begun
    <2>2. Knows(n, links, goods, confused')
      <3> SUFFICES ASSUME NEW t \in S \ confused'
                   PROVE  Same(t, links, links) /\ Agrees(In(goods, t), links, t)
        BY <2>1 DEF Knows
      <3>1. t \notin confused /\ \A j \in Keepers : t \notin keeper[j].shops
        BY <1>1, <1>5, <1>6
      <3>2. Agrees(In(goods, t), links, t)
        BY <3>1 DEF CatalogInv, LinksOK
      <3> QED BY <3>2, SameSelf
    <2>3. \A t \in Shops \ n.shops : Spares(n.what, n.rows, n.base, t)
      BY <2>1, SparesSelf
    <2>4. n.at = "export" => n.of \in Parts \cup {Template} /\ Exports(n, confused')
      BY <2>1
    <2>5. n.at = "import" => Imports(n, issued)
      BY <2>1
    <2>6. /\ RecordsOK(n.rows) /\ RecordsOK(n.base)
          /\ n.todo \subseteq n.shops /\ n.shops \subseteq Shops
          /\ n.at \in {"idle", "export", "import"} /\ n.at # "idle"
      BY <1>7, <2>1
    <2>7. KeeperOK(n, links, goods, issued, confused')
      BY <2>1, <2>2, <2>3, <2>4, <2>5, <2>6 DEF KeeperOK
    <2> QED BY <1>1, <2>7
  <1>9. KeepersOK' /\ keeper'[k] = n /\ \A j \in Keepers \ {k} : keeper'[j] = keeper[j]
    <2>1. KeepersOK
      BY DEF CatalogInv
    <2>2. \A i, j \in Keepers \ {k} : i # j => keeper[i].shops \cap keeper[j].shops \subseteq confused'
      BY <1>1, <2>1 DEF KeepersOK
    <2>3. n.shops = S
      BY DEF Begun
    <2>4. \A j \in Keepers \ {k} : keeper[j].shops \cap n.shops \subseteq confused'
      BY <1>5, <2>3
    <2>5. keeper' = [keeper EXCEPT ![k] = n]
      BY <1>1
    <2> QED BY <1>4, <1>8, <2>1, <2>2, <2>4, <2>5, OneChanges
  <1>10. LinksOK'
    <2>1. ASSUME NEW t \in Shops \ confused', \A j \in Keepers : t \notin keeper'[j].shops
          PROVE  Agrees(In(goods, t), links, t)
      <3>1. t \notin confused /\ \A j \in Keepers : t \notin keeper[j].shops
        BY <1>1, <1>6, <1>9, <2>1
      <3> QED BY <3>1 DEF CatalogInv, LinksOK
    <2>2. RecordsOK(links')
      BY <1>1, <1>7
    <2>3. \A t \in Shops \ confused' : Neat(links', t)
      BY <1>1, <1>7
    <2>4. \A t \in Shops \ confused' :
             (\A j \in Keepers : t \notin keeper'[j].shops) => Agrees(In(goods', t), links', t)
      BY <1>1, <2>1
    <2> QED BY <2>2, <2>3, <2>4 DEF LinksOK
  <1> QED BY <1>3, <1>9, <1>10 DEF CatalogInv

LEMMA OwnShopsAre == ASSUME NEW r, RecordsOK(r) PROVE OwnShops(r) \subseteq Shops
  <1>1. Ref(r.tmpl) /\ \A v \in Parts : Ref(r.var[v])
    BY DEF RecordsOK
  <1>2. r.tmpl.shop \in Shops \cup {NoShop} /\ \A v \in Parts : r.var[v].shop \in Shops \cup {NoShop}
    BY <1>1, RefShop
  <1> QED BY <1>2 DEF OwnShops

LEMMA BeginExportKeeps ==
    ASSUME NEW k \in Keepers, NEW what \in {"create", "update", "delete"},
           NEW of \in Parts \cup {Template}, NEW S \in SUBSET Shops,
           CatalogInv, BeginExport(k, what, of, S)
    PROVE  CatalogInv'
  <1> DEFINE todo == CASE what = "create" -> S \ ShopsOf(links, of)
                       [] what = "update" -> S \cap ShopsOf(links, of)
                       [] what = "delete" -> S
             shops == todo \cup IF Home \in todo THEN OwnShops(links) ELSE {}
  <1>1. BeginCatalog(k, what, of, todo, shops, {})
    BY DEF BeginExport
  <1>2. todo \subseteq S /\ (what = "create" => todo = S \ ShopsOf(links, of))
    <2>1. CASE what = "create"
      BY <2>1
    <2>2. CASE what = "update"
      BY <2>2
    <2>3. CASE what = "delete"
      BY <2>3
    <2> QED BY <2>1, <2>2, <2>3
  <1>3. RecordsOK(links)
    BY DEF CatalogInv, LinksOK
  <1>4. PICK n : n = [at |-> "export", what |-> what, of |-> of, todo |-> todo, shops |-> shops,
                      touched |-> {}, payload |-> {}, rows |-> links, base |-> links]
    OBVIOUS
  <1>5. Begun(n, what, of, todo, shops, {})
    BY <1>4 DEF Begun
  <1>6. /\ n.what = what /\ n.of = of /\ n.todo = todo /\ n.shops = shops
        /\ n.rows = links /\ n.base = links
    BY <1>4
  <1> HIDE DEF todo
  <1>7. shops \subseteq Shops /\ todo \subseteq shops /\ (Home \in todo => OwnShops(links) \subseteq shops)
    BY <1>2, <1>3, OwnShopsAre
  <1> HIDE DEF shops
  <1>8. Exports(n, confused')
    <2>1. what = "create" /\ of = Template =>
              \A s \in todo : links.tmpl.shop # s /\ \A q \in links.maps : q.shop # s
      <3> SUFFICES ASSUME what = "create", of = Template, NEW s \in todo
                   PROVE  links.tmpl.shop # s /\ \A q \in links.maps : q.shop # s
        OBVIOUS
      <3>1. s \notin ShopsOf(links, Template) /\ s \in Shops
        BY <1>2
      <3>2. s # NoShop
        BY <3>1, CatalogAssumption
      <3> QED BY <3>1, <3>2 DEF ShopsOf
    <2>2. \A s : Same(s, links, links)
      BY SameSelf
    <2>3. what = "delete" => links.tmpl \in {links.tmpl, Unknown}
      OBVIOUS
    <2>4. Home \in n.todo => OwnShops(n.rows) \subseteq n.shops
      BY <1>6, <1>7
    <2>5. \A s \in n.todo \ confused' : Same(s, n.rows, n.base)
      BY <1>6, <2>2
    <2>6. n.what = "create" /\ n.of = Template =>
             \A s \in n.todo : n.base.tmpl.shop # s /\ \A q \in n.base.maps : q.shop # s
      BY <1>6, <2>1
    <2>7. n.what = "delete" => n.rows.tmpl \in {n.base.tmpl, Unknown}
      BY <1>6
    <2> QED BY <2>4, <2>5, <2>6, <2>7 DEF Exports
  <1>9. PICK P : P = {}
    OBVIOUS
  <1>10. BeginCatalog(k, what, of, todo, shops, P) /\ Begun(n, what, of, todo, shops, P)
    BY <1>1, <1>5, <1>9
  <1> QED BY <1>7, <1>8, <1>9, <1>10, BeginCatalogKeeps

LEMMA FetchKeeps ==
    ASSUME NEW k \in Keepers, NEW s \in Shops, NEW how \in {"single", "multi", "map"},
           CatalogInv, FetchCatalog(k, s, how)
    PROVE  CatalogInv'
  <1> DEFINE todo == {s}
             shops == {s} \cup OwnShops(links)
             P == In(goods, s)
  <1>1. BeginCatalog(k, how, Template, todo, shops, P) /\ P # {}
    BY DEF FetchCatalog
  <1>2. RecordsOK(links)
    BY DEF CatalogInv, LinksOK
  <1>3. \A g \in P : GoodOK(g, issued) /\ g.shop = s
    BY DEF CatalogInv, GoodsOK, In
  <1> HIDE DEF P
  <1>4. PICK n : n = [at |-> "import", what |-> how, of |-> Template, todo |-> todo, shops |-> shops,
                      touched |-> {}, payload |-> P, rows |-> links, base |-> links]
    OBVIOUS
  <1>5. PICK of : of = Template
    OBVIOUS
  <1>6. Begun(n, how, of, todo, shops, P) /\ BeginCatalog(k, how, of, todo, shops, P)
    BY <1>1, <1>4, <1>5 DEF Begun
  <1>7. /\ n.what = how /\ n.todo = todo /\ n.shops = shops /\ n.payload = P
        /\ n.rows = links /\ n.base = links
    BY <1>4
  <1>8. shops \subseteq Shops /\ todo \subseteq shops /\ OwnShops(links) \subseteq shops /\ todo = {s}
    BY <1>2, OwnShopsAre
  <1> HIDE DEF todo, shops
  <1>9. Imports(n, issued)
    <2>1. n.todo = {s} /\ n.payload # {} /\ \A g \in n.payload : GoodOK(g, issued) /\ g.shop = s
      BY <1>1, <1>3, <1>7, <1>8
    <2>2. n.rows = n.base /\ OwnShops(n.rows) \subseteq n.shops /\ n.what \in {"single", "multi", "map"}
      BY <1>7, <1>8
    <2> QED BY <2>1, <2>2 DEF Imports
  <1> QED BY <1>1, <1>6, <1>8, <1>9, BeginCatalogKeeps

-----------------------------------------------------------------------------
(* The commit of a request.                                                *)

LEMMA StoredIs ==
    ASSUME NEW copy, NEW base, NEW st, st = Stored(copy, base)
    PROVE  /\ st = [tmpl |-> st.tmpl, var |-> st.var, maps |-> st.maps]
           /\ st.tmpl = IF copy.tmpl = base.tmpl THEN links.tmpl ELSE copy.tmpl
           /\ st.var = [v \in Parts |-> st.var[v]]
           /\ \A v \in Parts : st.var[v] = IF copy.var[v] = base.var[v] THEN links.var[v] ELSE copy.var[v]
           /\ st.maps = (links.maps \ (base.maps \ copy.maps)) \cup (copy.maps \ base.maps)
  BY DEF Stored

LEMMA StoredOK ==
    ASSUME NEW copy, NEW base, NEW st, st = Stored(copy, base), RecordsOK(links), RecordsOK(copy)
    PROVE  RecordsOK(st)
  <1>1. /\ Ref(links.tmpl) /\ Ref(copy.tmpl)
        /\ \A v \in Parts : Ref(links.var[v]) /\ Ref(copy.var[v])
    BY DEF RecordsOK
  <1>2. /\ st = [tmpl |-> st.tmpl, var |-> st.var, maps |-> st.maps]
        /\ st.tmpl = IF copy.tmpl = base.tmpl THEN links.tmpl ELSE copy.tmpl
        /\ st.var = [v \in Parts |-> st.var[v]]
        /\ \A v \in Parts : st.var[v] = IF copy.var[v] = base.var[v] THEN links.var[v] ELSE copy.var[v]
    BY StoredIs
  <1>3. Ref(st.tmpl)
    BY <1>1, <1>2
  <1>4. \A v \in Parts : Ref(st.var[v])
    BY <1>1, <1>2
  <1> QED BY <1>2, <1>3, <1>4, NewRecords

LEMMA StoredMine ==
    ASSUME NEW copy, NEW base, NEW st, NEW t, st = Stored(copy, base), Same(t, links, base)
    PROVE  Same(t, st, copy)
  <1>1. /\ st.tmpl = IF copy.tmpl = base.tmpl THEN links.tmpl ELSE copy.tmpl
        /\ \A v \in Parts : st.var[v] = IF copy.var[v] = base.var[v] THEN links.var[v] ELSE copy.var[v]
        /\ st.maps = (links.maps \ (base.maps \ copy.maps)) \cup (copy.maps \ base.maps)
    BY DEF Stored
  <1>2. Like(st.tmpl, copy.tmpl, t)
    BY <1>1 DEF Same, Like
  <1>3. ASSUME NEW v \in Parts PROVE Like(st.var[v], copy.var[v], t)
    <2>1. st.var[v] = IF copy.var[v] = base.var[v] THEN links.var[v] ELSE copy.var[v]
      BY <1>1
    <2>2. Like(links.var[v], base.var[v], t)
      BY DEF Same
    <2> QED BY <2>1, <2>2 DEF Like
  <1>4. \A m \in links.maps \cup base.maps : m.shop = t => m \in links.maps /\ m \in base.maps
    BY DEF Same
  <1>5. \A m \in st.maps \cup copy.maps : m.shop = t => m \in st.maps /\ m \in copy.maps
    BY <1>1, <1>4
  <1> QED BY <1>2, <1>3, <1>5 DEF Same

LEMMA StoredOthers ==
    ASSUME NEW what, NEW copy, NEW base, NEW st, NEW t \in Shops, st = Stored(copy, base),
           CanStore(copy, base), Spares(what, copy, base, t), Neat(links, t)
    PROVE  Same(t, links, st)
  <1>1. /\ st.tmpl = IF copy.tmpl = base.tmpl THEN links.tmpl ELSE copy.tmpl
        /\ \A v \in Parts : st.var[v] = IF copy.var[v] = base.var[v] THEN links.var[v] ELSE copy.var[v]
        /\ st.maps = (links.maps \ (base.maps \ copy.maps)) \cup (copy.maps \ base.maps)
    BY DEF Stored
  <1>2. /\ copy.tmpl # base.tmpl => links.tmpl = base.tmpl
        /\ \A v \in Parts : copy.var[v] # base.var[v] => links.var[v] = base.var[v]
    BY DEF CanStore
  <1>3. Like(links.tmpl, st.tmpl, t)
    BY <1>1, <1>2 DEF Spares, Like
  <1>4. ASSUME NEW v \in Parts PROVE Like(links.var[v], st.var[v], t)
    <2>1. Like(copy.var[v], base.var[v], t) \/ Cleared(what, copy, base, v, t)
      BY DEF Spares
    <2>2. CASE Like(copy.var[v], base.var[v], t)
      BY <1>1, <1>2, <2>2 DEF Like
    <2>3. CASE Cleared(what, copy, base, v, t)
      <3>1. /\ copy.tmpl = Unknown /\ base.tmpl.shop # NoShop /\ base.tmpl.shop # t
            /\ base.var[v].shop = t /\ copy.var[v] = Unknown
        BY <2>3 DEF Cleared
      <3>2. copy.tmpl # base.tmpl /\ copy.var[v] # base.var[v]
        BY <3>1, CatalogAssumption DEF Unknown
      <3>3. links.tmpl = base.tmpl /\ links.var[v] = base.var[v]
        BY <1>2, <3>2
      <3> QED BY <3>1, <3>3 DEF Neat
    <2> QED BY <2>1, <2>2, <2>3
  <1>5. \A m \in copy.maps \cup base.maps : m.shop = t => m \in copy.maps /\ m \in base.maps
    BY DEF Spares
  <1>6. \A m \in links.maps \cup st.maps : m.shop = t => m \in links.maps /\ m \in st.maps
    BY <1>1, <1>5
  <1> QED BY <1>3, <1>4, <1>6 DEF Same

(* What the end of a request has done: it has healed the stores H, and     *)
(* what it has of its own stores fits.                                     *)
Ends(k, H) ==
    /\ keeper' = [keeper EXCEPT ![k] = Resting]
    /\ goods' = goods /\ issued' = issued /\ RecordsOK(links')
    /\ H \subseteq Shops /\ confused \ H \subseteq confused'
    /\ \A t \in H, j \in Keepers \ {k} : t \notin keeper[j].shops
    /\ \A t \in (H \cup keeper[k].shops) \ confused' : Agrees(In(goods, t), links', t)
    /\ \A t \in Shops \ (H \cup keeper[k].shops \cup confused') : Same(t, links, links')

LEMMA EndsKeep ==
    ASSUME NEW k \in Keepers, NEW H, CatalogInv, Ends(k, H)
    PROVE  CatalogInv'
  <1>1. /\ keeper' = [keeper EXCEPT ![k] = Resting]
        /\ goods' = goods /\ issued' = issued /\ RecordsOK(links')
        /\ H \subseteq Shops /\ confused \ H \subseteq confused'
        /\ \A t \in H, j \in Keepers \ {k} : t \notin keeper[j].shops
        /\ \A t \in (H \cup keeper[k].shops) \ confused' : Agrees(In(goods, t), links', t)
        /\ \A t \in Shops \ (H \cup keeper[k].shops \cup confused') : Same(t, links, links')
    BY DEF Ends
  <1>2. /\ issued \in [Shops -> Nat]
        /\ \A t \in Shops, g \in goods : g.shop = t => g.part \in Parts
        /\ \A j \in Keepers : /\ KeeperOK(keeper[j], links, goods, issued, confused)
                              /\ keeper[j].shops \subseteq Shops
    BY CatalogFacts
  <1>3. GoodsOK'
    BY <1>1, FewerGoods DEF CatalogInv
  <1>4. KeepersOK
    BY DEF CatalogInv
  <1>5. ASSUME NEW j \in Keepers \ {k}, NEW t \in keeper[j].shops \ confused'
        PROVE  t \notin confused /\ t \notin H /\ t \notin keeper[k].shops /\ t \in Shops
    <2>1. t \notin H
      BY <1>1
    <2>2. t \notin confused
      BY <1>1, <2>1
    <2>3. keeper[j].shops \cap keeper[k].shops \subseteq confused
      BY <1>4 DEF KeepersOK
    <2> QED BY <1>2, <2>1, <2>2, <2>3
  <1>6. ASSUME NEW j \in Keepers \ {k}
        PROVE  KeeperOK(keeper[j], links', goods', issued', confused')
    <2> DEFINE q == keeper[j]
    <2>1. \A t \in q.shops \ confused' : t \notin confused /\ In(goods, t) = In(goods, t) /\ Same(t, links, links')
      BY <1>1, <1>5
    <2>2. \A t \in Shops : issued[t] <= issued[t]
      BY <1>2
    <2>3. KeeperOK(q, links, goods, issued, confused)
      BY <1>2
    <2> HIDE DEF q
    <2>4. KeeperOK(q, links', goods, issued, confused')
      BY <1>2, <2>1, <2>2, <2>3, KeeperStays
    <2> QED BY <1>1, <2>4 DEF q
  <1>7. KeepersOK' /\ keeper'[k] = Resting /\ \A j \in Keepers \ {k} : keeper'[j] = keeper[j]
    <2>2. KeeperOK(Resting, links', goods', issued', confused') /\ Resting.shops = {}
      BY RestingOK
    <2>3. ASSUME NEW i \in Keepers \ {k}, NEW j \in Keepers \ {k}, i # j
          PROVE  keeper[i].shops \cap keeper[j].shops \subseteq confused'
      <3>1. keeper[i].shops \cap keeper[j].shops \subseteq confused
        BY <1>4, <2>3 DEF KeepersOK
      <3> QED BY <1>5, <3>1
    <2>4. \A j \in Keepers \ {k} : keeper[j].shops \cap Resting.shops \subseteq confused'
      BY <2>2
    <2>5. keeper' = [keeper EXCEPT ![k] = Resting]
      BY <1>1
    <2> QED BY <1>4, <1>6, <2>2, <2>3, <2>4, <2>5, OneChanges
  <1>8. LinksOK'
    <2>0. \A t \in Shops \ confused : Neat(links, t)
      BY DEF CatalogInv, LinksOK
    <2>1. \A t, g : g \in In(goods, t) => g.shop = t /\ (t \in Shops => g.part \in Parts)
      BY <1>2 DEF In
    <2>2. ASSUME NEW t \in Shops \ confused'
          PROVE  /\ Neat(links', t)
                 /\ (\A j \in Keepers : t \notin keeper'[j].shops) => Agrees(In(goods, t), links', t)
      <3>1. CASE t \in H \cup keeper[k].shops
        <4>1. Agrees(In(goods, t), links', t)
          BY <1>1, <3>1
        <4> QED BY <4>1, FitsNeat
      <3>2. CASE t \notin H \cup keeper[k].shops
        <4>1. Same(t, links, links') /\ t \notin confused
          BY <1>1, <3>2
        <4>2. Neat(links', t)
          BY <2>0, <4>1, SameNeat
        <4>3. ASSUME \A j \in Keepers : t \notin keeper'[j].shops PROVE Agrees(In(goods, t), links', t)
          <5>1. \A j \in Keepers : t \notin keeper[j].shops
            BY <1>7, <3>2, <4>3
          <5>2. Agrees(In(goods, t), links, t)
            BY <4>1, <5>1 DEF CatalogInv, LinksOK
          <5>3. \A g \in In(goods, t) : g.shop = t /\ g.part \in Parts
            BY <2>1
          <5> QED BY <4>1, <5>2, <5>3, SameFits
        <4> QED BY <4>2, <4>3
      <3> QED BY <3>1, <3>2
    <2>3. RecordsOK(links') /\ goods' = goods
      BY <1>1
    <2> QED BY <2>2, <2>3 DEF LinksOK
  <1> QED BY <1>3, <1>7, <1>8 DEF CatalogInv

LEMMA CommitExportKeeps ==
    ASSUME NEW k \in Keepers, CatalogInv, CommitExport(k)
    PROVE  CatalogInv'
  <1> DEFINE copy == keeper[k].rows
             base == keeper[k].base
             none == {}
  <1>1. /\ CanStore(copy, base) /\ links' = Stored(copy, base)
        /\ keeper' = [keeper EXCEPT ![k] = Resting]
        /\ goods' = goods /\ issued' = issued /\ confused' = confused
    BY DEF CommitExport
  <1>2. KeeperOK(keeper[k], links, goods, issued, confused)
    BY CatalogFacts
  <1>3. /\ RecordsOK(copy) /\ Knows(keeper[k], links, goods, confused) /\ keeper[k].shops \subseteq Shops
        /\ \A t \in Shops \ keeper[k].shops : Spares(keeper[k].what, copy, base, t)
    BY <1>2 DEF KeeperOK
  <1>4. RecordsOK(links) /\ \A t \in Shops \ confused : Neat(links, t)
    BY DEF CatalogInv, LinksOK
  <1>5. PICK what : what = keeper[k].what
    OBVIOUS
  <1>6. PICK st : st = Stored(copy, base) /\ st = links'
    BY <1>1
  <1>7. \A t, g : g \in In(goods, t) => g.shop = t /\ (t \in Shops => g.part \in Parts)
    BY CatalogFacts DEF In
  <1>8. /\ \A t \in keeper[k].shops \ confused : Same(t, links, base) /\ Agrees(In(goods, t), copy, t)
        /\ \A t \in Shops \ keeper[k].shops : Spares(what, copy, base, t)
    BY <1>3, <1>5 DEF Knows
  <1> HIDE DEF copy, base
  <1>9. RecordsOK(st)
    BY <1>3, <1>4, <1>6, StoredOK
  <1>10. ASSUME NEW t \in keeper[k].shops \ confused PROVE Agrees(In(goods, t), st, t)
    <2>1. Same(t, links, base) /\ Agrees(In(goods, t), copy, t)
      BY <1>8
    <2>2. Same(t, st, copy)
      BY <1>6, <2>1, StoredMine
    <2>3. Same(t, copy, st)
      BY <2>2, SameBack
    <2>4. \A g \in In(goods, t) : g.shop = t /\ g.part \in Parts
      BY <1>3, <1>7
    <2> QED BY <2>1, <2>3, <2>4, SameFits
  <1>11. ASSUME NEW t \in Shops \ (keeper[k].shops \cup confused) PROVE Same(t, links, st)
    <2>1. Spares(what, copy, base, t) /\ Neat(links, t) /\ CanStore(copy, base)
      BY <1>1, <1>4, <1>8
    <2> QED BY <1>6, <2>1, StoredOthers
  <1>12. Ends(k, none)
    BY <1>1, <1>6, <1>9, <1>10, <1>11 DEF Ends
  <1> HIDE DEF none
  <1> QED BY <1>12, EndsKeep

(* An import of a store that writes on the records, or not.                *)
OnOwn(how, s) == how = "single" \/ (how = "map" /\ s = Home)

LEMMA OneShop ==
    ASSUME NEW s, NEW t, t # s, NEW r, NEW r2, r2.maps = r.maps,
           r2.tmpl = r.tmpl \/ (r.tmpl.shop # t /\ r2.tmpl.shop = s),
           \A v \in Parts : r2.var[v] = r.var[v] \/ (r.var[v].shop # t /\ r2.var[v].shop = s)
    PROVE  Same(t, r, r2)
  BY DEF Same, Like

LEMMA OnRecordsAre ==
    ASSUME NEW s, NEW G, NEW var, NEW var2, \A g \in G : g.shop = s, var2 = OnRecords(var, G)
    PROVE  Writes(var2, var, G, s) /\ var2 = [v \in Parts |-> var2[v]]
  <1>1. var2 = [v \in Parts |-> IF \E g \in G : g.part = v
                     THEN [id |-> (CHOOSE h \in G : h.part = v).id, shop |-> (CHOOSE h \in G : h.part = v).shop]
                     ELSE var[v]]
    BY DEF OnRecords
  <1>2. ASSUME NEW v \in Parts, \E g \in G : g.part = v
        PROVE  \E g \in G : g.part = v /\ var2[v] = [id |-> g.id, shop |-> s]
    <2> DEFINE c == CHOOSE g \in G : g.part = v
    <2>1. c \in G /\ c.part = v
      BY <1>2
    <2>2. var2[v] = [id |-> c.id, shop |-> c.shop]
      BY <1>1, <1>2
    <2> HIDE DEF c
    <2>3. c.shop = s
      BY <2>1
    <2> QED BY <2>1, <2>2, <2>3
  <1>3. ASSUME NEW v \in Parts, ~ \E g \in G : g.part = v PROVE var2[v] = var[v]
    BY <1>1, <1>3
  <1>4. var2 = [v \in Parts |-> var2[v]]
    BY <1>1
  <1>5. Writes(var2, var, G, s)
    BY <1>2, <1>3 DEF Writes
  <1> QED BY <1>4, <1>5

(* The payload of an import: variants of one store.                        *)
Payload(P, s, top) == P # {} /\ \A g \in P : GoodOK(g, top) /\ g.shop = s

LEMMA PayloadFacts ==
    ASSUME NEW P, NEW s \in Shops, NEW top \in [Shops -> Nat], Payload(P, s, top)
    PROVE  /\ P # {} /\ \A g \in P : g.shop = s /\ g.part \in Parts /\ g.id \in Nat \ {0} /\ g.product \in Nat \ {0}
           /\ IsFiniteSet(Products(P)) /\ Max(Products(P)) \in Nat \ {0}
  <1>1. P # {} /\ \A g \in P : /\ g.shop = s /\ g.part \in Parts /\ g.id \in 1 .. top[s]
                               /\ g.product \in 1 .. top[s]
    BY DEF Payload, GoodOK
  <1>2. top[s] \in Nat
    OBVIOUS
  <1>3. \A g \in P : g.shop = s /\ g.part \in Parts /\ g.id \in Nat \ {0} /\ g.product \in Nat \ {0}
    BY <1>1, <1>2
  <1>4. Products(P) \subseteq 1 .. top[s] /\ Products(P) # {}
    BY <1>1 DEF Products
  <1>5. IsFiniteSet(Products(P))
    <2>1. 1 \in Int /\ top[s] \in Int
      BY <1>2
    <2>2. IsFiniteSet(1 .. top[s])
      BY <2>1, FS_Interval
    <2> QED BY <1>4, <2>2, FS_Subset
  <1>6. Products(P) \subseteq Nat
    BY <1>2, <1>4
  <1>7. Max(Products(P)) \in Products(P)
    BY <1>4, <1>5, <1>6, MaxIs
  <1>8. Max(Products(P)) \in Nat \ {0}
    BY <1>3, <1>7 DEF Products
  <1> QED BY <1>1, <1>3, <1>5, <1>8

LEMMA ImportedOwn ==
    ASSUME NEW b, NEW how \in {"single", "multi", "map"}, NEW s \in Shops, NEW P, NEW r2,
           NEW top \in [Shops -> Nat], Payload(P, s, top),
           RecordsOK(b), OnOwn(how, s), r2 = Imported(b, how, s, P)
    PROVE  /\ RecordsOK(r2) /\ r2.maps = b.maps /\ Writes(r2.var, b.var, Latest(P), s)
           /\ how = "single" => r2.tmpl = [id |-> Max(Products(P)), shop |-> s]
           /\ how = "map" => r2.tmpl = b.tmpl
  <1> DEFINE L == Latest(P)
             va == OnRecords(b.var, L)
             tm == IF how = "single" THEN [id |-> Max(Products(P)), shop |-> s] ELSE b.tmpl
  <1>1. \A g \in L : g \in P
    BY DEF Latest
  <1>2. \A g \in L : g.shop = s /\ g.id \in Nat \ {0}
    BY <1>1, PayloadFacts
  <1>3. b = [tmpl |-> b.tmpl, var |-> b.var, maps |-> b.maps]
        /\ Ref(b.tmpl) /\ \A v \in Parts : Ref(b.var[v])
    BY DEF RecordsOK
  <1>4. Ref(tm)
    <2>1. CASE how = "single"
      BY <2>1, PayloadFacts DEF Ref
    <2>2. CASE how # "single"
      BY <1>3, <2>2
    <2> QED BY <2>1, <2>2
  <1>5. r2 = [tmpl |-> tm, var |-> va, maps |-> b.maps]
    <2>1. CASE how = "single"
      <3>1. r2 = [b EXCEPT !.tmpl = [id |-> Max(Products(P)), shop |-> s], !.var = va]
        BY <2>1 DEF Imported
      <3> HIDE DEF va
      <3> QED BY <1>3, <2>1, <3>1
    <2>2. CASE how = "map" /\ s = Home
      <3>1. r2 = [b EXCEPT !.var = va]
        BY <2>2 DEF Imported
      <3>2. tm = b.tmpl
        BY <2>2
      <3> HIDE DEF va, tm
      <3> QED BY <1>3, <3>1, <3>2
    <2> QED BY <2>1, <2>2 DEF OnOwn
  <1>6. how = "single" => tm = [id |-> Max(Products(P)), shop |-> s]
    OBVIOUS
  <1>7. how = "map" => tm = b.tmpl
    OBVIOUS
  <1> HIDE DEF L, tm
  <1>8. PICK w : w = va
    OBVIOUS
  <1>9. Writes(w, b.var, L, s) /\ w = [v \in Parts |-> w[v]]
    BY <1>2, <1>8, OnRecordsAre
  <1> HIDE DEF va
  <1>10. \A v \in Parts : Ref(w[v])
    BY <1>2, <1>3, <1>9, WritesRefs
  <1>11. r2 = [tmpl |-> tm, var |-> w, maps |-> b.maps]
    BY <1>5, <1>8
  <1>12. r2.tmpl = tm /\ r2.var = w /\ r2.maps = b.maps
    BY <1>11
  <1>13. RecordsOK(r2)
    BY <1>4, <1>9, <1>10, <1>11, <1>12, NewRecords
  <1> QED BY <1>6, <1>7, <1>9, <1>12, <1>13 DEF L

LEMMA ImportedMaps ==
    ASSUME NEW b, NEW how \in {"single", "multi", "map"}, NEW s, NEW P, NEW r2,
           RecordsOK(b), ~OnOwn(how, s), r2 = Imported(b, how, s, P)
    PROVE  /\ RecordsOK(r2) /\ r2.tmpl = b.tmpl /\ r2.var = b.var
           /\ r2.maps = {r \in b.maps : \A g \in Latest(P) : r.shop # g.shop \/ r.part # g.part}
                           \cup {MapOf(g) : g \in Latest(P)}
  <1>1. PICK M : M = {r \in b.maps : \A g \in Latest(P) : r.shop # g.shop \/ r.part # g.part}
                           \cup {MapOf(g) : g \in Latest(P)}
    OBVIOUS
  <1>2. r2 = Mapped(b, Latest(P))
    BY DEF Imported, OnOwn
  <1>3. r2 = [b EXCEPT !.maps = M]
    BY <1>1, <1>2 DEF Mapped
  <1>4. r2.tmpl = b.tmpl /\ r2.var = b.var /\ r2.maps = M /\ RecordsOK(r2)
    BY <1>3, MapsWritten
  <1> QED BY <1>1, <1>4

LEMMA HealsIs ==
    ASSUME NEW b, NEW how, NEW s, NEW P, IsFiniteSet(Products(P)), P # {}
    PROVE  Heals(b, how, s, P) <=>
              /\ \E p : \A g \in P : g.product = p
              /\ how = "map" /\ s = Home => \E g \in P : b.tmpl = [id |-> g.product, shop |-> s]
              /\ OnOwn(how, s) => /\ \A m \in b.maps : m.shop # s
                                  /\ \A v \in Parts : b.var[v].shop = s => \E g \in P : g.part = v
              /\ ~OnOwn(how, s) => /\ s \notin OwnShops(b)
                                   /\ \A m \in b.maps : m.shop = s => \E g \in P : g.part = m.part
  <1>1. Cardinality(Products(P)) = 1 <=> \E p : Products(P) = {p}
    BY FS_Singleton
  <1>2. (\E p : Products(P) = {p}) <=> \E p : \A g \in P : g.product = p
    <2>1. ASSUME NEW p, Products(P) = {p} PROVE \A g \in P : g.product = p
      BY <2>1 DEF Products
    <2>2. ASSUME NEW p, \A g \in P : g.product = p PROVE Products(P) = {p}
      BY <2>2 DEF Products
    <2> QED BY <2>1, <2>2
  <1>3. MapsIn(b, s) = {} <=> \A m \in b.maps : m.shop # s
    BY DEF MapsIn
  <1> DEFINE seen == {g.part : g \in P}
  <1>4. (\A v \in Parts \ seen : b.var[v].shop # s)
           <=> \A v \in Parts : b.var[v].shop = s => \E g \in P : g.part = v
    OBVIOUS
  <1>5. (\A r \in MapsIn(b, s) : r.part \in seen)
           <=> \A m \in b.maps : m.shop = s => \E g \in P : g.part = m.part
    BY DEF MapsIn
  <1>6. Heals(b, how, s, P) <=>
           /\ Cardinality(Products(P)) = 1
           /\ how = "map" /\ s = Home => \E g \in P : b.tmpl = [id |-> g.product, shop |-> s]
           /\ IF OnOwn(how, s)
              THEN MapsIn(b, s) = {} /\ \A v \in Parts \ seen : b.var[v].shop # s
              ELSE s \notin OwnShops(b) /\ \A r \in MapsIn(b, s) : r.part \in seen
    BY DEF Heals, OnOwn
  <1> HIDE DEF seen
  <1> QED BY <1>1, <1>2, <1>3, <1>4, <1>5, <1>6

LEMMA ImportFits ==
    ASSUME NEW b, NEW how \in {"single", "multi", "map"}, NEW s \in Shops, NEW P, NEW r2,
           NEW top \in [Shops -> Nat], Payload(P, s, top), Distinct(P),
           RecordsOK(b), r2 = Imported(b, how, s, P), Heals(b, how, s, P)
    PROVE  Agrees(P, r2, s)
  <1>1. /\ P # {} /\ IsFiniteSet(Products(P))
        /\ \A g \in P : g.shop = s /\ g.part \in Parts /\ g.id \in Nat \ {0} /\ g.product \in Nat \ {0}
    BY PayloadFacts
  <1>2. /\ \E p : \A g \in P : g.product = p
        /\ how = "map" /\ s = Home => \E g \in P : b.tmpl = [id |-> g.product, shop |-> s]
        /\ OnOwn(how, s) => /\ \A m \in b.maps : m.shop # s
                            /\ \A v \in Parts : b.var[v].shop = s => \E g \in P : g.part = v
        /\ ~OnOwn(how, s) => /\ s \notin OwnShops(b)
                             /\ \A m \in b.maps : m.shop = s => \E g \in P : g.part = m.part
    BY <1>1, HealsIs
  <1>3. PICK p : \A g \in P : g.product = p
    BY <1>2
  <1>4. p \in Nat
    BY <1>1, <1>3
  <1>5. Latest(P) = P
    <2>1. \A g, h \in P : h.product <= g.product
      BY <1>1, <1>3
    <2> QED BY <2>1 DEF Latest
  <1>6. Max(Products(P)) = p
    <2>1. Products(P) = {p}
      BY <1>1, <1>3 DEF Products
    <2> QED BY <1>4, <2>1, MaxOne
  <1>7. \A g, h \in P : g.part = h.part => g = h
    BY <1>1, <1>3 DEF Distinct
  <1>8. CASE OnOwn(how, s)
    <2>1. /\ r2.maps = b.maps /\ Writes(r2.var, b.var, P, s)
          /\ how = "single" => r2.tmpl = [id |-> p, shop |-> s]
          /\ how = "map" => r2.tmpl = b.tmpl
      <3>1. /\ RecordsOK(r2) /\ r2.maps = b.maps /\ Writes(r2.var, b.var, Latest(P), s)
            /\ how = "single" => r2.tmpl = [id |-> Max(Products(P)), shop |-> s]
            /\ how = "map" => r2.tmpl = b.tmpl
        BY <1>8, ImportedOwn
      <3> QED BY <1>5, <1>6, <3>1
    <2>2. r2.tmpl = [id |-> p, shop |-> s]
      <3>1. CASE how = "single"
        BY <2>1, <3>1
      <3>2. CASE how = "map" /\ s = Home
        BY <1>2, <1>3, <2>1, <3>2
      <3> QED BY <1>8, <3>1, <3>2 DEF OnOwn
    <2>3. \A m \in r2.maps : m.shop # s
      BY <1>2, <1>8, <2>1
    <2>4. \A v \in Parts : (\A g \in P : g.part # v) => b.var[v].shop # s
      BY <1>2, <1>8
    <2>5. \A g \in P : g.shop = s /\ g.part \in Parts /\ g.product = p
      BY <1>1, <1>3
    <2> QED BY <1>1, <1>7, <2>1, <2>2, <2>3, <2>4, <2>5, WritesFits
  <1>9. CASE ~OnOwn(how, s)
    <2>1. /\ r2.tmpl = b.tmpl /\ r2.var = b.var
          /\ r2.maps = {r \in b.maps : \A g \in P : r.shop # g.shop \/ r.part # g.part}
                           \cup {MapOf(g) : g \in P}
      BY <1>5, <1>9, ImportedMaps
    <2>2. b.tmpl.shop # s /\ \A v \in Parts : b.var[v].shop # s
      BY <1>2, <1>9, CatalogAssumption DEF OwnShops
    <2>3. ASSUME NEW m \in r2.maps, m.shop = s PROVE \E g \in P : m = MapOf(g)
      <3>1. CASE m \in b.maps /\ \A g \in P : m.shop # g.shop \/ m.part # g.part
        <4>1. PICK g \in P : g.part = m.part
          BY <1>2, <1>9, <2>3, <3>1
        <4> QED BY <1>1, <2>3, <3>1, <4>1
      <3> QED BY <2>1, <3>1
    <2>4. \A g \in P : MapOf(g) \in r2.maps
      BY <2>1
    <2>5. \A g, h \in P : g.product = h.product
      BY <1>3
    <2> QED BY <2>1, <2>2, <2>3, <2>4, <2>5 DEF Agrees
  <1> QED BY <1>8, <1>9

LEMMA FitsHeals ==
    ASSUME NEW b, NEW how \in {"single", "multi", "map"}, NEW s \in Shops, NEW P,
           NEW top \in [Shops -> Nat], Payload(P, s, top), RecordsOK(b),
           Agrees(P, b, s), s \notin Confused(b, how, s)
    PROVE  Heals(b, how, s, P)
  <1>1. /\ P # {} /\ IsFiniteSet(Products(P))
        /\ \A g \in P : g.shop = s /\ g.part \in Parts /\ g.id \in Nat \ {0} /\ g.product \in Nat \ {0}
    BY PayloadFacts
  <1>2. CASE OnOwn(how, s)
    <2>1. b.tmpl.shop = s
      <3>1. CASE how = "single"
        <4>1. MapsIn(b, s) = {}
          BY <3>1 DEF Confused
        <4>2. \A g \in P : MapOf(g).shop = s
          BY <1>1 DEF MapOf
        <4>3. \A g \in P : MapOf(g) \notin b.maps
          BY <4>1, <4>2 DEF MapsIn
        <4> QED BY <1>1, <4>3 DEF Agrees
      <3>2. CASE how = "map" /\ s = Home
        BY <3>2 DEF Confused
      <3> QED BY <1>2, <3>1, <3>2 DEF OnOwn
    <2>2. /\ \A g \in P : g.product = b.tmpl.id
          /\ \A m \in b.maps : m.shop # s
          /\ \A v \in Parts : b.var[v].shop = s => \E g \in P : g.part = v
      BY <2>1 DEF Agrees
    <2>3. b.tmpl = [id |-> b.tmpl.id, shop |-> s]
      <3>1. s # NoShop /\ Ref(b.tmpl)
        BY CatalogAssumption DEF RecordsOK
      <3> QED BY <2>1, <3>1, RefShop
    <2>4. \E g \in P : b.tmpl = [id |-> g.product, shop |-> s]
      BY <1>1, <2>2, <2>3
    <2>5. \E p : \A g \in P : g.product = p
      BY <2>2
    <2> QED BY <1>1, <1>2, <2>2, <2>4, <2>5, HealsIs
  <1>3. CASE ~OnOwn(how, s)
    <2>1. s \notin OwnShops(b)
      BY <1>3 DEF Confused, OnOwn
    <2>2. b.tmpl.shop # s
      BY <2>1, CatalogAssumption DEF OwnShops
    <2>3. /\ \A m \in b.maps : m.shop = s => \E g \in P : m = MapOf(g)
          /\ \A g, h \in P : g.product = h.product
      BY <2>2 DEF Agrees
    <2>4. \A m \in b.maps : m.shop = s => \E g \in P : g.part = m.part
      BY <2>3 DEF MapOf
    <2>5. \E p : \A g \in P : g.product = p
      BY <1>1, <2>3
    <2>6. ~(how = "map" /\ s = Home)
      BY <1>3 DEF OnOwn
    <2> QED BY <1>1, <1>3, <2>1, <2>4, <2>5, <2>6, HealsIs
  <1> QED BY <1>2, <1>3

(* What an import leaves of the other stores.                              *)
LEMMA ImportOthers ==
    ASSUME NEW b, NEW how \in {"single", "multi", "map"}, NEW s \in Shops, NEW P, NEW r2,
           NEW top \in [Shops -> Nat], Payload(P, s, top), RecordsOK(b), r2 = Imported(b, how, s, P),
           NEW t \in Shops \ {s}, t \notin Confused(b, how, s),
           t \in OwnShops(b) => Neat(b, t)
    PROVE  Same(t, b, r2)
  <1>0. t # NoShop
    BY CatalogAssumption
  <1>1. \A g \in Latest(P) : g \in P /\ g.shop = s
    BY PayloadFacts DEF Latest
  <1>2. CASE OnOwn(how, s)
    <2>1. /\ r2.maps = b.maps /\ Writes(r2.var, b.var, Latest(P), s)
          /\ how = "single" => r2.tmpl = [id |-> Max(Products(P)), shop |-> s]
          /\ how = "map" => r2.tmpl = b.tmpl
      BY <1>2, ImportedOwn
    <2>2. \A v \in Parts : b.var[v].shop # t
      <3>1. CASE how = "single"
        BY <1>0, <3>1 DEF Confused, OwnShops
      <3>2. CASE how = "map" /\ s = Home
        <4>1. CASE b.tmpl.shop = Home
          <5>1. b.tmpl.shop # t
            BY <3>2, <4>1
          <5> QED BY <1>0, <5>1 DEF Neat, OwnShops
        <4>2. CASE b.tmpl.shop # Home
          BY <1>0, <3>2, <4>2 DEF Confused, OwnShops
        <4> QED BY <4>1, <4>2
      <3> QED BY <1>2, <3>1, <3>2 DEF OnOwn
    <2>3. r2.tmpl = b.tmpl \/ (b.tmpl.shop # t /\ r2.tmpl.shop = s)
      <3>1. CASE how = "single"
        <4>1. b.tmpl.shop # t
          BY <1>0, <3>1 DEF Confused, OwnShops
        <4> QED BY <2>1, <3>1, <4>1
      <3>2. CASE how = "map" /\ s = Home
        BY <2>1, <3>2
      <3> QED BY <1>2, <3>1, <3>2 DEF OnOwn
    <2>4. ASSUME NEW v \in Parts
          PROVE  r2.var[v] = b.var[v] \/ (b.var[v].shop # t /\ r2.var[v].shop = s)
      <3>1. CASE \E g \in Latest(P) : g.part = v /\ r2.var[v] = [id |-> g.id, shop |-> s]
        BY <2>2, <3>1
      <3> QED BY <2>1, <3>1 DEF Writes
    <2> QED BY <2>1, <2>3, <2>4, OneShop
  <1>3. CASE ~OnOwn(how, s)
    <2>1. /\ r2.tmpl = b.tmpl /\ r2.var = b.var
          /\ r2.maps = {r \in b.maps : \A g \in Latest(P) : r.shop # g.shop \/ r.part # g.part}
                           \cup {MapOf(g) : g \in Latest(P)}
      BY <1>3, ImportedMaps
    <2>2. \A m \in b.maps : m \notin r2.maps => m.shop = s
      BY <1>1, <2>1
    <2>3. \A g \in Latest(P) : MapOf(g).shop = s
      BY <1>1 DEF MapOf
    <2>4. \A m \in r2.maps : m \notin b.maps => m.shop = s
      BY <2>1, <2>3
    <2> QED BY <2>1, <2>2, <2>4, MapsOnly
  <1> QED BY <1>2, <1>3

LEMMA EndImportKeeps ==
    ASSUME NEW k \in Keepers, CatalogInv, EndImport(k)
    PROVE  CatalogInv'
  <1> DEFINE base == keeper[k].base
             P    == keeper[k].payload
             how  == keeper[k].what
             end  == CHOOSE t \in Shops : t \in keeper[k].todo
             Healed(s) == {t \in {s} : /\ P = In(goods, t) /\ base = links
                                       /\ Contended(k, {t}) = {}
                                       /\ Heals(keeper[k].rows, how, t, P)}
  <1>1. /\ CanStore(Imported(keeper[k].rows, how, end, P), base)
        /\ links' = Stored(Imported(keeper[k].rows, how, end, P), base)
        /\ confused' = (confused \cup Confused(keeper[k].rows, how, end)
                                 \cup IF P = In(goods, end) THEN {} ELSE {end})
                         \ Healed(end)
        /\ keeper' = [keeper EXCEPT ![k] = Resting]
        /\ goods' = goods /\ issued' = issued /\ keeper[k].at = "import"
    BY DEF EndImport
  <1>2. KeeperOK(keeper[k], links, goods, issued, confused)
    BY CatalogFacts
  <1>3. /\ RecordsOK(base) /\ Knows(keeper[k], links, goods, confused) /\ keeper[k].shops \subseteq Shops
        /\ Imports(keeper[k], issued) /\ keeper[k].todo \subseteq keeper[k].shops
    BY <1>1, <1>2 DEF KeeperOK
  <1>4. PICK s \in Shops : keeper[k].todo = {s} /\ P # {} /\ \A g \in P : GoodOK(g, issued) /\ g.shop = s
    BY <1>3 DEF Imports
  <1>5. /\ keeper[k].rows = base /\ OwnShops(base) \subseteq keeper[k].shops
        /\ how \in {"single", "multi", "map"} /\ end = s /\ s \in keeper[k].shops
    BY <1>3, <1>4 DEF Imports
  <1>6. Payload(P, s, issued) /\ issued \in [Shops -> Nat]
    BY <1>4, CatalogFacts DEF Payload
  <1>7. PICK r2, st : r2 = Imported(base, how, s, P) /\ st = Stored(r2, base)
    OBVIOUS
  <1>8. PICK H : H = {t \in {s} : /\ P = In(goods, t) /\ base = links
                                  /\ Contended(k, {t}) = {} /\ Heals(base, how, t, P)}
    OBVIOUS
  <1>9. /\ CanStore(r2, base) /\ links' = st
        /\ confused' = (confused \cup Confused(base, how, s)
                                 \cup IF P = In(goods, s) THEN {} ELSE {s}) \ H
    <2>1. Healed(s) = H
      BY <1>5, <1>8
    <2> HIDE DEF Healed
    <2> QED BY <1>1, <1>5, <1>7, <2>1
  <1>10. RecordsOK(links) /\ \A t \in Shops \ confused : Neat(links, t)
    BY DEF CatalogInv, LinksOK
  <1>11. \A t, g : g \in In(goods, t) => g.shop = t /\ (t \in Shops => g.part \in Parts)
    BY CatalogFacts DEF In
  <1>12. \A t \in keeper[k].shops \ confused : Same(t, links, base) /\ Agrees(In(goods, t), base, t)
    BY <1>3, <1>5 DEF Knows
  <1>13. Distinct(In(goods, s))
    BY DEF CatalogInv, GoodsOK, Distinct, In
  <1> HIDE DEF base, P, how, end, Healed
  <1>14. RecordsOK(r2)
    <2>1. CASE OnOwn(how, s)
      <3>1. /\ RecordsOK(r2) /\ r2.maps = base.maps /\ Writes(r2.var, base.var, Latest(P), s)
            /\ how = "single" => r2.tmpl = [id |-> Max(Products(P)), shop |-> s]
            /\ how = "map" => r2.tmpl = base.tmpl
        BY <1>3, <1>5, <1>6, <1>7, <2>1, ImportedOwn
      <3> QED BY <3>1
    <2>2. CASE ~OnOwn(how, s)
      BY <1>3, <1>5, <1>7, <2>2, ImportedMaps
    <2> QED BY <2>1, <2>2
  <1>15. RecordsOK(st)
    BY <1>7, <1>10, <1>14, StoredOK
  <1>16. ASSUME NEW t \in Shops \ confused', t \notin H PROVE t \notin confused /\ t \notin Confused(base, how, s)
                                                          /\ (t = s => P = In(goods, s))
    BY <1>9, <1>16
  <1>17. ASSUME Heals(base, how, s, P), P = In(goods, s), Same(s, links, base)
         PROVE  Agrees(In(goods, s), st, s)
    <2>1. Agrees(P, r2, s)
      <3>1. Distinct(P)
        BY <1>13, <1>17
      <3> QED BY <1>3, <1>5, <1>6, <1>7, <1>17, <3>1, ImportFits
    <2>2. Same(s, st, r2)
      BY <1>7, <1>17, StoredMine
    <2>3. Same(s, r2, st)
      BY <2>2, SameBack
    <2>4. \A g \in P : g.shop = s /\ g.part \in Parts
      BY <1>11, <1>17
    <2>5. Agrees(P, st, s)
      BY <2>1, <2>3, <2>4, SameFits
    <2> QED BY <1>17, <2>5
  <1>18. ASSUME NEW t \in Shops \ confused', t \notin H, t # s PROVE Same(t, base, r2)
    <2>1. t \notin Confused(base, how, s) /\ t \notin confused
      BY <1>16, <1>18
    <2>2. t \in OwnShops(base) => Neat(base, t)
      <3>1. t \in OwnShops(base) => Agrees(In(goods, t), base, t)
        BY <1>5, <1>12, <2>1
      <3> QED BY <3>1, FitsNeat
    <2>3. t \in Shops \ {s}
      BY <1>18
    <2> QED BY <1>3, <1>5, <1>6, <1>7, <2>1, <2>2, <2>3, ImportOthers
  <1>19. ASSUME NEW t \in (H \cup keeper[k].shops) \ confused' PROVE Agrees(In(goods, t), st, t)
    <2>0. t \in Shops \ confused' /\ (t \notin H => t \in keeper[k].shops)
      BY <1>3, <1>5, <1>8
    <2>1. CASE t \in H
      <3>1. t = s /\ P = In(goods, s) /\ base = links /\ Heals(base, how, s, P)
        BY <1>8, <2>1
      <3>2. Same(s, links, base)
        BY <3>1, SameSelf
      <3> QED BY <1>17, <3>1, <3>2
    <2>2. CASE t \notin H /\ t = s
      <3>1. t \notin confused /\ s \notin Confused(base, how, s) /\ P = In(goods, s)
        BY <1>16, <2>0, <2>2
      <3>2. Same(s, links, base) /\ Agrees(P, base, s)
        BY <1>5, <1>12, <2>2, <3>1
      <3>3. Heals(base, how, s, P)
        BY <1>3, <1>5, <1>6, <3>1, <3>2, FitsHeals
      <3> QED BY <1>17, <2>2, <3>1, <3>2, <3>3
    <2>3. CASE t \notin H /\ t # s
      <3>1. Same(t, base, r2)
        BY <1>18, <2>0, <2>3
      <3>2. t \in keeper[k].shops \ confused
        BY <1>16, <2>0, <2>3
      <3>3. Same(t, links, base) /\ Agrees(In(goods, t), base, t)
        BY <1>12, <3>2
      <3>4. Same(t, st, r2)
        BY <1>7, <3>3, StoredMine
      <3>5. Same(t, base, st)
        BY <3>1, <3>4, SameBack, SameOn
      <3>6. \A g \in In(goods, t) : g.shop = t /\ g.part \in Parts
        BY <1>11, <2>0
      <3> QED BY <3>3, <3>5, <3>6, SameFits
    <2> QED BY <2>1, <2>2, <2>3
  <1>20. ASSUME NEW t \in Shops \ (H \cup keeper[k].shops \cup confused') PROVE Same(t, links, st)
    <2>1. t \in Shops \ confused' /\ t \notin H /\ t # s
      BY <1>5
    <2>2. Same(t, base, r2)
      BY <1>18, <2>1
    <2>3. Spares("none", r2, base, t)
      BY <2>2 DEF Same, Spares, Like
    <2>4. Neat(links, t)
      BY <1>10, <1>16, <2>1
    <2> QED BY <1>7, <1>9, <2>1, <2>3, <2>4, StoredOthers
  <1>21. ASSUME NEW t \in H, NEW j \in Keepers \ {k} PROVE t \notin keeper[j].shops
    <2>1. Contended(k, {t}) = {}
      BY <1>8
    <2> QED BY <2>1 DEF Contended
  <1>22. H \subseteq Shops /\ confused \ H \subseteq confused'
    BY <1>8, <1>9
  <1>23. Ends(k, H)
    BY <1>1, <1>9, <1>15, <1>19, <1>20, <1>21, <1>22 DEF Ends
  <1> QED BY <1>23, EndsKeep

LEMMA CatalogStarts == ASSUME CatalogInit PROVE CatalogInv
  <1>1. PICK s \in Shops \cup {NoShop} :
          /\ goods = IF s = NoShop THEN {} ELSE Goods(s, 1, Parts, 0)
          /\ issued = [t \in Shops |-> IF t = s THEN Max(Parts) ELSE 0]
          /\ confused = {s} \ {NoShop}
    BY DEF CatalogInit
  <1>2. links = Unlinked /\ keeper = [k \in Keepers |-> Resting]
    BY DEF CatalogInit
  <1>3. Max(Parts) \in Nat \ {0} /\ issued \in [Shops -> Nat]
    BY <1>1, MaxParts
  <1>4. GoodsOK /\ \A t \in Shops \ confused : In(goods, t) = {}
    <2>1. CASE s = NoShop
      BY <1>1, <1>3, <2>1 DEF GoodsOK, Distinct, In
    <2>2. CASE s # NoShop
      <3>1. goods = Goods(s, 1, Parts, 0) /\ s \in Shops /\ confused = {s} /\ issued[s] = Max(Parts)
        BY <1>1, <2>2
      <3>2. PICK p, a : p = 1 /\ a = 0
        OBVIOUS
      <3>3. PICK G : G = goods
        OBVIOUS
      <3>4. /\ \A g \in goods : /\ g = [shop |-> g.shop, product |-> g.product, part |-> g.part, id |-> g.id]
                                /\ g.shop = s /\ g.product = p /\ g.part \in Parts
                                /\ g.id \in a + 1 .. a + Max(Parts)
            /\ Distinct(goods)
        <4>1. a \in Nat /\ G = Goods(s, p, Parts, a) /\ Parts \in SUBSET Parts
          BY <3>1, <3>2, <3>3
        <4>2. /\ \A g \in G : /\ g = [shop |-> s, product |-> p, part |-> g.part, id |-> a + g.part]
                              /\ g = [shop |-> g.shop, product |-> g.product, part |-> g.part, id |-> g.id]
                              /\ g.shop = s /\ g.product = p /\ g.part \in Parts /\ g.id = a + g.part
                              /\ g.id \in a + 1 .. a + Max(Parts)
              /\ \A v \in Parts : \E g \in G : g.part = v
              /\ Distinct(G)
          BY <4>1, NewGoods
        <4> QED BY <3>3, <4>2
      <3>5. ASSUME NEW g \in goods PROVE GoodOK(g, issued)
        <4>1. /\ g = [shop |-> g.shop, product |-> g.product, part |-> g.part, id |-> g.id]
              /\ g.shop = s /\ g.product = p /\ g.part \in Parts /\ g.id \in a + 1 .. a + Max(Parts)
          BY <3>4
        <4>2. g.id \in 1 .. Max(Parts) /\ g.product \in 1 .. Max(Parts)
          BY <1>3, <3>2, <4>1
        <4> QED BY <3>1, <4>1, <4>2 DEF GoodOK
      <3>6. \A t \in Shops \ confused : In(goods, t) = {}
        BY <3>1, <3>4 DEF In
      <3> QED BY <1>3, <3>4, <3>5, <3>6 DEF GoodsOK
    <2> QED BY <2>1, <2>2
  <1>5. /\ RecordsOK(links) /\ links.maps = {} /\ links.tmpl.shop = NoShop
        /\ \A v \in Parts : links.var[v].shop = NoShop
    BY <1>2, UnlinkedOK DEF Unknown
  <1>6. LinksOK
    <2> SUFFICES ASSUME NEW t \in Shops \ confused PROVE Neat(links, t) /\ Agrees(In(goods, t), links, t)
      BY <1>5 DEF LinksOK
    <2>1. t # NoShop /\ In(goods, t) = {}
      BY <1>4, CatalogAssumption
    <2> QED BY <1>5, <2>1 DEF Neat, Agrees
  <1>7. KeepersOK
    <2>1. \A k \in Keepers : keeper[k] = Resting
      BY <1>2
    <2>2. keeper \in [Keepers -> {keeper[k] : k \in Keepers}]
      BY <1>2
    <2>3. \A k \in Keepers : KeeperOK(keeper[k], links, goods, issued, confused) /\ keeper[k].shops = {}
      BY <2>1, RestingOK
    <2> QED BY <2>2, <2>3 DEF KeepersOK
  <1> QED BY <1>4, <1>6, <1>7 DEF CatalogInv

LEMMA CatalogNextInv == CatalogInv /\ [CatalogNext]_catalogvars => CatalogInv'
  <1> SUFFICES ASSUME CatalogInv, [CatalogNext]_catalogvars PROVE CatalogInv'
    OBVIOUS
  <1>1. CASE UNCHANGED catalogvars
    BY <1>1 DEF catalogvars, CatalogInv, GoodsOK, LinksOK, KeepersOK
  <1>2. CASE CatalogNext
    <2>1. PICK k \in Keepers :
        \/ \E what \in {"create", "update", "delete"}, of \in Parts \cup {Template},
              S \in SUBSET Shops : BeginExport(k, what, of, S)
        \/ \E s \in Shops :
              \/ CreateProduct(k, s) \/ AddVariant(k, s) \/ UpdateProduct(k, s)
              \/ DeleteProduct(k, s) \/ DeleteVariant(k, s) \/ PassBy(k, s)
              \/ \E how \in {"single", "multi", "map"} : FetchCatalog(k, s, how)
        \/ CommitExport(k) \/ EndImport(k) \/ LoseCatalog(k)
      BY <1>2 DEF CatalogNext
    <2>2. ASSUME NEW what \in {"create", "update", "delete"}, NEW of \in Parts \cup {Template},
                 NEW S \in SUBSET Shops, BeginExport(k, what, of, S)
          PROVE  CatalogInv'
      BY <2>2, BeginExportKeeps
    <2>3. ASSUME NEW s \in Shops, CreateProduct(k, s) PROVE CatalogInv'
      BY <2>3, CreateKeeps
    <2>4. ASSUME NEW s \in Shops, AddVariant(k, s) PROVE CatalogInv'
      BY <2>4, AddKeeps
    <2>5. ASSUME NEW s \in Shops, UpdateProduct(k, s) PROVE CatalogInv'
      BY <2>5, UpdateKeeps
    <2>6. ASSUME NEW s \in Shops, DeleteProduct(k, s) PROVE CatalogInv'
      BY <2>6, DeleteProductKeeps
    <2>7. ASSUME NEW s \in Shops, DeleteVariant(k, s) PROVE CatalogInv'
      BY <2>7, DeleteVariantKeeps
    <2>8. ASSUME NEW s \in Shops, PassBy(k, s) PROVE CatalogInv'
      BY <2>8, PassByKeeps
    <2>9. ASSUME NEW s \in Shops, NEW how \in {"single", "multi", "map"}, FetchCatalog(k, s, how)
          PROVE  CatalogInv'
      BY <2>9, FetchKeeps
    <2>10. CASE CommitExport(k)
      BY <2>10, CommitExportKeeps
    <2>11. CASE EndImport(k)
      BY <2>11, EndImportKeeps
    <2>12. CASE LoseCatalog(k)
      BY <2>12, LoseKeeps
    <2> QED BY <2>1, <2>2, <2>3, <2>4, <2>5, <2>6, <2>7, <2>8, <2>9, <2>10, <2>11, <2>12
  <1> QED BY <1>1, <1>2

LEMMA CatalogInvSynced == CatalogInv => CatalogSynced
  <1> SUFFICES ASSUME CatalogInv,
                      NEW s \in Shops \ (confused \cup UNION {keeper[k].shops : k \in Keepers})
               PROVE  Synced(links, s)
    BY DEF CatalogSynced
  <1>1. s \in Shops \ confused /\ \A k \in Keepers : s \notin keeper[k].shops
    OBVIOUS
  <1>2. Agrees(In(goods, s), links, s) /\ RecordsOK(links) /\ GoodsOK
    BY <1>1 DEF CatalogInv, LinksOK
  <1> QED BY <1>1, <1>2, FitsSynced

(* The ids in Odoo are those of the store and of no more than one product, *)
(* and in one place, whenever nothing has confused the store and no        *)
(* request is busy with it: after the exports of the wizards               *)
(* (shopify_pt_request, shopify_pt_request_create_product_by_instance,     *)
(* action_delete_product) and the imports (process_feed_product), in any   *)
(* order, of any number of requests at a time.                             *)
THEOREM CatalogKept == CatalogSpec => []CatalogSynced
  <1>1. CatalogInit => CatalogInv
    BY CatalogStarts
  <1>2. CatalogInv /\ [CatalogNext]_catalogvars => CatalogInv'
    BY CatalogNextInv
  <1>3. CatalogInv => CatalogSynced
    BY CatalogInvSynced
  <1> QED BY <1>1, <1>2, <1>3, PTL DEF CatalogSpec
=============================================================================
