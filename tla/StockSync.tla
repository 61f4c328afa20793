------------------------------ MODULE StockSync ------------------------------
(***************************************************************************)
(* The stock of one product on its way from Odoo to Shopify                *)
(* (syncoria_shopify/wizard/update_stock.py).  A Shopify warehouse may be  *)
(* fed by several Odoo locations, and the API is used in two steps: the    *)
(* quantity is set to 0 at the first location that maps to the warehouse,  *)
(* and every location then adds what is free there.                        *)
(*                                                                         *)
(* The cron exports the products flagged shopify_need_sync, and clears the *)
(* flags at the end; the other exports (the daily cron, the wizard) export *)
(* whatever the flag says.  The crons go to every location, the wizard to  *)
(* the chosen ones: it sets a warehouse to 0 that others feed too.  Calls  *)
(* take effect at once, an exporter reads its snapshot, and a call that    *)
(* fails is logged and skipped.                                            *)
(***************************************************************************)
EXTENDS Integers, FiniteSets, Functions

CONSTANTS
    Locations, Warehouses,
    Feeds,          \* the pairs <<location, warehouse>>: shopify_warehouse_ids
    Exporters,
    Quantities,     \* bound: what may be free at a location
    MaxLevel        \* bound on the quantities of Shopify, which lost calls
                    \* may raise again and again

ASSUME StockAssumption ==
    /\ IsFiniteSet(Locations) /\ Feeds \subseteq Locations \X Warehouses
    /\ 0 \in Quantities /\ Quantities \subseteq Int /\ MaxLevel \in Nat

VARIABLES
    free,       \* the free quantity at each location
    needSync,   \* the flag of the product
    level,      \* the quantities of Shopify
    exporting,  \* of an exporter: no, flagged or all
    snapshot,   \* what it reads as free
    touched,    \* its product row was updated by somebody else since
    zeroed,     \* shopify_warehouse_dict: the warehouses it has seen
    toVisit,    \* the pairs it has still to visit
    muddled     \* observation only: since an export of all locations began
                \* alone, two exports overlapped, one broke off, a call failed
                \* or had no answer, the stock changed without the flag, or
                \* the wizard went to some of the locations of a warehouse

stockvars == <<free, needSync, level, exporting, snapshot, touched, zeroed, toVisit, muddled>>

StockTypeOK ==
    /\ free \in [Locations -> Quantities] /\ needSync \in BOOLEAN
    /\ level \in [Warehouses -> 0..MaxLevel]
    /\ exporting \in [Exporters -> {"no", "flagged", "all"}]
    /\ snapshot \in [Exporters -> [Locations -> Quantities]]
    /\ touched \in [Exporters -> BOOLEAN]
    /\ zeroed \in [Exporters -> SUBSET Warehouses]
    /\ toVisit \in [Exporters -> SUBSET Feeds]
    /\ muddled \in BOOLEAN

Empty == [l \in Locations |-> 0]

StockInit ==
    /\ free = Empty /\ needSync = FALSE
    /\ level = [w \in Warehouses |-> 0]
    /\ exporting = [x \in Exporters |-> "no"]
    /\ snapshot = [x \in Exporters |-> Empty]
    /\ touched = [x \in Exporters |-> FALSE]
    /\ zeroed = [x \in Exporters |-> {}] /\ toVisit = [x \in Exporters |-> {}]
    /\ muddled = FALSE

Busy == {x \in Exporters : exporting[x] # "no"}

-----------------------------------------------------------------------------
(* An export.                                                              *)

ToVisit(C) == {f \in Feeds : f[1] \in C}

(* Some warehouse is fed by a location of C and by another one.            *)
Splits(C) == \E f, g \in Feeds : f[2] = g[2] /\ f[1] \in C /\ g[1] \notin C

(* ir_cron_need_sync_stock, ir_cron_shopify_update_stock_item: of all      *)
(* locations.  The wizard: of its source_location_ids, or of the children  *)
(* of the warehouse it is given.                                           *)
StartExport(x) ==
    /\ x \notin Busy
    /\ \E k \in {"flagged", "all"}, C \in SUBSET Locations :
          /\ k = "flagged" => needSync /\ C = Locations
          /\ exporting' = [exporting EXCEPT ![x] = k]
          /\ toVisit' = [toVisit EXCEPT ![x] = ToVisit(C)]
          /\ muddled' = (Busy # {} \/ Splits(C) \/ (muddled /\ ToVisit(C) # Feeds))
    /\ snapshot' = [snapshot EXCEPT ![x] = free]
    /\ UNCHANGED <<free, needSync, level, touched, zeroed>>

(* A call that should make the level of w be n: it does, or it fails or is *)
(* not answered, and then may have been executed or not.                   *)
Call(w, n, answered) ==
    /\ n <= MaxLevel
    /\ \/ level' = [level EXCEPT ![w] = n]
       \/ ~answered /\ UNCHANGED level
    /\ muddled' = (muddled \/ ~answered)

(* Mutant of Reset: the quantity is not set to 0.                          *)
ResetNothing(w) == level[w]

(* _shopify_update_qty with quantity 0.                                    *)
Reset(w) == 0

(* The first location that feeds w.  The warehouse is noted before the     *)
(* call; if the call raises, the location is not exported.                 *)
SetToZero(x, l, w) ==
    /\ <<l, w>> \in toVisit[x] /\ w \notin zeroed[x]
    /\ zeroed' = [zeroed EXCEPT ![x] = @ \cup {w}]
    /\ \E answered, raised \in BOOLEAN :
          /\ raised => ~answered
          /\ Call(w, Reset(w), answered)
          /\ toVisit' = IF raised THEN [toVisit EXCEPT ![x] = @ \ {<<l, w>>}] ELSE toVisit
    /\ UNCHANGED <<free, needSync, exporting, snapshot, touched>>

(* _shopify_adjust_qty, if anything is free.                               *)
Adjust(x, l, w) ==
    /\ <<l, w>> \in toVisit[x] /\ w \in zeroed[x]
    /\ toVisit' = [toVisit EXCEPT ![x] = @ \ {<<l, w>>}]
    /\ IF snapshot[x][l] > 0
       THEN \E answered \in BOOLEAN : Call(w, level[w] + snapshot[x][l], answered)
       ELSE UNCHANGED <<level, muddled>>
    /\ UNCHANGED <<free, needSync, exporting, snapshot, touched, zeroed>>

Leave(x) ==
    /\ exporting' = [exporting EXCEPT ![x] = "no"]
    /\ snapshot' = [snapshot EXCEPT ![x] = Empty]
    /\ zeroed' = [zeroed EXCEPT ![x] = {}]
    /\ toVisit' = [toVisit EXCEPT ![x] = {}]

(* The end of an export and its commit.  The cron writes the flag, which   *)
(* is an error if the product row was updated since its snapshot.          *)
EndExport(x) ==
    /\ x \in Busy /\ toVisit[x] = {}
    /\ exporting[x] = "flagged" => ~touched[x]
    /\ needSync' = IF exporting[x] = "flagged" THEN FALSE ELSE needSync
    /\ touched' = [y \in Exporters |->
                     y # x /\ (touched[y] \/ (exporting[x] = "flagged" /\ y \in Busy))]
    /\ Leave(x)
    /\ UNCHANGED <<free, level, muddled>>

(* The worker dies, or the commit is a conflict.                           *)
BreakOff(x) ==
    /\ x \in Busy
    /\ muddled' = TRUE
    /\ touched' = [touched EXCEPT ![x] = FALSE]
    /\ Leave(x)
    /\ UNCHANGED <<free, needSync, level>>

-----------------------------------------------------------------------------
(* The stock changes.                                                      *)

(* Mutant of Flagged: the move does not set the flag.                      *)
FlaggedNever == needSync

(* stock.move write: a move that is done flags the product.                *)
Flagged == TRUE

(* The write updates the product row even if the flag is set already: an   *)
(* export that is under way cannot clear it then.                          *)
Move(l, q) ==
    /\ q \in Quantities \ {free[l]}
    /\ free' = [free EXCEPT ![l] = q]
    /\ needSync' = Flagged
    /\ touched' = [x \in Exporters |-> touched[x] \/ x \in Busy]
    /\ UNCHANGED <<level, exporting, snapshot, zeroed, toVisit, muddled>>

(* A reservation changes what is free, and no move is done.                *)
Reserve(l) ==
    /\ free[l] - 1 \in Quantities
    /\ free' = [free EXCEPT ![l] = @ - 1]
    /\ muddled' = TRUE
    /\ UNCHANGED <<needSync, level, exporting, snapshot, touched, zeroed, toVisit>>

StockNext ==
    \/ \E x \in Exporters :
          \/ StartExport(x) \/ EndExport(x) \/ BreakOff(x)
          \/ \E l \in Locations, w \in Warehouses : SetToZero(x, l, w) \/ Adjust(x, l, w)
    \/ \E l \in Locations : Reserve(l) \/ \E q \in Quantities : Move(l, q)

StockSpec == StockInit /\ [][StockNext]_stockvars

-----------------------------------------------------------------------------
(* Properties.                                                             *)

Sum(f, S) == SumFunctionOnSet([l \in Locations |-> IF f[l] > 0 THEN f[l] ELSE 0], S)

Feeding(w) == {l \in Locations : <<l, w>> \in Feeds}

(* When no export is under way, the flag is clear and nothing came between *)
(* (see muddled), Shopify shows for each warehouse what is free at all the *)
(* locations that feed it, also after the wizard went to the locations of  *)
(* some warehouses only.                                                   *)
StockExported ==
    Busy = {} /\ ~needSync /\ ~muddled =>
        \A w \in Warehouses : level[w] = Sum(free, Feeding(w))
=============================================================================
