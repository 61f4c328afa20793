---------------------------- MODULE MCShopifyFeed ----------------------------
(* ShopifyFeed for TLC: at most MaxRequests webhooks and buttons, and at   *)
(* most MaxFaults of the steps of Faults; the workers of Fetchers run the  *)
(* wizard.                                                                 *)
EXTENDS ShopifyFeed, TLC

CONSTANTS Fetchers, MaxRequests, MaxFaults

VARIABLES requests, faults

mcvars == <<vars, requests, faults>>

MCInit == Init /\ requests = 0 /\ faults = 0

MCNext ==
    \/ (Advance \/ (\E p \in Fetchers : Fetch(p)) \/ \E p \in Procs : Work(p)) /\ UNCHANGED <<requests, faults>>
    \/ requests < MaxRequests /\ Requested /\ requests' = requests + 1 /\ UNCHANGED faults
    \/ faults < MaxFaults /\ Faults /\ faults' = faults + 1 /\ UNCHANGED requests

MCSpec == MCInit /\ [][MCNext]_mcvars

MCFairSpec == MCSpec /\ Fairness

(* A fetch that comes after the last fault and is left alone makes a sale  *)
(* order of a confirmed order, although a webhook that came before the     *)
(* confirmation has left a feed with the older payload, processed.         *)
Imported ==
    \A p \in Fetchers :
        (Fetched(p) /\ Confirmed(msg[p]) /\ faults = MaxFaults)
            ~> (Placed(order) # {} \/ Disturbed(p))

(* Such a fetch brings the cancellation to an order that is in Odoo        *)
(* already, whatever a webhook has left of it; unless there are two sale   *)
(* orders: only the later one is found then.                               *)
CancelArrives ==
    \A p \in Fetchers :
        (Fetched(p) /\ Cancelled(msg[p]) /\ Placed(order) # {} /\ faults = MaxFaults)
            ~> (\/ \E o \in Orders : order[o] = "cancel"
                \/ Cardinality(Placed(order)) > 1
                \/ Disturbed(p))

Symmetric == Permutations(Procs)
=============================================================================
