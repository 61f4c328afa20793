---------------------------- MODULE MCConnectors ----------------------------
(***************************************************************************)
(* The connectors to 3PL Central, to the stock and to the products of      *)
(* Shopify, to ResolvePay and to Lightspeed share no state, nor do they    *)
(* with jobs that have an identity key: a behaviour of this model is one   *)
(* of one of them, while the others stay where they begin.                 *)
(***************************************************************************)
EXTENDS ThirdPartyLogistics, StockSync, ResolvePay, LightspeedSales,
        JobKeys, ShopifyCatalog, TLC

CONSTANTS w1, w2, s1, s2

VARIABLE system     \* the one that runs

MCFeeds == {<<"a", "x">>, <<"b", "x">>}
MCGross == <<1, 1>>

(* The workers of all components are the same model values.                *)
Symmetry == Permutations(TplWorkers)

mcvars == <<tplvars, stockvars, rpvars, lsvars, keyvars, catalogvars, system>>

MCInit ==
    /\ TplInit /\ StockInit /\ RpInit /\ LsInit /\ KeyInit /\ CatalogInit
    /\ system \in {"3pl", "stock", "pay", "shop", "keys", "catalog"}
    /\ system # "3pl" => receipt
    /\ system # "pay" => \A p \in Payouts : payoutOf[p] = 0
    /\ system # "shop" => deposit
    /\ system # "catalog" => goods = {}

Still3pl   == UNCHANGED <<stockvars, rpvars, lsvars, keyvars, catalogvars, system>>
StillStock == UNCHANGED <<tplvars, rpvars, lsvars, keyvars, catalogvars, system>>
StillPay   == UNCHANGED <<tplvars, stockvars, lsvars, keyvars, catalogvars, system>>
StillShop  == UNCHANGED <<tplvars, stockvars, rpvars, keyvars, catalogvars, system>>
StillKeys  == UNCHANGED <<tplvars, stockvars, rpvars, lsvars, catalogvars, system>>
StillCatalog ==
    UNCHANGED <<tplvars, stockvars, rpvars, lsvars, keyvars, system>>

MCNext ==
    \/ \E w \in TplWorkers :
          \/ system = "3pl" /\ Cron(w) /\ Still3pl
          \/ system = "3pl" /\ Commit3pl(w) /\ Still3pl
          \/ system = "3pl" /\ Lose3pl(w) /\ Still3pl
          \/ \E i \in Transfers :
                \/ system = "3pl" /\ Push(w, i) /\ Still3pl
                \/ system = "3pl" /\ UpdateButton(w, i) /\ Still3pl
                \/ system = "3pl" /\ CronUpdate(w, i) /\ Still3pl
    \/ \E i \in Transfers : system = "3pl" /\ Recompute(i) /\ Still3pl
    \/ \E i \in Transfers, q \in 1..Ordered : system = "3pl" /\ EnterDone(i, q) /\ Still3pl
    \/ \E r \in Remotes : system = "3pl" /\ Ship(r) /\ Still3pl
    \/ \E x \in Exporters :
          \/ system = "stock" /\ StartExport(x) /\ StillStock
          \/ system = "stock" /\ EndExport(x) /\ StillStock
          \/ system = "stock" /\ BreakOff(x) /\ StillStock
          \/ \E l \in Locations, w \in Warehouses :
                \/ system = "stock" /\ SetToZero(x, l, w) /\ StillStock
                \/ system = "stock" /\ Adjust(x, l, w) /\ StillStock
    \/ \E l \in Locations : system = "stock" /\ Reserve(l) /\ StillStock
    \/ \E l \in Locations, q \in Quantities : system = "stock" /\ Move(l, q) /\ StillStock
    \/ \E w \in RpWorkers :
          \/ system = "pay" /\ FetchStart(w) /\ StillPay
          \/ system = "pay" /\ Daily(w) /\ StillPay
          \/ system = "pay" /\ CommitRp(w) /\ StillPay
          \/ system = "pay" /\ LoseRp(w) /\ StillPay
          \/ \E i \in Invoices :
                \/ system = "pay" /\ Export(w, i) /\ StillPay
                \/ system = "pay" /\ PostInvoice(w, i) /\ StillPay
                \/ system = "pay" /\ FetchInvoice(w, i) /\ StillPay
          \/ \E p \in Payouts : system = "pay" /\ DailyTransaction(w, p) /\ StillPay
    \/ \E p \in Payouts : system = "pay" /\ Arrive(p) /\ StillPay
    \/ \E i \in Invoices : system = "pay" /\ PayByHand(i) /\ StillPay
    \/ \E w \in LsWorkers :
          \/ system = "shop" /\ FetchSales(w) /\ StillShop
          \/ system = "shop" /\ CommitLs(w) /\ StillShop
          \/ system = "shop" /\ LoseLs(w) /\ StillShop
          \/ \E s \in LsSales : system = "shop" /\ EvaluateButton(w, s) /\ StillShop
    \/ system = "shop" /\ TakePayment /\ StillShop
    \/ system = "shop" /\ ConfirmByHand /\ StillShop
    \/ \E s \in LsSales : system = "shop" /\ Complete(s) /\ StillShop
    \/ \E s \in Senders :
          \/ system = "keys" /\ Send(s) /\ StillKeys
          \/ system = "keys" /\ CommitSend(s) /\ StillKeys
          \/ system = "keys" /\ LoseSend(s) /\ StillKeys
    \/ \E j \in KeyJobs :
          \/ system = "keys" /\ Dispatched(j) /\ StillKeys
          \/ system = "keys" /\ TimedOut(j) /\ StillKeys
          \/ system = "keys" /\ RequeueJob(j) /\ StillKeys
          \/ system = "keys" /\ SetDoneJob(j) /\ StillKeys
    \/ \E w \in Workers :
          \/ system = "keys" /\ Look(w) /\ StillKeys
          \/ system = "keys" /\ Succeed(w) /\ StillKeys
          \/ system = "keys" /\ Postpone(w) /\ StillKeys
          \/ system = "keys" /\ RaiseRetryable(w) /\ StillKeys
          \/ system = "keys" /\ CommitLeft(w) /\ StillKeys
          \/ system = "keys" /\ FailJob(w) /\ StillKeys
          \/ system = "keys" /\ Die(w) /\ StillKeys
          \/ \E j \in KeyJobs : system = "keys" /\ Take(w, j) /\ StillKeys
    \/ \E k \in Keepers :
          \/ \E what \in {"create", "update", "delete"}, of \in Parts \cup {Template},
                S \in SUBSET Shops :
                   system = "catalog" /\ BeginExport(k, what, of, S) /\ StillCatalog
          \/ system = "catalog" /\ CommitExport(k) /\ StillCatalog
          \/ system = "catalog" /\ EndImport(k) /\ StillCatalog
          \/ system = "catalog" /\ LoseCatalog(k) /\ StillCatalog
          \/ \E s \in Shops :
                \/ system = "catalog" /\ CreateProduct(k, s) /\ StillCatalog
                \/ system = "catalog" /\ AddVariant(k, s) /\ StillCatalog
                \/ system = "catalog" /\ UpdateProduct(k, s) /\ StillCatalog
                \/ system = "catalog" /\ DeleteProduct(k, s) /\ StillCatalog
                \/ system = "catalog" /\ DeleteVariant(k, s) /\ StillCatalog
                \/ system = "catalog" /\ PassBy(k, s) /\ StillCatalog
                \/ \E how \in {"single", "multi", "map"} :
                       system = "catalog" /\ FetchCatalog(k, s, how) /\ StillCatalog

MCSpec == MCInit /\ [][MCNext]_mcvars

=============================================================================
