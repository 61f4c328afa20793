---------------------------- MODULE MCBackOffice ----------------------------
(***************************************************************************)
(* QuickBooks and the three parts of the audit log share no state: a       *)
(* behaviour of this model is one of one of them, while the others stay    *)
(* where they begin.  Kinds of QuickBooks that do not depend on each other *)
(* are looked at apart.                                                    *)
(***************************************************************************)
EXTENDS QuickBooksSync, AuditlogRules, AuditlogTrail, AuditlogLines, TLC

VARIABLE system     \* the part that runs

MCWorlds == {{"partner"}, {"account"}, {"department"}, {"employee"}, {"agency", "method"},
             {"tax"}, {"category"}, {"product"}, {"journal"}, {"purchase"}, {"term"},
             {"refund"}, {"order"}, {"invoice", "payment"}, {"bill"}, {"billpay"}}

(* The products of the three lines of an order are three, or the last one  *)
(* is that of a line before it.                                            *)
MCShapes == {{1, 2, 3}, {1, 2}}

(* The workers and requests of all parts are the same model values.        *)
Symmetry == Permutations(QbWorkers)

mcvars == <<qbvars, rulevars, trailvars, linesvars, system>>

MCInit ==
    /\ QbInit /\ RuleInit /\ TrailInit /\ LinesInit
    /\ system \in {"qb", "rules", "trail", "lines"}
    /\ system # "qb" => world = {"partner"}
    /\ system # "lines" => capture

StillQb    == UNCHANGED <<rulevars, trailvars, linesvars, system>>
StillRules == UNCHANGED <<qbvars, trailvars, linesvars, system>>
StillTrail == UNCHANGED <<qbvars, rulevars, linesvars, system>>
StillLines == UNCHANGED <<qbvars, rulevars, trailvars, system>>

MCNext ==
    \/ \E w \in QbWorkers :
          \/ \E k \in QbKinds : system = "qb" /\ QbBegin(w, k) /\ StillQb
          \/ system = "qb" /\ ImportPartners(w) /\ StillQb
          \/ system = "qb" /\ ImportAccounts(w) /\ StillQb
          \/ system = "qb" /\ ImportDepartments(w) /\ StillQb
          \/ system = "qb" /\ ImportEmployees(w) /\ StillQb
          \/ system = "qb" /\ ImportAgencies(w) /\ StillQb
          \/ system = "qb" /\ ImportMethods(w) /\ StillQb
          \/ system = "qb" /\ ImportPurchases(w) /\ StillQb
          \/ system = "qb" /\ ImportTerms(w) /\ StillQb
          \/ system = "qb" /\ ImportRefunds(w) /\ StillQb
          \/ system = "qb" /\ ImportProduct(w) /\ StillQb
          \/ system = "qb" /\ ImportTax(w) /\ StillQb
          \/ system = "qb" /\ ImportCategory(w) /\ StillQb
          \/ system = "qb" /\ EndItems(w) /\ StillQb
          \/ system = "qb" /\ ImportInventory(w) /\ StillQb
          \/ system = "qb" /\ ImportJournal(w) /\ StillQb
          \/ system = "qb" /\ OrderHeader(w) /\ StillQb
          \/ system = "qb" /\ OrderLine(w) /\ StillQb
          \/ system = "qb" /\ OrderAgain(w) /\ StillQb
          \/ system = "qb" /\ EndSteps(w) /\ StillQb
          \/ system = "qb" /\ ImportPayments(w) /\ StillQb
          \/ system = "qb" /\ ImportInvoices(w) /\ StillQb
          \/ system = "qb" /\ PostQb(w) /\ StillQb
          \/ system = "qb" /\ StoreQb(w) /\ StillQb
          \/ system = "qb" /\ StoreEmployee(w) /\ StillQb
          \/ system = "qb" /\ StoreDepartment(w) /\ StillQb
          \/ system = "qb" /\ StoreTerm(w) /\ StillQb
          \/ system = "qb" /\ StoreAccount(w) /\ StillQb
          \/ system = "qb" /\ StoreAgency(w) /\ StillQb
          \/ system = "qb" /\ StoreMethod(w) /\ StillQb
          \/ system = "qb" /\ StoreTax(w) /\ StillQb
          \/ system = "qb" /\ QbLose(w) /\ StillQb
          \/ \E d \in Docs :
                \/ system = "qb" /\ ExportQb(w, d) /\ StillQb
                \/ system = "qb" /\ UpdateAccount(w, d) /\ StillQb
    \/ \E k \in QbKinds : system = "qb" /\ MakeQb(k) /\ StillQb
    \/ \E w \in AuditWorkers :
          \/ system = "rules" /\ CreateRule(w) /\ StillRules
          \/ system = "rules" /\ Subscribe(w) /\ StillRules
          \/ system = "rules" /\ Unsubscribe(w) /\ StillRules
          \/ system = "rules" /\ EditRule(w) /\ StillRules
          \/ system = "rules" /\ DeleteRule(w) /\ StillRules
          \/ system = "rules" /\ CommitRule(w) /\ StillRules
          \/ system = "rules" /\ LoseRule(w) /\ StillRules
          \/ system = "rules" /\ Reload(w) /\ StillRules
    \/ \E h \in HttpRequests :
          \/ system = "trail" /\ BeginAttempt(h) /\ StillTrail
          \/ system = "trail" /\ Log(h) /\ StillTrail
          \/ system = "trail" /\ CommitLogs(h) /\ StillTrail
          \/ system = "trail" /\ AttemptFails(h) /\ StillTrail
    \/ system = "trail" /\ Vacuum /\ StillTrail
    \/ \E log_type \in {"full", "fast"} :
          \/ \E vals \in Vals :
                \/ system = "lines" /\ CreateRecord(log_type, vals) /\ StillLines
                \/ system = "lines" /\ WriteRecord(log_type, vals) /\ StillLines
          \/ system = "lines" /\ UnlinkRecord(log_type) /\ StillLines


MCSpec == MCInit /\ [][MCNext]_mcvars

=============================================================================
