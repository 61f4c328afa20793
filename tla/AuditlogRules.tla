---------------------------- MODULE AuditlogRules ----------------------------
(***************************************************************************)
(* The rule that audits one model (auditlog/models/rule.py).  The rule is  *)
(* a row; what it does is memory: a worker that subscribes the rule        *)
(* patches the methods of the model in its own registry, before the        *)
(* transaction ends and whether or not it commits.  The patch holds the    *)
(* rule's settings (log_type, users_to_exclude_ids) as they were then.     *)
(*                                                                         *)
(* Other workers learn of a rule when they build their registry (Reload).  *)
(* Nothing is assumed of when that happens: signal_changes is called       *)
(* before the commit, and signals only what marks the registry invalid.    *)
(***************************************************************************)
EXTENDS Naturals, FiniteSets

CONSTANTS
    Methods,        \* a part of create, read, write, unlink
    Settings,       \* what a patch captures
    AuditWorkers

VARIABLES
    rule,       \* the committed row, or NoRule
    change,     \* per worker: the row its transaction will commit, or Idle
    overtaken,  \* workers with a transaction older than the committed row
    patched,    \* per worker and method: the settings of the patch, or Off
    follows     \* observation: workers whose memory should agree with the row

rulevars == <<rule, change, overtaken, patched, follows>>

NoRule == [state |-> "none", logs |-> {}, setting |-> CHOOSE s \in Settings : TRUE]
Rules  == [state : {"draft", "subscribed"}, logs : SUBSET Methods, setting : Settings]
Idle   == [state |-> "idle"]
Off    == "off"

Unpatched == [m \in Methods |-> Off]

(* _register_hook: a method that is patched keeps its patch.               *)
PatchMethods(memory, row) ==
    [m \in Methods |->
        IF row.state = "subscribed" /\ m \in row.logs /\ memory[m] = Off
        THEN row.setting ELSE memory[m]]

(* _revert_methods: the methods the rule names now.                        *)
RevertMethods(memory, row) ==
    [m \in Methods |-> IF m \in row.logs THEN Off ELSE memory[m]]

(* What the worker runs once the registry agrees with the row.             *)
Expected(row) == PatchMethods(Unpatched, row)

RuleInit ==
    /\ rule = NoRule
    /\ change = [w \in AuditWorkers |-> Idle]
    /\ overtaken = {}
    /\ patched = [w \in AuditWorkers |-> Unpatched]
    /\ follows = AuditWorkers

-----------------------------------------------------------------------------
(* Requests: the row changes in the transaction, the memory at once.       *)

Execute(w, row, memory) ==
    /\ change[w] = Idle
    /\ change' = [change EXCEPT ![w] = row]
    /\ patched' = [patched EXCEPT ![w] = memory]
    /\ UNCHANGED <<rule, overtaken>>

CreateRule(w) ==
    /\ rule = NoRule
    /\ \E row \in Rules : Execute(w, row, PatchMethods(patched[w], row))
    /\ UNCHANGED follows

Subscribe(w) ==
    /\ rule.state = "draft"
    /\ LET row == [rule EXCEPT !.state = "subscribed"]
       IN  Execute(w, row, PatchMethods(patched[w], row))
    /\ UNCHANGED follows

Unsubscribe(w) ==
    /\ rule.state = "subscribed"
    /\ Execute(w, [rule EXCEPT !.state = "draft"], RevertMethods(patched[w], rule))
    /\ UNCHANGED follows

(* write.  The form keeps the fields of a subscribed rule readonly, the    *)
(* method does not: only missing patches are added.                        *)
EditRule(w) ==
    /\ rule # NoRule
    /\ \E row \in Rules :
          /\ row.state = rule.state /\ row # rule
          /\ Execute(w, row, PatchMethods(patched[w], row))
    /\ follows' = IF rule.state = "subscribed" THEN follows \ {w} ELSE follows

(* Mutant of DeleteRule: unlink does not unsubscribe.                      *)
DeleteSubscribed(w) ==
    /\ rule # NoRule
    /\ Execute(w, NoRule, patched[w])
    /\ UNCHANGED follows

DeleteRule(w) ==
    /\ rule # NoRule
    /\ Execute(w, NoRule, RevertMethods(patched[w], rule))
    /\ UNCHANGED follows

(* The row was not written since the snapshot, and there is one rule per   *)
(* model (model_uniq).                                                     *)
CommitRule(w) ==
    /\ change[w] # Idle /\ w \notin overtaken
    /\ rule' = change[w]
    /\ change' = [change EXCEPT ![w] = Idle]
    /\ overtaken' = {v \in AuditWorkers \ {w} : change[v] # Idle}
    /\ follows' = follows \cap {w}
    /\ UNCHANGED patched

(* The transaction is rolled back, the memory is not.                      *)
LoseRule(w) ==
    /\ change[w] # Idle
    /\ change' = [change EXCEPT ![w] = Idle]
    /\ overtaken' = overtaken \ {w}
    /\ follows' = IF patched[w] = Expected(rule) THEN follows ELSE follows \ {w}
    /\ UNCHANGED <<rule, patched>>

(* _register_hook of a new registry.                                       *)
Reload(w) ==
    /\ change[w] = Idle
    /\ patched' = [patched EXCEPT ![w] = Expected(rule)]
    /\ follows' = follows \cup {w}
    /\ UNCHANGED <<rule, change, overtaken>>

RuleNext == \E w \in AuditWorkers :
    \/ CreateRule(w) \/ Subscribe(w) \/ Unsubscribe(w)
    \/ EditRule(w) \/ DeleteRule(w)
    \/ CommitRule(w) \/ LoseRule(w) \/ Reload(w)

RuleSpec == RuleInit /\ [][RuleNext]_rulevars

-----------------------------------------------------------------------------
(* A worker that loaded its registry or changed the rule after everybody   *)
(* else audits exactly the methods the committed rule names, with the      *)
(* settings it has, through any sequence of its own subscriptions, edits   *)
(* of a draft, cancellations and deletions - unless it edited the rule     *)
(* while it was subscribed.                                                *)
AuditPatched ==
    \A w \in follows : change[w] = Idle => patched[w] = Expected(rule)

=============================================================================
