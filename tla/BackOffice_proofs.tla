--------------------------- MODULE BackOffice_proofs --------------------------
(***************************************************************************)
(* Theorems about the back office.  The audit log: its rules and patches,  *)
(* for any number of workers; its trail, for any number of requests; and   *)
(* the lines of its logs, for any fields and values.  QuickBooks: what is  *)
(* posted there is posted as RemoteExport promises, and what it has is     *)
(* imported once, for any documents, workers and kinds of objects.         *)
(***************************************************************************)
EXTENDS QuickBooksSync, AuditlogRules, AuditlogTrail, AuditlogLines, FiniteSetTheorems,
        WellFoundedInduction, TLAPS

-----------------------------------------------------------------------------
(* The audit log: patches.                                                 *)

Memories == [Methods -> Settings \cup {Off}]
Changes  == Rules \cup {NoRule}

RuleTypeOK ==
    /\ rule \in Changes
    /\ change \in [AuditWorkers -> Changes \cup {Idle}]
    /\ overtaken \subseteq AuditWorkers /\ follows \subseteq AuditWorkers
    /\ patched \in [AuditWorkers -> [Methods -> Settings \cup {Off}]]

(* A worker that follows runs what its own transaction is about to commit, *)
(* and nobody has changed the row since that transaction began.            *)
FollowInv ==
    \A w \in AuditWorkers :
        /\ w \in overtaken => change[w] # Idle /\ w \notin follows
        /\ w \in follows /\ change[w] = Idle => patched[w] = Expected(rule)
        /\ w \in follows /\ change[w] # Idle => patched[w] = Expected(change[w])

RuleInv == RuleTypeOK /\ FollowInv

LEMMA RowKinds ==
    /\ \A row \in Changes : row # Idle /\ row.state # "idle" /\ row.logs \in SUBSET Methods
    /\ NoRule.state = "none" /\ NoRule \in Changes /\ NoRule.logs = {}
    /\ \A row \in Rules : row.state \in {"draft", "subscribed"} /\ row.setting \in Settings
  <1>1. \A row \in Rules : /\ row.state \in {"draft", "subscribed"} /\ row.setting \in Settings
                           /\ row.logs \in SUBSET Methods
    BY DEF Rules
  <1>2. NoRule.state = "none" /\ NoRule.logs = {} /\ NoRule \in Changes
    BY DEF NoRule, Changes
  <1>3. \A row \in Changes : row.state # "idle" /\ row.logs \in SUBSET Methods
    BY <1>1, <1>2 DEF Changes
  <1>4. Idle.state = "idle"
    BY DEF Idle
  <1> QED
    BY <1>1, <1>2, <1>3, <1>4

LEMMA MemoryTyped ==
    ASSUME NEW memory \in Memories, NEW row \in Changes
    PROVE  /\ PatchMethods(memory, row) \in Memories /\ RevertMethods(memory, row) \in Memories
           /\ Expected(row) \in Memories
  <1>1. row.state = "subscribed" => row.setting \in Settings
    BY RowKinds DEF Changes
  <1>2. Unpatched \in Memories
    BY DEF Unpatched, Memories
  <1> QED
    BY <1>1, <1>2 DEF PatchMethods, RevertMethods, Expected, Memories

(* From the patches of a row to those of the next one.                     *)
LEMMA NextPatches ==
    ASSUME NEW row \in Changes
    PROVE  /\ row.state # "subscribed" => Expected(row) = Unpatched
           /\ RevertMethods(Expected(row), row) = Unpatched
           /\ \A next \in Changes : PatchMethods(Unpatched, next) = Expected(next)
           /\ row.state # "subscribed" => PatchMethods(Unpatched, row) = Unpatched
  <1>1. row.state # "subscribed" => Expected(row) = Unpatched
    BY DEF Expected, PatchMethods, Unpatched
  <1>2. RevertMethods(Expected(row), row) = Unpatched
    BY DEF Expected, PatchMethods, RevertMethods, Unpatched
  <1> QED
    BY <1>1, <1>2 DEF Expected

LEMMA RuleInitInv == RuleInit => RuleInv
  <1> SUFFICES ASSUME RuleInit PROVE RuleInv
    OBVIOUS
  <1>1. RuleTypeOK
    BY RowKinds DEF RuleInit, RuleTypeOK, Unpatched
  <1>2. FollowInv
    BY RowKinds, NextPatches DEF RuleInit, FollowInv
  <1> QED
    BY <1>1, <1>2 DEF RuleInv

(* A request changes its transaction's row and the worker's memory.        *)
LEMMA RequestKeeps ==
    ASSUME RuleInv, NEW w \in AuditWorkers, NEW row \in Changes, NEW memory \in Memories,
           Execute(w, row, memory), follows' \subseteq follows,
           w \in follows' /\ patched[w] = Expected(rule) => memory = Expected(row)
    PROVE  RuleInv'
  <1>1. /\ change[w] = Idle /\ rule' = rule /\ overtaken' = overtaken
        /\ change' = [change EXCEPT ![w] = row] /\ patched' = [patched EXCEPT ![w] = memory]
    BY DEF Execute
  <1>2. RuleTypeOK'
    BY <1>1 DEF RuleInv, RuleTypeOK, Memories
  <1>3. FollowInv'
    BY <1>1, RowKinds DEF RuleInv, RuleTypeOK, FollowInv
  <1> QED
    BY <1>2, <1>3 DEF RuleInv

LEMMA RuleNextInv == RuleInv /\ [RuleNext]_rulevars => RuleInv'
  <1> SUFFICES ASSUME RuleInv, [RuleNext]_rulevars PROVE RuleInv'
    OBVIOUS
  <1>0. rule \in Changes /\ \A w \in AuditWorkers : patched[w] \in Memories
    BY DEF RuleInv, RuleTypeOK, Memories
  <1>1. CASE UNCHANGED rulevars
    BY <1>1 DEF rulevars, RuleInv, RuleTypeOK, FollowInv
  <1>2. ASSUME NEW w \in AuditWorkers, CreateRule(w) PROVE RuleInv'
    <2>1. PICK row \in Rules : Execute(w, row, PatchMethods(patched[w], row))
      BY <1>2 DEF CreateRule
    <2>2. row \in Changes /\ follows' = follows /\ Expected(rule) = Unpatched
      BY <1>0, <1>2, NextPatches, RowKinds DEF CreateRule, Changes
    <2>3. PatchMethods(patched[w], row) \in Memories
      BY <1>0, <2>2, MemoryTyped
    <2>4. PatchMethods(Unpatched, row) = Expected(row)
      BY <2>2, NextPatches
    <2> QED
      BY <2>1, <2>2, <2>3, <2>4, RequestKeeps
  <1>3. ASSUME NEW w \in AuditWorkers, Subscribe(w) PROVE RuleInv'
    <2> DEFINE row == [rule EXCEPT !.state = "subscribed"]
    <2>1. Execute(w, row, PatchMethods(patched[w], row)) /\ rule.state = "draft"
      BY <1>3 DEF Subscribe
    <2>2. row \in Changes
      BY <1>0, <2>1, RowKinds DEF Changes, Rules
    <2> HIDE DEF row
    <2>3. PatchMethods(patched[w], row) \in Memories
      BY <1>0, <2>2, MemoryTyped
    <2>4. PatchMethods(Unpatched, row) = Expected(row) /\ Expected(rule) = Unpatched
      BY <1>0, <2>1, <2>2, NextPatches
    <2> QED
      BY <1>3, <2>1, <2>2, <2>3, <2>4, RequestKeeps DEF Subscribe
  <1>4. ASSUME NEW w \in AuditWorkers, Unsubscribe(w) PROVE RuleInv'
    <2> DEFINE row == [rule EXCEPT !.state = "draft"]
    <2>1. Execute(w, row, RevertMethods(patched[w], rule)) /\ rule.state = "subscribed"
      BY <1>4 DEF Unsubscribe
    <2>2. row \in Changes /\ row.state = "draft"
      BY <1>0, <2>1, RowKinds DEF Changes, Rules
    <2> HIDE DEF row
    <2>3. RevertMethods(patched[w], rule) \in Memories
      BY <1>0, MemoryTyped
    <2>4. RevertMethods(Expected(rule), rule) = Expected(row)
      BY <1>0, <2>2, NextPatches
    <2> QED
      BY <1>4, <2>1, <2>2, <2>3, <2>4, RequestKeeps DEF Unsubscribe
  <1>5. ASSUME NEW w \in AuditWorkers, EditRule(w) PROVE RuleInv'
    <2>1. PICK row \in Rules : /\ row.state = rule.state
                               /\ Execute(w, row, PatchMethods(patched[w], row))
      BY <1>5 DEF EditRule
    <2>2. row \in Changes
      BY DEF Changes
    <2>3. PatchMethods(patched[w], row) \in Memories
      BY <1>0, <2>2, MemoryTyped
    <2>4. /\ follows' \subseteq follows
          /\ w \in follows' => rule.state # "subscribed"
      BY <1>5 DEF EditRule
    <2>5. rule.state # "subscribed" => PatchMethods(Expected(rule), row) = Expected(row)
      BY <1>0, <2>1, <2>2, NextPatches
    <2> QED
      BY <2>1, <2>2, <2>3, <2>4, <2>5, RequestKeeps
  <1>6. ASSUME NEW w \in AuditWorkers, DeleteRule(w) PROVE RuleInv'
    <2>1. Execute(w, NoRule, RevertMethods(patched[w], rule)) /\ follows' = follows
      BY <1>6 DEF DeleteRule
    <2>2. RevertMethods(patched[w], rule) \in Memories
      BY <1>0, MemoryTyped
    <2>3. RevertMethods(Expected(rule), rule) = Expected(NoRule)
      BY <1>0, NextPatches, RowKinds
    <2> QED
      BY <2>1, <2>2, <2>3, RequestKeeps, RowKinds
  <1>7. ASSUME NEW w \in AuditWorkers, CommitRule(w) PROVE RuleInv'
    <2>1. RuleTypeOK'
      BY <1>7 DEF CommitRule, RuleInv, RuleTypeOK
    <2>2. FollowInv'
      BY <1>7, RowKinds DEF CommitRule, RuleInv, RuleTypeOK, FollowInv
    <2> QED
      BY <2>1, <2>2 DEF RuleInv
  <1>8. ASSUME NEW w \in AuditWorkers, LoseRule(w) PROVE RuleInv'
    <2>1. RuleTypeOK'
      BY <1>8 DEF LoseRule, RuleInv, RuleTypeOK
    <2>2. FollowInv'
      BY <1>8 DEF LoseRule, RuleInv, RuleTypeOK, FollowInv
    <2> QED
      BY <2>1, <2>2 DEF RuleInv
  <1>9. ASSUME NEW w \in AuditWorkers, Reload(w) PROVE RuleInv'
    <2>1. Expected(rule) \in Memories
      <3>1. Unpatched \in Memories
        BY DEF Unpatched, Memories
      <3> QED
        BY <1>0, <3>1, MemoryTyped
    <2>2. RuleTypeOK'
      BY <1>9, <2>1 DEF Reload, RuleInv, RuleTypeOK, Memories
    <2>3. FollowInv'
      BY <1>9 DEF Reload, RuleInv, RuleTypeOK, FollowInv
    <2> QED
      BY <2>2, <2>3 DEF RuleInv
  <1> QED
    BY <1>1, <1>2, <1>3, <1>4, <1>5, <1>6, <1>7, <1>8, <1>9 DEF RuleNext

(* A worker that follows the rule audits what the committed rule says.     *)
THEOREM PatchesFollowRule == RuleSpec => []AuditPatched
  <1>1. RuleInv => AuditPatched
    BY DEF RuleInv, RuleTypeOK, FollowInv, AuditPatched
  <1> QED
    BY <1>1, RuleInitInv, RuleNextInv, PTL DEF RuleSpec

-----------------------------------------------------------------------------
(* The audit log: trail.                                                   *)

IdsOf(rows) == {r.id : r \in rows}
LogRows     == [by : HttpRequests, request : Nat, session : Nat]
RequestRows == [id : Nat \ {0}, session : Nat]
Tries       == [running : BOOLEAN, sees : SUBSET (Nat \ {0}), seesRequests : SUBSET RequestRows,
                newSessions : SUBSET (Nat \ {0}), newRequests : SUBSET RequestRows,
                newLogs : SUBSET LogRows]

TrailTypeOK ==
    /\ sessions \subseteq Nat \ {0} /\ requests \subseteq RequestRows /\ logs \subseteq LogRows
    /\ serial \in [session : Nat, request : Nat]
    /\ attempt \in [HttpRequests -> Tries]
    /\ remembered \in [HttpRequests -> Nat]
    /\ together \in BOOLEAN

(* No key of a committed row refers to a row that is gone.                 *)
ForeignKeys ==
    /\ \A l \in logs : l.session = 0 \/ l.session \in sessions
    /\ \A r \in requests : r.session = 0 \/ r.session \in sessions

(* What an attempt has logged names the row it remembers, which it sees.   *)
OwnLogs ==
    \A h \in HttpRequests : \A l \in attempt[h].newLogs :
        l.by = h /\ l.request = remembered[h] /\ Known(h)

(* So does what it has committed, until the row is gone; and an attempt    *)
(* that runs has seen the row.                                             *)
OldLogs ==
    \A l \in logs : l.request # 0 =>
        /\ l.request = remembered[l.by] /\ l.request \in IdsOf(requests)
        /\ attempt[l.by].running => l.request \in IdsOf(attempt[l.by].seesRequests)

(* An attempt without a session runs alone, and makes one.                 *)
OneSession ==
    ~ together =>
        /\ \A s, t \in sessions : s = t
        /\ \A h \in Running : attempt[h].sees = {} => sessions = {} /\ Running = {h}
        /\ \A h \in HttpRequests :
              /\ attempt[h].newSessions # {} => attempt[h].sees = {} /\ attempt[h].running
              /\ \A s, t \in attempt[h].newSessions : s = t

(* An attempt that does not run has nothing.                               *)
Resting == \A h \in HttpRequests : ~ attempt[h].running => attempt[h] = NoAttempt

TrailInv == TrailTypeOK /\ ForeignKeys /\ OwnLogs /\ OldLogs /\ OneSession /\ Resting

LEMMA TrailImplies == TrailInv => AuditTrail
  <1> SUFFICES ASSUME TrailInv, NEW h \in HttpRequests
               PROVE  /\ \A l \in attempt[h].newLogs : \E r \in RequestsOf(h) : r.id = l.request
                      /\ \A l, k \in {x \in logs : x.by = h /\ x.request # 0} : l.request = k.request
                      /\ \A l \in logs, r \in requests :
                            l.request = r.id /\ l.session # 0 /\ r.session # 0 /\ ~together
                               => l.session = r.session
    BY DEF AuditTrail
  <1>1. \A l \in attempt[h].newLogs : \E r \in RequestsOf(h) : r.id = l.request
    BY DEF TrailInv, OwnLogs, Known
  <1>2. \A l, k \in {x \in logs : x.by = h /\ x.request # 0} : l.request = k.request
    BY DEF TrailInv, OldLogs
  <1>3. \A l \in logs, r \in requests :
            l.session # 0 /\ r.session # 0 /\ ~together => l.session = r.session
    BY DEF TrailInv, ForeignKeys, OneSession
  <1> QED
    BY <1>1, <1>2, <1>3

LEMMA TrailInitInv == TrailInit => TrailInv
  <1> SUFFICES ASSUME TrailInit PROVE TrailInv
    OBVIOUS
  <1>1. TrailTypeOK
    BY DEF TrailInit, TrailTypeOK, NoAttempt, Tries
  <1>2. ForeignKeys /\ OldLogs /\ Resting
    BY DEF TrailInit, ForeignKeys, OldLogs, Resting
  <1>3. OwnLogs /\ OneSession
    BY DEF TrailInit, OwnLogs, OneSession, NoAttempt, Running
  <1> QED
    BY <1>1, <1>2, <1>3 DEF TrailInv

LEMMA BeginKeeps ==
    ASSUME TrailInv, NEW h \in HttpRequests, BeginAttempt(h)
    PROVE  TrailInv'
  <1>1. /\ ~ attempt[h].running
        /\ together' = (together \/ (Running # {} /\ sessions = {}))
        /\ UNCHANGED <<sessions, requests, logs, serial, remembered>>
        /\ attempt'[h] = Snapshot
        /\ \A g \in HttpRequests \ {h} : attempt'[g] = attempt[g]
    BY DEF BeginAttempt, TrailInv, TrailTypeOK, Tries
  <1>2. /\ Snapshot.running /\ Snapshot.sees = sessions /\ Snapshot.seesRequests = requests
        /\ Snapshot.newSessions = {} /\ Snapshot.newRequests = {} /\ Snapshot.newLogs = {}
    BY DEF Snapshot, NoAttempt
  <1>3. TrailTypeOK'
    <2>1. attempt' = [attempt EXCEPT ![h] = Snapshot] /\ together' \in BOOLEAN
      BY DEF BeginAttempt, TrailInv, TrailTypeOK, Tries
    <2>2. Snapshot \in Tries
      BY DEF Snapshot, NoAttempt, TrailInv, TrailTypeOK, Tries
    <2> QED
      BY <1>1, <2>1, <2>2 DEF TrailInv, TrailTypeOK, Tries
  <1>4. ForeignKeys' /\ Resting'
    BY <1>1, <1>2 DEF TrailInv, ForeignKeys, Resting
  <1>5. OwnLogs'
    BY <1>1, <1>2 DEF TrailInv, OwnLogs, Known, RequestsOf
  <1>6. OldLogs'
    <2> SUFFICES ASSUME NEW l \in logs, l.request # 0
                 PROVE  /\ l.request = remembered[l.by] /\ l.request \in IdsOf(requests)
                        /\ attempt'[l.by].running => l.request \in IdsOf(attempt'[l.by].seesRequests)
      BY <1>1 DEF OldLogs, IdsOf
    <2>1. l.request = remembered[l.by] /\ l.request \in IdsOf(requests) /\ l.by \in HttpRequests
      BY DEF TrailInv, OldLogs, TrailTypeOK, LogRows
    <2>2. CASE l.by = h
      BY <1>1, <1>2, <2>1, <2>2
    <2>3. CASE l.by # h
      BY <1>1, <2>1, <2>3 DEF TrailInv, OldLogs
    <2> QED
      BY <2>1, <2>2, <2>3
  <1>7. OneSession'
    <2> SUFFICES ASSUME ~ together'
                 PROVE  /\ \A s, t \in sessions : s = t
                        /\ \A g \in Running' :
                              attempt'[g].sees = {} => sessions = {} /\ Running' = {g}
                        /\ \A g \in HttpRequests :
                              /\ attempt'[g].newSessions # {} =>
                                    attempt'[g].sees = {} /\ attempt'[g].running
                              /\ \A s, t \in attempt'[g].newSessions : s = t
      BY <1>1 DEF OneSession
    <2>1. ~ together /\ (Running = {} \/ sessions # {})
      BY <1>1
    <2>2. Running' = Running \cup {h}
      BY <1>1, <1>2 DEF Running
    <2>3. \A g \in Running' : attempt'[g].sees = {} => sessions = {} /\ Running' = {g}
      <3> SUFFICES ASSUME NEW g \in Running', attempt'[g].sees = {}
                   PROVE  sessions = {} /\ Running' = {g}
        OBVIOUS
      <3>1. CASE g = h
        BY <1>1, <1>2, <2>1, <2>2, <3>1
      <3>2. CASE g # h
        <4>1. g \in Running /\ attempt[g].sees = {}
          BY <1>1, <2>2, <3>2 DEF Running
        <4> QED
          BY <2>1, <4>1 DEF TrailInv, OneSession
      <3> QED
        BY <3>1, <3>2
    <2> QED
      BY <1>1, <1>2, <2>1, <2>3 DEF TrailInv, OneSession
  <1> QED
    BY <1>3, <1>4, <1>5, <1>6, <1>7 DEF TrailInv

LEMMA FailsKeeps ==
    ASSUME TrailInv, NEW h \in HttpRequests, AttemptFails(h)
    PROVE  TrailInv'
  <1>1. /\ UNCHANGED <<sessions, requests, logs, serial, remembered, together>>
        /\ attempt'[h] = NoAttempt
        /\ \A g \in HttpRequests \ {h} : attempt'[g] = attempt[g]
    BY DEF AttemptFails, TrailInv, TrailTypeOK, Tries
  <1>2. /\ NoAttempt.running = FALSE /\ NoAttempt.newSessions = {} /\ NoAttempt.newLogs = {}
    BY DEF NoAttempt
  <1>3. TrailTypeOK'
    <2>1. attempt' = [attempt EXCEPT ![h] = NoAttempt]
      BY DEF AttemptFails
    <2> QED
      BY <1>1, <2>1 DEF TrailInv, TrailTypeOK, NoAttempt, Tries
  <1>4. ForeignKeys' /\ Resting'
    BY <1>1, <1>2 DEF TrailInv, ForeignKeys, Resting
  <1>5. OwnLogs'
    BY <1>1, <1>2 DEF TrailInv, OwnLogs, Known, RequestsOf
  <1>6. OldLogs'
    <2> SUFFICES ASSUME NEW l \in logs, l.request # 0
                 PROVE  /\ l.request = remembered[l.by] /\ l.request \in IdsOf(requests)
                        /\ attempt'[l.by].running => l.request \in IdsOf(attempt'[l.by].seesRequests)
      BY <1>1 DEF OldLogs, IdsOf
    <2>1. l.request = remembered[l.by] /\ l.request \in IdsOf(requests) /\ l.by \in HttpRequests
      BY DEF TrailInv, OldLogs, TrailTypeOK, LogRows
    <2>2. CASE l.by = h
      BY <1>1, <1>2, <2>1, <2>2
    <2>3. CASE l.by # h
      BY <1>1, <2>1, <2>3 DEF TrailInv, OldLogs
    <2> QED
      BY <2>1, <2>2, <2>3
  <1>7. OneSession'
    <2>1. Running' \subseteq Running \ {h}
      BY <1>1, <1>2 DEF Running
    <2>2. \A g \in Running' : attempt'[g] = attempt[g] /\ g \in Running
      BY <1>1, <2>1 DEF Running
    <2> QED
      BY <1>1, <1>2, <2>1, <2>2 DEF TrailInv, OneSession
  <1> QED
    BY <1>3, <1>4, <1>5, <1>6, <1>7 DEF TrailInv

(* A log, with the rows it needs.                                          *)
LEMMA LogKeeps ==
    ASSUME TrailInv, NEW h \in HttpRequests, Log(h)
    PROVE  TrailInv'
  <1>1. PICK s \in CurrentSession(h) :
          LET r == IF Known(h) THEN remembered[h] ELSE serial.request + 1
          IN  /\ s <= MaxRows /\ r <= MaxRows
              /\ attempt' = [attempt EXCEPT
                    ![h].newSessions = @ \cup ({s} \ attempt[h].sees),
                    ![h].newRequests =
                        @ \cup (IF Known(h) THEN {} ELSE {[id |-> r, session |-> s]}),
                    ![h].newLogs = @ \cup {[by |-> h, request |-> r, session |-> s]}]
              /\ remembered' = [remembered EXCEPT ![h] = r]
              /\ serial' = [session |-> IF s > serial.session THEN s ELSE serial.session,
                            request |-> IF Known(h) THEN serial.request ELSE r]
    BY DEF Log
  <1>0. /\ attempt[h] \in Tries /\ serial.session \in Nat /\ serial.request \in Nat
        /\ attempt[h].sees \subseteq Nat \ {0} /\ attempt[h].newSessions \subseteq Nat \ {0}
        /\ attempt[h].seesRequests \subseteq RequestRows
        /\ attempt[h].newRequests \subseteq RequestRows
        /\ attempt[h].newLogs \subseteq LogRows
    BY DEF TrailInv, TrailTypeOK, Tries
  <1> DEFINE r == IF Known(h) THEN remembered[h] ELSE serial.request + 1
             row == [id |-> r, session |-> s]
             mine == [by |-> h, request |-> r, session |-> s]
             rows == IF Known(h) THEN {} ELSE {row}
  <1>2. /\ attempt[h].running /\ UNCHANGED <<sessions, requests, logs, together>>
    BY DEF Log
  <1>3. /\ attempt' = [attempt EXCEPT ![h].newSessions = @ \cup ({s} \ attempt[h].sees),
                                      ![h].newRequests = @ \cup rows,
                                      ![h].newLogs = @ \cup {mine}]
        /\ remembered' = [remembered EXCEPT ![h] = r]
        /\ serial' = [session |-> IF s > serial.session THEN s ELSE serial.session,
                      request |-> IF Known(h) THEN serial.request ELSE r]
    BY <1>1
  <1>4. s \in Nat \ {0} /\ serial.session \in Nat /\ serial.request \in Nat
    <2>1. SessionsOf(h) \subseteq Nat \ {0} /\ serial.session \in Nat /\ serial.request \in Nat
      BY <1>0 DEF SessionsOf
    <2> QED
      BY <2>1 DEF CurrentSession
  <1>5. r \in Nat \ {0}
    <2>1. CASE Known(h)
      <3>1. RequestsOf(h) \subseteq RequestRows
        BY <1>0 DEF RequestsOf
      <3>2. PICK q \in RequestsOf(h) : q.id = remembered[h]
        BY <2>1 DEF Known
      <3>3. q.id \in Nat \ {0}
        BY <3>1, <3>2 DEF RequestRows
      <3> QED
        BY <2>1, <3>2, <3>3
    <2>2. CASE ~ Known(h)
      BY <1>4, <2>2
    <2> QED
      BY <2>1, <2>2
  <1>6. mine \in LogRows /\ rows \subseteq RequestRows /\ mine.by = h /\ mine.request = r
    BY <1>4, <1>5 DEF LogRows, RequestRows
  <1>7. ~ Known(h) => row \in rows /\ row.id = r
    OBVIOUS
  <1>8. Known(h) => r = remembered[h]
    OBVIOUS
  <1> HIDE DEF r, mine, rows, row
  <1>9. /\ attempt'[h].running = attempt[h].running /\ attempt'[h].sees = attempt[h].sees
        /\ attempt'[h].seesRequests = attempt[h].seesRequests
        /\ attempt'[h].newSessions = attempt[h].newSessions \cup ({s} \ attempt[h].sees)
        /\ attempt'[h].newRequests = attempt[h].newRequests \cup rows
        /\ attempt'[h].newLogs = attempt[h].newLogs \cup {mine}
        /\ \A g \in HttpRequests \ {h} : attempt'[g] = attempt[g]
    BY <1>3 DEF TrailInv, TrailTypeOK, Tries
  <1>10. TrailTypeOK'
    <2> DEFINE now == [attempt[h] EXCEPT !.newSessions = @ \cup ({s} \ attempt[h].sees),
                                         !.newRequests = @ \cup rows, !.newLogs = @ \cup {mine}]
    <2>0. now \in Tries
      BY <1>0, <1>4, <1>6 DEF Tries
    <2>a. attempt' = [attempt EXCEPT ![h] = now]
      BY <1>3 DEF TrailInv, TrailTypeOK, Tries
    <2> HIDE DEF now
    <2>1. attempt' \in [HttpRequests -> Tries]
      BY <2>0, <2>a DEF TrailInv, TrailTypeOK, Tries
    <2>2. /\ serial' \in [session : Nat, request : Nat]
          /\ remembered' \in [HttpRequests -> Nat]
      BY <1>3, <1>4, <1>5 DEF TrailInv, TrailTypeOK, Tries
    <2> QED
      BY <1>2, <2>1, <2>2 DEF TrailInv, TrailTypeOK, Tries
  <1>11. ForeignKeys'
    BY <1>2 DEF TrailInv, ForeignKeys
  <1>12. RequestsOf(h)' = RequestsOf(h) \cup rows
    BY <1>9 DEF RequestsOf
  <1>13. remembered'[h] = r /\ \A g \in HttpRequests \ {h} : remembered'[g] = remembered[g]
    BY <1>3 DEF TrailInv, TrailTypeOK, Tries
  <1>14. \E q \in RequestsOf(h)' : q.id = r
    BY <1>7, <1>8, <1>12 DEF Known
  <1>15. OwnLogs'
    <2> SUFFICES ASSUME NEW g \in HttpRequests, NEW l \in attempt'[g].newLogs
                 PROVE  l.by = g /\ l.request = remembered'[g] /\ Known(g)'
      BY DEF OwnLogs
    <2>1. CASE g = h
      <3>1. Known(h)'
        BY <1>13, <1>14 DEF Known
      <3>2. CASE l = mine
        BY <1>6, <1>13, <2>1, <3>1, <3>2
      <3>3. CASE l \in attempt[h].newLogs
        BY <1>8, <1>13, <2>1, <3>1, <3>3 DEF TrailInv, OwnLogs
      <3> QED
        BY <1>9, <2>1, <3>2, <3>3
    <2>2. CASE g # h
      BY <1>9, <1>13, <2>2 DEF TrailInv, OwnLogs, Known, RequestsOf
    <2> QED
      BY <2>1, <2>2
  <1>16. OldLogs'
    <2> SUFFICES ASSUME NEW l \in logs, l.request # 0
                 PROVE  /\ l.request = remembered'[l.by] /\ l.request \in IdsOf(requests)
                        /\ attempt'[l.by].running => l.request \in IdsOf(attempt'[l.by].seesRequests)
      BY <1>2 DEF OldLogs, IdsOf
    <2>1. /\ l.request = remembered[l.by] /\ l.request \in IdsOf(requests) /\ l.by \in HttpRequests
          /\ attempt[l.by].running => l.request \in IdsOf(attempt[l.by].seesRequests)
      BY DEF TrailInv, OldLogs, TrailTypeOK, LogRows
    <2>2. CASE l.by = h
      <3>1. l.request \in IdsOf(attempt[h].seesRequests)
        BY <1>2, <2>1, <2>2
      <3>2. Known(h)
        BY <2>1, <2>2, <3>1 DEF Known, IdsOf, RequestsOf
      <3> QED
        BY <1>8, <1>9, <1>13, <2>1, <2>2, <3>1, <3>2
    <2>3. CASE l.by # h
      BY <1>9, <1>13, <2>1, <2>3
    <2> QED
      BY <2>2, <2>3
  <1>17. OneSession'
    <2>1. Running' = Running
      BY <1>9 DEF Running
    <2>2. ~ together /\ attempt'[h].newSessions # {} => attempt[h].sees = {}
      BY <1>9 DEF TrailInv, OneSession, CurrentSession, SessionsOf
    <2>3. attempt[h].newSessions # {} => s \in SessionsOf(h)
      BY DEF CurrentSession, SessionsOf
    <2>4. ~ together => \A x, y \in attempt'[h].newSessions : x = y
      BY <1>9, <2>2, <2>3 DEF TrailInv, OneSession, SessionsOf
    <2>5. ~ together => \A g \in Running : attempt'[g].sees = {} => sessions = {} /\ Running = {g}
      BY <1>9 DEF TrailInv, OneSession, Running
    <2>6. ~ together => \A g \in HttpRequests :
              attempt'[g].newSessions # {} => attempt'[g].sees = {} /\ attempt'[g].running
      BY <1>2, <1>9, <2>2 DEF TrailInv, OneSession
    <2> QED
      BY <1>2, <1>9, <2>1, <2>4, <2>5, <2>6 DEF TrailInv, OneSession
  <1>18. Resting'
    BY <1>2, <1>9 DEF TrailInv, Resting
  <1> QED
    BY <1>10, <1>11, <1>15, <1>16, <1>17, <1>18 DEF TrailInv

(* The rows that an attempt commits refer to rows that are there.          *)
LEMMA CommitLogsKeeps ==
    ASSUME TrailInv, NEW h \in HttpRequests, CommitLogs(h)
    PROVE  TrailInv'
  <1>0. /\ attempt[h] \in Tries /\ attempt[h].newSessions \subseteq Nat \ {0}
        /\ attempt[h].newRequests \subseteq RequestRows
        /\ attempt[h].newLogs \subseteq LogRows
    BY DEF TrailInv, TrailTypeOK, Tries
  <1>1. /\ UNCHANGED <<serial, remembered, together>> /\ attempt[h].running /\ Valid(h)
        /\ sessions' = sessions \cup attempt[h].newSessions
        /\ requests' = requests \cup attempt[h].newRequests
        /\ logs' = logs \cup attempt[h].newLogs
        /\ attempt' = [attempt EXCEPT ![h] = NoAttempt]
    BY DEF CommitLogs
  <1>2. NoAttempt.running = FALSE /\ NoAttempt.newSessions = {} /\ NoAttempt.newLogs = {}
    BY DEF NoAttempt
  <1>3. attempt'[h] = NoAttempt /\ \A g \in HttpRequests \ {h} : attempt'[g] = attempt[g]
    BY <1>1 DEF TrailInv, TrailTypeOK
  <1>4. TrailTypeOK'
    <2>1. NoAttempt \in Tries
      BY DEF NoAttempt, Tries
    <2> QED
      BY <1>0, <1>1, <2>1 DEF TrailInv, TrailTypeOK
  <1>5. ForeignKeys'
    BY <1>1 DEF Valid, TrailInv, ForeignKeys
  <1>6. OwnLogs'
    BY <1>1, <1>2, <1>3 DEF TrailInv, OwnLogs, Known, RequestsOf
  <1>7. OldLogs'
    <2> SUFFICES ASSUME NEW l \in logs', l.request # 0
                 PROVE  /\ l.request = remembered[l.by] /\ l.request \in IdsOf(requests')
                        /\ attempt'[l.by].running => l.request \in IdsOf(attempt'[l.by].seesRequests)
      BY <1>1 DEF OldLogs, IdsOf
    <2>1. CASE l \in attempt[h].newLogs
      <3>1. l.by = h /\ l.request = remembered[h]
        BY <2>1 DEF TrailInv, OwnLogs
      <3>2. l.request \in IdsOf(requests')
        BY <1>1, <2>1 DEF Valid, IdsOf
      <3> QED
        BY <1>2, <1>3, <3>1, <3>2
    <2>2. CASE l \in logs
      <3>1. /\ l.request = remembered[l.by] /\ l.request \in IdsOf(requests) /\ l.by \in HttpRequests
            /\ attempt[l.by].running => l.request \in IdsOf(attempt[l.by].seesRequests)
        BY <2>2 DEF TrailInv, OldLogs, TrailTypeOK, LogRows
      <3>2. l.request \in IdsOf(requests')
        BY <1>1, <3>1 DEF IdsOf
      <3>3. CASE l.by = h
        BY <1>2, <1>3, <3>1, <3>2, <3>3
      <3>4. CASE l.by # h
        BY <1>3, <3>1, <3>2, <3>4
      <3> QED
        BY <3>3, <3>4
    <2> QED
      BY <1>1, <2>1, <2>2
  <1>8. OneSession'
    <2> SUFFICES ASSUME ~ together
                 PROVE  /\ \A s, t \in sessions' : s = t
                        /\ \A g \in Running' :
                              attempt'[g].sees = {} => sessions' = {} /\ Running' = {g}
                        /\ \A g \in HttpRequests :
                              /\ attempt'[g].newSessions # {} =>
                                    attempt'[g].sees = {} /\ attempt'[g].running
                              /\ \A s, t \in attempt'[g].newSessions : s = t
      BY <1>1 DEF OneSession
    <2>1. \A g \in Running' : g # h /\ g \in Running /\ attempt'[g] = attempt[g]
      BY <1>2, <1>3 DEF Running
    <2>2. h \in Running
      BY <1>1 DEF Running
    <2>3. \A g \in Running' : attempt'[g].sees # {}
      BY <2>1, <2>2 DEF TrailInv, OneSession
    <2>4. \A s, t \in sessions' : s = t
      <3>1. CASE attempt[h].newSessions = {}
        BY <1>1, <3>1 DEF TrailInv, OneSession
      <3>2. CASE attempt[h].newSessions # {}
        <4>1. sessions = {} /\ \A s, t \in attempt[h].newSessions : s = t
          BY <2>2, <3>2 DEF TrailInv, OneSession
        <4> QED
          BY <1>1, <4>1
      <3> QED
        BY <3>1, <3>2
    <2> QED
      BY <1>2, <1>3, <2>3, <2>4 DEF TrailInv, OneSession
  <1>9. Resting'
    BY <1>2, <1>3 DEF TrailInv, Resting
  <1> QED
    BY <1>4, <1>5, <1>6, <1>7, <1>8, <1>9 DEF TrailInv

(* What the vacuum deletes is nobody's key any more.                       *)
LEMMA VacuumKeeps ==
    ASSUME TrailInv, Vacuum
    PROVE  TrailInv'
  <1>1. /\ UNCHANGED <<serial, attempt, remembered, together>>
        /\ sessions' \subseteq sessions
    BY DEF Vacuum
  <1>2. PICK kept \in SUBSET requests, some \in BOOLEAN :
           /\ requests' = {[x EXCEPT !.session = IF @ \in sessions' THEN @ ELSE 0] : x \in kept}
           /\ logs' = IF some THEN {} ELSE
                 {[l EXCEPT !.request = IF \E x \in kept : x.id = @ THEN @ ELSE 0,
                            !.session = IF @ \in sessions' THEN @ ELSE 0] : l \in logs}
    <2>1. PICK r \in 0..MaxRows, s \in 0..MaxRows, some \in BOOLEAN :
          LET left == {x \in sessions : x > s}
              kept == {x \in requests : x.id > r}
          IN  /\ sessions' = left
              /\ requests' = {[x EXCEPT !.session = IF @ \in left THEN @ ELSE 0] : x \in kept}
              /\ logs' = IF some THEN {} ELSE
                    {[l EXCEPT !.request = IF \E x \in kept : x.id = @ THEN @ ELSE 0,
                               !.session = IF @ \in left THEN @ ELSE 0] : l \in logs}
      BY DEF Vacuum
    <2> DEFINE kept == {x \in requests : x.id > r}
    <2>2. kept \in SUBSET requests
      OBVIOUS
    <2>3. /\ requests' = {[x EXCEPT !.session = IF @ \in sessions' THEN @ ELSE 0] : x \in kept}
          /\ logs' = IF some THEN {} ELSE
                {[l EXCEPT !.request = IF \E x \in kept : x.id = @ THEN @ ELSE 0,
                           !.session = IF @ \in sessions' THEN @ ELSE 0] : l \in logs}
      BY <2>1
    <2> HIDE DEF kept
    <2> QED
      BY <2>2, <2>3
  <1>3. /\ \A x \in requests : x \in RequestRows
        /\ \A l \in logs : l \in LogRows
    BY DEF TrailInv, TrailTypeOK
  <1>4. \A x \in requests' : /\ x \in RequestRows
                             /\ x.session = 0 \/ x.session \in sessions'
    <2> SUFFICES ASSUME NEW x \in requests'
                 PROVE  x \in RequestRows /\ (x.session = 0 \/ x.session \in sessions')
      OBVIOUS
    <2>1. PICK y \in kept : x = [y EXCEPT !.session = IF @ \in sessions' THEN @ ELSE 0]
      BY <1>2
    <2>2. y \in RequestRows
      BY <1>3
    <2> QED
      BY <2>1, <2>2 DEF RequestRows
  <1>5. \A x \in kept : x.id \in IdsOf(requests')
    <2> SUFFICES ASSUME NEW x \in kept PROVE x.id \in IdsOf(requests')
      OBVIOUS
    <2> DEFINE y == [x EXCEPT !.session = IF @ \in sessions' THEN @ ELSE 0]
    <2>1. y \in requests'
      BY <1>2
    <2>2. x \in RequestRows
      BY <1>3
    <2>3. y.id = x.id
      BY <2>2 DEF RequestRows
    <2> HIDE DEF y
    <2> QED
      BY <2>1, <2>3 DEF IdsOf
  <1>6. \A l \in logs' :
           /\ l \in LogRows /\ (l.session = 0 \/ l.session \in sessions')
           /\ l.request # 0 => \E k \in logs, x \in kept :
                 l.by = k.by /\ l.request = k.request /\ x.id = k.request
    <2> SUFFICES ASSUME NEW l \in logs'
                 PROVE  /\ l \in LogRows /\ (l.session = 0 \/ l.session \in sessions')
                        /\ l.request # 0 => \E k \in logs, x \in kept :
                              l.by = k.by /\ l.request = k.request /\ x.id = k.request
      OBVIOUS
    <2>1. PICK k \in logs :
             l = [k EXCEPT !.request = IF \E x \in kept : x.id = @ THEN @ ELSE 0,
                           !.session = IF @ \in sessions' THEN @ ELSE 0]
      BY <1>2
    <2>2. k \in LogRows
      BY <1>3
    <2> QED
      BY <2>1, <2>2 DEF LogRows
  <1>7. TrailTypeOK'
    <2>1. sessions' \subseteq Nat \ {0} /\ requests' \subseteq RequestRows /\ logs' \subseteq LogRows
      BY <1>1, <1>4, <1>6 DEF TrailInv, TrailTypeOK
    <2> QED
      BY <1>1, <2>1 DEF TrailInv, TrailTypeOK
  <1>8. ForeignKeys'
    BY <1>4, <1>6 DEF ForeignKeys
  <1>9. OwnLogs' /\ Resting'
    BY <1>1 DEF TrailInv, OwnLogs, Resting, Known, RequestsOf
  <1>10. OldLogs'
    <2> SUFFICES ASSUME NEW l \in logs', l.request # 0
                 PROVE  /\ l.request = remembered[l.by] /\ l.request \in IdsOf(requests')
                        /\ attempt[l.by].running => l.request \in IdsOf(attempt[l.by].seesRequests)
      BY <1>1 DEF OldLogs, IdsOf
    <2>1. PICK k \in logs, x \in kept : l.by = k.by /\ l.request = k.request /\ x.id = k.request
      BY <1>6
    <2>2. /\ k.request = remembered[k.by]
          /\ attempt[k.by].running => k.request \in IdsOf(attempt[k.by].seesRequests)
      BY <2>1 DEF TrailInv, OldLogs
    <2>3. l.request \in IdsOf(requests')
      BY <1>5, <2>1
    <2> QED
      BY <2>1, <2>2, <2>3
  <1>11. OneSession'
    BY <1>1 DEF TrailInv, OneSession, Running
  <1> QED
    BY <1>7, <1>8, <1>9, <1>10, <1>11 DEF TrailInv

LEMMA TrailNextInv == TrailInv /\ [TrailNext]_trailvars => TrailInv'
  <1> SUFFICES ASSUME TrailInv, [TrailNext]_trailvars PROVE TrailInv'
    OBVIOUS
  <1>1. CASE UNCHANGED trailvars
    BY <1>1 DEF trailvars, TrailInv, TrailTypeOK, ForeignKeys, OwnLogs, OldLogs, OneSession, Resting,
                Known, RequestsOf, Running
  <1>2. CASE TrailNext
    BY <1>2, BeginKeeps, LogKeeps, CommitLogsKeeps, FailsKeeps, VacuumKeeps DEF TrailNext
  <1> QED
    BY <1>1, <1>2

(* Every log names rows that exist, one row per HTTP request, and rows and *)
(* logs name one session.                                                  *)
THEOREM TrailHolds == TrailSpec => []AuditTrail
  BY TrailInitInv, TrailNextInv, TrailImplies, PTL DEF TrailSpec

-----------------------------------------------------------------------------
(* The audit log: lines.                                                   *)

(* What a reader knows after the first i logs of a list.                   *)
ReadOne(after, list, i) == IF i = 0 THEN NoValues ELSE Read(after[i - 1], list[i])
Reads(list, after)      == after = [i \in 0..Len(list) |-> ReadOne(after, list, i)]
Replayed(list)          == (CHOOSE after : Reads(list, after))[Len(list)]

LEMMA ReplayIs == Replay = Replayed(trail)
  BY DEF Replay, Replayed, Reads, ReadOne

(* There is such a reading: a shortest list without one has a log less.    *)
LEMMA ReadsExist ==
    ASSUME NEW list, Len(list) \in Nat
    PROVE  \E after : Reads(list, after)
  <1> DEFINE Upto(n, g) == \A i \in 0..n : g[i] = ReadOne(g, list, i)
             Bad == {n \in Nat : ~ \E g : Upto(n, g) /\ g = [i \in 0..n |-> g[i]]}
  <1>1. Bad = {}
    <2> SUFFICES ASSUME Bad # {} PROVE FALSE
      OBVIOUS
    <2>1. PICK n \in Bad : \A k \in Bad : ~ (<<k, n>> \in OpToRel(<, Nat))
      <3>1. Bad \subseteq Nat
        OBVIOUS
      <3> HIDE DEF Bad
      <3> QED
        BY <3>1, NatLessThanWellFounded, WFMin
    <2>2. n # 0
      <3> DEFINE g == [i \in 0..0 |-> NoValues]
      <3>1. Upto(0, g) /\ g = [i \in 0..0 |-> g[i]]
        BY DEF ReadOne
      <3> HIDE DEF g, Upto
      <3> QED
        BY <3>1
    <2>3. n \in Nat /\ n - 1 \in Nat
      BY <2>2
    <2>4. n - 1 \notin Bad
      <3>1. <<n - 1, n>> \in OpToRel(<, Nat)
        BY <2>3 DEF OpToRel
      <3> HIDE DEF Bad
      <3> QED
        BY <2>1, <3>1
    <2>5. PICK g : Upto(n - 1, g)
      BY <2>3, <2>4
    <2> DEFINE h == [i \in 0..n |-> ReadOne(g, list, i)]
    <2>6. Upto(n, h)
      <3> SUFFICES ASSUME NEW i \in 0..n PROVE ReadOne(g, list, i) = ReadOne(h, list, i)
        BY <2>3
      <3>1. CASE i = 0
        BY <3>1 DEF ReadOne
      <3>2. CASE i # 0
        <4>1. i - 1 \in 0..(n - 1) /\ i - 1 \in 0..n
          BY <2>3, <3>2
        <4>2. h[i - 1] = g[i - 1]
          BY <2>5, <4>1
        <4> QED
          BY <3>2, <4>2 DEF ReadOne
      <3> QED
        BY <3>1, <3>2
    <2>7. h = [i \in 0..n |-> h[i]]
      OBVIOUS
    <2> HIDE DEF h, Upto
    <2>8. n \notin Bad
      BY <2>6, <2>7
    <2> QED
      BY <2>8
  <1>2. Len(list) \in Nat
    OBVIOUS
  <1>3. PICK g : Upto(Len(list), g) /\ g = [i \in 0..Len(list) |-> g[i]]
    BY <1>1, <1>2
  <1>4. Reads(list, g)
    BY <1>3 DEF Reads
  <1> QED
    BY <1>4

(* Two readings agree as long as the lists do.                             *)
LEMMA ReadsAgree ==
    ASSUME NEW a, NEW b, NEW g, NEW h, Reads(a, g), Reads(b, h),
           Len(a) \in Nat, Len(b) \in Nat, Len(a) <= Len(b), \A i \in 1..Len(a) : a[i] = b[i]
    PROVE  \A i \in 0..Len(a) : g[i] = h[i]
  <1> DEFINE Bad == {n \in 0..Len(a) : g[n] # h[n]}
  <1>1. /\ \A i \in 0..Len(a) : g[i] = ReadOne(g, a, i)
        /\ \A i \in 0..Len(b) : h[i] = ReadOne(h, b, i)
    BY DEF Reads
  <1>2. Bad = {}
    <2> SUFFICES ASSUME Bad # {} PROVE FALSE
      OBVIOUS
    <2>1. PICK n \in Bad : \A k \in Bad : ~ (<<k, n>> \in OpToRel(<, Nat))
      <3>1. Bad \subseteq Nat
        OBVIOUS
      <3> HIDE DEF Bad
      <3> QED
        BY <3>1, NatLessThanWellFounded, WFMin
    <2>2. n \in 0..Len(a) /\ n \in 0..Len(b) /\ g[n] # h[n]
      OBVIOUS
    <2>3. n # 0
      BY <1>1, <2>2 DEF ReadOne
    <2>4. n - 1 \in 0..Len(a) /\ n \in 1..Len(a)
      BY <2>2, <2>3
    <2>5. g[n - 1] = h[n - 1]
      <3>1. <<n - 1, n>> \in OpToRel(<, Nat)
        BY <2>2, <2>4 DEF OpToRel
      <3>2. n - 1 \notin Bad
        <4> HIDE DEF Bad
        <4> QED
          BY <2>1, <3>1
      <3> QED
        BY <2>4, <3>2
    <2>6. g[n] = ReadOne(g, a, n) /\ h[n] = ReadOne(h, b, n) /\ a[n] = b[n]
      BY <1>1, <2>2, <2>4
    <2> QED
      BY <2>2, <2>3, <2>5, <2>6 DEF ReadOne
  <1> QED
    BY <1>2

IsList(s) == \E S : s \in Seq(S)

LEMMA ListAppend ==
    ASSUME NEW s, IsList(s), NEW e
    PROVE  /\ IsList(Append(s, e)) /\ Len(s) \in Nat /\ Len(Append(s, e)) = Len(s) + 1
           /\ \A i \in 1..Len(s) : Append(s, e)[i] = s[i]
           /\ Append(s, e)[Len(s) + 1] = e
  <1>1. PICK S : s \in Seq(S)
    BY DEF IsList
  <1>2. s \in Seq(S \cup {e})
    BY <1>1
  <1>3. Append(s, e) \in Seq(S \cup {e})
    BY <1>2
  <1> QED
    BY <1>2, <1>3 DEF IsList

(* A reader goes on with each log.                                         *)
LEMMA ReplayAppend ==
    ASSUME NEW list, IsList(list), NEW log
    PROVE  Replayed(Append(list, log)) = Read(Replayed(list), log)
  <1> DEFINE more == Append(list, log)
             g == CHOOSE after : Reads(list, after)
             h == CHOOSE after : Reads(more, after)
  <1>1. /\ Len(list) \in Nat /\ Len(more) = Len(list) + 1
        /\ \A i \in 1..Len(list) : more[i] = list[i]
        /\ more[Len(list) + 1] = log
    BY ListAppend
  <1>2. Reads(list, g) /\ Reads(more, h)
    BY <1>1, ReadsExist
  <1>3. Replayed(list) = g[Len(list)] /\ Replayed(more) = h[Len(list) + 1]
    BY <1>1 DEF Replayed
  <1> HIDE DEF more, g, h
  <1>4. g[Len(list)] = h[Len(list)]
    BY <1>1, <1>2, ReadsAgree
  <1>5. h[Len(list) + 1] = ReadOne(h, more, Len(list) + 1)
    BY <1>1, <1>2 DEF Reads
  <1>6. ReadOne(h, more, Len(list) + 1) = Read(h[Len(list)], log)
    BY <1>1 DEF ReadOne
  <1> QED
    BY <1>3, <1>4, <1>5, <1>6 DEF more

(* What holds of the field f once the log is read.                         *)
LEMMA ReadValue ==
    ASSUME NEW values, NEW log, log.method # "unlink", NEW f
    PROVE  ValueIn(Read(values, log), f) =
               IF f \in DOMAIN log.lines THEN log.lines[f] ELSE ValueIn(values, f)
  BY DEF ValueIn, Read

Scope(quick, emptied) ==
    (IF quick THEN UserFields ELSE StoredFields) \ (Excluded \cup emptied)

(* A record that is there has the stored fields, an emptied one is blank,  *)
(* and no log goes before the record.                                      *)
LinesInv ==
    /\ IsList(trail)
    /\ record = NoValues \/ DOMAIN record = StoredFields
    /\ cleared \subseteq UserFields
    /\ fast \in BOOLEAN
    /\ record # NoValues => trail # <<>> /\ \A f \in cleared : record[f] = Blank
    /\ trail = <<>> => record = NoValues /\ ~ fast /\ cleared = {}
    /\ trail = <<>> => Replayed(trail) = NoValues
    /\ \A f \in Scope(fast, cleared) : ValueIn(Replayed(trail), f) = ValueIn(record, f)
    /\ trail # <<>> /\ record = NoValues /\ capture /\ ~fast =>
          trail[Len(trail)].lines = Restrict(gone, StoredFields \ Excluded)

LEMMA LinesImplies == LinesInv => AuditReplay
  BY ReplayIs DEF LinesInv, AuditReplay, Scope

LEMMA LinesInitInv == LinesInit => LinesInv
  <1> SUFFICES ASSUME LinesInit PROVE LinesInv
    OBVIOUS
  <1>1. <<>> \in Seq({})
    OBVIOUS
  <1>2. IsList(trail) /\ Len(trail) = 0
    BY <1>1 DEF IsList, LinesInit
  <1>3. Replayed(trail) = NoValues
    <2> DEFINE g == CHOOSE after : Reads(trail, after)
    <2>1. Reads(trail, g)
      BY <1>2, ReadsExist
    <2>2. Replayed(trail) = g[0]
      BY <1>2 DEF Replayed
    <2> HIDE DEF g
    <2> QED
      BY <1>2, <2>1, <2>2 DEF Reads, ReadOne
  <1> QED
    BY <1>2, <1>3 DEF LinesInit, LinesInv, Scope

(* A log is added at the end; the rest of the state is the operation's.    *)
LEMMA LoggedAppends ==
    ASSUME LinesInv, NEW log_type, NEW log, Logged(log_type, log)
    PROVE  /\ IsList(trail') /\ trail' # <<>> /\ trail'[Len(trail')] = log
           /\ Replayed(trail') = Read(Replayed(trail), log)
           /\ fast' = (fast \/ log_type = "fast")
  <1>1. IsList(trail) /\ trail' = Append(trail, log) /\ fast' = (fast \/ log_type = "fast")
    BY DEF Logged, LinesInv
  <1>2. /\ IsList(Append(trail, log)) /\ Len(trail) \in Nat
        /\ Len(Append(trail, log)) = Len(trail) + 1
        /\ Append(trail, log)[Len(trail) + 1] = log
    BY <1>1, ListAppend
  <1>3. Append(trail, log) # <<>>
    BY <1>2
  <1>4. Replayed(Append(trail, log)) = Read(Replayed(trail), log)
    BY <1>1, ReplayAppend
  <1> QED
    BY <1>1, <1>2, <1>3, <1>4

(* The fields of a new record, and of one that is written.                 *)
LEMMA RecordFields ==
    ASSUME NEW vals
    PROVE  /\ DOMAIN Created(vals) = StoredFields /\ DOMAIN Updated(vals) = StoredFields
           /\ \A f \in UserFields :
                 /\ Created(vals)[f] = IF f \in DOMAIN vals THEN vals[f] ELSE Blank
                 /\ Updated(vals)[f] = IF f \in DOMAIN vals THEN vals[f] ELSE record[f]
           /\ Created(vals) # NoValues /\ Updated(vals) # NoValues
  <1>1. /\ DOMAIN Created(vals) = StoredFields /\ DOMAIN Updated(vals) = StoredFields
    BY DEF Created, Updated, Computed
  <1>2. \A f \in UserFields :
                 /\ Created(vals)[f] = IF f \in DOMAIN vals THEN vals[f] ELSE Blank
                 /\ Updated(vals)[f] = IF f \in DOMAIN vals THEN vals[f] ELSE record[f]
    BY LinesAssumption DEF Created, Updated, Computed, StoredFields, Derived
  <1>3. Derived \in StoredFields /\ Derived \notin DOMAIN NoValues
    BY DEF StoredFields, NoValues
  <1> QED
    BY <1>1, <1>2, <1>3

LEMMA CreateRecordKeeps ==
    ASSUME LinesInv, NEW log_type \in {"full", "fast"}, NEW vals \in Vals,
           CreateRecord(log_type, vals)
    PROVE  LinesInv'
  <1> DEFINE log == CreateLog(log_type, vals)
             new == IF log_type = "full" THEN Created(vals) ELSE vals
  <1>1. /\ IsList(trail') /\ trail' # <<>> /\ Replayed(trail') = Read(NoValues, log)
        /\ fast' = (log_type = "fast") /\ record' = Created(vals)
        /\ cleared' = {} /\ fast' \in BOOLEAN
    BY LoggedAppends DEF CreateRecord, LinesInv
  <1>2. log.method = "create" /\ log.lines = [f \in DOMAIN new \ Excluded |-> new[f]]
    BY DEF CreateLog, LogOf, Lines, Restrict, AddedFields, NoValues
  <1>3. /\ DOMAIN Created(vals) = StoredFields /\ Created(vals) # NoValues
        /\ \A f \in UserFields :
              Created(vals)[f] = IF f \in DOMAIN vals THEN vals[f] ELSE Blank
    BY RecordFields
  <1>4. ASSUME NEW f \in Scope(fast', cleared')
        PROVE  ValueIn(Replayed(trail'), f) = ValueIn(record', f)
    <2>1. /\ f \notin Excluded /\ f \in StoredFields
          /\ log_type = "fast" => f \in UserFields
      BY <1>1 DEF Scope, StoredFields
    <2>2. ValueIn(Replayed(trail'), f) = IF f \in DOMAIN new \ Excluded THEN new[f] ELSE Blank
      BY <1>1, <1>2, ReadValue DEF ValueIn, NoValues
    <2>3. ValueIn(record', f) = Created(vals)[f]
      BY <1>1, <1>3, <2>1 DEF ValueIn
    <2>4. CASE log_type = "full"
      BY <1>3, <2>1, <2>2, <2>3, <2>4
    <2>5. CASE log_type = "fast"
      BY <1>3, <2>1, <2>2, <2>3, <2>5
    <2> QED
      BY <2>4, <2>5
  <1> QED
    BY <1>1, <1>3, <1>4 DEF LinesInv

LEMMA WriteRecordKeeps ==
    ASSUME LinesInv, NEW log_type \in {"full", "fast"}, NEW vals \in Vals,
           WriteRecord(log_type, vals)
    PROVE  LinesInv'
  <1> DEFINE log == WriteLog(log_type, vals)
             new == IF log_type = "full" THEN Updated(vals) ELSE vals
             old == IF log_type = "full" THEN record ELSE [f \in DOMAIN vals |-> Blank]
             emptied == {f \in DOMAIN vals : vals[f] = Blank}
  <1>1. /\ IsList(trail') /\ trail' # <<>> /\ Replayed(trail') = Read(Replayed(trail), log)
        /\ fast' = (fast \/ log_type = "fast") /\ record' = Updated(vals)
        /\ cleared' = (cleared \ (DOMAIN vals \ emptied)) \cup
                      (IF log_type = "fast" THEN emptied ELSE {})
        /\ fast' \in BOOLEAN
    BY LoggedAppends DEF WriteRecord, LinesInv
  <1>2. /\ log.method = "write"
        /\ log.lines = [f \in {g \in DOMAIN new \cap DOMAIN old : old[g] # new[g]} \ Excluded |-> new[f]]
    BY DEF WriteLog, LogOf, Lines, Restrict, ChangedFields
  <1>3. /\ DOMAIN Updated(vals) = StoredFields /\ Updated(vals) # NoValues
        /\ \A f \in UserFields :
              Updated(vals)[f] = IF f \in DOMAIN vals THEN vals[f] ELSE record[f]
    BY RecordFields
  <1>4. /\ record # NoValues /\ DOMAIN record = StoredFields
        /\ DOMAIN vals \subseteq UserFields
        /\ \A f \in cleared : record[f] = Blank /\ f \in UserFields
    BY DEF WriteRecord, LinesInv, Vals
  <1>5. cleared' \subseteq UserFields /\ \A f \in cleared' : record'[f] = Blank
    BY <1>1, <1>3, <1>4
  <1>6. ASSUME NEW f \in Scope(fast', cleared')
        PROVE  ValueIn(Replayed(trail'), f) = ValueIn(record', f)
    <2>1. /\ f \notin Excluded /\ f \in StoredFields /\ f \notin cleared'
          /\ fast' => f \in UserFields
      BY <1>1 DEF Scope, StoredFields
    <2>2. ValueIn(Replayed(trail'), f) =
            IF f \in DOMAIN new /\ f \in DOMAIN old /\ old[f] # new[f] THEN new[f]
            ELSE ValueIn(Replayed(trail), f)
      <3>1. ValueIn(Replayed(trail'), f) =
                IF f \in DOMAIN log.lines THEN log.lines[f] ELSE ValueIn(Replayed(trail), f)
        BY <1>1, <1>2, ReadValue
      <3> HIDE DEF log, new, old
      <3> QED
        BY <1>2, <2>1, <3>1
    <2>3. ValueIn(record', f) = Updated(vals)[f] /\ ValueIn(record, f) = record[f]
      BY <1>1, <1>3, <1>4, <2>1 DEF ValueIn
    <2>4. f \notin cleared => ValueIn(Replayed(trail), f) = record[f]
      <3>1. f \notin cleared => f \in Scope(fast, cleared)
        BY <1>1, <2>1 DEF Scope, LinesInv
      <3> QED
        BY <2>3, <3>1 DEF LinesInv
    <2>5. CASE log_type = "full"
      <3>1. CASE f \in cleared
        BY <1>1, <1>3, <1>4, <2>1, <2>2, <2>3, <2>5, <3>1
      <3>2. CASE f \notin cleared
        BY <1>3, <1>4, <2>1, <2>2, <2>3, <2>4, <2>5, <3>2
      <3> QED
        BY <3>1, <3>2
    <2>6. CASE log_type = "fast"
      <3>1. f \in UserFields
        BY <1>1, <2>1, <2>6
      <3>2. CASE f \in DOMAIN vals
        BY <1>1, <1>3, <2>1, <2>2, <2>3, <2>6, <3>1, <3>2
      <3>3. CASE f \notin DOMAIN vals
        BY <1>1, <1>3, <2>1, <2>2, <2>3, <2>4, <2>6, <3>1, <3>3
      <3> QED
        BY <3>2, <3>3
    <2> QED
      BY <2>5, <2>6
  <1> QED
    BY <1>1, <1>3, <1>5, <1>6 DEF LinesInv

LEMMA UnlinkRecordKeeps ==
    ASSUME LinesInv, NEW log_type \in {"full", "fast"}, UnlinkRecord(log_type)
    PROVE  LinesInv'
  <1> DEFINE log == UnlinkLog(log_type)
  <1>1. /\ IsList(trail') /\ trail' # <<>> /\ Replayed(trail') = Read(Replayed(trail), log)
        /\ trail'[Len(trail')] = log
        /\ fast' = (fast \/ log_type = "fast") /\ record' = NoValues /\ gone' = record
        /\ cleared' = cleared /\ capture' = capture /\ fast' \in BOOLEAN
    BY LoggedAppends DEF UnlinkRecord, LinesInv
  <1>2. log.method = "unlink"
    BY DEF UnlinkLog, LogOf
  <1>3. Replayed(trail') = NoValues
    BY <1>1, <1>2 DEF Read
  <1>4. DOMAIN record = StoredFields
    BY DEF UnlinkRecord, LinesInv
  <1>5. capture /\ log_type = "full" => log.lines = Restrict(record, StoredFields \ Excluded)
    BY <1>4 DEF UnlinkLog, LogOf, Lines
  <1>6. capture' /\ ~ fast' => trail'[Len(trail')].lines = Restrict(gone', StoredFields \ Excluded)
    BY <1>1, <1>5
  <1>7. \A f \in Scope(fast', cleared') : ValueIn(Replayed(trail'), f) = ValueIn(record', f)
    BY <1>1, <1>3
  <1> QED
    BY <1>1, <1>6, <1>7 DEF LinesInv

LEMMA LinesNextInv == LinesInv /\ [LinesNext]_linesvars => LinesInv'
  <1> SUFFICES ASSUME LinesInv, [LinesNext]_linesvars PROVE LinesInv'
    OBVIOUS
  <1>1. CASE UNCHANGED linesvars
    BY <1>1 DEF linesvars, LinesInv
  <1>2. CASE LinesNext
    BY <1>2, CreateRecordKeeps, WriteRecordKeeps, UnlinkRecordKeeps DEF LinesNext
  <1> QED
    BY <1>1, <1>2

(* Whoever reads the logs in their order knows the record, and what a      *)
(* deleted one held when the rule captures it.                             *)
THEOREM LogsTellRecord == LinesSpec => []AuditReplay
  BY LinesImplies, LinesInitInv, LinesNextInv, PTL DEF LinesSpec

-----------------------------------------------------------------------------
(* QuickBooks: exports.                                                    *)

(* Rows and items, with their fields.                                      *)
RowsFielded(r) == r = [copies |-> r.copies, lines |-> r.lines, drafts |-> r.drafts,
                       cursor |-> r.cursor, id |-> r.id]
ItemFielded(r) == r = [doc |-> r.doc, id |-> r.id]

(* A request that exports a document took it when it had no id; one that   *)
(* has posted it knows the copy.                                           *)
ExportInv ==
    /\ world \in Worlds /\ docKind \in world
    /\ qbc \in [QbWorkers -> QbKinds \cup {"idle", "export", "posted"}]
    /\ remote \in Seq(RemoteObject)
    /\ RowsFielded(qdb) /\ qdb.id \in [Docs -> Nat]
    /\ item = [w \in QbWorkers |-> item[w]] /\ \A w \in QbWorkers : ItemFielded(item[w])
    /\ qsnap = [w \in QbWorkers |-> qsnap[w]]
    /\ line \in [QbWorkers -> Nat] /\ \A w \in QbWorkers : line[w] > 0 => qbc[w] = "order"
    /\ \A w \in QbWorkers : qbc[w] \in {"export", "posted"} =>
          /\ item[w].doc \in Docs
          /\ docKind \notin Twice => qsnap[w].id[item[w].doc] = 0
    /\ \A w \in QbWorkers : qbc[w] = "posted" =>
          item[w].id \in 1 .. Len(remote) /\ remote[item[w].id].home = item[w].doc

(* What a request does with the records of Odoo, apart from its exports.   *)
Aside(w) ==
    /\ qbc[w] \in QbKinds \cup {"idle"}
    /\ UNCHANGED <<world, docKind, remote>>
    /\ RowsFielded(qdb') /\ qdb'.id = qdb.id
    /\ \E k \in QbKinds \cup {"idle"} : qbc' = [qbc EXCEPT ![w] = k]
    /\ \E r : ItemFielded(r) /\ item' = [item EXCEPT ![w] = r]
    /\ \E r : qsnap' = [qsnap EXCEPT ![w] = r]
    /\ \E n \in Nat : line' = [line EXCEPT ![w] = n] /\ (n > 0 => qbc'[w] = "order")

LEMMA RowsFields ==
    ASSUME NEW r, RowsFielded(r), NEW x
    PROVE  /\ RowsFielded([r EXCEPT !.copies = x]) /\ [r EXCEPT !.copies = x].id = r.id
           /\ RowsFielded([r EXCEPT !.lines = x]) /\ [r EXCEPT !.lines = x].id = r.id
           /\ RowsFielded([r EXCEPT !.drafts = x]) /\ [r EXCEPT !.drafts = x].id = r.id
           /\ RowsFielded([r EXCEPT !.cursor = x]) /\ [r EXCEPT !.cursor = x].id = r.id
           /\ RowsFielded([r EXCEPT !.id = x]) /\ [r EXCEPT !.id = x].id = x
  BY DEF RowsFielded

(* The rows that a commit may leave have the ids of those before.          *)
LEMMA RowsChange ==
    ASSUME NEW r, RowsFielded(r), NEW x, NEW k
    PROVE  /\ RowsFielded([r EXCEPT !.copies = x]) /\ [r EXCEPT !.copies = x].id = r.id
           /\ RowsFielded([r EXCEPT !.cursor[k] = x]) /\ [r EXCEPT !.cursor[k] = x].id = r.id
           /\ RowsFielded([r EXCEPT !.lines[k] = x]) /\ [r EXCEPT !.lines[k] = x].id = r.id
  <1>1. RowsFielded([r EXCEPT !.copies = x]) /\ [r EXCEPT !.copies = x].id = r.id
    BY RowsFields
  <1>2. RowsFielded([r EXCEPT !.cursor[k] = x]) /\ [r EXCEPT !.cursor[k] = x].id = r.id
    BY RowsFields
  <1>3. RowsFielded([r EXCEPT !.lines[k] = x]) /\ [r EXCEPT !.lines[k] = x].id = r.id
    BY RowsFields
  <1> QED
    BY <1>1, <1>2, <1>3

SameIds(r, v) == RowsFielded(v) /\ v.id = r.id

LEMMA RowsImported ==
    ASSUME NEW r, RowsFielded(r), NEW x, NEW k, NEW y
    PROVE  SameIds(r, [r EXCEPT !.copies = x, !.cursor[k] = y])
  <1> DEFINE r1 == [r EXCEPT !.copies = x]
             r2 == [r1 EXCEPT !.cursor[k] = y]
  <1>1. RowsFielded(r1) /\ r1.id = r.id
    BY RowsFields
  <1>2. RowsFielded(r2) /\ r2.id = r.id
    <2> HIDE DEF r1
    <2>1. RowsFielded(r2) /\ r2.id = r1.id
      BY <1>1, RowsFields
    <2> QED
      BY <1>1, <2>1
  <1>3. SameIds(r, r2)
    <2> HIDE DEF r2
    <2> QED
      BY <1>2 DEF SameIds
  <1> QED
    BY <1>3

LEMMA RowsRevised ==
    ASSUME NEW r, RowsFielded(r), NEW x, NEW k, NEW y, NEW z
    PROVE  /\ SameIds(r, [r EXCEPT !.copies = x, !.drafts = y, !.cursor[k] = z])
           /\ SameIds(r, [r EXCEPT !.copies = x, !.drafts = y, !.cursor = z])
  <1> DEFINE r1 == [r EXCEPT !.copies = x]
             r2 == [r1 EXCEPT !.drafts = y]
             r3 == [r2 EXCEPT !.cursor[k] = z]
             r4 == [r2 EXCEPT !.cursor = z]
  <1>1. RowsFielded(r1) /\ r1.id = r.id
    BY RowsFields
  <1>2. RowsFielded(r2) /\ r2.id = r.id
    <2> HIDE DEF r1
    <2>1. RowsFielded(r2) /\ r2.id = r1.id
      BY <1>1, RowsFields
    <2> QED
      BY <1>1, <2>1
  <1>3. RowsFielded(r3) /\ r3.id = r.id /\ RowsFielded(r4) /\ r4.id = r.id
    <2> HIDE DEF r2
    <2>1. RowsFielded(r3) /\ r3.id = r2.id
      BY <1>2, RowsFields
    <2>2. RowsFielded(r4) /\ r4.id = r2.id
      BY <1>2, RowsFields
    <2> QED
      BY <1>2, <2>1, <2>2
  <1>4. SameIds(r, r3) /\ SameIds(r, r4)
    <2> HIDE DEF r3, r4
    <2> QED
      BY <1>3 DEF SameIds
  <1> QED
    BY <1>4

LEMMA PendingKeepsIds ==
    ASSUME NEW w, NEW v, RowsFielded(v)
    PROVE  RowsFielded(WithPending(w, v)) /\ WithPending(w, v).id = v.id
  <1> DEFINE x == [k \in world |-> IF k = qbc[w] /\ pend[w].cursor # 0
                                     THEN pend[w].cursor ELSE v.cursor[k]]
             r1 == [v EXCEPT !.cursor = x]
             y == [i \in Ids |-> IF i \in pend[w].met THEN r1.lines[i] \cup remote[i].fresh
                                ELSE r1.lines[i]]
             r2 == [r1 EXCEPT !.lines = y]
             z == [i \in Ids |-> r2.copies[i] + One(i \in pend[w].made)]
             r3 == [r2 EXCEPT !.copies = z]
  <1>1. WithPending(w, v) = r3
    BY DEF WithPending
  <1>2. RowsFielded(r1) /\ r1.id = v.id
    <2> HIDE DEF x
    <2> QED
      BY RowsFields
  <1>3. RowsFielded(r2) /\ r2.id = r1.id
    <2> HIDE DEF r1, y
    <2> QED
      BY <1>2, RowsFields
  <1>4. RowsFielded(r3) /\ r3.id = r2.id
    <2> HIDE DEF r2, z
    <2> QED
      BY <1>3, RowsFields
  <1> HIDE DEF r1, r2, r3
  <1> QED
    BY <1>1, <1>2, <1>3, <1>4

LEMMA ItemFields ==
    ASSUME NEW r, ItemFielded(r), NEW x
    PROVE  /\ ItemFielded([r EXCEPT !.id = x]) /\ [r EXCEPT !.id = x].doc = r.doc
           /\ [r EXCEPT !.id = x].id = x
           /\ ItemFielded([r EXCEPT !.doc = x]) /\ [r EXCEPT !.doc = x].doc = x
  BY DEF ItemFielded

LEMMA EndsAside ==
    ASSUME ExportInv, NEW w \in QbWorkers, qbc[w] \in QbKinds, NEW v, NEW moves,
           RowsFielded(v), v.id = qdb.id, CommitAndEnd(w, v, moves)
    PROVE  Aside(w)
  <1>1. ItemFielded(NoItem)
    BY DEF ItemFielded, NoItem
  <1>2. /\ qdb' = v /\ qbc' = [qbc EXCEPT ![w] = "idle"] /\ item' = [item EXCEPT ![w] = NoItem]
        /\ qsnap' = [qsnap EXCEPT ![w] = EmptyRows] /\ line' = [line EXCEPT ![w] = 0]
        /\ UNCHANGED <<world, docKind, remote>>
    BY DEF CommitAndEnd, EndWith, QbEnd
  <1>3. \E n \in Nat : line' = [line EXCEPT ![w] = n] /\ (n > 0 => qbc'[w] = "order")
    <2>1. 0 \in Nat /\ ~ (0 > 0)
      OBVIOUS
    <2> QED
      BY <1>2, <2>1
  <1> QED
    BY <1>1, <1>2, <1>3 DEF Aside

(* What leaves the kind, the item and the line of a request alone.         *)
LEMMA Stays ==
    ASSUME ExportInv, NEW w \in QbWorkers
    PROVE  /\ qbc = [qbc EXCEPT ![w] = qbc[w]] /\ item = [item EXCEPT ![w] = item[w]]
           /\ qsnap = [qsnap EXCEPT ![w] = qsnap[w]] /\ line = [line EXCEPT ![w] = line[w]]
           /\ line[w] \in Nat /\ (line[w] > 0 => qbc[w] = "order")
           /\ ItemFielded(item[w]) /\ RowsFielded(qdb)
  BY DEF ExportInv

LEMMA GoesOnAside ==
    ASSUME ExportInv, NEW w \in QbWorkers, qbc[w] \in QbKinds, NEW v, NEW p,
           RowsFielded(v), v.id = qdb.id, CommitAndGoOn(w, v, p),
           UNCHANGED <<world, docKind, remote, qbc>>,
           item' = item \/ \E i : item' = [item EXCEPT ![w].id = i],
           \E n \in Nat : line' = [line EXCEPT ![w] = n] /\ (n > 0 => qbc[w] = "order")
    PROVE  Aside(w)
  <1>1. RowsFielded(qdb') /\ qdb'.id = qdb.id
    BY PendingKeepsIds DEF CommitAndGoOn
  <1>2. \E r : qsnap' = [qsnap EXCEPT ![w] = r]
    BY DEF CommitAndGoOn
  <1>3. qbc' = [qbc EXCEPT ![w] = qbc[w]]
    BY Stays
  <1>4. \E r : ItemFielded(r) /\ item' = [item EXCEPT ![w] = r]
    <2>1. ASSUME NEW i, item' = [item EXCEPT ![w].id = i]
          PROVE  \E r : ItemFielded(r) /\ item' = [item EXCEPT ![w] = r]
      <3> DEFINE r == [item[w] EXCEPT !.id = i]
      <3>1. ItemFielded(r)
        BY Stays, ItemFields
      <3>2. item' = [item EXCEPT ![w] = r]
        BY <2>1
      <3> QED
        BY <3>1, <3>2
    <2> QED
      BY Stays, <2>1
  <1> QED
    BY <1>1, <1>2, <1>3, <1>4 DEF Aside

(* A step that commits nothing.                                            *)
LEMMA IdlesAside ==
    ASSUME ExportInv, NEW w \in QbWorkers, qbc[w] \in QbKinds,
           UNCHANGED <<world, docKind, remote, qbc, qdb, qsnap, item, line>>
    PROVE  Aside(w)
  <1>1. /\ qbc' = [qbc EXCEPT ![w] = qbc[w]] /\ item' = [item EXCEPT ![w] = item[w]]
        /\ qsnap' = [qsnap EXCEPT ![w] = qsnap[w]] /\ line' = [line EXCEPT ![w] = line[w]]
        /\ ItemFielded(item[w]) /\ RowsFielded(qdb)
        /\ line[w] \in Nat /\ (line[w] > 0 => qbc'[w] = "order")
    BY Stays
  <1> QED
    BY <1>1 DEF Aside

LEMMA ImportsAside ==
    ASSUME ExportInv, NEW w \in QbWorkers,
           \/ ImportPartners(w) \/ ImportAccounts(w) \/ ImportDepartments(w)
           \/ ImportEmployees(w) \/ ImportAgencies(w) \/ ImportMethods(w)
           \/ ImportPurchases(w) \/ ImportTerms(w) \/ ImportRefunds(w)
           \/ EndItems(w) \/ EndSteps(w) \/ ImportPayments(w) \/ ImportInvoices(w)
    PROVE  Aside(w)
  <1>0. RowsFielded(qdb)
    BY DEF ExportInv
  <1>1. ASSUME NEW k \in QbKinds, Upserted(w, k) PROVE Aside(w)
    <2> DEFINE x == WithCopies({i \in qtodo[w] : qsnap[w].copies[i] = 0})
               y == Max(qtodo[w])
               v == [qdb EXCEPT !.copies = x, !.cursor[k] = y]
    <2>1. SameIds(qdb, v)
      <3> HIDE DEF x, y
      <3> QED
        BY <1>0, RowsImported
    <2>2. CommitAndEnd(w, v, TRUE) /\ qbc[w] \in QbKinds
      BY <1>1 DEF Upserted
    <2> HIDE DEF v
    <2> QED
      BY <2>1, <2>2, EndsAside DEF SameIds
  <1>2. ASSUME ImportEmployees(w) PROVE Aside(w)
    <2> DEFINE moving == Moving(w)
               x == WithCopies({i \in qtodo[w] : qsnap[w].copies[i] = 0})
               r == [qdb EXCEPT !.copies = x]
               y == IF moving = {} THEN r.cursor["employee"] ELSE Max(moving)
               v == [qdb EXCEPT !.copies = x, !.cursor["employee"] = y]
    <2>1. SameIds(qdb, v)
      <3> HIDE DEF x, y
      <3> QED
        BY <1>0, RowsImported
    <2>2. CommitAndEnd(w, v, moving # {}) /\ qbc[w] \in QbKinds
      BY <1>2 DEF ImportEmployees, QbKinds
    <2> HIDE DEF v, moving
    <2> QED
      BY <2>1, <2>2, EndsAside DEF SameIds
  <1>3. ASSUME NEW k \in {"agency", "method"}, ImportAgencies(w) \/ ImportMethods(w) PROVE Aside(w)
    <2>1. PICK l \in {"agency", "method"} :
             /\ qbc[w] = l
             /\ CommitAndEnd(w, [qdb EXCEPT !.copies = WithCopies(qtodo[w]),
                                            !.cursor[l] = Max(qtodo[w])], TRUE)
      BY <1>3 DEF ImportAgencies, ImportMethods
    <2> DEFINE x == WithCopies(qtodo[w])
               y == Max(qtodo[w])
               v == [qdb EXCEPT !.copies = x, !.cursor[l] = y]
    <2>2. SameIds(qdb, v)
      <3> HIDE DEF x, y
      <3> QED
        BY <1>0, RowsImported
    <2>3. CommitAndEnd(w, v, TRUE) /\ qbc[w] \in QbKinds
      BY <2>1 DEF QbKinds
    <2> HIDE DEF v
    <2> QED
      BY <2>2, <2>3, EndsAside DEF SameIds
  <1>4. ASSUME NEW k \in QbKinds, OnlyCreated(w, k) PROVE Aside(w)
    <2> DEFINE new == New(w, qtodo[w])
               x == WithCopies(new)
               r == [qdb EXCEPT !.copies = x]
               y == IF new = {} THEN r.cursor[k] ELSE Max(new)
               v == [qdb EXCEPT !.copies = x, !.cursor[k] = y]
    <2>1. SameIds(qdb, v)
      <3> HIDE DEF x, y
      <3> QED
        BY <1>0, RowsImported
    <2>2. CommitAndEnd(w, v, new # {}) /\ qbc[w] \in QbKinds
      BY <1>4 DEF OnlyCreated
    <2> HIDE DEF v, new
    <2> QED
      BY <2>1, <2>2, EndsAside DEF SameIds
  <1>5. ASSUME EndItems(w) PROVE Aside(w)
    <2> DEFINE last == item[w].id
               u == WithPending(w, qdb)
               v == [u EXCEPT !.cursor[qbc[w]] = IF last = 0 THEN @ ELSE last]
    <2>1. RowsFielded(u) /\ u.id = qdb.id
      BY <1>0, PendingKeepsIds
    <2>2. CommitAndEnd(w, v, last # 0) /\ qbc[w] \in QbKinds
      BY <1>5 DEF EndItems, QbKinds
    <2> HIDE DEF u
    <2>3. RowsFielded(v) /\ v.id = u.id
      BY <2>1, RowsChange
    <2> HIDE DEF v, last
    <2> QED
      BY <2>1, <2>2, <2>3, EndsAside DEF SameIds
  <1>6. ASSUME EndSteps(w) PROVE Aside(w)
    <2>1. RowsFielded(WithPending(w, qdb)) /\ WithPending(w, qdb).id = qdb.id
      BY <1>0, PendingKeepsIds
    <2>2. CommitAndEnd(w, WithPending(w, qdb), pend[w].cursor # 0) /\ qbc[w] \in QbKinds
      BY <1>6 DEF EndSteps, QbKinds
    <2> QED
      BY <2>1, <2>2, EndsAside DEF SameIds
  <1>7. ASSUME ImportPayments(w) PROVE Aside(w)
    <2> DEFINE k == qbc[w]
               x == WithPayments(w, qtodo[w])
               r == [qdb EXCEPT !.copies = x]
               y == r.drafts \ Reposted(w, qtodo[w])
               z == Max(qtodo[w])
               v == [qdb EXCEPT !.copies = x, !.drafts = y, !.cursor[k] = z]
    <2>1. SameIds(qdb, v)
      <3> HIDE DEF x, y, z
      <3> QED
        BY <1>0, RowsRevised
    <2>2. CommitAndEnd(w, v, TRUE) /\ qbc[w] \in QbKinds
      BY <1>7 DEF ImportPayments, PayKinds, QbKinds
    <2> HIDE DEF v
    <2> QED
      BY <2>1, <2>2, EndsAside DEF SameIds
  <1>8. ASSUME ImportInvoices(w) PROVE Aside(w)
    <2> DEFINE k == qbc[w]
               taken == Taken(qtodo[w])
               new == New(w, qtodo[w])
               x == [i \in Ids |-> WithPayments(w, LinkedTo(new))[i] + One(i \in new)]
               r == [qdb EXCEPT !.copies = x]
               y == r.drafts \cup (taken \ new)
               s == [r EXCEPT !.drafts = y]
               z(p) == [l \in world |-> CASE l = k /\ taken # {} -> Max(taken)
                                          [] l = "payment"       -> p
                                          [] OTHER               -> s.cursor[l]]
               v(p) == [qdb EXCEPT !.copies = x, !.drafts = @ \cup (taken \ new),
                                   !.cursor = [l \in world |->
                                      CASE l = k /\ taken # {} -> Max(taken)
                                        [] l = "payment"       -> p
                                        [] OTHER               -> @[l]]]
    <2>1. PICK p : CommitAndEnd(w, v(p), taken # {})
      BY <1>8 DEF ImportInvoices
    <2>2. qbc[w] \in QbKinds
      BY <1>8 DEF ImportInvoices, InvoiceKinds, QbKinds
    <2>3. v(p) = [qdb EXCEPT !.copies = x, !.drafts = y, !.cursor = z(p)]
      <3> HIDE DEF x, taken, new, k
      <3> QED
        OBVIOUS
    <2>4. SameIds(qdb, [qdb EXCEPT !.copies = x, !.drafts = y, !.cursor = z(p)])
      <3> HIDE DEF x, y, z
      <3> QED
        BY <1>0, RowsRevised
    <2>5. SameIds(qdb, v(p))
      <3> HIDE DEF v, x, y, z
      <3> QED
        BY <2>3, <2>4
    <2> HIDE DEF v, taken
    <2> QED
      BY <2>1, <2>2, <2>5, EndsAside DEF SameIds
  <1>9. /\ ImportPartners(w) \/ ImportDepartments(w) => \E k \in QbKinds : Upserted(w, k)
        /\ ImportPurchases(w) \/ ImportRefunds(w) => \E k \in QbKinds : OnlyCreated(w, k)
    BY DEF ImportPartners, ImportDepartments, ImportPurchases, ImportRefunds, QbKinds
  <1>10. ASSUME ImportAccounts(w) PROVE Aside(w)
    <2>1. PICK new, lost :
             CommitAndEnd(w, [qdb EXCEPT !.copies = Exchanged(new, lost),
                                         !.cursor["account"] = Max(qtodo[w])], TRUE)
      BY <1>10 DEF ImportAccounts
    <2> DEFINE x == Exchanged(new, lost)
               y == Max(qtodo[w])
               v == [qdb EXCEPT !.copies = x, !.cursor["account"] = y]
    <2>2. SameIds(qdb, v)
      <3> HIDE DEF x, y
      <3> QED
        BY <1>0, RowsImported
    <2>3. CommitAndEnd(w, v, TRUE) /\ qbc[w] \in QbKinds
      BY <1>10, <2>1 DEF ImportAccounts, QbKinds
    <2> HIDE DEF v
    <2> QED
      BY <2>2, <2>3, EndsAside DEF SameIds
  <1>11. ASSUME ImportTerms(w) PROVE Aside(w)
    <2> DEFINE new == New(w, qtodo[w])
               x == WithCopies(new)
               v(y) == [qdb EXCEPT !.copies = x, !.cursor["term"] = y]
    <2>1. PICK y : CommitAndEnd(w, v(y), new # {})
      BY <1>11 DEF ImportTerms
    <2>2. SameIds(qdb, v(y))
      <3> HIDE DEF x
      <3> QED
        BY <1>0, RowsImported
    <2>3. qbc[w] \in QbKinds
      BY <1>11 DEF ImportTerms, QbKinds
    <2> HIDE DEF v, new
    <2> QED
      BY <2>1, <2>2, <2>3, EndsAside DEF SameIds
  <1> QED
    BY <1>1, <1>2, <1>3, <1>4, <1>5, <1>6, <1>7, <1>8, <1>9, <1>10, <1>11

LEMMA StepsAside ==
    ASSUME ExportInv, NEW w \in QbWorkers,
           \/ ImportProduct(w) \/ ImportTax(w) \/ ImportCategory(w) \/ ImportJournal(w)
           \/ OrderHeader(w) \/ OrderLine(w) \/ OrderAgain(w)
    PROVE  Aside(w)
  <1>0. RowsFielded(qdb) /\ line[w] \in Nat
    BY DEF ExportInv
  <1>1. \A x : SameIds(qdb, [qdb EXCEPT !.copies = x])
    BY <1>0, RowsFields DEF SameIds
  <1>2. qbc[w] \in QbKinds
    BY DEF ImportProduct, ImportTax, ImportCategory, ImportJournal, OrderHeader, OrderLine,
           OrderAgain, QbKinds, ExportInv
  <1>3. UNCHANGED line => \E n \in Nat : line' = [line EXCEPT ![w] = n] /\ (n > 0 => qbc[w] = "order")
    BY Stays
  <1>4. ASSUME NEW x, NEW p, CommitAndGoOn(w, [qdb EXCEPT !.copies = x], p),
               UNCHANGED <<world, docKind, remote, qbc>>,
               item' = item \/ \E i : item' = [item EXCEPT ![w].id = i],
               UNCHANGED line \/ (qbc[w] = "order" /\ line' = [line EXCEPT ![w] = 1])
        PROVE  Aside(w)
    <2> DEFINE v == [qdb EXCEPT !.copies = x]
    <2>1. SameIds(qdb, v)
      BY <1>1
    <2>2. CommitAndGoOn(w, v, p)
      BY <1>4
    <2>3. \E n \in Nat : line' = [line EXCEPT ![w] = n] /\ (n > 0 => qbc[w] = "order")
      BY <1>3, <1>4
    <2> HIDE DEF v
    <2> QED
      BY <1>2, <1>4, <2>1, <2>2, <2>3, GoesOnAside DEF SameIds
  <1>5. ASSUME NEW i, NEW x, ImportOne(w, i, x) PROVE Aside(w)
    <2>1. CASE remote[i].odd
      BY <1>2, <1>5, <2>1, IdlesAside DEF ImportOne
    <2>2. CASE ~remote[i].odd
      <3>1. /\ CommitAndGoOn(w, [qdb EXCEPT !.copies = x], NoWrites)
            /\ item' = [item EXCEPT ![w].id = i] /\ UNCHANGED <<world, docKind, remote, qbc, line>>
        BY <1>5, <2>2 DEF ImportOne
      <3> QED
        BY <1>4, <3>1
    <2> QED
      BY <2>1, <2>2
  <1>6. ASSUME ImportCategory(w) PROVE Aside(w)
    <2> DEFINE i == Min(qtodo[w])
               up == Above(i)
               top == Min(up)
               x == WithCopies(IF top = i THEN New(w, {i}) ELSE {j \in {top} : qdb.copies[j] = 0})
               p == [NoWrites EXCEPT !.made = up \ {top}]
    <2>1. CASE remote[i].odd
      BY <1>2, <1>6, <2>1, IdlesAside DEF ImportCategory
    <2>2. CASE ~remote[i].odd
      <3>1. /\ CommitAndGoOn(w, [qdb EXCEPT !.copies = x], p)
            /\ item' = [item EXCEPT ![w].id = i] /\ UNCHANGED <<world, docKind, remote, qbc, line>>
        BY <1>6, <2>2 DEF ImportCategory
      <3> HIDE DEF x, p, i
      <3> QED
        BY <1>4, <3>1
    <2> QED
      BY <2>1, <2>2
  <1>7. ASSUME ImportJournal(w) PROVE Aside(w)
    <2> DEFINE i == Min(qtodo[w])
    <2>1. CASE New(w, {i}) = {}
      BY <1>2, <1>7, <2>1, IdlesAside DEF ImportJournal
    <2>2. CASE New(w, {i}) # {}
      <3> DEFINE x == WithCopies({i})
      <3>1. /\ CommitAndGoOn(w, [qdb EXCEPT !.copies = x], Moved(i))
            /\ UNCHANGED <<world, docKind, remote, qbc, line, item>>
        BY <1>7, <2>2 DEF ImportJournal
      <3> HIDE DEF x, i
      <3> QED
        BY <1>4, <3>1
    <2> QED
      BY <2>1, <2>2
  <1>8. ASSUME OrderHeader(w) PROVE Aside(w)
    <2> DEFINE i == Min(qtodo[w])
               x == WithCopies({i})
    <2>1. /\ CommitAndGoOn(w, [qdb EXCEPT !.copies = x], NoWrites) /\ qbc[w] = "order"
          /\ UNCHANGED <<world, docKind, remote, qbc, item>> /\ line' = [line EXCEPT ![w] = 1]
      BY <1>8 DEF OrderHeader
    <2> HIDE DEF x, i
    <2> QED
      BY <1>4, <2>1
  <1>9. ASSUME OrderLine(w) PROVE Aside(w)
    <2> DEFINE i == Min(qtodo[w])
               y == qdb.lines[i] \cup {line[w]}
               v == [qdb EXCEPT !.lines[i] = y]
    <2>1. /\ CommitAndGoOn(w, v, Moved(i)) /\ line[w] > 0
          /\ UNCHANGED <<world, docKind, remote, qbc, item>>
      BY <1>9 DEF OrderLine
    <2>2. RowsFielded(v) /\ v.id = qdb.id
      <3> HIDE DEF y, i
      <3> QED
        BY <1>0, RowsChange
    <2>3. qbc[w] = "order"
      BY <2>1, Stays
    <2>4. \E n \in Nat : line' = [line EXCEPT ![w] = n]
      <3>1. line' = [line EXCEPT ![w] = 0] \/ line' = [line EXCEPT ![w] = line[w] + 1]
        BY <1>9 DEF OrderLine
      <3> QED
        BY <1>0, <3>1
    <2> HIDE DEF v, i
    <2> QED
      BY <1>2, <2>1, <2>2, <2>3, <2>4, GoesOnAside
  <1>10. ASSUME OrderAgain(w) PROVE Aside(w)
    BY <1>2, <1>10, IdlesAside DEF OrderAgain
  <1>11. ImportProduct(w) \/ ImportTax(w) => \E i, x : ImportOne(w, i, x)
    BY DEF ImportProduct, ImportTax
  <1> QED
    BY <1>5, <1>6, <1>7, <1>8, <1>9, <1>10, <1>11

(* What a user does with an idle request, and the start of an import.      *)
LEMMA IdleAside ==
    ASSUME ExportInv, NEW w \in QbWorkers,
           \/ ImportInventory(w) \/ \E d \in Docs : UpdateAccount(w, d)
           \/ \E k \in QbKinds : QbBegin(w, k)
    PROVE  Aside(w)
  <1>0. RowsFielded(qdb) /\ \A k, x : SameIds(qdb, [qdb EXCEPT !.cursor[k] = x])
    BY RowsChange DEF SameIds, ExportInv
  <1>1. qbc[w] = "idle" /\ line[w] = 0
    <2>1. qbc[w] = "idle"
      BY DEF ImportInventory, UpdateAccount, QbBegin
    <2>2. line[w] \in Nat /\ (line[w] > 0 => qbc[w] = "order")
      BY Stays
    <2> QED
      BY <2>1, <2>2
  <1>2. ASSUME ImportInventory(w) \/ \E d \in Docs : UpdateAccount(w, d) PROVE Aside(w)
    <2>1. \E k, x : qdb' = [qdb EXCEPT !.cursor[k] = x]
      BY <1>2 DEF ImportInventory, UpdateAccount
    <2>2. SameIds(qdb, qdb')
      BY <1>0, <2>1
    <2>3. UNCHANGED <<world, docKind, remote, qbc, qsnap, item, line>>
      BY <1>2 DEF ImportInventory, UpdateAccount
    <2>4. /\ qbc' = [qbc EXCEPT ![w] = qbc[w]] /\ item' = [item EXCEPT ![w] = item[w]]
          /\ qsnap' = [qsnap EXCEPT ![w] = qsnap[w]] /\ ItemFielded(item[w])
      BY <2>3, Stays
    <2>5. \E n \in Nat : line' = [line EXCEPT ![w] = n] /\ (n > 0 => qbc'[w] = "order")
      BY <2>3, Stays
    <2> QED
      BY <1>1, <2>2, <2>3, <2>4, <2>5 DEF SameIds, Aside
  <1>3. ASSUME NEW k \in QbKinds, QbBegin(w, k) PROVE Aside(w)
    <2>1. /\ qbc' = [qbc EXCEPT ![w] = k] /\ qsnap' = [qsnap EXCEPT ![w] = qdb]
          /\ UNCHANGED <<world, docKind, remote, qdb, item, line>>
      BY <1>3 DEF QbBegin
    <2>2. item' = [item EXCEPT ![w] = item[w]] /\ ItemFielded(item[w])
      BY <2>1, Stays
    <2>3. \E n \in Nat : line' = [line EXCEPT ![w] = n] /\ (n > 0 => qbc'[w] = "order")
      <3>1. line' = [line EXCEPT ![w] = line[w]] /\ line[w] \in Nat /\ ~ (line[w] > 0)
        BY <1>1, <2>1, Stays
      <3> QED
        BY <3>1
    <2> QED
      BY <1>0, <1>1, <2>1, <2>2, <2>3 DEF Aside
  <1> QED
    BY <1>2, <1>3

-----------------------------------------------------------------------------
(* QuickBooks: what a step does to the documents and their copies.         *)

Sequel(old, new) ==
    new \in Seq(RemoteObject) /\ Len(new) >= Len(old) /\ \A i \in 1 .. Len(old) : new[i] = old[i]

(* What a request that exports must know of its document.                  *)
Knows(k, r, t, objects) ==
    /\ k \in {"export", "posted"} => r.doc \in Docs /\ (docKind \notin Twice => t.id[r.doc] = 0)
    /\ k = "posted" => r.id \in 1 .. Len(objects) /\ objects[r.id].home = r.doc

LEMMA InvStep ==
    ASSUME ExportInv, NEW w \in QbWorkers, UNCHANGED <<world, docKind>>,
           RowsFielded(qdb'), qdb'.id \in [Docs -> Nat], Sequel(remote, remote'),
           NEW k \in QbKinds \cup {"idle", "export", "posted"}, qbc' = [qbc EXCEPT ![w] = k],
           NEW r, ItemFielded(r), item' = [item EXCEPT ![w] = r],
           NEW t, qsnap' = [qsnap EXCEPT ![w] = t],
           NEW n \in Nat, line' = [line EXCEPT ![w] = n], n > 0 => k = "order",
           Knows(k, r, t, remote')
    PROVE  ExportInv'
  <1>1. /\ \A x \in QbWorkers : qbc'[x] = IF x = w THEN k ELSE qbc[x]
        /\ \A x \in QbWorkers : item'[x] = IF x = w THEN r ELSE item[x]
        /\ \A x \in QbWorkers : qsnap'[x] = IF x = w THEN t ELSE qsnap[x]
        /\ \A x \in QbWorkers : line'[x] = IF x = w THEN n ELSE line[x]
    BY DEF ExportInv
  <1>2. /\ qbc' \in [QbWorkers -> QbKinds \cup {"idle", "export", "posted"}]
        /\ item' = [x \in QbWorkers |-> item'[x]] /\ qsnap' = [x \in QbWorkers |-> qsnap'[x]]
        /\ line' \in [QbWorkers -> Nat]
    BY DEF ExportInv
  <1>3. \A x \in QbWorkers : ItemFielded(item'[x]) /\ (line'[x] > 0 => qbc'[x] = "order")
    BY <1>1 DEF ExportInv
  <1>4. ASSUME NEW x \in QbWorkers PROVE Knows(qbc'[x], item'[x], qsnap'[x], remote')
    <2>1. CASE x = w
      BY <1>1, <2>1
    <2>2. CASE x # w
      <3>1. Knows(qbc[x], item[x], qsnap[x], remote)
        BY DEF ExportInv, Knows
      <3>2. qbc'[x] = qbc[x] /\ item'[x] = item[x] /\ qsnap'[x] = qsnap[x]
        BY <1>1, <2>2
      <3>3. Knows(qbc[x], item[x], qsnap[x], remote')
        <4>1. \A i \in 1 .. Len(remote) : i \in 1 .. Len(remote') /\ remote'[i] = remote[i]
          BY DEF Sequel, ExportInv
        <4> QED
          BY <3>1, <4>1 DEF Knows
      <3> QED
        BY <3>2, <3>3
    <2> QED
      BY <2>1, <2>2
  <1> QED
    BY <1>2, <1>3, <1>4 DEF ExportInv, Sequel, Knows

LEMMA SameRemote == ExportInv /\ UNCHANGED remote => Sequel(remote, remote')
  BY DEF ExportInv, Sequel

(* Two exports of an agency or a tax are none of RemoteExport's.           *)
LEMMA TwiceStutters ==
    ASSUME docKind \in Twice, UNCHANGED docKind
    PROVE  UNCHANGED Q!vars
  <1>1. QbAttempts = [d \in Docs |-> 0] /\ QbAttempts' = [d \in Docs |-> 0]
    BY DEF QbAttempts, OnlyOnce
  <1>2. QbCopies = [d \in Docs |-> 0] /\ QbCopies' = [d \in Docs |-> 0]
    BY DEF QbCopies, OnlyOnce
  <1>3. QbStored = [d \in Docs |-> FALSE] /\ QbStored' = [d \in Docs |-> FALSE]
    BY DEF QbStored
  <1> QED
    BY <1>1, <1>2, <1>3 DEF Q!vars

LEMMA SameSenders ==
    ASSUME ExportInv, NEW w \in QbWorkers, UNCHANGED docKind,
           NEW k, qbc' = [qbc EXCEPT ![w] = k], NEW r, item' = [item EXCEPT ![w] = r],
           qbc[w] # "export", k # "export"
    PROVE  UNCHANGED QbAttempts
  <1>1. \A x \in QbWorkers : qbc'[x] = (IF x = w THEN k ELSE qbc[x])
    BY DEF ExportInv
  <1>2. \A x \in QbWorkers : item'[x] = (IF x = w THEN r ELSE item[x])
    BY DEF ExportInv
  <1>3. ASSUME NEW d PROVE SendersOf(d)' = SendersOf(d)
    BY <1>1, <1>2 DEF SendersOf
  <1> QED
    BY <1>3 DEF QbAttempts, OnlyOnce

LEMMA SameCopies == UNCHANGED <<docKind, remote>> => UNCHANGED QbCopies
  BY DEF QbCopies, OnlyOnce, CopiesOf, Made

LEMMA SameStored == UNCHANGED docKind /\ qdb'.id = qdb.id => UNCHANGED QbStored
  BY DEF QbStored

LEMMA AsideKeeps ==
    ASSUME ExportInv, NEW w \in QbWorkers, Aside(w)
    PROVE  ExportInv' /\ UNCHANGED Q!vars
  <1>1. PICK k \in QbKinds \cup {"idle"} : qbc' = [qbc EXCEPT ![w] = k]
    BY DEF Aside
  <1>2. PICK r : ItemFielded(r) /\ item' = [item EXCEPT ![w] = r]
    BY DEF Aside
  <1>3. PICK t : qsnap' = [qsnap EXCEPT ![w] = t]
    BY DEF Aside
  <1>4. PICK n \in Nat : line' = [line EXCEPT ![w] = n] /\ (n > 0 => qbc'[w] = "order")
    BY DEF Aside
  <1>5. /\ UNCHANGED <<world, docKind, remote>> /\ RowsFielded(qdb') /\ qdb'.id = qdb.id
        /\ qbc[w] # "export" /\ k \notin {"export", "posted"} /\ qbc'[w] = k
        /\ qdb'.id \in [Docs -> Nat]
    BY <1>1 DEF Aside, ExportInv, QbKinds
  <1>6. ExportInv'
    <2>1. Knows(k, r, t, remote')
      BY <1>5 DEF Knows
    <2> QED
      BY <1>1, <1>2, <1>3, <1>4, <1>5, <2>1, SameRemote, InvStep
  <1>7. UNCHANGED QbAttempts
    BY <1>1, <1>2, <1>5, SameSenders
  <1>8. UNCHANGED <<QbCopies, QbStored>>
    BY <1>5, SameCopies, SameStored
  <1> QED
    BY <1>6, <1>7, <1>8 DEF Q!vars

-----------------------------------------------------------------------------
(* QuickBooks: the steps of an export.                                     *)

LEMMA SendersCount ==
    ASSUME NEW d
    PROVE  IsFiniteSet(SendersOf(d)) /\ Cardinality(SendersOf(d)) \in Nat
  <1>1. SendersOf(d) \subseteq QbWorkers
    BY DEF SendersOf
  <1> QED
    BY <1>1, QbAssumption, FS_Subset, FS_CardinalityType

LEMMA CopiesCount ==
    ASSUME ExportInv, NEW d
    PROVE  IsFiniteSet(CopiesOf(d)) /\ Cardinality(CopiesOf(d)) \in Nat
  <1>1. CopiesOf(d) \subseteq 1 .. Len(remote) /\ Len(remote) \in Int /\ 1 \in Int
    BY DEF CopiesOf, Made, ExportInv
  <1>2. IsFiniteSet(1 .. Len(remote))
    BY <1>1, FS_Interval
  <1> QED
    BY <1>1, <1>2, FS_Subset, FS_CardinalityType

(* A request that takes a document is one more of its senders.             *)
LEMMA OneMoreSender ==
    ASSUME ExportInv, NEW w \in QbWorkers, UNCHANGED docKind, docKind \notin Twice,
           qbc[w] # "export", qbc' = [qbc EXCEPT ![w] = "export"],
           NEW r, item' = [item EXCEPT ![w] = r], r.doc \in Docs
    PROVE  QbAttempts' = [QbAttempts EXCEPT ![r.doc] = @ + 1]
  <1>1. /\ \A x \in QbWorkers : qbc'[x] = IF x = w THEN "export" ELSE qbc[x]
        /\ \A x \in QbWorkers : item'[x] = IF x = w THEN r ELSE item[x]
    BY DEF ExportInv
  <1>2. SendersOf(r.doc)' = SendersOf(r.doc) \cup {w} /\ w \notin SendersOf(r.doc)
    BY <1>1 DEF SendersOf
  <1>3. ASSUME NEW d \in Docs, d # r.doc PROVE SendersOf(d)' = SendersOf(d)
    BY <1>1, <1>3 DEF SendersOf
  <1>4. Cardinality(SendersOf(r.doc) \cup {w}) = Cardinality(SendersOf(r.doc)) + 1
    BY <1>2, SendersCount, FS_AddElement
  <1>5. QbAttempts = [d \in Docs |-> Cardinality(SendersOf(d))]
    BY DEF QbAttempts, OnlyOnce
  <1>6. QbAttempts' = [d \in Docs |-> Cardinality(SendersOf(d)')]
    BY DEF QbAttempts, OnlyOnce
  <1>7. ASSUME NEW d \in Docs
        PROVE  Cardinality(SendersOf(d)') = [QbAttempts EXCEPT ![r.doc] = @ + 1][d]
    <2>1. CASE d = r.doc
      BY <1>2, <1>4, <1>5, <2>1
    <2>2. CASE d # r.doc
      BY <1>3, <1>5, <2>2
    <2> QED
      BY <2>1, <2>2
  <1> QED
    BY <1>5, <1>6, <1>7

(* One that posts it or gives up is one less.                              *)
LEMMA OneLessSender ==
    ASSUME ExportInv, NEW w \in QbWorkers, UNCHANGED docKind, docKind \notin Twice,
           qbc[w] = "export", NEW k, k # "export", qbc' = [qbc EXCEPT ![w] = k],
           NEW r, item' = [item EXCEPT ![w] = r]
    PROVE  /\ item[w].doc \in Docs /\ QbAttempts[item[w].doc] > 0
           /\ QbAttempts' = [QbAttempts EXCEPT ![item[w].doc] = @ - 1]
  <1> DEFINE doc == item[w].doc
  <1>1. /\ \A x \in QbWorkers : qbc'[x] = IF x = w THEN k ELSE qbc[x]
        /\ \A x \in QbWorkers : item'[x] = IF x = w THEN r ELSE item[x]
        /\ doc \in Docs
    BY DEF ExportInv
  <1>2. PICK e \in Docs : e = doc
    BY <1>1
  <1>3. SendersOf(e)' = SendersOf(e) \ {w} /\ w \in SendersOf(e)
    BY <1>1, <1>2 DEF SendersOf
  <1>4. ASSUME NEW d \in Docs, d # e PROVE SendersOf(d)' = SendersOf(d)
    BY <1>1, <1>2, <1>4 DEF SendersOf
  <1>5. /\ Cardinality(SendersOf(e) \ {w}) = Cardinality(SendersOf(e)) - 1
        /\ Cardinality(SendersOf(e)) > 0
    <2>1. IsFiniteSet(SendersOf(e)) /\ Cardinality(SendersOf(e)) \in Nat
      BY SendersCount
    <2>2. Cardinality(SendersOf(e)) # 0
      BY <1>3, <2>1, FS_EmptySet
    <2>3. Cardinality(SendersOf(e) \ {w}) = Cardinality(SendersOf(e)) - 1
      BY <1>3, <2>1, FS_RemoveElement
    <2> QED
      BY <2>1, <2>2, <2>3
  <1>6. QbAttempts = [d \in Docs |-> Cardinality(SendersOf(d))]
    BY DEF QbAttempts, OnlyOnce
  <1>7. QbAttempts' = [d \in Docs |-> Cardinality(SendersOf(d)')]
    BY DEF QbAttempts, OnlyOnce
  <1>8. ASSUME NEW d \in Docs
        PROVE  Cardinality(SendersOf(d)') = [QbAttempts EXCEPT ![e] = @ - 1][d]
    <2>1. CASE d = e
      <3>1. Cardinality(SendersOf(e)') = Cardinality(SendersOf(e)) - 1
        BY <1>3, <1>5
      <3>2. [QbAttempts EXCEPT ![e] = @ - 1][e] = Cardinality(SendersOf(e)) - 1
        BY <1>6
      <3> QED
        BY <2>1, <3>1, <3>2
    <2>2. CASE d # e
      BY <1>4, <1>6, <2>2
    <2> QED
      BY <2>1, <2>2
  <1>9. QbAttempts' = [QbAttempts EXCEPT ![e] = @ - 1] /\ QbAttempts[e] > 0
    BY <1>5, <1>6, <1>7, <1>8
  <1> QED
    BY <1>2, <1>9

LEMMA ExportStep ==
    ASSUME ExportInv, NEW w \in QbWorkers, NEW d \in Docs, ExportQb(w, d)
    PROVE  ExportInv' /\ [Q!Next]_Q!vars
  <1> DEFINE r == [item[w] EXCEPT !.doc = d]
  <1>1. /\ ItemFielded(r) /\ r.doc = d
    BY Stays, ItemFields
  <1>2. /\ qbc[w] = "idle" /\ qbc' = [qbc EXCEPT ![w] = "export"]
        /\ item' = [item EXCEPT ![w] = r] /\ qsnap' = [qsnap EXCEPT ![w] = qdb]
        /\ docKind \notin Twice => qdb.id[d] = 0
        /\ UNCHANGED <<world, docKind, remote, qdb, line>>
    BY DEF ExportQb, ToExportQb
  <1> HIDE DEF r
  <1>3. ExportInv'
    <2>1. Knows("export", r, qdb, remote')
      BY <1>1, <1>2 DEF Knows
    <2>2. line' = [line EXCEPT ![w] = line[w]] /\ line[w] \in Nat /\ ~ (line[w] > 0)
      BY <1>2, Stays
    <2>3. RowsFielded(qdb') /\ qdb'.id \in [Docs -> Nat]
      BY <1>2 DEF ExportInv
    <2>4. Sequel(remote, remote')
      BY <1>2, SameRemote
    <2> QED
      BY <1>1, <1>2, <2>1, <2>2, <2>3, <2>4, InvStep
  <1>4. docKind \notin Twice => Q!Begin(d)
    <2> SUFFICES ASSUME docKind \notin Twice PROVE Q!Begin(d)
      OBVIOUS
    <2>1. QbAttempts' = [QbAttempts EXCEPT ![d] = @ + 1]
      BY <1>1, <1>2, OneMoreSender
    <2>2. UNCHANGED <<QbCopies, QbStored>>
      BY <1>2, SameCopies, SameStored
    <2>3. ~ QbStored[d]
      BY <1>2 DEF QbStored
    <2> QED
      BY <2>1, <2>2, <2>3 DEF Q!Begin
  <1> QED
    BY <1>2, <1>3, <1>4, TwiceStutters DEF Q!Next

(* The lines of an order that are the first of their product.              *)
LEMMA ShapeIs == ASSUME NEW k, NEW x \in Shape(k) PROVE x \in SUBSET AllLines
  BY QbAssumption DEF Shape, AllLines

LEMMA PostStep ==
    ASSUME ExportInv, NEW w \in QbWorkers, PostQb(w)
    PROVE  ExportInv' /\ [Q!Next]_Q!vars
  <1> DEFINE doc == item[w].doc
             n == Len(remote)
             r == [item[w] EXCEPT !.id = n + 1]
  <1>0. PICK fresh \in Shape(docKind) :
           remote' = Append(remote, [kind |-> docKind, of |-> 0, home |-> doc, odd |-> FALSE,
                                     twin |-> FALSE, fresh |-> fresh])
    BY DEF PostQb
  <1> DEFINE new == [kind |-> docKind, of |-> 0, home |-> doc, odd |-> FALSE,
                     twin |-> FALSE, fresh |-> fresh]
  <1>1. /\ qbc[w] = "export" /\ qbc' = [qbc EXCEPT ![w] = "posted"]
        /\ remote' = Append(remote, new) /\ item' = [item EXCEPT ![w] = r]
        /\ UNCHANGED <<world, docKind, qdb, qsnap, line>>
    BY <1>0 DEF PostQb
  <1>2. doc \in Docs /\ (docKind \notin Twice => qsnap[w].id[doc] = 0)
    BY <1>1 DEF ExportInv
  <1>3. ItemFielded(r) /\ r.doc = doc /\ r.id = n + 1
    BY Stays, ItemFields
  <1>4. new \in RemoteObject /\ new.home = doc
    <2>1. docKind \in QbKinds /\ 0 \in 0 .. N /\ fresh \in SUBSET AllLines
      BY QbAssumption, ShapeIs DEF ExportInv
    <2> QED
      BY <1>2, <2>1 DEF RemoteObject
  <1>5. remote \in Seq(RemoteObject) /\ n \in Nat
    BY DEF ExportInv
  <1> HIDE DEF r, new, doc
  <1>6. /\ remote' \in Seq(RemoteObject) /\ Len(remote') = n + 1 /\ remote'[n + 1] = new
        /\ \A i \in 1 .. n : remote'[i] = remote[i]
    BY <1>1, <1>4, <1>5
  <1>7. Sequel(remote, remote')
    BY <1>5, <1>6 DEF Sequel
  <1>8. ExportInv'
    <2>1. Knows("posted", r, qsnap[w], remote')
      BY <1>2, <1>3, <1>4, <1>5, <1>6 DEF Knows
    <2>2. /\ line' = [line EXCEPT ![w] = line[w]] /\ line[w] \in Nat /\ ~ (line[w] > 0)
          /\ qsnap' = [qsnap EXCEPT ![w] = qsnap[w]]
      BY <1>1, Stays
    <2>3. RowsFielded(qdb') /\ qdb'.id \in [Docs -> Nat]
      BY <1>1 DEF ExportInv
    <2> QED
      BY <1>1, <1>3, <1>7, <2>1, <2>2, <2>3, InvStep
  <1>9. docKind \notin Twice => Q!Post(doc)
    <2> SUFFICES ASSUME docKind \notin Twice PROVE Q!Post(doc)
      OBVIOUS
    <2>1. QbAttempts[doc] > 0 /\ QbAttempts' = [QbAttempts EXCEPT ![doc] = @ - 1]
      BY <1>1, OneLessSender DEF doc
    <2>2. UNCHANGED QbStored
      BY <1>1, SameStored
    <2>0. PICK e \in Docs : e = doc
      BY <1>2
    <2>3. CopiesOf(e)' = CopiesOf(e) \cup {n + 1} /\ n + 1 \notin CopiesOf(e)
      <3>1. 1 .. Len(remote') = (1 .. n) \cup {n + 1} /\ n + 1 \notin 1 .. n
        BY <1>5, <1>6
      <3> QED
        BY <1>4, <1>6, <2>0, <3>1 DEF CopiesOf, Made
    <2>4. ASSUME NEW d \in Docs, d # e PROVE CopiesOf(d)' = CopiesOf(d)
      <3>1. 1 .. Len(remote') = (1 .. n) \cup {n + 1}
        BY <1>5, <1>6
      <3> QED
        BY <1>4, <1>6, <2>0, <2>4, <3>1 DEF CopiesOf, Made
    <2>5. Cardinality(CopiesOf(e) \cup {n + 1}) = Cardinality(CopiesOf(e)) + 1
      BY <2>3, CopiesCount, FS_AddElement
    <2>6. QbCopies = [d \in Docs |-> Cardinality(CopiesOf(d))]
      BY DEF QbCopies, OnlyOnce
    <2>7. QbCopies' = [d \in Docs |-> Cardinality(CopiesOf(d)')]
      BY <1>1 DEF QbCopies, OnlyOnce
    <2>8. ASSUME NEW d \in Docs
          PROVE  Cardinality(CopiesOf(d)') = [QbCopies EXCEPT ![e] = @ + 1][d]
      <3>1. CASE d = e
        <4>1. Cardinality(CopiesOf(e)') = Cardinality(CopiesOf(e)) + 1
          BY <2>3, <2>5
        <4>2. [QbCopies EXCEPT ![e] = @ + 1][e] = Cardinality(CopiesOf(e)) + 1
          BY <2>6
        <4> QED
          BY <3>1, <4>1, <4>2
      <3>2. CASE d # e
        BY <2>4, <2>6, <3>2
      <3> QED
        BY <3>1, <3>2
    <2>9. QbCopies' = [QbCopies EXCEPT ![doc] = @ + 1]
      BY <2>0, <2>6, <2>7, <2>8
    <2> QED
      BY <2>1, <2>2, <2>9 DEF Q!Post
  <1> QED
    BY <1>1, <1>2, <1>8, <1>9, TwiceStutters DEF Q!Next

(* What StoreQb and its like commit.                                       *)
LEMMA StoredRows ==
    ASSUME ExportInv, NEW w
    PROVE  /\ RowsFielded(Stored(w))
           /\ Stored(w).id = [qdb.id EXCEPT ![item[w].doc] = item[w].id]
  <1> DEFINE x == [qdb.id EXCEPT ![item[w].doc] = item[w].id]
             r1 == [qdb EXCEPT !.id = x]
             y == [j \in Ids |-> r1.copies[j] + One(j = item[w].id)
                                   - One(j = qsnap[w].id[item[w].doc])]
             r2 == [r1 EXCEPT !.copies = y]
             z == IF docKind = "order" THEN AllLines ELSE {}
             r3 == [r2 EXCEPT !.lines[item[w].id] = z]
  <1>1. Stored(w) = r3
    BY DEF Stored
  <1>2. RowsFielded(r1) /\ r1.id = x
    <2> HIDE DEF x
    <2> QED
      BY RowsFields DEF ExportInv
  <1>3. RowsFielded(r2) /\ r2.id = r1.id
    <2> HIDE DEF r1, y
    <2> QED
      BY <1>2, RowsFields
  <1>4. RowsFielded(r3) /\ r3.id = r2.id
    <2> HIDE DEF r2, z
    <2> QED
      BY <1>3, RowsChange
  <1> HIDE DEF r1, r2, r3
  <1> QED
    BY <1>1, <1>2, <1>3, <1>4

LEMMA StoreStep ==
    ASSUME ExportInv, NEW w \in QbWorkers,
           \/ StoreQb(w) \/ StoreTax(w)
           \/ StoreEmployee(w) \/ StoreDepartment(w) \/ StoreTerm(w)
           \/ StoreAccount(w) \/ StoreAgency(w) \/ StoreMethod(w)
    PROVE  ExportInv' /\ [Q!Next]_Q!vars
  <1> DEFINE doc == item[w].doc
             i == item[w].id
  <1>1. qbc[w] = "posted" /\ SameId(w)
    BY DEF StoreQb, StoreTax, StoreEmployee, StoreDepartment, StoreTerm, StoreOnly,
           StoreAccount, StoreAgency, StoreMethod, StoreAndMove
  <1>2. /\ RowsFielded(Stored(w)) /\ Stored(w).id = [qdb.id EXCEPT ![doc] = i]
        /\ \A k, x : SameIds(Stored(w), [Stored(w) EXCEPT !.cursor[k] = x])
    <2>1. RowsFielded(Stored(w)) /\ Stored(w).id = [qdb.id EXCEPT ![doc] = i]
      BY StoredRows
    <2> DEFINE v == Stored(w)
    <2> HIDE DEF v
    <2>2. RowsFielded(v)
      BY <2>1 DEF v
    <2>3. \A k, x : SameIds(v, [v EXCEPT !.cursor[k] = x])
      BY <2>2, RowsChange DEF SameIds
    <2> QED
      BY <2>1, <2>3 DEF v
  <1>3. PICK v : (\E moves : EndWith(w, v, moves)) /\ SameIds(Stored(w), v)
    <2>1. SameIds(Stored(w), Stored(w))
      BY <1>2 DEF SameIds
    <2>2. CASE StoreQb(w) \/ StoreEmployee(w) \/ StoreDepartment(w) \/ StoreTerm(w)
      <3>1. PICK k : StoreOnly(w, k)
        BY <2>2 DEF StoreQb, StoreEmployee, StoreDepartment, StoreTerm
      <3> QED
        BY <2>1, <3>1 DEF StoreOnly, CommitAndEnd
    <2>3. CASE StoreAccount(w) \/ StoreAgency(w) \/ StoreMethod(w)
      <3>1. PICK k, c : StoreAndMove(w, k, c)
        BY <2>3 DEF StoreAccount, StoreAgency, StoreMethod
      <3> QED
        BY <1>2, <3>1 DEF StoreAndMove, CommitAndEnd
    <2>4. CASE StoreTax(w)
      BY <1>2, <2>1, <2>4 DEF StoreTax
    <2> QED
      BY <2>2, <2>3, <2>4
  <1>4. /\ RowsFielded(qdb') /\ qdb'.id = [qdb.id EXCEPT ![doc] = i]
        /\ qbc' = [qbc EXCEPT ![w] = "idle"] /\ item' = [item EXCEPT ![w] = NoItem]
        /\ qsnap' = [qsnap EXCEPT ![w] = EmptyRows] /\ line' = [line EXCEPT ![w] = 0]
        /\ UNCHANGED <<world, docKind, remote>>
    BY <1>2, <1>3 DEF EndWith, QbEnd, SameIds
  <1>5. /\ doc \in Docs /\ i \in 1 .. Len(remote) /\ remote[i].home = doc
        /\ docKind \notin Twice => qsnap[w].id[doc] = 0
        /\ Len(remote) \in Nat /\ qdb.id \in [Docs -> Nat]
    BY <1>1 DEF ExportInv
  <1> HIDE DEF doc, i
  <1>6. ItemFielded(NoItem) /\ 0 \in Nat /\ ~ (0 > 0)
    BY DEF ItemFielded, NoItem
  <1>7. ExportInv'
    <2>1. qdb'.id \in [Docs -> Nat]
      BY <1>4, <1>5
    <2>2. Knows("idle", NoItem, EmptyRows, remote')
      BY DEF Knows
    <2> QED
      BY <1>4, <1>6, <2>1, <2>2, SameRemote, InvStep
  <1>8. docKind \notin Twice => Q!Store(doc)
    <2> SUFFICES ASSUME docKind \notin Twice PROVE Q!Store(doc)
      OBVIOUS
    <2>1. UNCHANGED QbAttempts
      <3>1. qbc[w] # "export" /\ "idle" # "export"
        BY <1>1
      <3> QED
        BY <1>4, <3>1, SameSenders
    <2>2. UNCHANGED QbCopies
      BY <1>4, SameCopies
    <2>3. QbCopies[doc] > 0
      <3>1. i \in CopiesOf(doc)
        BY <1>5 DEF CopiesOf, Made
      <3>2. IsFiniteSet(CopiesOf(doc)) /\ Cardinality(CopiesOf(doc)) \in Nat
        BY CopiesCount
      <3>3. Cardinality(CopiesOf(doc)) # 0
        BY <3>1, <3>2, FS_EmptySet
      <3> QED
        BY <1>5, <3>2, <3>3 DEF QbCopies, OnlyOnce
    <2>4. ~ QbStored[doc]
      BY <1>1, <1>5 DEF SameId, QbStored, doc
    <2>5. QbStored' = [QbStored EXCEPT ![doc] = TRUE]
      <3>1. QbStored' = [d \in Docs |-> qdb'.id[d] # 0]
        BY <1>4 DEF QbStored
      <3>2. QbStored = [d \in Docs |-> qdb.id[d] # 0]
        BY DEF QbStored
      <3>3. ASSUME NEW d \in Docs
            PROVE  (qdb'.id[d] # 0) = [QbStored EXCEPT ![doc] = TRUE][d]
        <4>1. CASE d = doc
          <5>1. qdb'.id[d] # 0
            BY <1>4, <1>5, <4>1
          <5>2. [QbStored EXCEPT ![doc] = TRUE][d] = TRUE
            BY <3>2, <4>1
          <5> QED
            BY <5>1, <5>2
        <4>2. CASE d # doc
          <5>1. qdb'.id[d] = qdb.id[d]
            BY <1>4, <1>5, <4>2
          <5>2. [QbStored EXCEPT ![doc] = TRUE][d] = (qdb.id[d] # 0)
            BY <3>2, <4>2
          <5> QED
            BY <5>1, <5>2
        <4> QED
          BY <4>1, <4>2
      <3>4. DOMAIN QbStored = Docs
        BY <3>2
      <3> QED
        BY <3>1, <3>2, <3>3, <3>4
    <2> QED
      BY <2>1, <2>2, <2>3, <2>4, <2>5 DEF Q!Store
  <1> QED
    BY <1>4, <1>5, <1>7, <1>8, TwiceStutters DEF Q!Next

(* A request that ends without a commit, and somebody in QuickBooks.       *)
LEMMA LoseStep ==
    ASSUME ExportInv, NEW w \in QbWorkers, QbLose(w)
    PROVE  ExportInv' /\ [Q!Next]_Q!vars
  <1> DEFINE doc == item[w].doc
  <1>1. /\ qbc' = [qbc EXCEPT ![w] = "idle"] /\ item' = [item EXCEPT ![w] = NoItem]
        /\ qsnap' = [qsnap EXCEPT ![w] = EmptyRows] /\ line' = [line EXCEPT ![w] = 0]
        /\ UNCHANGED <<world, docKind, remote, qdb>>
    BY DEF QbLose, QbEnd
  <1>2. ItemFielded(NoItem) /\ 0 \in Nat /\ ~ (0 > 0)
    BY DEF ItemFielded, NoItem
  <1>3. ExportInv'
    <2>1. RowsFielded(qdb') /\ qdb'.id \in [Docs -> Nat]
      BY <1>1 DEF ExportInv
    <2>2. Knows("idle", NoItem, EmptyRows, remote')
      BY DEF Knows
    <2> QED
      BY <1>1, <1>2, <2>1, <2>2, SameRemote, InvStep
  <1>4. UNCHANGED <<QbCopies, QbStored>>
    BY <1>1, SameCopies, SameStored
  <1>5. CASE qbc[w] # "export"
    <2>1. UNCHANGED QbAttempts
      <3>1. "idle" # "export"
        OBVIOUS
      <3> QED
        BY <1>1, <1>5, <3>1, SameSenders
    <2> QED
      BY <1>3, <1>4, <2>1 DEF Q!vars
  <1>6. CASE qbc[w] = "export"
    <2>1. docKind \notin Twice => Q!GiveUp(doc) /\ doc \in Docs
      BY <1>1, <1>4, <1>6, OneLessSender DEF Q!GiveUp
    <2> QED
      BY <1>1, <1>3, <2>1, TwiceStutters DEF Q!Next
  <1> QED
    BY <1>5, <1>6

LEMMA MakeStep ==
    ASSUME ExportInv, NEW k \in QbKinds, MakeQb(k)
    PROVE  ExportInv' /\ [Q!Next]_Q!vars
  <1> DEFINE n == Len(remote)
  <1>1. PICK odd \in BOOLEAN, twin \in BOOLEAN, of \in 0 .. n, fresh \in Shape(k) :
           remote' = Append(remote, [kind |-> k, of |-> of, home |-> 0, odd |-> odd,
                                     twin |-> twin, fresh |-> fresh])
    BY DEF MakeQb
  <1> DEFINE new == [kind |-> k, of |-> of, home |-> 0, odd |-> odd,
                     twin |-> twin, fresh |-> fresh]
  <1>2. remote \in Seq(RemoteObject) /\ n \in Nat /\ n < N /\ N \in Nat
    BY QbAssumption DEF ExportInv, MakeQb, Room
  <1>3. new \in RemoteObject /\ new.home = 0
    <2>1. of \in 0 .. N /\ fresh \in SUBSET AllLines
      BY <1>2, ShapeIs
    <2> QED
      BY <2>1 DEF RemoteObject
  <1> HIDE DEF new
  <1>4. /\ remote' \in Seq(RemoteObject) /\ Len(remote') = n + 1 /\ remote'[n + 1] = new
        /\ \A i \in 1 .. n : remote'[i] = remote[i]
    BY <1>1, <1>2, <1>3 DEF new
  <1>5. UNCHANGED <<world, docKind, qdb, qbc, line, qsnap, item>>
    BY DEF MakeQb
  <1>6. Sequel(remote, remote')
    BY <1>2, <1>4 DEF Sequel
  <1>7. ExportInv'
    <2>1. \A i \in 1 .. n : i \in 1 .. Len(remote')
      BY <1>2, <1>4
    <2> QED
      BY <1>4, <1>5, <2>1 DEF ExportInv
  <1>8. UNCHANGED <<QbAttempts, QbStored>>
    BY <1>5, SameStored DEF QbAttempts, OnlyOnce, SendersOf
  <1>9. UNCHANGED QbCopies
    <2>1. ASSUME NEW d \in Docs PROVE CopiesOf(d)' = CopiesOf(d)
      <3>1. 1 .. Len(remote') = (1 .. n) \cup {n + 1} /\ d # 0
        BY <1>2, <1>4, QbAssumption
      <3> QED
        BY <1>3, <1>4, <3>1 DEF CopiesOf, Made
    <2> QED
      BY <1>5, <2>1 DEF QbCopies, OnlyOnce
  <1> QED
    BY <1>7, <1>8, <1>9 DEF Q!vars

LEMMA ExportNext == ExportInv /\ [QbNext]_qbvars => ExportInv' /\ [Q!Next]_Q!vars
  <1> SUFFICES ASSUME ExportInv, [QbNext]_qbvars PROVE ExportInv' /\ [Q!Next]_Q!vars
    OBVIOUS
  <1>1. CASE UNCHANGED qbvars
    <2>1. ExportInv'
      BY <1>1 DEF qbvars, ExportInv
    <2>2. UNCHANGED Q!vars
      BY <1>1 DEF qbvars, Q!vars, QbAttempts, QbCopies, QbStored, SendersOf, CopiesOf, Made, OnlyOnce
    <2> QED
      BY <2>1, <2>2
  <1>2. ASSUME NEW w \in QbWorkers, Aside(w) PROVE ExportInv' /\ [Q!Next]_Q!vars
    BY <1>2, AsideKeeps
  <1>3. CASE QbNext
    BY <1>2, <1>3, ImportsAside, StepsAside, IdleAside, ExportStep, PostStep, StoreStep,
       LoseStep, MakeStep DEF QbNext
  <1> QED
    BY <1>1, <1>3

LEMMA ExportInit == QbInit => ExportInv /\ Q!Init
  <1> SUFFICES ASSUME QbInit PROVE ExportInv /\ Q!Init
    OBVIOUS
  <1>1. RowsFielded(EmptyRows) /\ EmptyRows.id = [d \in Docs |-> 0] /\ ItemFielded(NoItem)
    BY DEF EmptyRows, RowsFielded, ItemFielded, NoItem
  <1>2. ExportInv
    <2>1. <<>> \in Seq(RemoteObject) /\ ~ (0 > 0)
      OBVIOUS
    <2> QED
      BY <1>1, <2>1 DEF QbInit, ExportInv
  <1>3. ASSUME NEW d \in Docs PROVE SendersOf(d) = {} /\ CopiesOf(d) = {} /\ qdb.id[d] = 0
    BY <1>1 DEF QbInit, SendersOf, CopiesOf, Made
  <1>4. Cardinality({}) = 0
    BY FS_EmptySet
  <1> QED
    BY <1>2, <1>3, <1>4 DEF Q!Init, QbAttempts, QbCopies, QbStored, OnlyOnce

(* What is posted to QuickBooks is posted as RemoteExport promises, by     *)
(* every export there is but those of agencies, taxes, payment methods and *)
(* vendor payments, which are exported again: nobody begins to post a      *)
(* document whose id is stored, and no id takes the place of another.      *)
THEOREM DocumentsExported == QbSpec => QbExports
  <1>1. QbInit => ExportInv /\ Q!Init
    BY ExportInit
  <1>2. ExportInv /\ [QbNext]_qbvars => ExportInv' /\ [Q!Next]_Q!vars
    BY ExportNext
  <1> QED
    BY <1>1, <1>2, PTL DEF QbSpec, QbExports, Q!Spec

-----------------------------------------------------------------------------
(* QuickBooks: imports.                                                    *)

(* The objects that an import takes, that it finds by their id alone and   *)
(* whose cursor does not jump, and those that may be created twice.        *)
Regular == {i \in Made : ~ remote[i].odd /\ ~ Shared(i) /\ ~ Jumping(Kind(i))}
Excused == {i \in Made : QbExcused(i)}
Guarded == InvoiceKinds \cup PayKinds \cup {"agency"}

ObjectsOK ==
    /\ Len(remote) <= N
    /\ \A i \in Made :
          /\ Kind(i) \in world
          /\ remote[i].home # 0 => Kind(i) = docKind /\ ~ remote[i].twin
          /\ remote[i].of # 0 => Kind(i) \in {"payment", "category"}
          /\ remote[i].of # 0 /\ Kind(i) = "category" =>
                /\ remote[i].of \in Made /\ remote[i].of < i /\ Kind(remote[i].of) = "category"
                /\ ~ remote[i].odd /\ ~ remote[remote[i].of].odd

SyncTyped ==
    /\ qtodo \in [QbWorkers -> SUBSET Ids] /\ stale \in [QbWorkers -> BOOLEAN]
    /\ pend \in [QbWorkers -> [cursor : Nat, met : SUBSET Ids, made : SUBSET Ids]]
    /\ qdb.copies \in [Ids -> Nat] /\ qdb.lines \in [Ids -> SUBSET AllLines] /\ qdb.cursor \in [world -> Nat]

CommittedOK ==
    /\ \A i \in Ids \ Made : qdb.copies[i] = 0
    /\ \A k \in world : qdb.cursor[k] <= Len(remote)
    /\ \A d \in Docs : qdb.id[d] # 0 =>
          /\ qdb.id[d] \in Made /\ remote[qdb.id[d]].home = d /\ qdb.copies[qdb.id[d]] >= 1
    /\ \A i \in qdb.drafts : i \in Made /\ remote[i].home # 0

NoGaps == \A i \in Regular : i <= qdb.cursor[Kind(i)] => qdb.copies[i] > 0

(* Products are imported in their order.                                   *)
InOrder ==
    \A i \in Regular, j \in Made :
        Kind(i) = "product" /\ Kind(j) = "product" /\ i < j /\ qdb.copies[j] > 0 => qdb.copies[i] > 0

(* What is in Odoo already and beyond its cursor was exported.             *)
Ahead ==
    \A i \in Made : i > qdb.cursor[Kind(i)] /\ qdb.copies[i] # 0 =>
        /\ Kind(i) \in InvoiceKinds => remote[i].home # 0
        /\ Kind(i) \in PayKinds \cup {"agency"} => i \in Excused

Once == \A i \in Made : qdb.copies[i] <= 1 \/ i \in Excused

WritesOK(w) ==
    /\ pend[w].cursor <= Len(remote) /\ item[w].id \in 0..Len(remote)
    /\ qbc[w] = "idle" => item[w].id = 0
    /\ pend[w].met # {} => qbc[w] = "order"
    /\ pend[w].made # {} => qbc[w] = "category"
    /\ \A i \in pend[w].made : i \in Made /\ Kind(i) = "category" /\ remote[i].of # 0
    /\ pend[w].met \subseteq Made
    /\ qbc[w] \notin Stepwise => pend[w] = NoWrites
    /\ qbc[w] \in QbKinds \ Stepwise => qtodo[w] # {}

SnapshotOK(w) ==
    /\ qsnap[w].copies \in [Ids -> Nat]
    /\ \A i \in Ids \ Made : qsnap[w].copies[i] = 0

Seen(w) == qtodo[w] \cup {item[w].id}

ImportOK(w) ==
    /\ qbc[w] \in world
    /\ \A i \in qtodo[w] : i \in Made /\ Kind(i) = qbc[w]
    /\ \A i \in Regular, j \in Seen(w) :
          Kind(i) = qbc[w] /\ i <= j =>
              i \in qtodo[w] \/ qdb.copies[i] > 0 \/ i \in pend[w].made
    /\ \A i \in Regular : Kind(i) = qbc[w] /\ i <= pend[w].cursor => qdb.copies[i] > 0
    /\ \A i \in Regular : qsnap[w].copies[i] > 0 => qdb.copies[i] > 0
    /\ \A i \in qtodo[w] : qsnap[w].copies[i] = 0 =>
          \/ qdb.copies[i] = 0 \/ i \in Excused
          \/ qbc[w] \notin Stepwise /\ stale[w] /\ i \in raced
    /\ qbc[w] \in InvoiceKinds => \A i \in qtodo[w] : qsnap[w].copies[i] # 0 => remote[i].home # 0
    /\ qbc[w] \in Guarded /\ ~ stale[w] => \A i \in qtodo[w] : i > qdb.cursor[qbc[w]]

PostedOK(w) ==
    /\ qdb.copies[item[w].id] = 0 \/ item[w].id \in Excused
    /\ docKind = "agency" /\ ~ stale[w] => item[w].id > qdb.cursor["agency"]

LineOK(w) ==
    line[w] > 0 => /\ line[w] <= QbLines /\ qbc[w] = "order" /\ qtodo[w] # {}
                   /\ 1 .. (line[w] - 1) \subseteq qdb.lines[Min(qtodo[w])]
                   /\ qdb.copies[Min(qtodo[w])] > 0

JobOK(w) ==
    /\ qbc[w] \notin QbKinds => qtodo[w] = {}
    /\ SnapshotOK(w) /\ WritesOK(w) /\ LineOK(w)
    /\ qbc[w] \in QbKinds => ImportOK(w)
    /\ qbc[w] = "posted"  => PostedOK(w)

Apart(w, x) ==
    /\ qtodo[w] \cap qtodo[x] \subseteq raced
    /\ qbc[x] = "posted" => (item[x].id \in qtodo[w] => item[x].id \in raced)
    /\ qbc[w] = "posted" /\ qbc[x] = "posted" => item[w].id # item[x].id

SyncInv ==
    /\ ObjectsOK /\ SyncTyped /\ CommittedOK /\ NoGaps /\ InOrder /\ Ahead /\ Once /\ QbWholeOrders
    /\ \A w \in QbWorkers : JobOK(w)
    /\ \A w, x \in QbWorkers : w # x => Apart(w, x)

-----------------------------------------------------------------------------
(* QuickBooks: the least and the greatest of some objects.                 *)

LEMMA MinIs ==
    ASSUME NEW S \in SUBSET Nat, S # {}
    PROVE  Min(S) \in S /\ \A x \in S : Min(S) <= x
  <1>1. PICK x \in S : \A y \in S : ~ (<<y, x>> \in OpToRel(<, Nat))
    BY NatLessThanWellFounded, WFMin
  <1>2. ASSUME NEW y \in S PROVE x <= y
    <2>1. x \in Nat /\ y \in Nat
      OBVIOUS
    <2>2. ~ (y < x)
      BY <1>1, <2>1 DEF OpToRel
    <2> QED
      BY <2>1, <2>2
  <1> QED
    BY <1>2 DEF Min

LEMMA MaxIs ==
    ASSUME NEW n \in Nat, NEW S \in SUBSET (0..n), S # {}
    PROVE  Max(S) \in S /\ \A x \in S : x <= Max(S)
  <1> DEFINE B == {b \in Nat : \A x \in S : x <= b}
  <1>1. n \in B /\ B \in SUBSET Nat
    OBVIOUS
  <1>2. PICK b \in B : \A c \in B : ~ (<<c, b>> \in OpToRel(<, Nat))
    BY <1>1, NatLessThanWellFounded, WFMin
  <1>3. b \in Nat /\ n \in Nat /\ \A x \in S : x <= b /\ x \in Nat
    <2>1. b \in B
      OBVIOUS
    <2>2. \A x \in S : x \in Nat
      OBVIOUS
    <2> QED
      BY <2>1, <2>2
  <1>4. b \in S
    <2> SUFFICES ASSUME b \notin S PROVE FALSE
      OBVIOUS
    <2>1. \A x \in S : x < b
      BY <1>3
    <2>2. b - 1 \in Nat
      <3>1. PICK x : x \in S
        OBVIOUS
      <3>2. x \in Nat /\ x < b
        BY <1>3, <2>1, <3>1
      <3> QED
        BY <1>3, <3>2
    <2>3. b - 1 \in B
      BY <1>3, <2>1, <2>2
    <2>4. <<b - 1, b>> \in OpToRel(<, Nat)
      BY <1>3, <2>2 DEF OpToRel
    <2> QED
      BY <1>2, <2>3, <2>4
  <1>5. \E y \in S : \A x \in S : y >= x
    BY <1>3, <1>4
  <1>6. Max(S) \in S /\ \A x \in S : Max(S) >= x
    BY <1>5 DEF Max
  <1> QED
    BY <1>3, <1>6

(* An answer holds objects beyond the cursor, and the first of them.       *)
LEMMA FetchedIs ==
    ASSUME ExportInv, NEW k
    PROVE  /\ Fetched(k) \subseteq {i \in Made : Kind(i) = k /\ i > qdb.cursor[k]}
           /\ \A j \in Fetched(k), i \in Made :
                 Kind(i) = k /\ i > qdb.cursor[k] /\ i <= j => i \in Fetched(k)
  <1> DEFINE all == {i \in Made : Kind(i) = k /\ i > qdb.cursor[k]}
  <1>1. Fetched(k) = {i \in all : Cardinality({j \in all : j < i}) < Limit}
    BY DEF Fetched, Lowest
  <1>0. Len(remote) \in Int /\ 1 \in Int /\ Len(remote) \in Nat /\ Limit \in Nat
    BY QbAssumption DEF ExportInv
  <1>2. ASSUME NEW j \in Fetched(k), NEW i \in all, i <= j PROVE i \in Fetched(k)
    <2> DEFINE A == {x \in all : x < i}
               B == {x \in all : x < j}
    <2>1. IsFiniteSet(1 .. Len(remote))
      BY <1>0, FS_Interval
    <2>2. B \subseteq 1 .. Len(remote) /\ j \in 1 .. Len(remote) /\ i \in 1 .. Len(remote)
      BY <1>1 DEF Made
    <2>3. A \subseteq B
      <3> SUFFICES ASSUME NEW x \in all, x < i PROVE x < j
        OBVIOUS
      <3>1. x \in 1 .. Len(remote)
        BY DEF Made
      <3> QED
        BY <1>0, <1>2, <2>2, <3>1
    <2>4. IsFiniteSet(A) /\ IsFiniteSet(B) /\ Cardinality(A) <= Cardinality(B)
      BY <2>1, <2>2, <2>3, FS_Subset
    <2>5. Cardinality(A) \in Nat /\ Cardinality(B) \in Nat
      BY <2>4, FS_CardinalityType
    <2>6. Cardinality(B) < Limit
      BY <1>1
    <2>7. Cardinality(A) < Limit
      BY <1>0, <2>4, <2>5, <2>6
    <2> QED
      BY <1>1, <2>7
  <1> QED
    BY <1>1, <1>2

(* What grows: the objects of QuickBooks and what is known to race.        *)
LEMMA WorldGrows ==
    ASSUME ExportInv, Sequel(remote, remote'), raced \subseteq raced'
    PROVE  /\ Made \subseteq Made'
           /\ \A i \in Made : remote'[i] = remote[i]
           /\ \A i \in Made : i \in Regular' => i \in Regular
           /\ Excused \subseteq Excused'
  <1>1. Made \subseteq Made' /\ \A i \in Made : remote'[i] = remote[i]
    BY DEF Sequel, Made, ExportInv
  <1>2. \A k : Exported(k) => Exported(k)'
    BY <1>1 DEF Exported, Kind
  <1>3. ASSUME NEW k PROVE Jumping(k) => Jumping(k)'
    BY <1>1, <1>2 DEF Jumping
  <1>4. \A i \in Made : i \in Regular' => i \in Regular
    BY <1>1, <1>3 DEF Regular, Kind, Shared
  <1>5. ASSUME NEW i \in Made, QbExcused(i) PROVE QbExcused(i)'
    BY <1>1, <1>2, <1>5 DEF QbExcused, Kind
  <1> QED
    BY <1>1, <1>4, <1>5 DEF Excused

LEMMA SameWorld ==
    ASSUME UNCHANGED remote
    PROVE  /\ Made' = Made /\ Regular' = Regular
           /\ UNCHANGED raced => Excused' = Excused
  <1>1. Made' = Made
    BY DEF Made
  <1>2. Regular' = Regular
    BY DEF Regular, Made, Kind, Shared, Jumping, Exported
  <1>3. UNCHANGED raced => Excused' = Excused
    BY DEF Excused, Made, Kind, QbExcused, Exported
  <1> QED
    BY <1>1, <1>2, <1>3

(* A payment of an invoice and a category below another may be created     *)
(* twice.                                                                  *)
LEMMA BelowExcused ==
    ASSUME ObjectsOK, NEW i \in Made, remote[i].of # 0
    PROVE  i \in Excused
  BY DEF ObjectsOK, Excused, QbExcused, PayKinds

(* An exported object that several requests are at may be created twice,   *)
(* and so may one that is left out, or is committed by itself.             *)
LEMMA RacedExcused ==
    ASSUME NEW i \in Made, i \in raced,
           Kind(i) \in Stepwise \/ remote[i].home # 0 \/ remote[i].odd
    PROVE  i \in Excused
  BY DEF Excused, QbExcused

(* The categories above one, and the one at the top.                       *)
LEMMA AboveIs ==
    ASSUME ExportInv, ObjectsOK, NEW i \in Made, Kind(i) = "category", ~ remote[i].odd
    PROVE  LET top == Min(Above(i)) IN
           /\ Above(i) \subseteq {j \in Made : j <= i /\ Kind(j) = "category" /\ ~ remote[j].odd}
           /\ i \in Above(i) /\ top \in Above(i) /\ remote[top].of = 0
           /\ \A j \in Above(i) \ {top} : remote[j].of # 0
  <1> DEFINE up  == Above(i)
             top == Min(up)
             Low == {j \in Made : j <= i /\ Kind(j) = "category" /\ ~ remote[j].odd}
  <1>0. Len(remote) \in Nat /\ \A j \in Made : j \in Nat /\ j # 0
    BY DEF ExportInv, Made
  <1>1. \A j \in Made : j \in Above(j) /\ Above(j) \subseteq Made
    BY DEF Above
  <1>2. ASSUME NEW j \in Made, NEW S \in SUBSET Made, j \in S, Upwards(S)
        PROVE  Above(j) \subseteq S
    BY <1>2 DEF Above
  <1>3. Upwards(Low)
    <2> SUFFICES ASSUME NEW j \in Low, remote[j].of # 0 PROVE remote[j].of \in Low
      BY DEF Upwards
    <2>1. /\ remote[j].of \in Made /\ remote[j].of < j /\ Kind(remote[j].of) = "category"
          /\ ~ remote[remote[j].of].odd /\ j <= i
      BY DEF ObjectsOK
    <2>2. remote[j].of <= i
      BY <1>0, <2>1
    <2> QED
      BY <2>1, <2>2
  <1>4. up \subseteq Low
    BY <1>0, <1>2, <1>3
  <1>5. top \in up /\ \A j \in up : top <= j
    <2>1. up \in SUBSET Nat /\ up # {} /\ i \in Low
      BY <1>0, <1>1
    <2> HIDE DEF up
    <2> QED
      BY <2>1, MinIs
  <1>6. ASSUME NEW j \in Low PROVE Upwards(Above(j))
    <2> SUFFICES ASSUME NEW x \in Above(j), remote[x].of # 0
                 PROVE  remote[x].of \in Above(j)
      BY DEF Upwards
    <2>1. remote[x].of \in Made
      <3>1. x \in Low
        BY <1>2, <1>3
      <3> QED
        BY <1>3, <3>1 DEF Upwards
    <2>2. ASSUME NEW S \in SUBSET Made, j \in S, Upwards(S) PROVE remote[x].of \in S
      <3>1. x \in S
        BY <1>2, <2>2
      <3> QED
        BY <2>2, <3>1 DEF Upwards
    <2> QED
      BY <2>1, <2>2 DEF Above
  <1>7. remote[top].of = 0
    <2> SUFFICES ASSUME remote[top].of # 0 PROVE FALSE
      OBVIOUS
    <2>0. i \in Low
      BY <1>0
    <2>1. remote[top].of \in up
      BY <1>5, <1>6, <2>0 DEF Upwards
    <2>2. remote[top].of < top /\ top \in Made /\ remote[top].of \in Made
      BY <1>4, <1>5 DEF ObjectsOK
    <2> HIDE DEF top, up
    <2> QED
      BY <1>0, <1>5, <2>1, <2>2
  <1> DEFINE W == {j \in Low : top \in Above(j)}
  <1>8. Upwards(W)
    <2> SUFFICES ASSUME NEW j \in W, remote[j].of # 0
                 PROVE  remote[j].of \in Low /\ top \in Above(remote[j].of)
      BY DEF Upwards
    <2>2. remote[j].of \in Low /\ j # top
      BY <1>3, <1>7 DEF Upwards
    <2> DEFINE S == {j} \cup Above(remote[j].of)
    <2>3. S \in SUBSET Made /\ j \in S
      BY <1>1, <2>2
    <2>4. Upwards(S)
      BY <1>1, <1>6, <2>2 DEF Upwards
    <2>5. Above(j) \subseteq S
      <3> HIDE DEF S
      <3> QED
        BY <1>2, <2>3, <2>4
    <2> QED
      BY <2>2, <2>5
  <1>9. up \subseteq W
    <2>1. W \in SUBSET Made /\ i \in W
      BY <1>0, <1>5
    <2> HIDE DEF W
    <2> QED
      BY <1>2, <1>8, <2>1
  <1>10. ASSUME NEW j \in up, remote[j].of = 0 PROVE j = top
    <2>1. j \in Made /\ top \in Above(j)
      BY <1>9
    <2>2. {j} \in SUBSET Made /\ j \in {j} /\ Upwards({j})
      BY <1>10, <2>1 DEF Upwards
    <2>3. Above(j) \subseteq {j}
      BY <1>2, <2>1, <2>2
    <2> QED
      BY <2>1, <2>3
  <1> QED
    BY <1>1, <1>4, <1>5, <1>7, <1>10

-----------------------------------------------------------------------------
(* QuickBooks: what a commit may do.                                       *)

(* A commit of w creates records of the objects of C: of those it imports, *)
(* of the one it has posted, of payments of invoices and of categories     *)
(* below others.  It may drop a record of what is exported again, or of    *)
(* what has a record of the number or Sku of another.                      *)
Creates(w, C, moves) ==
    /\ C \subseteq Made
    /\ \A i \in C :
          /\ \/ i \in qtodo[w] /\ (moves \/ Kind(i) \in Stepwise \/ remote[i].odd)
             \/ qbc[w] = "posted" /\ i = item[w].id
             \/ remote[i].of # 0
          /\ i \in Regular => qdb'.copies[i] > 0
          /\ qdb'.copies[i] <= 1 \/ i \in Excused
    /\ \A i \in Made \ C : qdb'.copies[i] <= qdb.copies[i]
    /\ \A i \in Ids \ Made : qdb'.copies[i] = 0
    /\ \A i \in Made : i \in Regular \/ Kind(i) \notin Twice \cup ByCode =>
          qdb'.copies[i] >= qdb.copies[i]
    /\ \A j \in C, i \in Regular :
          Kind(i) = "product" /\ Kind(j) = "product" /\ i < j => qdb'.copies[i] > 0

(* It moves cursors past what it creates and what is there.                *)
MovesCursors(C, moves) ==
    /\ \A k \in world : qdb'.cursor[k] <= Len(remote)
    /\ \A k \in world \cap Guarded : moves \/ qdb'.cursor[k] = qdb.cursor[k]
    /\ \A i \in Regular : i <= qdb'.cursor[Kind(i)] =>
          i <= qdb.cursor[Kind(i)] \/ i \in C \/ qdb.copies[i] > 0
    /\ \A i \in Made : i > qdb'.cursor[Kind(i)] /\ (i \in C \/ i <= qdb.cursor[Kind(i)]) =>
          /\ Kind(i) \in InvoiceKinds => remote[i].home # 0
          /\ Kind(i) \in PayKinds \cup {"agency"} => i \in Excused

(* It takes no lines from an order, and leaves none without its lines but  *)
(* the one it is at.                                                       *)
FillsOrders(w, C) ==
    \A i \in Made : Kind(i) = "order" =>
        /\ qdb.lines[i] \subseteq qdb'.lines[i]
        /\ qdb'.lines[i] # AllLines =>
              /\ i \notin Whole(pend[w].met)
              /\ i \in C \/ (line[w] > 0 /\ i = Min(qtodo[w])) =>
                    line'[w] > 0 /\ i = Min(qtodo'[w])

(* The ids of what is exported, and the invoices put back to draft.        *)
KeepsIds ==
    /\ \A d \in Docs : qdb'.id[d] # 0 =>
          /\ qdb'.id[d] \in Made /\ remote[qdb'.id[d]].home = d /\ qdb'.copies[qdb'.id[d]] >= 1
    /\ \A i \in qdb'.drafts : i \in Made /\ remote[i].home # 0

(* The other requests go on as they were.                                  *)
OthersStay(w, moves) ==
    /\ UNCHANGED <<world, docKind, remote, raced>>
    /\ \A x \in QbWorkers \ {w} :
          /\ qbc'[x] = qbc[x] /\ qtodo'[x] = qtodo[x] /\ line'[x] = line[x]
          /\ pend'[x] = pend[x] /\ qsnap'[x] = qsnap[x] /\ item'[x] = item[x]
          /\ qbc[x] # "idle" => stale'[x] = (stale[x] \/ moves)
    /\ broken' = broken \ Whole(pend[w].met)

Commits(w, C, moves) ==
    /\ SyncTyped' /\ Creates(w, C, moves) /\ MovesCursors(C, moves) /\ FillsOrders(w, C)
    /\ KeepsIds /\ OthersStay(w, moves)

LEMMA SyncFacts ==
    ASSUME ExportInv, SyncInv
    PROVE  /\ Len(remote) \in Nat /\ Made \subseteq Ids /\ Regular \subseteq Made
           /\ \A i \in Made : i \in Nat /\ i # 0 /\ i <= Len(remote) /\ Kind(i) \in world
           /\ \A i \in Ids : qdb.copies[i] \in Nat /\ qdb.lines[i] \subseteq AllLines
           /\ \A k \in world : qdb.cursor[k] \in Nat
  <1>1. Len(remote) \in Nat /\ Len(remote) <= N /\ N \in Nat
    BY QbAssumption DEF ExportInv, SyncInv, ObjectsOK
  <1>2. Made \subseteq Ids /\ \A i \in Made : i \in Nat /\ i # 0 /\ i <= Len(remote)
    BY <1>1 DEF Made, Ids
  <1>3. \A i \in Made : Kind(i) \in world
    BY DEF SyncInv, ObjectsOK
  <1>4. Regular \subseteq Made
    BY DEF Regular
  <1>5. /\ \A i \in Ids : qdb.copies[i] \in Nat /\ qdb.lines[i] \subseteq AllLines
        /\ \A k \in world : qdb.cursor[k] \in Nat
    BY DEF SyncInv, SyncTyped
  <1> QED
    BY <1>1, <1>2, <1>3, <1>4, <1>5

LEMMA CommitTyped ==
    ASSUME SyncTyped', UNCHANGED world
    PROVE  /\ \A i \in Ids : qdb'.copies[i] \in Nat /\ qdb'.lines[i] \subseteq AllLines
           /\ \A k \in world : qdb'.cursor[k] \in Nat
  BY DEF SyncTyped

LEMMA PostedHome ==
    ASSUME ExportInv, NEW w \in QbWorkers, qbc[w] = "posted"
    PROVE  /\ item[w].id \in Made /\ item[w].doc \in Docs
           /\ remote[item[w].id].home = item[w].doc /\ remote[item[w].id].home # 0
  <1>1. item[w].id \in Made /\ remote[item[w].id].home = item[w].doc /\ item[w].doc \in Docs
    BY DEF ExportInv, Made
  <1> QED
    BY <1>1, QbAssumption

LEMMA CommitKeepsRows ==
    ASSUME ExportInv, SyncInv, NEW w \in QbWorkers, NEW C, NEW moves \in BOOLEAN,
           Commits(w, C, moves)
    PROVE  ObjectsOK' /\ CommittedOK' /\ NoGaps' /\ InOrder' /\ Ahead' /\ Once' /\ QbWholeOrders'
  <1>0. /\ UNCHANGED <<world, docKind, remote, raced>>
        /\ Made' = Made /\ Regular' = Regular /\ Excused' = Excused
    BY SameWorld DEF Commits, OthersStay
  <1>1. /\ Len(remote) \in Nat /\ Made \subseteq Ids /\ Regular \subseteq Made
        /\ \A i \in Made : i \in Nat /\ Kind(i) \in world
        /\ \A i \in Ids : qdb.copies[i] \in Nat /\ qdb'.copies[i] \in Nat
        /\ \A i \in Ids : qdb.lines[i] \subseteq AllLines /\ qdb'.lines[i] \subseteq AllLines
        /\ \A k \in world : qdb.cursor[k] \in Nat /\ qdb'.cursor[k] \in Nat
    <2>1. SyncTyped'
      BY DEF Commits
    <2> QED
      BY <1>0, <2>1, SyncFacts, CommitTyped
  <1>2. ObjectsOK'
    BY <1>0 DEF SyncInv, ObjectsOK, Kind
  <1>3. CommittedOK'
    BY <1>0 DEF Commits, KeepsIds, MovesCursors, Creates, CommittedOK
  <1>4. NoGaps'
    BY <1>0, <1>1 DEF Commits, MovesCursors, Creates, SyncInv, NoGaps, Kind
  <1>5. InOrder'
    BY <1>0, <1>1 DEF Commits, Creates, SyncInv, InOrder, Kind
  <1>6. Ahead'
    BY <1>0, <1>1 DEF Commits, Creates, MovesCursors, SyncInv, Ahead, Kind
  <1>7. Once'
    BY <1>0, <1>1 DEF Commits, Creates, SyncInv, Once
  <1>8. QbWholeOrders'
    <2> SUFFICES ASSUME NEW i \in Made, Kind(i) = "order", qdb'.copies[i] > 0, qdb'.lines[i] # AllLines,
                        i \notin broken'
                 PROVE  \E x \in QbWorkers : line'[x] > 0 /\ i = Min(qtodo'[x])
      BY <1>0 DEF QbWholeOrders, Kind
    <2>1. /\ i \notin Whole(pend[w].met)
          /\ i \in C \/ (line[w] > 0 /\ i = Min(qtodo[w])) => line'[w] > 0 /\ i = Min(qtodo'[w])
      BY DEF Commits, FillsOrders
    <2>2. CASE i \in C
      BY <2>1, <2>2
    <2>3. CASE i \notin C
      <3>1. qdb.copies[i] > 0
        <4>1. qdb'.copies[i] <= qdb.copies[i]
          BY <2>3 DEF Commits, Creates
        <4> QED
          BY <1>1, <4>1
      <3>2. qdb.lines[i] # AllLines
        <4>1. qdb.lines[i] \subseteq qdb'.lines[i] /\ qdb'.lines[i] \subseteq AllLines
          BY <1>1 DEF Commits, FillsOrders
        <4> QED
          BY <4>1
      <3>3. i \notin broken
        BY <2>1 DEF Commits, OthersStay
      <3>4. PICK x \in QbWorkers : line[x] > 0 /\ i = Min(qtodo[x])
        BY <3>1, <3>2, <3>3 DEF SyncInv, QbWholeOrders, Kind
      <3>5. CASE x = w
        BY <2>1, <3>4, <3>5
      <3>6. CASE x # w
        BY <3>4, <3>6 DEF Commits, OthersStay
      <3> QED
        BY <3>5, <3>6
    <2> QED
      BY <2>2, <2>3
  <1> QED
    BY <1>2, <1>3, <1>4, <1>5, <1>6, <1>7, <1>8

LEMMA CommitKeepsOthers ==
    ASSUME ExportInv, SyncInv, NEW w \in QbWorkers, NEW C, NEW moves \in BOOLEAN,
           Commits(w, C, moves), NEW x \in QbWorkers, x # w
    PROVE  JobOK(x)'
  <1>0. /\ UNCHANGED <<world, docKind, remote, raced>>
        /\ Made' = Made /\ Regular' = Regular /\ Excused' = Excused
        /\ qbc'[x] = qbc[x] /\ qtodo'[x] = qtodo[x] /\ line'[x] = line[x]
        /\ pend'[x] = pend[x] /\ qsnap'[x] = qsnap[x] /\ item'[x] = item[x]
        /\ qbc[x] # "idle" => stale'[x] = (stale[x] \/ moves)
    BY SameWorld DEF Commits, OthersStay
  <1>1. /\ Len(remote) \in Nat /\ Made \subseteq Ids /\ Regular \subseteq Made
        /\ \A i \in Made : i \in Nat /\ Kind(i) \in world
        /\ \A i \in Ids : qdb.copies[i] \in Nat /\ qdb'.copies[i] \in Nat
        /\ \A i \in Ids : qdb.lines[i] \subseteq AllLines /\ qdb'.lines[i] \subseteq AllLines
        /\ \A k \in world : qdb.cursor[k] \in Nat /\ qdb'.cursor[k] \in Nat
    <2>1. SyncTyped'
      BY DEF Commits
    <2> QED
      BY <1>0, <2>1, SyncFacts, CommitTyped
  <1>2. JobOK(x) /\ Apart(w, x) /\ Apart(x, w)
    BY DEF SyncInv
  <1>3. SnapshotOK(x)' /\ WritesOK(x)' /\ (qbc'[x] \notin QbKinds => qtodo'[x] = {})
    BY <1>0, <1>2 DEF JobOK, SnapshotOK, WritesOK, Kind
  <1>4. ASSUME NEW i \in C, (qbc[x] \in QbKinds /\ i \in qtodo[x]) \/ (qbc[x] = "posted" /\ i = item[x].id)
        PROVE  \/ i \in Excused
               \/ qbc[x] \in QbKinds \ Stepwise /\ i \in raced /\ moves
    <2>1. i \in Made /\ (qbc[x] = "posted" => remote[item[x].id].home # 0)
          /\ (qbc[w] = "posted" => remote[item[w].id].home # 0)
      <3>1. i \in Made
        BY DEF Commits, Creates
      <3> QED
        BY <3>1, PostedHome
    <2>2. CASE remote[i].of # 0
      BY <2>1, <2>2, BelowExcused DEF SyncInv
    <2>3. CASE qbc[w] = "posted" /\ i = item[w].id
      BY <1>2, <1>4, <2>1, <2>3, RacedExcused DEF Apart
    <2>4. CASE i \in qtodo[w] /\ (moves \/ Kind(i) \in Stepwise \/ remote[i].odd)
      <3>1. i \in raced
        BY <1>2, <1>4, <2>4 DEF Apart
      <3>2. CASE Kind(i) \in Stepwise \/ remote[i].odd \/ remote[i].home # 0
        BY <2>1, <3>1, <3>2, RacedExcused
      <3>3. CASE ~ (Kind(i) \in Stepwise \/ remote[i].odd \/ remote[i].home # 0)
        <4>1. qbc[x] # "posted"
          <5>1. "posted" \notin QbKinds
            BY DEF QbKinds
          <5> QED
            BY <1>4, <2>1, <3>3, <5>1
        <4>3. moves
          BY <2>4, <3>3
        <4>2. qbc[x] \in QbKinds /\ Kind(i) = qbc[x]
          BY <1>2, <1>4, <4>1 DEF JobOK, ImportOK
        <4> QED
          BY <3>1, <3>3, <4>3, <4>2
      <3> QED
        BY <3>2, <3>3
    <2> QED
      BY <2>2, <2>3, <2>4 DEF Commits, Creates
  <1>5. LineOK(x)'
    <2> SUFFICES ASSUME line[x] > 0 PROVE LineOK(x)'
      BY <1>0 DEF LineOK
    <2> DEFINE i == Min(qtodo[x])
    <2>1. /\ line[x] <= QbLines /\ qbc[x] = "order" /\ qtodo[x] # {}
          /\ 1 .. (line[x] - 1) \subseteq qdb.lines[i] /\ qdb.copies[i] > 0 /\ line[x] \in Nat
      BY <1>2 DEF JobOK, LineOK, ExportInv
    <2>2. i \in Made /\ Kind(i) = "order"
      <3>1. \A j \in qtodo[x] : j \in Made /\ Kind(j) = "order"
        BY <1>2, <2>1 DEF JobOK, ImportOK, QbKinds
      <3>2. qtodo[x] \in SUBSET Nat
        BY <1>1, <3>1
      <3> QED
        BY <2>1, <3>1, <3>2, MinIs
    <2>3. 1 .. (line[x] - 1) \subseteq qdb'.lines[i] /\ qdb'.copies[i] > 0
      <3> HIDE DEF i
      <3>1. qdb.lines[i] \subseteq qdb'.lines[i]
        BY <2>2 DEF Commits, FillsOrders
      <3>2. qdb'.copies[i] > 0
        BY <1>1, <2>1, <2>2 DEF Commits, Creates, Twice, ByCode
      <3> QED
        BY <2>1, <3>1, <3>2
    <2> QED
      BY <1>0, <2>1, <2>3 DEF LineOK
  <1>6. ASSUME qbc[x] \in QbKinds PROVE ImportOK(x)'
    <2>1. ImportOK(x)
      BY <1>2, <1>6 DEF JobOK
    <2>2. qbc[x] # "idle"
      BY <1>6 DEF QbKinds
    <2>3. ASSUME NEW i \in Regular, qdb.copies[i] > 0 PROVE qdb'.copies[i] > 0
      BY <1>1, <2>3 DEF Commits, Creates
    <2>4. ASSUME NEW i \in qtodo[x], qdb.copies[i] = 0, i \notin C PROVE qdb'.copies[i] = 0
      <3>1. i \in Made
        BY <2>1 DEF ImportOK
      <3> QED
        BY <1>1, <2>4, <3>1 DEF Commits, Creates
    <2>5. ASSUME NEW i \in qtodo[x], qsnap[x].copies[i] = 0
          PROVE  \/ qdb'.copies[i] = 0 \/ i \in Excused
                 \/ qbc[x] \notin Stepwise /\ stale'[x] /\ i \in raced
      BY <1>0, <1>4, <1>6, <2>1, <2>2, <2>4, <2>5 DEF ImportOK
    <2>6. qbc[x] \in Guarded /\ ~ stale'[x] => \A i \in qtodo[x] : i > qdb'.cursor[qbc[x]]
      BY <1>0, <2>1, <2>2 DEF ImportOK, Commits, MovesCursors
    <2> QED
      BY <1>0, <2>1, <2>3, <2>5, <2>6 DEF ImportOK, Seen, Kind
  <1>7. ASSUME qbc[x] = "posted" PROVE PostedOK(x)'
    <2> DEFINE i == item[x].id
    <2>1. PostedOK(x) /\ i \in Made
      BY <1>2, <1>7 DEF JobOK, ExportInv, Made
    <2>2. qdb'.copies[i] = 0 \/ i \in Excused
      <3>1. "posted" \notin QbKinds
        BY DEF QbKinds
      <3>2. CASE i \in C
        BY <1>4, <1>7, <3>1, <3>2
      <3>3. CASE i \notin C
        <4>1. qdb'.copies[i] <= qdb.copies[i]
          BY <2>1, <3>3 DEF Commits, Creates
        <4>2. qdb'.copies[i] \in Nat /\ qdb.copies[i] \in Nat
          BY <1>1, <2>1
        <4> QED
          BY <2>1, <4>1, <4>2 DEF PostedOK
      <3> QED
        BY <3>2, <3>3
    <2>3. docKind = "agency" /\ ~ stale'[x] => i > qdb'.cursor["agency"]
      <3> SUFFICES ASSUME docKind = "agency", ~ stale'[x] PROVE i > qdb'.cursor["agency"]
        OBVIOUS
      <3>1. ~ stale[x] /\ ~ moves /\ "agency" \in world \cap Guarded
        BY <1>0, <1>7 DEF ExportInv, Guarded
      <3> QED
        BY <2>1, <3>1 DEF PostedOK, Commits, MovesCursors
    <2> QED
      BY <1>0, <2>2, <2>3 DEF PostedOK
  <1> QED
    BY <1>0, <1>3, <1>5, <1>6, <1>7 DEF JobOK

LEMMA CommitKeepsApart ==
    ASSUME SyncInv, NEW w \in QbWorkers, NEW C, NEW moves, OthersStay(w, moves),
           qtodo'[w] \subseteq qtodo[w], qbc'[w] # "posted"
    PROVE  \A x, y \in QbWorkers : x # y => Apart(x, y)'
  BY DEF SyncInv, Apart, OthersStay

-----------------------------------------------------------------------------
(* QuickBooks: imports of one transaction.                                 *)

(* The fields of rows that a commit changes.                               *)
SameBut(r, s, copies, lines, drafts, cursor) ==
    s.copies = copies /\ s.lines = lines /\ s.drafts = drafts /\ s.cursor = cursor /\ s.id = r.id

LEMMA OneChange ==
    ASSUME NEW r, RowsFielded(r), NEW x
    PROVE  /\ RowsFielded([r EXCEPT !.copies = x]) /\ RowsFielded([r EXCEPT !.lines = x])
           /\ RowsFielded([r EXCEPT !.drafts = x]) /\ RowsFielded([r EXCEPT !.cursor = x])
           /\ SameBut(r, [r EXCEPT !.copies = x], x, r.lines, r.drafts, r.cursor)
           /\ SameBut(r, [r EXCEPT !.lines = x], r.copies, x, r.drafts, r.cursor)
           /\ SameBut(r, [r EXCEPT !.drafts = x], r.copies, r.lines, x, r.cursor)
           /\ SameBut(r, [r EXCEPT !.cursor = x], r.copies, r.lines, r.drafts, x)
  BY DEF RowsFielded, SameBut

LEMMA ImportChange ==
    ASSUME NEW r, RowsFielded(r), NEW x, NEW k, NEW y
    PROVE  SameBut(r, [r EXCEPT !.copies = x, !.cursor[k] = y],
                   x, r.lines, r.drafts, [r.cursor EXCEPT ![k] = y])
  <1> DEFINE r1 == [r EXCEPT !.copies = x]
             z  == [r1.cursor EXCEPT ![k] = y]
             r2 == [r1 EXCEPT !.cursor = z]
  <1>1. RowsFielded(r1) /\ SameBut(r, r1, x, r.lines, r.drafts, r.cursor)
    BY OneChange
  <1>2. SameBut(r1, r2, r1.copies, r1.lines, r1.drafts, z)
    <2> HIDE DEF r1, z
    <2> QED
      BY <1>1, OneChange
  <1>3. [r EXCEPT !.copies = x, !.cursor[k] = y] = r2
    OBVIOUS
  <1> HIDE DEF r2
  <1>4. z = [r.cursor EXCEPT ![k] = y]
    <2> HIDE DEF r1
    <2> QED
      BY <1>1 DEF SameBut
  <1> HIDE DEF r1, z
  <1> QED
    BY <1>1, <1>2, <1>3, <1>4 DEF SameBut

LEMMA ReviseChange ==
    ASSUME NEW r, RowsFielded(r), NEW x, NEW y, NEW z
    PROVE  SameBut(r, [r EXCEPT !.copies = x, !.drafts = y, !.cursor = z], x, r.lines, y, z)
  <1> DEFINE r1 == [r EXCEPT !.copies = x]
             r2 == [r1 EXCEPT !.drafts = y]
             r3 == [r2 EXCEPT !.cursor = z]
  <1>1. RowsFielded(r1) /\ SameBut(r, r1, x, r.lines, r.drafts, r.cursor)
    BY OneChange
  <1>2. RowsFielded(r2) /\ SameBut(r1, r2, r1.copies, r1.lines, y, r1.cursor)
    <2> HIDE DEF r1
    <2> QED
      BY <1>1, OneChange
  <1>3. SameBut(r2, r3, r2.copies, r2.lines, r2.drafts, z)
    <2> HIDE DEF r2
    <2> QED
      BY <1>2, OneChange
  <1>4. [r EXCEPT !.copies = x, !.drafts = y, !.cursor = z] = r3
    OBVIOUS
  <1> HIDE DEF r1, r2, r3
  <1> QED
    BY <1>1, <1>2, <1>3, <1>4 DEF SameBut

(* A commit that ends a request.                                           *)
LEMMA EndCommits ==
    ASSUME ExportInv, SyncInv, NEW w \in QbWorkers, NEW C, NEW moves \in BOOLEAN, NEW v,
           EndWith(w, v, moves),
           qdb'.copies \in [Ids -> Nat], qdb'.lines \in [Ids -> SUBSET AllLines], qdb'.cursor \in [world -> Nat],
           Creates(w, C, moves), MovesCursors(C, moves), FillsOrders(w, C), KeepsIds
    PROVE  SyncInv'
  <1>1. /\ \A x \in QbWorkers \ {w} :
              /\ qbc'[x] = qbc[x] /\ qtodo'[x] = qtodo[x] /\ line'[x] = line[x]
              /\ pend'[x] = pend[x] /\ qsnap'[x] = qsnap[x] /\ item'[x] = item[x]
        /\ qbc'[w] = "idle" /\ qtodo'[w] = {} /\ line'[w] = 0
        /\ pend'[w] = NoWrites /\ qsnap'[w] = EmptyRows /\ item'[w] = NoItem
    BY DEF EndWith, QbEnd, ExportInv, SyncInv, SyncTyped
  <1>2. UNCHANGED <<world, docKind, remote, raced>> /\ broken' = broken \ Whole(pend[w].met)
        /\ stale' = [x \in QbWorkers |-> x # w /\ qbc[x] # "idle" /\ (stale[x] \/ moves)]
    BY DEF EndWith, Outdate
  <1>3. SyncTyped'
    <2>1. NoWrites \in [cursor : Nat, met : SUBSET Ids, made : SUBSET Ids]
      BY DEF NoWrites
    <2>2. pend' \in [QbWorkers -> [cursor : Nat, met : SUBSET Ids, made : SUBSET Ids]]
      BY <2>1 DEF EndWith, QbEnd, SyncInv, SyncTyped
    <2>3. qtodo' \in [QbWorkers -> SUBSET Ids] /\ stale' \in [QbWorkers -> BOOLEAN]
      BY <1>2 DEF EndWith, QbEnd, SyncInv, SyncTyped
    <2> QED
      BY <1>2, <2>2, <2>3 DEF SyncTyped
  <1>4. OthersStay(w, moves)
    <2>1. \A x \in QbWorkers \ {w} : qbc[x] # "idle" => stale'[x] = (stale[x] \/ moves)
      BY <1>2
    <2> QED
      BY <1>1, <1>2, <2>1 DEF OthersStay
  <1>5. Commits(w, C, moves)
    BY <1>3, <1>4 DEF Commits
  <1>6. JobOK(w)'
    <2>1. qbc'[w] \notin QbKinds /\ qbc'[w] # "posted"
      BY <1>1 DEF QbKinds
    <2>2. SnapshotOK(w)'
      BY <1>1 DEF SnapshotOK, EmptyRows
    <2>3. WritesOK(w)'
      <3>1. Len(remote) \in Nat /\ "idle" \notin Stepwise
        BY SyncFacts DEF Stepwise
      <3> QED
        BY <1>1, <1>2, <2>1, <3>1 DEF WritesOK, NoWrites, NoItem
    <2>4. LineOK(w)'
      BY <1>1 DEF LineOK
    <2> QED
      BY <1>1, <2>1, <2>2, <2>3, <2>4 DEF JobOK
  <1>7. \A x \in QbWorkers : JobOK(x)'
    BY <1>5, <1>6, CommitKeepsOthers
  <1>8. \A x, y \in QbWorkers : x # y => Apart(x, y)'
    BY <1>1, <1>4, CommitKeepsApart
  <1> QED
    BY <1>3, <1>5, <1>7, <1>8, CommitKeepsRows DEF SyncInv

(* A commit that creates C leaves x records.                               *)
Adds(C, x) ==
    /\ x \in [Ids -> Nat]
    /\ \A i \in C : x[i] > 0 /\ (x[i] <= 1 \/ i \in Excused)
    /\ \A i \in Made \ C : x[i] <= qdb.copies[i]
    /\ \A i \in Ids \ Made : x[i] = 0
    /\ \A i \in Made : Shared(i) \/ x[i] >= qdb.copies[i]

LEMMA CopiesAdded ==
    ASSUME ExportInv, SyncInv, NEW C \in SUBSET Made,
           \A i \in C : qdb.copies[i] = 0 \/ i \in Excused
    PROVE  Adds(C, WithCopies(C))
  <1>1. /\ WithCopies(C) \in [Ids -> Nat]
        /\ \A i \in C : WithCopies(C)[i] = qdb.copies[i] + 1 /\ qdb.copies[i] \in Nat
        /\ \A i \in Ids \ C : WithCopies(C)[i] = qdb.copies[i] /\ qdb.copies[i] \in Nat
    BY SyncFacts DEF WithCopies, One
  <1>2. Made \subseteq Ids /\ \A i \in Ids \ Made : qdb.copies[i] = 0
    BY SyncFacts DEF SyncInv, CommittedOK
  <1>3. \A i \in Made : WithCopies(C)[i] >= qdb.copies[i]
    BY <1>1, <1>2
  <1> QED
    BY <1>1, <1>2, <1>3 DEF Adds

(* The ids of documents stay with their records: what an export made has   *)
(* neither the number nor the Sku of another record.                       *)
LEMMA AddsKeepIds ==
    ASSUME ExportInv, SyncInv, NEW C, NEW x, Adds(C, x), qdb'.copies = x, qdb'.id = qdb.id,
           \A i \in qdb'.drafts : i \in Made /\ remote[i].home # 0
    PROVE  KeepsIds
  <1>1. ASSUME NEW d \in Docs, qdb.id[d] # 0
        PROVE  qdb.id[d] \in Made /\ remote[qdb.id[d]].home = d /\ x[qdb.id[d]] >= 1
    <2>1. PICK i : i = qdb.id[d]
      OBVIOUS
    <2>2. i \in Made /\ remote[i].home = d /\ qdb.copies[i] >= 1 /\ d # 0
      BY <1>1, <2>1, QbAssumption DEF SyncInv, CommittedOK
    <2>3. ~ Shared(i)
      BY <2>2 DEF SyncInv, ObjectsOK, Shared
    <2>4. x[i] >= qdb.copies[i] /\ x[i] \in Nat /\ qdb.copies[i] \in Nat
      BY <2>2, <2>3, SyncFacts DEF Adds
    <2> QED
      BY <2>1, <2>2, <2>4
  <1> QED
    BY <1>1 DEF KeepsIds

(* What such a commit may be, if w is at the objects of C.                 *)
LEMMA AddsCreates ==
    ASSUME ExportInv, SyncInv, NEW w, NEW C \in SUBSET Made, NEW moves, NEW x, Adds(C, x),
           qdb'.copies = x,
           \A i \in C : \/ i \in qtodo[w] /\ (moves \/ Kind(i) \in Stepwise \/ remote[i].odd)
                        \/ qbc[w] = "posted" /\ i = item[w].id
                        \/ remote[i].of # 0,
           \A j \in C, i \in Regular :
              Kind(i) = "product" /\ Kind(j) = "product" /\ i < j => qdb.copies[i] > 0
    PROVE  Creates(w, C, moves)
  <1>1. ASSUME NEW i \in Made, i \in Regular \/ Kind(i) \notin Twice \cup ByCode
        PROVE  x[i] >= qdb.copies[i] /\ x[i] \in Nat /\ qdb.copies[i] \in Nat
    <2>1. ~ Shared(i)
      BY <1>1 DEF Regular, Shared
    <2> QED
      BY <2>1, SyncFacts DEF Adds
  <1>2. \A j \in C, i \in Regular : Kind(i) = "product" /\ Kind(j) = "product" /\ i < j => x[i] > 0
    <2> SUFFICES ASSUME NEW j \in C, NEW i \in Regular,
                        Kind(i) = "product", Kind(j) = "product", i < j
                 PROVE  x[i] > 0
      OBVIOUS
    <2>1. qdb.copies[i] > 0 /\ i \in Made
      BY DEF Regular
    <2>2. x[i] >= qdb.copies[i] /\ x[i] \in Nat /\ qdb.copies[i] \in Nat
      BY <1>1, <2>1
    <2> QED
      BY <2>1, <2>2
  <1>3. /\ \A i \in C : x[i] > 0 /\ (x[i] <= 1 \/ i \in Excused)
        /\ \A i \in Made \ C : x[i] <= qdb.copies[i]
        /\ \A i \in Ids \ Made : x[i] = 0
    BY DEF Adds
  <1>4. \A i \in Made : i \in Regular \/ Kind(i) \notin Twice \cup ByCode => x[i] >= qdb.copies[i]
    BY <1>1
  <1> QED
    BY <1>2, <1>3, <1>4 DEF Creates

(* An import of one transaction.                                           *)
LEMMA Imports ==
    ASSUME ExportInv, SyncInv, NEW w \in QbWorkers, qbc[w] \in QbKinds \ Stepwise,
           NEW C \in SUBSET Made, NEW moves \in BOOLEAN, NEW v, EndWith(w, v, moves),
           Adds(C, v.copies), v.lines = qdb.lines, v.id = qdb.id,
           v.cursor \in [world -> Nat],
           \A i \in v.drafts : i \in qdb.drafts \/ (i \in Made /\ remote[i].home # 0),
           \A i \in C : (i \in qtodo[w] /\ (moves \/ remote[i].odd)) \/ remote[i].of # 0,
           MovesCursors(C, moves)
    PROVE  SyncInv'
  <1>0. qdb' = v /\ Made \subseteq Ids /\ qdb.lines \in [Ids -> SUBSET AllLines]
    BY SyncFacts DEF EndWith, SyncInv, SyncTyped
  <1>1. PICK x : x = v.copies
    OBVIOUS
  <1>2. Adds(C, x) /\ qdb'.copies = x /\ qdb'.copies \in [Ids -> Nat] /\ qdb'.id = qdb.id
    BY <1>0, <1>1 DEF Adds
  <1>3. ASSUME NEW i \in C PROVE Kind(i) \notin {"product", "order"}
    <2>1. CASE i \in qtodo[w]
      <3>1. Kind(i) = qbc[w]
        BY <2>1 DEF SyncInv, JobOK, ImportOK
      <3> QED
        BY <3>1 DEF Stepwise
    <2>2. CASE remote[i].of # 0
      BY <2>2 DEF SyncInv, ObjectsOK
    <2> QED
      BY <2>1, <2>2
  <1>4. Creates(w, C, moves)
    BY <1>2, <1>3, AddsCreates
  <1>5. pend[w].met = {} /\ ~ (line[w] > 0)
    <2>1. pend[w] = NoWrites
      BY DEF SyncInv, JobOK, WritesOK
    <2>2. ~ (line[w] > 0)
      BY DEF SyncInv, JobOK, LineOK, Stepwise
    <2> QED
      BY <2>1, <2>2 DEF NoWrites
  <1>6. FillsOrders(w, C)
    BY <1>0, <1>3, <1>5 DEF FillsOrders, Whole
  <1>7. KeepsIds
    <2>1. \A i \in qdb'.drafts : i \in Made /\ remote[i].home # 0
      BY <1>0 DEF SyncInv, CommittedOK
    <2> QED
      BY <1>2, <2>1, AddsKeepIds
  <1>8. qdb'.lines \in [Ids -> SUBSET AllLines] /\ qdb'.cursor \in [world -> Nat]
    BY <1>0
  <1> QED
    BY <1>2, <1>4, <1>6, <1>7, <1>8, EndCommits

(* An import that moves its cursor to an object that it has met.           *)
LEMMA CursorPasses ==
    ASSUME ExportInv, SyncInv, NEW w \in QbWorkers, NEW k \in QbKinds, qbc[w] = k,
           NEW C \in SUBSET Made, NEW moves \in BOOLEAN, NEW m \in Seen(w),
           qdb'.cursor = [qdb.cursor EXCEPT ![k] = m],
           \A i \in C : Kind(i) = k \/ remote[i].of # 0,
           \A i \in Regular : i \in qtodo[w] \/ i \in pend[w].made => i \in C \/ qdb.copies[i] > 0,
           k \in Guarded => moves /\ ~ stale[w] /\ m \in qtodo[w] /\ \A i \in C : Kind(i) = k => i <= m
    PROVE  MovesCursors(C, moves)
  <1>1. ImportOK(w) /\ WritesOK(w)
    BY DEF SyncInv, JobOK
  <1>2. k \in world /\ m \in Nat /\ m <= Len(remote) /\ Len(remote) \in Nat
    <2>1. k \in world /\ Len(remote) \in Nat
      BY <1>1, SyncFacts DEF ImportOK
    <2>2. CASE m \in qtodo[w]
      BY <1>1, <2>1, <2>2, SyncFacts DEF ImportOK
    <2>3. CASE m = item[w].id
      BY <1>1, <2>1, <2>3 DEF WritesOK
    <2> QED
      BY <2>1, <2>2, <2>3 DEF Seen
  <1>3. /\ \A l \in world : qdb'.cursor[l] = IF l = k THEN m ELSE qdb.cursor[l]
        /\ \A l \in world : qdb.cursor[l] <= Len(remote) /\ qdb.cursor[l] \in Nat
        /\ \A i \in Made : i \in Nat /\ Kind(i) \in world
    BY <1>2, SyncFacts DEF SyncInv, SyncTyped, CommittedOK
  <1>4. \A i \in Regular : i <= qdb'.cursor[Kind(i)] =>
          i <= qdb.cursor[Kind(i)] \/ i \in C \/ qdb.copies[i] > 0
    <2> SUFFICES ASSUME NEW i \in Regular, i <= qdb'.cursor[Kind(i)], ~ (i <= qdb.cursor[Kind(i)])
                 PROVE  i \in C \/ qdb.copies[i] > 0
      OBVIOUS
    <2>1. i \in Made
      BY DEF Regular
    <2>2. Kind(i) = k /\ i <= m
      BY <1>3, <2>1
    <2> QED
      BY <1>1, <2>2 DEF ImportOK
  <1>5. ASSUME NEW i \in Made, i > qdb'.cursor[Kind(i)], i \in C \/ i <= qdb.cursor[Kind(i)]
        PROVE  /\ Kind(i) \in InvoiceKinds => remote[i].home # 0
               /\ Kind(i) \in PayKinds \cup {"agency"} => i \in Excused
    <2>1. CASE remote[i].of # 0
      <3>1. i \in Excused /\ Kind(i) \notin InvoiceKinds
        BY <2>1, BelowExcused DEF SyncInv, ObjectsOK, InvoiceKinds
      <3> QED
        BY <3>1
    <2>2. CASE Kind(i) # k /\ remote[i].of = 0
      <3>1. qdb'.cursor[Kind(i)] = qdb.cursor[Kind(i)] /\ i \notin C
        BY <1>3, <2>2
      <3> QED
        BY <1>3, <1>5, <3>1
    <2>3. CASE Kind(i) = k /\ k \in Guarded
      <3>1. qdb'.cursor[k] = m /\ m \in qtodo[w]
        BY <1>2, <1>3, <2>3
      <3>2. m > qdb.cursor[k]
        BY <1>1, <2>3 DEF ImportOK
      <3> QED
        BY <1>2, <1>3, <1>5, <2>3, <3>1, <3>2
    <2> QED
      BY <2>1, <2>2, <2>3 DEF Guarded
  <1> QED
    BY <1>2, <1>3, <1>4, <1>5 DEF MovesCursors

(* One that moves none.                                                    *)
LEMMA CursorsStay ==
    ASSUME ExportInv, SyncInv, NEW C \in SUBSET Made, NEW moves \in BOOLEAN,
           qdb'.cursor = qdb.cursor,
           \A i \in C : Kind(i) \notin Guarded \/ remote[i].of # 0 \/ (i \in Excused /\ remote[i].home # 0)
    PROVE  MovesCursors(C, moves)
  <1>1. ASSUME NEW i \in C PROVE /\ Kind(i) \in InvoiceKinds => remote[i].home # 0
                                 /\ Kind(i) \in PayKinds \cup {"agency"} => i \in Excused
    BY BelowExcused DEF SyncInv, ObjectsOK, Guarded, InvoiceKinds
  <1>2. \A i \in Made : ~ (i > qdb.cursor[Kind(i)] /\ i <= qdb.cursor[Kind(i)])
    BY SyncFacts
  <1> QED
    BY <1>1, <1>2 DEF MovesCursors, SyncInv, CommittedOK

(* What an import knows of the objects it has still to import.             *)
LEMMA AtWork ==
    ASSUME ExportInv, SyncInv, NEW w \in QbWorkers, qbc[w] \in QbKinds
    PROVE  /\ qtodo[w] \subseteq Made /\ \A i \in qtodo[w] : Kind(i) = qbc[w] /\ i \in Nat
           /\ \A i \in qtodo[w] : qsnap[w].copies[i] \in Nat /\ qdb.copies[i] \in Nat
           /\ \A i \in qtodo[w] \cap Regular : qsnap[w].copies[i] # 0 => qdb.copies[i] > 0
           /\ \A i \in qtodo[w] : qsnap[w].copies[i] = 0 /\ (~ stale[w] \/ qbc[w] \in Stepwise) =>
                 qdb.copies[i] = 0 \/ i \in Excused
           /\ qtodo[w] \subseteq Seen(w) /\ qbc[w] \in world
           /\ \A S \in SUBSET qtodo[w] : S # {} => Max(S) \in S /\ \A i \in S : i <= Max(S)
           /\ qbc[w] \notin Stepwise => pend[w] = NoWrites /\ pend[w].made = {} /\ qtodo[w] # {}
           /\ \A i \in Regular : ~ remote[i].odd /\ ~ Shared(i)
           /\ qbc[w] \in Guarded /\ ~ stale[w] => \A i \in qtodo[w] : i > qdb.cursor[qbc[w]]
  <1>1. ImportOK(w) /\ WritesOK(w) /\ SnapshotOK(w)
    BY DEF SyncInv, JobOK
  <1>2. qtodo[w] \subseteq Made /\ \A i \in qtodo[w] : Kind(i) = qbc[w] /\ i \in Nat
    BY <1>1, SyncFacts DEF ImportOK
  <1>3. \A i \in qtodo[w] : qsnap[w].copies[i] \in Nat /\ qdb.copies[i] \in Nat
    BY <1>1, <1>2, SyncFacts DEF SnapshotOK
  <1>4. \A i \in qtodo[w] \cap Regular : qsnap[w].copies[i] # 0 => qdb.copies[i] > 0
    BY <1>1, <1>3 DEF ImportOK
  <1>5. \A i \in qtodo[w] : qsnap[w].copies[i] = 0 /\ (~ stale[w] \/ qbc[w] \in Stepwise) =>
           qdb.copies[i] = 0 \/ i \in Excused
    BY <1>1 DEF ImportOK
  <1>6. qtodo[w] \subseteq Seen(w) /\ qbc[w] \in world
    BY <1>1 DEF Seen, ImportOK
  <1>7. ASSUME NEW S \in SUBSET qtodo[w], S # {} PROVE Max(S) \in S /\ \A i \in S : i <= Max(S)
    <2>1. S \in SUBSET (0 .. Len(remote)) /\ Len(remote) \in Nat
      BY <1>2, SyncFacts
    <2> QED
      BY <1>7, <2>1, MaxIs
  <1>8. qbc[w] \notin Stepwise => pend[w] = NoWrites /\ pend[w].made = {} /\ qtodo[w] # {}
    BY <1>1 DEF WritesOK, NoWrites
  <1>9. \A i \in Regular : ~ remote[i].odd /\ ~ Shared(i)
    BY DEF Regular
  <1>10. qbc[w] \in Guarded /\ ~ stale[w] => \A i \in qtodo[w] : i > qdb.cursor[qbc[w]]
    BY <1>1 DEF ImportOK
  <1> QED
    BY <1>2, <1>3, <1>4, <1>5, <1>6, <1>7, <1>8, <1>9, <1>10

(* The rows that such an import commits.                                   *)
LEMMA ImportedRows ==
    ASSUME ExportInv, SyncInv, NEW k \in world, NEW x, NEW m \in Nat
    PROVE  LET v == [qdb EXCEPT !.copies = x, !.cursor[k] = m] IN
           /\ v.copies = x /\ v.lines = qdb.lines /\ v.drafts = qdb.drafts
           /\ v.id = qdb.id /\ v.cursor = [qdb.cursor EXCEPT ![k] = m] /\ v.cursor \in [world -> Nat]
  <1> DEFINE v == [qdb EXCEPT !.copies = x, !.cursor[k] = m]
  <1>1. SameBut(qdb, v, x, qdb.lines, qdb.drafts, [qdb.cursor EXCEPT ![k] = m])
    BY ImportChange DEF ExportInv
  <1>2. [qdb.cursor EXCEPT ![k] = m] \in [world -> Nat]
    BY DEF SyncInv, SyncTyped
  <1> HIDE DEF v
  <1> QED
    BY <1>1, <1>2 DEF SameBut, v

(* One transaction that creates C, of the objects it imports, and moves    *)
(* its cursor to one of them.                                              *)
LEMMA ImportMoves ==
    ASSUME ExportInv, SyncInv, NEW w \in QbWorkers, NEW k \in QbKinds \ Stepwise, qbc[w] = k,
           NEW C \in SUBSET qtodo[w], NEW x, Adds(C, x), NEW m \in qtodo[w],
           CommitAndEnd(w, [qdb EXCEPT !.copies = x, !.cursor[k] = m], TRUE),
           \A i \in qtodo[w] \cap Regular : i \in C \/ qdb.copies[i] > 0,
           k \in Guarded => \A i \in C : i <= m
    PROVE  SyncInv'
  <1> DEFINE v == [qdb EXCEPT !.copies = x, !.cursor[k] = m]
  <1>1. /\ qtodo[w] \subseteq Made /\ \A i \in qtodo[w] : Kind(i) = k /\ i \in Nat
        /\ qtodo[w] \subseteq Seen(w) /\ k \in world /\ pend[w].made = {}
    BY AtWork
  <1>2. EndWith(w, v, TRUE) /\ ~ stale[w] /\ C \in SUBSET Made /\ TRUE \in BOOLEAN
    BY <1>1 DEF CommitAndEnd, MayCommit
  <1>3. /\ v.copies = x /\ v.lines = qdb.lines /\ v.drafts = qdb.drafts
        /\ v.id = qdb.id /\ v.cursor = [qdb.cursor EXCEPT ![k] = m] /\ v.cursor \in [world -> Nat]
    BY <1>1, <1>2, ImportedRows
  <1> HIDE DEF v
  <1>4. qdb' = v
    BY <1>2 DEF EndWith
  <1>5. MovesCursors(C, TRUE)
    <2>1. qdb'.cursor = [qdb.cursor EXCEPT ![k] = m] /\ m \in Seen(w)
      BY <1>1, <1>3, <1>4
    <2> QED
      BY <1>1, <1>2, <2>1, CursorPasses
  <1> QED
    BY <1>1, <1>2, <1>3, <1>5, Imports

(* One that moves no cursor: nothing is created, or only what is left out. *)
LEMMA ImportRests ==
    ASSUME ExportInv, SyncInv, NEW w \in QbWorkers, NEW k \in QbKinds \ (Stepwise \cup Guarded),
           qbc[w] = k, NEW C \in SUBSET qtodo[w], NEW x, Adds(C, x),
           CommitAndEnd(w, [qdb EXCEPT !.copies = x, !.cursor[k] = qdb.cursor[k]], FALSE),
           \A i \in C : remote[i].odd
    PROVE  SyncInv'
  <1>1. k \in world /\ qtodo[w] \subseteq Made /\ \A i \in qtodo[w] : Kind(i) = k
    BY AtWork
  <1>0. PICK m \in Nat : m = qdb.cursor[k]
    BY <1>1, SyncFacts
  <1> DEFINE v == [qdb EXCEPT !.copies = x, !.cursor[k] = m]
  <1>2. EndWith(w, v, FALSE) /\ C \in SUBSET Made /\ FALSE \in BOOLEAN
    BY <1>0, <1>1 DEF CommitAndEnd
  <1>3. /\ v.copies = x /\ v.lines = qdb.lines /\ v.drafts = qdb.drafts
        /\ v.id = qdb.id /\ v.cursor = [qdb.cursor EXCEPT ![k] = m]
        /\ v.cursor \in [world -> Nat]
    BY <1>1, <1>2, ImportedRows
  <1> HIDE DEF v
  <1>4. qdb' = v
    BY <1>2 DEF EndWith
  <1>5. MovesCursors(C, FALSE)
    <2>1. qdb'.cursor = qdb.cursor
      BY <1>0, <1>3, <1>4 DEF SyncInv, SyncTyped
    <2> QED
      BY <1>1, <1>2, <2>1, CursorsStay
  <1> QED
    BY <1>1, <1>2, <1>3, <1>5, Imports

(* The records of the objects of C, that are searched by their id.         *)
LEMMA FoundAdds ==
    ASSUME ExportInv, SyncInv, NEW w \in QbWorkers, qbc[w] \in QbKinds, NEW C \in SUBSET qtodo[w],
           \A i \in C : qsnap[w].copies[i] = 0, ~ stale[w] \/ qbc[w] \in Stepwise
    PROVE  Adds(C, WithCopies(C))
  <1>1. C \in SUBSET Made /\ \A i \in C : qdb.copies[i] = 0 \/ i \in Excused
    BY AtWork
  <1> QED
    BY <1>1, CopiesAdded

LEMMA UpsertKeeps ==
    ASSUME ExportInv, SyncInv, NEW w \in QbWorkers, NEW k \in {"partner", "department"},
           Upserted(w, k)
    PROVE  SyncInv'
  <1> DEFINE C == {i \in qtodo[w] : qsnap[w].copies[i] = 0}
             x == WithCopies(C)
             m == Max(qtodo[w])
  <1>1. k \in QbKinds \ Stepwise /\ k \notin Guarded /\ qbc[w] = k
    BY DEF Upserted, QbKinds, Stepwise, Guarded, InvoiceKinds, PayKinds
  <1>2. CommitAndEnd(w, [qdb EXCEPT !.copies = x, !.cursor[k] = m], TRUE) /\ ~ stale[w]
    BY DEF Upserted, CommitAndEnd, MayCommit
  <1>3. m \in qtodo[w]
    BY <1>1, AtWork
  <1>4. \A i \in qtodo[w] \cap Regular : i \in C \/ qdb.copies[i] > 0
    BY <1>1, <1>2, AtWork
  <1>5. C \in SUBSET qtodo[w] /\ \A i \in C : qsnap[w].copies[i] = 0
    OBVIOUS
  <1>6. Adds(C, x)
    <2> HIDE DEF C
    <2> QED
      BY <1>1, <1>2, <1>5, FoundAdds
  <1> HIDE DEF C, m, x
  <1> QED
    BY <1>1, <1>2, <1>3, <1>4, <1>5, <1>6, ImportMoves

(* The records of accounts, or of a product, when those of new are created *)
(* and those of lost lose their id.                                        *)
LEMMA ExchangedAdds ==
    ASSUME ExportInv, SyncInv, NEW w \in QbWorkers, qbc[w] \in ByCode, ~ stale[w] \/ qbc[w] \in Stepwise,
           NEW S \in SUBSET qtodo[w], \A i \in S : qsnap[w].copies[i] = 0,
           NEW new \in SUBSET S, NEW lost, Matched(w, S, new, lost)
    PROVE  /\ Adds(new, Exchanged(new, lost)) /\ new \in SUBSET qtodo[w]
           /\ \A i \in S \cap Regular : i \in new
  <1>0. qbc[w] \in QbKinds
    BY DEF ByCode, QbKinds
  <1>1. /\ S \in SUBSET Made /\ \A i \in S : Kind(i) = qbc[w]
        /\ \A i \in S : qdb.copies[i] = 0 \/ i \in Excused
        /\ \A i \in Regular : ~ Shared(i)
    BY <1>0, AtWork
  <1>2. \A i \in lost : /\ i \in Made /\ Shared(i) /\ qsnap[w].copies[i] > 0
                        /\ qdb.copies[i] = qsnap[w].copies[i]
    BY DEF Matched, Holders, Twins, Shared
  <1>3. Made \subseteq Ids /\ \A i \in Ids : qdb.copies[i] \in Nat
    BY SyncFacts
  <1>4. \A i \in lost : i \notin new /\ qdb.copies[i] > 0
    BY <1>2
  <1> DEFINE x == Exchanged(new, lost)
  <1>5. /\ \A i \in Ids \ (new \cup lost) : x[i] = qdb.copies[i]
        /\ \A i \in new : x[i] = qdb.copies[i] + 1
        /\ \A i \in lost : x[i] = qdb.copies[i] - 1
    BY <1>1, <1>2, <1>3, <1>4 DEF Exchanged, One
  <1>6. \A i \in Ids : x[i] \in Nat
    BY <1>3, <1>4, <1>5
  <1>7. x \in [Ids -> Nat]
    <2>1. x = [i \in Ids |-> x[i]]
      BY DEF Exchanged
    <2> HIDE DEF x
    <2> QED
      BY <1>6, <2>1
  <1> HIDE DEF x
  <1>8. \A i \in new : x[i] > 0 /\ (x[i] <= 1 \/ i \in Excused)
    BY <1>1, <1>3, <1>5
  <1>9. \A i \in Made \ new : x[i] <= qdb.copies[i]
    BY <1>3, <1>5
  <1>10. \A i \in Ids \ Made : x[i] = 0
    BY <1>1, <1>2, <1>5 DEF SyncInv, CommittedOK
  <1>11. \A i \in Made : Shared(i) \/ x[i] >= qdb.copies[i]
    BY <1>2, <1>3, <1>5
  <1>12. Adds(new, x)
    BY <1>7, <1>8, <1>9, <1>10, <1>11 DEF Adds
  <1>13. \A i \in S \cap Regular : i \in new
    BY <1>1 DEF Matched, Twins, Shared
  <1> QED
    BY <1>12, <1>13 DEF x

LEMMA AccountsKeep ==
    ASSUME ExportInv, SyncInv, NEW w \in QbWorkers, ImportAccounts(w)
    PROVE  SyncInv'
  <1> DEFINE S == {i \in qtodo[w] : qsnap[w].copies[i] = 0}
             m == Max(qtodo[w])
             k == "account"
  <1>1. k \in QbKinds \ Stepwise /\ k \notin Guarded /\ qbc[w] = k /\ k \in ByCode
    BY DEF ImportAccounts, QbKinds, Stepwise, Guarded, InvoiceKinds, PayKinds, ByCode
  <1>2. PICK new \in SUBSET S, lost \in SUBSET Made :
           /\ Matched(w, S, new, lost)
           /\ CommitAndEnd(w, [qdb EXCEPT !.copies = Exchanged(new, lost), !.cursor[k] = m], TRUE)
    BY DEF ImportAccounts
  <1>3. ~ stale[w]
    BY <1>2 DEF CommitAndEnd, MayCommit
  <1>4. m \in qtodo[w]
    BY <1>1, AtWork
  <1>5. S \in SUBSET qtodo[w] /\ \A i \in S : qsnap[w].copies[i] = 0
    OBVIOUS
  <1>6. \A i \in qtodo[w] \cap Regular : i \in S \/ qdb.copies[i] > 0
    BY <1>1, AtWork
  <1> HIDE DEF S, m
  <1>7. /\ Adds(new, Exchanged(new, lost)) /\ new \in SUBSET qtodo[w]
        /\ \A i \in S \cap Regular : i \in new
    BY <1>1, <1>2, <1>3, <1>5, ExchangedAdds
  <1>8. \A i \in qtodo[w] \cap Regular : i \in new \/ qdb.copies[i] > 0
    BY <1>6, <1>7
  <1>9. PICK x : x = Exchanged(new, lost)
    OBVIOUS
  <1>10. Adds(new, x) /\ CommitAndEnd(w, [qdb EXCEPT !.copies = x, !.cursor[k] = m], TRUE)
    BY <1>2, <1>7, <1>9
  <1> QED
    BY <1>1, <1>4, <1>7, <1>8, <1>10, ImportMoves

LEMMA EmployeesKeep ==
    ASSUME ExportInv, SyncInv, NEW w \in QbWorkers, ImportEmployees(w)
    PROVE  SyncInv'
  <1> DEFINE C == {i \in qtodo[w] : qsnap[w].copies[i] = 0}
             x == WithCopies(C)
             moving == Moving(w)
             k == "employee"
  <1>1. k \in QbKinds \ Stepwise /\ k \notin Guarded /\ qbc[w] = k
    BY DEF ImportEmployees, QbKinds, Stepwise, Guarded, InvoiceKinds, PayKinds
  <1>2. C \in SUBSET qtodo[w] /\ moving \in SUBSET qtodo[w] /\ \A i \in C : qsnap[w].copies[i] = 0
    BY DEF Moving, Taken
  <1>3. CASE moving # {}
    <2> DEFINE m == Max(moving)
    <2>1. CommitAndEnd(w, [qdb EXCEPT !.copies = x, !.cursor[k] = m], TRUE)
      BY <1>3 DEF ImportEmployees
    <2>2. ~ stale[w]
      BY <2>1 DEF CommitAndEnd, MayCommit
    <2>3. m \in qtodo[w]
      BY <1>1, <1>2, <1>3, AtWork
    <2>4. \A i \in qtodo[w] \cap Regular : i \in C \/ qdb.copies[i] > 0
      BY <1>1, <2>2, AtWork
    <2> HIDE DEF C, m, moving
    <2>5. Adds(C, x)
      BY <1>1, <1>2, <2>2, FoundAdds
    <2> HIDE DEF x
    <2> QED
      BY <1>1, <1>2, <2>1, <2>3, <2>4, <2>5, ImportMoves
  <1>4. CASE moving = {}
    <2>1. CommitAndEnd(w, [qdb EXCEPT !.copies = x, !.cursor[k] = qdb.cursor[k]], FALSE)
      BY <1>4 DEF ImportEmployees
    <2>2. \A i \in qtodo[w] : remote[i].odd /\ qsnap[w].copies[i] = 0
      BY <1>1, <1>4, AtWork DEF Moving, Taken
    <2>3. C \in SUBSET Made
      BY <1>1, <1>2, AtWork
    <2>4. \A i \in C : qdb.copies[i] = 0 \/ i \in Excused
      <3> SUFFICES ASSUME NEW i \in C PROVE qdb.copies[i] = 0 \/ i \in Excused
        OBVIOUS
      <3>1. qdb.copies[i] = 0 \/ i \in Excused \/ i \in raced
        BY <1>1 DEF SyncInv, JobOK, ImportOK
      <3> QED
        BY <2>2, <2>3, <3>1, RacedExcused
    <2>5. Adds(C, x)
      <3> HIDE DEF C
      <3> QED
        BY <2>3, <2>4, CopiesAdded
    <2> HIDE DEF C, moving, x
    <2> QED
      BY <1>1, <1>2, <2>1, <2>2, <2>5, ImportRests
  <1> QED
    BY <1>3, <1>4

LEMMA AgenciesKeep ==
    ASSUME ExportInv, SyncInv, NEW w \in QbWorkers, ImportAgencies(w)
    PROVE  SyncInv'
  <1> DEFINE C == qtodo[w]
             m == Max(qtodo[w])
             k == "agency"
             x == WithCopies(C)
  <1>1. k \in QbKinds \ Stepwise /\ k \in Guarded /\ qbc[w] = k
    BY DEF ImportAgencies, QbKinds, Stepwise, Guarded
  <1>2. CommitAndEnd(w, [qdb EXCEPT !.copies = x, !.cursor[k] = m], TRUE) /\ ~ stale[w]
    BY DEF ImportAgencies, CommitAndEnd, MayCommit
  <1>3. m \in qtodo[w] /\ \A i \in C : i <= m
    BY <1>1, AtWork
  <1>4. C \in SUBSET Made /\ \A i \in C : qdb.copies[i] = 0 \/ i \in Excused
    BY <1>1, <1>2, AtWork DEF SyncInv, Ahead
  <1>5. Adds(C, x)
    BY <1>4, CopiesAdded
  <1> HIDE DEF m, x
  <1> QED
    BY <1>1, <1>2, <1>3, <1>5, ImportMoves

LEMMA MethodsKeep ==
    ASSUME ExportInv, SyncInv, NEW w \in QbWorkers, ImportMethods(w)
    PROVE  SyncInv'
  <1> DEFINE C == qtodo[w]
             m == Max(qtodo[w])
             k == "method"
             x == WithCopies(C)
  <1>1. k \in QbKinds \ Stepwise /\ k \notin Guarded /\ qbc[w] = k
    BY DEF ImportMethods, QbKinds, Stepwise, Guarded, InvoiceKinds, PayKinds
  <1>2. CommitAndEnd(w, [qdb EXCEPT !.copies = x, !.cursor[k] = m], TRUE)
    BY DEF ImportMethods
  <1>3. m \in qtodo[w]
    BY <1>1, AtWork
  <1>4. ASSUME NEW i \in C PROVE qdb.copies[i] = 0 \/ i \in Excused
    <2>1. i \in Made /\ Kind(i) = "method" /\ i # 0 /\ qdb.copies[i] \in Nat
      BY <1>1, AtWork, SyncFacts
    <2>2. CASE Exported("method")
      BY <2>1, <2>2 DEF Excused, QbExcused
    <2>3. CASE ~ Exported("method")
      <3>1. {d \in Docs : qdb.id[d] = i} = {}
        <4> SUFFICES ASSUME NEW d \in Docs, qdb.id[d] = i PROVE FALSE
          OBVIOUS
        <4>1. remote[i].home = d /\ d # 0
          BY <2>1, QbAssumption DEF SyncInv, CommittedOK
        <4> QED
          BY <2>1, <2>3, <4>1 DEF Exported
      <3>2. ~ (qdb.copies[i] > 0)
        BY <3>1, FS_EmptySet DEF ImportMethods, Coded
      <3> QED
        BY <2>1, <3>2
    <2> QED
      BY <2>2, <2>3
  <1>5. C \in SUBSET Made
    BY <1>1, AtWork
  <1>6. Adds(C, x)
    BY <1>4, <1>5, CopiesAdded
  <1> HIDE DEF m, x
  <1> QED
    BY <1>1, <1>2, <1>3, <1>6, ImportMoves

LEMMA OnlyCreatedKeeps ==
    ASSUME ExportInv, SyncInv, NEW w \in QbWorkers, NEW k \in {"purchase", "term", "refund"}, qbc[w] = k,
           NEW C, C = New(w, qtodo[w]), NEW m, C # {} => m \in C, C = {} => m = qdb.cursor[k],
           CommitAndEnd(w, [qdb EXCEPT !.copies = WithCopies(C), !.cursor[k] = m], C # {})
    PROVE  SyncInv'
  <1>1. k \in QbKinds \ Stepwise /\ k \notin Guarded
    BY DEF QbKinds, Stepwise, Guarded, InvoiceKinds, PayKinds
  <1>2. C \in SUBSET qtodo[w] /\ \A i \in C : qsnap[w].copies[i] = 0
    BY DEF New, Taken
  <1>3. PICK x : x = WithCopies(C)
    OBVIOUS
  <1>4. CASE C # {}
    <2>1. CommitAndEnd(w, [qdb EXCEPT !.copies = x, !.cursor[k] = m], TRUE)
      BY <1>3, <1>4
    <2>2. ~ stale[w]
      BY <2>1 DEF CommitAndEnd, MayCommit
    <2>3. m \in qtodo[w] /\ Adds(C, x)
      BY <1>1, <1>2, <1>3, <1>4, <2>2, FoundAdds
    <2>4. \A i \in qtodo[w] \cap Regular : i \in C \/ qdb.copies[i] > 0
      BY <1>1, <2>2, AtWork DEF New, Taken
    <2> QED
      BY <1>1, <1>2, <2>1, <2>3, <2>4, ImportMoves
  <1>5. CASE C = {}
    <2>1. CommitAndEnd(w, [qdb EXCEPT !.copies = x, !.cursor[k] = qdb.cursor[k]], FALSE)
      BY <1>3, <1>5
    <2>2. C \in SUBSET Made /\ \A i \in C : qdb.copies[i] = 0 \/ i \in Excused
      BY <1>5
    <2>3. Adds(C, x)
      BY <1>3, <2>2, CopiesAdded
    <2> QED
      BY <1>1, <1>2, <1>5, <2>1, <2>3, ImportRests
  <1> QED
    BY <1>4, <1>5

LEMMA CreatedKeep ==
    ASSUME ExportInv, SyncInv, NEW w \in QbWorkers,
           OnlyCreated(w, "purchase") \/ OnlyCreated(w, "refund") \/ ImportTerms(w)
    PROVE  SyncInv'
  <1>1. PICK C : C = New(w, qtodo[w])
    OBVIOUS
  <1>2. ASSUME NEW k \in {"purchase", "refund"}, OnlyCreated(w, k) PROVE SyncInv'
    <2>1. PICK m : m = IF C = {} THEN qdb.cursor[k] ELSE Max(C)
      OBVIOUS
    <2>2. /\ qbc[w] = k
          /\ CommitAndEnd(w, [qdb EXCEPT !.copies = WithCopies(C), !.cursor[k] = m], C # {})
      BY <1>1, <1>2, <2>1 DEF OnlyCreated
    <2>3. C # {} => m \in C
      <3>1. C \in SUBSET qtodo[w] /\ k \in QbKinds
        BY <1>1 DEF New, Taken, QbKinds
      <3> QED
        BY <2>1, <2>2, <3>1, AtWork
    <2>4. C = {} => m = qdb.cursor[k]
      BY <2>1
    <2> QED
      BY <1>1, <2>2, <2>3, <2>4, OnlyCreatedKeeps
  <1>3. CASE ImportTerms(w)
    <2>1. PICK m \in (IF C = {} THEN {qdb.cursor["term"]} ELSE C) :
             CommitAndEnd(w, [qdb EXCEPT !.copies = WithCopies(C), !.cursor["term"] = m], C # {})
      BY <1>1, <1>3 DEF ImportTerms
    <2>2. (C # {} => m \in C) /\ (C = {} => m = qdb.cursor["term"]) /\ qbc[w] = "term"
      BY <1>3, <2>1 DEF ImportTerms
    <2> QED
      BY <1>1, <2>1, <2>2, OnlyCreatedKeeps
  <1> QED
    BY <1>2, <1>3

(* The records of payments.                                                *)
LEMMA PaymentsAdd ==
    ASSUME ExportInv, SyncInv, NEW w \in QbWorkers, NEW S \in SUBSET Made,
           \A i \in S : Kind(i) \in PayKinds, \A i \in S : qdb.copies[i] = 0 \/ i \in Excused
    PROVE  Adds(Taken(S), WithPayments(w, S))
  <1> DEFINE x == WithPayments(w, S)
  <1>1. Made \subseteq Ids /\ \A i \in Ids : qdb.copies[i] \in Nat
    BY SyncFacts
  <1>2. Twins(New(w, S)) \subseteq Taken(S) /\ Taken(S) \subseteq S
    BY DEF Twins, New, Taken
  <1>3. \A i \in Twins(New(w, S)) : i \in Excused
    BY <1>2 DEF Twins, Excused, QbExcused
  <1>4. /\ \A i \in Ids \ Taken(S) : x[i] = qdb.copies[i]
        /\ \A i \in Taken(S) : x[i] = qdb.copies[i] + 1 \/ (x[i] = qdb.copies[i] + 2 /\ i \in Excused)
        /\ x \in [Ids -> Nat]
    BY <1>1, <1>2, <1>3 DEF WithPayments, One
  <1> HIDE DEF x
  <1>5. \A i \in Taken(S) : x[i] > 0 /\ (x[i] <= 1 \/ i \in Excused)
    BY <1>1, <1>2, <1>4
  <1>6. \A i \in Made \ Taken(S) : x[i] <= qdb.copies[i]
    BY <1>1, <1>4
  <1>7. \A i \in Ids \ Made : x[i] = 0
    BY <1>2, <1>4 DEF SyncInv, CommittedOK
  <1>8. \A i \in Made : x[i] >= qdb.copies[i]
    BY <1>1, <1>2, <1>4
  <1> QED
    BY <1>4, <1>5, <1>6, <1>7, <1>8 DEF Adds, x

LEMMA PaymentsKeep ==
    ASSUME ExportInv, SyncInv, NEW w \in QbWorkers, ImportPayments(w)
    PROVE  SyncInv'
  <1> DEFINE k == qbc[w]
             C == Taken(qtodo[w])
             m == Max(qtodo[w])
             x == WithPayments(w, qtodo[w])
             y == qdb.drafts \ Reposted(w, qtodo[w])
             z == [qdb.cursor EXCEPT ![k] = m]
             v == [qdb EXCEPT !.copies = x, !.drafts = y, !.cursor = z]
             u == [qdb EXCEPT !.copies = x, !.drafts = @ \ Reposted(w, qtodo[w]), !.cursor[k] = m]
  <1>1. k \in QbKinds \ Stepwise /\ k \in Guarded /\ k \in PayKinds
    BY DEF ImportPayments, PayKinds, QbKinds, Stepwise, Guarded
  <1>2. CommitAndEnd(w, u, TRUE)
    BY DEF ImportPayments
  <1>3. u = v
    <2> HIDE DEF x, m, k
    <2> QED
      BY DEF ExportInv, RowsFielded
  <1>4. SameBut(qdb, v, x, qdb.lines, y, z)
    <2> HIDE DEF x, y, z
    <2> QED
      BY ReviseChange DEF ExportInv
  <1>5. EndWith(w, v, TRUE) /\ ~ stale[w]
    <2> HIDE DEF u, v
    <2> QED
      BY <1>2, <1>3 DEF CommitAndEnd, MayCommit
  <1>6. /\ qtodo[w] \subseteq Made /\ \A i \in qtodo[w] : Kind(i) = k /\ i \in Nat /\ i > qdb.cursor[k]
        /\ qtodo[w] \subseteq Seen(w) /\ k \in world /\ pend[w].made = {} /\ m \in qtodo[w]
        /\ \A i \in qtodo[w] : i <= m
    BY <1>1, <1>5, AtWork
  <1>7. C \in SUBSET qtodo[w] /\ C \in SUBSET Made /\ \A i \in qtodo[w] \cap Regular : i \in C
    BY <1>1, <1>6, AtWork DEF Taken
  <1>8. \A i \in qtodo[w] : Kind(i) \in PayKinds /\ (qdb.copies[i] = 0 \/ i \in Excused)
    BY <1>1, <1>6 DEF SyncInv, Ahead
  <1>9. z \in [world -> Nat]
    BY <1>6 DEF SyncInv, SyncTyped
  <1>10. Adds(C, x)
    BY <1>6, <1>8, PaymentsAdd
  <1> HIDE DEF v, C, m, x
  <1>11. qdb' = v
    BY <1>5 DEF EndWith
  <1>12. MovesCursors(C, TRUE)
    <2>1. qdb'.cursor = [qdb.cursor EXCEPT ![k] = m] /\ m \in Seen(w)
      BY <1>4, <1>6, <1>11 DEF SameBut
    <2> QED
      BY <1>1, <1>5, <1>6, <1>7, <2>1, CursorPasses
  <1>13. \A i \in v.drafts : i \in qdb.drafts
    BY <1>4 DEF SameBut
  <1>14. /\ Adds(C, v.copies) /\ v.lines = qdb.lines /\ v.id = qdb.id /\ v.cursor \in [world -> Nat]
         /\ \A i \in C : i \in qtodo[w]
    BY <1>4, <1>7, <1>9, <1>10 DEF SameBut
  <1> QED
    BY <1>1, <1>5, <1>7, <1>12, <1>13, <1>14, Imports

(* More records.                                                           *)
LEMMA AlsoAdds ==
    ASSUME ExportInv, SyncInv, NEW C \in SUBSET Made, NEW x, Adds(C, x), NEW S \in SUBSET Made,
           S \cap C \subseteq Excused, \A i \in S : qdb.copies[i] = 0 \/ i \in Excused
    PROVE  Adds(S \cup C, [i \in Ids |-> x[i] + One(i \in S)])
  <1> DEFINE y == [i \in Ids |-> x[i] + One(i \in S)]
  <1>1. /\ Made \subseteq Ids /\ \A i \in Ids : qdb.copies[i] \in Nat /\ x[i] \in Nat
        /\ \A i \in C : x[i] > 0 /\ (x[i] <= 1 \/ i \in Excused)
        /\ \A i \in Made \ C : x[i] <= qdb.copies[i]
        /\ \A i \in Ids \ Made : x[i] = 0
        /\ \A i \in Made : Shared(i) \/ x[i] >= qdb.copies[i]
    BY SyncFacts DEF Adds
  <1>2. /\ y \in [Ids -> Nat] /\ \A i \in S : y[i] = x[i] + 1
        /\ \A i \in Ids \ S : y[i] = x[i]
    BY <1>1 DEF One
  <1> HIDE DEF y
  <1>3. ASSUME NEW i \in S \cup C PROVE y[i] > 0 /\ (y[i] <= 1 \/ i \in Excused)
    <2>1. CASE i \in S
      <3>1. i \in Ids /\ x[i] \in Nat /\ y[i] = x[i] + 1
        BY <1>1, <1>2, <2>1
      <3>2. CASE i \in Excused
        BY <3>1, <3>2
      <3>3. CASE i \notin Excused
        <4>1. i \in Made \ C /\ qdb.copies[i] = 0
          BY <2>1, <3>3
        <4>2. x[i] <= qdb.copies[i]
          BY <1>1, <4>1
        <4> QED
          BY <3>1, <4>1, <4>2
      <3> QED
        BY <3>2, <3>3
    <2>2. CASE i \in C /\ i \notin S
      <3>1. i \in Ids
        BY <1>1, <2>2
      <3> QED
        BY <1>1, <1>2, <2>2, <3>1
    <2> QED
      BY <2>1, <2>2
  <1>4. \A i \in Made \ (S \cup C) : y[i] <= qdb.copies[i]
    BY <1>1, <1>2
  <1>5. \A i \in Ids \ Made : y[i] = 0
    BY <1>1, <1>2
  <1>6. ASSUME NEW i \in Made PROVE Shared(i) \/ y[i] >= qdb.copies[i]
    BY <1>1, <1>2
  <1> QED
    BY <1>2, <1>3, <1>4, <1>5, <1>6 DEF Adds, y

(* The import of invoices with their payments.                             *)
LEMMA InvoicesKeep ==
    ASSUME ExportInv, SyncInv, NEW w \in QbWorkers, ImportInvoices(w)
    PROVE  SyncInv'
  <1> DEFINE k     == qbc[w]
             taken == Taken(qtodo[w])
             new   == New(w, qtodo[w])
             pays  == LinkedTo(new)
             last  == IF pays = {} THEN {IF "payment" \in world THEN qdb.cursor["payment"] ELSE 0}
                      ELSE LinkedTo({Max({remote[p].of : p \in pays})})
             moves == taken # {}
             C == new \cup Taken(pays)
             x == [i \in Ids |-> WithPayments(w, pays)[i] + One(i \in new)]
             y == qdb.drafts \cup (taken \ new)
             z(p) == [l \in world |-> CASE l = k /\ taken # {} -> Max(taken)
                                        [] l = "payment"       -> p
                                        [] OTHER               -> qdb.cursor[l]]
             u(p) == [qdb EXCEPT !.copies = x, !.drafts = @ \cup (taken \ new),
                                 !.cursor = [l \in world |->
                                    CASE l = k /\ taken # {} -> Max(taken)
                                      [] l = "payment"       -> p
                                      [] OTHER               -> @[l]]]
             v(p) == [qdb EXCEPT !.copies = x, !.drafts = y, !.cursor = z(p)]
  <1>1. k \in InvoiceKinds /\ k \in QbKinds \ Stepwise /\ k \in Guarded /\ k # "payment"
    BY DEF ImportInvoices, InvoiceKinds, QbKinds, Stepwise, Guarded
  <1>2. PICK p \in last : CommitAndEnd(w, u(p), moves)
    BY DEF ImportInvoices
  <1>3. u(p) = v(p)
    <2> HIDE DEF x, taken, new, k
    <2> QED
      BY DEF ExportInv, RowsFielded
  <1>4. SameBut(qdb, v(p), x, qdb.lines, y, z(p))
    <2> HIDE DEF x, y, z
    <2> QED
      BY ReviseChange DEF ExportInv
  <1>5. EndWith(w, v(p), moves) /\ (moves => ~ stale[w]) /\ moves \in BOOLEAN
    <2>1. moves \in BOOLEAN
      OBVIOUS
    <2> HIDE DEF u, v, moves
    <2> QED
      BY <1>2, <1>3, <2>1 DEF CommitAndEnd, MayCommit
  <1>6. /\ qtodo[w] \subseteq Made /\ \A i \in qtodo[w] : Kind(i) = k /\ i \in Nat
        /\ k \in world /\ qtodo[w] # {}
        /\ moves => \A i \in qtodo[w] : i > qdb.cursor[k]
    BY <1>1, <1>5, AtWork
  <1>7. taken \subseteq qtodo[w] /\ new \subseteq taken /\ \A i \in taken : ~ remote[i].odd
    BY DEF Taken, New
  <1>8. pays \subseteq Made /\ \A i \in pays : Kind(i) = "payment" /\ remote[i].of # 0 /\ i \in Excused
    <2>1. \A i \in pays : i \in Made /\ Kind(i) = "payment" /\ remote[i].of \in new
      BY DEF LinkedTo
    <2>2. \A i \in new : i # 0
      BY <1>6, <1>7, SyncFacts
    <2> QED
      BY <2>1, <2>2, BelowExcused DEF SyncInv
  <1>9. moves => Max(taken) \in taken /\ \A i \in taken : i <= Max(taken)
    BY <1>1, <1>7, AtWork
  <1>10. C \in SUBSET Made /\ \A i \in C : i \in new \/ i \in pays
    BY <1>6, <1>7, <1>8 DEF Taken
  <1>11. /\ pays = {} => p = IF "payment" \in world THEN qdb.cursor["payment"] ELSE 0
         /\ pays # {} => p \in Made
    BY <1>2 DEF LinkedTo
  <1> HIDE DEF C, pays
  <1>12. z(p) \in [world -> Nat] /\ \A l \in world : z(p)[l] <= Len(remote)
    <2>1. ASSUME NEW l \in world PROVE z(p)[l] \in Nat /\ z(p)[l] <= Len(remote)
      <3>1. CASE l = k /\ taken # {}
        <4>1. Max(taken) \in Made
          BY <1>6, <1>7, <1>9, <3>1
        <4>2. Max(taken) \in Nat /\ Max(taken) <= Len(remote)
          BY <4>1, SyncFacts
        <4> HIDE DEF taken, k
        <4> QED
          BY <1>1, <3>1, <4>2
      <3>2. CASE l = "payment"
        <4>1. p \in Nat /\ p <= Len(remote)
          <5>1. qdb.cursor[l] \in Nat /\ qdb.cursor[l] <= Len(remote)
            BY SyncFacts DEF SyncInv, CommittedOK
          <5>2. CASE pays = {}
            BY <1>11, <3>2, <5>1, <5>2
          <5>3. CASE pays # {}
            BY <1>11, <5>3, SyncFacts
          <5> QED
            BY <5>2, <5>3
        <4> HIDE DEF taken
        <4> QED
          BY <1>1, <3>2, <4>1
      <3>3. CASE ~ (l = k /\ taken # {}) /\ l # "payment"
        <4>1. z(p)[l] = qdb.cursor[l]
          BY <3>3
        <4> QED
          BY <4>1, SyncFacts DEF SyncInv, CommittedOK
      <3> QED
        BY <3>1, <3>2, <3>3
    <2> HIDE DEF taken, k
    <2> QED
      BY <2>1
  <1>13. /\ \A l \in world : l # k /\ l # "payment" => z(p)[l] = qdb.cursor[l]
         /\ moves => z(p)[k] = Max(taken)
         /\ ~ moves => z(p)[k] = qdb.cursor[k]
         /\ pays = {} /\ "payment" \in world => z(p)["payment"] = qdb.cursor["payment"]
    <2> HIDE DEF k
    <2> QED
      BY <1>1, <1>6, <1>11
  <1> HIDE DEF v, z
  <1>14. qdb' = v(p)
    BY <1>5 DEF EndWith
  <1>15. qdb'.cursor = z(p)
    BY <1>4, <1>14 DEF SameBut
  <1>16. ~ moves => new = {} /\ pays = {}
    BY <1>7 DEF pays, LinkedTo
  <1>17. /\ \A i \in qtodo[w] \cap Regular : i \in new \/ qdb.copies[i] > 0
         /\ \A i \in new : qdb.copies[i] = 0 \/ i \in Excused
    BY <1>1, <1>5, <1>7, AtWork DEF New, Taken
  <1> HIDE DEF new, moves, taken, k
  <1>18. MovesCursors(C, moves)
    <2>1. \A l \in world \cap Guarded : moves \/ qdb'.cursor[l] = qdb.cursor[l]
      BY <1>13, <1>15, <1>16
    <2>2. ASSUME NEW i \in Regular, i <= qdb'.cursor[Kind(i)], ~ (i <= qdb.cursor[Kind(i)])
          PROVE  i \in C \/ qdb.copies[i] > 0
      <3>0. i \in Made /\ Kind(i) \in world
        BY SyncFacts
      <3>1. CASE Kind(i) = k
        <4>1. moves /\ i <= Max(taken) /\ Max(taken) \in qtodo[w]
          BY <1>7, <1>9, <1>13, <1>15, <2>2, <3>1
        <4>2. i \in qtodo[w] \/ qdb.copies[i] > 0
          BY <1>1, <3>1, <4>1, AtWork DEF SyncInv, JobOK, ImportOK, k
        <4> QED
          BY <1>17, <4>2 DEF C
      <3>2. CASE Kind(i) = "payment"
        <4>1. pays # {}
          BY <1>13, <1>15, <2>2, <3>0, <3>2
        <4>2. Jumping("payment")
          BY <1>8, <4>1 DEF Jumping
        <4> QED
          BY <3>2, <4>2 DEF Regular
      <3> QED
        BY <1>13, <1>15, <2>2, <3>0, <3>1, <3>2
    <2>3. ASSUME NEW i \in Made, i > qdb'.cursor[Kind(i)], i \in C \/ i <= qdb.cursor[Kind(i)]
          PROVE  /\ Kind(i) \in InvoiceKinds => remote[i].home # 0
                 /\ Kind(i) \in PayKinds \cup {"agency"} => i \in Excused
      <3>0. i \in Nat /\ Kind(i) \in world /\ qdb.cursor[Kind(i)] \in Nat
        BY SyncFacts
      <3>1. CASE Kind(i) = k
        <4>1. moves
          BY <1>8, <1>10, <1>13, <1>15, <1>16, <2>3, <3>0, <3>1, <1>1
        <4>2. Max(taken) \in Nat /\ Max(taken) > qdb.cursor[k] /\ i > Max(taken)
          BY <1>6, <1>7, <1>9, <1>13, <1>15, <2>3, <3>1, <4>1
        <4>3. i \in taken
          BY <1>1, <1>7, <1>8, <1>10, <2>3, <3>0, <3>1, <4>2
        <4> QED
          BY <1>9, <3>0, <4>1, <4>2, <4>3
      <3>2. CASE Kind(i) = "payment"
        <4>1. pays # {}
          <5>1. CASE i \in C
            BY <1>1, <1>6, <1>7, <1>10, <3>2, <5>1
          <5>2. CASE i <= qdb.cursor[Kind(i)]
            BY <1>13, <1>15, <2>3, <3>0, <3>2, <5>2
          <5> QED
            BY <2>3, <5>1, <5>2
        <4>2. i \in Excused
          BY <1>8, <3>2, <4>1 DEF Excused, QbExcused, PayKinds
        <4> QED
          BY <3>2, <4>2 DEF InvoiceKinds
      <3>3. CASE Kind(i) # k /\ Kind(i) # "payment"
        <4>1. i \notin C /\ qdb'.cursor[Kind(i)] = qdb.cursor[Kind(i)]
          BY <1>6, <1>7, <1>8, <1>10, <1>13, <1>15, <3>0, <3>3
        <4> QED
          BY <2>3, <3>0, <4>1
      <3> QED
        BY <3>1, <3>2, <3>3
    <2> QED
      BY <1>12, <1>15, <2>1, <2>2, <2>3 DEF MovesCursors
  <1>19. ASSUME NEW i \in v(p).drafts PROVE i \in qdb.drafts \/ (i \in Made /\ remote[i].home # 0)
    <2>1. i \in qdb.drafts \/ i \in taken \ new
      BY <1>4 DEF SameBut
    <2>2. ASSUME i \in taken \ new PROVE i \in Made /\ remote[i].home # 0
      <3>1. i \in qtodo[w] /\ i \in Made /\ qsnap[w].copies[i] # 0
        BY <1>6, <1>7, <2>2 DEF taken, new, New
      <3> QED
        BY <1>1, <3>1 DEF SyncInv, JobOK, ImportOK, k
    <2> QED
      BY <2>1, <2>2
  <1>20. ASSUME NEW i \in C
         PROVE  (i \in qtodo[w] /\ (moves \/ remote[i].odd)) \/ remote[i].of # 0
    BY <1>7, <1>8, <1>10, <1>16, <1>17
  <1>21. EndWith(w, v(p), moves) /\ moves \in BOOLEAN
    BY <1>5
  <1>22. qbc[w] \in QbKinds \ Stepwise
    BY <1>1 DEF k
  <1>24. Adds(C, x)
    <2>1. Adds(Taken(pays), WithPayments(w, pays))
      BY <1>8, PaymentsAdd DEF PayKinds
    <2>2. /\ new \subseteq Made /\ \A i \in new : i \notin pays
      BY <1>1, <1>6, <1>7, <1>8
    <2>3. new \cap Taken(pays) \subseteq Excused /\ C = new \cup Taken(pays)
          /\ Taken(pays) \in SUBSET Made
      BY <1>8, <2>2 DEF Taken, C
    <2> QED
      BY <1>17, <2>1, <2>2, <2>3, AlsoAdds
  <1> DEFINE t == v(p)
  <1>23. /\ Adds(C, t.copies) /\ t.lines = qdb.lines /\ t.id = qdb.id /\ t.cursor \in [world -> Nat]
         /\ EndWith(w, t, moves)
         /\ \A i \in t.drafts : i \in qdb.drafts \/ (i \in Made /\ remote[i].home # 0)
    BY <1>4, <1>12, <1>19, <1>21, <1>24 DEF SameBut
  <1> HIDE DEF t, x
  <1> QED
    BY <1>10, <1>18, <1>20, <1>21, <1>22, <1>23, Imports

-----------------------------------------------------------------------------
(* QuickBooks: imports that commit one object after the other.             *)

Stepped == [cursor : Nat, met : SUBSET Ids, made : SUBSET Ids]

(* What is left to import, the line and the item of a request that goes on.*)
GoesOn(w, s, n, r) ==
    /\ qtodo' = [qtodo EXCEPT ![w] = s] /\ line' = [line EXCEPT ![w] = n]
    /\ item' = [item EXCEPT ![w] = r] /\ r.id \in {item[w].id} \cup qtodo[w]
    /\ UNCHANGED <<world, docKind, remote, qbc, raced>>

(* What it may have written.                                               *)
Writes(w, p) ==
    /\ p.met = {} /\ p.cursor <= Len(remote)
    /\ p.made # {} => qbc[w] = "category"
    /\ \A i \in p.made : i \in Made /\ Kind(i) = "category" /\ remote[i].of # 0

(* What it leaves behind, and the order that it is in the middle of.       *)
Passed(w, C, p, s) ==
    /\ \A i \in Regular : Kind(i) = qbc[w] /\ i <= p.cursor => qdb'.copies[i] > 0
    /\ \A i \in Regular : i \in qtodo[w] \ s => qdb'.copies[i] > 0 \/ i \in p.made
    /\ pend[w].made \subseteq C

AtLine(w, s, n) ==
    n > 0 => /\ n <= QbLines /\ qbc[w] = "order" /\ s # {}
             /\ 1 .. (n - 1) \subseteq qdb'.lines[Min(s)] /\ qdb'.copies[Min(s)] > 0

(* A commit after which the request goes on: with s to import, at line n,  *)
(* having written p.                                                       *)
LEMMA StepCommits ==
    ASSUME ExportInv, SyncInv, NEW w \in QbWorkers, qbc[w] \in QbKinds \cap Stepwise,
           NEW C, NEW moves \in BOOLEAN,
           qdb'.copies \in [Ids -> Nat], qdb'.lines \in [Ids -> SUBSET AllLines], qdb'.cursor \in [world -> Nat],
           Creates(w, C, moves), MovesCursors(C, moves), FillsOrders(w, C), KeepsIds,
           broken' = broken \ Whole(pend[w].met), Outdate(w, moves),
           NEW s \in SUBSET qtodo[w], NEW n \in Nat, NEW p \in Stepped, NEW r, GoesOn(w, s, n, r),
           pend' = [pend EXCEPT ![w] = p],
           NEW t, t.copies = qdb'.copies, qsnap' = [qsnap EXCEPT ![w] = t],
           Writes(w, p), Passed(w, C, p, s), AtLine(w, s, n)
    PROVE  SyncInv'
  <1>0. /\ UNCHANGED <<world, docKind, remote, qbc, raced>> /\ r.id \in {item[w].id} \cup qtodo[w]
        /\ qtodo' = [qtodo EXCEPT ![w] = s]
        /\ Made' = Made /\ Regular' = Regular /\ Excused' = Excused /\ Ids' = Ids
        /\ qbc[w] \in QbKinds /\ qbc[w] \in Stepwise
    BY SameWorld DEF Ids, GoesOn
  <1>1. /\ \A x \in QbWorkers \ {w} :
              /\ qtodo'[x] = qtodo[x] /\ line'[x] = line[x]
              /\ pend'[x] = pend[x] /\ qsnap'[x] = qsnap[x] /\ item'[x] = item[x]
        /\ qtodo'[w] = s /\ line'[w] = n /\ pend'[w] = p /\ qsnap'[w] = t /\ item'[w] = r
    BY DEF ExportInv, SyncInv, SyncTyped, GoesOn
  <1>2. stale' = [x \in QbWorkers |-> x # w /\ qbc[x] # "idle" /\ (stale[x] \/ moves)]
    BY DEF Outdate
  <1>3. SyncTyped'
    <2>1. pend' \in [QbWorkers -> [cursor : Nat, met : SUBSET Ids, made : SUBSET Ids]]
      BY DEF SyncInv, SyncTyped, Stepped
    <2>2. qtodo' \in [QbWorkers -> SUBSET Ids] /\ stale' \in [QbWorkers -> BOOLEAN]
      BY <1>0, <1>2 DEF SyncInv, SyncTyped
    <2> QED
      BY <1>0, <2>1, <2>2 DEF SyncTyped
  <1>4. OthersStay(w, moves)
    <2>1. \A x \in QbWorkers \ {w} : qbc[x] # "idle" => stale'[x] = (stale[x] \/ moves)
      BY <1>2
    <2> QED
      BY <1>0, <1>1, <2>1 DEF OthersStay
  <1>5. Commits(w, C, moves)
    BY <1>3, <1>4 DEF Commits
  <1>7. JobOK(w) /\ ImportOK(w) /\ WritesOK(w)
    BY <1>0 DEF SyncInv, JobOK
  <1>8. SnapshotOK(w)'
    <2>1. \A i \in Ids \ Made : t.copies[i] = 0
      BY DEF Creates
    <2> QED
      BY <1>0, <1>1, <2>1 DEF SnapshotOK
  <1>9. WritesOK(w)'
    <2>1. r.id \in 0 .. Len(remote)
      <3>1. \A i \in qtodo[w] : i \in 0 .. Len(remote)
        BY <1>0, AtWork, SyncFacts
      <3> QED
        BY <1>0, <1>7, <3>1 DEF WritesOK
    <2>2. qbc[w] # "idle"
      BY <1>0 DEF QbKinds
    <2> QED
      BY <1>0, <1>1, <2>1, <2>2 DEF Writes, WritesOK, Kind
  <1>10. ImportOK(w)'
    <2>1. /\ qbc[w] \in world /\ \A i \in s : i \in Made /\ Kind(i) = qbc[w]
      BY <1>7 DEF ImportOK
    <2>2. ASSUME NEW i \in Regular, NEW j \in s \cup {r.id}, Kind(i) = qbc[w], i <= j
          PROVE  i \in s \/ qdb'.copies[i] > 0 \/ i \in p.made
      <3>1. i \in qtodo[w] \/ qdb.copies[i] > 0 \/ i \in pend[w].made
        BY <1>0, <1>7, <2>2 DEF ImportOK, Seen
      <3>2. CASE i \in qtodo[w]
        BY <3>2 DEF Passed
      <3>3. CASE qdb.copies[i] > 0
        <4>1. qdb'.copies[i] >= qdb.copies[i] /\ i \in Ids
          BY SyncFacts DEF Creates
        <4> QED
          BY <3>3, <4>1, SyncFacts
      <3>4. CASE i \in pend[w].made
        BY <3>4 DEF Creates, Passed
      <3> QED
        BY <3>1, <3>2, <3>3, <3>4
    <2>3. "invoice" \notin Stepwise /\ "bill" \notin Stepwise /\ qbc[w] \notin InvoiceKinds
          /\ qbc[w] \notin Guarded
      BY <1>0 DEF Stepwise, InvoiceKinds, Guarded, PayKinds
    <2>4. /\ \A i \in Regular : Kind(i) = qbc[w] /\ i <= p.cursor => qdb'.copies[i] > 0
          /\ \A i \in Regular : t.copies[i] > 0 => qdb'.copies[i] > 0
          /\ \A i \in s : t.copies[i] = 0 => qdb'.copies[i] = 0
      BY DEF Passed
    <2> QED
      BY <1>0, <1>1, <1>7, <2>1, <2>2, <2>3, <2>4 DEF ImportOK, Seen, Kind
  <1>11. LineOK(w)'
    BY <1>0, <1>1 DEF LineOK, AtLine
  <1>12. JobOK(w)'
    <2>1. qbc[w] # "posted"
      BY <1>0 DEF QbKinds
    <2> QED
      BY <1>0, <1>8, <1>9, <1>10, <1>11, <2>1 DEF JobOK
  <1>13. \A x \in QbWorkers : JobOK(x)'
    BY <1>5, <1>12, CommitKeepsOthers
  <1>14. \A x, y \in QbWorkers : x # y => Apart(x, y)'
    <2>1. qbc[w] # "posted" /\ qtodo'[w] \subseteq qtodo[w]
      BY <1>0, <1>1 DEF QbKinds
    <2> QED
      BY <1>4, <1>0, <2>1, CommitKeepsApart
  <1> QED
    BY <1>3, <1>5, <1>13, <1>14, CommitKeepsRows DEF SyncInv

(* The rows with what a request wrote before.                              *)
LEMMA PendingChange ==
    ASSUME NEW w, NEW v, RowsFielded(v)
    PROVE  SameBut(v, WithPending(w, v),
                   [i \in Ids |-> v.copies[i] + One(i \in pend[w].made)],
                   [i \in Ids |-> IF i \in pend[w].met THEN v.lines[i] \cup remote[i].fresh
                                                      ELSE v.lines[i]],
                   v.drafts,
                   [k \in world |-> IF k = qbc[w] /\ pend[w].cursor # 0
                                      THEN pend[w].cursor ELSE v.cursor[k]])
  <1> DEFINE x == [k \in world |-> IF k = qbc[w] /\ pend[w].cursor # 0
                                     THEN pend[w].cursor ELSE v.cursor[k]]
             r1 == [v EXCEPT !.cursor = x]
             y == [i \in Ids |-> IF i \in pend[w].met THEN r1.lines[i] \cup remote[i].fresh
                                ELSE r1.lines[i]]
             r2 == [r1 EXCEPT !.lines = y]
             z == [i \in Ids |-> r2.copies[i] + One(i \in pend[w].made)]
             r3 == [r2 EXCEPT !.copies = z]
             ya == [i \in Ids |-> IF i \in pend[w].met THEN v.lines[i] \cup remote[i].fresh
                                                         ELSE v.lines[i]]
             za == [i \in Ids |-> v.copies[i] + One(i \in pend[w].made)]
  <1>1. WithPending(w, v) = r3
    BY DEF WithPending
  <1>2. RowsFielded(r1) /\ SameBut(v, r1, v.copies, v.lines, v.drafts, x)
    <2> HIDE DEF x
    <2> QED
      BY OneChange
  <1>3. RowsFielded(r2) /\ SameBut(r1, r2, r1.copies, y, r1.drafts, r1.cursor)
    <2> HIDE DEF r1, y
    <2> QED
      BY <1>2, OneChange
  <1>4. SameBut(r2, r3, z, r2.lines, r2.drafts, r2.cursor)
    <2> HIDE DEF r2, z
    <2> QED
      BY <1>3, OneChange
  <1>5. y = ya
    <2> HIDE DEF r1
    <2> QED
      BY <1>2 DEF SameBut
  <1>6. z = za
    <2>1. r2.copies = v.copies
      <3> HIDE DEF r1, r2
      <3> QED
        BY <1>2, <1>3 DEF SameBut
    <2> HIDE DEF r2
    <2> QED
      BY <2>1
  <1> HIDE DEF r1, r2, r3, x, y, z, ya, za
  <1>7. SameBut(v, WithPending(w, v), za, ya, v.drafts, x)
    BY <1>1, <1>2, <1>3, <1>4, <1>5, <1>6 DEF SameBut
  <1> QED
    BY <1>7 DEF x, ya, za

(* What a step commits when it creates S: a cursor that has been passed,   *)
(* and what was written before.                                            *)
LEMMA PendingRows ==
    ASSUME ExportInv, SyncInv, NEW w \in QbWorkers,
           NEW S \in SUBSET Made, NEW v, RowsFielded(v), Adds(S, v.copies),
           v.lines \in [Ids -> SUBSET AllLines]
    PROVE  /\ Adds(S \cup pend[w].made, WithPending(w, v).copies)
           /\ WithPending(w, v).lines = [i \in Ids |-> IF i \in pend[w].met
                                                       THEN v.lines[i] \cup remote[i].fresh
                                                       ELSE v.lines[i]]
           /\ WithPending(w, v).lines \in [Ids -> SUBSET AllLines]
  <1> DEFINE u == WithPending(w, v)
             x == [i \in Ids |-> v.copies[i] + One(i \in pend[w].made)]
             y == [i \in Ids |-> IF i \in pend[w].met THEN v.lines[i] \cup remote[i].fresh
                                                        ELSE v.lines[i]]
  <1>1. u.copies = x /\ u.lines = y
    <2>1. SameBut(v, WithPending(w, v), x, y, v.drafts,
                  [k \in world |-> IF k = qbc[w] /\ pend[w].cursor # 0
                                     THEN pend[w].cursor ELSE v.cursor[k]])
      BY PendingChange
    <2> HIDE DEF x, y
    <2> QED
      BY <2>1 DEF SameBut
  <1>2. /\ pend[w].made \in SUBSET Made /\ pend[w].met \subseteq Made
        /\ \A i \in pend[w].made : Kind(i) = "category" /\ remote[i].of # 0
    BY DEF SyncInv, JobOK, WritesOK
  <1>3. Adds(S \cup pend[w].made, x)
    <2>1. pend[w].made \subseteq Excused
      BY <1>2, BelowExcused DEF SyncInv
    <2>2. PICK c : c = v.copies
      OBVIOUS
    <2>3. PICK m \in SUBSET Made : m = pend[w].made
      BY <1>2
    <2>4. Adds(S, c) /\ m \cap S \subseteq Excused /\ \A i \in m : qdb.copies[i] = 0 \/ i \in Excused
      BY <2>1, <2>2, <2>3
    <2>5. Adds(m \cup S, [i \in Ids |-> c[i] + One(i \in m)])
      BY <2>4, AlsoAdds
    <2>6. m \cup S = S \cup pend[w].made /\ x = [i \in Ids |-> c[i] + One(i \in m)]
      BY <2>2, <2>3
    <2> HIDE DEF x
    <2> QED
      BY <2>5, <2>6
  <1>4. y \in [Ids -> SUBSET AllLines]
    <2>1. ASSUME NEW i \in pend[w].met PROVE remote[i].fresh \subseteq AllLines
      <3>1. remote[i] \in RemoteObject
        BY <1>2 DEF ExportInv, Made
      <3> QED
        BY <3>1 DEF RemoteObject
    <2>2. \A i \in Ids : v.lines[i] \subseteq AllLines
      OBVIOUS
    <2> QED
      BY <2>1, <2>2
  <1> HIDE DEF u, x, y
  <1> QED
    BY <1>1, <1>3, <1>4 DEF u, x, y

LEMMA StepRows ==
    ASSUME ExportInv, SyncInv, NEW w \in QbWorkers, qbc[w] \in QbKinds \cap Stepwise,
           NEW S \in SUBSET Made, NEW v, RowsFielded(v), v.id = qdb.id, v.drafts = qdb.drafts,
           v.cursor = qdb.cursor, Adds(S, v.copies), v.lines \in [Ids -> SUBSET AllLines],
           qdb' = WithPending(w, v)
    PROVE  /\ Adds(S \cup pend[w].made, qdb'.copies) /\ qdb'.cursor \in [world -> Nat]
           /\ qdb'.lines = [i \in Ids |-> IF i \in pend[w].met THEN v.lines[i] \cup remote[i].fresh
                                                              ELSE v.lines[i]]
           /\ qdb'.lines \in [Ids -> SUBSET AllLines]
           /\ qdb'.cursor = IF pend[w].cursor # 0 THEN [qdb.cursor EXCEPT ![qbc[w]] = pend[w].cursor]
                            ELSE qdb.cursor
           /\ KeepsIds
  <1> DEFINE x == [i \in Ids |-> v.copies[i] + One(i \in pend[w].made)]
             y == [i \in Ids |-> IF i \in pend[w].met THEN v.lines[i] \cup remote[i].fresh
                                                        ELSE v.lines[i]]
             z == [k \in world |-> IF k = qbc[w] /\ pend[w].cursor # 0
                                     THEN pend[w].cursor ELSE v.cursor[k]]
  <1>1. /\ qdb'.copies = x /\ qdb'.lines = y /\ qdb'.drafts = qdb.drafts
        /\ qdb'.cursor = z /\ qdb'.id = qdb.id
    BY PendingChange DEF SameBut
  <1>2. /\ pend[w].made \in SUBSET Made /\ pend[w].cursor \in Nat /\ pend[w].met \subseteq Made
        /\ qdb.cursor \in [world -> Nat] /\ Made \subseteq Ids
        /\ \A i \in pend[w].made : Kind(i) = "category" /\ remote[i].of # 0
    BY SyncFacts DEF SyncInv, SyncTyped, JobOK, WritesOK
  <1>3. /\ Adds(S \cup pend[w].made, x)
        /\ y \in [Ids -> SUBSET AllLines]
    <2>1. Adds(S \cup pend[w].made, WithPending(w, v).copies) /\ WithPending(w, v).lines \in [Ids -> SUBSET AllLines]
      BY PendingRows
    <2> HIDE DEF x, y
    <2> QED
      BY <1>1, <2>1
  <1>4. qdb'.lines \in [Ids -> SUBSET AllLines]
    BY <1>1, <1>3
  <1>5. qdb'.cursor \in [world -> Nat]
    BY <1>1, <1>2
  <1>6. qdb'.cursor = IF pend[w].cursor # 0 THEN [qdb.cursor EXCEPT ![qbc[w]] = pend[w].cursor]
                      ELSE qdb.cursor
    BY <1>1, <1>2
  <1>7. KeepsIds
    <2>1. \A i \in qdb'.drafts : i \in Made /\ remote[i].home # 0
      BY <1>1 DEF SyncInv, CommittedOK
    <2>2. PICK C : C = S \cup pend[w].made
      OBVIOUS
    <2>3. Adds(C, x) /\ qdb'.copies = x /\ qdb'.id = qdb.id
      BY <1>1, <1>3, <2>2
    <2> HIDE DEF x
    <2> QED
      BY <2>1, <2>3, AddsKeepIds
  <1>8. Adds(S \cup pend[w].made, qdb'.copies)
    BY <1>1, <1>3
  <1> QED
    BY <1>1, <1>4, <1>5, <1>6, <1>7, <1>8

LEMMA StepCreates ==
    ASSUME ExportInv, SyncInv, NEW w \in QbWorkers, qbc[w] \in QbKinds \cap Stepwise,
           NEW S \in SUBSET qtodo[w], Adds(S \cup pend[w].made, qdb'.copies), NEW moves \in BOOLEAN,
           \A j \in S, i \in Regular : Kind(j) = "product" /\ Kind(i) = "product" /\ i < j =>
              qdb.copies[i] > 0
    PROVE  Creates(w, S \cup pend[w].made, moves)
  <1> DEFINE C == S \cup pend[w].made
  <1>0. /\ S \subseteq Made /\ \A i \in qtodo[w] : Kind(i) = qbc[w]
        /\ \A i \in pend[w].made : i \in Made /\ Kind(i) = "category" /\ remote[i].of # 0
    BY AtWork, SyncFacts DEF SyncInv, JobOK, WritesOK
  <1>1. C \in SUBSET Made
    BY <1>0
  <1>2. \A i \in C : \/ i \in qtodo[w] /\ (moves \/ Kind(i) \in Stepwise \/ remote[i].odd)
                     \/ qbc[w] = "posted" /\ i = item[w].id
                     \/ remote[i].of # 0
    BY <1>0
  <1>3. \A j \in C, i \in Regular :
           Kind(i) = "product" /\ Kind(j) = "product" /\ i < j => qdb.copies[i] > 0
    BY <1>0
  <1>4. PICK x : x = qdb'.copies
    OBVIOUS
  <1>5. Adds(C, x) /\ qdb'.copies = x
    BY <1>4
  <1> HIDE DEF C
  <1>6. Creates(w, C, moves)
    BY <1>1, <1>2, <1>3, <1>5, AddsCreates
  <1> QED
    BY <1>6 DEF C

LEMMA StepCursors ==
    ASSUME ExportInv, SyncInv, NEW w \in QbWorkers, qbc[w] \in QbKinds \cap Stepwise,
           NEW C \in SUBSET Made, NEW moves \in BOOLEAN,
           \A i \in C : Kind(i) \in Stepwise,
           qdb'.cursor = IF pend[w].cursor # 0 THEN [qdb.cursor EXCEPT ![qbc[w]] = pend[w].cursor]
                         ELSE qdb.cursor
    PROVE  MovesCursors(C, moves)
  <1>1. ImportOK(w) /\ WritesOK(w)
    BY DEF SyncInv, JobOK
  <1>2. /\ qbc[w] \in world /\ pend[w].cursor <= Len(remote)
        /\ \A i \in Regular : Kind(i) = qbc[w] /\ i <= pend[w].cursor => qdb.copies[i] > 0
    BY <1>1 DEF ImportOK, WritesOK
  <1>3. \A k \in Stepwise : k \notin Guarded
    BY DEF Stepwise, Guarded, InvoiceKinds, PayKinds
  <1>4. /\ \A l \in world : qdb'.cursor[l] = qdb.cursor[l] \/ (l = qbc[w] /\ qdb'.cursor[l] = pend[w].cursor)
        /\ \A l \in world : qdb.cursor[l] <= Len(remote) /\ qdb.cursor[l] \in Nat
        /\ \A i \in Made : i \in Nat /\ Kind(i) \in world
    BY <1>2, SyncFacts DEF SyncInv, SyncTyped, CommittedOK
  <1>5. \A l \in world : qdb'.cursor[l] <= Len(remote)
    BY <1>2, <1>4
  <1>6. \A l \in world \cap Guarded : qdb'.cursor[l] = qdb.cursor[l]
    BY <1>3, <1>4
  <1>7. \A i \in Regular : i <= qdb'.cursor[Kind(i)] => i <= qdb.cursor[Kind(i)] \/ qdb.copies[i] > 0
    BY <1>2, <1>4, SyncFacts
  <1>8. ASSUME NEW i \in Made, i > qdb'.cursor[Kind(i)], i \in C \/ i <= qdb.cursor[Kind(i)]
        PROVE  Kind(i) \notin Guarded
    BY <1>3, <1>4, <1>6, <1>8
  <1> QED
    BY <1>5, <1>6, <1>7, <1>8 DEF MovesCursors, Guarded

(* What a step creates, passes and leaves of an order.                     *)
Wants(S) ==
    \A j \in S, i \in Regular : Kind(j) = "product" /\ Kind(i) = "product" /\ i < j =>
        qdb.copies[i] > 0

Passes(w, S, p, s) ==
    /\ \A i \in Regular : i \in qtodo[w] \ s => i \in S \/ qdb.copies[i] > 0 \/ i \in p.made
    /\ \A i \in Regular : Kind(i) = qbc[w] /\ i <= p.cursor =>
          i \in S \/ qdb.copies[i] > 0 \/ i \in pend[w].made

FillsLines(w, S, v, s, n) ==
    /\ \A i \in Made : Kind(i) = "order" =>
          /\ qdb.lines[i] \subseteq v.lines[i]
          /\ v.lines[i] # AllLines /\ (i \in S \/ (line[w] > 0 /\ i = Min(qtodo[w]))) =>
                n > 0 /\ i = Min(s)
    /\ n > 0 => /\ n <= QbLines /\ qbc[w] = "order" /\ s # {}
                /\ 1 .. (n - 1) \subseteq v.lines[Min(s)]
                /\ (Min(s) \in S \/ qdb.copies[Min(s)] > 0)

(* The next step of a request that commits as it goes: it creates S.       *)
LEMMA StepKeeps ==
    ASSUME ExportInv, SyncInv, NEW w \in QbWorkers, qbc[w] \in QbKinds \cap Stepwise,
           NEW S \in SUBSET qtodo[w], NEW v, RowsFielded(v), v.id = qdb.id, v.drafts = qdb.drafts,
           v.cursor = qdb.cursor, Adds(S, v.copies), v.lines \in [Ids -> SUBSET AllLines],
           NEW s \in SUBSET qtodo[w], NEW n \in Nat, NEW p \in Stepped, NEW r, GoesOn(w, s, n, r),
           CommitAndGoOn(w, v, p),
           Writes(w, p), Wants(S), Passes(w, S, p, s), FillsLines(w, S, v, s, n)
    PROVE  SyncInv'
  <1> DEFINE C == S \cup pend[w].made
             moves == pend[w].cursor # 0
             u == WithPending(w, v)
  <1>0. /\ qdb' = u /\ qsnap' = [qsnap EXCEPT ![w] = u] /\ pend' = [pend EXCEPT ![w] = p]
        /\ broken' = broken \ Whole(pend[w].met) /\ Outdate(w, moves)
    BY DEF CommitAndGoOn
  <1>1. /\ S \in SUBSET Made /\ Made \subseteq Ids /\ \A i \in qtodo[w] : Kind(i) = qbc[w]
        /\ \A i \in pend[w].made : i \in Made /\ Kind(i) = "category" /\ remote[i].of # 0
        /\ qtodo[w] \in SUBSET Nat /\ qtodo[w] \subseteq Made /\ Regular \subseteq Made
    BY AtWork, SyncFacts DEF SyncInv, JobOK, WritesOK
  <1> HIDE DEF u, moves
  <1>2. /\ Adds(C, qdb'.copies) /\ qdb'.cursor \in [world -> Nat]
        /\ qdb'.lines = [i \in Ids |-> IF i \in pend[w].met THEN v.lines[i] \cup remote[i].fresh
                                                           ELSE v.lines[i]]
        /\ qdb'.lines \in [Ids -> SUBSET AllLines]
        /\ qdb'.cursor = IF pend[w].cursor # 0 THEN [qdb.cursor EXCEPT ![qbc[w]] = pend[w].cursor]
                         ELSE qdb.cursor
        /\ KeepsIds
    <2>1. qdb' = WithPending(w, v)
      BY <1>0 DEF u
    <2> QED
      BY <1>1, <2>1, StepRows
  <1>3. moves \in BOOLEAN
    BY DEF moves
  <1>4. Creates(w, C, moves)
    <2>1. \A j \in S, i \in Regular : Kind(j) = "product" /\ Kind(i) = "product" /\ i < j =>
             qdb.copies[i] > 0
      BY DEF Wants
    <2> QED
      BY <1>2, <1>3, <2>1, StepCreates
  <1>5. C \in SUBSET Made /\ \A i \in C : Kind(i) \in Stepwise
    BY <1>1 DEF Stepwise
  <1>6. MovesCursors(C, moves)
    BY <1>2, <1>3, <1>5, StepCursors
  <1>7. qdb'.copies \in [Ids -> Nat]
    BY <1>2 DEF Adds
  <1>8. \A i \in Ids : /\ v.lines[i] \subseteq qdb'.lines[i] /\ qdb'.lines[i] \subseteq AllLines
                       /\ i \in pend[w].met => qdb'.lines[i] = v.lines[i] \cup remote[i].fresh
    BY <1>2
  <1>9. qtodo'[w] = s /\ line'[w] = n
    BY DEF ExportInv, SyncInv, SyncTyped, GoesOn
  <1>10. FillsOrders(w, C)
    <2> SUFFICES ASSUME NEW i \in Made, Kind(i) = "order"
                 PROVE  /\ qdb.lines[i] \subseteq qdb'.lines[i]
                        /\ qdb'.lines[i] # AllLines =>
                              /\ i \notin Whole(pend[w].met)
                              /\ i \in C \/ (line[w] > 0 /\ i = Min(qtodo[w])) =>
                                    line'[w] > 0 /\ i = Min(qtodo'[w])
      BY DEF FillsOrders
    <2>1. i \in Ids /\ (i \in C => i \in S)
      BY <1>1
    <2>2. /\ qdb.lines[i] \subseteq v.lines[i]
          /\ v.lines[i] # AllLines /\ (i \in S \/ (line[w] > 0 /\ i = Min(qtodo[w]))) =>
                n > 0 /\ i = Min(s)
      BY DEF FillsLines
    <2>3. /\ v.lines[i] \subseteq qdb'.lines[i] /\ qdb'.lines[i] \subseteq AllLines
          /\ i \in pend[w].met => qdb'.lines[i] = v.lines[i] \cup remote[i].fresh
      BY <1>8, <2>1
    <2>4. qdb'.lines[i] # AllLines => v.lines[i] # AllLines
      BY <2>3
    <2>5. ASSUME i \in Whole(pend[w].met) PROVE qdb'.lines[i] = AllLines
      <3>1. i \in pend[w].met /\ qdb.lines[i] \cup remote[i].fresh = AllLines
        BY <2>5 DEF Whole, Completed
      <3> QED
        BY <2>2, <2>3, <3>1
    <2> QED
      BY <1>9, <2>1, <2>2, <2>3, <2>4, <2>5
  <1>11. \A i \in Made : ~ Shared(i) \/ i \in C => (i \in C \/ qdb.copies[i] > 0 => qdb'.copies[i] > 0)
    <2> SUFFICES ASSUME NEW i \in Made, ~ Shared(i) \/ i \in C, i \in C \/ qdb.copies[i] > 0
                 PROVE  qdb'.copies[i] > 0
      OBVIOUS
    <2>1. i \in Ids /\ qdb.copies[i] \in Nat /\ qdb'.copies[i] \in Nat
      BY <1>1, <1>7, SyncFacts
    <2>2. CASE i \in C
      BY <1>2, <2>2 DEF Adds
    <2>3. CASE i \notin C
      <3>1. qdb'.copies[i] >= qdb.copies[i] /\ qdb.copies[i] > 0
        BY <1>2, <2>3 DEF Adds
      <3> QED
        BY <2>1, <3>1
    <2> QED
      BY <2>2, <2>3
  <1>12. Passed(w, C, p, s)
    <2>1. \A i \in Regular : i \in C \/ qdb.copies[i] > 0 => qdb'.copies[i] > 0
      BY <1>1, <1>11 DEF Regular
    <2> QED
      BY <1>1, <2>1 DEF Passed, Passes
  <1>13. AtLine(w, s, n)
    <2> SUFFICES ASSUME n > 0
                 PROVE  1 .. (n - 1) \subseteq qdb'.lines[Min(s)] /\ qdb'.copies[Min(s)] > 0
      BY DEF AtLine, FillsLines
    <2>0. /\ n <= QbLines /\ s # {} /\ 1 .. (n - 1) \subseteq v.lines[Min(s)] /\ qbc[w] = "order"
          /\ Min(s) \in S \/ qdb.copies[Min(s)] > 0
      BY DEF FillsLines
    <2>1. Min(s) \in s
      BY <1>1, <2>0, MinIs
    <2>2. PICK i \in Made : i = Min(s)
      BY <1>1, <2>1
    <2>3. 1 .. (n - 1) \subseteq v.lines[i] /\ (i \in S \/ qdb.copies[i] > 0) /\ i \in Ids /\ i \in qtodo[w]
      BY <1>1, <2>0, <2>1, <2>2
    <2>4. 1 .. (n - 1) \subseteq qdb'.lines[i]
      BY <1>8, <2>3
    <2>5. ~ Shared(i)
      BY <1>1, <2>0, <2>3 DEF Shared, ByCode
    <2>6. qdb'.copies[i] > 0
      BY <1>11, <2>3, <2>5
    <2> QED
      BY <2>2, <2>4, <2>6
  <1>14. PICK t : t = u
    OBVIOUS
  <1>15. t.copies = qdb'.copies /\ qsnap' = [qsnap EXCEPT ![w] = t]
    BY <1>0, <1>14
  <1> HIDE DEF C
  <1> QED
    BY <1>0, <1>2, <1>3, <1>4, <1>6, <1>7, <1>10, <1>12, <1>13, <1>15, StepCommits

-----------------------------------------------------------------------------
(* QuickBooks: steps that commit nothing.                                  *)

(* What is new in QuickBooks is in Odoo nowhere.                           *)
LEMMA NewObjects ==
    ASSUME ExportInv, SyncInv, Sequel(remote, remote'), ObjectsOK', raced \subseteq raced',
           UNCHANGED world
    PROVE  /\ Made \subseteq Made' /\ Made' \subseteq Ids /\ Excused \subseteq Excused'
           /\ \A i \in Made : Kind(i)' = Kind(i) /\ remote'[i] = remote[i]
           /\ \A i \in Made : i \in Regular' => i \in Regular
           /\ \A i \in Made' \ Made : /\ i \in Nat /\ i > Len(remote) /\ qdb.copies[i] = 0
                                      /\ Kind(i)' \in world /\ qdb.cursor[Kind(i)'] < i
           /\ Len(remote) <= Len(remote') /\ Len(remote') \in Nat /\ Regular' \subseteq Made'
  <1>1. Len(remote) \in Nat /\ Len(remote') \in Nat /\ Len(remote) <= Len(remote')
        /\ Len(remote') <= N /\ N \in Nat
    BY QbAssumption DEF ExportInv, Sequel, ObjectsOK
  <1>2. /\ Made \subseteq Made' /\ \A i \in Made : remote'[i] = remote[i]
        /\ \A i \in Made : i \in Regular' => i \in Regular
        /\ Excused \subseteq Excused'
    BY WorldGrows
  <1>3. Made' \subseteq Ids /\ Regular' \subseteq Made'
    BY <1>1 DEF Made, Ids, Regular
  <1>4. ASSUME NEW i \in Made' \ Made
        PROVE  /\ i \in Nat /\ i > Len(remote) /\ qdb.copies[i] = 0
               /\ Kind(i)' \in world /\ qdb.cursor[Kind(i)'] < i
    <2>1. i \in Nat /\ i > Len(remote)
      BY <1>1 DEF Made
    <2>2. qdb.copies[i] = 0
      BY <1>3 DEF SyncInv, CommittedOK
    <2>3. Kind(i)' \in world
      BY DEF ObjectsOK
    <2>4. qdb.cursor[Kind(i)'] <= Len(remote) /\ qdb.cursor[Kind(i)'] \in Nat
      BY <2>3, SyncFacts DEF SyncInv, CommittedOK
    <2> QED
      BY <1>1, <2>1, <2>2, <2>3, <2>4
  <1>5. \A i \in Made : Kind(i)' = Kind(i)
    BY <1>2 DEF Kind
  <1> QED
    BY <1>1, <1>2, <1>3, <1>4, <1>5

LEMMA WorldKeeps ==
    ASSUME ExportInv, SyncInv, Sequel(remote, remote'), ObjectsOK', raced \subseteq raced',
           UNCHANGED <<world, docKind, qdb>>, broken \subseteq broken',
           \A x \in QbWorkers : line[x] > 0 =>
              \/ Min(qtodo[x]) \in broken'
              \/ line'[x] > 0 /\ qtodo'[x] = qtodo[x]
    PROVE  CommittedOK' /\ NoGaps' /\ InOrder' /\ Ahead' /\ Once' /\ QbWholeOrders'
  <1>1. /\ Made \subseteq Made' /\ Made' \subseteq Ids /\ Excused \subseteq Excused'
        /\ \A i \in Made : Kind(i)' = Kind(i) /\ remote'[i] = remote[i]
        /\ \A i \in Made : i \in Regular' => i \in Regular
        /\ \A i \in Made' \ Made : /\ i \in Nat /\ i > Len(remote) /\ qdb.copies[i] = 0
                                   /\ Kind(i)' \in world /\ qdb.cursor[Kind(i)'] < i
        /\ Len(remote) <= Len(remote') /\ Len(remote') \in Nat /\ Regular' \subseteq Made'
    BY NewObjects
  <1>2. /\ Len(remote) \in Nat /\ \A i \in Made : i \in Nat /\ i <= Len(remote) /\ Kind(i) \in world
        /\ \A k \in world : qdb.cursor[k] \in Nat
    BY SyncFacts
  <1>3. CommittedOK'
    <2>1. \A k \in world : qdb.cursor[k] <= Len(remote')
      BY <1>1, <1>2 DEF SyncInv, CommittedOK
    <2> QED
      BY <1>1, <2>1 DEF SyncInv, CommittedOK, Ids
  <1>4. NoGaps'
    <2> SUFFICES ASSUME NEW i \in Regular', i <= qdb.cursor[Kind(i)'] PROVE qdb.copies[i] > 0
      BY DEF NoGaps
    <2>1. i \in Made
      BY <1>1, <1>2
    <2> QED
      BY <1>1, <2>1 DEF SyncInv, NoGaps
  <1>5. InOrder'
    <2> SUFFICES ASSUME NEW i \in Regular', NEW j \in Made', Kind(i)' = "product", Kind(j)' = "product",
                        i < j, qdb.copies[j] > 0
                 PROVE  qdb.copies[i] > 0
      BY DEF InOrder
    <2>1. j \in Made
      BY <1>1
    <2>2. i \in Made
      BY <1>1, <1>2, <2>1
    <2> QED
      BY <1>1, <2>1, <2>2 DEF SyncInv, InOrder
  <1>6. Ahead'
    BY <1>1 DEF SyncInv, Ahead
  <1>7. Once'
    BY <1>1 DEF SyncInv, Once
  <1>8. QbWholeOrders'
    <2> SUFFICES ASSUME NEW i \in Made', Kind(i)' = "order", qdb.copies[i] > 0, qdb.lines[i] # AllLines,
                        i \notin broken'
                 PROVE  \E x \in QbWorkers : line'[x] > 0 /\ i = Min(qtodo'[x])
      BY DEF QbWholeOrders
    <2>1. i \in Made /\ Kind(i) = "order" /\ i \notin broken
      BY <1>1
    <2>2. PICK x \in QbWorkers : line[x] > 0 /\ i = Min(qtodo[x])
      BY <2>1 DEF SyncInv, QbWholeOrders
    <2> QED
      BY <2>2
  <1> QED
    BY <1>3, <1>4, <1>5, <1>6, <1>7, <1>8

LEMMA WorldKeepsJob ==
    ASSUME ExportInv, SyncInv, Sequel(remote, remote'), ObjectsOK', raced \subseteq raced',
           UNCHANGED <<world, docKind, qdb>>, NEW x \in QbWorkers,
           /\ qbc'[x] = qbc[x] /\ qtodo'[x] = qtodo[x] /\ line'[x] = line[x]
           /\ pend'[x] = pend[x] /\ qsnap'[x] = qsnap[x] /\ item'[x] = item[x]
           /\ stale'[x] = stale[x]
    PROVE  JobOK(x)'
  <1>1. /\ Made \subseteq Made' /\ Made' \subseteq Ids /\ Excused \subseteq Excused'
        /\ \A i \in Made : Kind(i)' = Kind(i) /\ remote'[i] = remote[i]
        /\ \A i \in Made : i \in Regular' => i \in Regular
        /\ \A i \in Made' \ Made : /\ i \in Nat /\ i > Len(remote) /\ qdb.copies[i] = 0
                                   /\ Kind(i)' \in world /\ qdb.cursor[Kind(i)'] < i
        /\ Len(remote) <= Len(remote') /\ Len(remote') \in Nat /\ Regular' \subseteq Made'
    BY NewObjects
  <1>2. /\ Len(remote) \in Nat /\ \A i \in Made : i \in Nat /\ i <= Len(remote) /\ Kind(i) \in world
        /\ \A k \in world : qdb.cursor[k] \in Nat
    BY SyncFacts
  <1>3. /\ SnapshotOK(x) /\ WritesOK(x) /\ LineOK(x)
        /\ qbc[x] \notin QbKinds => qtodo[x] = {}
        /\ qbc[x] \in QbKinds => ImportOK(x)
        /\ qbc[x] = "posted" => PostedOK(x)
    BY DEF SyncInv, JobOK
  <1>4. SnapshotOK(x)'
    BY <1>1, <1>3 DEF SnapshotOK, Ids
  <1>5. WritesOK(x)'
    <2>1. /\ pend[x].cursor <= Len(remote') /\ item[x].id \in 0 .. Len(remote')
      <3>1. pend[x].cursor \in Nat
        BY DEF SyncInv, SyncTyped
      <3> QED
        BY <1>1, <1>2, <1>3, <3>1 DEF WritesOK
    <2>2. \A i \in pend[x].made : i \in Made' /\ Kind(i)' = "category" /\ remote'[i].of # 0
      BY <1>1, <1>3 DEF WritesOK
    <2>3. pend[x].met \subseteq Made'
      BY <1>1, <1>3 DEF WritesOK
    <2> QED
      BY <1>3, <2>1, <2>2, <2>3 DEF WritesOK
  <1>6. LineOK(x)'
    BY <1>3 DEF LineOK
  <1>7. ASSUME qbc[x] \in QbKinds PROVE ImportOK(x)'
    <2>1. ImportOK(x) /\ WritesOK(x) /\ SnapshotOK(x)
      BY <1>3, <1>7
    <2>2. \A i \in qtodo[x] : i \in Made' /\ Kind(i)' = qbc[x]
      BY <1>1, <2>1 DEF ImportOK
    <2>3. ASSUME NEW i \in Regular', NEW j \in Seen(x), Kind(i)' = qbc[x], i <= j
          PROVE  i \in qtodo[x] \/ qdb.copies[i] > 0 \/ i \in pend[x].made
      <3>1. j \in Nat /\ j <= Len(remote)
        BY <1>2, <2>1 DEF Seen, ImportOK, WritesOK
      <3>2. i \in Made
        BY <1>1, <1>2, <2>3, <3>1
      <3> QED
        BY <1>1, <2>1, <2>3, <3>2 DEF ImportOK
    <2>4. ASSUME NEW i \in Regular', Kind(i)' = qbc[x], i <= pend[x].cursor PROVE qdb.copies[i] > 0
      <3>1. pend[x].cursor \in Nat /\ pend[x].cursor <= Len(remote)
        BY <2>1 DEF SyncInv, SyncTyped, WritesOK
      <3>2. i \in Made
        BY <1>1, <1>2, <2>4, <3>1
      <3> QED
        BY <1>1, <2>1, <2>4, <3>2 DEF ImportOK
    <2>5. ASSUME NEW i \in Regular', qsnap[x].copies[i] > 0 PROVE qdb.copies[i] > 0
      <3>1. i \in Made
        BY <1>1, <2>1, <2>5 DEF SnapshotOK
      <3> QED
        BY <1>1, <2>1, <2>5, <3>1 DEF ImportOK
    <2>6. \A i \in qtodo[x] : qsnap[x].copies[i] = 0 =>
             \/ qdb.copies[i] = 0 \/ i \in Excused'
             \/ qbc[x] \notin Stepwise /\ stale[x] /\ i \in raced'
      BY <1>1, <2>1 DEF ImportOK
    <2>7. qbc[x] \in InvoiceKinds => \A i \in qtodo[x] : qsnap[x].copies[i] # 0 => remote'[i].home # 0
      BY <1>1, <2>1 DEF ImportOK
    <2>8. Seen(x)' = Seen(x)
      BY DEF Seen
    <2> QED
      BY <2>1, <2>2, <2>3, <2>4, <2>5, <2>6, <2>7, <2>8 DEF ImportOK
  <1>8. qbc[x] = "posted" => PostedOK(x)'
    BY <1>1, <1>3 DEF PostedOK
  <1> QED
    BY <1>3, <1>4, <1>5, <1>6, <1>7, <1>8 DEF JobOK

(* An object that is passed over.                                          *)
MayWrite(w, p) ==
    /\ p.cursor <= Len(remote) /\ p.made = pend[w].made
    /\ p.met # {} => qbc[w] = "order"
    /\ p.met \subseteq Made
    /\ \A i \in Regular : Kind(i) = qbc[w] /\ i <= p.cursor => qdb.copies[i] > 0

LEMMA SkipKeeps ==
    ASSUME ExportInv, SyncInv, NEW w \in QbWorkers, qbc[w] \in QbKinds \cap Stepwise, ~ (line[w] > 0),
           UNCHANGED <<world, docKind, remote, qdb, qbc, line, qsnap, stale, item, raced, broken>>,
           NEW s \in SUBSET qtodo[w], qtodo' = [qtodo EXCEPT ![w] = s],
           NEW p \in Stepped, pend' = [pend EXCEPT ![w] = p], MayWrite(w, p),
           \A i \in qtodo[w] \ s : i \in Regular => qdb.copies[i] > 0
    PROVE  SyncInv'
  <1>0. /\ p.cursor <= Len(remote) /\ p.made = pend[w].made
        /\ (p.met # {} => qbc[w] = "order") /\ p.met \subseteq Made
        /\ \A i \in Regular : Kind(i) = qbc[w] /\ i <= p.cursor => qdb.copies[i] > 0
    BY DEF MayWrite
  <1>1. /\ \A x \in QbWorkers \ {w} : qtodo'[x] = qtodo[x] /\ pend'[x] = pend[x]
        /\ qtodo'[w] = s /\ pend'[w] = p
    BY DEF SyncInv, SyncTyped
  <1>2. /\ Made' = Made /\ Regular' = Regular /\ Excused' = Excused
        /\ Sequel(remote, remote') /\ raced \subseteq raced' /\ broken \subseteq broken'
        /\ UNCHANGED <<world, docKind, qdb>>
    BY SameWorld, SameRemote
  <1>3. ObjectsOK'
    BY <1>2 DEF SyncInv, ObjectsOK, Kind
  <1>4. SyncTyped'
    <2>1. pend' \in [QbWorkers -> [cursor : Nat, met : SUBSET Ids, made : SUBSET Ids]]
      BY DEF SyncInv, SyncTyped, Stepped
    <2>2. qtodo' \in [QbWorkers -> SUBSET Ids]
      BY DEF SyncInv, SyncTyped
    <2> QED
      BY <2>1, <2>2 DEF SyncInv, SyncTyped, Ids
  <1>5. CommittedOK' /\ NoGaps' /\ InOrder' /\ Ahead' /\ Once' /\ QbWholeOrders'
    <2>1. \A x \in QbWorkers : line[x] > 0 => line'[x] > 0 /\ qtodo'[x] = qtodo[x]
      BY <1>1
    <2> QED
      BY <1>2, <1>3, <2>1, WorldKeeps
  <1>6. ASSUME NEW x \in QbWorkers \ {w} PROVE JobOK(x)'
    BY <1>1, <1>2, <1>3, WorldKeepsJob
  <1>7. JobOK(w) /\ ImportOK(w) /\ WritesOK(w)
    BY DEF SyncInv, JobOK
  <1>8. WritesOK(w)'
    <2>1. qbc[w] # "idle"
      BY DEF QbKinds
    <2> QED
      BY <1>0, <1>1, <1>2, <1>7, <2>1 DEF WritesOK, Kind
  <1>9. ImportOK(w)'
    <2>1. \A i \in s : i \in qtodo[w]
      OBVIOUS
    <2>2. ASSUME NEW i \in Regular, NEW j \in s \cup {item[w].id}, Kind(i) = qbc[w], i <= j
          PROVE  i \in s \/ qdb.copies[i] > 0 \/ i \in p.made
      BY <1>0, <1>7, <2>2 DEF ImportOK, Seen
    <2> QED
      BY <1>0, <1>1, <1>2, <1>7, <2>1, <2>2 DEF ImportOK, Seen, Kind
  <1>10. JobOK(w)'
    <2>1. qbc[w] # "posted"
      BY DEF QbKinds
    <2>2. SnapshotOK(w)' /\ LineOK(w)'
      BY <1>2, <1>7 DEF JobOK, SnapshotOK, LineOK, Ids
    <2> QED
      BY <1>8, <1>9, <2>1, <2>2 DEF JobOK
  <1>11. \A x, y \in QbWorkers : x # y => Apart(x, y)'
    BY <1>1 DEF SyncInv, Apart
  <1> QED
    BY <1>3, <1>4, <1>5, <1>6, <1>10, <1>11 DEF SyncInv

-----------------------------------------------------------------------------
(* QuickBooks: one object after the other.                                 *)

LEMMA NoCopies ==
    ASSUME ExportInv, SyncInv
    PROVE  Adds({}, qdb.copies)
  <1>1. qdb.copies \in [Ids -> Nat]
    BY DEF SyncInv, SyncTyped
  <1>2. \A i \in Ids \ Made : qdb.copies[i] = 0
    BY DEF SyncInv, CommittedOK
  <1>3. \A i \in Made : qdb.copies[i] \in Nat
    BY SyncFacts
  <1> QED
    BY <1>1, <1>2, <1>3 DEF Adds

(* The first of the objects that are still to import: those before it are  *)
(* imported.                                                               *)
LEMMA FirstIs ==
    ASSUME ExportInv, SyncInv, NEW w \in QbWorkers, qbc[w] \in QbKinds, qtodo[w] # {},
           NEW i, i = Min(qtodo[w])
    PROVE  /\ i \in qtodo[w] /\ i \in Made /\ i \in Nat /\ Kind(i) = qbc[w] /\ i <= Len(remote)
           /\ \A j \in Regular : Kind(j) = qbc[w] /\ j < i => qdb.copies[j] > 0 \/ j \in pend[w].made
           /\ i \in Regular /\ qsnap[w].copies[i] # 0 => qdb.copies[i] > 0
           /\ qbc[w] \in Stepwise /\ qsnap[w].copies[i] = 0 => qdb.copies[i] = 0 \/ i \in Excused
  <1>1. /\ qtodo[w] \subseteq Made /\ \A j \in qtodo[w] : Kind(j) = qbc[w] /\ j \in Nat
        /\ \A j \in qtodo[w] \cap Regular : qsnap[w].copies[j] # 0 => qdb.copies[j] > 0
        /\ \A j \in qtodo[w] : qsnap[w].copies[j] = 0 /\ (~ stale[w] \/ qbc[w] \in Stepwise) =>
              qdb.copies[j] = 0 \/ j \in Excused
    BY AtWork
  <1>2. i \in qtodo[w] /\ \A j \in qtodo[w] : i <= j
    <2>1. qtodo[w] \in SUBSET Nat
      BY <1>1
    <2> QED
      BY <2>1, MinIs
  <1>3. ASSUME NEW j \in Regular, Kind(j) = qbc[w], j < i
        PROVE  qdb.copies[j] > 0 \/ j \in pend[w].made
    <2>1. j \in Nat /\ i \in Nat
      BY <1>1, <1>2, SyncFacts
    <2>2. j \in qtodo[w] \/ qdb.copies[j] > 0 \/ j \in pend[w].made
      BY <1>2, <1>3, <2>1 DEF SyncInv, JobOK, ImportOK, Seen
    <2> QED
      BY <1>2, <1>3, <2>1, <2>2
  <1> QED
    BY <1>1, <1>2, <1>3, SyncFacts

(* What an import that commits as it goes has written.                     *)
LEMMA Written ==
    ASSUME ExportInv, SyncInv, NEW w \in QbWorkers, qbc[w] \in QbKinds
    PROVE  /\ pend[w] \in Stepped /\ pend[w].cursor <= Len(remote)
           /\ (pend[w].met # {} => qbc[w] = "order") /\ pend[w].met \subseteq Made
           /\ \A i \in Regular : Kind(i) = qbc[w] /\ i <= pend[w].cursor => qdb.copies[i] > 0
           /\ qbc[w] # "order" => ~ (line[w] > 0)
           /\ pend = [pend EXCEPT ![w] = pend[w]] /\ line[w] \in Nat
           /\ qtodo[w] = {} => ~ (line[w] > 0)
           /\ \A i \in pend[w].made : i \in Made /\ Kind(i) = "category" /\ remote[i].of # 0
           /\ pend[w].made # {} => qbc[w] = "category"
           /\ item = [item EXCEPT ![w] = item[w]] /\ line = [line EXCEPT ![w] = line[w]]
           /\ qtodo = [qtodo EXCEPT ![w] = qtodo[w]]
  <1>1. JobOK(w) /\ ImportOK(w)
    BY DEF SyncInv, JobOK
  <1>2. pend[w] \in Stepped /\ pend = [pend EXCEPT ![w] = pend[w]]
    BY DEF SyncInv, SyncTyped, Stepped
  <1>3. line[w] \in Nat /\ line = [line EXCEPT ![w] = line[w]] /\ item = [item EXCEPT ![w] = item[w]]
    BY DEF ExportInv
  <1>4. qtodo = [qtodo EXCEPT ![w] = qtodo[w]]
    BY DEF SyncInv, SyncTyped
  <1> QED
    BY <1>1, <1>2, <1>3, <1>4 DEF JobOK, WritesOK, LineOK, ImportOK

(* A step that takes the object i, which is not an order: it creates S and *)
(* writes p.                                                               *)
Takes(w, i, S, p) ==
    /\ qtodo[w] # {} /\ i = Min(qtodo[w]) /\ S \in SUBSET {i} /\ p \in Stepped /\ Writes(w, p)
    /\ i \in Regular => i \in S \/ qdb.copies[i] > 0 \/ i \in p.made
    /\ p.cursor # 0 => p.cursor = i /\ i \in S

LEMMA ObjectStep ==
    ASSUME ExportInv, SyncInv, NEW w \in QbWorkers, qbc[w] \in (QbKinds \cap Stepwise) \ {"order"},
           NEW i, NEW S, NEW x, NEW p, NEW v, NEW r, Takes(w, i, S, p), Adds(S, x),
           v = [qdb EXCEPT !.copies = x], CommitAndGoOn(w, v, p),
           qtodo' = [qtodo EXCEPT ![w] = qtodo[w] \ {i}], item' = [item EXCEPT ![w] = r],
           UNCHANGED <<world, docKind, remote, qbc, line, raced>>, r.id \in {item[w].id, i}
    PROVE  SyncInv'
  <1>0. /\ qtodo[w] # {} /\ i = Min(qtodo[w]) /\ S \in SUBSET {i} /\ p \in Stepped /\ Writes(w, p)
        /\ i \in Regular => i \in S \/ qdb.copies[i] > 0 \/ i \in p.made
        /\ p.cursor # 0 => p.cursor = i /\ i \in S
    BY DEF Takes
  <1> DEFINE s == qtodo[w] \ {i}
  <1>1. /\ i \in qtodo[w] /\ i \in Made /\ i \in Nat /\ Kind(i) = qbc[w]
        /\ \A j \in Regular : Kind(j) = qbc[w] /\ j < i => qdb.copies[j] > 0 \/ j \in pend[w].made
    BY <1>0, FirstIs
  <1>2. ~ (line[w] > 0) /\ line[w] = 0 /\ line = [line EXCEPT ![w] = 0]
        /\ \A j \in pend[w].made : Kind(j) = "category"
    <2>1. ~ (line[w] > 0) /\ line[w] \in Nat /\ line = [line EXCEPT ![w] = line[w]]
      BY Written
    <2> QED
      BY <2>1, Written
  <1>3. /\ RowsFielded(v) /\ v.id = qdb.id /\ v.drafts = qdb.drafts
        /\ v.cursor = qdb.cursor /\ v.copies = x /\ v.lines = qdb.lines
    <2>1. v = [qdb EXCEPT !.copies = x]
      OBVIOUS
    <2>2. RowsFielded(qdb)
      BY DEF ExportInv
    <2>3. /\ RowsFielded([qdb EXCEPT !.copies = x])
          /\ SameBut(qdb, [qdb EXCEPT !.copies = x], x, qdb.lines, qdb.drafts, qdb.cursor)
      BY <2>2, OneChange
    <2>4. RowsFielded(v) /\ SameBut(qdb, v, x, qdb.lines, qdb.drafts, qdb.cursor)
      BY <2>1, <2>3
    <2> QED
      BY <2>4 DEF SameBut
  <1>4. v.lines \in [Ids -> SUBSET AllLines] /\ Adds(S, v.copies)
    BY <1>3 DEF SyncInv, SyncTyped
  <1>5. GoesOn(w, s, 0, r)
    BY <1>1, <1>2 DEF GoesOn
  <1>6. Wants(S)
    <2>1. \A j \in S, k \in Regular : Kind(j) = "product" /\ Kind(k) = "product" /\ k < j =>
             qdb.copies[k] > 0
      BY <1>0, <1>1, <1>2
    <2> QED
      BY <1>0, <1>1, <2>1 DEF Wants
  <1>7. Passes(w, S, p, s)
    <2>1. ASSUME NEW j \in Regular, Kind(j) = qbc[w], j <= p.cursor
          PROVE  j \in S \/ qdb.copies[j] > 0 \/ j \in pend[w].made
      <3>1. j \in Nat /\ j # 0 /\ p.cursor \in Nat
        BY <1>0, SyncFacts DEF Stepped
      <3>2. p.cursor = i /\ i \in S
        BY <1>0, <2>1, <3>1
      <3> QED
        BY <1>1, <2>1, <3>1, <3>2
    <2> QED
      BY <1>0, <2>1 DEF Passes
  <1>8. FillsLines(w, S, v, s, 0)
    <2>1. \A j \in S : Kind(j) # "order"
      BY <1>0, <1>1
    <2> QED
      BY <1>2, <1>3, <2>1 DEF FillsLines
  <1>9. /\ S \in SUBSET qtodo[w] /\ s \in SUBSET qtodo[w] /\ 0 \in Nat /\ qbc[w] \in QbKinds \cap Stepwise
        /\ p \in Stepped /\ Writes(w, p)
    BY <1>0, <1>1
  <1> HIDE DEF s
  <1> QED
    BY <1>3, <1>4, <1>5, <1>6, <1>7, <1>8, <1>9, StepKeeps

LEMMA WritesNothing ==
    ASSUME ExportInv, NEW w
    PROVE  NoWrites \in Stepped /\ Writes(w, NoWrites) /\ NoWrites.cursor = 0
  <1>1. Len(remote) \in Nat
    BY DEF ExportInv
  <1> QED
    BY <1>1 DEF NoWrites, Stepped, Writes

LEMMA AbsentFirst ==
    ASSUME ExportInv, SyncInv, NEW w \in QbWorkers, qbc[w] \in QbKinds \cap Stepwise,
           qtodo[w] # {}, NEW i, i = Min(qtodo[w])
    PROVE  /\ Absent(w, i) \in SUBSET qtodo[w] /\ Absent(w, i) \in SUBSET Made
           /\ \A j \in Absent(w, i) : qdb.copies[j] = 0 \/ j \in Excused
           /\ \A j \in Absent(w, i) : qsnap[w].copies[j] = 0
  <1>1. /\ i \in Made /\ i \in qtodo[w]
        /\ qsnap[w].copies[i] = 0 => qdb.copies[i] = 0 \/ i \in Excused
    BY FirstIs
  <1> QED
    BY <1>1 DEF Absent, New, Taken

(* One that changes nothing.                                               *)
LEMMA OddKeeps ==
    ASSUME ExportInv, SyncInv, NEW w \in QbWorkers, qbc[w] \in (QbKinds \cap Stepwise) \ {"order"},
           NEW i, qtodo' = [qtodo EXCEPT ![w] = qtodo[w] \ {i}], i \in Regular => qdb.copies[i] > 0,
           UNCHANGED <<world, docKind, remote, qdb, qbc, line, pend, qsnap, stale, item, raced, broken>>
    PROVE  SyncInv'
  <1>1. PICK s \in SUBSET qtodo[w] : s = qtodo[w] \ {i}
    OBVIOUS
  <1>2. PICK p \in Stepped : p = pend[w]
    BY Written
  <1>3. MayWrite(w, p) /\ pend' = [pend EXCEPT ![w] = p] /\ ~ (line[w] > 0)
    BY <1>2, Written DEF MayWrite
  <1>4. qtodo' = [qtodo EXCEPT ![w] = s] /\ \A j \in qtodo[w] \ s : j \in Regular => qdb.copies[j] > 0
    BY <1>1
  <1>5. UNCHANGED <<world, docKind, remote, qdb, qbc, line, qsnap, stale, item, raced, broken>>
        /\ qbc[w] \in QbKinds \cap Stepwise
    OBVIOUS
  <1> QED
    BY <1>3, <1>4, <1>5, SkipKeeps

LEMMA OneKeeps ==
    ASSUME ExportInv, SyncInv, NEW w \in QbWorkers, qbc[w] \in {"product", "tax"},
           qtodo[w] # {}, NEW i, i = Min(qtodo[w]), NEW S, NEW x, Adds(S, x), ImportOne(w, i, x),
           S \subseteq Absent(w, i), Absent(w, i) \cap Regular \subseteq S
    PROVE  SyncInv'
  <1>1. /\ qbc[w] \in (QbKinds \cap Stepwise) \ {"order"} /\ qbc[w] \in QbKinds \cap Stepwise
        /\ qbc[w] \in QbKinds
    BY DEF QbKinds, Stepwise
  <1>2. qtodo' = [qtodo EXCEPT ![w] = qtodo[w] \ {i}]
        /\ UNCHANGED <<world, docKind, remote, qbc, line, raced>>
    BY DEF ImportOne
  <1>3. CASE remote[i].odd
    <2>1. UNCHANGED <<world, docKind, remote, qdb, qbc, line, pend, qsnap, stale, item, raced, broken>>
      BY <1>2, <1>3 DEF ImportOne
    <2>2. i \notin Regular
      BY <1>3 DEF Regular
    <2> QED
      BY <1>1, <1>2, <2>1, <2>2, OddKeeps
  <1>4. CASE ~ remote[i].odd
    <2> DEFINE v == [qdb EXCEPT !.copies = x]
               r == [item[w] EXCEPT !.id = i]
    <2>1. CommitAndGoOn(w, v, NoWrites) /\ item' = [item EXCEPT ![w] = r]
      BY <1>4 DEF ImportOne
    <2>2. ItemFielded(item[w])
      BY DEF ExportInv
    <2>3. r.id = i
      BY <2>2 DEF ItemFielded
    <2>4. S \in SUBSET {i} /\ (i \in Regular /\ qsnap[w].copies[i] = 0 => i \in S)
      BY <1>4 DEF Absent, New, Taken
    <2>5. i \in Regular => i \in S \/ qdb.copies[i] > 0
      BY <1>1, <2>4, FirstIs
    <2>6. NoWrites \in Stepped /\ Writes(w, NoWrites) /\ NoWrites.cursor = 0
      BY WritesNothing
    <2>7. v = [qdb EXCEPT !.copies = x] /\ r.id \in {item[w].id, i}
      BY <2>3
    <2> HIDE DEF r, v
    <2>8. Takes(w, i, S, NoWrites)
      BY <2>4, <2>5, <2>6 DEF Takes
    <2> QED
      BY <1>1, <1>2, <2>1, <2>7, <2>8, ObjectStep
  <1> QED
    BY <1>3, <1>4

(* A tax, and a product, that is imported.                                 *)
LEMMA TaxKeeps ==
    ASSUME ExportInv, SyncInv, NEW w \in QbWorkers, ImportTax(w)
    PROVE  SyncInv'
  <1>1. PICK i : i = Min(qtodo[w])
    OBVIOUS
  <1>2. qbc[w] = "tax" /\ qtodo[w] # {} /\ ImportOne(w, i, WithCopies(Absent(w, i)))
    BY <1>1 DEF ImportTax
  <1>3. qbc[w] \in QbKinds \cap Stepwise /\ qbc[w] \in {"product", "tax"}
    BY <1>2 DEF QbKinds, Stepwise
  <1>4. Absent(w, i) \in SUBSET Made /\ \A j \in Absent(w, i) : qdb.copies[j] = 0 \/ j \in Excused
    BY <1>1, <1>2, <1>3, AbsentFirst
  <1>5. PICK S \in SUBSET Made : S = Absent(w, i)
    BY <1>4
  <1>6. PICK x : x = WithCopies(S)
    OBVIOUS
  <1>7. Adds(S, x)
    BY <1>4, <1>5, <1>6, CopiesAdded
  <1>8. /\ ImportOne(w, i, x) /\ S \subseteq Absent(w, i) /\ Absent(w, i) \cap Regular \subseteq S
    BY <1>2, <1>5, <1>6
  <1> QED
    BY <1>1, <1>2, <1>3, <1>7, <1>8, OneKeeps

LEMMA ProductKeeps ==
    ASSUME ExportInv, SyncInv, NEW w \in QbWorkers, ImportProduct(w)
    PROVE  SyncInv'
  <1>1. PICK i : i = Min(qtodo[w])
    OBVIOUS
  <1>2. PICK new \in SUBSET Absent(w, i), lost \in SUBSET Made :
           Matched(w, Absent(w, i), new, lost) /\ ImportOne(w, i, Exchanged(new, lost))
    BY <1>1 DEF ImportProduct
  <1>3. qbc[w] = "product" /\ qtodo[w] # {}
    BY DEF ImportProduct
  <1>4. PICK S : S = Absent(w, i)
    OBVIOUS
  <1>5. /\ qbc[w] \in QbKinds \cap Stepwise /\ qbc[w] \in ByCode /\ qbc[w] \in {"product", "tax"}
        /\ ~ stale[w] \/ qbc[w] \in Stepwise
    BY <1>3 DEF QbKinds, Stepwise, ByCode
  <1>6. /\ Absent(w, i) \in SUBSET qtodo[w] /\ Absent(w, i) \in SUBSET Made
        /\ \A j \in Absent(w, i) : qsnap[w].copies[j] = 0
    BY <1>1, <1>3, <1>5, AbsentFirst
  <1>7. S \in SUBSET qtodo[w] /\ (\A j \in S : qsnap[w].copies[j] = 0) /\ new \in SUBSET S
        /\ Matched(w, S, new, lost)
    BY <1>2, <1>4, <1>6
  <1>8. /\ Adds(new, Exchanged(new, lost)) /\ new \in SUBSET qtodo[w]
        /\ \A j \in S \cap Regular : j \in new
    BY <1>5, <1>7, ExchangedAdds
  <1>9. PICK x : x = Exchanged(new, lost)
    OBVIOUS
  <1>10. /\ Adds(new, x) /\ ImportOne(w, i, x) /\ new \subseteq Absent(w, i)
         /\ Absent(w, i) \cap Regular \subseteq new
    BY <1>2, <1>4, <1>8, <1>9
  <1> QED
    BY <1>1, <1>3, <1>5, <1>10, OneKeeps

LEMMA JournalKeeps ==
    ASSUME ExportInv, SyncInv, NEW w \in QbWorkers, ImportJournal(w)
    PROVE  SyncInv'
  <1> DEFINE i == Min(qtodo[w])
             S == New(w, {i})
  <1>1. /\ qbc[w] \in (QbKinds \cap Stepwise) \ {"order"} /\ qbc[w] \in QbKinds \cap Stepwise
        /\ qbc[w] \in QbKinds /\ qtodo[w] # {}
    BY DEF ImportJournal, QbKinds, Stepwise
  <1>2. qtodo' = [qtodo EXCEPT ![w] = qtodo[w] \ {i}]
        /\ UNCHANGED <<world, docKind, remote, qbc, line, item, raced>>
    BY DEF ImportJournal
  <1>3. S \in SUBSET {i} /\ (i \in S <=> ~ remote[i].odd /\ qsnap[w].copies[i] = 0)
    BY DEF New, Taken
  <1>4. CASE S = {}
    <2>1. UNCHANGED <<qdb, qsnap, stale, pend, broken>>
      BY <1>4 DEF ImportJournal
    <2> HIDE DEF i
    <2>2. i = Min(qtodo[w])
      BY DEF i
    <2>3. i \in Regular => qdb.copies[i] > 0
      <3>1. i \in Regular => ~ remote[i].odd
        BY DEF Regular
      <3> QED
        BY <1>1, <1>3, <1>4, <2>2, <3>1, FirstIs
    <2>4. UNCHANGED <<world, docKind, remote, qdb, qbc, line, pend, qsnap, stale, item, raced, broken>>
      BY <1>2, <2>1
    <2> HIDE DEF S
    <2> QED
      BY <1>1, <1>2, <2>3, <2>4, OddKeeps
  <1>5. CASE S # {}
    <2> DEFINE x == WithCopies(S)
               v == [qdb EXCEPT !.copies = x]
               p == Moved(i)
               r == item[w]
    <2>1. S = {i}
      BY <1>3, <1>5
    <2>2. CommitAndGoOn(w, v, p)
      BY <1>5, <2>1 DEF ImportJournal
    <2>3. i \in Nat /\ i <= Len(remote)
      <3> HIDE DEF i
      <3>1. i = Min(qtodo[w])
        BY DEF i
      <3> QED
        BY <1>1, <3>1, FirstIs
    <2>4. p.cursor = i /\ p.met = {} /\ p.made = {} /\ p \in Stepped
      <3> HIDE DEF i
      <3> QED
        BY <2>3 DEF Moved, NoWrites, Stepped
    <2>5. Writes(w, p)
      <3> HIDE DEF p, i
      <3> QED
        BY <2>3, <2>4 DEF Writes
    <2>6. item' = [item EXCEPT ![w] = r] /\ r.id \in {item[w].id, i} /\ v = [qdb EXCEPT !.copies = x]
      BY <1>1, <1>2, Written
    <2>7. i = Min(qtodo[w])
      OBVIOUS
    <2>9. Adds(S, x)
      <3> HIDE DEF i, S
      <3>1. S \in SUBSET qtodo[w] /\ \A j \in S : qsnap[w].copies[j] = 0
        BY <1>1, <1>3, <2>1, <2>7, FirstIs
      <3> QED
        BY <1>1, <3>1, FoundAdds
    <2> HIDE DEF S, r, v, p, i, x
    <2>8. Takes(w, i, S, p)
      BY <1>1, <1>3, <2>1, <2>4, <2>5, <2>7 DEF Takes
    <2> QED
      BY <1>1, <1>2, <2>2, <2>6, <2>8, <2>9, ObjectStep
  <1> QED
    BY <1>4, <1>5

LEMMA CategoryKeeps ==
    ASSUME ExportInv, SyncInv, NEW w \in QbWorkers, ImportCategory(w)
    PROVE  SyncInv'
  <1> DEFINE i   == Min(qtodo[w])
             up  == Above(i)
             top == Min(up)
             S   == IF top = i THEN New(w, {i}) ELSE {j \in {top} : qdb.copies[j] = 0}
             x   == WithCopies(S)
             v   == [qdb EXCEPT !.copies = x]
             p   == [NoWrites EXCEPT !.made = up \ {top}]
             r   == [item[w] EXCEPT !.id = i]
  <1>1. /\ qbc[w] \in (QbKinds \cap Stepwise) \ {"order"} /\ qbc[w] \in QbKinds \cap Stepwise
        /\ qbc[w] \in QbKinds /\ qtodo[w] # {} /\ qbc[w] = "category"
    BY DEF ImportCategory, QbKinds, Stepwise
  <1>2. qtodo' = [qtodo EXCEPT ![w] = qtodo[w] \ {i}]
        /\ UNCHANGED <<world, docKind, remote, qbc, line, raced>>
    BY DEF ImportCategory
  <1>3. /\ i \in qtodo[w] /\ i \in Made /\ i \in Nat /\ Kind(i) = "category"
        /\ \A j \in Regular : Kind(j) = "category" /\ j < i => qdb.copies[j] > 0 \/ j \in pend[w].made
        /\ i \in Regular /\ qsnap[w].copies[i] # 0 => qdb.copies[i] > 0
    <2> HIDE DEF i
    <2>1. i = Min(qtodo[w])
      BY DEF i
    <2> QED
      BY <1>1, <2>1, FirstIs
  <1>4. CASE remote[i].odd
    <2>1. UNCHANGED <<world, docKind, remote, qdb, qbc, line, pend, qsnap, stale, item, raced, broken>>
      BY <1>2, <1>4 DEF ImportCategory
    <2> HIDE DEF i, S, v, p, r, up, top
    <2>2. i \notin Regular
      BY <1>4 DEF Regular
    <2> QED
      BY <1>1, <1>2, <2>1, <2>2, OddKeeps
  <1>5. CASE ~ remote[i].odd
    <2>1. CommitAndGoOn(w, v, p) /\ item' = [item EXCEPT ![w] = r]
      BY <1>5 DEF ImportCategory
    <2>2. /\ up \subseteq {j \in Made : j <= i /\ Kind(j) = "category" /\ ~ remote[j].odd}
          /\ i \in up /\ top \in up /\ remote[top].of = 0
          /\ \A j \in up \ {top} : remote[j].of # 0
      <3> HIDE DEF i
      <3> QED
        BY <1>3, <1>5, AboveIs DEF SyncInv
    <2>3. r.id = i
      <3>1. ItemFielded(item[w])
        BY DEF ExportInv
      <3> QED
        BY <3>1 DEF ItemFielded
    <2> HIDE DEF i, up, top
    <2>4. ASSUME NEW j \in Made, Kind(j) = "category", ~ remote[j].odd PROVE j \in Regular
      BY <2>4 DEF Regular, Jumping, Shared, ByCode
    <2>5. top # i => S = {}
      <3> SUFFICES ASSUME top # i PROVE ~ (qdb.copies[top] = 0)
        OBVIOUS
      <3>1. top \in Regular /\ Kind(top) = "category" /\ top < i /\ top \in Nat
        BY <1>3, <2>2, <2>4, SyncFacts
      <3>2. top \notin pend[w].made
        BY <1>1, <2>2, Written
      <3>3. qdb.copies[top] > 0
        BY <1>3, <3>1, <3>2
      <3>4. top \in Ids
        BY <3>1, SyncFacts
      <3> QED
        BY <3>3, <3>4, SyncFacts
    <2>6. S \in SUBSET {i} /\ (i \in S => qsnap[w].copies[i] = 0)
          /\ (top = i /\ qsnap[w].copies[i] = 0 => i \in S)
      BY <1>5, <2>5 DEF New, Taken
    <2>7. p.cursor = 0 /\ p.met = {} /\ p.made = up \ {top}
      BY DEF NoWrites
    <2>8. p \in Stepped
      <3>1. up \ {top} \in SUBSET Ids
        BY <2>2, SyncFacts
      <3> QED
        BY <3>1 DEF NoWrites, Stepped
    <2>9. Writes(w, p)
      <3>1. Len(remote) \in Nat
        BY SyncFacts
      <3> HIDE DEF p
      <3> QED
        BY <1>1, <2>2, <2>7, <3>1 DEF Writes
    <2>10. i \in Regular => i \in S \/ qdb.copies[i] > 0 \/ i \in p.made
      <3> HIDE DEF S, p
      <3> QED
        BY <1>3, <2>2, <2>6, <2>7
    <2>11. v = [qdb EXCEPT !.copies = x] /\ r.id \in {item[w].id, i} /\ i = Min(qtodo[w])
      BY <2>3 DEF i
    <2>12. Adds(S, x)
      <3> HIDE DEF S
      <3>1. S \in SUBSET qtodo[w] /\ \A j \in S : qsnap[w].copies[j] = 0
        BY <1>3, <2>6
      <3> QED
        BY <1>1, <3>1, FoundAdds
    <2> HIDE DEF S, r, v, p, x
    <2>13. Takes(w, i, S, p)
      BY <1>1, <2>6, <2>7, <2>8, <2>9, <2>10, <2>11 DEF Takes
    <2> QED
      BY <1>1, <1>2, <2>1, <2>11, <2>12, <2>13, ObjectStep
  <1> QED
    BY <1>4, <1>5

(* The orders: their headers, their lines, and those met again.            *)
LEMMA HeaderKeeps ==
    ASSUME ExportInv, SyncInv, NEW w \in QbWorkers, OrderHeader(w)
    PROVE  SyncInv'
  <1> DEFINE i == Min(qtodo[w])
             x == WithCopies({i})
             v == [qdb EXCEPT !.copies = x]
  <1>1. /\ qbc[w] \in QbKinds \cap Stepwise /\ qbc[w] \in QbKinds /\ qbc[w] = "order"
        /\ qtodo[w] # {} /\ line[w] = 0 /\ CommitAndGoOn(w, v, NoWrites)
        /\ line' = [line EXCEPT ![w] = 1]
        /\ UNCHANGED <<world, docKind, remote, qbc, qtodo, item, raced>>
    BY DEF OrderHeader, QbKinds, Stepwise
  <1>2. ~ remote[i].odd /\ qsnap[w].copies[i] = 0
    BY DEF OrderHeader, New, Taken
  <1>3. i \in qtodo[w] /\ i \in Made /\ Kind(i) = "order"
    <2> HIDE DEF i
    <2>1. i = Min(qtodo[w])
      BY DEF i
    <2> QED
      BY <1>1, <1>2, <2>1, FirstIs
  <1>4. GoesOn(w, qtodo[w], 1, item[w])
    BY <1>1, Written DEF GoesOn
  <1>5. /\ RowsFielded(v) /\ v.id = qdb.id /\ v.drafts = qdb.drafts
        /\ v.cursor = qdb.cursor /\ v.copies = x /\ v.lines = qdb.lines
    <2> HIDE DEF x
    <2>1. RowsFielded(v) /\ SameBut(qdb, v, x, qdb.lines, qdb.drafts, qdb.cursor)
      BY OneChange DEF ExportInv
    <2> QED
      BY <2>1 DEF SameBut
  <1>6. v.lines \in [Ids -> SUBSET AllLines] /\ Adds({i}, v.copies)
    <2> HIDE DEF i, v
    <2>1. {i} \in SUBSET qtodo[w] /\ \A j \in {i} : qsnap[w].copies[j] = 0
      BY <1>2, <1>3
    <2>2. Adds({i}, x)
      BY <1>1, <2>1, FoundAdds
    <2> QED
      BY <1>5, <2>2 DEF SyncInv, SyncTyped
  <1>7. NoWrites \in Stepped /\ Writes(w, NoWrites) /\ NoWrites.cursor = 0
    BY WritesNothing
  <1>8. Wants({i})
    <2> HIDE DEF i
    <2> QED
      BY <1>3 DEF Wants
  <1>9. Passes(w, {i}, NoWrites, qtodo[w])
    <2>1. \A j \in Regular : ~ (j <= 0)
      BY SyncFacts
    <2> QED
      BY <1>7, <2>1 DEF Passes
  <1>10. FillsLines(w, {i}, v, qtodo[w], 1)
    <2>2. QbLines \in Nat /\ QbLines >= 1 /\ i \in Made
      BY <1>3, QbAssumption
    <2>3. i = Min(qtodo[w])
      OBVIOUS
    <2> HIDE DEF i, v
    <2>4. \A j \in Made : Kind(j) = "order" =>
             /\ qdb.lines[j] \subseteq v.lines[j]
             /\ v.lines[j] # AllLines /\ (j \in {i} \/ (line[w] > 0 /\ j = Min(qtodo[w]))) =>
                   1 > 0 /\ j = Min(qtodo[w])
      BY <1>5, <2>3
    <2>5. /\ 1 <= QbLines /\ qbc[w] = "order" /\ qtodo[w] # {}
          /\ 1 .. (1 - 1) \subseteq v.lines[Min(qtodo[w])] /\ Min(qtodo[w]) \in {i}
      BY <1>1, <2>2, <2>3
    <2> QED
      BY <2>4, <2>5 DEF FillsLines
  <1>11. {i} \in SUBSET qtodo[w] /\ qtodo[w] \in SUBSET qtodo[w] /\ 1 \in Nat
    BY <1>3
  <1> HIDE DEF i, v
  <1> QED
    BY <1>1, <1>4, <1>5, <1>6, <1>7, <1>8, <1>9, <1>10, <1>11, StepKeeps DEF x

LEMMA LineKeeps ==
    ASSUME ExportInv, SyncInv, NEW w \in QbWorkers, OrderLine(w)
    PROVE  SyncInv'
  <1> DEFINE i == Min(qtodo[w])
             m == qdb.lines[i] \cup {line[w]}
             x == [qdb.lines EXCEPT ![i] = m]
             v == [qdb EXCEPT !.lines = x]
             p == Moved(i)
             s == IF line[w] = QbLines THEN qtodo[w] \ {i} ELSE qtodo[w]
             n == IF line[w] = QbLines THEN 0 ELSE line[w] + 1
  <1>0. line[w] > 0 /\ LineOK(w) /\ line[w] \in Nat /\ QbLines \in Nat /\ QbLines > 0
    BY QbAssumption DEF OrderLine, SyncInv, JobOK, ExportInv
  <1>1. /\ qbc[w] \in QbKinds \cap Stepwise /\ qbc[w] \in QbKinds /\ qbc[w] = "order"
        /\ qtodo[w] # {} /\ line[w] <= QbLines /\ qdb.copies[i] > 0
        /\ 1 .. (line[w] - 1) \subseteq qdb.lines[i]
    BY <1>0 DEF LineOK, QbKinds, Stepwise
  <1>2. UNCHANGED <<world, docKind, remote, qbc, item, raced>>
    BY DEF OrderLine
  <1>3. /\ i \in qtodo[w] /\ i \in Made /\ Kind(i) = "order" /\ i \in Nat /\ i <= Len(remote)
        /\ \A j \in Regular : Kind(j) = qbc[w] /\ j < i => qdb.copies[j] > 0 \/ j \in pend[w].made
    <2> HIDE DEF i
    <2>1. i = Min(qtodo[w])
      BY DEF i
    <2> QED
      BY <1>1, <2>1, FirstIs
  <1>4. /\ Made \subseteq Ids /\ qdb.lines \in [Ids -> SUBSET AllLines]
        /\ \A j \in Ids : qdb.lines[j] \subseteq AllLines
    BY SyncFacts DEF SyncInv, SyncTyped
  <1>5. CommitAndGoOn(w, v, p)
    <2> DEFINE u == [qdb EXCEPT !.lines[i] = @ \cup {line[w]}]
    <2>1. CommitAndGoOn(w, u, p)
      BY DEF OrderLine
    <2>2. u = v
      <3> HIDE DEF i
      <3> QED
        BY DEF ExportInv, RowsFielded
    <2> HIDE DEF u, v
    <2> QED
      BY <2>1, <2>2
  <1>6. GoesOn(w, s, n, item[w])
    <2>1. qtodo' = [qtodo EXCEPT ![w] = s] /\ line' = [line EXCEPT ![w] = n]
      <3> HIDE DEF i
      <3>0. qtodo = [qtodo EXCEPT ![w] = qtodo[w]]
        BY <1>1, Written
      <3>1. CASE line[w] = QbLines
        BY <3>1 DEF OrderLine, i
      <3>2. CASE line[w] # QbLines
        BY <3>0, <3>2 DEF OrderLine
      <3> QED
        BY <3>1, <3>2
    <2>2. item' = [item EXCEPT ![w] = item[w]] /\ item[w].id \in {item[w].id} \cup qtodo[w]
      BY <1>1, <1>2, Written
    <2> HIDE DEF s, n
    <2> QED
      BY <1>2, <2>1, <2>2 DEF GoesOn
  <1>7. m \subseteq AllLines /\ qdb.lines[i] \subseteq m /\ 1 .. line[w] \subseteq m
    <2> HIDE DEF i
    <2>1. line[w] \in AllLines /\ qdb.lines[i] \subseteq AllLines
      BY <1>0, <1>1, <1>3, <1>4 DEF AllLines
    <2>2. \A l \in 1 .. line[w] : l \in 1 .. (line[w] - 1) \/ l = line[w]
      BY <1>0
    <2> QED
      BY <1>1, <2>1, <2>2
  <1>8. x \in [Ids -> SUBSET AllLines] /\ x[i] = m /\ \A j \in Made : j # i => x[j] = qdb.lines[j]
    <2> HIDE DEF i, m
    <2> QED
      BY <1>3, <1>4, <1>7
  <1>9. /\ RowsFielded(v) /\ v.id = qdb.id /\ v.drafts = qdb.drafts
        /\ v.cursor = qdb.cursor /\ v.copies = qdb.copies /\ v.lines = x
    <2> HIDE DEF x
    <2>1. RowsFielded(v) /\ SameBut(qdb, v, qdb.copies, x, qdb.drafts, qdb.cursor)
      BY OneChange DEF ExportInv
    <2> QED
      BY <2>1 DEF SameBut
  <1>10. Adds({}, v.copies) /\ v.lines \in [Ids -> SUBSET AllLines]
    <2> HIDE DEF x, v
    <2> QED
      BY <1>8, <1>9, NoCopies
  <1>11. p.cursor = i /\ p.met = {} /\ p.made = {} /\ p \in Stepped
    <2> HIDE DEF i
    <2> QED
      BY <1>3 DEF Moved, NoWrites, Stepped
  <1>12. i = Min(qtodo[w]) /\ s \in SUBSET qtodo[w] /\ (s = qtodo[w] \/ s = qtodo[w] \ {i})
         /\ (s = qtodo[w] <=> line[w] # QbLines)
    BY <1>3
  <1>13. n \in Nat /\ (line[w] = QbLines => n = 0) /\ (line[w] # QbLines => n = line[w] + 1)
    BY <1>0
  <1> HIDE DEF i, m, x, v, p, s, n
  <1>14. Writes(w, p)
    BY <1>3, <1>11 DEF Writes
  <1>15. Wants({})
    BY DEF Wants
  <1>16. Passes(w, {}, p, s)
    <2>1. \A j \in qtodo[w] \ s : qdb.copies[j] > 0
      BY <1>1, <1>12
    <2>2. ASSUME NEW j \in Regular, Kind(j) = qbc[w], j <= p.cursor
          PROVE  qdb.copies[j] > 0 \/ j \in pend[w].made
      <3>1. j \in Nat
        BY SyncFacts
      <3> QED
        BY <1>1, <1>3, <1>11, <2>2, <3>1
    <2> QED
      BY <2>1, <2>2 DEF Passes
  <1>17. FillsLines(w, {}, v, s, n)
    <2>1. v.lines[i] = m /\ \A j \in Made : j # i => v.lines[j] = qdb.lines[j]
      BY <1>8, <1>9
    <2>2. \A j \in Made : qdb.lines[j] \subseteq v.lines[j]
      BY <1>7, <2>1
    <2>3. line[w] = QbLines => v.lines[i] = AllLines
      BY <1>7, <2>1 DEF AllLines
    <2>4. v.lines[i] # AllLines => n > 0 /\ i = Min(s)
      BY <1>0, <1>12, <1>13, <2>3
    <2>5. n > 0 => /\ n <= QbLines /\ s # {} /\ 1 .. (n - 1) \subseteq v.lines[Min(s)]
                   /\ qdb.copies[Min(s)] > 0
      <3> SUFFICES ASSUME n > 0
                   PROVE  /\ n <= QbLines /\ s # {} /\ 1 .. (n - 1) \subseteq v.lines[Min(s)]
                          /\ qdb.copies[Min(s)] > 0
        OBVIOUS
      <3>1. line[w] # QbLines /\ n = line[w] + 1 /\ s = qtodo[w] /\ Min(s) = i
        BY <1>12, <1>13
      <3>2. n <= QbLines /\ n - 1 = line[w]
        BY <1>0, <1>1, <3>1
      <3> QED
        BY <1>1, <1>7, <2>1, <3>1, <3>2
    <2> QED
      BY <1>1, <1>12, <2>2, <2>4, <2>5 DEF FillsLines
  <1>18. {} \in SUBSET qtodo[w]
    OBVIOUS
  <1> QED
    BY <1>1, <1>5, <1>6, <1>9, <1>10, <1>11, <1>12, <1>13, <1>14, <1>15, <1>16, <1>17, <1>18, StepKeeps

LEMMA AgainKeeps ==
    ASSUME ExportInv, SyncInv, NEW w \in QbWorkers, OrderAgain(w)
    PROVE  SyncInv'
  <1> DEFINE i == Min(qtodo[w])
             s == qtodo[w] \ {i}
  <1>1. /\ qbc[w] \in QbKinds \cap Stepwise /\ qbc[w] \in QbKinds /\ qbc[w] = "order"
        /\ qtodo[w] # {} /\ ~ (line[w] > 0) /\ qtodo' = [qtodo EXCEPT ![w] = s]
        /\ UNCHANGED <<world, docKind, remote, qdb, qbc, line, qsnap, stale, item, raced, broken>>
    BY DEF OrderAgain, QbKinds, Stepwise
  <1>2. /\ i \in qtodo[w] /\ i \in Made /\ i \in Nat /\ i <= Len(remote) /\ Kind(i) = "order"
        /\ \A j \in Regular : Kind(j) = qbc[w] /\ j < i => qdb.copies[j] > 0 \/ j \in pend[w].made
        /\ i \in Regular /\ qsnap[w].copies[i] # 0 => qdb.copies[i] > 0
    <2> HIDE DEF i, s
    <2>1. i = Min(qtodo[w])
      BY DEF i
    <2> QED
      BY <1>1, <2>1, FirstIs
  <1>3. /\ pend[w] \in Stepped /\ pend[w].cursor <= Len(remote)
        /\ \A j \in Regular : Kind(j) = qbc[w] /\ j <= pend[w].cursor => qdb.copies[j] > 0
        /\ pend = [pend EXCEPT ![w] = pend[w]] /\ pend[w].made = {} /\ pend[w].met \subseteq Made
    BY <1>1, Written
  <1>4. /\ remote[i].odd /\ UNCHANGED pend
        \/ /\ qsnap[w].copies[i] = 1
           /\ pend' = [pend EXCEPT ![w].cursor = i, ![w].met = @ \cup {i}]
    BY DEF OrderAgain
  <1> HIDE DEF i
  <1>5. CASE remote[i].odd /\ UNCHANGED pend
    <2>1. PICK p \in Stepped : p = pend[w]
      BY <1>3
    <2>2. MayWrite(w, p) /\ pend' = [pend EXCEPT ![w] = p]
      BY <1>1, <1>3, <1>5, <2>1 DEF MayWrite
    <2>3. \A j \in qtodo[w] \ s : j \in Regular => qdb.copies[j] > 0
      BY <1>5 DEF Regular
    <2>4. s \in SUBSET qtodo[w]
      OBVIOUS
    <2> HIDE DEF s
    <2> QED
      BY <1>1, <2>2, <2>3, <2>4, SkipKeeps
  <1>6. CASE qsnap[w].copies[i] = 1 /\ pend' = [pend EXCEPT ![w].cursor = i, ![w].met = @ \cup {i}]
    <2> DEFINE p == [pend[w] EXCEPT !.cursor = i, !.met = @ \cup {i}]
    <2>1. pend' = [pend EXCEPT ![w] = p]
      BY <1>6 DEF SyncInv, SyncTyped
    <2>2. p \in Stepped /\ p.cursor = i /\ p.made = pend[w].made /\ p.met = pend[w].met \cup {i}
      <3>1. {i} \in SUBSET Ids
        BY <1>2, SyncFacts
      <3> QED
        BY <1>2, <1>3, <3>1 DEF Stepped
    <2>3. i \in Regular => qdb.copies[i] > 0
      BY <1>2, <1>6
    <2> HIDE DEF p
    <2>4. ASSUME NEW j \in Regular, Kind(j) = qbc[w], j <= p.cursor PROVE qdb.copies[j] > 0
      <3>1. j \in Nat
        BY SyncFacts
      <3> QED
        BY <1>2, <1>3, <2>2, <2>3, <2>4, <3>1
    <2>5. \A j \in qtodo[w] \ s : j \in Regular => qdb.copies[j] > 0
      BY <2>3
    <2>6. s \in SUBSET qtodo[w] /\ MayWrite(w, p)
      BY <1>1, <1>2, <1>3, <2>2, <2>4 DEF MayWrite
    <2> HIDE DEF s
    <2> QED
      BY <1>1, <2>1, <2>2, <2>5, <2>6, SkipKeeps
  <1> QED
    BY <1>4, <1>5, <1>6

(* The end of an import that commits as it goes.                           *)
LEMMA StepsEnd ==
    ASSUME ExportInv, SyncInv, NEW w \in QbWorkers, qbc[w] \in QbKinds \cap Stepwise, qtodo[w] = {},
           NEW v, v.copies = WithPending(w, qdb).copies, v.lines = WithPending(w, qdb).lines,
           v.drafts = qdb.drafts, v.id = qdb.id, v.cursor \in [world -> Nat],
           NEW moves \in BOOLEAN, EndWith(w, v, moves),
           MovesCursors(pend[w].made, moves)
    PROVE  SyncInv'
  <1> DEFINE C == pend[w].made
             u == WithPending(w, qdb)
  <1>1. RowsFielded(qdb) /\ Adds({}, qdb.copies) /\ qdb.lines \in [Ids -> SUBSET AllLines]
    BY NoCopies DEF ExportInv, SyncInv, SyncTyped
  <1>2. qdb' = v
    BY DEF EndWith
  <1>3. qbc[w] \in QbKinds
    OBVIOUS
  <1>4. C \subseteq Made /\ Made \subseteq Ids /\ \A i \in C : Kind(i) = "category" /\ remote[i].of # 0
    BY <1>3, Written, SyncFacts
  <1>5. ~ (line[w] > 0) /\ \A i \in Ids : qdb.lines[i] \subseteq AllLines
    BY <1>3, Written, SyncFacts
  <1>6. /\ Adds(C, qdb'.copies) /\ qdb'.lines \in [Ids -> SUBSET AllLines] /\ qdb'.cursor \in [world -> Nat]
        /\ qdb'.lines = [i \in Ids |-> IF i \in pend[w].met THEN qdb.lines[i] \cup remote[i].fresh
                                                           ELSE qdb.lines[i]]
    <2>1. /\ Adds({} \cup pend[w].made, u.copies) /\ u.lines \in [Ids -> SUBSET AllLines]
          /\ u.lines = [i \in Ids |-> IF i \in pend[w].met THEN qdb.lines[i] \cup remote[i].fresh
                                                          ELSE qdb.lines[i]]
      BY <1>1, PendingRows
    <2>2. {} \cup pend[w].made = C
      OBVIOUS
    <2> HIDE DEF C
    <2> QED
      BY <1>2, <2>1, <2>2
  <1> HIDE DEF C
  <1>7. Creates(w, C, moves)
    <2>1. {} \in SUBSET qtodo[w] /\ {} \cup pend[w].made = C
      BY DEF C
    <2>2. Adds({} \cup pend[w].made, qdb'.copies)
      BY <1>6, <2>1
    <2>3. Creates(w, {} \cup pend[w].made, moves)
      BY <2>1, <2>2, StepCreates
    <2> QED
      BY <2>1, <2>3
  <1>8. FillsOrders(w, C)
    <2> SUFFICES ASSUME NEW i \in Made, Kind(i) = "order"
                 PROVE  /\ qdb.lines[i] \subseteq qdb'.lines[i]
                        /\ qdb'.lines[i] # AllLines => i \notin Whole(pend[w].met) /\ i \notin C
      BY <1>5 DEF FillsOrders
    <2>1. i \in Ids /\ i \notin C
      BY <1>4
    <2>2. IF i \in pend[w].met THEN qdb'.lines[i] = qdb.lines[i] \cup remote[i].fresh
                               ELSE qdb'.lines[i] = qdb.lines[i]
      BY <1>6, <2>1
    <2> QED
      BY <2>1, <2>2 DEF Whole, Completed
  <1>9. KeepsIds
    <2>1. PICK x : x = qdb'.copies
      OBVIOUS
    <2>2. \A i \in qdb'.drafts : i \in Made /\ remote[i].home # 0
      BY <1>2 DEF SyncInv, CommittedOK
    <2>3. Adds(C, x) /\ qdb'.copies = x /\ qdb'.id = qdb.id
      BY <1>2, <1>6, <2>1
    <2> QED
      BY <2>2, <2>3, AddsKeepIds
  <1>10. MovesCursors(C, moves)
    BY DEF C
  <1>11. qdb'.copies \in [Ids -> Nat]
    BY <1>6 DEF Adds
  <1> QED
    BY <1>6, <1>7, <1>8, <1>9, <1>10, <1>11, EndCommits

LEMMA EndStepsKeeps ==
    ASSUME ExportInv, SyncInv, NEW w \in QbWorkers, EndSteps(w)
    PROVE  SyncInv'
  <1> DEFINE v == WithPending(w, qdb)
             moves == pend[w].cursor # 0
  <1>1. /\ qbc[w] \in QbKinds \cap Stepwise /\ qbc[w] \in QbKinds /\ qtodo[w] = {}
        /\ CommitAndEnd(w, v, moves)
    BY DEF EndSteps, QbKinds, Stepwise
  <1>2. EndWith(w, v, moves) /\ qdb' = v
    BY <1>1 DEF CommitAndEnd, EndWith
  <1>3. /\ {} \in SUBSET Made /\ RowsFielded(qdb) /\ Adds({}, qdb.copies)
        /\ qdb.lines \in [Ids -> SUBSET AllLines]
    BY NoCopies DEF ExportInv, SyncInv, SyncTyped
  <1>4. /\ qdb'.cursor \in [world -> Nat]
        /\ qdb'.cursor = IF pend[w].cursor # 0 THEN [qdb.cursor EXCEPT ![qbc[w]] = pend[w].cursor]
                         ELSE qdb.cursor
    BY <1>1, <1>2, <1>3, StepRows
  <1>5. v.drafts = qdb.drafts /\ v.id = qdb.id
    BY <1>3, PendingChange DEF SameBut
  <1>6. moves \in BOOLEAN
    OBVIOUS
  <1>7. pend[w].made \in SUBSET Made /\ \A i \in pend[w].made : Kind(i) \in Stepwise
    BY <1>1, Written DEF Stepwise
  <1> HIDE DEF moves
  <1>8. MovesCursors(pend[w].made, moves)
    BY <1>1, <1>4, <1>6, <1>7, StepCursors
  <1>9. PICK u : u = v
    OBVIOUS
  <1>10. /\ u.copies = WithPending(w, qdb).copies /\ u.lines = WithPending(w, qdb).lines
         /\ u.drafts = qdb.drafts /\ u.id = qdb.id /\ u.cursor \in [world -> Nat] /\ EndWith(w, u, moves)
    BY <1>2, <1>4, <1>5, <1>9
  <1> QED
    BY <1>1, <1>6, <1>8, <1>10, StepsEnd

LEMMA EndItemsKeeps ==
    ASSUME ExportInv, SyncInv, NEW w \in QbWorkers, EndItems(w)
    PROVE  SyncInv'
  <1> DEFINE last == item[w].id
             k == qbc[w]
             u == WithPending(w, qdb)
             z == [u.cursor EXCEPT ![k] = IF last = 0 THEN u.cursor[k] ELSE last]
             v == [u EXCEPT !.cursor = z]
             moves == last # 0
  <1>1. /\ qbc[w] \in QbKinds \cap Stepwise /\ k \in QbKinds /\ qtodo[w] = {} /\ k \notin Guarded
    BY DEF EndItems, QbKinds, Stepwise, Guarded, InvoiceKinds, PayKinds
  <1>2. CommitAndEnd(w, v, moves)
    <2> DEFINE t == [WithPending(w, qdb) EXCEPT !.cursor[qbc[w]] = IF last = 0 THEN @ ELSE last]
    <2>1. CommitAndEnd(w, t, moves)
      BY DEF EndItems
    <2>2. t = v
      OBVIOUS
    <2> HIDE DEF t, v, moves
    <2> QED
      BY <2>1, <2>2
  <1>3. moves \in BOOLEAN
    OBVIOUS
  <1>4. RowsFielded(u) /\ u.drafts = qdb.drafts /\ u.id = qdb.id
        /\ u.cursor = [l \in world |-> IF l = k /\ pend[w].cursor # 0 THEN pend[w].cursor ELSE qdb.cursor[l]]
    <2>1. RowsFielded(qdb)
      BY DEF ExportInv
    <2>2. SameBut(qdb, WithPending(w, qdb),
                  [i \in Ids |-> qdb.copies[i] + One(i \in pend[w].made)],
                  [i \in Ids |-> IF i \in pend[w].met THEN qdb.lines[i] \cup remote[i].fresh
                                                     ELSE qdb.lines[i]],
                  qdb.drafts,
                  [l \in world |-> IF l = qbc[w] /\ pend[w].cursor # 0
                                     THEN pend[w].cursor ELSE qdb.cursor[l]])
      BY <2>1, PendingChange
    <2>3. RowsFielded(WithPending(w, qdb))
      BY <2>1, PendingKeepsIds
    <2> QED
      BY <2>2, <2>3 DEF SameBut
  <1> HIDE DEF u, moves
  <1>5. v.copies = u.copies /\ v.lines = u.lines /\ v.drafts = u.drafts /\ v.cursor = z /\ v.id = u.id
    <2> HIDE DEF z
    <2> QED
      BY <1>4, OneChange DEF SameBut
  <1> HIDE DEF v
  <1>6. EndWith(w, v, moves) /\ qdb' = v
    BY <1>2 DEF CommitAndEnd, EndWith
  <1>7. ImportOK(w) /\ WritesOK(w)
    BY <1>1 DEF SyncInv, JobOK
  <1>8. k \in world /\ last \in Nat /\ pend[w].cursor \in Nat /\ qdb.cursor \in [world -> Nat]
    <2>1. Len(remote) \in Nat
      BY SyncFacts
    <2> QED
      BY <1>7, <2>1 DEF ImportOK, WritesOK, SyncInv, SyncTyped
  <1>9. /\ last = 0 => qdb'.cursor = IF pend[w].cursor # 0 THEN [qdb.cursor EXCEPT ![qbc[w]] = pend[w].cursor]
                                     ELSE qdb.cursor
        /\ last # 0 => qdb'.cursor = [qdb.cursor EXCEPT ![k] = last]
        /\ qdb'.cursor \in [world -> Nat]
    <2>1. qdb'.cursor = z
      BY <1>5, <1>6
    <2>2. CASE last = 0
      BY <1>4, <1>8, <2>1, <2>2
    <2>3. CASE last # 0
      BY <1>4, <1>8, <2>1, <2>3
    <2> QED
      BY <2>2, <2>3
  <1>10. pend[w].made \in SUBSET Made /\ \A i \in pend[w].made : Kind(i) \in Stepwise /\ remote[i].of # 0
    BY <1>1, Written DEF Stepwise
  <1>11. MovesCursors(pend[w].made, moves)
    <2>1. CASE last = 0
      BY <1>1, <1>3, <1>9, <1>10, <2>1, StepCursors
    <2>2. CASE last # 0
      <3>1. PICK C \in SUBSET Made : C = pend[w].made
        BY <1>10
      <3>2. PICK m \in Seen(w) : m = last
        BY DEF Seen
      <3>3. \A i \in Regular : i \in qtodo[w] \/ i \in pend[w].made => i \in C \/ qdb.copies[i] > 0
        BY <1>1, <3>1
      <3>4. /\ \A i \in C : Kind(i) = k \/ remote[i].of # 0
            /\ qdb'.cursor = [qdb.cursor EXCEPT ![k] = m]
        BY <1>9, <1>10, <2>2, <3>1, <3>2
      <3>5. k \in QbKinds /\ qbc[w] = k
        BY <1>1
      <3> HIDE DEF k
      <3> QED
        BY <1>1, <1>3, <3>1, <3>3, <3>4, <3>5, CursorPasses
    <2> QED
      BY <2>1, <2>2
  <1>12. PICK t : t = v
    OBVIOUS
  <1>13. /\ t.copies = WithPending(w, qdb).copies /\ t.lines = WithPending(w, qdb).lines
         /\ t.drafts = qdb.drafts /\ t.id = qdb.id /\ t.cursor \in [world -> Nat] /\ EndWith(w, t, moves)
    BY <1>4, <1>5, <1>6, <1>9, <1>12 DEF u
  <1> QED
    BY <1>1, <1>3, <1>11, <1>13, StepsEnd

-----------------------------------------------------------------------------
(* QuickBooks: requests that begin, that end without a commit, and what    *)
(* moves a cursor alone.                                                   *)

LEMMA IdleIs ==
    ASSUME ExportInv, SyncInv, NEW w \in QbWorkers, qbc[w] \notin QbKinds
    PROVE  /\ qtodo[w] = {} /\ pend[w] = NoWrites /\ ~ (line[w] > 0)
           /\ pend[w].cursor = 0 /\ pend[w].met = {} /\ pend[w].made = {}
           /\ qbc[w] = "idle" => item[w].id = 0
           /\ "idle" \notin QbKinds /\ "export" \notin QbKinds /\ "posted" \notin QbKinds
           /\ Stepwise \subseteq QbKinds
  <1>1. Stepwise \subseteq QbKinds
    BY DEF Stepwise, QbKinds
  <1>2. "idle" \notin QbKinds /\ "export" \notin QbKinds /\ "posted" \notin QbKinds /\ "order" \in QbKinds
    BY DEF QbKinds
  <1>3. JobOK(w) /\ WritesOK(w) /\ LineOK(w)
    BY DEF SyncInv, JobOK
  <1>4. qtodo[w] = {} /\ pend[w] = NoWrites /\ ~ (line[w] > 0) /\ (qbc[w] = "idle" => item[w].id = 0)
    BY <1>1, <1>2, <1>3 DEF JobOK, WritesOK, LineOK
  <1>5. pend[w].cursor = 0 /\ pend[w].met = {} /\ pend[w].made = {}
    BY <1>4 DEF NoWrites
  <1> QED
    BY <1>1, <1>2, <1>4, <1>5

LEMMA EndedOK ==
    ASSUME ExportInv, SyncInv, NEW w \in QbWorkers, UNCHANGED <<world, remote>>,
           qbc'[w] = "idle", qtodo'[w] = {}, line'[w] = 0, pend'[w] = NoWrites,
           qsnap'[w] = EmptyRows, item'[w] = NoItem
    PROVE  JobOK(w)'
  <1>1. qbc'[w] \notin QbKinds /\ qbc'[w] # "posted"
    BY DEF QbKinds
  <1>2. SnapshotOK(w)'
    BY DEF SnapshotOK, EmptyRows
  <1>3. WritesOK(w)'
    <2>1. Len(remote) \in Nat /\ "idle" \notin Stepwise
      BY SyncFacts DEF Stepwise
    <2> QED
      BY <1>1, <2>1 DEF WritesOK, NoWrites, NoItem
  <1>4. LineOK(w)'
    BY DEF LineOK
  <1> QED
    BY <1>1, <1>2, <1>3, <1>4 DEF JobOK

LEMMA LoseKeeps ==
    ASSUME ExportInv, SyncInv, NEW w \in QbWorkers, QbLose(w)
    PROVE  SyncInv'
  <1>1. /\ \A x \in QbWorkers \ {w} :
              /\ qbc'[x] = qbc[x] /\ qtodo'[x] = qtodo[x] /\ line'[x] = line[x]
              /\ pend'[x] = pend[x] /\ qsnap'[x] = qsnap[x] /\ item'[x] = item[x]
              /\ stale'[x] = stale[x]
        /\ qbc'[w] = "idle" /\ qtodo'[w] = {} /\ line'[w] = 0
        /\ pend'[w] = NoWrites /\ qsnap'[w] = EmptyRows /\ item'[w] = NoItem
    BY DEF QbLose, QbEnd, ExportInv, SyncInv, SyncTyped
  <1>2. /\ UNCHANGED <<world, docKind, remote, qdb, raced>> /\ broken' = broken \cup Halfway(w)
        /\ Made' = Made /\ Sequel(remote, remote') /\ raced \subseteq raced' /\ broken \subseteq broken'
    BY SameWorld, SameRemote DEF QbLose
  <1>3. ObjectsOK'
    BY <1>2 DEF SyncInv, ObjectsOK, Kind
  <1>4. SyncTyped'
    <2>1. NoWrites \in [cursor : Nat, met : SUBSET Ids, made : SUBSET Ids]
      BY DEF NoWrites
    <2>2. pend' \in [QbWorkers -> [cursor : Nat, met : SUBSET Ids, made : SUBSET Ids]]
      BY <2>1 DEF QbLose, QbEnd, SyncInv, SyncTyped
    <2>3. qtodo' \in [QbWorkers -> SUBSET Ids] /\ stale' \in [QbWorkers -> BOOLEAN]
      BY DEF QbLose, QbEnd, SyncInv, SyncTyped
    <2> QED
      BY <1>2, <2>2, <2>3 DEF SyncInv, SyncTyped, Ids
  <1>5. CommittedOK' /\ NoGaps' /\ InOrder' /\ Ahead' /\ Once' /\ QbWholeOrders'
    <2>1. ASSUME NEW x \in QbWorkers, line[x] > 0
          PROVE  \/ Min(qtodo[x]) \in broken'
                 \/ line'[x] > 0 /\ qtodo'[x] = qtodo[x]
      BY <1>1, <1>2, <2>1 DEF Halfway
    <2> QED
      BY <1>2, <1>3, <2>1, WorldKeeps
  <1>6. ASSUME NEW x \in QbWorkers PROVE JobOK(x)'
    <2>1. CASE x = w
      BY <1>1, <1>2, <2>1, EndedOK
    <2>2. CASE x # w
      BY <1>1, <1>2, <1>3, <2>2, WorldKeepsJob
    <2> QED
      BY <2>1, <2>2
  <1>7. \A x, y \in QbWorkers : x # y => Apart(x, y)'
    BY <1>1, <1>2 DEF SyncInv, Apart
  <1> QED
    BY <1>3, <1>4, <1>5, <1>6, <1>7 DEF SyncInv

LEMMA QbBeginKeeps ==
    ASSUME ExportInv, SyncInv, NEW w \in QbWorkers, NEW k \in QbKinds, QbBegin(w, k)
    PROVE  SyncInv'
  <1> DEFINE F == Fetched(k)
  <1>0. /\ qbc[w] = "idle" /\ k \in world /\ F # {} /\ qbc' = [qbc EXCEPT ![w] = k]
        /\ qtodo' = [qtodo EXCEPT ![w] = F] /\ qsnap' = [qsnap EXCEPT ![w] = qdb]
        /\ stale' = [stale EXCEPT ![w] = FALSE]
        /\ raced' = raced \cup {i \in F : \E x \in QbWorkers \ {w} :
                                   i \in qtodo[x] \/ (qbc[x] = "posted" /\ item[x].id = i)}
        /\ UNCHANGED <<world, docKind, remote, qdb, line, pend, item, broken>>
    BY DEF QbBegin
  <1>1. /\ \A x \in QbWorkers \ {w} :
              /\ qbc'[x] = qbc[x] /\ qtodo'[x] = qtodo[x] /\ line'[x] = line[x]
              /\ pend'[x] = pend[x] /\ qsnap'[x] = qsnap[x] /\ item'[x] = item[x]
              /\ stale'[x] = stale[x]
        /\ qbc'[w] = k /\ qtodo'[w] = F /\ qsnap'[w] = qdb /\ stale'[w] = FALSE
        /\ line'[w] = line[w] /\ pend'[w] = pend[w] /\ item'[w] = item[w]
    BY <1>0 DEF ExportInv, SyncInv, SyncTyped
  <1>2. /\ qtodo[w] = {} /\ pend[w] = NoWrites /\ ~ (line[w] > 0) /\ item[w].id = 0
        /\ pend[w].cursor = 0 /\ pend[w].met = {} /\ pend[w].made = {} /\ "posted" \notin QbKinds
        /\ k # "idle"
    <2>1. qbc[w] \notin QbKinds
      BY <1>0 DEF QbKinds
    <2> QED
      BY <1>0, <2>1, IdleIs
  <1>3. /\ Made' = Made /\ Regular' = Regular /\ Sequel(remote, remote') /\ raced \subseteq raced'
        /\ broken \subseteq broken' /\ Excused \subseteq Excused'
    BY <1>0, SameWorld, SameRemote, WorldGrows
  <1>4. /\ F \subseteq {i \in Made : Kind(i) = k /\ i > qdb.cursor[k]}
        /\ \A j \in F, i \in Made : Kind(i) = k /\ i > qdb.cursor[k] /\ i <= j => i \in F
    BY FetchedIs
  <1> HIDE DEF F
  <1>5. ObjectsOK'
    BY <1>0, <1>3 DEF SyncInv, ObjectsOK, Kind
  <1>6. SyncTyped'
    <2>1. F \in SUBSET Ids
      BY <1>4, SyncFacts
    <2>2. qtodo' \in [QbWorkers -> SUBSET Ids] /\ stale' \in [QbWorkers -> BOOLEAN]
      BY <1>0, <2>1 DEF SyncInv, SyncTyped
    <2> QED
      BY <1>0, <2>2 DEF SyncInv, SyncTyped, Ids
  <1>7. CommittedOK' /\ NoGaps' /\ InOrder' /\ Ahead' /\ Once' /\ QbWholeOrders'
    <2>1. \A x \in QbWorkers : line[x] > 0 => line'[x] > 0 /\ qtodo'[x] = qtodo[x]
      BY <1>1, <1>2
    <2> QED
      BY <1>0, <1>3, <1>5, <2>1, WorldKeeps
  <1>8. JobOK(w)'
    <2>1. SnapshotOK(w)'
      BY <1>0, <1>1, <1>3 DEF SyncInv, SyncTyped, CommittedOK, SnapshotOK, Ids
    <2>2. WritesOK(w)'
      <3>1. Len(remote) \in Nat
        BY SyncFacts
      <3> QED
        BY <1>0, <1>1, <1>2, <3>1 DEF WritesOK
    <2>3. LineOK(w)'
      BY <1>1, <1>2 DEF LineOK
    <2>4. ImportOK(w)'
      <3>1. \A i \in F : i \in Made /\ Kind(i) = k /\ i > qdb.cursor[k]
        BY <1>4
      <3>2. ASSUME NEW i \in Regular, NEW j \in F \cup {0}, Kind(i) = k, i <= j
            PROVE  i \in F \/ qdb.copies[i] > 0
        <4>1. i \in Made /\ i \in Nat /\ i # 0 /\ qdb.cursor[k] \in Nat
          BY <1>0, SyncFacts
        <4>2. j \in F
          BY <3>2, <4>1
        <4>3. CASE i > qdb.cursor[k]
          BY <1>4, <3>2, <4>1, <4>2, <4>3
        <4>4. CASE i <= qdb.cursor[k]
          BY <3>2, <4>4 DEF SyncInv, NoGaps
        <4> QED
          BY <4>1, <4>3, <4>4
      <3>3. \A i \in Regular : ~ (i <= 0)
        BY SyncFacts
      <3>4. ASSUME NEW i \in F, k \in InvoiceKinds, qdb.copies[i] # 0 PROVE remote[i].home # 0
        BY <3>1, <3>4 DEF SyncInv, Ahead
      <3> QED
        BY <1>0, <1>1, <1>2, <1>3, <3>1, <3>2, <3>3, <3>4 DEF ImportOK, Seen, Kind
    <2> QED
      BY <1>1, <1>2, <2>1, <2>2, <2>3, <2>4 DEF JobOK
  <1>9. ASSUME NEW x \in QbWorkers PROVE JobOK(x)'
    <2>1. CASE x = w
      BY <1>8, <2>1
    <2>2. CASE x # w
      BY <1>0, <1>1, <1>3, <1>5, <2>2, WorldKeepsJob
    <2> QED
      BY <2>1, <2>2
  <1>10. ASSUME NEW x \in QbWorkers, NEW y \in QbWorkers, x # y PROVE Apart(x, y)'
    <2>1. CASE x = w
      <3>1. qtodo'[w] \cap qtodo'[y] \subseteq raced'
        BY <1>0, <1>1, <1>10, <2>1
      <3>2. qbc[y] = "posted" /\ item[y].id \in F => item[y].id \in raced'
        BY <1>0, <1>10, <2>1
      <3> QED
        BY <1>1, <1>2, <1>10, <2>1, <3>1, <3>2 DEF Apart
    <2>2. CASE y = w
      <3>1. qtodo'[x] \cap qtodo'[w] \subseteq raced'
        BY <1>0, <1>1, <1>10, <2>2
      <3> QED
        BY <1>1, <1>2, <2>2, <3>1 DEF Apart
    <2>3. CASE x # w /\ y # w
      BY <1>1, <1>3, <1>10, <2>3 DEF SyncInv, Apart
    <2> QED
      BY <2>1, <2>2, <2>3
  <1> QED
    BY <1>5, <1>6, <1>7, <1>9, <1>10 DEF SyncInv

LEMMA ExportKeeps ==
    ASSUME ExportInv, SyncInv, NEW w \in QbWorkers, NEW d \in Docs, ExportQb(w, d)
    PROVE  SyncInv'
  <1> DEFINE r == [item[w] EXCEPT !.doc = d]
  <1>0. /\ qbc[w] = "idle" /\ qbc' = [qbc EXCEPT ![w] = "export"] /\ item' = [item EXCEPT ![w] = r]
        /\ qsnap' = [qsnap EXCEPT ![w] = qdb] /\ stale' = [stale EXCEPT ![w] = FALSE]
        /\ UNCHANGED <<world, docKind, remote, qdb, qtodo, line, pend, raced, broken>>
    BY DEF ExportQb
  <1>1. r.id = item[w].id
    <2>1. ItemFielded(item[w])
      BY DEF ExportInv
    <2> QED
      BY <2>1 DEF ItemFielded
  <1> HIDE DEF r
  <1>2. /\ \A x \in QbWorkers \ {w} :
              /\ qbc'[x] = qbc[x] /\ qtodo'[x] = qtodo[x] /\ line'[x] = line[x]
              /\ pend'[x] = pend[x] /\ qsnap'[x] = qsnap[x] /\ item'[x] = item[x]
              /\ stale'[x] = stale[x]
        /\ qbc'[w] = "export" /\ qsnap'[w] = qdb /\ stale'[w] = FALSE /\ item'[w] = r
    BY <1>0 DEF ExportInv, SyncInv, SyncTyped
  <1>3. /\ qtodo[w] = {} /\ pend[w] = NoWrites /\ ~ (line[w] > 0) /\ item[w].id = 0
        /\ pend[w].cursor = 0 /\ pend[w].met = {} /\ pend[w].made = {}
        /\ "export" \notin QbKinds /\ "export" \notin Stepwise
    <2>1. qbc[w] \notin QbKinds
      BY <1>0 DEF QbKinds
    <2> QED
      BY <1>0, <2>1, IdleIs
  <1>4. /\ Made' = Made /\ Sequel(remote, remote') /\ raced \subseteq raced' /\ broken \subseteq broken'
    BY <1>0, SameWorld, SameRemote
  <1>5. ObjectsOK'
    BY <1>0, <1>4 DEF SyncInv, ObjectsOK, Kind
  <1>6. SyncTyped'
    <2>1. stale' \in [QbWorkers -> BOOLEAN]
      BY <1>0 DEF SyncInv, SyncTyped
    <2> QED
      BY <1>0, <2>1 DEF SyncInv, SyncTyped, Ids
  <1>7. CommittedOK' /\ NoGaps' /\ InOrder' /\ Ahead' /\ Once' /\ QbWholeOrders'
    <2>1. \A x \in QbWorkers : line[x] > 0 => line'[x] > 0 /\ qtodo'[x] = qtodo[x]
      BY <1>0
    <2> QED
      BY <1>0, <1>4, <1>5, <2>1, WorldKeeps
  <1>8. JobOK(w)'
    <2>1. SnapshotOK(w)'
      BY <1>0, <1>2, <1>4 DEF SyncInv, SyncTyped, CommittedOK, SnapshotOK, Ids
    <2>2. WritesOK(w)'
      <3>1. Len(remote) \in Nat
        BY SyncFacts
      <3> QED
        BY <1>0, <1>1, <1>2, <1>3, <3>1 DEF WritesOK
    <2>3. LineOK(w)'
      BY <1>0, <1>3 DEF LineOK
    <2> QED
      BY <1>0, <1>2, <1>3, <2>1, <2>2, <2>3 DEF JobOK
  <1>9. ASSUME NEW x \in QbWorkers PROVE JobOK(x)'
    <2>1. CASE x = w
      BY <1>8, <2>1
    <2>2. CASE x # w
      BY <1>0, <1>2, <1>4, <1>5, <2>2, WorldKeepsJob
    <2> QED
      BY <2>1, <2>2
  <1>10. \A x, y \in QbWorkers : x # y => Apart(x, y)'
    BY <1>0, <1>2, <1>3 DEF SyncInv, Apart
  <1> QED
    BY <1>5, <1>6, <1>7, <1>9, <1>10 DEF SyncInv

(* A new object in QuickBooks.                                             *)
AddsObject(new) == remote' = Append(remote, new)

LEMMA ObjectAdded ==
    ASSUME ExportInv, SyncInv, NEW k \in world, NEW new \in RemoteObject, new.kind = k, Room(k),
           AddsObject(new), UNCHANGED <<world, docKind>>,
           new.home # 0 => k = docKind /\ ~ new.twin,
           new.of # 0 => /\ new.of \in Made
                         /\ \/ k = "payment"
                            \/ k = "category" /\ Kind(new.of) = "category" /\ ~ new.odd /\ ~ remote[new.of].odd
    PROVE  /\ Sequel(remote, remote') /\ ObjectsOK' /\ Len(remote') = Len(remote) + 1
           /\ Len(remote) + 1 \in Ids
  <1> DEFINE n == Len(remote)
  <1>1. n \in Nat /\ n < N /\ N \in Nat
    BY QbAssumption DEF ExportInv, Room
  <1>2. /\ Len(remote') = n + 1 /\ remote'[n + 1] = new
        /\ \A i \in 1 .. n : remote'[i] = remote[i]
    <2>1. remote \in Seq(RemoteObject)
      BY DEF ExportInv
    <2> QED
      BY <2>1 DEF AddsObject
  <1>3. Sequel(remote, remote') /\ n + 1 \in Ids
    <2>1. remote' \in Seq(RemoteObject)
      BY DEF ExportInv, AddsObject
    <2> QED
      BY <1>1, <1>2, <2>1 DEF Sequel, Ids
  <1>4. /\ Made' = Made \cup {n + 1} /\ \A i \in Made : remote'[i] = remote[i] /\ i \in Nat /\ i <= n
    BY <1>1, <1>2 DEF Made
  <1>5. ObjectsOK'
    <2> SUFFICES ASSUME NEW i \in Made'
                 PROVE  /\ remote'[i].kind \in world
                        /\ remote'[i].home # 0 => remote'[i].kind = docKind /\ ~ remote'[i].twin
                        /\ remote'[i].of # 0 => remote'[i].kind \in {"payment", "category"}
                        /\ remote'[i].of # 0 /\ remote'[i].kind = "category" =>
                              /\ remote'[i].of \in Made' /\ remote'[i].of < i
                              /\ remote'[remote'[i].of].kind = "category"
                              /\ ~ remote'[i].odd /\ ~ remote'[remote'[i].of].odd
      BY <1>1, <1>2 DEF ObjectsOK, Kind
    <2>1. CASE i \in Made
      BY <1>4, <2>1 DEF SyncInv, ObjectsOK, Kind
    <2>2. CASE i = n + 1
      <3>1. remote'[i] = new
        BY <1>2, <2>2
      <3>2. ASSUME new.of # 0
            PROVE  new.of \in Made' /\ new.of < i /\ remote'[new.of] = remote[new.of]
        <4>1. PICK o : o = new.of
          OBVIOUS
        <4>2. o \in Made
          BY <3>2, <4>1
        <4>3. o \in Made' /\ o < i /\ remote'[o] = remote[o]
          BY <1>1, <1>4, <2>2, <4>2
        <4> QED
          BY <4>1, <4>3
      <3> QED
        BY <3>1, <3>2 DEF Kind
    <2> QED
      BY <1>4, <2>1, <2>2
  <1> QED
    BY <1>2, <1>3, <1>5

LEMMA MakeKeeps ==
    ASSUME ExportInv, SyncInv, NEW k \in QbKinds, MakeQb(k)
    PROVE  SyncInv'
  <1>1. /\ k \in world /\ Room(k)
        /\ UNCHANGED <<world, docKind, qdb, qbc, qtodo, line, pend, qsnap, stale, item, raced, broken>>
    BY DEF MakeQb
  <1>2. PICK odd \in BOOLEAN, twin \in BOOLEAN, of \in 0 .. Len(remote), fresh \in Shape(k) :
           /\ of # 0 => \/ k = "payment" /\ Kind(of) = "invoice"
                        \/ k = "category" /\ Kind(of) = "category" /\ ~odd /\ ~remote[of].odd
           /\ remote' = Append(remote, [kind |-> k, of |-> of, home |-> 0, odd |-> odd,
                                        twin |-> twin, fresh |-> fresh])
    BY DEF MakeQb
  <1> DEFINE new == [kind |-> k, of |-> of, home |-> 0, odd |-> odd, twin |-> twin, fresh |-> fresh]
  <1>3. new \in RemoteObject
    <2>1. of \in 0 .. N
      <3>1. Len(remote) \in Nat /\ N \in Nat /\ Len(remote) < N
        BY <1>1, QbAssumption DEF ExportInv, Room
      <3> QED
        BY <3>1
    <2>2. fresh \in SUBSET AllLines
      BY ShapeIs
    <2> QED
      BY <2>1, <2>2 DEF RemoteObject
  <1>4. new.kind = k /\ new.of = of /\ new.home = 0 /\ new.odd = odd /\ remote' = Append(remote, new)
        /\ (of # 0 => of \in Made)
    <2>1. Len(remote) \in Nat
      BY SyncFacts
    <2> QED
      BY <1>2, <2>1 DEF Made
  <1> HIDE DEF new
  <1>5. Sequel(remote, remote') /\ ObjectsOK'
    BY <1>1, <1>2, <1>3, <1>4, ObjectAdded DEF AddsObject
  <1>6. SyncTyped'
    BY <1>1 DEF SyncInv, SyncTyped, Ids
  <1>7. CommittedOK' /\ NoGaps' /\ InOrder' /\ Ahead' /\ Once' /\ QbWholeOrders'
    <2>1. raced \subseteq raced' /\ broken \subseteq broken'
      BY <1>1
    <2>2. \A x \in QbWorkers : line[x] > 0 => line'[x] > 0 /\ qtodo'[x] = qtodo[x]
      BY <1>1
    <2> QED
      BY <1>1, <1>5, <2>1, <2>2, WorldKeeps
  <1>8. ASSUME NEW x \in QbWorkers PROVE JobOK(x)'
    <2>1. raced \subseteq raced'
      BY <1>1
    <2> QED
      BY <1>1, <1>5, <2>1, WorldKeepsJob
  <1>9. \A x, y \in QbWorkers : x # y => Apart(x, y)'
    BY <1>1 DEF SyncInv, Apart
  <1> QED
    BY <1>5, <1>6, <1>7, <1>8, <1>9 DEF SyncInv

LEMMA PostKeeps ==
    ASSUME ExportInv, SyncInv, NEW w \in QbWorkers, PostQb(w)
    PROVE  SyncInv'
  <1>15. PICK fresh \in Shape(docKind) :
            remote' = Append(remote, [kind |-> docKind, of |-> 0, home |-> item[w].doc,
                                      odd |-> FALSE, twin |-> FALSE, fresh |-> fresh])
    BY DEF PostQb
  <1> DEFINE new == [kind |-> docKind, of |-> 0, home |-> item[w].doc,
                     odd |-> FALSE, twin |-> FALSE, fresh |-> fresh]
             n == Len(remote) + 1
             r == [item[w] EXCEPT !.id = n]
  <1>0. /\ qbc[w] = "export" /\ Room(docKind) /\ remote' = Append(remote, new)
        /\ item' = [item EXCEPT ![w] = r] /\ qbc' = [qbc EXCEPT ![w] = "posted"]
        /\ UNCHANGED <<world, docKind, qdb, qtodo, line, pend, qsnap, stale, raced, broken>>
    BY <1>15 DEF PostQb
  <1>1. new \in RemoteObject /\ new.kind = docKind /\ new.of = 0 /\ docKind \in world /\ ~ new.twin
    <2>1. item[w].doc \in Docs /\ docKind \in world /\ world \subseteq QbKinds /\ 0 \in 0 .. N
      BY <1>0, QbAssumption DEF ExportInv
    <2>2. fresh \in SUBSET AllLines
      BY ShapeIs
    <2> QED
      BY <2>1, <2>2 DEF RemoteObject
  <1>2. r.id = n
    <2>1. ItemFielded(item[w])
      BY DEF ExportInv
    <2> QED
      BY <2>1 DEF ItemFielded
  <1> HIDE DEF new
  <1>3. Sequel(remote, remote') /\ ObjectsOK' /\ Len(remote') = n /\ n \in Ids
    BY <1>0, <1>1, ObjectAdded DEF AddsObject
  <1>4. Len(remote) \in Nat /\ n \in Nat /\ n > Len(remote) /\ n \notin Made
    <2>1. Len(remote) \in Nat
      BY SyncFacts
    <2> QED
      BY <2>1 DEF Made
  <1> HIDE DEF r, n
  <1>5. /\ \A x \in QbWorkers \ {w} :
              /\ qbc'[x] = qbc[x] /\ qtodo'[x] = qtodo[x] /\ line'[x] = line[x]
              /\ pend'[x] = pend[x] /\ qsnap'[x] = qsnap[x] /\ item'[x] = item[x]
              /\ stale'[x] = stale[x]
        /\ qbc'[w] = "posted" /\ item'[w] = r
    BY <1>0 DEF ExportInv
  <1>6. /\ qtodo[w] = {} /\ pend[w] = NoWrites /\ ~ (line[w] > 0)
        /\ pend[w].cursor = 0 /\ pend[w].met = {} /\ pend[w].made = {}
        /\ "posted" \notin QbKinds /\ "posted" \notin Stepwise
    <2>1. qbc[w] \notin QbKinds
      BY <1>0 DEF QbKinds
    <2> QED
      BY <2>1, IdleIs
  <1>7. SyncTyped'
    BY <1>0 DEF SyncInv, SyncTyped, Ids
  <1>8. raced \subseteq raced' /\ broken \subseteq broken'
    BY <1>0
  <1>9. CommittedOK' /\ NoGaps' /\ InOrder' /\ Ahead' /\ Once' /\ QbWholeOrders'
    <2>1. \A x \in QbWorkers : line[x] > 0 => line'[x] > 0 /\ qtodo'[x] = qtodo[x]
      BY <1>0
    <2> QED
      BY <1>0, <1>3, <1>8, <2>1, WorldKeeps
  <1>10. JobOK(w)'
    <2>1. SnapshotOK(w)'
      <3>1. SnapshotOK(w) /\ Made \subseteq Made'
        BY <1>3, WorldGrows, <1>8 DEF SyncInv, JobOK
      <3> QED
        BY <1>0, <3>1 DEF SnapshotOK, Ids
    <2>2. WritesOK(w)'
      BY <1>0, <1>2, <1>3, <1>4, <1>5, <1>6 DEF WritesOK
    <2>3. LineOK(w)'
      BY <1>0, <1>6 DEF LineOK
    <2>4. PostedOK(w)'
      <3>1. qdb.copies[n] = 0
        BY <1>3, <1>4 DEF SyncInv, CommittedOK
      <3>2. docKind = "agency" => n > qdb.cursor["agency"]
        <4>1. \A l \in world : qdb.cursor[l] \in Nat
          BY SyncFacts
        <4>2. \A l \in world : qdb.cursor[l] <= Len(remote)
          BY DEF SyncInv, CommittedOK
        <4>3. docKind \in world
          BY <1>1
        <4>4. ASSUME NEW c \in Nat, c <= Len(remote) PROVE n > c
          BY ONLY <1>4, <4>4
        <4> QED
          BY ONLY <4>1, <4>2, <4>3, <4>4
      <3> QED
        BY <1>0, <1>2, <1>5, <3>1, <3>2 DEF PostedOK
    <2> QED
      BY <1>0, <1>5, <1>6, <2>1, <2>2, <2>3, <2>4 DEF JobOK
  <1>11. ASSUME NEW x \in QbWorkers PROVE JobOK(x)'
    <2>1. CASE x = w
      BY <1>10, <2>1
    <2>2. CASE x # w
      BY <1>0, <1>3, <1>5, <1>8, <2>2, WorldKeepsJob
    <2> QED
      BY <2>1, <2>2
  <1>12. ASSUME NEW x \in QbWorkers PROVE n \notin qtodo[x] /\ (qbc[x] = "posted" => item[x].id # n)
    <2>1. n \notin qtodo[x]
      <3>1. CASE qbc[x] \in QbKinds
        BY <1>4, <3>1, AtWork
      <3>2. CASE qbc[x] \notin QbKinds
        BY <3>2, IdleIs
      <3> QED
        BY <3>1, <3>2
    <2> QED
      BY <1>4, <2>1, PostedHome
  <1>13. ASSUME NEW x \in QbWorkers, NEW y \in QbWorkers, x # y PROVE Apart(x, y)'
    <2>1. Apart(x, y)
      BY <1>13 DEF SyncInv
    <2>2. CASE x = w
      BY <1>0, <1>2, <1>5, <1>6, <1>12, <1>13, <2>1, <2>2 DEF Apart
    <2>3. CASE y = w
      BY <1>0, <1>2, <1>5, <1>6, <1>12, <1>13, <2>1, <2>3 DEF Apart
    <2>4. CASE x # w /\ y # w
      BY <1>0, <1>5, <2>1, <2>4 DEF Apart
    <2> QED
      BY <2>2, <2>3, <2>4
  <1> QED
    BY <1>3, <1>7, <1>9, <1>11, <1>13 DEF SyncInv

-----------------------------------------------------------------------------
(* QuickBooks: a cursor that moves alone, and exports.                     *)

(* What moves a cursor without an import: an account that is exported      *)
(* again, the stock of products.                                           *)
LEMMA CursorAlone ==
    ASSUME ExportInv, SyncInv, NEW w \in QbWorkers, qbc[w] = "idle",
           NEW c \in world \cap {"account", "product"}, NEW m \in Made,
           \A i \in Regular : Kind(i) = c /\ i <= m => qdb.copies[i] > 0,
           qdb' = [qdb EXCEPT !.cursor[c] = m], Outdate(w, TRUE),
           UNCHANGED <<world, docKind, remote, qbc, qtodo, line, pend, qsnap, item, raced, broken>>
    PROVE  SyncInv'
  <1> DEFINE z == [qdb.cursor EXCEPT ![c] = m]
             v == [qdb EXCEPT !.cursor = z]
  <1>1. /\ qdb'.copies = qdb.copies /\ qdb'.lines = qdb.lines /\ qdb'.drafts = qdb.drafts
        /\ qdb'.id = qdb.id /\ qdb'.cursor = z
    <2>1. SameBut(qdb, v, qdb.copies, qdb.lines, qdb.drafts, z)
      <3> HIDE DEF z
      <3> QED
        BY OneChange DEF ExportInv
    <2>2. qdb' = v
      OBVIOUS
    <2> HIDE DEF z, v
    <2> QED
      BY <2>1, <2>2 DEF SameBut
  <1>2. m \in Nat /\ m <= Len(remote) /\ Len(remote) \in Nat /\ \A i \in Made : Kind(i) \in world
    BY SyncFacts
  <1>3. /\ z \in [world -> Nat] /\ z[c] = m /\ \A l \in world \ {c} : z[l] = qdb.cursor[l]
        /\ c \notin Guarded
    <2>1. c \notin Guarded
      BY DEF Guarded, InvoiceKinds, PayKinds
    <2> QED
      BY <1>2, <2>1 DEF SyncInv, SyncTyped
  <1> HIDE DEF z, v
  <1>4. qtodo[w] = {} /\ ~ (line[w] > 0) /\ pend[w].met = {}
    <2>1. qbc[w] \notin QbKinds
      BY DEF QbKinds
    <2> QED
      BY <2>1, IdleIs
  <1>5. SyncTyped'
    <2>1. stale' \in [QbWorkers -> BOOLEAN]
      BY DEF Outdate, SyncInv, SyncTyped
    <2> QED
      BY <1>1, <1>3, <2>1 DEF SyncInv, SyncTyped, Ids
  <1>6. Creates(w, {}, TRUE)
    <2>1. \A i \in Ids : qdb.copies[i] \in Nat
      BY SyncFacts
    <2>2. \A i \in Made : qdb.copies[i] \in Nat
      BY SyncFacts
    <2> QED
      BY <1>1, <2>1, <2>2 DEF Creates, SyncInv, CommittedOK
  <1>7. MovesCursors({}, TRUE)
    <2>1. \A k \in world : qdb'.cursor[k] <= Len(remote)
      BY <1>1, <1>2, <1>3 DEF SyncInv, CommittedOK
    <2>2. ASSUME NEW i \in Regular, i <= qdb'.cursor[Kind(i)]
          PROVE  i <= qdb.cursor[Kind(i)] \/ qdb.copies[i] > 0
      <3>1. Kind(i) \in world
        BY <1>2 DEF Regular
      <3> QED
        BY <1>1, <1>3, <2>2, <3>1
    <2>3. ASSUME NEW i \in Made, i > qdb'.cursor[Kind(i)], i <= qdb.cursor[Kind(i)]
          PROVE  Kind(i) = c
      <3>1. qdb.cursor[Kind(i)] \in Nat /\ i \in Nat
        BY SyncFacts
      <3> QED
        BY <1>1, <1>2, <1>3, <2>3, <3>1
    <2>4. c \notin InvoiceKinds /\ c \notin PayKinds \cup {"agency"}
      BY <1>3 DEF Guarded
    <2> QED
      BY <2>1, <2>2, <2>3, <2>4 DEF MovesCursors
  <1>8. FillsOrders(w, {})
    <2>1. Whole(pend[w].met) = {}
      BY <1>4 DEF Whole
    <2> QED
      BY <1>1, <1>4, <2>1 DEF FillsOrders
  <1>9. KeepsIds
    BY <1>1 DEF KeepsIds, SyncInv, CommittedOK
  <1>10. OthersStay(w, TRUE)
    BY <1>4 DEF OthersStay, Outdate, Whole
  <1>11. Commits(w, {}, TRUE) /\ TRUE \in BOOLEAN
    BY <1>5, <1>6, <1>7, <1>8, <1>9, <1>10 DEF Commits
  <1>12. ObjectsOK' /\ CommittedOK' /\ NoGaps' /\ InOrder' /\ Ahead' /\ Once' /\ QbWholeOrders'
    BY <1>11, CommitKeepsRows
  <1>13. JobOK(w)'
    <2>1. JobOK(w) /\ Made' = Made /\ qbc[w] \notin QbKinds /\ qbc[w] # "posted"
      BY SameWorld DEF SyncInv, QbKinds
    <2>2. SnapshotOK(w)' /\ WritesOK(w)'
      BY <2>1 DEF JobOK, SnapshotOK, WritesOK, Kind, Ids
    <2>3. LineOK(w)'
      BY <1>4 DEF LineOK
    <2> QED
      BY <1>4, <2>1, <2>2, <2>3 DEF JobOK
  <1>14. \A x \in QbWorkers : JobOK(x)'
    BY <1>11, <1>13, CommitKeepsOthers
  <1>15. \A x, y \in QbWorkers : x # y => Apart(x, y)'
    BY DEF SyncInv, Apart
  <1> QED
    BY <1>5, <1>12, <1>14, <1>15 DEF SyncInv

(* A kind that is exported may be met out of turn.                         *)
LEMMA ExportJumps ==
    ASSUME NEW i \in Made, remote[i].home # 0
    PROVE  /\ Exported(Kind(i))
           /\ Kind(i) \in {"account", "agency", "tax", "product", "method", "billpay"} =>
                 \A j \in Regular : Kind(j) # Kind(i)
           /\ Kind(i) = "method" => /\ \A j \in Regular : Kind(j) # "agency"
                                    /\ \A j \in Made : Kind(j) = "agency" => j \in Excused
           /\ Kind(i) \in PayKinds => i \in Excused
  <1>1. Exported(Kind(i))
    BY DEF Exported
  <1>2. Kind(i) \in {"account", "agency", "tax", "product", "method", "billpay"} => \A j \in Regular : Kind(j) # Kind(i)
    BY <1>1 DEF Regular, Jumping
  <1>3. Kind(i) = "method" => \A j \in Regular : Kind(j) # "agency"
    BY <1>1 DEF Regular, Jumping
  <1>4. Kind(i) = "method" => \A j \in Made : Kind(j) = "agency" => j \in Excused
    BY <1>1 DEF Excused, QbExcused
  <1>5. Kind(i) \in PayKinds => i \in Excused
    BY DEF Excused, QbExcused
  <1> QED
    BY <1>1, <1>2, <1>3, <1>4, <1>5

LEMMA UpdateKeeps ==
    ASSUME ExportInv, SyncInv, NEW w \in QbWorkers, NEW d \in Docs, UpdateAccount(w, d)
    PROVE  SyncInv'
  <1>1. PICK m : m = qdb.id[d]
    OBVIOUS
  <1>2. /\ qbc[w] = "idle" /\ docKind = "account" /\ m # 0
        /\ qdb' = [qdb EXCEPT !.cursor["account"] = m] /\ Outdate(w, TRUE)
        /\ UNCHANGED <<world, docKind, remote, qbc, qtodo, line, pend, qsnap, item, raced, broken>>
    BY <1>1 DEF UpdateAccount
  <1>3. m \in Made /\ remote[m].home # 0 /\ "account" \in world /\ Kind(m) = "account"
    <2>1. m \in Made /\ remote[m].home = d
      BY <1>1, <1>2 DEF SyncInv, CommittedOK
    <2> QED
      BY <1>2, <2>1, QbAssumption DEF ExportInv, SyncInv, ObjectsOK
  <1>4. \A i \in Regular : Kind(i) = "account" /\ i <= m => qdb.copies[i] > 0
    BY <1>3, ExportJumps
  <1> QED
    BY <1>2, <1>3, <1>4, CursorAlone

LEMMA InventoryKeeps ==
    ASSUME ExportInv, SyncInv, NEW w \in QbWorkers, ImportInventory(w)
    PROVE  SyncInv'
  <1>1. /\ qbc[w] = "idle" /\ "product" \in world /\ Outdate(w, TRUE)
        /\ UNCHANGED <<world, docKind, remote, qbc, qtodo, line, pend, qsnap, item, raced, broken>>
    BY DEF ImportInventory
  <1>2. PICK S \in SUBSET {i \in Fetched("product") : qdb.copies[i] = 1} :
           S # {} /\ qdb' = [qdb EXCEPT !.cursor["product"] = Max(S)]
    BY DEF ImportInventory
  <1>3. PICK m : m = Max(S)
    OBVIOUS
  <1>4. m \in Made /\ Kind(m) = "product" /\ qdb.copies[m] = 1
    <2>1. \A i \in S : i \in Made /\ Kind(i) = "product" /\ qdb.copies[i] = 1
      BY FetchedIs
    <2>2. S \in SUBSET (0 .. Len(remote)) /\ Len(remote) \in Nat
      BY <2>1, SyncFacts
    <2>3. m \in S
      BY <1>2, <1>3, <2>2, MaxIs
    <2> QED
      BY <2>1, <2>3
  <1>5. ASSUME NEW i \in Regular, Kind(i) = "product", i <= m PROVE qdb.copies[i] > 0
    <2>1. i \in Nat /\ m \in Nat /\ qdb.copies[m] > 0
      BY <1>4, SyncFacts
    <2>2. CASE i = m
      BY <2>1, <2>2
    <2>3. CASE i # m
      BY <1>4, <1>5, <2>1, <2>3 DEF SyncInv, InOrder
    <2> QED
      BY <2>2, <2>3
  <1> QED
    BY <1>1, <1>2, <1>3, <1>4, <1>5, CursorAlone

LEMMA IdChange ==
    ASSUME NEW r, RowsFielded(r), NEW x
    PROVE  LET s == [r EXCEPT !.id = x] IN
           /\ RowsFielded(s) /\ s.copies = r.copies /\ s.lines = r.lines
           /\ s.drafts = r.drafts /\ s.cursor = r.cursor
  BY DEF RowsFielded

(* The other fields of what StoreQb and its like commit.                   *)
LEMMA StoredFieldsAre ==
    ASSUME ExportInv, NEW w
    PROVE  LET i == item[w].id  old == qsnap[w].id[item[w].doc] IN
           /\ Stored(w).copies = [j \in Ids |-> qdb.copies[j] + One(j = i) - One(j = old)]
           /\ Stored(w).lines = [qdb.lines EXCEPT ![i] = IF docKind = "order" THEN AllLines ELSE {}]
           /\ Stored(w).drafts = qdb.drafts /\ Stored(w).cursor = qdb.cursor
  <1> DEFINE x == [qdb.id EXCEPT ![item[w].doc] = item[w].id]
             r1 == [qdb EXCEPT !.id = x]
             y == [j \in Ids |-> r1.copies[j] + One(j = item[w].id)
                                   - One(j = qsnap[w].id[item[w].doc])]
             r2 == [r1 EXCEPT !.copies = y]
             z == [r2.lines EXCEPT ![item[w].id] = IF docKind = "order" THEN AllLines ELSE {}]
             r3 == [r2 EXCEPT !.lines = z]
  <1>1. Stored(w) = r3
    BY DEF Stored
  <1>2. /\ RowsFielded(r1) /\ r1.copies = qdb.copies /\ r1.lines = qdb.lines
        /\ r1.drafts = qdb.drafts /\ r1.cursor = qdb.cursor
    <2> HIDE DEF x
    <2> QED
      BY IdChange DEF ExportInv
  <1>3. RowsFielded(r2) /\ SameBut(r1, r2, y, r1.lines, r1.drafts, r1.cursor)
    <2> HIDE DEF r1, y
    <2> QED
      BY <1>2, OneChange
  <1>4. SameBut(r2, r3, r2.copies, z, r2.drafts, r2.cursor)
    <2> HIDE DEF r2, z
    <2> QED
      BY <1>3, OneChange
  <1>5. y = [j \in Ids |-> qdb.copies[j] + One(j = item[w].id)
                             - One(j = qsnap[w].id[item[w].doc])]
    <2> HIDE DEF r1
    <2> QED
      BY <1>2
  <1> HIDE DEF r1, y
  <1>6. z = [qdb.lines EXCEPT ![item[w].id] = IF docKind = "order" THEN AllLines ELSE {}]
    <2> HIDE DEF r2
    <2> QED
      BY <1>2, <1>3 DEF SameBut
  <1> HIDE DEF r2, r3, z
  <1> QED
    BY <1>1, <1>2, <1>3, <1>4, <1>5, <1>6 DEF SameBut

(* What is known of a request that has posted.                             *)
LEMMA PostedIs ==
    ASSUME ExportInv, SyncInv, NEW w \in QbWorkers, qbc[w] = "posted"
    PROVE  LET i == item[w].id  d == item[w].doc  old == qsnap[w].id[d] IN
           /\ i \in Made /\ d \in Docs /\ remote[i].home = d /\ remote[i].home # 0
           /\ Kind(i) = docKind /\ docKind \in world
           /\ qtodo[w] = {} /\ ~ (line[w] > 0) /\ pend[w].met = {}
           /\ qdb.copies[i] = 0 \/ i \in Excused
           /\ docKind = "agency" /\ ~ stale[w] => i > qdb.cursor["agency"]
           /\ SameId(w) => /\ old = qdb.id[d]
                           /\ old # 0 => /\ old \in Made /\ remote[old].home = d
                                         /\ qdb.copies[old] >= 1 /\ Kind(old) \in Twice
                                         /\ old \notin Regular
  <1> DEFINE i == item[w].id
             d == item[w].doc
             old == qsnap[w].id[d]
  <1>1. i \in Made /\ d \in Docs /\ remote[i].home = d /\ remote[i].home # 0
    BY PostedHome
  <1>2. Kind(i) = docKind /\ docKind \in world
    BY <1>1 DEF SyncInv, ObjectsOK, ExportInv
  <1>3. qtodo[w] = {} /\ ~ (line[w] > 0) /\ pend[w].met = {}
    <2>1. qbc[w] \notin QbKinds
      BY DEF QbKinds
    <2> QED
      BY <2>1, IdleIs
  <1>4. PostedOK(w)
    BY DEF SyncInv, JobOK
  <1>5. ASSUME SameId(w), old # 0
        PROVE  /\ old \in Made /\ remote[old].home = d /\ qdb.copies[old] >= 1
               /\ Kind(old) \in Twice /\ old \notin Regular
    <2>1. old = qdb.id[d]
      BY <1>5 DEF SameId
    <2>2. old \in Made /\ remote[old].home = d /\ qdb.copies[old] >= 1
      BY <1>1, <1>5, <2>1 DEF SyncInv, CommittedOK
    <2>3. docKind \in Twice
      BY <1>5 DEF ExportInv
    <2>4. Kind(old) = docKind /\ remote[old].home # 0
      BY <1>1, <2>2 DEF SyncInv, ObjectsOK
    <2>5. old \notin Regular
      BY <2>2, <2>3, <2>4, ExportJumps DEF Twice
    <2> QED
      BY <2>2, <2>3, <2>4, <2>5
  <1>6. SameId(w) => old = qdb.id[d]
    BY DEF SameId
  <1> QED
    BY <1>1, <1>2, <1>3, <1>4, <1>5, <1>6 DEF PostedOK

(* An export stores the id that it got.                                    *)
LEMMA StoresId ==
    ASSUME ExportInv, SyncInv, NEW w \in QbWorkers, qbc[w] = "posted", SameId(w),
           NEW v, NEW moves \in BOOLEAN, EndWith(w, v, moves),
           v.copies = Stored(w).copies, v.lines = Stored(w).lines, v.drafts = Stored(w).drafts,
           v.id = Stored(w).id, v.cursor \in [world -> Nat],
           MovesCursors({item[w].id}, moves)
    PROVE  SyncInv'
  <1>1. PICK i, d, old : i = item[w].id /\ d = item[w].doc /\ old = qsnap[w].id[d]
    OBVIOUS
  <1>2. /\ i \in Made /\ d \in Docs /\ remote[i].home = d /\ remote[i].home # 0
        /\ Kind(i) = docKind /\ docKind \in world
        /\ qtodo[w] = {} /\ ~ (line[w] > 0) /\ pend[w].met = {}
        /\ qdb.copies[i] = 0 \/ i \in Excused
        /\ old = qdb.id[d]
        /\ old # 0 => /\ old \in Made /\ remote[old].home = d /\ qdb.copies[old] >= 1
                      /\ Kind(old) \in Twice /\ old \notin Regular
    BY <1>1, PostedIs
  <1>3. /\ Made \subseteq Ids /\ Regular \subseteq Made /\ \A j \in Made : j \in Nat /\ j # 0
        /\ \A j \in Ids : j # 0 /\ qdb.copies[j] \in Nat /\ qdb.lines[j] \subseteq AllLines
    BY SyncFacts DEF Ids
  <1>4. qdb' = v
    BY DEF EndWith
  <1>5. /\ qdb'.copies = [j \in Ids |-> qdb.copies[j] + One(j = i) - One(j = old)]
        /\ qdb'.lines = [qdb.lines EXCEPT ![i] = IF docKind = "order" THEN AllLines ELSE {}]
        /\ qdb'.drafts = qdb.drafts /\ qdb'.id = [qdb.id EXCEPT ![d] = i]
    <2>1. /\ Stored(w).copies = [j \in Ids |-> qdb.copies[j] + One(j = i) - One(j = old)]
          /\ Stored(w).lines = [qdb.lines EXCEPT ![i] = IF docKind = "order" THEN AllLines ELSE {}]
          /\ Stored(w).drafts = qdb.drafts
      BY <1>1, StoredFieldsAre
    <2>2. Stored(w).id = [qdb.id EXCEPT ![d] = i]
      BY <1>1, StoredRows
    <2>3. /\ v.copies = Stored(w).copies /\ v.lines = Stored(w).lines
          /\ v.drafts = Stored(w).drafts /\ v.id = Stored(w).id
      OBVIOUS
    <2> QED
      BY ONLY <1>4, <2>1, <2>2, <2>3
  <1>6. ASSUME NEW j \in Ids
        PROVE  /\ j # old /\ j # i => qdb'.copies[j] = qdb.copies[j]
               /\ j = i /\ j # old => qdb'.copies[j] = qdb.copies[j] + 1
               /\ j = i /\ j = old => qdb'.copies[j] = qdb.copies[j]
               /\ j # i /\ j = old => qdb'.copies[j] = qdb.copies[j] - 1
               /\ qdb'.copies[j] \in Nat
    BY <1>2, <1>3, <1>5 DEF One
  <1>7. qdb'.copies \in [Ids -> Nat]
    <2>1. qdb'.copies = [j \in Ids |-> qdb'.copies[j]]
      BY <1>5
    <2> QED
      BY <1>6, <2>1
  <1>8. /\ qdb'.lines \in [Ids -> SUBSET AllLines] /\ (docKind = "order" => qdb'.lines[i] = AllLines)
        /\ \A j \in Ids : j # i => qdb'.lines[j] = qdb.lines[j]
    <2>1. qdb.lines \in [Ids -> SUBSET AllLines]
      BY DEF SyncInv, SyncTyped
    <2> QED
      BY <1>2, <1>3, <1>5, <2>1
  <1>9. Creates(w, {i}, moves)
    <2>1. qdb'.copies[i] > 0 /\ (qdb'.copies[i] <= 1 \/ i \in Excused)
      BY <1>2, <1>3, <1>6
    <2>2. \A j \in Made \ {i} : qdb'.copies[j] <= qdb.copies[j]
      BY <1>3, <1>6
    <2>3. \A j \in Ids \ Made : qdb'.copies[j] = 0
      <3>1. \A j \in Ids \ Made : qdb.copies[j] = 0
        BY DEF SyncInv, CommittedOK
      <3> QED
        BY <1>2, <1>3, <1>6, <3>1
    <2>4. ASSUME NEW j \in Made, j \in Regular \/ Kind(j) \notin Twice \cup ByCode
          PROVE  qdb'.copies[j] >= qdb.copies[j]
      <3>1. j # old
        BY <1>2, <1>3, <2>4
      <3> QED
        BY <1>3, <1>6, <3>1
    <2>5. ASSUME NEW j \in Regular, Kind(j) = "product", Kind(i) = "product" PROVE FALSE
      BY <1>2, <2>5, ExportJumps
    <2> QED
      BY <1>1, <1>2, <2>1, <2>2, <2>3, <2>4, <2>5 DEF Creates
  <1>10. FillsOrders(w, {i})
    <2> SUFFICES ASSUME NEW j \in Made, Kind(j) = "order"
                 PROVE  /\ qdb.lines[j] \subseteq qdb'.lines[j]
                        /\ qdb'.lines[j] # AllLines => j # i
      BY <1>2 DEF FillsOrders, Whole
    <2> QED
      BY <1>2, <1>3, <1>8
  <1>11. KeepsIds
    <2>1. ASSUME NEW e \in Docs, qdb'.id[e] # 0
          PROVE  qdb'.id[e] \in Made /\ remote[qdb'.id[e]].home = e /\ qdb'.copies[qdb'.id[e]] >= 1
      <3>0. qdb.id \in [Docs -> Nat]
        BY DEF ExportInv
      <3>1. CASE e = d
        <4>1. qdb'.id[e] = i
          BY <1>2, <1>5, <3>0, <3>1
        <4> QED
          BY <1>2, <1>3, <1>6, <3>1, <4>1
      <3>2. CASE e # d
        <4>1. PICK n : n = qdb.id[e]
          OBVIOUS
        <4>2. qdb'.id[e] = n
          BY <1>5, <3>0, <3>2, <4>1
        <4>3. n \in Made /\ remote[n].home = e /\ qdb.copies[n] >= 1
          BY <2>1, <4>1, <4>2 DEF SyncInv, CommittedOK
        <4>4. n # i /\ n # old
          BY <1>2, <1>3, <3>2, <4>3
        <4> QED
          BY <1>3, <1>6, <4>2, <4>3, <4>4
      <3> QED
        BY <3>1, <3>2
    <2>2. \A j \in qdb'.drafts : j \in Made /\ remote[j].home # 0
      BY <1>5 DEF SyncInv, CommittedOK
    <2> QED
      BY <2>1, <2>2 DEF KeepsIds
  <1> QED
    BY <1>1, <1>4, <1>7, <1>8, <1>9, <1>10, <1>11, EndCommits

(* The cursors that it moves, or not.                                      *)
LEMMA StoreRests ==
    ASSUME ExportInv, SyncInv, NEW w \in QbWorkers, qbc[w] = "posted", docKind # "agency",
           qdb'.cursor = qdb.cursor
    PROVE  MovesCursors({item[w].id}, FALSE)
  <1>1. PICK i : i = item[w].id
    OBVIOUS
  <1>2. i \in Made /\ remote[i].home # 0 /\ Kind(i) = docKind
    BY <1>1, PostedIs
  <1>3. Kind(i) \in PayKinds \cup {"agency"} => i \in Excused
    BY <1>2, ExportJumps
  <1>4. \A j \in Made : ~ (j > qdb.cursor[Kind(j)] /\ j <= qdb.cursor[Kind(j)])
    BY SyncFacts
  <1> QED
    BY <1>1, <1>2, <1>3, <1>4 DEF MovesCursors, SyncInv, CommittedOK

LEMMA StoreJumps ==
    ASSUME ExportInv, SyncInv, NEW w \in QbWorkers, qbc[w] = "posted", NEW c,
           \/ docKind = "account" /\ c = "account"
           \/ docKind = "tax" /\ c = "tax"
           \/ docKind = "method" /\ c = "agency"
           \/ docKind = "agency" /\ c = "agency" /\ ~ stale[w],
           qdb'.cursor = [qdb.cursor EXCEPT ![c] = item[w].id]
    PROVE  MovesCursors({item[w].id}, TRUE) /\ qdb'.cursor \in [world -> Nat]
  <1>1. PICK i : i = item[w].id
    OBVIOUS
  <1>2. /\ i \in Made /\ remote[i].home # 0 /\ Kind(i) = docKind
        /\ docKind = "agency" /\ ~ stale[w] => i > qdb.cursor["agency"]
    BY <1>1, PostedIs
  <1>3. /\ \A j \in Made : j \in Nat /\ j <= Len(remote) /\ Kind(j) \in world
        /\ Len(remote) \in Nat /\ Regular \subseteq Made
        /\ \A k \in world : qdb.cursor[k] \in Nat /\ qdb.cursor[k] <= Len(remote)
    BY SyncFacts DEF SyncInv, CommittedOK
  <1>4. \A k \in world : qdb'.cursor[k] = IF k = c THEN i ELSE qdb.cursor[k]
    BY <1>1 DEF SyncInv, SyncTyped
  <1>5. qdb'.cursor \in [world -> Nat]
    BY <1>1, <1>2, <1>3 DEF SyncInv, SyncTyped
  <1>6. \A j \in Regular : Kind(j) # c
    BY <1>2, ExportJumps
  <1>7. ASSUME NEW j \in Made, j > qdb'.cursor[Kind(j)], j = i \/ j <= qdb.cursor[Kind(j)]
        PROVE  /\ Kind(j) \notin InvoiceKinds
               /\ Kind(j) \in PayKinds \cup {"agency"} => j \in Excused
    <2>1. Kind(j) = c \/ (j = i /\ Kind(j) = docKind)
      BY <1>2, <1>3, <1>4, <1>7
    <2>2. CASE docKind \in {"account", "tax"}
      BY <2>1, <2>2 DEF InvoiceKinds, PayKinds
    <2>3. CASE docKind = "method"
      <3>1. Kind(j) = "agency" => j \in Excused
        BY <1>2, <2>3, ExportJumps
      <3> QED
        BY <2>1, <2>3, <3>1 DEF InvoiceKinds, PayKinds
    <2>4. CASE docKind = "agency"
      <3>1. i > qdb.cursor["agency"] /\ qdb'.cursor["agency"] = i /\ Kind(j) = "agency"
        BY <1>2, <1>3, <1>4, <2>1, <2>4
      <3> QED
        BY <1>2, <1>3, <1>7, <2>4, <3>1
    <2> QED
      BY <2>2, <2>3, <2>4
  <1>8. \A k \in world : qdb'.cursor[k] <= Len(remote)
    BY <1>2, <1>3, <1>4
  <1>9. ASSUME NEW j \in Regular, j <= qdb'.cursor[Kind(j)] PROVE j <= qdb.cursor[Kind(j)]
    BY <1>3, <1>4, <1>6, <1>9
  <1>10. MovesCursors({i}, TRUE)
    BY <1>7, <1>8, <1>9 DEF MovesCursors
  <1> QED
    BY <1>1, <1>5, <1>10

LEMMA StoreOnlyKeeps ==
    ASSUME ExportInv, SyncInv, NEW w \in QbWorkers, qbc[w] = "posted", SameId(w),
           docKind # "agency", EndWith(w, Stored(w), FALSE)
    PROVE  SyncInv'
  <1>1. PICK v : v = Stored(w)
    OBVIOUS
  <1>2. v.cursor = qdb.cursor /\ qdb.cursor \in [world -> Nat]
    BY <1>1, StoredFieldsAre DEF SyncInv, SyncTyped
  <1>3. EndWith(w, v, FALSE) /\ qdb' = v
    BY <1>1 DEF EndWith
  <1>4. MovesCursors({item[w].id}, FALSE)
    BY <1>2, <1>3, StoreRests
  <1> QED
    BY <1>1, <1>2, <1>3, <1>4, StoresId

LEMMA StoreMoveKeeps ==
    ASSUME ExportInv, SyncInv, NEW w \in QbWorkers, qbc[w] = "posted", SameId(w), NEW c,
           \/ docKind = "account" /\ c = "account"
           \/ docKind = "tax" /\ c = "tax"
           \/ docKind = "method" /\ c = "agency"
           \/ docKind = "agency" /\ c = "agency" /\ ~ stale[w],
           EndWith(w, [Stored(w) EXCEPT !.cursor[c] = item[w].id], TRUE)
    PROVE  SyncInv'
  <1>1. PICK u : u = Stored(w)
    OBVIOUS
  <1> DEFINE z == [u.cursor EXCEPT ![c] = item[w].id]
             v == [u EXCEPT !.cursor = z]
  <1>2. RowsFielded(u) /\ u.cursor = qdb.cursor
    BY <1>1, StoredRows, StoredFieldsAre
  <1>3. v.copies = u.copies /\ v.lines = u.lines /\ v.drafts = u.drafts /\ v.id = u.id /\ v.cursor = z
    <2> HIDE DEF z
    <2> QED
      BY <1>2, OneChange DEF SameBut
  <1>4. EndWith(w, v, TRUE)
    <2> DEFINE t == [Stored(w) EXCEPT !.cursor[c] = item[w].id]
    <2>1. EndWith(w, t, TRUE)
      OBVIOUS
    <2>2. t = v
      BY <1>1
    <2> HIDE DEF t, v
    <2> QED
      BY <2>1, <2>2
  <1>5. z = [qdb.cursor EXCEPT ![c] = item[w].id]
    BY <1>2
  <1> HIDE DEF z, v
  <1>6. qdb' = v
    BY <1>4 DEF EndWith
  <1>7. MovesCursors({item[w].id}, TRUE) /\ qdb'.cursor \in [world -> Nat]
    BY <1>3, <1>5, <1>6, StoreJumps
  <1>8. TRUE \in BOOLEAN
    OBVIOUS
  <1> QED
    BY <1>1, <1>3, <1>4, <1>6, <1>7, <1>8, StoresId

LEMMA StoreKeeps ==
    ASSUME ExportInv, SyncInv, NEW w \in QbWorkers,
           \/ StoreQb(w) \/ StoreTax(w)
           \/ StoreEmployee(w) \/ StoreDepartment(w) \/ StoreTerm(w)
           \/ StoreAccount(w) \/ StoreAgency(w) \/ StoreMethod(w)
    PROVE  SyncInv'
  <1>1. ASSUME NEW k \in QbKinds \ {"agency"}, StoreOnly(w, k) PROVE SyncInv'
    BY <1>1, StoreOnlyKeeps DEF StoreOnly, CommitAndEnd
  <1>2. CASE StoreQb(w)
    <2>1. PICK k \in QbKinds \ {"agency"} : StoreOnly(w, k)
      BY <1>2 DEF StoreQb
    <2> QED
      BY <1>1, <2>1
  <1>3. CASE StoreEmployee(w) \/ StoreDepartment(w) \/ StoreTerm(w)
    <2>1. PICK k \in QbKinds \ {"agency"} : StoreOnly(w, k)
      BY <1>3 DEF StoreEmployee, StoreDepartment, StoreTerm, QbKinds
    <2> QED
      BY <1>1, <2>1
  <1>4. CASE StoreTax(w)
    <2>1. /\ qbc[w] = "posted" /\ docKind = "tax" /\ SameId(w)
          /\ \/ EndWith(w, Stored(w), FALSE)
             \/ EndWith(w, [Stored(w) EXCEPT !.cursor["tax"] = item[w].id], TRUE)
      BY <1>4 DEF StoreTax
    <2>2. CASE EndWith(w, Stored(w), FALSE)
      BY <2>1, <2>2, StoreOnlyKeeps
    <2>3. CASE EndWith(w, [Stored(w) EXCEPT !.cursor["tax"] = item[w].id], TRUE)
      BY <2>1, <2>3, StoreMoveKeeps
    <2> QED
      BY <2>1, <2>2, <2>3
  <1>5. CASE StoreAccount(w) \/ StoreAgency(w) \/ StoreMethod(w)
    <2>1. PICK k, c : /\ StoreAndMove(w, k, c)
                      /\ \/ k = "account" /\ c = "account"
                         \/ k = "agency" /\ c = "agency"
                         \/ k = "method" /\ c = "agency"
      BY <1>5 DEF StoreAccount, StoreAgency, StoreMethod
    <2>2. /\ qbc[w] = "posted" /\ docKind = k /\ SameId(w) /\ ~ stale[w]
          /\ EndWith(w, [Stored(w) EXCEPT !.cursor[c] = item[w].id], TRUE)
      BY <2>1 DEF StoreAndMove, CommitAndEnd, MayCommit
    <2> QED
      BY <2>1, <2>2, StoreMoveKeeps
  <1> QED
    BY <1>2, <1>3, <1>4, <1>5

-----------------------------------------------------------------------------
(* QuickBooks: every step.                                                 *)

LEMMA ImportKeeps ==
    ASSUME ExportInv, SyncInv, NEW w \in QbWorkers,
           \/ ImportPartners(w) \/ ImportAccounts(w) \/ ImportDepartments(w)
           \/ ImportEmployees(w) \/ ImportAgencies(w) \/ ImportMethods(w)
           \/ ImportPurchases(w) \/ ImportTerms(w) \/ ImportRefunds(w)
           \/ ImportProduct(w) \/ ImportTax(w) \/ ImportCategory(w) \/ EndItems(w)
           \/ ImportInventory(w) \/ ImportJournal(w)
           \/ OrderHeader(w) \/ OrderLine(w) \/ OrderAgain(w) \/ EndSteps(w)
           \/ ImportPayments(w) \/ ImportInvoices(w)
    PROVE  SyncInv'
  <1>1. CASE ImportPartners(w) \/ ImportAccounts(w) \/ ImportDepartments(w)
    BY <1>1, UpsertKeeps, AccountsKeep DEF ImportPartners, ImportDepartments
  <1>2. CASE ImportPurchases(w) \/ ImportTerms(w) \/ ImportRefunds(w)
    BY <1>2, CreatedKeep DEF ImportPurchases, ImportRefunds
  <1>3. CASE ImportEmployees(w) \/ ImportAgencies(w) \/ ImportMethods(w)
    BY <1>3, EmployeesKeep, AgenciesKeep, MethodsKeep
  <1>4. CASE ImportProduct(w) \/ ImportTax(w)
    BY <1>4, ProductKeeps, TaxKeeps
  <1>5. CASE ImportCategory(w) \/ ImportJournal(w) \/ EndItems(w) \/ EndSteps(w)
    BY <1>5, CategoryKeeps, JournalKeeps, EndItemsKeeps, EndStepsKeeps
  <1>6. CASE OrderHeader(w) \/ OrderLine(w) \/ OrderAgain(w)
    BY <1>6, HeaderKeeps, LineKeeps, AgainKeeps
  <1>7. CASE ImportInventory(w) \/ ImportPayments(w) \/ ImportInvoices(w)
    BY <1>7, InventoryKeeps, PaymentsKeep, InvoicesKeep
  <1> QED
    BY <1>1, <1>2, <1>3, <1>4, <1>5, <1>6, <1>7

LEMMA SyncStands ==
    ASSUME ExportInv, SyncInv, UNCHANGED qbvars
    PROVE  SyncInv'
  <1>1. /\ UNCHANGED <<world, docKind, remote, qdb, raced, broken>>
        /\ UNCHANGED <<qbc, qtodo, line, pend, qsnap, stale, item>>
    BY DEF qbvars
  <1>2. Made' = Made /\ Sequel(remote, remote') /\ raced \subseteq raced' /\ broken \subseteq broken'
    BY <1>1, SameWorld, SameRemote
  <1>3. ObjectsOK'
    BY <1>1, <1>2 DEF SyncInv, ObjectsOK, Kind
  <1>4. CommittedOK' /\ NoGaps' /\ InOrder' /\ Ahead' /\ Once' /\ QbWholeOrders'
    <2>1. \A x \in QbWorkers : line[x] > 0 => line'[x] > 0 /\ qtodo'[x] = qtodo[x]
      BY <1>1
    <2> QED
      BY <1>1, <1>2, <1>3, <2>1, WorldKeeps
  <1>5. \A x \in QbWorkers : JobOK(x)'
    BY <1>1, <1>2, <1>3, WorldKeepsJob
  <1>6. SyncTyped' /\ \A x, y \in QbWorkers : x # y => Apart(x, y)'
    BY <1>1 DEF SyncInv, SyncTyped, Apart, Ids
  <1> QED
    BY <1>3, <1>4, <1>5, <1>6 DEF SyncInv

LEMMA SyncNext == ExportInv /\ SyncInv /\ [QbNext]_qbvars => SyncInv'
  <1> SUFFICES ASSUME ExportInv, SyncInv, [QbNext]_qbvars PROVE SyncInv'
    OBVIOUS
  <1>1. CASE UNCHANGED qbvars
    BY <1>1, SyncStands
  <1>2. ASSUME NEW k \in QbKinds, MakeQb(k) PROVE SyncInv'
    BY <1>2, MakeKeeps
  <1>3. ASSUME NEW w \in QbWorkers, NEW k \in QbKinds, QbBegin(w, k) PROVE SyncInv'
    BY <1>3, QbBeginKeeps
  <1>4. ASSUME NEW w \in QbWorkers, NEW d \in Docs, ExportQb(w, d) \/ UpdateAccount(w, d)
        PROVE  SyncInv'
    BY <1>4, ExportKeeps, UpdateKeeps
  <1>5. ASSUME NEW w \in QbWorkers, PostQb(w) \/ QbLose(w) PROVE SyncInv'
    BY <1>5, PostKeeps, LoseKeeps
  <1> QED
    BY <1>1, <1>2, <1>3, <1>4, <1>5, ImportKeeps, StoreKeeps DEF QbNext

LEMMA SyncInit == QbInit => SyncInv
  <1> SUFFICES ASSUME QbInit PROVE SyncInv
    OBVIOUS
  <1>1. /\ remote = <<>> /\ qdb = EmptyRows /\ raced = {} /\ broken = {}
        /\ \A w \in QbWorkers : /\ qbc[w] = "idle" /\ qtodo[w] = {} /\ line[w] = 0
                                /\ pend[w] = NoWrites /\ qsnap[w] = EmptyRows
                                /\ item[w] = NoItem
    BY DEF QbInit
  <1>2. Made = {} /\ Len(remote) = 0 /\ Regular = {} /\ 0 \in Nat /\ N \in Nat
    <2>1. Len(remote) = 0
      BY <1>1
    <2>2. Made = {}
      BY <2>1 DEF Made
    <2> QED
      BY <2>1, <2>2, QbAssumption DEF Regular
  <1>3. /\ qdb.copies = [i \in Ids |-> 0] /\ qdb.lines = [i \in Ids |-> {}] /\ qdb.drafts = {}
        /\ qdb.cursor = [k \in world |-> 0] /\ qdb.id = [d \in Docs |-> 0]
    BY <1>1 DEF EmptyRows
  <1>4. SyncTyped
    <2>1. pend \in [QbWorkers -> [cursor : Nat, met : SUBSET Ids, made : SUBSET Ids]]
      BY <1>2 DEF QbInit, NoWrites
    <2>2. qtodo \in [QbWorkers -> SUBSET Ids] /\ stale \in [QbWorkers -> BOOLEAN]
      BY DEF QbInit
    <2> QED
      BY <1>2, <1>3, <2>1, <2>2 DEF SyncTyped
  <1>5. ObjectsOK
    BY <1>2, QbAssumption DEF ObjectsOK
  <1>6. CommittedOK /\ NoGaps /\ InOrder /\ Ahead /\ Once /\ QbWholeOrders
    BY <1>2, <1>3 DEF CommittedOK, NoGaps, InOrder, Ahead, Once, QbWholeOrders
  <1>7. ASSUME NEW w \in QbWorkers PROVE JobOK(w)
    <2>1. "idle" \notin QbKinds /\ qbc[w] = "idle" /\ "idle" \notin Stepwise
      BY <1>1 DEF QbKinds, Stepwise
    <2>2. SnapshotOK(w)
      BY <1>1, <1>2 DEF SnapshotOK, EmptyRows
    <2>3. WritesOK(w)
      BY <1>1, <1>2, <2>1 DEF WritesOK, NoWrites, NoItem
    <2>4. LineOK(w)
      BY <1>1 DEF LineOK
    <2> QED
      BY <1>1, <2>1, <2>2, <2>3, <2>4 DEF JobOK
  <1>8. \A w, x \in QbWorkers : w # x => Apart(w, x)
    BY <1>1 DEF Apart
  <1> QED
    BY <1>4, <1>5, <1>6, <1>7, <1>8 DEF SyncInv

LEMMA SyncImports == ExportInv /\ SyncInv => QbImported
  <1> SUFFICES ASSUME ExportInv, SyncInv PROVE QbImported
    OBVIOUS
  <1>1. QbOnce
    BY DEF SyncInv, Once, Excused, QbOnce
  <1>2. QbNoGap
    <2> SUFFICES ASSUME NEW i \in Made, i <= qdb.cursor[Kind(i)], ~ remote[i].odd, ~ Shared(i),
                        ~ Jumping(Kind(i))
                 PROVE  qdb.copies[i] > 0
      BY DEF QbNoGap
    <2>1. i \in Regular
      BY DEF Regular
    <2> QED
      BY <2>1 DEF SyncInv, NoGaps
  <1>3. QbWholeOrders /\ QbStayPosted
    BY DEF SyncInv, CommittedOK, QbStayPosted
  <1> QED
    BY <1>1, <1>2, <1>3 DEF QbImported

(* What QuickBooks has and Odoo imports is imported exactly once: however  *)
(* the imports, the exports and their transactions overlap, fail or are    *)
(* interrupted, no object has two records but where QbExcused says so,     *)
(* none that a cursor has passed is missing unless that cursor jumps or    *)
(* another record has its number or Sku, an order has its lines unless its *)
(* import was broken, and no invoice of QuickBooks is put back to draft.   *)
THEOREM ImportedOnce == QbSpec => []QbImported
  BY ExportInit, ExportNext, SyncInit, SyncNext, SyncImports, PTL DEF QbSpec
=============================================================================
