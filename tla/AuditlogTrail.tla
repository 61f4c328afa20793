---------------------------- MODULE AuditlogTrail ----------------------------
(***************************************************************************)
(* The trail of audited operations (auditlog/models/http_request.py,       *)
(* http_session.py, autovacuum.py, and create_logs of rule.py).  A log     *)
(* names the row of its HTTP request and the row of the browser's session, *)
(* both created by the first operation that needs them.                    *)
(*                                                                         *)
(* The HTTP request remembers the id of its row in memory, across the      *)
(* commits in its middle and across the attempts that Odoo makes after a   *)
(* serialization failure, though a rollback takes the row away.  The       *)
(* vacuum deletes the oldest rows of each table up to a limit of its own;  *)
(* the foreign keys of what refers to them become null.                    *)
(*                                                                         *)
(* Bounds: one browser session, MaxRows ids per table, MaxLogs logs of a   *)
(* request; a request ends when its id is used no more.                    *)
(***************************************************************************)
EXTENDS Naturals, FiniteSets

CONSTANTS
    HttpRequests,
    MaxRows,
    MaxLogs

VARIABLES
    sessions,   \* committed rows of auditlog.http.session: their ids
    requests,   \* committed rows of auditlog.http.request: [id, session]
    logs,       \* committed logs, [by, request, session], 0 for null
    serial,     \* the last ids drawn: [session, request]
    attempt,    \* per HTTP request: its transaction, or NoAttempt
    remembered, \* per HTTP request: auditlog_http_request_id, 0 for none
    together    \* observation: two attempts ran while there was no session

trailvars == <<sessions, requests, logs, serial, attempt, remembered, together>>

NoAttempt == [running |-> FALSE, sees |-> {}, seesRequests |-> {},
              newSessions |-> {}, newRequests |-> {}, newLogs |-> {}]

(* What a transaction reads: its snapshot and its own rows.                *)
SessionsOf(h) == attempt[h].sees \cup attempt[h].newSessions
RequestsOf(h) == attempt[h].seesRequests \cup attempt[h].newRequests
Running       == {h \in HttpRequests : attempt[h].running}

TrailInit ==
    /\ sessions = {} /\ requests = {} /\ logs = {}
    /\ serial = [session |-> 0, request |-> 0]
    /\ attempt = [h \in HttpRequests |-> NoAttempt]
    /\ remembered = [h \in HttpRequests |-> 0]
    /\ together = FALSE

Snapshot == [NoAttempt EXCEPT !.running = TRUE, !.sees = sessions, !.seesRequests = requests]

BeginAttempt(h) ==
    /\ ~attempt[h].running
    /\ attempt' = [attempt EXCEPT ![h] = Snapshot]
    /\ together' = (together \/ (Running # {} /\ sessions = {}))
    /\ UNCHANGED <<sessions, requests, logs, serial, remembered>>

(* current_http_session: the rows it may return, and whether it made one.  *)
CurrentSession(h) ==
    IF SessionsOf(h) # {} THEN SessionsOf(h) ELSE {serial.session + 1}

(* Mutant of Known: the remembered id is used without a look.              *)
Trusted(h) == remembered[h] # 0

(* current_http_request: the remembered row, if it exists.                 *)
Known(h) == \E r \in RequestsOf(h) : r.id = remembered[h]

(* create_logs, for one record.  The row of a new request gets the session *)
(* that the log gets.                                                      *)
Log(h) ==
    /\ attempt[h].running
    /\ Cardinality({l \in logs : l.by = h} \cup attempt[h].newLogs) < MaxLogs
    /\ \E s \in CurrentSession(h) :
          LET r == IF Known(h) THEN remembered[h] ELSE serial.request + 1
          IN  /\ s <= MaxRows /\ r <= MaxRows
              /\ attempt' = [attempt EXCEPT
                    ![h].newSessions = @ \cup ({s} \ attempt[h].sees),
                    ![h].newRequests =
                        @ \cup (IF Known(h) THEN {} ELSE {[id |-> r, session |-> s]}),
                    ![h].newLogs = @ \cup {[by |-> h, request |-> r, session |-> s]}]
              /\ remembered' = [remembered EXCEPT ![h] = r]
              /\ serial' = [session |-> IF s > serial.session THEN s ELSE serial.session,
                            request |-> IF Known(h) THEN serial.request ELSE r]
    /\ UNCHANGED <<sessions, requests, logs, together>>

(* A foreign key to a row that the vacuum deleted meanwhile is an error.   *)
Valid(h) ==
    /\ \A l \in attempt[h].newLogs :
          /\ l.session \in sessions \cup attempt[h].newSessions
          /\ \E r \in requests \cup attempt[h].newRequests : r.id = l.request
    /\ \A r \in attempt[h].newRequests : r.session \in sessions \cup attempt[h].newSessions

(* A commit in the middle of a request or at its end; the next transaction *)
(* of the same request begins with BeginAttempt.                           *)
CommitLogs(h) ==
    /\ attempt[h].running /\ Valid(h)
    /\ sessions' = sessions \cup attempt[h].newSessions
    /\ requests' = requests \cup attempt[h].newRequests
    /\ logs' = logs \cup attempt[h].newLogs
    /\ attempt' = [attempt EXCEPT ![h] = NoAttempt]
    /\ UNCHANGED <<serial, remembered, together>>

(* The attempt fails; Odoo may try again, with what is remembered.         *)
AttemptFails(h) ==
    /\ attempt[h].running
    /\ attempt' = [attempt EXCEPT ![h] = NoAttempt]
    /\ UNCHANGED <<sessions, requests, logs, serial, remembered, together>>

(* autovacuum: logs, then requests, then sessions, oldest first.           *)
Vacuum ==
    /\ \E r \in 0..MaxRows, s \in 0..MaxRows, some \in BOOLEAN :
          /\ r > 0 \/ s > 0 \/ some
          /\ LET left == {x \in sessions : x > s}
                 kept == {x \in requests : x.id > r}
             IN  /\ sessions' = left
                 /\ requests' = {[x EXCEPT !.session = IF @ \in left THEN @ ELSE 0] : x \in kept}
                 /\ logs' = IF some THEN {} ELSE
                       {[l EXCEPT !.request = IF \E x \in kept : x.id = @ THEN @ ELSE 0,
                                  !.session = IF @ \in left THEN @ ELSE 0] : l \in logs}
    /\ UNCHANGED <<serial, attempt, remembered, together>>

TrailNext ==
    \/ \E h \in HttpRequests :
          BeginAttempt(h) \/ Log(h) \/ CommitLogs(h) \/ AttemptFails(h)
    \/ Vacuum

TrailSpec == TrailInit /\ [][TrailNext]_trailvars

-----------------------------------------------------------------------------
(* However often an HTTP request is tried, commits and is vacuumed, a log  *)
(* refers to rows its transaction can see, all the logs of a request refer *)
(* to one row, and that row has the session of the logs, unless two        *)
(* requests of a new session ran at a time.                                *)
AuditTrail ==
    \A h \in HttpRequests :
        /\ \A l \in attempt[h].newLogs : \E r \in RequestsOf(h) : r.id = l.request
        /\ \A l, k \in {x \in logs : x.by = h /\ x.request # 0} : l.request = k.request
        /\ \A l \in logs, r \in requests :
              l.request = r.id /\ l.session # 0 /\ r.session # 0 /\ ~together
                 => l.session = r.session

=============================================================================
