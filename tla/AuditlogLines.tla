---------------------------- MODULE AuditlogLines ----------------------------
(***************************************************************************)
(* What the logs tell of an audited record (auditlog/models/rule.py): the  *)
(* methods that replace create, write and unlink, and the lines they log.  *)
(* A full log compares what the record holds before and after, a fast log  *)
(* takes what the caller wrote and reads nothing.                          *)
(*                                                                         *)
(* Two transactions that write the record conflict, so an operation and    *)
(* its log are one step.  The patch may be full at one time and fast at    *)
(* another.  Users who are excluded log nothing and are left out.          *)
(*                                                                         *)
(* Bounds: one record, the stored fields UserFields and Derived, which is  *)
(* computed from them, values up to MaxValue, MaxTrail logs.               *)
(***************************************************************************)
EXTENDS Naturals, Sequences, FiniteSetsExt, Functions

CONSTANTS
    UserFields,     \* the stored fields that callers write
    Excluded,       \* fields_to_exclude_ids and FIELDS_BLACKLIST
    MaxValue,
    MaxTrail

ASSUME LinesAssumption == "derived" \notin UserFields

VARIABLES
    record,     \* the values of the record, NoValues when there is none
    trail,      \* its logs: [method, lines]
    capture,    \* capture_record of the rule
    gone,       \* observation: what the record held when it was deleted last
    fast,       \* observation: somebody changed it under a fast log
    cleared     \* observation: fields emptied by a write under a fast log

linesvars == <<record, trail, capture, gone, fast, cleared>>

Derived == "derived"
StoredFields == UserFields \cup {Derived}     \* get_auditlog_fields
Blank   == 0                            \* False, 0 and the empty text are equal

(* Dictionaries are functions; EMPTY_DICT has no key.                      *)
NoValues == [f \in {} |-> Blank]
Vals     == UNION {[S -> 0..MaxValue] : S \in SUBSET UserFields}

(* The record that holds these values; Derived is recomputed.              *)
Computed(vals) ==
    [f \in StoredFields |-> IF f = Derived
                      THEN MapThenSumSet(LAMBDA g : vals[g], UserFields) ELSE vals[f]]
Created(vals) ==
    Computed([f \in UserFields |-> IF f \in DOMAIN vals THEN vals[f] ELSE Blank])
Updated(vals) ==
    Computed([f \in UserFields |-> IF f \in DOMAIN vals THEN vals[f] ELSE record[f]])

(* DictDiffer                                                              *)
AddedFields(new, old)   == DOMAIN new \ DOMAIN old
ChangedFields(new, old) ==
    {f \in DOMAIN new \cap DOMAIN old : old[f] # new[f]}

(* A log has a line for each of the fields that is not excluded.           *)
Lines(fields, values) == Restrict(values, fields \ Excluded)

LogOf(method, lines) == [method |-> method, lines |-> lines]

(* create_full and create_fast                                             *)
CreateLog(log_type, vals) ==
    LET new == IF log_type = "full" THEN Created(vals) ELSE vals
    IN  LogOf("create", Lines(AddedFields(new, NoValues), new))

(* Mutant of WriteLog: the values are read before the write.               *)
EarlyWriteLog(log_type, vals) ==
    LET new == IF log_type = "full" THEN record ELSE vals
        old == IF log_type = "full" THEN record ELSE [f \in DOMAIN vals |-> Blank]
    IN  LogOf("write", Lines(ChangedFields(new, old), new))

(* write_full and write_fast: the latter compares with False.              *)
WriteLog(log_type, vals) ==
    LET new == IF log_type = "full" THEN Updated(vals) ELSE vals
        old == IF log_type = "full" THEN record ELSE [f \in DOMAIN vals |-> Blank]
    IN  LogOf("write", Lines(ChangedFields(new, old), new))

(* unlink_full and unlink_fast: the record as it was, if it is captured.   *)
UnlinkLog(log_type) ==
    LET old == IF log_type = "full" THEN record ELSE NoValues
    IN  LogOf("unlink", IF capture THEN Lines(DOMAIN old, old) ELSE NoValues)

LinesInit ==
    /\ record = NoValues /\ gone = NoValues /\ trail = <<>>
    /\ capture \in BOOLEAN
    /\ fast = FALSE /\ cleared = {}

Logged(log_type, log) ==
    /\ Len(trail) < MaxTrail
    /\ trail' = Append(trail, log)
    /\ fast' = (fast \/ log_type = "fast")

CreateRecord(log_type, vals) ==
    /\ record = NoValues /\ trail = <<>>
    /\ record' = Created(vals)
    /\ Logged(log_type, CreateLog(log_type, vals))
    /\ UNCHANGED <<capture, gone, cleared>>

WriteRecord(log_type, vals) ==
    /\ record # NoValues
    /\ record' = Updated(vals)
    /\ LET emptied == {f \in DOMAIN vals : vals[f] = Blank}
       IN  cleared' = (cleared \ (DOMAIN vals \ emptied)) \cup
                      (IF log_type = "fast" THEN emptied ELSE {})
    /\ Logged(log_type, WriteLog(log_type, vals))
    /\ UNCHANGED <<capture, gone>>

UnlinkRecord(log_type) ==
    /\ record # NoValues
    /\ record' = NoValues /\ gone' = record
    /\ Logged(log_type, UnlinkLog(log_type))
    /\ UNCHANGED <<capture, cleared>>

LinesNext == \E log_type \in {"full", "fast"} :
    \/ \E vals \in Vals : CreateRecord(log_type, vals) \/ WriteRecord(log_type, vals)
    \/ UnlinkRecord(log_type)

LinesSpec == LinesInit /\ [][LinesNext]_linesvars

-----------------------------------------------------------------------------
(* What a reader of the logs takes the record for.                         *)
Read(values, log) ==
    IF log.method = "unlink" THEN NoValues
    ELSE [f \in DOMAIN log.lines \cup DOMAIN values |->
             IF f \in DOMAIN log.lines THEN log.lines[f] ELSE values[f]]

Replay ==
    LET after[i \in 0..Len(trail)] ==
            IF i = 0 THEN NoValues ELSE Read(after[i - 1], trail[i])
    IN  after[Len(trail)]

ValueIn(values, f) == IF f \in DOMAIN values THEN values[f] ELSE Blank

(* Whoever reads the logs in their order knows the record: every field     *)
(* that is not excluded under full logs, the fields that users write under *)
(* fast ones, except those a write emptied; and what a deleted record held *)
(* if the rule captures it.                                                *)
AuditReplay ==
    /\ \A f \in (IF fast THEN UserFields ELSE StoredFields) \ (Excluded \cup cleared) :
          ValueIn(Replay, f) = ValueIn(record, f)
    /\ trail # <<>> /\ record = NoValues /\ capture /\ ~fast =>
          trail[Len(trail)].lines = Restrict(gone, StoredFields \ Excluded)

=============================================================================
