------------------------------ MODULE Fixture ------------------------------
(***************************************************************************)
(* The trusted fixture of the assurance harness                            *)
(* (assurance/phase2/fixture/store.py): one SQLite database shared by an   *)
(* application service, which performs authenticated writes, and a control *)
(* service, which drives the life cycle of an attempt and its audit.       *)
(*                                                                         *)
(* Every operation of the store is one BEGIN IMMEDIATE transaction, so it  *)
(* is one action here: the write lock serialises transactions, an          *)
(* exception rolls the whole transaction back, and a crash of a service    *)
(* before its commit leaves no trace.  Either service may restart at any   *)
(* time and then runs bootstrap on the shared database.  An operation      *)
(* whose guard fails raises, rolls back, and changes nothing.              *)
(***************************************************************************)
EXTENDS Naturals, Integers, FiniteSets

CONSTANTS
  Attempts,     \* attempt identifiers the control plane may create
  Requests,     \* request identifiers a client may use
  Records,      \* business records
  NoAttempt,    \* fixture_meta.active_attempt_id is NULL
  NoRequest,    \* the zero hash: no preceding audit event
  NoWriter      \* a record nobody has written

ASSUME AttemptsAssumption == NoAttempt \notin Attempts
ASSUME RequestsAssumption == IsFiniteSet(Requests) /\ NoRequest \notin Requests
ASSUME WritersAssumption  == NoWriter \notin [attempt : Attempts, request : Requests]

VARIABLES
  active,       \* fixture_meta.active_attempt_id
  state,        \* attempts.state, "NONE" before the row exists
  watermark,    \* attempts.audit_watermark
  final,        \* attempts.audit_complete, final_watermark, final_request_count
  cursor,       \* observer_cursors.cursor_seq
  requests,     \* requests.state by attempt and request, "NONE" without a row
  audit,        \* audit_events by attempt: sequence number -> event
  records,      \* records.updated_by_attempt / updated_by_request
  told,         \* the last outcome a client was told, by attempt and request
  evidence      \* what the last final_snapshot of an attempt returned

vars == <<active, state, watermark, final, cursor, requests, audit, records,
          told, evidence>>

-----------------------------------------------------------------------------
LiveStates    == {"PREPARED", "OPEN", "FENCED", "RECOVERY_REQUIRED"}
AttemptStates == LiveStates \cup {"NONE", "FINALIZED", "ABORTED"}
TerminalRequest == {"COMMITTED", "REJECTED", "ROLLED_BACK", "FAILED"}
RequestStates == TerminalRequest \cup {"NONE", "ADMITTED"}
Outcomes == {"NONE", "COMMITTED", "REJECTED", "RAISED"}
NULL == -1
NoFinal == [complete |-> FALSE, watermark |-> NULL, requests |-> NULL]
NoEvidence == [requests |-> [q \in Requests |-> "NONE"], audit |-> [s \in {} |-> NoRequest]]

\* The rows of the requests table that belong to an attempt.
Rows(reqs) == {q \in Requests : reqs[q] # "NONE"}

\* An audit event names its request and record; prev stands for the hash of
\* the event before it, which identifies that event.
Prev(a, seq) ==
  IF seq - 1 \in DOMAIN audit[a] THEN audit[a][seq - 1].request ELSE NoRequest

\* _validate_ledger: as many rows as the watermark, no gap, an unbroken chain.
LedgerValid(a) ==
  /\ DOMAIN audit[a] = 1 .. watermark[a]
  /\ \A s \in DOMAIN audit[a] : audit[a][s].prev = Prev(a, s)

RequireActiveState(a, expected) == active = a /\ state[a] = expected

Drained(a) == \A q \in Requests : requests[a][q] \in TerminalRequest \cup {"NONE"}

-----------------------------------------------------------------------------
Init ==
  /\ active    = NoAttempt
  /\ state     = [a \in Attempts |-> "NONE"]
  /\ watermark = [a \in Attempts |-> 0]
  /\ final     = [a \in Attempts |-> NoFinal]
  /\ cursor    = [a \in Attempts |-> 0]
  /\ requests  = [a \in Attempts |-> [q \in Requests |-> "NONE"]]
  /\ audit     = [a \in Attempts |-> NoEvidence.audit]
  /\ records   = [k \in Records |-> NoWriter]
  /\ told      = [a \in Attempts |-> [q \in Requests |-> "NONE"]]
  /\ evidence  = [a \in Attempts |-> NoEvidence]

(***************************************************************************)
(* The control plane.                                                      *)
(***************************************************************************)
\* Mutant: the active attempt is not looked at.
CreateAttemptUnchecked(a) ==
  /\ state[a] = "NONE"
  /\ state'  = [state EXCEPT ![a] = "PREPARED"]
  /\ active' = a
  /\ cursor' = [cursor EXCEPT ![a] = 0]
  /\ UNCHANGED <<watermark, final, requests, audit, records, told, evidence>>

CreateAttempt(a) ==
  /\ active = NoAttempt
  /\ state[a] = "NONE"
  /\ state'  = [state EXCEPT ![a] = "PREPARED"]
  /\ active' = a
  /\ cursor' = [cursor EXCEPT ![a] = 0]
  /\ UNCHANGED <<watermark, final, requests, audit, records, told, evidence>>

OpenAttempt(a) ==
  /\ RequireActiveState(a, "PREPARED")
  /\ state' = [state EXCEPT ![a] = "OPEN"]
  /\ UNCHANGED <<active, watermark, final, cursor, requests, audit, records, told, evidence>>

CloseAttempt(a) ==
  /\ RequireActiveState(a, "OPEN")
  /\ state' = [state EXCEPT ![a] = "FENCED"]
  /\ UNCHANGED <<active, watermark, final, cursor, requests, audit, records, told, evidence>>

FinalSnapshot(a) ==
  /\ RequireActiveState(a, "FENCED")
  /\ Drained(a)
  /\ LedgerValid(a)
  /\ final' = [final EXCEPT ![a] = [complete  |-> TRUE,
                                    watermark |-> watermark[a],
                                    requests  |-> Cardinality(Rows(requests[a]))]]
  /\ evidence' = [evidence EXCEPT ![a] = [requests |-> requests[a], audit |-> audit[a]]]
  /\ UNCHANGED <<active, state, watermark, cursor, requests, audit, records, told>>

\* Mutant: the requests are not counted again.
FinalizeAttemptUncounted(a) ==
  /\ RequireActiveState(a, "FENCED")
  /\ final[a].complete
  /\ Drained(a)
  /\ final[a].watermark = watermark[a]
  /\ LedgerValid(a)
  /\ state'  = [state EXCEPT ![a] = "FINALIZED"]
  /\ active' = NoAttempt
  /\ UNCHANGED <<watermark, final, cursor, requests, audit, records, told, evidence>>

\* Mutant: fixture_meta keeps naming the finalized attempt.
FinalizeAttemptActive(a) ==
  /\ RequireActiveState(a, "FENCED")
  /\ final[a].complete
  /\ Drained(a)
  /\ final[a].requests = Cardinality(Rows(requests[a]))
  /\ final[a].watermark = watermark[a]
  /\ LedgerValid(a)
  /\ state'  = [state EXCEPT ![a] = "FINALIZED"]
  /\ UNCHANGED <<active, watermark, final, cursor, requests, audit, records, told, evidence>>

FinalizeAttempt(a) ==
  /\ RequireActiveState(a, "FENCED")
  /\ final[a].complete
  /\ Drained(a)
  /\ final[a].requests = Cardinality(Rows(requests[a]))
  /\ final[a].watermark = watermark[a]
  /\ LedgerValid(a)
  /\ state'  = [state EXCEPT ![a] = "FINALIZED"]
  /\ active' = NoAttempt
  /\ UNCHANGED <<watermark, final, cursor, requests, audit, records, told, evidence>>

AbortRecovery(a) ==
  /\ RequireActiveState(a, "RECOVERY_REQUIRED")
  /\ requests' = [requests EXCEPT ![a] =
                    [q \in Requests |-> IF @[q] = "ADMITTED" THEN "FAILED" ELSE @[q]]]
  /\ state'  = [state EXCEPT ![a] = "ABORTED"]
  /\ final'  = [final EXCEPT ![a] = NoFinal]
  /\ active' = NoAttempt
  /\ UNCHANGED <<watermark, cursor, audit, records, told, evidence>>

ResetObserverCursor ==
  /\ active # NoAttempt
  /\ cursor' = [cursor EXCEPT ![active] = watermark[active]]
  /\ UNCHANGED <<active, state, watermark, final, requests, audit, records, told, evidence>>

(***************************************************************************)
(* business_write.  The credential of attempt a is accepted only while a   *)
(* is the active attempt; a request identifier is used once per attempt.   *)
(* The reply may be lost after the commit, and the client may send the     *)
(* same request again.                                                     *)
(***************************************************************************)
Admissible(a, q) == active = a /\ requests[a][q] = "NONE"

Reply(a, q, outcome) ==
  told' \in {told, [told EXCEPT ![a][q] = outcome]}

\* Mutant: the rejection is answered but not recorded.
RejectWriteUnrecorded(a, q) ==
  /\ Admissible(a, q)
  /\ state[a] # "OPEN"
  /\ Reply(a, q, "REJECTED")
  /\ UNCHANGED <<active, state, watermark, final, cursor, requests, audit, records, evidence>>

RejectWrite(a, q) ==
  /\ Admissible(a, q)
  /\ state[a] # "OPEN"
  /\ requests' = [requests EXCEPT ![a][q] = "REJECTED"]
  /\ Reply(a, q, "REJECTED")
  /\ UNCHANGED <<active, state, watermark, final, cursor, audit, records, evidence>>

\* Mutant: the event is inserted but the attempt's watermark stays behind.
AppendAuditEventBehind(a, q, k) ==
  LET seq == watermark[a] + 1
  IN  /\ audit' = [audit EXCEPT ![a] =
                     [s \in DOMAIN audit[a] \cup {seq} |->
                        IF s = seq
                          THEN [request |-> q, record |-> k, prev |-> Prev(a, seq)]
                          ELSE audit[a][s]]]
      /\ UNCHANGED watermark

\* _append_audit_event: the next sequence number, chained to the event before.
AppendAuditEvent(a, q, k) ==
  LET seq == watermark[a] + 1
  IN  /\ audit' = [audit EXCEPT ![a] =
                     [s \in DOMAIN audit[a] \cup {seq} |->
                        IF s = seq
                          THEN [request |-> q, record |-> k, prev |-> Prev(a, seq)]
                          ELSE audit[a][s]]]
      /\ watermark' = [watermark EXCEPT ![a] = seq]

CommitWrite(a, q, k) ==
  /\ Admissible(a, q)
  /\ state[a] = "OPEN"
  /\ AppendAuditEvent(a, q, k)
  /\ records'  = [records EXCEPT ![k] = [attempt |-> a, request |-> q]]
  /\ requests' = [requests EXCEPT ![a][q] = "COMMITTED"]
  /\ Reply(a, q, "COMMITTED")
  /\ UNCHANGED <<active, state, final, cursor, evidence>>

\* Mutant: a failure after the record was updated is not rolled back.
RaiseWriteHalfDone(a, q) ==
  /\ active = a
  /\ requests[a][q] # "NONE" \/ state[a] = "OPEN"
  /\ Reply(a, q, "RAISED")
  /\ \E k \in Records : records' = [records EXCEPT ![k] = [attempt |-> a, request |-> q]]
  /\ UNCHANGED <<active, state, watermark, final, cursor, requests, audit, evidence>>

\* The request identifier is taken, or the audit insert fails or the process
\* dies after the record was updated: the transaction is rolled back.
RaiseWrite(a, q) ==
  /\ active = a
  /\ requests[a][q] # "NONE" \/ state[a] = "OPEN"
  /\ Reply(a, q, "RAISED")
  /\ UNCHANGED <<active, state, watermark, final, cursor, requests, audit, records, evidence>>

BusinessWrite(a, q) ==
  \/ RejectWrite(a, q)
  \/ \E k \in Records : CommitWrite(a, q, k)
  \/ RaiseWrite(a, q)

(***************************************************************************)
(* bootstrap, run by whichever service restarts: an attempt that was in    *)
(* progress can no longer be trusted to be complete.                       *)
(***************************************************************************)
Interrupted == active # NoAttempt /\ state[active] \in {"PREPARED", "OPEN", "FENCED"}
Finished    == active # NoAttempt /\ state[active] \in {"FINALIZED", "ABORTED"}

Bootstrap ==
  /\ state'  = IF Interrupted THEN [state EXCEPT ![active] = "RECOVERY_REQUIRED"] ELSE state
  /\ final'  = IF Interrupted THEN [final EXCEPT ![active] = NoFinal] ELSE final
  /\ active' = IF Finished THEN NoAttempt ELSE active
  /\ UNCHANGED <<watermark, cursor, requests, audit, records, told, evidence>>

-----------------------------------------------------------------------------
Next ==
  \/ \E a \in Attempts :
       \/ CreateAttempt(a)
       \/ OpenAttempt(a)
       \/ CloseAttempt(a)
       \/ FinalSnapshot(a)
       \/ FinalizeAttempt(a)
       \/ AbortRecovery(a)
       \/ \E q \in Requests : BusinessWrite(a, q)
  \/ ResetObserverCursor
  \/ Bootstrap

Spec == Init /\ [][Next]_vars

-----------------------------------------------------------------------------
Event == [request : Requests, record : Records, prev : Requests \cup {NoRequest}]

\* Every table holds values its schema allows.
TypeOK ==
  /\ active \in Attempts \cup {NoAttempt}
  /\ state \in [Attempts -> AttemptStates]
  /\ watermark \in [Attempts -> Nat]
  /\ final \in [Attempts -> [complete : BOOLEAN, watermark : Nat \cup {NULL},
                             requests : Nat \cup {NULL}]]
  /\ cursor \in [Attempts -> Nat]
  /\ requests \in [Attempts -> [Requests -> RequestStates]]
  /\ DOMAIN audit = Attempts
  /\ \A a \in Attempts : audit[a] \in [1 .. watermark[a] -> Event]
  /\ records \in [Records -> [attempt : Attempts, request : Requests] \cup {NoWriter}]
  /\ told \in [Attempts -> [Requests -> Outcomes]]
  /\ DOMAIN evidence = Attempts

\* fixture_meta names an attempt exactly while that attempt is in progress or
\* needs recovery, so two attempts are never in progress at once.
ActiveIsLive == \A a \in Attempts : state[a] \in LiveStates <=> active = a

\* A request is recorded as committed exactly when one audit event shows it:
\* no write goes unaudited and no retry is applied twice.
CommittedOnce(a) ==
  /\ \A q \in Requests :
       requests[a][q] = "COMMITTED" <=> \E s \in DOMAIN audit[a] : audit[a][s].request = q
  /\ \A s, t \in DOMAIN audit[a] : audit[a][s].request = audit[a][t].request => s = t
CommitsAreAudited == \A a \in Attempts : CommittedOnce(a)

\* The ledger of every attempt, complete or not, would pass _validate_ledger.
LedgersAreValid == \A a \in Attempts : LedgerValid(a)

\* A record was last written by a committed request, and the last audit event
\* of that attempt about the record is that request's: a rolled back or
\* rejected write leaves no trace in the records.
RecordsAreAudited ==
  \A k \in Records : records[k] # NoWriter =>
    LET a == records[k].attempt
        about == {s \in DOMAIN audit[a] : audit[a][s].record = k}
    IN  \E s \in about : /\ audit[a][s].request = records[k].request
                         /\ \A t \in about : t <= s

\* The audit tells the truth: its chain is whole, and it shows every committed
\* request once and the last writer of every record.
AuditIsTrue == LedgersAreValid /\ CommitsAreAudited /\ RecordsAreAudited

\* What a client was told stays true: an acknowledged write is committed, and
\* a write reported as rejected never takes effect, however often it is sent.
RepliesHold ==
  \A a \in Attempts, q \in Requests :
    /\ told[a][q] = "COMMITTED" => requests[a][q] = "COMMITTED"
    /\ told[a][q] = "REJECTED" => requests[a][q] = "REJECTED"

\* A final snapshot still describes the whole audit ledger, and an attempt is
\* finalized only if the requests it listed are all there are: the exported
\* evidence of a finalized attempt omits nothing.
EvidenceIsWhole ==
  \A a \in Attempts :
    /\ final[a].complete => /\ state[a] \in {"FENCED", "FINALIZED"}
                            /\ evidence[a].audit = audit[a]
    /\ state[a] = "FINALIZED" =>
         /\ final[a].complete
         /\ evidence[a] = [requests |-> requests[a], audit |-> audit[a]]

\* After the fence nothing is written: the audit ledger and the records an
\* attempt left are final once it is fenced, interrupted, aborted or finalized,
\* and no path leads back to an attempt that accepts writes.
FenceHolds ==
  [][\A a \in Attempts :
       state[a] \in {"FENCED", "RECOVERY_REQUIRED", "FINALIZED", "ABORTED"} =>
         /\ audit'[a] = audit[a] /\ watermark'[a] = watermark[a]
         /\ state'[a] \notin {"NONE", "PREPARED", "OPEN"}
         /\ \A k \in Records : records'[k] # records[k] => records'[k].attempt # a]_vars

\* An attempt that a restart interrupted never becomes trusted evidence, and a
\* finished attempt never changes again, whatever requests still arrive.
InterruptionIsFinal ==
  [][\A a \in Attempts :
       /\ state[a] = "RECOVERY_REQUIRED" => state'[a] \in {"RECOVERY_REQUIRED", "ABORTED"}
       /\ state[a] \in {"ABORTED", "FINALIZED"} =>
            /\ state'[a] = state[a] /\ requests'[a] = requests[a]
            /\ final'[a] = final[a] /\ evidence'[a] = evidence[a]]_vars
=============================================================================
