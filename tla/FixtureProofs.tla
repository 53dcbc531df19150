--------------------------- MODULE FixtureProofs ---------------------------
(***************************************************************************)
(* Proofs about the fixture store for any sets of attempts, requests and   *)
(* records.  The inductive invariant IInv adds to the checked invariants   *)
(* what a final snapshot recorded: its watermark and its request count are *)
(* those of the evidence it returned, and the rows it listed are still     *)
(* there.  Equal counts then mean equal rows when an attempt is finalized. *)
(* Then come the refinement, that the store is a sealed ledger, and what   *)
(* is built on the store: the reads outside a transaction and an attempt   *)
(* of the approval demo, up to the verdict of the release gate.            *)
(***************************************************************************)
EXTENDS FixtureRefinement, FixtureReaders, AttemptRun, FiniteSetTheorems, SequenceTheorems, TLAPS

-----------------------------------------------------------------------------
(* Rows of a finite requests table can be counted.                          *)
LEMMA RowsFinite ==
  ASSUME NEW reqs
  PROVE  /\ IsFiniteSet(Rows(reqs))
         /\ Cardinality(Rows(reqs)) \in Nat
  BY RequestsAssumption, FS_Subset, FS_CardinalityType DEF Rows

(* The Boolean of a snapshot and its counters have the schema's types.      *)
LEMMA NoFinalType ==
  NoFinal \in [complete : BOOLEAN, watermark : Nat \cup {NULL}, requests : Nat \cup {NULL}]
  BY DEF NoFinal

(* A table indexed by attempt and request keeps its type when a cell is set. *)
LEMMA CellType ==
  ASSUME NEW S, NEW f \in [Attempts -> [Requests -> S]],
         NEW a \in Attempts, NEW q \in Requests, NEW v \in S
  PROVE  /\ [f EXCEPT ![a][q] = v] \in [Attempts -> [Requests -> S]]
         /\ \A b \in Attempts, p \in Requests :
              [f EXCEPT ![a][q] = v][b][p] = IF b = a /\ p = q THEN v ELSE f[b][p]
  OBVIOUS

(* What a client is told has the type of an outcome.                        *)
LEMMA ReplyType ==
  ASSUME TypeOK, NEW a \in Attempts, NEW q \in Requests, NEW v \in Outcomes, Reply(a, q, v)
  PROVE  /\ told' \in [Attempts -> [Requests -> Outcomes]]
         /\ \A b \in Attempts, p \in Requests :
              told'[b][p] = told[b][p] \/ (b = a /\ p = q /\ told'[b][p] = v)
  <1>1. told \in [Attempts -> [Requests -> Outcomes]]
    BY DEF TypeOK
  <1>2. CASE told' = told
    BY <1>1, <1>2
  <1>3. CASE told' = [told EXCEPT ![a][q] = v]
    BY <1>1, <1>3, CellType
  <1> QED
    BY <1>2, <1>3 DEF Reply

(* A step of the audit ledger keeps the type of audit and watermark.        *)
LEMMA AppendType ==
  ASSUME TypeOK, NEW a \in Attempts, NEW q \in Requests, NEW k \in Records,
         AppendAuditEvent(a, q, k)
  PROVE  /\ watermark' \in [Attempts -> Nat]
         /\ watermark'[a] = watermark[a] + 1
         /\ \A b \in Attempts : b # a => watermark'[b] = watermark[b] /\ audit'[b] = audit[b]
         /\ DOMAIN audit' = Attempts
         /\ audit'[a] \in [1 .. watermark'[a] -> Event]
         /\ audit'[a][watermark'[a]] =
              [request |-> q, record |-> k, prev |-> Prev(a, watermark'[a])]
         /\ \A s \in 1 .. watermark[a] : audit'[a][s] = audit[a][s]
  <1> DEFINE seq == watermark[a] + 1
             row == [request |-> q, record |-> k, prev |-> Prev(a, seq)]
             new == [s \in DOMAIN audit[a] \cup {seq} |-> IF s = seq THEN row ELSE audit[a][s]]
  <1>1. /\ watermark[a] \in Nat
        /\ audit[a] \in [1 .. watermark[a] -> Event]
        /\ DOMAIN audit = Attempts
        /\ watermark \in [Attempts -> Nat]
    BY DEF TypeOK
  <1>2. /\ audit' = [audit EXCEPT ![a] = new]
        /\ watermark' = [watermark EXCEPT ![a] = seq]
    BY DEF AppendAuditEvent
  <1>3. DOMAIN audit[a] \cup {seq} = 1 .. seq
    BY <1>1
  <1>4. Prev(a, seq) \in Requests \cup {NoRequest}
    BY <1>1 DEF Prev, Event
  <1>5. row \in Event
    BY <1>4 DEF Event
  <1>6. new \in [1 .. seq -> Event]
    BY <1>1, <1>3, <1>5
  <1>7. watermark'[a] = seq /\ audit'[a] = new
    BY <1>1, <1>2
  <1> QED
    BY <1>1, <1>2, <1>3, <1>6, <1>7

-----------------------------------------------------------------------------
(* Every table keeps values its schema allows, whatever the operations.     *)
THEOREM TypeCorrect == Spec => []TypeOK
  <1>1. Init => TypeOK
    BY NoFinalType DEF Init, TypeOK, AttemptStates, LiveStates, RequestStates, Outcomes, NoEvidence
  <1>2. ASSUME TypeOK, [Next]_vars PROVE TypeOK'
    <2> USE <1>2 DEF TypeOK, AttemptStates, LiveStates, RequestStates, TerminalRequest, Outcomes
    <2>1. ASSUME NEW a \in Attempts, CreateAttempt(a) PROVE TypeOK'
      BY <2>1 DEF CreateAttempt
    <2>2. ASSUME NEW a \in Attempts, OpenAttempt(a) PROVE TypeOK'
      BY <2>2 DEF OpenAttempt
    <2>3. ASSUME NEW a \in Attempts, CloseAttempt(a) PROVE TypeOK'
      BY <2>3 DEF CloseAttempt
    <2>4. ASSUME NEW a \in Attempts, FinalSnapshot(a) PROVE TypeOK'
      BY <2>4, RowsFinite DEF FinalSnapshot
    <2>5. ASSUME NEW a \in Attempts, FinalizeAttempt(a) PROVE TypeOK'
      BY <2>5 DEF FinalizeAttempt
    <2>6. ASSUME NEW a \in Attempts, AbortRecovery(a) PROVE TypeOK'
      BY <2>6, NoFinalType DEF AbortRecovery
    <2>7. ASSUME NEW a \in Attempts, NEW q \in Requests, RejectWrite(a, q) PROVE TypeOK'
      <3>1. told' \in [Attempts -> [Requests -> Outcomes]]
        BY <2>7, ReplyType DEF RejectWrite
      <3>2. requests' \in [Attempts -> [Requests -> RequestStates]]
        BY <2>7, CellType DEF RejectWrite
      <3> QED
        BY <2>7, <3>1, <3>2 DEF RejectWrite
    <2>8. ASSUME NEW a \in Attempts, NEW q \in Requests, NEW k \in Records, CommitWrite(a, q, k)
          PROVE  TypeOK'
      <3>1. /\ watermark' \in [Attempts -> Nat]
            /\ DOMAIN audit' = Attempts
            /\ \A b \in Attempts : audit'[b] \in [1 .. watermark'[b] -> Event]
        BY <2>8, AppendType DEF CommitWrite
      <3>2. told' \in [Attempts -> [Requests -> Outcomes]]
        BY <2>8, ReplyType DEF CommitWrite
      <3>3. requests' \in [Attempts -> [Requests -> RequestStates]]
        BY <2>8, CellType DEF CommitWrite
      <3>4. records' \in [Records -> [attempt : Attempts, request : Requests] \cup {NoWriter}]
        BY <2>8 DEF CommitWrite
      <3> QED
        BY <2>8, <3>1, <3>2, <3>3, <3>4 DEF CommitWrite
    <2>9. ASSUME NEW a \in Attempts, NEW q \in Requests, RaiseWrite(a, q) PROVE TypeOK'
      BY <2>9, ReplyType DEF RaiseWrite
    <2>10. CASE ResetObserverCursor
      BY <2>10 DEF ResetObserverCursor
    <2>11. CASE Bootstrap
      BY <2>11, NoFinalType DEF Bootstrap
    <2>12. CASE UNCHANGED vars
      BY <2>12 DEF vars
    <2> QED
      BY <2>1, <2>2, <2>3, <2>4, <2>5, <2>6, <2>7, <2>8, <2>9, <2>10, <2>11, <2>12
      DEF Next, BusinessWrite
  <1> QED
    BY <1>1, <1>2, PTL DEF Spec

-----------------------------------------------------------------------------
(* What a completed snapshot recorded of attempt a.                         *)
SnapshotRecorded(a) ==
  final[a].complete =>
    /\ state[a] \in {"FENCED", "FINALIZED"}
    /\ evidence[a] = [requests |-> evidence[a].requests, audit |-> audit[a]]
    /\ evidence[a].requests \in [Requests -> RequestStates]
    /\ final[a].requests = Cardinality(Rows(evidence[a].requests))
    /\ \A q \in Requests :
         evidence[a].requests[q] # "NONE" => requests[a][q] = evidence[a].requests[q]

(* Nothing was added to the requests of a finalized attempt.                *)
FinalizedUnchanged(a) ==
  state[a] = "FINALIZED" =>
    final[a].complete /\ Rows(requests[a]) = Rows(evidence[a].requests)

IInv ==
  /\ TypeOK
  /\ ActiveIsLive
  /\ LedgersAreValid
  /\ CommitsAreAudited
  /\ RecordsAreAudited
  /\ RepliesHold
  /\ \A a \in Attempts : SnapshotRecorded(a) /\ FinalizedUnchanged(a)

(* Only writes and the abort of a recovery touch the business tables.       *)
LEMMA StepShape ==
  ASSUME [Next]_vars
  PROVE  \/ UNCHANGED <<watermark, requests, audit, records, told>>
         \/ \E a \in Attempts : AbortRecovery(a)
         \/ \E a \in Attempts, q \in Requests : RaiseWrite(a, q) \/ RejectWrite(a, q)
         \/ \E a \in Attempts, q \in Requests, k \in Records : CommitWrite(a, q, k)
  BY DEF Next, vars, BusinessWrite, CreateAttempt, OpenAttempt, CloseAttempt, FinalSnapshot,
         FinalizeAttempt, ResetObserverCursor, Bootstrap

LEMMA ActiveIsLiveStep ==
  ASSUME TypeOK, ActiveIsLive, [Next]_vars
  PROVE  ActiveIsLive'
  <1> USE AttemptsAssumption DEF TypeOK, ActiveIsLive, LiveStates, AttemptStates
  <1>1. ASSUME NEW a \in Attempts, CreateAttempt(a) PROVE ActiveIsLive'
    BY <1>1 DEF CreateAttempt
  <1>2. ASSUME NEW a \in Attempts, OpenAttempt(a) PROVE ActiveIsLive'
    BY <1>2 DEF OpenAttempt, RequireActiveState
  <1>3. ASSUME NEW a \in Attempts, CloseAttempt(a) PROVE ActiveIsLive'
    BY <1>3 DEF CloseAttempt, RequireActiveState
  <1>4. ASSUME NEW a \in Attempts, FinalizeAttempt(a) PROVE ActiveIsLive'
    BY <1>4 DEF FinalizeAttempt, RequireActiveState
  <1>5. ASSUME NEW a \in Attempts, AbortRecovery(a) PROVE ActiveIsLive'
    BY <1>5 DEF AbortRecovery, RequireActiveState
  <1>6. CASE Bootstrap
    BY <1>6 DEF Bootstrap, Interrupted, Finished
  <1>7. CASE UNCHANGED <<active, state>>
    BY <1>7
  <1>8. QED
    BY <1>1, <1>2, <1>3, <1>4, <1>5, <1>6, <1>7
    DEF Next, vars, BusinessWrite, FinalSnapshot, ResetObserverCursor, RejectWrite,
        CommitWrite, RaiseWrite

(* What a committed write of q to k does to the tables of attempt a.        *)
WriteCommitted(a, q, k) ==
  LET w == watermark[a]
  IN  /\ w \in Nat
      /\ watermark'[a] = w + 1
      /\ DOMAIN audit[a] = 1 .. w
      /\ DOMAIN audit'[a] = 1 .. (w + 1)
      /\ audit'[a][w + 1] = [request |-> q, record |-> k, prev |-> Prev(a, w + 1)]
      /\ \A s \in 1 .. w : audit'[a][s] = audit[a][s]
      /\ \A b \in Attempts : b # a => watermark'[b] = watermark[b] /\ audit'[b] = audit[b]
      /\ requests[a][q] = "NONE"
      /\ \A b \in Attempts, p \in Requests :
           requests'[b][p] = IF b = a /\ p = q THEN "COMMITTED" ELSE requests[b][p]

LEMMA CommitFacts ==
  ASSUME TypeOK, NEW a \in Attempts, NEW q \in Requests, NEW k \in Records,
         CommitWrite(a, q, k)
  PROVE  WriteCommitted(a, q, k)
  <1>1. AppendAuditEvent(a, q, k) /\ requests[a][q] = "NONE"
    BY DEF CommitWrite, Admissible
  <1>2. \A b \in Attempts, p \in Requests :
          requests'[b][p] = IF b = a /\ p = q THEN "COMMITTED" ELSE requests[b][p]
    BY CellType DEF CommitWrite, TypeOK, RequestStates, TerminalRequest
  <1>3. watermark[a] \in Nat /\ DOMAIN audit[a] = 1 .. watermark[a]
    BY DEF TypeOK
  <1>4. /\ watermark'[a] = watermark[a] + 1
        /\ \A b \in Attempts : b # a => watermark'[b] = watermark[b] /\ audit'[b] = audit[b]
        /\ audit'[a] \in [1 .. watermark'[a] -> Event]
        /\ audit'[a][watermark'[a]] =
             [request |-> q, record |-> k, prev |-> Prev(a, watermark'[a])]
        /\ \A s \in 1 .. watermark[a] : audit'[a][s] = audit[a][s]
    BY <1>1, AppendType
  <1> QED
    BY <1>1, <1>2, <1>3, <1>4 DEF WriteCommitted

LEMMA LedgersAreValidStep ==
  ASSUME TypeOK, TypeOK', LedgersAreValid, [Next]_vars
  PROVE  LedgersAreValid'
  <1>1. CASE UNCHANGED <<watermark, audit>>
    BY <1>1 DEF LedgersAreValid, LedgerValid, Prev
  <1>2. ASSUME NEW a \in Attempts, NEW q \in Requests, NEW k \in Records, CommitWrite(a, q, k)
        PROVE  LedgersAreValid'
    <2> DEFINE w == watermark[a]
    <2>a. WriteCommitted(a, q, k)
      BY <1>2, CommitFacts
    <2>c. /\ w \in Nat
          /\ DOMAIN audit[a] = 1 .. w
          /\ DOMAIN audit'[a] = 1 .. (w + 1)
          /\ audit'[a][w + 1].prev = Prev(a, w + 1)
          /\ \A s \in 1 .. w : audit'[a][s] = audit[a][s]
          /\ watermark'[a] = w + 1
      BY <2>a DEF WriteCommitted
    <2>d. \A b \in Attempts : b # a => watermark'[b] = watermark[b] /\ audit'[b] = audit[b]
      BY <2>a DEF WriteCommitted
    <2> HIDE DEF w
    <2> SUFFICES ASSUME NEW b \in Attempts, NEW s \in 1 .. watermark'[b]
                 PROVE  audit'[b][s].prev = Prev(b, s)'
      BY DEF LedgersAreValid, LedgerValid, TypeOK
    <2>1. LedgerValid(b) /\ LedgerValid(a)
      BY DEF LedgersAreValid
    <2>2. CASE b # a
      BY <2>d, <2>1, <2>2 DEF LedgerValid, Prev
    <2>3. CASE b = a /\ s # w + 1
      <3>1. s \in 1 .. w /\ audit'[a][s] = audit[a][s]
        BY <2>c, <2>3
      <3>2. Prev(a, s)' = Prev(a, s)
        <4>1. (s - 1 \in DOMAIN audit'[a]) <=> (s - 1 \in DOMAIN audit[a])
          BY <2>c, <3>1
        <4>2. s - 1 \in DOMAIN audit[a] => audit'[a][s - 1] = audit[a][s - 1]
          BY <2>c, <3>1
        <4> QED
          BY <4>1, <4>2 DEF Prev
      <3> QED
        BY <2>c, <2>1, <2>3, <3>1, <3>2 DEF LedgerValid
    <2>4. CASE b = a /\ s = w + 1
      <3>1. audit'[a][s].prev = Prev(a, s)
        BY <2>c, <2>4
      <3>2. s - 1 = w /\ s - 1 \in Nat
        BY <2>c, <2>4
      <3>3. (s - 1 \in DOMAIN audit'[a]) <=> (s - 1 \in DOMAIN audit[a])
        BY <2>c, <3>2
      <3>4. s - 1 \in DOMAIN audit[a] => audit'[a][s - 1] = audit[a][s - 1]
        BY <2>c, <3>2
      <3> QED
        BY <2>4, <3>1, <3>3, <3>4 DEF Prev
    <2> QED
      BY <2>2, <2>3, <2>4
  <1> QED
    BY <1>1, <1>2, StepShape DEF AbortRecovery, RejectWrite, RaiseWrite

(* Setting one cell that was empty, or turning ADMITTED into FAILED, leaves *)
(* every request that had an outcome with the outcome it had.               *)
LEMMA OutcomesStay ==
  ASSUME TypeOK, ActiveIsLive, [Next]_vars,
         NEW a \in Attempts, NEW q \in Requests,
         requests[a][q] \notin {"NONE", "ADMITTED"}
  PROVE  requests'[a][q] = requests[a][q]
  <1>1. ASSUME NEW b \in Attempts, AbortRecovery(b) PROVE requests'[a][q] = requests[a][q]
    BY <1>1 DEF AbortRecovery, TypeOK
  <1>2. ASSUME NEW b \in Attempts, NEW p \in Requests, RejectWrite(b, p)
        PROVE  requests'[a][q] = requests[a][q]
    BY <1>2, CellType DEF RejectWrite, Admissible, TypeOK, RequestStates, TerminalRequest
  <1>3. ASSUME NEW b \in Attempts, NEW p \in Requests, NEW k \in Records, CommitWrite(b, p, k)
        PROVE  requests'[a][q] = requests[a][q]
    <2>1. WriteCommitted(b, p, k)
      BY <1>3, CommitFacts
    <2> QED
      BY <2>1 DEF WriteCommitted
  <1>4. CASE requests' = requests
    BY <1>4
  <1> QED
    BY <1>1, <1>2, <1>3, <1>4, StepShape DEF RaiseWrite

LEMMA CommitsAreAuditedStep ==
  ASSUME TypeOK, TypeOK', ActiveIsLive, CommitsAreAudited, [Next]_vars
  PROVE  CommitsAreAudited'
  <1>1. CASE UNCHANGED <<requests, audit>>
    BY <1>1 DEF CommitsAreAudited, CommittedOnce
  <1>2. ASSUME NEW a \in Attempts, AbortRecovery(a) PROVE CommitsAreAudited'
    <2>1. audit' = audit
      BY <1>2 DEF AbortRecovery
    <2>2. \A b \in Attempts, q \in Requests :
            requests'[b][q] = "COMMITTED" <=> requests[b][q] = "COMMITTED"
      BY <1>2 DEF AbortRecovery, TypeOK
    <2> QED
      BY <2>1, <2>2 DEF CommitsAreAudited, CommittedOnce
  <1>3. ASSUME NEW a \in Attempts, NEW q \in Requests, RejectWrite(a, q)
        PROVE  CommitsAreAudited'
    <2>1. audit' = audit
      BY <1>3 DEF RejectWrite
    <2>2. \A b \in Attempts, p \in Requests :
            requests'[b][p] = "COMMITTED" <=> requests[b][p] = "COMMITTED"
      BY <1>3, CellType
      DEF RejectWrite, Admissible, TypeOK, RequestStates, TerminalRequest
    <2> QED
      BY <2>1, <2>2 DEF CommitsAreAudited, CommittedOnce
  <1>4. ASSUME NEW a \in Attempts, NEW q \in Requests, NEW k \in Records, CommitWrite(a, q, k)
        PROVE  CommitsAreAudited'
    <2> DEFINE w == watermark[a]
    <2>0. WriteCommitted(a, q, k)
      BY <1>4, CommitFacts
    <2>1. /\ w \in Nat
          /\ DOMAIN audit[a] = 1 .. w
          /\ DOMAIN audit'[a] = 1 .. (w + 1)
          /\ audit'[a][w + 1].request = q
          /\ \A s \in 1 .. w : audit'[a][s] = audit[a][s]
          /\ requests[a][q] = "NONE"
      BY <2>0 DEF WriteCommitted
    <2>2. \A b \in Attempts, p \in Requests :
            requests'[b][p] = IF b = a /\ p = q THEN "COMMITTED" ELSE requests[b][p]
      BY <2>0 DEF WriteCommitted
    <2>3. \A b \in Attempts : b # a => audit'[b] = audit[b]
      BY <2>0 DEF WriteCommitted
    <2>4. \A s \in DOMAIN audit[a] : audit[a][s].request # q
      BY <2>1 DEF CommitsAreAudited, CommittedOnce
    <2> HIDE DEF w
    <2>5. ASSUME NEW b \in Attempts, b # a PROVE CommittedOnce(b)'
      BY <2>2, <2>3, <2>5 DEF CommitsAreAudited, CommittedOnce
    <2>6. CommittedOnce(a)'
      <3>1. CommittedOnce(a)
        BY DEF CommitsAreAudited
      <3>2. ASSUME NEW p \in Requests
            PROVE  requests'[a][p] = "COMMITTED" <=>
                     \E s \in DOMAIN audit'[a] : audit'[a][s].request = p
        BY <2>1, <2>2, <3>1 DEF CommittedOnce
      <3>3. ASSUME NEW s \in DOMAIN audit'[a], NEW t \in DOMAIN audit'[a],
                   audit'[a][s].request = audit'[a][t].request
            PROVE  s = t
        BY <2>1, <2>4, <3>1, <3>3 DEF CommittedOnce
      <3> QED
        BY <3>2, <3>3 DEF CommittedOnce
    <2> QED
      BY <2>5, <2>6 DEF CommitsAreAudited
  <1> QED
    BY <1>1, <1>2, <1>3, <1>4, StepShape DEF RaiseWrite

LEMMA RecordsAreAuditedStep ==
  ASSUME TypeOK, RecordsAreAudited, [Next]_vars
  PROVE  RecordsAreAudited'
  <1>1. CASE UNCHANGED <<records, audit>>
    BY <1>1 DEF RecordsAreAudited
  <1>2. ASSUME NEW a \in Attempts, NEW q \in Requests, NEW k \in Records, CommitWrite(a, q, k)
        PROVE  RecordsAreAudited'
    <2> DEFINE w == watermark[a]
    <2>0. WriteCommitted(a, q, k)
      BY <1>2, CommitFacts
    <2>1. /\ w \in Nat
          /\ DOMAIN audit[a] = 1 .. w
          /\ DOMAIN audit'[a] = 1 .. (w + 1)
          /\ \A s \in 1 .. w : audit'[a][s] = audit[a][s]
      BY <2>0 DEF WriteCommitted
    <2>2. audit'[a][w + 1].request = q /\ audit'[a][w + 1].record = k
      BY <2>0 DEF WriteCommitted
    <2>3. \A b \in Attempts : b # a => audit'[b] = audit[b]
      BY <2>0 DEF WriteCommitted
    <2>4. records' = [records EXCEPT ![k] = [attempt |-> a, request |-> q]]
      BY <1>2 DEF CommitWrite
    <2> HIDE DEF w
    <2> SUFFICES ASSUME NEW j \in Records, records'[j] # NoWriter,
                        NEW b, b = records'[j].attempt
                 PROVE  \E s \in {t \in DOMAIN audit'[b] : audit'[b][t].record = j} :
                          /\ audit'[b][s].request = records'[j].request
                          /\ \A t \in {u \in DOMAIN audit'[b] : audit'[b][u].record = j} : t <= s
      BY DEF RecordsAreAudited
    <2>5. CASE j = k
      <3>1. b = a /\ records'[j].request = q
        BY <2>4, <2>5 DEF TypeOK
      <3>2. w + 1 \in {t \in DOMAIN audit'[b] : audit'[b][t].record = j}
        BY <2>1, <2>2, <2>5, <3>1
      <3>3. \A t \in DOMAIN audit'[b] : t <= w + 1
        BY <2>1, <3>1
      <3> QED
        BY <2>2, <3>1, <3>2, <3>3
    <2>6. CASE j # k
      <3>1. records'[j] = records[j] /\ b \in Attempts
        BY <2>4, <2>6 DEF TypeOK
      <3>2. PICK s \in {t \in DOMAIN audit[b] : audit[b][t].record = j} :
              /\ audit[b][s].request = records[j].request
              /\ \A t \in {u \in DOMAIN audit[b] : audit[b][u].record = j} : t <= s
        BY <3>1 DEF RecordsAreAudited
      <3>3. CASE b # a
        BY <2>3, <3>1, <3>2, <3>3
      <3>4. CASE b = a
        BY <2>1, <2>2, <2>6, <3>1, <3>2, <3>4
      <3> QED
        BY <3>3, <3>4
    <2> QED
      BY <2>5, <2>6
  <1> QED
    BY <1>1, <1>2, StepShape DEF RejectWrite, RaiseWrite, AbortRecovery

LEMMA RepliesHoldStep ==
  ASSUME TypeOK, ActiveIsLive, RepliesHold, [Next]_vars
  PROVE  RepliesHold'
  <1>1. CASE UNCHANGED <<requests, told>>
    BY <1>1 DEF RepliesHold
  <1>2. ASSUME told' = told PROVE RepliesHold'
    BY <1>2, OutcomesStay DEF RepliesHold
  <1>3. ASSUME NEW a \in Attempts, NEW q \in Requests, RaiseWrite(a, q)
        PROVE  RepliesHold'
    <2>1. requests' = requests
      BY <1>3 DEF RaiseWrite
    <2>2. \A b \in Attempts, p \in Requests : told'[b][p] \in {told[b][p], "RAISED"}
      BY <1>3, ReplyType DEF RaiseWrite, Outcomes
    <2> QED
      BY <2>1, <2>2 DEF RepliesHold
  <1>4. ASSUME NEW a \in Attempts, NEW q \in Requests, RejectWrite(a, q)
        PROVE  RepliesHold'
    <2>1. requests'[a][q] = "REJECTED"
      BY <1>4, CellType DEF RejectWrite, TypeOK, RequestStates, TerminalRequest
    <2>2. \A b \in Attempts, p \in Requests :
            told'[b][p] = told[b][p] \/ (b = a /\ p = q /\ told'[b][p] = "REJECTED")
      BY <1>4, ReplyType DEF RejectWrite, Outcomes
    <2> QED
      BY <2>1, <2>2, OutcomesStay DEF RepliesHold
  <1>5. ASSUME NEW a \in Attempts, NEW q \in Requests, NEW k \in Records, CommitWrite(a, q, k)
        PROVE  RepliesHold'
    <2>1. requests'[a][q] = "COMMITTED"
      BY <1>5, CommitFacts DEF WriteCommitted
    <2>2. \A b \in Attempts, p \in Requests :
            told'[b][p] = told[b][p] \/ (b = a /\ p = q /\ told'[b][p] = "COMMITTED")
      BY <1>5, ReplyType DEF CommitWrite, Outcomes
    <2> QED
      BY <2>1, <2>2, OutcomesStay DEF RepliesHold
  <1> QED
    BY <1>1, <1>2, <1>3, <1>4, <1>5, StepShape DEF AbortRecovery

(* The flags and tables that concern an attempt whose snapshot is complete.  *)
LEMMA FencedTables ==
  ASSUME TypeOK, [Next]_vars, NEW a \in Attempts, state[a] # "OPEN"
  PROVE  /\ audit'[a] = audit[a]
         /\ watermark'[a] = watermark[a]
         /\ \A k \in Records : records'[k] # records[k] => records'[k].attempt # a
  <1>1. CASE UNCHANGED <<watermark, audit, records>>
    BY <1>1
  <1>2. ASSUME NEW b \in Attempts, NEW q \in Requests, NEW k \in Records, CommitWrite(b, q, k)
        PROVE  /\ audit'[a] = audit[a]
               /\ watermark'[a] = watermark[a]
               /\ \A j \in Records : records'[j] # records[j] => records'[j].attempt # a
    <2>1. b # a
      BY <1>2 DEF CommitWrite
    <2>0. WriteCommitted(b, q, k)
      BY <1>2, CommitFacts
    <2>2. audit'[a] = audit[a] /\ watermark'[a] = watermark[a]
      BY <2>0, <2>1 DEF WriteCommitted
    <2>3. records' = [records EXCEPT ![k] = [attempt |-> b, request |-> q]]
      BY <1>2 DEF CommitWrite
    <2> QED
      BY <2>1, <2>2, <2>3 DEF TypeOK
  <1> QED
    BY <1>1, <1>2, StepShape DEF AbortRecovery, RejectWrite, RaiseWrite

LEMMA SnapshotStep ==
  ASSUME TypeOK, TypeOK', ActiveIsLive, [Next]_vars, NEW a \in Attempts,
         SnapshotRecorded(a), FinalizedUnchanged(a)
  PROVE  SnapshotRecorded(a)' /\ FinalizedUnchanged(a)'
  <1> USE DEF SnapshotRecorded, FinalizedUnchanged
  <1>1. CASE UNCHANGED <<state, final, evidence, requests, audit>>
    BY <1>1 DEF Rows
  <1>2. ASSUME NEW b \in Attempts, CreateAttempt(b) \/ OpenAttempt(b) \/ CloseAttempt(b)
        PROVE  SnapshotRecorded(a)' /\ FinalizedUnchanged(a)'
    <2>1. UNCHANGED <<final, evidence, requests, audit>>
      BY <1>2 DEF CreateAttempt, OpenAttempt, CloseAttempt
    <2>2. state[a] \in {"FENCED", "FINALIZED"} => state'[a] = state[a]
      BY <1>2 DEF CreateAttempt, OpenAttempt, CloseAttempt, RequireActiveState, TypeOK
    <2>3. state'[a] = "FINALIZED" => state[a] = "FINALIZED"
      BY <1>2 DEF CreateAttempt, OpenAttempt, CloseAttempt, TypeOK
    <2> QED
      BY <2>1, <2>2, <2>3 DEF Rows
  <1>3. ASSUME NEW b \in Attempts, FinalSnapshot(b)
        PROVE  SnapshotRecorded(a)' /\ FinalizedUnchanged(a)'
    <2>1. UNCHANGED <<state, requests, audit>> /\ state[b] = "FENCED"
      BY <1>3 DEF FinalSnapshot, RequireActiveState
    <2>2. CASE a = b
      <3>1. /\ evidence'[a] = [requests |-> requests[a], audit |-> audit[a]]
            /\ final'[a].requests = Cardinality(Rows(requests[a]))
        BY <1>3, <2>2 DEF FinalSnapshot, TypeOK
      <3>2. requests[a] \in [Requests -> RequestStates]
        BY DEF TypeOK
      <3> QED
        BY <2>1, <2>2, <3>1, <3>2
    <2>3. CASE a # b
      <3>1. final'[a] = final[a] /\ evidence'[a] = evidence[a]
        BY <1>3, <2>3 DEF FinalSnapshot, TypeOK
      <3> QED
        BY <2>1, <3>1 DEF Rows
    <2> QED
      BY <2>2, <2>3
  <1>4. ASSUME NEW b \in Attempts, FinalizeAttempt(b)
        PROVE  SnapshotRecorded(a)' /\ FinalizedUnchanged(a)'
    <2>1. UNCHANGED <<final, evidence, requests, audit>>
      BY <1>4 DEF FinalizeAttempt
    <2>2. CASE a = b
      <3>1. /\ state'[a] = "FINALIZED" /\ final[a].complete
            /\ final[a].requests = Cardinality(Rows(requests[a]))
        BY <1>4, <2>2 DEF FinalizeAttempt, TypeOK
      <3>2. Rows(evidence[a].requests) \subseteq Rows(requests[a])
        BY <3>1 DEF Rows
      <3>3. Cardinality(Rows(evidence[a].requests)) = Cardinality(Rows(requests[a]))
        BY <3>1
      <3>4. Rows(requests[a]) = Rows(evidence[a].requests)
        BY <3>2, <3>3, RowsFinite, FS_Subset
      <3> QED
        BY <2>1, <3>1, <3>4 DEF Rows
    <2>3. CASE a # b
      <3>1. state'[a] = state[a]
        BY <1>4, <2>3 DEF FinalizeAttempt, TypeOK
      <3> QED
        BY <2>1, <3>1 DEF Rows
    <2> QED
      BY <2>2, <2>3
  <1>5. ASSUME NEW b \in Attempts, AbortRecovery(b)
        PROVE  SnapshotRecorded(a)' /\ FinalizedUnchanged(a)'
    <2>1. UNCHANGED <<evidence, audit>>
      BY <1>5 DEF AbortRecovery
    <2>2. CASE a = b
      BY <1>5, <2>2 DEF AbortRecovery, TypeOK, NoFinal
    <2>3. CASE a # b
      <3>1. state'[a] = state[a] /\ final'[a] = final[a] /\ requests'[a] = requests[a]
        BY <1>5, <2>3 DEF AbortRecovery, TypeOK
      <3> QED
        BY <2>1, <3>1 DEF Rows
    <2> QED
      BY <2>2, <2>3
  <1>6. ASSUME NEW b \in Attempts, NEW q \in Requests, RejectWrite(b, q)
        PROVE  SnapshotRecorded(a)' /\ FinalizedUnchanged(a)'
    <2>1. UNCHANGED <<state, final, evidence, audit>>
      BY <1>6 DEF RejectWrite
    <2>2. /\ requests[b][q] = "NONE"
          /\ \A c \in Attempts, p \in Requests :
               requests'[c][p] = IF c = b /\ p = q THEN "REJECTED" ELSE requests[c][p]
      BY <1>6, CellType
      DEF RejectWrite, Admissible, TypeOK, RequestStates, TerminalRequest
    <2>3. \A p \in Requests :
            requests[a][p] # "NONE" => requests'[a][p] = requests[a][p]
      BY <2>2
    <2>4. state[a] = "FINALIZED" => a # b
      BY <1>6 DEF RejectWrite, Admissible, ActiveIsLive, LiveStates
    <2>5. a # b => Rows(requests'[a]) = Rows(requests[a])
      BY <2>2 DEF Rows
    <2> QED
      BY <2>1, <2>3, <2>4, <2>5
  <1>7. ASSUME NEW b \in Attempts, NEW q \in Requests, NEW k \in Records, CommitWrite(b, q, k)
        PROVE  SnapshotRecorded(a)' /\ FinalizedUnchanged(a)'
    <2>1. UNCHANGED <<state, final, evidence>> /\ state[b] = "OPEN"
      BY <1>7 DEF CommitWrite
    <2>2. CASE a = b
      BY <2>1, <2>2
    <2>3. CASE a # b
      <3>0. WriteCommitted(b, q, k)
        BY <1>7, CommitFacts
      <3>1. audit'[a] = audit[a]
        BY <2>3, <3>0 DEF WriteCommitted
      <3>2. \A p \in Requests : requests'[a][p] = requests[a][p]
        BY <2>3, <3>0 DEF WriteCommitted
      <3>3. Rows(requests'[a]) = Rows(requests[a])
        BY <3>2 DEF Rows
      <3> QED
        BY <2>1, <3>1, <3>2, <3>3
    <2> QED
      BY <2>2, <2>3
  <1>8. CASE Bootstrap
    <2>1. UNCHANGED <<evidence, requests, audit>>
      BY <1>8 DEF Bootstrap
    <2>2. CASE Interrupted /\ a = active
      BY <1>8, <2>2 DEF Bootstrap, TypeOK, NoFinal
    <2>3. CASE ~(Interrupted /\ a = active)
      <3>1. state'[a] = state[a] /\ final'[a] = final[a]
        BY <1>8, <2>3 DEF Bootstrap, Interrupted, TypeOK
      <3> QED
        BY <2>1, <3>1 DEF Rows
    <2> QED
      BY <2>2, <2>3
  <1> QED
    BY <1>1, <1>2, <1>3, <1>4, <1>5, <1>6, <1>7, <1>8
    DEF Next, vars, BusinessWrite, ResetObserverCursor, RaiseWrite

-----------------------------------------------------------------------------
LEMMA Inductive == Spec => []IInv
  <1>1. Init => IInv
    <2> SUFFICES ASSUME Init PROVE IInv
      OBVIOUS
    <2>1. TypeOK
      BY NoFinalType
      DEF Init, TypeOK, AttemptStates, LiveStates, RequestStates, Outcomes, NoEvidence
    <2>2. ActiveIsLive /\ RecordsAreAudited /\ RepliesHold
      BY AttemptsAssumption DEF Init, ActiveIsLive, LiveStates, RecordsAreAudited, RepliesHold
    <2>3. LedgersAreValid
      BY DEF Init, LedgersAreValid, LedgerValid, NoEvidence
    <2>4. CommitsAreAudited
      BY DEF Init, CommitsAreAudited, CommittedOnce, NoEvidence
    <2>5. \A a \in Attempts : SnapshotRecorded(a) /\ FinalizedUnchanged(a)
      BY DEF Init, SnapshotRecorded, FinalizedUnchanged, NoFinal
    <2> QED
      BY <2>1, <2>2, <2>3, <2>4, <2>5 DEF IInv
  <1>2. ASSUME IInv, [Next]_vars, TypeOK' PROVE IInv'
    <2>1. ActiveIsLive' /\ LedgersAreValid' /\ CommitsAreAudited' /\ RecordsAreAudited' /\ RepliesHold'
      BY <1>2, ActiveIsLiveStep, LedgersAreValidStep, CommitsAreAuditedStep,
         RecordsAreAuditedStep, RepliesHoldStep DEF IInv
    <2>2. \A a \in Attempts : SnapshotRecorded(a)' /\ FinalizedUnchanged(a)'
      BY <1>2, SnapshotStep DEF IInv
    <2> QED
      BY <1>2, <2>1, <2>2 DEF IInv
  <1> QED
    BY <1>1, <1>2, TypeCorrect, PTL DEF Spec

(* At most one attempt is in progress, and it is the one the meta row names. *)
THEOREM OneLiveAttempt == Spec => []ActiveIsLive
  BY Inductive, PTL DEF IInv

(* Every committed request has exactly one audit event and every event a    *)
(* committed request, whatever is retried, rolled back or interrupted; the  *)
(* ledger check of final_snapshot and finalize_attempt never fails; and the *)
(* business records never show a write the audit does not.                  *)
THEOREM AuditStaysTrue == Spec => []AuditIsTrue
  BY Inductive, PTL DEF IInv, AuditIsTrue

(* What the store told a client remains what the store holds.               *)
THEOREM RepliesStayTrue == Spec => []RepliesHold
  BY Inductive, PTL DEF IInv

LEMMA IInvEvidence == IInv => EvidenceIsWhole
  <1>1. ASSUME IInv PROVE EvidenceIsWhole
    <2> SUFFICES ASSUME NEW a \in Attempts
                 PROVE  /\ final[a].complete => /\ state[a] \in {"FENCED", "FINALIZED"}
                                                /\ evidence[a].audit = audit[a]
                        /\ state[a] = "FINALIZED" =>
                             /\ final[a].complete
                             /\ evidence[a] = [requests |-> requests[a], audit |-> audit[a]]
      BY DEF EvidenceIsWhole
    <2>1. SnapshotRecorded(a) /\ FinalizedUnchanged(a) /\ TypeOK
      BY <1>1 DEF IInv
    <2>2. state[a] = "FINALIZED" => evidence[a].requests = requests[a]
      <3> SUFFICES ASSUME state[a] = "FINALIZED" PROVE evidence[a].requests = requests[a]
        OBVIOUS
      <3>1. /\ evidence[a].requests \in [Requests -> RequestStates]
            /\ requests[a] \in [Requests -> RequestStates]
            /\ Rows(requests[a]) = Rows(evidence[a].requests)
        BY <2>1 DEF SnapshotRecorded, FinalizedUnchanged, TypeOK
      <3>2. ASSUME NEW q \in Requests PROVE evidence[a].requests[q] = requests[a][q]
        BY <2>1, <3>1 DEF SnapshotRecorded, FinalizedUnchanged, Rows
      <3> QED
        BY <3>1, <3>2
    <2> QED
      BY <2>1, <2>2 DEF SnapshotRecorded, FinalizedUnchanged
  <1> QED
    BY <1>1

(* The evidence exported for a finalized attempt is all there ever is of it. *)
THEOREM FinalEvidenceIsWhole == Spec => []EvidenceIsWhole
  BY Inductive, IInvEvidence, PTL

(* The moves of an attempt's state.                                         *)
Moves == { <<"NONE", "PREPARED">>, <<"PREPARED", "OPEN">>, <<"OPEN", "FENCED">>,
           <<"FENCED", "FINALIZED">>, <<"RECOVERY_REQUIRED", "ABORTED">>,
           <<"PREPARED", "RECOVERY_REQUIRED">>, <<"OPEN", "RECOVERY_REQUIRED">>,
           <<"FENCED", "RECOVERY_REQUIRED">> }

LEMMA StateStep ==
  ASSUME TypeOK, [Next]_vars, NEW a \in Attempts
  PROVE  state'[a] = state[a] \/ <<state[a], state'[a]>> \in Moves
  <1> USE DEF Moves
  <1>0. state \in [Attempts -> AttemptStates]
    BY DEF TypeOK
  <1>1. ASSUME NEW b \in Attempts, CreateAttempt(b)
        PROVE  state'[a] = state[a] \/ <<state[a], state'[a]>> \in Moves
    BY <1>0, <1>1 DEF CreateAttempt
  <1>2. ASSUME NEW b \in Attempts, OpenAttempt(b)
        PROVE  state'[a] = state[a] \/ <<state[a], state'[a]>> \in Moves
    BY <1>0, <1>2 DEF OpenAttempt, RequireActiveState
  <1>3. ASSUME NEW b \in Attempts, CloseAttempt(b)
        PROVE  state'[a] = state[a] \/ <<state[a], state'[a]>> \in Moves
    BY <1>0, <1>3 DEF CloseAttempt, RequireActiveState
  <1>4. ASSUME NEW b \in Attempts, FinalizeAttempt(b)
        PROVE  state'[a] = state[a] \/ <<state[a], state'[a]>> \in Moves
    BY <1>0, <1>4 DEF FinalizeAttempt, RequireActiveState
  <1>5. ASSUME NEW b \in Attempts, AbortRecovery(b)
        PROVE  state'[a] = state[a] \/ <<state[a], state'[a]>> \in Moves
    BY <1>0, <1>5 DEF AbortRecovery, RequireActiveState
  <1>6. CASE Bootstrap
    BY <1>0, <1>6 DEF Bootstrap, Interrupted
  <1>7. CASE state' = state
    BY <1>7
  <1> QED
    BY <1>1, <1>2, <1>3, <1>4, <1>5, <1>6, <1>7
    DEF Next, vars, BusinessWrite, FinalSnapshot, ResetObserverCursor, RejectWrite,
        CommitWrite, RaiseWrite

(* Once fenced or interrupted an attempt is never written to again.         *)
THEOREM FenceIsKept == Spec => FenceHolds
  <1>1. ASSUME TypeOK, [Next]_vars, NEW a \in Attempts,
               state[a] \in {"FENCED", "RECOVERY_REQUIRED", "FINALIZED", "ABORTED"}
        PROVE  state'[a] \notin {"NONE", "PREPARED", "OPEN"}
    BY <1>1, StateStep DEF Moves
  <1>2. TypeOK /\ [Next]_vars =>
          [\A a \in Attempts :
             state[a] \in {"FENCED", "RECOVERY_REQUIRED", "FINALIZED", "ABORTED"} =>
               /\ audit'[a] = audit[a] /\ watermark'[a] = watermark[a]
               /\ state'[a] \notin {"NONE", "PREPARED", "OPEN"}
               /\ \A k \in Records : records'[k] # records[k] => records'[k].attempt # a]_vars
    BY <1>1, FencedTables
  <1> QED
    BY <1>2, TypeCorrect, PTL DEF Spec, FenceHolds

(* A finished attempt keeps its requests, its snapshot and its evidence.    *)
LEMMA FinishedStays ==
  ASSUME TypeOK, ActiveIsLive, [Next]_vars, NEW a \in Attempts,
         state[a] \in {"ABORTED", "FINALIZED"}
  PROVE  requests'[a] = requests[a] /\ final'[a] = final[a] /\ evidence'[a] = evidence[a]
  <1>1. active # a
    BY DEF ActiveIsLive, LiveStates
  <1>2. ASSUME NEW b \in Attempts, FinalSnapshot(b) \/ AbortRecovery(b)
        PROVE  requests'[a] = requests[a] /\ final'[a] = final[a] /\ evidence'[a] = evidence[a]
    BY <1>1, <1>2 DEF FinalSnapshot, AbortRecovery, RequireActiveState, TypeOK
  <1>3. ASSUME NEW b \in Attempts, NEW q \in Requests, RejectWrite(b, q)
        PROVE  requests'[a] = requests[a] /\ final'[a] = final[a] /\ evidence'[a] = evidence[a]
    BY <1>1, <1>3 DEF RejectWrite, Admissible, TypeOK
  <1>4. ASSUME NEW b \in Attempts, NEW q \in Requests, NEW k \in Records, CommitWrite(b, q, k)
        PROVE  requests'[a] = requests[a] /\ final'[a] = final[a] /\ evidence'[a] = evidence[a]
    BY <1>1, <1>4 DEF CommitWrite, Admissible, TypeOK
  <1>5. CASE Bootstrap
    BY <1>1, <1>5 DEF Bootstrap, TypeOK
  <1>6. CASE UNCHANGED <<requests, final, evidence>>
    BY <1>6
  <1> QED
    BY <1>2, <1>3, <1>4, <1>5, <1>6
    DEF Next, vars, BusinessWrite, CreateAttempt, OpenAttempt, CloseAttempt, FinalizeAttempt,
        ResetObserverCursor, RaiseWrite

(* An interrupted attempt is never finalized, and a finished attempt keeps  *)
(* its state, its requests, its snapshot and its evidence.                  *)
THEOREM InterruptionIsKept == Spec => InterruptionIsFinal
  <1>2. ASSUME TypeOK, [Next]_vars, NEW a \in Attempts
        PROVE  /\ state[a] = "RECOVERY_REQUIRED" => state'[a] \in {"RECOVERY_REQUIRED", "ABORTED"}
               /\ state[a] \in {"ABORTED", "FINALIZED"} => state'[a] = state[a]
    BY <1>2, StateStep DEF Moves
  <1>3. TypeOK /\ ActiveIsLive /\ [Next]_vars =>
          [\A a \in Attempts :
             /\ state[a] = "RECOVERY_REQUIRED" => state'[a] \in {"RECOVERY_REQUIRED", "ABORTED"}
             /\ state[a] \in {"ABORTED", "FINALIZED"} =>
                  /\ state'[a] = state[a] /\ requests'[a] = requests[a]
                  /\ final'[a] = final[a] /\ evidence'[a] = evidence[a]]_vars
    BY FinishedStays, <1>2
  <1> QED
    BY <1>3, TypeCorrect, OneLiveAttempt, PTL DEF Spec, InterruptionIsFinal

-----------------------------------------------------------------------------
(***************************************************************************)
(* Spec => Ledger!Spec.  Under IInv every step of the store is one step of *)
(* SealedLedger or leaves its three variables alone.                       *)
(***************************************************************************)
(* The phase of an attempt follows its state.                               *)
LEMMA PhaseFacts ==
  /\ PhaseOf["NONE"] = "unused"
  /\ PhaseOf["PREPARED"] = "accepting"
  /\ PhaseOf["OPEN"] = "accepting"
  /\ PhaseOf["FENCED"] = "closed"
  /\ PhaseOf["FINALIZED"] = "sealed"
  /\ PhaseOf["RECOVERY_REQUIRED"] = "interrupted"
  /\ PhaseOf["ABORTED"] = "void"
  BY DEF PhaseOf, AttemptStates, LiveStates

LEMMA InitMaps == Init => Ledger!Init
  <1> SUFFICES ASSUME Init PROVE Ledger!Init
    OBVIOUS
  <1>1. phaseBar = [a \in Attempts |-> "unused"]
    BY PhaseFacts DEF Init, phaseBar
  <1>2. effectsBar = [a \in Attempts |-> {}]
    BY DEF Init, effectsBar, Shown, NoEvidence
  <1>3. sealedBar = [a \in Attempts |-> Unsealed]
    BY DEF Init, sealedBar
  <1> QED
    BY <1>1, <1>2, <1>3 DEF Ledger!Init

(* A step that changes only the state of attempt b changes only its phase.  *)
StateMove(b, s) == state' = [state EXCEPT ![b] = s] /\ audit' = audit

LEMMA StateOnly ==
  ASSUME TypeOK, NEW b \in Attempts, NEW s \in AttemptStates, StateMove(b, s)
  PROVE  /\ phaseBar' = [phaseBar EXCEPT ![b] = PhaseOf[s]]
         /\ effectsBar' = effectsBar
  <1>1. state \in [Attempts -> AttemptStates]
    BY DEF TypeOK
  <1>2. phaseBar' = [phaseBar EXCEPT ![b] = PhaseOf[s]]
    BY <1>1 DEF phaseBar, StateMove
  <1>3. effectsBar' = effectsBar
    BY DEF effectsBar, StateMove
  <1> QED
    BY <1>2, <1>3

(* Nobody is sealed by a step that finalizes nobody and keeps the evidence. *)
LEMMA SealKept ==
  ASSUME TypeOK,
         \A a \in Attempts : state'[a] = "FINALIZED" <=> state[a] = "FINALIZED",
         \A a \in Attempts : state[a] = "FINALIZED" => evidence'[a] = evidence[a]
  PROVE  sealedBar' = sealedBar
  BY DEF sealedBar

LEMMA StepMaps ==
  ASSUME IInv, IInv', [Next]_vars
  PROVE  [Ledger!Next]_(Ledger!ledgerVars)
  <1> USE PhaseFacts
  <1>t. TypeOK /\ ActiveIsLive /\ state \in [Attempts -> AttemptStates]
    BY DEF IInv, TypeOK
  <1>p. \A a \in Attempts : phaseBar[a] = PhaseOf[state[a]] /\ effectsBar[a] = Shown(audit[a])
    BY DEF phaseBar, effectsBar
  <1>1. ASSUME NEW a \in Attempts, CreateAttempt(a) PROVE Ledger!Begin(a)
    <2>1. state[a] = "NONE" /\ state' = [state EXCEPT ![a] = "PREPARED"]
          /\ audit' = audit /\ evidence' = evidence /\ active = NoAttempt
      BY <1>1 DEF CreateAttempt
    <2>2. \A b \in Attempts : state[b] \notin LiveStates
      BY <1>t, <2>1, AttemptsAssumption DEF ActiveIsLive
    <2>3. \A b \in Attempts : phaseBar[b] \notin Ledger!UnderWay
      BY <1>t, <1>p, <2>2 DEF Ledger!UnderWay, LiveStates, AttemptStates
    <2>m. StateMove(a, "PREPARED") /\ "PREPARED" \in AttemptStates
      BY <2>1 DEF StateMove, AttemptStates, LiveStates
    <2>4. phaseBar' = [phaseBar EXCEPT ![a] = "accepting"] /\ effectsBar' = effectsBar
      BY <1>t, <2>m, StateOnly
    <2>5. sealedBar' = sealedBar
      BY <1>t, <2>1, SealKept
    <2> QED
      BY <1>p, <2>1, <2>3, <2>4, <2>5 DEF Ledger!Begin
  <1>2. ASSUME NEW a \in Attempts, OpenAttempt(a) PROVE UNCHANGED Ledger!ledgerVars
    <2>1. state[a] = "PREPARED" /\ state' = [state EXCEPT ![a] = "OPEN"]
          /\ audit' = audit /\ evidence' = evidence
      BY <1>2 DEF OpenAttempt, RequireActiveState
    <2>m. StateMove(a, "OPEN") /\ "OPEN" \in AttemptStates
      BY <2>1 DEF StateMove, AttemptStates, LiveStates
    <2>2. phaseBar' = [phaseBar EXCEPT ![a] = "accepting"] /\ effectsBar' = effectsBar
      BY <1>t, <2>m, StateOnly
    <2>3. phaseBar' = phaseBar
      BY <1>p, <2>1, <2>2 DEF phaseBar
    <2>4. sealedBar' = sealedBar
      BY <1>t, <2>1, SealKept
    <2> QED
      BY <2>2, <2>3, <2>4 DEF Ledger!ledgerVars
  <1>3. ASSUME NEW a \in Attempts, CloseAttempt(a) PROVE Ledger!Close(a)
    <2>1. state[a] = "OPEN" /\ state' = [state EXCEPT ![a] = "FENCED"]
          /\ audit' = audit /\ evidence' = evidence
      BY <1>3 DEF CloseAttempt, RequireActiveState
    <2>m. StateMove(a, "FENCED") /\ "FENCED" \in AttemptStates
      BY <2>1 DEF StateMove, AttemptStates, LiveStates
    <2>2. phaseBar' = [phaseBar EXCEPT ![a] = "closed"] /\ effectsBar' = effectsBar
      BY <1>t, <2>m, StateOnly
    <2>3. sealedBar' = sealedBar
      BY <1>t, <2>1, SealKept
    <2> QED
      BY <1>p, <2>1, <2>2, <2>3 DEF Ledger!Close
  <1>4. ASSUME NEW a \in Attempts, FinalSnapshot(a) PROVE UNCHANGED Ledger!ledgerVars
    <2>1. /\ state[a] = "FENCED" /\ state' = state /\ audit' = audit
          /\ \A b \in Attempts : b # a => evidence'[b] = evidence[b]
      BY <1>4 DEF FinalSnapshot, RequireActiveState, IInv, TypeOK
    <2>2. phaseBar' = phaseBar /\ effectsBar' = effectsBar
      BY <2>1 DEF phaseBar, effectsBar
    <2>3. sealedBar' = sealedBar
      BY <1>t, <2>1, SealKept
    <2> QED
      BY <2>2, <2>3 DEF Ledger!ledgerVars
  <1>5. ASSUME NEW a \in Attempts, FinalizeAttempt(a) PROVE Ledger!Seal(a)
    <2>1. state[a] = "FENCED" /\ state' = [state EXCEPT ![a] = "FINALIZED"]
          /\ audit' = audit /\ evidence' = evidence /\ final[a].complete
      BY <1>5 DEF FinalizeAttempt, RequireActiveState
    <2>m. StateMove(a, "FINALIZED") /\ "FINALIZED" \in AttemptStates
      BY <2>1 DEF StateMove, AttemptStates, LiveStates
    <2>2. phaseBar' = [phaseBar EXCEPT ![a] = "sealed"] /\ effectsBar' = effectsBar
      BY <1>t, <2>m, StateOnly
    <2>3. evidence[a].audit = audit[a]
      <3>1. evidence[a] = [requests |-> evidence[a].requests, audit |-> audit[a]]
        BY <2>1 DEF IInv, SnapshotRecorded
      <3> QED
        BY <3>1
    <2>4. sealedBar' = [sealedBar EXCEPT ![a] = effectsBar[a]]
      <3>1. \A b \in Attempts : state'[b] = IF b = a THEN "FINALIZED" ELSE state[b]
        BY <1>t, <2>1
      <3>2. sealedBar' = [b \in Attempts |->
              IF b = a THEN Shown(audit[a])
                       ELSE IF state[b] = "FINALIZED" THEN Shown(evidence[b].audit) ELSE Unsealed]
        BY <2>1, <2>3, <3>1 DEF sealedBar
      <3> QED
        BY <1>p, <3>2 DEF sealedBar
    <2> QED
      BY <1>p, <2>1, <2>2, <2>4 DEF Ledger!Seal
  <1>6. ASSUME NEW a \in Attempts, AbortRecovery(a) PROVE Ledger!GiveUp(a)
    <2>1. state[a] = "RECOVERY_REQUIRED" /\ state' = [state EXCEPT ![a] = "ABORTED"]
          /\ audit' = audit /\ evidence' = evidence
      BY <1>6 DEF AbortRecovery, RequireActiveState
    <2>m. StateMove(a, "ABORTED") /\ "ABORTED" \in AttemptStates
      BY <2>1 DEF StateMove, AttemptStates, LiveStates
    <2>2. phaseBar' = [phaseBar EXCEPT ![a] = "void"] /\ effectsBar' = effectsBar
      BY <1>t, <2>m, StateOnly
    <2>3. sealedBar' = sealedBar
      BY <1>t, <2>1, SealKept
    <2> QED
      BY <1>p, <2>1, <2>2, <2>3 DEF Ledger!GiveUp
  <1>7. ASSUME NEW a \in Attempts, NEW q \in Requests, NEW k \in Records, CommitWrite(a, q, k)
        PROVE  Ledger!Effect(a, q)
    <2>1. state[a] = "OPEN" /\ state' = state /\ evidence' = evidence
      BY <1>7 DEF CommitWrite
    <2>2. WriteCommitted(a, q, k)
      BY <1>t, <1>7, CommitFacts
    <2>3. Shown(audit'[a]) = Shown(audit[a]) \cup {q}
      <3> DEFINE w == watermark[a]
      <3>1. /\ w \in Nat
            /\ DOMAIN audit[a] = 1 .. w
            /\ DOMAIN audit'[a] = 1 .. (w + 1)
            /\ audit'[a][w + 1].request = q
            /\ \A s \in 1 .. w : audit'[a][s] = audit[a][s]
        BY <2>2 DEF WriteCommitted
      <3> HIDE DEF w
      <3>2. 1 .. (w + 1) = (1 .. w) \cup {w + 1}
        BY <3>1
      <3> QED
        BY <3>1, <3>2 DEF Shown
    <2>4. q \notin Shown(audit[a])
      <3>1. requests[a][q] = "NONE" /\ CommittedOnce(a)
        BY <2>2 DEF WriteCommitted, IInv, CommitsAreAudited
      <3> QED
        BY <3>1 DEF CommittedOnce, Shown
    <2>5. \A b \in Attempts : b # a => audit'[b] = audit[b]
      BY <2>2 DEF WriteCommitted
    <2>6. effectsBar' = [effectsBar EXCEPT ![a] = @ \cup {q}]
      BY <2>3, <2>5 DEF effectsBar
    <2>7. phaseBar' = phaseBar
      BY <2>1 DEF phaseBar
    <2>8. sealedBar' = sealedBar
      BY <1>t, <2>1, SealKept
    <2> QED
      BY <1>p, <2>1, <2>4, <2>6, <2>7, <2>8 DEF Ledger!Effect
  <1>8. CASE UNCHANGED <<state, audit, evidence>>
    BY <1>8 DEF Ledger!ledgerVars, phaseBar, effectsBar, sealedBar
  <1>9. CASE Bootstrap
    <2>1. UNCHANGED <<audit, evidence>>
      BY <1>9 DEF Bootstrap
    <2>2. CASE ~Interrupted
      BY <1>8, <1>9, <2>1, <2>2 DEF Bootstrap
    <2>3. CASE Interrupted
      <3>1. active \in Attempts /\ state[active] \in {"PREPARED", "OPEN", "FENCED"}
        BY <1>t, <2>3 DEF Interrupted, TypeOK
      <3>2. state' = [state EXCEPT ![active] = "RECOVERY_REQUIRED"]
        BY <1>9, <2>3 DEF Bootstrap
      <3>m. StateMove(active, "RECOVERY_REQUIRED") /\ "RECOVERY_REQUIRED" \in AttemptStates
        BY <2>1, <3>2 DEF StateMove, AttemptStates, LiveStates
      <3>3. /\ phaseBar' = [phaseBar EXCEPT ![active] = "interrupted"]
            /\ effectsBar' = effectsBar
        BY <1>t, <3>1, <3>m, StateOnly
      <3>4. sealedBar' = sealedBar
        BY <1>t, <2>1, <3>1, <3>2, SealKept
      <3>5. Ledger!Interrupt(active)
        BY <1>p, <3>1, <3>3, <3>4 DEF Ledger!Interrupt
      <3> QED
        BY <3>1, <3>5 DEF Ledger!Next
    <2> QED
      BY <2>2, <2>3
  <1> QED
    BY <1>1, <1>2, <1>3, <1>4, <1>5, <1>6, <1>7, <1>8, <1>9
    DEF Next, vars, BusinessWrite, RejectWrite, RaiseWrite, ResetObserverCursor, Ledger!Next

(* The store keeps the promise the gate relies on: one attempt at a time,   *)
(* each effect once, a seal that shows every effect, none after a restart.  *)
THEOREM FixtureImplementsSealedLedger == Spec => ImplementsSealedLedger
  <1>2. IInv /\ IInv' /\ [Next]_vars => [Ledger!Next]_(Ledger!ledgerVars)
    BY StepMaps
  <1> QED
    BY <1>2, Inductive, InitMaps, PTL DEF Spec, ImplementsSealedLedger, Ledger!Spec

-----------------------------------------------------------------------------
(***************************************************************************)
(* The reads outside a transaction (module FixtureReaders): what the       *)
(* separate SELECTs of one collection or one snapshot have in common.      *)
(***************************************************************************)
WindowType ==
  [pc : {"idle", "open", "cursor", "events", "collected"}, base : Attempts \cup {NoAttempt},
   from : Nat, upto : Nat, attempt : Attempts \cup {NoAttempt}, cursor : Nat, events : SUBSET Nat]
Ledgers == UNION {[1 .. n -> Event] : n \in Nat}
SnapType ==
  [pc : 0 .. 3, attempt : Attempts \cup {NoAttempt}, state : AttemptStates, watermark : Nat,
   requests : [Requests -> RequestStates], audit : Ledgers]

\* The cursor of the window stays where the reset put it, and no write before
\* the collection is beyond the ledger.
WindowInv ==
  window.pc # "idle" =>
    /\ window.base \in Attempts /\ state[window.base] # "NONE"
    /\ cursor[window.base] = window.from /\ window.from <= watermark[window.base]
    /\ window.pc # "open" =>
         /\ window.attempt \in Attempts
         /\ window.from <= window.upto /\ window.upto <= watermark[window.base]
    /\ window.pc \in {"events", "collected"} /\ window.attempt = window.base =>
         window.cursor = window.from
    /\ window.pc = "collected" /\ window.attempt = window.base =>
         \E last \in window.upto .. watermark[window.base] : window.events = (window.from + 1) .. last

\* A snapshot that found the attempt closed found all that there will ever be
\* of it; any other is behind.
Closed(st) == st \notin {"NONE", "PREPARED", "OPEN"}
SnapInv ==
  snap.pc \in 1 .. 2 =>
    /\ snap.attempt \in Attempts /\ snap.state # "NONE" /\ snap.watermark <= watermark[snap.attempt]
    /\ Closed(snap.state) =>
         Closed(state[snap.attempt]) /\ snap.watermark = watermark[snap.attempt]
    /\ snap.pc = 2 =>
         \A q \in Requests :
           /\ snap.requests[q] = "COMMITTED" => requests[snap.attempt][q] = "COMMITTED"
           /\ Closed(snap.state) /\ requests[snap.attempt][q] = "COMMITTED" =>
                snap.requests[q] = "COMMITTED"

ReadersInv ==
  /\ window \in WindowType /\ snap \in SnapType
  /\ WindowInv /\ SnapInv /\ (snap.pc = 3 => snap.state # "NONE") /\ SnapshotIsCoherent

LEMMA ReadersAreOfTheStore == SpecReaders => Spec
<1>1. InitReaders => Init BY DEF InitReaders
<1>2. [NextReaders]_allVars => [Next]_vars
  BY DEF NextReaders, allVars, StoreStep, BeginWindow, SelectActive, SelectCursor, SelectEvents,
         EndWindow, SnapSelect, EndSnap, RestartControl, Next
<1> QED BY <1>1, <1>2, PTL DEF SpecReaders, Spec

\* What never goes back.
LEMMA Onward ==
  ASSUME TypeOK, [Next]_vars, NEW a \in Attempts
  PROVE  /\ watermark[a] \in Nat /\ watermark'[a] \in Nat /\ watermark[a] <= watermark'[a]
         /\ state[a] # "NONE" => state'[a] # "NONE"
         /\ Closed(state[a]) => Closed(state'[a]) /\ watermark'[a] = watermark[a]
         /\ \A q \in Requests : requests[a][q] = "COMMITTED" => requests'[a][q] = "COMMITTED"
         /\ Closed(state[a]) =>
              \A q \in Requests : requests'[a][q] = "COMMITTED" => requests[a][q] = "COMMITTED"
<1>1. /\ state[a] # "NONE" => state'[a] # "NONE"
      /\ Closed(state[a]) => Closed(state'[a])
  BY StateStep DEF Moves, Closed
<1>2. /\ watermark[a] \in Nat /\ watermark'[a] \in Nat /\ watermark[a] <= watermark'[a]
      /\ Closed(state[a]) => watermark'[a] = watermark[a]
  <2>1. watermark[a] \in Nat BY DEF TypeOK
  <2>2. CASE UNCHANGED watermark BY <2>1, <2>2
  <2>3. ASSUME NEW b \in Attempts, NEW q \in Requests, NEW k \in Records, CommitWrite(b, q, k)
        PROVE  /\ watermark'[a] \in Nat /\ watermark[a] <= watermark'[a]
               /\ Closed(state[a]) => watermark'[a] = watermark[a]
    <3>1. WriteCommitted(b, q, k) BY <2>3, CommitFacts
    <3>2. state[b] = "OPEN" BY <2>3 DEF CommitWrite
    <3> QED BY <2>1, <3>1, <3>2 DEF WriteCommitted, Closed
  <2> QED BY <2>1, <2>2, <2>3, StepShape DEF AbortRecovery, RejectWrite, RaiseWrite
<1>3. ASSUME NEW q \in Requests
      PROVE  /\ requests[a][q] = "COMMITTED" => requests'[a][q] = "COMMITTED"
             /\ Closed(state[a]) /\ requests'[a][q] = "COMMITTED" => requests[a][q] = "COMMITTED"
  <2>1. CASE UNCHANGED requests BY <2>1
  <2>2. ASSUME NEW b \in Attempts, AbortRecovery(b)
        PROVE  requests[a][q] = "COMMITTED" <=> requests'[a][q] = "COMMITTED"
    BY <2>2 DEF AbortRecovery, TypeOK
  <2>3. ASSUME NEW b \in Attempts, NEW p \in Requests, RejectWrite(b, p)
        PROVE  requests[a][q] = "COMMITTED" <=> requests'[a][q] = "COMMITTED"
    BY <2>3 DEF RejectWrite, Admissible, TypeOK
  <2>4. ASSUME NEW b \in Attempts, NEW p \in Requests, NEW k \in Records, CommitWrite(b, p, k)
        PROVE  /\ requests[a][q] = "COMMITTED" => requests'[a][q] = "COMMITTED"
               /\ Closed(state[a]) /\ requests'[a][q] = "COMMITTED" => requests[a][q] = "COMMITTED"
    <3>1. WriteCommitted(b, p, k) BY <2>4, CommitFacts
    <3>2. state[b] = "OPEN" BY <2>4 DEF CommitWrite
    <3> QED BY <3>1, <3>2 DEF WriteCommitted, Closed
  <2> QED BY <2>1, <2>2, <2>3, <2>4, StepShape DEF RaiseWrite
<1> QED BY <1>1, <1>2, <1>3

\* A window that is not touched keeps its invariant, whatever the store does.
LEMMA WindowStays ==
  ASSUME TypeOK, [Next]_vars, window \in WindowType, WindowInv, UNCHANGED window,
         window.pc # "idle" => cursor'[window.base] = cursor[window.base]
  PROVE  WindowInv'
<1> SUFFICES ASSUME window.pc # "idle"
             PROVE  /\ window.base \in Attempts /\ state'[window.base] # "NONE"
                    /\ cursor'[window.base] = window.from /\ window.from <= watermark'[window.base]
                    /\ window.pc # "open" =>
                         /\ window.attempt \in Attempts
                         /\ window.from <= window.upto /\ window.upto <= watermark'[window.base]
                    /\ window.pc \in {"events", "collected"} /\ window.attempt = window.base =>
                         window.cursor = window.from
                    /\ window.pc = "collected" /\ window.attempt = window.base =>
                         \E last \in window.upto .. watermark'[window.base] :
                           window.events = (window.from + 1) .. last
  BY DEF WindowInv
<1>p. PICK base \in Attempts : base = window.base BY DEF WindowInv
<1>1. /\ watermark[base] \in Nat /\ watermark'[base] \in Nat /\ watermark[base] <= watermark'[base]
      /\ state[base] # "NONE" => state'[base] # "NONE"
  BY Onward
<1>2. window.from \in Nat /\ window.upto \in Nat BY DEF WindowType
<1>3. /\ state[base] # "NONE" /\ cursor[base] = window.from /\ window.from <= watermark[base]
      /\ window.pc # "open" =>
           window.attempt \in Attempts /\ window.from <= window.upto /\ window.upto <= watermark[base]
      /\ window.pc \in {"events", "collected"} /\ window.attempt = base => window.cursor = window.from
      /\ window.pc = "collected" /\ window.attempt = base =>
           \E last \in window.upto .. watermark[base] : window.events = (window.from + 1) .. last
  BY <1>p DEF WindowInv
<1>4. window.upto .. watermark[base] \subseteq window.upto .. watermark'[base] BY <1>1, <1>2
<1> QED BY <1>p, <1>1, <1>2, <1>3, <1>4

LEMMA SnapStays ==
  ASSUME TypeOK, [Next]_vars, snap \in SnapType, SnapInv, UNCHANGED snap PROVE SnapInv'
<1> SUFFICES ASSUME snap.pc \in 1 .. 2
             PROVE  /\ snap.attempt \in Attempts /\ snap.state # "NONE"
                    /\ snap.watermark <= watermark'[snap.attempt]
                    /\ Closed(snap.state) =>
                         Closed(state'[snap.attempt]) /\ snap.watermark = watermark'[snap.attempt]
                    /\ snap.pc = 2 =>
                         \A q \in Requests :
                           /\ snap.requests[q] = "COMMITTED" => requests'[snap.attempt][q] = "COMMITTED"
                           /\ Closed(snap.state) /\ requests'[snap.attempt][q] = "COMMITTED" =>
                                snap.requests[q] = "COMMITTED"
  BY DEF SnapInv, Closed
<1>p. PICK a \in Attempts : a = snap.attempt BY DEF SnapInv
<1>1. /\ snap.state # "NONE" /\ snap.watermark <= watermark[a]
      /\ Closed(snap.state) => Closed(state[a]) /\ snap.watermark = watermark[a]
      /\ snap.pc = 2 =>
           \A q \in Requests :
             /\ snap.requests[q] = "COMMITTED" => requests[a][q] = "COMMITTED"
             /\ Closed(snap.state) /\ requests[a][q] = "COMMITTED" => snap.requests[q] = "COMMITTED"
  BY <1>p DEF SnapInv
<1>2. snap.watermark \in Nat BY DEF SnapType
<1> QED BY <1>p, <1>1, <1>2, Onward

LEMMA NoSnapType == NoSnap \in SnapType /\ NoSnap.pc = 0
<1>1. NoEvidence.requests \in [Requests -> RequestStates] /\ NoEvidence.audit \in [1 .. 0 -> Event]
  BY DEF NoEvidence, RequestStates
<1>2. NoEvidence.audit \in Ledgers
  <2> PICK n \in Nat : n = 0 OBVIOUS
  <2> QED BY <1>1 DEF Ledgers
<1> QED BY <1>1, <1>2 DEF NoSnap, SnapType, AttemptStates

LEMMA ReaderStarts == InitReaders => ReadersInv
<1> SUFFICES ASSUME InitReaders PROVE ReadersInv OBVIOUS
<1>1. window = NoWindow /\ snap = NoSnap BY DEF InitReaders
<1>2. NoWindow \in WindowType /\ NoWindow.pc = "idle" BY DEF NoWindow, WindowType
<1>3. NoSnap \in SnapType /\ NoSnap.pc = 0 BY NoSnapType
<1> QED BY <1>1, <1>2, <1>3 DEF ReadersInv, WindowInv, SnapInv, SnapshotIsCoherent

\* What a window is with the store as it is.
WindowIs(w) ==
  w.pc # "idle" =>
    /\ w.base \in Attempts /\ state[w.base] # "NONE"
    /\ cursor[w.base] = w.from /\ w.from <= watermark[w.base]
    /\ w.pc # "open" =>
         w.attempt \in Attempts /\ w.from <= w.upto /\ w.upto <= watermark[w.base]
    /\ w.pc \in {"events", "collected"} /\ w.attempt = w.base => w.cursor = w.from
    /\ w.pc = "collected" /\ w.attempt = w.base =>
         \E last \in w.upto .. watermark[w.base] : w.events = (w.from + 1) .. last

\* A SELECT changes only what its reader has seen.
LEMMA ReaderMoves ==
  ASSUME ReadersInv, UNCHANGED vars,
         window' \in WindowType, WindowIs(window'), snap' = snap
  PROVE  ReadersInv'
<1>1. WindowInv' BY DEF WindowInv, WindowIs, vars
<1>2. SnapInv' BY DEF ReadersInv, SnapInv, vars
<1>3. SnapshotIsCoherent' BY DEF ReadersInv, SnapshotIsCoherent
<1> QED BY <1>1, <1>2, <1>3 DEF ReadersInv

LEMMA NoWindowIs == NoWindow \in WindowType /\ NoWindow.pc = "idle"
BY DEF NoWindow, WindowType

LEMMA SelectActiveKeeps == ASSUME TypeOK, ReadersInv, SelectActive PROVE ReadersInv'
<1>1. window.pc = "open" /\ UNCHANGED <<vars, snap>> BY DEF SelectActive
<1>2. CASE active = NoAttempt
  <2>1. window' = NoWindow BY <1>2 DEF SelectActive
  <2> QED BY <1>1, <2>1, NoWindowIs, ReaderMoves DEF WindowIs
<1>3. CASE active # NoAttempt
  <2>p. PICK base \in Attempts : base = window.base BY <1>1 DEF ReadersInv, WindowInv
  <2>1. /\ active \in Attempts /\ watermark[base] \in Nat /\ state[base] # "NONE"
        /\ cursor[base] = window.from /\ window.from <= watermark[base]
    BY <1>1, <1>3, <2>p DEF TypeOK, ReadersInv, WindowInv
  <2>2. window' = [window EXCEPT !.pc = "cursor", !.attempt = active, !.upto = watermark[base]]
    BY <1>3, <2>p DEF SelectActive
  <2>3. /\ window' \in WindowType /\ window'.pc = "cursor" /\ window'.base = base
        /\ window'.from = window.from /\ window'.attempt = active /\ window'.upto = watermark[base]
    BY <2>1, <2>2, <2>p DEF ReadersInv, WindowType
  <2>4. WindowIs(window') BY <2>1, <2>3 DEF WindowIs
  <2> QED BY <1>1, <2>3, <2>4, ReaderMoves
<1> QED BY <1>2, <1>3

LEMMA SelectCursorKeeps == ASSUME TypeOK, ReadersInv, SelectCursor PROVE ReadersInv'
<1>1. window.pc = "cursor" /\ UNCHANGED <<vars, snap>> BY DEF SelectCursor
<1>2. /\ window.base \in Attempts /\ window.attempt \in Attempts /\ state[window.base] # "NONE"
      /\ cursor[window.base] = window.from /\ window.from <= watermark[window.base]
      /\ window.from <= window.upto /\ window.upto <= watermark[window.base]
      /\ cursor[window.attempt] \in Nat
  BY <1>1 DEF TypeOK, ReadersInv, WindowInv
<1>3. window' = [window EXCEPT !.pc = "events", !.cursor = cursor[window.attempt]]
  BY DEF SelectCursor
<1>4. /\ window' \in WindowType /\ window'.pc = "events" /\ window'.base = window.base
      /\ window'.from = window.from /\ window'.attempt = window.attempt
      /\ window'.upto = window.upto /\ window'.cursor = cursor[window.attempt]
  BY <1>2, <1>3 DEF ReadersInv, WindowType
<1>5. WindowIs(window') BY <1>2, <1>4 DEF WindowIs
<1> QED BY <1>1, <1>4, <1>5, ReaderMoves

LEMMA SelectEventsKeeps == ASSUME TypeOK, ReadersInv, SelectEvents PROVE ReadersInv'
<1>1. window.pc = "events" /\ UNCHANGED <<vars, snap>> BY DEF SelectEvents
<1>2. /\ window.base \in Attempts /\ window.attempt \in Attempts /\ state[window.base] # "NONE"
      /\ cursor[window.base] = window.from /\ window.from <= watermark[window.base]
      /\ window.from <= window.upto /\ window.upto <= watermark[window.base]
      /\ window.attempt = window.base => window.cursor = window.from
  BY <1>1 DEF ReadersInv, WindowInv
<1>p. PICK events : events = {s \in DOMAIN audit[window.attempt] : s > window.cursor} OBVIOUS
<1>3. window' = [window EXCEPT !.pc = "collected", !.events = events] BY <1>p DEF SelectEvents
<1>4. DOMAIN audit[window.attempt] = 1 .. watermark[window.attempt] /\ watermark[window.attempt] \in Nat
  BY <1>2 DEF TypeOK
<1>5. events \subseteq Nat BY <1>p, <1>4
<1>6. /\ window' \in WindowType /\ window'.pc = "collected" /\ window'.base = window.base
      /\ window'.from = window.from /\ window'.attempt = window.attempt
      /\ window'.upto = window.upto /\ window'.cursor = window.cursor /\ window'.events = events
  BY <1>3, <1>5 DEF ReadersInv, WindowType
<1>7. ASSUME window.attempt = window.base
      PROVE  \E last \in window.upto .. watermark[window.base] : events = (window.from + 1) .. last
  <2>1. window.from \in Nat /\ window.upto \in Nat BY DEF ReadersInv, WindowType
  <2>2. events = (window.from + 1) .. watermark[window.base] BY <1>2, <1>4, <1>7, <1>p, <2>1
  <2>3. watermark[window.base] \in window.upto .. watermark[window.base] BY <1>2, <1>4, <1>7, <2>1
  <2> QED BY <2>2, <2>3
<1>8. WindowIs(window') BY <1>2, <1>6, <1>7 DEF WindowIs
<1> QED BY <1>1, <1>6, <1>8, ReaderMoves

LEMMA EndWindowKeeps == ASSUME ReadersInv, EndWindow PROVE ReadersInv'
BY NoWindowIs, ReaderMoves DEF EndWindow, WindowIs

\* The part of the invariant that is about the snapshot stays with the snapshot.
LEMMA CoherenceStays == ASSUME ReadersInv, snap' = snap PROVE SnapshotIsCoherent'
BY DEF ReadersInv, SnapshotIsCoherent

LEMMA BeginWindowKeeps ==
  ASSUME TypeOK, ActiveIsLive, ReadersInv, BeginWindow, [Next]_vars PROVE ReadersInv'
<1>p. PICK base : base = active OBVIOUS
<1>1. /\ base # NoAttempt /\ cursor' = [cursor EXCEPT ![base] = watermark[base]]
      /\ UNCHANGED <<state, watermark, snap>>
      /\ window' = [NoWindow EXCEPT !.pc = "open", !.base = base, !.from = watermark[base]]
  BY <1>p DEF BeginWindow, ResetObserverCursor
<1>2. /\ base \in Attempts /\ state[base] # "NONE" /\ watermark[base] \in Nat
      /\ cursor'[base] = watermark[base]
  <2>1. base \in Attempts BY <1>1, <1>p DEF TypeOK
  <2>2. state[base] # "NONE" BY <1>p, <2>1 DEF ActiveIsLive, LiveStates
  <2> QED BY <1>1, <2>1, <2>2 DEF TypeOK
<1>3. /\ window' \in WindowType /\ window'.pc = "open" /\ window'.base = base
      /\ window'.from = watermark[base]
  BY <1>1, <1>2 DEF NoWindow, WindowType
<1>4. WindowInv' BY <1>1, <1>2, <1>3 DEF WindowInv
<1>5. SnapInv' BY <1>1, SnapStays DEF ReadersInv
<1> QED BY <1>1, <1>3, <1>4, <1>5, CoherenceStays DEF ReadersInv

\* Only a reset and a new attempt move a cursor.
LEMMA CursorStays ==
  ASSUME TypeOK, StoreStep \/ RestartControl, NEW a \in Attempts, state[a] # "NONE"
  PROVE  cursor'[a] = cursor[a]
<1>1. ASSUME NEW b \in Attempts, CreateAttempt(b) PROVE cursor'[a] = cursor[a]
  BY <1>1 DEF CreateAttempt, TypeOK
<1>2. CASE UNCHANGED cursor BY <1>2
<1> QED BY <1>1, <1>2
    DEF StoreStep, RestartControl, OpenAttempt, CloseAttempt, FinalSnapshot, FinalizeAttempt,
        AbortRecovery, BusinessWrite, RejectWrite, CommitWrite, RaiseWrite, Bootstrap

LEMMA StoreStepKeeps == ASSUME TypeOK, ReadersInv, StoreStep, [Next]_vars PROVE ReadersInv'
<1>1. UNCHANGED <<window, snap>> BY DEF StoreStep, readers
<1>2. window.pc # "idle" => cursor'[window.base] = cursor[window.base]
  BY CursorStays DEF ReadersInv, WindowInv
<1>3. WindowInv' /\ SnapInv' BY <1>1, <1>2, WindowStays, SnapStays DEF ReadersInv
<1> QED BY <1>1, <1>3, CoherenceStays DEF ReadersInv

LEMMA RestartControlKeeps ==
  ASSUME TypeOK, ReadersInv, RestartControl, [Next]_vars PROVE ReadersInv'
<1>1. WindowInv' /\ window' \in WindowType
  <2>1. CASE window' = NoWindow BY <2>1, NoWindowIs DEF WindowInv
  <2>2. CASE window' = window
    <3>1. window.pc # "idle" => cursor'[window.base] = cursor[window.base]
      BY CursorStays DEF ReadersInv, WindowInv
    <3> QED BY <2>2, <3>1, WindowStays DEF ReadersInv
  <2> QED BY <2>1, <2>2 DEF RestartControl
<1>2. SnapInv' /\ snap' \in SnapType /\ (snap'.pc = 3 => snap'.state # "NONE") /\ SnapshotIsCoherent'
  <2>1. CASE snap' = NoSnap BY <2>1, NoSnapType DEF SnapInv, SnapshotIsCoherent
  <2>2. CASE snap' = snap BY <2>2, SnapStays, CoherenceStays DEF ReadersInv
  <2> QED BY <2>1, <2>2 DEF RestartControl
<1> QED BY <1>1, <1>2 DEF ReadersInv

-----------------------------------------------------------------------------
\* A SELECT of a snapshot leaves the window as it is.
LEMMA SnapMoves ==
  ASSUME ReadersInv, UNCHANGED <<vars, window>>, snap' \in SnapType, SnapInv',
         snap'.pc = 3 => snap'.state # "NONE", SnapshotIsCoherent'
  PROVE  ReadersInv'
<1>1. WindowInv' BY DEF ReadersInv, WindowInv, vars
<1> QED BY <1>1 DEF ReadersInv

\* What a snapshot under way consists of.
LEMMA SnapFields ==
  ASSUME snap \in SnapType
  PROVE  /\ snap.pc \in 0 .. 3 /\ snap.attempt \in Attempts \cup {NoAttempt}
         /\ snap.state \in AttemptStates /\ snap.watermark \in Nat
         /\ snap.requests \in [Requests -> RequestStates] /\ snap.audit \in Ledgers
         /\ snap = [pc |-> snap.pc, attempt |-> snap.attempt, state |-> snap.state,
                    watermark |-> snap.watermark, requests |-> snap.requests, audit |-> snap.audit]
BY DEF SnapType

Snap(pc, a, st, w, reqs, ledger) ==
  [pc |-> pc, attempt |-> a, state |-> st, watermark |-> w, requests |-> reqs, audit |-> ledger]
LEMMA SnapRecord ==
  ASSUME NEW pc \in 0 .. 3, NEW a \in Attempts \cup {NoAttempt}, NEW st \in AttemptStates,
         NEW w \in Nat, NEW reqs \in [Requests -> RequestStates], NEW ledger \in Ledgers
  PROVE  /\ Snap(pc, a, st, w, reqs, ledger) \in SnapType
         /\ Snap(pc, a, st, w, reqs, ledger).pc = pc /\ Snap(pc, a, st, w, reqs, ledger).attempt = a
         /\ Snap(pc, a, st, w, reqs, ledger).state = st
         /\ Snap(pc, a, st, w, reqs, ledger).watermark = w
         /\ Snap(pc, a, st, w, reqs, ledger).requests = reqs
         /\ Snap(pc, a, st, w, reqs, ledger).audit = ledger
BY DEF SnapType, Snap

\* The three SELECTs, one after the other.
LEMMA SnapSelectIs ==
  ASSUME ReadersInv, SnapSelect
  PROVE  \/ /\ snap.pc = 0
            /\ \E a \in Attempts :
                 /\ state[a] # "NONE"
                 /\ snap' = Snap(1, a, state[a], watermark[a], snap.requests, snap.audit)
         \/ /\ snap.pc = 1
            /\ snap' = Snap(2, snap.attempt, snap.state, snap.watermark, requests[snap.attempt], snap.audit)
         \/ /\ snap.pc = 2
            /\ snap' = Snap(3, snap.attempt, snap.state, snap.watermark, snap.requests, audit[snap.attempt])
<1>p. PICK pc \in 0 .. 3 : pc = snap.pc BY SnapFields DEF ReadersInv
<1>0. snap = Snap(pc, snap.attempt, snap.state, snap.watermark, snap.requests, snap.audit)
  BY <1>p, SnapFields DEF ReadersInv, Snap
<1>1. Len(SnapOrder) = 3 /\ SnapOrder[1] = "attempt" /\ SnapOrder[2] = "requests" /\ SnapOrder[3] = "audit"
  BY DEF SnapOrder
<1>2. pc < 3 BY <1>1, <1>p DEF SnapSelect
<1>3. PICK a \in IF snap.pc = 0 THEN {b \in Attempts : state[b] # "NONE"} ELSE {snap.attempt} :
        snap' = [SelectTable(SnapOrder[snap.pc + 1], a) EXCEPT !.pc = @ + 1]
  BY DEF SnapSelect
<1>4. CASE pc = 0
  <2>1. a \in Attempts /\ state[a] # "NONE" BY <1>3, <1>4, <1>p
  <2>p. PICK s : s = Snap(0, a, state[a], watermark[a], snap.requests, snap.audit) OBVIOUS
  <2>a. PICK x, st, w, reqs, ledger :
          /\ snap = Snap(0, x, st, w, reqs, ledger) /\ reqs = snap.requests /\ ledger = snap.audit
    BY <1>0, <1>4
  <2>b. PICK t : t = [snap EXCEPT !.attempt = a, !.state = state[a], !.watermark = watermark[a]] OBVIOUS
  <2>c. t = Snap(0, a, state[a], watermark[a], reqs, ledger) BY <2>a, <2>b DEF Snap
  <2>2. SelectTable("attempt", a) = s BY <2>a, <2>b, <2>c, <2>p DEF SelectTable
  <2>3. SelectTable(SnapOrder[snap.pc + 1], a) = s BY <1>1, <1>4, <1>p, <2>2
  <2>4. snap' = [s EXCEPT !.pc = @ + 1] BY <1>3, <2>3
  <2>5. snap' = Snap(1, a, state[a], watermark[a], snap.requests, snap.audit)
    BY <2>4, <2>p DEF Snap
  <2> QED BY <1>4, <1>p, <2>1, <2>5
<1>5. CASE pc = 1
  <2>1. a = snap.attempt BY <1>3, <1>5, <1>p
  <2>p. PICK s : s = Snap(1, a, snap.state, snap.watermark, requests[a], snap.audit) OBVIOUS
  <2>2. SelectTable("requests", a) = s BY <1>0, <1>5, <2>1, <2>p DEF SelectTable, Snap
  <2>3. SelectTable(SnapOrder[snap.pc + 1], a) = s BY <1>1, <1>5, <1>p, <2>2
  <2>4. snap' = [s EXCEPT !.pc = @ + 1] BY <1>3, <2>3
  <2>5. snap' = Snap(2, a, snap.state, snap.watermark, requests[a], snap.audit)
    BY <2>4, <2>p DEF Snap
  <2> QED BY <1>5, <1>p, <2>1, <2>5
<1>6. CASE pc = 2
  <2>1. a = snap.attempt BY <1>3, <1>6, <1>p
  <2>p. PICK s : s = Snap(2, a, snap.state, snap.watermark, snap.requests, audit[a]) OBVIOUS
  <2>2. SelectTable("audit", a) = s BY <1>0, <1>6, <2>1, <2>p DEF SelectTable, Snap
  <2>3. SelectTable(SnapOrder[snap.pc + 1], a) = s BY <1>1, <1>6, <1>p, <2>2
  <2>4. snap' = [s EXCEPT !.pc = @ + 1] BY <1>3, <2>3
  <2>5. snap' = Snap(3, a, snap.state, snap.watermark, snap.requests, audit[a])
    BY <2>4, <2>p DEF Snap
  <2> QED BY <1>6, <1>p, <2>1, <2>5
<1> QED BY <1>2, <1>4, <1>5, <1>6

LEMMA SnapSelectKeeps ==
  ASSUME TypeOK, CommitsAreAudited, ReadersInv, SnapSelect PROVE ReadersInv'
<1>0. UNCHANGED <<vars, window>> BY DEF SnapSelect
<1>00. UNCHANGED <<state, watermark, requests, audit>> BY <1>0 DEF vars
<1>1. ASSUME NEW a \in Attempts, state[a] # "NONE",
             snap' = Snap(1, a, state[a], watermark[a], snap.requests, snap.audit)
      PROVE  ReadersInv'
  <2>1. /\ state[a] \in AttemptStates /\ watermark[a] \in Nat BY DEF TypeOK
  <2>2. /\ snap' \in SnapType /\ snap'.pc = 1 /\ snap'.attempt = a /\ snap'.state = state[a]
        /\ snap'.watermark = watermark[a]
    BY <1>1, <2>1, SnapFields, SnapRecord DEF ReadersInv
  <2>3. SnapInv' BY <1>00, <1>1, <2>1, <2>2 DEF SnapInv
  <2>4. SnapshotIsCoherent' BY <2>2 DEF SnapshotIsCoherent
  <2> QED BY <1>0, <2>2, <2>3, <2>4, SnapMoves
<1>2. ASSUME snap.pc = 1,
             snap' = Snap(2, snap.attempt, snap.state, snap.watermark, requests[snap.attempt], snap.audit)
      PROVE  ReadersInv'
  <2>1. /\ snap.attempt \in Attempts /\ snap.state # "NONE" /\ snap.watermark <= watermark[snap.attempt]
        /\ Closed(snap.state) =>
             Closed(state[snap.attempt]) /\ snap.watermark = watermark[snap.attempt]
    BY <1>2 DEF ReadersInv, SnapInv
  <2>2. /\ snap' \in SnapType /\ snap'.pc = 2 /\ snap'.attempt = snap.attempt
        /\ snap'.state = snap.state /\ snap'.watermark = snap.watermark
        /\ snap'.requests = requests[snap.attempt]
    <3>1. requests[snap.attempt] \in [Requests -> RequestStates] BY <2>1 DEF TypeOK
    <3> QED BY <1>2, <2>1, <3>1, SnapFields, SnapRecord DEF ReadersInv
  <2>3. SnapInv' BY <1>00, <2>1, <2>2 DEF SnapInv, Closed
  <2>4. SnapshotIsCoherent' BY <2>2 DEF SnapshotIsCoherent
  <2> QED BY <1>0, <2>2, <2>3, <2>4, SnapMoves
<1>3. ASSUME snap.pc = 2,
             snap' = Snap(3, snap.attempt, snap.state, snap.watermark, snap.requests, audit[snap.attempt])
      PROVE  ReadersInv'
  <2>p. PICK a \in Attempts : a = snap.attempt BY <1>3 DEF ReadersInv, SnapInv
  <2>p1. PICK seen : seen = snap.requests OBVIOUS
  <2>p2. PICK ledger : ledger = audit[a] OBVIOUS
  <2>1. /\ snap.state # "NONE" /\ snap.watermark <= watermark[a]
        /\ Closed(snap.state) => snap.watermark = watermark[a]
        /\ \A q \in Requests :
             /\ seen[q] = "COMMITTED" => requests[a][q] = "COMMITTED"
             /\ Closed(snap.state) /\ requests[a][q] = "COMMITTED" => seen[q] = "COMMITTED"
    BY <1>3, <2>p, <2>p1 DEF ReadersInv, SnapInv
  <2>2. /\ ledger \in [1 .. watermark[a] -> Event] /\ watermark[a] \in Nat /\ snap.watermark \in Nat
        /\ \A q \in Requests : requests[a][q] = "COMMITTED" <=> \E s \in DOMAIN ledger : ledger[s].request = q
    <3>1. audit[a] \in [1 .. watermark[a] -> Event] /\ watermark[a] \in Nat BY DEF TypeOK
    <3>2. snap.watermark \in Nat BY DEF ReadersInv, SnapType
    <3>3. CommittedOnce(a) BY DEF CommitsAreAudited
    <3> QED BY <2>p2, <3>1, <3>2, <3>3 DEF CommittedOnce
  <2>l. ledger \in Ledgers BY <2>2 DEF Ledgers
  <2>3. /\ snap' \in SnapType /\ snap'.pc = 3 /\ snap'.state = snap.state
        /\ snap'.watermark = snap.watermark /\ snap'.requests = seen /\ snap'.audit = ledger
    BY <1>3, <2>l, <2>p, <2>p1, <2>p2, SnapFields, SnapRecord DEF ReadersInv
  <2>p3. PICK shown : shown = {ledger[s].request : s \in DOMAIN ledger} OBVIOUS
  <2>p4. PICK committed : committed = {q \in Requests : seen[q] = "COMMITTED"} OBVIOUS
  <2>4. shown \subseteq Requests BY <2>2, <2>p3 DEF Event
  <2>5. committed \subseteq shown BY <2>1, <2>2, <2>p3, <2>p4
  <2>6. Closed(snap.state) => shown \subseteq committed BY <2>1, <2>2, <2>4, <2>p3, <2>p4
  <2>7. DOMAIN ledger = 1 .. watermark[a] BY <2>2
  <2>8. 1 .. snap.watermark \subseteq DOMAIN ledger BY <2>1, <2>2, <2>7
  <2>9. snap.state \notin {"PREPARED", "OPEN"} =>
          committed = shown /\ DOMAIN ledger = 1 .. snap.watermark
    BY <2>1, <2>5, <2>6, <2>7 DEF Closed
  <2>10. SnapshotIsCoherent' BY <2>3, <2>5, <2>8, <2>9, <2>p3, <2>p4 DEF SnapshotIsCoherent
  <2>11. SnapInv' BY <2>3 DEF SnapInv
  <2> QED BY <1>0, <2>1, <2>3, <2>10, <2>11, SnapMoves
<1> QED BY <1>1, <1>2, <1>3, SnapSelectIs

LEMMA EndSnapKeeps == ASSUME ReadersInv, EndSnap PROVE ReadersInv'
<1>1. UNCHANGED <<vars, window>> /\ snap' = NoSnap BY DEF EndSnap
<1> QED BY <1>1, NoSnapType, SnapMoves DEF SnapInv, SnapshotIsCoherent

LEMMA ReaderSteps == IInv /\ ReadersInv /\ [NextReaders]_allVars => ReadersInv'
<1> SUFFICES ASSUME IInv, ReadersInv, [NextReaders]_allVars PROVE ReadersInv' OBVIOUS
<1>0. TypeOK /\ ActiveIsLive /\ CommitsAreAudited BY DEF IInv
<1>1. [Next]_vars
  BY DEF NextReaders, allVars, StoreStep, BeginWindow, SelectActive, SelectCursor, SelectEvents,
         EndWindow, SnapSelect, EndSnap, RestartControl, Next
<1>2. CASE UNCHANGED allVars
  <2>1. UNCHANGED <<vars, window, snap, cursor>> BY <1>2 DEF allVars, vars
  <2>2. WindowInv' /\ SnapInv' BY <1>0, <1>1, <2>1, WindowStays, SnapStays DEF ReadersInv
  <2> QED BY <2>1, <2>2, CoherenceStays DEF ReadersInv
<1> QED BY <1>0, <1>1, <1>2, StoreStepKeeps, BeginWindowKeeps, SelectActiveKeeps, SelectCursorKeeps,
           SelectEventsKeeps, EndWindowKeeps, SnapSelectKeeps, EndSnapKeeps, RestartControlKeeps
        DEF NextReaders

LEMMA CoherentByInv == ReadersInv => ReadsAreCoherent
<1> SUFFICES ASSUME ReadersInv PROVE CollectionIsWhole
  BY DEF ReadersInv, ReadsAreCoherent
<1> SUFFICES ASSUME window.pc = "collected", window.attempt = window.base
             PROVE  /\ (window.from + 1) .. window.upto \subseteq window.events
                    /\ \E last \in window.upto .. watermark[window.base] :
                         window.events = (window.from + 1) .. last
  BY DEF CollectionIsWhole
<1>1. PICK last \in window.upto .. watermark[window.base] : window.events = (window.from + 1) .. last
  BY DEF ReadersInv, WindowInv
<1>2. window.from \in Nat /\ window.upto \in Nat BY DEF ReadersInv, WindowType
<1>3. window.upto <= last /\ last \in Int BY <1>1, <1>2
<1> QED BY <1>1, <1>2, <1>3

\* Neither reader takes a lock; yet a collection has every write between the
\* reset and its beginning and no gap, and a snapshot of a closed attempt agrees
\* in all its parts, whatever is written, fenced or restarted meanwhile.
THEOREM ReadsStayCoherent == SpecReaders => []ReadsAreCoherent
<1>1. SpecReaders => []IInv BY ReadersAreOfTheStore, Inductive, PTL
<1> QED BY <1>1, ReaderStarts, ReaderSteps, CoherentByInv, PTL DEF SpecReaders

-----------------------------------------------------------------------------
(***************************************************************************)
(* An attempt of the approval demo (module AttemptRun): what the release   *)
(* gate makes of it.  Its steps are steps of the store, so the store's     *)
(* invariant holds; RunInv adds what the orchestrator has written.         *)
(***************************************************************************)
Stages ==
  {"new", "created", "guarding", "closed", "exported", "finalized", "assembled", "done", "failed"}
DossierType ==
  [exported : BOOLEAN, requests : [Requests -> RequestStates], audit : Ledgers, watermark : Nat,
   context : BOOLEAN, cleaned : BOOLEAN]

\* What a stage and a dossier have to do with each other.
StageIs(s, d) ==
  /\ s \in {"new", "created", "guarding", "closed"} => ~ d.exported
  /\ s \in {"exported", "finalized", "assembled", "done"} => d.exported
  /\ d.context => d.exported /\ s \in {"assembled", "done", "failed"}
  /\ s \in {"assembled", "done"} => d.context
  /\ d.cleaned <=> s = "done"
\* And the store with both.
StoreIs(st, e, w, s, d) ==
  /\ s \in {"finalized", "assembled", "done"} \/ d.context => st = "FINALIZED"
  /\ d.exported => /\ d.requests = e.requests /\ d.audit = e.audit /\ d.watermark = w
                   /\ st \notin {"NONE", "PREPARED", "OPEN"}

RunType == stage \in [Attempts -> Stages] /\ dossier \in [Attempts -> DossierType]
\* A request is under way only within a transaction.
Settled(a) == \A q \in Requests : requests[a][q] \in {"NONE", "COMMITTED", "REJECTED"}
RunInv ==
  /\ RunType
  /\ \A a \in Attempts :
       /\ Settled(a)
       /\ StageIs(stage[a], dossier[a])
       /\ StoreIs(state[a], evidence[a], watermark[a], stage[a], dossier[a])

\* Every step of a run is a step of the store.
LEMMA RunIsOfTheStore == RunSpec => Spec
<1>1. RunInit => Init BY DEF RunInit
<1>2. [RunNext]_runVars => [Next]_vars
  <2> SUFFICES ASSUME [RunNext]_runVars PROVE [Next]_vars OBVIOUS
  <2>1. CASE Fixtures BY <2>1 DEF Fixtures, Next
  <2>2. ASSUME NEW a \in Attempts, Orchestrate(a) PROVE [Next]_vars
    BY <2>2 DEF Orchestrate, Start, Open, Close, Export, Finalize, Assemble, CleanUp, Abandon,
                FailureFence, Next
  <2>3. CASE UNCHANGED runVars BY <2>3 DEF runVars
  <2> QED BY <2>1, <2>2, <2>3 DEF RunNext
<1> QED BY <1>1, <1>2, PTL DEF RunSpec, Spec

LEMMA SettledStep ==
  ASSUME TypeOK, [Next]_vars, NEW a \in Attempts, Settled(a) PROVE Settled(a)'
<1>1. CASE UNCHANGED requests BY <1>1 DEF Settled
<1>2. ASSUME NEW b \in Attempts, AbortRecovery(b) PROVE Settled(a)'
  BY <1>2 DEF AbortRecovery, Settled, TypeOK
<1>3. ASSUME NEW b \in Attempts, NEW q \in Requests, RejectWrite(b, q) PROVE Settled(a)'
  BY <1>3 DEF RejectWrite, Settled, TypeOK
<1>4. ASSUME NEW b \in Attempts, NEW q \in Requests, NEW k \in Records, CommitWrite(b, q, k)
      PROVE  Settled(a)'
  BY <1>4 DEF CommitWrite, Settled, TypeOK
<1> QED BY <1>1, <1>2, <1>3, <1>4, StepShape DEF RaiseWrite

\* What the store does with an attempt that is fenced, beside a new snapshot.
LEMMA FencedStore ==
  ASSUME TypeOK, [Next]_vars, NEW a \in Attempts, NEW s, NEW d,
         StoreIs(state[a], evidence[a], watermark[a], s, d), evidence'[a] = evidence[a]
  PROVE  StoreIs(state'[a], evidence'[a], watermark'[a], s, d)
<1>1. state[a] = "FINALIZED" => state'[a] = "FINALIZED" BY StateStep DEF Moves
<1>2. state[a] \notin {"NONE", "PREPARED", "OPEN"} =>
        /\ watermark'[a] = watermark[a] /\ state'[a] \notin {"NONE", "PREPARED", "OPEN"}
  BY FencedTables, StateStep DEF Moves
<1> QED BY <1>1, <1>2 DEF StoreIs

\* An attempt whose stage and dossier stay, with its evidence.
AttemptStays(a) == stage'[a] = stage[a] /\ dossier'[a] = dossier[a] /\ evidence'[a] = evidence[a]
AttemptInv(a) ==
  StageIs(stage[a], dossier[a]) /\ StoreIs(state[a], evidence[a], watermark[a], stage[a], dossier[a])
LEMMA StaysKeeps ==
  ASSUME TypeOK, [Next]_vars, NEW a \in Attempts, AttemptInv(a), AttemptStays(a)
  PROVE  AttemptInv(a)'
<1>1. StoreIs(state'[a], evidence'[a], watermark'[a], stage[a], dossier[a])
  BY FencedStore DEF AttemptInv, AttemptStays
<1>2. AttemptInv(a)' <=>
        /\ StageIs(stage'[a], dossier'[a])
        /\ StoreIs(state'[a], evidence'[a], watermark'[a], stage'[a], dossier'[a])
  BY DEF AttemptInv, StageIs, StoreIs
<1> QED BY <1>1, <1>2 DEF AttemptInv, AttemptStays

\* A step of attempt a from one stage to another: all that it changes of the run.
Turn(a, s, d) == stage' = [stage EXCEPT ![a] = s] /\ dossier' = [dossier EXCEPT ![a] = d]

LEMMA TurnKeeps ==
  ASSUME TypeOK, RunInv, [Next]_vars, NEW a \in Attempts, NEW s \in Stages, NEW d \in DossierType,
         Turn(a, s, d), \A b \in Attempts \ {a} : evidence'[b] = evidence[b],
         StageIs(s, d), StoreIs(state'[a], evidence'[a], watermark'[a], s, d)
  PROVE  RunInv'
<1>1. RunType' BY DEF RunInv, RunType, Turn
<1>2. stage'[a] = s /\ dossier'[a] = d BY DEF RunInv, RunType, Turn
<1>3. \A b \in Attempts \ {a} : AttemptStays(b) BY DEF RunInv, RunType, Turn, AttemptStays
<1>4. ASSUME NEW b \in Attempts PROVE AttemptInv(b)'
  <2>1. AttemptInv(b)' <=>
          /\ StageIs(stage'[b], dossier'[b])
          /\ StoreIs(state'[b], evidence'[b], watermark'[b], stage'[b], dossier'[b])
    BY DEF AttemptInv, StageIs, StoreIs
  <2>2. CASE b = a BY <1>2, <2>1, <2>2
  <2>3. CASE b # a
    <3>1. AttemptInv(b) BY DEF RunInv, AttemptInv
    <3> QED BY <1>3, <2>3, <3>1, StaysKeeps
  <2> QED BY <2>2, <2>3
<1>5. \A b \in Attempts : Settled(b)' BY SettledStep DEF RunInv
<1> QED BY <1>1, <1>4, <1>5 DEF RunInv, AttemptInv

\* Everything that leaves the run alone and takes no snapshot.
LEMMA QuietStep ==
  ASSUME TypeOK, RunInv, [Next]_vars, UNCHANGED <<stage, dossier, evidence>> PROVE RunInv'
<1>1. RunType' BY DEF RunInv, RunType
<1>2. ASSUME NEW b \in Attempts PROVE AttemptInv(b)'
  <2>1. AttemptInv(b) BY DEF RunInv, AttemptInv
  <2> QED BY <2>1, StaysKeeps DEF AttemptStays
<1>3. \A b \in Attempts : Settled(b)' BY SettledStep DEF RunInv
<1> QED BY <1>1, <1>2, <1>3 DEF RunInv, AttemptInv

LEMMA OfAttempt ==
  ASSUME RunInv, NEW a \in Attempts
  PROVE  /\ stage[a] \in Stages /\ dossier[a] \in DossierType
         /\ StageIs(stage[a], dossier[a])
         /\ StoreIs(state[a], evidence[a], watermark[a], stage[a], dossier[a])
BY DEF RunInv, RunType

\* A call that changes neither the dossier nor the evidence.
LEMMA CallKeeps ==
  ASSUME TypeOK, RunInv, [Next]_vars, NEW a \in Attempts, NEW from \in Stages, NEW to \in Stages,
         Call(a, from, to), UNCHANGED <<dossier, evidence>>,
         <<from, to>> \in { <<"new", "created">>, <<"created", "guarding">>, <<"guarding", "closed">>,
                            <<"exported", "finalized">> },
         to = "finalized" => state'[a] = "FINALIZED"
  PROVE  RunInv'
<1>1. PICK s \in {to, "failed"} : stage' = [stage EXCEPT ![a] = s] BY DEF Call
<1>2. stage[a] = from BY DEF Call
<1>3. Turn(a, s, dossier[a]) BY <1>1, OfAttempt DEF Turn, RunInv, RunType
<1>4. StageIs(s, dossier[a]) BY <1>2, OfAttempt DEF StageIs
<1>5. StoreIs(state'[a], evidence'[a], watermark'[a], from, dossier[a])
  BY <1>2, OfAttempt, FencedStore
<1>6. StoreIs(state'[a], evidence'[a], watermark'[a], s, dossier[a]) BY <1>5 DEF StoreIs
<1>7. s \in Stages BY DEF Stages
<1> QED BY <1>3, <1>4, <1>6, <1>7, OfAttempt, TurnKeeps

LEMMA ExportKeeps ==
  ASSUME TypeOK, RunInv, [Next]_vars, NEW a \in Attempts, Export(a) PROVE RunInv'
<1>1. PICK s \in {"exported", "failed"} : stage' = [stage EXCEPT ![a] = s] BY DEF Export, Call
<1>2. /\ stage[a] = "closed" /\ stage'[a] = s
  BY <1>1 DEF Export, Call, RunInv, RunType
<1>3. /\ state[a] = "FENCED" /\ UNCHANGED <<state, watermark>>
      /\ evidence' = [evidence EXCEPT ![a] = [requests |-> requests[a], audit |-> audit[a]]]
  BY DEF Export, FinalSnapshot, RequireActiveState
<1>4. /\ evidence'[a].requests = requests[a] /\ evidence'[a].audit = audit[a]
      /\ \A b \in Attempts \ {a} : evidence'[b] = evidence[b]
  BY <1>3 DEF TypeOK
<1>5. requests[a] \in [Requests -> RequestStates] /\ audit[a] \in Ledgers /\ watermark[a] \in Nat
  BY DEF TypeOK, Ledgers
<1>6. ~ dossier[a].exported /\ ~ dossier[a].context /\ ~ dossier[a].cleaned
  BY <1>2, OfAttempt DEF StageIs
<1>7. CASE s = "failed"
  <2>1. Turn(a, s, dossier[a])
    BY <1>1, <1>2, <1>7 DEF Export, Turn, RunInv, RunType
  <2>2. StageIs(s, dossier[a]) BY <1>6, <1>7 DEF StageIs
  <2>3. StoreIs(state'[a], evidence'[a], watermark'[a], s, dossier[a])
    BY <1>6, <1>7 DEF StoreIs
  <2>4. s \in Stages BY DEF Stages
  <2> QED BY <1>4, <2>1, <2>2, <2>3, <2>4, OfAttempt, TurnKeeps
<1>8. CASE s = "exported"
  <2>p. PICK d : d = [dossier[a] EXCEPT !.exported = TRUE, !.requests = evidence'[a].requests,
                                        !.audit = evidence'[a].audit, !.watermark = watermark[a]]
    OBVIOUS
  <2>0. /\ d \in DossierType /\ d.exported /\ d.requests = requests[a] /\ d.audit = audit[a]
        /\ d.watermark = watermark[a] /\ ~ d.context /\ ~ d.cleaned
    BY <1>4, <1>5, <1>6, <2>p, OfAttempt DEF DossierType
  <2>1. Turn(a, s, d)
    BY <1>1, <1>2, <1>8, <2>p DEF Export, Turn, RunInv, RunType
  <2>2. StageIs(s, d) BY <1>8, <2>0 DEF StageIs
  <2>3. StoreIs(state'[a], evidence'[a], watermark'[a], s, d)
    BY <1>3, <1>4, <1>8, <2>0 DEF StoreIs
  <2>4. s \in Stages BY DEF Stages
  <2> QED BY <1>4, <2>0, <2>1, <2>2, <2>3, <2>4, TurnKeeps
<1> QED BY <1>7, <1>8

LEMMA ContextKeeps ==
  ASSUME TypeOK, RunInv, [Next]_vars, NEW a \in Attempts, Assemble(a) \/ CleanUp(a) PROVE RunInv'
<1>0. UNCHANGED <<state, evidence, watermark>> BY DEF Assemble, CleanUp, vars
<1>1. CASE Assemble(a)
  <2>p. PICK d : d = [dossier[a] EXCEPT !.context = TRUE] OBVIOUS
  <2>1. stage[a] = "finalized" BY <1>1 DEF Assemble
  <2>2. /\ d \in DossierType /\ d.context /\ d.exported = dossier[a].exported
        /\ d.requests = dossier[a].requests /\ d.audit = dossier[a].audit
        /\ d.watermark = dossier[a].watermark /\ d.cleaned = dossier[a].cleaned
    BY <2>p, OfAttempt DEF DossierType
  <2>3. Turn(a, "assembled", d) BY <1>1, <2>p DEF Assemble, Turn, RunInv, RunType
  <2>4. StageIs("assembled", d) BY <2>1, <2>2, OfAttempt DEF StageIs
  <2>5. StoreIs(state'[a], evidence'[a], watermark'[a], "assembled", d)
    BY <1>0, <2>1, <2>2, OfAttempt DEF StoreIs
  <2>6. "assembled" \in Stages BY DEF Stages
  <2> QED BY <1>0, <2>2, <2>3, <2>4, <2>5, <2>6, TurnKeeps
<1>2. CASE CleanUp(a)
  <2>1. PICK s \in {"done", "failed"} : stage' = [stage EXCEPT ![a] = s]
    BY <1>2 DEF CleanUp, Call
  <2>2. stage[a] = "assembled" /\ stage'[a] = s BY <1>2, <2>1 DEF CleanUp, Call, RunInv, RunType
  <2>3. CASE s = "failed"
    <3>1. Turn(a, s, dossier[a]) BY <1>2, <2>1, <2>2, <2>3 DEF CleanUp, Turn, RunInv, RunType
    <3>2. StageIs(s, dossier[a]) BY <2>2, <2>3, OfAttempt DEF StageIs
    <3>3. StoreIs(state'[a], evidence'[a], watermark'[a], s, dossier[a])
      BY <1>0, <2>2, <2>3, OfAttempt DEF StoreIs
    <3>4. s \in Stages BY DEF Stages
    <3> QED BY <1>0, <3>1, <3>2, <3>3, <3>4, OfAttempt, TurnKeeps
  <2>4. CASE s = "done"
    <3>p. PICK d : d = [dossier[a] EXCEPT !.cleaned = TRUE] OBVIOUS
    <3>0. /\ d \in DossierType /\ d.cleaned /\ d.exported = dossier[a].exported
          /\ d.requests = dossier[a].requests /\ d.audit = dossier[a].audit
          /\ d.watermark = dossier[a].watermark /\ d.context = dossier[a].context
      BY <3>p, OfAttempt DEF DossierType
    <3>1. Turn(a, s, d) BY <1>2, <2>1, <2>2, <2>4, <3>p DEF CleanUp, Turn, RunInv, RunType
    <3>2. StageIs(s, d) BY <2>2, <2>4, <3>0, OfAttempt DEF StageIs
    <3>3. StoreIs(state'[a], evidence'[a], watermark'[a], s, d)
      BY <1>0, <2>2, <2>4, <3>0, OfAttempt DEF StoreIs
    <3>4. s \in Stages BY DEF Stages
    <3> QED BY <1>0, <3>0, <3>1, <3>2, <3>3, <3>4, TurnKeeps
  <2> QED BY <2>3, <2>4
<1> QED BY <1>1, <1>2

LEMMA AbandonKeeps ==
  ASSUME TypeOK, RunInv, [Next]_vars, NEW a \in Attempts, Abandon(a) PROVE RunInv'
<1>1. /\ stage[a] \notin {"new", "failed", "done"} /\ UNCHANGED <<dossier, state, evidence, watermark>>
      /\ stage' = [stage EXCEPT ![a] = "failed"]
  BY DEF Abandon, vars
<1>2. Turn(a, "failed", dossier[a]) BY <1>1 DEF Turn, RunInv, RunType
<1>3. StageIs("failed", dossier[a]) BY <1>1, OfAttempt DEF StageIs
<1>4. StoreIs(state'[a], evidence'[a], watermark'[a], "failed", dossier[a])
  BY <1>1, OfAttempt DEF StoreIs
<1>5. "failed" \in Stages BY DEF Stages
<1> QED BY <1>1, <1>2, <1>3, <1>4, <1>5, OfAttempt, TurnKeeps

LEMMA RunStarts == RunInit => RunInv
<1> SUFFICES ASSUME RunInit PROVE RunInv OBVIOUS
<1>1. NoDossier \in DossierType
  <2>1. NoEvidence.requests \in [Requests -> RequestStates] /\ NoEvidence.audit \in [1 .. 0 -> Event]
    BY DEF NoEvidence, RequestStates
  <2>2. NoEvidence.audit \in Ledgers
    <3> PICK n \in Nat : n = 0 OBVIOUS
    <3> QED BY <2>1 DEF Ledgers
  <2> QED BY <2>1, <2>2 DEF NoDossier, DossierType
<1>2. RunType BY <1>1 DEF RunInit, RunType, Stages
<1>3. ASSUME NEW a \in Attempts
      PROVE  /\ Settled(a) /\ StageIs(stage[a], dossier[a])
             /\ StoreIs(state[a], evidence[a], watermark[a], stage[a], dossier[a])
  <2>1. stage[a] = "new" /\ dossier[a] = NoDossier BY DEF RunInit
  <2>2. Settled(a) BY DEF RunInit, Init, Settled
  <2>3. ~ NoDossier.exported /\ ~ NoDossier.context /\ ~ NoDossier.cleaned BY DEF NoDossier
  <2> QED BY <2>1, <2>2, <2>3 DEF StageIs, StoreIs
<1> QED BY <1>2, <1>3 DEF RunInv

LEMMA RunSteps == TypeOK /\ RunInv /\ [RunNext]_runVars => RunInv'
<1> SUFFICES ASSUME TypeOK, RunInv, [RunNext]_runVars PROVE RunInv' OBVIOUS
<1>1. ASSUME Fixtures PROVE RunInv'
  <2>1. [Next]_vars BY <1>1 DEF Fixtures, Next
  <2>2. UNCHANGED <<stage, dossier, evidence>>
    BY <1>1 DEF Fixtures, ResetObserverCursor, BusinessWrite, RejectWrite, CommitWrite, RaiseWrite,
                AbortRecovery, Bootstrap
  <2> QED BY <2>1, <2>2, QuietStep
<1>2. ASSUME NEW a \in Attempts, Orchestrate(a) PROVE RunInv'
  <2>0. [Next]_vars
    BY <1>2 DEF Orchestrate, Start, Open, Close, Export, Finalize, Assemble, CleanUp, Abandon,
                FailureFence, Next
  <2>s. Stages = {"new", "created", "guarding", "closed", "exported", "finalized", "assembled",
                  "done", "failed"}
    BY DEF Stages
  <2>1. CASE Start(a)
    <3>1. Call(a, "new", "created") /\ UNCHANGED <<dossier, evidence>>
      BY <2>1 DEF Start, CreateAttempt
    <3> QED BY <2>0, <2>s, <3>1, CallKeeps
  <2>2. CASE Open(a)
    <3>1. Call(a, "created", "guarding") /\ UNCHANGED <<dossier, evidence>>
      BY <2>2 DEF Open, OpenAttempt
    <3> QED BY <2>0, <2>s, <3>1, CallKeeps
  <2>3. CASE Close(a)
    <3>1. Call(a, "guarding", "closed") /\ UNCHANGED <<dossier, evidence>>
      BY <2>3 DEF Close, CloseAttempt
    <3> QED BY <2>0, <2>s, <3>1, CallKeeps
  <2>4. CASE Finalize(a)
    <3>1. Call(a, "exported", "finalized") /\ UNCHANGED <<dossier, evidence>>
      BY <2>4 DEF Finalize, FinalizeAttempt
    <3>2. state'[a] = "FINALIZED" BY <2>4 DEF Finalize, FinalizeAttempt, TypeOK
    <3> QED BY <2>0, <2>s, <3>1, <3>2, CallKeeps
  <2>5. CASE FailureFence(a)
    BY <2>0, <2>5, QuietStep DEF FailureFence, CloseAttempt
  <2> QED BY <1>2, <2>0, <2>1, <2>2, <2>3, <2>4, <2>5, ExportKeeps, ContextKeeps, AbandonKeeps
          DEF Orchestrate
<1>3. CASE UNCHANGED runVars
  <2>1. [Next]_vars /\ UNCHANGED <<stage, dossier, evidence>> BY <1>3 DEF runVars, vars
  <2> QED BY <2>1, QuietStep
<1> QED BY <1>1, <1>2, <1>3 DEF RunNext

LEMMA RunIsSound == RunSpec => [](IInv /\ RunInv)
<1>1. RunSpec => []IInv BY RunIsOfTheStore, Inductive, PTL
<1>2. IInv => TypeOK BY DEF IInv
<1> QED BY <1>1, <1>2, RunStarts, RunSteps, PTL DEF RunSpec

-----------------------------------------------------------------------------
(***************************************************************************)
(* What the gate makes of a dossier.                                       *)
(***************************************************************************)
\* The reference is approved, so it gives no reason to refuse it again.
LEMMA ReferenceIsClean ==
  ASSUME NEW a
  PROVE  /\ AssessReport(GateEvidence(a).report) = Nothing
         /\ AssessComparison(GateEvidence(a)) = Nothing
<1>p1. PICK e : e = GateEvidence(a) OBVIOUS
<1>p2. PICK c : c = [report |-> Reference, comparison |-> "comparable", capabilities |-> "same"] OBVIOUS
<1>1. e.report = Reference /\ e.comparison = "comparable" /\ e.capabilities = "same"
  BY <1>p1 DEF GateEvidence
<1>2. c.report = Reference /\ c.comparison = "comparable" /\ c.capabilities = "same" BY <1>p2
<1>3. \A status : New(e, status) = New(c, status) BY <1>1, <1>2 DEF New
<1>4. CoverageRegressed(e) = CoverageRegressed(c) BY <1>1, <1>2, <1>3 DEF CoverageRegressed
<1>5. AssessComparison(e) = AssessComparison(c) BY <1>1, <1>2, <1>3, <1>4 DEF AssessComparison
<1> QED BY <1>1, <1>5, <1>p1, <1>p2, ReferenceAssumption

LEMMA CountedTo == \A n \in Nat : Cardinality(1 .. n) = n
BY FS_Interval

\* The snapshot of a dossier whose audit shows each committed request once.
Told(d) ==
  /\ d.audit \in [1 .. d.watermark -> Event]
  /\ d.requests \in [Requests -> {"NONE", "COMMITTED", "REJECTED"}]
  /\ \A q \in Requests :
       d.requests[q] = "COMMITTED" <=> \E s \in 1 .. d.watermark : d.audit[s].request = q
  /\ \A s, t \in 1 .. d.watermark : d.audit[s].request = d.audit[t].request => s = t

LEMMA SnapshotIsSound ==
  ASSUME NEW a \in Attempts, dossier[a] \in DossierType, Told(dossier[a])
  PROVE  /\ AssessSnapshot(GateSnapshot(a), a).violation <=>
              \E q \in Requests : dossier[a].requests[q] = "COMMITTED"
         /\ ~ AssessSnapshot(GateSnapshot(a), a).invalid
         /\ AssessSnapshot(GateSnapshot(a), a).review <=>
              \E q \in Requests : dossier[a].requests[q] = "REJECTED"
<1>p1. PICK w \in Nat : w = dossier[a].watermark BY DEF DossierType
<1>p2. PICK audited : audited = dossier[a].audit OBVIOUS
<1>p3. PICK asked : asked = dossier[a].requests OBVIOUS
<1>0. /\ audited \in [1 .. w -> Event] /\ asked \in [Requests -> {"NONE", "COMMITTED", "REJECTED"}]
      /\ \A q \in Requests : asked[q] = "COMMITTED" <=> \E s \in 1 .. w : audited[s].request = q
      /\ \A s, t \in 1 .. w : audited[s].request = audited[t].request => s = t
      /\ \A s \in 1 .. w : audited[s].request \in Requests
  BY <1>p1, <1>p2, <1>p3 DEF Told, Event
<1>p4. PICK list : list = [s \in 1 .. w |->
                             [seq |-> s, id |-> s, request |-> audited[s].request, genuine |-> TRUE]]
  OBVIOUS
<1>p5. PICK rows : rows = [q \in Rows(asked) |->
                             [id |-> q, attempt |-> a, genuine |-> TRUE, state |-> asked[q]]]
  OBVIOUS
<1>p6. PICK snapshot : snapshot = GateSnapshot(a) OBVIOUS
<1>1. Cardinality(DOMAIN audited) = w
  <2>1. DOMAIN audited = 1 .. w BY <1>0
  <2> QED BY <1>p1, <2>1, CountedTo
<1>2. /\ snapshot.attempt = a /\ snapshot.state = "FENCED" /\ snapshot.complete
      /\ snapshot.watermark = w /\ snapshot.audit = list /\ snapshot.requests = rows
  BY <1>1, <1>p1, <1>p2, <1>p3, <1>p4, <1>p5, <1>p6 DEF GateSnapshot
<1>3. Len(list) = w
  <2>1. list \in Seq([seq : Nat, id : Nat, request : Requests, genuine : BOOLEAN])
    <3>1. list \in [1 .. w -> [seq : Nat, id : Nat, request : Requests, genuine : BOOLEAN]]
      BY <1>0, <1>p4
    <3> QED BY <3>1, SeqDef
  <2>2. Len(list) \in Nat /\ DOMAIN list = 1 .. Len(list) BY <2>1, LenProperties
  <2>3. DOMAIN list = 1 .. w BY <1>p4
  <2> QED BY <1>p1, <2>2, <2>3, CountedTo
<1>4. /\ DOMAIN list = 1 .. w
      /\ \A s \in 1 .. w : /\ list[s].seq = s /\ list[s].id = s /\ list[s].genuine
                           /\ list[s].request = audited[s].request
  BY <1>p4
<1>5. /\ DOMAIN rows = Rows(asked)
      /\ \A q \in Rows(asked) : /\ rows[q].id = q /\ rows[q].attempt = a /\ rows[q].genuine
                                /\ rows[q].state = asked[q]
  BY <1>p5
<1>6. Rows(asked) = {q \in Requests : asked[q] \in {"COMMITTED", "REJECTED"}} BY <1>0 DEF Rows
<1>7. Committed(snapshot) = {q \in Requests : asked[q] = "COMMITTED"}
  BY <1>2, <1>5, <1>6 DEF Committed
<1>8. Audited(snapshot) = {q \in Requests : asked[q] = "COMMITTED"}
  BY <1>0, <1>2, <1>4 DEF Audited
<1>9. Attributed(snapshot, a)
  <2>1. DistinctIds(list) /\ DistinctRequests(list) BY <1>0, <1>4 DEF DistinctIds, DistinctRequests
  <2>2. DistinctIds(rows) BY <1>5 DEF DistinctIds
  <2> QED BY <1>2, <1>4, <1>5, <1>7, <1>8, <2>1, <2>2 DEF Attributed
<1>10. Completed(snapshot) BY <1>2, <1>3, <1>5, <1>6 DEF Completed
<1>11. Rejected(snapshot) <=> \E q \in Requests : asked[q] = "REJECTED"
  BY <1>2, <1>5, <1>6 DEF Rejected
<1>p7. PICK reasons : reasons = AssessSnapshot(snapshot, a) OBVIOUS
<1>12. /\ reasons.violation <=> Committed(snapshot) # {}
       /\ ~ reasons.invalid
       /\ reasons.review <=> Rejected(snapshot)
  BY <1>9, <1>10, <1>p7 DEF AssessSnapshot
<1> QED BY <1>7, <1>11, <1>12, <1>p3, <1>p6, <1>p7

\* Without a context nothing is accepted or blocked; with one the outcome is
\* that of the requests, once cleanup is complete.
LEMMA GateOutcomeIs ==
  ASSUME NEW a \in Attempts, dossier[a] \in DossierType
  PROVE  /\ ~ dossier[a].context => GateOutcome(a) = "INVALID"
         /\ dossier[a].context /\ Told(dossier[a]) =>
              GateOutcome(a) =
                IF \E q \in Requests : dossier[a].requests[q] = "COMMITTED" THEN "BLOCK"
                ELSE IF ~ dossier[a].cleaned THEN "INVALID"
                ELSE IF \E q \in Requests : dossier[a].requests[q] = "REJECTED" THEN "REVIEW"
                ELSE "PASS"
<1>p1. PICK e : e = GateEvidence(a) OBVIOUS
<1>1. /\ e.authority = TRUE /\ e.binding = dossier[a].context /\ e.bound = Sources
      /\ e.snapshot = GateSnapshot(a) /\ e.report = Reference /\ e.receipt = TRUE
      /\ e.comparison = "comparable" /\ e.capabilities = "same"
      /\ e.finalized = dossier[a].context /\ e.cleaned = dossier[a].cleaned
  BY <1>p1 DEF GateEvidence
<1>2. ~ dossier[a].context => Outcome(e, a) = "INVALID" BY <1>1 DEF Outcome
<1>3. ASSUME dossier[a].context, Told(dossier[a])
      PROVE  Outcome(e, a) =
               IF \E q \in Requests : dossier[a].requests[q] = "COMMITTED" THEN "BLOCK"
               ELSE IF ~ dossier[a].cleaned THEN "INVALID"
               ELSE IF \E q \in Requests : dossier[a].requests[q] = "REJECTED" THEN "REVIEW"
               ELSE "PASS"
  <2>1. Evaluated(e) = {"final_snapshot", "guard_report", "receipt", "tool_inventory", "comparator"}
    BY <1>1 DEF Evaluated, Comparable, Sources
  <2>2. /\ Assessment(e, a, "final_snapshot") = AssessSnapshot(GateSnapshot(a), a)
        /\ Assessment(e, a, "guard_report") = Nothing
        /\ Assessment(e, a, "tool_inventory") = Nothing
        /\ Assessment(e, a, "comparator") = Nothing
    BY <1>1, <1>p1, ReferenceIsClean DEF Assessment
  <2>3. Assessment(e, a, "receipt") = [Nothing EXCEPT !.invalid = ~ e.receipt] BY DEF Assessment
  <2>4. /\ ~ Assessment(e, a, "receipt").violation /\ ~ Assessment(e, a, "receipt").invalid
        /\ ~ Assessment(e, a, "receipt").review
    BY <1>1, <2>3 DEF Nothing
  <2>5. ~ Nothing.violation /\ ~ Nothing.invalid /\ ~ Nothing.review BY DEF Nothing
  <2>6. Violated(e, a) <=> AssessSnapshot(GateSnapshot(a), a).violation
    BY <2>1, <2>2, <2>4, <2>5 DEF Violated
  <2>7. ToReview(e, a) <=> AssessSnapshot(GateSnapshot(a), a).review
    BY <2>1, <2>2, <2>4, <2>5 DEF ToReview
  <2>8. Incomplete(e, a) <=> AssessSnapshot(GateSnapshot(a), a).invalid \/ ~ dossier[a].cleaned
    BY <1>1, <1>3, <2>1, <2>2, <2>4, <2>5 DEF Incomplete
  <2> QED BY <1>1, <1>3, <2>6, <2>7, <2>8, SnapshotIsSound DEF Outcome
<1> QED BY <1>2, <1>3, <1>p1 DEF GateOutcome

\* A dossier with a context is the store's account of a finalized attempt.
LEMMA DossierIsTold ==
  ASSUME IInv, RunInv, NEW a \in Attempts, dossier[a].context
  PROVE  /\ state[a] = "FINALIZED" /\ Told(dossier[a])
         /\ dossier[a].requests = requests[a] /\ dossier[a].audit = audit[a]
<1>1. /\ state[a] = "FINALIZED" /\ dossier[a].exported /\ dossier[a].requests = evidence[a].requests
      /\ dossier[a].audit = evidence[a].audit /\ dossier[a].watermark = watermark[a]
  BY OfAttempt DEF StageIs, StoreIs
<1>2. EvidenceIsWhole BY IInvEvidence
<1>3. evidence[a] = [requests |-> requests[a], audit |-> audit[a]] BY <1>1, <1>2 DEF EvidenceIsWhole
<1>4. dossier[a].requests = requests[a] /\ dossier[a].audit = audit[a] BY <1>1, <1>3
<1>5. /\ audit[a] \in [1 .. watermark[a] -> Event] /\ requests[a] \in [Requests -> RequestStates]
      /\ CommittedOnce(a) /\ Settled(a)
  BY DEF IInv, TypeOK, CommitsAreAudited, RunInv
<1>6. requests[a] \in [Requests -> {"NONE", "COMMITTED", "REJECTED"}] BY <1>5 DEF Settled
<1>7. DOMAIN audit[a] = 1 .. watermark[a] BY <1>5
<1>8. Told(dossier[a]) BY <1>1, <1>4, <1>5, <1>6, <1>7 DEF Told, CommittedOnce
<1> QED BY <1>1, <1>4, <1>8

LEMMA VerdictByInv == IInv /\ RunInv => VerdictIsTrue
<1> SUFFICES ASSUME IInv, RunInv, NEW a \in Attempts, dossier[a].context
             PROVE  /\ state[a] = "FINALIZED"
                    /\ GateOutcome(a) = "BLOCK" <=> Wrote(a)
                    /\ GateOutcome(a) = "PASS" <=> stage[a] = "done" /\ ~ Tried(a)
                    /\ GateOutcome(a) = "REVIEW" <=> stage[a] = "done" /\ Tried(a) /\ ~ Wrote(a)
  BY DEF VerdictIsTrue
<1>1. dossier[a] \in DossierType /\ (dossier[a].cleaned <=> stage[a] = "done")
  BY OfAttempt DEF StageIs
<1>2. /\ state[a] = "FINALIZED" /\ Told(dossier[a]) /\ dossier[a].requests = requests[a]
  BY DossierIsTold
<1>3. Wrote(a) <=> \E q \in Requests : dossier[a].requests[q] = "COMMITTED" BY <1>2 DEF Wrote
<1>4. Tried(a) <=> Wrote(a) \/ \E q \in Requests : dossier[a].requests[q] = "REJECTED"
  <2>1. \A q \in Requests : requests[a][q] \in {"NONE", "COMMITTED", "REJECTED"}
    BY DEF RunInv, Settled
  <2> QED BY <1>2, <2>1 DEF Tried, Wrote
<1> QED BY <1>1, <1>2, <1>3, <1>4, GateOutcomeIs

\* The gate blocks exactly the assembled attempts in which a write was
\* committed, and passes only those that ended properly with nothing tried,
\* for any requests and restarts, before or after.
THEOREM VerdictsAreTrue == RunSpec => []VerdictIsTrue
BY RunIsSound, VerdictByInv, PTL

\* An attempt that the gate can accept is over: neither it nor its outcome
\* changes any more.
THEOREM AcceptedAreOver == RunSpec => AcceptedIsOver
<1>1. ASSUME IInv, RunInv, [RunNext]_runVars, NEW a \in Attempts, GateOutcome(a) \in {"PASS", "REVIEW"}
      PROVE  /\ GateOutcome(a)' = GateOutcome(a)
             /\ requests'[a] = requests[a] /\ audit'[a] = audit[a] /\ state'[a] = state[a]
  <2>1. dossier[a].context BY <1>1, OfAttempt, GateOutcomeIs
  <2>2. state[a] = "FINALIZED" /\ stage[a] = "done"
    BY <1>1, <2>1, DossierIsTold, VerdictByInv DEF VerdictIsTrue
  <2>3. [Next]_vars
    BY <1>1 DEF RunNext, Fixtures, Orchestrate, Start, Open, Close, Export, Finalize, Assemble,
                CleanUp, Abandon, FailureFence, Next, runVars
  <2>4. TypeOK /\ ActiveIsLive BY <1>1 DEF IInv
  <2>5. requests'[a] = requests[a] /\ state'[a] = state[a] /\ audit'[a] = audit[a]
    BY <2>2, <2>3, <2>4, FinishedStays, StateStep, FencedTables DEF Moves
  <2>6. dossier'[a] = dossier[a]
    <3>1. CASE UNCHANGED dossier BY <3>1
    <3>2. ASSUME NEW b \in Attempts, Export(b) \/ Assemble(b) \/ CleanUp(b) PROVE dossier'[a] = dossier[a]
      <4>1. b # a BY <2>2, <3>2 DEF Export, Assemble, CleanUp, Call
      <4> QED BY <1>1, <3>2, <4>1 DEF Export, Assemble, CleanUp, RunInv, RunType
    <3> QED BY <1>1, <3>1, <3>2
        DEF RunNext, Fixtures, Orchestrate, Start, Open, Close, Finalize, Abandon, FailureFence, runVars
  <2>7. GateOutcome(a)' = GateOutcome(a)
    BY <2>6 DEF GateOutcome, GateEvidence, GateSnapshot
  <2> QED BY <2>5, <2>7
<1>2. IInv /\ RunInv /\ [RunNext]_runVars =>
        [\A a \in Attempts : GateOutcome(a) \in {"PASS", "REVIEW"} =>
           /\ GateOutcome(a)' = GateOutcome(a)
           /\ requests'[a] = requests[a] /\ audit'[a] = audit[a] /\ state'[a] = state[a]]_runVars
  BY <1>1
<1> QED BY <1>2, RunIsSound, PTL DEF RunSpec, AcceptedIsOver
=============================================================================
