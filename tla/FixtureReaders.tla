--------------------------- MODULE FixtureReaders ---------------------------
(***************************************************************************)
(* The operations of the fixture store that only read                      *)
(* (assurance/phase2/fixture/store.py, observer_events and snapshot) run   *)
(* outside a transaction: every SELECT sees the committed state of its own *)
(* moment, and writes, fences and restarts happen between two of them.     *)
(* They are composed here with the store.  One guard opens an observation  *)
(* window by resetting the observer cursor and later collects its events;  *)
(* observer ownership keeps a second guard from resetting it meanwhile     *)
(* (module Ownership).  Another client takes a plain snapshot.             *)
(***************************************************************************)
EXTENDS Fixture, Sequences

VARIABLES
  window,     \* the guard's observation window and the collection that ends it
  snap        \* a snapshot under way

readers == <<window, snap>>
allVars == <<vars, window, snap>>

\* base and from are the attempt and watermark at the reset, upto the
\* watermark when the collection began; the rest is what the SELECTs returned.
NoWindow == [pc |-> "idle", base |-> NoAttempt, from |-> 0, upto |-> 0,
             attempt |-> NoAttempt, cursor |-> 0, events |-> {}]
NoSnap == [pc |-> 0, attempt |-> NoAttempt, state |-> "NONE", watermark |-> 0,
           requests |-> NoEvidence.requests, audit |-> NoEvidence.audit]

InitReaders == Init /\ window = NoWindow /\ snap = NoSnap

-----------------------------------------------------------------------------
\* POST /observer/reset at the start of a window.
BeginWindow ==
  /\ window.pc = "idle"
  /\ ResetObserverCursor
  /\ window' = [NoWindow EXCEPT !.pc = "open", !.base = active, !.from = watermark[active]]
  /\ UNCHANGED snap

\* observer_events: which attempt is active, where its cursor is, what follows.
SelectActive ==
  /\ window.pc = "open"
  /\ window' = IF active = NoAttempt
                 THEN NoWindow      \* raised: the collection fails
                 ELSE [window EXCEPT !.pc = "cursor", !.attempt = active,
                                     !.upto = watermark[window.base]]
  /\ UNCHANGED <<vars, snap>>

SelectCursor ==
  /\ window.pc = "cursor"
  /\ window' = [window EXCEPT !.pc = "events", !.cursor = cursor[window.attempt]]
  /\ UNCHANGED <<vars, snap>>

\* Mutant: the event the cursor stands on is returned again.
SelectEventsInclusive ==
  /\ window.pc = "events"
  /\ window' = [window EXCEPT !.pc = "collected",
                  !.events = {s \in DOMAIN audit[window.attempt] : s >= window.cursor}]
  /\ UNCHANGED <<vars, snap>>

SelectEvents ==
  /\ window.pc = "events"
  /\ window' = [window EXCEPT !.pc = "collected",
                  !.events = {s \in DOMAIN audit[window.attempt] : s > window.cursor}]
  /\ UNCHANGED <<vars, snap>>

EndWindow ==
  /\ window.pc = "collected"
  /\ window' = NoWindow
  /\ UNCHANGED <<vars, snap>>

\* snapshot: the three SELECTs in the order they are made.
SnapOrder == <<"attempt", "requests", "audit">>

SelectTable(table, a) ==
  CASE table = "attempt"  -> [snap EXCEPT !.attempt = a, !.state = state[a],
                                          !.watermark = watermark[a]]
    [] table = "requests" -> [snap EXCEPT !.requests = requests[a]]
    [] table = "audit"    -> [snap EXCEPT !.audit = audit[a]]

SnapSelect ==
  /\ snap.pc < Len(SnapOrder)
  /\ \E a \in IF snap.pc = 0 THEN {b \in Attempts : state[b] # "NONE"} ELSE {snap.attempt} :
       snap' = [SelectTable(SnapOrder[snap.pc + 1], a) EXCEPT !.pc = @ + 1]
  /\ UNCHANGED <<vars, window>>

EndSnap ==
  /\ snap.pc = Len(SnapOrder)
  /\ snap' = NoSnap
  /\ UNCHANGED <<vars, window>>

\* A restart of the control service also ends the reads it was serving.
RestartControl ==
  /\ Bootstrap
  /\ window' = IF window.pc \in {"cursor", "events"} THEN NoWindow ELSE window
  /\ snap' = IF snap.pc \in 1 .. (Len(SnapOrder) - 1) THEN NoSnap ELSE snap

\* Everything the store does, except that the window owner resets the cursor.
StoreStep ==
  /\ \/ \E a \in Attempts :
          \/ CreateAttempt(a) \/ OpenAttempt(a) \/ CloseAttempt(a)
          \/ FinalSnapshot(a) \/ FinalizeAttempt(a) \/ AbortRecovery(a)
          \/ \E q \in Requests : BusinessWrite(a, q)
     \/ Bootstrap
  /\ UNCHANGED readers

NextReaders ==
  \/ StoreStep
  \/ BeginWindow
  \/ SelectActive \/ SelectCursor \/ SelectEvents \/ EndWindow
  \/ SnapSelect \/ EndSnap
  \/ RestartControl

SpecReaders == InitReaders /\ [][NextReaders]_allVars

-----------------------------------------------------------------------------
\* A collection made of three separate reads still returns every write that
\* was committed between the reset and the moment it began, nothing older
\* than the reset, and no gaps - as long as it is about the same attempt.
CollectionIsWhole ==
  window.pc = "collected" /\ window.attempt = window.base =>
    /\ (window.from + 1) .. window.upto \subseteq window.events
    /\ \E last \in window.upto .. watermark[window.base] :
         window.events = (window.from + 1) .. last

\* A snapshot of three separate reads never shows a committed request without
\* its audit event or fewer events than its watermark; once its row shows an
\* attempt that is fenced or over, all three parts agree exactly.
SnapshotIsCoherent ==
  snap.pc = 3 =>
    LET shown == {snap.audit[s].request : s \in DOMAIN snap.audit}
        committed == {q \in Requests : snap.requests[q] = "COMMITTED"}
    IN  /\ committed \subseteq shown
        /\ 1 .. snap.watermark \subseteq DOMAIN snap.audit
        /\ snap.state \notin {"PREPARED", "OPEN"} =>
             committed = shown /\ DOMAIN snap.audit = 1 .. snap.watermark

\* Both readers, which take no lock, get what they may go by.
ReadsAreCoherent == CollectionIsWhole /\ SnapshotIsCoherent
=============================================================================
