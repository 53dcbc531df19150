------------------------------ MODULE Temporal ------------------------------
(***************************************************************************)
(* The temporal integrity check of a run (engine.py,                       *)
(* _check_temporal_integrity; temporal.py; client.py, metadata_snapshot):  *)
(* in each of several sessions the metadata of the target is read, the     *)
(* driver tool is called again and again, and the metadata is read once    *)
(* more; the first snapshot of all is the reference.                       *)
(*                                                                         *)
(* A snapshot is a request for each family of metadata, one after the      *)
(* other.  The target may change a family between any two steps, and back  *)
(* again; every session, request and call may fail, and so may the writing *)
(* of each evidence file.                                                  *)
(***************************************************************************)
EXTENDS Naturals, Sequences

CONSTANTS
  Families,    \* families of metadata, in the order they are requested
  Sessions,    \* temporal.sessions
  Retests,     \* temporal.retests_per_session
  Options      \* [rediscover : rediscover_after_each_call, stop : stop_on_first_drift]

ASSUME TemporalAssumption == Sessions \in Nat \ {0} /\ Retests \in Nat \ {0}
ASSUME FamiliesAssumption == Len(Families) \in Nat \ {0} /\ DOMAIN Families = 1..Len(Families)
ASSUME OptionsAssumption == Options \subseteq [rediscover : BOOLEAN, stop : BOOLEAN]

VARIABLES
  options,     \* of the contract
  metadata,    \* what the target says now, by family: a version
  check        \* the check under way

temporal == <<options, metadata, check>>

Versions == {1, 2}
NoSnapshot == <<>>

\* shown: snapshots that are in the evidence; unwritten: an evidence file could
\* not be written.
NoCheck == [pc |-> "off", session |-> 1, calls |-> 0, reading |-> NoSnapshot, reference |-> NoSnapshot,
            drift |-> FALSE, errors |-> FALSE, stop |-> FALSE, checkpoints |-> 0,
            finding |-> "none", severity |-> "none", shown |-> {}, unwritten |-> FALSE]

TemporalInit ==
  /\ options \in Options
  /\ metadata = [i \in DOMAIN Families |-> 1]
  /\ check = NoCheck

-----------------------------------------------------------------------------
\* The target changes a family, or changes it back.
ChangeMetadata(i) ==
  /\ metadata' = [metadata EXCEPT ![i] = 3 - @]
  /\ UNCHANGED <<options, check>>

Put(rec) == check' = rec /\ UNCHANGED <<options, metadata>>

\* The driver may not be callable in this mode, or have no identity to call it.
BeginCheck ==
  /\ check.pc = "off"
  /\ \/ Put([NoCheck EXCEPT !.pc = "open"])
     \/ Put([NoCheck EXCEPT !.pc = "done", !.finding = "skipped", !.severity = "info"])
     \/ Put([NoCheck EXCEPT !.pc = "done", !.finding = "error", !.severity = "high"])

\* Whatever is raised within a session ends it, and is an error of the check.
NextSession(c) ==
  IF c.stop \/ c.session = Sessions
    THEN [c EXCEPT !.pc = "judge", !.reading = NoSnapshot]
    ELSE [c EXCEPT !.pc = "open", !.session = @ + 1, !.calls = 0, !.reading = NoSnapshot]
Raised(c) == NextSession([c EXCEPT !.errors = TRUE])

SessionRaises ==
  /\ check.pc \in {"open", "initial", "call", "after", "close"}
  /\ Put(Raised(check))

OpenSession == check.pc = "open" /\ Put([check EXCEPT !.pc = "initial"])

\* metadata_snapshot: one request more.
AllRead == Len(check.reading) = Len(Families)
ReadFamily ==
  /\ check.pc \in {"initial", "after"} /\ ~ AllRead
  /\ Put([check EXCEPT !.reading = Append(@, metadata[Len(@) + 1])])

\* compare_metadata_snapshots
Drifted(reference, snapshot) == reference # snapshot

Reference == IF check.reference = NoSnapshot THEN check.reading ELSE check.reference

\* The file of a checkpoint is written before it is counted and compared.
Checkpoint(c) == [c EXCEPT !.checkpoints = @ + 1, !.shown = @ \cup {c.reading}, !.reading = NoSnapshot]
Unwritten(c) == Put(Raised([c EXCEPT !.unwritten = TRUE]))

\* Mutant: each session is compared with its own first snapshot.
InitialCheckpointOwn ==
  /\ check.pc = "initial" /\ AllRead
  /\ LET known == [check EXCEPT !.reference = check.reading]
         first == Checkpoint(known)
     IN  Put([first EXCEPT !.pc = "call"]) \/ Unwritten(known)

\* The first snapshot of a session.  That it has drifted is noted before the
\* difference is written.
InitialCheckpoint ==
  /\ check.pc = "initial" /\ AllRead
  /\ LET known   == [check EXCEPT !.reference = Reference]
         first   == Checkpoint(known)
         drifted == [first EXCEPT !.drift = TRUE]
     IN  \/ Unwritten(known)
         \/ /\ ~ Drifted(Reference, check.reading)
            /\ Put([first EXCEPT !.pc = "call"])
         \/ /\ Drifted(Reference, check.reading)
            /\ IF check.drift THEN Put([first EXCEPT !.pc = "call"])
               ELSE \/ Put([drifted EXCEPT !.pc = IF options.stop THEN "close" ELSE "call",
                                           !.stop = options.stop])
                    \/ Unwritten(drifted)

\* The driver is called.  A call that is not allowed ends the session.
CallDriver ==
  /\ check.pc = "call"
  /\ LET called == [check EXCEPT !.calls = @ + 1]
     IN  \/ Put([called EXCEPT !.pc = IF options.rediscover \/ called.calls = Retests THEN "after" ELSE "call"])
         \/ Put([called EXCEPT !.pc = "close", !.errors = TRUE])

GoOn(c) == IF c.stop \/ c.calls = Retests THEN "close" ELSE "call"

\* A later snapshot.  Here the difference is written before the drift is noted.
LaterCheckpoint ==
  /\ check.pc = "after" /\ AllRead
  /\ LET later   == Checkpoint(check)
         noted   == [later EXCEPT !.drift = TRUE, !.stop = options.stop]
     IN  \/ Unwritten(check)
         \/ ~ Drifted(check.reference, check.reading) /\ Put([later EXCEPT !.pc = GoOn(later)])
         \/ /\ Drifted(check.reference, check.reading)
            /\ Put([noted EXCEPT !.pc = GoOn(noted)]) \/ Unwritten(later)

CloseSession == check.pc = "close" /\ Put(NextSession(check))

\* A drift outweighs errors, and errors a clean end.
JudgeDrift ==
  /\ check.pc = "judge"
  /\ LET status   == IF check.reference = NoSnapshot THEN "error"
                     ELSE IF check.drift THEN "failed" ELSE IF check.errors THEN "error" ELSE "passed"
         severity == IF check.reference = NoSnapshot \/ check.drift THEN "high"
                     ELSE IF check.errors THEN "medium" ELSE "info"
     IN  Put([check EXCEPT !.pc = "done", !.finding = status, !.severity = severity])

CheckStep ==
  \/ BeginCheck \/ OpenSession \/ SessionRaises \/ ReadFamily
  \/ InitialCheckpoint \/ CallDriver \/ LaterCheckpoint \/ CloseSession \/ JudgeDrift
TemporalNext == CheckStep \/ \E i \in DOMAIN Families : ChangeMetadata(i)

TemporalSpec == TemporalInit /\ [][TemporalNext]_temporal

-----------------------------------------------------------------------------
Checkpoints == Sessions * (1 + (IF options.rediscover THEN Retests ELSE 1))

\* The verdict is that of the evidence.  Two snapshots in the evidence that
\* differ make the check fail, in whichever sessions they were taken and
\* whatever failed before or after, and nothing else does; it passes only with
\* every checkpoint of every session in the evidence.  Where a file could not
\* be written the verdict and the evidence may disagree, but the check does not
\* pass.  (_check_temporal_integrity, up to its finding.)
TemporalIsTrue ==
  check.pc = "done" =>
    LET differ == \E a, b \in check.shown : a # b
    IN  /\ ~ check.unwritten => (check.finding = "failed" <=> differ)
        /\ check.finding = "passed" => check.checkpoints = Checkpoints /\ ~ check.unwritten
=============================================================================
