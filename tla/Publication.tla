---------------------------- MODULE Publication -----------------------------
(***************************************************************************)
(* How the release gate publishes a result (assurance/phase2/gate/gate.py, *)
(* _publish): files are written to a staging directory of the gate's own,  *)
(* listed in a manifest, flushed, and the directory is renamed to its      *)
(* place under completed/.  Several gates may run for one result           *)
(* identifier, because it was started again after a crash or by mistake.   *)
(* A gate may die at any step, and the machine may lose power: then what   *)
(* was not flushed may be lost.                                            *)
(*                                                                         *)
(* The directory completed/ itself is taken to be on disk already.         *)
(***************************************************************************)
EXTENDS Naturals, FiniteSets

CONSTANTS
  Gates,       \* gate processes
  Results,     \* result identifiers
  Files,       \* files of a bundle besides its manifest
  None         \* no directory

ASSUME FilesAssumption == IsFiniteSet(Files) /\ Files # {} /\ None \notin Gates

VARIABLES
  gate,        \* of each process: [pc, result]
  staging,     \* its staging directory: the files in it, whether on disk for good
  completed,   \* completed/<result>: who put a directory there, or None
  durable      \* results whose entry in completed/ is on disk for good

publishVars == <<gate, staging, completed, durable>>

-----------------------------------------------------------------------------
Running == {"started", "staging", "listed", "flushed", "renamed"}
NoStaging == [files |-> {}, manifest |-> {}, flushed |-> FALSE]

PublishInit ==
  /\ gate \in [Gates -> [pc : {"started"}, result : Results]]
  /\ staging = [g \in Gates |-> NoStaging]
  /\ completed = [r \in Results |-> None]
  /\ durable = {}

Go(g, pc) == gate' = [gate EXCEPT ![g] = [@ EXCEPT !.pc = pc]]
Result(g) == gate[g].result

-----------------------------------------------------------------------------
\* final_dir.exists(): a committed result is not replaced.
MakeStaging(g) ==
  /\ gate[g].pc = "started"
  /\ Go(g, IF completed[Result(g)] # None THEN "refused" ELSE "staging")
  /\ UNCHANGED <<staging, completed, durable>>

WriteFile(g) ==
  /\ gate[g].pc = "staging"
  /\ \E f \in Files \ staging[g].files :
       staging' = [staging EXCEPT ![g].files = @ \cup {f}]
  /\ UNCHANGED <<gate, completed, durable>>

\* The manifest lists the files that are there.
WriteManifest(g) ==
  /\ gate[g].pc = "staging" /\ staging[g].files = Files
  /\ staging' = [staging EXCEPT ![g] = [@ EXCEPT !.manifest = staging[g].files]]
  /\ Go(g, "listed")
  /\ UNCHANGED <<completed, durable>>

\* Mutant: the bundle is renamed into place before it is flushed.
FlushLater(g) ==
  /\ gate[g].pc = "listed"
  /\ Go(g, "flushed")
  /\ UNCHANGED <<staging, completed, durable>>


Flush(g) ==
  /\ gate[g].pc = "listed"
  /\ staging' = [staging EXCEPT ![g] = [@ EXCEPT !.flushed = TRUE]]
  /\ Go(g, "flushed")
  /\ UNCHANGED <<completed, durable>>

\* rename(2) does not replace a directory that has something in it.
Rename(g) ==
  /\ gate[g].pc = "flushed"
  /\ IF completed[Result(g)] # None
       THEN Go(g, "refused") /\ UNCHANGED completed
       ELSE Go(g, "renamed") /\ completed' = [completed EXCEPT ![Result(g)] = g]
  /\ UNCHANGED <<staging, durable>>

\* Mutant: the result is reported before its directory entry is on disk.
PrintUnsynced(g) ==
  /\ gate[g].pc = "renamed"
  /\ Go(g, "reported")
  /\ UNCHANGED <<staging, completed, durable>>

\* _fsync_dir(completed); then the result is printed.
PrintResult(g) ==
  /\ gate[g].pc = "renamed"
  /\ durable' = durable \cup {r \in Results : completed[r] # None}
  /\ Go(g, "reported")
  /\ UNCHANGED <<staging, completed>>

\* A process dies; its staging directory stays.
Crash(g) ==
  /\ gate[g].pc \in Running
  /\ Go(g, "dead")
  /\ UNCHANGED <<staging, completed, durable>>

\* The power fails.  A directory that was not flushed keeps any of its files,
\* a rename that was not may be undone.
PowerLoss ==
  /\ gate' = [g \in Gates |-> IF gate[g].pc \in Running THEN [gate[g] EXCEPT !.pc = "dead"] ELSE gate[g]]
  /\ \E kept \in SUBSET Files :
       staging' = [g \in Gates |-> IF staging[g].flushed THEN staging[g]
                                   ELSE [staging[g] EXCEPT !.files = @ \cap kept]]
  /\ \E lost \in SUBSET (Results \ durable) :
       completed' = [r \in Results |-> IF r \in lost THEN None ELSE completed[r]]
  /\ durable' = {r \in Results : completed'[r] # None}

PublishNext ==
  \/ \E g \in Gates :
       \/ MakeStaging(g) \/ WriteFile(g) \/ WriteManifest(g) \/ Flush(g)
       \/ Rename(g) \/ PrintResult(g) \/ Crash(g)
  \/ PowerLoss

PublishSpec == PublishInit /\ [][PublishNext]_publishVars

-----------------------------------------------------------------------------
\* Whoever looks under completed/, also after a crash or a power failure, finds
\* a whole bundle with the manifest of all its files or nothing.
PublishedIsWhole ==
  \A r \in Results : completed[r] # None =>
    LET bundle == staging[completed[r]]
    IN  Result(completed[r]) = r /\ bundle.flushed /\ bundle.files = Files /\ bundle.manifest = Files

\* A result that was reported stays, and is the only one ever reported under
\* its identifier.
ReportedStays ==
  \A g \in Gates : gate[g].pc = "reported" => completed[Result(g)] = g /\ Result(g) \in durable
=============================================================================
