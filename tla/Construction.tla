---------------------------- MODULE Construction ----------------------------
(***************************************************************************)
(* The construction of a release authority: the approval demo as a whole   *)
(* (assurance/phase2/run_approval_demo.py, main), the adjudication of the  *)
(* directory it leaves (ci/p3_reference_candidate.py), and the validation  *)
(* of the authority that reviewers commit after it (ci/p3_promotion.py).   *)
(*                                                                         *)
(* The demo writes its evidence file by file into a directory that may     *)
(* hold the files of earlier runs; it may raise at every step and be       *)
(* killed between any two.  Meanwhile the checkout may be edited.  The     *)
(* adjudication reads only the files.  So the question is which mixtures   *)
(* of files of several runs it can tell from the files of one.             *)
(*                                                                         *)
(* A digest stands for what it is the digest of.  What happens inside an   *)
(* attempt and inside a judgement is in the modules AttemptRun and Gate,   *)
(* failures of Docker and of cleanup are in Campaign: here each succeeds   *)
(* or raises.                                                              *)
(***************************************************************************)
EXTENDS Naturals, Sequences, SequencesExt

CONSTANTS
  Runs,        \* demo runs into the one directory, 1 .. n
  MaxEdits     \* bound: edits of the checkout

VARIABLES
  checkout,    \* which version of contract, gate, orchestrator and profile is checked out
  edits,       \* edits so far
  demo,        \* the running demo and what it holds
  disk,        \* the output directory
  killed,      \* runs that ended without a ledger of theirs: killed, or it could not be written
  results,     \* what the adjudication has accepted so far
  repository   \* the committed authority, its trust boundary and the pins of the validator

construction == <<checkout, edits, demo, disk, killed, results, repository>>

Versions == {1, 2}
Candidates == <<"good", "write", "review", "missing">>
Attempts == {"reference"} \cup Range(Candidates)
Tampers == <<"tampered-context", "swapped-run", "stale-attempt", "tampered-approval">>
Cases == Candidates \o Tampers

\* The steps of main, each of which leaves something behind: the reference, the
\* volumes and the approval, an attempt of each candidate, the cases and the end.
AttemptSteps == <<"guard", "export", "save", "finalize", "assemble", "clean">>
\* The i-th step of all their attempts.
CandidateStep(i) == <<AttemptSteps[((i - 1) % 6) + 1], Candidates[((i - 1) \div 6) + 1]>>
Script ==
  [i \in 1..44 |->
     CASE i = 1 -> <<"policy", "none">>
       [] i \in 2..7 -> <<AttemptSteps[i - 1], "reference">>
       [] i = 8 -> <<"volumes", "none">>
       [] i = 9 -> <<"promote", "none">>
       [] i \in 10..33 -> CandidateStep(i - 9)
       [] i \in 34..41 -> <<"evaluate", Cases[i - 33]>>
       [] i = 42 -> <<"authority", "none">>
       [] i = 43 -> <<"results", "none">>
       [] i = 44 -> <<"summary", "none">>]
Volumes == {i \in DOMAIN Script : Script[i][1] = "volumes"}

NoDemo == [run |-> 0, pc |-> "idle", at |-> 1, policy |-> 0, guarded |-> 0,
           approval |-> <<>>]
Absent == <<>>
EmptyDirectory ==
  [policy |-> 0, snapshot |-> [l \in Attempts |-> 0], saved |-> [l \in Attempts |-> Absent],
   finalized |-> [l \in Attempts |-> 0], context |-> [l \in Attempts |-> Absent],
   approval |-> Absent, results |-> [c \in Range(Cases) |-> Absent],
   summary |-> Absent, ledger |-> Absent, preserved |-> FALSE]

ConstructionInit ==
  /\ checkout = 1 /\ edits = 0 /\ demo = NoDemo /\ disk = EmptyDirectory
  /\ killed = {} /\ results = {}
  /\ repository = [authority |-> Absent, trust |-> Absent, pins |-> Absent]

-----------------------------------------------------------------------------
(***************************************************************************)
(* The demo.                                                               *)
(***************************************************************************)
Idle == demo.pc = "idle"
Step(op) == demo.pc = "steps" /\ Script[demo.at][1] = op
Label == Script[demo.at][2]
Next1(d) == [d EXCEPT !.at = @ + 1, !.pc = IF d.at = Len(Script) THEN "end" ELSE "steps"]
Leave(d, files) == /\ demo' = Next1(d) /\ disk' = files
                   /\ UNCHANGED <<checkout, edits, killed, results, repository>>

StartDemo ==
  /\ Idle /\ demo.run + 1 \in Runs
  /\ demo' = [NoDemo EXCEPT !.run = demo.run + 1, !.pc = "steps"]
  /\ UNCHANGED <<checkout, edits, disk, killed, results, repository>>

\* The policy profile names the digests of the checkout.
MakePolicy ==
  /\ Step("policy")
  /\ Leave([demo EXCEPT !.policy = checkout], [disk EXCEPT !.policy = checkout])

\* One attempt: the guard runs on the contract there is; then snapshot, saved
\* run and finalize response; the context binds them and names the orchestrator
\* there is; it is written again when the cleanup has been complete.
Guard == Step("guard") /\ Leave([demo EXCEPT !.guarded = checkout], disk)
Export == Step("export") /\ Leave(demo, [disk EXCEPT !.snapshot[Label] = demo.run])
Save == /\ Step("save")
        /\ Leave(demo, [disk EXCEPT !.saved[Label] = [run |-> demo.run, contract |-> demo.guarded]])
Finalize == Step("finalize") /\ Leave(demo, [disk EXCEPT !.finalized[Label] = demo.run])
Assemble ==
  /\ Step("assemble")
  /\ Leave(demo, [disk EXCEPT !.context[Label] =
       [run |-> demo.run, policy |-> demo.policy, orchestrator |-> checkout,
        saved |-> disk.saved[Label], snapshot |-> disk.snapshot[Label], cleaned |-> FALSE]])
CleanAttempt == Step("clean") /\ Leave(demo, [disk EXCEPT !.context[Label].cleaned = TRUE])

\* Fresh volumes for authority and results, named for this run alone.
PrepareVolumes == Step("volumes") /\ Leave(demo, disk)

\* What the gate requires of the context of an attempt before it says anything
\* but INVALID.
ContextBound(l) ==
  LET c == disk.context[l]
  IN  /\ c.policy = disk.policy /\ c.orchestrator = disk.policy
      /\ c.saved = disk.saved[l] /\ c.snapshot = disk.snapshot[l]
      /\ c.cleaned /\ c.saved.contract = disk.policy

Manifest == [saved |-> disk.saved["reference"], snapshot |-> disk.snapshot["reference"],
             context |-> disk.context["reference"]]
Promote ==
  /\ Step("promote") /\ ContextBound("reference")
  /\ Leave([demo EXCEPT !.approval = [policy |-> disk.policy, manifest |-> Manifest,
                                      id |-> disk.context["reference"].run]], disk)

\* An outcome other than INVALID needs bound evidence of candidate and reference;
\* with any but the expected outcome main raises.
Judged(c) == ContextBound(c) /\ demo.approval.manifest = Manifest
Evaluate ==
  /\ Step("evaluate") /\ Label \in Range(Candidates) /\ (Label # "missing" => Judged(Label))
  /\ Leave(demo, disk)
\* What was tampered with is INVALID whatever else there is.
EvaluateTampered == Step("evaluate") /\ Label \in Range(Tampers) /\ Leave(demo, disk)

\* What a bundle of the results volume names: approval, policy, attempt.
Bundle(c) == [approval |-> demo.approval, policy |-> demo.policy, attempt |-> demo.run, torn |-> FALSE]
CopyAuthority == Step("authority") /\ Leave(demo, [disk EXCEPT !.approval = demo.approval])
CopyResults ==
  /\ Step("results")
  /\ Leave(demo, [disk EXCEPT !.results = [c \in Range(Cases) |-> Bundle(c)]])
\* A copy that stops half way has replaced some bundles and part of another.
CopyPart ==
  /\ Step("results")
  /\ \E n \in DOMAIN Cases :
       disk' = [disk EXCEPT !.results = [c \in Range(Cases) |->
         IF \E i \in 1..(n - 1) : Cases[i] = c THEN Bundle(c)
         ELSE IF Cases[n] = c THEN [Bundle(c) EXCEPT !.torn = TRUE] ELSE disk.results[c]]]
  /\ demo' = [demo EXCEPT !.pc = "end", !.at = 0]
  /\ UNCHANGED <<checkout, edits, killed, results, repository>>

WriteSummary ==
  /\ Step("summary")
  /\ Leave(demo, [disk EXCEPT !.summary = [run |-> demo.run, policy |-> demo.policy,
                                           profile |-> checkout, approval |-> demo.approval]])

\* A step raises.  Once there are plans for the gate volumes, they are cleaned.
Raise ==
  /\ demo.pc = "steps"
  /\ demo' = IF \E i \in Volumes : demo.at >= i THEN [demo EXCEPT !.pc = "end", !.at = 0]
             ELSE [demo EXCEPT !.pc = "idle"]
  /\ UNCHANGED <<checkout, edits, disk, killed, results, repository>>

\* The volumes are preserved, into directories that must not exist, and removed;
\* before they were created, there is nothing to do.  The ledger is written last,
\* and like every write it may raise: then an earlier one is still there, or
\* what is there is no ledger.
CleanGate ==
  /\ demo.pc = "end"
  /\ \E complete \in BOOLEAN, copied \in BOOLEAN :
       /\ copied => ~ disk.preserved
       /\ complete /\ ~ copied => demo.approval = <<>>
       /\ \/ /\ disk' = [disk EXCEPT !.ledger = [run |-> demo.run, complete |-> complete],
                                     !.preserved = @ \/ copied]
             /\ killed' = killed
          \/ /\ \E left \in {disk.ledger, Absent} :
                  disk' = [disk EXCEPT !.ledger = left, !.preserved = @ \/ copied]
             /\ killed' = killed \cup {demo.run}
  /\ demo' = [demo EXCEPT !.pc = "idle"]
  /\ UNCHANGED <<checkout, edits, results, repository>>

Kill ==
  /\ ~ Idle
  /\ killed' = killed \cup {demo.run} /\ demo' = [demo EXCEPT !.pc = "idle"]
  /\ UNCHANGED <<checkout, edits, disk, results, repository>>

DemoStep ==
  \/ StartDemo \/ MakePolicy \/ Guard \/ Export \/ Save \/ Finalize \/ Assemble \/ CleanAttempt
  \/ PrepareVolumes \/ Promote \/ Evaluate \/ EvaluateTampered \/ CopyAuthority \/ CopyResults \/ CopyPart
  \/ WriteSummary \/ Raise \/ CleanGate \/ Kill

-----------------------------------------------------------------------------
(***************************************************************************)
(* The adjudication, over nothing but the checkout and the directory.      *)
(***************************************************************************)
PolicyHolds == /\ disk.summary.policy = disk.policy /\ disk.policy = checkout
               /\ disk.summary.profile = checkout
ReferenceHolds ==
  LET c == disk.context["reference"]
  IN  /\ c # Absent /\ c.run = disk.summary.run /\ c.cleaned
      /\ disk.snapshot["reference"] # 0 /\ disk.finalized["reference"] # 0
WriteControlHolds == disk.snapshot["write"] # 0
\* Mutant: the approved manifest is not compared with the reference's files.
AuthorityHoldsUnmatched ==
  /\ disk.approval # Absent /\ disk.approval = disk.summary.approval
  /\ disk.approval.policy = disk.policy /\ disk.approval.id = disk.summary.run
AuthorityHolds == /\ disk.approval # Absent /\ disk.approval = disk.summary.approval
                  /\ disk.approval.policy = disk.policy /\ disk.approval.id = disk.summary.run
                  /\ disk.approval.manifest = Manifest
Whole(b) == b # Absent /\ ~ b.torn
MatrixHolds ==
  \A c \in Range(Cases) :
    LET b == disk.results[c]
    IN  /\ Whole(b)
        /\ b.approval = disk.approval /\ b.policy = disk.policy
        /\ c \in Range(Candidates) => b.attempt = disk.summary.run
LedgerHolds == disk.ledger # Absent /\ disk.ledger.complete

Acceptable == /\ Idle /\ disk.summary # Absent
              /\ PolicyHolds /\ ReferenceHolds /\ WriteControlHolds
              /\ AuthorityHolds /\ MatrixHolds /\ LedgerHolds

Adjudicate ==
  /\ Acceptable
  /\ results' = results \cup {[run |-> disk.summary.run, approval |-> disk.approval, policy |-> disk.policy]}
  /\ UNCHANGED <<checkout, edits, demo, disk, killed, repository>>

-----------------------------------------------------------------------------
(***************************************************************************)
(* The repository.  Reviewers commit the authority, the pins of its        *)
(* validator and the pointer in the trust boundary, each from one accepted *)
(* result, not always from the same one.                                   *)
(***************************************************************************)
Edit ==
  /\ edits < MaxEdits /\ edits' = edits + 1 /\ checkout' = 3 - checkout
  /\ UNCHANGED <<demo, disk, killed, results, repository>>

Commit ==
  /\ Idle
  /\ \E a \in results, p \in results, t \in results :
       repository' = [authority |-> a, pins |-> p,
                      trust |-> [authority |-> t, run |-> t.run, approval |-> t.approval]]
  /\ UNCHANGED <<checkout, edits, demo, disk, killed, results>>

\* Mutant: the sources are not compared with those of the construction.
AuthorityIsPinnedAnywhere ==
  LET a == repository.authority  p == repository.pins
  IN  a # Absent /\ a.run = p.run /\ a.policy = p.policy /\ a.approval = p.approval
\* validate_authority: the authority against the pins and the sources that are
\* checked out, then the trust boundary against both.  A version stands for
\* gate, orchestrator and profile: of contract, expected checks and rules the
\* validator sees the digests the profile declares, not the files, so an edit
\* of one of these alone is no edit here.
AuthorityIsPinned ==
  LET a == repository.authority  p == repository.pins
  IN  /\ a # Absent /\ a.run = p.run /\ a.approval = p.approval
      /\ checkout = p.policy /\ a.policy = p.policy
AuthorityIsValid ==
  LET t == repository.trust  p == repository.pins
  IN  /\ AuthorityIsPinned
      /\ t.authority = repository.authority /\ t.run = p.run /\ t.approval = p.approval

ConstructionNext == DemoStep \/ Adjudicate \/ Edit \/ Commit
ConstructionSpec == ConstructionInit /\ [][ConstructionNext]_construction

-----------------------------------------------------------------------------
\* What the adjudication accepts is the work of one demo run, whatever other
\* runs have left in the directory: the reference was finalized, fenced and
\* cleaned in it, every attempt but the one that must be INVALID ran under the
\* contract and the orchestrator that are checked out, and its gate volumes
\* were cleaned.  Only a run that was killed after its summary, or that could not
\* write its ledger, may be accepted with the ledger of an earlier one.
ConstructionIsOneRun ==
  Acceptable =>
    LET r == disk.summary.run
    IN  /\ \A l \in Attempts :
             /\ disk.snapshot[l] = r /\ disk.finalized[l] = r
             /\ disk.saved[l].run = r /\ disk.context[l].run = r /\ disk.context[l].cleaned
             /\ l # "missing" => /\ disk.saved[l].contract = checkout
                                 /\ disk.context[l].orchestrator = checkout
        /\ disk.ledger.run = r \/ r \in killed

\* An authority the validator accepts is one that was adjudicated; the trust
\* boundary points to the approval of that very run; and gate, orchestrator
\* and profile are still those that made it; whether contract, expected checks
\* and rules are still what the profile declares is not its question.
AuthorityIsConstructed ==
  AuthorityIsValid =>
    \E r \in results : /\ r = repository.authority /\ r.policy = checkout
                       /\ repository.trust.approval = r.approval
                       /\ r.approval.manifest.context.orchestrator = checkout
=============================================================================
