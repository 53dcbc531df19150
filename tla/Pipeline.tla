------------------------------ MODULE Pipeline ------------------------------
(***************************************************************************)
(* The release pipeline, from a command of the harness to the intake of a  *)
(* pull request.  Each stage may only start from what the one before it    *)
(* left when it was accepted: a command returned (BoundedRun), the runtime *)
(* was proved (NativeProof), a release authority was constructed with it   *)
(* and committed (Construction), and the intake then trusts the commits of *)
(* main that carry this authority (Intake).                                *)
(*                                                                         *)
(* The stages are days apart and share nothing but what is accepted, so    *)
(* that a stage that is over is forgotten here but for its result.         *)
(***************************************************************************)
EXTENDS BoundedRun, NativeProof, Construction, Intake

VARIABLE stage

pipeline == <<stage, command, native, construction, intake>>

PipelineInit == stage = "command" /\ CommandInit /\ NativeInit /\ ConstructionInit /\ IntakeInit

\* A command that returned; what it left running is no concern of the next one.
Returned ==
  /\ runner.outcome = "returned"
  /\ process' = [p \in Processes |-> Unborn] /\ pipe' = {}
  /\ time' = [late |-> TRUE, drain |-> "passed"]
  /\ runner' = [runner EXCEPT !.emitted = 0, !.open = FALSE, !.forced = FALSE,
                              !.kept = 0, !.cut = FALSE, !.why = "none"]
\* The proof begins with the first command of assert_native.
BeginProof == /\ stage = "command" /\ stage' = "proof" /\ Returned
              /\ UNCHANGED <<native, construction, intake>>

\* The adjudication of a construction takes only the profile that was proved.
ProfileIsProved == proof.pc = "accepted" /\ ProfileIsValid(proof.pulled)
BeginConstruction == /\ stage = "proof" /\ stage' = "construction" /\ ProfileIsProved
                     /\ UNCHANGED <<command, native, construction, intake>>

\* The trust boundary the intake binds its plans to names a valid authority.
BeginIntake ==
  /\ stage = "construction" /\ stage' = "intake" /\ AuthorityIsValid
  /\ checkout' = 1 /\ edits' = 0 /\ demo' = NoDemo /\ disk' = EmptyDirectory
  /\ killed' = {} /\ results' = {} /\ UNCHANGED <<command, native, intake>>
  /\ repository' = [authority |-> Absent, trust |-> Absent, pins |-> Absent]

PipelineNext ==
  \/ stage = "command" /\ CommandNext /\ UNCHANGED <<stage, native, construction, intake>>
  \/ BeginProof
  \/ stage = "proof" /\ NativeNext /\ UNCHANGED <<stage, command, construction, intake>>
  \/ BeginConstruction
  \/ stage = "construction" /\ ConstructionNext /\ UNCHANGED <<stage, command, native, intake>>
  \/ BeginIntake
  \/ stage = "intake" /\ IntakeNext /\ UNCHANGED <<stage, command, native, construction>>

\* The fairness of the two parts that must end by themselves.
PipelineSpec == PipelineInit /\ [][PipelineNext]_pipeline
                /\ CommandFairness /\ \A j \in Jobs : WF_intake(JobStep(j))
=============================================================================
