----------------------------- MODULE NativeProof ----------------------------
(***************************************************************************)
(* The native proof of the runtime (.github/workflows/                     *)
(* phase2-native-amd64-proof.yml).  A first job builds the images of one   *)
(* commit, publishes them and freezes a runtime profile that names them by *)
(* digest (ci/p2_native_proof.py, ci/build_adapter.py).  A second job, on  *)
(* another machine, pulls exactly these and runs three scripts on Docker:  *)
(* the isolation check, the smoke of the good candidate and the negative   *)
(* controls.  Any command may fail, with or without its effect.            *)
(*                                                                         *)
(* A local image is known by the digest of its configuration; what the     *)
(* registry holds of it after a push is that digest, or nothing.           *)
(***************************************************************************)
EXTENDS Naturals, Sequences, FiniteSets

CONSTANT Images    \* the images of the profile, a sequence

ASSUME ImagesAssumption == Len(Images) \in Nat \ {0} /\ DOMAIN Images = 1..Len(Images)

VARIABLES
  freeze,     \* the first job and its evidence
  registry,   \* images the registry holds
  proof,      \* the second job: which of its steps have passed
  script,     \* the running script
  docker,     \* what the second job's scripts have left on Docker
  alive,      \* services of the isolation check that still run
  blocked     \* which of the forbidden paths the networks really block

native == <<freeze, registry, proof, script, docker, alive, blocked>>

Services == {"candidate", "app", "control", "evaluator", "positive"}
Paths == {"candidate-control", "evaluator-app"}

\* Each script as the sequence of its steps.
Creates(r) == <<"create", r>>
Checks(c) == <<"check", c>>
Isolation ==
  <<Creates("networks"), Creates("volumes"), Creates("candidate"), Creates("app"), Creates("control"),
    Creates("evaluator"), Checks("reachable"), Creates("positive"), Checks("positive control"),
    Checks("probe"), Checks("evaluator"), Checks("security")>>
Smoke == <<Creates("network"), Creates("container"), Checks("smoke")>>
Negative == <<Checks("output"), Creates("hang"), Checks("hang"), Creates("startup"), Checks("startup"),
              Creates("memory"), Checks("memory")>>
Steps == [isolation |-> Isolation, smoke |-> Smoke, negative |-> Negative]
Scripts == <<"isolation", "smoke", "negative">>
NoScript == [name |-> "none", pc |-> "none", at |-> 1, created |-> {}, raised |-> FALSE, errors |-> FALSE]

NativeInit ==
  /\ freeze = [pc |-> "spec", at |-> 1, logs |-> {}, identities |-> {}, publish |-> "skipped",
               profile |-> {}, reason |-> "none"]
  /\ registry = {} /\ docker = {} /\ alive = {} /\ blocked = {}
  /\ proof = [pc |-> "waiting", pulled |-> {}, passed |-> {}]
  /\ script = NoScript

-----------------------------------------------------------------------------
(***************************************************************************)
(* Build and freeze.                                                       *)
(***************************************************************************)
FreezeOnly == UNCHANGED <<proof, script, docker, alive, blocked>>

\* A step failed: only the steps that always run are left.
Publishing == {"build", "push", "identify", "compose"}
Broken == freeze' = [freeze EXCEPT !.pc = "classify", !.publish = IF freeze.pc \in Publishing THEN "failure" ELSE @]

\* What must hold before anything is built is checked against the checkout, or fails.
Stage(from, to) ==
  /\ freeze.pc = from /\ (Broken \/ freeze' = [freeze EXCEPT !.pc = to])
  /\ UNCHANGED registry /\ FreezeOnly
ValidateSpec == Stage("spec", "native")
AssertNative == Stage("native", "inputs")
ConsumedInputs == Stage("inputs", "wheels")
SealWheelhouse == Stage("wheels", "context")
MaterializeContext == Stage("context", "build")
Build == Stage("build", "push")

Image == Images[freeze.at]

\* The log of a push is there before the push is; one that fails may have had its effect.
PushImage ==
  /\ freeze.pc = "push" /\ FreezeOnly
  /\ \/ /\ freeze' = [freeze EXCEPT !.pc = "identify", !.logs = @ \cup {Image}]
        /\ registry' = registry \cup {Image}
     \/ /\ freeze' = [freeze EXCEPT !.pc = "classify", !.publish = "failure", !.logs = @ \cup {Image}]
        /\ registry' \in {registry, registry \cup {Image}}

\* The registry is read back: its configuration digest is the local image's.
Identify ==
  /\ freeze.pc = "identify"
  /\ \/ Broken
     \/ /\ Image \in registry
        /\ freeze' = IF freeze.at < Len(Images)
                     THEN [freeze EXCEPT !.pc = "build", !.at = @ + 1, !.identities = @ \cup {Image}]
                     ELSE [freeze EXCEPT !.pc = "compose", !.identities = @ \cup {Image}]
  /\ UNCHANGED registry /\ FreezeOnly

\* A profile is exactly the images there must be, each by its digests.
ProfileIsValid(profile) == profile = {Images[i] : i \in DOMAIN Images}

Compose ==
  /\ freeze.pc = "compose"
  /\ \/ Broken
     \/ /\ ProfileIsValid(freeze.identities)
        /\ freeze' = [freeze EXCEPT !.pc = "classify", !.publish = "success", !.profile = freeze.identities]
  /\ UNCHANGED registry /\ FreezeOnly

Classify ==
  /\ freeze.pc = "classify"
  /\ freeze' = [freeze EXCEPT !.pc = "over",
       !.reason = IF freeze.publish = "success" THEN "complete"
                  ELSE IF freeze.logs # {} THEN "finish-only" ELSE "nothing-published"]
  /\ UNCHANGED registry /\ FreezeOnly

-----------------------------------------------------------------------------
(***************************************************************************)
(* One script.  It records what it created when the command has succeeded, *)
(* and removes in the end what it recorded.                                *)
(***************************************************************************)
ScriptOnly == UNCHANGED <<freeze, registry, proof>>
ThisStep == Steps[script.name][script.at]

Passed == IF script.at < Len(Steps[script.name]) THEN [script EXCEPT !.at = @ + 1]
          ELSE [script EXCEPT !.at = 1, !.pc = "remove"]
Raised == [script EXCEPT !.at = 1, !.pc = "remove", !.raised = TRUE]

\* Which services run matters while the script checks them.
Running(services) == alive' = IF script'.pc = "run" THEN services ELSE {}

\* docker create or run, and the networks it is connected to.  The control that
\* must not start is recorded whatever the exit code.  What the networks block is
\* for the check to find out.
CreateResource ==
  /\ script.pc = "run" /\ ThisStep[1] = "create" /\ ScriptOnly
  /\ LET r == ThisStep[2]
         recorded(to) == [to EXCEPT !.created = @ \cup {r}]
     IN /\ IF r = "networks" THEN blocked' \in SUBSET Paths ELSE UNCHANGED blocked
        /\ \/ /\ docker' = docker \cup {r} /\ script' \in {recorded(Passed), recorded(Raised)}
              /\ Running(alive \cup ({r} \cap Services))
           \/ docker' \in {docker, docker \cup {r}} /\ script' = Raised /\ Running({})
           \/ r = "startup" /\ script' = recorded(Passed) /\ UNCHANGED <<docker, alive>>

\* What a check needs for its answer to be the expected one.  A refused
\* connection is the answer of a path that is blocked and of a peer that is gone.
Refused(path, peer) == path \in blocked \/ peer \notin alive
Reachable == {"candidate", "app", "control", "evaluator"} \subseteq alive
PositiveControl == {"positive", "app", "control"} \subseteq alive
Probe == {"candidate", "app"} \subseteq alive /\ Refused("candidate-control", "control")
EvaluatorCheck == {"evaluator", "candidate", "control"} \subseteq alive /\ Refused("evaluator-app", "app")
\* Mutant: the configured user of the container is taken for the user it runs as.
SecurityInspected == Services \subseteq docker
\* Each container is inspected, and asked for its user: it must still run.
Security == Services \subseteq alive
AsExpected(c) ==
  CASE c = "reachable" -> Reachable [] c = "positive control" -> PositiveControl
    [] c = "probe" -> Probe [] c = "evaluator" -> EvaluatorCheck [] c = "security" -> Security
    [] c = "startup" -> "startup" \in docker
    [] OTHER -> TRUE

\* The control of the output runs a container of its own that Docker removes.
CheckStep ==
  /\ script.pc = "run" /\ ThisStep[1] = "check" /\ ScriptOnly
  /\ \/ AsExpected(ThisStep[2]) /\ script' = Passed /\ UNCHANGED docker
     \/ script' = Raised /\ docker' \in {docker, docker \cup ({ThisStep[2]} \cap {"output"})}
  /\ Running(alive) /\ UNCHANGED blocked

\* A service exits; nothing starts it again.
Die(s) == /\ s \in alive /\ alive' = alive \ {s} /\ script.pc = "run"
          /\ ScriptOnly /\ UNCHANGED <<script, docker, blocked>>

Order == <<"positive", "evaluator", "control", "app", "candidate", "networks", "volumes",
           "container", "network", "memory", "startup", "hang">>
Containers == Services \cup {"container"}
Busy(r) == r \in {"networks", "volumes", "network"} /\ docker \cap Containers # {}

\* The isolation check takes any failed removal for an error, the other two let
\* exit code 1 pass: the resource may have been gone already.
Strict == script.name = "isolation"

\* A command that times out raises out of the cleanup: the rest of it, the record
\* of the script included, does not happen.
Aborted == script' = [script EXCEPT !.pc = "over", !.raised = TRUE]

Removing == SelectSeq(Order, LAMBDA r : r \in script.created)
RemoveStep ==
  /\ script.pc = "remove" /\ ScriptOnly /\ UNCHANGED <<alive, blocked>>
  /\ IF script.at > Len(Removing)
     THEN script' = [script EXCEPT !.pc = "readback"] /\ UNCHANGED docker
     ELSE LET r == Removing[script.at]
              next(failed) == script' = [script EXCEPT !.at = @ + 1, !.errors = @ \/ failed]
          IN \/ ~ Busy(r) /\ docker' = docker \ {r} /\ next(FALSE)
             \/ UNCHANGED docker /\ next(Strict)
             \/ docker' \in {docker, docker \ {r}} /\ Aborted

\* Each removal is read back; an inspection that fails counts as an absence.
\* Then the record is written, and cleanup errors raise.
Readback ==
  /\ script.pc = "readback" /\ ScriptOnly /\ UNCHANGED <<docker, alive, blocked>>
  /\ \/ \E seen \in SUBSET (docker \cap script.created) :
          script' = [script EXCEPT !.pc = "over", !.raised = @ \/ script.errors \/ seen # {}]
     \/ Aborted

-----------------------------------------------------------------------------
(***************************************************************************)
(* The second job.  Its Docker is new; what it has before the first script *)
(* is the baseline, {} here.                                               *)
(***************************************************************************)
ProofOnly == UNCHANGED <<freeze, registry, docker, alive, blocked>>
Failed == proof' = [proof EXCEPT !.pc = "rejected"]

\* The profile is that of the commit, and each image is pulled by its digest.
Pull ==
  /\ proof.pc = "waiting" /\ freeze.pc = "over" /\ freeze.publish = "success"
  /\ \/ Failed
     \/ /\ ProfileIsValid(freeze.profile) /\ freeze.profile \subseteq registry
        /\ proof' = [proof EXCEPT !.pc = "scripts", !.pulled = freeze.profile]
  /\ ProofOnly /\ UNCHANGED script

\* A script starts when the one before it has passed.
StartScript ==
  /\ proof.pc = "scripts" /\ script = NoScript /\ Cardinality(proof.passed) < Len(Scripts)
  /\ script' = [NoScript EXCEPT !.name = Scripts[Cardinality(proof.passed) + 1], !.pc = "run"]
  /\ UNCHANGED proof /\ ProofOnly

EndScript ==
  /\ script.pc = "over" /\ script' = NoScript /\ ProofOnly
  /\ IF script.raised THEN Failed ELSE proof' = [proof EXCEPT !.passed = @ \cup {script.name}]

\* Containers, networks and volumes against the baseline, whatever the scripts said.
Compare ==
  /\ proof.pc = "scripts" /\ script = NoScript /\ Cardinality(proof.passed) = Len(Scripts)
  /\ IF docker = {} THEN proof' = [proof EXCEPT !.pc = "accepted"] ELSE Failed
  /\ ProofOnly /\ UNCHANGED script

Preparation == ValidateSpec \/ AssertNative \/ ConsumedInputs \/ SealWheelhouse \/ MaterializeContext
FreezeStep == Preparation \/ Build \/ PushImage \/ Identify \/ Compose \/ Classify
ScriptStep == CreateResource \/ CheckStep \/ (\E s \in Services : Die(s)) \/ RemoveStep \/ Readback
NativeNext == FreezeStep \/ ScriptStep \/ Pull \/ StartScript \/ EndScript \/ Compare
NativeSpec == NativeInit /\ [][NativeNext]_native

-----------------------------------------------------------------------------
(* A job that may have published an image, a failed push included, is      *)
(* either complete or marked for recovery by finishing only: what is in    *)
(* the registry is never taken for a failure before publication.           *)
FreezeIsClassified ==
  freeze.pc = "over" /\ registry # {} =>
    \/ freeze.reason = "finish-only"
    \/ freeze.reason = "complete" /\ freeze.profile = registry

(* An accepted proof left Docker as it found it, although a script can     *)
(* exit with success and leave what it could neither remove nor inspect;   *)
(* and once the isolation check has passed, the networks really block what *)
(* it says they block: no connection was refused by a service that had     *)
(* exited instead.  And the job before it is classified as it is.          *)
ProofIsTrue ==
  /\ FreezeIsClassified
  /\ proof.pc = "accepted" => docker = {}
  /\ "isolation" \in proof.passed => blocked = Paths
=============================================================================
