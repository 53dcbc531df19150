------------------------------- MODULE Intake -------------------------------
(***************************************************************************)
(* The trusted intake of pull requests (.github/workflows/                 *)
(* phase2-trusted-intake.yml and assurance/phase2/ci).  When the tests of  *)
(* a push have run, a job on the trusted branch finds the pull request of  *)
(* that push, plans, and materializes the candidate's source from the Git  *)
(* data of the repository to prove that it could be built.  Nothing of the *)
(* candidate is executed.                                                  *)
(*                                                                         *)
(* A job trusts one commit of the main branch, its checkout.  What it must *)
(* know of the pull request it has to ask for, several times, and between  *)
(* any two of its steps the author pushes, closes, reopens or retargets,   *)
(* maintainers merge, and any request may fail.                            *)
(***************************************************************************)
EXTENDS Naturals, Sequences, FiniteSets

CONSTANTS
  Pulls,        \* pull requests
  Branches,     \* branches they come from
  Heads,        \* commits that are pushed to them
  Jobs,         \* intake jobs, one for each completed test run
  Source,       \* what each commit has at the one allowed path
  FirstPulls,   \* the pull requests there are at first
  FirstMain,    \* the commits of the main branch at first
  MaxMoves      \* bound: pushes, changes of pull requests and merges

\* What the boundary of a commit pins by digest.
Bound == {"authority", "enforcement", "plan", "workflow", "materialization"}

\* There is a main branch, and pull requests are what the API says they are.
ASSUME IntakeAssumption ==
  /\ FirstMain \in Seq([stale : SUBSET Bound, dockerfile : Nat]) \ {<<>>}
  /\ FirstPulls \in [Pulls -> [head : Heads, branch : Branches, target : {"main", "other"},
                              open : BOOLEAN, base : Nat]]

VARIABLES
  pulls,        \* what the API answers about each pull request
  pushed,       \* pushes whose tests have run: [branch, head]
  main,         \* commits of the main branch
  moves,        \* pushes, changes and merges so far
  job,          \* each job, its captured answers and the files it has written
  current       \* identities that were current since the job's plan was written

world == <<pulls, pushed, main, moves>>
intake == <<pulls, pushed, main, moves, job, current>>

\* Which of the bound files the plan checks.
PlanChecks == Bound \ {"materialization"}

\* A job's checkout is the tip of main at its event; files are absent until written.
NotWritten == [pull |-> "none"]
NoJob == [pc |-> "none", commit |-> 0, branch |-> "none", head |-> "none", answer |-> <<>>,
          intake |-> NotWritten, plan |-> NotWritten, manifest |-> NotWritten,
          context |-> "absent", failing |-> FALSE, unremoved |-> FALSE]
Over == {"done", "failed", "killed"}

\* Number, head and base of a pull request, as every document names them.
Identity(answer, p) == [pull |-> p, head |-> answer[p].head, branch |-> answer[p].branch,
                        base |-> answer[p].base]
\* The same in the intake, with the commit it was resolved on.
Resolved(i, commit) == [pull |-> i.pull, head |-> i.head, branch |-> i.branch, base |-> i.base,
                        commit |-> commit]
Eligible(answer, p) == answer[p].open /\ answer[p].target = "main"
Now == {Identity(pulls, p) : p \in {p \in Pulls : Eligible(pulls, p)}}

IntakeInit ==
  /\ pulls = FirstPulls /\ main = FirstMain
  /\ pushed = {[branch |-> FirstPulls[p].branch, head |-> FirstPulls[p].head] : p \in Pulls}
  /\ moves = 0
  /\ job = [j \in Jobs |-> NoJob]
  /\ current = [j \in Jobs |-> {}]

-----------------------------------------------------------------------------
(***************************************************************************)
(* GitHub.                                                                 *)
(***************************************************************************)
Move == /\ moves < MaxMoves /\ moves' = moves + 1
        /\ current' = [j \in Jobs |-> IF job[j].plan # NotWritten THEN current[j] \cup Now' ELSE {}]
        /\ UNCHANGED job

\* A push, forced or not; each pull request from the branch has the new head,
\* and if one is open the tests are run.
Push(b, h) ==
  /\ pulls' = [p \in Pulls |-> IF pulls[p].branch = b THEN [pulls[p] EXCEPT !.head = h] ELSE pulls[p]]
  /\ pulls' # pulls
  /\ pushed' = pushed \cup {[branch |-> b, head |-> h] : p \in {p \in Pulls : pulls[p].branch = b /\ pulls[p].open}}
  /\ UNCHANGED main /\ Move

\* One branch has at most one open pull request for the same target.
Alone(p, target) ==
  \A o \in Pulls \ {p} : ~ (pulls[o].open /\ pulls[o].branch = pulls[p].branch /\ pulls[o].target = target)

Change(p) ==
  /\ \/ pulls[p].open /\ pulls' = [pulls EXCEPT ![p].open = FALSE]
     \/ ~ pulls[p].open /\ Alone(p, pulls[p].target) /\ pulls' = [pulls EXCEPT ![p].open = TRUE]
     \/ \E t \in {"main", "other"} \ {pulls[p].target} :
          Alone(p, t) /\ pulls' = [pulls EXCEPT ![p].target = t]
     \/ pulls[p].base # Len(main) /\ pulls' = [pulls EXCEPT ![p].base = Len(main)]
  /\ UNCHANGED <<pushed, main>> /\ Move

\* A merge to main; a change of a bound file may forget its digest, or mend it.
Merge(stale) ==
  /\ main' = Append(main, [stale |-> stale, dockerfile |-> Len(main) + 1])
  /\ UNCHANGED <<pulls, pushed>> /\ Move

\* The tests of a push are completed, which starts a job on the tip of main.
Trigger(j) ==
  /\ job[j].pc = "none"
  /\ \E e \in pushed :
       job' = [job EXCEPT ![j] = [NoJob EXCEPT !.pc = "lookup", !.commit = Len(main),
                                               !.branch = e.branch, !.head = e.head]]
  /\ UNCHANGED <<world, current>>

-----------------------------------------------------------------------------
(***************************************************************************)
(* The job.  A step that fails ends it.                                    *)
(***************************************************************************)
Go(j, rec) == /\ job' = [job EXCEPT ![j] = rec]
              /\ UNCHANGED <<world, current>>
Fail(j) == Go(j, [job[j] EXCEPT !.pc = "failed"])
\* A request is refused or not answered in time, or its answer breaks a limit.
Unanswered(j) == Fail(j)
Trusted(j) == main[job[j].commit]

\* collect: the pull requests of the commit are asked for, once.
Lookup(j) ==
  /\ job[j].pc = "lookup"
  /\ Go(j, [job[j] EXCEPT !.pc = "resolve", !.answer = pulls]) \/ Unanswered(j)

\* _current_pr_matches over the answer.
Matches(j) ==
  {p \in Pulls : LET a == job[j].answer
                 IN  Eligible(a, p) /\ a[p].head = job[j].head /\ a[p].branch = job[j].branch}

\* resolve: exactly one must match; the intake is written.
Resolve(j) ==
  /\ job[j].pc = "resolve"
  /\ \/ Cardinality(Matches(j)) # 1 /\ Fail(j)
     \/ /\ Cardinality(Matches(j)) = 1
        /\ \E p \in Matches(j) :
             Go(j, [job[j] EXCEPT !.pc = "plan",
                      !.intake = Resolved(Identity(job[j].answer, p), job[j].commit)])

\* build_plan: the checkout must be bound, the intake be about it.
Planned(j) ==
  /\ Trusted(j).stale \cap PlanChecks = {}
  /\ job[j].intake.commit = job[j].commit

Plan(j) ==
  /\ job[j].pc = "plan"
  /\ \/ ~ Planned(j) /\ Fail(j)
     \/ /\ Planned(j)
        /\ job' = [job EXCEPT ![j].pc = "bind", ![j].plan = job[j].intake]
        /\ current' = [current EXCEPT ![j] = Now]
        /\ UNCHANGED world

\* materialize_proof: the plan is checked against the checkout once more.
Bind(j) ==
  /\ job[j].pc = "bind"
  /\ \/ Go(j, [job[j] EXCEPT !.pc = "recheck"])
        /\ Trusted(j).stale = {} /\ job[j].plan.commit = job[j].commit
        /\ job[j].context = "absent" /\ job[j].manifest = NotWritten
     \/ Fail(j) /\ (Trusted(j).stale # {} \/ job[j].plan.commit # job[j].commit)

\* Mutant: where the pull request goes to is taken from the plan.
StillCurrentHead(j) ==
  LET p == job[j].plan.pull IN pulls[p].open /\ pulls[p].head = job[j].plan.head
\* The live pull request is the one of the plan, in all it was planned with.
StillCurrent(j) ==
  LET p == job[j].plan.pull
  IN  Eligible(pulls, p) /\ Resolved(Identity(pulls, p), job[j].commit) = job[j].plan

\* Mutant: a pull request that has moved is waited for.
RecheckWaiting(j) ==
  /\ job[j].pc = "recheck"
  /\ StillCurrent(j) /\ Go(j, [job[j] EXCEPT !.pc = "fetch"])
Recheck(j) ==
  /\ job[j].pc = "recheck"
  /\ \/ StillCurrent(j) /\ Go(j, [job[j] EXCEPT !.pc = "fetch"])
     \/ ~ StillCurrent(j) /\ Fail(j)
     \/ Unanswered(j)

\* Only a plain file is taken: no link, no program, nothing that is too large.
Taken(h) == Source[h] = "plain"

\* The commit, its trees and its blob never change: one step stands for all of
\* these requests.
Fetch(j) ==
  /\ job[j].pc = "fetch"
  /\ \/ Taken(job[j].plan.head) /\ Go(j, [job[j] EXCEPT !.pc = "create"])
     \/ ~ Taken(job[j].plan.head) /\ Fail(j)
     \/ Unanswered(j)

\* The build context: made, measured, and removed again whatever happened.
CreateContext(j) ==
  /\ job[j].pc = "create"
  /\ Go(j, [job[j] EXCEPT !.pc = "measure", !.context = "present"]) \/ Fail(j)

Measure(j) ==
  /\ job[j].pc = "measure"
  /\ \E broken \in BOOLEAN : Go(j, [job[j] EXCEPT !.pc = "remove", !.failing = broken])

RemoveContext(j) ==
  /\ job[j].pc = "remove"
  /\ \/ Go(j, [job[j] EXCEPT !.pc = IF job[j].failing THEN "failed" ELSE "write",
                             !.context = "absent"])
     \/ Go(j, [job[j] EXCEPT !.pc = "failed", !.unremoved = TRUE])

\* The manifest names the source, the Dockerfile and the identity rechecked.
WriteManifest(j) ==
  /\ job[j].pc = "write"
  /\ Go(j, [job[j] EXCEPT !.pc = "done",
              !.manifest = [pull |-> job[j].plan.pull, head |-> job[j].plan.head,
                            base |-> job[j].plan.base, dockerfile |-> Trusted(j).dockerfile]])

\* Five minutes are over, or the run is cancelled.
KillJob(j) ==
  /\ job[j].pc \notin Over \cup {"none"}
  /\ Go(j, [job[j] EXCEPT !.pc = "killed"])

JobStep(j) ==
  \/ Lookup(j) \/ Resolve(j) \/ Plan(j) \/ Bind(j) \/ Recheck(j)
  \/ Fetch(j) \/ CreateContext(j) \/ Measure(j) \/ RemoveContext(j) \/ WriteManifest(j)

GitHub ==
  \/ \E b \in Branches, h \in Heads : Push(b, h)
  \/ \E p \in Pulls : Change(p)
  \/ \E stale \in SUBSET Bound : Cardinality(stale) <= 1 /\ Merge(stale)

IntakeNext == GitHub \/ \E j \in Jobs : Trigger(j) \/ JobStep(j) \/ KillJob(j)

IntakeSpec == IntakeInit /\ [][IntakeNext]_intake /\ \A j \in Jobs : WF_intake(JobStep(j))

-----------------------------------------------------------------------------
Manifests == {j \in Jobs : job[j].manifest # NotWritten}

\* A manifest is about the commit whose tests started the job, however often
\* the pull request moved meanwhile; its source is acceptable; all else in it
\* comes from one commit of main whose bound files are as they were pinned; and
\* the identity it calls rechecked was that of an open pull request for main,
\* on that base and from the branch that was tested, at some moment after the
\* plan had been made.
ManifestIsTrue ==
  \A j \in Manifests :
    /\ job[j].manifest.head = job[j].head /\ Source[job[j].head] = "plain"
    /\ Trusted(j).stale = {} /\ job[j].manifest.dockerfile = Trusted(j).dockerfile
    /\ \E i \in current[j] : /\ i.branch = job[j].branch
                             /\ \A f \in {"pull", "head", "base"} : job[j].manifest[f] = i[f]

\* Nothing of a candidate stays behind a job that ran to its end, unless the
\* removal itself failed; and then there is no manifest.
NothingIsLeft ==
  \A j \in Jobs : job[j].pc \in {"done", "failed"} =>
    /\ job[j].context = "present" => job[j].unremoved
    /\ job[j].pc = "failed" => job[j].manifest = NotWritten

\* A manifest can be relied on, and there is none where something went wrong.
IntakeIsTrue == ManifestIsTrue /\ NothingIsLeft

\* Each job ends without help of its time limit, however often and whenever the
\* pull request it is about changes.
JobsEnd == \A j \in Jobs : job[j].pc = "lookup" ~> job[j].pc \in Over
=============================================================================
