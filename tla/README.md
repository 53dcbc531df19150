# A verification of mcp-behaviour-guard

mcp-behaviour-guard tests MCP servers against a reviewed contract: it calls
tools as several identities, watches their side effects through observers, and
turns what it saw into findings. The assurance harness beside it
(`assurance/phase2`) runs a candidate of the guard against a trusted fixture in
isolated containers and lets a release gate judge it. Both make the same kind
of promise: *a clean verdict is given only on complete evidence, and a confirmed
violation is never lost*. The modules here model the code that has to keep this
promise while several processes, restarts, lost replies and time-outs are in
its way, check it with TLC on small instances, and prove nearly all of its safety
properties for every instance with TLAPS.

## 1. The system

### Inventory

| Component | State | Operations | Interacts by |
|---|---|---|---|
| Trusted fixture store, `fixture/store.py` | SQLite: meta row, attempts, requests, records, audit ledger, observer cursor | bootstrap, create, open, business write, close, final snapshot, finalize, abort, observer reset and events | transactions on one file |
| Fixture services, `app_service.py`, `control_service.py` | none besides the store | one HTTP handler per store operation | HTTP from candidate, guard, orchestrator |
| Observer ownership, `observers/ownership.py` | `asyncio.Lock` per loop and key, lock file per key, context variable | `observer_ownership` | shared lock files of a user |
| JSONL observer, `observers/jsonl_audit.py` | cursor, inode, prefix, partial line | begin, collect | reads a file others write |
| HTTP observer, `observers/http_audit.py` | baseline or last snapshot | begin, collect | polls the target |
| Filesystem observer | snapshot before | begin, collect | reads directory trees |
| Engine, `engine.py`, `correlation.py` | findings, invocations, positive controls | nine check groups | client, observers, store |
| MCP client, `client.py`, `stdio_transport.py` | a session | invoke, list, metadata snapshot | MCP SDK |
| Run store, runner, receipts | SQLite runs/invocations/findings/alerts, run directory | start, add, finish, receipt | SQLite, files |
| Alerts and monitor, `alerts.py`, `cli.py` | alert fingerprints | send, repeat | webhook |
| Saved-run comparison, `baseline.py` | none | load two runs, compare | files |
| Temporal integrity, `temporal.py` | reference snapshot of metadata | compare | client sessions |
| Approval demo, `run_approval_demo.py` | run directory, containers, volumes, output directory | one attempt, three scenarios, promotion, judgement, gate volumes | fixture control, Docker, gate |
| Release gate, `gate/gate.py` | approval bundle, results directory | promote, evaluate, publish | files |
| Campaign, `run_adversarial_closure.py` | one runtime per case, two gate volumes, output | five hostile cases after a reference, judged by the gate | Docker, fixture, gate |
| Failure evidence, `failure_evidence.py` | cleanup ledger | fence, stop, verify, preserve, remove | Docker |
| Bounded commands, `run_isolation_check.py` (`_run`) | process group, pipe, two deadlines | poll, read, drain, terminate | operating system |
| Native proof, workflow `phase2-native-amd64-proof.yml`, `ci/p2_native_proof.py`, `ci/build_adapter.py` | images, registry, frozen profile, script resources | validate, build, push, freeze, pull, three scripts, compare | Docker, registry |
| Construction, `ci/p3_reference_candidate.py`, `ci/p3_promotion.py` | output directory of the demo, committed authority | adjudicate, validate | files, repository |
| Intake, workflow `phase2-trusted-intake.yml`, `ci/resolve_workflow_run.py`, `ci/collect_workflow_run_intake.py`, `ci/p4_controller_plan.py`, `ci/p4_candidate_materialization.py` | intake, plan, context, manifest | look up, resolve, plan, bind, recheck, fetch, measure, write | GitHub |
| Attempt resources, `ci/p4_resource_*` | budgets, lease | consume, acquire, extract | called by tests only |
| Contracts, host configuration, reporting, demos | none | parse, render | files |

`PROJECT.json` lists every component with its sources, its status and the
reason where it is not modelled, and every hazard at its line.

### What is hard

* *Concurrency.* The candidate writes to the fixture while the control plane
  opens, fences and finalizes; guards in several processes share a target; a
  log grows, is truncated or replaced while it is read.
* *Failure.* Either fixture service restarts at any step; replies are lost
  after a commit; a step of the orchestrator fails with or without its effect;
  a gate dies, or the power fails, between writing and renaming a result.
* *Ordering.* Evidence is exported in one transaction and sealed in another;
  a rejected request, a late answer or a retry falls between them. The only
  copy of evidence is in a volume that the cleanup removes.
* *Staleness.* A pull request moves while it is taken in, metadata changes
  between two reads, a checkout is edited under a run, an output directory
  holds the files of an earlier one.
* *Time.* Observers settle: they must neither end before the target is quiet
  nor wait for ever.

## 2. Modules

| Module | Models | Role |
|---|---|---|
| `Fixture` | `fixture/store.py` with restarts and lost replies | component |
| `FixtureReaders` | `observer_events` and `snapshot`, SELECT by SELECT | component, composed with Fixture |
| `SealedLedger` | what the fixture promises the gate | abstract specification |
| `FixtureRefinement` | Fixture implements SealedLedger | refinement mapping |
| `FixtureProofs` | theorems about them and about `AttemptRun` | proofs |
| `Ownership` | `observers/ownership.py` | component |
| `ExclusiveWindows` | atomic exclusive grants | abstract specification |
| `OwnershipProofs` | theorems about Ownership | proofs |
| `LogAudit` | what the two observers of audit logs have in common | base of the next two |
| `JsonlAudit` | `observers/jsonl_audit.py` | component over LogAudit |
| `HttpAudit` | `observers/http_audit.py` | component over LogAudit |
| `LogAuditProofs` | theorems about JsonlAudit and HttpAudit | proofs |
| `GateRules` | assessment rules of `gate/gate.py` and what it uses of `baseline.py` | operators |
| `Gate` | evidence of an attempt as it comes about and is spoiled | component over GateRules |
| `AttemptRun` | `_run_attempt` of `run_approval_demo.py` | composition of Fixture and GateRules |
| `Publication` | `_publish` of the gate with crashes and power failures | component |
| `GateProofs` | theorems about Gate and Publication | proofs |
| `EngineRules` | effect claims, coverage, attribution and findings of `engine.py`, `correlation.py` | operators |
| `Engine` | the checks of a run against a target it cannot trust | component over EngineRules |
| `Temporal` | `_check_temporal_integrity` with `temporal.py` and `metadata_snapshot` | component |
| `GuardRun` | a whole run: discovery, temporal check, the other checks | composition of Engine and Temporal |
| `EngineProofs` | theorems about Engine, Temporal and GuardRun | proofs |
| `Monitor` | `mcp-guard monitor`: cycles, the life of a run on disk and in the database, alerts | component |
| `MonitorProofs` | theorems about Monitor | proofs |
| `Cleanup` | one runtime of the campaign and `cleanup_resources` | component |
| `Campaign` | `run_adversarial_closure.py` over all cases, and the gate's volumes | composition over Cleanup |
| `CampaignProofs` | theorems about Campaign and Cleanup | proofs |
| `BoundedRun` | `_run` of `run_isolation_check.py` with the processes it bounds | component |
| `NativeProof` | the two jobs of the native proof | component |
| `Construction` | a demo run into a directory, adjudication, commit, validation of the authority | component |
| `Intake` | the trusted intake of pull requests | component |
| `Pipeline` | a command, then the proof, then a construction, then the intake | composition of the four |
| `PipelineProofs` | theorems about the pipeline and its four stages | proofs |

The `MC*` modules only give constants a small value and declare symmetries.

### Correspondence with the code

**Fixture.** Every store operation is one `BEGIN IMMEDIATE` transaction, hence
one action: SQLite's write lock serialises them, an exception rolls back, and a
crash before the commit leaves no trace. `business_write` has four outcomes:
commit, rejection that is recorded, an exception (rolled back, with the row
left as the code leaves it), and a refusal without a row. A reply may be lost
after any of them (`told` keeps what the client last heard). `Bootstrap` is the
restart of either service. The hash chain is modelled by who precedes whom,
which is all a chain of collision-free hashes says. `FixtureReaders` splits the
two reads that run outside a transaction into their SELECTs; its window
property has the premise that the attempt does not change while the window is
open, because a collection after a switch is about another attempt.

**Ownership.** A run is an asyncio task. A window takes the local locks of its
missing keys, then their lock files, each in sorted order and one at a time; a
task may be cancelled or fail at any `await` and a process may be killed at any
step. A loop that finds several locks free takes them without suspending; the
model has these and more interleavings. Lock-file polling is an action enabled
while the file is free.

**LogAudit, JsonlAudit, HttpAudit.** The two observers settle alike: `LogAudit`
has the clock, the times and how a collection raises or returns. Where both have
a notion of their own, that of `HttpAudit` carries the observer's name, because
one module of proofs extends both. Every `stat`, open-and-read, request,
snapshot taken by the target and arrival of its answer is a step; between two of
them the writer appends (half a line, too) and a fault truncates, rewrites,
replaces or deletes. The clock advances by one poll interval at any time while a
settling collection runs, so a step may come late. `begin()` is one step.
Documented limits of polling are premises, not findings: a truncation followed
by growth past the cursor (`docs/contract-reference.md`), a file exchanged
before it was first seen, an inode number that is used again.

**GateRules, Gate.** `Outcome` is the order of `_evaluate`: authority and
binding first, then a confirmed violation, then incomplete evidence, then
review. `Assessment` is what one source contributes: `_validate_snapshot`,
`_matrix`, the receipt, the comparator. Digests and schemas appear as sources
that are bound or not. A capability may be the same, may have changed, or may
have lost its inventory (`capability_inventory_regression`), which is INVALID.
`Gate` starts from the evidence of a clean attempt. Truthful steps write or
refuse, add findings, change how the runs compare; then `Record` writes the
execution context with the digests of the files (`recorded`). Damage is not
restricted: before and after `Record` any row, event or finding can be removed,
doubled or altered, also to the better, and authority, subject or a file can be
lost. A file whose content is not what the context recorded is not bound
(`Bound`). The context itself is trusted: the gate has nothing to check it
against. So damage done before the context was written can help, by a REJECTED
row or a finding that is not required and vanishes; what `DamageNeverHelps` says
is that after it nothing does, and that at no time a write is accepted while one
of its three traces (row, event, count) is left in the snapshot.

**AttemptRun.** The orchestrator's stages are those of `_run_attempt`: create,
open, guard, close, final snapshot, finalize, context, cleanup. Every call may
fail with its effect (the reply is lost) or without; then only the best-effort
fence follows. The fixture is module Fixture unchanged, so writes, restarts
and aborts happen between any two stages. `GateEvidence` is what the gate would
read of the files written so far. The guard's own report is taken to be clean:
the question is what the fixture's evidence alone makes the gate say.

**Publication.** `_publish` step by step. A power failure loses files that were
not flushed and renames that were not, and spares what was.

**EngineRules, Engine.** A check is a job: observers begin, calls are served,
observers are collected, the finding is made. Direct calls of the access,
tenant, policy and session checks have a window only if the tool may change
something and claims something (`_invoke_with_mutation_observation`); behaviour
and replay checks always have one. Responses are sets of what the checks look
for, events are [call, kind, allowlisted, with metadata]. Calls with a lost
reply are taken as served, which is the worst case. `served`, `late` and
`foreign` belong to the target, not to the code: they are what the verdict is
compared with. That effects settle before the observers are collected is the
documented boundary of the guard; what arrives later is in `late` and may turn
up in the window of a later check. Cancellation and the evidence files of these
checks are left out, and every event of a replay's kind is taken to name the
replayed tool.

**Temporal, GuardRun.** A snapshot is one request per family; the target may
change a family between any two requests, and back again. The file of a
checkpoint is written before it is counted, and the order of noting a drift and
writing its difference is that of the code, which is not the same for the first
and the later snapshots of a session. In `GuardRun` the check runs after
discovery and before all others, as in `_run_with_ownership`, and is forgotten
but for its finding when it is over.

**Monitor.** A cycle is start_run under the target's ownership, two findings
(the temporal one with any verdict `Temporal` allows, and one for the rest),
finish_run, report, receipt, and the alerts. Everything raised, and the death of
the process, is `GiveUp`: the monitor sleeps and goes on. `spare` and `told` are
ghosts that count what the webhook was sent. The question whether an alert is
due and its message are one step, because the message changes nothing another
monitor reads; the record of it is a step of its own.

**Cleanup, Campaign.** A runtime owns all its names before the first command.
Docker refuses a command, loses its answer or outlasts the time limit, which
raises; a removal that was not confirmed may still happen later; an inspection
says the truth or nothing. Each step of `cleanup_resources` is an action with
its failures: fence, stop, verify, inspect, preserve, remove network, remove
volumes, ledger. A service that still runs spoils a copy that was made (`Write`).
A helper that raises leaves an error record instead of a ledger, and that record,
or the one of a failed capture, may be impossible to write, too
(`RecordRaises`): then nothing is written down and the case raises.
The cases differ in what they do before that; what the services answer in them
is a success or an exception. In the recovery case the application and the
control service are removed and run again under their names; the model has them
running from the first to the last. `Campaign` runs the reference and the cases one
after the other, lets the gate answer anything, and ends with
`_cleanup_gate_volumes`.

**BoundedRun.** The command is a process group; each process may fork, write,
close the pipe, leave the group, ignore SIGTERM or exit at any time. The two
streams are one pipe and a read takes all of it. `_run` keeps the first
`capture_limit` bytes and one more of what it reads, discards the rest, and
marks the output as truncated, exit code or not: an exit code says that nothing
of the command was left unread, not that all of it is returned.

**NativeProof.** The first job may fail at every step; a failed push may have
had its effect; that the first job itself is killed is left out. A script is its
sequence of creations and checks, followed by
the removal of what it recorded; services may exit while it runs. What the
networks really block is chosen when they are created and is for the check to
find out.

**Construction.** The demo writes file after file into a directory that may hold
those of earlier runs, raises anywhere and may be killed anywhere; also the write
of the gate ledger, the last one, may raise and leave an earlier run's ledger
under a summary that is there. The checkout may be edited meanwhile. Its version
stands for what the code pins to files: gate, orchestrator and profile. The
digests of contract, expected checks and rules are compared with those the
profile declares, not with files, and `AuthorityIsPinned` does not speak of them.
A digest is what it is the digest of. `Acceptable` is
what the adjudication reads of the files, `AuthorityIsValid` what the committed
authority is checked for.

**Intake.** Between any two steps of a job the author pushes, closes, reopens
or retargets and maintainers merge. Git objects never change, so their requests
are one step; each answer of the API that can change is a step of its own.

**Pipeline.** A stage starts only from what the previous one left accepted:
a command that returned, a profile that was proved, an authority that is valid.
The stages share nothing else, and one that is over is forgotten.

## 3. Runs

| Run | Instance | Shows |
|---|---|---|
| `fixture` | 2 attempts, 2 requests, 2 records | types; audit ledger valid and true to the writes; replies never contradicted; exported evidence whole; implements SealedLedger |
| `fixture_readers` | 1 attempt, 3 requests | reads of several SELECTs are coherent |
| `ownership` | 3 runs, 2 loops, 2 processes, 3 keys, depth 2, cyclic contracts | no leak, implements ExclusiveWindows, every run that begins ends |
| `jsonl_audit` | 2 events, 1 fault, settle 2, quiet 1 | what is returned is whole and faults are noticed; confirmed events kept, none taken back; a collection ends |
| `http_audit` | 3 events, 1 fault, settle 3, quiet 2 | what is returned is whole; a settled collection ends |
| `gate` | 3 steps from clean evidence before and after its digests are recorded, 2 required findings | PASS is earned, blocks are right, no damage helps once the digests are recorded |
| `attempt_run` | 1 attempt, 3 requests, 2 records | the verdict is the truth about the attempt, and what is accepted is over |
| `publication` | 3 gates, 2 results, 2 files | published bundles are whole, reported ones stay |
| `engine` | 15 contracts with 1 or 2 tools, identities and observers, 2 kinds of effects, 1 stray effect for those about windows; 2 metadata families, 2 sessions, 2 retests | a pass is evidenced, denials are controlled, drift is reported and nothing else is, calls are safe, effects are reported and nobody is blamed for another's |
| `monitor` | 2 monitors, 1 fault, 2 tests, with and without repetition and JSON report | a directory that is accepted is of a finished run; alerts are true and few; a lasting problem is alerted |
| `campaign` | the reference and all five cases, a new output directory | no evidence is lost, what is written of the cleanup is true, the campaign ends |
| `pipeline` | 1 descendant, capture limit 1, budget 2; 2 images; 2 demo runs, 2 edits; 3 pull requests on 2 branches, 2 commits, 3 moves, 1 job | commands are contained and end; the proof, the authority and the manifest are true; jobs end |

*Why these bounds.* Two attempts are needed for one to follow another on the
same database, two requests for one to overtake another, two records for
writers to differ; three requests in `fixture_readers` and `attempt_run` allow
a committed, a rejected and a late one at once. Each attempt of the demo has a
fixture of its own, so `attempt_run` has one. Three runs and three keys are the
least with which a cycle of waiting could go beyond two; depth 2 is the nesting
the engine uses (run, check). A settle time of three intervals and a quiet
period of two (two and one for the log, whose events come in parts) let news
come before, at and after the boundary of both. Three
steps from clean evidence let a write, a refusal and a loss, or two losses and
a violation, meet; the context may be written between any two of them. Three gates let two race
and one come later. The contracts of the engine run each bring one kind of
check together with an observer that could mislead it; checks meet only through
positive controls, late effects and the assessment, so two of a kind are
enough. One stray effect (`MaxStray`) is one too many for a replay that allows
one; each call has at most one effect of its own. Two families are needed for a
snapshot to be torn, two sessions and two retests for a first, a middle and a
last checkpoint; a family has two versions, because snapshots are compared only
for equality with the reference. Two monitors share the target and the alerts;
with one fault each step of a cycle can fail while the other monitor goes on.
In the campaign every case of the code is run, in its order, and every one of
its commands may fail; the number of failures is not bounded. One descendant
can leave the group, hold the pipe or ignore SIGTERM while the leader does
something else; a capture limit of one chunk and a budget of two let output be
whole, cut, and too much. Two demo runs into one directory give every mixture of two
files; two edits take the checkout away and back. Three pull requests are two
that share a branch but not a target, and another; three moves let a push, a
change and a merge meet. Jobs share nothing but what GitHub answers, so one is
enough.

*Mutants.* For every property of a run the modules hold a mutant of a modelled
definition, a plausible slip in the code it stands for, under which TLC finds
that property violated.

*Deadlock* is checked wherever the system has no end. It is not checked for
`Ownership`, the observers, `Gate`, `Publication`, the engine, the campaign and
the pipeline, whose behaviours end.

*Fairness.* `Ownership`: weak fairness of every step of a run that is enabled
(an event loop runs ready tasks, `asyncio.Lock` is FIFO) and strong fairness of
leaving the outer window (a run has finitely many checks). Where several
processes poll one lock file none is favoured; the code has no acquisition
timeout, and no fairness is assumed of cancellation or death.
`JsonlAudit` and `HttpAudit`: the collector is scheduled and the clock
advances; nothing is assumed of the writer or the target. `Monitor`: each
process is scheduled (its sleep ends, its requests have time limits), and the
faults of a run are finite: if every cycle failed nothing could be promised.
`Campaign`: the harness is scheduled; nothing is assumed of Docker, whose
commands the harness bounds itself (`BoundedRun`). `BoundedRun`: the runner is
scheduled and both deadlines pass; nothing is assumed of the command.
`Intake`: a job is scheduled; its requests have time limits, so each step ends
with an answer or without one.

## 4. Theorems

All are proved for every value of the constants that meets the named assumptions
of the modules. Those assumptions tell identifiers from null values, make sets
finite that are counted or waited for, and give numbers, contracts, options and
sequences their types; they set no bound. The list of results is in
`PROJECT.json`; here is the argument of each proof, that is, the inductive
invariant and why the checked property alone is not enough.

* **Fixture** (`FixtureProofs`). `IInv` conjoins the checked invariants and
  what a final snapshot recorded (`SnapshotRecorded`, `FinalizedUnchanged`):
  its watermark and request count are those of the evidence returned, and the
  rows it listed are still there. This is what makes `EvidenceIsWhole`
  inductive: equal counts at finalize mean equal rows because rows are only
  added. From it follow that there is one live attempt, that the audit is true,
  the replies hold and the evidence is whole; two action properties (nothing is
  written after the fence, an interrupted attempt is never finalized); and that
  every behaviour is one of SealedLedger.
* **Readers** (`FixtureProofs`). A reader's steps are the store's, so `IInv`
  holds; `ReadersInv` says how what was read so far lags behind the tables. Its
  hinge: a snapshot that found the attempt closed found a watermark that no
  longer moves, any other is only a lower bound.
* **An attempt and its verdict** (`FixtureProofs`). The orchestrator's steps are
  the store's too. `RunInv` relates each stage to the state in the database and
  to what has been written down: an exported dossier is the evidence of an
  attempt that is fenced, a context exists only of a finalized one.
  `VerdictIsTrue` then is about the rules alone, applied to evidence that is
  whole; `AcceptedIsOver` is an action property.
* **Ownership** (`OwnershipProofs`). `IInv` is `TypeOK` and a `Shape` for every
  task, which relates each frame's phase to the local locks and lock files it
  has and to the context variable. Exclusion, re-entrance, absence of leaks and
  the refinement of ExclusiveWindows follow.
* **HTTP observer** (`LogAuditProofs`). `HttpInv` says where a collection that
  has raised nothing stands after any number of polls: the snapshots extend one
  another, the result is what the last has beyond the first, and while the
  target only appends each is the baseline and a part of what was appended
  since. The proof rests on lemmas about prefixes and suffixes of sequences. The
  first entry that is no event is found with `Least`, the least-number
  principle, drawn from the well-foundedness of `<` on the naturals.
* **JSONL observer** (`LogAuditProofs`). `JsonlInv` has three strands. *Which
  file*: inode numbers only grow, so a file that was exchanged while observed is
  another one until the collection raises (`ReplacedInv`); one exchanged before
  it was first seen is what `KnownInv` sets apart. *What was read*
  (`EventsInv`): whole lines, each an event or blank, and the events of the
  result are theirs; `CleanJoins` and `EventsJoin` say that parsing the parts
  one after the other is parsing the whole. *What there is* (`IntactInv`): while
  the file is only appended to, what was read is still there, and behind the
  start of the window are the texts of the events written since, or else the
  text of a line that is no event. A last look that finds nothing unread ties
  the three together: a line that is no event would have been read, and read
  lines have none (`NoBadText`); so there was no fault and the result is what
  was written (`SettledInv`). Both the invariant `CollectionIsTrue` and the
  action property `EvidenceIsKept` follow. What the texts of a payload say,
  `Told`, is a recursive function: that it is what its equation says is proved
  from the existence of such a function for every length (`ToldExists`), again
  with `Least`.
* **Gate** (`GateProofs`). The rules alone make a pass earned and a block right,
  so there the invariant is the form of the evidence. That damage never helps
  needs what the context holds fast (`Held`): how the attempt ended does not
  change once recorded, and an authority or a subject that is settled now was
  settled then. `Accepted` says what an outcome other than BLOCK and INVALID
  takes, among it that every file is bound; so its files are the recorded ones,
  and the two verdicts are of the same evidence. The three traces of a write are
  compared with one another by `_validate_snapshot`, which needs no digest.
* **Publication** (`GateProofs`). `PublicationInv`: only a complete staging
  directory is flushed, only a flushed one is renamed into place, a gate that
  renamed and lives finds its own result there, and what a report was given of
  is on disk. A power failure takes away exactly what these leave open.
* **Engine** (`EngineProofs`). `EngineInv` follows one check from its beginning
  to its finding: `JobInv` (what is under way, and that nothing kept the engine
  from it), `WindowInv` (which observers are open and whose records they hand
  over), `ServedInv` and `ReplyInv` (what the target did is what the reply told),
  `ControlsInv` (a positive control stands for a permitted call that worked) and
  `FindingsInv` (what a finding's status says). From it follow both invariants
  and the three action properties.
* **Temporal check and a whole run** (`EngineProofs`). `TemporalInv`: while every
  file is written, drift is noted exactly if two snapshots in the evidence
  differ (`EvidenceInv`), and without error or drift the number of checkpoints
  is that of the sessions and calls made so far (`ProgressInv`), which is why a
  pass has all of them. A whole run (`GuardRun`) refines Engine, so all five
  properties of the engine hold of it as well.
* **Monitor** (`MonitorProofs`). `MonitorInv`: the findings of a cycle are those
  of its row until the row has ended, and a receipt comes only then
  (`SavedInv`); a bad finding is still to be posted or was told (`PostingInv`);
  and the monitors that have posted and not recorded a message are the only ones
  that have used their share of repetitions (`SpareInv`).
* **Campaign and cleanup** (`CampaignProofs`). The invariant says what the
  harness may conclude at each step of the cleanup from what Docker has told it:
  what is left to do, what is gone, whether every writer is gone, which volumes
  have a whole copy. A copy is worth something only while nobody can write any
  more (`WritersInv`, `CopiesInv`), which is the whole argument for
  `NothingIsLost`. `CampaignIsTrue` is proved under the hypothesis
  `"complete" \notin Earlier`: without it the statement is false (section 6).
* **Pipeline** (`PipelineProofs`). One invariant for each stage. *Command*: whoever
  gave up has signalled the group, and goes on only when the group is gone.
  *Native proof*: what may have been published has left a log; what the isolation
  check has seen so far of each forbidden path. *Intake* (`JobInv`,
  `ManifestInv`): every document of a job is about the push it was started for,
  each is there once its step is over, and what was known when the plan was
  rechecked is among the states GitHub has been in since the plan.
  *Construction*: what the running demo has written of each attempt, step by
  step, and that the files under a summary are of one run as long as the
  reference's snapshot, the first file a later run writes, is that run's; a run whose ledger
  could not be written counts with those that were killed. The
  pipeline holds the invariant of the stage it is at; what starts a stage
  establishes its invariant.

Every safety property of a run is so proved, for every number of tasks, events,
faults, attempts or jobs. Liveness stays with TLC everywhere (`EveryRunEnds`,
`CollectionEnds`, `HttpCollectionEnds`, `ProblemIsAlerted`, `CampaignEnds`,
`CommandEnds`, `JobsEnd`): the provers do not reason about fairness and ENABLED.

## 5. Plan

Modelled, checked and proved: the fixture with readers, attempt and refinement,
ownership, both log observers, gate and publication, engine and temporal check,
monitor, campaign and cleanup, the pipeline. What a next step could take up:

1. An abstract window of an append-only log that `JsonlAudit` and `HttpAudit`
   both implement. Their results differ in what counts as settled (a size that
   stays, a list that stays), so the abstraction has to say what a returned
   result is a prefix of, not when it returns.
2. The filesystem observer, which compares two scans of a tree, and the other
   components marked "not modelled" or "partly".
3. Lemmas that several proofs state for themselves (parts of sequences, counts of
   finite sets) can move to one module.

## 6. What modelling showed

None of these contradicts a document, a comment or a test; they are limits a
reader of a verdict should know.

* *Campaign in a used directory.* `main` accepts an output directory that is
  there already. If the cleanup helper raises in the crash case, `_cleanup`
  returns (it preserves), and `_cleanup_complete` then reads the `cleanup.json`
  of the earlier use. With `Earlier = {"absent", "complete"}` TLC finds a
  campaign that exits without an exception and has left resources behind. The
  run takes the directory to be new.
* *Limits that disagree.* `p4-resource-policy.json:74` allows strings of 65536
  bytes in JSON, `trust-boundary.json:20` sources of 524288 bytes: a candidate
  of more than some 48 KB, whose blob arrives as a base64 string, is refused.
* *Construction.* The attempt that must be INVALID is bound to no contract of
  the checkout, and a run killed after its summary, or one whose last write
  failed, can be accepted with the gate ledger of an earlier run;
  `ConstructionIsOneRun` says exactly so much.
* *Digests carry the gate's promise.* Of a snapshot alone the gate would not
  notice a missing row that is not COMMITTED: REVIEW would become PASS. That it
  does notice rests on the context's digests, and the context on nothing else.
* *Temporal check.* After a call the difference is written before the drift is
  noted (`engine.py:287`): when that write fails the verdict is an error of
  medium severity although the drift was seen. A metadata request that fails is
  recorded as its payload and shows up as drift.
* *Alerts.* The fingerprint has no status: an error of severity high silences a
  later violation of the same test. Without a repeat interval a problem that
  was solved and comes back is not posted again, and a message the webhook
  always refuses keeps those behind it from being sent in that cycle.

## 7. Not modelled

Parsing and validation of contracts, host configuration, reports and redaction
have no behaviour over time. The demo servers are targets. The filesystem
observer is a difference of two snapshots which the code never takes for
complete evidence. The primitives of `p4_resource_enforcement.py` are called by
tests only. Inside one attempt of the approval demo, container, network and
volume commands appear only as steps that may fail; their cleanup is that of
the campaign. Of the monitor, `only_new`, skipped findings, the history of runs,
the content of receipts and the discovery of a target are left out; of the MCP
client, the handling of sessions. Of the gate: the
approval bundle is hashed and loaded in two reads (a hazard listed), and sources
are copied into the bundle after they were assessed; both matter only
if somebody replaces the files meanwhile. The final request count is not
compared by the gate itself, which relies on the digest of the snapshot file.
`completed/` is taken to be on disk before the first result is published (the
code makes it without an fsync). When the file of a later checkpoint of the
temporal check cannot be written, `TemporalIsTrue` says only that the check does
not pass: the verdict is an error although the drift was seen (section 6). A
replay counts an event once for every observer that reports it; the error is on
the safe side, and `BlameIsRight` speaks of kinds that one observer sees.
Documented limits of polling (a truncation followed by growth past the cursor,
a reset that arrives late) are listed as hazards without a property.
