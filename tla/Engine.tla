------------------------------- MODULE Engine -------------------------------
(***************************************************************************)
(* A run of the engine (GuardEngine in engine.py) against a target it      *)
(* cannot trust: the checks group by group, each with its observation      *)
(* window, calls and findings.                                             *)
(*                                                                         *)
(* The start of the observers, each call, the collection of each observer  *)
(* and the judgement are steps of their own.  Between any two of them      *)
(* effects become visible: of a call when it is served or later, even in   *)
(* the window of a later check, and of other clients of the target.  Calls *)
(* of a replay are served in any order.  A reply may be lost, an observer  *)
(* may fail to start, fail, or return only part of what it saw, and the    *)
(* target may leave out the correlation metadata.                          *)
(***************************************************************************)
EXTENDS EngineRules

CONSTANTS
  Contracts,   \* the contracts considered
  NoOne,       \* no identity
  EffectKinds, \* bound: kinds of effects there are
  MaxStray     \* bound, by contract: effects of other clients and effects not visible yet

ASSUME BoundsAssumption == MaxStray \in [Contracts -> Nat]

\* What a contract says of its own parts holds (Contract.references_exist,
\* ReplayProbe); an observer watches no kind completely that it does not watch.
ASSUME ContractsAssumption ==
  \A c \in Contracts :
    /\ NoOne \notin c.identities
    /\ \A t \in DOMAIN c.tools :
         c.tools[t].permitted \subseteq c.identities /\ c.tools[t].readOnly \in BOOLEAN
    /\ \A p \in c.probes :
         /\ p = [group |-> p.group, tool |-> p.tool, who |-> p.who, probe |-> p.probe,
                 read |-> p.read, reader |-> p.reader]
         /\ p.group \in {"tenant", "policy", "session"}
         /\ p.group = "session" => p.probe = {}
         /\ p.who \in c.identities /\ {p.tool, p.read} \subseteq DOMAIN c.tools
    /\ DOMAIN c.replay \subseteq DOMAIN c.tools
    /\ \A t \in DOMAIN c.replay :
         LET replay == c.replay[t]
         IN  /\ replay.attempts \in Nat \ {0} /\ replay.min \in Nat \ {0} /\ replay.max \in Nat
             /\ replay.min <= replay.max
    /\ IsFiniteSet(DOMAIN c.observers)
    /\ \A o \in DOMAIN c.observers :
         /\ c.observers[o].complete \subseteq c.observers[o].observes
         /\ c.observers[o].correlated \in BOOLEAN
    /\ c.enabled \in BOOLEAN

VARIABLES
  contract,    \* [tools, identities, observers, enabled, probes, replay]
  pending,     \* checks still to be made
  job,         \* the check under way
  window,      \* [logs, outcome, returned] of each observer
  controls,    \* _identity_positive_controls: pairs of tool and identity
  findings,    \* findings so far
  served,      \* what the target really did with the calls about access and answers
  late,        \* effects not visible yet
  foreign      \* effects of other clients so far

vars == <<contract, pending, job, window, controls, findings, served, late, foreign>>

-----------------------------------------------------------------------------
(***************************************************************************)
(* The checks of a contract.  A session test calls read after tool.        *)
(***************************************************************************)
Groups == <<"discovery", "access", "behaviour", "tenant", "policy", "session", "replay">>
Rank(group) == CHOOSE i \in DOMAIN Groups : Groups[i] = group

Check(group, tool, who, probe) ==
  [group |-> group, tool |-> tool, who |-> who, probe |-> probe, read |-> tool, reader |-> who]
Inventory == Check("discovery", "none", NoOne, {})

Tester(tool) ==
  IF tool.tester # NoOne THEN tool.tester
  ELSE IF tool.permitted = {} THEN NoOne ELSE CHOOSE i \in tool.permitted : TRUE

Checks(c) ==
  {Check("access", t, i, {}) : t \in DOMAIN c.tools, i \in c.identities}
    \cup {Check("behaviour", t, Tester(c.tools[t]), {}) :
            t \in {t \in DOMAIN c.tools : Claimed(c.tools[t]) # {}}}
    \cup c.probes
    \cup {Check("replay", t, Tester(c.tools[t]), {}) : t \in DOMAIN c.replay}

Tool(t) == contract.tools[t]
Observers == DOMAIN contract.observers
Permitted(c) == c.who \in Tool(c.tool).permitted

\* Groups in order; permitted identities first; the order of the contract, which
\* nothing depends on, is left open.
NextUp(c) ==
  /\ c \in pending
  /\ \A d \in pending :
       /\ Rank(d.group) >= Rank(c.group)
       /\ d.group = "access" /\ d.tool = c.tool /\ Permitted(d) => Permitted(c)

-----------------------------------------------------------------------------
(***************************************************************************)
(* What keeps a check from being made: _lab_skip, _tool_call_preflight.    *)
(***************************************************************************)
Enabled(t) == Tool(t).readOnly \/ contract.enabled
Unhindered == [status |-> "none", observation |-> "not_required"]
Skipped == [status |-> "skipped", observation |-> "not_required"]
Silent == [status |-> "silent", observation |-> "not_required"]
Errored(observation) == [status |-> "error", observation |-> observation]

Preflight(t, required) ==
  LET coverage == Coverage(contract.observers, Observers, required)
  IN  IF ~ Enabled(t) THEN Skipped
      ELSE IF required # {} /\ coverage # "complete" THEN Errored(coverage)
      ELSE Unhindered

StepPreflight(t) == Preflight(t, IF Tool(t).readOnly THEN {} ELSE Claimed(Tool(t)))

\* Mutant: only the first call of a session test is looked at.
SessionPreflightFirst(c) == StepPreflight(c.tool)

SessionPreflight(c) ==
  IF StepPreflight(c.tool) # Unhindered THEN StepPreflight(c.tool) ELSE StepPreflight(c.read)

\* Kinds whose effects the window of a check must show.
Required(c, t) ==
  Claimed(Tool(t)) \cup (IF c.group = "replay" THEN {contract.replay[t].kind} ELSE {})

Obstacle(c) ==
  CASE c.group = "behaviour" ->
         IF Observers = {} THEN Errored("unavailable")
         ELSE IF ~ Enabled(c.tool) THEN Skipped
         ELSE IF c.who = NoOne THEN Silent ELSE Unhindered
    [] c.group = "session" -> SessionPreflight(c)
    [] c.group = "replay" ->
         IF ~ contract.enabled THEN Skipped
         ELSE IF c.who = NoOne THEN Silent
         ELSE IF Observers = {} THEN Errored("unavailable")
         ELSE Preflight(c.tool, Required(c, c.tool))
    [] OTHER -> IF Enabled(c.tool) THEN Unhindered ELSE Skipped

-----------------------------------------------------------------------------
Idle ==
  [check |-> Inventory, phase |-> "idle", step |-> "first", tool |-> "none", ops |-> {},
   waiting |-> {}, healthy |-> {}, windowed |-> FALSE, begun |-> "not_required",
   replies |-> {}, written |-> NotAttempted, writeSeen |-> "not_required"]
Closed == [logs |-> << >>, outcome |-> << >>, returned |-> << >>]

Init ==
  /\ contract \in Contracts
  /\ pending = Checks(contract) \cup {Inventory}
  /\ job = Idle
  /\ window = Closed
  /\ controls = {} /\ findings = {} /\ served = {} /\ late = {}
  /\ foreign = 0

Finding(c, status, observation) ==
  [check |-> c, effects |-> FALSE, status |-> status, observation |-> observation]

\* _discover_tools and _check_inventory: a failed discovery ends no run.  Without
\* an identity there is nobody to discover anything.
Discover ==
  /\ NextUp(Inventory)
  /\ \E status \in {"passed", "failed", "error"} :
       /\ contract.identities = {} => status = "error"
       /\ findings' = findings \cup {Finding(Inventory, status, "not_required")}
  /\ pending' = pending \ {Inventory}
  /\ UNCHANGED <<contract, job, window, controls, served, late, foreign>>

\* A check that is not made; without an identity to make it nothing is said.
Hinder(c) ==
  /\ job.phase = "idle" /\ NextUp(c) /\ c # Inventory
  /\ Obstacle(c) # Unhindered
  /\ pending' = pending \ {c}
  /\ findings' = IF Obstacle(c) = Silent THEN findings
                 ELSE findings \cup {Finding(c, Obstacle(c).status, Obstacle(c).observation)}
  /\ UNCHANGED <<contract, job, window, controls, served, late, foreign>>

-----------------------------------------------------------------------------
(***************************************************************************)
(* Calls and their window.                                                 *)
(***************************************************************************)
Attempts(c) == IF c.group = "replay" THEN 1 .. contract.replay[c.tool].attempts ELSE {1}
IsWindowed(c, t) ==
  c.group \in {"behaviour", "replay"} \/ (~ Tool(t).readOnly /\ Claimed(Tool(t)) # {})

\* A call that may change something needs complete coverage of its claims.
Suffices(c, t, coverage) ==
  \/ coverage = "complete"
  \/ c.group = "behaviour" /\ Tool(t).readOnly /\ coverage = "partial"

\* _begin_observers, or no window; "base" is the job so far.
Begin(base, c, step, t) ==
  LET ops == {<<c, step, n>> : n \in Attempts(c)}
      next == [base EXCEPT !.check = c, !.step = step, !.tool = t, !.ops = ops, !.replies = {},
                           !.windowed = IsWindowed(c, t)]
  IN  IF ~ IsWindowed(c, t)
        THEN /\ job' = [next EXCEPT !.phase = "calling", !.waiting = ops, !.healthy = {},
                                    !.begun = "not_required"]
             /\ window' = Closed
        ELSE \E healthy \in SUBSET Observers :
               LET coverage == Coverage(contract.observers, healthy, Required(c, t))
                   suffices == Suffices(c, t, coverage)
               IN  /\ job' = [next EXCEPT !.phase = IF suffices THEN "calling" ELSE "judging",
                                          !.waiting = IF suffices THEN ops ELSE {},
                                          !.replies = IF suffices THEN {} ELSE {NotAttempted},
                                          !.healthy = healthy, !.begun = coverage]
                   /\ window' = [logs |-> [o \in healthy |-> {}],
                                 outcome |-> [o \in healthy |-> "open"],
                                 returned |-> [o \in Observers |-> {}]]

Start(c) ==
  /\ job.phase = "idle" /\ NextUp(c) /\ c # Inventory
  /\ Obstacle(c) = Unhindered
  /\ Begin(Idle, c, "first", c.tool)
  /\ UNCHANGED <<contract, pending, controls, findings, served, late, foreign>>

\* Observers that have begun and not been collected record what they watch;
\* of a kind they do not watch completely they may miss it.
Visible(event) ==
  \E noticed \in SUBSET {o \in job.healthy : event.kind \in contract.observers[o].observes} :
    /\ \A o \in job.healthy : event.kind \in contract.observers[o].complete => o \in noticed
    /\ window' = [window EXCEPT !.logs = [o \in DOMAIN @ |->
                    IF o \in noticed /\ window.outcome[o] = "open" THEN @[o] \cup {event} ELSE @[o]]]

KindsWatched == EffectKinds \cap UNION {contract.observers[o].observes : o \in Observers}
IsCorrelated == \E o \in Observers : contract.observers[o].correlated

\* What nobody looks at is left at FALSE.
EffectsOf(op) ==
  {event \in [op : {op}, kind : KindsWatched, listed : BOOLEAN, meta : BOOLEAN] :
     /\ event.listed => event.kind \in AllowlistKinds
     /\ event.meta => IsCorrelated}

Stray == Cardinality(late) + foreign

\* What of interest a response may hold.
Tells(c, step) ==
  CASE c.group = "session" -> IF step = "read" THEN {"marker"} ELSE {}
    [] c.group = "tenant" -> (IF "owner" \in c.probe THEN {"own", "foreign"} ELSE {})
                               \cup ({"secret"} \cap c.probe)
    [] c.group = "policy" -> ({"secret"} \cap c.probe)
                               \cup (IF "path" \in c.probe THEN {"outside"} ELSE {})
    [] OTHER -> {}

\* Mutant: an error of the tool counts as a denial.
InvocationErrorDenies(auth, answered, tells) ==
  IF answered
    THEN [auth |-> IF auth = "unknown" THEN "deny" ELSE auth, answered |-> TRUE, tells |-> tells]
    ELSE [auth |-> "unknown", answered |-> FALSE, tells |-> {}]

\* McpClient.invoke: a failure at any point, also after the answer, hides it.
Invocation(auth, answered, tells) ==
  IF answered THEN [auth |-> auth, answered |-> TRUE, tells |-> tells]
  ELSE [auth |-> "unknown", answered |-> FALSE, tells |-> {}]

\* The target serves a call: it allows or denies it or answers with an error.
\* Only calls within a window are given correlation metadata.
\* Nobody can tell whether a call without answer was denied: it counts as served.
Call(op) ==
  /\ job.phase = "calling" /\ op \in job.waiting
  /\ \E auth \in {"allow", "deny", "unknown"}, answered \in BOOLEAN,
        tells \in SUBSET Tells(job.check, job.step) :
       /\ ~ {"own", "foreign"} \subseteq tells
       /\ ~ answered => auth = "allow"
       /\ served' = IF job.check.group \in {"behaviour", "replay"} THEN served
                    ELSE served \cup {[op |-> op, auth |-> auth, answered |-> answered, tells |-> tells]}
       /\ job' = [job EXCEPT !.waiting = @ \ {op},
                             !.replies = @ \cup {Invocation(auth, answered, tells)},
                             !.phase = IF job.waiting # {op} THEN "calling"
                                       ELSE IF job.windowed THEN "collecting" ELSE "judging"]
  /\ \/ UNCHANGED <<window, late>>
     \/ \E event \in EffectsOf(op) :
          \/ job.windowed /\ Visible(event) /\ UNCHANGED late
          \/ /\ Stray < MaxStray[contract]
             /\ event.meta => job.windowed
             /\ late' = late \cup {event} /\ UNCHANGED window
  /\ UNCHANGED <<contract, pending, controls, findings, foreign>>

Watching == job.phase \in {"calling", "collecting"} /\ job.windowed

LateEffect ==
  /\ Watching
  /\ \E event \in late : Visible(event) /\ late' = late \ {event}
  /\ UNCHANGED <<contract, pending, job, controls, findings, served, foreign>>

\* Another client of the target, which may or may not be a guard.
ForeignEffect ==
  /\ Watching /\ Stray < MaxStray[contract]
  /\ \E event \in EffectsOf(<<Inventory, "first", foreign>>) : Visible(event)
  /\ foreign' = foreign + 1
  /\ UNCHANGED <<contract, pending, job, controls, findings, served, late>>

\* An observer returns what it recorded, raises with part of it, or fails.
Collect(o) ==
  /\ job.phase = "collecting" /\ o \in job.healthy /\ window.outcome[o] = "open"
  /\ \E outcome \in {"whole", "hurt", "failed"}, events \in SUBSET window.logs[o] :
       /\ outcome = "whole" => events = window.logs[o]
       /\ outcome = "failed" => events = {}
       /\ window' = [window EXCEPT !.outcome[o] = outcome, !.returned[o] = events]
       /\ job' = [job EXCEPT !.phase =
                    IF \A p \in job.healthy \ {o} : window.outcome[p] # "open" THEN "judging" ELSE @]
  /\ UNCHANGED <<contract, pending, controls, findings, served, late, foreign>>

-----------------------------------------------------------------------------
(***************************************************************************)
(* Judgement.                                                              *)
(***************************************************************************)
Attempted == NotAttempted \notin job.replies
Bad == Misattributed(contract.observers, window.returned)
Whole == {o \in job.healthy : window.outcome[o] = "whole"} \ Bad
Hurt == {o \in job.healthy : window.outcome[o] = "hurt"} \cup Bad

Evidence ==
  IF job.windowed /\ Attempted
    THEN Attributed(contract.observers, window.returned, job.ops) ELSE {}

Observation ==
  IF ~ job.windowed \/ ~ Attempted THEN job.begun
  ELSE CollectedCoverage(contract.observers, Whole, Hurt, Required(job.check, job.tool))

Reply == CHOOSE invocation \in job.replies : TRUE

\* The finding about effects that accompanies an observed call.
EffectsFindings ==
  LET tool    == Tool(job.tool)
      unclear == /\ Claimed(tool) # {}
                 /\ Coverage(contract.observers, Whole, Claimed(tool)) # "complete"
      violated == Violating(tool, Evidence) # {}
  IN  IF job.windowed /\ Attempted /\ job.check.group # "behaviour" /\ (violated \/ unclear)
        THEN {[check |-> job.check, effects |-> TRUE, observation |-> Observation,
               status |-> IF violated THEN "failed" ELSE "error"]}
        ELSE {}

Controls ==
  IF job.check.group = "access" /\ Permitted(job.check) /\ Allowed(Reply)
    THEN controls \cup {<<job.tool, job.check.who>>} ELSE controls

Controlled(c) ==
  IF c.group = "access" THEN \E i \in contract.identities : <<c.tool, i>> \in Controls
  ELSE <<c.tool, c.who>> \in controls

Status ==
  LET c == job.check
  IN  CASE c.group = "access" ->
             Downgraded(Authorization(Reply, Permitted(c), Controlled(c)), Observation)
        [] c.group = "tenant" ->
             Downgraded(Tenant(c.probe, Reply, Controlled(c)), Observation)
        [] c.group = "policy" ->
             Downgraded(Policy(c.probe, Reply, Controlled(c)), Observation)
        [] c.group = "behaviour" -> Behaviour(Tool(c.tool), Reply, Evidence, Observation)
        [] c.group = "replay" ->
             Replay(contract.replay[c.tool], job.replies, Evidence, Observation)
        [] c.group = "session" ->
             IF job.step = "read" THEN Downgraded(Session(job.written, Reply), Observation)
             ELSE "error"

\* _merge_observation_statuses of the two calls of a session test.
Merged ==
  IF job.step = "read" /\ Observation = "not_required" THEN job.writeSeen ELSE Observation

ReadFollows ==
  /\ job.check.group = "session" /\ job.step = "first"
  /\ Attempted /\ Observation \in {"not_required", "complete"}

Judge ==
  /\ job.phase = "judging"
  /\ ~ ReadFollows
  /\ findings' = findings \cup EffectsFindings \cup {Finding(job.check, Status, Merged)}
  /\ controls' = Controls
  /\ pending' = pending \ {job.check}
  /\ job' = Idle /\ window' = Closed
  /\ UNCHANGED <<contract, served, late, foreign>>

\* The write of a session test went well enough to read.
ReadBack ==
  /\ job.phase = "judging"
  /\ ReadFollows
  /\ findings' = findings \cup EffectsFindings
  /\ Begin([job EXCEPT !.written = Reply, !.writeSeen = Observation],
           job.check, "read", job.check.read)
  /\ UNCHANGED <<contract, pending, controls, served, late, foreign>>

-----------------------------------------------------------------------------
Next ==
  \/ Discover
  \/ \E c \in pending : Hinder(c) \/ Start(c)
  \/ \E op \in job.waiting : Call(op)
  \/ LateEffect \/ ForeignEffect
  \/ \E o \in job.healthy : Collect(o)
  \/ Judge \/ ReadBack

Spec == Init /\ [][Next]_vars

-----------------------------------------------------------------------------
(***************************************************************************)
(* What a verdict promises.                                                *)
(***************************************************************************)
Finished == pending = {} /\ job.phase = "idle"
Verdict == Assessment({f.status : f \in findings})
Watches(o, kind) == kind \in contract.observers[o].complete

\* A run passes only on evidence for everything in the contract: no check was
\* left out, each claim about effects had a complete window, the target allowed
\* each tool to exactly those the contract permits, and no answer held what it
\* must not - whatever was lost or failed in between.
PassIsEvidenced ==
  Finished /\ Verdict = "pass" =>
    /\ \A c \in Checks(contract) \cup {Inventory} :
         \E f \in findings : f.check = c /\ f.status = "passed"
    /\ \A t \in DOMAIN contract.tools : Claimed(Tool(t)) # {} =>
         \E f \in findings : f.check.group = "behaviour" /\ f.check.tool = t
                               /\ f.observation = "complete"
    /\ \A s \in served :
         LET c == s.op[1]
         IN  /\ c.group = "access" => (s.auth = "allow" <=> Permitted(c))
             /\ "denied" \in c.probe => s.auth = "deny"
             /\ s.tells \cap {"secret", "marker"} = {}
             /\ s.auth = "allow" => s.tells \cap {"foreign", "outside"} = {}

\* A denial counts only if the same tool had answered somebody it should - for
\* tenant and policy probes the very identity - and the target really denied.
DenialIsControlled ==
  \A f \in findings :
    LET c == f.check
    IN  /\ f.status = "passed" /\ ~ f.effects
        /\ (c.group = "access" /\ ~ Permitted(c)) \/ "denied" \in c.probe
        => /\ \E s \in served :
                LET d == s.op[1]
                IN  /\ d.group = "access" /\ d.tool = c.tool /\ Permitted(d)
                    /\ s.auth = "allow" /\ s.answered
                    /\ c.group # "access" => d.who = c.who
           /\ \E s \in served : s.op[1] = c /\ s.auth = "deny"

AllCorrelated == \A o \in Observers : contract.observers[o].correlated
Judged == job.phase = "judging" /\ job.windowed /\ Attempted /\ job' # job
Recorded == UNION {window.logs[o] : o \in job.healthy}
Own == {event \in Recorded : event.op \in job.ops}
OwnViolations == {event \in Own : Violates(Tool(job.tool), event)}
Verdicts == {f \in findings' : f.check = job.check}
Counted ==
  {event \in Own : /\ event.kind = contract.replay[job.tool].kind
                   /\ \A o \in job.healthy : Watches(o, event.kind) => event \in window.logs[o]}

\* No forbidden effect of a call goes unmentioned: one that an observer handed
\* over with its metadata is reported as a failure, even if that observer or
\* another one broke down; one that every working observer of its kind recorded
\* at least keeps the check from passing.  A replay that passes had no more
\* effects on record than allowed, and one of its own if that can be told.
Reported ==
  Judged =>
    /\ \A event \in OwnViolations :
         /\ (\E o \in job.healthy : event \in window.returned[o] /\ event.meta) =>
              \E f \in Verdicts : f.status = "failed"
         /\ /\ \E o \in job.healthy : Watches(o, event.kind)
            /\ \A o \in job.healthy : Watches(o, event.kind) => event \in window.logs[o]
            => \E f \in Verdicts : f.status # "passed"
    /\ job.check.group = "replay" =>
         LET replay == contract.replay[job.tool]
         IN  \A f \in Verdicts : ~ f.effects /\ f.status = "passed" =>
               /\ Cardinality(Counted) <= replay.max
               /\ AllCorrelated => Own # {}
EffectsAreReported == [][Reported]_vars

\* Nobody is blamed for what another did: with correlated observers a failure
\* for effects means that a call of this very window had a forbidden effect,
\* and a failed replay, where one observer sees the kind, that its calls had
\* too many.
Blamed ==
  Judged /\ AllCorrelated =>
    \A f \in Verdicts \ findings : f.status = "failed" =>
      /\ f.effects \/ job.check.group = "behaviour" => OwnViolations # {}
      /\ /\ job.check.group = "replay" /\ ~ f.effects
         /\ Cardinality({o \in Observers :
              contract.replay[job.tool].kind \in contract.observers[o].observes}) = 1
         => Cardinality(Counted) > contract.replay[job.tool].max
BlameIsRight == [][Blamed]_vars

\* A tool that may change something is called only if that was enabled and
\* working observers watch all its claims; and the first call of a session test
\* is made only if the second one could be.
Covered ==
  LET c == job.check
  IN  /\ ~ Tool(job.tool).readOnly =>
           /\ contract.enabled
           /\ \A kind \in Claimed(Tool(job.tool)) : \E o \in job.healthy : Watches(o, kind)
      /\ c.group = "session" =>
           \A t \in {c.tool, c.read} : ~ Tool(t).readOnly =>
             /\ contract.enabled
             /\ \A kind \in Claimed(Tool(t)) : \E o \in Observers : Watches(o, kind)
CallsAreSafe == [][job.phase = "calling" /\ job'.waiting # job.waiting => Covered]_vars
=============================================================================
