---------------------------- MODULE EngineProofs ----------------------------
(***************************************************************************)
(* Proofs about the engine (module Engine): what a passed check and a      *)
(* passed run are evidence of, that no call is made without cover, and     *)
(* that effects are reported and blamed on the right calls, for any        *)
(* contract, target and observers.  Then proofs about the temporal check   *)
(* (module Temporal) and the run that begins with it (module GuardRun):    *)
(* the verdict of the check is that of its evidence, for any number of     *)
(* families, sessions and retests, on its own and within a run; and all    *)
(* that is proved of the engine holds of a run with that check before it.  *)
(***************************************************************************)
EXTENDS GuardRun, FiniteSetTheorems, TLAPS

-----------------------------------------------------------------------------
(***************************************************************************)
(* What is always so.                                                      *)
(***************************************************************************)
Marks == {"own", "foreign", "secret", "outside", "marker"}
Steps == {"first", "read"}
Invocations ==
  [auth : {"allow", "deny", "unknown", "not_applicable"}, answered : BOOLEAN, tells : SUBSET Marks]
Answers == Invocations \ {NotAttempted}
Observations == {"complete", "partial", "unavailable", "not_required"}
Statuses == {"passed", "failed", "error", "skipped"}
Made == Checks(contract) \cup {Inventory}
Ops == Made \X Steps \X Nat
JobType ==
  [check : Made, phase : {"idle", "calling", "collecting", "judging"}, step : Steps,
   tool : DOMAIN contract.tools \cup {"none"}, ops : SUBSET Ops, waiting : SUBSET Ops,
   healthy : SUBSET Observers, windowed : BOOLEAN, begun : Observations,
   replies : SUBSET Invocations, written : Invocations, writeSeen : Observations]

ContractInv == contract \in Contracts /\ pending \subseteq Made

\* The check under way, of which nothing kept the engine.
ToolOf(c, step) == IF step = "first" THEN c.tool ELSE c.read
BusyInv ==
  job.phase # "idle" =>
    /\ job.check \in pending /\ job.check \in Checks(contract)
    /\ Obstacle(job.check) = Unhindered
    /\ job.step = "read" => job.check.group = "session"
    /\ job.tool = ToolOf(job.check, job.step)
    /\ job.windowed <=> IsWindowed(job.check, job.tool)
    /\ job.ops = {<<job.check, job.step, n>> : n \in Attempts(job.check)}
    /\ job.begun = IF job.windowed
                     THEN Coverage(contract.observers, job.healthy, Required(job.check, job.tool))
                     ELSE "not_required"

\* Checks whose calls are made one at a time, and are remembered in "served".
Single(c) == c.group \notin {"behaviour", "replay"}
PhaseInv ==
  /\ job.phase = "calling" =>
       /\ job.replies \subseteq Answers /\ job.waiting \subseteq job.ops
       /\ job.windowed => Suffices(job.check, job.tool, job.begun)
       /\ Single(job.check) => job.waiting = job.ops /\ job.replies = {}
  /\ job.phase \in {"collecting", "judging"} =>
       /\ job.waiting = {} /\ job.replies # {}
       /\ Single(job.check) => \E r \in job.replies : job.replies = {r}
       /\ job.replies = {NotAttempted} \/ job.replies \subseteq Answers
  /\ job.phase = "collecting" => job.windowed /\ job.replies # {NotAttempted}
JobInv == ContractInv /\ job \in JobType /\ BusyInv /\ PhaseInv

\* What an observer hands over is of its record, of what it watches.
ObserverInv(o) ==
  /\ IsFiniteSet(window.logs[o]) /\ \A e \in window.logs[o] : e.kind \in contract.observers[o].observes
  /\ window.outcome[o] \in {"open", "whole", "hurt", "failed"}
  /\ window.returned[o] \subseteq window.logs[o]
  /\ window.outcome[o] = "open" => window.returned[o] = {}
  /\ window.outcome[o] = "whole" => window.returned[o] = window.logs[o]
WindowOpen ==
  /\ DOMAIN window = {"logs", "outcome", "returned"}
  /\ DOMAIN window.logs = job.healthy /\ DOMAIN window.outcome = job.healthy
  /\ DOMAIN window.returned = Observers
  /\ \A o \in Observers \ job.healthy : window.returned[o] = {}
  /\ \A o \in job.healthy : ObserverInv(o)
WindowInv ==
  job.phase # "idle" /\ job.windowed =>
    /\ WindowOpen
    /\ job.phase = "judging" /\ job.replies # {NotAttempted} =>
         \A o \in job.healthy : window.outcome[o] # "open"

\* What the target did, and what was made of it.
Told(s) == Invocation(s.auth, s.answered, s.tells)
Good(s) ==
  LET c == s.op[1]
  IN  /\ c.group = "access" => (s.auth = "allow" <=> Permitted(c))
      /\ "denied" \in c.probe => s.auth = "deny"
      /\ s.tells \cap {"secret", "marker"} = {}
      /\ s.auth = "allow" => s.tells \cap {"foreign", "outside"} = {}
ServedType ==
  {s \in [op : Checks(contract) \X Steps \X {1}, auth : {"allow", "deny", "unknown"},
          answered : BOOLEAN, tells : SUBSET Marks] :
     /\ Single(s.op[1]) /\ s.tells \subseteq Tells(s.op[1], s.op[2])
     /\ s.op[2] = "read" => s.op[1].group = "session"}
Underway(s) ==
  /\ job.phase # "idle" /\ job.check = s.op[1]
  /\ \/ s.op[2] = job.step /\ job.phase # "calling" /\ job.replies = {Told(s)}
     \/ s.op[2] = "first" /\ job.step = "read" /\ job.written = Told(s)
ServedInv ==
  /\ served \subseteq ServedType
  /\ \A s \in served : s.op[1] \in pending => Underway(s)
  /\ \A s \in served, f \in findings :
       f.check = s.op[1] /\ ~ f.effects /\ f.status = "passed" => Good(s)
ReplyInv ==
  job.phase # "idle" /\ Single(job.check) =>
    \A r \in job.replies \ {NotAttempted} : \E s \in served : s.op[1] = job.check /\ Told(s) = r

\* Somebody who may call the tool was seen to be allowed to.
Worked(t, i) ==
  \E s \in served : /\ s.op[1].group = "access" /\ s.op[1].tool = t /\ s.op[1].who = i
                    /\ Permitted(s.op[1]) /\ s.auth = "allow" /\ s.answered
ControlsInv == \A t \in DOMAIN contract.tools, i \in contract.identities :
  <<t, i>> \in controls => Worked(t, i)

FindingType ==
  [check : Made, effects : BOOLEAN, status : Statuses, observation : Observations]
FindingsInv ==
  /\ findings \subseteq FindingType
  /\ \A f \in findings :
       /\ f.effects => f.status \in {"failed", "error"}
       /\ ~ f.effects => f.check \notin pending
       /\ f.check.group = "behaviour" /\ f.status = "passed" => f.observation = "complete"
       /\ f.check = Inventory /\ f.status = "passed" => contract.identities # {}
  /\ \A c \in Made \ pending :
       \/ \E f \in findings : f.check = c
       \/ c.group \in {"behaviour", "replay"} /\ c.who = NoOne
EngineInv ==
  /\ JobInv /\ WindowInv /\ ServedInv /\ ReplyInv /\ ControlsInv /\ FindingsInv /\ DenialIsControlled

-----------------------------------------------------------------------------
(***************************************************************************)
(* The checks of a contract.                                               *)
(***************************************************************************)
AccessIs(c) ==
  /\ c.probe = {} /\ c.tool \in DOMAIN contract.tools /\ c.who \in contract.identities
  /\ c.read = c.tool
BehaviourIs(c) ==
  /\ c.probe = {} /\ c.tool \in DOMAIN contract.tools /\ c.read = c.tool
  /\ c.who = Tester(contract.tools[c.tool]) /\ Claimed(contract.tools[c.tool]) # {}
ProbeIs(c) ==
  /\ c.group = "session" => c.probe = {}
  /\ c.who \in contract.identities /\ {c.tool, c.read} \subseteq DOMAIN contract.tools
ReplayIs(c) ==
  /\ c.probe = {} /\ c.tool \in DOMAIN contract.tools /\ c.read = c.tool
  /\ c.who = Tester(contract.tools[c.tool]) /\ c.tool \in DOMAIN contract.replay

LEMMA ChecksAre ==
  ASSUME ContractInv, NEW c \in Checks(contract)
  PROVE  \/ c.group = "access" /\ AccessIs(c)
         \/ c.group = "behaviour" /\ BehaviourIs(c)
         \/ c.group \in {"tenant", "policy", "session"} /\ ProbeIs(c)
         \/ c.group = "replay" /\ ReplayIs(c)
<1>1. CASE c \in {Check("access", t, i, {}) : t \in DOMAIN contract.tools, i \in contract.identities}
  BY <1>1 DEF Check, AccessIs
<1>2. CASE c \in {Check("behaviour", t, Tester(contract.tools[t]), {}) :
                     t \in {t \in DOMAIN contract.tools : Claimed(contract.tools[t]) # {}}}
  BY <1>2 DEF Check, BehaviourIs
<1>3. CASE c \in contract.probes
  <2>1. \A p \in contract.probes :
          /\ p.group \in {"tenant", "policy", "session"}
          /\ p.group = "session" => p.probe = {}
          /\ p.who \in contract.identities /\ {p.tool, p.read} \subseteq DOMAIN contract.tools
    BY ContractsAssumption DEF ContractInv
  <2> QED BY <1>3, <2>1 DEF ProbeIs
<1>4. CASE c \in {Check("replay", t, Tester(contract.tools[t]), {}) : t \in DOMAIN contract.replay}
  <2>1. DOMAIN contract.replay \subseteq DOMAIN contract.tools BY ContractsAssumption DEF ContractInv
  <2> QED BY <1>4, <2>1 DEF Check, ReplayIs
<1> QED BY <1>1, <1>2, <1>3, <1>4 DEF Checks

\* A check of the contract: which tools it calls, and that it is not the inventory.
LEMMA CheckIs ==
  ASSUME ContractInv, NEW c \in Checks(contract)
  PROVE  /\ c.group \in {"access", "behaviour", "tenant", "policy", "session", "replay"}
         /\ c.tool \in DOMAIN contract.tools /\ c.read \in DOMAIN contract.tools
         /\ c # Inventory /\ c.group # "discovery" /\ c \in Made
         /\ c.probe # {} => c.group \in {"tenant", "policy"}
<1>1. c.group # "discovery" => c # Inventory BY DEF Inventory, Check
<1> QED BY <1>1, ChecksAre DEF AccessIs, BehaviourIs, ProbeIs, ReplayIs, Made

LEMMA AttemptsAre ==
  ASSUME ContractInv, NEW c \in Checks(contract)
  PROVE  /\ Attempts(c) \subseteq Nat /\ Attempts(c) # {}
         /\ Single(c) => Attempts(c) = {1}
<1>1. CASE c.group = "replay"
  <2>1. c.tool \in DOMAIN contract.replay BY <1>1, ChecksAre DEF ReplayIs
  <2>2. contract.replay[c.tool].attempts \in Nat \ {0}
    BY <2>1, ContractsAssumption DEF ContractInv
  <2> QED BY <1>1, <2>2 DEF Attempts, Single
<1>2. CASE c.group # "replay" BY <1>2 DEF Attempts
<1> QED BY <1>1, <1>2

\* What keeps a check from being made.
LEMMA ObstacleIs ==
  ASSUME ContractInv, NEW c \in Checks(contract), Obstacle(c) # Unhindered
  PROVE  \/ Obstacle(c).status \in {"skipped", "error"} /\ Obstacle(c).observation \in Observations
             /\ Obstacle(c) # Silent
         \/ Obstacle(c) = Silent /\ c.group \in {"behaviour", "replay"} /\ c.who = NoOne
<1> DEFINE Kept(x) == x.status \in {"skipped", "error"} /\ x.observation \in Observations /\ x # Silent
<1>1. Kept(Skipped) BY DEF Skipped, Observations, Silent
<1>2. ASSUME NEW o \in Observations PROVE Kept(Errored(o)) BY DEF Errored, Silent
<1>3. ASSUME NEW healthy, NEW required
      PROVE  Coverage(contract.observers, healthy, required) \in Observations
  BY DEF Coverage, Observations
<1>4. ASSUME NEW t, NEW required PROVE Preflight(t, required) = Unhindered \/ Kept(Preflight(t, required))
  <2>1. Kept(Errored(Coverage(contract.observers, Observers, required))) BY <1>2, <1>3
  <2> QED BY <1>1, <2>1 DEF Preflight
<1>5. Kept(Errored("unavailable")) BY <1>2 DEF Observations
<1> HIDE DEF Kept
<1>6. CASE c.group = "behaviour" BY <1>1, <1>5, <1>6 DEF Obstacle, Kept
<1>7. CASE c.group = "session" BY <1>4, <1>7 DEF Obstacle, SessionPreflight, StepPreflight, Kept
<1>8. CASE c.group = "replay" BY <1>1, <1>4, <1>5, <1>8 DEF Obstacle, Kept
<1>9. CASE c.group \notin {"behaviour", "session", "replay"} BY <1>1, <1>9 DEF Obstacle, Kept
<1> QED BY <1>6, <1>7, <1>8, <1>9

-----------------------------------------------------------------------------
(***************************************************************************)
(* The contract stays, and all that depends on it alone.                   *)
(***************************************************************************)
LEMMA ContractStays ==
  ASSUME UNCHANGED contract
  PROVE  /\ Made' = Made /\ Observers' = Observers /\ JobType' = JobType
         /\ \A c : Obstacle(c)' = Obstacle(c)
         /\ \A c : Permitted(c)' <=> Permitted(c)
         /\ \A c, t : (IsWindowed(c, t)' <=> IsWindowed(c, t)) /\ Required(c, t)' = Required(c, t)
         /\ \A c, t, coverage : Suffices(c, t, coverage)' <=> Suffices(c, t, coverage)
         /\ \A c : Attempts(c)' = Attempts(c)
<1>1. Made' = Made /\ Observers' = Observers BY DEF Made, Observers
<1>2. JobType' = JobType BY <1>1 DEF JobType, Ops
<1>3. \A t : Tool(t)' = Tool(t) BY DEF Tool
<1>4. \A c : Permitted(c)' <=> Permitted(c) BY <1>3 DEF Permitted
<1>5. \A c, t : (IsWindowed(c, t)' <=> IsWindowed(c, t)) /\ Required(c, t)' = Required(c, t)
  BY <1>3 DEF IsWindowed, Required
<1>6. \A c, t, coverage : Suffices(c, t, coverage)' <=> Suffices(c, t, coverage) BY <1>3 DEF Suffices
<1>7. \A c : Attempts(c)' = Attempts(c) BY DEF Attempts
<1>8. \A t, required : Preflight(t, required)' = Preflight(t, required)
  BY <1>1, <1>3 DEF Preflight, Enabled
<1>9. \A t : StepPreflight(t)' = StepPreflight(t) BY <1>3, <1>8 DEF StepPreflight
<1>10. \A c : Obstacle(c)' = Obstacle(c)
  <2>1. \A c : SessionPreflight(c)' = SessionPreflight(c) BY <1>9 DEF SessionPreflight
  <2>2. \A t : Enabled(t)' <=> Enabled(t) BY <1>3 DEF Enabled
  <2> QED BY <1>1, <1>3, <1>5, <1>8, <2>1, <2>2 DEF Obstacle
<1> QED BY <1>1, <1>2, <1>4, <1>5, <1>6, <1>7, <1>10

\* The check under way goes on.
LEMMA BusyKept ==
  ASSUME UNCHANGED <<contract, pending>>, BusyInv, job.phase # "idle",
         job'.check = job.check, job'.step = job.step, job'.tool = job.tool, job'.ops = job.ops,
         job'.healthy = job.healthy, job'.windowed = job.windowed, job'.begun = job.begun
  PROVE  BusyInv'
<1>1. Unhindered' = Unhindered /\ ToolOf(job.check, job.step)' = ToolOf(job.check, job.step)
  BY DEF Unhindered, ToolOf
<1> QED BY <1>1, ContractStays DEF BusyInv

-----------------------------------------------------------------------------
(***************************************************************************)
(* Windows: what becomes visible, and what is collected.                   *)
(***************************************************************************)
LEMMA VisibleKeeps ==
  ASSUME WindowOpen, NEW event, Visible(event), UNCHANGED contract, job'.healthy = job.healthy
  PROVE  WindowOpen' /\ window'.outcome = window.outcome
<1>p1. PICK noticed \in SUBSET {o \in job.healthy : event.kind \in contract.observers[o].observes} :
         window' = [window EXCEPT !.logs = [o \in DOMAIN @ |->
                     IF o \in noticed /\ window.outcome[o] = "open" THEN @[o] \cup {event} ELSE @[o]]]
  BY DEF Visible
<1>p2. PICK logs : logs = [o \in DOMAIN window.logs |->
                     IF o \in noticed /\ window.outcome[o] = "open"
                       THEN window.logs[o] \cup {event} ELSE window.logs[o]]
  OBVIOUS
<1>1. window' = [window EXCEPT !.logs = logs] BY <1>p1, <1>p2
<1>2. /\ DOMAIN window' = {"logs", "outcome", "returned"} /\ window'.logs = logs
      /\ window'.outcome = window.outcome /\ window'.returned = window.returned
  BY <1>1 DEF WindowOpen
<1>3. Observers' = Observers /\ DOMAIN logs = job.healthy BY <1>p2 DEF Observers, WindowOpen
<1>4. ASSUME NEW o \in job.healthy PROVE ObserverInv(o)'
  <2>1. ObserverInv(o) BY DEF WindowOpen
  <2>2. logs[o] = IF o \in noticed /\ window.outcome[o] = "open"
                    THEN window.logs[o] \cup {event} ELSE window.logs[o]
    BY <1>p2 DEF WindowOpen
  <2>3. CASE o \in noticed /\ window.outcome[o] = "open"
    <3>1. event.kind \in contract.observers[o].observes BY <2>3
    <3>2. IsFiniteSet(window.logs[o] \cup {event}) BY <2>1, FS_AddElement DEF ObserverInv
    <3> QED BY <1>2, <2>1, <2>2, <2>3, <3>1, <3>2 DEF ObserverInv
  <2>4. CASE ~ (o \in noticed /\ window.outcome[o] = "open")
    BY <1>2, <2>1, <2>2, <2>4 DEF ObserverInv
  <2> QED BY <2>3, <2>4
<1>5. WindowOpen'
  <2>1. \A o \in Observers' \ job'.healthy : window'.returned[o] = {} BY <1>2, <1>3 DEF WindowOpen
  <2>2. \A o \in job'.healthy : ObserverInv(o)' BY <1>4
  <2> QED BY <1>2, <1>3, <2>1, <2>2 DEF WindowOpen
<1> QED BY <1>2, <1>5

\* An observer hands over what it has.
LEMMA CollectedKeeps ==
  ASSUME WindowOpen, NEW o \in job.healthy, job.healthy \subseteq Observers,
         NEW outcome \in {"whole", "hurt", "failed"}, NEW events \in SUBSET window.logs[o],
         outcome = "whole" => events = window.logs[o],
         window' = [window EXCEPT !.outcome[o] = outcome, !.returned[o] = events],
         UNCHANGED contract, job'.healthy = job.healthy
  PROVE  WindowOpen' /\ window'.outcome = [window.outcome EXCEPT ![o] = outcome]
<1>p1. PICK outcomes : outcomes = [window.outcome EXCEPT ![o] = outcome] OBVIOUS
<1>p2. PICK returned : returned = [window.returned EXCEPT ![o] = events] OBVIOUS
<1>1. /\ DOMAIN window' = {"logs", "outcome", "returned"} /\ window'.logs = window.logs
      /\ window'.outcome = outcomes /\ window'.returned = returned
  BY <1>p1, <1>p2 DEF WindowOpen
<1>2. /\ DOMAIN outcomes = job.healthy /\ DOMAIN returned = Observers /\ Observers' = Observers
      /\ outcomes[o] = outcome /\ returned[o] = events
      /\ \A p \in job.healthy \ {o} : outcomes[p] = window.outcome[p]
      /\ \A p \in Observers \ {o} : returned[p] = window.returned[p]
  BY <1>p1, <1>p2 DEF WindowOpen, Observers
<1>3. ASSUME NEW p \in job.healthy PROVE ObserverInv(p)'
  <2>1. ObserverInv(p) BY DEF WindowOpen
  <2>2. CASE p = o BY <1>1, <1>2, <2>1, <2>2 DEF ObserverInv
  <2>3. CASE p # o
    <3>1. outcomes[p] = window.outcome[p] /\ returned[p] = window.returned[p] BY <1>2, <2>3
    <3> QED BY <1>1, <2>1, <3>1 DEF ObserverInv
  <2> QED BY <2>2, <2>3
<1>4. \A p \in Observers \ job.healthy : returned[p] = {} BY <1>2 DEF WindowOpen
<1>5. WindowOpen' BY <1>1, <1>2, <1>3, <1>4 DEF WindowOpen
<1> QED BY <1>1, <1>5, <1>p1

-----------------------------------------------------------------------------
(***************************************************************************)
(* The beginning of a call or of the calls of a replay.                    *)
(***************************************************************************)
LEMMA CoverageIs ==
  ASSUME NEW healthy, NEW required
  PROVE  Coverage(contract.observers, healthy, required) \in Observations \ {"not_required"}
BY DEF Coverage, Observations

\* The job that begins, whatever became of the observers.
Begun(j, base, c, step, t, phase, waiting, healthy, begun, replies) ==
  j = [base EXCEPT !.check = c, !.phase = phase, !.step = step, !.tool = t,
                   !.ops = {<<c, step, n>> : n \in Attempts(c)}, !.waiting = waiting,
                   !.healthy = healthy, !.windowed = IsWindowed(c, t), !.begun = begun,
                   !.replies = replies]

Begins(base, c, step, t, phase, waiting, healthy, begun, replies) ==
  /\ base \in JobType /\ c \in Checks(contract) /\ c \in pending /\ Obstacle(c) = Unhindered
  /\ step \in Steps /\ t = ToolOf(c, step)
  /\ step = "read" => c.group = "session"
  /\ phase \in {"calling", "judging"}
  /\ waiting = IF phase = "calling" THEN {<<c, step, n>> : n \in Attempts(c)} ELSE {}
  /\ healthy \in SUBSET Observers /\ begun \in Observations
  /\ begun = IF IsWindowed(c, t) THEN Coverage(contract.observers, healthy, Required(c, t))
             ELSE "not_required"
  /\ phase = "calling" /\ IsWindowed(c, t) => Suffices(c, t, begun)
  /\ replies = IF phase = "calling" THEN {} ELSE {NotAttempted}

LEMMA BegunIs ==
  ASSUME ContractInv, NEW base, NEW c, NEW step, NEW t, NEW phase, NEW waiting, NEW healthy,
         NEW begun, NEW replies, Begins(base, c, step, t, phase, waiting, healthy, begun, replies),
         Begun(job', base, c, step, t, phase, waiting, healthy, begun, replies),
         UNCHANGED <<contract, pending>>
  PROVE  /\ JobInv' /\ job'.check = c /\ job'.phase = phase /\ job'.step = step
         /\ job'.written = base.written /\ job'.replies = replies /\ job'.healthy = healthy
         /\ job'.windowed = IsWindowed(c, t)
<1> USE DEF Begins
<1>p1. PICK ops : ops = {<<c, step, n>> : n \in Attempts(c)} OBVIOUS
<1>p2. PICK windowed \in BOOLEAN : windowed = IsWindowed(c, t) BY Zenon DEF IsWindowed
<1>1. t \in DOMAIN contract.tools /\ c \in Made BY CheckIs DEF ToolOf
<1>2. ops \in SUBSET Ops
  <2>1. Attempts(c) \subseteq Nat BY AttemptsAre
  <2> QED BY <1>p1, <1>1, <2>1 DEF Ops
<1>3. waiting \in SUBSET Ops BY <1>2, <1>p1
<1>4. NotAttempted \in Invocations BY DEF NotAttempted, Invocations
<1>5. replies \in SUBSET Invocations BY <1>4
<1>6. job' = [base EXCEPT !.check = c, !.phase = phase, !.step = step, !.tool = t, !.ops = ops,
                          !.waiting = waiting, !.healthy = healthy, !.windowed = windowed,
                          !.begun = begun, !.replies = replies]
  BY <1>p1, <1>p2 DEF Begun
<1>t. /\ c \in Made /\ phase \in {"idle", "calling", "collecting", "judging"} /\ step \in Steps
      /\ t \in DOMAIN contract.tools \cup {"none"} /\ ops \in SUBSET Ops /\ waiting \in SUBSET Ops
      /\ healthy \in SUBSET Observers /\ windowed \in BOOLEAN /\ begun \in Observations
      /\ replies \in SUBSET Invocations /\ base \in JobType
  BY <1>1, <1>2, <1>3, <1>5, <1>p2
<1> HIDE DEF Begins
<1>7. /\ job' \in JobType /\ job'.check = c /\ job'.phase = phase /\ job'.step = step
      /\ job'.tool = t /\ job'.ops = ops /\ job'.waiting = waiting /\ job'.healthy = healthy
      /\ job'.windowed = windowed /\ job'.begun = begun /\ job'.replies = replies
      /\ job'.written = base.written
  BY <1>t, <1>6 DEF JobType
<1> USE DEF Begins
<1>8. BusyInv'
  <2>1. Unhindered' = Unhindered /\ ToolOf(c, step)' = t BY DEF Unhindered, ToolOf
  <2>2. pending' = pending /\ contract' = contract OBVIOUS
  <2> QED BY <1>p1, <1>p2, <1>7, <2>1, <2>2, ContractStays DEF BusyInv
<1>9. PhaseInv'
  <2>1. Single(c) => Attempts(c) = {1} BY AttemptsAre
  <2>2. phase = "calling" /\ windowed => Suffices(c, t, begun)' BY <1>p2, ContractStays
  <2> QED BY <1>p1, <1>7, <2>1, <2>2 DEF PhaseInv
<1>10. ContractInv' /\ JobType' = JobType BY ContractStays DEF ContractInv
<1> QED BY <1>7, <1>8, <1>9, <1>10, <1>p2 DEF JobInv

LEMMA BeginKeeps ==
  ASSUME ContractInv, NEW base \in JobType, NEW c \in Checks(contract), c \in pending,
         Obstacle(c) = Unhindered, NEW step \in Steps, step = "read" => c.group = "session",
         Begin(base, c, step, ToolOf(c, step)), UNCHANGED <<contract, pending>>
  PROVE  /\ JobInv' /\ WindowInv' /\ job'.check = c /\ job'.step = step
         /\ job'.written = base.written
         /\ \/ job'.phase = "calling" /\ job'.replies = {}
            \/ job'.phase = "judging" /\ job'.replies = {NotAttempted}
<1>p1. PICK t : t = ToolOf(c, step) OBVIOUS
<1>p2. PICK ops : ops = {<<c, step, n>> : n \in Attempts(c)} OBVIOUS
<1>1. CASE ~ IsWindowed(c, t)
  <2>1. Begun(job', base, c, step, t, "calling", ops, {}, "not_required", {})
    BY <1>1, <1>p1, <1>p2 DEF Begin, Begun
  <2>2. {} \in SUBSET Observers /\ "not_required" \in Observations BY DEF Observations
  <2>3. /\ JobInv' /\ job'.check = c /\ job'.phase = "calling" /\ job'.step = step
        /\ job'.written = base.written /\ job'.replies = {} /\ job'.windowed = IsWindowed(c, t)
    <3>1. Begins(base, c, step, t, "calling", ops, {}, "not_required", {})
      BY <1>1, <1>p1, <1>p2, <2>2 DEF Begins
    <3> QED BY <1>1, <2>1, <3>1, BegunIs
  <2>4. WindowInv' BY <1>1, <2>3 DEF WindowInv
  <2> QED BY <2>3, <2>4
<1>2. CASE IsWindowed(c, t)
  <2>p0. PICK next : next = [base EXCEPT !.check = c, !.step = step, !.tool = t, !.ops = ops, !.replies = {},
                                         !.windowed = IsWindowed(c, t)]
    OBVIOUS
  <2>p1. PICK healthy \in SUBSET Observers :
           LET coverage == Coverage(contract.observers, healthy, Required(c, t))
               suffices == Suffices(c, t, coverage)
           IN  /\ job' = [next EXCEPT !.phase = IF suffices THEN "calling" ELSE "judging",
                                      !.waiting = IF suffices THEN ops ELSE {},
                                      !.replies = IF suffices THEN {} ELSE {NotAttempted},
                                      !.healthy = healthy, !.begun = coverage]
               /\ window' = [logs |-> [o \in healthy |-> {}],
                             outcome |-> [o \in healthy |-> "open"],
                             returned |-> [o \in Observers |-> {}]]
    BY <1>2, <1>p1, <1>p2, <2>p0 DEF Begin
  <2>p2. PICK begun : begun = Coverage(contract.observers, healthy, Required(c, t)) OBVIOUS
  <2>1. begun \in Observations BY <2>p2, CoverageIs
  <2>2. CASE Suffices(c, t, begun)
    <3>0. job' = [next EXCEPT !.phase = "calling", !.waiting = ops, !.replies = {},
                              !.healthy = healthy, !.begun = begun]
      BY <2>2, <2>p1, <2>p2
    <3>1. Begun(job', base, c, step, t, "calling", ops, healthy, begun, {})
      BY <1>p2, <2>p0, <3>0 DEF Begun, JobType
    <3> QED
      <4>1. /\ JobInv' /\ job'.check = c /\ job'.phase = "calling" /\ job'.step = step
            /\ job'.written = base.written /\ job'.replies = {} /\ job'.healthy = healthy
        <5>1. Begins(base, c, step, t, "calling", ops, healthy, begun, {})
          BY <1>2, <1>p1, <1>p2, <2>p2, <2>1, <2>2 DEF Begins
        <5> QED BY <3>1, <5>1, BegunIs
      <4>2. WindowInv'
        BY <2>p1, <4>1, FS_EmptySet, ContractStays DEF WindowInv, WindowOpen, ObserverInv
      <4> QED BY <4>1, <4>2
  <2>3. CASE ~ Suffices(c, t, begun)
    <3>0. job' = [next EXCEPT !.phase = "judging", !.waiting = {}, !.replies = {NotAttempted},
                              !.healthy = healthy, !.begun = begun]
      BY <2>3, <2>p1, <2>p2
    <3>1. Begun(job', base, c, step, t, "judging", {}, healthy, begun, {NotAttempted})
      BY <1>p2, <2>p0, <3>0 DEF Begun, JobType
    <3> QED
      <4>1. /\ JobInv' /\ job'.check = c /\ job'.phase = "judging" /\ job'.step = step
            /\ job'.written = base.written /\ job'.replies = {NotAttempted} /\ job'.healthy = healthy
        <5>1. Begins(base, c, step, t, "judging", {}, healthy, begun, {NotAttempted})
          BY <1>2, <1>p1, <1>p2, <2>p2, <2>1, <2>3 DEF Begins
        <5> QED BY <3>1, <5>1, BegunIs
      <4>2. WindowInv'
        BY <2>p1, <4>1, FS_EmptySet, ContractStays DEF WindowInv, WindowOpen, ObserverInv
      <4> QED BY <4>1, <4>2
  <2> QED BY <2>2, <2>3
<1> QED BY <1>1, <1>2

-----------------------------------------------------------------------------
(***************************************************************************)
(* Calls, late and foreign effects, and collection.                        *)
(***************************************************************************)
LEMMA InvocationIs ==
  ASSUME NEW auth \in {"allow", "deny", "unknown"}, NEW answered \in BOOLEAN, NEW tells \in SUBSET Marks
  PROVE  /\ Invocation(auth, answered, tells) \in Answers
         /\ Invocation(auth, answered, tells).auth = IF answered THEN auth ELSE "unknown"
         /\ Invocation(auth, answered, tells).answered = answered
         /\ Invocation(auth, answered, tells).tells = IF answered THEN tells ELSE {}
BY DEF Invocation, Answers, Invocations, NotAttempted

LEMMA TellsAre ==
  ASSUME NEW c, NEW step PROVE Tells(c, step) \subseteq Marks
BY DEF Tells, Marks

\* What a call does to the check under way.
Called(op, invocation) ==
  job' = [job EXCEPT !.waiting = @ \ {op}, !.replies = @ \cup {invocation},
                     !.phase = IF job.waiting # {op} THEN "calling"
                               ELSE IF job.windowed THEN "collecting" ELSE "judging"]

LEMMA CalledIs ==
  ASSUME JobInv, job.phase = "calling", NEW op \in job.waiting, NEW invocation \in Answers,
         Called(op, invocation), UNCHANGED <<contract, pending>>
  PROVE  /\ JobInv' /\ job'.check = job.check /\ job'.step = job.step /\ job'.written = job.written
         /\ job'.healthy = job.healthy /\ job'.windowed = job.windowed
         /\ job'.replies = job.replies \cup {invocation} /\ job'.phase # "idle"
         /\ job'.phase = "judging" => ~ job.windowed
         /\ Single(job.check) =>
              op = <<job.check, job.step, 1>> /\ job'.replies = {invocation} /\ job'.phase # "calling"
<1> USE DEF JobInv
<1>p1. PICK phase \in {"calling", "collecting", "judging"} :
         phase = IF job.waiting # {op} THEN "calling"
                 ELSE IF job.windowed THEN "collecting" ELSE "judging"
  OBVIOUS
<1>p2. PICK waiting : waiting = job.waiting \ {op} OBVIOUS
<1>p3. PICK replies : replies = job.replies \cup {invocation} OBVIOUS
<1>1. job' = [job EXCEPT !.waiting = waiting, !.replies = replies, !.phase = phase]
  BY <1>p1, <1>p2, <1>p3 DEF Called
<1>2. waiting \in SUBSET Ops /\ replies \in SUBSET Invocations
  BY <1>p2, <1>p3 DEF JobType, Answers
<1>3. /\ job' \in JobType /\ job'.check = job.check /\ job'.phase = phase /\ job'.step = job.step
      /\ job'.tool = job.tool /\ job'.ops = job.ops /\ job'.waiting = waiting
      /\ job'.healthy = job.healthy /\ job'.windowed = job.windowed /\ job'.begun = job.begun
      /\ job'.replies = replies /\ job'.written = job.written
  BY <1>1, <1>2 DEF JobType
<1>4. BusyInv' BY <1>3, BusyKept
<1>5. Single(job.check) => job.waiting = {<<job.check, job.step, 1>>} /\ job.replies = {}
  <2>1. Single(job.check) => Attempts(job.check) = {1} BY AttemptsAre DEF BusyInv
  <2> QED BY <2>1 DEF BusyInv, PhaseInv
<1>6. PhaseInv'
  <2>1. replies \subseteq Answers /\ replies # {} BY <1>p3 DEF PhaseInv
  <2>2. replies # {NotAttempted} BY <1>p3 DEF Answers
  <2>3. phase = "calling" => waiting # {} /\ ~ Single(job.check) BY <1>5, <1>p1, <1>p2
  <2>4. phase # "calling" => waiting = {} BY <1>p1, <1>p2
  <2>5. Single(job.check) => replies = {invocation} BY <1>5, <1>p3
  <2>6. waiting \subseteq job.ops BY <1>p2 DEF PhaseInv
  <2>7. job.windowed => Suffices(job.check, job.tool, job.begun)' BY <1>3, ContractStays DEF PhaseInv
  <2>8. phase = "collecting" => job.windowed BY <1>p1
  <2> QED BY <1>3, <1>p1, <2>1, <2>2, <2>3, <2>4, <2>5, <2>6, <2>7, <2>8 DEF PhaseInv
<1>7. ContractInv' /\ JobType' = JobType BY ContractStays DEF ContractInv
<1>8. JobInv' BY <1>3, <1>4, <1>6, <1>7
<1> QED BY <1>3, <1>5, <1>8, <1>p1, <1>p3

LEMMA CallIs ==
  ASSUME NEW op, Call(op)
  PROVE  /\ job.phase = "calling" /\ UNCHANGED <<contract, pending, controls, findings>>
         /\ \E auth \in {"allow", "deny", "unknown"}, answered \in BOOLEAN,
               tells \in SUBSET Tells(job.check, job.step) :
              /\ ~ answered => auth = "allow"
              /\ served' = IF ~ Single(job.check) THEN served
                           ELSE served \cup {[op |-> op, auth |-> auth, answered |-> answered, tells |-> tells]}
              /\ Called(op, Invocation(auth, answered, tells))
<1>p. PICK auth \in {"allow", "deny", "unknown"}, answered \in BOOLEAN,
           tells \in SUBSET Tells(job.check, job.step) :
       /\ ~ {"own", "foreign"} \subseteq tells
       /\ ~ answered => auth = "allow"
       /\ served' = IF job.check.group \in {"behaviour", "replay"} THEN served
                    ELSE served \cup {[op |-> op, auth |-> auth, answered |-> answered, tells |-> tells]}
       /\ job' = [job EXCEPT !.waiting = @ \ {op},
                             !.replies = @ \cup {Invocation(auth, answered, tells)},
                             !.phase = IF job.waiting # {op} THEN "calling"
                                       ELSE IF job.windowed THEN "collecting" ELSE "judging"]
  BY DEF Call
<1>1. Called(op, Invocation(auth, answered, tells)) BY <1>p DEF Called
<1>2. served' = IF ~ Single(job.check) THEN served
                ELSE served \cup {[op |-> op, auth |-> auth, answered |-> answered, tells |-> tells]}
  BY <1>p DEF Single
<1> QED BY <1>p, <1>1, <1>2 DEF Call

LEMMA CallKeepsJob ==
  ASSUME JobInv, WindowInv, NEW op \in job.waiting, Call(op)
  PROVE  JobInv' /\ WindowInv'
<1>p. PICK auth \in {"allow", "deny", "unknown"}, answered \in BOOLEAN,
           tells \in SUBSET Tells(job.check, job.step) :
        Called(op, Invocation(auth, answered, tells))
  BY CallIs
<1>1. Invocation(auth, answered, tells) \in Answers BY TellsAre, InvocationIs
<1>2. job.phase = "calling" /\ UNCHANGED <<contract, pending>> BY DEF Call
<1>3. /\ JobInv' /\ job'.healthy = job.healthy /\ job'.windowed = job.windowed
      /\ job'.phase = "judging" => ~ job.windowed
  BY <1>p, <1>1, <1>2, CalledIs
<1>4. WindowInv'
  <2>1. CASE UNCHANGED window
    <3>1. WindowOpen => WindowOpen'
      BY <1>2, <1>3, <2>1 DEF WindowOpen, ObserverInv, Observers
    <3> QED BY <1>2, <1>3, <3>1 DEF WindowInv
  <2>2. ASSUME NEW event, job.windowed, Visible(event) PROVE WindowInv'
    <3>1. WindowOpen BY <1>2, <2>2 DEF WindowInv
    <3>2. WindowOpen' BY <1>2, <1>3, <2>2, <3>1, VisibleKeeps
    <3> QED BY <1>3, <2>2, <3>2 DEF WindowInv
  <2> QED BY <2>1, <2>2 DEF Call
<1> QED BY <1>3, <1>4

\* Effects that become visible within a window.
LEMMA EffectKeepsJob ==
  ASSUME JobInv, WindowInv, Watching, NEW event, Visible(event), UNCHANGED <<contract, pending, job>>
  PROVE  JobInv' /\ WindowInv'
<1>1. WindowOpen BY DEF Watching, WindowInv
<1>2. WindowOpen' BY <1>1, VisibleKeeps
<1>3. WindowInv' BY <1>2 DEF WindowInv, Watching
<1>4. ContractInv' /\ JobType' = JobType BY ContractStays DEF JobInv, ContractInv
<1>5. BusyInv' BY BusyKept DEF JobInv, Watching
<1>6. PhaseInv' BY ContractStays DEF JobInv, PhaseInv
<1> QED BY <1>3, <1>4, <1>5, <1>6 DEF JobInv

LEMMA CollectKeepsJob ==
  ASSUME JobInv, WindowInv, NEW o \in job.healthy, Collect(o)
  PROVE  /\ JobInv' /\ WindowInv' /\ job'.check = job.check /\ job'.step = job.step
         /\ job'.written = job.written /\ job'.replies = job.replies
         /\ job'.phase \in {"collecting", "judging"}
<1> USE DEF JobInv
<1>1. job.phase = "collecting" /\ UNCHANGED <<contract, pending>> BY DEF Collect
<1>2. job.windowed /\ WindowOpen BY <1>1 DEF PhaseInv, WindowInv
<1>p1. PICK outcome \in {"whole", "hurt", "failed"}, events \in SUBSET window.logs[o] :
         /\ outcome = "whole" => events = window.logs[o]
         /\ window' = [window EXCEPT !.outcome[o] = outcome, !.returned[o] = events]
         /\ job' = [job EXCEPT !.phase =
              IF \A p \in job.healthy \ {o} : window.outcome[p] # "open" THEN "judging" ELSE @]
  BY DEF Collect
<1>p2. PICK phase \in {"collecting", "judging"} :
         phase = IF \A p \in job.healthy \ {o} : window.outcome[p] # "open" THEN "judging" ELSE "collecting"
  OBVIOUS
<1>3. job' = [job EXCEPT !.phase = phase] BY <1>1, <1>p1, <1>p2
<1>4. /\ job' \in JobType /\ job'.check = job.check /\ job'.phase = phase /\ job'.step = job.step
      /\ job'.tool = job.tool /\ job'.ops = job.ops /\ job'.waiting = job.waiting
      /\ job'.healthy = job.healthy /\ job'.windowed = job.windowed /\ job'.begun = job.begun
      /\ job'.replies = job.replies /\ job'.written = job.written
  BY <1>3 DEF JobType
<1>5. BusyInv' BY <1>1, <1>4, BusyKept
<1>6. PhaseInv' BY <1>1, <1>4 DEF PhaseInv
<1>7. ContractInv' /\ JobType' = JobType BY <1>1, ContractStays DEF ContractInv
<1>8. WindowOpen' /\ window'.outcome = [window.outcome EXCEPT ![o] = outcome]
  <2>1. job.healthy \subseteq Observers BY DEF JobType
  <2>2. UNCHANGED contract /\ job'.healthy = job.healthy BY <1>1, <1>4
  <2> HIDE DEF JobInv
  <2> QED BY ONLY <1>2, <1>p1, <2>1, <2>2, o \in job.healthy, CollectedKeeps
<1>9. phase = "judging" => \A p \in job.healthy : window'.outcome[p] # "open"
  BY <1>2, <1>8, <1>p2 DEF WindowOpen
<1>10. WindowInv' BY <1>4, <1>8, <1>9 DEF WindowInv
<1> QED BY <1>4, <1>5, <1>6, <1>7, <1>10

-----------------------------------------------------------------------------
(***************************************************************************)
(* What the target did with the calls.                                     *)
(***************************************************************************)
\* A denial that counts: the target really denied, and the tool had worked.
Denial(f) ==
  LET c == f.check
  IN  f.status = "passed" /\ ~ f.effects /\ ((c.group = "access" /\ ~ Permitted(c)) \/ "denied" \in c.probe)
Proven(f) ==
  LET c == f.check
  IN  /\ \E s \in served :
           LET d == s.op[1]
           IN  /\ d.group = "access" /\ d.tool = c.tool /\ Permitted(d)
               /\ s.auth = "allow" /\ s.answered
               /\ c.group # "access" => d.who = c.who
      /\ \E s \in served : s.op[1] = c /\ s.auth = "deny"
LEMMA DenialsAre == DenialIsControlled <=> \A f \in findings : Denial(f) => Proven(f)
BY DEF DenialIsControlled, Denial, Proven

\* What was said of the target stays true as it goes on.
LEMMA ServedGrows ==
  ASSUME UNCHANGED contract, served \subseteq served'
  PROVE  /\ \A t, i : Worked(t, i) => Worked(t, i)'
         /\ \A f : Denial(f) /\ Proven(f) => (Denial(f) /\ Proven(f))'
         /\ \A f : Denial(f)' <=> Denial(f)
         /\ \A s : Good(s)' <=> Good(s)
<1>1. \A c : Permitted(c)' <=> Permitted(c) BY ContractStays
<1>2. \A t, i : Worked(t, i) => Worked(t, i)' BY <1>1 DEF Worked
<1>3. \A f : Denial(f)' <=> Denial(f) BY <1>1 DEF Denial
<1>4. \A f : Proven(f) => Proven(f)' BY <1>1 DEF Proven
<1>5. \A s : Good(s)' <=> Good(s) BY <1>1 DEF Good
<1> QED BY <1>2, <1>3, <1>4, <1>5

\* Nothing new is said, and nothing done.
LEMMA SaidStays ==
  ASSUME UNCHANGED <<contract, pending, controls, findings, served>>
  PROVE  /\ ControlsInv => ControlsInv'
         /\ FindingsInv => FindingsInv'
         /\ DenialIsControlled => DenialIsControlled'
<1>1. \A t, i : Worked(t, i) => Worked(t, i)' BY ServedGrows
<1>2. \A f : Denial(f) /\ Proven(f) => (Denial(f) /\ Proven(f))' BY ServedGrows
<1>3. Made' = Made BY ContractStays
<1>4. ControlsInv => ControlsInv' BY <1>1 DEF ControlsInv
<1>5. FindingsInv => FindingsInv' BY <1>3 DEF FindingsInv, FindingType
<1>6. DenialIsControlled' <=> (\A f \in findings : Denial(f) => Proven(f))' BY DenialsAre, PTL
<1>7. \A f : Denial(f)' <=> Denial(f) BY ServedGrows
<1>8. DenialIsControlled => DenialIsControlled' BY <1>2, <1>6, <1>7, DenialsAre
<1> QED BY <1>4, <1>5, <1>8

LEMMA ServedKept ==
  ASSUME ServedInv, UNCHANGED <<contract, pending, findings, served>>,
         \A s \in served : Underway(s) => Underway(s)'
  PROVE  ServedInv'
<1>1. ServedType' = ServedType BY DEF ServedType
<1>2. \A s : Good(s)' <=> Good(s) BY ServedGrows
<1> QED BY <1>1, <1>2 DEF ServedInv

LEMMA UnderwayIs ==
  ASSUME JobInv, ServedInv, NEW s \in served, s.op[1] \in pending
  PROVE  /\ job.phase # "idle" /\ job.check = s.op[1] /\ Single(job.check)
         /\ job.phase = "calling" => s.op[2] = "first" /\ job.step = "read"
BY DEF ServedInv, Underway, ServedType

LEMMA CallKeepsServed ==
  ASSUME JobInv, ServedInv, ReplyInv, ControlsInv, FindingsInv, DenialIsControlled,
         NEW op \in job.waiting, Call(op)
  PROVE  ServedInv' /\ ReplyInv' /\ ControlsInv' /\ FindingsInv' /\ DenialIsControlled'
<1>p. PICK auth \in {"allow", "deny", "unknown"}, answered \in BOOLEAN,
           tells \in SUBSET Tells(job.check, job.step) :
        /\ ~ answered => auth = "allow"
        /\ served' = IF ~ Single(job.check) THEN served
                     ELSE served \cup {[op |-> op, auth |-> auth, answered |-> answered, tells |-> tells]}
        /\ Called(op, Invocation(auth, answered, tells))
  BY CallIs
<1>p1. PICK s : s = [op |-> op, auth |-> auth, answered |-> answered, tells |-> tells] OBVIOUS
<1>1. job.phase = "calling" /\ UNCHANGED <<contract, pending, controls, findings>> BY CallIs
<1>2. Invocation(auth, answered, tells) \in Answers BY TellsAre, InvocationIs
<1>3. /\ job'.check = job.check /\ job'.step = job.step /\ job'.written = job.written
      /\ job'.replies = job.replies \cup {Invocation(auth, answered, tells)} /\ job'.phase # "idle"
      /\ Single(job.check) => /\ op = <<job.check, job.step, 1>>
                              /\ job'.replies = {Invocation(auth, answered, tells)}
                              /\ job'.phase # "calling"
  BY <1>p, <1>1, <1>2, CalledIs
<1>4. served \subseteq served' BY <1>p
<1>5. s.op = op /\ s.auth = auth /\ s.answered = answered /\ s.tells = tells
      /\ Told(s) = Invocation(auth, answered, tells)
  BY <1>p1 DEF Told
<1>6. \A r : Told(r)' = Told(r) BY DEF Told
<1>7. /\ job.check \in pending /\ job.check \in Checks(contract) /\ job.step \in Steps
      /\ job.step = "read" => job.check.group = "session"
  BY <1>1 DEF JobInv, BusyInv, JobType
<1>8. ServedInv'
  <2>1. CASE ~ Single(job.check)
    <3>1. UNCHANGED served BY <1>p, <2>1
    <3>2. \A r \in served : r.op[1] \in pending => FALSE BY <2>1, UnderwayIs
    <3>3. ServedType' = ServedType BY <1>1 DEF ServedType
    <3>4. \A r : Good(r)' <=> Good(r) BY <1>1, <3>1, ServedGrows
    <3> QED BY <1>1, <3>1, <3>2, <3>3, <3>4 DEF ServedInv
  <2>2. CASE Single(job.check)
    <3>1. served' = served \cup {s} BY <1>p, <1>p1, <2>2
    <3>2. s \in ServedType
      <4>1. op \in Checks(contract) \X Steps \X {1} BY <1>3, <1>7, <2>2
      <4>2. tells \in SUBSET Marks BY TellsAre
      <4>3. op[1] = job.check /\ op[2] = job.step BY <1>3, <2>2
      <4> QED BY <1>p1, <1>5, <1>7, <2>2, <4>1, <4>2, <4>3 DEF ServedType
    <3>3. Underway(s)' BY <1>3, <1>5, <1>6, <2>2 DEF Underway
    <3>4. ASSUME NEW r \in served, r.op[1] \in pending PROVE Underway(r)'
      <4>1. Underway(r) BY <3>4 DEF ServedInv
      <4> QED BY <1>1, <1>3, <1>6, <4>1 DEF Underway
    <3>5. \A f \in findings : f.check = job.check => f.effects BY <1>7 DEF FindingsInv
    <3>6. s.op[1] = job.check BY <1>3, <1>5, <2>2
    <3>7. ServedType' = ServedType BY <1>1 DEF ServedType
    <3>8. \A r : Good(r)' <=> Good(r) BY <1>1, <1>4, ServedGrows
    <3> QED BY <1>1, <3>1, <3>2, <3>3, <3>4, <3>5, <3>6, <3>7, <3>8 DEF ServedInv
  <2> QED BY <2>1, <2>2
<1>9. ReplyInv'
  <2>1. CASE ~ Single(job.check) BY <1>3, <2>1 DEF ReplyInv, Single
  <2>2. CASE Single(job.check)
    <3>1. s \in served' /\ s.op[1] = job.check BY <1>p, <1>p1, <1>3, <1>5, <2>2
    <3> QED BY <1>3, <1>5, <1>6, <2>2, <3>1 DEF ReplyInv
  <2> QED BY <2>1, <2>2
<1>10. ControlsInv' BY <1>1, <1>4, ServedGrows DEF ControlsInv
<1>11. FindingsInv'
  <2>1. Made' = Made BY <1>1, ContractStays
  <2> QED BY <1>1, <2>1 DEF FindingsInv, FindingType
<1>12. DenialIsControlled'
  <2>1. DenialIsControlled' <=> (\A f \in findings : Denial(f) => Proven(f))' BY DenialsAre, PTL
  <2>2. /\ \A f : Denial(f) /\ Proven(f) => (Denial(f) /\ Proven(f))'
        /\ \A f : Denial(f)' <=> Denial(f)
    BY <1>1, <1>4, ServedGrows
  <2> QED BY <1>1, <2>1, <2>2, DenialsAre
<1> QED BY <1>8, <1>9, <1>10, <1>11, <1>12

LEMMA EffectKeepsServed ==
  ASSUME ServedInv, ReplyInv, UNCHANGED <<contract, pending, findings, served, job>>
  PROVE  ServedInv' /\ ReplyInv'
<1>1. \A s : Underway(s) => Underway(s)' BY DEF Underway, Told
<1>2. ServedInv' BY <1>1, ServedKept
<1>3. ReplyInv' BY DEF ReplyInv, Told
<1> QED BY <1>2, <1>3

LEMMA CollectKeepsServed ==
  ASSUME JobInv, WindowInv, ServedInv, ReplyInv, NEW o \in job.healthy, Collect(o)
  PROVE  ServedInv' /\ ReplyInv'
<1>1. /\ job'.check = job.check /\ job'.step = job.step /\ job'.written = job.written
      /\ job'.replies = job.replies /\ job'.phase \in {"collecting", "judging"}
  BY CollectKeepsJob
<1>2. job.phase = "collecting" /\ UNCHANGED <<contract, pending, findings, served>> BY DEF Collect
<1>3. \A s : Underway(s) => Underway(s)' BY <1>1, <1>2 DEF Underway, Told
<1>4. ServedInv' BY <1>2, <1>3, ServedKept
<1>5. ReplyInv' BY <1>1, <1>2 DEF ReplyInv, Told
<1> QED BY <1>4, <1>5

-----------------------------------------------------------------------------
(***************************************************************************)
(* What is said of a check.                                                *)
(***************************************************************************)
\* Findings "new" about c that are as findings should be.
Sound(f, c) ==
  /\ f \in FindingType /\ f.check = c
  /\ f.effects => f.status \in {"failed", "error"}
  /\ f.check.group = "behaviour" /\ f.status = "passed" => f.observation = "complete"
  /\ f.check = Inventory /\ f.status = "passed" => contract.identities # {}
  /\ Denial(f) => Proven(f)
  /\ ~ f.effects /\ f.status = "passed" => \A s \in served : s.op[1] = c => Good(s)
Says(c, new) ==
  /\ findings' = findings \cup new
  /\ \A f \in new : Sound(f, c)
  /\ \/ pending' = pending \ {c} /\ (new # {} \/ (c.group \in {"behaviour", "replay"} /\ c.who = NoOne))
     \/ pending' = pending /\ \A f \in new : f.effects

LEMMA SaysKeeps ==
  ASSUME JobInv, ServedInv, FindingsInv, DenialIsControlled, UNCHANGED <<contract, served>>,
         NEW c \in pending, NEW new, Says(c, new),
         \A s \in served : s.op[1] \in pending' => Underway(s)'
  PROVE  ServedInv' /\ FindingsInv' /\ DenialIsControlled' /\ ContractInv'
<1>1. findings' = findings \cup new /\ pending' \subseteq pending BY DEF Says
<1>2. \A f \in new : Sound(f, c) BY DEF Says
<1>3. Made' = Made /\ FindingType' = FindingType BY ContractStays DEF FindingType
<1>4. /\ \A s : Good(s)' <=> Good(s)
      /\ \A f : Denial(f) /\ Proven(f) => (Denial(f) /\ Proven(f))'
      /\ \A f : Denial(f)' <=> Denial(f)
  BY ServedGrows
<1>5. ServedInv'
  <2>1. ServedType' = ServedType BY DEF ServedType
  <2>2. ASSUME NEW s \in served, NEW f \in findings',
               f.check = s.op[1], ~ f.effects, f.status = "passed"
        PROVE  Good(s)
    <3>1. CASE f \in findings BY <2>2, <3>1 DEF ServedInv
    <3>2. CASE f \in new BY <1>2, <2>2, <3>2 DEF Sound
    <3> QED BY <1>1, <3>1, <3>2
  <2> QED BY <1>4, <2>1, <2>2 DEF ServedInv
<1>6. FindingsInv'
  <2>1. findings' \subseteq FindingType BY <1>1, <1>2 DEF FindingsInv, Sound
  <2>2. ASSUME NEW f \in findings'
        PROVE  /\ f.effects => f.status \in {"failed", "error"}
               /\ ~ f.effects => f.check \notin pending'
               /\ f.check.group = "behaviour" /\ f.status = "passed" => f.observation = "complete"
               /\ f.check = Inventory /\ f.status = "passed" => contract.identities # {}
    <3>1. CASE f \in findings BY <1>1, <3>1 DEF FindingsInv
    <3>2. CASE f \in new
      <4>1. Sound(f, c) BY <1>2, <3>2
      <4>2. ~ f.effects => c \notin pending' BY <3>2 DEF Says
      <4> QED BY <4>1, <4>2 DEF Sound
    <3> QED BY <1>1, <3>1, <3>2
  <2>3. ASSUME NEW d \in Made \ pending'
        PROVE  \/ \E f \in findings' : f.check = d
               \/ d.group \in {"behaviour", "replay"} /\ d.who = NoOne
    <3>1. CASE d \notin pending BY <1>1, <3>1 DEF FindingsInv
    <3>2. CASE d \in pending
      <4>1. d = c /\ (new # {} \/ (c.group \in {"behaviour", "replay"} /\ c.who = NoOne))
        BY <2>3, <3>2 DEF Says
      <4> QED BY <1>1, <1>2, <4>1 DEF Sound
    <3> QED BY <3>1, <3>2
  <2> QED BY <1>3, <2>1, <2>2, <2>3 DEF FindingsInv
<1>7. DenialIsControlled'
  <2>1. DenialIsControlled' <=> (\A f \in findings : Denial(f) => Proven(f))' BY DenialsAre, PTL
  <2>2. ASSUME NEW f \in findings', Denial(f) PROVE Proven(f)
    <3>1. CASE f \in findings BY <2>2, <3>1, DenialsAre
    <3>2. CASE f \in new BY <1>2, <2>2, <3>2 DEF Sound
    <3> QED BY <1>1, <3>1, <3>2
  <2> QED BY <1>4, <2>1, <2>2
<1>8. ContractInv' BY <1>1, <1>3 DEF JobInv, ContractInv
<1> QED BY <1>5, <1>6, <1>7, <1>8

LEMMA DiscoverKeeps == ASSUME EngineInv, Discover PROVE EngineInv'
<1> USE DEF EngineInv
<1>p. PICK status \in {"passed", "failed", "error"} :
        /\ contract.identities = {} => status = "error"
        /\ findings' = findings \cup {Finding(Inventory, status, "not_required")}
  BY DEF Discover
<1>1. /\ Inventory \in pending /\ pending' = pending \ {Inventory}
      /\ UNCHANGED <<contract, job, window, controls, served>>
  BY DEF Discover, NextUp
<1>2. Sound(Finding(Inventory, status, "not_required"), Inventory)
  <2>1. /\ Inventory \in Made /\ Inventory.group = "discovery" /\ Inventory.probe = {}
        /\ Inventory \notin Checks(contract)
    BY CheckIs DEF Made, Inventory, Check, JobInv
  <2>2. \A s \in served : s.op[1] # Inventory BY <2>1 DEF ServedInv, ServedType
  <2> QED BY <1>p, <2>1, <2>2
      DEF Sound, Finding, FindingType, Statuses, Observations, Denial
<1>3. Says(Inventory, {Finding(Inventory, status, "not_required")}) BY <1>p, <1>1, <1>2 DEF Says
<1>4. \A s \in served : s.op[1] \in pending' => Underway(s)'
  BY <1>1 DEF ServedInv, Underway, Told
<1>5. ServedInv' /\ FindingsInv' /\ DenialIsControlled' /\ ContractInv'
  BY <1>1, <1>3, <1>4, SaysKeeps
<1>6. BusyInv'
  <2>1. job.phase # "idle" => job.check # Inventory BY CheckIs DEF JobInv, BusyInv
  <2>2. Unhindered' = Unhindered /\ ToolOf(job.check, job.step)' = ToolOf(job.check, job.step)
    BY <1>1 DEF Unhindered, ToolOf
  <2> QED BY <1>1, <2>1, <2>2, ContractStays DEF JobInv, BusyInv
<1>7. PhaseInv' BY <1>1, ContractStays DEF JobInv, PhaseInv
<1>8. JobInv' BY <1>1, <1>5, <1>6, <1>7, ContractStays DEF JobInv
<1>9. WindowInv' BY <1>1 DEF WindowInv, WindowOpen, ObserverInv, Observers
<1>10. ReplyInv' BY <1>1 DEF ReplyInv, Told
<1>11. ControlsInv' BY <1>1, ServedGrows DEF ControlsInv
<1> QED BY <1>5, <1>8, <1>9, <1>10, <1>11

\* No check under way: nothing to keep of it.
LEMMA IdleKeeps ==
  ASSUME JobInv, ServedInv, job.phase = "idle", UNCHANGED <<contract, job, window, served>>, ContractInv'
  PROVE  /\ JobInv' /\ WindowInv' /\ ReplyInv'
         /\ \A s \in served : s.op[1] \notin pending
<1>1. job \in JobType' BY ContractStays DEF JobInv
<1>2. \A s \in served : s.op[1] \notin pending BY DEF ServedInv, Underway
<1> QED BY <1>1, <1>2 DEF JobInv, BusyInv, PhaseInv, WindowInv, ReplyInv

LEMMA HinderKeeps == ASSUME EngineInv, NEW c \in pending, Hinder(c) PROVE EngineInv'
<1> USE DEF EngineInv
<1>1. /\ job.phase = "idle" /\ pending' = pending \ {c} /\ Obstacle(c) # Unhindered
      /\ UNCHANGED <<contract, job, window, controls, served>> /\ c \in Checks(contract)
  BY DEF Hinder, JobInv, ContractInv, Made
<1>p. PICK new : new = IF Obstacle(c) = Silent THEN {}
                       ELSE {Finding(c, Obstacle(c).status, Obstacle(c).observation)}
  OBVIOUS
<1>2. Says(c, new)
  <2>1. findings' = findings \cup new BY <1>p DEF Hinder
  <2>2. CASE Obstacle(c) = Silent /\ c.group \in {"behaviour", "replay"} /\ c.who = NoOne
    BY <1>1, <1>p, <2>1, <2>2 DEF Says
  <2>3. CASE /\ Obstacle(c).status \in {"skipped", "error"} /\ Obstacle(c).observation \in Observations
             /\ Obstacle(c) # Silent
    <3>1. c \in Made BY <1>1, CheckIs DEF JobInv
    <3>p1. PICK f : f = Finding(c, Obstacle(c).status, Obstacle(c).observation) OBVIOUS
    <3>2. f \in FindingType /\ f.check = c /\ ~ f.effects /\ f.status # "passed"
      BY <2>3, <3>1, <3>p1 DEF Finding, FindingType, Statuses
    <3>3. Sound(f, c) BY <3>2 DEF Sound, Denial
    <3>4. new = {f} BY <1>p, <2>3, <3>p1
    <3> QED BY <1>1, <2>1, <3>3, <3>4 DEF Says
  <2> QED BY <1>1, <2>2, <2>3, ObstacleIs DEF JobInv
<1>3. \A s \in served : s.op[1] \notin pending BY <1>1 DEF ServedInv, Underway
<1>4. ServedInv' /\ FindingsInv' /\ DenialIsControlled' /\ ContractInv'
  BY <1>1, <1>2, <1>3, SaysKeeps
<1>5. JobInv' /\ WindowInv' /\ ReplyInv' BY <1>1, <1>4, IdleKeeps
<1>6. ControlsInv' BY <1>1, ServedGrows DEF ControlsInv
<1> QED BY <1>4, <1>5, <1>6

LEMMA StartKeeps == ASSUME EngineInv, NEW c \in pending, Start(c) PROVE EngineInv'
<1> USE DEF EngineInv
<1>1. /\ job.phase = "idle" /\ Obstacle(c) = Unhindered /\ c \in Checks(contract)
      /\ UNCHANGED <<contract, pending, controls, findings, served>>
  BY DEF Start, JobInv, ContractInv, Made
<1>2. Idle \in JobType
  <2>1. NotAttempted \in Invocations BY DEF NotAttempted, Invocations
  <2> QED BY <2>1 DEF Idle, JobType, Made, Steps, Observations
<1>3. Begin(Idle, c, "first", ToolOf(c, "first")) BY DEF Start, ToolOf
<1>4. /\ JobInv' /\ WindowInv'
      /\ \/ job'.phase = "calling" /\ job'.replies = {}
         \/ job'.phase = "judging" /\ job'.replies = {NotAttempted}
  <2>1. "first" \in Steps BY DEF Steps
  <2> QED BY <1>1, <1>2, <1>3, <2>1, BeginKeeps DEF JobInv
<1>5. \A s \in served : s.op[1] \notin pending BY <1>1 DEF ServedInv, Underway
<1>6. ServedInv'
  <2>1. ServedType' = ServedType BY <1>1 DEF ServedType
  <2>2. \A s : Good(s)' <=> Good(s) BY <1>1, ServedGrows
  <2> QED BY <1>1, <1>5, <2>1, <2>2 DEF ServedInv
<1>7. ReplyInv'
  <2>1. NotAttempted' = NotAttempted BY DEF NotAttempted
  <2> QED BY <1>4, <2>1 DEF ReplyInv
<1> QED BY <1>1, <1>4, <1>6, <1>7, SaidStays

-----------------------------------------------------------------------------
(***************************************************************************)
(* What a passed check stands for, group by group.                         *)
(***************************************************************************)
LEMMA AuthorizationIs ==
  ASSUME NEW r, NEW expected \in BOOLEAN, NEW control \in BOOLEAN
  PROVE  /\ Authorization(r, expected, control) \in Statuses
         /\ Authorization(r, expected, control) = "passed" =>
              (r.auth = "allow" /\ expected) \/ (r.auth = "deny" /\ ~ expected /\ control)
BY DEF Authorization, Statuses

LEMMA DowngradedIs ==
  ASSUME NEW status \in Statuses, NEW observation
  PROVE  /\ Downgraded(status, observation) \in Statuses
         /\ Downgraded(status, observation) = "passed" => status = "passed"
BY DEF Downgraded, Statuses

LEMMA WorstIs ==
  ASSUME NEW outcomes
  PROVE  /\ Worst(outcomes) \in Statuses
         /\ Worst(outcomes) = "passed" => "failed" \notin outcomes /\ "error" \notin outcomes
BY DEF Worst, Statuses

LEMMA TenantIs ==
  ASSUME NEW probe, NEW r, NEW control \in BOOLEAN
  PROVE  /\ Tenant(probe, r, control) \in Statuses
         /\ Tenant(probe, r, control) = "passed" =>
              /\ "denied" \in probe => r.auth = "deny" /\ control
              /\ "denied" \notin probe => r.auth = "allow"
              /\ "secret" \in probe => "secret" \notin r.tells
              /\ "owner" \in probe /\ "denied" \notin probe => "foreign" \notin r.tells
<1>p. PICK outcomes :
        outcomes = (IF "denied" \in probe THEN {Authorization(r, FALSE, control)}
                    ELSE IF "owner" \in probe THEN {Ownership(r)} ELSE {})
                   \cup (IF "secret" \in probe THEN {Confidentiality(r)} ELSE {})
                   \cup (IF "denied" \notin probe /\ ~ Allowed(r) THEN {"error"} ELSE {})
  OBVIOUS
<1>1. Tenant(probe, r, control) = Worst(outcomes) BY <1>p DEF Tenant
<1>2. ASSUME "failed" \notin outcomes, "error" \notin outcomes
      PROVE  /\ "denied" \in probe => r.auth = "deny" /\ control
             /\ "denied" \notin probe => r.auth = "allow"
             /\ "secret" \in probe => "secret" \notin r.tells
             /\ "owner" \in probe /\ "denied" \notin probe => "foreign" \notin r.tells
  <2>1. "denied" \in probe => r.auth = "deny" /\ control
    BY <1>p, <1>2 DEF Authorization
  <2>2. "denied" \notin probe => r.auth = "allow" BY <1>p, <1>2 DEF Allowed
  <2>3. "secret" \in probe => "secret" \notin r.tells BY <1>p, <1>2 DEF Confidentiality
  <2>4. "owner" \in probe /\ "denied" \notin probe => "foreign" \notin r.tells
    BY <1>p, <1>2 DEF Ownership
  <2> QED BY <2>1, <2>2, <2>3, <2>4
<1> QED BY <1>1, <1>2, WorstIs

LEMMA PolicyIs ==
  ASSUME NEW probe, NEW r, NEW control \in BOOLEAN
  PROVE  /\ Policy(probe, r, control) \in Statuses
         /\ Policy(probe, r, control) = "passed" =>
              /\ "denied" \in probe => r.auth = "deny" /\ control
              /\ "denied" \notin probe => r.auth = "allow"
              /\ "secret" \in probe => "secret" \notin r.tells
              /\ "path" \in probe /\ r.auth = "allow" => "outside" \notin r.tells
BY DEF Policy, Allowed, Statuses

LEMMA SessionIs ==
  ASSUME NEW write, NEW read
  PROVE  /\ Session(write, read) \in Statuses
         /\ Session(write, read) = "passed" => read.auth = "allow" /\ "marker" \notin read.tells
BY DEF Session, Allowed, Statuses

\* Of an answered call the engine knows what the target did.
LEMMA ToldIs ==
  ASSUME NEW s, s.answered \in BOOLEAN, s.auth \in {"allow", "deny", "unknown"},
         Told(s).auth \in {"allow", "deny"}
  PROVE  s.answered /\ s.auth = Told(s).auth /\ s.tells = Told(s).tells
BY DEF Told, Invocation

LEMMA ObservationIs ==
  ASSUME JobInv PROVE Observation \in Observations /\ Merged \in Observations
<1>1. CollectedCoverage(contract.observers, Whole, Hurt, Required(job.check, job.tool)) \in Observations
  BY DEF CollectedCoverage, Coverage, Observations
<1>2. Observation \in Observations BY <1>1 DEF Observation, JobInv, JobType
<1> QED BY <1>2 DEF Merged, JobInv, JobType

\* The one answer to a check whose calls are made one at a time.
LEMMA ReplyIs ==
  ASSUME JobInv, ServedInv, ReplyInv, job.phase = "judging", Single(job.check)
  PROVE  /\ Reply \in Invocations /\ job.replies = {Reply}
         /\ \A s \in served : s.op[1] = job.check =>
              \/ s.op[2] = job.step /\ Told(s) = Reply
              \/ s.op[2] = "first" /\ job.step = "read" /\ job.written = Told(s)
         /\ Reply.auth \in {"allow", "deny"} =>
              \E s \in served : s.op[1] = job.check /\ Told(s) = Reply
<1>1. PICK r \in job.replies : job.replies = {r} BY DEF JobInv, PhaseInv
<1>2. Reply = r BY <1>1 DEF Reply
<1>3. r \in Invocations BY DEF JobInv, JobType
<1>4. job.check \in pending BY DEF JobInv, BusyInv
<1>5. \A s \in served : s.op[1] = job.check => Underway(s) BY <1>4 DEF ServedInv
<1>6. ASSUME NEW s \in served, Underway(s)
      PROVE  \/ s.op[2] = job.step /\ Told(s) = r
             \/ s.op[2] = "first" /\ job.step = "read" /\ job.written = Told(s)
  BY <1>1, <1>6 DEF Underway
<1>7. r.auth \in {"allow", "deny"} => r # NotAttempted BY DEF NotAttempted
<1> QED BY <1>1, <1>2, <1>3, <1>5, <1>6, <1>7 DEF ReplyInv

\* Whom the tool is known to have worked for, after this check too.
LEMMA ControlsAre ==
  ASSUME JobInv, ServedInv, ReplyInv, ControlsInv, job.phase = "judging"
  PROVE  \A t \in DOMAIN contract.tools, i \in contract.identities : <<t, i>> \in Controls => Worked(t, i)
<1>1. CASE job.check.group = "access" /\ Permitted(job.check) /\ Allowed(Reply)
  <2>1. Single(job.check) BY <1>1 DEF Single
  <2>2. PICK s \in served : s.op[1] = job.check /\ Told(s) = Reply
    BY <1>1, <2>1, ReplyIs DEF Allowed
  <2>3. s \in ServedType BY DEF ServedInv
  <2>4. s.answered /\ s.auth = "allow" BY <1>1, <2>2, <2>3, ToldIs DEF ServedType, Allowed
  <2>5. job.tool = job.check.tool BY <1>1 DEF JobInv, BusyInv, JobType, ToolOf, Steps
  <2>6. Worked(job.tool, job.check.who) BY <1>1, <2>2, <2>4, <2>5 DEF Worked
  <2>7. Controls = controls \cup {<<job.tool, job.check.who>>} BY <1>1 DEF Controls
  <2> QED BY <2>6, <2>7 DEF ControlsInv
<1>2. CASE ~ (job.check.group = "access" /\ Permitted(job.check) /\ Allowed(Reply))
  BY <1>2 DEF Controls, ControlsInv
<1> QED BY <1>1, <1>2

LEMMA ControlledIs ==
  ASSUME JobInv, ServedInv, ReplyInv, ControlsInv, job.phase = "judging", NEW c, c = job.check,
         Single(c), c.group # "session", Controlled(c)
  PROVE  (c.group = "access" => ~ Permitted(c)) =>
           \E s \in served : LET d == s.op[1]
                             IN  /\ d.group = "access" /\ d.tool = c.tool /\ Permitted(d)
                                 /\ s.auth = "allow" /\ s.answered
                                 /\ c.group # "access" => d.who = c.who
<1>1. c \in Checks(contract) BY DEF JobInv, BusyInv
<1>2. CASE c.group = "access"
  <2>1. PICK i \in contract.identities : <<c.tool, i>> \in Controls BY <1>2 DEF Controlled
  <2>2. c.tool \in DOMAIN contract.tools BY <1>1, CheckIs DEF JobInv
  <2>3. Worked(c.tool, i) BY <2>1, <2>2, ControlsAre
  <2> QED BY <1>2, <2>3 DEF Worked
<1>3. CASE c.group # "access"
  <2>1. <<c.tool, c.who>> \in controls BY <1>3 DEF Controlled
  <2>2. c.tool \in DOMAIN contract.tools /\ c.who \in contract.identities
    BY <1>1, <1>3, ChecksAre DEF JobInv, Single, ProbeIs
  <2>3. Worked(c.tool, c.who) BY <2>1, <2>2 DEF ControlsInv
  <2> QED BY <1>3, <2>3 DEF Worked
<1> QED BY <1>2, <1>3

\* A passed check: what the answer was.
LEMMA PassedIs ==
  ASSUME JobInv, job.phase = "judging", NEW c, c = job.check, Status = "passed"
  PROVE  /\ c.group = "access" => \/ Reply.auth = "allow" /\ Permitted(c)
                                  \/ Reply.auth = "deny" /\ ~ Permitted(c) /\ Controlled(c)
         /\ c.group \in {"tenant", "policy"} =>
              /\ "denied" \in c.probe => Reply.auth = "deny" /\ Controlled(c)
              /\ "denied" \notin c.probe => Reply.auth = "allow"
              /\ "secret" \in c.probe => "secret" \notin Reply.tells
         /\ c.group = "tenant" /\ "owner" \in c.probe /\ "denied" \notin c.probe =>
              "foreign" \notin Reply.tells
         /\ c.group = "policy" /\ "path" \in c.probe /\ Reply.auth = "allow" =>
              "outside" \notin Reply.tells
         /\ c.group = "session" =>
              job.step = "read" /\ Reply.auth = "allow" /\ "marker" \notin Reply.tells
         /\ c.group = "behaviour" => Observation = "complete"
<1>p1. PICK control \in BOOLEAN : control <=> Controlled(c) OBVIOUS
<1>p2. PICK permitted \in BOOLEAN : permitted <=> Permitted(c) OBVIOUS
<1>0. control = Controlled(c) /\ permitted = Permitted(c)
  BY <1>p1, <1>p2, Zenon DEF Controlled, Permitted
<1>1. CASE c.group = "access"
  <2>1. Status = Downgraded(Authorization(Reply, permitted, control), Observation)
    BY <1>0, <1>1 DEF Status
  <2>2. Authorization(Reply, permitted, control) = "passed"
    BY <2>1, AuthorizationIs, DowngradedIs
  <2> QED BY <1>1, <1>p1, <1>p2, <2>2, AuthorizationIs
<1>2. CASE c.group = "tenant"
  <2>1. Status = Downgraded(Tenant(c.probe, Reply, control), Observation) BY <1>0, <1>2 DEF Status
  <2>2. Tenant(c.probe, Reply, control) = "passed" BY <2>1, TenantIs, DowngradedIs
  <2> QED BY <1>2, <1>p1, <2>2, TenantIs
<1>3. CASE c.group = "policy"
  <2>1. Status = Downgraded(Policy(c.probe, Reply, control), Observation) BY <1>0, <1>3 DEF Status
  <2>2. Policy(c.probe, Reply, control) = "passed" BY <2>1, PolicyIs, DowngradedIs
  <2> QED BY <1>3, <1>p1, <2>2, PolicyIs
<1>4. CASE c.group = "session"
  <2>1. /\ job.step = "read"
        /\ Status = Downgraded(Session(job.written, Reply), Observation)
    BY <1>4 DEF Status
  <2>2. Session(job.written, Reply) = "passed" BY <2>1, SessionIs, DowngradedIs
  <2> QED BY <1>4, <2>1, <2>2, SessionIs
<1>5. CASE c.group = "behaviour"
  <2>1. Behaviour(Tool(c.tool), Reply, Evidence, Observation) = "passed" BY <1>5 DEF Status
  <2> QED BY <1>5, <2>1 DEF Behaviour
<1> QED BY <1>1, <1>2, <1>3, <1>4, <1>5

LEMMA StatusIs == ASSUME JobInv, job.phase = "judging" PROVE Status \in Statuses
<1>p0. PICK c : c = job.check OBVIOUS
<1>p1. PICK control \in BOOLEAN : control <=> Controlled(c) OBVIOUS
<1>p2. PICK permitted \in BOOLEAN : permitted <=> Permitted(c) OBVIOUS
<1>0. control = Controlled(c) /\ permitted = Permitted(c)
  BY <1>p1, <1>p2, Zenon DEF Controlled, Permitted
<1>1. c.group \in {"access", "behaviour", "tenant", "policy", "session", "replay"}
  BY <1>p0, CheckIs DEF JobInv, BusyInv
<1>2. CASE c.group = "access"
  <2>1. Status = Downgraded(Authorization(Reply, permitted, control), Observation)
    BY <1>0, <1>2, <1>p0 DEF Status
  <2> QED BY <2>1, AuthorizationIs, DowngradedIs
<1>3. CASE c.group = "tenant"
  <2>1. Status = Downgraded(Tenant(c.probe, Reply, control), Observation) BY <1>0, <1>3, <1>p0 DEF Status
  <2> QED BY <2>1, TenantIs, DowngradedIs
<1>4. CASE c.group = "policy"
  <2>1. Status = Downgraded(Policy(c.probe, Reply, control), Observation) BY <1>0, <1>4, <1>p0 DEF Status
  <2> QED BY <2>1, PolicyIs, DowngradedIs
<1>5. CASE c.group = "session"
  <2>1. Status = Downgraded(Session(job.written, Reply), Observation) \/ Status = "error"
    BY <1>5, <1>p0 DEF Status
  <2> QED BY <2>1, SessionIs, DowngradedIs DEF Statuses
<1>6. CASE c.group = "behaviour"
  <2>1. Status = Behaviour(Tool(c.tool), Reply, Evidence, Observation) BY <1>6, <1>p0 DEF Status
  <2> QED BY <2>1 DEF Behaviour, Statuses
<1>7. CASE c.group = "replay"
  <2>1. Status = Replay(contract.replay[c.tool], job.replies, Evidence, Observation) BY <1>7, <1>p0 DEF Status
  <2> QED BY <2>1 DEF Replay, Statuses
<1> QED BY <1>1, <1>2, <1>3, <1>4, <1>5, <1>6, <1>7

\* What the target did with the calls of a check that passes.
LEMMA GoodIs ==
  ASSUME JobInv, ServedInv, ReplyInv, job.phase = "judging", Status = "passed",
         NEW s \in served, s.op[1] = job.check
  PROVE  Good(s)
<1>p. PICK c : c = job.check OBVIOUS
<1>1. /\ c \in Checks(contract) /\ job.step \in Steps
      /\ job.step = "read" => c.group = "session"
      /\ job.step \in {"first", "read"}
  BY <1>p DEF JobInv, BusyInv, JobType, Steps
<1>2. /\ s.answered \in BOOLEAN /\ s.auth \in {"allow", "deny", "unknown"} /\ Single(c)
      /\ s.tells \subseteq Tells(c, s.op[2]) /\ s.op[2] \in {"first", "read"}
  BY <1>p DEF ServedInv, ServedType, Steps
<1>3. \/ s.op[2] = job.step /\ Told(s) = Reply
      \/ s.op[2] = "first" /\ job.step = "read"
  BY <1>2, <1>p, ReplyIs
<1>4. Told(s) = Reply /\ Reply.auth \in {"allow", "deny"} => s.auth = Reply.auth /\ s.tells = Reply.tells
  BY <1>2, ToldIs
<1>5. CASE c.group = "session"
  <2>1. job.step = "read" /\ Reply.auth = "allow" /\ "marker" \notin Reply.tells
    BY <1>5, <1>p, PassedIs
  <2>2. c.probe = {} BY <1>1, <1>5, CheckIs DEF JobInv
  <2>3. Tells(c, "read") = {"marker"} /\ Tells(c, "first") = {} BY <1>5 DEF Tells
  <2>4. CASE s.op[2] = "first" BY <1>2, <1>5, <1>p, <2>2, <2>3, <2>4 DEF Good
  <2>5. CASE s.op[2] = "read" BY <1>2, <1>3, <1>4, <1>5, <1>p, <2>1, <2>2, <2>3, <2>5 DEF Good
  <2> QED BY <1>2, <2>4, <2>5
<1>6. CASE c.group # "session"
  <2>1. Told(s) = Reply BY <1>1, <1>3, <1>6
  <2>2. CASE c.group = "access"
    <3>1. \/ Reply.auth = "allow" /\ Permitted(c)
          \/ Reply.auth = "deny" /\ ~ Permitted(c)
      BY <1>p, <2>2, PassedIs
    <3>2. c.probe = {} BY <1>1, <2>2, CheckIs DEF JobInv
    <3>3. s.tells = {} BY <1>2, <2>2 DEF Tells
    <3> QED BY <1>4, <1>p, <2>1, <3>1, <3>2, <3>3 DEF Good
  <2>3. CASE c.group = "tenant"
    <3>1. /\ "denied" \in c.probe => Reply.auth = "deny"
          /\ "denied" \notin c.probe => Reply.auth = "allow"
          /\ "secret" \in c.probe => "secret" \notin Reply.tells
          /\ "owner" \in c.probe /\ "denied" \notin c.probe => "foreign" \notin Reply.tells
      BY <1>p, <2>3, PassedIs
    <3>2. /\ s.tells \cap {"marker", "outside"} = {}
          /\ "secret" \in s.tells => "secret" \in c.probe
          /\ "foreign" \in s.tells => "owner" \in c.probe
      BY <1>2, <2>3 DEF Tells
    <3> QED BY <1>4, <1>p, <2>1, <2>3, <3>1, <3>2 DEF Good
  <2>4. CASE c.group = "policy"
    <3>1. /\ "denied" \in c.probe => Reply.auth = "deny"
          /\ "denied" \notin c.probe => Reply.auth = "allow"
          /\ "secret" \in c.probe => "secret" \notin Reply.tells
          /\ "path" \in c.probe /\ Reply.auth = "allow" => "outside" \notin Reply.tells
      BY <1>p, <2>4, PassedIs
    <3>2. /\ s.tells \cap {"marker", "foreign"} = {}
          /\ "secret" \in s.tells => "secret" \in c.probe
          /\ "outside" \in s.tells => "path" \in c.probe
      BY <1>2, <2>4 DEF Tells
    <3> QED BY <1>4, <1>p, <2>1, <2>4, <3>1, <3>2 DEF Good
  <2> QED BY <1>1, <1>2, <1>6, <2>2, <2>3, <2>4, CheckIs DEF JobInv, Single
<1> QED BY <1>5, <1>6

\* A denial that is believed is one, and the tool had worked.
LEMMA DenialIsProven ==
  ASSUME JobInv, ServedInv, ReplyInv, ControlsInv, job.phase = "judging", Status = "passed",
         NEW f, f.check = job.check, Denial(f)
  PROVE  Proven(f)
<1>p. PICK c : c = job.check OBVIOUS
<1>1. /\ c \in Checks(contract) /\ c.group \in {"access", "tenant", "policy"} /\ Single(c)
      /\ (c.group = "access" /\ ~ Permitted(c)) \/ (c.group # "access" /\ "denied" \in c.probe)
  <2>1. c \in Checks(contract) BY <1>p DEF JobInv, BusyInv
  <2>2. c.probe # {} => c.group \in {"tenant", "policy"} BY <2>1, CheckIs DEF JobInv
  <2>3. (c.group = "access" /\ ~ Permitted(c)) \/ "denied" \in c.probe BY <1>p DEF Denial
  <2> QED BY <2>1, <2>2, <2>3 DEF Single
<1>2. Reply.auth = "deny" /\ Controlled(c) BY <1>1, <1>p, PassedIs
<1>3. PICK s \in served : s.op[1] = c /\ Told(s) = Reply BY <1>1, <1>2, <1>p, ReplyIs
<1>4. s.auth = "deny" BY <1>2, <1>3, ToldIs DEF ServedInv, ServedType
<1>5. \E r \in served : LET d == r.op[1]
                        IN  /\ d.group = "access" /\ d.tool = c.tool /\ Permitted(d)
                            /\ r.auth = "allow" /\ r.answered
                            /\ c.group # "access" => d.who = c.who
  BY <1>1, <1>2, <1>p, ControlledIs
<1> QED BY <1>3, <1>4, <1>5, <1>p DEF Proven

-----------------------------------------------------------------------------
(***************************************************************************)
(* Judgement, and the second call of a session test.                       *)
(***************************************************************************)
LEMMA EffectsFindingsAre ==
  ASSUME JobInv, job.phase = "judging"
  PROVE  \A f \in EffectsFindings : f.effects /\ Sound(f, job.check)
<1> SUFFICES ASSUME NEW f \in EffectsFindings PROVE f.effects /\ Sound(f, job.check)
  OBVIOUS
<1>p. PICK status \in {"failed", "error"} :
        f = [check |-> job.check, effects |-> TRUE, observation |-> Observation, status |-> status]
  BY DEF EffectsFindings
<1>1. Observation \in Observations /\ job.check \in Made BY ObservationIs DEF JobInv, JobType
<1>2. /\ f \in FindingType /\ f.effects /\ f.status \in {"failed", "error"} /\ f.check = job.check
  BY <1>p, <1>1 DEF FindingType, Statuses
<1> QED BY <1>2 DEF Sound, Denial

LEMMA VerdictIs ==
  ASSUME JobInv, ServedInv, ReplyInv, ControlsInv, job.phase = "judging"
  PROVE  Sound(Finding(job.check, Status, Merged), job.check)
<1>p. PICK f : f = Finding(job.check, Status, Merged) OBVIOUS
<1>1. /\ f.check = job.check /\ ~ f.effects /\ f.status = Status /\ f.observation = Merged
  BY <1>p DEF Finding
<1>2. f \in FindingType
  <2>1. Status \in Statuses /\ Merged \in Observations /\ job.check \in Made
    BY StatusIs, ObservationIs DEF JobInv, JobType
  <2> QED BY <1>p, <2>1 DEF Finding, FindingType
<1>3. job.check.group = "behaviour" /\ Status = "passed" => Merged = "complete"
  <2>1. job.check.group = "behaviour" => job.step # "read" BY DEF JobInv, BusyInv
  <2> QED BY <2>1, PassedIs DEF Merged
<1>4. job.check # Inventory BY CheckIs DEF JobInv, BusyInv
<1>5. Status = "passed" => \A s \in served : s.op[1] = job.check => Good(s) BY GoodIs
<1>6. Denial(f) => Proven(f)
  <2>1. Denial(f) => Status = "passed" BY <1>1 DEF Denial
  <2> QED BY <1>1, <2>1, DenialIsProven
<1>7. Sound(f, job.check)
  <2>1. f.check.group = "behaviour" /\ f.status = "passed" => f.observation = "complete"
    BY <1>1, <1>3
  <2>2. ~ f.effects /\ f.status = "passed" => \A s \in served : s.op[1] = job.check => Good(s)
    BY <1>1, <1>5
  <2> QED BY <1>1, <1>2, <1>4, <1>6, <2>1, <2>2 DEF Sound
<1> QED BY <1>p, <1>7

LEMMA JudgeKeeps == ASSUME EngineInv, Judge PROVE EngineInv'
<1> USE DEF EngineInv
<1>p1. PICK c : c = job.check OBVIOUS
<1>p2. PICK new : new = EffectsFindings \cup {Finding(c, Status, Merged)} OBVIOUS
<1>1. /\ job.phase = "judging" /\ job' = Idle /\ pending' = pending \ {c} /\ controls' = Controls
      /\ findings' = findings \cup new /\ UNCHANGED <<contract, served>>
  BY <1>p1, <1>p2 DEF Judge
<1>2. c \in pending BY <1>1, <1>p1 DEF JobInv, BusyInv
<1>3. Says(c, new)
  <2>1. \A f \in EffectsFindings : Sound(f, c) BY <1>1, <1>p1, EffectsFindingsAre
  <2>2. Sound(Finding(c, Status, Merged), c) BY <1>1, <1>p1, VerdictIs
  <2> QED BY <1>1, <1>p2, <2>1, <2>2 DEF Says
<1>4. \A s \in served : s.op[1] \notin pending'
  BY <1>1, <1>p1 DEF ServedInv, Underway
<1>5. ServedInv' /\ FindingsInv' /\ DenialIsControlled' /\ ContractInv'
  BY <1>1, <1>2, <1>3, <1>4, SaysKeeps
<1>6. job'.phase = "idle" /\ job' \in JobType'
  <2>1. NotAttempted \in Invocations BY DEF NotAttempted, Invocations
  <2>2. Idle \in JobType BY <2>1 DEF Idle, JobType, Made, Steps, Observations
  <2>3. JobType' = JobType BY <1>1, ContractStays
  <2>4. Idle.phase = "idle" BY DEF Idle
  <2> QED BY <1>1, <2>2, <2>3, <2>4
<1>7. JobInv' /\ WindowInv' /\ ReplyInv'
  BY <1>5, <1>6 DEF JobInv, BusyInv, PhaseInv, WindowInv, ReplyInv
<1>8. ControlsInv'
  <2>1. \A t \in DOMAIN contract.tools, i \in contract.identities : <<t, i>> \in Controls => Worked(t, i)
    BY <1>1, ControlsAre
  <2>2. \A t, i : Worked(t, i) => Worked(t, i)' BY <1>1, ServedGrows
  <2> QED BY <1>1, <2>1, <2>2 DEF ControlsInv
<1> QED BY <1>5, <1>7, <1>8

LEMMA ReadBackKeeps == ASSUME EngineInv, ReadBack PROVE EngineInv'
<1> USE DEF EngineInv
<1>p1. PICK c : c = job.check OBVIOUS
<1>p2. PICK base : base = [job EXCEPT !.written = Reply, !.writeSeen = Observation] OBVIOUS
<1>1. /\ job.phase = "judging" /\ c.group = "session" /\ job.step = "first"
      /\ findings' = findings \cup EffectsFindings
      /\ Begin(base, c, "read", c.read)
      /\ UNCHANGED <<contract, pending, controls, served>>
  BY <1>p1, <1>p2 DEF ReadBack, ReadFollows
<1>2. c \in pending /\ c \in Checks(contract) /\ Obstacle(c) = Unhindered /\ Single(c)
  BY <1>1, <1>p1 DEF JobInv, BusyInv, Single
<1>3. /\ Reply \in Invocations
      /\ \A s \in served : s.op[1] = c => s.op[2] = "first" /\ Told(s) = Reply
  BY <1>1, <1>2, <1>p1, ReplyIs
<1>4. base \in JobType /\ base.written = Reply
  <2>1. Observation \in Observations BY ObservationIs
  <2> QED BY <1>3, <1>p2, <2>1 DEF JobInv, JobType
<1>5. /\ JobInv' /\ WindowInv' /\ job'.check = c /\ job'.step = "read" /\ job'.written = Reply
      /\ \/ job'.phase = "calling" /\ job'.replies = {}
         \/ job'.phase = "judging" /\ job'.replies = {NotAttempted}
  <2>1. "read" \in Steps /\ ToolOf(c, "read") = c.read BY DEF Steps, ToolOf
  <2>2. Begin(base, c, "read", ToolOf(c, "read")) BY <1>1, <2>1
  <2> QED BY <1>1, <1>2, <1>4, <2>1, <2>2, BeginKeeps DEF JobInv
<1>6. Says(c, EffectsFindings)
  BY <1>1, <1>p1, EffectsFindingsAre DEF Says
<1>7. \A s \in served : s.op[1] \in pending' => Underway(s)'
  <2>1. \A s \in served : s.op[1] \in pending => s.op[1] = c BY <1>p1 DEF ServedInv, Underway
  <2>2. \A s : Told(s)' = Told(s) BY DEF Told
  <2> QED BY <1>1, <1>3, <1>5, <2>1, <2>2 DEF Underway
<1>8. ServedInv' /\ FindingsInv' /\ DenialIsControlled'
  BY <1>1, <1>2, <1>6, <1>7, SaysKeeps
<1>9. ReplyInv'
  <2>1. NotAttempted' = NotAttempted BY DEF NotAttempted
  <2> QED BY <1>5, <2>1 DEF ReplyInv
<1>10. ControlsInv' BY <1>1, ServedGrows DEF ControlsInv
<1> QED BY <1>5, <1>8, <1>9, <1>10

-----------------------------------------------------------------------------
(***************************************************************************)
(* The invariant.                                                          *)
(***************************************************************************)
LEMMA Starts == Init => EngineInv
<1> SUFFICES ASSUME Init PROVE EngineInv
  OBVIOUS
<1>1. /\ contract \in Contracts /\ pending = Made /\ job = Idle /\ Idle.phase = "idle"
      /\ controls = {} /\ findings = {} /\ served = {}
  BY DEF Init, Made, Idle
<1>2. Idle \in JobType
  <2>1. NotAttempted \in Invocations BY DEF NotAttempted, Invocations
  <2> QED BY <2>1 DEF Idle, JobType, Made, Steps, Observations
<1>3. JobInv /\ WindowInv /\ ReplyInv
  BY <1>1, <1>2 DEF JobInv, ContractInv, BusyInv, PhaseInv, WindowInv, ReplyInv
<1>4. ServedInv /\ ControlsInv /\ FindingsInv BY <1>1 DEF ServedInv, ControlsInv, FindingsInv
<1>5. DenialIsControlled BY <1>1 DEF DenialIsControlled
<1> QED BY <1>3, <1>4, <1>5 DEF EngineInv

LEMMA NextKeeps == EngineInv /\ [Next]_vars => EngineInv'
<1> SUFFICES ASSUME EngineInv, [Next]_vars PROVE EngineInv'
  OBVIOUS
<1> USE DEF EngineInv
<1>1. CASE Discover BY <1>1, DiscoverKeeps
<1>2. ASSUME NEW c \in pending, Hinder(c) PROVE EngineInv' BY <1>2, HinderKeeps
<1>3. ASSUME NEW c \in pending, Start(c) PROVE EngineInv' BY <1>3, StartKeeps
<1>4. ASSUME NEW op \in job.waiting, Call(op) PROVE EngineInv'
  BY <1>4, CallKeepsJob, CallKeepsServed
<1>5. ASSUME Watching, NEW event, Visible(event),
             UNCHANGED <<contract, pending, job, controls, findings, served>>
      PROVE  EngineInv'
  <2>1. JobInv' /\ WindowInv' BY <1>5, EffectKeepsJob
  <2>2. ServedInv' /\ ReplyInv' BY <1>5, EffectKeepsServed
  <2>3. ControlsInv' /\ FindingsInv' /\ DenialIsControlled' BY <1>5, SaidStays
  <2> QED BY <2>1, <2>2, <2>3
<1>6. CASE LateEffect BY <1>5, <1>6 DEF LateEffect
<1>7. CASE ForeignEffect BY <1>5, <1>7 DEF ForeignEffect
<1>8. ASSUME NEW o \in job.healthy, Collect(o) PROVE EngineInv'
  <2>1. JobInv' /\ WindowInv' BY <1>8, CollectKeepsJob
  <2>2. ServedInv' /\ ReplyInv' BY <1>8, CollectKeepsServed
  <2>3. ControlsInv' /\ FindingsInv' /\ DenialIsControlled' BY <1>8, SaidStays DEF Collect
  <2> QED BY <2>1, <2>2, <2>3
<1>9. CASE Judge BY <1>9, JudgeKeeps
<1>10. CASE ReadBack BY <1>10, ReadBackKeeps
<1>11. CASE UNCHANGED vars
  <2>1. UNCHANGED <<contract, pending, job, window, controls, findings, served>> BY <1>11 DEF vars
  <2>2. ContractInv' /\ JobType' = JobType BY <2>1, ContractStays DEF JobInv, ContractInv
  <2>3. BusyInv' BY <2>1, BusyKept DEF JobInv, BusyInv
  <2>4. PhaseInv' BY <2>1, ContractStays DEF JobInv, PhaseInv
  <2>5. WindowInv' BY <2>1 DEF WindowInv, WindowOpen, ObserverInv, Observers
  <2>6. ServedInv' /\ ReplyInv' BY <2>1, EffectKeepsServed
  <2>7. ControlsInv' /\ FindingsInv' /\ DenialIsControlled' BY <2>1, SaidStays
  <2> QED BY <2>1, <2>2, <2>3, <2>4, <2>5, <2>6, <2>7 DEF JobInv
<1> QED BY <1>1, <1>2, <1>3, <1>4, <1>6, <1>7, <1>8, <1>9, <1>10, <1>11 DEF Next

\* What is always so of a run: the check under way is one the engine may make,
\* with the tool, the calls and the coverage it says; what the engine holds of an
\* observer is of its record; each reply is of a call the target served; and what
\* the findings and the positive controls say of the target is so.
THEOREM EngineIsSound == Spec => []EngineInv
BY Starts, NextKeeps, PTL DEF Spec

\* A denial counts only if the tool had been seen to work and the target really
\* denied (_identity_positive_controls, _authorization_assessment): for any contract, target
\* and observers, whatever replies were lost and observers failed.
THEOREM DenialsAreControlled == Spec => []DenialIsControlled
<1>1. EngineInv => DenialIsControlled BY DEF EngineInv
<1> QED BY <1>1, EngineIsSound, PTL

-----------------------------------------------------------------------------
(***************************************************************************)
(* What a passed run is evidence of.                                       *)
(***************************************************************************)
LEMMA PassedFindings ==
  ASSUME FindingsInv, Verdict = "pass"
  PROVE  (\A f \in findings : f.status = "passed" /\ ~ f.effects) /\ findings # {}
<1>p. PICK statuses : statuses = {f.status : f \in findings} OBVIOUS
<1>1. /\ "failed" \notin statuses /\ "error" \notin statuses /\ "skipped" \notin statuses
      /\ "passed" \in statuses
  BY <1>p DEF Verdict, Assessment
<1>2. ASSUME NEW f \in findings PROVE f.status = "passed" /\ ~ f.effects
  <2>1. f.status \in Statuses /\ (f.effects => f.status \in {"failed", "error"})
    BY DEF FindingsInv, FindingType
  <2> QED BY <1>1, <1>p, <2>1 DEF Statuses
<1> QED BY <1>1, <1>2, <1>p

\* In a run that passes every check that needs somebody to make it had somebody:
\* else nobody was permitted the tool, no denial of it could be controlled, and
\* the access check of any identity could not have passed.
LEMMA Somebody ==
  ASSUME EngineInv, Finished, Verdict = "pass", NEW c \in Checks(contract),
         c.group \in {"behaviour", "replay"}
  PROVE  c.who # NoOne
<1> SUFFICES ASSUME c.who = NoOne PROVE FALSE
  OBVIOUS
<1>0. ContractInv /\ FindingsInv /\ DenialIsControlled BY DEF EngineInv, JobInv
<1>p1. PICK t : t = c.tool OBVIOUS
<1>1. t \in DOMAIN contract.tools /\ NoOne = Tester(contract.tools[t])
  BY <1>0, <1>p1, ChecksAre DEF BehaviourIs, ReplayIs
<1>2. contract.tools[t].permitted = {}
  <2>1. /\ NoOne \notin contract.identities
        /\ contract.tools[t].permitted \subseteq contract.identities
    BY <1>0, <1>1, ContractsAssumption DEF ContractInv
  <2> QED BY <1>1, <2>1 DEF Tester
<1>3. \A f \in findings : f.status = "passed" /\ ~ f.effects BY <1>0, PassedFindings
<1>4. pending = {} BY DEF Finished
<1>5. contract.identities # {}
  <2>1. Inventory \in Made \ pending /\ Inventory.group \notin {"behaviour", "replay"}
    BY <1>4 DEF Made, Inventory, Check
  <2>2. PICK f \in findings : f.check = Inventory BY <1>0, <2>1 DEF FindingsInv
  <2> QED BY <1>0, <1>3, <2>2 DEF FindingsInv
<1>6. PICK i \in contract.identities : TRUE BY <1>5
<1>p2. PICK a : a = Check("access", t, i, {}) OBVIOUS
<1>7. a \in Made /\ a.group = "access" /\ a.tool = t
  <2>1. a \in {Check("access", u, j, {}) : u \in DOMAIN contract.tools, j \in contract.identities}
    BY <1>1, <1>p2
  <2>2. a \in Checks(contract) BY <2>1 DEF Checks
  <2> QED BY <1>p2, <2>2 DEF Made, Check
<1>8. PICK f \in findings : f.check = a BY <1>0, <1>4, <1>7 DEF FindingsInv
<1>9. \A d : d.tool = t => ~ Permitted(d) BY <1>2 DEF Permitted, Tool
<1>10. Denial(f) BY <1>3, <1>7, <1>8, <1>9 DEF Denial
<1>11. Proven(f) BY <1>0, <1>10, DenialsAre
<1> QED BY <1>7, <1>8, <1>9, <1>11 DEF Proven

\* The verdict "pass" (RunSummary.assessment) of a finished run has evidence for
\* everything in the contract, and no answer held what it must not: for any
\* contract, target and observers.
THEOREM PassesAreEvidenced == Spec => []PassIsEvidenced
<1>1. EngineInv => PassIsEvidenced
  <2> SUFFICES ASSUME EngineInv, Finished, Verdict = "pass"
               PROVE  /\ \A c \in Made : \E f \in findings : f.check = c /\ f.status = "passed"
                      /\ \A t \in DOMAIN contract.tools : Claimed(Tool(t)) # {} =>
                           \E f \in findings : f.check.group = "behaviour" /\ f.check.tool = t
                                                 /\ f.observation = "complete"
                      /\ \A s \in served : Good(s)
    BY Zenon DEF PassIsEvidenced, Made, Good
  <2>0. ContractInv /\ FindingsInv /\ ServedInv BY DEF EngineInv, JobInv
  <2>1. \A f \in findings : f.status = "passed" /\ ~ f.effects BY <2>0, PassedFindings
  <2>2. pending = {} BY DEF Finished
  <2>3. ASSUME NEW c \in Made PROVE \E f \in findings : f.check = c /\ f.status = "passed"
    <3>1. c \in Checks(contract) \/ c.group = "discovery" BY DEF Made, Inventory, Check
    <3>2. ~ (c.group \in {"behaviour", "replay"} /\ c.who = NoOne) BY <3>1, Somebody
    <3> QED BY <2>0, <2>1, <2>2, <3>2 DEF FindingsInv
  <2>4. ASSUME NEW t \in DOMAIN contract.tools, Claimed(Tool(t)) # {}
        PROVE  \E f \in findings : f.check.group = "behaviour" /\ f.check.tool = t
                                     /\ f.observation = "complete"
    <3>p. PICK c : c = Check("behaviour", t, Tester(contract.tools[t]), {}) OBVIOUS
    <3>1. c \in Made /\ c.group = "behaviour" /\ c.tool = t
      <4>1. Claimed(contract.tools[t]) # {} BY <2>4 DEF Tool
      <4>2. c \in {Check("behaviour", u, Tester(contract.tools[u]), {}) :
                      u \in {u \in DOMAIN contract.tools : Claimed(contract.tools[u]) # {}}}
        BY <4>1, <3>p
      <4>3. c \in Checks(contract) BY <4>2 DEF Checks
      <4> QED BY <3>p, <4>3 DEF Made, Check
    <3>2. PICK f \in findings : f.check = c /\ f.status = "passed" BY <2>3, <3>1
    <3> QED BY <2>0, <3>1, <3>2 DEF FindingsInv
  <2>5. ASSUME NEW s \in served PROVE Good(s)
    <3>1. s.op[1] \in Made BY <2>0 DEF ServedInv, ServedType, Made
    <3>2. PICK f \in findings : f.check = s.op[1] /\ f.status = "passed" BY <2>3, <3>1
    <3> QED BY <2>0, <2>1, <3>2 DEF ServedInv
  <2> QED BY <2>3, <2>4, <2>5
<1> QED BY <1>1, EngineIsSound, PTL

-----------------------------------------------------------------------------
(***************************************************************************)
(* Calls are made under cover.                                             *)
(***************************************************************************)
LEMMA PreflightIs ==
  ASSUME NEW t, NEW required, Preflight(t, required) = Unhindered
  PROVE  /\ Enabled(t)
         /\ required # {} => Coverage(contract.observers, Observers, required) = "complete"
BY DEF Preflight, Unhindered, Skipped, Errored

LEMMA CompleteIs ==
  ASSUME NEW healthy, NEW required, Coverage(contract.observers, healthy, required) = "complete"
  PROVE  \A kind \in required : \E o \in healthy : Watches(o, kind)
BY DEF Coverage, Watches

LEMMA CallingIsCovered == ASSUME JobInv, job.phase = "calling" PROVE Covered
<1> USE DEF JobInv
<1>p1. PICK c : c = job.check OBVIOUS
<1>p2. PICK t : t = job.tool OBVIOUS
<1>1. /\ c \in Checks(contract) /\ Obstacle(c) = Unhindered /\ t = ToolOf(c, job.step)
      /\ job.step # "first" => c.group = "session"
      /\ job.windowed <=> IsWindowed(c, t)
      /\ job.windowed => job.begun = Coverage(contract.observers, job.healthy, Required(c, t))
      /\ job.windowed => Suffices(c, t, job.begun)
  BY <1>p1, <1>p2 DEF BusyInv, PhaseInv, JobType, Steps
<1>2. /\ c.group \in {"access", "behaviour", "tenant", "policy", "session", "replay"}
      /\ c.group = "replay" => c.read = c.tool
  BY <1>1, CheckIs, ChecksAre DEF ReplayIs
<1>3. ASSUME c.group = "session", NEW x \in {c.tool, c.read}, ~ Tool(x).readOnly
      PROVE  /\ contract.enabled
             /\ \A kind \in Claimed(Tool(x)) : \E o \in Observers : Watches(o, kind)
  <2>1. StepPreflight(x) = Unhindered BY <1>1, <1>3 DEF Obstacle, SessionPreflight
  <2>2. Preflight(x, Claimed(Tool(x))) = Unhindered BY <1>3, <2>1 DEF StepPreflight
  <2>3. Enabled(x) BY <2>2, PreflightIs
  <2>4. Claimed(Tool(x)) # {} => Coverage(contract.observers, Observers, Claimed(Tool(x))) = "complete"
    BY <2>2, PreflightIs
  <2> QED BY <1>3, <2>3, <2>4, CompleteIs DEF Enabled
<1>4. ASSUME ~ Tool(t).readOnly PROVE contract.enabled
  <2>1. CASE c.group = "session" BY <1>1, <1>3, <1>4, <2>1 DEF ToolOf
  <2>2. CASE c.group = "replay" BY <1>1, <2>2 DEF Obstacle, Unhindered, Skipped
  <2>3. CASE c.group \notin {"session", "replay"}
    <3>1. t = c.tool BY <1>1, <2>3 DEF ToolOf
    <3>2. Enabled(c.tool)
      BY <1>1, <2>3 DEF Obstacle, Unhindered, Skipped, Errored
    <3> QED BY <1>4, <3>1, <3>2 DEF Enabled
  <2> QED BY <2>1, <2>2, <2>3
<1>5. ASSUME ~ Tool(t).readOnly, NEW kind \in Claimed(Tool(t))
      PROVE  \E o \in job.healthy : Watches(o, kind)
  <2>1. IsWindowed(c, t) BY <1>5 DEF IsWindowed
  <2>2. Coverage(contract.observers, job.healthy, Required(c, t)) = "complete"
    BY <1>1, <1>5, <2>1 DEF Suffices
  <2>3. kind \in Required(c, t) BY <1>5 DEF Required
  <2> QED BY <2>2, <2>3, CompleteIs
<1> QED BY <1>3, <1>4, <1>5, <1>p1, <1>p2 DEF Covered

\* No call that may change something is made unless that was enabled and working
\* observers watch all its claims (_observer_coverage, _tool_call_preflight), and
\* no first call of a session test unless the second one could be made too.
THEOREM NoCallWithoutCover == Spec => CallsAreSafe
<1>1. EngineInv /\ [Next]_vars =>
        [job.phase = "calling" /\ job'.waiting # job.waiting => Covered]_vars
  BY CallingIsCovered DEF EngineInv
<1> QED BY <1>1, EngineIsSound, PTL DEF Spec, CallsAreSafe

-----------------------------------------------------------------------------
(***************************************************************************)
(* What effects are evidence of.                                           *)
(***************************************************************************)
Observed == job.phase = "judging" /\ job.windowed /\ Attempted

\* What is attributed to the calls: events an observer returned, of this very
\* window if the observer is correlated.
LEMMA EvidenceIs ==
  ASSUME JobInv, WindowInv, Observed
  PROVE  /\ \A pair \in Evidence :
              /\ pair[1] \in Observers /\ pair = <<pair[1], pair[2]>>
              /\ pair[1] \in job.healthy /\ pair[2] \in window.logs[pair[1]]
              /\ pair[2] \in Recorded
              /\ pair[2].kind \in contract.observers[pair[1]].observes
              /\ contract.observers[pair[1]].correlated => pair[2].op \in job.ops
         /\ \A o \in job.healthy : \A event \in window.returned[o] :
              (contract.observers[o].correlated => event.meta /\ event.op \in job.ops)
                => <<o, event>> \in Evidence
<1>1. Evidence = Attributed(contract.observers, window.returned, job.ops) BY DEF Evidence, Observed
<1>2. WindowOpen BY DEF Observed, WindowInv
<1>3. ASSUME NEW pair \in Evidence
      PROVE  /\ pair[1] \in Observers /\ pair = <<pair[1], pair[2]>>
             /\ pair[1] \in job.healthy /\ pair[2] \in window.logs[pair[1]]
             /\ pair[2] \in Recorded
             /\ pair[2].kind \in contract.observers[pair[1]].observes
             /\ contract.observers[pair[1]].correlated => pair[2].op \in job.ops
  <2>1. PICK o \in Observers : pair \in {o} \X window.returned[o]
    BY <1>1, <1>3 DEF Attributed, Observers
  <2>2. pair[1] = o /\ pair[2] \in window.returned[o] /\ pair = <<pair[1], pair[2]>> BY <2>1
  <2>3. contract.observers[o].correlated => pair[2].op \in job.ops
    BY <1>1, <1>3, <2>2 DEF Attributed
  <2>4. o \in job.healthy BY <1>2, <2>2 DEF WindowOpen
  <2>5. pair[2] \in window.logs[o] BY <1>2, <2>2, <2>4 DEF WindowOpen, ObserverInv
  <2>6. pair[2].kind \in contract.observers[o].observes
    BY <1>2, <2>4, <2>5 DEF WindowOpen, ObserverInv
  <2> QED BY <2>2, <2>3, <2>4, <2>5, <2>6 DEF Recorded
<1>4. ASSUME NEW o \in job.healthy, NEW event \in window.returned[o],
             contract.observers[o].correlated => event.meta /\ event.op \in job.ops
      PROVE  <<o, event>> \in Evidence
  <2>p. PICK pair : pair = <<o, event>> OBVIOUS
  <2>1. o \in Observers BY DEF JobInv, JobType
  <2>2. pair \in {o} \X window.returned[o] /\ pair[1] = o /\ pair[2] = event BY <2>p
  <2>3. pair \in UNION {{p} \X window.returned[p] : p \in DOMAIN contract.observers}
    BY <2>1, <2>2 DEF Observers
  <2>4. pair \in Attributed(contract.observers, window.returned, job.ops)
    BY <1>4, <2>2, <2>3 DEF Attributed
  <2> QED BY <1>1, <2>4, <2>p
<1> QED BY <1>3, <1>4

\* What a whole observer has on record of these calls is attributed to them.
LEMMA WholeShows ==
  ASSUME JobInv, WindowInv, Observed, NEW o \in Whole, NEW event \in window.logs[o], event.op \in job.ops
  PROVE  <<o, event>> \in Evidence
<1>1. o \in job.healthy /\ window.outcome[o] = "whole" /\ o \notin Bad BY DEF Whole
<1>2. WindowOpen BY DEF Observed, WindowInv
<1>3. event \in window.returned[o] BY <1>1, <1>2 DEF WindowOpen, ObserverInv
<1>4. contract.observers[o].correlated => event.meta
  <2>1. o \in DOMAIN contract.observers BY <1>1 DEF JobInv, JobType, Observers
  <2> QED BY <1>1, <1>3, <2>1 DEF Bad, Misattributed
<1> QED BY <1>1, <1>3, <1>4, EvidenceIs

\* A complete window of a kind whose working observers all have an event.
LEMMA CompleteShows ==
  ASSUME JobInv, WindowInv, Observed, NEW required,
         Coverage(contract.observers, Whole, required) = "complete", NEW kind \in required
  PROVE  \E o \in job.healthy :
           /\ Watches(o, kind)
           /\ \A event \in window.logs[o] : event.op \in job.ops => <<o, event>> \in Evidence
<1>1. PICK o \in Whole : Watches(o, kind) BY CompleteIs
<1>2. o \in job.healthy BY DEF Whole
<1> QED BY <1>1, <1>2, WholeShows

LEMMA ObservationComplete ==
  ASSUME Observed, Observation = "complete"
  PROVE  Coverage(contract.observers, Whole, Required(job.check, job.tool)) = "complete"
BY DEF Observed, Observation, CollectedCoverage

\* A step that judges an observed call.
LEMMA JudgedIs ==
  ASSUME JobInv, [Next]_vars, Judged
  PROVE  /\ Observed /\ job.check \in pending /\ job.tool = ToolOf(job.check, job.step)
         /\ \/ Judge
            \/ ReadBack /\ job.check.group = "session"
         /\ EffectsFindings \subseteq Verdicts
         /\ Verdicts \subseteq findings \cup EffectsFindings \cup {Finding(job.check, Status, Merged)}
         /\ Judge => Finding(job.check, Status, Merged) \in Verdicts
<1>1. job.phase = "judging" /\ job' # job BY DEF Judged
<1>2. Judge \/ ReadBack
  BY <1>1 DEF Next, vars, Discover, Hinder, Start, Call, LateEffect, ForeignEffect, Collect
<1>3. ReadBack => job.check.group = "session" BY DEF ReadBack, ReadFollows
<1>4. \A f \in EffectsFindings : f.check = job.check BY DEF EffectsFindings
<1>5. Finding(job.check, Status, Merged).check = job.check BY DEF Finding
<1>6. Verdicts \subseteq findings' BY DEF Verdicts
<1>7. findings' \subseteq findings \cup EffectsFindings \cup {Finding(job.check, Status, Merged)}
  BY <1>2 DEF Judge, ReadBack
<1>8. EffectsFindings \subseteq findings' BY <1>2 DEF Judge, ReadBack
<1>9. Judge => Finding(job.check, Status, Merged) \in findings' BY DEF Judge
<1>10. Observed BY DEF Judged, Observed
<1>11. job.check \in pending /\ job.tool = ToolOf(job.check, job.step) BY <1>1 DEF JobInv, BusyInv
<1> QED BY <1>2, <1>3, <1>4, <1>5, <1>6, <1>7, <1>8, <1>9, <1>10, <1>11 DEF Verdicts

LEMMA StepIs ==
  ASSUME JobInv, Observed, job.check.group # "session"
  PROVE  job.tool = job.check.tool /\ job.step = "first"
BY DEF JobInv, BusyInv, Observed, JobType, Steps, ToolOf

\* A forbidden effect among what is attributed fails the check.
LEMMA ViolationFails ==
  ASSUME JobInv, WindowInv, [Next]_vars, Judged, Violating(Tool(job.tool), Evidence) # {}
  PROVE  \E f \in Verdicts : f.status = "failed"
<1>1. CASE job.check.group = "behaviour"
  <2>1. Judge BY <1>1, JudgedIs
  <2>2. job.tool = job.check.tool BY <1>1, JudgedIs, StepIs
  <2>3. Status = "failed" BY <1>1, <2>2 DEF Status, Behaviour
  <2>4. Finding(job.check, Status, Merged) \in Verdicts BY <2>1, JudgedIs
  <2> QED BY <2>3, <2>4 DEF Finding
<1>2. CASE job.check.group # "behaviour"
  <2>p. PICK f : f = [check |-> job.check, effects |-> TRUE, observation |-> Observation,
                      status |-> "failed"]
    OBVIOUS
  <2>1. f \in EffectsFindings
    BY <1>2, <2>p, JudgedIs DEF EffectsFindings, Observed
  <2> QED BY <2>1, <2>p, JudgedIs
<1> QED BY <1>1, <1>2

LEMMA ViolationsAreReported ==
  ASSUME JobInv, WindowInv, [Next]_vars, Judged, NEW event \in OwnViolations
  PROVE  /\ (\E o \in job.healthy : event \in window.returned[o] /\ event.meta) =>
              \E f \in Verdicts : f.status = "failed"
         /\ /\ \E o \in job.healthy : Watches(o, event.kind)
            /\ \A o \in job.healthy : Watches(o, event.kind) => event \in window.logs[o]
            => \E f \in Verdicts : f.status # "passed"
<1>p. PICK tool : tool = Tool(job.tool) OBVIOUS
<1>0. Observed BY JudgedIs
<1>1. event.op \in job.ops /\ Violates(tool, event) BY <1>p DEF OwnViolations, Own
<1>2. event.kind \in Claimed(tool) BY <1>1 DEF Violates, Claimed
<1>3. ASSUME NEW o, <<o, event>> \in Evidence PROVE \E f \in Verdicts : f.status = "failed"
  <2>1. <<o, event>> \in Violating(tool, Evidence) BY <1>1, <1>3 DEF Violating
  <2> QED BY <1>p, <2>1, ViolationFails
<1>4. ASSUME NEW o \in job.healthy, event \in window.returned[o], event.meta
      PROVE  \E f \in Verdicts : f.status = "failed"
  <2>1. <<o, event>> \in Evidence BY <1>0, <1>1, <1>4, EvidenceIs
  <2> QED BY <1>3, <2>1
<1>5. ASSUME \A o \in job.healthy : Watches(o, event.kind) => event \in window.logs[o],
             NEW required, Coverage(contract.observers, Whole, required) = "complete",
             event.kind \in required
      PROVE  \E f \in Verdicts : f.status = "failed"
  <2>1. PICK o \in job.healthy :
          /\ Watches(o, event.kind)
          /\ \A e \in window.logs[o] : e.op \in job.ops => <<o, e>> \in Evidence
    BY <1>0, <1>5, CompleteShows
  <2>2. <<o, event>> \in Evidence BY <1>1, <1>5, <2>1
  <2> QED BY <1>3, <2>2
<1>6. ASSUME \A o \in job.healthy : Watches(o, event.kind) => event \in window.logs[o]
      PROVE  \E f \in Verdicts : f.status # "passed"
  <2>1. CASE job.check.group = "behaviour"
    <3>1. Judge BY <2>1, JudgedIs
    <3>2. Finding(job.check, Status, Merged) \in Verdicts BY <3>1, JudgedIs
    <3>3. CASE Observation = "complete"
      <4>1. event.kind \in Required(job.check, job.tool) BY <1>2, <1>p DEF Required
      <4>2. Coverage(contract.observers, Whole, Required(job.check, job.tool)) = "complete"
        BY <1>0, <3>3, ObservationComplete
      <4>3. \E f \in Verdicts : f.status = "failed" BY <1>5, <1>6, <4>1, <4>2
      <4> QED BY <4>3
    <3>4. CASE Observation # "complete"
      <4>1. Status # "passed" BY <2>1, <3>4 DEF Status, Behaviour
      <4> QED BY <3>2, <4>1 DEF Finding
    <3> QED BY <3>3, <3>4
  <2>2. CASE job.check.group # "behaviour"
    <3>1. CASE Coverage(contract.observers, Whole, Claimed(tool)) = "complete"
      <4>1. \E f \in Verdicts : f.status = "failed" BY <1>2, <1>5, <1>6, <3>1
      <4> QED BY <4>1
    <3>2. CASE Coverage(contract.observers, Whole, Claimed(tool)) # "complete"
      <4>1. \E f \in EffectsFindings : f.status # "passed"
        BY <1>0, <1>2, <1>p, <2>2, <3>2 DEF EffectsFindings, Observed
      <4> QED BY <4>1, JudgedIs
    <3> QED BY <3>1, <3>2
  <2> QED BY <2>1, <2>2
<1> QED BY <1>4, <1>6

-----------------------------------------------------------------------------
(***************************************************************************)
(* Replays: how many effects were counted.                                 *)
(***************************************************************************)
Matching == {pair \in Evidence : pair[2].kind = contract.replay[job.tool].kind}

LEMMA RecordedIsFinite ==
  ASSUME JobInv, WindowInv, Observed PROVE IsFiniteSet(Recorded) /\ IsFiniteSet(Matching)
<1>p1. PICK logs : logs = [o \in job.healthy |-> window.logs[o]] OBVIOUS
<1>p2. PICK sets : sets = {window.logs[o] : o \in job.healthy} OBVIOUS
<1>1. job.healthy \subseteq Observers /\ IsFiniteSet(Observers)
  BY ContractsAssumption DEF JobInv, ContractInv, JobType, Observers
<1>2. IsFiniteSet(job.healthy) BY <1>1, FS_Subset
<1>3. logs \in [job.healthy -> sets] /\ \A T \in sets : \E o \in job.healthy : logs[o] = T
  BY <1>p1, <1>p2
<1>4. logs \in Surjection(job.healthy, sets) BY <1>3 DEF Surjection
<1>5. IsFiniteSet(sets) BY <1>2, <1>4, FS_Surjection
<1>6. \A T \in sets : IsFiniteSet(T)
  BY <1>p2 DEF Observed, WindowInv, WindowOpen, ObserverInv
<1>7. IsFiniteSet(UNION sets) BY <1>5, <1>6, FS_UNION
<1>8. IsFiniteSet(Observers \X UNION sets) BY <1>1, <1>7, FS_Product
<1>9. UNION sets = Recorded BY <1>p2 DEF Recorded
<1>10. ASSUME NEW pair \in Matching PROVE pair \in Observers \X Recorded
  <2>1. pair \in Evidence BY DEF Matching
  <2>2. pair[1] \in Observers /\ pair = <<pair[1], pair[2]>> /\ pair[2] \in Recorded
    BY <2>1, EvidenceIs
  <2> QED BY <2>2
<1>11. Matching \in SUBSET (Observers \X UNION sets) BY <1>9, <1>10
<1> QED BY <1>7, <1>8, <1>9, <1>11, FS_Subset

LEMMA ReplayIsOf ==
  ASSUME JobInv, Observed, job.check.group = "replay"
  PROVE  /\ Status = LET replay == contract.replay[job.tool]
                     IN  IF Cardinality(Matching) > replay.max THEN "failed"
                         ELSE IF /\ \E invocation \in job.replies : Allowed(invocation)
                                 /\ Cardinality(Matching) >= replay.min /\ Observation = "complete"
                           THEN "passed" ELSE "error"
         /\ contract.replay[job.tool].min \in Nat \ {0} /\ contract.replay[job.tool].max \in Nat
<1>1. job.tool = job.check.tool BY StepIs
<1>2. job.tool \in DOMAIN contract.replay
  BY <1>1, ChecksAre DEF JobInv, BusyInv, Observed, ReplayIs
<1>3. contract.replay[job.tool].min \in Nat \ {0} /\ contract.replay[job.tool].max \in Nat
  BY <1>2, ContractsAssumption DEF JobInv, ContractInv
<1>4. Status = Replay(contract.replay[job.tool], job.replies, Evidence, Observation)
  BY <1>1 DEF Status
<1> QED BY <1>3, <1>4 DEF Replay, Matching

\* Effects that every complete observer recorded are all among what is counted.
LEMMA CountedIsMatched ==
  ASSUME JobInv, WindowInv, Observed, job.check.group = "replay", Observation = "complete"
  PROVE  IsFiniteSet(Counted) /\ Cardinality(Counted) <= Cardinality(Matching)
<1>p. PICK kind : kind = contract.replay[job.tool].kind OBVIOUS
<1>1. kind \in Required(job.check, job.tool) BY <1>p DEF Required
<1>2. PICK o \in job.healthy :
        /\ Watches(o, kind)
        /\ \A e \in window.logs[o] : e.op \in job.ops => <<o, e>> \in Evidence
  BY <1>1, ObservationComplete, CompleteShows
<1>3. ASSUME NEW event \in Counted PROVE <<o, event>> \in Matching
  <2>1. event.op \in job.ops /\ event.kind = kind /\ event \in window.logs[o]
    BY <1>2, <1>p DEF Counted, Own
  <2> QED BY <1>2, <1>p, <2>1 DEF Matching
<1>p1. PICK f : f = [event \in Counted |-> <<o, event>>] OBVIOUS
<1>4. f \in [Counted -> Matching] BY <1>3, <1>p1
<1>5. \A a, b \in Counted : f[a] = f[b] => a = b BY <1>p1
<1>6. f \in Injection(Counted, Matching) BY <1>4, <1>5 DEF Injection, IsInjective
<1> QED BY <1>6, RecordedIsFinite, FS_Injection

\* Where one observer sees the kind, each match is an effect of its own.
LEMMA MatchedIsCounted ==
  ASSUME JobInv, WindowInv, Observed, job.check.group = "replay", AllCorrelated,
         NEW o, {p \in Observers : contract.replay[job.tool].kind \in contract.observers[p].observes} = {o}
  PROVE  IsFiniteSet(Counted) /\ Cardinality(Matching) <= Cardinality(Counted)
<1>p. PICK kind : kind = contract.replay[job.tool].kind OBVIOUS
<1>0. \A p \in Observers : kind \in contract.observers[p].observes => p = o BY <1>p
<1>1. ASSUME NEW p \in job.healthy, Watches(p, kind) PROVE p = o
  <2>1. p \in Observers /\ contract.observers[p].complete \subseteq contract.observers[p].observes
    BY ContractsAssumption DEF JobInv, JobType, ContractInv, Observers
  <2> QED BY <1>0, <1>1, <2>1 DEF Watches
<1>2. ASSUME NEW pair \in Matching PROVE pair[2] \in Counted /\ pair = <<o, pair[2]>>
  <2>1. pair \in Evidence /\ pair[2].kind = kind BY <1>p DEF Matching
  <2>2. /\ pair[1] \in Observers /\ pair = <<pair[1], pair[2]>> /\ pair[2] \in Recorded
        /\ pair[2] \in window.logs[pair[1]] /\ kind \in contract.observers[pair[1]].observes
        /\ pair[2].op \in job.ops
    BY <2>1, EvidenceIs DEF AllCorrelated
  <2>3. pair[1] = o BY <1>0, <2>2
  <2>4. \A p \in job.healthy : Watches(p, kind) => pair[2] \in window.logs[p]
    BY <1>1, <2>2, <2>3
  <2> QED BY <1>p, <2>1, <2>2, <2>3, <2>4 DEF Counted, Own
<1>p1. PICK f : f = [pair \in Matching |-> pair[2]] OBVIOUS
<1>3. f \in [Matching -> Counted] BY <1>2, <1>p1
<1>4. ASSUME NEW a \in Matching, NEW b \in Matching, f[a] = f[b] PROVE a = b
  <2>1. a[2] = b[2] BY <1>4, <1>p1
  <2>2. a = <<o, a[2]>> /\ b = <<o, b[2]>> BY <1>2
  <2> QED BY <2>1, <2>2
<1>5. f \in Injection(Matching, Counted) BY <1>3, <1>4 DEF Injection, IsInjective
<1>6. Counted \in SUBSET Recorded BY DEF Counted, Own
<1>7. IsFiniteSet(Counted) BY <1>6, RecordedIsFinite, FS_Subset
<1> QED BY <1>5, <1>7, FS_Injection

-----------------------------------------------------------------------------
(***************************************************************************)
(* The action properties about effects.                                    *)
(***************************************************************************)
LEMMA ReplaysAreCounted ==
  ASSUME EngineInv, [Next]_vars, Judged, job.check.group = "replay",
         NEW f \in Verdicts, ~ f.effects, f.status = "passed"
  PROVE  /\ Cardinality(Counted) <= contract.replay[job.tool].max
         /\ AllCorrelated => Own # {}
<1> USE DEF EngineInv
<1>0. Observed /\ job.check \in pending BY JudgedIs
<1>1. f.check = job.check /\ f \in findings \cup EffectsFindings \cup {Finding(job.check, Status, Merged)}
  BY JudgedIs DEF Verdicts
<1>2. f \notin findings BY <1>0, <1>1 DEF FindingsInv
<1>3. f \notin EffectsFindings BY DEF EffectsFindings
<1>4. Status = "passed" BY <1>1, <1>2, <1>3 DEF Finding
<1>p1. PICK replay : replay = contract.replay[job.tool] OBVIOUS
<1>p2. PICK matching : matching = Cardinality(Matching) OBVIOUS
<1>5. /\ ~ (matching > replay.max) /\ matching >= replay.min /\ Observation = "complete"
      /\ replay.min \in Nat \ {0} /\ replay.max \in Nat
  BY <1>0, <1>4, <1>p1, <1>p2, ReplayIsOf
<1>6. IsFiniteSet(Matching) /\ matching \in Nat
  BY <1>0, <1>p2, RecordedIsFinite, FS_CardinalityType
<1>7. IsFiniteSet(Counted) /\ Cardinality(Counted) \in Nat /\ Cardinality(Counted) <= matching
  BY <1>0, <1>5, <1>p2, CountedIsMatched, FS_CardinalityType
<1>8. ASSUME AllCorrelated PROVE Own # {}
  <2>1. matching # 0 BY <1>5, <1>6
  <2>2. Matching # {} BY <1>p2, <2>1, FS_EmptySet
  <2>3. PICK pair \in Evidence : TRUE BY <2>2 DEF Matching
  <2>4. pair[2] \in Recorded /\ pair[2].op \in job.ops BY <1>0, <1>8, <2>3, EvidenceIs DEF AllCorrelated
  <2> QED BY <2>4 DEF Own
<1> QED BY <1>5, <1>6, <1>7, <1>8, <1>p1

LEMMA BlamedRightly ==
  ASSUME EngineInv, [Next]_vars, Judged, AllCorrelated, NEW f \in Verdicts \ findings, f.status = "failed"
  PROVE  /\ f.effects \/ job.check.group = "behaviour" => OwnViolations # {}
         /\ /\ job.check.group = "replay" /\ ~ f.effects
            /\ Cardinality({o \in Observers :
                 contract.replay[job.tool].kind \in contract.observers[o].observes}) = 1
            => Cardinality(Counted) > contract.replay[job.tool].max
<1> USE DEF EngineInv
<1>0. Observed BY JudgedIs
<1>1. f \in EffectsFindings \/ f = Finding(job.check, Status, Merged) BY JudgedIs
<1>2. f = Finding(job.check, Status, Merged) => Status = "failed" /\ ~ f.effects BY DEF Finding
<1>3. f \in EffectsFindings => f.effects /\ job.check.group # "behaviour" BY DEF EffectsFindings
<1>4. ASSUME f.effects \/ job.check.group = "behaviour" PROVE OwnViolations # {}
  <2>1. Violating(Tool(job.tool), Evidence) # {}
    <3>1. CASE f \in EffectsFindings BY <3>1 DEF EffectsFindings
    <3>2. CASE f = Finding(job.check, Status, Merged)
      <4>1. job.check.group = "behaviour" /\ Status = "failed" BY <1>2, <1>4, <3>2
      <4>2. job.tool = job.check.tool BY <1>0, <4>1, StepIs
      <4> QED BY <4>1, <4>2 DEF Status, Behaviour
    <3> QED BY <1>1, <3>1, <3>2
  <2>2. PICK pair \in Evidence : Violates(Tool(job.tool), pair[2]) BY <2>1 DEF Violating
  <2>3. pair[2] \in Recorded /\ pair[2].op \in job.ops BY <1>0, <2>2, EvidenceIs DEF AllCorrelated
  <2> QED BY <2>2, <2>3 DEF OwnViolations, Own
<1>5. ASSUME job.check.group = "replay", ~ f.effects,
             Cardinality({o \in Observers :
               contract.replay[job.tool].kind \in contract.observers[o].observes}) = 1
      PROVE  Cardinality(Counted) > contract.replay[job.tool].max
  <2>p. PICK max : max = contract.replay[job.tool].max OBVIOUS
  <2>1. Cardinality(Matching) > max /\ max \in Nat BY <1>0, <1>1, <1>2, <1>3, <1>5, <2>p, ReplayIsOf
  <2>p1. PICK seeing : seeing = {o \in Observers :
                         contract.replay[job.tool].kind \in contract.observers[o].observes}
    OBVIOUS
  <2>2. IsFiniteSet(Observers) BY ContractsAssumption DEF JobInv, ContractInv, Observers
  <2>3. IsFiniteSet(seeing) BY <2>2, <2>p1, FS_Subset
  <2>4. PICK o : seeing = {o} BY <1>5, <2>3, <2>p1, FS_Singleton
  <2>5. IsFiniteSet(Counted) /\ Cardinality(Matching) <= Cardinality(Counted)
    BY <1>0, <1>5, <2>4, <2>p1, MatchedIsCounted
  <2>6. Cardinality(Matching) \in Nat /\ Cardinality(Counted) \in Nat
    BY <1>0, <2>5, RecordedIsFinite, FS_CardinalityType
  <2> QED BY <2>1, <2>5, <2>6, <2>p
<1> QED BY <1>4, <1>5

\* No forbidden effect of a call goes unmentioned, and a replay that passes had no
\* more effects on record than allowed (_collect_observers,
\* _side_effect_violations): whichever observer failed.
THEOREM NoEffectIsHidden == Spec => EffectsAreReported
<1>1. EngineInv /\ [Next]_vars => [Reported]_vars
  <2> SUFFICES ASSUME EngineInv, [Next]_vars, Judged PROVE Reported
    BY DEF Reported
  <2>1. JobInv /\ WindowInv BY DEF EngineInv
  <2> QED BY <2>1, ViolationsAreReported, ReplaysAreCounted DEF Reported
<1> QED BY <1>1, EngineIsSound, PTL DEF Spec, EffectsAreReported

\* With correlated observers nobody is blamed for the effects of another: late
\* ones of an earlier check, or those of other clients of the target.
THEOREM BlameIsDue == Spec => BlameIsRight
<1>1. EngineInv /\ [Next]_vars => [Blamed]_vars
  <2> SUFFICES ASSUME EngineInv, [Next]_vars, Judged, AllCorrelated PROVE Blamed
    BY DEF Blamed
  <2> QED BY BlamedRightly DEF Blamed
<1> QED BY <1>1, EngineIsSound, PTL DEF Spec, BlameIsRight

-----------------------------------------------------------------------------
(***************************************************************************)
(* The temporal check.                                                     *)
(***************************************************************************)
Snapshot == Seq(Versions)
CheckType ==
  [pc : {"off", "open", "initial", "call", "after", "close", "judge", "done", "over"},
   session : 1..Sessions, calls : 0..Retests, reading : Snapshot, reference : Snapshot,
   drift : BOOLEAN, errors : BOOLEAN, stop : BOOLEAN, checkpoints : Nat,
   finding : {"none", "skipped", "error", "failed", "passed"},
   severity : {"none", "info", "medium", "high"}, shown : SUBSET Snapshot, unwritten : BOOLEAN]

\* While every file is written, the evidence and what the check knows agree.
EvidenceInv(c) ==
  /\ c.unwritten => c.errors
  /\ ~ c.unwritten =>
       /\ c.shown = {} <=> c.reference = NoSnapshot
       /\ c.reference # NoSnapshot => c.reference \in c.shown
       /\ c.drift <=> \E s \in c.shown : s # c.reference
  /\ c.stop => c.drift
  /\ Len(c.reading) <= Len(Families)

\* Snapshots of a session: the first, and those after calls.
PerSession == 1 + (IF options.rediscover THEN Retests ELSE 1)
Before(c) == (c.session - 1) * PerSession

\* Without errors and drift, every checkpoint so far was made.
ProgressInv(c) ==
  /\ c.pc \in {"call", "after"} => c.reference # NoSnapshot
  /\ c.pc \in {"off", "open", "initial"} => c.calls = 0
  /\ c.pc = "call" => c.calls < Retests
  /\ c.pc = "after" => c.calls >= 1 /\ (options.rediscover \/ c.calls = Retests)
  /\ ~ c.errors /\ ~ c.drift =>
       /\ c.pc \in {"off", "open", "initial"} => c.checkpoints = Before(c)
       /\ c.pc = "call" =>
            c.checkpoints = Before(c) + 1 + (IF options.rediscover THEN c.calls ELSE 0)
       /\ c.pc = "after" =>
            c.checkpoints = Before(c) + 1 + (IF options.rediscover THEN c.calls - 1 ELSE 0)
       /\ c.pc = "close" => c.checkpoints = Before(c) + PerSession
       /\ c.pc = "judge" => c.checkpoints = Sessions * PerSession

FindingInv(c) ==
  c.pc = "done" =>
    /\ ~ c.unwritten => (c.finding = "failed" <=> c.drift)
    /\ c.finding = "passed" => c.checkpoints = Sessions * PerSession /\ ~ c.unwritten

CheckInv(c) == c \in CheckType /\ EvidenceInv(c) /\ ProgressInv(c) /\ FindingInv(c)
TargetInv ==
  /\ options \in [rediscover : BOOLEAN, stop : BOOLEAN]
  /\ metadata \in [DOMAIN Families -> Versions]
TemporalInv == TargetInv /\ CheckInv(check)

-----------------------------------------------------------------------------
LEMMA PutKeeps == ASSUME TemporalInv, NEW c, CheckInv(c), Put(c) PROVE TemporalInv'
BY DEF TemporalInv, TargetInv, CheckInv, EvidenceInv, ProgressInv, FindingInv, PerSession, Before, Put

\* One session more is as many snapshots more.
LEMMA SessionAdds ==
  ASSUME NEW n \in Nat, n > 0, NEW per \in Nat PROVE (n - 1) * per + per = n * per
OBVIOUS

LEMMA PerSessionIs ==
  ASSUME TargetInv
  PROVE  /\ PerSession \in Nat
         /\ options.rediscover => PerSession = 1 + Retests
         /\ ~ options.rediscover => PerSession = 2
BY TemporalAssumption DEF TargetInv, PerSession

LEMMA NextSessionKeeps ==
  ASSUME TargetInv, NEW c \in CheckType, EvidenceInv(c),
         ~ c.errors /\ ~ c.drift => c.checkpoints = Before(c) + PerSession
  PROVE  CheckInv(NextSession(c))
<1>1. /\ c.session \in 1..Sessions /\ Sessions \in Nat \ {0} /\ c.reading \in Snapshot
      /\ Len(Families) \in Nat \ {0} /\ Retests \in Nat \ {0} /\ PerSession \in Nat
  BY TemporalAssumption, FamiliesAssumption, PerSessionIs DEF CheckType
<1>2. NoSnapshot \in Snapshot /\ Len(NoSnapshot) = 0 BY DEF NoSnapshot, Snapshot
<1>3. Before(c) + PerSession = c.session * PerSession BY <1>1, SessionAdds DEF Before
<1>4. CASE c.stop \/ c.session = Sessions
  <2> PICK d : d = [c EXCEPT !.pc = "judge", !.reading = NoSnapshot] OBVIOUS
  <2>1. NextSession(c) = d BY <1>4 DEF NextSession
  <2>2. /\ d \in CheckType /\ d.pc = "judge" /\ d.unwritten = c.unwritten /\ d.errors = c.errors
        /\ d.shown = c.shown /\ d.reference = c.reference /\ d.drift = c.drift /\ d.stop = c.stop
        /\ d.reading = NoSnapshot /\ d.session = c.session /\ d.checkpoints = c.checkpoints
    BY <1>2 DEF CheckType
  <2>3. EvidenceInv(d) BY <1>1, <1>2, <2>2 DEF EvidenceInv
  <2>4. ProgressInv(d) BY <1>3, <1>4, <2>2 DEF ProgressInv, EvidenceInv
  <2>5. FindingInv(d) BY <2>2 DEF FindingInv
  <2> QED BY <2>1, <2>2, <2>3, <2>4, <2>5 DEF CheckInv
<1>5. CASE ~ c.stop /\ c.session # Sessions
  <2> PICK n \in Nat : n = c.session + 1 BY <1>1
  <2> PICK d : d = [c EXCEPT !.pc = "open", !.session = n, !.calls = 0, !.reading = NoSnapshot] OBVIOUS
  <2>1. NextSession(c) = d BY <1>5 DEF NextSession
  <2>2. n \in 1..Sessions /\ 0 \in 0..Retests BY <1>1, <1>5
  <2>3. /\ d \in CheckType /\ d.pc = "open" /\ d.unwritten = c.unwritten /\ d.errors = c.errors
        /\ d.shown = c.shown /\ d.reference = c.reference /\ d.drift = c.drift /\ d.stop = c.stop
        /\ d.reading = NoSnapshot /\ d.session = n /\ d.calls = 0 /\ d.checkpoints = c.checkpoints
    BY <1>2, <2>2 DEF CheckType
  <2>4. EvidenceInv(d) BY <1>1, <1>2, <2>3 DEF EvidenceInv
  <2>5. Before(d) = c.session * PerSession
    <3>1. d.session - 1 = c.session BY <1>1, <2>3
    <3> QED BY <3>1 DEF Before
  <2>6. ProgressInv(d) BY <1>3, <2>3, <2>5 DEF ProgressInv
  <2>7. FindingInv(d) BY <2>3 DEF FindingInv
  <2> QED BY <2>1, <2>3, <2>4, <2>6, <2>7 DEF CheckInv
<1> QED BY <1>4, <1>5

LEMMA RaisedKeeps ==
  ASSUME TargetInv, NEW c \in CheckType, EvidenceInv(c) PROVE CheckInv(Raised(c))
<1> PICK d : d = [c EXCEPT !.errors = TRUE] OBVIOUS
<1>1. /\ d \in CheckType /\ d.errors /\ d.unwritten = c.unwritten /\ d.shown = c.shown
      /\ d.reference = c.reference /\ d.drift = c.drift /\ d.stop = c.stop /\ d.reading = c.reading
  BY DEF CheckType
<1>2. EvidenceInv(d) BY <1>1 DEF EvidenceInv
<1> QED BY <1>1, <1>2, NextSessionKeeps DEF Raised

\* A file that was not written ends the session, whatever is shown.
LEMMA UnwrittenKeeps ==
  ASSUME TemporalInv, NEW c \in CheckType, c.stop => c.drift, Len(c.reading) <= Len(Families), Unwritten(c)
  PROVE  TemporalInv'
<1> PICK u : u = [c EXCEPT !.unwritten = TRUE] OBVIOUS
<1> PICK d : d = [u EXCEPT !.errors = TRUE] OBVIOUS
<1>1. u \in CheckType /\ u.unwritten /\ u.drift = c.drift /\ u.stop = c.stop /\ u.reading = c.reading
  BY DEF CheckType
<1>2. /\ d \in CheckType /\ d.unwritten /\ d.errors /\ d.drift = c.drift /\ d.stop = c.stop
      /\ d.reading = c.reading
  BY <1>1 DEF CheckType
<1>3. EvidenceInv(d) BY <1>2 DEF EvidenceInv
<1>4. CheckInv(NextSession(d)) BY <1>2, <1>3, NextSessionKeeps DEF TemporalInv
<1> QED BY <1>4, PutKeeps DEF Unwritten, Raised

\* A snapshot that is shown.
Shows(d, c) ==
  /\ d \in CheckType /\ d.pc = c.pc /\ d.session = c.session /\ d.calls = c.calls
  /\ d.reading = NoSnapshot /\ d.reference = c.reference /\ d.drift = c.drift
  /\ d.errors = c.errors /\ d.stop = c.stop /\ d.checkpoints = c.checkpoints + 1
  /\ d.finding = c.finding /\ d.shown = c.shown \cup {c.reading} /\ d.unwritten = c.unwritten

LEMMA CheckpointIs == ASSUME NEW c \in CheckType PROVE Shows(Checkpoint(c), c)
<1>1. NoSnapshot \in Snapshot BY DEF NoSnapshot, Snapshot
<1> PICK n \in Nat : n = c.checkpoints + 1 BY DEF CheckType
<1> PICK s : s = c.shown \cup {c.reading} OBVIOUS
<1> PICK d : d = [c EXCEPT !.checkpoints = n, !.shown = s, !.reading = NoSnapshot] OBVIOUS
<1>2. s \in SUBSET Snapshot BY DEF CheckType
<1>3. Checkpoint(c) = d BY DEF Checkpoint, CheckType
<1>4. Shows(d, c) BY <1>1, <1>2 DEF CheckType, Shows
<1> QED BY <1>3, <1>4

-----------------------------------------------------------------------------
LEMMA NoCheckIs ==
  ASSUME TargetInv, NEW pc \in {"off", "open", "over"}
  PROVE  CheckInv([NoCheck EXCEPT !.pc = pc])
<1> PICK c : c = [NoCheck EXCEPT !.pc = pc] OBVIOUS
<1>1. NoSnapshot \in Snapshot /\ Len(NoSnapshot) = 0 BY DEF NoSnapshot, Snapshot
<1>2. 1 \in 1..Sessions /\ 0 \in 0..Retests /\ Len(Families) \in Nat \ {0}
  BY TemporalAssumption, FamiliesAssumption
<1>3. /\ c \in CheckType /\ c.pc = pc /\ ~ c.unwritten /\ c.shown = {} /\ c.reference = NoSnapshot
      /\ ~ c.drift /\ ~ c.stop /\ c.reading = NoSnapshot /\ c.calls = 0 /\ c.session = 1 /\ c.checkpoints = 0
  BY <1>1, <1>2 DEF CheckType, NoCheck
<1>4. EvidenceInv(c) BY <1>1, <1>2, <1>3 DEF EvidenceInv
<1>5. Before(c) = 0 BY <1>3, PerSessionIs DEF Before
<1>6. ProgressInv(c) BY <1>3, <1>5 DEF ProgressInv
<1>7. FindingInv(c) BY <1>3 DEF FindingInv
<1> QED BY <1>3, <1>4, <1>6, <1>7 DEF CheckInv

LEMMA BeginCheckKeeps == ASSUME TemporalInv, BeginCheck PROVE TemporalInv'
<1>1. CASE Put([NoCheck EXCEPT !.pc = "open"]) BY <1>1, NoCheckIs, PutKeeps DEF TemporalInv
<1>2. ASSUME NEW f \in {"skipped", "error"}, NEW s \in {"info", "high"},
             Put([NoCheck EXCEPT !.pc = "done", !.finding = f, !.severity = s])
      PROVE  TemporalInv'
  <2> PICK c : c = [NoCheck EXCEPT !.pc = "done", !.finding = f, !.severity = s] OBVIOUS
  <2>1. NoSnapshot \in Snapshot /\ Len(NoSnapshot) = 0 BY DEF NoSnapshot, Snapshot
  <2>2. 1 \in 1..Sessions /\ 0 \in 0..Retests /\ Len(Families) \in Nat \ {0}
    BY TemporalAssumption, FamiliesAssumption
  <2>3. /\ c \in CheckType /\ c.pc = "done" /\ ~ c.unwritten /\ c.shown = {} /\ c.reference = NoSnapshot
        /\ ~ c.drift /\ ~ c.stop /\ c.reading = NoSnapshot /\ c.finding = f
    BY <2>1, <2>2 DEF CheckType, NoCheck
  <2>4. EvidenceInv(c) BY <2>1, <2>2, <2>3 DEF EvidenceInv
  <2>5. ProgressInv(c) BY <2>3 DEF ProgressInv
  <2>6. FindingInv(c) BY <2>3 DEF FindingInv
  <2>7. CheckInv(c) BY <2>3, <2>4, <2>5, <2>6 DEF CheckInv
  <2> QED BY <1>2, <2>7, PutKeeps
<1> QED BY <1>1, <1>2 DEF BeginCheck

LEMMA SessionRaisesKeeps == ASSUME TemporalInv, SessionRaises PROVE TemporalInv'
<1>1. CheckInv(Raised(check)) BY RaisedKeeps DEF TemporalInv, CheckInv
<1> QED BY <1>1, PutKeeps DEF SessionRaises

LEMMA OpenSessionKeeps == ASSUME TemporalInv, OpenSession PROVE TemporalInv'
<1> PICK c : c = [check EXCEPT !.pc = "initial"] OBVIOUS
<1>1. /\ c \in CheckType /\ c.pc = "initial" /\ check.pc = "open"
      /\ c.session = check.session /\ c.calls = check.calls /\ c.reading = check.reading
      /\ c.reference = check.reference /\ c.drift = check.drift /\ c.errors = check.errors
      /\ c.stop = check.stop /\ c.checkpoints = check.checkpoints /\ c.shown = check.shown
      /\ c.unwritten = check.unwritten
  BY DEF TemporalInv, CheckInv, CheckType, OpenSession
<1>2. EvidenceInv(c) BY <1>1 DEF TemporalInv, CheckInv, EvidenceInv
<1>3. ProgressInv(c) BY <1>1 DEF TemporalInv, CheckInv, ProgressInv, Before
<1>4. FindingInv(c) BY <1>1 DEF FindingInv
<1>5. CheckInv(c) BY <1>1, <1>2, <1>3, <1>4 DEF CheckInv
<1> QED BY <1>5, PutKeeps DEF OpenSession

LEMMA ReadFamilyKeeps == ASSUME TemporalInv, ReadFamily PROVE TemporalInv'
<1>1. /\ check \in CheckType /\ check.reading \in Snapshot /\ check.pc \in {"initial", "after"}
      /\ Len(check.reading) <= Len(Families) /\ Len(check.reading) # Len(Families)
  BY DEF TemporalInv, CheckInv, CheckType, EvidenceInv, ReadFamily, AllRead
<1>2. Len(check.reading) + 1 \in DOMAIN Families BY <1>1, FamiliesAssumption DEF Snapshot
<1> PICK v : v = metadata[Len(check.reading) + 1] OBVIOUS
<1> PICK s : s = Append(check.reading, v) OBVIOUS
<1>3. v \in Versions BY <1>2 DEF TemporalInv, TargetInv
<1>4. s \in Snapshot /\ Len(s) <= Len(Families) BY <1>1, <1>2, <1>3, FamiliesAssumption DEF Snapshot
<1> PICK c : c = [check EXCEPT !.reading = s] OBVIOUS
<1>5. Put(c) BY DEF ReadFamily
<1>6. /\ c \in CheckType /\ c.pc = check.pc
      /\ c.session = check.session /\ c.calls = check.calls /\ c.reading = s
      /\ c.reference = check.reference /\ c.drift = check.drift /\ c.errors = check.errors
      /\ c.stop = check.stop /\ c.checkpoints = check.checkpoints /\ c.shown = check.shown
      /\ c.unwritten = check.unwritten
  BY <1>1, <1>4 DEF CheckType
<1>7. EvidenceInv(c) BY <1>4, <1>6 DEF TemporalInv, CheckInv, EvidenceInv
<1>8. ProgressInv(c) BY <1>6 DEF TemporalInv, CheckInv, ProgressInv, Before
<1>9. FindingInv(c) BY <1>1, <1>6 DEF FindingInv
<1>10. CheckInv(c) BY <1>6, <1>7, <1>8, <1>9 DEF CheckInv
<1> QED BY <1>5, <1>10, PutKeeps

\* A snapshot of the whole target is not the empty one.
LEMMA AllReadIs == ASSUME TemporalInv, AllRead PROVE check.reading \in Snapshot /\ check.reading # NoSnapshot
<1>1. Len(check.reading) # 0 /\ check.reading \in Snapshot
  BY FamiliesAssumption DEF AllRead, TemporalInv, CheckInv, CheckType
<1> QED BY <1>1 DEF NoSnapshot

\* What a check is after a snapshot that was shown and compared, to a reference
\* that may be that snapshot.
Compared(c, ref, drift, stop) ==
  /\ c \in CheckType /\ c.session = check.session /\ c.calls = check.calls
  /\ c.reading = NoSnapshot /\ c.reference = ref /\ c.drift = drift /\ c.stop = stop
  /\ c.errors = check.errors /\ c.unwritten = check.unwritten
  /\ c.checkpoints = check.checkpoints + 1 /\ c.shown = check.shown \cup {check.reading}

LEMMA ComparedIs ==
  ASSUME TemporalInv, NEW ref \in Snapshot, ref # NoSnapshot,
         check.reference = NoSnapshot => ref = check.reading,
         check.reference # NoSnapshot => ref = check.reference,
         NEW drift \in BOOLEAN, drift <=> (check.drift \/ ref # check.reading),
         NEW stop \in BOOLEAN, stop => drift,
         NEW c, Compared(c, ref, drift, stop)
  PROVE  EvidenceInv(c) /\ Before(c) = Before(check)
<1> USE DEF TemporalInv, CheckInv, Compared
<1>1. Len(NoSnapshot) = 0 /\ Len(Families) \in Nat \ {0} BY FamiliesAssumption DEF NoSnapshot
<1>2. c.unwritten => c.errors BY DEF EvidenceInv
<1>3. ASSUME ~ c.unwritten
      PROVE  /\ c.shown # {} /\ c.reference # NoSnapshot /\ c.reference \in c.shown
             /\ c.drift <=> \E s \in c.shown : s # c.reference
  <2>1. CASE check.reference = NoSnapshot
    <3>1. check.shown = {} /\ ~ check.drift BY <1>3, <2>1 DEF EvidenceInv
    <3> QED BY <2>1, <3>1
  <2>2. CASE check.reference # NoSnapshot
    <3>1. /\ check.reference \in check.shown
          /\ check.drift <=> \E s \in check.shown : s # check.reference
      BY <1>3, <2>2 DEF EvidenceInv
    <3> QED BY <2>2, <3>1
  <2> QED BY <2>1, <2>2
<1>4. EvidenceInv(c) BY <1>1, <1>2, <1>3 DEF EvidenceInv
<1> QED BY <1>4 DEF Before

\* A check with its place, drift, stop or number of calls marked anew.
Marked(d, c, pc, drift, stop) ==
  /\ d \in CheckType /\ d.pc = pc /\ d.session = c.session /\ d.calls = c.calls
  /\ d.reading = c.reading /\ d.reference = c.reference /\ d.drift = drift
  /\ d.errors = c.errors /\ d.stop = stop /\ d.checkpoints = c.checkpoints
  /\ d.finding = c.finding /\ d.shown = c.shown /\ d.unwritten = c.unwritten

LEMMA DriftIs == ASSUME NEW c \in CheckType PROVE Marked([c EXCEPT !.drift = TRUE], c, c.pc, TRUE, c.stop)
<1> PICK b \in BOOLEAN : b = TRUE OBVIOUS
<1>1. Marked([c EXCEPT !.drift = b], c, c.pc, b, c.stop) BY DEF CheckType, Marked
<1> QED BY <1>1

LEMMA StopIs ==
  ASSUME NEW c \in CheckType, NEW pc \in {"call", "close"}, NEW stop \in BOOLEAN
  PROVE  Marked([c EXCEPT !.pc = pc, !.stop = stop], c, pc, c.drift, stop)
BY DEF CheckType, Marked

LEMMA PlaceIs ==
  ASSUME NEW c \in CheckType, NEW pc \in {"call", "close"}
  PROVE  Marked([c EXCEPT !.pc = pc], c, pc, c.drift, c.stop)
BY DEF CheckType, Marked

LEMMA DriftStopIs ==
  ASSUME NEW c \in CheckType, NEW stop \in BOOLEAN
  PROVE  Marked([c EXCEPT !.drift = TRUE, !.stop = stop], c, c.pc, TRUE, stop)
<1> PICK b \in BOOLEAN : b = TRUE OBVIOUS
<1>1. Marked([c EXCEPT !.drift = b, !.stop = stop], c, c.pc, b, stop) BY DEF CheckType, Marked
<1> QED BY <1>1

\* The first snapshot of a session was compared: on to its calls, or to its end.
LEMMA InitialComparedKeeps ==
  ASSUME TemporalInv, check.pc = "initial", AllRead,
         NEW drift \in BOOLEAN, drift <=> (check.drift \/ Reference # check.reading),
         NEW stop \in BOOLEAN, stop => drift, NEW c, Compared(c, Reference, drift, stop),
         c.pc = "call" \/ (c.pc = "close" /\ drift), Put(c)
  PROVE  TemporalInv'
<1> USE DEF TemporalInv, CheckInv
<1>1. check.reading \in Snapshot /\ check.reading # NoSnapshot BY AllReadIs
<1>2. /\ Reference \in Snapshot /\ Reference # NoSnapshot
      /\ check.reference = NoSnapshot => Reference = check.reading
      /\ check.reference # NoSnapshot => Reference = check.reference
  BY <1>1 DEF Reference, CheckType
<1>3. EvidenceInv(c) /\ Before(c) = Before(check) BY <1>2, ComparedIs
<1>4. ProgressInv(c)
  <2>1. check.calls = 0 /\ Retests \in Nat \ {0} BY TemporalAssumption DEF ProgressInv
  <2>2. ~ check.errors /\ ~ check.drift => check.checkpoints = Before(check) BY DEF ProgressInv
  <2>3. check.checkpoints \in Nat BY DEF CheckType
  <2> QED BY <1>2, <1>3, <2>1, <2>2, <2>3 DEF ProgressInv, Compared
<1>5. FindingInv(c) BY DEF FindingInv
<1>6. CheckInv(c) BY <1>3, <1>4, <1>5 DEF Compared
<1> QED BY <1>6, PutKeeps

LEMMA InitialCheckpointKeeps == ASSUME TemporalInv, InitialCheckpoint PROVE TemporalInv'
<1>1. /\ check.pc = "initial" /\ AllRead /\ check \in CheckType /\ EvidenceInv(check)
      /\ check.reading \in Snapshot /\ check.reading # NoSnapshot /\ options.stop \in BOOLEAN
  BY AllReadIs DEF InitialCheckpoint, TemporalInv, TargetInv, CheckInv
<1>2. (check.stop => check.drift) /\ Len(check.reading) <= Len(Families) BY <1>1 DEF EvidenceInv
<1>b1. check.drift \in BOOLEAN BY <1>1 DEF CheckType
<1>b2. check.stop \in BOOLEAN BY <1>1 DEF CheckType
<1>3. Len(NoSnapshot) = 0 /\ Len(Families) \in Nat BY FamiliesAssumption DEF NoSnapshot
<1>p1. PICK known : known = [check EXCEPT !.reference = Reference] OBVIOUS
<1>p2. PICK first : first = Checkpoint(known) OBVIOUS
<1>p3. PICK drifted : drifted = [first EXCEPT !.drift = TRUE] OBVIOUS
<1>4. /\ known \in CheckType /\ known.session = check.session
      /\ known.calls = check.calls /\ known.reading = check.reading /\ known.reference = Reference
      /\ known.drift = check.drift /\ known.errors = check.errors /\ known.stop = check.stop
      /\ known.checkpoints = check.checkpoints /\ known.shown = check.shown
      /\ known.unwritten = check.unwritten
  <2>1. Reference \in Snapshot BY <1>1 DEF Reference, CheckType
  <2> QED BY <1>p1, <1>1, <2>1 DEF CheckType
<1>5. Shows(first, known) BY <1>p2, <1>4, CheckpointIs
<1>6. first \in CheckType BY <1>5 DEF Shows
<1>7. Marked(drifted, first, first.pc, TRUE, first.stop) BY <1>p3, <1>6, DriftIs
<1>8. drifted \in CheckType BY <1>7 DEF Marked
<1>9. CASE Unwritten(known)
  <2>1. known \in CheckType BY <1>4
  <2>e. known.stop = check.stop /\ known.drift = check.drift BY <1>4
  <2>2. known.stop => known.drift BY <1>2, <2>e, Zenon
  <2>3. Len(known.reading) <= Len(Families) BY <1>2, <1>4
  <2> QED BY <1>9, <2>1, <2>2, <2>3, UnwrittenKeeps
<1>10. CASE Unwritten(drifted)
  <2>1. drifted.drift /\ drifted.reading = NoSnapshot BY <1>5, <1>7 DEF Shows, Marked
  <2>2. Len(drifted.reading) <= Len(Families) BY <1>3, <2>1
  <2> QED BY <1>8, <1>10, <2>1, <2>2, UnwrittenKeeps
<1>11. CASE Put([first EXCEPT !.pc = "call"]) /\ (~ Drifted(Reference, check.reading) \/ check.drift)
  <2>p. PICK c : c = [first EXCEPT !.pc = "call"] OBVIOUS
  <2>1. Marked(c, first, "call", first.drift, first.stop) BY <1>6, <2>p, PlaceIs
  <2>p1. PICK drift \in BOOLEAN : drift = check.drift BY <1>b1, Zenon
  <2>p2. PICK stop \in BOOLEAN : stop = check.stop BY <1>b2, Zenon
  <2>2. Compared(c, Reference, drift, stop) /\ c.pc = "call"
    BY <2>p1, <2>p2, <1>4, <1>5, <2>1 DEF Shows, Compared, Marked
  <2>3. drift <=> (check.drift \/ Reference # check.reading) BY <1>11, <2>p1 DEF Drifted
  <2>4. Put(c) BY <1>11, <2>p
  <2>5. stop => drift BY <2>p1, <2>p2, <1>2
  <2> QED BY <1>1, <2>2, <2>3, <2>4, <2>5, InitialComparedKeeps
<1>12. CASE /\ Drifted(Reference, check.reading)
            /\ Put([drifted EXCEPT !.pc = IF options.stop THEN "close" ELSE "call", !.stop = options.stop])
  <2>p1. PICK pc \in {"call", "close"} : pc = IF options.stop THEN "close" ELSE "call" OBVIOUS
  <2>p2. PICK c : c = [drifted EXCEPT !.pc = pc, !.stop = options.stop] OBVIOUS
  <2>1. Marked(c, drifted, pc, drifted.drift, options.stop) BY <1>1, <1>8, <2>p2, StopIs
  <2>2. Compared(c, Reference, TRUE, options.stop) /\ c.pc = pc
    BY <1>4, <1>5, <1>7, <2>1 DEF Shows, Compared, Marked
  <2>3. TRUE <=> (check.drift \/ Reference # check.reading) BY <1>12 DEF Drifted
  <2>4. Put(c) BY <1>12, <2>p1, <2>p2
  <2> QED BY <1>1, <2>p1, <2>2, <2>3, <2>4, InitialComparedKeeps
<1>13. \/ Unwritten(known) \/ Unwritten(drifted)
       \/ Put([first EXCEPT !.pc = "call"]) /\ (~ Drifted(Reference, check.reading) \/ check.drift)
       \/ /\ Drifted(Reference, check.reading)
          /\ Put([drifted EXCEPT !.pc = IF options.stop THEN "close" ELSE "call", !.stop = options.stop])
  BY <1>p1, <1>p2, <1>p3 DEF InitialCheckpoint
<1> QED BY <1>9, <1>10, <1>11, <1>12, <1>13

\* A driver call leads to another one, to a snapshot, or to the end of the session.
LEMMA CalledKeeps ==
  ASSUME TemporalInv, check.pc = "call",
         NEW n \in Nat, n = check.calls + 1, NEW pc \in {"after", "call", "close"},
         NEW errors \in BOOLEAN, check.errors => errors,
         pc = "close" => errors, pc = "after" => options.rediscover \/ n = Retests,
         pc = "call" => ~ options.rediscover /\ n # Retests,
         NEW c, c = [check EXCEPT !.pc = pc, !.calls = n, !.errors = errors], Put(c)
  PROVE  TemporalInv'
<1> USE DEF TemporalInv, CheckInv
<1>1. /\ check \in CheckType /\ check.calls < Retests /\ Retests \in Nat \ {0}
      /\ check.reference # NoSnapshot /\ options.rediscover \in BOOLEAN /\ check.calls \in Nat
      /\ check.checkpoints \in Nat
  BY TemporalAssumption DEF ProgressInv, TargetInv, CheckType
<1>2. n \in 0..Retests /\ n >= 1 BY <1>1
<1>3. /\ c \in CheckType /\ c.pc = pc /\ c.session = check.session /\ c.calls = n
      /\ c.reading = check.reading /\ c.reference = check.reference /\ c.drift = check.drift
      /\ c.errors = errors /\ c.stop = check.stop /\ c.checkpoints = check.checkpoints
      /\ c.shown = check.shown /\ c.unwritten = check.unwritten
  BY <1>1, <1>2 DEF CheckType
<1>4. EvidenceInv(c) BY <1>3 DEF EvidenceInv
<1>5. ProgressInv(c)
  <2>1. Before(c) = Before(check) BY <1>3 DEF Before
  <2>2. ~ check.errors /\ ~ check.drift =>
          check.checkpoints = Before(check) + 1 + (IF options.rediscover THEN check.calls ELSE 0)
    BY <1>1 DEF ProgressInv
  <2>3. check.calls = n - 1 BY <1>1
  <2> QED BY <1>1, <1>2, <1>3, <2>1, <2>2, <2>3 DEF ProgressInv
<1>6. FindingInv(c) BY <1>3 DEF FindingInv
<1> QED BY <1>3, <1>4, <1>5, <1>6, PutKeeps

LEMMA CallDriverKeeps == ASSUME TemporalInv, CallDriver PROVE TemporalInv'
<1>1. check.pc = "call" /\ check \in CheckType /\ check.calls \in Nat /\ check.errors \in BOOLEAN
  BY DEF CallDriver, TemporalInv, CheckInv, CheckType
<1>p1. PICK n \in Nat : n = check.calls + 1 BY <1>1
<1>p2. PICK called : called = [check EXCEPT !.calls = n] OBVIOUS
<1>2. called.calls = n BY <1>p2, <1>1 DEF CheckType
<1>3. CASE Put([called EXCEPT !.pc = "close", !.errors = TRUE])
  <2>p1. PICK b \in BOOLEAN : b = TRUE OBVIOUS
  <2>p2. PICK c : c = [check EXCEPT !.pc = "close", !.calls = n, !.errors = b] OBVIOUS
  <2>1. [called EXCEPT !.pc = "close", !.errors = b] = c BY <1>p2, <1>1, <2>p2 DEF CheckType
  <2>2. Put(c) BY <1>3, <2>1, <2>p1
  <2> QED BY <1>p1, <1>1, <2>p1, <2>p2, <2>2, CalledKeeps
<1>4. CASE Put([called EXCEPT !.pc = IF options.rediscover \/ called.calls = Retests THEN "after" ELSE "call"])
  <2>p1. PICK pc \in {"after", "call"} : pc = IF options.rediscover \/ n = Retests THEN "after" ELSE "call"
    OBVIOUS
  <2>p2. PICK c : c = [check EXCEPT !.pc = pc, !.calls = n, !.errors = check.errors] OBVIOUS
  <2>1. [called EXCEPT !.pc = pc] = c BY <1>p2, <1>1, <2>p2 DEF CheckType
  <2>2. Put(c) BY <1>2, <1>4, <2>1, <2>p1
  <2> QED BY <1>p1, <1>1, <2>p1, <2>p2, <2>2, CalledKeeps
<1> QED BY <1>p1, <1>p2, <1>3, <1>4 DEF CallDriver

\* A later snapshot was compared: on to the next call, or to the end of the session.
LEMMA LaterComparedKeeps ==
  ASSUME TemporalInv, check.pc = "after", AllRead,
         NEW drift \in BOOLEAN, drift <=> (check.drift \/ check.reference # check.reading),
         NEW stop \in BOOLEAN, stop => drift, NEW c, Compared(c, check.reference, drift, stop),
         c.pc \in {"call", "close"}, c.pc = "call" => check.calls # Retests,
         c.pc = "close" => stop \/ check.calls = Retests, Put(c)
  PROVE  TemporalInv'
<1> USE DEF TemporalInv, CheckInv
<1>1. /\ check.reference \in Snapshot /\ check.reference # NoSnapshot
      /\ check.calls \in 0..Retests /\ Retests \in Nat \ {0} /\ check.checkpoints \in Nat
      /\ options.rediscover \in BOOLEAN
  BY TemporalAssumption DEF CheckType, ProgressInv, TargetInv
<1>2. EvidenceInv(c) /\ Before(c) = Before(check) BY <1>1, ComparedIs
<1>3. ProgressInv(c)
  <2>1. check.calls >= 1 /\ (options.rediscover \/ check.calls = Retests) BY DEF ProgressInv
  <2>2. ~ check.errors /\ ~ check.drift =>
          check.checkpoints = Before(check) + 1 + (IF options.rediscover THEN check.calls - 1 ELSE 0)
    BY DEF ProgressInv
  <2>3. /\ c.calls = check.calls /\ c.errors = check.errors /\ c.drift = drift
        /\ c.checkpoints = check.checkpoints + 1 /\ c.reference = check.reference
    BY DEF Compared
  <2>4. check.session \in Nat \ {0} /\ PerSession \in Nat BY TemporalAssumption, PerSessionIs DEF CheckType
  <2>5. Before(check) \in Nat BY <2>4 DEF Before
  <2>6. ASSUME ~ check.errors, ~ check.drift, ~ drift
        PROVE  /\ c.pc = "call" =>
                    c.checkpoints = Before(check) + 1 + (IF options.rediscover THEN c.calls ELSE 0)
               /\ c.pc = "close" => c.checkpoints = Before(check) + PerSession
    <3>1. CASE options.rediscover
      <4>1. check.checkpoints = Before(check) + 1 + (check.calls - 1) BY <2>2, <2>6, <3>1
      <4>2. PerSession = 1 + Retests BY <3>1, PerSessionIs
      <4> QED BY <1>1, <2>3, <2>5, <2>6, <3>1, <4>1, <4>2
    <3>2. CASE ~ options.rediscover
      <4>1. check.checkpoints = Before(check) + 1 + 0 BY <2>2, <2>6, <3>2
      <4>2. PerSession = 2 BY <3>2, PerSessionIs
      <4> QED BY <1>1, <2>1, <2>3, <2>5, <2>6, <3>2, <4>1, <4>2
    <3> QED BY <3>1, <3>2
  <2> QED BY <1>1, <1>2, <2>1, <2>3, <2>6 DEF ProgressInv
<1>4. FindingInv(c) BY DEF FindingInv
<1>5. CheckInv(c) BY <1>2, <1>3, <1>4 DEF Compared
<1> QED BY <1>5, PutKeeps

LEMMA LaterCheckpointKeeps == ASSUME TemporalInv, LaterCheckpoint PROVE TemporalInv'
<1>1. /\ check.pc = "after" /\ AllRead /\ check \in CheckType /\ EvidenceInv(check)
      /\ check.reading \in Snapshot
  BY AllReadIs DEF LaterCheckpoint, TemporalInv, TargetInv, CheckInv
<1>2. (check.stop => check.drift) /\ Len(check.reading) <= Len(Families) BY <1>1 DEF EvidenceInv
<1>b1. check.drift \in BOOLEAN BY <1>1 DEF CheckType
<1>b2. check.stop \in BOOLEAN BY <1>1 DEF CheckType
<1>b3. options.stop \in BOOLEAN BY DEF TemporalInv, TargetInv
<1>3. Len(NoSnapshot) = 0 /\ Len(Families) \in Nat BY FamiliesAssumption DEF NoSnapshot
<1>p1. PICK later : later = Checkpoint(check) OBVIOUS
<1>p2. PICK noted : noted = [later EXCEPT !.drift = TRUE, !.stop = options.stop] OBVIOUS
<1>4. Shows(later, check) BY <1>p1, <1>1, CheckpointIs
<1>5. later \in CheckType BY <1>4 DEF Shows
<1>6. Marked(noted, later, later.pc, TRUE, options.stop) BY <1>p2, <1>5, <1>b3, DriftStopIs
<1>7. noted \in CheckType BY <1>6 DEF Marked
<1>8. CASE Unwritten(check) BY <1>1, <1>2, <1>8, UnwrittenKeeps
<1>9. CASE Unwritten(later)
  <2>e. later.stop = check.stop /\ later.drift = check.drift /\ later.reading = NoSnapshot
    BY <1>4 DEF Shows
  <2>1. later.stop => later.drift BY <1>2, <2>e, Zenon
  <2>2. Len(later.reading) <= Len(Families) BY <1>3, <2>e
  <2> QED BY <1>5, <1>9, <2>1, <2>2, UnwrittenKeeps
<1>10. CASE ~ Drifted(check.reference, check.reading) /\ Put([later EXCEPT !.pc = GoOn(later)])
  <2>p1. PICK pc \in {"call", "close"} : pc = GoOn(later) BY DEF GoOn
  <2>p2. PICK c : c = [later EXCEPT !.pc = pc] OBVIOUS
  <2>p3. PICK drift \in BOOLEAN : drift = check.drift BY <1>b1, Zenon
  <2>p4. PICK stop \in BOOLEAN : stop = check.stop BY <1>b2, Zenon
  <2>1. Marked(c, later, pc, later.drift, later.stop) BY <1>5, <2>p2, PlaceIs
  <2>2. Compared(c, check.reference, drift, stop) /\ c.pc = pc
    BY <2>p3, <2>p4, <1>4, <2>1 DEF Shows, Compared, Marked
  <2>3. drift <=> (check.drift \/ check.reference # check.reading) BY <1>10, <2>p3 DEF Drifted
  <2>4. Put(c) BY <1>10, <2>p1, <2>p2
  <2>5. stop => drift BY <2>p3, <2>p4, <1>2
  <2>6. /\ pc = "call" => check.calls # Retests
        /\ pc = "close" => stop \/ check.calls = Retests
    BY <2>p1, <2>p4, <1>4 DEF GoOn, Shows
  <2> QED BY <1>1, <2>2, <2>3, <2>4, <2>5, <2>6, LaterComparedKeeps
<1>11. CASE Drifted(check.reference, check.reading) /\ Put([noted EXCEPT !.pc = GoOn(noted)])
  <2>p1. PICK pc \in {"call", "close"} : pc = GoOn(noted) BY DEF GoOn
  <2>p2. PICK c : c = [noted EXCEPT !.pc = pc] OBVIOUS
  <2>1. Marked(c, noted, pc, noted.drift, noted.stop) BY <1>7, <2>p2, PlaceIs
  <2>2. Compared(c, check.reference, TRUE, options.stop) /\ c.pc = pc
    BY <1>4, <1>6, <2>1 DEF Shows, Compared, Marked
  <2>3. TRUE <=> (check.drift \/ check.reference # check.reading) BY <1>11 DEF Drifted
  <2>4. Put(c) BY <1>11, <2>p1, <2>p2
  <2>6. /\ pc = "call" => check.calls # Retests
        /\ pc = "close" => options.stop \/ check.calls = Retests
    BY <2>p1, <1>4, <1>6 DEF GoOn, Shows, Marked
  <2> QED BY <1>1, <1>b3, <2>2, <2>3, <2>4, <2>6, LaterComparedKeeps
<1> QED BY <1>p1, <1>p2, <1>8, <1>9, <1>10, <1>11 DEF LaterCheckpoint

LEMMA CloseSessionKeeps == ASSUME TemporalInv, CloseSession PROVE TemporalInv'
<1>1. CheckInv(NextSession(check))
  BY NextSessionKeeps DEF TemporalInv, CheckInv, ProgressInv, CloseSession
<1> QED BY <1>1, PutKeeps DEF CloseSession

LEMMA JudgeDriftKeeps == ASSUME TemporalInv, JudgeDrift PROVE TemporalInv'
<1>1. /\ check.pc = "judge" /\ check \in CheckType /\ EvidenceInv(check)
      /\ ~ check.errors /\ ~ check.drift => check.checkpoints = Sessions * PerSession
  BY DEF JudgeDrift, TemporalInv, CheckInv, ProgressInv
<1>p1. PICK status \in {"error", "failed", "passed"} :
         status = IF check.reference = NoSnapshot THEN "error"
                  ELSE IF check.drift THEN "failed" ELSE IF check.errors THEN "error" ELSE "passed"
  OBVIOUS
<1>p2. PICK severity \in {"high", "medium", "info"} :
         severity = IF check.reference = NoSnapshot \/ check.drift THEN "high"
                    ELSE IF check.errors THEN "medium" ELSE "info"
  OBVIOUS
<1>p3. PICK c : c = [check EXCEPT !.pc = "done", !.finding = status, !.severity = severity] OBVIOUS
<1>2. /\ c \in CheckType /\ c.pc = "done" /\ c.finding = status /\ c.reading = check.reading
      /\ c.reference = check.reference /\ c.drift = check.drift /\ c.errors = check.errors
      /\ c.stop = check.stop /\ c.checkpoints = check.checkpoints /\ c.shown = check.shown
      /\ c.unwritten = check.unwritten
  BY <1>1, <1>p3 DEF CheckType
<1>3. EvidenceInv(c) BY <1>1, <1>2 DEF EvidenceInv
<1>4. ProgressInv(c) BY <1>2 DEF ProgressInv
<1>5. FindingInv(c)
  <2>1. ~ check.unwritten => (status = "failed" <=> check.drift)
    <3>1. ~ check.unwritten /\ check.reference = NoSnapshot => ~ check.drift BY <1>1 DEF EvidenceInv
    <3> QED BY <1>p1, <3>1
  <2>2. status = "passed" => ~ check.errors /\ ~ check.drift BY <1>p1
  <2>3. check.unwritten => check.errors BY <1>1 DEF EvidenceInv
  <2> QED BY <1>1, <1>2, <2>1, <2>2, <2>3 DEF FindingInv
<1>6. CheckInv(c) BY <1>2, <1>3, <1>4, <1>5 DEF CheckInv
<1>7. Put(c) BY <1>p1, <1>p2, <1>p3 DEF JudgeDrift
<1> QED BY <1>6, <1>7, PutKeeps

LEMMA CheckStepKeeps == ASSUME TemporalInv, CheckStep PROVE TemporalInv'
BY BeginCheckKeeps, OpenSessionKeeps, SessionRaisesKeeps, ReadFamilyKeeps, InitialCheckpointKeeps,
   CallDriverKeeps, LaterCheckpointKeeps, CloseSessionKeeps, JudgeDriftKeeps DEF CheckStep

\* The check asks nothing of what the target says now.
LEMMA ChangeMetadataKeeps ==
  ASSUME TemporalInv, NEW i \in DOMAIN Families, ChangeMetadata(i) PROVE TemporalInv'
<1>1. CheckInv(check)' = CheckInv(check)
  BY DEF CheckInv, EvidenceInv, ProgressInv, FindingInv, PerSession, Before, ChangeMetadata
<1>2. TargetInv'
  <2>1. 3 - metadata[i] \in Versions BY DEF TemporalInv, TargetInv, Versions
  <2>p. PICK v \in Versions : v = 3 - metadata[i] BY <2>1
  <2>2. metadata' = [metadata EXCEPT ![i] = v] BY <2>p DEF ChangeMetadata
  <2> QED BY <2>2 DEF ChangeMetadata, TemporalInv, TargetInv
<1> QED BY <1>1, <1>2 DEF TemporalInv

LEMMA TrueByInv == ASSUME TemporalInv PROVE TemporalIsTrue
<1> SUFFICES ASSUME check.pc = "done"
             PROVE  LET differ == \E a, b \in check.shown : a # b
                    IN  /\ ~ check.unwritten => (check.finding = "failed" <=> differ)
                        /\ check.finding = "passed" => check.checkpoints = Checkpoints /\ ~ check.unwritten
  BY DEF TemporalIsTrue
<1>1. EvidenceInv(check) /\ FindingInv(check) BY DEF TemporalInv, CheckInv
<1>2. ~ check.unwritten => (check.drift <=> \E a, b \in check.shown : a # b) BY <1>1 DEF EvidenceInv
<1>3. Checkpoints = Sessions * PerSession BY DEF Checkpoints, PerSession
<1> QED BY <1>1, <1>2, <1>3 DEF FindingInv

LEMMA TemporalStarts == ASSUME TemporalInit PROVE TemporalInv
<1>1. TargetInv BY OptionsAssumption DEF TemporalInit, TargetInv, Versions
<1>2. CheckInv([NoCheck EXCEPT !.pc = "off"]) BY <1>1, NoCheckIs
<1>3. [NoCheck EXCEPT !.pc = "off"] = NoCheck
  <2>1. NoSnapshot \in Snapshot /\ 1 \in 1..Sessions /\ 0 \in 0..Retests
    BY TemporalAssumption DEF NoSnapshot, Snapshot
  <2>2. NoCheck \in CheckType /\ NoCheck.pc = "off" BY <2>1 DEF CheckType, NoCheck
  <2>3. ASSUME NEW c \in CheckType, c.pc = "off" PROVE [c EXCEPT !.pc = "off"] = c
    BY <2>3 DEF CheckType
  <2> QED BY <2>2, <2>3
<1> QED BY <1>1, <1>2, <1>3 DEF TemporalInit, TemporalInv

LEMMA TemporalStutters == ASSUME TemporalInv, UNCHANGED temporal PROVE TemporalInv'
BY DEF TemporalInv, TargetInv, CheckInv, EvidenceInv, ProgressInv, FindingInv, PerSession, Before, temporal

LEMMA TemporalSteps == TemporalInv /\ [TemporalNext]_temporal => TemporalInv'
BY CheckStepKeeps, ChangeMetadataKeeps, TemporalStutters DEF TemporalNext

\* The verdict of the temporal check is that of its evidence, for any families,
\* sessions and retests (TemporalIsTrue; _check_temporal_integrity).
THEOREM TemporalsAreTrue == TemporalSpec => []TemporalIsTrue
BY TemporalStarts, TemporalSteps, TrueByInv, PTL DEF TemporalSpec

-----------------------------------------------------------------------------
\* Within a run the check starts, and ends, as it does alone; the checks that
\* follow leave it alone (_run_with_ownership).
LEMMA RunStarts == ASSUME RunInit PROVE TemporalInv
<1>1. CASE TemporalInit BY <1>1, TemporalStarts
<1>2. CASE /\ options = [rediscover |-> FALSE, stop |-> FALSE]
           /\ metadata = [i \in DOMAIN Families |-> 1]
           /\ check = [NoCheck EXCEPT !.pc = "over"]
  <2>1. TargetInv BY <1>2 DEF TargetInv, Versions
  <2> QED BY <1>2, <2>1, NoCheckIs DEF TemporalInv
<1> QED BY <1>1, <1>2 DEF RunInit

LEMMA EndTemporalKeeps == ASSUME TemporalInv, EndTemporal PROVE TemporalInv'
<1>1. TargetInv' BY DEF TemporalInv, TargetInv, Versions, EndTemporal
<1>2. CheckInv([NoCheck EXCEPT !.pc = "over"]) BY NoCheckIs DEF TemporalInv
<1>3. CheckInv(check)'
  BY <1>2 DEF EndTemporal, CheckInv, EvidenceInv, ProgressInv, FindingInv, PerSession, Before
<1> QED BY <1>1, <1>3 DEF TemporalInv

LEMMA RunSteps == TemporalInv /\ [RunNext]_runVars => TemporalInv'
<1> SUFFICES ASSUME TemporalInv, [RunNext]_runVars PROVE TemporalInv'
  OBVIOUS
<1>1. CASE TemporalStep BY <1>1, CheckStepKeeps DEF TemporalStep
<1>2. CASE EndTemporal BY <1>2, EndTemporalKeeps
<1>3. CASE TargetChanges BY <1>3, ChangeMetadataKeeps DEF TargetChanges
<1>4. CASE UNCHANGED temporal BY <1>4, TemporalStutters
<1> QED BY <1>1, <1>2, <1>3, <1>4 DEF RunNext, runVars

\* The same of the check within a whole run of the guard.
THEOREM RunsJudgeDrift == RunSpec => []TemporalIsTrue
BY RunStarts, RunSteps, TrueByInv, PTL DEF RunSpec

\* A run is one of the engine, to which the temporal check adds nothing but steps
\* of its own before the first check: it refines Engine.
THEOREM RunsAreOfTheEngine == RunSpec => Spec
<1>1. RunInit => Init BY DEF RunInit
<1>2. [RunNext]_runVars => [Next]_vars
  <2>1. TemporalStep => UNCHANGED vars BY DEF TemporalStep
  <2>2. EndTemporal => UNCHANGED vars BY DEF EndTemporal, vars
  <2>3. TargetChanges => UNCHANGED vars BY DEF TargetChanges
  <2>4. UNCHANGED runVars => UNCHANGED vars BY DEF runVars
  <2>5. Discover => Next BY DEF Next
  <2> QED BY <2>1, <2>2, <2>3, <2>4, <2>5 DEF RunNext
<1> QED BY <1>1, <1>2, PTL DEF RunSpec, Spec

\* So a whole run that passes has evidence for everything in the contract, its
\* denials are controlled, its calls covered, its effects reported and blamed on
\* the right calls.
THEOREM RunsAreEvidenced ==
  RunSpec => /\ []PassIsEvidenced /\ []DenialIsControlled
             /\ CallsAreSafe /\ EffectsAreReported /\ BlameIsRight
BY RunsAreOfTheEngine, PassesAreEvidenced, DenialsAreControlled, NoCallWithoutCover,
   NoEffectIsHidden, BlameIsDue, PTL
=============================================================================
