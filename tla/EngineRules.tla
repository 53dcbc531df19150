---------------------------- MODULE EngineRules -----------------------------
(***************************************************************************)
(* How the engine (src/mcp_behaviour_guard/engine.py) judges what it saw:  *)
(* the effect claims of a tool, what the observers cover, to which calls   *)
(* their events belong, the finding of each group of checks, and the       *)
(* assessment of the run.                                                  *)
(*                                                                         *)
(* A tool is [readOnly, permitted, tester, forbidden, allow].  allow[k] is *)
(* "null" if nothing is claimed of kind k, "empty" for the empty list.  An *)
(* event is [op, kind, listed, meta]: the call it belongs to, whether an   *)
(* allowlist has its target, and whether it carries the correlation        *)
(* metadata.  An invocation is [auth, answered, tells]; "tells" says what  *)
(* of interest its response holds.                                         *)
(***************************************************************************)
EXTENDS FiniteSets, Naturals

\* Kinds a read-only tool may not cause, and kinds that have an allowlist.
Mutations ==
  {"filesystem_write", "database_write", "process_execution", "message_dispatch"}
AllowlistKinds ==
  {"network_request", "filesystem_write", "process_execution"}

-----------------------------------------------------------------------------
(***************************************************************************)
(* Effect claims: a denial of a kind outweighs an allowlist for it.        *)
(***************************************************************************)
Denied(tool) ==
  tool.forbidden \cup (IF tool.readOnly THEN Mutations ELSE {})
    \cup {k \in AllowlistKinds : tool.allow[k] = "empty"}
Listed(tool) == {k \in AllowlistKinds : tool.allow[k] = "some"} \ Denied(tool)
Claimed(tool) == Denied(tool) \cup Listed(tool)

Violates(tool, event) ==
  \/ event.kind \in Denied(tool)
  \/ event.kind \in Listed(tool) /\ ~ event.listed

-----------------------------------------------------------------------------
(***************************************************************************)
(* Coverage: which kinds the observers in "healthy" watch completely.      *)
(***************************************************************************)
Coverage(observers, healthy, required) ==
  IF healthy = {} THEN "unavailable"
  ELSE IF required \subseteq UNION {observers[o].complete : o \in healthy} THEN "complete"
  ELSE "partial"

\* After collection: "whole" returned all, "hurt" raised with the events they
\* had or returned events that cannot be attributed.
CollectedCoverage(observers, whole, hurt, required) ==
  LET coverage == Coverage(observers, whole, required)
      glimpsed == UNION {observers[o].observes : o \in hurt}
  IN  IF coverage = "unavailable" /\ required \cap glimpsed # {} THEN "partial" ELSE coverage

\* Mutant: an event without metadata is ignored like a foreign one.
MisattributedNever(observers, returned) == {}

\* Correlated observers that returned an event without valid metadata.
Misattributed(observers, returned) ==
  {o \in DOMAIN observers : observers[o].correlated /\ \E e \in returned[o] : ~ e.meta}

\* Mutant: metadata of any call will do.
AttributedAny(observers, returned, ops) ==
  {pair \in UNION {{o} \X returned[o] : o \in DOMAIN observers} :
     observers[pair[1]].correlated => pair[2].meta}

\* What is left of the events: a correlated one must be of this window's calls.
Attributed(observers, returned, ops) ==
  {pair \in UNION {{o} \X returned[o] : o \in DOMAIN observers} :
     observers[pair[1]].correlated => pair[2].meta /\ pair[2].op \in ops}

Violating(tool, attributed) == {pair \in attributed : Violates(tool, pair[2])}

-----------------------------------------------------------------------------
(***************************************************************************)
(* Findings.                                                               *)
(***************************************************************************)
NotAttempted == [auth |-> "not_applicable", answered |-> FALSE, tells |-> {}]
Allowed(invocation) == invocation.auth = "allow"

\* Mutant: a denial is believed without a positive control.
AuthorizationUncontrolled(invocation, expectedAllowed, control) ==
  CASE invocation.auth = "allow" -> IF expectedAllowed THEN "passed" ELSE "failed"
    [] invocation.auth = "deny"  -> IF expectedAllowed THEN "failed" ELSE "passed"
    [] OTHER -> "error"

\* A denial proves nothing unless the tool was seen to work for somebody.
Authorization(invocation, expectedAllowed, control) ==
  CASE invocation.auth = "allow" -> IF expectedAllowed THEN "passed" ELSE "failed"
    [] invocation.auth = "deny"  -> IF expectedAllowed THEN "failed"
                                    ELSE IF control THEN "passed" ELSE "error"
    [] OTHER -> "error"

Downgraded(status, observation) ==
  IF observation \notin {"not_required", "complete"} /\ status # "failed" THEN "error" ELSE status

\* The worst of several assertions.
Worst(outcomes) ==
  IF "failed" \in outcomes THEN "failed" ELSE IF "error" \in outcomes THEN "error" ELSE "passed"

Ownership(invocation) ==
  IF ~ Allowed(invocation) THEN "error"
  ELSE IF "foreign" \in invocation.tells THEN "failed"
  ELSE IF "own" \in invocation.tells THEN "passed" ELSE "error"
Confidentiality(invocation) ==
  IF "secret" \in invocation.tells THEN "failed" ELSE IF invocation.answered THEN "passed" ELSE "error"

\* probe: the assertions out of "denied", "owner", "secret", "path".
Tenant(probe, invocation, control) ==
  Worst((IF "denied" \in probe THEN {Authorization(invocation, FALSE, control)}
         ELSE IF "owner" \in probe THEN {Ownership(invocation)} ELSE {})
    \cup (IF "secret" \in probe THEN {Confidentiality(invocation)} ELSE {})
    \cup (IF "denied" \notin probe /\ ~ Allowed(invocation) THEN {"error"} ELSE {}))

Policy(probe, invocation, control) ==
  IF \/ "denied" \in probe /\ Allowed(invocation)
     \/ "secret" \in probe /\ "secret" \in invocation.tells
     \/ "path" \in probe /\ Allowed(invocation) /\ "outside" \in invocation.tells
    THEN "failed"
  ELSE IF "denied" \in probe
    THEN IF invocation.auth = "deny" /\ control THEN "passed" ELSE "error"
  ELSE IF Allowed(invocation) THEN "passed" ELSE "error"

\* The writer's marker in the reader's response is a leak whatever else failed.
Session(write, read) ==
  IF "marker" \in read.tells THEN "failed"
  ELSE IF Allowed(write) /\ Allowed(read) THEN "passed" ELSE "error"

Behaviour(tool, invocation, attributed, observation) ==
  IF Violating(tool, attributed) # {} THEN "failed"
  ELSE IF Allowed(invocation) /\ observation = "complete" THEN "passed" ELSE "error"

\* Each report of an event by an observer counts; all are of the replay's event tool.
Replay(replay, invocations, attributed, observation) ==
  LET matching == Cardinality({pair \in attributed : pair[2].kind = replay.kind})
  IN  IF matching > replay.max THEN "failed"
      ELSE IF /\ \E invocation \in invocations : Allowed(invocation)
              /\ matching >= replay.min /\ observation = "complete"
        THEN "passed" ELSE "error"

\* RunSummary.assessment
Assessment(statuses) ==
  IF "failed" \in statuses THEN "fail"
  ELSE IF "error" \in statuses THEN "inconclusive"
  ELSE IF "skipped" \in statuses \/ "passed" \notin statuses THEN "not_tested" ELSE "pass"
=============================================================================
