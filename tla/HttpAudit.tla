----------------------------- MODULE HttpAudit ------------------------------
(***************************************************************************)
(* The HTTP audit observer (src/mcp_behaviour_guard/observers/             *)
(* http_audit.py): the target serves its event list, begin() either resets *)
(* it or, correlated by mcp_meta, remembers it as the baseline, and        *)
(* collect() takes what later snapshots append to that.  With a settle     *)
(* timeout it polls until nothing new has come for a while or the deadline *)
(* has passed.                                                             *)
(*                                                                         *)
(* A request, the moment the target takes the snapshot for it, and the     *)
(* arrival of the answer are steps of their own; the answer may fail or    *)
(* come too late.  The target appends events at any time; a fault rewrites *)
(* or shortens its list.                                                   *)
(***************************************************************************)
EXTENDS LogAudit, SequencesExt

VARIABLES
  stream,    \* the event list of the target
  target,    \* [next event, events appended since begin, faults]
  snapshots  \* those that begin and the collection received, in order

httpVars == <<spec, stream, target, now, obs, snapshots>>

-----------------------------------------------------------------------------
Altered == MaxEvents + 1

\* The events up to the first entry that is none, and whether there is one.
ParsedEntries(raw) ==
  LET bad == {i \in DOMAIN raw : raw[i] = Bad}
      n   == IF bad = {} THEN Len(raw) ELSE CHOOSE k \in 0 .. Len(raw) : k + 1 \in bad /\ \A i \in bad : k < i
  IN  [events |-> SubSeq(raw, 1, n), bad |-> bad # {}]

Suffix(raw, previous) == SubSeq(raw, Len(previous) + 1, Len(raw))

NoHttpObserver ==
  [pc |-> "idle", previous |-> <<>>, events |-> <<>>, answer |-> <<>>, served |-> 0, seen |-> 0,
   completed |-> FALSE, deadline |-> 0, quietSince |-> 0, wake |-> 0, outcome |-> "none"]

HttpInit ==
  /\ spec \in [settle : BOOLEAN, correlated : BOOLEAN]
  /\ stream \in {<<>>, <<1>>, <<Bad>>, <<1, Bad>>}
  /\ target = [next |-> 2, appended |-> <<>>, faults |-> 0]
  /\ now = 0
  /\ obs = NoHttpObserver
  /\ snapshots = <<>>

-----------------------------------------------------------------------------
(***************************************************************************)
(* begin(): a baseline without touching the target, or a reset of it.      *)
(***************************************************************************)
BeginBaseline ==
  /\ obs.pc = "idle" /\ spec.correlated
  /\ obs' = [obs EXCEPT !.pc = "begun", !.previous = stream]
  /\ snapshots' = <<stream>>
  /\ UNCHANGED <<spec, stream, target, now>>

BeginReset ==
  /\ obs.pc = "idle" /\ ~ spec.correlated
  /\ stream' = <<>>
  /\ obs' = [obs EXCEPT !.pc = "begun"]
  /\ snapshots' = <<stream'>>
  /\ UNCHANGED <<spec, target, now>>

\* The first request is sent before anything else can run.
StartHttp ==
  /\ obs.pc = "begun"
  /\ obs' = [obs EXCEPT !.pc = "asked", !.deadline = now + SettleTimeout, !.quietSince = now]
  /\ UNCHANGED <<spec, stream, target, now, snapshots>>

(***************************************************************************)
(* One round of the collection.                                            *)
(***************************************************************************)
Expired == spec.settle /\ now >= obs.deadline

Ask ==
  /\ obs.pc = "loop"
  /\ IF Expired THEN Return(obs) ELSE obs' = [obs EXCEPT !.pc = "asked"]
  /\ UNCHANGED <<spec, stream, target, now, snapshots>>

\* The target answers with its list as it is now.
Serve ==
  /\ obs.pc = "asked"
  /\ obs' = [obs EXCEPT !.pc = "served", !.answer = stream, !.served = Len(target.appended)]
  /\ UNCHANGED <<spec, stream, target, now, snapshots>>

\* Transport failure, error status, or a payload that is no list.
Fail ==
  /\ obs.pc \in {"asked", "served"}
  /\ Raise(obs)
  /\ UNCHANGED <<spec, stream, target, now, snapshots>>

\* Mutant: without a first snapshot the request is waited for.
TimeoutPatient ==
  /\ obs.pc \in {"asked", "served"} /\ Expired /\ obs.completed
  /\ IF obs.completed THEN Return(obs) ELSE Raise(obs)
  /\ UNCHANGED <<spec, stream, target, now, snapshots>>

\* asyncio.wait_for gives up at the deadline.
TimeoutHttp ==
  /\ obs.pc \in {"asked", "served"} /\ Expired
  /\ IF obs.completed THEN Return(obs) ELSE Raise(obs)
  /\ UNCHANGED <<spec, stream, target, now, snapshots>>

\* A poll accepted without fault: stop if quiet or late, else sleep.
SettleHttp(o) ==
  IF ~ spec.settle \/ now >= o.deadline \/ now - o.quietSince >= QuietPeriod
    THEN Return(o)
    ELSE obs' = [o EXCEPT !.pc = "sleep", !.wake = now + 1]

\* Mutant: only the length of the prefix is compared.
ReceiveByLength ==
  /\ obs.pc = "served"
  /\ snapshots' = Append(snapshots, obs.answer)
  /\ LET new    == Suffix(obs.answer, obs.previous)
         parsed == ParsedEntries(new)
         o      == [obs EXCEPT !.completed = TRUE, !.seen = obs.served]
         read   == [o EXCEPT !.events = @ \o parsed.events]
         fresh  == ~ obs.completed \/ new # <<>>
     IN  IF Len(obs.answer) < Len(obs.previous) THEN Raise(o)
         ELSE IF parsed.bad THEN Raise(read)
         ELSE SettleHttp([read EXCEPT !.previous = obs.answer,
                                  !.quietSince = IF fresh THEN now ELSE @])
  /\ UNCHANGED <<spec, stream, target, now>>

\* The answer arrives: it must extend what was seen, and its new entries must
\* be events.
Receive ==
  /\ obs.pc = "served"
  /\ snapshots' = Append(snapshots, obs.answer)
  /\ LET new    == Suffix(obs.answer, obs.previous)
         parsed == ParsedEntries(new)
         o      == [obs EXCEPT !.completed = TRUE, !.seen = obs.served]
         read   == [o EXCEPT !.events = @ \o parsed.events]
         fresh  == ~ obs.completed \/ new # <<>>
     IN  IF ~ IsPrefix(obs.previous, obs.answer) THEN Raise(o)
         ELSE IF parsed.bad THEN Raise(read)
         ELSE SettleHttp([read EXCEPT !.previous = obs.answer,
                                  !.quietSince = IF fresh THEN now ELSE @])
  /\ UNCHANGED <<spec, stream, target, now>>

WakeHttp ==
  /\ obs.pc = "sleep" /\ now >= obs.wake
  /\ obs' = [obs EXCEPT !.pc = "loop"]
  /\ UNCHANGED <<spec, stream, target, now, snapshots>>

(***************************************************************************)
(* The target, its faults, and the clock.                                  *)
(***************************************************************************)
AppendEvent ==
  /\ Observing /\ target.next <= MaxEvents
  /\ \E e \in {target.next, Bad} :
       /\ stream' = Append(stream, e)
       /\ target' = [target EXCEPT !.next = @ + 1, !.appended = Append(@, e)]
  /\ UNCHANGED <<spec, now, obs, snapshots>>

Alter(newStream) ==
  /\ Observing /\ target.faults < MaxFaults
  /\ stream' = newStream
  /\ target' = [target EXCEPT !.faults = @ + 1]
  /\ UNCHANGED <<spec, now, obs, snapshots>>

Shorten == \E n \in 0 .. (Len(stream) - 1) : Alter(SubSeq(stream, 1, n))
RewriteEntry == \E i \in DOMAIN stream : Alter([stream EXCEPT ![i] = Altered])

\* Only a settling collection looks at the clock.
TickHttp ==
  /\ spec.settle /\ obs.pc \in {"loop", "asked", "served", "sleep"}
  /\ now < MaxTime
  /\ now' = now + 1
  /\ UNCHANGED <<spec, stream, target, obs, snapshots>>

-----------------------------------------------------------------------------
ObserveHttp == BeginBaseline \/ BeginReset \/ StartHttp \/ Ask \/ Receive \/ TimeoutHttp \/ WakeHttp
HttpEnvironment == Serve \/ Fail \/ AppendEvent \/ Shorten \/ RewriteEntry
HttpNext == ObserveHttp \/ HttpEnvironment \/ TickHttp

HttpSpec == HttpInit /\ [][HttpNext]_httpVars

\* The event loop runs the observer and the clock goes on; the target need
\* never answer.
FairHttpSpec == HttpSpec /\ WF_httpVars(ObserveHttp) /\ WF_httpVars(TickHttp)

-----------------------------------------------------------------------------
\* A collection that returns has looked at least once, and every snapshot it
\* took preserved its baseline and each one before.  What it returns is what the
\* last snapshot holds beyond the baseline, each position once; and when the
\* target only appends, that is every event since begin() up to the moment the
\* target took that snapshot.
HttpResultIsWhole ==
  obs.outcome = "ok" =>
    /\ Len(snapshots) > 1
    /\ \A i, j \in DOMAIN snapshots : i < j => IsPrefix(snapshots[i], snapshots[j])
    /\ obs.events = Suffix(Last(snapshots), snapshots[1])
    /\ target.faults = 0 => obs.events = SubSeq(target.appended, 1, obs.seen)

\* A settled collection ends, whether or not the target ever answers and
\* however long it goes on appending.
HttpCollectionEnds == (spec.settle /\ obs.pc = "asked") ~> obs.pc = "done"
=============================================================================
