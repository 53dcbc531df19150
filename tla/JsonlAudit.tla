----------------------------- MODULE JsonlAudit -----------------------------
(***************************************************************************)
(* The JSONL audit observer (src/mcp_behaviour_guard/observers/            *)
(* jsonl_audit.py): begin() remembers where the audit file ends, collect() *)
(* returns what was appended since.  With a settle timeout it polls until  *)
(* the file has been quiet for a while or the deadline has passed.         *)
(*                                                                         *)
(* Each stat and each open-and-read of the collector is a step of its own. *)
(* Between any two of them the writer appends, a whole event or half of    *)
(* one, and a fault may happen to the file: it is truncated or changed in  *)
(* place, replaced by a new file, or deleted.                              *)
(*                                                                         *)
(* A file is a sequence of cells, three for every event: <<e, 1>> and      *)
(* <<e, 2>> are the two halves of its JSON text and <<e, 3>> is the        *)
(* newline.                                                                *)
(***************************************************************************)
EXTENDS LogAudit, FiniteSetsExt

VARIABLES
  file,       \* the audit file: [inode, data]; inode 0 if there is none
  inodes,     \* files there have been under that path
  writer,     \* [next event, cells written of the last, events written since begin]
  faults,     \* faults since begin, in order
  due         \* events written when the collection looked for the last time

vars == <<spec, file, inodes, now, obs, writer, faults, due>>

-----------------------------------------------------------------------------
Text == 2        \* the cell that completes the text of an event
Newline == 3
Line(e) == [k \in 1 .. Newline |-> <<e, k>>]
Absent == [inode |-> 0, data |-> <<>>]
Exists == file.inode # 0
Size == Len(file.data)
Upto(n) == IF n <= Size THEN n ELSE Size

\* The bytes read from a position on, and at most n of them.
Rest(from) == SubSeq(file.data, from + 1, Size)
Slice(from, n) == SubSeq(file.data, from + 1, Upto(from + n))

\* The payload up to and with its last newline.
Complete(payload) ==
  SubSeq(payload, 1, Max({0} \cup {i \in DOMAIN payload : payload[i][2] = Newline}))

Starts(payload) ==
  {i \in DOMAIN payload : i = 1 \/ payload[i - 1][2] = Newline}
LineAt(payload, i) ==
  SubSeq(payload, i, Min({Len(payload)} \cup {j \in DOMAIN payload : j >= i /\ payload[j][2] = Newline}))

\* Blank lines are skipped; the last event may lack its newline.
IsEvent(line) ==
  /\ line[1][1] # Bad /\ Len(line) \in Text .. Newline
  /\ line = SubSeq(Line(line[1][1]), 1, Len(line))
IsBlank(line) == Len(line) = 1 /\ line[1][2] = Newline

IsGood(line) == IsEvent(line) \/ IsBlank(line)

\* What the texts of a payload say, in order: of its first n cells, and of all.
Told(payload) ==
  LET told[n \in 0 .. Len(payload)] ==
        IF n = 0 THEN <<>>
        ELSE IF payload[n][2] = Text THEN Append(told[n - 1], payload[n][1]) ELSE told[n - 1]
  IN  told
EventsOf(payload) == Told(payload)[Len(payload)]

\* The events up to the first line that is none, and whether there is one.
Parsed(payload) ==
  LET wrong == {i \in Starts(payload) : ~ IsGood(LineAt(payload, i))}
      good  == SubSeq(payload, 1, Min({Len(payload)} \cup {i - 1 : i \in wrong}))
  IN  [events |-> EventsOf(good), bad |-> wrong # {}]

NoObserver ==
  [pc |-> "idle", offset |-> 0, source |-> 0, cursor |-> 0, lastSize |-> 0,
   changed |-> FALSE, deadline |-> 0, quietSince |-> 0, wake |-> 0,
   prefix |-> <<>>, events |-> <<>>, outcome |-> "none"]

Init ==
  /\ spec \in [settle : BOOLEAN, truncate : BOOLEAN]
  /\ \/ file = Absent
     \/ \E n \in {0, 1, Text, Newline} : file = [inode |-> 1, data |-> SubSeq(Line(1), 1, n)]
  /\ writer = [next |-> IF Size = 0 THEN 1 ELSE 2,
               written |-> IF Size = Newline THEN 0 ELSE Size, completed |-> <<>>]
  /\ inodes = file.inode
  /\ now = 0
  /\ obs = NoObserver
  /\ faults = <<>>
  /\ due = <<>>

-----------------------------------------------------------------------------
(***************************************************************************)
(* begin(), then the tool call, then collect().                            *)
(***************************************************************************)
Create(data) == [inode |-> inodes + 1, data |-> data]
SamePath(newFile) ==
  /\ file' = newFile
  /\ inodes' = IF newFile.inode > inodes THEN newFile.inode ELSE inodes

Begin ==
  /\ obs.pc = "idle"
  /\ SamePath(IF ~ spec.truncate THEN file
              ELSE IF Exists THEN [file EXCEPT !.data = <<>>] ELSE Create(<<>>))
  /\ obs' = [NoObserver EXCEPT !.pc = "begun", !.offset = Len(file'.data), !.source = file'.inode]
  /\ UNCHANGED <<spec, now, writer, faults, due>>

StartCollect ==
  /\ obs.pc = "begun"
  /\ obs' = [obs EXCEPT !.pc = IF spec.settle THEN "stat" ELSE "once",
                        !.cursor = obs.offset, !.lastSize = obs.offset,
                        !.deadline = now + SettleTimeout, !.quietSince = now]
  /\ UNCHANGED <<spec, file, inodes, now, writer, faults, due>>

\* The file is not the one it was, or is shorter than what was read of it.
Broken(size) ==
  file.inode # obs.source \/ Size < size

\* Mutant: the deadline does not count while there is no file.
PollStatPatient ==
  /\ obs.pc = "stat"
  /\ \/ /\ ~ Exists
        /\ IF obs.source # 0
             THEN Raise(obs)
             ELSE obs' = [obs EXCEPT !.pc = "sleep", !.wake = now + 1]
     \/ /\ Exists
        /\ obs.source # 0 /\ Broken(obs.cursor)
        /\ Raise(obs)
     \/ /\ Exists
        /\ obs.source # 0 => ~ Broken(obs.cursor)
        /\ LET changed == Size # obs.lastSize
           IN  obs' = [obs EXCEPT !.pc = "read", !.source = file.inode, !.changed = changed,
                                  !.lastSize = Size,
                                  !.quietSince = IF changed \/ obs.source = 0 THEN now ELSE @]
  /\ UNCHANGED <<spec, file, inodes, now, writer, faults, due>>
\* path.stat() at the top of the polling loop.
PollStat ==
  /\ obs.pc = "stat"
  /\ \/ /\ ~ Exists
        /\ IF obs.source # 0 \/ now >= obs.deadline
             THEN Raise(obs)
             ELSE obs' = [obs EXCEPT !.pc = "sleep", !.wake = now + 1]
     \/ /\ Exists
        /\ obs.source # 0 /\ Broken(obs.cursor)
        /\ Raise(obs)
     \/ /\ Exists
        /\ obs.source # 0 => ~ Broken(obs.cursor)
        /\ LET changed == Size # obs.lastSize
           IN  obs' = [obs EXCEPT !.pc = "read", !.source = file.inode, !.changed = changed,
                                  !.lastSize = Size,
                                  !.quietSince = IF changed \/ obs.source = 0 THEN now ELSE @]
  /\ UNCHANGED <<spec, file, inodes, now, writer, faults, due>>

PrefixIntact == Slice(obs.offset, Len(obs.prefix)) = obs.prefix

\* _read_complete_records: open, check identity and prefix, read whole lines.
ReadRecords ==
  /\ obs.pc = "read"
  /\ IF file.inode # obs.source \/ (obs.changed /\ ~ PrefixIntact)
       THEN Raise(obs)
       ELSE \E complete \in {Complete(Rest(obs.cursor))} : \E parsed \in {Parsed(complete)} :
            LET read == [obs EXCEPT !.events = @ \o parsed.events]
            IN  IF parsed.bad THEN Raise(read)
                ELSE obs' = [read EXCEPT !.pc = "decide", !.cursor = @ + Len(complete),
                                         !.prefix = @ \o complete]
  /\ UNCHANGED <<spec, file, inodes, now, writer, faults, due>>

Decide ==
  /\ obs.pc = "decide"
  /\ obs' = IF now >= obs.deadline \/ now - obs.quietSince >= QuietPeriod
              THEN [obs EXCEPT !.pc = "final"]
              ELSE [obs EXCEPT !.pc = "sleep", !.wake = now + 1]
  /\ UNCHANGED <<spec, file, inodes, now, writer, faults, due>>

Wake ==
  /\ obs.pc = "sleep" /\ now >= obs.wake
  /\ obs' = [obs EXCEPT !.pc = "stat"]
  /\ UNCHANGED <<spec, file, inodes, now, writer, faults, due>>

\* Mutant: what was appended since the last read is left there.
FinalStatUnread ==
  /\ obs.pc = "final"
  /\ due' = writer.completed
  /\ IF Broken(obs.cursor)
       THEN Raise(obs)
       ELSE obs' = [obs EXCEPT !.pc = "verify"]
  /\ UNCHANGED <<spec, file, inodes, now, writer, faults>>

\* The second stat, at the settling boundary: nothing unread may remain.
FinalStat ==
  /\ obs.pc = "final"
  /\ due' = writer.completed
  /\ IF Broken(obs.cursor) \/ Size > obs.cursor
       THEN Raise(obs)
       ELSE obs' = [obs EXCEPT !.pc = "verify"]
  /\ UNCHANGED <<spec, file, inodes, now, writer, faults>>

\* Mutant: only the identity of the file is checked again.
VerifyIdentity ==
  /\ obs.pc = "verify"
  /\ IF obs.prefix # <<>> /\ (file.inode # obs.source)
       THEN Raise(obs) ELSE Return(obs)
  /\ UNCHANGED <<spec, file, inodes, now, writer, faults, due>>
\* _verify_consumed_prefix
Verify ==
  /\ obs.pc = "verify"
  /\ IF obs.prefix # <<>> /\ (file.inode # obs.source \/ ~ PrefixIntact)
       THEN Raise(obs) ELSE Return(obs)
  /\ UNCHANGED <<spec, file, inodes, now, writer, faults, due>>

(***************************************************************************)
(* _collect_once: one stat, one read; the last line may lack its newline.  *)
(***************************************************************************)
BrokenOnce == (obs.source # 0 /\ file.inode # obs.source) \/ Size < obs.offset

OnceStat ==
  /\ obs.pc = "once"
  /\ IF ~ Exists \/ BrokenOnce THEN Raise(obs) ELSE obs' = [obs EXCEPT !.pc = "readonce"]
  /\ UNCHANGED <<spec, file, inodes, now, writer, faults, due>>

OnceRead ==
  /\ obs.pc = "readonce"
  /\ due' = writer.completed
  /\ IF ~ Exists \/ BrokenOnce
       THEN Raise(obs)
       ELSE \E parsed \in {Parsed(Rest(obs.offset))} :
            LET read == [obs EXCEPT !.events = parsed.events]
            IN  IF parsed.bad THEN Raise(read) ELSE Return(read)
  /\ UNCHANGED <<spec, file, inodes, now, writer, faults>>

(***************************************************************************)
(* The writer appends to whatever file the path names, and creates it.     *)
(***************************************************************************)
Extended(cells) == IF Exists THEN [file EXCEPT !.data = @ \o cells] ELSE Create(cells)

\* Cells from .. to of the event; the event is there once its text is.
Write(e, from, to) ==
  /\ Observing
  /\ SamePath(Extended(SubSeq(Line(e), from, to)))
  /\ writer' = [next |-> e + 1, written |-> to % Newline,
                completed |-> IF Text \in from .. to THEN Append(writer.completed, e)
                              ELSE writer.completed]
  /\ UNCHANGED <<spec, now, obs, faults, due>>

WriteEvent == /\ writer.written = 0 /\ writer.next <= MaxEvents
              /\ \E to \in 1 .. Newline : Write(writer.next, 1, to)

WriteRest == /\ writer.written # 0
             /\ \E to \in (writer.written + 1) .. Newline : Write(writer.next - 1, writer.written + 1, to)

(***************************************************************************)
(* Faults.  A fault is remembered with whether the observer already knew   *)
(* which file it observes.                                                 *)
(***************************************************************************)
Fault(kind, newFile) ==
  /\ Observing /\ Len(faults) < MaxFaults
  /\ SamePath(newFile)
  /\ faults' = Append(faults, [kind |-> kind, known |-> obs.source # 0, pc |-> obs.pc])
  /\ UNCHANGED <<spec, now, obs, writer, due>>

Truncate == /\ Exists
            /\ \E n \in 0 .. (Size - 1) :
                 Fault("truncated", [file EXCEPT !.data = SubSeq(@, 1, n)])

Rewrite == /\ Exists
           /\ \E i \in 1 .. Size, e \in {Bad, MaxEvents + 1} :
                LET old == file.data[i][1]
                IN  Fault("rewritten", [file EXCEPT !.data =
                      [j \in DOMAIN @ |-> IF @[j][1] = old THEN <<e, @[j][2]>> ELSE @[j]]])

Replace == /\ Exists
           /\ \E data \in {<<>>, file.data} :
                Fault("replaced", Create(data))

Delete == Exists /\ Fault("deleted", Absent)

Garbage == /\ writer.written = 0
           /\ Fault("garbage", Extended(Line(Bad)))

\* Only a settling collection looks at the clock.
Tick ==
  /\ obs.pc \in {"stat", "read", "decide", "sleep", "final", "verify"}
  /\ now < MaxTime
  /\ now' = now + 1
  /\ UNCHANGED <<spec, file, inodes, obs, writer, faults, due>>

-----------------------------------------------------------------------------
Collect ==
  \/ Begin \/ StartCollect
  \/ PollStat \/ ReadRecords \/ Decide \/ Wake \/ FinalStat \/ Verify
  \/ OnceStat \/ OnceRead

Environment ==
  \/ WriteEvent \/ WriteRest
  \/ Truncate \/ Rewrite \/ Replace \/ Delete \/ Garbage

Next == Collect \/ Environment \/ Tick

Spec == Init /\ [][Next]_vars

\* The loop runs the collection and the clock goes on; the writer need not.
FairSpec == Spec /\ WF_vars(Collect) /\ WF_vars(Tick)

-----------------------------------------------------------------------------
Seen(kinds) == \E i \in DOMAIN faults : faults[i].kind \in kinds

\* A collection that returns omits nothing: its events are all those written
\* since begin(), in order - unless the file was changed in place, or had been
\* exchanged before the observer ever saw it.
ReturnedIsWhole ==
  obs.outcome = "ok" /\ ~ Seen({"truncated", "rewritten"})
    /\ (\A i \in DOMAIN faults : faults[i].known) =>
      obs.events = due

\* No collection returns once the file it observes was replaced or deleted
\* before the last look at it, whatever else happened to it.
ReplacementIsNoticed ==
  obs.outcome = "ok" =>
    \A i \in DOMAIN faults :
      faults[i].known /\ faults[i].kind \in {"replaced", "deleted"} =>
        faults[i].pc = "verify"

\* Nor once a line that is no event was appended to it and left there.
GarbageIsNoticed ==
  obs.outcome = "ok" /\ ~ Seen({"truncated", "rewritten", "replaced", "deleted"}) =>
    \A i \in DOMAIN faults : faults[i].pc = "verify"

\* A collection that returns is complete, and a fault before the last look at
\* the file degrades the window.
CollectionIsTrue == ReturnedIsWhole /\ ReplacementIsNoticed /\ GarbageIsNoticed

\* What a settled collection returns was in the file when it was checked last,
\* however the file was changed in place: nothing returned had been taken back.
\* And nothing confirmed is lost by what is found later: once read, an event
\* stays in the result or in the exception, in its place.
Consumed == Slice(obs.offset, Len(obs.prefix))
EvidenceIsKept ==
  [][/\ Len(obs'.events) >= Len(obs.events)
     /\ SubSeq(obs'.events, 1, Len(obs.events)) = obs.events
     /\ obs.pc = "verify" /\ obs'.outcome = "ok" /\ obs.events # <<>> =>
          /\ file.inode = obs.source
          /\ Consumed = obs.prefix
          /\ Parsed(Consumed) = [events |-> obs.events, bad |-> FALSE]]_vars

\* A collection ends, however long the writer goes on and whether or not the
\* file ever appears.
CollectionEnds == obs.pc = "stat" ~> obs.pc = "done"
=============================================================================
