----------------------------- MODULE Ownership -----------------------------
(***************************************************************************)
(* Observer ownership (src/mcp_behaviour_guard/observers/ownership.py):    *)
(* runs of the guard that share a target or an observer take turns.  A run *)
(* is an asyncio task; a process has one or more event loops, each with    *)
(* its own asyncio.Lock for every key, and all processes of a user share a *)
(* lock file for every key.                                                *)
(*                                                                         *)
(* A window first takes the local locks of all the keys its context does   *)
(* not hold yet, then their lock files, both in sorted order.  A run may   *)
(* be cancelled, or fail, at any await, and a process may be killed.  The  *)
(* kernel drops the lock files of a killed process.                        *)
(*                                                                         *)
(* Locks are taken and dropped one at a time here; a loop that finds       *)
(* several free takes them without suspending, so the model has every      *)
(* interleaving of the code and some more.                                 *)
(***************************************************************************)
EXTENDS Naturals, Sequences

CONSTANTS
  Tasks,        \* runs of the guard: engine.run or capture_baseline
  Loops,        \* event loops
  Processes,    \* processes of one user on one host
  LoopOf,       \* the loop each run is scheduled on
  ProcessOf,    \* the process each loop belongs to
  KeyCount,     \* ownership keys, numbered in the order of their names
  Contracts,    \* [target : key of the server, observers : keys of observers]
  MaxDepth,     \* bound: how deep windows nest
  NoTask        \* nobody

Keys == 1 .. KeyCount

ASSUME TasksAssumption == NoTask \notin Tasks
ASSUME PlacesAssumption == LoopOf \in [Tasks -> Loops] /\ ProcessOf \in [Loops -> Processes]
ASSUME KeysAssumption == KeyCount \in Nat
ASSUME ContractsAssumption == Contracts \subseteq [target : Keys, observers : SUBSET Keys]
ASSUME DepthAssumption == MaxDepth \in Nat \ {0}

VARIABLES
  contract,     \* the contract of each run
  depth,        \* how many windows of a run are nested
  frames,       \* the observer_ownership call of each depth
  held,         \* _held_keys in the context of each run
  locked,       \* the task that has an asyncio.Lock, by loop and key
  waiters,      \* the tasks that await it, in order
  flock,        \* the task that has the lock file of a key
  over          \* runs that have ended, and how

vars == <<contract, depth, frames, held, locked, waiters, flock, over>>

-----------------------------------------------------------------------------
\* local and fds are the locks of `missing' the call has, saved its token.
Call(phase, missing, saved) ==
  [phase |-> phase, missing |-> missing, local |-> {}, fds |-> {}, saved |-> saved]
NoFrame == Call("none", {}, {})

Top(t) == frames[t][depth[t]]
At(t, phase) == depth[t] > 0 /\ Top(t).phase = phase
SetTop(t, frame) == frames' = [frames EXCEPT ![t][depth[t]] = frame]

First(keys) == CHOOSE k \in keys : \A j \in keys : k <= j
Last(keys)  == CHOOSE k \in keys : \A j \in keys : j <= k

Loop(t) == LoopOf[t]
Waiting(t) == \E k \in Keys : \E i \in DOMAIN waiters[Loop(t)][k] : waiters[Loop(t)][k][i] = t

\* The run's own window covers its target and observers; the windows within
\* it are about its observers.
Wanted(t) == {contract[t].target} \cup contract[t].observers
Requested(t) == IF depth[t] = 0 THEN Wanted(t) ELSE contract[t].observers

-----------------------------------------------------------------------------
Init ==
  /\ contract \in [Tasks -> Contracts]
  /\ depth    = [t \in Tasks |-> 0]
  /\ frames   = [t \in Tasks |-> [d \in 1 .. MaxDepth |-> NoFrame]]
  /\ held     = [t \in Tasks |-> {}]
  /\ locked   = [l \in Loops |-> [k \in Keys |-> NoTask]]
  /\ waiters  = [l \in Loops |-> [k \in Keys |-> <<>>]]
  /\ flock    = [k \in Keys |-> NoTask]
  /\ over     = [t \in Tasks |-> "no"]

\* The keys a call has to take: what its context holds needs no lock.
Missing(t) == Requested(t) \ held[t]

\* async with observer_ownership(...).  Without missing keys it opens at once.
EnterWindow(t) ==
  /\ over[t] = "no"
  /\ depth[t] = 0 \/ At(t, "open")
  /\ depth[t] < MaxDepth
  /\ depth'  = [depth EXCEPT ![t] = @ + 1]
  /\ frames' = [frames EXCEPT ![t][depth[t] + 1] =
                  Call(IF Missing(t) = {} THEN "open" ELSE "acquiring", Missing(t), held[t])]
  /\ UNCHANGED <<contract, held, locked, waiters, flock, over>>

\* Mutant: the target is locked before the observers, whatever their order.
NextLocalTargetFirst(t) ==
  LET rest == Top(t).missing \ Top(t).local
  IN  IF contract[t].target \in rest THEN contract[t].target ELSE First(rest)

\* The key whose local lock, or else whose lock file, comes next.
NextLocal(t) == First(Top(t).missing \ Top(t).local)
NextFile(t)  == First(Top(t).missing \ Top(t).fds)

\* lock.acquire(): at once if it is free and nobody waits, else in turn.
AcquireLocal(t) ==
  /\ At(t, "acquiring")
  /\ ~ Top(t).missing \subseteq Top(t).local
  /\ LET k == NextLocal(t)
         queue == waiters[Loop(t)][k]
     IN  \/ /\ locked[Loop(t)][k] = NoTask
            /\ queue # <<>> => Head(queue) = t
            /\ locked'  = [locked EXCEPT ![Loop(t)][k] = t]
            /\ waiters' = [waiters EXCEPT ![Loop(t)][k] = IF queue = <<>> THEN @ ELSE Tail(@)]
            /\ SetTop(t, [Top(t) EXCEPT !.local = @ \cup {k}])
         \/ /\ locked[Loop(t)][k] # NoTask \/ queue # <<>>
            /\ ~ Waiting(t)
            /\ waiters' = [waiters EXCEPT ![Loop(t)][k] = Append(@, t)]
            /\ UNCHANGED <<locked, frames>>
  /\ UNCHANGED <<contract, depth, held, flock, over>>

\* A successful poll of _acquire_os_lock; one that finds the file locked
\* sleeps and changes nothing.  The last file opens the window.
AcquireFile(t) ==
  /\ At(t, "acquiring")
  /\ Top(t).missing \subseteq Top(t).local
  /\ ~ Top(t).missing \subseteq Top(t).fds
  /\ LET k == NextFile(t)
         last == Top(t).missing = Top(t).fds \cup {k}
     IN  /\ flock[k] = NoTask
         /\ flock' = [flock EXCEPT ![k] = t]
         /\ SetTop(t, [Top(t) EXCEPT !.fds = @ \cup {k},
                                     !.phase = IF last THEN "open" ELSE @])
         /\ held' = [held EXCEPT ![t] = IF last THEN @ \cup Top(t).missing ELSE @]
  /\ UNCHANGED <<contract, depth, locked, waiters, over>>

\* Mutant: the token is not reset.
LeaveWindowHolding(t) ==
  /\ At(t, "open")
  /\ SetTop(t, [Top(t) EXCEPT !.phase = "leaving"])
  /\ UNCHANGED <<contract, depth, held, locked, waiters, flock, over>>

\* The body of the window ends, by return, exception or cancellation: the
\* finally block starts, and the context gets its former value back.
LeaveWindow(t) ==
  /\ At(t, "open")
  /\ SetTop(t, [Top(t) EXCEPT !.phase = "leaving"])
  /\ held' = [held EXCEPT ![t] = Top(t).saved]
  /\ UNCHANGED <<contract, depth, locked, waiters, flock, over>>

\* Mutant: descriptors obtained before the cancellation are not released.
InterruptForgetsFiles(t) ==
  /\ At(t, "acquiring")
  /\ SetTop(t, [Top(t) EXCEPT !.phase = "leaving", !.fds = {}])
  /\ waiters' = [waiters EXCEPT ![Loop(t)] =
                   [k \in Keys |-> SelectSeq(@[k], LAMBDA u : u # t)]]
  /\ UNCHANGED <<contract, depth, held, locked, flock, over>>

\* Cancellation at an await, or an OSError from the lock directory, while the
\* locks are being taken: the same finally block, and no token to reset.
Interrupt(t) ==
  /\ At(t, "acquiring")
  /\ SetTop(t, [Top(t) EXCEPT !.phase = "leaving"])
  /\ waiters' = [waiters EXCEPT ![Loop(t)] =
                   [k \in Keys |-> SelectSeq(@[k], LAMBDA u : u # t)]]
  /\ UNCHANGED <<contract, depth, held, locked, flock, over>>

ReleaseFile(t) ==
  /\ At(t, "leaving")
  /\ Top(t).fds # {}
  /\ LET k == Last(Top(t).fds)
     IN  /\ flock' = [flock EXCEPT ![k] = NoTask]
         /\ SetTop(t, [Top(t) EXCEPT !.fds = @ \ {k}])
  /\ UNCHANGED <<contract, depth, held, locked, waiters, over>>

ReleaseLocal(t) ==
  /\ At(t, "leaving")
  /\ Top(t).fds = {}
  /\ Top(t).local # {}
  /\ LET k == Last(Top(t).local)
     IN  /\ locked' = [locked EXCEPT ![Loop(t)][k] = NoTask]
         /\ SetTop(t, [Top(t) EXCEPT !.local = @ \ {k}])
  /\ UNCHANGED <<contract, depth, held, waiters, flock, over>>

\* The call returns, and with the outermost one the run ends.
ExitWindow(t) ==
  /\ At(t, "leaving")
  /\ Top(t).fds = {} /\ Top(t).local = {}
  /\ SetTop(t, NoFrame)
  /\ depth' = [depth EXCEPT ![t] = @ - 1]
  /\ over'  = [over EXCEPT ![t] = IF depth[t] = 1 THEN "ended" ELSE @]
  /\ UNCHANGED <<contract, held, locked, waiters, flock>>

\* A process is killed: its loops and tasks are gone, its lock files closed.
Kill(p) ==
  LET dead == {t \in Tasks : ProcessOf[Loop(t)] = p}
  IN  /\ \E t \in dead : over[t] = "no"
      /\ over'    = [t \in Tasks |-> IF t \in dead /\ over[t] = "no" THEN "killed" ELSE over[t]]
      /\ depth'   = [t \in Tasks |-> IF t \in dead THEN 0 ELSE depth[t]]
      /\ frames'  = [t \in Tasks |-> IF t \in dead THEN [d \in 1 .. MaxDepth |-> NoFrame]
                                                   ELSE frames[t]]
      /\ held'    = [t \in Tasks |-> IF t \in dead THEN {} ELSE held[t]]
      /\ locked'  = [l \in Loops |-> IF ProcessOf[l] = p THEN [k \in Keys |-> NoTask]
                                                         ELSE locked[l]]
      /\ waiters' = [l \in Loops |-> IF ProcessOf[l] = p THEN [k \in Keys |-> <<>>]
                                                         ELSE waiters[l]]
      /\ flock'   = [k \in Keys |-> IF flock[k] \in dead THEN NoTask ELSE flock[k]]
      /\ UNCHANGED contract

-----------------------------------------------------------------------------
RunStep(t) ==
  \/ AcquireLocal(t) \/ AcquireFile(t)
  \/ LeaveWindow(t) \/ ReleaseFile(t) \/ ReleaseLocal(t) \/ ExitWindow(t)

Next ==
  \/ \E t \in Tasks : EnterWindow(t) \/ RunStep(t) \/ Interrupt(t)
  \/ \E p \in Processes : Kill(p)

Spec == Init /\ [][Next]_vars

(***************************************************************************)
(* A loop keeps running its tasks, a sleeping poll wakes up again, and the *)
(* body of a window comes to an end: its calls have timeouts, and a run    *)
(* makes finitely many checks, so it does not nest windows for ever.       *)
(* Nothing makes a run start, open a nested window, be cancelled or die,   *)
(* and no process is favoured when several poll the same lock file.        *)
(***************************************************************************)
Fairness ==
  \A t \in Tasks : WF_vars(RunStep(t)) /\ SF_vars(depth[t] = 1 /\ LeaveWindow(t))

FairSpec == Spec /\ Fairness

-----------------------------------------------------------------------------
Frame == [phase : {"none", "acquiring", "open", "leaving"}, missing : SUBSET Keys,
          local : SUBSET Keys, fds : SUBSET Keys, saved : SUBSET Keys]

\* Every lock is free or has a task, every call is in some phase.
TypeOK ==
  /\ contract \in [Tasks -> Contracts]
  /\ depth \in [Tasks -> 0 .. MaxDepth]
  /\ frames \in [Tasks -> [1 .. MaxDepth -> Frame]]
  /\ held \in [Tasks -> SUBSET Keys]
  /\ locked \in [Loops -> [Keys -> Tasks \cup {NoTask}]]
  /\ flock \in [Keys -> Tasks \cup {NoTask}]
  /\ over \in [Tasks -> {"no", "ended", "killed"}]

Open(t) == \E d \in 1 .. depth[t] : frames[t][d].phase = "open"

\* Two runs whose windows are open at once have no target and no observer in
\* common, whether they share a loop, a process or only the host.
WindowsAreExclusive ==
  \A t, u \in Tasks : t # u /\ Open(t) /\ Open(u) => Wanted(t) \cap Wanted(u) = {}

\* While any window of a run is open its context knows every key the run has
\* requested, so a nested window never waits for a lock of its own run.
NestedWindowsNeverWait ==
  \A t \in Tasks : \A d \in 2 .. MaxDepth : frames[t][d].missing = {}

\* A lock file belongs to a call that still has it on its list, and to a task
\* with the local lock of that key; a run that is over, cancelled or killed
\* has no lock.
Owns(t, k) == \E d \in 1 .. depth[t] : k \in frames[t][d].fds
OwnsLocal(t, k) == \E d \in 1 .. depth[t] : k \in frames[t][d].local
NothingLeaks ==
  \A t \in Tasks, k \in Keys :
    /\ flock[k] = t <=> Owns(t, k)
    /\ locked[Loop(t)][k] = t <=> OwnsLocal(t, k)
    /\ Owns(t, k) => OwnsLocal(t, k)

\* Windows are granted all their keys at once and lose none by another's act.
Exclusive == INSTANCE ExclusiveWindows WITH owned <- held
ImplementsExclusiveWindows == Exclusive!Spec

\* No deadlock: every run that began ends, whatever its contract shares with
\* the others and whoever is cancelled or killed in between.
EveryRunEnds == \A t \in Tasks : depth[t] > 0 ~> over[t] # "no"
=============================================================================
