-------------------------- MODULE OwnershipProofs --------------------------
(***************************************************************************)
(* Proofs that observer ownership is exclusive, for any number of runs,    *)
(* loops, processes and keys.  The inductive invariant says what the       *)
(* outermost call of a run has and that the calls within it have nothing   *)
(* of their own: their keys are already held.                              *)
(***************************************************************************)
EXTENDS Ownership, WellFoundedInduction, TLAPS

-----------------------------------------------------------------------------
(* Sorted order: a set of keys that is not empty has a first and a last. *)

\* A set of numbers that is not empty has a least one.
LEMMA LeastNumber ==
  ASSUME NEW S \in SUBSET Nat, S # {}
  PROVE  \E x \in S : \A y \in S : x <= y
<1> DEFINE less == {p \in Nat \X Nat : p[1] < p[2]}
<1>1. OpToRel(<, Nat) = less
  BY DEF OpToRel
<1>2. IsWellFoundedOn(less, Nat)
  <2> HIDE DEF less
  <2> QED BY <1>1, NatLessThanWellFounded
<1>3. PICK x \in S : \A y \in S : <<y, x>> \notin less
  <2> HIDE DEF less
  <2> QED BY <1>2, WFMin
<1>4. \A i, j \in Nat : <<j, i>> \in less <=> j < i
  OBVIOUS
<1>5. \A y \in S : ~ (y < x)
  <2> HIDE DEF less
  <2> QED BY <1>3, <1>4
<1> QED
  BY <1>5

LEMMA FirstKey ==
  ASSUME NEW keys \in SUBSET Keys, keys # {}
  PROVE  First(keys) \in keys
<1>1. keys \subseteq Nat
  BY KeysAssumption DEF Keys
<1>2. \E k \in keys : \A j \in keys : k <= j
  BY <1>1, LeastNumber
<1> QED
  BY <1>2 DEF First

LEMMA LastKey ==
  ASSUME NEW keys \in SUBSET Keys, keys # {}
  PROVE  Last(keys) \in keys
<1> DEFINE mirror == {KeyCount - k : k \in keys}
<1>1. \A k \in keys : k \in Nat /\ KeyCount - k \in Nat
  BY KeysAssumption DEF Keys
<1>11. mirror \in SUBSET Nat /\ mirror # {}
  BY <1>1
<1>2. PICK m \in mirror : \A j \in mirror : m <= j
  <2> HIDE DEF mirror
  <2> QED BY <1>11, LeastNumber
<1>3. PICK k \in keys : m = KeyCount - k
  OBVIOUS
<1>4. \A j \in keys : KeyCount - k <= KeyCount - j
  BY <1>2, <1>3
<1>41. \A j \in keys : j <= k
  BY <1>1, <1>4, KeysAssumption
<1> QED
  BY <1>41 DEF Last

-----------------------------------------------------------------------------
(* Type correctness. *)

LEMMA ContractKeys ==
  ASSUME NEW t \in Tasks, contract \in [Tasks -> Contracts]
  PROVE  /\ Wanted(t) \in SUBSET Keys
         /\ Wanted(t) # {}
         /\ contract[t].observers \subseteq Wanted(t)
  BY ContractsAssumption DEF Wanted

LEMMA TopType ==
  ASSUME TypeOK, NEW t \in Tasks, depth[t] > 0
  PROVE  depth[t] \in 1 .. MaxDepth /\ Top(t) \in Frame
  BY DepthAssumption DEF TypeOK, Top

\* What a call does to its own frame, it does to no other.
LEMMA SetTopFrames ==
  ASSUME TypeOK, NEW t \in Tasks, depth[t] > 0, NEW frame \in Frame, SetTop(t, frame)
  PROVE  /\ frames' \in [Tasks -> [1 .. MaxDepth -> Frame]]
         /\ frames'[t][depth[t]] = frame
         /\ \A u \in Tasks, d \in 1 .. MaxDepth :
              u # t \/ d # depth[t] => frames'[u][d] = frames[u][d]
  BY TopType DEF TypeOK, SetTop

LEMMA NoFrameType == NoFrame \in Frame
  BY DEF NoFrame, Call, Frame

LEMMA InitType == Init => TypeOK
  BY NoFrameType, PlacesAssumption, DepthAssumption, TasksAssumption DEF Init, TypeOK

LEMMA EnterFrames ==
  ASSUME TypeOK, NEW t \in Tasks, EnterWindow(t)
  PROVE  /\ depth[t] + 1 \in 1 .. MaxDepth
         /\ frames' \in [Tasks -> [1 .. MaxDepth -> Frame]]
         /\ frames'[t][depth[t] + 1] =
              Call(IF Missing(t) = {} THEN "open" ELSE "acquiring", Missing(t), held[t])
         /\ \A u \in Tasks, d \in 1 .. MaxDepth :
              u # t \/ d # depth[t] + 1 => frames'[u][d] = frames[u][d]
<1> DEFINE call == Call(IF Missing(t) = {} THEN "open" ELSE "acquiring", Missing(t), held[t])
<1>1. depth[t] + 1 \in 1 .. MaxDepth
  BY DepthAssumption DEF TypeOK, EnterWindow
<1>2. Missing(t) \in SUBSET Keys
  BY ContractKeys DEF TypeOK, Missing, Requested
<1>3. call \in Frame
  BY <1>2 DEF TypeOK, Frame, Call
<1>4. frames' = [frames EXCEPT ![t][depth[t] + 1] = call]
  BY DEF EnterWindow
<1> HIDE DEF call
<1>5. /\ frames' \in [Tasks -> [1 .. MaxDepth -> Frame]]
      /\ frames'[t][depth[t] + 1] = call
      /\ \A u \in Tasks, d \in 1 .. MaxDepth :
           u # t \/ d # depth[t] + 1 => frames'[u][d] = frames[u][d]
  BY <1>1, <1>3, <1>4 DEF TypeOK
<1> QED
  BY <1>1, <1>5 DEF call

LEMMA TypeStep == TypeOK /\ [Next]_vars => TypeOK'
<1> SUFFICES ASSUME TypeOK, [Next]_vars PROVE TypeOK'
  OBVIOUS
<1>1. ASSUME NEW t \in Tasks, EnterWindow(t) PROVE TypeOK'
  <2>1. frames' \in [Tasks -> [1 .. MaxDepth -> Frame]] /\ depth[t] + 1 \in 0 .. MaxDepth
    BY <1>1, EnterFrames, DepthAssumption
  <2> QED BY <1>1, <2>1 DEF EnterWindow, TypeOK
<1>2. ASSUME NEW t \in Tasks, AcquireLocal(t) PROVE TypeOK'
  <2>1. depth[t] > 0 /\ Top(t) \in Frame
    BY <1>2, TopType DEF AcquireLocal, At
  <2>2. NextLocal(t) \in Keys
    BY <1>2, <2>1, FirstKey DEF AcquireLocal, NextLocal, Frame
  <2>3. Loop(t) \in Loops
    BY PlacesAssumption DEF Loop
  <2>4. /\ frames' \in [Tasks -> [1 .. MaxDepth -> Frame]]
        /\ locked' \in [Loops -> [Keys -> Tasks \cup {NoTask}]]
    <3>1. CASE UNCHANGED <<locked, frames>>
      BY <3>1 DEF TypeOK
    <3>2. CASE /\ SetTop(t, [Top(t) EXCEPT !.local = @ \cup {NextLocal(t)}])
               /\ locked' = [locked EXCEPT ![Loop(t)][NextLocal(t)] = t]
      <4>1. [Top(t) EXCEPT !.local = @ \cup {NextLocal(t)}] \in Frame
        BY <2>1, <2>2 DEF Frame
      <4>2. frames' \in [Tasks -> [1 .. MaxDepth -> Frame]]
        BY <4>1, <3>2, <2>1, SetTopFrames
      <4> QED BY <4>2, <3>2, <2>2, <2>3 DEF TypeOK
    <3> QED BY <1>2, <3>1, <3>2 DEF AcquireLocal
  <2> QED BY <1>2, <2>4 DEF AcquireLocal, TypeOK
<1>3. ASSUME NEW t \in Tasks, AcquireFile(t) PROVE TypeOK'
  <2>1. depth[t] > 0 /\ Top(t) \in Frame
    BY <1>3, TopType DEF AcquireFile, At
  <2>2. NextFile(t) \in Keys
    BY <1>3, <2>1, FirstKey DEF AcquireFile, NextFile, Frame
  <2>3. PICK phase \in {"acquiring", "open"} :
          SetTop(t, [Top(t) EXCEPT !.fds = @ \cup {NextFile(t)}, !.phase = phase])
    BY <1>3 DEF AcquireFile, At
  <2>4. [Top(t) EXCEPT !.fds = @ \cup {NextFile(t)}, !.phase = phase] \in Frame
    BY <2>1, <2>2, <2>3 DEF Frame
  <2>5. frames' \in [Tasks -> [1 .. MaxDepth -> Frame]]
    BY <2>1, <2>3, <2>4, SetTopFrames
  <2>6. Top(t).missing \subseteq Keys
    BY <2>1 DEF Frame
  <2>7. flock' \in [Keys -> Tasks \cup {NoTask}] /\ held' \in [Tasks -> SUBSET Keys]
    BY <1>3, <2>2, <2>6 DEF AcquireFile, TypeOK
  <2> QED BY <1>3, <2>5, <2>7 DEF AcquireFile, TypeOK
<1>4. ASSUME NEW t \in Tasks, LeaveWindow(t) PROVE TypeOK'
  <2>1. depth[t] > 0 /\ Top(t) \in Frame
    BY <1>4, TopType DEF LeaveWindow, At
  <2>2. [Top(t) EXCEPT !.phase = "leaving"] \in Frame /\ Top(t).saved \in SUBSET Keys
    BY <2>1 DEF Frame
  <2>3. frames' \in [Tasks -> [1 .. MaxDepth -> Frame]]
    BY <1>4, <2>1, <2>2, SetTopFrames DEF LeaveWindow
  <2> QED BY <1>4, <2>2, <2>3 DEF LeaveWindow, TypeOK
<1>5. ASSUME NEW t \in Tasks, Interrupt(t) PROVE TypeOK'
  <2>1. depth[t] > 0 /\ Top(t) \in Frame
    BY <1>5, TopType DEF Interrupt, At
  <2>2. [Top(t) EXCEPT !.phase = "leaving"] \in Frame
    BY <2>1 DEF Frame
  <2>3. frames' \in [Tasks -> [1 .. MaxDepth -> Frame]]
    BY <1>5, <2>1, <2>2, SetTopFrames DEF Interrupt
  <2> QED BY <1>5, <2>3 DEF Interrupt, TypeOK
<1>6. ASSUME NEW t \in Tasks, ReleaseFile(t) PROVE TypeOK'
  <2>1. depth[t] > 0 /\ Top(t) \in Frame
    BY <1>6, TopType DEF ReleaseFile, At
  <2>2. Last(Top(t).fds) \in Keys
    BY <1>6, <2>1, LastKey DEF ReleaseFile, Frame
  <2>3. [Top(t) EXCEPT !.fds = @ \ {Last(Top(t).fds)}] \in Frame
    BY <2>1 DEF Frame
  <2>4. frames' \in [Tasks -> [1 .. MaxDepth -> Frame]]
    BY <1>6, <2>1, <2>3, SetTopFrames DEF ReleaseFile
  <2> QED BY <1>6, <2>2, <2>4 DEF ReleaseFile, TypeOK
<1>7. ASSUME NEW t \in Tasks, ReleaseLocal(t) PROVE TypeOK'
  <2>1. depth[t] > 0 /\ Top(t) \in Frame
    BY <1>7, TopType DEF ReleaseLocal, At
  <2>2. Last(Top(t).local) \in Keys /\ Loop(t) \in Loops
    BY <1>7, <2>1, LastKey, PlacesAssumption DEF ReleaseLocal, Frame, Loop
  <2>3. [Top(t) EXCEPT !.local = @ \ {Last(Top(t).local)}] \in Frame
    BY <2>1 DEF Frame
  <2>4. frames' \in [Tasks -> [1 .. MaxDepth -> Frame]]
    BY <1>7, <2>1, <2>3, SetTopFrames DEF ReleaseLocal
  <2> QED BY <1>7, <2>2, <2>4 DEF ReleaseLocal, TypeOK
<1>8. ASSUME NEW t \in Tasks, ExitWindow(t) PROVE TypeOK'
  <2>1. depth[t] > 0 /\ depth[t] - 1 \in 0 .. MaxDepth
    BY <1>8, DepthAssumption DEF ExitWindow, At, TypeOK
  <2>2. frames' \in [Tasks -> [1 .. MaxDepth -> Frame]]
    BY <1>8, <2>1, SetTopFrames, NoFrameType DEF ExitWindow
  <2> QED BY <1>8, <2>1, <2>2 DEF ExitWindow, TypeOK
<1>9. ASSUME NEW p \in Processes, Kill(p) PROVE TypeOK'
  <2>1. frames' \in [Tasks -> [1 .. MaxDepth -> Frame]]
    BY <1>9, NoFrameType DEF Kill, TypeOK
  <2>2. depth' \in [Tasks -> 0 .. MaxDepth]
    BY <1>9, DepthAssumption DEF Kill, TypeOK
  <2> QED BY <1>9, <2>1, <2>2 DEF Kill, TypeOK
<1>10. CASE UNCHANGED vars
  BY <1>10 DEF vars, TypeOK
<1> QED
  BY <1>1, <1>2, <1>3, <1>4, <1>5, <1>6, <1>7, <1>8, <1>9, <1>10 DEF Next, RunStep

\* Every lock is free or has a task, every call is in some phase.
THEOREM OwnershipTypeCorrect == Spec => []TypeOK
  BY InitType, TypeStep, PTL DEF Spec

-----------------------------------------------------------------------------
(* The inductive invariant.  The outermost call of a run has the lock files *)
(* and local locks the run owns, and its window is open exactly while the   *)
(* context holds what the run wants; a call within it misses no key.        *)

Outer(t) == frames[t][1]

OuterCall(t) ==
  /\ Outer(t).fds \subseteq Outer(t).local
  /\ Outer(t).local \subseteq Outer(t).missing
  /\ depth[t] = 0 => Outer(t).local = {} /\ Outer(t).phase = "none"
  /\ depth[t] > 0 => /\ Outer(t).phase # "none"
                     /\ Outer(t).missing = Wanted(t)
                     /\ Outer(t).saved = {}
  /\ Outer(t).phase = "open" => Outer(t).fds = Wanted(t)
  /\ depth[t] > 1 => Outer(t).phase = "open"

InnerCalls(t) ==
  \A d \in 2 .. MaxDepth :
    /\ frames[t][d].missing = {} /\ frames[t][d].local = {} /\ frames[t][d].fds = {}
    /\ d <= depth[t] => /\ frames[t][d].phase # "acquiring"
                        /\ frames[t][d].saved = Wanted(t)

Context(t) == held[t] = IF Outer(t).phase = "open" THEN Wanted(t) ELSE {}

LocksOf(t) ==
  \A k \in Keys : /\ flock[k] = t <=> k \in Outer(t).fds
                  /\ locked[Loop(t)][k] = t <=> k \in Outer(t).local

Shape(t) == OuterCall(t) /\ InnerCalls(t) /\ Context(t) /\ LocksOf(t)
IInv == TypeOK /\ \A t \in Tasks : Shape(t)

LEMMA InitShape == Init => \A t \in Tasks : Shape(t)
<1> SUFFICES ASSUME Init, NEW t \in Tasks PROVE Shape(t)
  OBVIOUS
<1>1. \A d \in 1 .. MaxDepth : frames[t][d] = NoFrame
  BY DEF Init
<1>2. Outer(t) = NoFrame
  BY <1>1, DepthAssumption DEF Outer
<1>3. OuterCall(t) /\ InnerCalls(t) /\ Context(t)
  BY <1>1, <1>2, DepthAssumption DEF Init, OuterCall, InnerCalls, Context, NoFrame, Call
<1>4. LocksOf(t)
  BY <1>2, TasksAssumption, PlacesAssumption DEF Init, LocksOf, NoFrame, Call, Loop
<1> QED BY <1>3, <1>4 DEF Shape

LEMMA OuterTop ==
  ASSUME IInv, NEW t \in Tasks, depth[t] = 1
  PROVE  Top(t) = Outer(t)
  BY DEF Top, Outer

\* Only the outermost call takes or returns locks.
LEMMA OnlyOuterLocks ==
  ASSUME IInv, NEW t \in Tasks, depth[t] > 0,
         At(t, "acquiring") \/ Top(t).fds # {} \/ Top(t).local # {}
  PROVE  depth[t] = 1
<1>1. depth[t] \in 1 .. MaxDepth
  BY TopType DEF IInv
<1>2. ASSUME depth[t] # 1 PROVE FALSE
  <2>1. depth[t] \in 2 .. MaxDepth
    BY <1>1, <1>2, DepthAssumption
  <2>2. Top(t).local = {} /\ Top(t).fds = {} /\ Top(t).phase # "acquiring"
    BY <2>1 DEF IInv, Shape, InnerCalls, Top
  <2> QED BY <2>2 DEF At
<1> QED BY <1>2

\* A step that leaves a run's own state and its locks alone keeps its shape.
LEMMA Undisturbed ==
  ASSUME IInv, NEW u \in Tasks,
         frames'[u] = frames[u], depth'[u] = depth[u], held'[u] = held[u],
         UNCHANGED contract,
         \A k \in Keys : flock'[k] = u <=> flock[k] = u,
         \A k \in Keys : locked'[Loop(u)][k] = u <=> locked[Loop(u)][k] = u
  PROVE  Shape(u)'
<1>1. Wanted(u)' = Wanted(u) /\ Outer(u)' = Outer(u)
  BY DEF Wanted, Outer
<1>2. OuterCall(u)' /\ InnerCalls(u)' /\ Context(u)'
  BY <1>1 DEF IInv, Shape, OuterCall, InnerCalls, Context
<1>3. LocksOf(u)'
  BY <1>1 DEF IInv, Shape, LocksOf, Loop
<1> QED BY <1>2, <1>3 DEF Shape

\* The frame of the outermost call changes, those within it do not.
LEMMA SetOuter ==
  ASSUME IInv, NEW t \in Tasks, depth[t] = 1, NEW frame \in Frame, SetTop(t, frame)
  PROVE  /\ frames'[t][1] = frame
         /\ \A d \in 2 .. MaxDepth : frames'[t][d] = frames[t][d]
         /\ \A u \in Tasks \ {t} : frames'[u] = frames[u]
<1>1. 1 \in 1 .. MaxDepth /\ 2 .. MaxDepth \subseteq 1 .. MaxDepth
  BY DepthAssumption
<1>2. /\ frames'[t][1] = frame
      /\ \A d \in 1 .. MaxDepth : d # 1 => frames'[t][d] = frames[t][d]
  BY <1>1, SetTopFrames DEF IInv
<1>3. \A u \in Tasks \ {t} : frames'[u] = frames[u]
  BY DEF IInv, TypeOK, SetTop
<1> QED BY <1>1, <1>2, <1>3

LEMMA EnterShape ==
  ASSUME IInv, NEW t \in Tasks, EnterWindow(t)
  PROVE  \A u \in Tasks : Shape(u)'
<1>1. TypeOK /\ Shape(t)
  BY DEF IInv
<1>2. Wanted(t) # {} /\ contract[t].observers \subseteq Wanted(t) /\ Wanted(t)' = Wanted(t)
  BY <1>1, ContractKeys DEF EnterWindow, TypeOK, Wanted
<1>3. ASSUME NEW u \in Tasks, u # t PROVE Shape(u)'
  <2>1. frames'[u] = frames[u] /\ depth'[u] = depth[u] /\ held'[u] = held[u]
    BY <1>1, <1>3 DEF EnterWindow, TypeOK
  <2> QED BY <2>1, Undisturbed DEF EnterWindow
<1>4. Shape(t)'
  <2>1. depth[t] + 1 \in 1 .. MaxDepth /\ depth'[t] = depth[t] + 1 /\ depth[t] \in Nat
    <3>1. depth[t] + 1 \in 1 .. MaxDepth
      BY <1>1, EnterFrames
    <3> QED BY <1>1, <3>1, DepthAssumption DEF EnterWindow, TypeOK
  <2>2. CASE depth[t] = 0
    <3>1. Missing(t) = Wanted(t) /\ held[t] = {}
      BY <1>1, <2>2 DEF Shape, OuterCall, Context, Missing, Requested
    <3>2. Outer(t)' = Call("acquiring", Wanted(t), {})
      <4>1. depth[t] + 1 = 1 /\ Missing(t) # {}
        BY <1>2, <2>2, <3>1
      <4>2. frames'[t][depth[t] + 1] = Call("acquiring", Wanted(t), {})
        BY <1>1, <3>1, <4>1, EnterFrames
      <4> QED BY <4>1, <4>2 DEF Outer
    <3>3. \A d \in 2 .. MaxDepth : frames'[t][d] = frames[t][d]
      BY <1>1, <2>2, EnterFrames
    <3>4. OuterCall(t)' /\ Context(t)' /\ LocksOf(t)'
      BY <1>1, <1>2, <2>1, <2>2, <3>1, <3>2 DEF Shape, OuterCall, Context, LocksOf, Call, EnterWindow, Loop
    <3>5. InnerCalls(t)'
      BY <1>1, <1>2, <2>1, <2>2, <3>3 DEF Shape, InnerCalls
    <3> QED BY <3>4, <3>5 DEF Shape
  <2>3. CASE depth[t] > 0
    <3>1. Outer(t).phase = "open"
      <4>1. CASE depth[t] = 1
        BY <2>3, <4>1, OuterTop DEF EnterWindow, At
      <4>2. CASE depth[t] > 1
        BY <1>1, <4>2 DEF Shape, OuterCall
      <4> QED BY <2>1, <2>3, <4>1, <4>2
    <3>2. held[t] = Wanted(t) /\ Missing(t) = {}
      BY <1>1, <1>2, <2>3, <3>1 DEF Shape, Context, Missing, Requested
    <3>3. frames'[t][depth[t] + 1] = Call("open", {}, Wanted(t))
      BY <1>1, <3>2, EnterFrames
    <3>4. 1 \in 1 .. MaxDepth /\ 1 # depth[t] + 1
      BY <2>1, <2>3, DepthAssumption
    <3>5. \A d \in 1 .. MaxDepth : d # depth[t] + 1 => frames'[t][d] = frames[t][d]
      BY <1>1, EnterFrames
    <3>6. Outer(t)' = Outer(t)
      BY <3>4, <3>5 DEF Outer
    <3>7. OuterCall(t)' /\ Context(t)' /\ LocksOf(t)'
      BY <1>1, <1>2, <2>1, <2>3, <3>1, <3>6 DEF Shape, OuterCall, Context, LocksOf, EnterWindow, Loop
    <3>8. InnerCalls(t)'
      <4> SUFFICES ASSUME NEW d \in 2 .. MaxDepth
                   PROVE  /\ frames'[t][d].missing = {} /\ frames'[t][d].local = {}
                          /\ frames'[t][d].fds = {}
                          /\ d <= depth'[t] => /\ frames'[t][d].phase # "acquiring"
                                               /\ frames'[t][d].saved = Wanted(t)'
        BY DEF InnerCalls
      <4>1. CASE d = depth[t] + 1
        BY <1>2, <3>3, <4>1 DEF Call
      <4>2. CASE d # depth[t] + 1
        <5>1. frames'[t][d] = frames[t][d]
          BY <3>5, <4>2, DepthAssumption
        <5>2. d <= depth'[t] => d <= depth[t]
          BY <2>1, <4>2
        <5> QED BY <1>1, <1>2, <5>1, <5>2 DEF Shape, InnerCalls
      <4> QED BY <4>1, <4>2
    <3> QED BY <3>7, <3>8 DEF Shape
  <2> QED BY <2>1, <2>2, <2>3
<1> QED BY <1>3, <1>4

LEMMA AcquireLocalShape ==
  ASSUME IInv, NEW t \in Tasks, AcquireLocal(t)
  PROVE  \A u \in Tasks : Shape(u)'
<1>1. TypeOK /\ Shape(t) /\ depth[t] = 1 /\ Top(t) = Outer(t) /\ Top(t) \in Frame
  <2>1. depth[t] > 0 /\ At(t, "acquiring")
    BY DEF AcquireLocal, At
  <2> QED BY <2>1, OnlyOuterLocks, OuterTop, TopType DEF IInv
<1>2. CASE UNCHANGED <<locked, frames>>
  BY <1>2, Undisturbed DEF AcquireLocal
<1>3. CASE /\ locked[Loop(t)][NextLocal(t)] = NoTask
           /\ locked' = [locked EXCEPT ![Loop(t)][NextLocal(t)] = t]
           /\ SetTop(t, [Top(t) EXCEPT !.local = @ \cup {NextLocal(t)}])
  <2> DEFINE k == NextLocal(t)
             frame == [Top(t) EXCEPT !.local = @ \cup {k}]
  <2>1. k \in Top(t).missing /\ k \in Keys /\ Loop(t) \in Loops
    <3>1. Top(t).missing \ Top(t).local \in SUBSET Keys /\ Top(t).missing \ Top(t).local # {}
      BY <1>1 DEF AcquireLocal, Frame
    <3>2. k \in Top(t).missing \ Top(t).local
      BY <3>1, FirstKey DEF NextLocal
    <3> QED BY <3>1, <3>2, PlacesAssumption DEF Loop
  <2>2. frame \in Frame
    BY <1>1, <2>1 DEF Frame
  <2>3. /\ frame.local = Outer(t).local \cup {k} /\ frame.fds = Outer(t).fds
        /\ frame.missing = Outer(t).missing /\ frame.saved = Outer(t).saved
        /\ frame.phase = Outer(t).phase
    BY <1>1 DEF Frame
  <2> HIDE DEF frame, k
  <2>4. /\ frames'[t][1] = frame
        /\ \A d \in 2 .. MaxDepth : frames'[t][d] = frames[t][d]
        /\ \A u \in Tasks \ {t} : frames'[u] = frames[u]
    BY <1>1, <1>3, <2>2, SetOuter DEF frame, k
  <2>5. /\ locked'[Loop(t)][k] = t /\ locked[Loop(t)][k] = NoTask
        /\ \A l \in Loops, j \in Keys : l # Loop(t) \/ j # k => locked'[l][j] = locked[l][j]
    BY <1>1, <1>3, <2>1 DEF TypeOK, k
  <2>6. ASSUME NEW u \in Tasks, u # t PROVE Shape(u)'
    <3>1. \A j \in Keys : locked'[Loop(u)][j] = u <=> locked[Loop(u)][j] = u
      BY <2>5, <2>6, TasksAssumption, PlacesAssumption DEF Loop
    <3> QED BY <2>4, <2>6, <3>1, Undisturbed DEF AcquireLocal
  <2>7. Shape(t)'
    <3>1. Wanted(t)' = Wanted(t) /\ Outer(t)' = frame /\ depth'[t] = depth[t] /\ held'[t] = held[t]
      BY <2>4 DEF AcquireLocal, Wanted, Outer
    <3>2. OuterCall(t)'
      BY <1>1, <2>1, <2>3, <3>1 DEF Shape, OuterCall
    <3>3. InnerCalls(t)' /\ Context(t)'
      BY <1>1, <2>3, <2>4, <3>1 DEF Shape, InnerCalls, Context
    <3>4. LocksOf(t)'
      BY <1>1, <2>1, <2>3, <2>5, <3>1 DEF Shape, LocksOf, AcquireLocal, Loop
    <3> QED BY <3>2, <3>3, <3>4 DEF Shape
  <2> QED BY <2>6, <2>7
<1> QED BY <1>2, <1>3 DEF AcquireLocal

LEMMA AcquireFileShape ==
  ASSUME IInv, NEW t \in Tasks, AcquireFile(t)
  PROVE  \A u \in Tasks : Shape(u)'
<1>1. TypeOK /\ Shape(t) /\ depth[t] = 1 /\ Top(t) = Outer(t) /\ Top(t) \in Frame
  <2>1. depth[t] > 0 /\ At(t, "acquiring")
    BY DEF AcquireFile, At
  <2> QED BY <2>1, OnlyOuterLocks, OuterTop, TopType DEF IInv
<1> DEFINE k == NextFile(t)
           last == Top(t).missing = Top(t).fds \cup {k}
           frame == [Top(t) EXCEPT !.fds = @ \cup {k}, !.phase = IF last THEN "open" ELSE @]
<1>2. k \in Top(t).missing /\ k \in Keys
  BY <1>1, FirstKey DEF AcquireFile, NextFile, Frame
<1>3. Top(t).phase = "acquiring" /\ Top(t).missing \subseteq Top(t).local
  BY DEF AcquireFile, At
<1>4. frame \in Frame
  BY <1>1, <1>2 DEF Frame
<1>5. /\ frame.fds = Outer(t).fds \cup {k} /\ frame.local = Outer(t).local
      /\ frame.missing = Outer(t).missing /\ frame.saved = Outer(t).saved
      /\ frame.phase = IF last THEN "open" ELSE "acquiring"
  BY <1>1, <1>3 DEF Frame
<1>6. /\ SetTop(t, frame)
      /\ flock[k] = NoTask /\ flock' = [flock EXCEPT ![k] = t]
      /\ held' = [held EXCEPT ![t] = IF last THEN @ \cup Top(t).missing ELSE @]
  BY DEF AcquireFile
<1>7. Outer(t).missing = Wanted(t) /\ held[t] = {}
  BY <1>1, <1>3 DEF Shape, OuterCall, Context
<1>8. held'[t] = (IF last THEN Wanted(t) ELSE {}) /\ (last => frame.fds = Wanted(t))
  BY <1>1, <1>5, <1>6, <1>7 DEF TypeOK
<1> HIDE DEF frame, k, last
<1>9. /\ frames'[t][1] = frame
      /\ \A d \in 2 .. MaxDepth : frames'[t][d] = frames[t][d]
      /\ \A u \in Tasks \ {t} : frames'[u] = frames[u]
  BY <1>1, <1>4, <1>6, SetOuter
<1>10. flock'[k] = t /\ \A j \in Keys : j # k => flock'[j] = flock[j]
  BY <1>1, <1>2, <1>6 DEF TypeOK
<1>11. ASSUME NEW u \in Tasks, u # t PROVE Shape(u)'
  <2>1. \A j \in Keys : flock'[j] = u <=> flock[j] = u
    BY <1>6, <1>10, <1>11, TasksAssumption
  <2>2. held'[u] = held[u]
    BY <1>1, <1>6, <1>11 DEF TypeOK
  <2> QED BY <1>9, <1>11, <2>1, <2>2, Undisturbed DEF AcquireFile
<1>12. Shape(t)'
  <2>1. Wanted(t)' = Wanted(t) /\ Outer(t)' = frame /\ depth'[t] = depth[t]
    BY <1>9 DEF AcquireFile, Wanted, Outer
  <2>2. OuterCall(t)'
    BY <1>1, <1>2, <1>3, <1>5, <1>8, <2>1 DEF Shape, OuterCall
  <2>3. InnerCalls(t)'
    BY <1>1, <1>9, <2>1 DEF Shape, InnerCalls
  <2>4. Context(t)'
    BY <1>5, <1>8, <2>1 DEF Context
  <2>5. LocksOf(t)'
    BY <1>1, <1>2, <1>5, <1>10, <2>1 DEF Shape, LocksOf, AcquireFile, Loop
  <2> QED BY <2>2, <2>3, <2>4, <2>5 DEF Shape
<1> QED BY <1>11, <1>12

LEMMA LeaveShape ==
  ASSUME IInv, NEW t \in Tasks, LeaveWindow(t)
  PROVE  \A u \in Tasks : Shape(u)'
<1>1. TypeOK /\ Shape(t) /\ depth[t] > 0 /\ Top(t) \in Frame /\ Top(t).phase = "open"
  BY TopType DEF LeaveWindow, At, IInv
<1> DEFINE frame == [Top(t) EXCEPT !.phase = "leaving"]
<1>2. frame \in Frame
  BY <1>1 DEF Frame
<1>3. /\ frame.fds = Top(t).fds /\ frame.local = Top(t).local
      /\ frame.missing = Top(t).missing /\ frame.saved = Top(t).saved
      /\ frame.phase = "leaving"
  BY <1>1 DEF Frame
<1>4. SetTop(t, frame) /\ held' = [held EXCEPT ![t] = Top(t).saved]
  BY DEF LeaveWindow
<1> HIDE DEF frame
<1>5. ASSUME NEW u \in Tasks, u # t PROVE Shape(u)'
  <2>1. frames'[u] = frames[u] /\ held'[u] = held[u]
    BY <1>1, <1>4, <1>5 DEF TypeOK, SetTop
  <2> QED BY <1>5, <2>1, Undisturbed DEF LeaveWindow
<1>6. CASE depth[t] = 1
  <2>1. Top(t) = Outer(t)
    BY <1>6, OuterTop
  <2>2. Outer(t)' = frame /\ \A d \in 2 .. MaxDepth : frames'[t][d] = frames[t][d]
    BY <1>2, <1>4, <1>6, SetOuter DEF Outer
  <2>3. Wanted(t)' = Wanted(t) /\ depth'[t] = depth[t]
    BY DEF LeaveWindow, Wanted
  <2>4. OuterCall(t)' /\ InnerCalls(t)'
    BY <1>1, <1>3, <1>6, <2>1, <2>2, <2>3 DEF Shape, OuterCall, InnerCalls
  <2>5. Context(t)'
    BY <1>1, <1>3, <1>4, <1>6, <2>1, <2>2 DEF Shape, OuterCall, Context, TypeOK
  <2>6. LocksOf(t)'
    BY <1>1, <1>3, <2>1, <2>2 DEF Shape, LocksOf, LeaveWindow, Loop
  <2> QED BY <1>5, <2>4, <2>5, <2>6 DEF Shape
<1>7. CASE depth[t] # 1
  <2>1. depth[t] \in 2 .. MaxDepth /\ 1 \in 1 .. MaxDepth
    BY <1>1, <1>7, DepthAssumption DEF TypeOK
  <2>2. /\ frames'[t][depth[t]] = frame
        /\ \A d \in 1 .. MaxDepth : d # depth[t] => frames'[t][d] = frames[t][d]
    BY <1>1, <1>2, <1>4, SetTopFrames
  <2>3. Outer(t)' = Outer(t)
    BY <2>1, <2>2 DEF Outer
  <2>4. Top(t).saved = Wanted(t) /\ Outer(t).phase = "open" /\ held[t] = Wanted(t)
    BY <1>1, <2>1 DEF Shape, InnerCalls, OuterCall, Context, Top
  <2>5. held' = held
    BY <1>1, <1>4, <2>4 DEF TypeOK
  <2>6. Wanted(t)' = Wanted(t) /\ depth'[t] = depth[t]
    BY DEF LeaveWindow, Wanted
  <2>7. OuterCall(t)' /\ Context(t)' /\ LocksOf(t)'
    BY <1>1, <2>3, <2>5, <2>6 DEF Shape, OuterCall, Context, LocksOf, LeaveWindow, Loop
  <2>8. InnerCalls(t)'
    <3>1. /\ frame.missing = {} /\ frame.local = {} /\ frame.fds = {}
          /\ frame.saved = Wanted(t) /\ frame.phase # "acquiring"
      BY <1>1, <1>3, <2>1 DEF Shape, InnerCalls, Top
    <3>2. ASSUME NEW d \in 2 .. MaxDepth, d # depth[t] PROVE frames'[t][d] = frames[t][d]
      BY <2>2, <3>2, DepthAssumption
    <3> QED BY <1>1, <2>2, <2>6, <3>1, <3>2 DEF Shape, InnerCalls
  <2> QED BY <1>5, <2>7, <2>8 DEF Shape
<1> QED BY <1>6, <1>7

LEMMA InterruptShape ==
  ASSUME IInv, NEW t \in Tasks, Interrupt(t)
  PROVE  \A u \in Tasks : Shape(u)'
<1>1. TypeOK /\ Shape(t) /\ depth[t] = 1 /\ Top(t) = Outer(t) /\ Top(t) \in Frame
  <2>1. depth[t] > 0 /\ At(t, "acquiring")
    BY DEF Interrupt, At
  <2> QED BY <2>1, OnlyOuterLocks, OuterTop, TopType DEF IInv
<1> DEFINE frame == [Top(t) EXCEPT !.phase = "leaving"]
<1>2. frame \in Frame
  BY <1>1 DEF Frame
<1>3. /\ frame.fds = Outer(t).fds /\ frame.local = Outer(t).local
      /\ frame.missing = Outer(t).missing /\ frame.saved = Outer(t).saved
      /\ frame.phase = "leaving" /\ Outer(t).phase = "acquiring"
  BY <1>1 DEF Frame, Interrupt, At
<1>4. SetTop(t, frame)
  BY DEF Interrupt
<1> HIDE DEF frame
<1>5. /\ frames'[t][1] = frame
      /\ \A d \in 2 .. MaxDepth : frames'[t][d] = frames[t][d]
      /\ \A u \in Tasks \ {t} : frames'[u] = frames[u]
  BY <1>1, <1>2, <1>4, SetOuter
<1>6. ASSUME NEW u \in Tasks, u # t PROVE Shape(u)'
  BY <1>5, <1>6, Undisturbed DEF Interrupt
<1>7. Shape(t)'
  <2>1. Wanted(t)' = Wanted(t) /\ Outer(t)' = frame /\ depth'[t] = depth[t] /\ held'[t] = held[t]
    BY <1>5 DEF Interrupt, Wanted, Outer
  <2>2. OuterCall(t)' /\ InnerCalls(t)' /\ Context(t)'
    BY <1>1, <1>3, <1>5, <2>1 DEF Shape, OuterCall, InnerCalls, Context
  <2>3. LocksOf(t)'
    BY <1>1, <1>3, <2>1 DEF Shape, LocksOf, Interrupt, Loop
  <2> QED BY <2>2, <2>3 DEF Shape
<1> QED BY <1>6, <1>7

LEMMA ReleaseFileShape ==
  ASSUME IInv, NEW t \in Tasks, ReleaseFile(t)
  PROVE  \A u \in Tasks : Shape(u)'
<1>1. TypeOK /\ Shape(t) /\ depth[t] = 1 /\ Top(t) = Outer(t) /\ Top(t) \in Frame
  <2>1. depth[t] > 0 /\ Top(t).fds # {}
    BY DEF ReleaseFile, At
  <2> QED BY <2>1, OnlyOuterLocks, OuterTop, TopType DEF IInv
<1> DEFINE k == Last(Top(t).fds)
           frame == [Top(t) EXCEPT !.fds = @ \ {k}]
<1>2. k \in Outer(t).fds /\ k \in Keys
  BY <1>1, LastKey DEF ReleaseFile, Frame
<1>3. frame \in Frame
  BY <1>1 DEF Frame
<1>4. /\ frame.fds = Outer(t).fds \ {k} /\ frame.local = Outer(t).local
      /\ frame.missing = Outer(t).missing /\ frame.saved = Outer(t).saved
      /\ frame.phase = "leaving" /\ Outer(t).phase = "leaving"
  BY <1>1 DEF Frame, ReleaseFile, At
<1>5. SetTop(t, frame) /\ flock' = [flock EXCEPT ![k] = NoTask]
  BY DEF ReleaseFile
<1> HIDE DEF frame, k
<1>6. /\ frames'[t][1] = frame
      /\ \A d \in 2 .. MaxDepth : frames'[t][d] = frames[t][d]
      /\ \A u \in Tasks \ {t} : frames'[u] = frames[u]
  BY <1>1, <1>3, <1>5, SetOuter
<1>7. /\ flock'[k] = NoTask /\ flock[k] = t
      /\ \A j \in Keys : j # k => flock'[j] = flock[j]
  BY <1>1, <1>2, <1>5 DEF TypeOK, Shape, LocksOf
<1>8. ASSUME NEW u \in Tasks, u # t PROVE Shape(u)'
  <2>1. \A j \in Keys : flock'[j] = u <=> flock[j] = u
    BY <1>7, <1>8, TasksAssumption
  <2> QED BY <1>6, <1>8, <2>1, Undisturbed DEF ReleaseFile
<1>9. Shape(t)'
  <2>1. Wanted(t)' = Wanted(t) /\ Outer(t)' = frame /\ depth'[t] = depth[t] /\ held'[t] = held[t]
    BY <1>6 DEF ReleaseFile, Wanted, Outer
  <2>2. OuterCall(t)' /\ InnerCalls(t)' /\ Context(t)'
    BY <1>1, <1>4, <1>6, <2>1 DEF Shape, OuterCall, InnerCalls, Context
  <2>3. LocksOf(t)'
    BY <1>1, <1>4, <1>7, <2>1, TasksAssumption DEF Shape, LocksOf, ReleaseFile, Loop
  <2> QED BY <2>2, <2>3 DEF Shape
<1> QED BY <1>8, <1>9

LEMMA ReleaseLocalShape ==
  ASSUME IInv, NEW t \in Tasks, ReleaseLocal(t)
  PROVE  \A u \in Tasks : Shape(u)'
<1>1. TypeOK /\ Shape(t) /\ depth[t] = 1 /\ Top(t) = Outer(t) /\ Top(t) \in Frame
  <2>1. depth[t] > 0 /\ Top(t).local # {}
    BY DEF ReleaseLocal, At
  <2> QED BY <2>1, OnlyOuterLocks, OuterTop, TopType DEF IInv
<1> DEFINE k == Last(Top(t).local)
           frame == [Top(t) EXCEPT !.local = @ \ {k}]
<1>2. k \in Outer(t).local /\ k \in Keys /\ Loop(t) \in Loops
  <2>1. Top(t).local \in SUBSET Keys /\ Top(t).local # {}
    BY <1>1 DEF ReleaseLocal, Frame
  <2> QED BY <1>1, <2>1, LastKey, PlacesAssumption DEF Loop
<1>3. frame \in Frame
  BY <1>1 DEF Frame
<1>4. /\ frame.fds = Outer(t).fds /\ frame.local = Outer(t).local \ {k}
      /\ frame.missing = Outer(t).missing /\ frame.saved = Outer(t).saved
      /\ frame.phase = "leaving" /\ Outer(t).phase = "leaving" /\ Outer(t).fds = {}
  BY <1>1 DEF Frame, ReleaseLocal, At
<1>5. SetTop(t, frame) /\ locked' = [locked EXCEPT ![Loop(t)][k] = NoTask]
  BY DEF ReleaseLocal
<1> HIDE DEF frame, k
<1>6. /\ frames'[t][1] = frame
      /\ \A d \in 2 .. MaxDepth : frames'[t][d] = frames[t][d]
      /\ \A u \in Tasks \ {t} : frames'[u] = frames[u]
  BY <1>1, <1>3, <1>5, SetOuter
<1>7. /\ locked'[Loop(t)][k] = NoTask /\ locked[Loop(t)][k] = t
      /\ \A l \in Loops, j \in Keys : l # Loop(t) \/ j # k => locked'[l][j] = locked[l][j]
  BY <1>1, <1>2, <1>5 DEF TypeOK, Shape, LocksOf
<1>8. ASSUME NEW u \in Tasks, u # t PROVE Shape(u)'
  <2>1. \A j \in Keys : locked'[Loop(u)][j] = u <=> locked[Loop(u)][j] = u
    BY <1>7, <1>8, TasksAssumption, PlacesAssumption DEF Loop
  <2> QED BY <1>6, <1>8, <2>1, Undisturbed DEF ReleaseLocal
<1>9. Shape(t)'
  <2>1. Wanted(t)' = Wanted(t) /\ Outer(t)' = frame /\ depth'[t] = depth[t] /\ held'[t] = held[t]
    BY <1>6 DEF ReleaseLocal, Wanted, Outer
  <2>2. OuterCall(t)' /\ InnerCalls(t)' /\ Context(t)'
    BY <1>1, <1>4, <1>6, <2>1 DEF Shape, OuterCall, InnerCalls, Context
  <2>3. LocksOf(t)'
    BY <1>1, <1>2, <1>4, <1>7, <2>1, TasksAssumption DEF Shape, LocksOf, ReleaseLocal, Loop
  <2> QED BY <2>2, <2>3 DEF Shape
<1> QED BY <1>8, <1>9

LEMMA ExitShape ==
  ASSUME IInv, NEW t \in Tasks, ExitWindow(t)
  PROVE  \A u \in Tasks : Shape(u)'
<1>1. /\ TypeOK /\ Shape(t) /\ depth[t] > 0 /\ depth[t] \in 1 .. MaxDepth
      /\ Top(t).phase = "leaving" /\ Top(t).local = {} /\ Top(t).fds = {}
  BY TopType DEF ExitWindow, At, IInv
<1>2. SetTop(t, NoFrame) /\ depth'[t] = depth[t] - 1 /\ Wanted(t)' = Wanted(t)
  BY <1>1 DEF ExitWindow, TypeOK, Wanted
<1>3. ASSUME NEW u \in Tasks, u # t PROVE Shape(u)'
  <2>1. frames'[u] = frames[u] /\ depth'[u] = depth[u]
    BY <1>1, <1>3 DEF TypeOK, SetTop, ExitWindow
  <2> QED BY <1>3, <2>1, Undisturbed DEF ExitWindow
<1>4. CASE depth[t] = 1
  <2>1. Top(t) = Outer(t)
    BY <1>4, OuterTop
  <2>2. Outer(t)' = NoFrame /\ \A d \in 2 .. MaxDepth : frames'[t][d] = frames[t][d]
    BY <1>2, <1>4, SetOuter, NoFrameType DEF Outer
  <2>3. OuterCall(t)' /\ InnerCalls(t)'
    BY <1>1, <1>2, <1>4, <2>2, DepthAssumption DEF Shape, OuterCall, InnerCalls, NoFrame, Call
  <2>4. Context(t)'
    BY <1>1, <2>1, <2>2 DEF Shape, Context, ExitWindow, NoFrame, Call
  <2>5. LocksOf(t)'
    BY <1>1, <2>1, <2>2 DEF Shape, LocksOf, ExitWindow, Loop, NoFrame, Call
  <2> QED BY <1>3, <2>3, <2>4, <2>5 DEF Shape
<1>5. CASE depth[t] # 1
  <2>1. depth[t] \in 2 .. MaxDepth /\ 1 \in 1 .. MaxDepth
    BY <1>1, <1>5, DepthAssumption
  <2>2. /\ frames'[t][depth[t]] = NoFrame
        /\ \A d \in 1 .. MaxDepth : d # depth[t] => frames'[t][d] = frames[t][d]
    BY <1>1, <1>2, SetTopFrames, NoFrameType
  <2>3. Outer(t)' = Outer(t)
    BY <2>1, <2>2 DEF Outer
  <2>4. Outer(t).phase = "open" /\ depth'[t] > 0
    BY <1>1, <1>2, <2>1 DEF Shape, OuterCall
  <2>5. OuterCall(t)' /\ Context(t)' /\ LocksOf(t)'
    BY <1>1, <1>2, <2>1, <2>3, <2>4 DEF Shape, OuterCall, Context, LocksOf, ExitWindow, Loop
  <2>6. InnerCalls(t)'
    <3>1. ASSUME NEW d \in 2 .. MaxDepth, d # depth[t] PROVE frames'[t][d] = frames[t][d]
      BY <2>2, <3>1, DepthAssumption
    <3>2. \A d \in 2 .. MaxDepth : d <= depth'[t] => d # depth[t] /\ d <= depth[t]
      BY <1>1, <1>2, DepthAssumption
    <3> QED BY <1>1, <1>2, <2>2, <3>1, <3>2 DEF Shape, InnerCalls, NoFrame, Call
  <2> QED BY <1>3, <2>5, <2>6 DEF Shape
<1> QED BY <1>4, <1>5

LEMMA KillShape ==
  ASSUME IInv, NEW p \in Processes, Kill(p)
  PROVE  \A u \in Tasks : Shape(u)'
<1> DEFINE dead == {t \in Tasks : ProcessOf[Loop(t)] = p}
<1>1. TypeOK /\ (\A u \in Tasks : Wanted(u)' = Wanted(u)) /\ \A u \in Tasks : Loop(u) \in Loops
  BY PlacesAssumption DEF IInv, Kill, Wanted, Loop
<1>2. ASSUME NEW u \in Tasks, u \notin dead PROVE Shape(u)'
  <2>1. frames'[u] = frames[u] /\ depth'[u] = depth[u] /\ held'[u] = held[u]
    BY <1>2 DEF Kill
  <2>2. \A k \in Keys : flock'[k] = u <=> flock[k] = u
    BY <1>2, TasksAssumption DEF Kill
  <2>3. \A k \in Keys : locked'[Loop(u)][k] = locked[Loop(u)][k]
    BY <1>1, <1>2 DEF Kill
  <2> QED BY <2>1, <2>2, <2>3, Undisturbed DEF Kill
<1>3. ASSUME NEW u \in dead PROVE Shape(u)'
  <2>1. /\ \A d \in 1 .. MaxDepth : frames'[u][d] = NoFrame
        /\ depth'[u] = 0 /\ held'[u] = {}
    BY <1>3 DEF Kill
  <2>2. Outer(u)' = NoFrame
    BY <2>1, DepthAssumption DEF Outer
  <2>3. OuterCall(u)' /\ InnerCalls(u)' /\ Context(u)'
    BY <2>1, <2>2, DepthAssumption DEF OuterCall, InnerCalls, Context, NoFrame, Call
  <2>4. \A k \in Keys : flock'[k] # u /\ locked'[Loop(u)][k] # u
    BY <1>1, <1>3, TasksAssumption DEF Kill
  <2>5. LocksOf(u)'
    BY <2>2, <2>4 DEF LocksOf, NoFrame, Call, Loop
  <2> QED BY <2>3, <2>5 DEF Shape
<1> QED BY <1>2, <1>3

LEMMA ShapeStep == IInv /\ [Next]_vars => IInv'
<1> SUFFICES ASSUME IInv, [Next]_vars PROVE IInv'
  OBVIOUS
<1>1. TypeOK'
  BY TypeStep DEF IInv
<1>2. \A u \in Tasks : Shape(u)'
  <2>1. CASE UNCHANGED vars
    BY <2>1, Undisturbed DEF vars
  <2>2. CASE Next
    BY <2>2, EnterShape, AcquireLocalShape, AcquireFileShape, LeaveShape, InterruptShape,
       ReleaseFileShape, ReleaseLocalShape, ExitShape, KillShape DEF Next, RunStep
  <2> QED BY <2>1, <2>2
<1> QED BY <1>1, <1>2 DEF IInv

LEMMA InductiveShape == Spec => []IInv
<1>1. Init => IInv
  BY InitType, InitShape DEF IInv
<1> QED
  BY <1>1, ShapeStep, PTL DEF Spec

-----------------------------------------------------------------------------
(* What the invariant gives. *)

LEMMA OpenIsOuter ==
  ASSUME IInv, NEW t \in Tasks, Open(t)
  PROVE  Outer(t).phase = "open" /\ \A k \in Wanted(t) : flock[k] = t
<1>1. Outer(t).phase = "open"
  <2>1. PICK d \in 1 .. depth[t] : frames[t][d].phase = "open"
    BY DEF Open
  <2>2. CASE d = 1
    BY <2>1, <2>2 DEF Outer
  <2>3. CASE d # 1
    BY <2>3 DEF IInv, Shape, OuterCall, TypeOK
  <2> QED BY <2>2, <2>3
<1>2. Outer(t).fds = Wanted(t) /\ Wanted(t) \in SUBSET Keys
  BY <1>1, ContractKeys DEF IInv, Shape, OuterCall, TypeOK
<1> QED BY <1>1, <1>2 DEF IInv, Shape, LocksOf

\* No two runs ever have windows open that share a target or an observer.
THEOREM ExclusiveOwnership == Spec => []WindowsAreExclusive
<1>1. IInv => WindowsAreExclusive
  BY OpenIsOuter DEF WindowsAreExclusive
<1> QED BY <1>1, InductiveShape, PTL

\* A window within a run's own window never takes a lock.
THEOREM ReentrantOwnership == Spec => []NestedWindowsNeverWait
<1>1. IInv => NestedWindowsNeverWait
  BY DEF IInv, Shape, InnerCalls, NestedWindowsNeverWait
<1> QED BY <1>1, InductiveShape, PTL

\* Every lock has exactly the owner whose call will return it.
THEOREM NoLockIsLost == Spec => []NothingLeaks
<1>1. ASSUME IInv PROVE NothingLeaks
  <2> SUFFICES ASSUME NEW t \in Tasks, NEW k \in Keys
               PROVE  /\ flock[k] = t <=> Owns(t, k)
                      /\ locked[Loop(t)][k] = t <=> OwnsLocal(t, k)
                      /\ Owns(t, k) => OwnsLocal(t, k)
    BY DEF NothingLeaks
  <2>1. depth[t] \in 0 .. MaxDepth /\ MaxDepth \in Nat
    BY <1>1, DepthAssumption DEF IInv, TypeOK
  <2>2. ASSUME NEW d \in 1 .. depth[t], d # 1
        PROVE  frames[t][d].local = {} /\ frames[t][d].fds = {}
    <3>1. d \in 2 .. MaxDepth
      BY <2>1, <2>2
    <3> QED BY <1>1, <3>1 DEF IInv, Shape, InnerCalls
  <2>3. Owns(t, k) <=> depth[t] > 0 /\ k \in Outer(t).fds
    BY <2>1, <2>2 DEF Owns, Outer
  <2>4. OwnsLocal(t, k) <=> depth[t] > 0 /\ k \in Outer(t).local
    BY <2>1, <2>2 DEF OwnsLocal, Outer
  <2>5. depth[t] = 0 => Outer(t).fds = {} /\ Outer(t).local = {}
    BY <1>1 DEF IInv, Shape, OuterCall
  <2>6. Outer(t).fds \subseteq Outer(t).local
    BY <1>1 DEF IInv, Shape, OuterCall
  <2> QED BY <1>1, <2>1, <2>3, <2>4, <2>5, <2>6 DEF IInv, Shape, LocksOf
<1> QED BY <1>1, InductiveShape, PTL

-----------------------------------------------------------------------------
(* Refinement: the step that opens a window grants all its keys.          *)

HeldIsLocked == \A t \in Tasks : \A k \in held[t] : flock[k] = t

LEMMA HeldFiles == IInv => HeldIsLocked
<1> SUFFICES ASSUME IInv, NEW t \in Tasks, NEW k \in held[t] PROVE flock[k] = t
  BY DEF HeldIsLocked
<1>1. k \in Keys /\ k \in Outer(t).fds
  BY DEF IInv, TypeOK, Shape, Context, OuterCall
<1> QED BY <1>1 DEF IInv, Shape, LocksOf

LEMMA GrantMaps ==
  ASSUME IInv, HeldIsLocked', NEW t \in Tasks, AcquireFile(t)
  PROVE  Exclusive!Next \/ UNCHANGED held
<1>1. CASE held' = held
  BY <1>1
<1>2. CASE held' = [held EXCEPT ![t] = @ \cup Top(t).missing]
  <2>1. Top(t).missing \in SUBSET Keys
    BY TopType DEF AcquireFile, At, IInv, Frame
  <2>2. held'[t] = held[t] \cup Top(t).missing
        /\ \A u \in Tasks \ {t} : held'[u] = held[u]
    BY <1>2 DEF IInv, TypeOK
  <2>3. \A u \in Tasks : \A k \in held'[u] : flock'[k] = u
    BY DEF HeldIsLocked
  <2>4. \A u \in Tasks \ {t} : held[u] \cap Top(t).missing = {}
    BY <2>2, <2>3
  <2>5. Exclusive!Grant(t, Top(t).missing)
    BY <1>2, <2>4 DEF Exclusive!Grant
  <2> QED BY <2>1, <2>5 DEF Exclusive!Next
<1> QED BY <1>1, <1>2 DEF AcquireFile, IInv, TypeOK

LEMMA LeaveMaps ==
  ASSUME IInv, NEW t \in Tasks, LeaveWindow(t)
  PROVE  Exclusive!Next
<1>1. Top(t) \in Frame /\ depth[t] \in 1 .. MaxDepth
  BY TopType DEF LeaveWindow, At, IInv
<1>2. Top(t).saved \in SUBSET Keys /\ held[t] \cap Top(t).saved = Top(t).saved
  <2>1. CASE depth[t] = 1
    BY <1>1, <2>1 DEF IInv, Shape, OuterCall, Top, Outer, Frame
  <2>2. CASE depth[t] # 1
    <3>1. depth[t] \in 2 .. MaxDepth
      BY <1>1, <2>2, DepthAssumption
    <3>2. Top(t).saved = Wanted(t) /\ held[t] = Wanted(t)
      BY <3>1 DEF IInv, Shape, InnerCalls, OuterCall, Context, Top
    <3> QED BY <1>1, <3>2 DEF Frame
  <2> QED BY <2>1, <2>2
<1>3. held' = [u \in Tasks |-> IF u \in {t} THEN held[u] \cap Top(t).saved ELSE held[u]]
  BY <1>2 DEF LeaveWindow, IInv, TypeOK
<1>4. Exclusive!GiveUp({t}, Top(t).saved)
  BY <1>3 DEF Exclusive!GiveUp
<1> QED BY <1>2, <1>4 DEF Exclusive!Next

LEMMA KillMaps ==
  ASSUME NEW p \in Processes, Kill(p)
  PROVE  Exclusive!Next
<1> DEFINE dead == {t \in Tasks : ProcessOf[Loop(t)] = p}
<1>1. held' = [u \in Tasks |-> IF u \in dead THEN held[u] \cap {} ELSE held[u]]
  BY DEF Kill
<1>2. Exclusive!GiveUp(dead, {})
  BY <1>1 DEF Exclusive!GiveUp
<1> QED BY <1>2 DEF Exclusive!Next

\* Taking the locks one by one, under cancellation, failure and death of
\* processes, implements granting a window all its keys in one step.
THEOREM OwnershipImplementsExclusiveWindows == Spec => ImplementsExclusiveWindows
<1>1. Init => Exclusive!Init
  BY DEF Init, Exclusive!Init
<1>2. ASSUME IInv, HeldIsLocked', [Next]_vars PROVE Exclusive!Next \/ UNCHANGED held
  <2>1. ASSUME NEW t \in Tasks, EnterWindow(t) PROVE UNCHANGED held
    BY <2>1 DEF EnterWindow
  <2>2. ASSUME NEW t \in Tasks,
               AcquireLocal(t) \/ ReleaseFile(t) \/ ReleaseLocal(t) \/ ExitWindow(t) \/ Interrupt(t)
        PROVE  UNCHANGED held
    BY <2>2 DEF AcquireLocal, ReleaseFile, ReleaseLocal, ExitWindow, Interrupt
  <2>3. CASE UNCHANGED vars
    BY <2>3 DEF vars
  <2> QED
    BY <1>2, <2>1, <2>2, <2>3, GrantMaps, LeaveMaps, KillMaps DEF Next, RunStep
<1>3. IInv /\ HeldIsLocked' /\ [Next]_vars => [Exclusive!Next]_held
  BY <1>2
<1> QED
  BY <1>1, <1>3, HeldFiles, InductiveShape, PTL DEF Spec, ImplementsExclusiveWindows, Exclusive!Spec
=============================================================================
