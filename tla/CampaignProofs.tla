--------------------------- MODULE CampaignProofs ----------------------------
(***************************************************************************)
(* What the runs check of Campaign, for every list of cases, every answer  *)
(* of the gate and every directory the campaign may find: the type         *)
(* invariant, that no evidence is lost, and that what is written down of   *)
(* the cleanup is true.                                                    *)
(*                                                                         *)
(* The inductive invariant says what the harness may conclude, at each step*)
(* of the cleanup, from what Docker has told it so far: RuntimeInv is      *)
(* about one runtime (Cleanup), MainInv about the campaign around it.      *)
(***************************************************************************)
EXTENDS Campaign, TLAPS

Early == {"create", "case", "release", "wait", "close", "finally", "fence"}
Steps == {"stop", "verify", "volumes", "preserve", "network", "volume", "ledger"}
Attempts == {"none", "PREPARED", "OPEN", "RECOVERY_REQUIRED", "ABORTED", "FENCED", "FINALIZED"}

\* The cases of the assumption, the reference, and no case.
CaseNames == {"reference", "startup", "interprobe", "delayed", "crash", "recovery", "none"}

WorkType ==
  [case : CaseNames, pc : Early \cup Steps \cup {"leave", "over"},
   todo : Seq(Owned \cup {"all", "broken", "unwritten"}), fence : {"none", "own", "new"}, guard : BOOLEAN,
   error : BOOLEAN, preserve : BOOLEAN, capture : {"none", "run", "no-run", "failed"}, fenced : BOOLEAN,
   errors : BOOLEAN, unpreserved : BOOLEAN, writers : BOOLEAN,
   seen : [Volumes -> {"PRESENT", "ABSENT", "UNKNOWN"}], ok : [Volumes -> BOOLEAN],
   result : {"none", "raised", "returned"}]

CopyType == [Volumes -> {"none", "part", "whole", "stale"}]
AttemptType == [own : Attempts, new : Attempts]
FilesType ==
  [cleanup : {"absent", "complete", "incomplete"}, finishOnly : BOOLEAN, refused : BOOLEAN, left : SUBSET Owned]

DockerTypeOK == exists \subseteq Owned /\ dying \subseteq exists /\ lost \subseteq Volumes

RuntimeTypeOK ==
  DockerTypeOK /\ copy \in CopyType /\ attempt \in AttemptType /\ work \in WorkType /\ files \in FilesType

\* What each step of the cleanup has still to do.
TodoInv ==
  /\ At("create") => work.todo \in Seq(Owned) /\ work.todo # <<>>
  /\ At("stop") => work.todo \in {<<"candidate", "evaluator", "fixture">>, <<"evaluator", "fixture">>, <<"fixture">>}
  /\ At("verify") => work.todo \in {<<"fixture", "evaluator", "candidate">>, <<"evaluator", "candidate">>, <<"candidate">>}
  /\ At("volumes") \/ At("preserve") => work.todo \in {<<"state", "output">>, <<"output">>}
  /\ At("network") => work.todo = <<"network">>
  /\ At("volume") => work.todo \in {<<"output", "state">>, <<"state">>}
  /\ At("ledger") => work.todo = <<"all">>

Left == Range(work.todo)

\* Nothing is removed, and nothing has failed, before the cleanup; no volume is
\* touched before its step.
QuietInv ==
  /\ work.pc \in Early => dying = {} /\ ~work.errors /\ ~work.writers /\ ~work.fenced
  /\ work.pc \in Early \cup {"stop", "verify", "volumes", "preserve", "network"} =>
       lost = {} /\ dying \cap Volumes = {}

\* A cleanup without an error has removed what it has been through.
RemovedInv ==
  /\ At("stop") /\ ~work.errors => Containers \cap exists \subseteq Left
  /\ work.pc \in Steps \ {"stop"} /\ ~work.errors => Containers \cap exists = {}
  /\ At("volume") /\ ~work.errors => "network" \notin exists
  /\ At("volume") /\ ~work.errors /\ ~work.preserve => exists \cap {"output"} \subseteq Left

\* When every writer was seen to be gone, no container is left.
WritersInv ==
  /\ At("verify") /\ ~work.writers => Containers \cap exists \subseteq Left
  /\ work.pc \in {"volumes", "preserve", "network", "volume", "ledger"} /\ ~work.writers =>
       Containers \cap exists = {}

\* On the failure path: what the volumes' step and the copies established of
\* each volume.
Kept(v) == v \notin exists \/ copy[v] = "whole"
CopiesInv ==
  work.preserve => \A v \in Volumes :
    /\ At("volumes") /\ v \notin Left /\ work.ok[v] => v \notin exists
    /\ work.pc \in {"preserve", "network", "volume", "ledger"} /\ ~work.writers /\ work.ok[v] => Kept(v)

\* On the failure path a volume goes when a copy of it is whole, and stays whole.
LostInv ==
  work.preserve => \A v \in Volumes : v \in lost \cup dying => copy[v] = "whole" /\ ~InUse(v)

\* Off it: the trusted state is asked to be removed when nothing else is left.
StateInv ==
  ~work.preserve =>
    /\ "state" \in lost => exists = {}
    /\ "state" \in dying => exists = {"state"}

\* The attempt to fence is the only one that may be open.
FenceInv ==
  /\ work.fence = "none" => attempt = NoAttempts
  /\ work.fence = "own" => attempt.new \in {"none", "PREPARED"}
  /\ work.fence = "new" => attempt.own = "ABORTED"
  /\ At("create") => attempt.new = "none"
  /\ At("case") /\ attempt.new = "PREPARED" => work.fence = "new"
  /\ FencedIsClosed

\* What is written down names everything that is left, or it could not be
\* written down at all.
LedgerInv ==
  work.pc \in {"leave", "over"} /\ exists # {} =>
    \/ exists \subseteq files.left /\ files.refused /\ files.finishOnly
    \/ work.todo = <<"unwritten">> /\ work.error /\ (At("over") => work.result = "raised")

\* In a directory no earlier use left a complete cleanup in, only a complete
\* cleanup is written down as one.
CompleteInv == files.cleanup = "complete" => work.pc \in {"leave", "over"} /\ exists = {}

RuntimeInv ==
  /\ RuntimeTypeOK /\ TodoInv /\ QuietInv /\ RemovedInv /\ WritersInv /\ CopiesInv /\ LostInv
  /\ StateInv /\ FenceInv /\ LedgerInv

-----------------------------------------------------------------------------
MainType ==
  [pc : {"case", "prepare", "promote", "gate", "copy", "finally", "leave", "exit"}, n : 1..Len(Order),
   todo : {Roles, <<"results">>}, error : BOOLEAN, summary : BOOLEAN, ledger : {"none", "errors"},
   finishOnly : BOOLEAN]
GateType == [Range(Roles) -> [there : BOOLEAN, lost : BOOLEAN, copy : {"none", "old", "whole", "part"}]]

MainTypeOK ==
  /\ main \in MainType /\ gate \in GateType
  /\ published \in [Range(Cases) -> Outcomes \cup {"none"}]
  /\ leftovers \subseteq {"reference"} \cup Range(Cases)

TypeOK == RuntimeTypeOK /\ MainTypeOK

\* Where the campaign is among its cases: the reference comes first, before
\* the volumes.
PlaceInv ==
  /\ In("prepare") \/ In("promote") => main.n = 1
  /\ In("gate") => main.n > 1
  /\ main.pc \in {"case", "promote", "gate", "copy", "leave"} => main.todo = Roles

\* The volumes of the gate: which are there, at each step, and what was done
\* about those the end has been through.
Behind == {r \in Range(Roles) : r \notin Range(main.todo)}
GateInv ==
  \A r \in Range(Roles) :
    /\ gate[r].lost => ~gate[r].there /\ gate[r].copy = "whole"
    /\ main.pc \notin {"finally", "leave", "exit"} => ~gate[r].lost
    /\ In("case") /\ main.n = 1 => ~gate[r].there
    /\ In("prepare") /\ r \in Behind => gate[r].there
    /\ main.pc \in {"promote", "gate", "copy"} \/ (In("case") /\ main.n > 1) => gate[r].there
    /\ In("finally") /\ r \notin Behind /\ ~main.error => gate[r].there
    /\ (In("finally") /\ r \in Behind) \/ In("leave") \/ In("exit") =>
         /\ gate[r].there => main.finishOnly
         /\ ~main.error /\ main.ledger = "none" => ~gate[r].there /\ gate[r].copy = "whole"

\* A campaign without an exception has left nothing, and got what it expected.
AcceptedInv ==
  ~main.error =>
    /\ leftovers = {}
    /\ main.pc \in {"finally", "leave", "exit"} =>
         main.summary /\ \A c \in Range(Cases) : published[c] = Expected(c)
    /\ In("exit") => main.ledger = "none"

MainInv == MainTypeOK /\ PlaceInv /\ GateInv

LEMMA OwnedIs == Owned = {"network", "state", "output", "fixture", "evaluator", "candidate"}
  BY DEF Owned, Creation, Range

LEMMA ReverseIs == Reverse(Running) = <<"candidate", "evaluator", "fixture">>
  BY DEF Reverse, Running

\* What a step to the next item leaves of the work.
Held(w) ==
  /\ w.case = work.case /\ w.fence = work.fence /\ w.guard = work.guard /\ w.error = work.error
  /\ w.preserve = work.preserve /\ w.capture = work.capture /\ w.fenced = work.fenced
  /\ w.errors = work.errors /\ w.unpreserved = work.unpreserved /\ w.writers = work.writers
  /\ w.seen = work.seen /\ w.ok = work.ok /\ w.result = work.result

LEMMA AdvanceFields ==
  ASSUME work \in WorkType, NEW next \in Steps \cup {"case"}, NEW todo \in Seq(Owned \cup {"all", "broken", "unwritten"}), work.todo # <<>>
  PROVE  /\ Advance(next, todo) \in WorkType /\ Held(Advance(next, todo))
         /\ Len(work.todo) > 1 => Advance(next, todo).pc = work.pc /\ Advance(next, todo).todo = Tail(work.todo)
         /\ ~(Len(work.todo) > 1) => Advance(next, todo).pc = next /\ Advance(next, todo).todo = todo
<1> DEFINE w == Advance(next, todo)
<1>1. CASE Len(work.todo) > 1
  <2>1. Tail(work.todo) \in Seq(Owned \cup {"all", "broken", "unwritten"})
    BY DEF WorkType
  <2>2. w = [work EXCEPT !.todo = Tail(work.todo)]
    BY <1>1 DEF Advance
  <2>3. w \in WorkType
    BY <2>1, <2>2 DEF WorkType
  <2>4. w.pc = work.pc /\ w.todo = Tail(work.todo) /\ Held(w)
    BY <2>2 DEF WorkType, Held
  <2> QED  BY <1>1, <2>3, <2>4
<1>2. CASE ~(Len(work.todo) > 1)
  <2>1. w = [work EXCEPT !.pc = next, !.todo = todo]
    BY <1>2 DEF Advance
  <2>3. w \in WorkType
    BY <2>1 DEF WorkType, Steps, Early
  <2>4. w.pc = next /\ w.todo = todo /\ Held(w)
    BY <2>1 DEF WorkType, Held
  <2> QED  BY <1>2, <2>3, <2>4
<1>3. QED  BY <1>1, <1>2

LEMMA Three ==
  ASSUME NEW a, NEW b, NEW c
  PROVE  /\ Head(<<a, b, c>>) = a /\ Len(<<a, b, c>>) > 1 /\ Tail(<<a, b, c>>) = <<b, c>>
         /\ Range(<<a, b, c>>) = {a, b, c} /\ <<a, b, c>> # <<>>
<1>1. Range(<<a, b, c>>) = {a, b, c}
  BY DEF Range
<1>2. QED  BY <1>1

LEMMA Two ==
  ASSUME NEW a, NEW b
  PROVE  /\ Head(<<a, b>>) = a /\ Len(<<a, b>>) > 1 /\ Tail(<<a, b>>) = <<b>>
         /\ Range(<<a, b>>) = {a, b} /\ <<a, b>> # <<>>
<1>1. Range(<<a, b>>) = {a, b}
  BY DEF Range
<1>2. QED  BY <1>1

LEMMA One ==
  ASSUME NEW a
  PROVE  Head(<<a>>) = a /\ ~(Len(<<a>>) > 1) /\ Range(<<a>>) = {a} /\ <<a>> # <<>>
<1>1. Range(<<a>>) = {a}
  BY DEF Range
<1>2. QED  BY <1>1

LEMMA StopTodo ==
  /\ Head(<<"candidate", "evaluator", "fixture">>) = "candidate" /\ Range(<<"candidate", "evaluator", "fixture">>) = {"candidate", "evaluator", "fixture"} /\ <<"candidate", "evaluator", "fixture">> # <<>>
  /\ Len(<<"candidate", "evaluator", "fixture">>) > 1 /\ Tail(<<"candidate", "evaluator", "fixture">>) = <<"evaluator", "fixture">>
  /\ Head(<<"evaluator", "fixture">>) = "evaluator" /\ Range(<<"evaluator", "fixture">>) = {"evaluator", "fixture"} /\ <<"evaluator", "fixture">> # <<>>
  /\ Len(<<"evaluator", "fixture">>) > 1 /\ Tail(<<"evaluator", "fixture">>) = <<"fixture">>
  /\ Head(<<"fixture">>) = "fixture" /\ Range(<<"fixture">>) = {"fixture"} /\ <<"fixture">> # <<>>
  /\ ~(Len(<<"fixture">>) > 1)
  BY Three, Two, One

LEMMA VerifyTodo ==
  /\ Head(<<"fixture", "evaluator", "candidate">>) = "fixture" /\ Range(<<"fixture", "evaluator", "candidate">>) = {"fixture", "evaluator", "candidate"} /\ <<"fixture", "evaluator", "candidate">> # <<>>
  /\ Len(<<"fixture", "evaluator", "candidate">>) > 1 /\ Tail(<<"fixture", "evaluator", "candidate">>) = <<"evaluator", "candidate">>
  /\ Head(<<"evaluator", "candidate">>) = "evaluator" /\ Range(<<"evaluator", "candidate">>) = {"evaluator", "candidate"} /\ <<"evaluator", "candidate">> # <<>>
  /\ Len(<<"evaluator", "candidate">>) > 1 /\ Tail(<<"evaluator", "candidate">>) = <<"candidate">>
  /\ Head(<<"candidate">>) = "candidate" /\ Range(<<"candidate">>) = {"candidate"} /\ <<"candidate">> # <<>>
  /\ ~(Len(<<"candidate">>) > 1)
  BY Three, Two, One

LEMMA VolumesTodo ==
  /\ Head(<<"state", "output">>) = "state" /\ Range(<<"state", "output">>) = {"state", "output"} /\ <<"state", "output">> # <<>>
  /\ Len(<<"state", "output">>) > 1 /\ Tail(<<"state", "output">>) = <<"output">>
  /\ Head(<<"output">>) = "output" /\ Range(<<"output">>) = {"output"} /\ <<"output">> # <<>>
  /\ ~(Len(<<"output">>) > 1)
  BY Three, Two, One

LEMMA VolumeTodo ==
  /\ Head(<<"output", "state">>) = "output" /\ Range(<<"output", "state">>) = {"output", "state"} /\ <<"output", "state">> # <<>>
  /\ Len(<<"output", "state">>) > 1 /\ Tail(<<"output", "state">>) = <<"state">>
  /\ Head(<<"state">>) = "state" /\ Range(<<"state">>) = {"state"} /\ <<"state">> # <<>>
  /\ ~(Len(<<"state">>) > 1)
  BY Three, Two, One

LEMMA StopAdvance ==
  ASSUME RuntimeInv, At("stop"), NEW w, w = Advance("verify", Running)
  PROVE  /\ w \in WorkType /\ Held(w)
         /\ \/ Left = {"candidate", "evaluator", "fixture"} /\ Item = "candidate" /\ w.pc = "stop" /\ w.todo = <<"evaluator", "fixture">>
            \/ Left = {"evaluator", "fixture"} /\ Item = "evaluator" /\ w.pc = "stop" /\ w.todo = <<"fixture">>
            \/ Left = {"fixture"} /\ Item = "fixture" /\ w.pc = "verify" /\ w.todo = <<"fixture", "evaluator", "candidate">>
<1>1. work.todo \in {<<"candidate", "evaluator", "fixture">>, <<"evaluator", "fixture">>, <<"fixture">>} /\ work \in WorkType
  BY DEF RuntimeInv, RuntimeTypeOK, TodoInv
<1>2. Running \in Seq(Owned \cup {"all", "broken", "unwritten"})
  BY OwnedIs DEF Running
<1>3. work.todo # <<>>
  BY <1>1, StopTodo
<1>4. /\ w \in WorkType /\ Held(w)
      /\ Len(work.todo) > 1 => w.pc = work.pc /\ w.todo = Tail(work.todo)
      /\ ~(Len(work.todo) > 1) => w.pc = "verify" /\ w.todo = Running
  <2>1. "verify" \in Steps \cup {"case"}
    BY DEF Steps
  <2>2. QED  BY <1>1, <1>2, <1>3, <2>1, AdvanceFields
<1>5. CASE work.todo = <<"candidate", "evaluator", "fixture">>
  BY <1>4, <1>5, StopTodo DEF At, Item, Left
<1>6. CASE work.todo = <<"evaluator", "fixture">>
  BY <1>4, <1>6, StopTodo DEF At, Item, Left
<1>7. CASE work.todo = <<"fixture">>
  BY <1>4, <1>7, StopTodo DEF At, Item, Left, Running
<1>8. QED
  BY <1>1, <1>5, <1>6, <1>7

\* What a removal of r, confirmed or not, does to Docker: the resources of
\* gone are no longer there, and r may go later.
Shrinks(r, gone) ==
  /\ gone \subseteq {r} \cap exists /\ exists' = exists \ gone /\ lost' = lost \cup (gone \cap Volumes)
  /\ dying' \subseteq (dying \cup {r}) \cap exists'
  /\ gone # {} => ~InUse(r)

LEMMA ShrinksType == ASSUME RuntimeInv, NEW r, NEW gone, Shrinks(r, gone) PROVE DockerTypeOK'
  BY DEF RuntimeInv, RuntimeTypeOK, DockerTypeOK, Shrinks

LEMMA NotConfirmedShrinks == ASSUME RuntimeInv, NEW r, NotConfirmed(r) PROVE Shrinks(r, {})
  BY DEF RuntimeInv, RuntimeTypeOK, DockerTypeOK, Shrinks, NotConfirmed

LEMMA RemovedShrinks == ASSUME RuntimeInv, NEW r, Removed(r) PROVE Shrinks(r, {r})
  BY DEF RuntimeInv, RuntimeTypeOK, DockerTypeOK, Shrinks, Removed, Gone

LEMMA UnchangedShrinks == ASSUME RuntimeInv, NEW r, DockerUnchanged PROVE Shrinks(r, {})
  BY DEF RuntimeInv, RuntimeTypeOK, DockerTypeOK, Shrinks, DockerUnchanged

LEMMA StopContainerStep == ASSUME RuntimeInv, StopContainer PROVE RuntimeInv'
<1>1. At("stop") /\ copy' = copy /\ attempt' = attempt /\ files' = files
  BY DEF StopContainer
<1>2. PICK failed \in BOOLEAN :
       /\ IF failed THEN NotConfirmed(Item)
          ELSE Removed(Item) \/ (Item \notin exists /\ DockerUnchanged)
       /\ work' = [Advance("verify", Running) EXCEPT !.errors = @ \/ failed]
  BY DEF StopContainer
<1>3. PICK w, i : w = Advance("verify", Running) /\ i = Item
  OBVIOUS
<1>4. /\ w \in WorkType /\ Held(w)
      /\ \/ Left = {"candidate", "evaluator", "fixture"} /\ i = "candidate" /\ w.pc = "stop" /\ w.todo = <<"evaluator", "fixture">>
         \/ Left = {"evaluator", "fixture"} /\ i = "evaluator" /\ w.pc = "stop" /\ w.todo = <<"fixture">>
         \/ Left = {"fixture"} /\ i = "fixture" /\ w.pc = "verify" /\ w.todo = <<"fixture", "evaluator", "candidate">>
  BY <1>1, <1>3, StopAdvance
<1>5. /\ work' \in WorkType
      /\ work'.pc = w.pc /\ work'.todo = w.todo /\ work'.errors = (work.errors \/ failed)
      /\ work'.preserve = work.preserve /\ work'.writers = work.writers /\ work'.ok = work.ok
      /\ work'.fence = work.fence /\ work'.fenced = work.fenced
  <2>1. work' = [w EXCEPT !.errors = w.errors \/ failed]
    BY <1>2, <1>3
  <2>2. QED  BY <1>4, <2>1 DEF WorkType, Held
<1>6. \/ Left' = {"evaluator", "fixture"} /\ i = "candidate" /\ work'.pc = "stop" /\ Left = Left' \cup {i}
      \/ Left' = {"fixture"} /\ i = "evaluator" /\ work'.pc = "stop" /\ Left = Left' \cup {i}
      \/ Left' = {"fixture", "evaluator", "candidate"} /\ i = "fixture" /\ work'.pc = "verify" /\ Left = {i}
  BY <1>4, <1>5, StopTodo, VerifyTodo DEF Left
<1>7. PICK gone : Shrinks(i, gone) /\ (~failed => i \notin exists')
  <2>1. CASE failed
    BY <1>2, <1>3, <2>1, NotConfirmedShrinks
  <2>2. CASE ~failed /\ Removed(i)
    BY <2>2, RemovedShrinks DEF Removed, Gone
  <2>3. CASE ~failed /\ i \notin exists /\ DockerUnchanged
    BY <2>3, UnchangedShrinks DEF DockerUnchanged
  <2>4. QED  BY <1>2, <1>3, <2>1, <2>2, <2>3
<1>8. RuntimeTypeOK'
  BY <1>1, <1>5, <1>7, ShrinksType DEF RuntimeInv, RuntimeTypeOK
<1>9. TodoInv'
  BY <1>4, <1>5 DEF TodoInv, At
<1>10. QuietInv'
  BY <1>1, <1>5, <1>6, <1>7 DEF RuntimeInv, QuietInv, At, Early, Volumes, Shrinks
<1>11. StateInv'
  BY <1>5, <1>6, <1>10 DEF QuietInv, StateInv, Volumes
<1>12. RemovedInv'
  BY <1>1, <1>5, <1>6, <1>7 DEF RuntimeInv, RemovedInv, At, Steps, Containers, Shrinks
<1>13. WritersInv'
  BY <1>1, <1>5, <1>6, <1>7 DEF WritersInv, At, Containers
<1>14. CopiesInv' /\ LostInv'
  BY <1>5, <1>6, <1>10 DEF QuietInv, CopiesInv, LostInv, At, Volumes
<1>15. FenceInv' /\ LedgerInv'
  BY <1>1, <1>5, <1>6 DEF RuntimeInv, FenceInv, FencedIsClosed, LedgerInv, At
<1>16. QED  BY <1>8, <1>9, <1>10, <1>11, <1>12, <1>13, <1>14, <1>15 DEF RuntimeInv

\* A step before the cleanup proper keeps the invariant when it touches nothing
\* that was created, and goes on or starts to stop the containers.
LEMMA EarlyStep ==
  ASSUME RuntimeInv, work.pc \in Early, work' \in WorkType, work'.pc \in Early \cup {"stop"},
         work'.errors = work.errors, work'.writers = work.writers, work'.pc \in Early => ~work'.fenced,
         work'.pc = "create" => work'.todo \in Seq(Owned) /\ work'.todo # <<>>,
         work'.pc = "stop" => work'.todo = <<"candidate", "evaluator", "fixture">>,
         exists \subseteq exists', exists' \subseteq Owned, dying' = dying, lost' = lost, copy' = copy, files' = files,
         attempt' \in AttemptType, FenceInv'
  PROVE  RuntimeInv'
<1>1. dying = {} /\ lost = {} /\ ~work.errors /\ ~work.writers
  BY DEF RuntimeInv, QuietInv
<1>2. RuntimeTypeOK'
  BY <1>1 DEF RuntimeInv, RuntimeTypeOK, DockerTypeOK
<1>3. TodoInv'
  BY DEF TodoInv, At, Early
<1>4. QuietInv'
  BY <1>1 DEF QuietInv
<1>5. RemovedInv' /\ WritersInv'
  BY StopTodo DEF RemovedInv, WritersInv, At, Early, Steps, Left, Containers
<1>6. CopiesInv' /\ LostInv' /\ StateInv'
  BY <1>1 DEF CopiesInv, LostInv, StateInv, At, Early
<1>7. LedgerInv'
  BY DEF LedgerInv, Early
<1>8. QED  BY <1>2, <1>3, <1>4, <1>5, <1>6, <1>7 DEF RuntimeInv

\* The work after a step of the case: somewhere before the cleanup proper.
Onward(w) ==
  /\ w \in WorkType /\ w.pc \in {"release", "wait", "close", "finally", "fence"}
  /\ w.errors = work.errors /\ w.writers = work.writers /\ w.fenced = work.fenced

LEMMA RaisedOnward ==
  ASSUME RuntimeInv, NEW pc \in {"finally", "fence"}
  PROVE  Onward(Raised(pc)) /\ Raised(pc).fence = work.fence /\ Raised(pc).pc = pc
  BY DEF RuntimeInv, RuntimeTypeOK, Onward, Raised, WorkType, Early

LEMMA CaseKeeps ==
  ASSUME RuntimeInv, work.pc \in Early, Onward(work'), work'.fence = work.fence, attempt' = attempt,
         DockerUnchanged, copy' = copy, files' = files
  PROVE  RuntimeInv'
<1>1. /\ work' \in WorkType /\ work'.pc \in Early \ {"create", "case"} /\ ~work'.fenced
      /\ work'.errors = work.errors /\ work'.writers = work.writers
  BY DEF RuntimeInv, QuietInv, Onward, Early
<1>2. FenceInv' /\ attempt' \in AttemptType
  BY <1>1 DEF RuntimeInv, RuntimeTypeOK, FenceInv, FencedIsClosed, At
<1>3. exists \subseteq exists' /\ exists' \subseteq Owned /\ dying' = dying /\ lost' = lost
  BY DEF RuntimeInv, RuntimeTypeOK, DockerTypeOK, DockerUnchanged
<1>4. QED  BY <1>1, <1>2, <1>3, EarlyStep DEF Early

LEMMA CaseRaisesStep ==
  ASSUME RuntimeInv, work.pc \in Early, CaseRaises, DockerUnchanged, copy' = copy, files' = files, attempt' = attempt
  PROVE  RuntimeInv'
<1>1. Onward(work') /\ work'.fence = work.fence
  BY RaisedOnward DEF CaseRaises
<1>2. QED  BY <1>1, CaseKeeps

LEMMA ToStep ==
  ASSUME RuntimeInv, work.pc \in Early, NEW pc \in {"release", "wait", "close", "finally"}, To(pc),
         DockerUnchanged, copy' = copy, files' = files, attempt' = attempt
  PROVE  RuntimeInv'
<1>1. Onward(work') /\ work'.fence = work.fence
  BY DEF To, RuntimeInv, RuntimeTypeOK, WorkType, Onward, Early
<1>2. QED  BY <1>1, CaseKeeps

LEMMA StartupStep == ASSUME RuntimeInv, Startup PROVE RuntimeInv'
<1>1. /\ At("case")
      /\ To("close") \/ CaseRaises
      /\ DockerUnchanged /\ copy' = copy /\ files' = files /\ attempt' = attempt
  BY DEF Startup, CaseStep
<1>2. work.pc \in Early
  BY <1>1 DEF At, Early
<1>3. QED  BY <1>1, <1>2, ToStep, CaseRaisesStep

LEMMA DelayedStep == ASSUME RuntimeInv, Delayed PROVE RuntimeInv'
<1>1. /\ At("case") \/ At("release")
      /\ To("close") \/ To("release") \/ CaseRaises
      /\ DockerUnchanged /\ copy' = copy /\ files' = files /\ attempt' = attempt
  BY DEF Delayed, CaseStep
<1>2. work.pc \in Early
  BY <1>1 DEF At, Early
<1>3. QED  BY <1>1, <1>2, ToStep, CaseRaisesStep

LEMMA InterprobeStep == ASSUME RuntimeInv, Interprobe PROVE RuntimeInv'
<1>1. /\ work.pc \in Early
      /\ \/ work' = [work EXCEPT !.pc = "release", !.guard = TRUE]
         \/ To("wait")
         \/ work' = [work EXCEPT !.pc = "close", !.guard = FALSE]
         \/ CaseRaises
         \/ At("finally") /\ \E killed \in BOOLEAN :
              work' = [work EXCEPT !.guard = FALSE, !.error = @ \/ ~killed, !.preserve = @ \/ ~killed]
      /\ DockerUnchanged /\ copy' = copy /\ files' = files /\ attempt' = attempt
  BY DEF Interprobe, CaseStep, At, Early
<1>2. CASE work' = [work EXCEPT !.pc = "release", !.guard = TRUE]
  <2>1. Onward(work') /\ work'.fence = work.fence
    BY <1>2 DEF RuntimeInv, RuntimeTypeOK, WorkType, Onward, Early
  <2>2. QED  BY <1>1, <2>1, CaseKeeps
<1>3. CASE work' = [work EXCEPT !.pc = "close", !.guard = FALSE]
  <2>1. Onward(work') /\ work'.fence = work.fence
    BY <1>3 DEF RuntimeInv, RuntimeTypeOK, WorkType, Onward, Early
  <2>2. QED  BY <1>1, <2>1, CaseKeeps
<1>4. CASE At("finally") /\ \E killed \in BOOLEAN :
              work' = [work EXCEPT !.guard = FALSE, !.error = @ \/ ~killed, !.preserve = @ \/ ~killed]
  <2>1. PICK error \in BOOLEAN, preserve \in BOOLEAN :
          work' = [work EXCEPT !.guard = FALSE, !.error = error, !.preserve = preserve]
    BY <1>4
  <2>2. Onward(work') /\ work'.fence = work.fence
    BY <1>4, <2>1 DEF RuntimeInv, RuntimeTypeOK, WorkType, Onward, Early, At
  <2>3. QED  BY <1>1, <2>2, CaseKeeps
<1>5. QED  BY <1>1, <1>2, <1>3, <1>4, ToStep, CaseRaisesStep

LEMMA CrashStep == ASSUME RuntimeInv, Crash PROVE RuntimeInv'
<1>1. /\ At("case")
      /\ work' = [work EXCEPT !.pc = "finally", !.preserve = TRUE] \/ CaseRaises
      /\ DockerUnchanged /\ copy' = copy /\ files' = files /\ attempt' = attempt
  BY DEF Crash, CaseStep
<1>2. work.pc \in Early
  BY <1>1 DEF At, Early
<1>3. CASE work' = [work EXCEPT !.pc = "finally", !.preserve = TRUE]
  <2>1. Onward(work') /\ work'.fence = work.fence
    BY <1>3 DEF RuntimeInv, RuntimeTypeOK, WorkType, Onward, Early
  <2>2. QED  BY <1>1, <1>2, <2>1, CaseKeeps
<1>4. QED  BY <1>1, <1>2, <1>3, CaseRaisesStep

LEMMA CreateStep == ASSUME RuntimeInv, Create PROVE RuntimeInv'
<1>1. /\ At("create") /\ dying' = dying /\ lost' = lost /\ copy' = copy /\ attempt' = attempt /\ files' = files
      /\ exists' \in {exists, exists \cup {Item}}
      /\ work' = Advance("case", <<>>) \/ work' = Raised("fence")
  BY DEF Create, SetupFails
<1>2. work.todo \in Seq(Owned) /\ work.todo # <<>> /\ work \in WorkType
  BY <1>1 DEF RuntimeInv, RuntimeTypeOK, TodoInv
<1>3. Item \in Owned /\ (Len(work.todo) > 1 => Tail(work.todo) \in Seq(Owned) /\ Tail(work.todo) # <<>>)
  <2>1. Len(work.todo) \in Nat /\ Head(work.todo) \in Owned /\ Tail(work.todo) \in Seq(Owned)
    BY <1>2
  <2>2. Len(work.todo) > 1 => Len(Tail(work.todo)) > 0
    BY <1>2, <2>1
  <2>3. QED  BY <2>1, <2>2 DEF Item
<1>4. /\ work' \in WorkType /\ work'.pc \in {"create", "case", "fence"} /\ work'.fence = work.fence
      /\ work'.errors = work.errors /\ work'.writers = work.writers /\ work'.fenced = work.fenced
      /\ work'.pc = "create" => work'.todo \in Seq(Owned) /\ work'.todo # <<>>
  <2>1. CASE work' = Advance("case", <<>>)
    <3>1. <<>> \in Seq(Owned \cup {"all", "broken", "unwritten"})
      OBVIOUS
    <3>2. /\ work' \in WorkType /\ Held(work')
          /\ Len(work.todo) > 1 => work'.pc = work.pc /\ work'.todo = Tail(work.todo)
          /\ ~(Len(work.todo) > 1) => work'.pc = "case" /\ work'.todo = <<>>
      BY <1>2, <2>1, <3>1, AdvanceFields
    <3>3. QED  BY <1>1, <1>3, <3>2 DEF Held, At
  <2>2. CASE work' = Raised("fence")
    BY <2>2, RaisedOnward DEF Onward
  <2>3. QED  BY <1>1, <2>1, <2>2
<1>5. ~work.fenced /\ attempt.new = "none" /\ work.pc \in Early
  BY <1>1 DEF RuntimeInv, QuietInv, FenceInv, At, Early
<1>6. FenceInv' /\ attempt' \in AttemptType
  BY <1>1, <1>4, <1>5 DEF RuntimeInv, RuntimeTypeOK, FenceInv, FencedIsClosed, At
<1>7. exists \subseteq exists' /\ exists' \subseteq Owned
  BY <1>1, <1>3 DEF RuntimeInv, RuntimeTypeOK, DockerTypeOK
<1>8. QED  BY <1>1, <1>4, <1>5, <1>6, <1>7, EarlyStep DEF Early

LEMMA OpenAttemptStep == ASSUME RuntimeInv, OpenAttempt PROVE RuntimeInv'
<1>1. PICK next \in {"PREPARED", "OPEN"} :
      /\ At("create") /\ attempt' \in {attempt, [attempt EXCEPT !.own = next]}
      /\ work' = [work EXCEPT !.fence = "own"] \/ work' = [Raised("fence") EXCEPT !.fence = "own"]
      /\ DockerUnchanged /\ UNCHANGED <<copy, files>>
  BY DEF OpenAttempt
<1>2. /\ work' \in WorkType /\ work'.pc \in {"create", "fence"} /\ work'.fence = "own"
      /\ work'.errors = work.errors /\ work'.writers = work.writers /\ work'.fenced = work.fenced
      /\ work'.pc = "create" => work'.todo = work.todo
  <2>1. CASE work' = [work EXCEPT !.fence = "own"]
    BY <1>1, <2>1 DEF RuntimeInv, RuntimeTypeOK, WorkType, At
  <2>2. CASE work' = [Raised("fence") EXCEPT !.fence = "own"]
    BY <2>2, RaisedOnward DEF Onward, WorkType
  <2>3. QED  BY <1>1, <2>1, <2>2
<1>3. ~work.fenced /\ attempt.new = "none" /\ work.pc \in Early /\ work.todo \in Seq(Owned) /\ work.todo # <<>>
  BY <1>1 DEF RuntimeInv, QuietInv, TodoInv, FenceInv, At, Early
<1>4. attempt' \in AttemptType /\ attempt'.new = "none"
  BY <1>1, <1>3 DEF RuntimeInv, RuntimeTypeOK, AttemptType, Attempts
<1>5. FenceInv'
  BY <1>2, <1>3, <1>4 DEF FenceInv, FencedIsClosed, At
<1>6. exists \subseteq exists' /\ exists' \subseteq Owned /\ dying' = dying /\ lost' = lost /\ copy' = copy /\ files' = files
  BY <1>1 DEF RuntimeInv, RuntimeTypeOK, DockerTypeOK, DockerUnchanged
<1>7. QED  BY <1>2, <1>3, <1>4, <1>5, <1>6, EarlyStep DEF Early

\* A step that moves the attempts on, and never opens one that is not the one to
\* be fenced.
LEMMA AttemptKeeps ==
  ASSUME RuntimeInv, work.pc \in Early, work' \in WorkType, work'.pc \in Early \ {"create"},
         work'.errors = work.errors, work'.writers = work.writers, work'.fenced = work.fenced,
         DockerUnchanged, copy' = copy, files' = files, attempt' \in AttemptType,
         work'.fence = "none" => attempt' = NoAttempts,
         work'.fence = "own" => attempt'.new \in {"none", "PREPARED"},
         work'.fence = "new" => attempt'.own = "ABORTED",
         work'.pc = "case" /\ attempt'.new = "PREPARED" => work'.fence = "new"
  PROVE  RuntimeInv'
<1>1. ~work'.fenced
  BY DEF RuntimeInv, QuietInv
<1>2. FenceInv'
  BY <1>1 DEF FenceInv, FencedIsClosed, At
<1>3. exists \subseteq exists' /\ exists' \subseteq Owned /\ dying' = dying /\ lost' = lost
  BY DEF RuntimeInv, RuntimeTypeOK, DockerTypeOK, DockerUnchanged
<1>4. QED  BY <1>1, <1>2, <1>3, EarlyStep DEF Early

LEMMA RecoveryStepKeeps == ASSUME RuntimeInv, Recovery PROVE RuntimeInv'
<1> DEFINE at(own, new) == [own |-> own, new |-> new]
<1>1. /\ At("case") /\ DockerUnchanged /\ copy' = copy /\ files' = files
      /\ \/ attempt = at("OPEN", "none") /\ attempt' \in {at("OPEN", "none"), at("RECOVERY_REQUIRED", "none")}
            /\ (work' = work \/ CaseRaises)
         \/ attempt = at("RECOVERY_REQUIRED", "none") /\ attempt' \in {at("RECOVERY_REQUIRED", "none"), at("ABORTED", "none")}
            /\ (work' = work \/ CaseRaises)
         \/ attempt = at("ABORTED", "none") /\ attempt' \in {at("ABORTED", "none"), at("ABORTED", "PREPARED")}
            /\ (work' = [work EXCEPT !.fence = "new"] \/ CaseRaises)
         \/ attempt = at("ABORTED", "PREPARED") /\ attempt' \in {at("ABORTED", "PREPARED"), at("ABORTED", "OPEN")}
            /\ (work' = [work EXCEPT !.pc = "close"] \/ CaseRaises)
  BY DEF Recovery, RecoveryStep
<1>2. work \in WorkType /\ work.pc = "case" /\ work.pc \in Early
  BY <1>1 DEF RuntimeInv, RuntimeTypeOK, At, Early
<1>3. attempt' \in AttemptType
  BY <1>1 DEF AttemptType, Attempts
<1>4. CASE CaseRaises
  <2>1. Onward(work') /\ work'.fence = work.fence /\ work'.pc = "finally"
    BY <1>4, RaisedOnward DEF CaseRaises
  <2>2. /\ work'.fence = "none" => attempt' = NoAttempts
        /\ work'.fence = "own" => attempt'.new \in {"none", "PREPARED"}
        /\ work'.fence = "new" => attempt'.own = "ABORTED"
    BY <1>1, <1>2, <2>1 DEF RuntimeInv, FenceInv, NoAttempts, At
  <2>3. QED  BY <1>1, <1>2, <1>3, <2>1, <2>2, AttemptKeeps DEF Onward, Early
<1>5. CASE work' = work /\ attempt'.new = "none" /\ attempt.own # "ABORTED" /\ attempt # NoAttempts
  <2>1. /\ work'.fence = "none" => attempt' = NoAttempts
        /\ work'.fence = "own" => attempt'.new \in {"none", "PREPARED"}
        /\ work'.fence = "new" => attempt'.own = "ABORTED"
    BY <1>5 DEF RuntimeInv, FenceInv
  <2>2. QED  BY <1>1, <1>2, <1>3, <1>5, <2>1, AttemptKeeps DEF Early
<1>6. CASE work' = [work EXCEPT !.fence = "new"] /\ attempt'.own = "ABORTED"
  <2>1. /\ work' \in WorkType /\ work'.pc = work.pc /\ work'.fence = "new"
        /\ work'.errors = work.errors /\ work'.writers = work.writers /\ work'.fenced = work.fenced
    BY <1>2, <1>6 DEF WorkType
  <2>2. QED  BY <1>1, <1>2, <1>3, <1>6, <2>1, AttemptKeeps DEF Early
<1>7. CASE work' = [work EXCEPT !.pc = "close"] /\ attempt = at("ABORTED", "PREPARED") /\ attempt'.own = "ABORTED"
  <2>1. work.fence = "new"
    BY <1>1, <1>7 DEF RuntimeInv, FenceInv
  <2>2. /\ work' \in WorkType /\ work'.pc = "close" /\ work'.fence = "new"
        /\ work'.errors = work.errors /\ work'.writers = work.writers /\ work'.fenced = work.fenced
    BY <1>2, <1>7, <2>1 DEF WorkType, Early
  <2>3. QED  BY <1>1, <1>2, <1>3, <1>7, <2>2, AttemptKeeps DEF Early
<1>8. QED  BY <1>1, <1>4, <1>5, <1>6, <1>7 DEF NoAttempts

LEMMA FinalizeStep == ASSUME RuntimeInv, Finalize PROVE RuntimeInv'
<1> DEFINE next == [attempt EXCEPT ![work.fence] = IF @ = "OPEN" THEN "FENCED" ELSE "FINALIZED"]
<1>1. /\ At("close") /\ DockerUnchanged /\ copy' = copy /\ files' = files /\ attempt' \in {attempt, next}
      /\ To("finally") \/ work' = work \/ CaseRaises
  BY DEF Finalize
<1>2. work \in WorkType /\ work.pc = "close" /\ work.pc \in Early
  BY <1>1 DEF RuntimeInv, RuntimeTypeOK, At, Early
<1>3. attempt' \in AttemptType
  BY <1>1, <1>2 DEF RuntimeInv, RuntimeTypeOK, AttemptType, Attempts, WorkType
<1>4. /\ work.fence = "none" => attempt' = NoAttempts
      /\ work.fence = "own" => attempt'.new \in {"none", "PREPARED"}
      /\ work.fence = "new" => attempt'.own = "ABORTED"
  BY <1>1 DEF RuntimeInv, RuntimeTypeOK, FenceInv, AttemptType, NoAttempts
<1>5. /\ work' \in WorkType /\ work'.pc \in {"close", "finally"} /\ work'.fence = work.fence
      /\ work'.errors = work.errors /\ work'.writers = work.writers /\ work'.fenced = work.fenced
  <2>1. CASE To("finally")
    BY <1>2, <2>1 DEF To, WorkType, Early
  <2>2. CASE CaseRaises
    BY <2>2, RaisedOnward DEF CaseRaises, Onward
  <2>3. QED  BY <1>1, <1>2, <2>1, <2>2
<1>6. QED  BY <1>1, <1>2, <1>3, <1>4, <1>5, AttemptKeeps DEF Early

LEMMA CaptureStep == ASSUME RuntimeInv, Capture PROVE RuntimeInv'
<1>1. PICK c \in {"none", "run", "no-run", "failed"} :
        work' = [work EXCEPT !.pc = IF work.preserve \/ c = "failed" THEN "fence" ELSE "stop",
                             !.todo = Reverse(Running), !.capture = c, !.preserve = work.preserve \/ c = "failed"]
  BY DEF Capture
<1>2. At("finally") /\ DockerUnchanged /\ copy' = copy /\ files' = files /\ attempt' = attempt
  BY DEF Capture
<1>3. work \in WorkType /\ work.pc \in Early /\ ~work.fenced
  BY <1>2 DEF RuntimeInv, RuntimeTypeOK, QuietInv, At, Early
<1>4. <<"candidate", "evaluator", "fixture">> \in Seq(Owned \cup {"all", "broken", "unwritten"})
  BY OwnedIs
<1>5. /\ work' \in WorkType /\ work'.pc \in {"fence", "stop"} /\ work'.todo = <<"candidate", "evaluator", "fixture">>
      /\ work'.fence = work.fence /\ work'.errors = work.errors /\ work'.writers = work.writers /\ work'.fenced = work.fenced
  BY <1>1, <1>3, <1>4, ReverseIs DEF WorkType, Early, Steps
<1>6. FenceInv' /\ attempt' \in AttemptType
  BY <1>2, <1>3, <1>5 DEF RuntimeInv, RuntimeTypeOK, FenceInv, FencedIsClosed, At
<1>7. exists \subseteq exists' /\ exists' \subseteq Owned /\ dying' = dying /\ lost' = lost
  BY <1>2 DEF RuntimeInv, RuntimeTypeOK, DockerTypeOK, DockerUnchanged
<1>8. QED  BY <1>2, <1>3, <1>5, <1>6, <1>7, EarlyStep DEF Early

LEMMA FenceStep == ASSUME RuntimeInv, Fence PROVE RuntimeInv'
<1>1. PICK done \in BOOLEAN :
        /\ done => work.fence = "none" \/ attempt[work.fence] # "none"
        /\ attempt' \in (IF done THEN {Closed(work.fence)} ELSE {attempt, Closed(work.fence)})
        /\ work' = [work EXCEPT !.pc = "stop", !.todo = Reverse(Running), !.fenced = done]
  BY DEF Fence
<1>2. At("fence") /\ DockerUnchanged /\ copy' = copy /\ files' = files
  BY DEF Fence
<1>3. work \in WorkType /\ work.pc \in Early
  BY <1>2 DEF RuntimeInv, RuntimeTypeOK, At, Early
<1>4. <<"candidate", "evaluator", "fixture">> \in Seq(Owned \cup {"all", "broken", "unwritten"})
  BY OwnedIs
<1>5. /\ work' \in WorkType /\ work'.pc = "stop" /\ work'.todo = <<"candidate", "evaluator", "fixture">> /\ work'.fenced = done
      /\ work'.fence = work.fence /\ work'.errors = work.errors /\ work'.writers = work.writers
  BY <1>1, <1>3, <1>4, ReverseIs DEF WorkType, Early, Steps
<1>6. /\ attempt' \in AttemptType
      /\ work.fence = "none" => attempt' = NoAttempts
      /\ work.fence = "own" => attempt'.new \in {"none", "PREPARED"}
      /\ work.fence = "new" => attempt'.own = "ABORTED"
      /\ done /\ work.fence # "none" => attempt'[work.fence] # "OPEN"
  BY <1>1, <1>3 DEF RuntimeInv, RuntimeTypeOK, FenceInv, AttemptType, Attempts, NoAttempts, Closed, WorkType
<1>7. FencedIsClosed'
  BY <1>3, <1>5, <1>6 DEF FencedIsClosed, AttemptType, NoAttempts, WorkType
<1>8. FenceInv'
  BY <1>5, <1>6, <1>7 DEF FenceInv, At
<1>9. exists \subseteq exists' /\ exists' \subseteq Owned /\ dying' = dying /\ lost' = lost
  BY <1>2 DEF RuntimeInv, RuntimeTypeOK, DockerTypeOK, DockerUnchanged
<1>10. QED  BY <1>2, <1>3, <1>5, <1>6, <1>8, <1>9, EarlyStep DEF Early

\* After the fence no step has to do with the attempts.
LEMMA FenceKeeps ==
  ASSUME RuntimeInv, work.pc \notin Early, work'.pc \notin Early, attempt' = attempt,
         work'.fence = work.fence, work'.fenced = work.fenced
  PROVE  FenceInv'
  BY DEF RuntimeInv, FenceInv, FencedIsClosed, At, Early

\* The work at the next item of each step.
LEMMA VerifyAdvance ==
  ASSUME RuntimeInv, At("verify"), NEW w, w = Advance("volumes", <<"state", "output">>)
  PROVE  /\ w \in WorkType /\ Held(w)
         /\ \/ Left = {"fixture", "evaluator", "candidate"} /\ Item = "fixture" /\ w.pc = "verify" /\ w.todo = <<"evaluator", "candidate">>
            \/ Left = {"evaluator", "candidate"} /\ Item = "evaluator" /\ w.pc = "verify" /\ w.todo = <<"candidate">>
            \/ Left = {"candidate"} /\ Item = "candidate" /\ w.pc = "volumes" /\ w.todo = <<"state", "output">>
<1>1. work.todo \in {<<"fixture", "evaluator", "candidate">>, <<"evaluator", "candidate">>, <<"candidate">>} /\ work \in WorkType
  BY DEF RuntimeInv, RuntimeTypeOK, TodoInv
<1>2. <<"state", "output">> \in Seq(Owned \cup {"all", "broken", "unwritten"})
  BY OwnedIs
<1>3. work.todo # <<>>
  BY <1>1, VerifyTodo
<1>4. /\ w \in WorkType /\ Held(w)
      /\ Len(work.todo) > 1 => w.pc = work.pc /\ w.todo = Tail(work.todo)
      /\ ~(Len(work.todo) > 1) => w.pc = "volumes" /\ w.todo = <<"state", "output">>
  <2>1. "volumes" \in Steps \cup {"case"}
    BY DEF Steps
  <2>2. QED  BY <1>1, <1>2, <1>3, <2>1, AdvanceFields
<1>5. CASE work.todo = <<"fixture", "evaluator", "candidate">>
  BY <1>4, <1>5, VerifyTodo DEF At, Item, Left
<1>6. CASE work.todo = <<"evaluator", "candidate">>
  BY <1>4, <1>6, VerifyTodo DEF At, Item, Left
<1>7. CASE work.todo = <<"candidate">>
  BY <1>4, <1>7, VerifyTodo DEF At, Item, Left
<1>8. QED  BY <1>1, <1>5, <1>6, <1>7

LEMMA VolumesAdvance ==
  ASSUME RuntimeInv, NEW pc \in {"volumes", "preserve"}, At(pc), NEW next \in {"preserve", "network"},
         NEW todo \in {<<"state", "output">>, <<"network">>}, NEW w, w = Advance(next, todo)
  PROVE  /\ w \in WorkType /\ Held(w)
         /\ \/ Left = {"state", "output"} /\ Item = "state" /\ w.pc = pc /\ w.todo = <<"output">>
            \/ Left = {"output"} /\ Item = "output" /\ w.pc = next /\ w.todo = todo
<1>1. work.todo \in {<<"state", "output">>, <<"output">>} /\ work \in WorkType
  BY DEF RuntimeInv, RuntimeTypeOK, TodoInv, At
<1>2. todo \in Seq(Owned \cup {"all", "broken", "unwritten"})
  <2>1. CASE todo = <<"state", "output">>
    BY <2>1, OwnedIs
  <2>2. CASE todo = <<"network">>
    BY <2>2, OwnedIs
  <2>3. QED  BY <2>1, <2>2
<1>3. work.todo # <<>>
  BY <1>1, VolumesTodo
<1>4. /\ w \in WorkType /\ Held(w)
      /\ Len(work.todo) > 1 => w.pc = work.pc /\ w.todo = Tail(work.todo)
      /\ ~(Len(work.todo) > 1) => w.pc = next /\ w.todo = todo
  <2>1. next \in Steps \cup {"case"}
    BY DEF Steps
  <2>2. QED  BY <1>1, <1>2, <1>3, <2>1, AdvanceFields
<1>5. CASE work.todo = <<"state", "output">>
  BY <1>4, <1>5, VolumesTodo DEF At, Item, Left
<1>6. CASE work.todo = <<"output">>
  BY <1>4, <1>6, VolumesTodo DEF At, Item, Left
<1>7. QED  BY <1>1, <1>5, <1>6

LEMMA NetworkAdvance ==
  ASSUME RuntimeInv, At("network"), NEW w, w = Advance("volume", <<"output", "state">>)
  PROVE  w \in WorkType /\ Held(w) /\ Item = "network" /\ w.pc = "volume" /\ w.todo = <<"output", "state">>
<1>1. work.todo = <<"network">> /\ work \in WorkType
  BY DEF RuntimeInv, RuntimeTypeOK, TodoInv
<1>2. <<"output", "state">> \in Seq(Owned \cup {"all", "broken", "unwritten"}) /\ "volume" \in Steps \cup {"case"}
  BY OwnedIs DEF Steps
<1>3. work.todo # <<>> /\ ~(Len(work.todo) > 1) /\ Item = "network"
  BY <1>1, One DEF Item
<1>4. QED  BY <1>1, <1>2, <1>3, AdvanceFields

LEMMA VolumeAdvance ==
  ASSUME RuntimeInv, At("volume"), NEW w, w = Advance("ledger", <<"all">>)
  PROVE  /\ w \in WorkType /\ Held(w)
         /\ \/ Left = {"output", "state"} /\ Item = "output" /\ w.pc = "volume" /\ w.todo = <<"state">>
            \/ Left = {"state"} /\ Item = "state" /\ w.pc = "ledger" /\ w.todo = <<"all">>
<1>1. work.todo \in {<<"output", "state">>, <<"state">>} /\ work \in WorkType
  BY DEF RuntimeInv, RuntimeTypeOK, TodoInv, At
<1>2. <<"all">> \in Seq(Owned \cup {"all", "broken", "unwritten"})
  BY OwnedIs
<1>3. work.todo # <<>>
  BY <1>1, VolumeTodo
<1>4. /\ w \in WorkType /\ Held(w)
      /\ Len(work.todo) > 1 => w.pc = work.pc /\ w.todo = Tail(work.todo)
      /\ ~(Len(work.todo) > 1) => w.pc = "ledger" /\ w.todo = <<"all">>
  <2>1. "ledger" \in Steps \cup {"case"}
    BY DEF Steps
  <2>2. QED  BY <1>1, <1>2, <1>3, <2>1, AdvanceFields
<1>5. CASE work.todo = <<"output", "state">>
  BY <1>4, <1>5, VolumeTodo DEF At, Item, Left
<1>6. CASE work.todo = <<"state">>
  BY <1>4, <1>6, VolumeTodo DEF At, Item, Left
<1>7. QED  BY <1>1, <1>5, <1>6

LEMMA VerifyContainerStep == ASSUME RuntimeInv, VerifyContainer PROVE RuntimeInv'
<1>1. At("verify") /\ DockerUnchanged /\ copy' = copy /\ attempt' = attempt /\ files' = files
  BY DEF VerifyContainer
<1>20. PICK p \in Presence(Item) :
          work' = [Advance("volumes", <<"state", "output">>) EXCEPT
                     !.writers = @ \/ p # "ABSENT", !.errors = @ \/ p # "ABSENT"]
  BY DEF VerifyContainer
<1>21. PICK seen \in BOOLEAN : seen = (p # "ABSENT")
  OBVIOUS
<1>22. PICK w, i : w = Advance("volumes", <<"state", "output">>) /\ i = Item
  OBVIOUS
<1>2. seen \/ i \notin exists
  BY <1>20, <1>21, <1>22 DEF Presence
<1>3. /\ w \in WorkType /\ Held(w)
      /\ \/ Left = {"fixture", "evaluator", "candidate"} /\ i = "fixture" /\ w.pc = "verify" /\ w.todo = <<"evaluator", "candidate">>
         \/ Left = {"evaluator", "candidate"} /\ i = "evaluator" /\ w.pc = "verify" /\ w.todo = <<"candidate">>
         \/ Left = {"candidate"} /\ i = "candidate" /\ w.pc = "volumes" /\ w.todo = <<"state", "output">>
  BY <1>1, <1>22, VerifyAdvance
<1>4. /\ work' \in WorkType /\ work'.pc = w.pc /\ work'.todo = w.todo
      /\ work'.errors = (work.errors \/ seen) /\ work'.writers = (work.writers \/ seen)
      /\ work'.preserve = work.preserve /\ work'.ok = work.ok
      /\ work'.fence = work.fence /\ work'.fenced = work.fenced
  <2>1. PICK writers \in BOOLEAN, errors \in BOOLEAN :
          writers = (w.writers \/ seen) /\ errors = (w.errors \/ seen)
    OBVIOUS
  <2>2. work' = [w EXCEPT !.writers = writers, !.errors = errors]
    BY <1>20, <1>21, <1>22, <2>1
  <2>3. /\ work' \in WorkType /\ work'.pc = w.pc /\ work'.todo = w.todo
        /\ work'.errors = errors /\ work'.writers = writers
        /\ work'.preserve = w.preserve /\ work'.ok = w.ok /\ work'.fence = w.fence /\ work'.fenced = w.fenced
    BY <1>3, <2>2 DEF WorkType
  <2>4. QED  BY <1>3, <2>1, <2>3 DEF Held
<1>5. \/ work'.pc = "verify" /\ Left = Left' \cup {i}
      \/ work'.pc = "volumes" /\ Left = {i} /\ Left' = Volumes
  BY <1>3, <1>4, VerifyTodo, VolumesTodo DEF Left, Volumes
<1>6. exists' = exists /\ dying' = dying /\ lost' = lost
  BY <1>1 DEF DockerUnchanged
<1>7. RuntimeTypeOK'
  BY <1>1, <1>4, <1>6 DEF RuntimeInv, RuntimeTypeOK, DockerTypeOK
<1>8. TodoInv'
  BY <1>3, <1>4 DEF TodoInv, At
<1>9. QuietInv' /\ StateInv'
  BY <1>1, <1>4, <1>5, <1>6 DEF RuntimeInv, QuietInv, StateInv, At, Early
<1>10. RemovedInv'
  BY <1>1, <1>4, <1>5, <1>6 DEF RuntimeInv, RemovedInv, At, Steps
<1>11. WritersInv'
  BY <1>1, <1>2, <1>4, <1>5, <1>6 DEF RuntimeInv, WritersInv, At
<1>12. CopiesInv' /\ LostInv'
  BY <1>1, <1>4, <1>5, <1>6, <1>9 DEF QuietInv, CopiesInv, LostInv, At
<1>13. FenceInv' /\ LedgerInv'
  BY <1>1, <1>4, <1>5, FenceKeeps DEF At, Early, LedgerInv
<1>14. QED  BY <1>7, <1>8, <1>9, <1>10, <1>11, <1>12, <1>13 DEF RuntimeInv

LEMMA InspectVolumeStep == ASSUME RuntimeInv, InspectVolume PROVE RuntimeInv'
<1>1. At("volumes") /\ DockerUnchanged /\ copy' = copy /\ attempt' = attempt /\ files' = files
  BY DEF InspectVolume
<1> DEFINE next == IF work.preserve THEN "preserve" ELSE "network"
           todo == IF work.preserve THEN <<"state", "output">> ELSE <<"network">>
<1>20. PICK p \in Presence(Item) :
        work' = [Advance(next, todo) EXCEPT !.seen[Item] = p, !.ok[Item] = (p = "ABSENT"),
                                            !.unpreserved = @ \/ p = "UNKNOWN"]
  <2>1. CASE work.preserve
    BY <2>1 DEF InspectVolume
  <2>2. CASE ~work.preserve
    BY <2>2 DEF InspectVolume
  <2>3. QED  BY <2>1, <2>2
<1>21. next \in {"preserve", "network"} /\ todo \in {<<"state", "output">>, <<"network">>}
  OBVIOUS
<1>22. PICK w, i : w = Advance(next, todo) /\ i = Item
  OBVIOUS
<1>23. PICK absent \in BOOLEAN : absent = (p = "ABSENT")
  OBVIOUS
<1>2. p \in {"PRESENT", "ABSENT", "UNKNOWN"} /\ (absent => i \notin exists)
  BY <1>20, <1>22, <1>23 DEF Presence
<1>3. /\ w \in WorkType /\ Held(w)
      /\ \/ Left = {"state", "output"} /\ i = "state" /\ w.pc = "volumes" /\ w.todo = <<"output">>
         \/ Left = {"output"} /\ i = "output" /\ w.pc = next /\ w.todo = todo
  BY <1>1, <1>21, <1>22, VolumesAdvance
<1>4. /\ work' \in WorkType /\ work'.pc = w.pc /\ work'.todo = w.todo /\ work'.errors = work.errors
      /\ work'.writers = work.writers /\ work'.preserve = work.preserve
      /\ work'.ok = [work.ok EXCEPT ![i] = absent]
      /\ work'.fence = work.fence /\ work'.fenced = work.fenced
  <2>0. PICK unpreserved \in BOOLEAN : unpreserved = (w.unpreserved \/ p = "UNKNOWN")
    OBVIOUS
  <2>1. work' = [w EXCEPT !.seen = [w.seen EXCEPT ![i] = p], !.ok = [w.ok EXCEPT ![i] = absent],
                          !.unpreserved = unpreserved]
    BY <1>20, <1>22, <1>23, <1>3, <2>0 DEF WorkType
  <2>2. /\ [w.seen EXCEPT ![i] = p] \in [Volumes -> {"PRESENT", "ABSENT", "UNKNOWN"}]
        /\ [w.ok EXCEPT ![i] = absent] \in [Volumes -> BOOLEAN]
    BY <1>2, <1>3 DEF WorkType
  <2>3. QED  BY <1>3, <2>0, <2>1, <2>2 DEF WorkType, Held
<1>5. /\ \/ work'.pc = "volumes" /\ i = "state" /\ Left = Volumes /\ Left' = {"output"}
         \/ work'.pc \in {"preserve", "network"} /\ i = "output" /\ Left = {"output"}
      /\ work.ok \in [Volumes -> BOOLEAN]
  BY <1>21, <1>3, <1>4, VolumesTodo DEF Left, Volumes, RuntimeInv, RuntimeTypeOK, WorkType
<1>6. exists' = exists /\ dying' = dying /\ lost' = lost
  BY <1>1 DEF DockerUnchanged
<1>7. RuntimeTypeOK'
  BY <1>1, <1>4, <1>6 DEF RuntimeInv, RuntimeTypeOK, DockerTypeOK
<1>8. TodoInv'
  BY <1>20, <1>3, <1>4 DEF TodoInv, At
<1>9. QuietInv' /\ StateInv'
  BY <1>1, <1>4, <1>5, <1>6 DEF RuntimeInv, QuietInv, StateInv, At, Early
<1>10. RemovedInv' /\ WritersInv'
  BY <1>1, <1>4, <1>5, <1>6 DEF RuntimeInv, RemovedInv, WritersInv, At, Steps
<1>11. CopiesInv' /\ LostInv'
  <2>1. ASSUME work.preserve, NEW v \in Volumes, work'.ok[v], work'.pc = "volumes" => v \notin Left'
        PROVE  v \notin exists
    BY <1>1, <1>2, <1>4, <1>5, <2>1 DEF RuntimeInv, CopiesInv, At, Volumes
  <2>2. QED  BY <1>4, <1>5, <1>6, <1>9, <2>1 DEF QuietInv, CopiesInv, LostInv, At, Kept
<1>12. FenceInv' /\ LedgerInv'
  BY <1>1, <1>4, <1>5, FenceKeeps DEF At, Early, LedgerInv
<1>13. QED  BY <1>7, <1>8, <1>9, <1>10, <1>11, <1>12 DEF RuntimeInv

\* A removal of something that is no volume loses none.
LEMMA ElsewhereKeeps ==
  ASSUME RuntimeInv, NEW r, r \notin Volumes, NEW gone, Shrinks(r, gone), copy' = copy, work'.preserve = work.preserve
  PROVE  LostInv' /\ StateInv'
<1>1. LostInv'
  BY DEF RuntimeInv, LostInv, Shrinks, InUse
<1>2. StateInv'
  BY DEF RuntimeInv, RuntimeTypeOK, DockerTypeOK, StateInv, Shrinks, Volumes
<1>3. QED  BY <1>1, <1>2

\* A volume that may be removed was copied, or was seen not to be there, on the
\* failure path; off it, the trusted state is then all that is left.
LEMMA VolumeGoes ==
  ASSUME RuntimeInv, At("volume"), MayRemove(Item), NEW gone, Shrinks(Item, gone), copy' = copy,
         work'.preserve = work.preserve
  PROVE  LostInv' /\ StateInv'
<1>1. PICK i : i = Item
  OBVIOUS
<1>2. (Left = {"output", "state"} /\ i = "output") \/ (Left = {"state"} /\ i = "state")
  BY <1>1, VolumeAdvance
<1>3. LostInv'
  <2>1. SUFFICES ASSUME work.preserve, NEW v \in Volumes, v \in lost' \cup dying'
                 PROVE  copy[v] = "whole" /\ ~InUse(v)
    BY DEF LostInv, Shrinks, InUse
  <2>2. CASE v \in lost \cup dying
    BY <2>1, <2>2 DEF RuntimeInv, LostInv
  <2>3. CASE v \notin lost \cup dying
    <3>1. v = i /\ i \in exists
      BY <1>1, <2>1, <2>3 DEF Shrinks
    <3>2. ~work.writers /\ work.ok[i]
      BY <1>1, <2>1 DEF MayRemove
    <3>3. Kept(i) /\ Containers \cap exists = {}
      BY <2>1, <3>1, <3>2 DEF RuntimeInv, CopiesInv, WritersInv, At
    <3>4. QED  BY <3>1, <3>3 DEF Kept, InUse
  <2>4. QED  BY <2>2, <2>3
<1>4. StateInv'
  <2>1. SUFFICES ASSUME ~work.preserve
                 PROVE  /\ "state" \in lost' => exists' = {}
                        /\ "state" \in dying' => exists' = {"state"}
    BY DEF StateInv
  <2>2. ~work.errors
    BY <2>1 DEF MayRemove
  <2>3. i = "state" => exists \subseteq {"state"}
    BY <1>2, <2>1, <2>2, OwnedIs DEF RuntimeInv, RuntimeTypeOK, DockerTypeOK, RemovedInv, At, Steps, Containers
  <2>4. CASE i = "state"
    BY <1>1, <2>1, <2>3, <2>4 DEF RuntimeInv, RuntimeTypeOK, DockerTypeOK, StateInv, Shrinks
  <2>5. CASE i = "output"
    BY <1>1, <2>1, <2>5 DEF RuntimeInv, RuntimeTypeOK, DockerTypeOK, StateInv, Shrinks
  <2>6. QED  BY <1>2, <2>4, <2>5
<1>5. QED  BY <1>3, <1>4

LEMMA PreserveStep == ASSUME RuntimeInv, Preserve PROVE RuntimeInv'
<1>1. At("preserve") /\ DockerUnchanged /\ attempt' = attempt /\ files' = files
  BY DEF Preserve
<1>2. PICK w, i : w = Advance("network", <<"network">>) /\ i = Item
  OBVIOUS
<1>3. /\ w \in WorkType /\ Held(w)
      /\ \/ Left = {"state", "output"} /\ i = "state" /\ w.pc = "preserve" /\ w.todo = <<"output">>
         \/ Left = {"output"} /\ i = "output" /\ w.pc = "network" /\ w.todo = <<"network">>
  BY <1>1, <1>2, VolumesAdvance
<1>4. i \in Volumes /\ work.ok \in [Volumes -> BOOLEAN] /\ copy \in CopyType
  BY <1>3 DEF RuntimeInv, RuntimeTypeOK, WorkType, Volumes
<1>5. /\ work' \in WorkType /\ work'.pc = w.pc /\ work'.todo = w.todo /\ work'.errors = work.errors
      /\ work'.writers = work.writers /\ work'.preserve = work.preserve
      /\ work'.fence = work.fence /\ work'.fenced = work.fenced
      /\ copy' \in CopyType
      /\ \A v \in Volumes : work'.ok[v] => copy'[v] = "whole" \/ (work.ok[v] /\ copy'[v] = copy[v])
  <2>1. CASE work.seen[Item] = "PRESENT" /\ ~work.writers
    <3>1. PICK good \in BOOLEAN :
            /\ Copied(Item, good)
            /\ work' = [Advance("network", <<"network">>) EXCEPT
                          !.ok[Item] = good, !.unpreserved = @ \/ ~good]
      BY <2>1 DEF Preserve
    <3>2. PICK unpreserved \in BOOLEAN : unpreserved = (w.unpreserved \/ ~good)
      OBVIOUS
    <3>3. work' = [w EXCEPT !.ok = [work.ok EXCEPT ![i] = good], !.unpreserved = unpreserved]
      BY <1>2, <1>3, <3>1, <3>2 DEF Held, WorkType
    <3>4. /\ work' \in WorkType /\ work'.pc = w.pc /\ work'.todo = w.todo /\ work'.errors = w.errors
          /\ work'.writers = w.writers /\ work'.preserve = w.preserve
          /\ work'.fence = w.fence /\ work'.fenced = w.fenced
          /\ work'.ok = [work.ok EXCEPT ![i] = good]
      BY <1>3, <1>4, <3>3 DEF WorkType
    <3>5. copy' = [copy EXCEPT ![i] = IF good THEN "whole" ELSE "part"]
      BY <1>2, <3>1 DEF Copied
    <3>6. QED  BY <1>3, <1>4, <3>4, <3>5 DEF Held, CopyType
  <2>2. CASE ~(work.seen[Item] = "PRESENT" /\ ~work.writers)
    <3>1. PICK unpreserved \in BOOLEAN : unpreserved = (w.unpreserved \/ work.seen[Item] = "PRESENT")
      OBVIOUS
    <3>2. work' = [w EXCEPT !.unpreserved = unpreserved] /\ copy' = copy
      BY <1>2, <2>2, <3>1 DEF Preserve
    <3>3. /\ work' \in WorkType /\ work'.pc = w.pc /\ work'.todo = w.todo /\ work'.errors = w.errors
          /\ work'.writers = w.writers /\ work'.preserve = w.preserve
          /\ work'.fence = w.fence /\ work'.fenced = w.fenced /\ work'.ok = w.ok
      BY <1>3, <3>2 DEF WorkType
    <3>4. QED  BY <1>3, <1>4, <3>2, <3>3 DEF Held
  <2>3. QED  BY <2>1, <2>2
<1>6. exists' = exists /\ dying' = dying /\ lost' = lost /\ work'.pc \in {"preserve", "network"}
  BY <1>1, <1>3, <1>5 DEF DockerUnchanged
<1>7. RuntimeTypeOK'
  BY <1>1, <1>5, <1>6 DEF RuntimeInv, RuntimeTypeOK, DockerTypeOK
<1>8. TodoInv'
  BY <1>3, <1>5 DEF TodoInv, At
<1>9. QuietInv' /\ StateInv'
  BY <1>1, <1>5, <1>6 DEF RuntimeInv, QuietInv, StateInv, At, Early
<1>10. RemovedInv' /\ WritersInv'
  BY <1>1, <1>5, <1>6 DEF RuntimeInv, RemovedInv, WritersInv, At, Steps
<1>11. LostInv'
  BY <1>6, <1>9 DEF QuietInv, LostInv
<1>12. CopiesInv'
  BY <1>1, <1>5, <1>6 DEF RuntimeInv, CopiesInv, Kept, At
<1>13. FenceInv' /\ LedgerInv'
  BY <1>1, <1>5, <1>6, FenceKeeps DEF At, Early, LedgerInv
<1>14. QED  BY <1>7, <1>8, <1>9, <1>10, <1>11, <1>12, <1>13 DEF RuntimeInv

\* docker network rm, docker volume rm: an error is noted unless the thing is
\* gone.
LEMMA NamedFields ==
  ASSUME RuntimeInv, NEW next, NEW todo, NEW w, w = Advance(next, todo), w \in WorkType, Held(w),
         RemoveNamed(next, todo)
  PROVE  /\ \E gone : Shrinks(Item, gone)
         /\ Item \notin exists' \/ work'.errors
         /\ work.errors => work'.errors
         /\ work' \in WorkType /\ work'.pc = w.pc /\ work'.todo = w.todo
         /\ work'.preserve = work.preserve /\ work'.writers = work.writers /\ work'.ok = work.ok
         /\ work'.fence = work.fence /\ work'.fenced = work.fenced
<1>1. CASE Removed(Item) /\ work' = w
  <2>1. Shrinks(Item, {Item}) /\ Item \notin exists'
    BY <1>1, RemovedShrinks DEF Removed, Gone
  <2>2. QED  BY <1>1, <2>1 DEF Held
<1>2. ASSUME NotConfirmed(Item), NEW p \in Presence(Item), work' = [w EXCEPT !.errors = w.errors \/ p # "ABSENT"]
      PROVE  /\ \E gone : Shrinks(Item, gone)
             /\ Item \notin exists' \/ work'.errors
             /\ work.errors => work'.errors
             /\ work' \in WorkType /\ work'.pc = w.pc /\ work'.todo = w.todo
             /\ work'.preserve = work.preserve /\ work'.writers = work.writers /\ work'.ok = work.ok
             /\ work'.fence = work.fence /\ work'.fenced = work.fenced
  <2>1. PICK errors \in BOOLEAN : errors = (w.errors \/ p # "ABSENT")
    OBVIOUS
  <2>2. work' = [w EXCEPT !.errors = errors]
    BY <1>2, <2>1
  <2>3. /\ work' \in WorkType /\ work'.errors = errors /\ work'.pc = w.pc /\ work'.todo = w.todo
        /\ work'.preserve = w.preserve /\ work'.writers = w.writers /\ work'.ok = w.ok
        /\ work'.fence = w.fence /\ work'.fenced = w.fenced
    BY <2>2 DEF WorkType
  <2>4. Item \notin exists \/ p # "ABSENT"
    BY <1>2 DEF Presence
  <2>5. Shrinks(Item, {}) /\ exists' = exists
    BY <1>2, NotConfirmedShrinks DEF NotConfirmed
  <2>6. QED  BY <2>1, <2>3, <2>4, <2>5 DEF Held
<1>3. QED  BY <1>1, <1>2 DEF RemoveNamed

LEMMA RemoveNetworkStep == ASSUME RuntimeInv, RemoveNetwork PROVE RuntimeInv'
<1>1. At("network") /\ copy' = copy /\ attempt' = attempt /\ files' = files /\ RemoveNamed("volume", <<"output", "state">>)
  BY DEF RemoveNetwork
<1>2. PICK w : w = Advance("volume", <<"output", "state">>)
  OBVIOUS
<1>3. w \in WorkType /\ Held(w) /\ Item = "network" /\ w.pc = "volume" /\ w.todo = <<"output", "state">>
  BY <1>1, <1>2, NetworkAdvance
<1>4. /\ \E gone : Shrinks("network", gone)
      /\ "network" \notin exists' \/ work'.errors
      /\ work.errors => work'.errors
      /\ work' \in WorkType /\ work'.pc = "volume" /\ work'.todo = <<"output", "state">>
      /\ work'.preserve = work.preserve /\ work'.writers = work.writers /\ work'.ok = work.ok
      /\ work'.fence = work.fence /\ work'.fenced = work.fenced
  BY <1>1, <1>2, <1>3, NamedFields
<1>5. PICK gone : Shrinks("network", gone)
  BY <1>4
<1>6. RuntimeTypeOK'
  BY <1>1, <1>4, <1>5, ShrinksType DEF RuntimeInv, RuntimeTypeOK
<1>7. TodoInv' /\ QuietInv' /\ LedgerInv'
  BY <1>4 DEF TodoInv, QuietInv, LedgerInv, At, Early
<1>8. Left' = {"output", "state"}
  BY <1>4, VolumeTodo DEF Left
<1>9. RemovedInv' /\ WritersInv'
  BY <1>1, <1>4, <1>5, <1>8 DEF RuntimeInv, RemovedInv, WritersInv, At, Steps, Shrinks
<1>10. LostInv' /\ StateInv'
  BY <1>1, <1>4, <1>5, ElsewhereKeeps DEF Volumes
<1>11. CopiesInv'
  BY <1>1, <1>4, <1>5 DEF RuntimeInv, CopiesInv, Kept, At, Shrinks
<1>12. FenceInv'
  BY <1>1, <1>4, FenceKeeps DEF At, Early
<1>13. QED  BY <1>6, <1>7, <1>9, <1>10, <1>11, <1>12 DEF RuntimeInv

LEMMA RemoveVolumeStep == ASSUME RuntimeInv, RemoveVolume PROVE RuntimeInv'
<1>1. At("volume") /\ copy' = copy /\ attempt' = attempt /\ files' = files
  BY DEF RemoveVolume
<1>2. PICK w, i : w = Advance("ledger", <<"all">>) /\ i = Item
  OBVIOUS
<1>3. /\ w \in WorkType /\ Held(w)
      /\ \/ Left = {"output", "state"} /\ i = "output" /\ w.pc = "volume" /\ w.todo = <<"state">>
         \/ Left = {"state"} /\ i = "state" /\ w.pc = "ledger" /\ w.todo = <<"all">>
  BY <1>1, <1>2, VolumeAdvance
<1>4. /\ \E gone : Shrinks(i, gone)
      /\ i \notin exists' \/ work'.errors \/ work.preserve
      /\ work.errors => work'.errors
      /\ work' \in WorkType /\ work'.pc = w.pc /\ work'.todo = w.todo
      /\ work'.preserve = work.preserve /\ work'.writers = work.writers /\ work'.ok = work.ok
      /\ work'.fence = work.fence /\ work'.fenced = work.fenced
      /\ MayRemove(i) \/ DockerUnchanged
  <2>1. CASE MayRemove(i)
    <3>1. RemoveNamed("ledger", <<"all">>)
      BY <1>2, <2>1 DEF RemoveVolume
    <3>2. QED  BY <1>2, <1>3, <2>1, <3>1, NamedFields
  <2>2. CASE ~MayRemove(i)
    <3>1. DockerUnchanged /\ work' = w
      BY <1>2, <2>2 DEF RemoveVolume
    <3>2. Shrinks(i, {})
      BY <3>1, UnchangedShrinks
    <3>3. work.errors \/ work.preserve
      BY <2>2 DEF MayRemove
    <3>4. QED  BY <1>3, <3>1, <3>2, <3>3 DEF Held
  <2>3. QED  BY <2>1, <2>2
<1>5. PICK gone : Shrinks(i, gone)
  BY <1>4
<1>6. RuntimeTypeOK'
  BY <1>1, <1>4, <1>5, ShrinksType DEF RuntimeInv, RuntimeTypeOK
<1>7. TodoInv' /\ QuietInv' /\ LedgerInv'
  BY <1>3, <1>4 DEF TodoInv, QuietInv, LedgerInv, At, Early
<1>8. \/ Left = {"output", "state"} /\ i = "output" /\ work'.pc = "volume" /\ Left' = {"state"}
      \/ Left = {"state"} /\ i = "state" /\ work'.pc = "ledger"
  BY <1>3, <1>4, VolumeTodo DEF Left
<1>9. RemovedInv'
  BY <1>1, <1>4, <1>5, <1>8 DEF RuntimeInv, RemovedInv, At, Steps, Shrinks
<1>10. WritersInv'
  BY <1>1, <1>4, <1>5, <1>8 DEF RuntimeInv, WritersInv, At, Shrinks
<1>11. LostInv' /\ StateInv'
  <2>1. CASE MayRemove(i)
    BY <1>1, <1>2, <1>4, <1>5, <2>1, VolumeGoes
  <2>2. CASE DockerUnchanged
    BY <1>1, <1>4, <2>2 DEF RuntimeInv, LostInv, StateInv, DockerUnchanged, InUse
  <2>3. QED  BY <1>4, <2>1, <2>2
<1>12. CopiesInv'
  BY <1>1, <1>4, <1>5, <1>8 DEF RuntimeInv, CopiesInv, Kept, At, Shrinks
<1>13. FenceInv'
  BY <1>1, <1>4, <1>8, FenceKeeps DEF At, Early
<1>14. QED  BY <1>6, <1>7, <1>9, <1>10, <1>11, <1>12, <1>13 DEF RuntimeInv

\* Once the cleanup has been left no step of it remains.
LEMMA Leaving ==
  ASSUME RuntimeInv, work.pc \notin Early, work' \in WorkType, work'.pc \in {"leave", "over"},
         work'.preserve = work.preserve, work'.fence = work.fence, work'.fenced = work.fenced,
         NEW r, Shrinks(r, {}), attempt' = attempt, copy' = copy, files' \in FilesType,
         LostInv', StateInv', LedgerInv'
  PROVE  RuntimeInv'
<1>1. RuntimeTypeOK'
  BY ShrinksType DEF RuntimeInv, RuntimeTypeOK
<1>2. TodoInv' /\ QuietInv' /\ RemovedInv' /\ WritersInv' /\ CopiesInv'
  BY DEF TodoInv, QuietInv, RemovedInv, WritersInv, CopiesInv, At, Early, Steps
<1>3. FenceInv'
  BY FenceKeeps DEF Early
<1>4. QED  BY <1>1, <1>2, <1>3 DEF RuntimeInv

\* What the ledger names as left.
LEMMA LedgerNames ==
  ASSUME RuntimeInv, WriteLedger
  PROVE  /\ exists \subseteq files'.left /\ files' \in FilesType
         /\ exists # {} => files'.refused /\ files'.finishOnly
         /\ files'.cleanup = "complete" => exists = {}
<1>1. PICK unknown \in SUBSET {r \in Owned : "UNKNOWN" \in Presence(r)} :
        files' = [cleanup |-> IF Complete(unknown \cup {r \in Owned : "ABSENT" \notin Presence(r)})
                              THEN "complete" ELSE "incomplete",
                  finishOnly |-> unknown \cup {r \in Owned : "ABSENT" \notin Presence(r)} # {} \/ work.errors
                     \/ work.unpreserved \/ ~(work.preserve => ~work.writers /\ \A v \in Volumes : work.ok[v]),
                  refused |-> work.preserve \/ ~Complete(unknown \cup {r \in Owned : "ABSENT" \notin Presence(r)}),
                  left |-> unknown \cup {r \in Owned : "ABSENT" \notin Presence(r)}]
  BY DEF WriteLedger
<1> DEFINE remains == unknown \cup {r \in Owned : "ABSENT" \notin Presence(r)}
<1>2. remains \subseteq Owned /\ exists \subseteq remains
  BY DEF RuntimeInv, RuntimeTypeOK, DockerTypeOK, Presence
<1>3. PICK finishOnly \in BOOLEAN, refused \in BOOLEAN :
        /\ finishOnly = (remains # {} \/ work.errors \/ work.unpreserved
                         \/ ~(work.preserve => ~work.writers /\ \A v \in Volumes : work.ok[v]))
        /\ refused = (work.preserve \/ ~Complete(remains))
  OBVIOUS
<1>4. files' = [cleanup |-> IF Complete(remains) THEN "complete" ELSE "incomplete",
                finishOnly |-> finishOnly, refused |-> refused, left |-> remains]
  BY <1>1, <1>3
<1> HIDE DEF remains
<1>5. files' \in FilesType
  BY <1>2, <1>4 DEF FilesType
<1>6. remains # {} => finishOnly /\ refused /\ ~Complete(remains)
  BY <1>3 DEF Complete
<1>7. QED  BY <1>2, <1>4, <1>5, <1>6

LEMMA WriteLedgerStep == ASSUME RuntimeInv, WriteLedger PROVE RuntimeInv'
<1>1. /\ At("ledger") /\ DockerUnchanged /\ copy' = copy /\ attempt' = attempt
      /\ work' = [work EXCEPT !.pc = "leave", !.todo = <<>>]
  BY DEF WriteLedger
<1>2. exists' = exists /\ dying' = dying /\ lost' = lost /\ Shrinks("network", {})
  BY <1>1, UnchangedShrinks DEF DockerUnchanged
<1>3. /\ work' \in WorkType /\ work'.pc = "leave"
      /\ work'.preserve = work.preserve /\ work'.fence = work.fence /\ work'.fenced = work.fenced
  <2>1. <<>> \in Seq(Owned \cup {"all", "broken", "unwritten"})
    OBVIOUS
  <2>2. QED  BY <1>1, <2>1 DEF RuntimeInv, RuntimeTypeOK, WorkType
<1>4. LostInv' /\ StateInv'
  BY <1>1, <1>2, <1>3, ElsewhereKeeps DEF Volumes
<1>5. LedgerInv'
  BY <1>2, LedgerNames DEF LedgerInv
<1>6. QED  BY <1>1, <1>2, <1>3, <1>4, <1>5, LedgerNames, Leaving DEF At, Early

\* Whatever ends the helper, a removal it had asked for was rightly asked for.
LEMMA HelperStopsKeeps ==
  ASSUME RuntimeInv, HelperStops, copy' = copy, work'.pc = "leave", work'.preserve = work.preserve
  PROVE  \E r : Shrinks(r, {}) /\ LostInv' /\ StateInv'
<1>1. CASE At("volume") /\ MayRemove(Item)
  <2>1. Shrinks(Item, {})
    BY <1>1, NotConfirmedShrinks DEF HelperStops
  <2>2. QED  BY <1>1, <2>1, VolumeGoes
<1>2. CASE At("stop") \/ At("network")
  <2>1. Shrinks(Item, {})
    BY <1>2, NotConfirmedShrinks DEF HelperStops
  <2>2. CASE At("stop")
    BY <2>1, <2>2, StopAdvance, ElsewhereKeeps DEF Volumes
  <2>3. CASE At("network")
    BY <2>1, <2>3, NetworkAdvance, ElsewhereKeeps DEF Volumes
  <2>4. QED  BY <1>2, <2>2, <2>3
<1>3. CASE DockerUnchanged
  <2>1. Shrinks("network", {})
    BY <1>3, UnchangedShrinks
  <2>2. QED  BY <2>1, ElsewhereKeeps DEF Volumes
<1>4. QED  BY <1>1, <1>2, <1>3 DEF HelperStops

LEMMA HelperRaisesStep == ASSUME RuntimeInv, HelperRaises PROVE RuntimeInv'
<1>1. /\ work.pc \in Steps /\ copy' = copy /\ attempt' = attempt
      /\ files' = [files EXCEPT !.finishOnly = TRUE, !.refused = TRUE, !.left = Owned]
      /\ work' = [work EXCEPT !.pc = "leave", !.todo = <<"broken">>]
  BY DEF HelperRaises, HelperStops, Steps
<1>2. /\ work' \in WorkType /\ work'.pc = "leave"
      /\ work'.preserve = work.preserve /\ work'.fence = work.fence /\ work'.fenced = work.fenced
  <2>1. <<"broken">> \in Seq(Owned \cup {"all", "broken", "unwritten"})
    OBVIOUS
  <2>2. QED  BY <1>1, <2>1 DEF RuntimeInv, RuntimeTypeOK, WorkType
<1>3. files' \in FilesType /\ files'.left = Owned /\ files'.refused /\ files'.finishOnly
  BY <1>1 DEF RuntimeInv, RuntimeTypeOK, FilesType
<1>4. PICK r : Shrinks(r, {}) /\ LostInv' /\ StateInv'
  BY <1>1, <1>2, HelperStopsKeeps DEF HelperRaises
<1>5. LedgerInv'
  BY <1>3, <1>4, ShrinksType DEF LedgerInv, DockerTypeOK
<1>6. QED  BY <1>1, <1>2, <1>3, <1>4, <1>5, Leaving DEF Steps, Early

\* The record of an error that cannot be written: after the helper, or before it,
\* when nothing has been removed yet.
LEMMA RecordRaisesStep == ASSUME RuntimeInv, RecordRaises PROVE RuntimeInv'
<1>1. /\ copy' = copy /\ attempt' = attempt /\ files' = files
      /\ work' = [work EXCEPT !.pc = "leave", !.todo = <<"unwritten">>, !.error = TRUE,
                              !.preserve = work.preserve \/ At("finally")]
  BY DEF RecordRaises
<1>2. PICK preserve \in BOOLEAN : preserve = (work.preserve \/ At("finally"))
  OBVIOUS
<1>3. /\ work' \in WorkType /\ work'.pc = "leave" /\ work'.todo = <<"unwritten">> /\ work'.error
      /\ work'.preserve = preserve /\ work'.fence = work.fence /\ work'.fenced = work.fenced
  <2>1. <<"unwritten">> \in Seq(Owned \cup {"all", "broken", "unwritten"})
    OBVIOUS
  <2>2. work' = [work EXCEPT !.pc = "leave", !.todo = <<"unwritten">>, !.error = TRUE, !.preserve = preserve]
    BY <1>1, <1>2
  <2>3. QED  BY <2>1, <2>2 DEF RuntimeInv, RuntimeTypeOK, WorkType
<1>4. LedgerInv'
  BY <1>3 DEF LedgerInv, At
<1>5. files' \in FilesType
  BY <1>1 DEF RuntimeInv, RuntimeTypeOK
<1>6. CASE HelperStops
  <2>1. work.pc \in Steps /\ preserve = work.preserve
    BY <1>2, <1>6 DEF HelperStops, Steps, At, RuntimeInv, RuntimeTypeOK, WorkType
  <2>2. PICK r : Shrinks(r, {}) /\ LostInv' /\ StateInv'
    BY <1>1, <1>3, <1>6, <2>1, HelperStopsKeeps
  <2>3. QED  BY <1>1, <1>3, <1>4, <1>5, <2>1, <2>2, Leaving DEF Steps, Early
<1>7. CASE At("finally") /\ DockerUnchanged
  <2>1. /\ exists' = exists /\ dying' = dying /\ lost' = lost
        /\ dying = {} /\ lost = {} /\ ~work.fenced
    BY <1>7 DEF DockerUnchanged, RuntimeInv, QuietInv, At, Early
  <2>2. RuntimeTypeOK'
    BY <1>1, <1>3, <1>5, <2>1 DEF RuntimeInv, RuntimeTypeOK, DockerTypeOK
  <2>3. TodoInv' /\ QuietInv' /\ RemovedInv' /\ WritersInv' /\ CopiesInv'
    BY <1>3 DEF TodoInv, QuietInv, RemovedInv, WritersInv, CopiesInv, At, Early, Steps
  <2>4. LostInv' /\ StateInv'
    BY <2>1 DEF LostInv, StateInv
  <2>5. FenceInv'
    BY <1>1, <1>3, <1>7, <2>1 DEF RuntimeInv, FenceInv, FencedIsClosed, At
  <2>6. QED  BY <1>4, <2>2, <2>3, <2>4, <2>5 DEF RuntimeInv
<1>8. QED  BY <1>6, <1>7 DEF RecordRaises

LEMMA LeaveStep == ASSUME RuntimeInv, Leave PROVE RuntimeInv'
<1>1. /\ At("leave") /\ DockerUnchanged /\ copy' = copy /\ attempt' = attempt /\ files' = files
      /\ \E result \in {"raised", "returned"} : work' = [work EXCEPT !.pc = "over", !.result = result]
  BY DEF Leave
<1>r. work.error => work' = [work EXCEPT !.pc = "over", !.result = "raised"]
  BY DEF Leave
<1>2. exists' = exists /\ Shrinks("network", {})
  BY <1>1, UnchangedShrinks DEF DockerUnchanged
<1>3. /\ work' \in WorkType /\ work'.pc = "over"
      /\ work'.preserve = work.preserve /\ work'.fence = work.fence /\ work'.fenced = work.fenced
  BY <1>1 DEF RuntimeInv, RuntimeTypeOK, WorkType
<1>4. LostInv' /\ StateInv'
  BY <1>1, <1>2, <1>3, ElsewhereKeeps DEF Volumes
<1>5. work.error => work'.result = "raised"
  BY <1>r DEF RuntimeInv, RuntimeTypeOK, WorkType
<1>6. work'.todo = work.todo /\ work'.error = work.error
  BY <1>1 DEF RuntimeInv, RuntimeTypeOK, WorkType
<1>7. LedgerInv' /\ files' \in FilesType
  BY <1>1, <1>2, <1>5, <1>6 DEF RuntimeInv, RuntimeTypeOK, LedgerInv, At
<1>8. QED  BY <1>1, <1>2, <1>3, <1>4, <1>7, Leaving DEF At, Early

LEMMA LateEffectStep == ASSUME RuntimeInv, LateEffect PROVE RuntimeInv'
<1>1. PICK r \in dying : ~InUse(r) /\ Gone(r)
  BY DEF LateEffect
<1>2. copy' = copy /\ attempt' = attempt /\ work' = work /\ files' = files
  BY DEF LateEffect
<1>3. r \in exists /\ Shrinks(r, {r}) /\ exists' = exists \ {r} /\ dying' = dying \ {r} /\ lost' = lost \cup ({r} \cap Volumes)
  BY <1>1 DEF RuntimeInv, RuntimeTypeOK, DockerTypeOK, Shrinks, Gone
<1>4. RuntimeTypeOK'
  BY <1>2, <1>3, ShrinksType DEF RuntimeInv, RuntimeTypeOK
<1>5. TodoInv' /\ FenceInv'
  BY <1>2 DEF RuntimeInv, TodoInv, FenceInv, FencedIsClosed, At
<1>6. QuietInv'
  BY <1>1, <1>2, <1>3 DEF RuntimeInv, QuietInv
<1>7. RemovedInv' /\ WritersInv'
  BY <1>2, <1>3 DEF RuntimeInv, RemovedInv, WritersInv, At, Left
<1>8. CopiesInv'
  BY <1>2, <1>3 DEF RuntimeInv, CopiesInv, Kept, At, Left
<1>9. LostInv'
  BY <1>1, <1>2, <1>3 DEF RuntimeInv, LostInv, InUse
<1>10. StateInv'
  BY <1>1, <1>2, <1>3 DEF RuntimeInv, StateInv
<1>11. LedgerInv'
  BY <1>2, <1>3 DEF RuntimeInv, LedgerInv, At
<1>12. QED  BY <1>4, <1>5, <1>6, <1>7, <1>8, <1>9, <1>10, <1>11 DEF RuntimeInv

LEMMA WriteStep == ASSUME RuntimeInv, Write PROVE RuntimeInv'
<1>1. PICK c \in Containers \cap exists : \E v \in Mounts(c) : copy[v] = "whole" /\ copy' = [copy EXCEPT ![v] = "stale"]
  BY DEF Write
<1>2. PICK v \in Mounts(c) : copy' = [copy EXCEPT ![v] = "stale"]
  BY <1>1
<1>3. exists' = exists /\ dying' = dying /\ lost' = lost /\ attempt' = attempt /\ work' = work /\ files' = files
  BY DEF Write, DockerUnchanged
<1>4. copy' \in CopyType /\ InUse(v) /\ \A u \in Volumes : u # v => copy'[u] = copy[u]
  BY <1>1, <1>2 DEF RuntimeInv, RuntimeTypeOK, CopyType, InUse
<1>5. RuntimeTypeOK'
  BY <1>3, <1>4 DEF RuntimeInv, RuntimeTypeOK, DockerTypeOK
<1>6. TodoInv' /\ QuietInv' /\ RemovedInv' /\ WritersInv'
  BY <1>3 DEF RuntimeInv, TodoInv, QuietInv, RemovedInv, WritersInv, At, Left
<1>7. StateInv' /\ FenceInv' /\ LedgerInv'
  BY <1>3 DEF RuntimeInv, StateInv, FenceInv, FencedIsClosed, LedgerInv, At
<1>8. LostInv'
  BY <1>3, <1>4 DEF RuntimeInv, LostInv, InUse
<1>9. CopiesInv'
  BY <1>1, <1>3, <1>4 DEF RuntimeInv, CopiesInv, WritersInv, Kept, At, Left
<1>10. QED  BY <1>5, <1>6, <1>7, <1>8, <1>9 DEF RuntimeInv

LEMMA RuntimeKeeps == ASSUME RuntimeInv, RuntimeStep \/ Environment PROVE RuntimeInv'
  BY CreateStep, OpenAttemptStep, StartupStep, DelayedStep, InterprobeStep, CrashStep, RecoveryStepKeeps, FinalizeStep,
     CaptureStep, FenceStep, StopContainerStep, VerifyContainerStep, InspectVolumeStep, PreserveStep, RemoveNetworkStep,
     RemoveVolumeStep, WriteLedgerStep, HelperRaisesStep, RecordRaisesStep, LeaveStep, LateEffectStep, WriteStep
  DEF RuntimeStep, Environment

-----------------------------------------------------------------------------
LEMMA RolesAre == Range(Roles) = {"authority", "results"} /\ Roles = <<"authority", "results">>
  BY Two DEF Roles

\* The reference is the first of the order, and no case after it.
LEMMA OrderIs ==
  /\ Len(Order) \in Nat /\ Len(Order) > 1 /\ Order[1] = "reference"
  /\ \A n \in 1..Len(Order) : n > 1 => Order[n] \in Range(Cases)
  /\ Range(Cases) \subseteq CaseNames \ {"reference", "none"}
<1> DEFINE S == {"startup", "interprobe", "delayed", "crash", "recovery"}
<1>1. Cases \in Seq(S) /\ Len(Cases) \in Nat /\ Len(Cases) > 0
  BY CasesAssumption
<1>2. Len(Order) = 1 + Len(Cases) /\ Order[1] = "reference"
  BY <1>1 DEF Order
<1>3. ASSUME NEW n \in 1..Len(Order), n > 1 PROVE Order[n] = Cases[n - 1] /\ n - 1 \in 1..Len(Cases)
  <2>1. n - 1 \in 1..Len(Cases) /\ n \in Nat
    BY <1>1, <1>2, <1>3
  <2>2. /\ <<"reference">> \in Seq(CaseNames) /\ Len(<<"reference">>) = 1 /\ Cases \in Seq(CaseNames)
        /\ n \in 1..(Len(<<"reference">>) + Len(Cases))
    BY <1>1, <1>2, <1>3 DEF CaseNames
  <2>3. Order[n] = Cases[n - Len(<<"reference">>)]
    BY <1>1, <1>3, <2>1, <2>2 DEF Order
  <2>4. QED  BY <2>1, <2>2, <2>3
<1>4. Range(Cases) \subseteq S /\ \A k \in 1..Len(Cases) : Cases[k] \in Range(Cases)
  BY <1>1 DEF Range
<1>5. QED  BY <1>1, <1>2, <1>3, <1>4 DEF CaseNames

LEMMA StartKeeps ==
  ASSUME NEW case \in CaseNames, NEW before \in {"absent", "complete", "incomplete"}, StartRuntime(case, before)
  PROVE  RuntimeInv' /\ (before # "complete" => CompleteInv')
<1>1. /\ exists' = {} /\ dying' = {} /\ lost' = {} /\ copy' = [v \in Volumes |-> "none"]
      /\ attempt' = NoAttempts /\ work' = NewWork(case) /\ files' = NoFiles(before)
  BY DEF StartRuntime
<1>2. Creation \in Seq(Owned) /\ Creation \in Seq(Owned \cup {"all", "broken", "unwritten"}) /\ Creation # <<>>
  BY OwnedIs DEF Creation
<1>3. work' \in WorkType /\ files' \in FilesType /\ attempt' \in AttemptType /\ copy' \in CopyType
  BY <1>1, <1>2 DEF WorkType, NewWork, FilesType, NoFiles, AttemptType, Attempts, NoAttempts, CopyType, Early
<1>4. /\ work'.pc = "create" /\ work'.todo = Creation /\ ~work'.errors /\ ~work'.writers /\ ~work'.fenced
      /\ work'.fence = "none" /\ ~work'.preserve
  BY <1>1 DEF NewWork
<1>5. RuntimeTypeOK' /\ TodoInv' /\ QuietInv'
  BY <1>1, <1>2, <1>3, <1>4 DEF RuntimeTypeOK, DockerTypeOK, TodoInv, QuietInv, At, Early
<1>6. RemovedInv' /\ WritersInv' /\ CopiesInv' /\ LostInv' /\ StateInv' /\ LedgerInv'
  BY <1>1, <1>4 DEF RemovedInv, WritersInv, CopiesInv, LostInv, StateInv, LedgerInv, At, Steps
<1>7. FenceInv'
  BY <1>1, <1>4 DEF FenceInv, FencedIsClosed, NoAttempts, At
<1>8. before # "complete" => CompleteInv'
  BY <1>1 DEF CompleteInv, NoFiles
<1>9. QED  BY <1>5, <1>6, <1>7, <1>8 DEF RuntimeInv

\* What is written down as complete is complete.
LEMMA CompleteKeeps ==
  ASSUME RuntimeInv, CompleteInv, RuntimeStep \/ Environment PROVE CompleteInv'
<1>1. CASE WriteLedger
  <2>1. exists' = exists /\ work'.pc = "leave"
    BY <1>1 DEF WriteLedger, DockerUnchanged, RuntimeInv, RuntimeTypeOK, WorkType
  <2>2. QED  BY <1>1, <2>1, LedgerNames DEF CompleteInv
<1>2. CASE HelperRaises
  <2>1. work.pc \in Steps /\ files' = [files EXCEPT !.finishOnly = TRUE, !.refused = TRUE, !.left = Owned]
    BY <1>2 DEF HelperRaises, HelperStops, Steps
  <2>2. files.cleanup # "complete" /\ files'.cleanup = files.cleanup
    BY <2>1 DEF CompleteInv, Steps, RuntimeInv, RuntimeTypeOK, FilesType
  <2>3. QED  BY <2>2 DEF CompleteInv
<1>3. CASE Leave
  <2>1. files' = files /\ exists' = exists /\ work'.pc = "over"
    BY <1>3 DEF Leave, DockerUnchanged, RuntimeInv, RuntimeTypeOK, WorkType
  <2>2. QED  BY <2>1 DEF CompleteInv
<1>4. CASE LateEffect
  BY <1>4 DEF LateEffect, Gone, CompleteInv
<1>5. CASE Write
  BY <1>5 DEF Write, DockerUnchanged, CompleteInv
<1>x. CASE RecordRaises
  <2>1. files' = files /\ work.pc \notin {"leave", "over"}
    BY <1>x DEF RecordRaises, HelperStops, At
  <2>2. QED  BY <2>1 DEF CompleteInv
<1>6. CASE RuntimeStep /\ ~WriteLedger /\ ~HelperRaises /\ ~RecordRaises /\ ~Leave
  <2>1. files' = files /\ work.pc \notin {"leave", "over"}
    BY <1>6 DEF RuntimeStep, Create, OpenAttempt, Startup, Delayed, Interprobe, Crash, Recovery, CaseStep, Finalize,
       Capture, Fence, StopContainer, VerifyContainer, InspectVolume, Preserve, RemoveNetwork, RemoveVolume, At
  <2>2. QED  BY <2>1 DEF CompleteInv
<1>7. QED  BY <1>1, <1>2, <1>3, <1>4, <1>5, <1>x, <1>6 DEF Environment

\* Which case is run, and whether it is the reference.
LEMMA CaseIs ==
  ASSUME MainTypeOK
  PROVE  /\ main.n = 1 => Case = "reference"
         /\ main.n > 1 => Case \in Range(Cases) /\ Case # "reference"
         /\ main.n \in 1..Len(Order) /\ (main.n # 1 => main.n > 1)
<1>1. main.n \in 1..Len(Order)
  BY DEF MainTypeOK, MainType
<1>2. QED  BY <1>1, OrderIs DEF Case

\* The campaign at the next volume of a step.
LEMMA AdvancedFields ==
  ASSUME MainTypeOK, NEW pc \in {"promote", "leave"}, NEW m, m = Advanced(pc)
  PROVE  /\ m \in MainType /\ m.n = main.n /\ m.error = main.error /\ m.summary = main.summary
         /\ m.ledger = main.ledger /\ m.finishOnly = main.finishOnly
         /\ \/ Role = "authority" /\ Behind = {} /\ m.pc = main.pc /\ m.todo = <<"results">>
            \/ Role = "results" /\ Behind = {"authority"} /\ m.pc = pc /\ m.todo = Roles
<1>1. main \in MainType /\ main.todo \in {<<"authority", "results">>, <<"results">>}
  BY RolesAre DEF MainTypeOK, MainType
<1>2. Range(<<"authority", "results">>) = {"authority", "results"} /\ Len(<<"authority", "results">>) > 1
      /\ Head(<<"authority", "results">>) = "authority" /\ Tail(<<"authority", "results">>) = <<"results">>
      /\ Range(<<"results">>) = {"results"} /\ ~(Len(<<"results">>) > 1) /\ Head(<<"results">>) = "results"
  BY Two, One
<1>3. CASE main.todo = <<"authority", "results">>
  <2>1. Role = "authority" /\ Behind = {} /\ m = [main EXCEPT !.todo = <<"results">>]
    BY <1>2, <1>3, RolesAre DEF Role, Behind, Advanced
  <2>2. QED  BY <1>1, <2>1 DEF MainType
<1>4. CASE main.todo = <<"results">>
  <2>1. Role = "results" /\ Behind = {"authority"} /\ m = [main EXCEPT !.pc = pc, !.todo = Roles]
    BY <1>2, <1>4, RolesAre DEF Role, Behind, Advanced
  <2>2. QED  BY <1>1, <2>1 DEF MainType
<1>5. QED  BY <1>1, <1>3, <1>4

LEMMA RaiseFields ==
  ASSUME MainTypeOK, Raise
  PROVE  /\ main' \in MainType /\ main'.pc = "finally" /\ main'.todo = Roles /\ main'.error
         /\ main'.n = main.n /\ main'.ledger = main.ledger /\ main'.finishOnly = main.finishOnly
  BY DEF MainTypeOK, MainType, Raise

\* An exception leads to the end, where nothing has been done about the volumes.
LEMMA RaiseKeeps ==
  ASSUME MainInv, Raise, main.pc \notin {"finally", "leave", "exit"}, gate' \in GateType,
         \A r \in Range(Roles) : gate'[r].lost = gate[r].lost,
         published' \in [Range(Cases) -> Outcomes \cup {"none"}], leftovers' = leftovers
  PROVE  MainInv' /\ AcceptedInv'
<1>1. /\ main' \in MainType /\ main'.pc = "finally" /\ main'.todo = Roles /\ main'.error
      /\ main'.n = main.n /\ main'.ledger = main.ledger /\ main'.finishOnly = main.finishOnly
  BY RaiseFields DEF MainInv
<1>2. MainTypeOK' /\ PlaceInv'
  BY <1>1 DEF MainInv, MainTypeOK, PlaceInv, In
<1>3. Behind' = {}
  <2>1. Range(main'.todo) = Range(Roles)
    BY <1>1
  <2>2. QED  BY <2>1 DEF Behind
<1>4. GateInv'
  BY <1>1, <1>3 DEF MainInv, GateInv, In
<1>5. QED  BY <1>1, <1>2, <1>4 DEF MainInv, AcceptedInv

LEMMA CaseOverStep == ASSUME MainInv, RuntimeInv, CaseOver PROVE MainInv' /\ RuntimeInv'
<1>1. /\ In("case") /\ gate' = gate /\ published' = published /\ StartRuntime("none", "absent")
      /\ leftovers' \subseteq leftovers \cup {Case}
      /\ main' = IF Accepted(Case) THEN [main EXCEPT !.pc = IF Case = "reference" THEN "prepare" ELSE "gate"]
                 ELSE [main EXCEPT !.pc = IF Case = "reference" THEN "exit" ELSE "finally", !.error = TRUE]
  BY DEF CaseOver, GateUnchanged
<1>2. /\ main' \in MainType /\ main'.n = main.n /\ main'.todo = main.todo
      /\ main'.ledger = main.ledger /\ main'.finishOnly = main.finishOnly
      /\ \/ Case = "reference" /\ main'.pc = "prepare"
         \/ Case = "reference" /\ main'.pc = "exit" /\ main'.error
         \/ Case # "reference" /\ main'.pc = "gate"
         \/ Case # "reference" /\ main'.pc = "finally" /\ main'.error
  <2>1. CASE Accepted(Case)
    BY <1>1, <2>1 DEF MainInv, MainTypeOK, MainType
  <2>2. CASE ~Accepted(Case)
    BY <1>1, <2>2 DEF MainInv, MainTypeOK, MainType
  <2>3. QED  BY <2>1, <2>2
<1>3. main.todo = Roles /\ Case \in {"reference"} \cup Range(Cases)
      /\ (main.n = 1 <=> Case = "reference") /\ (main.n > 1 <=> Case # "reference")
  BY <1>1, CaseIs DEF MainInv, PlaceInv, In
<1>4. Behind' = {}
  <2>1. Range(main'.todo) = Range(Roles)
    BY <1>2, <1>3
  <2>2. QED  BY <2>1 DEF Behind
<1>5. MainTypeOK'
  BY <1>1, <1>2, <1>3 DEF MainInv, MainTypeOK
<1>6. PlaceInv'
  BY <1>2, <1>3 DEF PlaceInv, In
<1>7. GateInv'
  BY <1>1, <1>2, <1>3, <1>4 DEF MainInv, GateInv, In
<1>8. RuntimeInv'
  BY <1>1, StartKeeps DEF CaseNames
<1>9. QED  BY <1>5, <1>6, <1>7, <1>8 DEF MainInv

LEMMA RuntimeStays == ASSUME RuntimeInv, UNCHANGED runtimeVars PROVE RuntimeInv'
  BY DEF runtimeVars, RuntimeInv, RuntimeTypeOK, DockerTypeOK, TodoInv, QuietInv, RemovedInv, WritersInv, CopiesInv,
     LostInv, StateInv, FenceInv, FencedIsClosed, LedgerInv, At, Left, Kept, InUse

\* A volume that is created, and nothing else about either.
LEMMA GateThere ==
  ASSUME gate \in GateType, NEW r \in Range(Roles), NEW g, g = [gate EXCEPT ![r].there = TRUE]
  PROVE  /\ g \in GateType /\ g[r].there /\ g[r].lost = gate[r].lost
         /\ \A q \in Range(Roles) : q # r => g[q] = gate[q]
<1>1. PICK v : v = [gate[r] EXCEPT !.there = TRUE]
  OBVIOUS
<1>2. v \in [there : BOOLEAN, lost : BOOLEAN, copy : {"none", "old", "whole", "part"}] /\ v.there /\ v.lost = gate[r].lost
  BY <1>1 DEF GateType
<1>3. g = [gate EXCEPT ![r] = v]
  BY <1>1
<1>4. QED  BY <1>2, <1>3 DEF GateType

LEMMA PrepareVolumeStep == ASSUME MainInv, RuntimeInv, PrepareVolume PROVE MainInv' /\ RuntimeInv'
<1>1. In("prepare") /\ published' = published /\ leftovers' = leftovers /\ UNCHANGED runtimeVars
  BY DEF PrepareVolume, RuntimeUnchanged
<1>2. RuntimeInv' /\ Role \in Range(Roles) /\ gate \in GateType
  <2>1. PICK m : m = Advanced("promote")
    OBVIOUS
  <2>2. QED  BY <1>1, <2>1, RuntimeStays, RolesAre, AdvancedFields DEF MainInv, MainTypeOK
<1>3. CASE main' = Advanced("promote") /\ gate' = [gate EXCEPT ![Role].there = TRUE]
  <2>1. /\ main' \in MainType /\ main'.n = main.n /\ main'.error = main.error
        /\ main'.ledger = main.ledger /\ main'.finishOnly = main.finishOnly
        /\ \/ Role = "authority" /\ Behind = {} /\ main'.pc = main.pc /\ main'.todo = <<"results">>
           \/ Role = "results" /\ Behind = {"authority"} /\ main'.pc = "promote" /\ main'.todo = Roles
    BY <1>3, AdvancedFields DEF MainInv
  <2>2. PICK r : r = Role
    OBVIOUS
  <2>3. gate' \in GateType /\ gate'[r].there /\ \A q \in Range(Roles) : gate'[q].lost = gate[q].lost /\ (q # r => gate'[q] = gate[q])
    <3>1. r \in Range(Roles) /\ gate' = [gate EXCEPT ![r].there = TRUE]
      BY <1>2, <1>3, <2>2
    <3>2. PICK v : v = [gate[r] EXCEPT !.there = TRUE]
      OBVIOUS
    <3>3. v \in [there : BOOLEAN, lost : BOOLEAN, copy : {"none", "old", "whole", "part"}] /\ v.there /\ v.lost = gate[r].lost
      BY <1>2, <3>1, <3>2 DEF GateType
    <3>4. gate' = [gate EXCEPT ![r] = v]
      BY <3>1, <3>2
    <3>5. QED  BY <1>2, <3>1, <3>3, <3>4 DEF GateType
  <2>4. MainTypeOK' /\ PlaceInv'
    BY <1>1, <2>1, <2>3 DEF MainInv, MainTypeOK, PlaceInv, In
  <2>5. (main'.todo = Roles => Behind' = {}) /\ (main'.todo = <<"results">> => Behind' = {"authority"})
    BY Two, One, RolesAre DEF Behind
  <2>6. GateInv'
    BY <1>1, <2>1, <2>2, <2>3, <2>5, RolesAre DEF MainInv, GateInv, In
  <2>7. QED  BY <1>2, <2>4, <2>6 DEF MainInv
<1>4. CASE Raise /\ gate' \in {gate, [gate EXCEPT ![Role].there = TRUE]}
  <2>1. gate' \in GateType /\ \A q \in Range(Roles) : gate'[q].lost = gate[q].lost
    BY <1>2, <1>4, GateThere
  <2>2. published' \in [Range(Cases) -> Outcomes \cup {"none"}]
    BY <1>1 DEF MainInv, MainTypeOK
  <2>3. QED  BY <1>1, <1>2, <1>4, <2>1, <2>2, RaiseKeeps DEF In
<1>5. QED  BY <1>3, <1>4 DEF PrepareVolume

\* After a case the next one starts in a new runtime, or there is none left.
LEMMA NextCaseKeeps ==
  ASSUME MainInv, RuntimeInv, NextCase, main.pc \in {"promote", "gate"}, gate' = gate,
         published' \in [Range(Cases) -> Outcomes \cup {"none"}], leftovers' = leftovers
  PROVE  MainInv' /\ RuntimeInv' /\ (AcceptedInv => AcceptedInv')
<1>1. main \in MainType /\ main.todo = Roles /\ main.n \in 1..Len(Order) /\ Len(Order) \in Nat
  BY OrderIs DEF MainInv, MainTypeOK, MainType, PlaceInv
<1>2. /\ main' \in MainType /\ main'.todo = Roles /\ main'.error = main.error
      /\ main'.ledger = main.ledger /\ main'.finishOnly = main.finishOnly
      /\ (main'.pc = "case" /\ main'.n > 1) \/ main'.pc = "copy"
  <2>1. CASE main.n < Len(Order)
    <3>1. main' = [main EXCEPT !.pc = "case", !.n = main.n + 1] /\ main.n + 1 \in 1..Len(Order) /\ main.n + 1 > 1
      BY <1>1, <2>1 DEF NextCase
    <3>2. QED  BY <1>1, <3>1 DEF MainType
  <2>2. CASE ~(main.n < Len(Order))
    <3>1. main' = [main EXCEPT !.pc = "copy"]
      BY <1>1, <2>2 DEF NextCase
    <3>2. QED  BY <1>1, <3>1 DEF MainType
  <2>3. QED  BY <2>1, <2>2
<1>3. RuntimeInv'
  <2>1. CASE main.n < Len(Order)
    <3>1. PICK before \in Earlier : StartRuntime(Order[main.n + 1], before)
      BY <1>1, <2>1 DEF NextCase
    <3>2. Order[main.n + 1] \in CaseNames
      BY <1>1, <2>1, OrderIs
    <3>3. QED  BY <3>1, <3>2, EarlierAssumption, StartKeeps
  <2>2. CASE ~(main.n < Len(Order))
    <3>1. UNCHANGED runtimeVars
      BY <1>1, <2>2 DEF NextCase
    <3>2. QED  BY <3>1, RuntimeStays
  <2>3. QED  BY <2>1, <2>2
<1>4. Behind' = {}
  <2>1. Range(main'.todo) = Range(Roles)
    BY <1>2
  <2>2. QED  BY <2>1 DEF Behind
<1>5. MainTypeOK' /\ PlaceInv'
  BY <1>2 DEF MainInv, MainTypeOK, PlaceInv, In
<1>6. GateInv'
  BY <1>2, <1>4 DEF MainInv, GateInv, In
<1>7. AcceptedInv => AcceptedInv'
  BY <1>2 DEF AcceptedInv, In
<1>8. QED  BY <1>3, <1>5, <1>6, <1>7 DEF MainInv

LEMMA JudgeStep ==
  ASSUME MainInv, RuntimeInv, Promote \/ Judge \/ GateFails
  PROVE  MainInv' /\ RuntimeInv' /\ (AcceptedInv => AcceptedInv')
<1>1. /\ main.pc \in {"promote", "gate"} /\ gate' = gate /\ leftovers' = leftovers
      /\ NextCase \/ (Raise /\ UNCHANGED runtimeVars)
  BY DEF Promote, Judge, GateFails, GateUnchanged, RuntimeUnchanged, In
<1>2. published' \in [Range(Cases) -> Outcomes \cup {"none"}]
  <2>1. published \in [Range(Cases) -> Outcomes \cup {"none"}]
    BY DEF MainInv, MainTypeOK
  <2>2. CASE Judge
    BY <2>1, <2>2 DEF Judge
  <2>3. CASE Promote \/ GateFails
    BY <2>1, <2>3 DEF Promote, GateFails, GateUnchanged
  <2>4. QED  BY <2>2, <2>3
<1>3. gate' \in GateType
  BY <1>1 DEF MainInv, MainTypeOK
<1>4. QED  BY <1>1, <1>2, <1>3, NextCaseKeeps, RaiseKeeps, RuntimeStays

LEMMA SummarizeStep ==
  ASSUME MainInv, RuntimeInv, Summarize PROVE MainInv' /\ RuntimeInv' /\ (AcceptedInv => AcceptedInv')
<1>1. /\ In("copy") /\ gate' = gate /\ published' = published /\ leftovers' = leftovers /\ UNCHANGED runtimeVars
      /\ \/ PublishedValid /\ main' = [main EXCEPT !.pc = "finally", !.summary = TRUE]
         \/ Raise
  BY DEF Summarize, GateUnchanged, RuntimeUnchanged
<1>2. RuntimeInv' /\ gate' \in GateType /\ published' \in [Range(Cases) -> Outcomes \cup {"none"}]
  BY <1>1, RuntimeStays DEF MainInv, MainTypeOK
<1>3. CASE Raise
  BY <1>1, <1>2, <1>3, RaiseKeeps DEF In
<1>4. CASE PublishedValid /\ main' = [main EXCEPT !.pc = "finally", !.summary = TRUE]
  <2>1. /\ main' \in MainType /\ main'.pc = "finally" /\ main'.summary /\ main'.todo = Roles /\ main'.error = main.error
        /\ main'.ledger = main.ledger /\ main'.finishOnly = main.finishOnly
    BY <1>1, <1>4 DEF MainInv, MainTypeOK, MainType, PlaceInv, In
  <2>2. Behind' = {}
    <3>1. Range(main'.todo) = Range(Roles)
      BY <2>1
    <3>2. QED  BY <3>1 DEF Behind
  <2>3. MainTypeOK' /\ PlaceInv'
    BY <1>1, <2>1 DEF MainInv, MainTypeOK, PlaceInv, In
  <2>4. GateInv'
    BY <1>1, <2>1, <2>2 DEF MainInv, GateInv, In
  <2>5. AcceptedInv => AcceptedInv'
    BY <1>1, <1>4, <2>1 DEF AcceptedInv, PublishedValid, In
  <2>6. QED  BY <1>2, <2>3, <2>4, <2>5 DEF MainInv
<1>5. QED  BY <1>1, <1>3, <1>4

LEMMA ExitStep ==
  ASSUME MainInv, RuntimeInv, Exit PROVE MainInv' /\ RuntimeInv' /\ (AcceptedInv => AcceptedInv')
<1>1. /\ In("leave") /\ gate' = gate /\ published' = published /\ leftovers' = leftovers /\ UNCHANGED runtimeVars
  BY DEF Exit, GateUnchanged, RuntimeUnchanged
<1>2. PICK error \in BOOLEAN : error = (main.error \/ main.ledger = "errors" \/ main.finishOnly)
  OBVIOUS
<1>3. main' = [main EXCEPT !.pc = "exit", !.error = error]
  BY <1>2 DEF Exit
<1>4. /\ main' \in MainType /\ main'.pc = "exit" /\ main'.error = error /\ main'.todo = main.todo
      /\ main'.ledger = main.ledger /\ main'.finishOnly = main.finishOnly /\ main'.summary = main.summary
      /\ main.ledger \in {"none", "errors"}
  BY <1>3 DEF MainInv, MainTypeOK, MainType
<1>5. MainTypeOK' /\ PlaceInv'
  BY <1>1, <1>4 DEF MainInv, MainTypeOK, PlaceInv, In
<1>6. GateInv'
  BY <1>1, <1>2, <1>4 DEF MainInv, GateInv, In
<1>7. AcceptedInv => AcceptedInv'
  BY <1>1, <1>2, <1>4 DEF AcceptedInv, In
<1>8. QED  BY <1>1, <1>5, <1>6, <1>7, RuntimeStays DEF MainInv

\* What the end does about one volume: it is kept for a recovery, or it is gone
\* and there is a whole copy of it, or an error is noted.
LEMMA CleanFields ==
  ASSUME MainInv, CleanVolume
  PROVE  /\ main' \in MainType /\ main'.n = main.n /\ main'.error = main.error /\ main'.summary = main.summary
         /\ main.ledger # "none" => main'.ledger # "none"
         /\ main.finishOnly => main'.finishOnly
         /\ \/ Role = "authority" /\ Behind = {} /\ main'.pc = main.pc /\ main'.todo = <<"results">>
            \/ Role = "results" /\ Behind = {"authority"} /\ main'.pc = "leave" /\ main'.todo = Roles
         /\ gate' \in GateType /\ \A q \in Range(Roles) : q # Role => gate'[q] = gate[q]
         /\ gate'[Role].there => main'.finishOnly
         /\ gate'[Role].lost => ~gate'[Role].there /\ gate'[Role].copy = "whole"
         /\ ~main'.error /\ main'.ledger = "none" => ~gate'[Role].there /\ gate'[Role].copy = "whole"
<1>1. PICK m, r : m = Advanced("leave") /\ r = Role
  OBVIOUS
<1>2. /\ m \in MainType /\ m.n = main.n /\ m.error = main.error /\ m.summary = main.summary
      /\ m.ledger = main.ledger /\ m.finishOnly = main.finishOnly
      /\ \/ r = "authority" /\ Behind = {} /\ m.pc = main.pc /\ m.todo = <<"results">>
         \/ r = "results" /\ Behind = {"authority"} /\ m.pc = "leave" /\ m.todo = Roles
  BY <1>1, AdvancedFields DEF MainInv
<1>3. In("finally") /\ r \in Range(Roles) /\ r \notin Behind /\ gate \in GateType
  BY <1>2, RolesAre DEF CleanVolume, MainInv, MainTypeOK
<1>4. /\ gate[r].lost => ~gate[r].there /\ gate[r].copy = "whole"
      /\ ~main.error => gate[r].there
      /\ gate[r] \in [there : BOOLEAN, lost : BOOLEAN, copy : {"none", "old", "whole", "part"}]
  BY <1>3 DEF MainInv, GateInv, GateType
<1> DEFINE Advances ==
      /\ main' \in MainType /\ main'.n = main.n /\ main'.error = main.error /\ main'.summary = main.summary
      /\ main.ledger # "none" => main'.ledger # "none"
      /\ main.finishOnly => main'.finishOnly
      /\ main'.pc = m.pc /\ main'.todo = m.todo
<1>5. Retained => Advances /\ main'.finishOnly /\ main'.ledger = "errors"
  <2>1. ASSUME Retained PROVE main' = [m EXCEPT !.ledger = "errors", !.finishOnly = TRUE]
    BY <1>1, <2>1 DEF Retained
  <2>2. QED  BY <1>2, <2>1 DEF MainType
<1> DEFINE Cleaned ==
      /\ gate' \in GateType /\ \A q \in Range(Roles) : q # r => gate'[q] = gate[q]
      /\ gate'[r].there => main'.finishOnly
      /\ gate'[r].lost => ~gate'[r].there /\ gate'[r].copy = "whole"
      /\ ~main'.error /\ main'.ledger = "none" => ~gate'[r].there /\ gate'[r].copy = "whole"
<1>8. ASSUME Retained, gate[r].there, NEW c \in {"none", "old", "whole", "part"}, gate' = [gate EXCEPT ![r].copy = c]
      PROVE  Advances /\ Cleaned
  <2>1. PICK v : v = [gate[r] EXCEPT !.copy = c]
    OBVIOUS
  <2>2. v \in [there : BOOLEAN, lost : BOOLEAN, copy : {"none", "old", "whole", "part"}] /\ v.lost = gate[r].lost
    BY <1>4, <2>1
  <2>3. gate' = [gate EXCEPT ![r] = v]
    BY <1>8, <2>1
  <2>4. gate' \in GateType /\ gate'[r] = v /\ \A q \in Range(Roles) : q # r => gate'[q] = gate[q]
    BY <1>3, <2>2, <2>3 DEF GateType
  <2>5. QED  BY <1>4, <1>5, <1>8, <2>2, <2>4
<1>9. ASSUME NEW removed \in BOOLEAN, NEW told \in BOOLEAN, gate' = [gate EXCEPT ![r] = [there |-> ~removed, lost |-> removed, copy |-> "whole"]],
             Retained \/ (removed /\ main' = [m EXCEPT !.ledger = IF told THEN @ ELSE "errors"])
      PROVE  Advances /\ Cleaned
  <2>1. PICK v : v = [there |-> ~removed, lost |-> removed, copy |-> "whole"]
    OBVIOUS
  <2>2. gate' = [gate EXCEPT ![r] = v] /\ v \in [there : BOOLEAN, lost : BOOLEAN, copy : {"none", "old", "whole", "part"}]
        /\ v.there = ~removed /\ v.lost = removed /\ v.copy = "whole"
    BY <1>9, <2>1
  <2>3. gate' \in GateType /\ gate'[r] = v /\ \A q \in Range(Roles) : q # r => gate'[q] = gate[q]
    BY <1>3, <2>2 DEF GateType
  <2>4. CASE Retained
    BY <1>5, <2>2, <2>3, <2>4
  <2>5. CASE removed /\ main' = [m EXCEPT !.ledger = IF told THEN @ ELSE "errors"]
    <3>1. Advances
      BY <1>2, <2>5 DEF MainType
    <3>2. QED  BY <2>2, <2>3, <2>5, <3>1
  <2>6. QED  BY <1>9, <2>4, <2>5
<1>10. Advances /\ Cleaned
  <2>1. PICK seen \in GatePresence(r) :
      CASE seen = "ABSENT" -> main' = m /\ UNCHANGED gate
         [] seen = "UNKNOWN" -> Retained /\ UNCHANGED gate
         [] seen = "PRESENT" ->
              \E c \in Copies :
                IF ~Verified(gate[r].copy, c)
                  THEN Retained /\ gate' = [gate EXCEPT ![r].copy = IF @ = "old" THEN @ ELSE c]
                  ELSE \E removed, told \in BOOLEAN : \E after \in {IF removed THEN "ABSENT" ELSE "PRESENT", "UNKNOWN"} :
                         /\ gate' = [gate EXCEPT ![r] = [there |-> ~removed, lost |-> removed, copy |-> c]]
                         /\ IF after # "ABSENT" THEN Retained
                            ELSE main' = [m EXCEPT !.ledger = IF told THEN @ ELSE "errors"]
    BY <1>1 DEF CleanVolume
  <2>2. CASE seen = "ABSENT"
    <3>1. ~gate[r].there
      BY <2>1, <2>2 DEF GatePresence
    <3>2. QED  BY <1>2, <1>3, <1>4, <2>1, <2>2, <3>1
  <2>3. CASE seen = "UNKNOWN"
    BY <1>3, <1>4, <1>5, <2>1, <2>3
  <2>4. CASE seen = "PRESENT"
    <3>1. gate[r].there
      BY <2>1, <2>4 DEF GatePresence
    <3>2. PICK c \in Copies :
            IF ~Verified(gate[r].copy, c)
              THEN Retained /\ gate' = [gate EXCEPT ![r].copy = IF @ = "old" THEN @ ELSE c]
              ELSE \E removed, told \in BOOLEAN : \E after \in {IF removed THEN "ABSENT" ELSE "PRESENT", "UNKNOWN"} :
                     /\ gate' = [gate EXCEPT ![r] = [there |-> ~removed, lost |-> removed, copy |-> c]]
                     /\ IF after # "ABSENT" THEN Retained
                        ELSE main' = [m EXCEPT !.ledger = IF told THEN @ ELSE "errors"]
      BY <2>1, <2>4
    <3>3. CASE ~Verified(gate[r].copy, c)
      <4>1. PICK k : k = IF gate[r].copy = "old" THEN gate[r].copy ELSE c
        OBVIOUS
      <4>2. Retained /\ gate' = [gate EXCEPT ![r].copy = k] /\ k \in {"none", "old", "whole", "part"}
        BY <1>3, <3>2, <3>3, <4>1 DEF Copies, GateType
      <4>3. QED  BY <1>8, <3>1, <4>2
    <3>4. CASE Verified(gate[r].copy, c)
      <4>1. c = "whole"
        BY <3>4 DEF Verified
      <4>2. PICK removed \in BOOLEAN, told \in BOOLEAN :
              /\ gate' = [gate EXCEPT ![r] = [there |-> ~removed, lost |-> removed, copy |-> "whole"]]
              /\ Retained \/ (removed /\ main' = [m EXCEPT !.ledger = IF told THEN @ ELSE "errors"])
        BY <3>2, <3>4, <4>1
      <4>3. QED  BY <1>9, <4>2
    <3>5. QED  BY <3>3, <3>4
  <2>5. QED  BY <2>1, <2>2, <2>3, <2>4 DEF GatePresence
<1>11. QED  BY <1>1, <1>2, <1>10

LEMMA CleanVolumeStep ==
  ASSUME MainInv, RuntimeInv, CleanVolume PROVE MainInv' /\ RuntimeInv' /\ (AcceptedInv => AcceptedInv')
<1>1. In("finally") /\ published' = published /\ leftovers' = leftovers /\ UNCHANGED runtimeVars
  BY DEF CleanVolume, RuntimeUnchanged
<1>2. PICK r : r = Role
  OBVIOUS
<1>3. /\ main' \in MainType /\ main'.n = main.n /\ main'.error = main.error /\ main'.summary = main.summary
      /\ main.ledger # "none" => main'.ledger # "none"
      /\ main.finishOnly => main'.finishOnly
      /\ \/ r = "authority" /\ Behind = {} /\ main'.pc = "finally" /\ main'.todo = <<"results">>
         \/ r = "results" /\ Behind = {"authority"} /\ main'.pc = "leave" /\ main'.todo = Roles
      /\ gate' \in GateType /\ \A q \in Range(Roles) : q # r => gate'[q] = gate[q]
      /\ gate'[r].there => main'.finishOnly
      /\ gate'[r].lost => ~gate'[r].there /\ gate'[r].copy = "whole"
      /\ ~main'.error /\ main'.ledger = "none" => ~gate'[r].there /\ gate'[r].copy = "whole"
  BY <1>1, <1>2, CleanFields DEF In
<1>4. MainTypeOK' /\ PlaceInv'
  BY <1>1, <1>3 DEF MainInv, MainTypeOK, PlaceInv, In
<1>5. main'.pc = "finally" => Behind' = {"authority"}
  <2>1. main'.todo = <<"results">> => Behind' = {"authority"}
    BY One, RolesAre DEF Behind
  <2>2. QED  BY <1>3, <2>1
<1>6. \A q \in Range(Roles) : q # r =>
        /\ gate[q].lost => ~gate[q].there /\ gate[q].copy = "whole"
        /\ q \in Behind => /\ gate[q].there => main.finishOnly
                           /\ ~main.error /\ main.ledger = "none" => ~gate[q].there /\ gate[q].copy = "whole"
        /\ q \notin Behind /\ ~main.error => gate[q].there
  BY <1>1 DEF MainInv, GateInv, In
<1>7. GateInv'
  BY <1>3, <1>5, <1>6, RolesAre DEF GateInv, In
<1>8. AcceptedInv => AcceptedInv'
  BY <1>1, <1>3 DEF AcceptedInv, In
<1>9. QED  BY <1>1, <1>4, <1>7, <1>8, RuntimeStays DEF MainInv

LEMMA RuntimeStepOfCampaign ==
  ASSUME MainInv, RuntimeInv, RuntimeStep \/ Environment, CampaignUnchanged PROVE MainInv' /\ RuntimeInv'
<1>1. main' = main /\ gate' = gate /\ published' = published /\ leftovers' = leftovers
  BY DEF CampaignUnchanged
<1>2. MainInv'
  BY <1>1 DEF MainInv, MainTypeOK, PlaceInv, GateInv, Behind, In
<1>3. QED  BY <1>2, RuntimeKeeps

\* CaseOver says what the campaign may say of its cases: a case that is taken
\* for clean was seen to be.
LEMMA CaseOverAccepted ==
  ASSUME MainInv, RuntimeInv, CompleteInv, AcceptedInv, CaseOver PROVE AcceptedInv'
<1>1. CASE ~Accepted(Case)
  <2>1. main'.error
    BY <1>1 DEF CaseOver, MainInv, MainTypeOK, MainType
  <2>2. QED  BY <2>1 DEF AcceptedInv
<1>2. CASE Accepted(Case)
  <2>1. files.cleanup = "complete"
    BY <1>2 DEF Accepted, ReferenceAccepted, CaseAccepted, CleanupComplete
  <2>2. exists = {} /\ leftovers' = leftovers
    BY <2>1 DEF CompleteInv, CaseOver
  <2>3. main'.pc \in {"prepare", "gate"} /\ main'.error = main.error
    BY <1>2 DEF CaseOver, MainInv, MainTypeOK, MainType
  <2>4. QED  BY <2>2, <2>3 DEF AcceptedInv, In
<1>3. QED  BY <1>1, <1>2

CampaignInv == RuntimeInv /\ MainInv
ReportInv == CompleteInv /\ AcceptedInv

LEMMA InitInv == ASSUME Init PROVE CampaignInv /\ ("complete" \notin Earlier => ReportInv)
<1>1. PICK before \in Earlier :
        /\ exists = {} /\ dying = {} /\ lost = {} /\ copy = [v \in Volumes |-> "none"]
        /\ attempt = NoAttempts /\ work = NewWork("reference") /\ files = NoFiles(before)
  BY DEF Init
<1>2. Creation \in Seq(Owned) /\ Creation \in Seq(Owned \cup {"all", "broken", "unwritten"}) /\ Creation # <<>>
  BY OwnedIs DEF Creation
<1>3. work \in WorkType /\ files \in FilesType /\ attempt \in AttemptType /\ copy \in CopyType
  BY <1>1, <1>2, EarlierAssumption DEF WorkType, NewWork, FilesType, NoFiles, AttemptType, Attempts, NoAttempts, CopyType, Early,
     CaseNames
<1>4. /\ work.pc = "create" /\ work.todo = Creation /\ ~work.errors /\ ~work.writers /\ ~work.fenced
      /\ work.fence = "none" /\ ~work.preserve
  BY <1>1 DEF NewWork
<1>5. RuntimeTypeOK /\ TodoInv /\ QuietInv
  BY <1>1, <1>2, <1>3, <1>4 DEF RuntimeTypeOK, DockerTypeOK, TodoInv, QuietInv, At, Early
<1>6. RemovedInv /\ WritersInv /\ CopiesInv /\ LostInv /\ StateInv /\ LedgerInv
  BY <1>1, <1>4 DEF RemovedInv, WritersInv, CopiesInv, LostInv, StateInv, LedgerInv, At, Steps
<1>7. FenceInv
  BY <1>1, <1>4 DEF FenceInv, FencedIsClosed, NoAttempts, At
<1>8. "complete" \notin Earlier => CompleteInv
  BY <1>1 DEF CompleteInv, NoFiles
<1>9. /\ main = [pc |-> "case", n |-> 1, todo |-> Roles, error |-> FALSE, summary |-> FALSE,
                 ledger |-> "none", finishOnly |-> FALSE]
      /\ \E held \in {"none", "old"} :
           gate = [r \in Range(Roles) |-> [there |-> FALSE, lost |-> FALSE, copy |-> held]]
      /\ published = [c \in Range(Cases) |-> "none"] /\ leftovers = {}
  BY DEF Init
<1>10. main \in MainType
  BY <1>9, OrderIs DEF MainType
<1>11. MainTypeOK /\ PlaceInv /\ AcceptedInv
  BY <1>9, <1>10 DEF MainTypeOK, GateType, PlaceInv, AcceptedInv, In
<1>12. GateInv
  BY <1>9 DEF GateInv, In
<1>13. QED  BY <1>5, <1>6, <1>7, <1>8, <1>11, <1>12 DEF CampaignInv, RuntimeInv, MainInv, ReportInv

\* A new runtime's directory holds what an earlier use of it left, at most; and
\* no step of the campaign outside a case writes in one.
LEMMA FilesStay == ASSUME CompleteInv, UNCHANGED runtimeVars PROVE CompleteInv'
  BY DEF runtimeVars, CompleteInv

LEMMA CaseOverFiles == ASSUME CaseOver PROVE CompleteInv'
  BY StartKeeps DEF CaseOver, CaseNames

LEMMA PrepareFiles ==
  ASSUME CompleteInv, PrepareVolume \/ Summarize \/ CleanVolume \/ Exit PROVE CompleteInv'
<1>1. UNCHANGED runtimeVars
  BY DEF PrepareVolume, Summarize, CleanVolume, Exit, RuntimeUnchanged
<1>2. QED  BY <1>1, FilesStay

LEMMA JudgeFiles ==
  ASSUME CompleteInv, "complete" \notin Earlier, Promote \/ Judge \/ GateFails PROVE CompleteInv'
<1>1. CASE UNCHANGED runtimeVars
  BY <1>1, FilesStay
<1>2. ASSUME NEW before \in Earlier, StartRuntime(Order[main.n + 1], before) PROVE CompleteInv'
  BY <1>2 DEF StartRuntime, NoFiles, CompleteInv
<1>3. QED  BY <1>1, <1>2 DEF Promote, Judge, GateFails, NextCase, RuntimeUnchanged

LEMMA PrepareAccepted == ASSUME MainInv, AcceptedInv, PrepareVolume PROVE AcceptedInv'
<1>1. leftovers' = leftovers /\ (main' = Advanced("promote") \/ Raise)
  BY DEF PrepareVolume, RuntimeUnchanged
<1>2. main'.error \/ (main'.error = main.error /\ main'.pc \in {"prepare", "promote"})
  <2>1. CASE Raise
    BY <2>1, RaiseFields DEF MainInv
  <2>2. CASE main' = Advanced("promote")
    BY <2>2, AdvancedFields DEF MainInv, PrepareVolume, In
  <2>3. QED  BY <1>1, <2>1, <2>2
<1>3. QED  BY <1>1, <1>2 DEF AcceptedInv, In

LEMMA NextInv ==
  ASSUME CampaignInv, [Next]_campaignVars
  PROVE  CampaignInv' /\ (ReportInv /\ "complete" \notin Earlier => ReportInv')
<1>1. CASE UNCHANGED campaignVars
  <2>1. UNCHANGED runtimeVars /\ CampaignUnchanged
    BY <1>1 DEF campaignVars, CampaignUnchanged
  <2>2. RuntimeInv'
    BY <2>1, RuntimeStays DEF CampaignInv
  <2>3. MainInv'
    BY <2>1 DEF CampaignInv, CampaignUnchanged, MainInv, MainTypeOK, PlaceInv, GateInv, Behind, In
  <2>4. ReportInv => ReportInv'
    BY <2>1 DEF runtimeVars, CampaignUnchanged, ReportInv, CompleteInv, AcceptedInv, In
  <2>5. QED  BY <2>2, <2>3, <2>4 DEF CampaignInv
<1>2. CASE In("case") /\ (RuntimeStep \/ Environment) /\ CampaignUnchanged
  <2>1. AcceptedInv => AcceptedInv'
    BY <1>2 DEF CampaignUnchanged, AcceptedInv, In
  <2>2. QED  BY <1>2, <2>1, RuntimeStepOfCampaign, CompleteKeeps DEF CampaignInv, ReportInv
<1>3. ASSUME Next, ~(In("case") /\ (RuntimeStep \/ Environment) /\ CampaignUnchanged)
      PROVE  /\ MainInv' /\ RuntimeInv' /\ (CompleteInv /\ AcceptedInv => AcceptedInv')
             /\ CompleteInv /\ "complete" \notin Earlier => CompleteInv'
  <2>1. CASE CaseOver
    BY <2>1, CaseOverStep, CaseOverAccepted, CaseOverFiles DEF CampaignInv
  <2>2. CASE PrepareVolume
    <3>1. AcceptedInv => AcceptedInv'
      BY <2>2, PrepareAccepted DEF CampaignInv
    <3>2. QED  BY <2>2, <3>1, PrepareVolumeStep, PrepareFiles DEF CampaignInv
  <2>3. CASE Promote \/ Judge \/ GateFails
    BY <2>3, JudgeStep, JudgeFiles DEF CampaignInv
  <2>4. CASE Summarize
    BY <2>4, SummarizeStep, PrepareFiles DEF CampaignInv
  <2>5. CASE CleanVolume
    BY <2>5, CleanVolumeStep, PrepareFiles DEF CampaignInv
  <2>6. CASE Exit
    BY <2>6, ExitStep, PrepareFiles DEF CampaignInv
  <2>7. QED  BY <1>3, <2>1, <2>2, <2>3, <2>4, <2>5, <2>6 DEF Next
<1>4. QED  BY <1>1, <1>2, <1>3 DEF CampaignInv, ReportInv

\* Type correctness of the campaign and of the runtime of the case it is at.
THEOREM CampaignTypes == Spec => []TypeOK
<1>1. Init => CampaignInv
  BY InitInv
<1>2. CampaignInv /\ [Next]_campaignVars => CampaignInv'
  BY NextInv
<1>3. CampaignInv => TypeOK
  BY DEF CampaignInv, RuntimeInv, MainInv, TypeOK
<1>4. QED  BY <1>1, <1>2, <1>3, PTL DEF Spec

\* No evidence is lost: a volume of a failed runtime goes only when a whole copy
\* of what it held last has been made, the trusted state of any other goes last,
\* and a volume of the gate only when its copy has been compared with it; and
\* the campaign does not end with one left that it has not written down.
\* Whatever was in the directory before.
THEOREM EvidenceIsKept == Spec => []NothingIsLost
<1>1. Init => CampaignInv
  BY InitInv
<1>2. CampaignInv /\ [Next]_campaignVars => CampaignInv'
  BY NextInv
<1>3. CampaignInv => NothingIsLost
  <2>1. CampaignInv => EvidenceSurvives
    BY DEF CampaignInv, RuntimeInv, RuntimeTypeOK, DockerTypeOK, LostInv, StateInv, EvidenceSurvives
  <2>2. CampaignInv => GateVolumesSurvive
    BY DEF CampaignInv, MainInv, GateInv, GateVolumesSurvive, In
  <2>3. QED  BY <2>1, <2>2 DEF NothingIsLost
<1>4. QED  BY <1>1, <1>2, <1>3, PTL DEF Spec

\* In a directory in which no earlier use left the word that its cleanup was
\* complete, what is said of the cleanup is true, step by step, case by case and
\* at the end: a fence that answered leaves no attempt open, a cleanup written
\* down as complete left nothing and any other names what it left, and a
\* campaign that ends without an exception left nothing behind.
THEOREM CampaignTellsTheTruth ==
  ASSUME "complete" \notin Earlier
  PROVE  Spec => []CampaignIsTrue
<1>1. Init => CampaignInv /\ ReportInv
  BY InitInv
<1>2. CampaignInv /\ ReportInv /\ [Next]_campaignVars => (CampaignInv /\ ReportInv)'
  BY NextInv
<1>3. CampaignInv /\ ReportInv => CampaignIsTrue
  <2>1. CampaignInv => FencedIsClosed
    BY DEF CampaignInv, RuntimeInv, FenceInv
  <2>2. CampaignInv /\ ReportInv => CleanupIsTrue
    BY DEF CampaignInv, RuntimeInv, LedgerInv, ReportInv, CompleteInv, CleanupIsTrue, At
  <2>3. CampaignInv /\ ReportInv => AcceptedIsClean
    BY DEF CampaignInv, MainInv, GateInv, ReportInv, AcceptedInv, AcceptedIsClean, In
  <2>4. QED  BY <2>1, <2>2, <2>3 DEF CampaignIsTrue
<1>4. QED  BY <1>1, <1>2, <1>3, PTL DEF Spec

=============================================================================
