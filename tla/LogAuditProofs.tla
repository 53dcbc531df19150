-------------------------- MODULE LogAuditProofs ---------------------------
(***************************************************************************)
(* The two observers of audit logs for any number of events and faults and *)
(* any times.                                                              *)
(*                                                                         *)
(* HttpAudit: a collection that returns returns everything.  The invariant *)
(* says where a collection that has raised nothing stands: the snapshots   *)
(* it took extend one another, its result is what the last of them has     *)
(* beyond the first, and while the target only appends each is the         *)
(* baseline and a part of what was appended since.                         *)
(*                                                                         *)
(* JsonlAudit: a collection that returns omits nothing, and degrades when  *)
(* the file was exchanged or spoiled before the last look at it.  The      *)
(* invariant says what it has read: whole lines that are all events or     *)
(* blank, whose events are its own; and, while the file is only appended   *)
(* to, that these lines are still there and that behind the start of the   *)
(* window are exactly the events written since, or a text that is none.    *)
(***************************************************************************)
EXTENDS HttpAudit, JsonlAudit, SequenceTheorems, WellFoundedInduction, TLAPS

-----------------------------------------------------------------------------
(***************************************************************************)
(* Lists, prefixes and suffixes.                                           *)
(***************************************************************************)
Lists == Seq(Nat)

LEMMA ListIs ==
  ASSUME NEW S, NEW s \in Seq(S)
  PROVE  Len(s) \in Nat /\ DOMAIN s = 1 .. Len(s) /\ \A i \in 1 .. Len(s) : s[i] \in S
BY LenProperties, ElementOfSeq

LEMMA PartIs ==
  ASSUME NEW S, NEW s \in Seq(S), NEW n \in 0 .. Len(s)
  PROVE  /\ SubSeq(s, 1, n) \in Seq(S)
         /\ Len(SubSeq(s, 1, n)) = n
         /\ \A i \in 1 .. n : SubSeq(s, 1, n)[i] = s[i]
<1>1. Len(s) \in Nat /\ \A i \in 1 .. n : s[i] \in S
  BY ListIs
<1>2. n \in Int /\ 1 \in Int
  BY <1>1
<1> QED
  BY <1>1, <1>2, SubSeqProperties

LEMMA PrefixIs ==
  ASSUME NEW S, NEW s \in Seq(S), NEW t \in Seq(S)
  PROVE  IsPrefix(s, t) <=> Len(s) <= Len(t) /\ \A i \in 1 .. Len(s) : s[i] = t[i]
<1>1. Len(s) \in Nat /\ Len(t) \in Nat
  BY ListIs
<1>2. SubSeq(s, 1, Len(s)) = s
  BY SubSeqFull
<1>3. CASE Len(s) <= Len(t)
  <2>1. /\ SubSeq(t, 1, Len(s)) \in Seq(S)
        /\ Len(SubSeq(t, 1, Len(s))) = Len(s)
        /\ \A i \in 1 .. Len(s) : SubSeq(t, 1, Len(s))[i] = t[i]
    BY <1>1, <1>3, PartIs
  <2>2. s = SubSeq(t, 1, Len(s)) <=> \A i \in 1 .. Len(s) : s[i] = t[i]
    BY <2>1, SeqEqual
  <2> QED
    BY <1>2, <1>3, <2>2 DEF IsPrefix
<1>4. CASE ~ Len(s) <= Len(t)
  BY <1>4 DEF IsPrefix
<1> QED
  BY <1>3, <1>4

LEMMA SuffixIs ==
  ASSUME NEW S, NEW s \in Seq(S), NEW t \in Seq(S), Len(s) <= Len(t)
  PROVE  /\ Suffix(t, s) \in Seq(S)
         /\ Len(Suffix(t, s)) = Len(t) - Len(s)
         /\ \A i \in 1 .. Len(t) - Len(s) : Suffix(t, s)[i] = t[Len(s) + i]
<1>1. Len(s) \in Nat /\ Len(t) \in Nat /\ \A i \in 1 .. Len(t) : t[i] \in S
  BY ListIs
<1>2. \A i \in Len(s) + 1 .. Len(t) : t[i] \in S
  BY <1>1
<1>3. Len(s) + 1 \in Int /\ Len(t) \in Int
  BY <1>1
<1>4. /\ Suffix(t, s) \in Seq(S)
      /\ Len(Suffix(t, s)) = IF Len(s) + 1 <= Len(t) THEN Len(t) - (Len(s) + 1) + 1 ELSE 0
      /\ \A i \in 1 .. Len(t) - (Len(s) + 1) + 1 : Suffix(t, s)[i] = t[Len(s) + 1 + i - 1]
  BY <1>2, <1>3, SubSeqProperties DEF Suffix
<1> QED
  BY <1>1, <1>4

\* Prefixes of prefixes.
LEMMA PrefixOfPrefix ==
  ASSUME NEW S, NEW s \in Seq(S), NEW t \in Seq(S), NEW u \in Seq(S), IsPrefix(s, t), IsPrefix(t, u)
  PROVE  IsPrefix(s, u)
<1>1. Len(s) \in Nat /\ Len(t) \in Nat /\ Len(u) \in Nat
  BY ListIs
<1>2. Len(s) <= Len(t) /\ \A i \in 1 .. Len(s) : s[i] = t[i]
  BY PrefixIs
<1>3. Len(t) <= Len(u) /\ \A i \in 1 .. Len(t) : t[i] = u[i]
  BY PrefixIs
<1> QED
  BY <1>1, <1>2, <1>3, PrefixIs

\* What a list has beyond the first and what the next has beyond it make up
\* what the next has beyond the first.
LEMMA SuffixesJoin ==
  ASSUME NEW S, NEW s \in Seq(S), NEW t \in Seq(S), NEW u \in Seq(S), IsPrefix(s, t), IsPrefix(t, u)
  PROVE  Suffix(t, s) \o Suffix(u, t) = Suffix(u, s)
<1>1. Len(s) \in Nat /\ Len(t) \in Nat /\ Len(u) \in Nat
  BY ListIs
<1>2. Len(s) <= Len(t)
  BY PrefixIs
<1>3. Len(t) <= Len(u) /\ \A i \in 1 .. Len(t) : t[i] = u[i]
  BY PrefixIs
<1>4. Len(s) <= Len(u)
  BY <1>1, <1>2, <1>3
<1> DEFINE a == Suffix(t, s)
           b == Suffix(u, t)
           c == Suffix(u, s)
<1>5. a \in Seq(S) /\ Len(a) = Len(t) - Len(s) /\ \A i \in 1 .. Len(t) - Len(s) : a[i] = t[Len(s) + i]
  BY <1>2, SuffixIs
<1>6. b \in Seq(S) /\ Len(b) = Len(u) - Len(t) /\ \A i \in 1 .. Len(u) - Len(t) : b[i] = u[Len(t) + i]
  BY <1>3, SuffixIs
<1>7. c \in Seq(S) /\ Len(c) = Len(u) - Len(s) /\ \A i \in 1 .. Len(u) - Len(s) : c[i] = u[Len(s) + i]
  BY <1>4, SuffixIs
<1> HIDE DEF a, b, c
<1>8. /\ a \o b \in Seq(S) /\ Len(a \o b) = Len(a) + Len(b)
      /\ \A i \in 1 .. Len(a) + Len(b) : (a \o b)[i] = IF i <= Len(a) THEN a[i] ELSE b[i - Len(a)]
  BY <1>5, <1>6, ConcatProperties
<1>9. Len(a \o b) = Len(c)
  BY <1>1, <1>5, <1>6, <1>7, <1>8
<1>10. ASSUME NEW i \in 1 .. Len(a \o b)
       PROVE  (a \o b)[i] = c[i]
  <2>1. CASE i <= Len(a)
    <3>1. (a \o b)[i] = t[Len(s) + i]
      BY <1>1, <1>2, <1>5, <1>6, <1>8, <2>1
    <3>2. Len(s) + i \in 1 .. Len(t) /\ i \in 1 .. Len(u) - Len(s)
      BY <1>1, <1>2, <1>3, <1>5, <2>1
    <3> QED
      BY <1>3, <1>7, <3>1, <3>2
  <2>2. CASE ~ i <= Len(a)
    <3>1. i - Len(a) \in 1 .. Len(u) - Len(t) /\ Len(t) + (i - Len(a)) = Len(s) + i
      BY <1>1, <1>2, <1>3, <1>5, <1>6, <1>8, <2>2
    <3>2. (a \o b)[i] = b[i - Len(a)]
      BY <1>1, <1>5, <1>6, <1>8, <2>2
    <3>3. b[i - Len(a)] = u[Len(s) + i]
      BY <1>6, <3>1
    <3>4. i \in 1 .. Len(u) - Len(s)
      BY <1>1, <1>5, <1>6, <1>8
    <3> QED
      BY <1>7, <3>2, <3>3, <3>4
  <2> QED
    BY <2>1, <2>2
<1> QED
  BY <1>7, <1>8, <1>9, <1>10, SeqEqual DEF a, b, c

LEMMA SuffixOfJoined ==
  ASSUME NEW S, NEW s \in Seq(S), NEW t \in Seq(S)
  PROVE  Suffix(s \o t, s) = t
<1>1. Len(s) \in Nat /\ Len(t) \in Nat
  BY ListIs
<1>2. /\ s \o t \in Seq(S) /\ Len(s \o t) = Len(s) + Len(t)
      /\ \A i \in 1 .. Len(s) + Len(t) : (s \o t)[i] = IF i <= Len(s) THEN s[i] ELSE t[i - Len(s)]
  BY ConcatProperties
<1> DEFINE u == Suffix(s \o t, s)
<1>3. /\ u \in Seq(S) /\ Len(u) = Len(s \o t) - Len(s)
      /\ \A i \in 1 .. Len(s \o t) - Len(s) : u[i] = (s \o t)[Len(s) + i]
  <2>1. Len(s) <= Len(s \o t)
    BY <1>1, <1>2
  <2>2. s \o t \in Seq(S)
    BY <1>2
  <2> QED
    BY <2>1, <2>2, SuffixIs
<1> HIDE DEF u
<1>4. Len(u) = Len(t)
  BY <1>1, <1>2, <1>3
<1>5. ASSUME NEW i \in 1 .. Len(u)
      PROVE  u[i] = t[i]
  <2>1. u[i] = (s \o t)[Len(s) + i]
    BY <1>3
  <2>2. Len(s) + i \in 1 .. Len(s) + Len(t) /\ ~ Len(s) + i <= Len(s) /\ Len(s) + i - Len(s) = i
    BY <1>1, <1>4
  <2> QED
    BY <1>2, <2>1, <2>2
<1> QED
  BY <1>3, <1>4, <1>5, SeqEqual DEF u

\* Appending to a list leaves its parts, and appends to what it ends.
LEMMA PartsStay ==
  ASSUME NEW S, NEW s \in Seq(S), NEW x \in S, NEW n \in 0 .. Len(s)
  PROVE  SubSeq(Append(s, x), 1, n) = SubSeq(s, 1, n)
<1>1. Len(s) \in Nat
  BY ListIs
<1>2. /\ Append(s, x) \in Seq(S) /\ Len(Append(s, x)) = Len(s) + 1
      /\ \A i \in 1 .. Len(s) : Append(s, x)[i] = s[i]
  BY AppendProperties
<1>3. n \in 0 .. Len(Append(s, x))
  BY <1>1, <1>2
<1>4. /\ SubSeq(s, 1, n) \in Seq(S) /\ Len(SubSeq(s, 1, n)) = n
      /\ \A i \in 1 .. n : SubSeq(s, 1, n)[i] = s[i]
  BY PartIs
<1>5. /\ SubSeq(Append(s, x), 1, n) \in Seq(S) /\ Len(SubSeq(Append(s, x), 1, n)) = n
      /\ \A i \in 1 .. n : SubSeq(Append(s, x), 1, n)[i] = Append(s, x)[i]
  BY <1>2, <1>3, PartIs
<1>6. \A i \in 1 .. n : Append(s, x)[i] = s[i]
  BY <1>1, <1>2
<1> QED
  BY <1>4, <1>5, <1>6, SeqEqual

LEMMA AppendedToJoined ==
  ASSUME NEW s \in Lists, NEW t \in Lists, NEW x \in Nat
  PROVE  Append(s \o t, x) = s \o Append(t, x)
<1>1. s \in Seq(Nat) /\ t \in Seq(Nat) /\ s \o t \in Seq(Nat) /\ <<x>> \in Seq(Nat)
  BY ConcatProperties DEF Lists
<1>2. Append(s \o t, x) = (s \o t) \o <<x>> /\ Append(t, x) = t \o <<x>>
  BY <1>1, AppendIsConcat
<1> QED
  BY <1>1, <1>2, ConcatAssociative

-----------------------------------------------------------------------------
(***************************************************************************)
(* Parsing: the least position of an entry that is no event.               *)
(***************************************************************************)
Less == OpToRel(<, Nat)

LEMMA LessFounded == IsWellFoundedOn(Less, Nat)
BY NatLessThanWellFounded DEF Less

LEMMA LessIs == \A m, k \in Nat : k < m => <<k, m>> \in Less
BY DEF OpToRel, Less

LEMMA Least ==
  ASSUME NEW T, T \subseteq Nat, T # {}
  PROVE  \E m \in T : \A k \in T : m <= k
<1>1. PICK m \in T : \A k \in T : ~ (<<k, m>> \in Less)
  BY LessFounded, WFMin, Zenon
<1>2. ASSUME NEW k \in T
      PROVE  m <= k
  <2>1. m \in Nat /\ k \in Nat
    OBVIOUS
  <2>2. ~ (k < m)
    BY ONLY <1>1, <2>1, LessIs, k \in T, Zenon
  <2> QED
    BY <2>1, <2>2
<1> QED
  BY <1>2

\* What is parsed is a list of entries, and all of them if none is bad.
LEMMA EntriesAre ==
  ASSUME NEW raw \in Lists
  PROVE  /\ ParsedEntries(raw).events \in Lists
         /\ ~ ParsedEntries(raw).bad => ParsedEntries(raw).events = raw
<1> DEFINE bad == {i \in DOMAIN raw : raw[i] = Bad}
           IsEnd(k) == k + 1 \in bad /\ \A i \in bad : k < i
           n == IF bad = {} THEN Len(raw) ELSE CHOOSE k \in 0 .. Len(raw) : IsEnd(k)
<1>1. Len(raw) \in Nat /\ DOMAIN raw = 1 .. Len(raw)
  BY ListIs DEF Lists
<1>2. n \in 0 .. Len(raw)
  <2>1. CASE bad = {}
    BY <1>1, <2>1
  <2>2. CASE bad # {}
    <3>1. bad \subseteq Nat /\ bad \subseteq 1 .. Len(raw)
      BY <1>1
    <3> HIDE DEF bad
    <3>2. PICK m \in bad : \A i \in bad : m <= i
      BY <2>2, <3>1, Least
    <3>3. m - 1 \in 0 .. Len(raw) /\ IsEnd(m - 1)
      BY <3>1, <3>2
    <3>4. (CHOOSE k \in 0 .. Len(raw) : IsEnd(k)) \in 0 .. Len(raw)
      BY <3>3
    <3> QED
      BY <2>2, <3>4
  <2> QED
    BY <2>1, <2>2
<1>3. ParsedEntries(raw) = [events |-> SubSeq(raw, 1, n), bad |-> bad # {}]
  BY DEF ParsedEntries
<1>4. bad = {} => n = Len(raw)
  OBVIOUS
<1> HIDE DEF n, bad
<1>5. SubSeq(raw, 1, n) \in Lists
  BY <1>2, PartIs DEF Lists
<1>6. SubSeq(raw, 1, Len(raw)) = raw
  BY SubSeqFull DEF Lists
<1>7. PICK b \in BOOLEAN : b <=> bad # {}
  OBVIOUS
<1>8. PICK part : part = SubSeq(raw, 1, n)
  OBVIOUS
<1>9. ParsedEntries(raw) = [events |-> part, bad |-> b]
  BY <1>3, <1>7, <1>8, Zenon
<1>10. ParsedEntries(raw).events = part /\ ParsedEntries(raw).bad = b
  BY ONLY <1>9
<1> QED
  BY <1>4, <1>5, <1>6, <1>7, <1>8, <1>10

-----------------------------------------------------------------------------
(***************************************************************************)
(* The inductive invariant.                                                *)
(***************************************************************************)
HttpStages == {"idle", "begun", "asked", "served", "loop", "sleep", "done"}
HttpObserverType ==
  [pc : HttpStages, previous : Lists, events : Lists, answer : Lists, served : Nat, seen : Nat,
   completed : BOOLEAN, deadline : Nat, quietSince : Nat, wake : Nat,
   outcome : {"none", "ok", "error"}]
HttpTypeOK ==
  /\ spec \in [settle : BOOLEAN, correlated : BOOLEAN]
  /\ stream \in Lists
  /\ target \in [next : Nat, appended : Lists, faults : Nat]
  /\ now \in Nat
  /\ obs \in HttpObserverType
  /\ snapshots \in Seq(Lists)

\* Each snapshot extends all before it.
Chain(shots) == \A i, j \in DOMAIN shots : i < j => IsPrefix(shots[i], shots[j])

\* Where a collection that has raised nothing stands after these snapshots.
Standing(o, shots) ==
  /\ shots # <<>> /\ Chain(shots)
  /\ o.previous = Last(shots)
  /\ o.events = Suffix(o.previous, shots[1])
  /\ o.completed => Len(shots) > 1
  /\ o.pc \in {"loop", "sleep"} \/ o.outcome = "ok" => o.completed

\* And where it stands with a target that only appends to the baseline.
Plain(o, base, list, appended) ==
  /\ list = base \o appended
  /\ o.seen \in 0 .. Len(appended)
  /\ o.previous = base \o SubSeq(appended, 1, o.seen)
  /\ o.pc = "served" => /\ o.served \in 0 .. Len(appended)
                        /\ o.answer = base \o SubSeq(appended, 1, o.served)

Live == obs.pc # "idle" /\ obs.outcome # "error"
HttpStageInv ==
  /\ obs.pc = "idle" => obs = NoHttpObserver /\ snapshots = <<>> /\ target.appended = <<>>
  /\ obs.outcome # "none" => obs.pc = "done"
StandingInv == Live => Standing(obs, snapshots)
PlainInv == Live /\ target.faults = 0 => Plain(obs, snapshots[1], stream, target.appended)

HttpInv == HttpTypeOK /\ HttpStageInv /\ StandingInv /\ PlainInv

-----------------------------------------------------------------------------
\* An observer that only moves on.
Moved(o, p) ==
  /\ p.previous = o.previous /\ p.events = o.events /\ p.seen = o.seen /\ p.completed = o.completed
  /\ p.pc \in {"loop", "sleep"} \/ p.outcome = "ok" => p.completed
  /\ p.pc = "served" => o.pc = "served" /\ p.served = o.served /\ p.answer = o.answer

LEMMA MovedStands ==
  ASSUME NEW o, NEW p, Moved(o, p), NEW shots, Standing(o, shots)
  PROVE  Standing(p, shots)
BY DEF Moved, Standing

LEMMA MovedPlain ==
  ASSUME NEW o, NEW p, Moved(o, p), NEW base, NEW list, NEW appended, Plain(o, base, list, appended)
  PROVE  Plain(p, base, list, appended)
BY DEF Moved, Plain

LEMMA MoveKeeps ==
  ASSUME HttpInv, UNCHANGED <<spec, stream, target, snapshots>>, now' \in Nat,
         obs' \in HttpObserverType, obs.pc # "idle", obs'.pc # "idle",
         obs'.outcome # "none" => obs'.pc = "done",
         obs'.outcome # "error" => obs.outcome # "error" /\ Moved(obs, obs')
  PROVE  HttpInv'
<1>1. HttpTypeOK' /\ HttpStageInv'
  BY DEF HttpInv, HttpTypeOK, HttpStageInv
<1>2. StandingInv'
  BY MovedStands DEF HttpInv, StandingInv, Live
<1>3. PlainInv'
  BY MovedPlain DEF HttpInv, PlainInv, Live
<1> QED
  BY <1>1, <1>2, <1>3 DEF HttpInv

\* Moves that change the stage, and perhaps the outcome.
LEMMA StageKeeps ==
  ASSUME HttpInv, UNCHANGED <<spec, stream, target, now, snapshots>>, obs.pc \notin {"idle", "done"},
         NEW pc \in HttpStages \ {"idle", "served"}, NEW outcome \in {"none", "ok", "error"},
         obs' = [obs EXCEPT !.pc = pc, !.outcome = outcome],
         outcome # "none" => pc = "done",
         pc \in {"loop", "sleep"} \/ outcome = "ok" => obs.completed
  PROVE  HttpInv'
<1>1. obs \in HttpObserverType /\ now \in Nat
  BY DEF HttpInv, HttpTypeOK
<1>2. /\ obs' \in HttpObserverType /\ obs'.pc = pc /\ obs'.outcome = outcome
      /\ obs'.previous = obs.previous /\ obs'.events = obs.events /\ obs'.seen = obs.seen
      /\ obs'.completed = obs.completed
  BY <1>1 DEF HttpObserverType
<1>3. obs.outcome = "none"
  BY <1>1 DEF HttpInv, HttpStageInv
<1>4. Moved(obs, obs')
  BY <1>2 DEF Moved
<1> QED
  BY <1>1, <1>2, <1>3, <1>4, MoveKeeps

LEMMA HttpStarts == HttpInit => HttpInv
<1> SUFFICES ASSUME HttpInit
             PROVE  HttpInv
  OBVIOUS
<1>1. <<>> \in Lists /\ <<>> \in Seq(Lists)
  BY EmptySeq DEF Lists
<1>2. stream \in Lists
  <2>1. 1 \in Nat /\ Bad \in Nat
    BY DEF Bad
  <2>2. \A a, b \in Nat : <<a>> \in Seq(Nat) /\ <<a, b>> \in Seq(Nat)
    OBVIOUS
  <2> QED
    BY <1>1, <2>1, <2>2 DEF HttpInit, Lists
<1>3. NoHttpObserver \in HttpObserverType
  BY <1>1 DEF NoHttpObserver, HttpObserverType, HttpStages
<1>4. HttpTypeOK
  BY <1>1, <1>2, <1>3 DEF HttpInit, HttpTypeOK
<1>5. HttpStageInv /\ ~ Live
  BY DEF HttpInit, HttpStageInv, Live, NoHttpObserver
<1> QED
  BY <1>4, <1>5 DEF HttpInv, StandingInv, PlainInv

\* begin() takes the first snapshot.
LEMMA BeginSteps ==
  ASSUME HttpInv, obs.pc = "idle", NEW base \in Lists, stream' = base,
         obs' = [obs EXCEPT !.pc = "begun", !.previous = base], snapshots' = <<base>>,
         UNCHANGED <<spec, target, now>>
  PROVE  HttpInv'
<1>1. /\ obs = NoHttpObserver /\ obs \in HttpObserverType /\ target.appended = <<>>
      /\ target \in [next : Nat, appended : Lists, faults : Nat]
  BY DEF HttpInv, HttpStageInv, HttpTypeOK
<1>2. /\ obs' \in HttpObserverType /\ obs'.pc = "begun" /\ obs'.previous = base /\ obs'.events = <<>>
      /\ obs'.seen = 0 /\ obs'.completed = FALSE /\ obs'.outcome = "none"
  BY <1>1 DEF HttpObserverType, NoHttpObserver, HttpStages
<1>3. /\ <<base>> \in Seq(Lists) /\ Len(<<base>>) = 1 /\ DOMAIN <<base>> = {1} /\ <<base>>[1] = base
      /\ <<base>> # <<>>
  OBVIOUS
<1>4. HttpTypeOK' /\ HttpStageInv'
  BY <1>1, <1>2, <1>3 DEF HttpInv, HttpTypeOK, HttpStageInv
<1>5. Len(base) \in Nat
  BY ListIs DEF Lists
<1>6. Suffix(base, base) = <<>>
  BY <1>5, SubSeqEmpty DEF Suffix
<1>7. Standing(obs', snapshots')
  <2>1. Chain(<<base>>) /\ Last(<<base>>) = base
    BY <1>3 DEF Chain, Last
  <2> QED
    BY <1>2, <1>3, <1>6, <2>1 DEF Standing
<1>8. Plain(obs', base, stream', target'.appended)
  <2>1. Len(<<>>) = 0 /\ SubSeq(<<>>, 1, 0) = <<>> /\ base \o <<>> = base
    BY ConcatEmptySeq, SubSeqEmpty DEF Lists
  <2>2. target'.appended = <<>>
    BY <1>1
  <2>3. obs'.seen \in 0 .. Len(<<>>) /\ SubSeq(<<>>, 1, obs'.seen) = <<>>
    BY <1>2, <2>1
  <2> QED
    BY <1>2, <2>1, <2>2, <2>3 DEF Plain
<1> QED
  BY <1>3, <1>4, <1>7, <1>8 DEF HttpInv, StandingInv, PlainInv

LEMMA ServeSteps ==
  ASSUME HttpInv, Serve
  PROVE  HttpInv'
<1>1. /\ obs.pc = "asked" /\ UNCHANGED <<spec, stream, target, now, snapshots>>
      /\ obs' = [obs EXCEPT !.pc = "served", !.answer = stream, !.served = Len(target.appended)]
  BY DEF Serve
<1>2. /\ obs \in HttpObserverType /\ stream \in Lists /\ target.appended \in Lists
  BY DEF HttpInv, HttpTypeOK
<1>3. Len(target.appended) \in Nat
  BY <1>2, ListIs DEF Lists
<1>4. /\ obs' \in HttpObserverType /\ obs'.pc = "served" /\ obs'.outcome = obs.outcome
      /\ obs'.previous = obs.previous /\ obs'.events = obs.events /\ obs'.seen = obs.seen
      /\ obs'.completed = obs.completed /\ obs'.answer = stream /\ obs'.served = Len(target.appended)
  BY <1>1, <1>2, <1>3 DEF HttpObserverType, HttpStages
<1>5. obs.outcome = "none"
  BY <1>1, <1>2 DEF HttpInv, HttpStageInv
<1>6. HttpTypeOK' /\ HttpStageInv'
  BY <1>1, <1>4, <1>5 DEF HttpInv, HttpTypeOK, HttpStageInv
<1>7. StandingInv'
  BY <1>1, <1>4, <1>5 DEF HttpInv, StandingInv, Live, Standing
<1>8. PlainInv'
  <2>1. SubSeq(target.appended, 1, Len(target.appended)) = target.appended
    BY <1>2, SubSeqFull DEF Lists
  <2>2. Len(target.appended) \in 0 .. Len(target.appended)
    BY <1>3
  <2> QED
    BY <1>1, <1>4, <1>5, <2>1, <2>2 DEF HttpInv, PlainInv, Live, Plain
<1> QED
  BY <1>6, <1>7, <1>8 DEF HttpInv

\* The steps that ask, wait, give up or fail.
LEMMA WaitSteps ==
  ASSUME HttpInv, StartHttp \/ Ask \/ Fail \/ TimeoutHttp \/ WakeHttp \/ TickHttp
  PROVE  HttpInv'
<1>1. obs \in HttpObserverType /\ now \in Nat /\ SettleTimeout \in Nat
  BY TimesAssumption DEF HttpInv, HttpTypeOK
<1>2. obs.pc \notin {"idle", "done"} => obs.outcome = "none"
  BY <1>1 DEF HttpInv, HttpStageInv
<1>3. obs.pc \in {"loop", "sleep"} => obs.completed
  BY <1>2 DEF HttpInv, StandingInv, Live, Standing
<1>4. ASSUME obs.pc \notin {"idle", "done"}, UNCHANGED <<spec, stream, target, now, snapshots>>,
             NEW pc \in HttpStages \ {"idle", "served"}, obs' = [obs EXCEPT !.pc = pc], pc # "done",
             pc \in {"loop", "sleep"} => obs.completed
      PROVE  HttpInv'
  <2>1. obs' = [obs EXCEPT !.pc = pc, !.outcome = "none"]
    BY <1>1, <1>2, <1>4 DEF HttpObserverType
  <2> QED
    BY <1>4, <2>1, StageKeeps
<1>5. CASE StartHttp
  <2> DEFINE deadline == now + SettleTimeout
  <2>1. deadline \in Nat
    BY <1>1
  <2>2. /\ obs.pc = "begun" /\ UNCHANGED <<spec, stream, target, now, snapshots>>
        /\ obs' = [obs EXCEPT !.pc = "asked", !.deadline = deadline, !.quietSince = now]
    BY <1>5 DEF StartHttp
  <2> HIDE DEF deadline
  <2>3. /\ obs' \in HttpObserverType /\ obs'.pc = "asked" /\ obs'.outcome = obs.outcome
        /\ obs'.previous = obs.previous /\ obs'.events = obs.events /\ obs'.seen = obs.seen
        /\ obs'.completed = obs.completed
    BY <1>1, <2>1, <2>2 DEF HttpObserverType, HttpStages
  <2>4. Moved(obs, obs') /\ obs.outcome = "none"
    BY <1>2, <2>2, <2>3 DEF Moved
  <2> QED
    BY <1>1, <2>2, <2>3, <2>4, MoveKeeps
<1>6. CASE Ask
  <2>1. obs.pc = "loop" /\ obs.completed /\ UNCHANGED <<spec, stream, target, now, snapshots>>
    BY <1>3, <1>6 DEF Ask
  <2>2. CASE obs' = [obs EXCEPT !.pc = "done", !.outcome = "ok"]
    BY <2>1, <2>2, StageKeeps DEF HttpStages
  <2>3. CASE obs' = [obs EXCEPT !.pc = "asked"]
    BY <1>4, <2>1, <2>3 DEF HttpStages
  <2> QED
    BY <1>6, <2>2, <2>3 DEF Ask, Return
<1>7. CASE Fail
  BY <1>7, StageKeeps DEF Fail, Raise, HttpStages
<1>8. CASE TimeoutHttp
  <2>1. obs.pc \in {"asked", "served"} /\ UNCHANGED <<spec, stream, target, now, snapshots>>
    BY <1>8 DEF TimeoutHttp
  <2>2. CASE obs.completed
    BY <1>8, <2>1, <2>2, StageKeeps DEF TimeoutHttp, Return, HttpStages
  <2>3. CASE ~ obs.completed
    BY <1>8, <2>1, <2>3, StageKeeps DEF TimeoutHttp, Raise, HttpStages
  <2> QED
    BY <2>2, <2>3
<1>9. CASE WakeHttp
  BY <1>3, <1>4, <1>9 DEF WakeHttp, HttpStages
<1>10. CASE TickHttp
  <2>1. obs' = obs /\ now' \in Nat /\ UNCHANGED <<spec, stream, target, snapshots>> /\ obs.pc # "idle"
    BY <1>1, <1>10 DEF TickHttp
  <2> QED
    BY <2>1 DEF HttpInv, HttpTypeOK, HttpStageInv, StandingInv, PlainInv, Live
<1> QED
  BY <1>5, <1>6, <1>7, <1>8, <1>9, <1>10

\* One more snapshot, which extends the last.
LEMMA ChainGrows ==
  ASSUME NEW shots \in Seq(Lists), shots # <<>>, Chain(shots), NEW list \in Lists,
         IsPrefix(Last(shots), list)
  PROVE  /\ Chain(Append(shots, list))
         /\ Append(shots, list) \in Seq(Lists) /\ Append(shots, list) # <<>>
         /\ Len(Append(shots, list)) > 1
         /\ Append(shots, list)[1] = shots[1]
         /\ Last(Append(shots, list)) = list
         /\ IsPrefix(shots[1], Last(shots))
         /\ shots[1] \in Lists /\ Last(shots) \in Lists
<1> DEFINE n == Len(shots)
           more == Append(shots, list)
<1>1. n \in Nat \ {0} /\ DOMAIN shots = 1 .. n /\ \A i \in 1 .. n : shots[i] \in Lists
  BY ListIs, EmptySeq
<1>2. /\ more \in Seq(Lists) /\ more # <<>> /\ Len(more) = n + 1
      /\ \A i \in 1 .. n : more[i] = shots[i]
      /\ more[n + 1] = list
  BY AppendProperties
<1>3. DOMAIN more = 1 .. n + 1
  BY <1>2, ListIs
<1>4. Last(shots) = shots[n] /\ Last(more) = list
  BY <1>2 DEF Last
<1> HIDE DEF more, n
<1>5. ASSUME NEW i \in 1 .. n
      PROVE  IsPrefix(shots[i], list)
  <2>1. CASE i = n
    BY <1>4, <2>1
  <2>2. CASE i # n
    <3>1. IsPrefix(shots[i], shots[n])
      BY <1>1, <2>2 DEF Chain
    <3>2. shots[i] \in Lists /\ shots[n] \in Lists
      BY <1>1
    <3> QED
      BY <1>4, <3>1, <3>2, PrefixOfPrefix DEF Lists
  <2> QED
    BY <2>1, <2>2
<1>6. ASSUME NEW i \in DOMAIN more, NEW j \in DOMAIN more, i < j
      PROVE  IsPrefix(more[i], more[j])
  <2>1. i \in 1 .. n /\ more[i] = shots[i]
    BY <1>1, <1>2, <1>3, <1>6
  <2>2. CASE j = n + 1
    BY <1>2, <1>5, <2>1, <2>2
  <2>3. CASE j # n + 1
    <3>1. j \in 1 .. n /\ more[j] = shots[j]
      BY <1>1, <1>2, <1>3, <2>3
    <3> QED
      BY <1>1, <1>6, <2>1, <3>1 DEF Chain
  <2> QED
    BY <2>2, <2>3
<1>7. IsPrefix(shots[1], shots[n])
  <2>1. CASE n = 1
    <3>1. shots[1] \in Seq(Nat)
      BY <1>1 DEF Lists
    <3> QED
      BY <2>1, <3>1, PrefixIs, ListIs
  <2>2. CASE n # 1
    BY <1>1, <2>2 DEF Chain
  <2> QED
    BY <2>1, <2>2
<1> QED
  BY <1>1, <1>2, <1>4, <1>6, <1>7 DEF Chain, more, n

\* The result after a snapshot that extends the last and holds events only.
LEMMA ResultGrows ==
  ASSUME NEW shots \in Seq(Lists), shots # <<>>, Chain(shots), NEW list \in Lists,
         IsPrefix(Last(shots), list)
  PROVE  Suffix(Last(shots), shots[1]) \o Suffix(list, Last(shots)) = Suffix(list, shots[1])
<1>1. /\ IsPrefix(shots[1], Last(shots))
      /\ shots[1] \in Lists /\ Last(shots) \in Lists
  BY ChainGrows
<1> QED
  BY <1>1, SuffixesJoin DEF Lists

LEMMA ReceiveSteps ==
  ASSUME HttpInv, Receive
  PROVE  HttpInv'
<1> DEFINE new    == Suffix(obs.answer, obs.previous)
           parsed == ParsedEntries(new)
           o      == [obs EXCEPT !.completed = TRUE, !.seen = obs.served]
           read   == [o EXCEPT !.events = obs.events \o parsed.events]
           quiet  == IF ~ obs.completed \/ new # <<>> THEN now ELSE obs.quietSince
           r      == [read EXCEPT !.previous = obs.answer, !.quietSince = quiet]
           shots  == Append(snapshots, obs.answer)
<1>1. /\ obs \in HttpObserverType /\ now \in Nat /\ snapshots \in Seq(Lists)
      /\ obs.answer \in Lists /\ obs.previous \in Lists /\ obs.events \in Lists
  BY DEF HttpInv, HttpTypeOK, HttpObserverType
<1>2. obs.pc = "served" /\ UNCHANGED <<spec, stream, target, now>> /\ snapshots' = shots
  BY DEF Receive
<1>3. obs.outcome = "none" /\ Live
  BY <1>1, <1>2 DEF HttpInv, HttpStageInv, Live
<1>4. Standing(obs, snapshots)
  BY <1>3 DEF HttpInv, StandingInv
<1>5. shots \in Seq(Lists)
  BY <1>1, AppendProperties
<1>6. o \in HttpObserverType /\ o.outcome = "none"
  BY <1>1, <1>3 DEF HttpObserverType
<1> HIDE DEF shots
<1>7. ASSUME NEW p \in HttpObserverType, obs' = [p EXCEPT !.pc = "done", !.outcome = "error"]
      PROVE  HttpInv'
  <2>1. obs' \in HttpObserverType /\ obs'.pc = "done" /\ obs'.outcome = "error"
    BY <1>7 DEF HttpObserverType, HttpStages
  <2> QED
    BY <1>1, <1>2, <1>5, <2>1 DEF HttpInv, HttpTypeOK, HttpStageInv, StandingInv, PlainInv, Live
<1>8. CASE ~ IsPrefix(obs.previous, obs.answer)
  BY <1>6, <1>7, <1>8 DEF Receive, Raise
<1>9. CASE IsPrefix(obs.previous, obs.answer)
  <2>1. Len(obs.previous) <= Len(obs.answer)
    BY <1>9 DEF IsPrefix
  <2>2. new \in Lists
    BY <1>1, <2>1, SuffixIs DEF Lists
  <2> HIDE DEF new
  <2>3. parsed.events \in Lists /\ (~ parsed.bad => parsed.events = new)
    BY <2>2, EntriesAre
  <2>4. obs.events \o parsed.events \in Lists
    BY <1>1, <2>3, ConcatProperties DEF Lists
  <2>5. read \in HttpObserverType
    BY <1>6, <2>4 DEF HttpObserverType
  <2>6. CASE parsed.bad
    <3>1. obs' = [read EXCEPT !.pc = "done", !.outcome = "error"]
      BY <1>9, <2>6 DEF Receive, Raise, new
    <3> QED
      BY <1>7, <2>5, <3>1
  <2>7. CASE ~ parsed.bad
    <3>1. SettleHttp(r)
      BY <1>9, <2>7 DEF Receive, new
    <3>2. quiet \in Nat
      BY <1>1 DEF HttpObserverType
    <3>3. parsed.events = new
      BY <2>3, <2>7
    <3> HIDE DEF quiet, parsed
    <3>4. /\ r \in HttpObserverType /\ r.previous = obs.answer /\ r.completed = TRUE
          /\ r.seen = obs.served /\ r.outcome = "none"
          /\ r.events = obs.events \o new
      BY <1>1, <1>3, <2>4, <3>2, <3>3 DEF HttpObserverType
    <3> HIDE DEF r
    <3>5. \/ obs' = [r EXCEPT !.pc = "done", !.outcome = "ok"]
          \/ obs' = [r EXCEPT !.pc = "sleep", !.wake = now + 1]
      BY <3>1 DEF SettleHttp, Return
    <3>6. now + 1 \in Nat
      BY <1>1
    <3>7. /\ obs' \in HttpObserverType /\ obs'.previous = obs.answer /\ obs'.completed = TRUE
          /\ obs'.seen = obs.served /\ obs'.events = obs.events \o new
          /\ \/ obs'.pc = "done" /\ obs'.outcome = "ok"
             \/ obs'.pc = "sleep" /\ obs'.outcome = "none"
      BY <3>4, <3>5, <3>6 DEF HttpObserverType, HttpStages
    <3>8. HttpTypeOK' /\ HttpStageInv'
      BY <1>1, <1>2, <1>5, <3>7 DEF HttpInv, HttpTypeOK, HttpStageInv
    <3>9. snapshots # <<>> /\ Chain(snapshots) /\ obs.previous = Last(snapshots)
          /\ obs.events = Suffix(obs.previous, snapshots[1])
      BY <1>4 DEF Standing
    <3>10. /\ Chain(shots) /\ shots # <<>> /\ Len(shots) > 1 /\ shots[1] = snapshots[1]
           /\ Last(shots) = obs.answer
      BY <1>1, <1>9, <3>9, ChainGrows DEF shots
    <3>11. obs'.events = Suffix(obs.answer, snapshots[1])
      BY <1>1, <1>9, <3>7, <3>9, ResultGrows DEF new
    <3>12. Standing(obs', shots)
      BY <3>7, <3>10, <3>11 DEF Standing
    <3>13. PlainInv'
      <4> SUFFICES ASSUME target.faults = 0
                   PROVE  Plain(obs', snapshots[1], stream, target.appended)
        BY <1>2, <3>10 DEF PlainInv
      <4>1. Plain(obs, snapshots[1], stream, target.appended)
        BY <1>3 DEF HttpInv, PlainInv
      <4> QED
        BY <1>2, <3>7, <4>1 DEF Plain
    <3> QED
      BY <1>2, <3>8, <3>12, <3>13 DEF HttpInv, StandingInv
  <2> QED
    BY <2>6, <2>7
<1> QED
  BY <1>8, <1>9

LEMMA AppendSteps ==
  ASSUME HttpInv, AppendEvent
  PROVE  HttpInv'
<1>1. PICK e \in {target.next, Bad} :
        /\ stream' = Append(stream, e)
        /\ target' = [target EXCEPT !.next = @ + 1, !.appended = Append(@, e)]
  BY DEF AppendEvent
<1>2. UNCHANGED <<spec, now, obs, snapshots>> /\ obs.pc \notin {"idle", "done"}
  BY DEF AppendEvent, Observing
<1>3. /\ target \in [next : Nat, appended : Lists, faults : Nat]
      /\ stream \in Lists /\ target.appended \in Lists /\ snapshots \in Seq(Lists)
  BY DEF HttpInv, HttpTypeOK
<1>4. e \in Nat
  BY <1>3 DEF Bad
<1>5. Append(stream, e) \in Lists /\ Append(target.appended, e) \in Lists
  BY <1>3, <1>4, AppendProperties DEF Lists
<1>6. /\ target' \in [next : Nat, appended : Lists, faults : Nat]
      /\ target'.appended = Append(target.appended, e) /\ target'.faults = target.faults
  <2>1. PICK list \in Lists : list = Append(target.appended, e)
    BY <1>5
  <2>2. target.next + 1 \in Nat
    BY <1>3
  <2>3. target' = [target EXCEPT !.next = target.next + 1, !.appended = list]
    BY <1>1, <2>1
  <2> QED
    BY <1>3, <2>1, <2>2, <2>3
<1>7. HttpTypeOK' /\ HttpStageInv'
  BY <1>1, <1>2, <1>5, <1>6 DEF HttpInv, HttpTypeOK, HttpStageInv
<1>8. StandingInv'
  BY <1>2 DEF HttpInv, StandingInv, Live
<1>9. PlainInv'
  <2> SUFFICES ASSUME Live, target.faults = 0
               PROVE  Plain(obs, snapshots[1], Append(stream, e), Append(target.appended, e))
    BY <1>1, <1>2, <1>6 DEF PlainInv, Live
  <2> DEFINE base == snapshots[1]
             appended == target.appended
  <2>1. Plain(obs, base, stream, appended)
    BY DEF HttpInv, PlainInv
  <2>2. base \in Lists
    <3>1. snapshots # <<>>
      BY DEF HttpInv, StandingInv, Standing
    <3> QED
      BY <1>3, <3>1, EmptySeq, ElementOfSeq
  <2> HIDE DEF base
  <2>3. Append(stream, e) = base \o Append(appended, e)
    <3>1. stream = base \o appended
      BY <2>1 DEF Plain
    <3>2. base \in Lists /\ appended \in Lists
      BY <1>3, <2>2
    <3> HIDE DEF appended
    <3> QED
      BY <1>4, <3>1, <3>2, AppendedToJoined, Zenon
  <2>4. Len(Append(appended, e)) = Len(appended) + 1 /\ Len(appended) \in Nat
    BY <1>3, <1>4, AppendProperties, ListIs DEF Lists
  <2>5. \A n \in 0 .. Len(appended) :
          /\ SubSeq(Append(appended, e), 1, n) = SubSeq(appended, 1, n)
          /\ n \in 0 .. Len(Append(appended, e))
    BY <1>3, <1>4, <2>4, PartsStay DEF Lists
  <2> QED
    BY <2>1, <2>3, <2>5 DEF Plain, base
<1> QED
  BY <1>7, <1>8, <1>9 DEF HttpInv

LEMMA FaultSteps ==
  ASSUME HttpInv, Shorten \/ RewriteEntry
  PROVE  HttpInv'
<1>1. /\ target \in [next : Nat, appended : Lists, faults : Nat]
      /\ stream \in Lists /\ Len(stream) \in Nat /\ DOMAIN stream = 1 .. Len(stream)
  BY ListIs DEF HttpInv, HttpTypeOK, Lists
<1>2. PICK list \in Lists : Alter(list)
  <2>1. ASSUME NEW n \in 0 .. (Len(stream) - 1), Alter(SubSeq(stream, 1, n))
        PROVE  \E list \in Lists : Alter(list)
    <3>1. n \in 0 .. Len(stream)
      BY <1>1
    <3>2. SubSeq(stream, 1, n) \in Lists
      BY <1>1, <3>1, PartIs DEF Lists
    <3> QED
      BY <2>1, <3>2
  <2>2. ASSUME NEW i \in DOMAIN stream, Alter([stream EXCEPT ![i] = Altered])
        PROVE  \E list \in Lists : Alter(list)
    <3>1. Altered \in Nat
      BY BoundsAssumption DEF Altered
    <3>2. [stream EXCEPT ![i] = Altered] \in Lists
      BY <1>1, <3>1, ExceptSeq DEF Lists
    <3> QED
      BY <2>2, <3>2
  <2> QED
    BY <2>1, <2>2 DEF Shorten, RewriteEntry
<1>3. /\ obs.pc \notin {"idle", "done"} /\ stream' = list
      /\ target' = [target EXCEPT !.faults = @ + 1]
      /\ UNCHANGED <<spec, now, obs, snapshots>>
  BY <1>2 DEF Alter, Observing
<1>4. /\ target' \in [next : Nat, appended : Lists, faults : Nat]
      /\ target'.appended = target.appended /\ target'.faults # 0
  BY <1>1, <1>3
<1> QED
  BY <1>3, <1>4 DEF HttpInv, HttpTypeOK, HttpStageInv, StandingInv, PlainInv, Live

LEMMA HttpSteps == HttpInv /\ [HttpNext]_httpVars => HttpInv'
<1> SUFFICES ASSUME HttpInv, [HttpNext]_httpVars
             PROVE  HttpInv'
  OBVIOUS
<1>1. stream \in Lists /\ <<>> \in Lists
  BY EmptySeq DEF HttpInv, HttpTypeOK, Lists
<1>2. CASE BeginBaseline
  BY <1>1, <1>2, BeginSteps DEF BeginBaseline
<1>3. CASE BeginReset
  <2>1. obs.pc = "idle" /\ stream' = <<>> /\ snapshots' = <<<<>>>> /\ UNCHANGED <<spec, target, now>>
    BY <1>3 DEF BeginReset
  <2>2. obs' = [obs EXCEPT !.pc = "begun", !.previous = <<>>]
    <3>1. obs = NoHttpObserver /\ obs \in HttpObserverType
      BY <2>1 DEF HttpInv, HttpTypeOK, HttpStageInv
    <3>2. obs.previous = <<>>
      BY <3>1 DEF NoHttpObserver
    <3>3. obs' = [obs EXCEPT !.pc = "begun"]
      BY <1>3 DEF BeginReset
    <3> QED
      BY <3>1, <3>2, <3>3 DEF HttpObserverType
  <2> QED
    BY <1>1, <2>1, <2>2, BeginSteps
<1>4. CASE UNCHANGED httpVars
  BY <1>4 DEF httpVars, HttpInv, HttpTypeOK, HttpStageInv, StandingInv, PlainInv, Live
<1> QED
  BY <1>2, <1>3, <1>4, WaitSteps, ReceiveSteps, ServeSteps, AppendSteps, FaultSteps
  DEF HttpNext, ObserveHttp, HttpEnvironment

\* The observer, the target and the snapshots have their types.
THEOREM HttpAuditTypes == HttpSpec => []HttpTypeOK
<1>1. HttpInv => HttpTypeOK
  BY DEF HttpInv
<1> QED
  BY <1>1, HttpStarts, HttpSteps, PTL DEF HttpSpec

LEMMA WholeIs == HttpInv => HttpResultIsWhole
<1> SUFFICES ASSUME HttpInv, obs.outcome = "ok"
             PROVE  /\ Len(snapshots) > 1
                    /\ \A i, j \in DOMAIN snapshots : i < j => IsPrefix(snapshots[i], snapshots[j])
                    /\ obs.events = Suffix(Last(snapshots), snapshots[1])
                    /\ target.faults = 0 => obs.events = SubSeq(target.appended, 1, obs.seen)
  BY DEF HttpResultIsWhole
<1>1. Live /\ snapshots \in Seq(Lists) /\ target.appended \in Lists
  BY DEF HttpInv, HttpTypeOK, HttpStageInv, Live
<1>2. Standing(obs, snapshots)
  BY <1>1 DEF HttpInv, StandingInv
<1>3. ASSUME target.faults = 0
      PROVE  obs.events = SubSeq(target.appended, 1, obs.seen)
  <2> DEFINE base == snapshots[1]
             part == SubSeq(target.appended, 1, obs.seen)
  <2>1. obs.seen \in 0 .. Len(target.appended) /\ obs.previous = base \o part
    BY <1>1, <1>3 DEF HttpInv, PlainInv, Plain
  <2>2. part \in Lists
    BY <1>1, <2>1, PartIs DEF Lists
  <2>3. base \in Lists
    BY <1>1, <1>2, EmptySeq, ElementOfSeq DEF Standing
  <2>4. obs.events = Suffix(base \o part, base)
    BY <1>2, <2>1 DEF Standing
  <2> HIDE DEF base, part
  <2>5. Suffix(base \o part, base) = part
    BY <2>2, <2>3, SuffixOfJoined DEF Lists
  <2> QED
    BY <2>4, <2>5 DEF part
<1> QED
  BY <1>2, <1>3 DEF Standing, Chain

\* A collection that returns has taken snapshots that extend one another, and
\* returns what they show beyond the first; if the target only appends, that is
\* every event since begin() up to the last snapshot.
THEOREM HttpCollectionsAreWhole == HttpSpec => []HttpResultIsWhole
BY WholeIs, HttpStarts, HttpSteps, PTL DEF HttpSpec

-----------------------------------------------------------------------------
(***************************************************************************)
(* Parts of sequences, and the ends of sets of numbers.                    *)
(***************************************************************************)
LEMMA SliceIs ==
  ASSUME NEW S, NEW s \in Seq(S), NEW a \in Nat, NEW b \in Nat, a <= b, b <= Len(s)
  PROVE  /\ SubSeq(s, a + 1, b) \in Seq(S)
         /\ Len(SubSeq(s, a + 1, b)) = b - a
         /\ \A i \in 1 .. b - a : SubSeq(s, a + 1, b)[i] = s[a + i]
<1>1. Len(s) \in Nat /\ \A i \in 1 .. Len(s) : s[i] \in S
  BY ListIs
<1>2. \A i \in a + 1 .. b : s[i] \in S
  BY <1>1
<1>3. a + 1 \in Int /\ b \in Int
  OBVIOUS
<1>4. /\ SubSeq(s, a + 1, b) \in Seq(S)
      /\ Len(SubSeq(s, a + 1, b)) = IF a + 1 <= b THEN b - (a + 1) + 1 ELSE 0
      /\ \A i \in 1 .. b - (a + 1) + 1 : SubSeq(s, a + 1, b)[i] = s[a + 1 + i - 1]
  BY <1>2, <1>3, SubSeqProperties
<1> QED
  BY <1>4

LEMMA JoinedIs ==
  ASSUME NEW S, NEW s \in Seq(S), NEW t \in Seq(S)
  PROVE  /\ s \o t \in Seq(S)
         /\ Len(s \o t) = Len(s) + Len(t)
         /\ \A i \in 1 .. Len(s) : (s \o t)[i] = s[i]
         /\ \A i \in 1 .. Len(t) : (s \o t)[Len(s) + i] = t[i]
<1>1. Len(s) \in Nat /\ Len(t) \in Nat
  BY ListIs
<1>2. /\ s \o t \in Seq(S) /\ Len(s \o t) = Len(s) + Len(t)
      /\ \A i \in 1 .. Len(s) + Len(t) : (s \o t)[i] = IF i <= Len(s) THEN s[i] ELSE t[i - Len(s)]
  BY ConcatProperties
<1>3. \A i \in 1 .. Len(s) : i \in 1 .. Len(s) + Len(t)
  BY <1>1
<1>4. ASSUME NEW i \in 1 .. Len(t)
      PROVE  (s \o t)[Len(s) + i] = t[i]
  <2>1. Len(s) + i \in 1 .. Len(s) + Len(t) /\ ~ Len(s) + i <= Len(s) /\ Len(s) + i - Len(s) = i
    BY <1>1
  <2> QED
    BY <1>2, <2>1
<1> QED
  BY <1>2, <1>3, <1>4

LEMMA SlicesJoin ==
  ASSUME NEW S, NEW s \in Seq(S), NEW a \in Nat, NEW b \in Nat, NEW c \in Nat,
         a <= b, b <= c, c <= Len(s)
  PROVE  SubSeq(s, a + 1, b) \o SubSeq(s, b + 1, c) = SubSeq(s, a + 1, c)
<1> DEFINE x == SubSeq(s, a + 1, b)
           y == SubSeq(s, b + 1, c)
           z == SubSeq(s, a + 1, c)
<1>1. Len(s) \in Nat /\ b <= Len(s) /\ a <= c
  BY ListIs
<1>2. x \in Seq(S) /\ Len(x) = b - a /\ \A i \in 1 .. b - a : x[i] = s[a + i]
  BY <1>1, SliceIs
<1>3. y \in Seq(S) /\ Len(y) = c - b /\ \A i \in 1 .. c - b : y[i] = s[b + i]
  BY <1>1, SliceIs
<1>4. z \in Seq(S) /\ Len(z) = c - a /\ \A i \in 1 .. c - a : z[i] = s[a + i]
  BY <1>1, SliceIs
<1> HIDE DEF x, y, z
<1>5. /\ x \o y \in Seq(S) /\ Len(x \o y) = Len(x) + Len(y)
      /\ \A i \in 1 .. Len(x) : (x \o y)[i] = x[i]
      /\ \A i \in 1 .. Len(y) : (x \o y)[Len(x) + i] = y[i]
  <2>1. x \o y \in Seq(S)
    BY <1>2, <1>3, JoinedIs
  <2>2. Len(x \o y) = Len(x) + Len(y)
    BY <1>2, <1>3, JoinedIs
  <2>3. \A i \in 1 .. Len(x) : (x \o y)[i] = x[i]
    BY <1>2, <1>3, JoinedIs
  <2>4. \A i \in 1 .. Len(y) : (x \o y)[Len(x) + i] = y[i]
    BY <1>2, <1>3, JoinedIs
  <2> QED
    BY <2>1, <2>2, <2>3, <2>4
<1>6. ASSUME NEW i \in 1 .. Len(z)
      PROVE  (x \o y)[i] = z[i]
  <2>1. CASE i <= b - a
    <3>1. i \in 1 .. b - a /\ i \in 1 .. Len(x) /\ i \in 1 .. c - a
      BY <1>1, <1>2, <1>4, <2>1
    <3>2. (x \o y)[i] = x[i] /\ x[i] = s[a + i] /\ z[i] = s[a + i]
      BY ONLY <3>1, <1>2, <1>4, <1>5, Zenon
    <3> QED
      BY <3>2
  <2>2. CASE ~ i <= b - a
    <3>1. PICK k \in 1 .. c - b : i = (b - a) + k
      <4>1. i - (b - a) \in 1 .. c - b /\ i = (b - a) + (i - (b - a))
        BY <1>4, <2>2
      <4> QED
        BY <4>1
    <3>2. (x \o y)[i] = s[b + k]
      BY <1>2, <1>3, <1>5, <3>1
    <3>3. b + k = a + i
      BY <3>1
    <3> QED
      BY <1>4, <3>2, <3>3
  <2> QED
    BY <2>1, <2>2
<1>7. Len(x \o y) = Len(z)
  BY <1>2, <1>3, <1>4, <1>5
<1> QED
  BY <1>4, <1>5, <1>6, <1>7, SeqEqual DEF x, y, z

LEMMA SliceOfSlice ==
  ASSUME NEW S, NEW s \in Seq(S), NEW a \in Nat, NEW b \in Nat, NEW n \in Nat,
         a <= b, b <= Len(s), a + n <= b
  PROVE  SubSeq(SubSeq(s, a + 1, b), 1, n) = SubSeq(s, a + 1, a + n)
<1> DEFINE x == SubSeq(s, a + 1, b)
           y == SubSeq(s, a + 1, a + n)
<1>1. Len(s) \in Nat
  BY ListIs
<1>2. x \in Seq(S) /\ Len(x) = b - a /\ \A i \in 1 .. b - a : x[i] = s[a + i]
  BY SliceIs
<1>3. y \in Seq(S) /\ Len(y) = n /\ \A i \in 1 .. n : y[i] = s[a + i]
  <2>1. a + n \in Nat /\ a <= a + n /\ a + n <= Len(s) /\ (a + n) - a = n
    BY <1>1
  <2>2. /\ SubSeq(s, a + 1, a + n) \in Seq(S) /\ Len(SubSeq(s, a + 1, a + n)) = (a + n) - a
        /\ \A i \in 1 .. (a + n) - a : SubSeq(s, a + 1, a + n)[i] = s[a + i]
    BY <2>1, SliceIs, Zenon
  <2> QED
    BY <2>1, <2>2
<1> HIDE DEF x, y
<1>4. n \in 0 .. Len(x)
  BY <1>2
<1>5. /\ SubSeq(x, 1, n) \in Seq(S) /\ Len(SubSeq(x, 1, n)) = n
      /\ \A i \in 1 .. n : SubSeq(x, 1, n)[i] = x[i]
  BY <1>2, <1>4, PartIs
<1>6. \A i \in 1 .. n : i \in 1 .. b - a
  BY <1>2, <1>4
<1> QED
  BY <1>2, <1>3, <1>5, <1>6, SeqEqual DEF x, y

\* What is appended is in no part before it, and ends the last.
LEMMA SliceOfJoined ==
  ASSUME NEW S, NEW s \in Seq(S), NEW t \in Seq(S), NEW a \in Nat, NEW b \in Nat, a <= b, b <= Len(s)
  PROVE  /\ SubSeq(s \o t, a + 1, b) = SubSeq(s, a + 1, b)
         /\ SubSeq(s \o t, a + 1, Len(s \o t)) = SubSeq(s, a + 1, Len(s)) \o t
<1> DEFINE j == s \o t
<1>1. Len(s) \in Nat /\ Len(t) \in Nat
  BY ListIs
<1>2. /\ j \in Seq(S) /\ Len(j) = Len(s) + Len(t)
      /\ \A i \in 1 .. Len(s) : j[i] = s[i]
      /\ \A i \in 1 .. Len(t) : j[Len(s) + i] = t[i]
  BY JoinedIs
<1> HIDE DEF j
<1>3. ASSUME NEW c \in Nat, a <= c, c <= Len(s)
      PROVE  SubSeq(j, a + 1, c) = SubSeq(s, a + 1, c)
  <2> DEFINE x == SubSeq(j, a + 1, c)
             y == SubSeq(s, a + 1, c)
  <2>1. x \in Seq(S) /\ Len(x) = c - a /\ \A i \in 1 .. c - a : x[i] = j[a + i]
    <3>1. c <= Len(j)
      BY <1>1, <1>2, <1>3
    <3> QED
      BY <1>2, <1>3, <3>1, SliceIs
  <2>2. y \in Seq(S) /\ Len(y) = c - a /\ \A i \in 1 .. c - a : y[i] = s[a + i]
    BY <1>3, SliceIs
  <2>3. \A i \in 1 .. c - a : a + i \in 1 .. Len(s)
    BY <1>1, <1>3
  <2> HIDE DEF x, y
  <2>4. \A i \in 1 .. Len(x) : x[i] = y[i]
    BY <1>2, <2>1, <2>2, <2>3
  <2> QED
    BY <2>1, <2>2, <2>4, SeqEqual DEF x, y
<1>4. SubSeq(j, Len(s) + 1, Len(j)) = t
  <2> DEFINE x == SubSeq(j, Len(s) + 1, Len(j))
  <2>1. x \in Seq(S) /\ Len(x) = Len(t) /\ \A i \in 1 .. Len(t) : x[i] = j[Len(s) + i]
    <3>1. Len(j) \in Nat /\ Len(s) <= Len(j) /\ Len(j) - Len(s) = Len(t)
      BY <1>1, <1>2
    <3> QED
      BY <1>1, <1>2, <3>1, SliceIs
  <2> HIDE DEF x
  <2>2. \A i \in 1 .. Len(x) : x[i] = t[i]
    BY <1>2, <2>1
  <2> QED
    BY <2>1, <2>2, SeqEqual DEF x
<1>5. SubSeq(j, a + 1, Len(s)) \o SubSeq(j, Len(s) + 1, Len(j)) = SubSeq(j, a + 1, Len(j))
  <2>1. Len(j) \in Nat /\ a <= Len(s) /\ Len(s) <= Len(j)
    BY <1>1, <1>2
  <2>2. PICK m \in Nat, n \in Nat : m = Len(s) /\ n = Len(j)
    BY <1>1, <2>1
  <2>3. a <= m /\ m <= n /\ n <= Len(j)
    BY <2>1, <2>2
  <2>4. SubSeq(j, a + 1, m) \o SubSeq(j, m + 1, n) = SubSeq(j, a + 1, n)
    BY ONLY <1>2, <2>3, SlicesJoin, a \in Nat, m \in Nat, n \in Nat
  <2> QED
    BY <2>2, <2>4
<1>6. a <= Len(s)
  BY <1>1
<1> QED
  <2>1. SubSeq(j, a + 1, b) = SubSeq(s, a + 1, b) /\ SubSeq(j, a + 1, Len(s)) = SubSeq(s, a + 1, Len(s))
    BY <1>1, <1>3, <1>6
  <2> QED
    BY ONLY <2>1, <1>4, <1>5, Zenon DEF j

LEMMA LeastIs ==
  ASSUME NEW T, T \subseteq Nat, T # {}
  PROVE  Min(T) \in T /\ \A k \in T : Min(T) <= k
<1>1. \E m \in T : \A k \in T : m <= k
  BY Least
<1> QED
  BY <1>1 DEF Min

LEMMA GreatestIs ==
  ASSUME NEW N \in Nat, NEW T, T \subseteq 0 .. N, T # {}
  PROVE  Max(T) \in T /\ \A k \in T : k <= Max(T)
<1> DEFINE above == {m \in Nat : \A k \in T : k <= m}
<1>1. N \in above
  OBVIOUS
<1>2. PICK m \in above : \A n \in above : m <= n
  BY <1>1, Least
<1>3. m \in T
  <2> SUFFICES ASSUME m \notin T
               PROVE  FALSE
    OBVIOUS
  <2>1. \A k \in T : k \in Nat /\ k <= m /\ k # m
    OBVIOUS
  <2>2. m # 0
    <3>1. PICK k \in T : TRUE
      OBVIOUS
    <3>2. k \in Nat /\ k <= m /\ k # m
      BY <2>1
    <3> QED
      BY <3>2
  <2>3. m - 1 \in above
    <3>1. m - 1 \in Nat
      BY <2>2
    <3>2. \A k \in T : k <= m - 1
      BY <2>1
    <3> QED
      BY <3>1, <3>2
  <2> QED
    BY <1>2, <2>2, <2>3
<1>4. \E x \in T : \A y \in T : x >= y
  BY <1>3
<1>5. Max(T) \in T /\ \A y \in T : Max(T) >= y
  BY <1>4 DEF Max
<1> QED
  BY <1>5

-----------------------------------------------------------------------------
(***************************************************************************)
(* What the texts of a payload say.  A recursive function is what its      *)
(* equation says because one exists: the least length without one has one. *)
(***************************************************************************)
Cells == Nat \X (1 .. Newline)
Payloads == Seq(Cells)

LEMMA CellIs ==
  /\ \A c \in Cells : c[1] \in Nat /\ c[2] \in 1 .. 3
  /\ \A e \in Nat, k \in 1 .. 3 : <<e, k>> \in Cells /\ <<e, k>>[1] = e /\ <<e, k>>[2] = k
BY DEF Cells, Newline

LEMMA PayloadIs ==
  ASSUME NEW payload \in Payloads
  PROVE  /\ Len(payload) \in Nat /\ DOMAIN payload = 1 .. Len(payload)
         /\ \A i \in 1 .. Len(payload) :
              payload[i] \in Cells /\ payload[i][1] \in Nat /\ payload[i][2] \in 1 .. 3
<1>1. Len(payload) \in Nat /\ DOMAIN payload = 1 .. Len(payload)
      /\ \A i \in 1 .. Len(payload) : payload[i] \in Cells
  BY ListIs DEF Payloads
<1> QED
  BY <1>1, CellIs

\* One more cell.
Heard(list, cell) == IF cell[2] = Text THEN Append(list, cell[1]) ELSE list
ToldBy(payload, N, f) ==
  f = [n \in 0 .. N |-> IF n = 0 THEN <<>> ELSE Heard(f[n - 1], payload[n])]

LEMMA ToldExists ==
  ASSUME NEW payload, NEW N \in Nat
  PROVE  \E f : ToldBy(payload, N, f)
<1> DEFINE Without == {n \in Nat : ~ \E f : ToldBy(payload, n, f)}
<1>1. CASE Without = {}
  BY <1>1
<1>2. CASE Without # {}
  <2>1. PICK m \in Without : \A n \in Without : m <= n
    BY <1>2, Least
  <2>2. CASE m = 0
    <3>1. ToldBy(payload, 0, [n \in 0 .. 0 |-> <<>>])
      BY DEF ToldBy
    <3> QED
      BY <2>1, <2>2, <3>1
  <2>3. CASE m # 0
    <3>1. m - 1 \in Nat /\ m \in Nat /\ ~ m <= m - 1
      BY <2>3
    <3>2. PICK g : ToldBy(payload, m - 1, g)
      BY <2>1, <3>1
    <3> DEFINE f == [n \in 0 .. m |-> IF n = m THEN Heard(g[m - 1], payload[m]) ELSE g[n]]
    <3>3. ToldBy(payload, m, f)
      <4>1. g = [n \in 0 .. m - 1 |-> IF n = 0 THEN <<>> ELSE Heard(g[n - 1], payload[n])]
        BY <3>2 DEF ToldBy
      <4>2. ASSUME NEW n \in 0 .. m
            PROVE  f[n] = IF n = 0 THEN <<>> ELSE Heard(f[n - 1], payload[n])
        <5>1. CASE n = m
          <6>1. f[n] = Heard(g[m - 1], payload[m]) /\ f[n - 1] = g[m - 1]
            BY <2>3, <3>1, <5>1
          <6> QED
            BY <2>3, <5>1, <6>1
        <5>2. CASE n # m
          <6>1. n \in 0 .. m - 1 /\ f[n] = g[n] /\ (n # 0 => f[n - 1] = g[n - 1])
            BY <3>1, <5>2
          <6>2. g[n] = IF n = 0 THEN <<>> ELSE Heard(g[n - 1], payload[n])
            BY <4>1, <6>1
          <6> QED
            BY <6>1, <6>2
        <5> QED
          BY <5>1, <5>2
      <4> HIDE DEF f
      <4>3. f = [n \in 0 .. m |-> f[n]]
        BY DEF f
      <4> QED
        BY <4>2, <4>3 DEF ToldBy
    <3> QED
      BY <2>1, <3>3
  <2> QED
    BY <2>2, <2>3
<1> QED
  BY <1>1, <1>2

LEMMA ToldIs ==
  ASSUME NEW payload \in Payloads
  PROVE  /\ Told(payload)[0] = <<>>
         /\ \A n \in 1 .. Len(payload) : Told(payload)[n] = Heard(Told(payload)[n - 1], payload[n])
<1>1. Len(payload) \in Nat
  BY PayloadIs
<1>2. Told(payload) = CHOOSE f : ToldBy(payload, Len(payload), f)
  BY DEF Told, ToldBy, Heard
<1>3. ToldBy(payload, Len(payload), Told(payload))
  BY <1>1, <1>2, ToldExists, Zenon
<1>4. Told(payload) = [n \in 0 .. Len(payload) |->
                         IF n = 0 THEN <<>> ELSE Heard(Told(payload)[n - 1], payload[n])]
  BY <1>3 DEF ToldBy
<1> HIDE DEF Heard
<1>5. \A n \in 0 .. Len(payload) :
        Told(payload)[n] = IF n = 0 THEN <<>> ELSE Heard(Told(payload)[n - 1], payload[n])
  BY <1>4
<1> QED
  BY <1>1, <1>5

LEMMA HeardIs ==
  ASSUME NEW list \in Seq(Nat), NEW cell \in Cells
  PROVE  Heard(list, cell) \in Seq(Nat)
BY CellIs, AppendProperties DEF Heard

LEMMA ToldLists ==
  ASSUME NEW payload \in Payloads, NEW n \in 0 .. Len(payload)
  PROVE  Told(payload)[n] \in Seq(Nat)
<1> DEFINE Wrong == {k \in 0 .. Len(payload) : Told(payload)[k] \notin Seq(Nat)}
<1>1. Len(payload) \in Nat /\ \A i \in 1 .. Len(payload) : payload[i] \in Cells
  BY PayloadIs
<1>2. CASE Wrong # {}
  <2>1. Wrong \subseteq Nat
    BY <1>1
  <2>2. PICK m \in Wrong : \A k \in Wrong : m <= k
    BY <1>2, <2>1, Least
  <2>3. CASE m = 0
    BY <2>2, <2>3, ToldIs, EmptySeq
  <2>4. CASE m # 0
    <3>1. m \in 1 .. Len(payload) /\ m - 1 \in 0 .. Len(payload) /\ ~ m <= m - 1
      BY <1>1, <2>4
    <3>2. Told(payload)[m - 1] \in Seq(Nat)
      BY <2>2, <3>1
    <3>3. Told(payload)[m] = Heard(Told(payload)[m - 1], payload[m])
      BY <3>1, ToldIs
    <3>4. Told(payload)[m] \in Seq(Nat)
      BY <1>1, <3>1, <3>2, <3>3, HeardIs
    <3> QED
      BY <2>2, <3>4
  <2> QED
    BY <2>3, <2>4
<1> QED
  BY <1>2

LEMMA EventsAreList ==
  ASSUME NEW payload \in Payloads
  PROVE  EventsOf(payload) \in Seq(Nat)
<1>1. Len(payload) \in 0 .. Len(payload)
  BY PayloadIs
<1> QED
  BY <1>1, ToldLists DEF EventsOf

LEMMA HeardJoins ==
  ASSUME NEW s \in Seq(Nat), NEW t \in Seq(Nat), NEW cell \in Cells
  PROVE  Heard(s \o t, cell) = s \o Heard(t, cell)
<1>1. cell[1] \in Nat /\ s \in Lists /\ t \in Lists
  BY CellIs DEF Lists
<1> QED
  BY <1>1, AppendedToJoined, Zenon DEF Heard

\* The texts of a whole are those of its parts.
LEMMA EventsJoin ==
  ASSUME NEW p \in Payloads, NEW q \in Payloads
  PROVE  EventsOf(p \o q) = EventsOf(p) \o EventsOf(q)
<1> DEFINE j == p \o q
<1>1. Len(p) \in Nat /\ Len(q) \in Nat
  BY PayloadIs
<1>2. j \in Payloads
  BY JoinedIs DEF Payloads
<1>3. Len(j) = Len(p) + Len(q)
  BY JoinedIs DEF Payloads
<1>4. \A i \in 1 .. Len(p) : j[i] = p[i]
  BY JoinedIs DEF Payloads
<1>5. \A i \in 1 .. Len(q) : j[Len(p) + i] = q[i]
  BY JoinedIs DEF Payloads
<1> HIDE DEF j
<1>6. ASSUME NEW n \in 0 .. Len(p)
      PROVE  Told(j)[n] = Told(p)[n]
  <2> DEFINE Wrong == {k \in 0 .. Len(p) : Told(j)[k] # Told(p)[k]}
  <2>1. CASE Wrong # {}
    <3>1. Wrong \subseteq Nat
      BY <1>1
    <3>2. PICK m \in Wrong : \A k \in Wrong : m <= k
      BY <2>1, <3>1, Least
    <3>3. CASE m = 0
      BY <1>2, <3>2, <3>3, ToldIs
    <3>4. CASE m # 0
      <4>1. m \in 1 .. Len(p) /\ m - 1 \in 0 .. Len(p) /\ ~ m <= m - 1 /\ m \in 1 .. Len(j)
        BY <1>1, <1>3, <3>4
      <4>2. Told(j)[m - 1] = Told(p)[m - 1]
        BY <3>2, <4>1
      <4>3. Told(j)[m] = Heard(Told(j)[m - 1], j[m]) /\ Told(p)[m] = Heard(Told(p)[m - 1], p[m])
        BY <1>2, <4>1, ToldIs
      <4> QED
        BY <1>4, <3>2, <4>1, <4>2, <4>3
    <3> QED
      BY <3>3, <3>4
  <2> QED
    BY <2>1
<1>7. EventsOf(p) \in Seq(Nat) /\ Told(j)[Len(p)] = EventsOf(p)
  BY <1>1, <1>6, EventsAreList DEF EventsOf
<1>8. ASSUME NEW n \in 0 .. Len(q)
      PROVE  Told(j)[Len(p) + n] = EventsOf(p) \o Told(q)[n]
  <2> DEFINE Wrong == {k \in 0 .. Len(q) : Told(j)[Len(p) + k] # EventsOf(p) \o Told(q)[k]}
  <2>1. CASE Wrong # {}
    <3>1. Wrong \subseteq Nat
      BY <1>1
    <3>2. PICK m \in Wrong : \A k \in Wrong : m <= k
      BY <2>1, <3>1, Least
    <3>3. CASE m = 0
      <4>1. Told(q)[0] = <<>> /\ Len(p) + m = Len(p)
        BY <1>1, <3>3, ToldIs
      <4>2. EventsOf(p) \o <<>> = EventsOf(p)
        BY <1>7, ConcatEmptySeq
      <4> QED
        BY <1>7, <3>2, <3>3, <4>1, <4>2
    <3>4. CASE m # 0
      <4>1. m \in 1 .. Len(q) /\ m - 1 \in 0 .. Len(q) /\ ~ m <= m - 1
            /\ Len(p) + m \in 1 .. Len(j) /\ Len(p) + m - 1 = Len(p) + (m - 1)
        BY <1>1, <1>3, <3>4
      <4>2. Told(j)[Len(p) + (m - 1)] = EventsOf(p) \o Told(q)[m - 1]
        BY <3>2, <4>1
      <4>3. Told(j)[Len(p) + m] = Heard(Told(j)[Len(p) + m - 1], j[Len(p) + m])
        BY <1>2, <4>1, ToldIs
      <4>4. Told(q)[m] = Heard(Told(q)[m - 1], q[m]) /\ j[Len(p) + m] = q[m]
        BY <1>5, <4>1, ToldIs
      <4>5. Told(q)[m - 1] \in Seq(Nat) /\ q[m] \in Cells
        BY <4>1, ToldLists, PayloadIs
      <4>6. Heard(EventsOf(p) \o Told(q)[m - 1], q[m]) = EventsOf(p) \o Heard(Told(q)[m - 1], q[m])
        BY <1>7, <4>5, HeardJoins
      <4> QED
        BY <3>2, <4>1, <4>2, <4>3, <4>4, <4>6
    <3> QED
      BY <3>3, <3>4
  <2> QED
    BY <2>1
<1>9. EventsOf(j) = EventsOf(p) \o EventsOf(q)
  <2>1. Len(q) \in 0 .. Len(q)
    BY <1>1
  <2>2. Told(j)[Len(p) + Len(q)] = EventsOf(p) \o Told(q)[Len(q)]
    BY <1>8, <2>1
  <2>3. EventsOf(j) = Told(j)[Len(p) + Len(q)] /\ EventsOf(q) = Told(q)[Len(q)]
    BY <1>3 DEF EventsOf
  <2> QED
    BY <2>2, <2>3
<1> QED
  BY <1>9 DEF j

LEMMA EventsOfNone == <<>> \in Payloads /\ EventsOf(<<>>) = <<>>
<1>1. <<>> \in Payloads /\ Len(<<>>) = 0
  BY EmptySeq DEF Payloads
<1> QED
  BY <1>1, ToldIs DEF EventsOf

LEMMA EventsOfCell ==
  ASSUME NEW cell \in Cells
  PROVE  <<cell>> \in Payloads /\ EventsOf(<<cell>>) = IF cell[2] = Text THEN <<cell[1]>> ELSE <<>>
<1> DEFINE p == <<cell>>
<1>1. p \in Payloads /\ Len(p) = 1 /\ p[1] = cell
  BY DEF Payloads
<1> HIDE DEF p
<1>2. Told(p)[0] = <<>> /\ Told(p)[1] = Heard(Told(p)[1 - 1], p[1])
  BY <1>1, ToldIs
<1>3. EventsOf(p) = Heard(<<>>, cell)
  BY <1>1, <1>2 DEF EventsOf
<1>4. Append(<<>>, cell[1]) = <<cell[1]>>
  OBVIOUS
<1> QED
  BY <1>1, <1>3, <1>4 DEF Heard, p

\* A text that is in a part is in the whole.
SaysBad(payload) == \E i \in 1 .. Len(payload) : payload[i][1] = Bad /\ payload[i][2] = Text

LEMMA SaysBadJoins ==
  ASSUME NEW p \in Payloads, NEW q \in Payloads
  PROVE  SaysBad(p \o q) <=> SaysBad(p) \/ SaysBad(q)
<1> DEFINE j == p \o q
<1>1. Len(p) \in Nat /\ Len(q) \in Nat
  BY PayloadIs
<1>2. Len(j) = Len(p) + Len(q)
  BY JoinedIs DEF Payloads
<1>3. \A i \in 1 .. Len(p) : j[i] = p[i]
  BY JoinedIs DEF Payloads
<1>4. \A i \in 1 .. Len(q) : j[Len(p) + i] = q[i]
  BY JoinedIs DEF Payloads
<1> HIDE DEF j
<1>5. ASSUME SaysBad(p)
      PROVE  SaysBad(j)
  <2>1. PICK i \in 1 .. Len(p) : p[i][1] = Bad /\ p[i][2] = Text
    BY <1>5 DEF SaysBad
  <2>2. i \in 1 .. Len(j)
    BY <1>1, <1>2
  <2> QED
    BY <1>3, <2>1, <2>2 DEF SaysBad
<1>6. ASSUME SaysBad(q)
      PROVE  SaysBad(j)
  <2>1. PICK i \in 1 .. Len(q) : q[i][1] = Bad /\ q[i][2] = Text
    BY <1>6 DEF SaysBad
  <2>2. Len(p) + i \in 1 .. Len(j)
    BY <1>1, <1>2
  <2>3. j[Len(p) + i] = q[i]
    BY <1>4
  <2> QED
    BY <2>1, <2>2, <2>3 DEF SaysBad
<1>7. ASSUME SaysBad(j)
      PROVE  SaysBad(p) \/ SaysBad(q)
  <2>1. PICK i \in 1 .. Len(j) : j[i][1] = Bad /\ j[i][2] = Text
    BY <1>7 DEF SaysBad
  <2>2. CASE i <= Len(p)
    <3>1. i \in 1 .. Len(p)
      BY <1>1, <2>2
    <3> QED
      BY <1>3, <2>1, <3>1 DEF SaysBad
  <2>3. CASE ~ i <= Len(p)
    <3>1. PICK k \in 1 .. Len(q) : i = Len(p) + k
      <4>1. i - Len(p) \in 1 .. Len(q) /\ i = Len(p) + (i - Len(p))
        BY <1>1, <1>2, <2>3
      <4> QED
        BY <4>1
    <3>2. j[i] = q[k]
      BY <1>4, <3>1
    <3> QED
      BY <2>1, <3>2 DEF SaysBad
  <2> QED
    BY <2>2, <2>3
<1> QED
  BY <1>5, <1>6, <1>7 DEF j

LEMMA LineOf ==
  ASSUME NEW e \in Nat
  PROVE  /\ Line(e) \in Payloads /\ Len(Line(e)) = 3
         /\ \A k \in 1 .. 3 : Line(e)[k] = <<e, k>> /\ Line(e)[k][1] = e
<1> DEFINE line == Line(e)
<1>1. line \in Payloads /\ Len(line) = 3 /\ \A k \in 1 .. 3 : line[k] = <<e, k>>
  <2>1. line = [k \in 1 .. 3 |-> <<e, k>>]
    BY DEF Line, Newline
  <2>2. \A k \in 1 .. 3 : <<e, k>> \in Cells
    BY CellIs
  <2> HIDE DEF line
  <2>3. line \in [1 .. 3 -> Cells]
    BY <2>1, <2>2
  <2>4. line \in Seq(Cells)
    BY <2>3, 3 \in Nat, SeqDef, Zenon
  <2>5. DOMAIN line = 1 .. 3
    BY <2>3
  <2>6. Len(line) = 3
    BY ONLY <2>4, <2>5, LenProperties, SMT
  <2> QED
    BY <2>1, <2>4, <2>6 DEF Payloads
<1> QED
  BY <1>1, CellIs

\* What one write appends.
LEMMA WrittenIs ==
  ASSUME NEW e \in Nat, NEW a \in Nat, NEW b \in Nat, a <= b, b <= 3
  PROVE  /\ SubSeq(Line(e), a + 1, b) \in Payloads
         /\ EventsOf(SubSeq(Line(e), a + 1, b)) = IF Text \in a + 1 .. b THEN <<e>> ELSE <<>>
         /\ e = Bad /\ Text \in a + 1 .. b => SaysBad(SubSeq(Line(e), a + 1, b))
<1> DEFINE line == Line(e)
<1>1. line \in Payloads /\ Len(line) = 3 /\ \A k \in 1 .. 3 : line[k] = <<e, k>>
  BY LineOf
<1> HIDE DEF line
<1>2. \A k \in 1 .. 3 : line[k] \in Cells /\ line[k][1] = e /\ line[k][2] = k
  BY <1>1, CellIs
<1>3. ASSUME NEW k \in 0 .. 2
      PROVE  /\ SubSeq(line, k + 1, k + 1) \in Payloads
             /\ EventsOf(SubSeq(line, k + 1, k + 1)) = IF k + 1 = Text THEN <<e>> ELSE <<>>
  <2>1. SubSeq(line, k + 1, k + 1) = <<line[k + 1]>>
    <3>1. k \in Nat /\ k + 1 \in Nat /\ k <= k + 1 /\ k + 1 <= Len(line) /\ (k + 1) - k = 1
      BY <1>1
    <3>2. /\ SubSeq(line, k + 1, k + 1) \in Seq(Cells) /\ Len(SubSeq(line, k + 1, k + 1)) = 1
          /\ SubSeq(line, k + 1, k + 1)[1] = line[k + 1]
      BY <1>1, <3>1, SliceIs DEF Payloads
    <3> DEFINE x == SubSeq(line, k + 1, k + 1)
    <3> HIDE DEF x
    <3>3. x \in Seq(Cells) /\ Len(x) = 1 /\ x[1] = line[k + 1]
      BY <3>2 DEF x
    <3>4. PICK y : y = <<line[k + 1]>>
      OBVIOUS
    <3>5. y \in Seq(Cells) /\ Len(y) = 1 /\ y[1] = line[k + 1]
      BY <1>2, <3>4
    <3>6. x = y
      BY ONLY <3>3, <3>5, SeqEqual
    <3> QED
      BY <3>4, <3>6, Zenon DEF x
  <2>2. line[k + 1] \in Cells /\ line[k + 1][1] = e /\ line[k + 1][2] = k + 1
    BY <1>2
  <2> QED
    BY <2>1, <2>2, EventsOfCell
<1>4. ASSUME NEW c \in 0 .. 2, a <= c, c + 1 <= b
      PROVE  SubSeq(line, a + 1, c) \o SubSeq(line, c + 1, c + 1) = SubSeq(line, a + 1, c + 1)
  <2>1. c \in Nat /\ c + 1 \in Nat /\ c <= c + 1 /\ c + 1 <= Len(line)
    BY <1>1
  <2> QED
    BY <1>1, <1>4, <2>1, SlicesJoin DEF Payloads
<1> DEFINE Of(c) == SubSeq(line, a + 1, c)
<1>5. Of(a) = <<>>
  BY <1>1, SubSeqEmpty DEF Payloads
<1>6. ASSUME NEW c \in 0 .. 2, a <= c, c + 1 <= b, Of(c) \in Payloads
      PROVE  /\ Of(c + 1) \in Payloads
             /\ EventsOf(Of(c + 1)) = EventsOf(Of(c)) \o (IF c + 1 = Text THEN <<e>> ELSE <<>>)
  <2>1. Of(c + 1) = Of(c) \o SubSeq(line, c + 1, c + 1)
    BY <1>4, <1>6
  <2>2. /\ SubSeq(line, c + 1, c + 1) \in Payloads
        /\ EventsOf(SubSeq(line, c + 1, c + 1)) = IF c + 1 = Text THEN <<e>> ELSE <<>>
    BY <1>3
  <2>3. Of(c) \o SubSeq(line, c + 1, c + 1) \in Payloads
    BY <1>6, <2>2, JoinedIs DEF Payloads
  <2> QED
    BY <1>6, <2>1, <2>2, <2>3, EventsJoin
<1> DEFINE Right(c) == /\ Of(c) \in Payloads
                      /\ EventsOf(Of(c)) = IF a < 2 /\ 2 <= c THEN <<e>> ELSE <<>>
<1>7. Right(a)
  <2>1. ~ (a < 2 /\ 2 <= a)
    OBVIOUS
  <2>2. Of(a) \in Payloads /\ EventsOf(Of(a)) = <<>>
    BY <1>5, EventsOfNone, Zenon
  <2> QED
    BY ONLY <2>1, <2>2, Zenon
<1> HIDE DEF Of
<1>8. ASSUME NEW c \in 0 .. 2, a <= c, c + 1 <= b, Right(c)
      PROVE  Right(c + 1)
  <2>1. EventsOf(Of(c + 1)) = EventsOf(Of(c)) \o (IF c + 1 = Text THEN <<e>> ELSE <<>>)
    BY <1>6, <1>8
  <2>2. CASE c = 1
    <3>1. EventsOf(Of(c + 1)) = <<>> \o <<e>>
      BY <1>8, <2>1, <2>2 DEF Text
    <3>2. <<>> \o <<e>> = <<e>>
      OBVIOUS
    <3> QED
      BY <1>6, <1>8, <2>2, <3>1, <3>2
  <2>3. CASE c # 1
    <3>1. EventsOf(Of(c + 1)) = EventsOf(Of(c)) \o <<>> /\ EventsOf(Of(c)) \in Seq(Nat)
      BY <1>8, <2>1, <2>3, EventsAreList DEF Text
    <3>2. EventsOf(Of(c)) \o <<>> = EventsOf(Of(c))
      BY <3>1, ConcatEmptySeq
    <3>3. a < 2 /\ 2 <= c + 1 <=> a < 2 /\ 2 <= c
      BY <1>8, <2>3
    <3> QED
      BY <1>6, <1>8, <3>1, <3>2, <3>3
  <2> QED
    BY <2>2, <2>3
<1> HIDE DEF Right
<1>9. Right(b)
  <2>1. a <= 1 /\ 1 <= b => Right(1)
    <3>1. CASE a = 0 /\ 1 <= b
      <4>1. Right(0 + 1)
        BY <1>7, <1>8, <3>1
      <4> QED
        BY <4>1
    <3> QED
      BY <1>7, <3>1
  <2>2. a <= 2 /\ 2 <= b => Right(2)
    <3>1. CASE a <= 1 /\ 2 <= b
      <4>1. Right(1 + 1)
        BY <1>8, <2>1, <3>1
      <4> QED
        BY <4>1
    <3> QED
      BY <1>7, <3>1
  <2>3. a <= 3 /\ 3 <= b => Right(3)
    <3>1. CASE a <= 2 /\ 3 <= b
      <4>1. Right(2 + 1)
        BY <1>8, <2>2, <3>1
      <4> QED
        BY <4>1
    <3> QED
      BY <1>7, <3>1
  <2>4. b = a \/ b = 1 \/ b = 2 \/ b = 3
    OBVIOUS
  <2> QED
    BY <1>7, <2>1, <2>2, <2>3, <2>4
<1>10. ASSUME e = Bad, Text \in a + 1 .. b
       PROVE  SaysBad(Of(b))
  <2>1. a < 2 /\ 2 <= b
    BY <1>10 DEF Text
  <2>2. Len(Of(b)) = b - a /\ \A i \in 1 .. b - a : Of(b)[i] = line[a + i]
    BY <1>1, SliceIs DEF Payloads, Of
  <2>3. 2 - a \in 1 .. b - a /\ a + (2 - a) = 2
    BY <2>1
  <2>4. Of(b)[2 - a] = line[2]
    BY <2>2, <2>3
  <2> QED
    BY <1>2, <1>10, <2>2, <2>3, <2>4 DEF SaysBad, Text
<1>11. Text \in a + 1 .. b <=> a < 2 /\ 2 <= b
  BY DEF Text
<1> QED
  BY <1>9, <1>10, <1>11 DEF Right, Of, line

-----------------------------------------------------------------------------
(***************************************************************************)
(* Lines, and payloads with nothing but events and blank lines in them.    *)
(***************************************************************************)
Ending(payload, i) ==
  Min({Len(payload)} \cup {j \in DOMAIN payload : j >= i /\ payload[j][2] = Newline})
EndsAt(payload, i, e) ==
  /\ e \in i .. Len(payload)
  /\ e = Len(payload) \/ payload[e][2] = Newline
  /\ \A k \in i .. e - 1 : payload[k][2] # Newline

LEMMA EndingIs ==
  ASSUME NEW payload \in Payloads, NEW i \in 1 .. Len(payload)
  PROVE  EndsAt(payload, i, Ending(payload, i))
<1> DEFINE Ends == {Len(payload)} \cup {j \in DOMAIN payload : j >= i /\ payload[j][2] = Newline}
<1>1. Len(payload) \in Nat /\ DOMAIN payload = 1 .. Len(payload)
  BY PayloadIs
<1>2. Ends \subseteq Nat /\ Ends # {}
  BY <1>1
<1>3. Min(Ends) \in Ends /\ \A k \in Ends : Min(Ends) <= k
  BY <1>2, LeastIs
<1>4. PICK e : e = Min(Ends)
  OBVIOUS
<1>5. e \in i .. Len(payload)
  BY <1>1, <1>3, <1>4
<1>6. e = Len(payload) \/ payload[e][2] = Newline
  BY <1>3, <1>4
<1>7. ASSUME NEW k \in i .. e - 1, payload[k][2] = Newline
      PROVE  FALSE
  <2>1. k \in Ends
    <3>1. k \in 1 .. Len(payload) /\ k >= i
      BY <1>1, <1>5
    <3> QED
      BY <1>1, <1>7, <3>1
  <2>2. e <= k
    BY <1>3, <1>4, <2>1
  <2> QED
    BY <1>1, <1>5, <2>2
<1> QED
  BY <1>4, <1>5, <1>6, <1>7 DEF Ending, EndsAt

LEMMA OneEnding ==
  ASSUME NEW payload \in Payloads, NEW i \in 1 .. Len(payload), NEW e, EndsAt(payload, i, e)
  PROVE  Ending(payload, i) = e
<1>1. PICK f : f = Ending(payload, i)
  OBVIOUS
<1>2. EndsAt(payload, i, f)
  BY <1>1, EndingIs
<1>3. Len(payload) \in Nat
  BY PayloadIs
<1>4. ~ e < f
  BY <1>2, <1>3 DEF EndsAt
<1>5. ~ f < e
  BY <1>2, <1>3 DEF EndsAt
<1> QED
  BY <1>1, <1>2, <1>3, <1>4, <1>5 DEF EndsAt

LEMMA LineIs ==
  ASSUME NEW payload \in Payloads, NEW i \in 1 .. Len(payload), NEW e \in i .. Len(payload),
         e = Ending(payload, i)
  PROVE  /\ LineAt(payload, i) \in Payloads
         /\ Len(LineAt(payload, i)) = e - i + 1
         /\ \A k \in 1 .. e - i + 1 : LineAt(payload, i)[k] = payload[i + k - 1]
<1>1. LineAt(payload, i) = SubSeq(payload, i, e)
  BY DEF LineAt, Ending
<1>2. Len(payload) \in Nat
  BY PayloadIs
<1>3. PICK a \in Nat : a + 1 = i
  <2>1. i - 1 \in Nat /\ i - 1 + 1 = i
    OBVIOUS
  <2> QED
    BY <2>1
<1>4. a <= e /\ e <= Len(payload) /\ e \in Nat /\ e - a = e - i + 1
  BY <1>2, <1>3
<1>5. /\ SubSeq(payload, a + 1, e) \in Seq(Cells)
      /\ Len(SubSeq(payload, a + 1, e)) = e - a
      /\ \A k \in 1 .. e - a : SubSeq(payload, a + 1, e)[k] = payload[a + k]
  <2>1. payload \in Seq(Cells)
    BY DEF Payloads
  <2> QED
    BY ONLY <1>3, <1>4, <2>1, SliceIs
<1>6. \A k \in 1 .. e - a : a + k = i + k - 1
  BY <1>3
<1> QED
  BY <1>1, <1>3, <1>4, <1>5, <1>6 DEF Payloads

Clean(payload) == \A i \in Starts(payload) : IsGood(LineAt(payload, i))
Ended(payload) == payload = <<>> \/ payload[Len(payload)][2] = Newline

LEMMA StartsAre ==
  ASSUME NEW payload \in Payloads
  PROVE  Starts(payload) = {i \in 1 .. Len(payload) : i = 1 \/ payload[i - 1][2] = Newline}
BY PayloadIs DEF Starts

LEMMA CleanNone == Clean(<<>>) /\ Ended(<<>>) /\ <<>> \in Payloads
<1>1. <<>> \in Payloads /\ Len(<<>>) = 0
  BY EmptySeq DEF Payloads
<1>2. Starts(<<>>) = {}
  BY <1>1, StartsAre
<1> QED
  BY <1>1, <1>2 DEF Clean, Ended

\* The text of an event tells which event it is: Bad is none.
LEMMA EventText ==
  ASSUME NEW line \in Payloads, IsGood(line), NEW k \in 1 .. Len(line), line[k][2] = Text
  PROVE  line[k][1] # Bad
<1>1. Len(line) \in Nat /\ \A i \in 1 .. Len(line) : line[i][1] \in Nat
  BY PayloadIs
<1>2. CASE IsBlank(line)
  BY <1>1, <1>2 DEF IsBlank, Text, Newline
<1>3. CASE IsEvent(line)
  <2>1. PICK n : n = Len(line)
    OBVIOUS
  <2>2. n \in 2 .. 3
    BY <1>3, <2>1 DEF IsEvent, Text, Newline
  <2>3. PICK e \in Nat : e = line[1][1]
    BY <1>1, <2>1, <2>2
  <2>4. e # Bad /\ line = SubSeq(Line(e), 1, n)
    BY <1>3, <2>1, <2>3 DEF IsEvent
  <2>5. /\ Line(e) \in Seq(Cells)
        /\ Len(Line(e)) = 3
        /\ \A i \in 1 .. 3 : Line(e)[i][1] = e
    BY <2>3, LineOf DEF Payloads
  <2>6. n \in 0 .. Len(Line(e))
    BY <2>2, <2>5
  <2>7. \A i \in 1 .. n : SubSeq(Line(e), 1, n)[i] = Line(e)[i]
    BY <2>5, <2>6, PartIs
  <2>8. k \in 1 .. n /\ k \in 1 .. 3
    BY <2>1, <2>2
  <2> QED
    BY <2>4, <2>5, <2>7, <2>8
<1> QED
  BY <1>2, <1>3 DEF IsGood

LEMMA NoBadText ==
  ASSUME NEW payload \in Payloads, Clean(payload)
  PROVE  ~ SaysBad(payload)
<1> SUFFICES ASSUME NEW i \in 1 .. Len(payload), payload[i][1] = Bad, payload[i][2] = Text
             PROVE  FALSE
  BY DEF SaysBad
<1>1. Len(payload) \in Nat
  BY PayloadIs
<1> DEFINE Before == {s \in Starts(payload) : s <= i}
<1>2. /\ Before \subseteq 0 .. Len(payload)
      /\ 1 \in Before
  BY <1>1, StartsAre
<1>3. Max(Before) \in Before /\ \A k \in Before : k <= Max(Before)
  BY <1>1, <1>2, GreatestIs
<1>4. PICK s \in Before : \A k \in Before : k <= s
  BY <1>3
<1>5. s \in 1 .. Len(payload) /\ s <= i
  BY <1>2, <1>4, StartsAre
<1>6. PICK e : e = Ending(payload, s)
  OBVIOUS
<1>7. EndsAt(payload, s, e)
  BY <1>5, <1>6, EndingIs
<1>8. e \in s .. Len(payload)
  BY <1>7 DEF EndsAt
<1>9. i <= e
  <2> SUFFICES ASSUME ~ i <= e
               PROVE  FALSE
    OBVIOUS
  <2>1. e # Len(payload) /\ payload[e][2] = Newline
    BY <1>1, <1>7, <1>8 DEF EndsAt
  <2>2. e + 1 \in 1 .. Len(payload) /\ e + 1 <= i /\ ~ e + 1 <= s /\ e + 1 - 1 = e
    BY <1>1, <1>5, <1>8
  <2>3. e + 1 \in Before
    <3>1. payload[e + 1 - 1][2] = Newline
      BY <2>1, <2>2
    <3>2. e + 1 \in Starts(payload)
      <4>1. PICK t : t = e + 1
        OBVIOUS
      <4>2. t \in 1 .. Len(payload) /\ t - 1 = e
        BY <1>1, <1>5, <1>8, <2>2, <4>1
      <4>3. payload[t - 1][2] = Newline
        BY ONLY <2>1, <4>2, Zenon
      <4>4. t \in {j \in 1 .. Len(payload) : j = 1 \/ payload[j - 1][2] = Newline}
        BY ONLY <4>2, <4>3, Zenon
      <4> QED
        BY <4>1, <4>4, StartsAre
    <3> QED
      BY <2>2, <3>2
  <2> QED
    BY <1>4, <2>2, <2>3
<1>10. /\ LineAt(payload, s) \in Payloads
       /\ Len(LineAt(payload, s)) = e - s + 1
       /\ \A k \in 1 .. e - s + 1 : LineAt(payload, s)[k] = payload[s + k - 1]
  BY <1>5, <1>6, <1>8, LineIs
<1>11. i - s + 1 \in 1 .. e - s + 1 /\ s + (i - s + 1) - 1 = i
  BY <1>1, <1>5, <1>8, <1>9
<1>12. LineAt(payload, s)[i - s + 1] = payload[i] /\ i - s + 1 \in 1 .. Len(LineAt(payload, s))
  BY <1>10, <1>11
<1>13. IsGood(LineAt(payload, s))
  BY <1>4 DEF Clean
<1> QED
  BY <1>10, <1>12, <1>13, EventText

\* Whole clean lines, and more of them.
LEMMA CleanJoins ==
  ASSUME NEW a \in Payloads, NEW b \in Payloads, Clean(a), Ended(a), Clean(b)
  PROVE  Clean(a \o b)
<1> DEFINE j == a \o b
<1>1. Len(a) \in Nat /\ Len(b) \in Nat
  BY PayloadIs
<1>2. j \in Payloads
  BY JoinedIs DEF Payloads
<1>3. Len(j) = Len(a) + Len(b)
  BY JoinedIs DEF Payloads
<1>4. \A i \in 1 .. Len(a) : j[i] = a[i]
  BY JoinedIs DEF Payloads
<1>5. \A i \in 1 .. Len(b) : j[Len(a) + i] = b[i]
  BY JoinedIs DEF Payloads
<1>6. PICK m \in Nat, n \in Nat : m = Len(a) /\ n = Len(b)
  BY <1>1
<1>7. m # 0 => a[m][2] = Newline
  BY <1>6, EmptySeq DEF Ended
<1> HIDE DEF j
<1>8. ASSUME NEW i \in Starts(j), i <= m
      PROVE  IsGood(LineAt(j, i))
  <2>1. i \in 1 .. m /\ i \in 1 .. m + n /\ (i = 1 \/ j[i - 1][2] = Newline)
    BY <1>2, <1>3, <1>6, <1>8, StartsAre
  <2>2. i \in Starts(a)
    <3>1. i = 1 \/ a[i - 1][2] = Newline
      BY <1>4, <1>6, <2>1
    <3> QED
      BY <1>6, <2>1, <3>1, StartsAre
  <2>3. PICK e : e = Ending(a, i)
    OBVIOUS
  <2>4. /\ e \in i .. m
        /\ e = m \/ a[e][2] = Newline
        /\ \A k \in i .. e - 1 : a[k][2] # Newline
    BY <1>6, <2>1, <2>3, EndingIs DEF EndsAt
  <2>5. EndsAt(j, i, e)
    <3>1. e \in i .. Len(j) /\ e \in 1 .. m
      BY <1>3, <1>6, <2>1, <2>4
    <3>2. j[e][2] = Newline
      BY <1>4, <1>6, <1>7, <2>1, <2>4, <3>1
    <3>3. ASSUME NEW k \in i .. e - 1
          PROVE  j[k][2] # Newline
      <4>1. k \in 1 .. m
        BY <2>1, <2>4
      <4> QED
        BY <1>4, <1>6, <2>4, <4>1
    <3> QED
      BY <3>1, <3>2, <3>3 DEF EndsAt
  <2>6. i \in 1 .. Len(j) /\ e \in i .. Len(j) /\ e = Ending(j, i)
    BY <1>2, <1>3, <1>6, <2>1, <2>4, <2>5, OneEnding
  <2>7. LineAt(j, i) = LineAt(a, i)
    <3>1. PICK x : x = LineAt(j, i)
      OBVIOUS
    <3>2. PICK y : y = LineAt(a, i)
      OBVIOUS
    <3>3. x \in Seq(Cells) /\ Len(x) = e - i + 1 /\ \A k \in 1 .. e - i + 1 : x[k] = j[i + k - 1]
      BY <1>2, <2>6, <3>1, LineIs DEF Payloads
    <3>4. y \in Seq(Cells) /\ Len(y) = e - i + 1 /\ \A k \in 1 .. e - i + 1 : y[k] = a[i + k - 1]
      BY <1>6, <2>1, <2>3, <2>4, <3>2, LineIs DEF Payloads
    <3>5. \A k \in 1 .. e - i + 1 : i + k - 1 \in 1 .. m
      BY <2>1, <2>4
    <3>6. \A k \in 1 .. Len(x) : x[k] = y[k]
      BY <1>4, <1>6, <3>3, <3>4, <3>5
    <3>7. x = y
      BY ONLY <3>3, <3>4, <3>6, SeqEqual
    <3> QED
      BY <3>1, <3>2, <3>7
  <2> QED
    BY <2>2, <2>7 DEF Clean
<1>9. ASSUME NEW i \in Starts(j), ~ i <= m
      PROVE  IsGood(LineAt(j, i))
  <2>1. i \in 1 .. m + n /\ (i = 1 \/ j[i - 1][2] = Newline)
    BY <1>2, <1>3, <1>6, StartsAre
  <2>2. PICK t \in 1 .. n : i = m + t
    <3>1. i - m \in 1 .. n /\ i = m + (i - m)
      BY <1>9, <2>1
    <3> QED
      BY <3>1
  <2>3. t \in Starts(b)
    <3>1. CASE t = 1
      BY <1>6, <3>1, StartsAre
    <3>2. CASE t # 1
      <4>1. t - 1 \in 1 .. n /\ i - 1 = m + (t - 1) /\ i # 1
        BY <2>2, <3>2
      <4>2. j[i - 1] = b[t - 1]
        BY <1>5, <1>6, <4>1
      <4>3. b[t - 1][2] = Newline
        BY <2>1, <4>1, <4>2
      <4> QED
        BY <1>6, <4>3, StartsAre
    <3> QED
      BY <3>1, <3>2
  <2>4. PICK e : e = Ending(b, t)
    OBVIOUS
  <2>5. /\ e \in t .. n
        /\ e = n \/ b[e][2] = Newline
        /\ \A k \in t .. e - 1 : b[k][2] # Newline
    BY <1>6, <2>2, <2>4, EndingIs DEF EndsAt
  <2>6. EndsAt(j, i, m + e)
    <3>1. m + e \in i .. Len(j) /\ e \in 1 .. n
      BY <1>3, <1>6, <2>2, <2>5
    <3>2. j[m + e] = b[e]
      BY <1>5, <1>6, <3>1
    <3>3. m + e = Len(j) \/ j[m + e][2] = Newline
      BY <1>3, <1>6, <2>5, <3>2
    <3>4. ASSUME NEW k \in i .. m + e - 1
          PROVE  j[k][2] # Newline
      <4>1. PICK l \in t .. e - 1 : k = m + l
        <5>1. k - m \in t .. e - 1 /\ k = m + (k - m)
          BY <2>2, <2>5
        <5> QED
          BY <5>1
      <4>2. l \in 1 .. n
        BY <2>2, <2>5
      <4>3. j[k] = b[l]
        BY <1>5, <1>6, <4>1, <4>2
      <4> QED
        BY <2>5, <4>3
    <3> QED
      BY <3>1, <3>3, <3>4 DEF EndsAt
  <2>7. i \in 1 .. Len(j) /\ m + e \in i .. Len(j) /\ m + e = Ending(j, i)
    BY <1>2, <1>3, <1>6, <2>1, <2>2, <2>5, <2>6, OneEnding
  <2>8. LineAt(j, i) = LineAt(b, t)
    <3>1. PICK x : x = LineAt(j, i)
      OBVIOUS
    <3>2. PICK y : y = LineAt(b, t)
      OBVIOUS
    <3>3. /\ x \in Seq(Cells) /\ Len(x) = (m + e) - i + 1
          /\ \A k \in 1 .. (m + e) - i + 1 : x[k] = j[i + k - 1]
      BY <1>2, <2>7, <3>1, LineIs DEF Payloads
    <3>4. y \in Seq(Cells) /\ Len(y) = e - t + 1 /\ \A k \in 1 .. e - t + 1 : y[k] = b[t + k - 1]
      BY <1>6, <2>2, <2>4, <2>5, <3>2, LineIs DEF Payloads
    <3>5. (m + e) - i + 1 = e - t + 1
      BY <2>2, <2>5
    <3>6. \A k \in 1 .. e - t + 1 : t + k - 1 \in 1 .. n /\ i + k - 1 = m + (t + k - 1)
      BY <2>2, <2>5
    <3>7. \A k \in 1 .. e - t + 1 : j[i + k - 1] = b[t + k - 1]
      BY <1>5, <1>6, <3>6
    <3>8. \A k \in 1 .. Len(x) : x[k] = y[k]
      BY <3>3, <3>4, <3>5, <3>7
    <3>9. x = y
      BY ONLY <3>3, <3>4, <3>5, <3>8, SeqEqual
    <3> QED
      BY <3>1, <3>2, <3>9
  <2> QED
    BY <2>3, <2>8 DEF Clean
<1>10. \A i \in Starts(j) : i \in Nat
  BY <1>2, StartsAre
<1> QED
  BY <1>8, <1>9 DEF Clean, j

LEMMA CompleteIs ==
  ASSUME NEW payload \in Payloads
  PROVE  /\ Complete(payload) \in Payloads
         /\ Ended(Complete(payload))
         /\ \E n \in 0 .. Len(payload) : Complete(payload) = SubSeq(payload, 1, n)
<1> DEFINE Ends == {0} \cup {i \in DOMAIN payload : payload[i][2] = Newline}
<1>1. Len(payload) \in Nat /\ DOMAIN payload = 1 .. Len(payload)
  BY PayloadIs
<1>2. Ends \subseteq 0 .. Len(payload) /\ Ends # {}
  BY <1>1
<1>3. Max(Ends) \in Ends
  BY <1>1, <1>2, GreatestIs
<1>4. PICK n : n = Max(Ends)
  OBVIOUS
<1>5. Complete(payload) = SubSeq(payload, 1, n)
  BY <1>4 DEF Complete
<1>6. n \in 0 .. Len(payload)
  BY <1>2, <1>3, <1>4
<1>7. PICK c : c = Complete(payload)
  OBVIOUS
<1>8. c \in Payloads /\ Len(c) = n /\ \A i \in 1 .. n : c[i] = payload[i]
  BY <1>5, <1>6, <1>7, PartIs DEF Payloads
<1>9. Ended(c)
  <2>1. CASE n = 0
    <3>1. c = <<>>
      BY <1>8, <2>1, EmptySeq DEF Payloads
    <3> QED
      BY <3>1 DEF Ended
  <2>2. CASE n # 0
    <3>1. payload[n][2] = Newline
      BY <1>3, <1>4, <2>2
    <3>2. n \in 1 .. n
      BY <1>6, <2>2
    <3>3. c[Len(c)][2] = Newline
      BY <1>8, <3>1, <3>2
    <3> QED
      BY <3>3 DEF Ended
  <2> QED
    BY <2>1, <2>2
<1> QED
  BY <1>5, <1>6, <1>7, <1>8, <1>9

\* The answer of the parser: the events before the first line that is none.
LEMMA ParsedIs ==
  ASSUME NEW payload \in Payloads
  PROVE  /\ Parsed(payload).events \in Seq(Nat) /\ Parsed(payload).bad \in BOOLEAN
         /\ ~ Parsed(payload).bad <=> Clean(payload)
         /\ Clean(payload) => Parsed(payload) = [events |-> EventsOf(payload), bad |-> FALSE]
<1> DEFINE wrong == {i \in Starts(payload) : ~ IsGood(LineAt(payload, i))}
           Stops == {Len(payload)} \cup {i - 1 : i \in wrong}
           good == SubSeq(payload, 1, Min(Stops))
<1>1. Len(payload) \in Nat /\ Starts(payload) \subseteq 1 .. Len(payload)
  BY StartsAre, PayloadIs
<1>2. Stops \subseteq 0 .. Len(payload) /\ Stops # {}
  BY <1>1
<1>3. Min(Stops) \in Stops
  <2>1. Stops \subseteq Nat
    BY <1>1, <1>2
  <2> QED
    BY <1>2, <2>1, LeastIs
<1>4. Min(Stops) \in 0 .. Len(payload)
  BY <1>2, <1>3
<1>5. good \in Payloads
  BY <1>4, PartIs DEF Payloads
<1>6. Parsed(payload) = [events |-> EventsOf(good), bad |-> wrong # {}]
  BY DEF Parsed
<1>7. wrong = {} <=> Clean(payload)
  BY DEF Clean
<1>8. ASSUME wrong = {}
      PROVE  good = payload
  <2>1. Stops = {Len(payload)}
    BY <1>8
  <2>2. Min(Stops) = Len(payload)
    BY <1>3, <2>1
  <2> QED
    BY <2>2, SubSeqFull DEF Payloads
<1>9. EventsOf(good) \in Seq(Nat)
  BY <1>5, EventsAreList
<1>10. PICK b \in BOOLEAN : b <=> wrong # {}
  OBVIOUS
<1> HIDE DEF wrong, good
<1>11. Parsed(payload) = [events |-> EventsOf(good), bad |-> b]
  BY <1>6, <1>10
<1>12. Parsed(payload).events = EventsOf(good) /\ Parsed(payload).bad = b
  BY ONLY <1>11
<1>13. Clean(payload) => ~ b /\ good = payload
  BY ONLY <1>7, <1>8, <1>10, Zenon
<1>14. ~ b <=> Clean(payload)
  BY ONLY <1>7, <1>10, Zenon
<1>15. Clean(payload) => Parsed(payload) = [events |-> EventsOf(payload), bad |-> FALSE]
  BY ONLY <1>11, <1>13, b \in BOOLEAN
<1> QED
  BY ONLY <1>9, <1>12, <1>14, <1>15, b \in BOOLEAN, Zenon

-----------------------------------------------------------------------------
(***************************************************************************)
(* What was read of a file, and what is behind it.                         *)
(***************************************************************************)
Beyond(data, from) == SubSeq(data, from + 1, Len(data))
Reads(from, part, data) ==
  /\ from + Len(part) <= Len(data)
  /\ SubSeq(data, from + 1, from + Len(part)) = part

LEMMA BeyondIs ==
  ASSUME NEW data \in Payloads, NEW from \in Nat
  PROVE  Beyond(data, from) \in Payloads
<1>1. Len(data) \in Nat
  BY PayloadIs
<1>2. CASE from <= Len(data)
  BY <1>1, <1>2, SliceIs DEF Payloads, Beyond
<1>3. CASE ~ from <= Len(data)
  <2>1. SubSeq(data, from + 1, Len(data)) = <<>>
    BY <1>1, <1>3, SubSeqEmpty
  <2> QED
    BY <2>1, EventsOfNone DEF Beyond
<1> QED
  BY <1>2, <1>3

\* What is appended changes nothing of it.
LEMMA ReadsStay ==
  ASSUME NEW data \in Payloads, NEW cells \in Payloads, NEW from \in Nat, NEW part \in Payloads,
         Reads(from, part, data)
  PROVE  /\ data \o cells \in Payloads
         /\ Reads(from, part, data \o cells)
         /\ Beyond(data \o cells, from) = Beyond(data, from) \o cells
<1>1. Len(data) \in Nat /\ Len(cells) \in Nat /\ Len(part) \in Nat
  BY PayloadIs
<1>2. data \o cells \in Payloads /\ Len(data \o cells) = Len(data) + Len(cells)
  BY JoinedIs DEF Payloads
<1>3. PICK to \in Nat : to = from + Len(part)
  BY <1>1
<1>4. from <= to /\ to <= Len(data) /\ SubSeq(data, from + 1, to) = part
  BY <1>1, <1>3 DEF Reads
<1>5. /\ SubSeq(data \o cells, from + 1, to) = SubSeq(data, from + 1, to)
      /\ SubSeq(data \o cells, from + 1, Len(data \o cells)) = SubSeq(data, from + 1, Len(data)) \o cells
  <2>1. data \in Seq(Cells) /\ cells \in Seq(Cells)
    BY DEF Payloads
  <2>2. SubSeq(data \o cells, from + 1, to) = SubSeq(data, from + 1, to)
    BY ONLY <1>4, <2>1, SliceOfJoined, from \in Nat, to \in Nat
  <2>3. SubSeq(data \o cells, from + 1, Len(data \o cells)) = SubSeq(data, from + 1, Len(data)) \o cells
    BY ONLY <1>4, <2>1, SliceOfJoined, from \in Nat, to \in Nat
  <2> QED
    BY <2>2, <2>3
<1>6. PICK whole : whole = data \o cells
  OBVIOUS
<1>7. from + Len(part) <= Len(whole)
  BY <1>1, <1>2, <1>3, <1>4, <1>6
<1>8. SubSeq(whole, from + 1, from + Len(part)) = part
  BY ONLY <1>3, <1>4, <1>5, <1>6, Zenon
<1> QED
  BY <1>2, <1>5, <1>6, <1>7, <1>8, Zenon DEF Reads, Beyond

\* The next part that is read makes one with the last.
LEMMA ReadsJoin ==
  ASSUME NEW data \in Payloads, NEW from \in Nat, NEW part \in Payloads, Reads(from, part, data),
         NEW n \in 0 .. Len(Beyond(data, from + Len(part))), NEW next,
         next = SubSeq(Beyond(data, from + Len(part)), 1, n)
  PROVE  /\ next \in Payloads /\ Len(next) = n
         /\ part \o next \in Payloads
         /\ Len(part \o next) = Len(part) + n
         /\ Reads(from, part \o next, data)
<1>1. Len(data) \in Nat /\ Len(part) \in Nat /\ data \in Seq(Cells) /\ part \in Seq(Cells)
  BY PayloadIs DEF Payloads
<1>2. PICK to \in Nat : to = from + Len(part)
  BY <1>1
<1>3. from <= to /\ to <= Len(data) /\ SubSeq(data, from + 1, to) = part
  BY <1>1, <1>2 DEF Reads
<1>4. PICK size \in Nat : size = Len(data)
  BY <1>1
<1>5. SubSeq(data, to + 1, size) \in Seq(Cells) /\ Len(SubSeq(data, to + 1, size)) = size - to
  BY <1>1, <1>3, <1>4, SliceIs
<1>6. Beyond(data, from + Len(part)) = SubSeq(data, to + 1, size)
  BY <1>2, <1>4 DEF Beyond
<1>7. n \in Nat /\ to + n <= size /\ to + n \in Nat
  BY <1>3, <1>4, <1>5, <1>6
<1>8. next = SubSeq(data, to + 1, to + n)
  <2>1. SubSeq(SubSeq(data, to + 1, size), 1, n) = SubSeq(data, to + 1, to + n)
    BY <1>1, <1>3, <1>4, <1>7, SliceOfSlice
  <2> QED
    BY <1>6, <2>1
<1>9. PICK end \in Nat : end = to + n
  BY <1>7
<1>10. next \in Seq(Cells) /\ Len(next) = n
  <2>1. to <= end /\ end <= Len(data) /\ end - to = n
    BY <1>4, <1>7, <1>9
  <2>2. SubSeq(data, to + 1, end) \in Seq(Cells) /\ Len(SubSeq(data, to + 1, end)) = end - to
    BY <1>1, <2>1, SliceIs
  <2> QED
    BY <1>8, <1>9, <2>1, <2>2
<1>11. part \o next \in Seq(Cells) /\ Len(part \o next) = Len(part) + n
  BY <1>1, <1>10, JoinedIs
<1>12. SubSeq(data, from + 1, to) \o SubSeq(data, to + 1, end) = SubSeq(data, from + 1, end)
  <2>1. to <= end /\ end <= Len(data)
    BY <1>4, <1>7, <1>9
  <2> QED
    BY ONLY <1>1, <1>3, <2>1, SlicesJoin, from \in Nat, to \in Nat, end \in Nat
<1>13. PICK joined : joined = part \o next
  OBVIOUS
<1>14. joined = SubSeq(data, from + 1, end)
  BY ONLY <1>3, <1>8, <1>9, <1>12, <1>13, Zenon
<1>15. end = from + Len(joined) /\ end <= Len(data)
  BY <1>1, <1>2, <1>4, <1>7, <1>9, <1>11, <1>13
<1>16. Reads(from, joined, data)
  BY <1>14, <1>15 DEF Reads
<1> QED
  BY <1>10, <1>11, <1>13, <1>16 DEF Payloads

\* Nothing is behind it: it is all there is.
LEMMA AllIsRead ==
  ASSUME NEW data \in Payloads, NEW from \in Nat, NEW part \in Payloads, Reads(from, part, data),
         Len(data) <= from + Len(part)
  PROVE  Beyond(data, from) = part
<1>1. Len(data) \in Nat /\ Len(part) \in Nat
  BY PayloadIs
<1>2. Len(data) = from + Len(part)
  BY <1>1 DEF Reads
<1> QED
  BY <1>2 DEF Reads, Beyond

LEMMA NothingRead ==
  ASSUME NEW data \in Payloads
  PROVE  Reads(Len(data), <<>>, data) /\ Beyond(data, Len(data)) = <<>>
<1>1. Len(data) \in Nat /\ Len(<<>>) = 0
  BY PayloadIs, EmptySeq
<1>2. PICK size \in Nat : size = Len(data)
  BY <1>1
<1>3. SubSeq(data, size + 1, size) = <<>>
  BY SubSeqEmpty
<1>4. size + Len(<<>>) = size
  BY <1>1
<1> QED
  BY <1>2, <1>3, <1>4 DEF Reads, Beyond

-----------------------------------------------------------------------------
(***************************************************************************)
(* The inductive invariant of the JSONL observer.                          *)
(***************************************************************************)
Settling == {"stat", "read", "decide", "sleep", "final", "verify"}
JsonlStages == Settling \cup {"idle", "begun", "once", "readonce", "done"}
Outcomes == {"none", "ok", "error"}
Marks == {"truncated", "rewritten", "replaced", "deleted"}
FileType == [inode : Nat, data : Payloads]
FaultType == [kind : Marks \cup {"garbage"}, known : BOOLEAN, pc : JsonlStages]
JsonlObserverType ==
  [pc : JsonlStages, offset : Nat, source : Nat, cursor : Nat, lastSize : Nat, changed : BOOLEAN,
   deadline : Nat, quietSince : Nat, wake : Nat, prefix : Payloads, events : Lists,
   outcome : Outcomes]
JsonlTypeOK ==
  /\ spec \in [settle : BOOLEAN, truncate : BOOLEAN]
  /\ file \in FileType
  /\ inodes \in Nat
  /\ now \in Nat
  /\ obs \in JsonlObserverType
  /\ writer \in [next : Nat \ {0}, written : 0 .. 2, completed : Lists]
  /\ faults \in Seq(FaultType)
  /\ due \in Lists

\* No file of the path was there before it was made.
FilesInv ==
  /\ file.inode <= inodes /\ obs.source <= inodes
  /\ file.inode = 0 => file.data = <<>>

JsonlStageInv ==
  /\ obs.pc = "idle" => obs = NoObserver /\ faults = <<>> /\ due = <<>> /\ writer.completed = <<>>
  /\ obs.outcome # "none" => obs.pc = "done"
  /\ obs.pc \in {"begun", "once", "readonce"} => obs.prefix = <<>> /\ obs.events = <<>>
  /\ obs.pc \in Settling => obs.cursor = obs.offset + Len(obs.prefix)

\* What a settling collection has read is whole clean lines, and its events
\* are theirs.
EventsInv ==
  obs.pc \in Settling => Clean(obs.prefix) /\ Ended(obs.prefix) /\ obs.events = EventsOf(obs.prefix)

\* A file that was exchanged is another one than the observed, until the last
\* look found it the same.
KnownInv == obs.source = 0 => \A i \in DOMAIN faults : ~ faults[i].known
ReplacedInv ==
  \A i \in DOMAIN faults :
    faults[i].known /\ faults[i].kind \in {"replaced", "deleted"} =>
      \/ faults[i].pc = "verify"
      \/ file.inode # obs.source /\ obs.pc # "verify" /\ obs.outcome # "ok"

\* The last look is behind a collection, or none has been there yet.
LookInv == obs.pc \notin {"verify", "done"} => \A i \in DOMAIN faults : faults[i].pc # "verify"

\* A file that was only appended to holds what was read, and beyond begin()
\* what was written since; or else a text that is no event.
Intact == ~ Seen(Marks)
IntactInv ==
  Intact /\ obs.pc \notin {"idle", "verify", "done"} =>
    /\ Reads(obs.offset, obs.prefix, file.data)
    /\ faults = <<>> => EventsOf(Beyond(file.data, obs.offset)) = writer.completed
    /\ faults # <<>> => SaysBad(Beyond(file.data, obs.offset))

\* What the last look has settled.
AllKnown == \A i \in DOMAIN faults : faults[i].known
Settled ==
  /\ ~ Seen({"truncated", "rewritten"}) /\ AllKnown => obs.events = due
  /\ Intact => \A i \in DOMAIN faults : faults[i].pc = "verify"
SettledInv == obs.pc = "verify" \/ obs.outcome = "ok" => Settled

JsonlInv ==
  /\ JsonlTypeOK /\ FilesInv /\ JsonlStageInv /\ EventsInv
  /\ KnownInv /\ ReplacedInv /\ LookInv /\ IntactInv /\ SettledInv

LEMMA JsonlStarts == Init => JsonlInv
<1> SUFFICES ASSUME Init
             PROVE  JsonlInv
  OBVIOUS
<1>1. <<>> \in Payloads /\ <<>> \in Lists /\ <<>> \in Seq(FaultType) /\ DOMAIN <<>> = {} /\ Len(<<>>) = 0
  <2>1. <<>> \in Payloads /\ <<>> \in Lists
    BY EmptySeq DEF Payloads, Lists
  <2>2. <<>> \in Seq(FaultType) /\ Len(<<>>) = 0
    BY EmptySeq
  <2> QED
    BY <2>1, <2>2
<1>2. file \in FileType /\ Len(file.data) \in 0 .. 3 /\ (file.inode = 0 => file.data = <<>>)
  <2>1. CASE file = Absent
    BY <1>1, <2>1 DEF Absent, FileType
  <2>2. ASSUME NEW n \in {0, 1, Text, Newline}, file = [inode |-> 1, data |-> SubSeq(Line(1), 1, n)]
        PROVE  file \in FileType /\ Len(file.data) \in 0 .. 3 /\ (file.inode = 0 => file.data = <<>>)
    <3>1. Line(1) \in Seq(Cells) /\ Len(Line(1)) = 3
      BY LineOf DEF Payloads
    <3>2. n \in 0 .. 3
      BY DEF Text, Newline
    <3>3. PICK data : data = SubSeq(Line(1), 1, n)
      OBVIOUS
    <3>4. data \in Payloads /\ Len(data) = n
      BY <3>1, <3>2, <3>3, PartIs DEF Payloads
    <3> QED
      BY <2>2, <3>2, <3>3, <3>4 DEF FileType
  <2> QED
    BY <2>1, <2>2 DEF Init
<1>3. writer \in [next : Nat \ {0}, written : 0 .. 2, completed : Lists]
  <2>1. PICK w \in 0 .. 2 : w = IF Size = Newline THEN 0 ELSE Size
    BY <1>2 DEF Size, Newline
  <2>2. PICK e \in Nat \ {0} : e = IF Size = 0 THEN 1 ELSE 2
    OBVIOUS
  <2>3. writer = [next |-> e, written |-> w, completed |-> <<>>]
    BY <2>1, <2>2 DEF Init
  <2> QED
    BY <1>1, <2>3
<1>4. NoObserver \in JsonlObserverType /\ NoObserver.source = 0 /\ NoObserver.pc = "idle"
      /\ NoObserver.outcome = "none"
  BY <1>1 DEF NoObserver, JsonlObserverType, JsonlStages, Outcomes
<1>5. obs = NoObserver /\ faults = <<>> /\ due = <<>> /\ inodes = file.inode /\ writer.completed = <<>>
  BY DEF Init
<1>6. file.inode \in Nat
  BY <1>2 DEF FileType
<1>7. JsonlTypeOK
  BY <1>1, <1>2, <1>3, <1>4, <1>5, <1>6 DEF Init, JsonlTypeOK
<1>8. FilesInv
  BY <1>2, <1>4, <1>5, <1>6 DEF FilesInv
<1>9. JsonlStageInv /\ EventsInv /\ IntactInv /\ SettledInv
  BY <1>4, <1>5 DEF JsonlStageInv, EventsInv, IntactInv, SettledInv, Settling
<1>10. KnownInv /\ ReplacedInv /\ LookInv
  BY <1>1, <1>5 DEF KnownInv, ReplacedInv, LookInv
<1> QED
  BY <1>7, <1>8, <1>9, <1>10 DEF JsonlInv

LEMMA TypesAre ==
  ASSUME JsonlInv
  PROVE  /\ file \in FileType /\ file.inode \in Nat /\ file.data \in Payloads /\ inodes \in Nat
         /\ now \in Nat /\ obs \in JsonlObserverType /\ obs.offset \in Nat /\ obs.source \in Nat
         /\ obs.cursor \in Nat /\ obs.prefix \in Payloads /\ obs.events \in Lists
         /\ obs.pc \in JsonlStages /\ obs.outcome \in Outcomes
         /\ writer \in [next : Nat \ {0}, written : 0 .. 2, completed : Lists] /\ writer.completed \in Lists
         /\ faults \in Seq(FaultType) /\ due \in Lists
BY DEF JsonlInv, JsonlTypeOK, FileType, JsonlObserverType

-----------------------------------------------------------------------------
(***************************************************************************)
(* Steps of the collection that only move on, and those that raise.        *)
(***************************************************************************)
LEMMA RaiseKeeps ==
  ASSUME JsonlInv, UNCHANGED <<spec, file, inodes, now, writer, faults>>, obs.pc # "idle",
         due' \in Lists, NEW o \in JsonlObserverType, o.source = obs.source, Raise(o)
  PROVE  JsonlInv'
<1>1. /\ obs' \in JsonlObserverType /\ obs'.pc = "done" /\ obs'.outcome = "error"
      /\ obs'.source = obs.source
  BY DEF Raise, JsonlObserverType, JsonlStages, Outcomes
<1>2. JsonlTypeOK'
  BY <1>1 DEF JsonlInv, JsonlTypeOK
<1>3. FilesInv' /\ KnownInv'
  BY <1>1 DEF JsonlInv, FilesInv, KnownInv
<1>4. JsonlStageInv' /\ EventsInv' /\ IntactInv' /\ SettledInv'
  BY <1>1 DEF JsonlStageInv, EventsInv, IntactInv, SettledInv, Settling
<1>5. ReplacedInv' /\ LookInv'
  BY <1>1 DEF JsonlInv, ReplacedInv, LookInv
<1> QED
  BY <1>2, <1>3, <1>4, <1>5 DEF JsonlInv

\* The stages in which a collection has read nothing it did not keep.
Moving == JsonlStages \ {"idle", "begun", "verify", "done"}

LEMMA MoveOn ==
  ASSUME JsonlInv, UNCHANGED <<spec, file, inodes, now, writer, faults, due>>,
         obs.pc \notin {"idle", "verify", "done"}, obs' \in JsonlObserverType,
         obs'.pc \in Moving, obs'.outcome = obs.outcome, obs'.offset = obs.offset,
         obs'.prefix = obs.prefix, obs'.events = obs.events,
         \/ obs'.source = obs.source
         \/ obs.source = 0 /\ obs'.source = file.inode,
         obs'.pc \in {"once", "readonce"} => obs.pc \in {"begun", "once"},
         obs'.pc \in Settling => obs'.cursor = obs.offset + Len(obs.prefix),
         obs'.pc \in Settling => obs.pc \in Settling \cup {"begun"}
  PROVE  JsonlInv'
<1>1. JsonlTypeOK'
  BY DEF JsonlInv, JsonlTypeOK
<1>2. FilesInv'
  BY DEF JsonlInv, FilesInv
<1>3. JsonlStageInv'
  BY DEF JsonlInv, JsonlStageInv, Moving, Settling
<1>4. EventsInv'
  <2>1. CASE obs.pc = "begun"
    BY <2>1, CleanNone, EventsOfNone DEF JsonlInv, JsonlStageInv, EventsInv
  <2>2. CASE obs.pc # "begun"
    BY <2>2 DEF JsonlInv, EventsInv
  <2> QED
    BY <2>1, <2>2
<1>5. obs.outcome = "none"
  BY DEF JsonlInv, JsonlStageInv
<1>6. KnownInv'
  BY DEF JsonlInv, KnownInv
<1>7. ReplacedInv'
  <2>1. CASE obs'.source = obs.source
    BY <1>5, <2>1 DEF JsonlInv, ReplacedInv, Moving
  <2>2. CASE obs.source = 0
    BY <2>2 DEF JsonlInv, KnownInv, ReplacedInv
  <2> QED
    BY <2>1, <2>2
<1>8. IntactInv'
  BY DEF JsonlInv, IntactInv, Intact, Seen, Moving
<1>9. SettledInv'
  BY <1>5 DEF SettledInv, Moving
<1>10. LookInv'
  BY DEF JsonlInv, LookInv
<1> QED
  BY <1>1, <1>2, <1>3, <1>4, <1>6, <1>7, <1>8, <1>9, <1>10 DEF JsonlInv

LEMMA MovingSteps ==
  ASSUME JsonlInv, StartCollect \/ PollStat \/ Decide \/ Wake \/ OnceStat
  PROVE  JsonlInv'
<1>1. /\ obs \in JsonlObserverType /\ file.inode \in Nat /\ file.data \in Payloads /\ now \in Nat
      /\ due \in Lists /\ obs.offset \in Nat
  BY TypesAre
<1>2. Size \in Nat
  BY <1>1, PayloadIs DEF Size
<1>3. SettleTimeout \in Nat
  BY TimesAssumption
<1>4. obs.pc \in Settling => obs.cursor = obs.offset + Len(obs.prefix)
  BY DEF JsonlInv, JsonlStageInv
<1>5. CASE StartCollect
  <2>1. PICK pc \in {"stat", "once"} : pc = IF spec.settle THEN "stat" ELSE "once"
    OBVIOUS
  <2>2. PICK deadline \in Nat : deadline = now + SettleTimeout
    BY <1>1, <1>3
  <2>3. /\ obs.pc = "begun" /\ UNCHANGED <<spec, file, inodes, now, writer, faults, due>>
        /\ obs' = [obs EXCEPT !.pc = pc, !.cursor = obs.offset, !.lastSize = obs.offset,
                              !.deadline = deadline, !.quietSince = now]
    BY <1>5, <2>1, <2>2 DEF StartCollect
  <2>4. /\ obs' \in JsonlObserverType /\ obs'.pc = pc /\ obs'.outcome = obs.outcome
        /\ obs'.offset = obs.offset /\ obs'.prefix = obs.prefix /\ obs'.events = obs.events
        /\ obs'.source = obs.source /\ obs'.cursor = obs.offset
    BY <1>1, <2>3 DEF JsonlObserverType, JsonlStages, Settling
  <2>5. obs.prefix = <<>> /\ obs.offset + Len(<<>>) = obs.offset
    <3>1. obs.prefix = <<>>
      BY <2>3 DEF JsonlInv, JsonlStageInv
    <3>2. Len(<<>>) = 0
      BY EmptySeq
    <3> QED
      BY <1>1, <3>1, <3>2
  <2>6. pc \in Moving
    BY DEF Moving, JsonlStages, Settling
  <2> QED
    BY <2>3, <2>4, <2>5, <2>6, MoveOn
<1>6. ASSUME obs.pc \in {"stat", "decide", "sleep"}, UNCHANGED <<spec, file, inodes, now, writer, faults, due>>,
             NEW pc \in {"stat", "read", "sleep", "final"}, NEW wake \in Nat,
             obs' = [obs EXCEPT !.pc = pc, !.wake = wake]
      PROVE  JsonlInv'
  <2>1. /\ obs' \in JsonlObserverType /\ obs'.pc = pc /\ obs'.outcome = obs.outcome
        /\ obs'.offset = obs.offset /\ obs'.prefix = obs.prefix /\ obs'.events = obs.events
        /\ obs'.source = obs.source /\ obs'.cursor = obs.cursor
    BY <1>1, <1>6 DEF JsonlObserverType, JsonlStages, Settling
  <2>2. pc \in Moving /\ obs.pc \in Settling /\ pc \notin {"once", "readonce"}
    BY <1>6 DEF Moving, JsonlStages, Settling
  <2> QED
    BY <1>4, <1>6, <2>1, <2>2, MoveOn
<1>7. obs.wake \in Nat /\ obs = [obs EXCEPT !.wake = obs.wake] /\ now + 1 \in Nat
  BY <1>1 DEF JsonlObserverType
<1>8. CASE PollStat
  <2>1. obs.pc = "stat" /\ UNCHANGED <<spec, file, inodes, now, writer, faults, due>>
    BY <1>8 DEF PollStat
  <2>2. CASE Raise(obs)
    BY <1>1, <2>1, <2>2, RaiseKeeps
  <2>3. CASE obs' = [obs EXCEPT !.pc = "sleep", !.wake = now + 1]
    BY <1>6, <1>7, <2>1, <2>3
  <2>4. CASE /\ Exists /\ (obs.source # 0 => ~ Broken(obs.cursor))
             /\ LET changed == Size # obs.lastSize
                IN  obs' = [obs EXCEPT !.pc = "read", !.source = file.inode, !.changed = changed,
                                       !.lastSize = Size,
                                       !.quietSince = IF changed \/ obs.source = 0 THEN now ELSE @]
    <3>1. PICK changed \in BOOLEAN : changed <=> Size # obs.lastSize
      OBVIOUS
    <3>2. PICK quiet \in Nat : quiet = IF Size # obs.lastSize \/ obs.source = 0 THEN now ELSE obs.quietSince
      BY <1>1 DEF JsonlObserverType
    <3>3. changed = (Size # obs.lastSize)
      BY <3>1
    <3>4. obs' = [obs EXCEPT !.pc = "read", !.source = file.inode, !.changed = changed,
                             !.lastSize = Size, !.quietSince = quiet]
      BY <2>4, <3>2, <3>3, Zenon
    <3>5. /\ obs' \in JsonlObserverType /\ obs'.pc = "read" /\ obs'.outcome = obs.outcome
          /\ obs'.offset = obs.offset /\ obs'.prefix = obs.prefix /\ obs'.events = obs.events
          /\ obs'.source = file.inode /\ obs'.cursor = obs.cursor
      BY <1>1, <1>2, <3>4 DEF JsonlObserverType, JsonlStages, Settling
    <3>6. obs.source = file.inode \/ obs.source = 0
      BY <2>4 DEF Broken
    <3>7. "read" \in Moving /\ obs.pc \in Settling
      BY <2>1 DEF Moving, JsonlStages, Settling
    <3> QED
      BY <1>4, <2>1, <3>5, <3>6, <3>7, MoveOn
  <2> QED
    BY <1>8, <2>2, <2>3, <2>4 DEF PollStat
<1>9. CASE Decide
  <2>1. obs.pc = "decide" /\ UNCHANGED <<spec, file, inodes, now, writer, faults, due>>
    BY <1>9 DEF Decide
  <2>2. CASE obs' = [obs EXCEPT !.pc = "final"]
    <3>1. obs' = [obs EXCEPT !.pc = "final", !.wake = obs.wake]
      BY <1>1, <2>2 DEF JsonlObserverType
    <3> QED
      BY <1>6, <1>7, <2>1, <3>1
  <2>3. CASE obs' = [obs EXCEPT !.pc = "sleep", !.wake = now + 1]
    BY <1>6, <1>7, <2>1, <2>3
  <2> QED
    BY <1>9, <2>2, <2>3 DEF Decide
<1>10. CASE Wake
  <2>1. obs.pc = "sleep" /\ UNCHANGED <<spec, file, inodes, now, writer, faults, due>>
        /\ obs' = [obs EXCEPT !.pc = "stat"]
    BY <1>10 DEF Wake
  <2>2. obs' = [obs EXCEPT !.pc = "stat", !.wake = obs.wake]
    BY <1>1, <2>1 DEF JsonlObserverType
  <2> QED
    BY <1>6, <1>7, <2>1, <2>2
<1>11. CASE OnceStat
  <2>1. obs.pc = "once" /\ UNCHANGED <<spec, file, inodes, now, writer, faults, due>>
    BY <1>11 DEF OnceStat
  <2>2. CASE Raise(obs)
    BY <1>1, <2>1, <2>2, RaiseKeeps
  <2>3. CASE obs' = [obs EXCEPT !.pc = "readonce"]
    <3>1. /\ obs' \in JsonlObserverType /\ obs'.pc = "readonce" /\ obs'.outcome = obs.outcome
          /\ obs'.offset = obs.offset /\ obs'.prefix = obs.prefix /\ obs'.events = obs.events
          /\ obs'.source = obs.source
      BY <1>1, <2>3 DEF JsonlObserverType, JsonlStages
    <3>2. "readonce" \in Moving /\ "readonce" \notin Settling
      BY DEF Moving, JsonlStages, Settling
    <3> QED
      BY <2>1, <3>1, <3>2, MoveOn
  <2> QED
    BY <1>11, <2>2, <2>3 DEF OnceStat
<1> QED
  BY <1>5, <1>8, <1>9, <1>10, <1>11

\* begin(): nothing is behind the end of the file.
LEMMA BeginKeeps ==
  ASSUME JsonlInv, Begin
  PROVE  JsonlInv'
<1>1. /\ obs = NoObserver /\ faults = <<>> /\ due = <<>> /\ writer.completed = <<>>
      /\ UNCHANGED <<spec, now, writer, faults, due>>
  BY DEF JsonlInv, JsonlStageInv, Begin
<1>2. /\ file \in FileType /\ file.inode \in Nat /\ file.data \in Payloads /\ inodes \in Nat
      /\ file.inode <= inodes /\ (file.inode = 0 => file.data = <<>>)
  BY TypesAre DEF JsonlInv, FilesInv
<1>3. <<>> \in Payloads
  BY EventsOfNone
<1>4. /\ file' \in FileType /\ file'.inode \in Nat /\ file'.data \in Payloads
      /\ inodes' \in Nat /\ file'.inode <= inodes'
      /\ file'.inode = 0 => file'.data = <<>>
  <2>1. CASE SamePath(file)
    BY <1>2, <2>1 DEF SamePath
  <2>2. CASE SamePath([file EXCEPT !.data = <<>>])
    BY <1>2, <1>3, <2>2 DEF SamePath, FileType
  <2>3. CASE SamePath(Create(<<>>))
    BY <1>2, <1>3, <2>3 DEF SamePath, Create, FileType
  <2> QED
    BY <2>1, <2>2, <2>3 DEF Begin
<1>5. PICK size \in Nat : size = Len(file'.data)
  BY <1>4, PayloadIs
<1>6. obs' = [NoObserver EXCEPT !.pc = "begun", !.offset = size, !.source = file'.inode]
  BY <1>5 DEF Begin
<1>7. obs \in JsonlObserverType
  BY TypesAre
<1>8. /\ obs' \in JsonlObserverType /\ obs'.pc = "begun" /\ obs'.offset = size
      /\ obs'.source = file'.inode /\ obs'.prefix = <<>> /\ obs'.events = <<>>
      /\ obs'.outcome = "none"
  BY <1>1, <1>4, <1>6, <1>7 DEF NoObserver, JsonlObserverType, JsonlStages
<1>9. DOMAIN faults = {}
  BY <1>1
<1>10. JsonlTypeOK'
  BY <1>1, <1>4, <1>8 DEF JsonlInv, JsonlTypeOK
<1>11. FilesInv'
  BY <1>4, <1>8 DEF FilesInv
<1>12. JsonlStageInv' /\ EventsInv'
  BY <1>8 DEF JsonlStageInv, EventsInv, Settling
<1>13. KnownInv' /\ ReplacedInv' /\ LookInv'
  BY <1>1, <1>9 DEF KnownInv, ReplacedInv, LookInv
<1>14. IntactInv'
  <2>1. Reads(size, <<>>, file'.data) /\ Beyond(file'.data, size) = <<>>
    BY <1>4, <1>5, NothingRead
  <2> QED
    BY <1>1, <1>8, <2>1, EventsOfNone DEF IntactInv
<1>15. SettledInv'
  BY <1>8 DEF SettledInv
<1> QED
  BY <1>10, <1>11, <1>12, <1>13, <1>14, <1>15 DEF JsonlInv

\* Whole lines are read and parsed.
LEMMA ReadSteps ==
  ASSUME JsonlInv, ReadRecords
  PROVE  JsonlInv'
<1>1. obs.pc = "read" /\ UNCHANGED <<spec, file, inodes, now, writer, faults, due>>
  BY DEF ReadRecords
<1>2. /\ obs \in JsonlObserverType /\ file.data \in Payloads /\ due \in Lists /\ obs.offset \in Nat
      /\ obs.cursor \in Nat /\ obs.prefix \in Payloads /\ obs.events \in Lists
  BY TypesAre
<1>3. CASE Raise(obs)
  BY <1>1, <1>2, <1>3, RaiseKeeps
<1>4. CASE \E complete \in {Complete(Rest(obs.cursor))} : \E parsed \in {Parsed(complete)} :
             LET read == [obs EXCEPT !.events = @ \o parsed.events]
             IN  IF parsed.bad THEN Raise(read)
                 ELSE obs' = [read EXCEPT !.pc = "decide", !.cursor = @ + Len(complete),
                                          !.prefix = @ \o complete]
  <2>1. PICK complete, parsed :
          /\ complete = Complete(Rest(obs.cursor)) /\ parsed = Parsed(complete)
          /\ IF parsed.bad THEN Raise([obs EXCEPT !.events = @ \o parsed.events])
             ELSE obs' = [[obs EXCEPT !.events = @ \o parsed.events] EXCEPT
                            !.pc = "decide", !.cursor = @ + Len(complete), !.prefix = @ \o complete]
    BY <1>4
  <2>2. Rest(obs.cursor) = Beyond(file.data, obs.cursor)
    BY DEF Rest, Beyond, Size
  <2>3. Beyond(file.data, obs.cursor) \in Payloads
    BY <1>2, BeyondIs
  <2>4. complete \in Payloads /\ Ended(complete)
    BY <2>1, <2>2, <2>3, CompleteIs
  <2>5. PICK n \in 0 .. Len(Beyond(file.data, obs.cursor)) :
          complete = SubSeq(Beyond(file.data, obs.cursor), 1, n)
    BY <2>1, <2>2, <2>3, CompleteIs
  <2>6. /\ parsed.events \in Seq(Nat) /\ (~ parsed.bad <=> Clean(complete))
        /\ Clean(complete) => parsed = [events |-> EventsOf(complete), bad |-> FALSE]
    BY <2>1, <2>4, ParsedIs
  <2>7. PICK events : events = obs.events \o parsed.events
    OBVIOUS
  <2>8. events \in Lists
    BY <1>2, <2>6, <2>7, ConcatProperties DEF Lists
  <2>9. PICK read : read = [obs EXCEPT !.events = events]
    OBVIOUS
  <2>10. read \in JsonlObserverType /\ read.source = obs.source
    BY <1>2, <2>8, <2>9 DEF JsonlObserverType
  <2>11. CASE parsed.bad
    <3>1. Raise(read)
      BY <2>1, <2>7, <2>9, <2>11
    <3> QED
      BY <1>1, <1>2, <2>10, <3>1, RaiseKeeps
  <2>12. CASE ~ parsed.bad
    <3>1. Clean(complete) /\ parsed.events = EventsOf(complete)
      <4>1. Clean(complete)
        BY <2>6, <2>12
      <4>2. parsed = [events |-> EventsOf(complete), bad |-> FALSE]
        BY <2>6, <4>1
      <4> QED
        BY <4>1, <4>2
    <3>2. PICK prefix : prefix = obs.prefix \o complete
      OBVIOUS
    <3>3. prefix \in Payloads /\ Len(prefix) = Len(obs.prefix) + Len(complete)
      BY <1>2, <2>4, <3>2, JoinedIs DEF Payloads
    <3>4. Len(obs.prefix) \in Nat /\ Len(complete) \in Nat
      BY <1>2, <2>4, PayloadIs
    <3>5. PICK cursor \in Nat : cursor = obs.cursor + Len(complete)
      BY <1>2, <3>4
    <3>6. obs' = [read EXCEPT !.pc = "decide", !.cursor = cursor, !.prefix = prefix]
      <4>1. read.cursor = obs.cursor /\ read.prefix = obs.prefix
        BY <1>2, <2>9 DEF JsonlObserverType
      <4>2. obs' = [read EXCEPT !.pc = "decide", !.cursor = @ + Len(complete), !.prefix = @ \o complete]
        BY <2>1, <2>7, <2>9, <2>12
      <4> QED
        BY <3>2, <3>5, <4>1, <4>2
    <3>7. /\ obs' \in JsonlObserverType /\ obs'.pc = "decide" /\ obs'.cursor = cursor
          /\ obs'.prefix = prefix /\ obs'.events = events /\ obs'.offset = obs.offset
          /\ obs'.source = obs.source /\ obs'.outcome = obs.outcome
      BY <1>2, <2>8, <2>9, <2>10, <3>3, <3>6 DEF JsonlObserverType, JsonlStages, Settling
    <3>8. /\ Clean(obs.prefix) /\ Ended(obs.prefix) /\ obs.events = EventsOf(obs.prefix)
          /\ obs.cursor = obs.offset + Len(obs.prefix) /\ obs.outcome = "none"
      BY <1>1 DEF JsonlInv, EventsInv, JsonlStageInv, Settling
    <3>9. Clean(prefix) /\ Ended(prefix) /\ events = EventsOf(prefix)
      <4>1. Clean(prefix)
        BY <1>2, <2>4, <3>1, <3>2, <3>8, CleanJoins
      <4>2. events = EventsOf(prefix)
        BY <1>2, <2>4, <2>7, <3>1, <3>2, <3>8, EventsJoin
      <4>3. Ended(prefix)
        <5>1. CASE complete = <<>>
          <6>1. prefix = obs.prefix
            BY <1>2, <3>2, <5>1, ConcatEmptySeq DEF Payloads
          <6> QED
            BY <3>8, <6>1
        <5>2. CASE complete # <<>>
          <6>1. Len(complete) \in 1 .. Len(complete)
            BY <2>4, <3>4, <5>2, EmptySeq DEF Payloads
          <6>2. prefix[Len(obs.prefix) + Len(complete)] = complete[Len(complete)]
            BY <1>2, <2>4, <3>2, <6>1, JoinedIs DEF Payloads
          <6> QED
            BY <2>4, <3>3, <5>2, <6>2 DEF Ended
        <5> QED
          BY <5>1, <5>2
      <4> QED
        BY <4>1, <4>2, <4>3
    <3>10. JsonlTypeOK' /\ FilesInv' /\ KnownInv'
      BY <1>1, <3>7 DEF JsonlInv, JsonlTypeOK, FilesInv, KnownInv
    <3>11. JsonlStageInv' /\ EventsInv' /\ SettledInv'
      <4>1. cursor = obs.offset + Len(prefix)
        BY <1>2, <3>3, <3>4, <3>5, <3>8
      <4> QED
        BY <3>7, <3>8, <3>9, <4>1 DEF JsonlStageInv, EventsInv, SettledInv
    <3>12. ReplacedInv' /\ LookInv'
      BY <1>1, <3>7, <3>8 DEF JsonlInv, ReplacedInv, LookInv
    <3>13. IntactInv'
      <4> SUFFICES ASSUME Intact
                   PROVE  /\ Reads(obs.offset, prefix, file.data)
                          /\ faults = <<>> => EventsOf(Beyond(file.data, obs.offset)) = writer.completed
                          /\ faults # <<>> => SaysBad(Beyond(file.data, obs.offset))
        BY <1>1, <3>7 DEF IntactInv, Intact, Seen
      <4>1. /\ Reads(obs.offset, obs.prefix, file.data)
            /\ faults = <<>> => EventsOf(Beyond(file.data, obs.offset)) = writer.completed
            /\ faults # <<>> => SaysBad(Beyond(file.data, obs.offset))
        BY <1>1 DEF JsonlInv, IntactInv
      <4>2. Reads(obs.offset, prefix, file.data)
        <5>1. PICK to : to = obs.offset + Len(obs.prefix)
          OBVIOUS
        <5>2. n \in 0 .. Len(Beyond(file.data, to)) /\ complete = SubSeq(Beyond(file.data, to), 1, n)
          BY <2>5, <3>8, <5>1
        <5> QED
          BY <1>2, <3>2, <4>1, <5>1, <5>2, ReadsJoin
      <4> QED
        BY <4>1, <4>2
    <3> QED
      BY <3>10, <3>11, <3>12, <3>13 DEF JsonlInv
  <2> QED
    BY <2>11, <2>12
<1> QED
  BY <1>3, <1>4 DEF ReadRecords

\* No exchange of the observed file was missed by a look that found it the same.
LEMMA SameFile ==
  ASSUME JsonlInv, obs.pc # "verify", obs.source = 0 \/ file.inode = obs.source
  PROVE  \A i \in DOMAIN faults :
           faults[i].known /\ faults[i].kind \in {"replaced", "deleted"} => faults[i].pc = "verify"
BY DEF JsonlInv, KnownInv, ReplacedInv

\* A last look that finds nothing unread and only clean lines settles it.
LEMMA LastLook ==
  ASSUME JsonlInv, obs.pc \in {"final", "readonce"},
         obs.source = 0 \/ file.inode = obs.source,
         NEW events, NEW written, written = writer.completed,
         Intact => /\ events = EventsOf(Beyond(file.data, obs.offset))
                   /\ ~ SaysBad(Beyond(file.data, obs.offset))
  PROVE  /\ ~ Seen({"truncated", "rewritten"}) /\ AllKnown => events = written
         /\ Intact => \A i \in DOMAIN faults : faults[i].pc = "verify"
<1>1. Intact => /\ faults = <<>> => EventsOf(Beyond(file.data, obs.offset)) = writer.completed
                /\ faults # <<>> => SaysBad(Beyond(file.data, obs.offset))
  BY DEF JsonlInv, IntactInv
<1>2. Intact => faults = <<>> /\ events = written
  BY <1>1
<1>3. faults = <<>> => \A i \in DOMAIN faults : faults[i].pc = "verify"
  OBVIOUS
<1>4. ASSUME ~ Seen({"truncated", "rewritten"}), AllKnown
      PROVE  Intact
  <2> SUFFICES ASSUME NEW i \in DOMAIN faults, faults[i].kind \in Marks
               PROVE  FALSE
    BY DEF Intact, Seen
  <2>1. faults[i].kind \in {"replaced", "deleted"} /\ faults[i].known
    BY <1>4 DEF Seen, Marks, AllKnown
  <2>2. faults[i].pc = "verify"
    BY <2>1, SameFile
  <2> QED
    BY <2>2 DEF JsonlInv, LookInv
<1> QED
  BY <1>2, <1>3, <1>4

LEMMA FinalSteps ==
  ASSUME JsonlInv, FinalStat
  PROVE  JsonlInv'
<1>1. obs.pc = "final" /\ UNCHANGED <<spec, file, inodes, now, writer, faults>> /\ due' = writer.completed
  BY DEF FinalStat
<1>2. /\ obs \in JsonlObserverType /\ file.data \in Payloads /\ writer.completed \in Lists
      /\ obs.offset \in Nat /\ obs.cursor \in Nat /\ obs.prefix \in Payloads
  BY TypesAre
<1>3. CASE Raise(obs)
  BY <1>1, <1>2, <1>3, RaiseKeeps
<1>4. CASE ~ Broken(obs.cursor) /\ ~ Size > obs.cursor /\ obs' = [obs EXCEPT !.pc = "verify"]
  <2>1. /\ obs' \in JsonlObserverType /\ obs'.pc = "verify" /\ obs'.cursor = obs.cursor
        /\ obs'.prefix = obs.prefix /\ obs'.events = obs.events /\ obs'.offset = obs.offset
        /\ obs'.source = obs.source /\ obs'.outcome = obs.outcome
    BY <1>2, <1>4 DEF JsonlObserverType, JsonlStages, Settling
  <2>2. file.inode = obs.source /\ Len(file.data) <= obs.cursor
    <3>1. Len(file.data) \in Nat
      BY <1>2, PayloadIs
    <3> QED
      BY <1>2, <1>4, <3>1 DEF Broken, Size
  <2>3. /\ Clean(obs.prefix) /\ Ended(obs.prefix) /\ obs.events = EventsOf(obs.prefix)
        /\ obs.cursor = obs.offset + Len(obs.prefix) /\ obs.outcome = "none"
    BY <1>1 DEF JsonlInv, EventsInv, JsonlStageInv, Settling
  <2>4. ASSUME Intact
        PROVE  /\ obs.events = EventsOf(Beyond(file.data, obs.offset))
               /\ ~ SaysBad(Beyond(file.data, obs.offset))
    <3>1. Reads(obs.offset, obs.prefix, file.data)
      BY <1>1, <2>4 DEF JsonlInv, IntactInv
    <3>2. Beyond(file.data, obs.offset) = obs.prefix
      BY <1>2, <2>2, <2>3, <3>1, AllIsRead
    <3> QED
      BY <1>2, <2>3, <3>2, NoBadText
  <2>5. /\ ~ Seen({"truncated", "rewritten"}) /\ AllKnown => obs.events = due'
        /\ Intact => \A i \in DOMAIN faults : faults[i].pc = "verify"
    BY <1>1, <2>2, <2>4, LastLook
  <2>6. JsonlTypeOK' /\ FilesInv' /\ KnownInv'
    BY <1>1, <1>2, <2>1 DEF JsonlInv, JsonlTypeOK, FilesInv, KnownInv
  <2>7. JsonlStageInv' /\ EventsInv' /\ IntactInv' /\ LookInv'
    BY <2>1, <2>3 DEF JsonlStageInv, EventsInv, IntactInv, LookInv
  <2>8. ReplacedInv'
    <3>1. \A i \in DOMAIN faults :
            faults[i].known /\ faults[i].kind \in {"replaced", "deleted"} => faults[i].pc = "verify"
      BY <1>1, <2>2, SameFile
    <3> QED
      BY <1>1, <3>1 DEF ReplacedInv
  <2>9. SettledInv'
    BY <1>1, <2>1, <2>5 DEF SettledInv, Settled, Intact, Seen, AllKnown
  <2> QED
    BY <2>6, <2>7, <2>8, <2>9 DEF JsonlInv
<1> QED
  BY <1>3, <1>4 DEF FinalStat

LEMMA VerifySteps ==
  ASSUME JsonlInv, Verify
  PROVE  JsonlInv'
<1>1. obs.pc = "verify" /\ UNCHANGED <<spec, file, inodes, now, writer, faults, due>>
  BY DEF Verify
<1>2. obs \in JsonlObserverType /\ due \in Lists
  BY TypesAre
<1>3. CASE Raise(obs)
  BY <1>1, <1>2, <1>3, RaiseKeeps
<1>4. CASE Return(obs)
  <2>1. /\ obs' \in JsonlObserverType /\ obs'.pc = "done" /\ obs'.outcome = "ok"
        /\ obs'.events = obs.events /\ obs'.source = obs.source
    BY <1>2, <1>4 DEF Return, JsonlObserverType, JsonlStages, Outcomes
  <2>2. JsonlTypeOK' /\ FilesInv' /\ KnownInv'
    BY <1>1, <1>2, <2>1 DEF JsonlInv, JsonlTypeOK, FilesInv, KnownInv
  <2>3. JsonlStageInv' /\ EventsInv' /\ IntactInv' /\ LookInv'
    BY <2>1 DEF JsonlStageInv, EventsInv, IntactInv, LookInv, Settling
  <2>4. ReplacedInv'
    BY <1>1 DEF JsonlInv, ReplacedInv
  <2>5. SettledInv'
    BY <1>1, <2>1 DEF JsonlInv, SettledInv, Settled, Intact, Seen, AllKnown
  <2> QED
    BY <2>2, <2>3, <2>4, <2>5 DEF JsonlInv
<1> QED
  BY <1>3, <1>4 DEF Verify

LEMMA OnceReadSteps ==
  ASSUME JsonlInv, OnceRead
  PROVE  JsonlInv'
<1>1. obs.pc = "readonce" /\ UNCHANGED <<spec, file, inodes, now, writer, faults>> /\ due' = writer.completed
  BY DEF OnceRead
<1>2. /\ obs \in JsonlObserverType /\ file.data \in Payloads /\ writer.completed \in Lists
      /\ obs.offset \in Nat
  BY TypesAre
<1>3. CASE Raise(obs)
  BY <1>1, <1>2, <1>3, RaiseKeeps
<1>4. CASE /\ Exists /\ ~ BrokenOnce
           /\ \E parsed \in {Parsed(Rest(obs.offset))} :
                LET read == [obs EXCEPT !.events = parsed.events]
                IN  IF parsed.bad THEN Raise(read) ELSE Return(read)
  <2>1. PICK parsed :
          /\ parsed = Parsed(Rest(obs.offset))
          /\ IF parsed.bad THEN Raise([obs EXCEPT !.events = parsed.events])
             ELSE Return([obs EXCEPT !.events = parsed.events])
    BY <1>4
  <2>2. Rest(obs.offset) = Beyond(file.data, obs.offset)
    BY DEF Rest, Beyond, Size
  <2>3. PICK payload \in Payloads : payload = Beyond(file.data, obs.offset)
    BY <1>2, BeyondIs
  <2>4. /\ parsed.events \in Lists /\ (~ parsed.bad <=> Clean(payload))
        /\ Clean(payload) => parsed = [events |-> EventsOf(payload), bad |-> FALSE]
    BY <2>1, <2>2, <2>3, ParsedIs DEF Lists
  <2>5. PICK read : read = [obs EXCEPT !.events = parsed.events]
    OBVIOUS
  <2>6. read \in JsonlObserverType /\ read.source = obs.source /\ read.events = parsed.events
    BY <1>2, <2>4, <2>5 DEF JsonlObserverType
  <2>7. CASE parsed.bad
    <3>1. Raise(read)
      BY <2>1, <2>5, <2>7
    <3> QED
      BY <1>1, <1>2, <2>6, <3>1, RaiseKeeps
  <2>8. CASE ~ parsed.bad
    <3>1. Clean(payload)
      BY <2>4, <2>8
    <3>2. parsed = [events |-> EventsOf(payload), bad |-> FALSE]
      BY <2>4, <3>1
    <3>3. read.events = EventsOf(payload) /\ ~ SaysBad(payload)
      <4>1. parsed.events = EventsOf(payload)
        BY ONLY <3>2
      <4> QED
        BY <2>6, <3>1, <4>1, NoBadText
    <3>4. Return(read)
      BY <2>1, <2>5, <2>8
    <3>5. /\ obs' \in JsonlObserverType /\ obs'.pc = "done" /\ obs'.outcome = "ok"
          /\ obs'.events = read.events /\ obs'.source = obs.source
      BY <2>6, <3>4 DEF Return, JsonlObserverType, JsonlStages, Outcomes
    <3>6. obs.source = 0 \/ file.inode = obs.source
      BY <1>4 DEF BrokenOnce
    <3>7. /\ ~ Seen({"truncated", "rewritten"}) /\ AllKnown => read.events = due'
          /\ Intact => \A i \in DOMAIN faults : faults[i].pc = "verify"
      BY <1>1, <2>3, <3>3, <3>6, LastLook
    <3>8. JsonlTypeOK' /\ FilesInv' /\ KnownInv'
      BY <1>1, <1>2, <3>5 DEF JsonlInv, JsonlTypeOK, FilesInv, KnownInv
    <3>9. JsonlStageInv' /\ EventsInv' /\ IntactInv' /\ LookInv'
      BY <3>5 DEF JsonlStageInv, EventsInv, IntactInv, LookInv, Settling
    <3>10. ReplacedInv'
      <4>1. \A i \in DOMAIN faults :
              faults[i].known /\ faults[i].kind \in {"replaced", "deleted"} => faults[i].pc = "verify"
        BY <1>1, <3>6, SameFile
      <4> QED
        BY <1>1, <4>1 DEF ReplacedInv
    <3>11. SettledInv'
      BY <1>1, <3>5, <3>7 DEF SettledInv, Settled, Intact, Seen, AllKnown
    <3> QED
      BY <3>8, <3>9, <3>10, <3>11 DEF JsonlInv
  <2> QED
    BY <2>7, <2>8
<1> QED
  BY <1>3, <1>4 DEF OnceRead

-----------------------------------------------------------------------------
(***************************************************************************)
(* Steps of the writer and of the file system.                             *)
(***************************************************************************)
LEMMA ExtendedIs ==
  ASSUME JsonlInv, NEW cells \in Payloads
  PROVE  /\ Extended(cells) \in FileType
         /\ Extended(cells).inode \in {file.inode, inodes + 1} /\ Extended(cells).inode # 0
         /\ Extended(cells).data = file.data \o cells
<1>1. file \in FileType /\ file.inode \in Nat /\ file.data \in Payloads /\ inodes \in Nat
  BY TypesAre
<1>2. CASE Exists
  <2>1. PICK data \in Payloads : data = file.data \o cells
    BY <1>1, JoinedIs DEF Payloads
  <2>2. Extended(cells) = [file EXCEPT !.data = data]
    BY <1>2, <2>1 DEF Extended
  <2> QED
    BY <1>1, <1>2, <2>1, <2>2 DEF FileType, Exists
<1>3. CASE ~ Exists
  <2>1. file.data = <<>>
    BY <1>3 DEF JsonlInv, FilesInv, Exists
  <2>2. file.data \o cells = cells
    BY <2>1, ConcatEmptySeq DEF Payloads
  <2>3. Extended(cells) = [inode |-> inodes + 1, data |-> cells]
    BY <1>3 DEF Extended, Create
  <2> QED
    BY <1>1, <2>2, <2>3 DEF FileType
<1> QED
  BY <1>2, <1>3

\* A path that names a file anew names none of the files before.
LEMMA SamePathIs ==
  ASSUME JsonlInv, NEW newFile \in FileType, SamePath(newFile),
         newFile.inode \in {file.inode, 0, inodes + 1},
         newFile.inode = 0 => newFile.data = <<>>
  PROVE  /\ file' \in FileType /\ inodes' \in Nat
         /\ file'.inode <= inodes' /\ obs.source <= inodes'
         /\ file'.inode = 0 => file'.data = <<>>
         /\ obs.source # 0 /\ file.inode # obs.source => file'.inode # obs.source
         /\ obs.source # 0 /\ file'.inode \in {0, inodes + 1} => file'.inode # obs.source
<1>1. /\ file.inode \in Nat /\ inodes \in Nat /\ obs.source \in Nat
      /\ file.inode <= inodes /\ obs.source <= inodes
  BY TypesAre DEF JsonlInv, FilesInv
<1>2. PICK n \in Nat : n = newFile.inode
  BY DEF FileType
<1>3. file' = newFile /\ inodes' = IF n > inodes THEN n ELSE inodes
  BY <1>2 DEF SamePath
<1> QED
  BY <1>1, <1>2, <1>3

LEMMA GrowKeeps ==
  ASSUME JsonlInv, Observing, UNCHANGED <<spec, now, obs, faults, due>>,
         NEW cells \in Payloads, SamePath(Extended(cells)),
         writer' \in [next : Nat \ {0}, written : 0 .. 2, completed : Lists],
         writer'.completed = writer.completed \o EventsOf(cells)
  PROVE  JsonlInv'
<1>1. /\ file.data \in Payloads /\ obs.offset \in Nat /\ obs.prefix \in Payloads
      /\ writer.completed \in Lists /\ obs \in JsonlObserverType
  BY TypesAre
<1>2. /\ Extended(cells) \in FileType
      /\ Extended(cells).inode \in {file.inode, inodes + 1} /\ Extended(cells).inode # 0
      /\ Extended(cells).data = file.data \o cells
  BY ExtendedIs
<1>3. file'.data = file.data \o cells
  BY <1>2 DEF SamePath
<1>4. /\ file' \in FileType /\ inodes' \in Nat
      /\ file'.inode <= inodes' /\ obs.source <= inodes'
      /\ file'.inode = 0 => file'.data = <<>>
      /\ obs.source # 0 /\ file.inode # obs.source => file'.inode # obs.source
  BY <1>2, SamePathIs
<1>5. obs.pc \notin {"idle", "done"}
  BY DEF Observing
<1>6. JsonlTypeOK' /\ FilesInv' /\ JsonlStageInv' /\ EventsInv' /\ KnownInv' /\ LookInv'
  BY <1>4, <1>5 DEF JsonlInv, JsonlTypeOK, FilesInv, JsonlStageInv, EventsInv, KnownInv, LookInv
<1>7. ReplacedInv'
  BY <1>4 DEF JsonlInv, ReplacedInv, KnownInv
<1>8. SettledInv'
  BY DEF JsonlInv, SettledInv, Settled, Intact, Seen, AllKnown
<1>9. IntactInv'
  <2> SUFFICES ASSUME Intact, obs.pc \notin {"idle", "verify", "done"}
               PROVE  /\ Reads(obs.offset, obs.prefix, file'.data)
                      /\ faults = <<>> => EventsOf(Beyond(file'.data, obs.offset)) = writer'.completed
                      /\ faults # <<>> => SaysBad(Beyond(file'.data, obs.offset))
    BY DEF IntactInv, Intact, Seen
  <2> DEFINE beyond == Beyond(file.data, obs.offset)
  <2>1. /\ Reads(obs.offset, obs.prefix, file.data)
        /\ faults = <<>> => EventsOf(beyond) = writer.completed
        /\ faults # <<>> => SaysBad(beyond)
    BY DEF JsonlInv, IntactInv
  <2>2. beyond \in Payloads
    BY <1>1, BeyondIs
  <2> HIDE DEF beyond
  <2>3. Reads(obs.offset, obs.prefix, file'.data) /\ Beyond(file'.data, obs.offset) = beyond \o cells
    <3>1. /\ Reads(obs.offset, obs.prefix, file.data \o cells)
          /\ Beyond(file.data \o cells, obs.offset) = Beyond(file.data, obs.offset) \o cells
      <4>1. Reads(obs.offset, obs.prefix, file.data)
        BY <2>1
      <4> QED
        BY ONLY <1>1, <4>1, ReadsStay, cells \in Payloads, Zenon
    <3> QED
      BY <1>3, <3>1, Zenon DEF beyond
  <2>4. EventsOf(beyond \o cells) = EventsOf(beyond) \o EventsOf(cells)
    BY <2>2, EventsJoin
  <2>5. SaysBad(beyond) => SaysBad(beyond \o cells)
    BY <2>2, SaysBadJoins
  <2> QED
    BY <2>1, <2>3, <2>4, <2>5
<1> QED
  BY <1>6, <1>7, <1>8, <1>9 DEF JsonlInv

LEMMA WriteSteps ==
  ASSUME JsonlInv, WriteEvent \/ WriteRest
  PROVE  JsonlInv'
<1>1. /\ writer \in [next : Nat \ {0}, written : 0 .. 2, completed : Lists]
      /\ writer.completed \in Lists
  BY TypesAre
<1>2. PICK e \in Nat, a \in 0 .. 2, b \in 1 .. 3 : a < b /\ Write(e, a + 1, b)
  <2>1. CASE WriteEvent
    <3>1. PICK to \in 1 .. 3 : Write(writer.next, 1, to)
      BY <2>1 DEF WriteEvent, Newline
    <3>2. writer.next \in Nat /\ 0 \in 0 .. 2 /\ 0 < to /\ 0 + 1 = 1
      BY <1>1
    <3> QED
      BY <3>1, <3>2
  <2>2. CASE WriteRest
    <3>1. PICK to \in (writer.written + 1) .. 3 : Write(writer.next - 1, writer.written + 1, to)
      BY <2>2 DEF WriteRest, Newline
    <3>2. writer.next - 1 \in Nat /\ writer.written \in 0 .. 2 /\ to \in 1 .. 3 /\ writer.written < to
      BY <1>1
    <3> QED
      BY <3>1, <3>2
  <2> QED
    BY <2>1, <2>2
<1> DEFINE cells == SubSeq(Line(e), a + 1, b)
<1>3. /\ Observing /\ UNCHANGED <<spec, now, obs, faults, due>>
      /\ SamePath(Extended(cells))
      /\ writer' = [next |-> e + 1, written |-> b % Newline,
                    completed |-> IF Text \in a + 1 .. b THEN Append(writer.completed, e)
                                  ELSE writer.completed]
  BY <1>2 DEF Write
<1>4. /\ cells \in Payloads
      /\ EventsOf(cells) = IF Text \in a + 1 .. b THEN <<e>> ELSE <<>>
  <2>1. a \in Nat /\ b \in Nat /\ a <= b /\ b <= 3
    BY <1>2
  <2> QED
    BY <2>1, WrittenIs
<1> HIDE DEF cells
<1>5. PICK completed : completed = IF Text \in a + 1 .. b THEN Append(writer.completed, e)
                                   ELSE writer.completed
  OBVIOUS
<1>6. completed \in Lists /\ completed = writer.completed \o EventsOf(cells)
  <2>1. CASE Text \in a + 1 .. b
    <3>1. Append(writer.completed, e) \in Seq(Nat) /\ Append(writer.completed, e) = writer.completed \o <<e>>
      BY <1>1, AppendProperties, AppendIsConcat DEF Lists
    <3> QED
      BY <1>4, <1>5, <2>1, <3>1 DEF Lists
  <2>2. CASE Text \notin a + 1 .. b
    <3>1. writer.completed \o <<>> = writer.completed
      BY <1>1, ConcatEmptySeq DEF Lists
    <3> QED
      BY <1>1, <1>4, <1>5, <2>2, <3>1
  <2> QED
    BY <2>1, <2>2
<1>7. PICK written \in 0 .. 2 : written = b % Newline
  BY DEF Newline
<1>8. writer' = [next |-> e + 1, written |-> written, completed |-> completed]
  BY <1>3, <1>5, <1>7
<1>9. /\ writer' \in [next : Nat \ {0}, written : 0 .. 2, completed : Lists]
      /\ writer'.completed = completed
  BY <1>6, <1>8
<1> QED
  BY <1>3, <1>4, <1>6, <1>9, GrowKeeps

\* A fault is remembered with the stage it came in.
LEMMA FaultKeeps ==
  ASSUME JsonlInv, NEW kind \in Marks \cup {"garbage"}, NEW newFile \in FileType, Fault(kind, newFile),
         newFile.inode \in {file.inode, 0, inodes + 1},
         newFile.inode = 0 => newFile.data = <<>>,
         kind \in {"replaced", "deleted"} => newFile.inode \in {0, inodes + 1},
         kind = "garbage" => newFile.data = file.data \o Line(Bad)
  PROVE  JsonlInv'
<1>1. /\ file.data \in Payloads /\ obs.offset \in Nat /\ obs.prefix \in Payloads
      /\ obs.pc \in JsonlStages /\ faults \in Seq(FaultType)
  BY TypesAre
<1>2. /\ obs.pc \notin {"idle", "done"} /\ UNCHANGED <<spec, now, obs, writer, due>>
      /\ SamePath(newFile) /\ file' = newFile
  BY DEF Fault, Observing, SamePath
<1>3. PICK known \in BOOLEAN : known <=> obs.source # 0
  OBVIOUS
<1>4. PICK f : f = [kind |-> kind, known |-> known, pc |-> obs.pc]
  OBVIOUS
<1>5. f \in FaultType /\ f.kind = kind /\ f.known = known /\ f.pc = obs.pc
  BY <1>1, <1>4 DEF FaultType
<1>6. faults' = Append(faults, f)
  <2>1. known = (obs.source # 0)
    BY <1>3
  <2> QED
    BY <1>4, <2>1 DEF Fault
<1>7. PICK n \in Nat : n = Len(faults)
  BY <1>1, ListIs
<1>8. /\ faults' \in Seq(FaultType) /\ faults' # <<>>
      /\ DOMAIN faults = 1 .. n /\ DOMAIN faults' = 1 .. n + 1
      /\ \A i \in 1 .. n : faults'[i] = faults[i]
      /\ faults'[n + 1] = f
  <2>1. /\ faults' \in Seq(FaultType) /\ faults' # <<>> /\ Len(faults') = n + 1
        /\ \A i \in 1 .. n : faults'[i] = faults[i]
        /\ faults'[n + 1] = f
    BY <1>1, <1>5, <1>6, <1>7, AppendProperties
  <2> QED
    BY <1>1, <1>7, <2>1, ListIs
<1>9. /\ DOMAIN faults \subseteq DOMAIN faults' /\ n + 1 \in DOMAIN faults'
      /\ \A i \in DOMAIN faults' : i = n + 1 \/ i \in DOMAIN faults
      /\ \A i \in DOMAIN faults : faults'[i] = faults[i]
  BY <1>8
<1>10. /\ file' \in FileType /\ inodes' \in Nat
       /\ file'.inode <= inodes' /\ obs.source <= inodes'
       /\ file'.inode = 0 => file'.data = <<>>
       /\ obs.source # 0 /\ file.inode # obs.source => file'.inode # obs.source
       /\ obs.source # 0 /\ file'.inode \in {0, inodes + 1} => file'.inode # obs.source
  BY <1>2, SamePathIs
<1>11. obs.outcome = "none"
  BY <1>2 DEF JsonlInv, JsonlStageInv
<1>12. JsonlTypeOK' /\ FilesInv' /\ JsonlStageInv' /\ EventsInv'
  BY <1>2, <1>8, <1>10 DEF JsonlInv, JsonlTypeOK, FilesInv, JsonlStageInv, EventsInv
<1>13. KnownInv'
  <2> SUFFICES ASSUME obs.source = 0, NEW i \in DOMAIN faults'
               PROVE  ~ faults'[i].known
    BY <1>2 DEF KnownInv
  <2>1. CASE i = n + 1
    BY <1>3, <1>5, <1>8, <2>1
  <2>2. CASE i \in DOMAIN faults
    BY <1>9, <2>2 DEF JsonlInv, KnownInv
  <2> QED
    BY <1>9, <2>1, <2>2
<1>14. LookInv'
  <2> SUFFICES ASSUME obs.pc # "verify", NEW i \in DOMAIN faults'
               PROVE  faults'[i].pc # "verify"
    BY <1>2 DEF LookInv
  <2>1. CASE i = n + 1
    BY <1>5, <1>8, <2>1
  <2>2. CASE i \in DOMAIN faults
    BY <1>2, <1>9, <2>2 DEF JsonlInv, LookInv
  <2> QED
    BY <1>9, <2>1, <2>2
<1>15. ReplacedInv'
  <2> SUFFICES ASSUME NEW i \in DOMAIN faults', faults'[i].known,
                      faults'[i].kind \in {"replaced", "deleted"}, faults'[i].pc # "verify"
               PROVE  file'.inode # obs.source /\ obs.pc # "verify"
    BY <1>2, <1>11 DEF ReplacedInv
  <2>1. CASE i = n + 1
    BY <1>2, <1>3, <1>5, <1>8, <1>10, <2>1
  <2>2. CASE i \in DOMAIN faults
    <3>1. faults[i].known /\ file.inode # obs.source /\ obs.pc # "verify"
      BY <1>9, <2>2 DEF JsonlInv, ReplacedInv
    <3>2. obs.source # 0
      BY <2>2, <3>1 DEF JsonlInv, KnownInv
    <3> QED
      BY <1>10, <3>1, <3>2
  <2> QED
    BY <1>9, <2>1, <2>2
<1>16. Seen(Marks)' => kind \in Marks \/ Seen(Marks)
  BY <1>5, <1>8, <1>9 DEF Seen
<1>17. \A kinds : Seen(kinds) => Seen(kinds)'
  BY <1>9 DEF Seen
<1>18. kind \in Marks => Seen(Marks)'
  BY <1>5, <1>8, <1>9 DEF Seen
<1>19. IntactInv'
  <2> SUFFICES ASSUME kind = "garbage", Intact, obs.pc # "verify"
               PROVE  Reads(obs.offset, obs.prefix, file'.data) /\ SaysBad(Beyond(file'.data, obs.offset))
    BY <1>2, <1>8, <1>17, <1>18 DEF IntactInv, Intact
  <2>1. Reads(obs.offset, obs.prefix, file.data)
    BY <1>2 DEF JsonlInv, IntactInv
  <2>2. Line(Bad) \in Payloads /\ SaysBad(Line(Bad))
    <3>1. Bad \in Nat
      BY DEF Bad
    <3>2. Line(Bad) \in Payloads /\ Len(Line(Bad)) = 3
          /\ Line(Bad)[2] = <<Bad, 2>> /\ Line(Bad)[2][1] = Bad
      BY <3>1, LineOf
    <3> QED
      BY <3>2 DEF SaysBad, Text
  <2>3. Beyond(file.data, obs.offset) \in Payloads
    BY <1>1, BeyondIs
  <2>4. file'.data = file.data \o Line(Bad)
    BY <1>2
  <2>5. /\ Reads(obs.offset, obs.prefix, file'.data)
        /\ Beyond(file'.data, obs.offset) = Beyond(file.data, obs.offset) \o Line(Bad)
    <3>1. /\ Reads(obs.offset, obs.prefix, file.data \o Line(Bad))
          /\ Beyond(file.data \o Line(Bad), obs.offset) = Beyond(file.data, obs.offset) \o Line(Bad)
      BY <1>1, <2>1, <2>2, ReadsStay, Zenon
    <3> QED
      BY <2>4, <3>1, Zenon
  <2> QED
    BY <2>2, <2>3, <2>5, SaysBadJoins
<1>20. SettledInv'
  <2> SUFFICES ASSUME obs.pc = "verify"
               PROVE  Settled'
    BY <1>2, <1>11 DEF SettledInv
  <2>1. Settled
    BY DEF JsonlInv, SettledInv
  <2>2. AllKnown' => AllKnown
    BY <1>9 DEF AllKnown
  <2>3. ASSUME \A i \in DOMAIN faults : faults[i].pc = "verify", NEW i \in DOMAIN faults'
        PROVE  faults'[i].pc = "verify"
    <3>1. CASE i = n + 1
      BY <1>5, <1>8, <3>1
    <3>2. CASE i \in DOMAIN faults
      BY <1>9, <2>3, <3>2
    <3> QED
      BY <1>9, <3>1, <3>2
  <2> QED
    BY <1>2, <1>17, <2>1, <2>2, <2>3 DEF Settled, Intact
<1> QED
  BY <1>12, <1>13, <1>14, <1>15, <1>19, <1>20 DEF JsonlInv

LEMMA JsonlFaultSteps ==
  ASSUME JsonlInv, Truncate \/ Rewrite \/ Replace \/ Delete \/ Garbage
  PROVE  JsonlInv'
<1>1. file \in FileType /\ file.inode \in Nat /\ file.data \in Payloads /\ inodes \in Nat
  BY TypesAre
<1>2. file.data \in Seq(Cells) /\ Len(file.data) \in Nat /\ DOMAIN file.data = 1 .. Len(file.data)
  BY <1>1, PayloadIs DEF Payloads
<1>3. ASSUME NEW data \in Payloads, NEW kind \in {"truncated", "rewritten"}, Exists,
             Fault(kind, [file EXCEPT !.data = data])
      PROVE  JsonlInv'
  <2>1. PICK newFile : newFile = [file EXCEPT !.data = data]
    OBVIOUS
  <2>2. newFile \in FileType /\ newFile.inode = file.inode /\ newFile.inode # 0
    BY <1>1, <1>3, <2>1 DEF FileType, Exists
  <2>3. kind \in Marks \cup {"garbage"} /\ kind \notin {"replaced", "deleted", "garbage"}
    BY DEF Marks
  <2> QED
    BY <1>3, <2>1, <2>2, <2>3, FaultKeeps
<1>4. CASE Truncate
  <2>1. PICK n \in 0 .. (Size - 1) : Fault("truncated", [file EXCEPT !.data = SubSeq(@, 1, n)])
    BY <1>4 DEF Truncate
  <2>2. n \in 0 .. Len(file.data)
    BY <1>2 DEF Size
  <2>3. PICK data \in Payloads : data = SubSeq(file.data, 1, n)
    BY <1>2, <2>2, PartIs DEF Payloads
  <2>4. Fault("truncated", [file EXCEPT !.data = data])
    BY <2>1, <2>3
  <2> QED
    BY <1>3, <1>4, <2>4 DEF Truncate
<1>5. CASE Rewrite
  <2>1. PICK i \in 1 .. Size, e \in {Bad, MaxEvents + 1} :
          Fault("rewritten", [file EXCEPT !.data =
            [j \in DOMAIN @ |-> IF @[j][1] = file.data[i][1] THEN <<e, @[j][2]>> ELSE @[j]]])
    BY <1>5 DEF Rewrite
  <2>2. e \in Nat
    BY BoundsAssumption DEF Bad
  <2>3. PICK data : data = [j \in DOMAIN file.data |->
          IF file.data[j][1] = file.data[i][1] THEN <<e, file.data[j][2]>> ELSE file.data[j]]
    OBVIOUS
  <2>4. data \in Payloads
    <3>1. ASSUME NEW j \in 1 .. Len(file.data)
          PROVE  data[j] \in Cells
      <4>1. file.data[j] \in Cells /\ file.data[j][2] \in 1 .. 3
        BY <1>1, PayloadIs
      <4>2. <<e, file.data[j][2]>> \in Cells
        BY <2>2, <4>1, CellIs
      <4>3. data[j] = IF file.data[j][1] = file.data[i][1] THEN <<e, file.data[j][2]>> ELSE file.data[j]
        BY <1>2, <2>3
      <4> QED
        BY <4>1, <4>2, <4>3, Zenon
    <3>2. DOMAIN data = 1 .. Len(file.data) /\ data = [j \in 1 .. Len(file.data) |-> data[j]]
      BY <1>2, <2>3
    <3>3. data \in [1 .. Len(file.data) -> Cells]
      BY <3>1, <3>2
    <3> QED
      BY <1>2, <3>3, SeqDef, Zenon DEF Payloads
  <2>5. Fault("rewritten", [file EXCEPT !.data = data])
    BY <2>1, <2>3
  <2> QED
    BY <1>3, <1>5, <2>4, <2>5 DEF Rewrite
<1>6. CASE Replace
  <2>1. PICK data \in {<<>>, file.data} : Fault("replaced", Create(data))
    BY <1>6 DEF Replace
  <2>2. data \in Payloads
    BY <1>1, EventsOfNone
  <2>3. Create(data) \in FileType /\ Create(data).inode = inodes + 1 /\ inodes + 1 # 0
    BY <1>1, <2>2 DEF Create, FileType
  <2> QED
    BY <2>1, <2>3, FaultKeeps DEF Marks
<1>7. CASE Delete
  <2>1. Absent \in FileType /\ Absent.inode = 0 /\ Absent.data = <<>>
    BY EventsOfNone DEF Absent, FileType
  <2> QED
    BY <1>7, <2>1, FaultKeeps DEF Delete, Marks
<1>8. CASE Garbage
  <2>1. Line(Bad) \in Payloads
    BY LineOf DEF Bad
  <2>2. /\ Extended(Line(Bad)) \in FileType
        /\ Extended(Line(Bad)).inode \in {file.inode, inodes + 1} /\ Extended(Line(Bad)).inode # 0
        /\ Extended(Line(Bad)).data = file.data \o Line(Bad)
    BY <2>1, ExtendedIs
  <2>3. Fault("garbage", Extended(Line(Bad)))
    BY <1>8 DEF Garbage
  <2> QED
    BY <2>2, <2>3, FaultKeeps
<1> QED
  BY <1>4, <1>5, <1>6, <1>7, <1>8

LEMMA IdleSteps ==
  ASSUME JsonlInv, Tick \/ UNCHANGED vars
  PROVE  JsonlInv'
<1>1. UNCHANGED <<spec, file, inodes, obs, writer, faults, due>> /\ now' \in Nat
  BY TypesAre DEF Tick, vars
<1>2. JsonlTypeOK' /\ FilesInv' /\ JsonlStageInv' /\ EventsInv'
  BY <1>1 DEF JsonlInv, JsonlTypeOK, FilesInv, JsonlStageInv, EventsInv
<1>3. KnownInv' /\ ReplacedInv' /\ LookInv' /\ IntactInv' /\ SettledInv'
  BY <1>1 DEF JsonlInv, KnownInv, ReplacedInv, LookInv, IntactInv, Intact, SettledInv, Settled,
              Seen, AllKnown
<1> QED
  BY <1>2, <1>3 DEF JsonlInv

LEMMA JsonlSteps == JsonlInv /\ [Next]_vars => JsonlInv'
BY BeginKeeps, MovingSteps, ReadSteps, FinalSteps, VerifySteps, OnceReadSteps, WriteSteps,
   JsonlFaultSteps, IdleSteps
DEF Next, Collect, Environment

\* The file, the observer, the writer and the faults have their types.
THEOREM JsonlAuditTypes == Spec => []JsonlTypeOK
<1>1. JsonlInv => JsonlTypeOK
  BY DEF JsonlInv
<1> QED
  BY <1>1, JsonlStarts, JsonlSteps, PTL DEF Spec

LEMMA TrueIs == JsonlInv => CollectionIsTrue
<1> SUFFICES ASSUME JsonlInv, obs.outcome = "ok"
             PROVE  /\ ~ Seen({"truncated", "rewritten"})
                         /\ (\A i \in DOMAIN faults : faults[i].known) => obs.events = due
                    /\ \A i \in DOMAIN faults :
                         faults[i].known /\ faults[i].kind \in {"replaced", "deleted"} =>
                           faults[i].pc = "verify"
                    /\ ~ Seen({"truncated", "rewritten", "replaced", "deleted"}) =>
                         \A i \in DOMAIN faults : faults[i].pc = "verify"
  BY DEF CollectionIsTrue, ReturnedIsWhole, ReplacementIsNoticed, GarbageIsNoticed
<1>1. Settled
  BY DEF JsonlInv, SettledInv
<1>2. ReplacedInv
  BY DEF JsonlInv
<1> QED
  BY <1>1, <1>2 DEF Settled, Intact, AllKnown, Marks, ReplacedInv

\* A collection that returns is complete, and a fault before the last look at
\* the file degrades the window.
THEOREM JsonlCollectionsAreTrue == Spec => []CollectionIsTrue
BY TrueIs, JsonlStarts, JsonlSteps, PTL DEF Spec

\* Of the events a collection has, a step keeps all; and a check of the file
\* that lets it return finds them there.
LEMMA KeptIs == JsonlInv /\ [Next]_vars =>
  [/\ Len(obs'.events) >= Len(obs.events)
   /\ SubSeq(obs'.events, 1, Len(obs.events)) = obs.events
   /\ obs.pc = "verify" /\ obs'.outcome = "ok" /\ obs.events # <<>> =>
        /\ file.inode = obs.source
        /\ Consumed = obs.prefix
        /\ Parsed(Consumed) = [events |-> obs.events, bad |-> FALSE]]_vars
<1> SUFFICES ASSUME JsonlInv, Next
             PROVE  /\ Len(obs'.events) >= Len(obs.events)
                    /\ SubSeq(obs'.events, 1, Len(obs.events)) = obs.events
                    /\ obs.pc = "verify" /\ obs'.outcome = "ok" /\ obs.events # <<>> =>
                         /\ file.inode = obs.source
                         /\ Consumed = obs.prefix
                         /\ Parsed(Consumed) = [events |-> obs.events, bad |-> FALSE]
  OBVIOUS
<1>1. /\ obs \in JsonlObserverType /\ obs.events \in Seq(Nat) /\ obs.prefix \in Payloads
      /\ file.data \in Payloads /\ obs.cursor \in Nat
  BY TypesAre DEF Lists
<1> DEFINE Grown == /\ Len(obs'.events) >= Len(obs.events)
                    /\ SubSeq(obs'.events, 1, Len(obs.events)) = obs.events
<1>2. ASSUME NEW more \in Seq(Nat), obs'.events = obs.events \o more
      PROVE  Grown
  <2>1. PICK n \in Nat : n = Len(obs.events)
    BY <1>1, ListIs
  <2>2. PICK list : list = obs.events \o more
    OBVIOUS
  <2>3. /\ list \in Seq(Nat) /\ Len(list) = n + Len(more) /\ Len(more) \in Nat
        /\ \A i \in 1 .. n : list[i] = obs.events[i]
    BY <1>1, <2>1, <2>2, JoinedIs, ListIs
  <2>4. n \in 0 .. Len(list)
    BY <2>3
  <2>5. /\ SubSeq(list, 1, n) \in Seq(Nat) /\ Len(SubSeq(list, 1, n)) = n
        /\ \A i \in 1 .. n : SubSeq(list, 1, n)[i] = list[i]
    BY <2>3, <2>4, PartIs
  <2>6. SubSeq(list, 1, n) = obs.events
    <3>1. PICK part : part = SubSeq(list, 1, n)
      OBVIOUS
    <3>2. part \in Seq(Nat) /\ Len(part) = Len(obs.events) /\ \A i \in 1 .. Len(part) : part[i] = obs.events[i]
      BY <2>1, <2>3, <2>5, <3>1
    <3> QED
      BY <1>1, <3>1, <3>2, SeqEqual
  <2> QED
    BY <1>2, <2>1, <2>2, <2>4, <2>6
<1>3. ASSUME obs'.events = obs.events
      PROVE  Grown
  <2>1. <<>> \in Seq(Nat) /\ obs.events = obs.events \o <<>>
    BY <1>1, EmptySeq, ConcatEmptySeq
  <2> QED
    BY <1>2, <1>3, <2>1
<1>4. ASSUME obs.events = <<>>, obs'.events \in Seq(Nat)
      PROVE  Grown
  <2>1. obs'.events = <<>> \o obs'.events
    BY <1>4, ConcatEmptySeq
  <2> QED
    BY <1>2, <1>4, <2>1
<1>5. JsonlInv'
  BY JsonlSteps
<1>6. obs'.events \in Seq(Nat)
  BY <1>5 DEF JsonlInv, JsonlTypeOK, JsonlObserverType, Lists
<1>7. Grown
  <2>1. ASSUME NEW o, o.events = obs.events, Raise(o) \/ Return(o), o \in JsonlObserverType
        PROVE  obs'.events = obs.events
    BY <2>1 DEF Raise, Return, JsonlObserverType
  <2>2. CASE ReadRecords
    <3>1. CASE Raise(obs)
      BY <1>1, <1>3, <2>1, <3>1
    <3>2. CASE \E complete \in {Complete(Rest(obs.cursor))} : \E parsed \in {Parsed(complete)} :
                 LET read == [obs EXCEPT !.events = @ \o parsed.events]
                 IN  IF parsed.bad THEN Raise(read)
                     ELSE obs' = [read EXCEPT !.pc = "decide", !.cursor = @ + Len(complete),
                                              !.prefix = @ \o complete]
      <4>1. PICK complete, parsed :
              /\ complete = Complete(Rest(obs.cursor)) /\ parsed = Parsed(complete)
              /\ IF parsed.bad THEN Raise([obs EXCEPT !.events = @ \o parsed.events])
                 ELSE obs' = [[obs EXCEPT !.events = @ \o parsed.events] EXCEPT
                                !.pc = "decide", !.cursor = @ + Len(complete), !.prefix = @ \o complete]
        BY <3>2
      <4>2. parsed.events \in Seq(Nat)
        <5>1. Rest(obs.cursor) \in Payloads
          BY <1>1, BeyondIs DEF Rest, Beyond, Size
        <5>2. complete \in Payloads
          BY <4>1, <5>1, CompleteIs
        <5> QED
          BY <4>1, <5>2, ParsedIs
      <4>3. PICK events : events = obs.events \o parsed.events
        OBVIOUS
      <4>4. PICK read : read = [obs EXCEPT !.events = events]
        OBVIOUS
      <4>5. events \in Lists
        BY <1>1, <4>2, <4>3, ConcatProperties DEF Lists
      <4>6. read \in JsonlObserverType /\ read.events = events
        BY <1>1, <4>4, <4>5 DEF JsonlObserverType
      <4>7. \/ Raise(read)
            \/ obs' = [read EXCEPT !.pc = "decide", !.cursor = @ + Len(complete), !.prefix = @ \o complete]
        BY <4>1, <4>3, <4>4
      <4>8. obs'.events = events
        <5>1. CASE Raise(read)
          BY <4>6, <5>1 DEF Raise, JsonlObserverType
        <5>2. ASSUME NEW cursor, NEW prefix,
                     obs' = [read EXCEPT !.pc = "decide", !.cursor = cursor, !.prefix = prefix]
              PROVE  obs'.events = events
          BY <4>6, <5>2 DEF JsonlObserverType
        <5> QED
          BY <4>7, <5>1, <5>2
      <4> QED
        BY <1>2, <4>2, <4>3, <4>8
    <3> QED
      BY <2>2, <3>1, <3>2 DEF ReadRecords
  <2>3. CASE Begin \/ OnceRead
    <3>1. obs.events = <<>>
      <4>1. CASE Begin
        BY <4>1 DEF Begin, JsonlInv, JsonlStageInv, NoObserver
      <4>2. CASE OnceRead
        BY <4>2 DEF OnceRead, JsonlInv, JsonlStageInv
      <4> QED
        BY <2>3, <4>1, <4>2
    <3> QED
      BY <1>4, <1>6, <3>1
  <2>4. CASE FinalStat \/ Verify \/ OnceStat
    <3>1. \/ Raise(obs) \/ Return(obs)
          \/ obs' = [obs EXCEPT !.pc = "verify"] \/ obs' = [obs EXCEPT !.pc = "readonce"]
      BY <2>4 DEF FinalStat, Verify, OnceStat
    <3>2. obs'.events = obs.events
      BY <1>1, <2>1, <3>1 DEF JsonlObserverType
    <3> QED
      BY <1>3, <3>2
  <2>5. CASE StartCollect \/ PollStat \/ Decide \/ Wake
    <3>1. obs'.events = obs.events
      <4>1. CASE StartCollect
        BY <1>1, <4>1 DEF StartCollect, JsonlObserverType
      <4>2. CASE PollStat
        BY <1>1, <2>1, <4>2 DEF PollStat, JsonlObserverType
      <4>3. CASE Decide \/ Wake
        BY <1>1, <4>3 DEF Decide, Wake, JsonlObserverType
      <4> QED
        BY <2>5, <4>1, <4>2, <4>3
    <3> QED
      BY <1>3, <3>1
  <2>6. CASE Environment \/ Tick
    <3>1. obs' = obs
      BY <2>6 DEF Environment, WriteEvent, WriteRest, Write, Truncate, Rewrite, Replace, Delete,
                  Garbage, Fault, Tick
    <3> QED
      BY <1>3, <3>1
  <2> QED
    BY <2>2, <2>3, <2>4, <2>5, <2>6 DEF Next, Collect
<1>8. ASSUME obs.pc = "verify", obs'.outcome = "ok", obs.events # <<>>
      PROVE  /\ file.inode = obs.source
             /\ Consumed = obs.prefix
             /\ Parsed(Consumed) = [events |-> obs.events, bad |-> FALSE]
  <2>1. Verify
    <3>1. obs.outcome = "none"
      BY <1>8 DEF JsonlInv, JsonlStageInv
    <3>2. CASE Environment \/ Tick
      <4>1. obs' = obs
        BY <3>2 DEF Environment, WriteEvent, WriteRest, Write, Truncate, Rewrite, Replace, Delete,
                    Garbage, Fault, Tick
      <4> QED
        BY <1>8, <3>1, <4>1
    <3>3. CASE Collect
      BY <1>8, <3>3 DEF Collect, Begin, StartCollect, PollStat, ReadRecords, Decide, Wake, FinalStat,
                        OnceStat, OnceRead
    <3> QED
      BY <3>2, <3>3 DEF Next
  <2>2. ~ Raise(obs)
    BY <1>1, <1>8 DEF Raise, JsonlObserverType
  <2>3. Clean(obs.prefix) /\ obs.events = EventsOf(obs.prefix)
    BY <1>8 DEF JsonlInv, EventsInv, Settling
  <2>4. obs.prefix # <<>>
    BY <1>8, <2>3, EventsOfNone
  <2>5. file.inode = obs.source /\ Consumed = obs.prefix
    BY <2>1, <2>2, <2>4 DEF Verify, PrefixIntact, Consumed
  <2>6. Parsed(obs.prefix) = [events |-> EventsOf(obs.prefix), bad |-> FALSE]
    BY <1>1, <2>3, ParsedIs
  <2> QED
    BY <2>3, <2>5, <2>6
<1> QED
  BY <1>7, <1>8

\* What a collection has read it keeps, in its place; and what it returns was
\* in the observed file when that was checked last.
THEOREM JsonlEvidenceIsKept == Spec => EvidenceIsKept
BY KeptIs, JsonlStarts, JsonlSteps, PTL DEF Spec, EvidenceIsKept
=============================================================================
