------------------------------ MODULE MCEngine ------------------------------
EXTENDS GuardRun, TLC

CONSTANTS alice, bob, audit, log

\* What a tool claims: allow maps kinds to "null", "empty" or "some".
Plain == [readOnly |-> TRUE, permitted |-> {alice}, tester |-> NoOne, forbidden |-> {},
          allow |-> [k \in AllowlistKinds |-> "null"]]
Writing == [Plain EXCEPT !.readOnly = FALSE]
Sending == [Writing EXCEPT !.allow["network_request"] = "some"]
Fetching == [Sending EXCEPT !.readOnly = TRUE]
Silenced == [Writing EXCEPT !.forbidden = {"network_request"}]

\* An audit observer watches completely, a directory observer in part.
Audit(kinds, correlated) == [observes |-> kinds, complete |-> kinds, correlated |-> correlated]
Partial(kinds) == [observes |-> kinds, complete |-> {}, correlated |-> FALSE]
Nothing == [t \in {} |-> {}]

Write == {"database_write"}
Net == {"network_request"}
Replayed(kind) == [kind |-> kind, min |-> 1, max |-> 1, attempts |-> 2]

Contract(tools, identities, observers, enabled, probes, replay) ==
  [tools |-> tools, identities |-> identities, observers |-> observers,
   enabled |-> enabled, probes |-> probes, replay |-> replay]

\* Read-only tools with tenant and policy probes.
ReadOnlyTenant ==
  Contract("t" :> [Plain EXCEPT !.permitted = {alice, bob}], {alice, bob},
           audit :> Audit(Write, TRUE), FALSE,
           {Check("tenant", "t", alice, {"owner", "secret"}), Check("tenant", "t", bob, {"denied"})},
           Nothing)
ReadOnlyPolicy ==
  Contract("t" :> Plain, {alice, bob}, audit :> Audit(Mutations, TRUE), FALSE,
           {Check("policy", "t", alice, {"denied", "secret"}), Check("policy", "t", bob, {"path"})},
           Nothing)

\* A tool that sends to listed destinations, under two observers of one kind.
SendUnder(first, second) ==
  Contract("t" :> Sending, {alice}, (audit :> first) @@ (log :> second), TRUE, {}, Nothing)

\* A replay whose kind is not claimed, and one whose kind is.
ReplayPlain(correlated) ==
  Contract("t" :> [Writing EXCEPT !.tester = alice], {alice}, audit :> Audit(Net, correlated),
           TRUE, {}, "t" :> Replayed("network_request"))
ReplayFetch ==
  Contract("t" :> Fetching, {alice}, audit :> Audit(Net \cup Mutations, TRUE),
           TRUE, {}, "t" :> Replayed("network_request"))

\* A session test that writes with one tool and reads with another.
SessionOf(reading, observers, enabled) ==
  Contract(("t" :> Silenced) @@ ("u" :> reading), {alice}, observers, enabled,
           {[Check("session", "t", alice, {}) EXCEPT !.read = "u", !.reader = alice]}, Nothing)

\* The temporal check is that of a contract of which no other check can be made.
Hindered ==
  Contract("t" :> [Fetching EXCEPT !.permitted = {}], {bob}, audit :> Audit(Mutations, TRUE),
           TRUE, {}, "t" :> Replayed("database_write"))

MCWatched == {Hindered}
MCFamilies == <<"tools", "prompts">>
MCOptions == [rediscover : BOOLEAN, stop : BOOLEAN]

\* Read-only tools, sessions, and contracts whose checks cannot all be made.
Varied ==
  {ReadOnlyTenant, ReadOnlyPolicy,
   SessionOf(Plain, audit :> Audit(Net, TRUE), TRUE),
   SessionOf(Plain, audit :> Audit(Net, TRUE), FALSE),
   SessionOf([Silenced EXCEPT !.forbidden = Write], audit :> Audit(Net, FALSE), TRUE),
   SessionOf(Fetching, Nothing, FALSE),
   Hindered}

\* Two observers of one kind, which may break down apart.
TwoObservers ==
  {SendUnder(Audit(Net, TRUE), other) :
     other \in {Audit(Net, TRUE), Audit(Net, FALSE), Partial(Net)}}
  \cup {SendUnder(Audit(Net, FALSE), Partial(Net)), ReplayFetch}

\* Effects of other clients and of earlier calls in the window of a check.
Windows ==
  {Contract("t" :> Sending, {alice}, audit :> Audit(Net, correlated), TRUE, {}, Nothing) :
     correlated \in BOOLEAN} \cup {ReplayPlain(TRUE), ReplayPlain(FALSE)}

MCContracts == Varied \cup TwoObservers \cup Windows
MCMaxStray == [c \in MCContracts |-> IF c \in Windows THEN 1 ELSE 0]
=============================================================================
