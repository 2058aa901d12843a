---------------------------- MODULE MCCorrelation ----------------------------
EXTENDS Correlation, TLC

Event(id, ts, scenario, type) ==
  [id |-> id, ts |-> ts, source |-> "range", scenario |-> scenario, type |-> type,
   registry |-> "evil.example", status |-> "success"]

MCTrusted == {"docker.io", "ghcr.io"}

\* Neighbours of a burst, of which one waits for the other half of a composite,
\* and two untrusted pulls, which can clash one after the other.
MixedPayload ==
  {Event(1, 0, "malicious-dependency", "other"), Event(2, 1, "other", "other"),
   Event(3, 1, "other", "container_image_pull"), Event(4, 2, "other", "container_image_pull")}

LegacyRows == {Row(Event(5, 0, "other", "other"), 0), Row(Event(6, 0, "other", "other"), 0)}

\* Both halves of a composite and two events of the same source beside them.
TimingPayload ==
  {Event(1, 0, "malicious-dependency", "other"), Event(2, 2, "leaked-secret", "other"),
   Event(3, 1, "other", "other"), Event(4, 2, "other", "other")}

\* Both halves of a composite and one event of the same source.
WaitPayload == {p \in TimingPayload : p.id < 4}

NoLegacy == {}

Symmetry == Permutations(Pass) \cup Permutations(Request)
=============================================================================
