--------------------------- MODULE IncidentLedger ---------------------------
(***************************************************************************)
(* What the incident tables promise their readers, the AI Copilot above    *)
(* all: an event is put into at most one incident, and once it is in one   *)
(* it stays there.  A copy of an incident under another id would be        *)
(* another thing to analyse and pay for.                                   *)
(***************************************************************************)
CONSTANT Existing    \* <<event, incident>> pairs there from the start

VARIABLE members     \* <<event, incident>> pairs

InOneIncident(m) == \A a, b \in m : a[1] = b[1] => a = b

Init == members = Existing /\ InOneIncident(members)

Report == members \subseteq members' /\ InOneIncident(members')

Spec == Init /\ [][Report]_members
=============================================================================
