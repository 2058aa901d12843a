--------------------------- MODULE MCCopilotWorker ---------------------------
EXTENDS CopilotWorker, TLC

CONSTANTS w1, w2

\* All incidents equally severe and correlated, or the later ones more severe.
SameSeverity   == [i \in Incident |-> 2]
RisingSeverity == [i \in Incident |-> IF i > 2 THEN 3 ELSE i]

NothingSkipped == [w \in Worker |-> {}]
OneSkipped     == [w \in Worker |-> {1}]

FromStartup == Startup

WorkerSymmetry == Permutations(Worker)
=============================================================================
