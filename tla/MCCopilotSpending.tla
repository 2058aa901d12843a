-------------------------- MODULE MCCopilotSpending --------------------------
EXTENDS CopilotSpending, TLC

CONSTANTS w1, w2, q1, q2, q3, i1, i2, i3, i4, i5

\* Before the day on which the clock starts, i1 was analysed and i2 skipped.
Yesterday ==
  << [incident |-> i1, request |-> TRUE, attempts |-> <<1>>, at |-> -9],
     [incident |-> i2, request |-> FALSE, attempts |-> <<>>, at |-> -9] >>

AboutOne == [q \in Question |-> i1]

Symmetry == Permutations(Worker) \cup Permutations(Question) \cup Permutations({i3, i4, i5})
==============================================================================
