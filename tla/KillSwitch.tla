----------------------------- MODULE KillSwitch -----------------------------
(***************************************************************************)
(* The kill switch of the response controller                              *)
(* (response-controller/kill_switch.py): the operator's file, written by   *)
(* `cli.py kill` and cleared by hand, and the tripwire file the controller *)
(* adds.  Whoever asks whether something may run reads both.  A kill       *)
(* command reads the operator file, writes kill-switch.tmp and renames it: *)
(* commands of several operators interleave in between.                    *)
(*                                                                         *)
(* Only the level is modelled: ai_off is carried through by the same       *)
(* steps, and nothing in the repository reads it yet.                      *)
(***************************************************************************)
EXTENDS Integers

CONSTANTS Operator,  \* people with access to the state directory
          MaxKills   \* bound: kill commands in a behaviour

ASSUME KillsAreNat == MaxKills \in Nat

VARIABLES operatorFile,  \* kill-switch
          tripwireFile,  \* kill-switch.tripped
          tmpFile,       \* kill-switch.tmp, one for all kill commands
          at, level,     \* per operator: how far a command is, the level it will write
          kills          \* kill commands so far

switchVars == <<operatorFile, tripwireFile, tmpFile, at, level, kills>>

Levels == {"clear", "auto-off", "execution-off"}

\* A file can be missing, or hold something that is not a switch.
Unreadable == {"missing", "garbled"}

Rank(l) == CASE l = "clear" -> 0 [] l = "auto-off" -> 1 [] l = "execution-off" -> 2

Stricter(l, m) == IF Rank(l) > Rank(m) THEN l ELSE m

\* read_state of these two files: it fails closed, except that no tripwire file
\* means that nothing tripped.
Effective(operator, tripwire) ==
  IF operator \in Unreadable \/ tripwire = "garbled" THEN "execution-off"
  ELSE IF tripwire = "missing" THEN operator
  ELSE Stricter(tripwire, operator)

SwitchInit ==
  /\ operatorFile \in {"missing", "garbled", "clear"}
  /\ tripwireFile = "missing"
  /\ tmpFile = "missing"
  /\ at = [o \in Operator |-> "idle"]
  /\ level = [o \in Operator |-> "clear"]
  /\ kills = 0

-----------------------------------------------------------------------------
\* `cli.py kill --level l`: engage reads the current level; what it cannot read
\* counts as clear.
Kill(o, l) ==
  /\ at[o] = "idle"
  /\ kills < MaxKills
  /\ kills' = kills + 1
  /\ level' = [level EXCEPT ![o] =
       IF operatorFile \in Unreadable THEN l ELSE Stricter(operatorFile, l)]
  /\ at' = [at EXCEPT ![o] = "write"]
  /\ UNCHANGED <<operatorFile, tripwireFile, tmpFile>>

\* _write: the text of the new state, in the file next to the switch.
WriteTmp(o) ==
  /\ at[o] = "write"
  /\ tmpFile' = level[o]
  /\ at' = [at EXCEPT ![o] = "replace"]
  /\ UNCHANGED <<operatorFile, tripwireFile, level, kills>>

\* os.replace: fails if another command renamed the file first.
Replace(o) ==
  /\ at[o] = "replace"
  /\ operatorFile' = IF tmpFile = "missing" THEN operatorFile ELSE tmpFile
  /\ tmpFile' = "missing"
  /\ at' = [at EXCEPT ![o] = "idle"]
  /\ UNCHANGED <<tripwireFile, level, kills>>

\* Resuming, by hand: write "clear" into the operator file, then delete the
\* tripwire file.
Clear(o) ==
  /\ at[o] = "idle"
  /\ operatorFile' = "clear"
  /\ at' = [at EXCEPT ![o] = "untrip"]
  /\ UNCHANGED <<tripwireFile, tmpFile, level, kills>>

Untrip(o) ==
  /\ at[o] = "untrip"
  /\ tripwireFile' = "missing"
  /\ at' = [at EXCEPT ![o] = "idle"]
  /\ UNCHANGED <<operatorFile, tmpFile, level, kills>>

KillStep(o) == (\E l \in {"auto-off", "execution-off"} : Kill(o, l)) \/ WriteTmp(o) \/ Replace(o)

OperatorStep(o) == KillStep(o) \/ Clear(o) \/ Untrip(o)

\* Mutant: a failure only ends automatic execution.
TripAutoOff ==
  /\ tripwireFile' = "auto-off"
  /\ UNCHANGED <<operatorFile, tmpFile, at, level, kills>>

\* trip, always to EXECUTION_OFF: the highest level, whatever it finds.
Trip ==
  /\ tripwireFile' = "execution-off"
  /\ UNCHANGED <<operatorFile, tmpFile, at, level, kills>>

SwitchNext == (\E o \in Operator : OperatorStep(o)) \/ Trip

SwitchSpec == SwitchInit /\ [][SwitchNext]_switchVars

-----------------------------------------------------------------------------
SwitchTypeOK ==
  /\ operatorFile \in Levels \cup Unreadable
  /\ tripwireFile \in {"missing", "execution-off"}
  /\ tmpFile \in Levels \cup {"missing"}
  /\ at \in [Operator -> {"idle", "write", "replace", "untrip"}]
  /\ level \in [Operator -> Levels]
  /\ kills \in 0..MaxKills

\* "The operator's stop. Never lowers the current operator level" (engage):
\* what a kill command puts in place is at least as strict as what it replaces.
EngageNeverLowers ==
  [][\A o \in Operator : Replace(o) /\ operatorFile \in Levels
       => Rank(operatorFile') >= Rank(operatorFile)]_switchVars
=============================================================================
