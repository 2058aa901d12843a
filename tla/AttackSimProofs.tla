--------------------------- MODULE AttackSimProofs ---------------------------
(***************************************************************************)
(* What the attack simulator leaves behind, for any number of commands,    *)
(* faults and edits.                                                       *)
(***************************************************************************)
EXTENDS AttackSim, FiniteSetTheorems, TLAPS

(***************************************************************************)
(* The invariant                                                           *)
(***************************************************************************)

RunSteps  == {"check", "inject", "build", "plant", "tool", "log"}
FileSteps == {"inject", "build", "restore", "rebuild"}
Ends      == {"done", "failed", "killed"}

Where == RunSteps \cup FileSteps \cup Ends \cup {"idle", "cleanup", "exit"}

Process ==
  [at : Where,
   kind : {"none", "run", "cleanup"}, original : Content \cup {NoText},
   built : BOOLEAN, workdir : BOOLEAN, outcome : Outcomes \cup {"none"}, logged : BOOLEAN,
   halfway : BOOLEAN, poisoned : BOOLEAN, raised : BOOLEAN, warned : BOOLEAN,
   found : Content \cup {NoText}]

Types ==
  /\ scenario \in FileScenario \cup ScratchScenario
  /\ scenario \in Scenario
  /\ file \in Content
  /\ image = {} \/ \E p \in Command : image = {p}
  /\ scratch \in [Command -> {"none", "empty", "planted"}]
  /\ proc \in [Command -> Process]
  /\ faults \in 0..MaxFaults /\ edits \in 0..MaxEdits

\* Where a process is, and what it has on disk there.
Place(p) ==
  /\ At(p, "idle") => proc[p].kind = "none"
  /\ proc[p].at \in RunSteps => proc[p].kind = "run"
  /\ proc[p].at \in FileSteps => scenario \in FileScenario
  /\ proc[p].at \in {"plant", "tool"} => scenario \in ScratchScenario /\ proc[p].workdir
  /\ proc[p].halfway => proc[p].at \in FileSteps
  /\ proc[p].workdir => /\ proc[p].at \in {"plant", "tool", "log", "cleanup"}
                        /\ scenario \in ScratchScenario /\ scratch[p] # "none"
  /\ scratch[p] # "none" => proc[p].workdir \/ CutOff(p)

\* The text it will write back is free of the injection, and there when needed.
KeptText(p) ==
  /\ "exact" \notin proc[p].original.injected
  /\ proc[p].at \in {"idle", "check", "plant", "tool", "rebuild", "exit"} =>
       proc[p].original = NoText
  /\ proc[p].at \in {"inject", "build", "restore"} => proc[p].original # NoText
  /\ scenario \in ScratchScenario => proc[p].original = NoText
  /\ scenario \in FileScenario /\ proc[p].at \in {"log", "cleanup"} /\ proc[p].original = NoText
       => proc[p].outcome \notin {"success", "failure"}

\* What the file is like at each point of an undisturbed command.
FileFollows(p) ==
  Alone(p) =>
    /\ Live(p)
    /\ proc[p].at \in {"check", "plant", "tool"} => file = proc[p].found
    /\ At(p, "inject") => /\ proc[p].original = proc[p].found
                          /\ ~proc[p].halfway => file = proc[p].found
    /\ At(p, "build") => /\ proc[p].original = proc[p].found
                         /\ file.injected # {}
                         /\ proc[p].halfway => proc[p].poisoned
    /\ proc[p].at \in {"log", "cleanup"} =>
         proc[p].original = proc[p].found \/ (proc[p].original = NoText /\ file = proc[p].found)
    /\ At(p, "restore") => proc[p].original = Stripped(proc[p].found)
    /\ proc[p].at \in {"rebuild", "exit"} => file = Stripped(proc[p].found)

\* When the image may be from this run's build.
ImageFollows(p) ==
  /\ proc[p].at \in {"idle", "check", "inject", "build"} => p \notin image
  /\ p \in image /\ proc[p].at \in {"log", "cleanup", "restore", "rebuild"}
       => proc[p].built \/ proc[p].outcome \notin {"success", "failure"}
  /\ At(p, "rebuild") /\ proc[p].halfway /\ Alone(p) /\ proc[p].poisoned => proc[p].found.injected # {}
  /\ At(p, "exit") /\ Alone(p) /\ p \in image
       => \/ proc[p].found.injected # {} \/ proc[p].warned
          \/ proc[p].outcome \notin {"success", "failure"}

\* What a verdict is about.
VerdictFollows(p) ==
  /\ proc[p].at \in {"check", "inject", "build", "plant", "tool"} => proc[p].outcome = "none"
  /\ At(p, "tool") => scratch[p] = "planted"
  /\ proc[p].kind = "run" =>
       /\ proc[p].at \in {"cleanup", "restore", "rebuild", "exit"} => proc[p].logged \/ proc[p].raised
       /\ scenario = Dependency /\ proc[p].at \in {"log", "cleanup", "restore"}
            /\ proc[p].outcome = "success" /\ Alone(p) => proc[p].poisoned
       /\ scenario \in ScratchScenario /\ At(p, "log") /\ proc[p].outcome # "error"
            => scratch[p] = "planted"

Own(p) == Place(p) /\ KeptText(p) /\ FileFollows(p) /\ ImageFollows(p) /\ VerdictFollows(p)

\* An injection has a run that will undo it, or was cut off.
Owned ==
  "exact" \in file.injected =>
    \E p \in Command : /\ proc[p].kind = "run" /\ proc[p].original # NoText
                       /\ Live(p) \/ CutOff(p)

\* Undisturbed means alone; scratch scenarios touch neither file nor image.
Shared ==
  /\ \A p, q \in Command : p # q /\ Alone(p) => ~Live(q)
  /\ scenario \in ScratchScenario => file.injected = {} /\ image = {}

SimInv == Types /\ (\A p \in Command : Own(p)) /\ Owned /\ Shared

(***************************************************************************)
(* A step of one process                                                   *)
(***************************************************************************)

LEMMA TextsDiffer == NoText \notin Content /\ NoText.injected = {}
BY DEF NoText, Content

LEMMA StrippedText ==
  ASSUME NEW c \in Content
  PROVE  /\ Stripped(c) \in Content /\ "exact" \notin Stripped(c).injected
         /\ Stripped(c).injected \subseteq c.injected
         /\ "exact" \notin c.injected => Stripped(c) = c
BY DEF Stripped, Content

LEMMA InjectedText ==
  ASSUME NEW c \in Content
  PROVE  Injected(c) \in Content /\ "exact" \in Injected(c).injected
BY DEF Injected, Content

LEMMA Places ==
  {"idle", "check", "inject", "build", "plant", "tool", "log", "cleanup", "restore", "rebuild",
   "exit", "done", "failed", "killed"} \subseteq Where
BY DEF Where, RunSteps, FileSteps, Ends

LEMMA IdleType == Idle \in Process
BY Places, Zenon DEF Idle, Process

\* The record of a process that is over.
LEMMA OverType ==
  ASSUME NEW p, proc[p] \in Process, NEW how \in Ends
  PROVE  Over(p, how) \in Process
<1>1. how \in Where /\ proc[p].kind \in {"none", "run", "cleanup"}
      /\ proc[p].original \in Content \cup {NoText}
  BY DEF Where, Process
<1> QED BY <1>1, IdleType, Zenon DEF Over, Process

LEMMA BoundsAreNat == MaxFaults \in Nat /\ MaxEdits \in Nat
BY SimAssumption

LEMMA FaultType == ASSUME Types, Fault PROVE faults' \in 0..MaxFaults
BY BoundsAreNat DEF Types, Fault

\* In a scratch scenario nobody is at the file or the image.
LEMMA ScratchApart ==
  ASSUME NEW p \in Command, Place(p), scenario \in ScratchScenario
  PROVE  scenario \notin FileScenario /\ proc[p].at \notin {"inject", "build", "restore", "rebuild"}
BY DEF Place, FileScenario, ScratchScenario, Dependency, Workflow, FileSteps

\* It touches nobody else's state and no other run's mark on the image.
Frame(p) ==
  /\ \A q \in Command \ {p} : /\ proc'[q] = proc[q] /\ scratch'[q] = scratch[q]
                              /\ q \in image' => q \in image
  /\ UNCHANGED scenario

LEMMA OthersKeep ==
  ASSUME SimInv, NEW p \in Command, Live(p), Frame(p), NEW q \in Command \ {p}
  PROVE  Own(q)'
<1>1. Own(q) /\ ~Alone(q) /\ proc'[q] = proc[q] /\ ~Alone(q)'
  BY DEF SimInv, Shared, Frame, Alone
<1>2. Place(q)'
  BY <1>1 DEF Own, Place, Frame, At, CutOff
<1>3. KeptText(q)'
  BY <1>1 DEF Own, KeptText, Frame
<1>4. FileFollows(q)'
  BY <1>1 DEF FileFollows
<1>5. ImageFollows(q)'
  BY <1>1 DEF Own, ImageFollows, Frame
<1>6. VerdictFollows(q)'
  BY <1>1 DEF Own, VerdictFollows, Frame, At
<1> QED BY <1>2, <1>3, <1>4, <1>5, <1>6 DEF Own

\* A live process stays alone, and stays the owner of what it injected.
LEMMA SharedKeeps ==
  ASSUME SimInv, NEW p \in Command, Live(p), Frame(p),
         Alone(p)' => Alone(p),
         scenario \in ScratchScenario => UNCHANGED <<file, image>>
  PROVE  Shared'
<1>1. \A q \in Command \ {p} : ~Alone(q)' /\ (Live(q)' => Live(q))
  BY DEF SimInv, Shared, Frame, Alone, Live
<1>2. \A q \in Command \ {p} : Alone(p) => ~Live(q)
  BY DEF SimInv, Shared
<1> QED BY <1>1, <1>2 DEF SimInv, Shared, Frame

LEMMA OwnedKeeps ==
  ASSUME SimInv, NEW p \in Command, Frame(p),
         "exact" \in file'.injected => "exact" \in file.injected,
         proc[p].kind = "run" /\ proc[p].original # NoText =>
           proc'[p].kind = "run" /\ proc'[p].original # NoText /\ (Live(p)' \/ CutOff(p)')
  PROVE  Owned'
<1> SUFFICES ASSUME "exact" \in file'.injected PROVE Owned'
  BY DEF Owned
<1>1. PICK q \in Command : proc[q].kind = "run" /\ proc[q].original # NoText /\ (Live(q) \/ CutOff(q))
  BY DEF SimInv, Owned
<1>2. CASE q = p
  BY <1>1, <1>2 DEF Owned
<1>3. CASE q # p
  BY <1>1, <1>3 DEF Owned, Frame, Live, CutOff
<1> QED BY <1>2, <1>3

\* The target is checked.
LEMMA CheckTargetStep ==
  ASSUME SimInv, NEW p \in Command, CheckTarget(p)
  PROVE  SimInv'
<1>0. Types /\ Own(p) /\ proc[p] \in Process /\ Place(p) /\ KeptText(p) /\ FileFollows(p)
        /\ ImageFollows(p) /\ VerdictFollows(p) /\ Live(p)
  BY DEF SimInv, Types, Own, CheckTarget, At, Live
<1>1. Types'
  <2>0. file \in Content
    BY <1>0 DEF Types
  <2>1. proc' \in [Command -> Process]
    <3>1. proc'[p] \in Process
      <4>1. \/ proc'[p] = [proc[p] EXCEPT !.outcome = "error", !.at = "log"]
            \/ proc'[p] = [proc[p] EXCEPT !.original = file, !.at = "inject"]
        BY <1>0 DEF CheckTarget, Types
      <4>2. [proc[p] EXCEPT !.outcome = "error", !.at = "log"] \in Process
        BY <1>0, Places, Zenon DEF Process, Outcomes
      <4>3. [proc[p] EXCEPT !.original = file, !.at = "inject"] \in Process
        BY <1>0, <2>0, Places, Zenon DEF Process
      <4> QED BY <4>1, <4>2, <4>3
    <3>2. proc' = [proc EXCEPT ![p] = proc'[p]]
      BY DEF CheckTarget
    <3> QED BY <1>0, <3>1, <3>2 DEF Types
  <2> QED BY <1>0, <2>1 DEF CheckTarget, Types
<1>2. Frame(p)
  BY DEF CheckTarget, Frame
<1>3. Place(p)'
  BY <1>0 DEF CheckTarget, Place, At, RunSteps, FileSteps, CutOff
<1>4. KeptText(p)'
  BY <1>0, TextsDiffer DEF CheckTarget, Refuses, KeptText, Types, FileScenario, ScratchScenario,
     Dependency, Workflow
<1>10. /\ proc[p].at = "check" /\ file' = file /\ proc'[p].found = proc[p].found
       /\ \/ proc'[p].at = "log" /\ proc'[p].original = proc[p].original
          \/ proc'[p].at = "inject" /\ proc'[p].original = file
  BY <1>0 DEF CheckTarget, At, Types
<1>5. FileFollows(p)'
  BY <1>0, <1>10 DEF FileFollows, KeptText, At, Alone, Live
<1>6. ImageFollows(p)'
  BY <1>0 DEF CheckTarget, ImageFollows, At
<1>7. VerdictFollows(p)'
  BY <1>0 DEF CheckTarget, VerdictFollows, At
<1>8. Shared'
  <2>1. Alone(p)' => Alone(p)
    BY DEF CheckTarget, Alone
  <2>2. scenario \in ScratchScenario => UNCHANGED <<file, image>>
    BY ScratchApart DEF CheckTarget
  <2> QED BY <1>0, <1>2, <2>1, <2>2, SharedKeeps
<1>9. Owned'
  <2>1. "exact" \in file'.injected => "exact" \in file.injected
    BY DEF CheckTarget
  <2>2. proc[p].kind = "run" /\ proc[p].original # NoText =>
          proc'[p].kind = "run" /\ proc'[p].original # NoText /\ (Live(p)' \/ CutOff(p)')
    BY <1>0 DEF CheckTarget, KeptText, At
  <2> QED BY <1>2, <2>1, <2>2, OwnedKeeps
<1> QED
  BY <1>0, <1>1, <1>2, <1>3, <1>4, <1>5, <1>6, <1>7, <1>8, <1>9, OthersKeep DEF SimInv, Own

\* The file is emptied.
LEMMA TruncateStep ==
  ASSUME SimInv, NEW p \in Command, Truncate(p)
  PROVE  SimInv'
<1>0. Types /\ Own(p) /\ proc[p] \in Process /\ Place(p) /\ KeptText(p) /\ FileFollows(p)
        /\ ImageFollows(p) /\ VerdictFollows(p) /\ Live(p)
  BY DEF SimInv, Types, Own, Truncate, Empty, Live
<1>1. Types'
  <2>1. proc' \in [Command -> Process]
    <3>1. proc'[p] \in Process
      <4>1. proc'[p] = [proc[p] EXCEPT !.halfway = TRUE]
        BY <1>0 DEF Truncate, Empty, Types
      <4>2. [proc[p] EXCEPT !.halfway = TRUE] \in Process
        BY <1>0, Places, Zenon DEF Process
      <4> QED BY <4>1, <4>2
    <3>2. proc' = [proc EXCEPT ![p] = proc'[p]]
      BY DEF Truncate, Empty
    <3> QED BY <1>0, <3>1, <3>2 DEF Types
  <2>2. file' \in Content
    BY BoundsAreNat DEF Truncate, Empty, Content
  <2> QED BY <1>0, <2>1, <2>2 DEF Truncate, Empty, Types
<1>2. Frame(p)
  BY DEF Truncate, Empty, Frame
<1>3. Place(p)'
  BY <1>0 DEF Truncate, Empty, Place, At, FileSteps, CutOff
<1>4. KeptText(p)'
  BY <1>0 DEF Truncate, Empty, KeptText
<1>5. FileFollows(p)'
  BY <1>0 DEF Truncate, Empty, FileFollows, At, Types, Alone, Live
<1>6. ImageFollows(p)'
  BY <1>0 DEF Truncate, Empty, ImageFollows, At
<1>7. VerdictFollows(p)'
  BY <1>0 DEF Truncate, Empty, VerdictFollows, At, Alone
<1>8. Shared'
  <2>1. Alone(p)' => Alone(p)
    BY DEF Truncate, Empty, Alone
  <2>2. scenario \in ScratchScenario => UNCHANGED <<file, image>>
    BY <1>0, ScratchApart DEF Truncate, Empty
  <2> QED BY <1>0, <1>2, <2>1, <2>2, SharedKeeps
<1>9. Owned'
  <2>1. "exact" \in file'.injected => "exact" \in file.injected
    BY DEF Truncate, Empty
  <2>2. proc[p].kind = "run" /\ proc[p].original # NoText =>
          proc'[p].kind = "run" /\ proc'[p].original # NoText /\ (Live(p)' \/ CutOff(p)')
    BY DEF Truncate, Empty, Live
  <2> QED BY <1>2, <2>1, <2>2, OwnedKeeps
<1> QED
  BY <1>0, <1>1, <1>2, <1>3, <1>4, <1>5, <1>6, <1>7, <1>8, <1>9, OthersKeep DEF SimInv, Own

\* The injected text is written, and has an owner.
LEMMA WriteInjectedStep ==
  ASSUME SimInv, NEW p \in Command, WriteInjected(p)
  PROVE  SimInv'
<1>0. Types /\ Own(p) /\ proc[p] \in Process /\ Place(p) /\ KeptText(p) /\ FileFollows(p)
        /\ ImageFollows(p) /\ VerdictFollows(p) /\ Live(p)
  BY DEF SimInv, Types, Own, WriteInjected, At, Live
<1>1. Types'
  <2>1. proc' \in [Command -> Process]
    <3>1. proc'[p] \in Process
      <4>1. \/ proc'[p] = [proc[p] EXCEPT !.halfway = FALSE, !.at = "build"]
            \/ proc'[p] = [proc[p] EXCEPT !.halfway = FALSE, !.at = "log", !.outcome = "success"]
        BY <1>0 DEF WriteInjected, Types
      <4>2. [proc[p] EXCEPT !.halfway = FALSE, !.at = "build"] \in Process
        BY <1>0, Places, Zenon DEF Process
      <4>3. [proc[p] EXCEPT !.halfway = FALSE, !.at = "log", !.outcome = "success"] \in Process
        BY <1>0, Places, Zenon DEF Process, Outcomes
      <4> QED BY <4>1, <4>2, <4>3
    <3>2. proc' = [proc EXCEPT ![p] = proc'[p]]
      BY DEF WriteInjected
    <3> QED BY <1>0, <3>1, <3>2 DEF Types
  <2>2. file' \in Content
    <3>1. proc[p].original \in Content
      BY <1>0 DEF WriteInjected, KeptText, At, Process
    <3> QED BY <3>1, InjectedText DEF WriteInjected
  <2> QED BY <1>0, <2>1, <2>2 DEF WriteInjected, Types
<1>2. Frame(p)
  BY DEF WriteInjected, Frame
<1>3. Place(p)'
  BY <1>0 DEF WriteInjected, Place, At, RunSteps, CutOff
<1>4. KeptText(p)'
  BY <1>0 DEF WriteInjected, KeptText, At
<1>10. /\ proc[p].at = "inject" /\ file' = Injected(proc[p].original) /\ UNCHANGED <<scenario, scratch>>
       /\ proc'[p].found = proc[p].found /\ proc'[p].original = proc[p].original
       /\ proc'[p].kind = proc[p].kind
       /\ \/ proc'[p].at = "build" /\ proc'[p].halfway = FALSE /\ proc'[p].outcome = proc[p].outcome
          \/ scenario # Dependency /\ proc'[p].at = "log"
  BY <1>0 DEF WriteInjected, At, Types
<1>5. FileFollows(p)'
  <2>1. Injected(proc[p].original).injected # {}
    <3>1. proc[p].original \in Content
      BY <1>0, <1>10 DEF KeptText, Process
    <3> QED BY <3>1, InjectedText
  <2> QED BY <1>0, <1>10, <2>1 DEF FileFollows, At, Alone, Live
<1>6. ImageFollows(p)'
  BY <1>0 DEF WriteInjected, ImageFollows, At
<1>7. VerdictFollows(p)'
  BY <1>0, <1>10 DEF VerdictFollows, Place, At, FileScenario, ScratchScenario, Workflow, FileSteps
<1>8. Shared'
  <2>1. Alone(p)' => Alone(p)
    BY DEF WriteInjected, Alone
  <2>2. scenario \in ScratchScenario => UNCHANGED <<file, image>>
    BY <1>0, ScratchApart DEF WriteInjected, At
  <2> QED BY <1>0, <1>2, <2>1, <2>2, SharedKeeps
<1>9. Owned'
  <2>1. proc[p].kind = "run" /\ proc[p].original # NoText
    BY <1>0 DEF WriteInjected, Place, KeptText, At, RunSteps
  <2>2. proc'[p].kind = "run" /\ proc'[p].original # NoText /\ Live(p)'
    BY <1>0, <2>1 DEF WriteInjected, Live
  <2> QED BY <2>2 DEF Owned
<1> QED
  BY <1>0, <1>1, <1>2, <1>3, <1>4, <1>5, <1>6, <1>7, <1>8, <1>9, OthersKeep DEF SimInv, Own

\* A build starts.
LEMMA StartBuildStep ==
  ASSUME SimInv, NEW p \in Command, StartBuild(p)
  PROVE  SimInv'
<1>0. Types /\ Own(p) /\ proc[p] \in Process /\ Place(p) /\ KeptText(p) /\ FileFollows(p)
        /\ ImageFollows(p) /\ VerdictFollows(p) /\ Live(p)
  BY DEF SimInv, Types, Own, StartBuild, Live
<1>1. Types'
  <2>1. proc' \in [Command -> Process]
    <3>1. proc'[p] \in Process
      <4>1. \/ proc'[p] = [proc[p] EXCEPT !.halfway = TRUE, !.poisoned = TRUE]
            \/ proc'[p] = [proc[p] EXCEPT !.halfway = TRUE, !.poisoned = FALSE]
        BY <1>0 DEF StartBuild, Types
      <4>2. [proc[p] EXCEPT !.halfway = TRUE, !.poisoned = TRUE] \in Process
        BY <1>0, Places, Zenon DEF Process
      <4>3. [proc[p] EXCEPT !.halfway = TRUE, !.poisoned = FALSE] \in Process
        BY <1>0, Places, Zenon DEF Process
      <4> QED BY <4>1, <4>2, <4>3
    <3>2. proc' = [proc EXCEPT ![p] = proc'[p]]
      BY DEF StartBuild
    <3> QED BY <1>0, <3>1, <3>2 DEF Types
  <2> QED BY <1>0, <2>1 DEF StartBuild, Types
<1>2. Frame(p)
  BY DEF StartBuild, Frame
<1>3. Place(p)'
  BY <1>0 DEF StartBuild, Place, At, FileSteps, CutOff
<1>4. KeptText(p)'
  BY <1>0 DEF StartBuild, KeptText
<1>5. FileFollows(p)'
  <2>1. /\ proc'[p].at = proc[p].at /\ proc'[p].found = proc[p].found
        /\ proc'[p].original = proc[p].original /\ proc'[p].poisoned = (file.injected # {})
        /\ proc[p].at \in {"build", "rebuild"} /\ file' = file
    BY <1>0 DEF StartBuild, Types
  <2> QED BY <1>0, <2>1 DEF FileFollows, At, Alone, Live
<1>6. ImageFollows(p)'
  <2>1. /\ proc'[p].at = proc[p].at /\ proc'[p].found = proc[p].found /\ proc'[p].built = proc[p].built
        /\ proc'[p].outcome = proc[p].outcome /\ UNCHANGED <<scenario, image>>
        /\ proc[p].at \in {"build", "rebuild"} /\ (proc'[p].poisoned => file.injected # {})
    BY <1>0 DEF StartBuild, Types, Process
  <2>2. At(p, "rebuild") /\ Alone(p) => file = Stripped(proc[p].found) /\ proc[p].found \in Content
    BY <1>0 DEF FileFollows, Alone, At, Process
  <2>3. At(p, "rebuild") /\ Alone(p) /\ file.injected # {} => proc[p].found.injected # {}
    BY <2>2, StrippedText
  <2> QED BY <1>0, <2>1, <2>3 DEF ImageFollows, At, Alone
<1>7. VerdictFollows(p)'
  BY <1>0 DEF StartBuild, VerdictFollows, At
<1>8. Shared'
  <2>1. Alone(p)' => Alone(p)
    BY DEF StartBuild, Alone
  <2>2. scenario \in ScratchScenario => UNCHANGED <<file, image>>
    BY ScratchApart DEF StartBuild
  <2> QED BY <1>0, <1>2, <2>1, <2>2, SharedKeeps
<1>9. Owned'
  <2>1. "exact" \in file'.injected => "exact" \in file.injected
    BY DEF StartBuild
  <2>2. proc[p].kind = "run" /\ proc[p].original # NoText =>
          proc'[p].kind = "run" /\ proc'[p].original # NoText /\ (Live(p)' \/ CutOff(p)')
    BY DEF StartBuild, Live
  <2> QED BY <1>2, <2>1, <2>2, OwnedKeeps
<1> QED
  BY <1>0, <1>1, <1>2, <1>3, <1>4, <1>5, <1>6, <1>7, <1>8, <1>9, OthersKeep DEF SimInv, Own

\* Where the end of a build leaves its process.
LEMMA BuildReturnsTo ==
  ASSUME Types, NEW p \in Command, proc[p].at \in {"build", "rebuild"},
         NEW accepted \in BOOLEAN, NEW outcome \in Outcomes, BuildReturns(p, accepted, outcome)
  PROVE  /\ proc' \in [Command -> Process] /\ \A q \in Command \ {p} : proc'[q] = proc[q]
         /\ proc'[p].kind = proc[p].kind /\ proc'[p].original = proc[p].original
         /\ proc'[p].workdir = proc[p].workdir /\ proc'[p].logged = proc[p].logged
         /\ proc'[p].poisoned = proc[p].poisoned /\ proc'[p].raised = proc[p].raised
         /\ proc'[p].found = proc[p].found /\ proc'[p].halfway = FALSE
         /\ At(p, "build") => /\ proc'[p].at = "log" /\ proc'[p].outcome = outcome
                              /\ proc'[p].built = accepted /\ proc'[p].warned = proc[p].warned
         /\ At(p, "rebuild") => /\ proc'[p].at = "exit" /\ proc'[p].outcome = proc[p].outcome
                                /\ proc'[p].built = FALSE /\ proc'[p].warned = ~accepted
<1> DEFINE ran     == [proc[p] EXCEPT !.at = "log", !.outcome = outcome, !.built = accepted,
                                      !.halfway = FALSE]
           rebuilt == [proc[p] EXCEPT !.at = "exit", !.warned = ~accepted, !.built = FALSE,
                                      !.halfway = FALSE]
<1>0. proc \in [Command -> Process] /\ proc[p] \in Process /\ (~accepted) \in BOOLEAN
  BY DEF Types
<1>1. ran \in Process /\ rebuilt \in Process
  <2>1. ran \in Process
    BY <1>0, Places, Zenon DEF Process
  <2>2. rebuilt \in Process
    BY <1>0, Places, Zenon DEF Process
  <2> QED BY <2>1, <2>2
<1>2. CASE At(p, "build")
  <2>1. proc' = [proc EXCEPT ![p] = ran]
    BY <1>2 DEF BuildReturns
  <2>2. proc' \in [Command -> Process] /\ proc'[p] = ran /\ \A q \in Command \ {p} : proc'[q] = proc[q]
    <3> HIDE DEF ran
    <3> QED BY <1>0, <1>1, <2>1
  <2> QED BY <1>2, <2>2 DEF At
<1>3. CASE At(p, "rebuild")
  <2>1. proc' = [proc EXCEPT ![p] = rebuilt]
    BY <1>3 DEF BuildReturns, At
  <2>2. proc' \in [Command -> Process] /\ proc'[p] = rebuilt /\ \A q \in Command \ {p} : proc'[q] = proc[q]
    <3> HIDE DEF rebuilt
    <3> QED BY <1>0, <1>1, <2>1
  <2> QED BY <1>3, <2>2 DEF At
<1> QED BY <1>2, <1>3 DEF At

\* A build ends.
LEMMA BuildEndsStep ==
  ASSUME SimInv, NEW p \in Command, BuildEnds(p)
  PROVE  SimInv'
<1>0. Types /\ Own(p) /\ proc[p] \in Process /\ Place(p) /\ KeptText(p) /\ FileFollows(p)
        /\ ImageFollows(p) /\ VerdictFollows(p) /\ Live(p)
  BY DEF SimInv, Types, Own, BuildEnds, Live
<1>t. PICK accepted \in BOOLEAN, outcome \in Outcomes :
        BuildReturns(p, accepted, outcome) /\ (
        \/ proc[p].halfway /\ accepted /\ outcome = "success" /\ image' = BuiltBy(p)
        \/ ~accepted /\ outcome = "failure" /\ image' = image
        \/ ~accepted /\ outcome = "error" /\ image' \in {image, BuiltBy(p)})
  BY DEF BuildEnds, Outcomes
<1>r. /\ proc' \in [Command -> Process] /\ \A q \in Command \ {p} : proc'[q] = proc[q]
      /\ proc'[p].kind = proc[p].kind /\ proc'[p].original = proc[p].original
      /\ proc'[p].workdir = proc[p].workdir /\ proc'[p].logged = proc[p].logged
      /\ proc'[p].poisoned = proc[p].poisoned /\ proc'[p].raised = proc[p].raised
      /\ proc'[p].found = proc[p].found /\ proc'[p].halfway = FALSE
      /\ proc[p].at = "build" => /\ proc'[p].at = "log" /\ proc'[p].outcome = outcome
                                 /\ proc'[p].built = accepted /\ proc'[p].warned = proc[p].warned
      /\ proc[p].at = "rebuild" => /\ proc'[p].at = "exit" /\ proc'[p].outcome = proc[p].outcome
                                   /\ proc'[p].built = FALSE /\ proc'[p].warned = ~accepted
      /\ proc[p].at \in {"build", "rebuild"} /\ UNCHANGED <<scenario, file, scratch, faults, edits>>
  BY <1>0, <1>t, BuildReturnsTo DEF BuildEnds, At
<1>1. Types'
  <2>1. image' = {} \/ \E q \in Command : image' = {q}
    BY <1>0, <1>t, <1>r DEF BuiltBy, Types
  <2> QED BY <1>0, <1>r, <2>1 DEF Types
<1>2. Frame(p)
  BY <1>t, <1>r DEF BuiltBy, Frame
<1>3. Place(p)'
  BY <1>0, <1>r DEF Place, At, RunSteps, FileSteps, CutOff
<1>4. KeptText(p)'
  BY <1>0, <1>r DEF KeptText
<1>5. FileFollows(p)'
  BY <1>0, <1>r DEF FileFollows, At, Alone, Live
<1>6. ImageFollows(p)'
  BY <1>0, <1>t, <1>r DEF ImageFollows, FileFollows, BuiltBy, At, Alone
<1>7. VerdictFollows(p)'
  <2>1. proc[p].at = "build" /\ outcome = "success" /\ Alone(p) => proc[p].poisoned
    BY <1>0, <1>t DEF FileFollows, At
  <2> QED BY <1>0, <1>r, <2>1 DEF VerdictFollows, Place, FileSteps, At, Alone, FileScenario,
     ScratchScenario, Dependency, Workflow
<1>8. Shared'
  <2>1. Alone(p)' => Alone(p)
    BY <1>r DEF Alone
  <2>2. scenario \in ScratchScenario => UNCHANGED <<file, image>>
    BY <1>0, <1>r, ScratchApart
  <2> QED BY <1>0, <1>2, <2>1, <2>2, SharedKeeps
<1>9. Owned'
  <2>1. "exact" \in file'.injected => "exact" \in file.injected
    BY <1>r
  <2>2. proc[p].kind = "run" /\ proc[p].original # NoText =>
          proc'[p].kind = "run" /\ proc'[p].original # NoText /\ (Live(p)' \/ CutOff(p)')
    BY <1>r DEF Live
  <2> QED BY <1>2, <2>1, <2>2, OwnedKeeps
<1> QED
  BY <1>0, <1>1, <1>2, <1>3, <1>4, <1>5, <1>6, <1>7, <1>8, <1>9, OthersKeep DEF SimInv, Own

\* There is no docker.
LEMMA NoDockerStep ==
  ASSUME SimInv, NEW p \in Command, NoDocker(p)
  PROVE  SimInv'
<1>0. Types /\ Own(p) /\ proc[p] \in Process /\ Place(p) /\ KeptText(p) /\ FileFollows(p)
        /\ ImageFollows(p) /\ VerdictFollows(p) /\ Live(p)
  BY DEF SimInv, Types, Own, NoDocker, Live
<1>t. PICK accepted \in BOOLEAN, outcome \in Outcomes :
        BuildReturns(p, accepted, outcome) /\ image' = image /\ ~accepted /\ outcome = "error"
  BY DEF NoDocker, Outcomes
<1>r. /\ proc' \in [Command -> Process] /\ \A q \in Command \ {p} : proc'[q] = proc[q]
      /\ proc'[p].kind = proc[p].kind /\ proc'[p].original = proc[p].original
      /\ proc'[p].workdir = proc[p].workdir /\ proc'[p].logged = proc[p].logged
      /\ proc'[p].poisoned = proc[p].poisoned /\ proc'[p].raised = proc[p].raised
      /\ proc'[p].found = proc[p].found /\ proc'[p].halfway = FALSE
      /\ proc[p].at = "build" => /\ proc'[p].at = "log" /\ proc'[p].outcome = outcome
                                 /\ proc'[p].built = accepted /\ proc'[p].warned = proc[p].warned
      /\ proc[p].at = "rebuild" => /\ proc'[p].at = "exit" /\ proc'[p].outcome = proc[p].outcome
                                   /\ proc'[p].built = FALSE /\ proc'[p].warned = ~accepted
      /\ proc[p].at \in {"build", "rebuild"} /\ UNCHANGED <<scenario, file, scratch, faults, edits, image>>
  BY <1>0, <1>t, BuildReturnsTo DEF NoDocker, At
<1>1. Types'
  <2>1. image' = {} \/ \E q \in Command : image' = {q}
    BY <1>0, <1>t, <1>r DEF Types
  <2> QED BY <1>0, <1>r, <2>1 DEF Types
<1>2. Frame(p)
  BY <1>t, <1>r DEF Frame
<1>3. Place(p)'
  BY <1>0, <1>r DEF Place, At, RunSteps, FileSteps, CutOff
<1>4. KeptText(p)'
  BY <1>0, <1>r DEF KeptText
<1>5. FileFollows(p)'
  BY <1>0, <1>r DEF FileFollows, At, Alone, Live
<1>6. ImageFollows(p)'
  BY <1>t, <1>r DEF ImageFollows, FileFollows
<1>7. VerdictFollows(p)'
  BY <1>0, <1>t, <1>r DEF VerdictFollows, FileFollows, At
<1>8. Shared'
  <2>1. Alone(p)' => Alone(p)
    BY <1>r DEF Alone
  <2>2. scenario \in ScratchScenario => UNCHANGED <<file, image>>
    BY <1>r, ScratchApart
  <2> QED BY <1>0, <1>2, <2>1, <2>2, SharedKeeps
<1>9. Owned'
  <2>1. "exact" \in file'.injected => "exact" \in file.injected
    BY <1>r
  <2>2. proc[p].kind = "run" /\ proc[p].original # NoText =>
          proc'[p].kind = "run" /\ proc'[p].original # NoText /\ (Live(p)' \/ CutOff(p)')
    BY <1>r DEF Live
  <2> QED BY <1>2, <2>1, <2>2, OwnedKeeps
<1> QED
  BY <1>0, <1>1, <1>2, <1>3, <1>4, <1>5, <1>6, <1>7, <1>8, <1>9, OthersKeep DEF SimInv, Own

\* A scratch directory is made.
LEMMA MakeWorkdirStep ==
  ASSUME SimInv, NEW p \in Command, MakeWorkdir(p)
  PROVE  SimInv'
<1>0. Types /\ Own(p) /\ proc[p] \in Process /\ Place(p) /\ KeptText(p) /\ FileFollows(p)
        /\ ImageFollows(p) /\ VerdictFollows(p) /\ Live(p)
  BY DEF SimInv, Types, Own, MakeWorkdir, At, Live
<1>1. Types'
  <2>1. proc' \in [Command -> Process]
    <3>1. proc'[p] \in Process
      <4>1. proc'[p] = [proc[p] EXCEPT !.workdir = TRUE, !.at = "plant"]
        BY <1>0 DEF MakeWorkdir, Types
      <4>2. [proc[p] EXCEPT !.workdir = TRUE, !.at = "plant"] \in Process
        BY <1>0, Places, Zenon DEF Process
      <4> QED BY <4>1, <4>2
    <3>2. proc' = [proc EXCEPT ![p] = proc'[p]]
      BY DEF MakeWorkdir
    <3> QED BY <1>0, <3>1, <3>2 DEF Types
  <2>2. scratch' \in [Command -> {"none", "empty", "planted"}]
    BY <1>0 DEF MakeWorkdir, Types
  <2> QED BY <1>0, <2>1, <2>2 DEF MakeWorkdir, Types
<1>2. Frame(p)
  BY DEF MakeWorkdir, Frame
<1>3. Place(p)'
  BY <1>0 DEF MakeWorkdir, Place, At, Types, RunSteps, FileSteps
<1>4. KeptText(p)'
  BY <1>0 DEF MakeWorkdir, KeptText
<1>5. FileFollows(p)'
  BY <1>0 DEF MakeWorkdir, FileFollows, At, Alone, Live
<1>6. ImageFollows(p)'
  BY <1>0 DEF MakeWorkdir, ImageFollows, At
<1>7. VerdictFollows(p)'
  BY <1>0 DEF MakeWorkdir, VerdictFollows, At
<1>8. Shared'
  <2>1. Alone(p)' => Alone(p)
    BY DEF MakeWorkdir, Alone
  <2>2. scenario \in ScratchScenario => UNCHANGED <<file, image>>
    BY ScratchApart DEF MakeWorkdir
  <2> QED BY <1>0, <1>2, <2>1, <2>2, SharedKeeps
<1>9. Owned'
  <2>1. "exact" \in file'.injected => "exact" \in file.injected
    BY DEF MakeWorkdir
  <2>2. proc[p].kind = "run" /\ proc[p].original # NoText =>
          proc'[p].kind = "run" /\ proc'[p].original # NoText /\ (Live(p)' \/ CutOff(p)')
    BY <1>0 DEF MakeWorkdir, KeptText
  <2> QED BY <1>2, <2>1, <2>2, OwnedKeeps
<1> QED
  BY <1>0, <1>1, <1>2, <1>3, <1>4, <1>5, <1>6, <1>7, <1>8, <1>9, OthersKeep DEF SimInv, Own

\* The target is planted.
LEMMA PlantStep ==
  ASSUME SimInv, NEW p \in Command, Plant(p)
  PROVE  SimInv'
<1>0. Types /\ Own(p) /\ proc[p] \in Process /\ Place(p) /\ KeptText(p) /\ FileFollows(p)
        /\ ImageFollows(p) /\ VerdictFollows(p) /\ Live(p)
  BY DEF SimInv, Types, Own, Plant, At, Live
<1> DEFINE planted == [proc[p] EXCEPT !.at = "tool"]
           failed  == [proc[p] EXCEPT !.at = "log", !.outcome = "error"]
<1>t. /\ \/ proc' = [proc EXCEPT ![p] = planted] /\ scratch' = [scratch EXCEPT ![p] = "planted"]
         \/ proc' = [proc EXCEPT ![p] = failed] /\ scratch' = scratch
      /\ UNCHANGED <<scenario, file, image, faults, edits>>
  BY DEF Plant
<1>r. /\ proc' \in [Command -> Process] /\ \A q \in Command \ {p} : proc'[q] = proc[q]
      /\ \/ proc'[p] = planted /\ scratch' = [scratch EXCEPT ![p] = "planted"]
         \/ proc'[p] = failed /\ scratch' = scratch
  <2>1. planted \in Process
    BY <1>0, Places, Zenon DEF Process
  <2>2. failed \in Process
    BY <1>0, Places, Zenon DEF Process, Outcomes
  <2> HIDE DEF planted, failed
  <2> QED BY <1>0, <1>t, <2>1, <2>2 DEF Types
<1>10. /\ proc[p].at = "plant" /\ scenario \in ScratchScenario /\ proc'[p].at \in {"tool", "log"}
       /\ proc'[p].kind = proc[p].kind /\ proc'[p].original = proc[p].original
       /\ proc'[p].found = proc[p].found /\ proc'[p].workdir = proc[p].workdir
       /\ proc'[p].halfway = proc[p].halfway /\ UNCHANGED <<scenario, file, image>>
       /\ proc'[p].at = "tool" => scratch'[p] = "planted" /\ proc'[p].outcome = proc[p].outcome
       /\ proc'[p].at = "log" => scratch'[p] = scratch[p] /\ proc'[p].outcome = "error"
  <2>1. /\ proc[p].at = "plant" /\ scenario \in ScratchScenario
        /\ scratch \in [Command -> {"none", "empty", "planted"}] /\ proc[p] \in Process
    BY <1>0 DEF Plant, Place, At, Types
  <2>2. UNCHANGED <<scenario, file, image>>
    BY <1>t
  <2>3. CASE proc'[p] = planted /\ scratch' = [scratch EXCEPT ![p] = "planted"]
    BY <2>1, <2>2, <2>3 DEF Process
  <2>4. CASE proc'[p] = failed /\ scratch' = scratch
    BY <2>1, <2>2, <2>4 DEF Process
  <2> QED BY <1>r, <2>3, <2>4
<1> HIDE DEF planted, failed
<1>1. Types'
  <2>1. scratch' \in [Command -> {"none", "empty", "planted"}]
    BY <1>0, <1>t DEF Types
  <2> QED BY <1>0, <1>t, <1>r, <2>1 DEF Types
<1>2. Frame(p)
  BY <1>0, <1>t, <1>r DEF Types, Frame
<1>3. Place(p)'
  BY <1>0, <1>10 DEF Place, At, RunSteps, FileSteps
<1>4. KeptText(p)'
  BY <1>0, <1>10 DEF KeptText
<1>5. FileFollows(p)'
  BY <1>0, <1>10 DEF FileFollows, KeptText, At, Alone, Live
<1>6. ImageFollows(p)'
  BY <1>10 DEF ImageFollows, At
<1>7. VerdictFollows(p)'
  BY <1>0, <1>10 DEF VerdictFollows, At
<1>8. Shared'
  <2>1. Alone(p)' => Alone(p)
    BY <1>10 DEF Alone
  <2>2. scenario \in ScratchScenario => UNCHANGED <<file, image>>
    BY ScratchApart DEF Plant
  <2> QED BY <1>0, <1>2, <2>1, <2>2, SharedKeeps
<1>9. Owned'
  <2>1. "exact" \in file'.injected => "exact" \in file.injected
    BY DEF Plant
  <2>2. proc[p].kind = "run" /\ proc[p].original # NoText =>
          proc'[p].kind = "run" /\ proc'[p].original # NoText /\ (Live(p)' \/ CutOff(p)')
    BY <1>0 DEF Plant, KeptText, At
  <2> QED BY <1>2, <2>1, <2>2, OwnedKeeps
<1> QED
  BY <1>0, <1>1, <1>2, <1>3, <1>4, <1>5, <1>6, <1>7, <1>8, <1>9, OthersKeep DEF SimInv, Own

\* A tool gives its verdict.
LEMMA UseToolStep ==
  ASSUME SimInv, NEW p \in Command, UseTool(p)
  PROVE  SimInv'
<1>0. Types /\ Own(p) /\ proc[p] \in Process /\ Place(p) /\ KeptText(p) /\ FileFollows(p)
        /\ ImageFollows(p) /\ VerdictFollows(p) /\ Live(p)
  BY DEF SimInv, Types, Own, UseTool, At, Live
<1>1. Types'
  <2>1. proc' \in [Command -> Process]
    <3>1. proc'[p] \in Process
      <4>1. PICK outcome \in Outcomes : proc'[p] = [proc[p] EXCEPT !.at = "log", !.outcome = outcome]
        BY <1>0 DEF UseTool, Types
      <4>2. [proc[p] EXCEPT !.at = "log", !.outcome = outcome] \in Process
        BY <1>0, Places, Zenon DEF Process
      <4> QED BY <4>1, <4>2
    <3>2. proc' = [proc EXCEPT ![p] = proc'[p]]
      BY DEF UseTool
    <3> QED BY <1>0, <3>1, <3>2 DEF Types
  <2> QED BY <1>0, <2>1 DEF UseTool, Types
<1>2. Frame(p)
  BY DEF UseTool, Frame
<1>10. /\ proc[p].at = "tool" /\ scenario \in ScratchScenario /\ proc'[p].at = "log"
       /\ proc'[p].kind = proc[p].kind /\ proc'[p].original = proc[p].original
       /\ proc'[p].found = proc[p].found /\ proc'[p].workdir = proc[p].workdir
       /\ proc'[p].halfway = proc[p].halfway /\ UNCHANGED <<scenario, file, scratch>>
       /\ image' = {}
  BY <1>0 DEF UseTool, Place, At, Types, SimInv, Shared
<1>3. Place(p)'
  BY <1>0, <1>10 DEF Place, At, RunSteps, FileSteps
<1>4. KeptText(p)'
  BY <1>0, <1>10 DEF KeptText, FileScenario, ScratchScenario, Dependency, Workflow
<1>5. FileFollows(p)'
  BY <1>0, <1>10 DEF FileFollows, KeptText, At, Alone, Live
<1>6. ImageFollows(p)'
  BY <1>10 DEF ImageFollows, At
<1>7. VerdictFollows(p)'
  BY <1>0, <1>10 DEF VerdictFollows, At, ScratchScenario, Dependency
<1>8. Shared'
  <2>1. Alone(p)' => Alone(p)
    BY DEF UseTool, Alone
  <2>2. scenario \in ScratchScenario => UNCHANGED <<file, image>>
    BY ScratchApart DEF UseTool
  <2> QED BY <1>0, <1>2, <2>1, <2>2, SharedKeeps
<1>9. Owned'
  <2>1. "exact" \in file'.injected => "exact" \in file.injected
    BY DEF UseTool
  <2>2. proc[p].kind = "run" /\ proc[p].original # NoText =>
          proc'[p].kind = "run" /\ proc'[p].original # NoText /\ (Live(p)' \/ CutOff(p)')
    BY <1>0 DEF UseTool, KeptText, At
  <2> QED BY <1>2, <2>1, <2>2, OwnedKeeps
<1> QED
  BY <1>0, <1>1, <1>2, <1>3, <1>4, <1>5, <1>6, <1>7, <1>8, <1>9, OthersKeep DEF SimInv, Own

\* The result is logged.
LEMMA LogResultStep ==
  ASSUME SimInv, NEW p \in Command, LogResult(p)
  PROVE  SimInv'
<1>0. Types /\ Own(p) /\ proc[p] \in Process /\ Place(p) /\ KeptText(p) /\ FileFollows(p)
        /\ ImageFollows(p) /\ VerdictFollows(p) /\ Live(p)
  BY DEF SimInv, Types, Own, LogResult, At, Live
<1>1. Types'
  <2>1. proc' \in [Command -> Process]
    <3>1. proc'[p] \in Process
      <4>1. proc'[p] = [proc[p] EXCEPT !.at = "cleanup", !.logged = TRUE]
        BY <1>0 DEF LogResult, Types
      <4>2. [proc[p] EXCEPT !.at = "cleanup", !.logged = TRUE] \in Process
        BY <1>0, Places, Zenon DEF Process
      <4> QED BY <4>1, <4>2
    <3>2. proc' = [proc EXCEPT ![p] = proc'[p]]
      BY DEF LogResult
    <3> QED BY <1>0, <3>1, <3>2 DEF Types
  <2> QED BY <1>0, <2>1 DEF LogResult, Types
<1>2. Frame(p)
  BY DEF LogResult, Frame
<1>3. Place(p)'
  BY <1>0 DEF LogResult, Place, At, RunSteps, FileSteps, CutOff
<1>4. KeptText(p)'
  BY <1>0 DEF LogResult, KeptText, At
<1>5. FileFollows(p)'
  BY <1>0 DEF LogResult, FileFollows, At, Alone, Live
<1>6. ImageFollows(p)'
  BY <1>0 DEF LogResult, ImageFollows, At
<1>7. VerdictFollows(p)'
  BY <1>0 DEF LogResult, VerdictFollows, At, Alone
<1>8. Shared'
  <2>1. Alone(p)' => Alone(p)
    BY DEF LogResult, Alone
  <2>2. scenario \in ScratchScenario => UNCHANGED <<file, image>>
    BY ScratchApart DEF LogResult
  <2> QED BY <1>0, <1>2, <2>1, <2>2, SharedKeeps
<1>9. Owned'
  <2>1. "exact" \in file'.injected => "exact" \in file.injected
    BY DEF LogResult
  <2>2. proc[p].kind = "run" /\ proc[p].original # NoText =>
          proc'[p].kind = "run" /\ proc'[p].original # NoText /\ (Live(p)' \/ CutOff(p)')
    BY <1>0 DEF LogResult, Live
  <2> QED BY <1>2, <2>1, <2>2, OwnedKeeps
<1> QED
  BY <1>0, <1>1, <1>2, <1>3, <1>4, <1>5, <1>6, <1>7, <1>8, <1>9, OthersKeep DEF SimInv, Own

\* cleanup() decides what to write.
LEMMA CleanFileStep ==
  ASSUME SimInv, NEW p \in Command, CleanFile(p)
  PROVE  SimInv'
<1>0. Types /\ Own(p) /\ proc[p] \in Process /\ Place(p) /\ KeptText(p) /\ FileFollows(p)
        /\ ImageFollows(p) /\ VerdictFollows(p) /\ Live(p)
  BY DEF SimInv, Types, Own, CleanFile, At, Live
<1>1. Types'
  <2>0. file \in Content
    BY <1>0 DEF Types
  <2>1. proc' \in [Command -> Process]
    <3>1. proc'[p] \in Process
      <4>1. ToWrite(p) \in Content \cup {NoText}
        BY <1>0, <2>0, StrippedText DEF ToWrite, Process
      <4>2. \/ proc'[p] = [proc[p] EXCEPT !.original = ToWrite(p), !.at = "exit"]
            \/ proc'[p] = [proc[p] EXCEPT !.original = ToWrite(p), !.at = "restore"]
        BY <1>0 DEF CleanFile, Types
      <4>3. [proc[p] EXCEPT !.original = ToWrite(p), !.at = "exit"] \in Process
        BY <1>0, <4>1, Places, Zenon DEF Process
      <4>4. [proc[p] EXCEPT !.original = ToWrite(p), !.at = "restore"] \in Process
        BY <1>0, <4>1, Places, Zenon DEF Process
      <4> QED BY <4>2, <4>3, <4>4
    <3>2. proc' = [proc EXCEPT ![p] = proc'[p]]
      BY DEF CleanFile
    <3> QED BY <1>0, <3>1, <3>2 DEF Types
  <2> QED BY <1>0, <2>1 DEF CleanFile, Types
<1>2. Frame(p)
  BY DEF CleanFile, Frame
<1>10. /\ proc[p].at = "cleanup" /\ scenario \in FileScenario /\ UNCHANGED <<scenario, file, image, scratch>>
       /\ proc'[p].kind = proc[p].kind /\ proc'[p].workdir = proc[p].workdir
       /\ proc'[p].halfway = proc[p].halfway /\ proc'[p].found = proc[p].found
       /\ proc'[p].built = proc[p].built /\ proc'[p].outcome = proc[p].outcome
       /\ proc'[p].original = ToWrite(p)
       /\ proc'[p].at = IF ToWrite(p) = NoText THEN "exit" ELSE "restore"
  BY <1>0 DEF CleanFile, At, Types
<1>11. \/ proc[p].original \in Content /\ ToWrite(p) = proc[p].original /\ ToWrite(p) # NoText
       \/ proc[p].original = NoText /\ ToWrite(p) = Stripped(file) /\ ToWrite(p) # NoText
       \/ proc[p].original = NoText /\ "exact" \notin file.injected /\ ToWrite(p) = NoText
  BY <1>0, TextsDiffer, StrippedText DEF ToWrite, Types, Process
<1>3. Place(p)'
  BY <1>0, <1>10 DEF Place, At, FileScenario, ScratchScenario, Dependency, Workflow, RunSteps,
     FileSteps, CutOff
<1>4. KeptText(p)'
  BY <1>0, StrippedText DEF CleanFile, ToWrite, KeptText, Types, FileScenario, ScratchScenario,
     Dependency, Workflow
<1>5. FileFollows(p)'
  <2>1. proc[p].original \in Content => Stripped(proc[p].original) = proc[p].original
    BY <1>0, StrippedText DEF KeptText
  <2>2. "exact" \notin file.injected => Stripped(file) = file
    BY <1>0, StrippedText DEF Types
  <2> QED BY <1>0, <1>10, <1>11, <2>1, <2>2 DEF FileFollows, At, Alone, Live
<1>6. ImageFollows(p)'
  BY <1>0, <1>10, <1>11 DEF ImageFollows, KeptText, At
<1>7. VerdictFollows(p)'
  BY <1>0 DEF CleanFile, VerdictFollows, At, Alone
<1>8. Shared'
  <2>1. Alone(p)' => Alone(p)
    BY DEF CleanFile, Alone
  <2>2. scenario \in ScratchScenario => UNCHANGED <<file, image>>
    BY ScratchApart DEF CleanFile
  <2> QED BY <1>0, <1>2, <2>1, <2>2, SharedKeeps
<1>9. Owned'
  <2>1. "exact" \in file'.injected => "exact" \in file.injected
    BY DEF CleanFile
  <2>2. proc[p].kind = "run" /\ proc[p].original # NoText =>
          proc'[p].kind = "run" /\ proc'[p].original # NoText /\ (Live(p)' \/ CutOff(p)')
    BY <1>0 DEF CleanFile, ToWrite, Live
  <2> QED BY <1>2, <2>1, <2>2, OwnedKeeps
<1> QED
  BY <1>0, <1>1, <1>2, <1>3, <1>4, <1>5, <1>6, <1>7, <1>8, <1>9, OthersKeep DEF SimInv, Own

\* The file is restored.
LEMMA RestoreStep ==
  ASSUME SimInv, NEW p \in Command, Restore(p)
  PROVE  SimInv'
<1>0. Types /\ Own(p) /\ proc[p] \in Process /\ Place(p) /\ KeptText(p) /\ FileFollows(p)
        /\ ImageFollows(p) /\ VerdictFollows(p) /\ Live(p)
  BY DEF SimInv, Types, Own, Restore, At, Live
<1>1. Types'
  <2>1. proc' \in [Command -> Process]
    <3>1. proc'[p] \in Process
      <4>1. \/ proc'[p] = [proc[p] EXCEPT !.original = NoText, !.halfway = FALSE, !.at = "rebuild"]
            \/ proc'[p] = [proc[p] EXCEPT !.original = NoText, !.halfway = FALSE, !.at = "exit"]
        BY <1>0 DEF Restore, Types
      <4>2. NoText \in Content \cup {NoText}
        OBVIOUS
      <4>3. [proc[p] EXCEPT !.original = NoText, !.halfway = FALSE, !.at = "rebuild"] \in Process
        BY <1>0, <4>2, Places, Zenon DEF Process
      <4>4. [proc[p] EXCEPT !.original = NoText, !.halfway = FALSE, !.at = "exit"] \in Process
        BY <1>0, <4>2, Places, Zenon DEF Process
      <4> QED BY <4>1, <4>3, <4>4
    <3>2. proc' = [proc EXCEPT ![p] = proc'[p]]
      BY DEF Restore
    <3> QED BY <1>0, <3>1, <3>2 DEF Types
  <2>2. file' \in Content
    BY <1>0 DEF Restore, KeptText, At, Process
  <2> QED BY <1>0, <2>1, <2>2 DEF Restore, Types
<1>2. Frame(p)
  BY DEF Restore, Frame
<1>3. Place(p)'
  BY <1>0 DEF Restore, Place, At, RunSteps, CutOff
<1>4. KeptText(p)'
  BY <1>0, TextsDiffer DEF Restore, KeptText
<1>5. FileFollows(p)'
  BY <1>0 DEF Restore, FileFollows, At, Alone, Live
<1>6. ImageFollows(p)'
  BY <1>0 DEF Restore, ImageFollows, At
<1>7. VerdictFollows(p)'
  BY <1>0 DEF Restore, VerdictFollows, At, Types
<1>8. Shared'
  <2>1. Alone(p)' => Alone(p)
    BY DEF Restore, Alone
  <2>2. scenario \in ScratchScenario => UNCHANGED <<file, image>>
    BY <1>0, ScratchApart DEF Restore, At
  <2> QED BY <1>0, <1>2, <2>1, <2>2, SharedKeeps
<1>9. Owned'
  BY <1>0 DEF Restore, KeptText, Owned
<1> QED
  BY <1>0, <1>1, <1>2, <1>3, <1>4, <1>5, <1>6, <1>7, <1>8, <1>9, OthersKeep DEF SimInv, Own

\* The scratch directory is removed.
LEMMA RemoveWorkdirStep ==
  ASSUME SimInv, NEW p \in Command, RemoveWorkdir(p)
  PROVE  SimInv'
<1>0. Types /\ Own(p) /\ proc[p] \in Process /\ Place(p) /\ KeptText(p) /\ FileFollows(p)
        /\ ImageFollows(p) /\ VerdictFollows(p) /\ Live(p)
  BY DEF SimInv, Types, Own, RemoveWorkdir, At, Live
<1>1. Types'
  <2>1. proc' \in [Command -> Process]
    <3>1. proc'[p] \in Process
      <4>1. proc'[p] = [proc[p] EXCEPT !.workdir = FALSE, !.at = "exit"]
        BY <1>0 DEF RemoveWorkdir, Types
      <4>2. [proc[p] EXCEPT !.workdir = FALSE, !.at = "exit"] \in Process
        BY <1>0, Places, Zenon DEF Process
      <4> QED BY <4>1, <4>2
    <3>2. proc' = [proc EXCEPT ![p] = proc'[p]]
      BY DEF RemoveWorkdir
    <3> QED BY <1>0, <3>1, <3>2 DEF Types
  <2>2. scratch' \in [Command -> {"none", "empty", "planted"}]
    BY <1>0 DEF RemoveWorkdir, Types
  <2> QED BY <1>0, <2>1, <2>2 DEF RemoveWorkdir, Types
<1>2. Frame(p)
  BY DEF RemoveWorkdir, Frame
<1>3. Place(p)'
  BY <1>0 DEF RemoveWorkdir, Place, At, Types, RunSteps, FileSteps, CutOff
<1>4. KeptText(p)'
  BY <1>0 DEF RemoveWorkdir, KeptText
<1>10. /\ proc[p].at = "cleanup" /\ proc'[p].at = "exit" /\ UNCHANGED <<file, image>>
       /\ proc'[p].found = proc[p].found /\ proc[p].original = NoText
       /\ file.injected = {} /\ image = {} /\ file \in Content
  BY <1>0 DEF RemoveWorkdir, KeptText, SimInv, Shared, At, Types
<1>5. FileFollows(p)'
  <2>1. Stripped(file) = file
    BY <1>10, StrippedText
  <2> QED BY <1>0, <1>10, <2>1 DEF FileFollows, At, Alone, Live
<1>6. ImageFollows(p)'
  BY <1>10 DEF ImageFollows, At
<1>7. VerdictFollows(p)'
  BY <1>0 DEF RemoveWorkdir, VerdictFollows, At, Types
<1>8. Shared'
  <2>1. Alone(p)' => Alone(p)
    BY DEF RemoveWorkdir, Alone
  <2>2. scenario \in ScratchScenario => UNCHANGED <<file, image>>
    BY ScratchApart DEF RemoveWorkdir
  <2> QED BY <1>0, <1>2, <2>1, <2>2, SharedKeeps
<1>9. Owned'
  <2>1. "exact" \in file'.injected => "exact" \in file.injected
    BY DEF RemoveWorkdir
  <2>2. proc[p].kind = "run" /\ proc[p].original # NoText =>
          proc'[p].kind = "run" /\ proc'[p].original # NoText /\ (Live(p)' \/ CutOff(p)')
    BY <1>0 DEF RemoveWorkdir, KeptText
  <2> QED BY <1>2, <2>1, <2>2, OwnedKeeps
<1> QED
  BY <1>0, <1>1, <1>2, <1>3, <1>4, <1>5, <1>6, <1>7, <1>8, <1>9, OthersKeep DEF SimInv, Own

\* A command ends.
LEMMA ExitStep ==
  ASSUME SimInv, NEW p \in Command, Exit(p)
  PROVE  SimInv'
<1>0. Types /\ Own(p) /\ proc[p] \in Process /\ Place(p) /\ KeptText(p) /\ FileFollows(p)
        /\ ImageFollows(p) /\ VerdictFollows(p) /\ Live(p)
  BY DEF SimInv, Types, Own, Exit, At, Live
<1>1. Types'
  <2>1. proc' \in [Command -> Process]
    <3>1. proc'[p] \in Process
      <4>1. proc'[p] = Over(p, "done")
        BY <1>0 DEF Exit, Types
      <4> QED BY <1>0, <4>1, OverType DEF Ends
    <3>2. proc' = [proc EXCEPT ![p] = proc'[p]]
      BY DEF Exit
    <3> QED BY <1>0, <3>1, <3>2 DEF Types
  <2> QED BY <1>0, <2>1 DEF Exit, Types
<1>2. Frame(p)
  BY DEF Exit, Frame
<1>3. Place(p)'
  BY <1>0 DEF Exit, Over, Idle, Place, At, RunSteps, FileSteps, CutOff
<1>4. KeptText(p)'
  BY <1>0 DEF Exit, Over, KeptText
<1>5. FileFollows(p)'
  BY <1>0 DEF Exit, Over, Idle, FileFollows, Types, Alone
<1>6. ImageFollows(p)'
  BY <1>0 DEF Exit, Over, Idle, ImageFollows, Types
<1>7. VerdictFollows(p)'
  BY <1>0 DEF Exit, Over, VerdictFollows, At
<1>8. Shared'
  <2>1. Alone(p)' => Alone(p)
    BY DEF Exit, Over, Idle, Alone
  <2>2. scenario \in ScratchScenario => UNCHANGED <<file, image>>
    BY ScratchApart DEF Exit
  <2> QED BY <1>0, <1>2, <2>1, <2>2, SharedKeeps
<1>9. Owned'
  <2>1. "exact" \in file'.injected => "exact" \in file.injected
    BY DEF Exit
  <2>2. proc[p].kind = "run" /\ proc[p].original # NoText =>
          proc'[p].kind = "run" /\ proc'[p].original # NoText /\ (Live(p)' \/ CutOff(p)')
    BY <1>0 DEF Exit, KeptText, At
  <2> QED BY <1>2, <2>1, <2>2, OwnedKeeps
<1> QED
  BY <1>0, <1>1, <1>2, <1>3, <1>4, <1>5, <1>6, <1>7, <1>8, <1>9, OthersKeep DEF SimInv, Own

\* run() raises.
LEMMA RunRaisesStep ==
  ASSUME SimInv, NEW p \in Command, RunRaises(p)
  PROVE  SimInv'
<1>0. Types /\ Own(p) /\ proc[p] \in Process /\ Place(p) /\ KeptText(p) /\ FileFollows(p)
        /\ ImageFollows(p) /\ VerdictFollows(p) /\ Live(p)
  BY DEF SimInv, Types, Own, RunRaises, Live
<1>1. Types'
  <2>1. proc' \in [Command -> Process]
    <3>1. proc'[p] \in Process
      <4>1. proc'[p] = [proc[p] EXCEPT !.at = "cleanup", !.raised = TRUE, !.halfway = FALSE]
        BY <1>0 DEF RunRaises, Types
      <4>2. [proc[p] EXCEPT !.at = "cleanup", !.raised = TRUE, !.halfway = FALSE] \in Process
        BY <1>0, Places, Zenon DEF Process
      <4> QED BY <4>1, <4>2
    <3>2. proc' = [proc EXCEPT ![p] = proc'[p]]
      BY DEF RunRaises
    <3> QED BY <1>0, <3>1, <3>2 DEF Types
  <2>2. image' = {} \/ \E q \in Command : image' = {q}
    BY <1>0 DEF RunRaises, BuiltBy, Types
  <2>3. faults' \in 0..MaxFaults
    BY <1>0, FaultType DEF RunRaises
  <2> QED BY <1>0, <2>1, <2>2, <2>3 DEF RunRaises, Types
<1>2. Frame(p)
  BY DEF RunRaises, BuiltBy, Frame
<1>10. /\ proc[p].at \in RunSteps /\ proc'[p].at = "cleanup" /\ ~proc'[p].halfway /\ proc'[p].raised
       /\ proc'[p].kind = proc[p].kind /\ proc'[p].original = proc[p].original
       /\ proc'[p].found = proc[p].found /\ proc'[p].workdir = proc[p].workdir
       /\ proc'[p].outcome = proc[p].outcome /\ proc'[p].built = proc[p].built
       /\ proc'[p].poisoned = proc[p].poisoned /\ UNCHANGED <<scenario, file, scratch>>
       /\ p \in image' => p \in image \/ proc[p].at = "build"
  BY <1>0 DEF RunRaises, At, RunSteps, Types
<1>3. Place(p)'
  BY <1>0, <1>10 DEF Place, At, RunSteps, FileSteps, CutOff
<1>4. KeptText(p)'
  BY <1>0, <1>10 DEF KeptText, VerdictFollows, RunSteps
<1>5. FileFollows(p)'
  BY <1>0, <1>10 DEF FileFollows, KeptText, At, RunSteps, Alone, Live
<1>6. ImageFollows(p)'
  BY <1>0, <1>10 DEF ImageFollows, VerdictFollows, At, RunSteps
<1>7. VerdictFollows(p)'
  BY <1>0, <1>10 DEF VerdictFollows, At, RunSteps, Alone
<1>8. Shared'
  <2>1. Alone(p)' => Alone(p)
    BY DEF RunRaises, Alone
  <2>2. scenario \in ScratchScenario => UNCHANGED <<file, image>>
    BY <1>0, ScratchApart DEF RunRaises, At
  <2> QED BY <1>0, <1>2, <2>1, <2>2, SharedKeeps
<1>9. Owned'
  <2>1. "exact" \in file'.injected => "exact" \in file.injected
    BY DEF RunRaises
  <2>2. proc[p].kind = "run" /\ proc[p].original # NoText =>
          proc'[p].kind = "run" /\ proc'[p].original # NoText /\ (Live(p)' \/ CutOff(p)')
    BY DEF RunRaises, Live
  <2> QED BY <1>2, <2>1, <2>2, OwnedKeeps
<1> QED
  BY <1>0, <1>1, <1>2, <1>3, <1>4, <1>5, <1>6, <1>7, <1>8, <1>9, OthersKeep DEF SimInv, Own

\* cleanup() raises.
LEMMA CleanupRaisesStep ==
  ASSUME SimInv, NEW p \in Command, CleanupRaises(p)
  PROVE  SimInv'
<1>0. Types /\ Own(p) /\ proc[p] \in Process /\ Place(p) /\ KeptText(p) /\ FileFollows(p)
        /\ ImageFollows(p) /\ VerdictFollows(p) /\ Live(p)
  BY DEF SimInv, Types, Own, CleanupRaises, At, Live
<1>1. Types'
  <2>1. proc' \in [Command -> Process]
    <3>1. proc'[p] \in Process
      <4>1. proc'[p] = Over(p, "failed")
        BY <1>0 DEF CleanupRaises, Types
      <4> QED BY <1>0, <4>1, OverType DEF Ends
    <3>2. proc' = [proc EXCEPT ![p] = proc'[p]]
      BY DEF CleanupRaises
    <3> QED BY <1>0, <3>1, <3>2 DEF Types
  <2>2. faults' \in 0..MaxFaults
    BY <1>0, FaultType DEF CleanupRaises
  <2> QED BY <1>0, <2>1, <2>2 DEF CleanupRaises, Types
<1>2. Frame(p)
  BY DEF CleanupRaises, Frame
<1>3. Place(p)'
  BY <1>0 DEF CleanupRaises, Over, Idle, Place, At, RunSteps, FileSteps, CutOff
<1>4. KeptText(p)'
  BY <1>0 DEF CleanupRaises, Over, KeptText
<1>5. FileFollows(p)'
  BY <1>0 DEF CleanupRaises, Over, Idle, FileFollows, Types, Alone
<1>6. ImageFollows(p)'
  BY <1>0 DEF CleanupRaises, Over, Idle, ImageFollows, Types
<1>7. VerdictFollows(p)'
  BY <1>0 DEF CleanupRaises, Over, VerdictFollows, At, Types
<1>8. Shared'
  <2>1. Alone(p)' => Alone(p)
    BY DEF CleanupRaises, Over, Idle, Alone
  <2>2. scenario \in ScratchScenario => UNCHANGED <<file, image>>
    BY ScratchApart DEF CleanupRaises
  <2> QED BY <1>0, <1>2, <2>1, <2>2, SharedKeeps
<1>9. Owned'
  <2>1. "exact" \in file'.injected => "exact" \in file.injected
    BY DEF CleanupRaises
  <2>2. proc[p].kind = "run" /\ proc[p].original # NoText =>
          proc'[p].kind = "run" /\ proc'[p].original # NoText /\ (Live(p)' \/ CutOff(p)')
    BY <1>0 DEF CleanupRaises, Over, Types, CutOff
  <2> QED BY <1>2, <2>1, <2>2, OwnedKeeps
<1> QED
  BY <1>0, <1>1, <1>2, <1>3, <1>4, <1>5, <1>6, <1>7, <1>8, <1>9, OthersKeep DEF SimInv, Own

\* A process is killed.
LEMMA KillStep ==
  ASSUME SimInv, NEW p \in Command, Kill(p)
  PROVE  SimInv'
<1>0. Types /\ Own(p) /\ proc[p] \in Process /\ Place(p) /\ KeptText(p) /\ FileFollows(p)
        /\ ImageFollows(p) /\ VerdictFollows(p) /\ Live(p)
  BY DEF SimInv, Types, Own, Kill
<1>1. Types'
  <2>1. proc' \in [Command -> Process]
    <3>1. proc'[p] \in Process
      <4>1. proc'[p] = Over(p, "killed")
        BY <1>0 DEF Kill, Types
      <4> QED BY <1>0, <4>1, OverType DEF Ends
    <3>2. proc' = [proc EXCEPT ![p] = proc'[p]]
      BY DEF Kill
    <3> QED BY <1>0, <3>1, <3>2 DEF Types
  <2>2. image' = {} \/ \E q \in Command : image' = {q}
    BY <1>0 DEF Kill, BuiltBy, Types
  <2> QED BY <1>0, <2>1, <2>2 DEF Kill, Types
<1>2. Frame(p)
  BY DEF Kill, BuiltBy, Frame
<1>3. Place(p)'
  BY <1>0 DEF Kill, Over, Idle, Place, At, RunSteps, FileSteps, CutOff
<1>4. KeptText(p)'
  BY <1>0 DEF Kill, Over, KeptText
<1>5. FileFollows(p)'
  BY <1>0 DEF Kill, Over, Idle, FileFollows, Types, Alone
<1>6. ImageFollows(p)'
  BY <1>0 DEF Kill, Over, Idle, ImageFollows, Types
<1>7. VerdictFollows(p)'
  BY <1>0 DEF Kill, Over, VerdictFollows, At, Types
<1>8. Shared'
  <2>1. Alone(p)' => Alone(p)
    BY DEF Kill, Over, Idle, Alone
  <2>2. scenario \in ScratchScenario => UNCHANGED <<file, image>>
    BY <1>0, ScratchApart DEF Kill
  <2> QED BY <1>0, <1>2, <2>1, <2>2, SharedKeeps
<1>9. Owned'
  <2>1. "exact" \in file'.injected => "exact" \in file.injected
    BY DEF Kill
  <2>2. proc[p].kind = "run" /\ proc[p].original # NoText =>
          proc'[p].kind = "run" /\ proc'[p].original # NoText /\ (Live(p)' \/ CutOff(p)')
    BY <1>0 DEF Kill, Over, Types, CutOff
  <2> QED BY <1>2, <2>1, <2>2, OwnedKeeps
<1> QED
  BY <1>0, <1>1, <1>2, <1>3, <1>4, <1>5, <1>6, <1>7, <1>8, <1>9, OthersKeep DEF SimInv, Own

(***************************************************************************)
(* Steps that are not one live process's, and the theorems                 *)
(***************************************************************************)

\* Whoever starts or edits disturbs those that are under way.
LEMMA DisturbedKeep ==
  ASSUME SimInv, NEW q \in Command, proc'[q] = Disturbed[q], UNCHANGED <<scenario, image, scratch>>
  PROVE  /\ Own(q)' /\ ~Alone(q)' /\ (Live(q)' <=> Live(q)) /\ proc'[q] \in Process
         /\ proc'[q].kind = proc[q].kind /\ proc'[q].original = proc[q].original
         /\ (CutOff(q)' <=> CutOff(q))
<1>0. Own(q) /\ proc[q] \in Process
  BY DEF SimInv, Types
<1>1. CASE Live(q)
  <2>1. proc'[q] = [proc[q] EXCEPT !.found = NoText]
    BY <1>1 DEF Disturbed
  <2>2. proc'[q] \in Process
    <3>1. [proc[q] EXCEPT !.found = NoText] \in Process
      BY <1>0, Zenon DEF Process
    <3> QED BY <2>1, <3>1
  <2>3. /\ proc'[q].found = NoText /\ proc'[q].at = proc[q].at /\ proc'[q].kind = proc[q].kind
        /\ proc'[q].original = proc[q].original /\ proc'[q].halfway = proc[q].halfway
        /\ proc'[q].workdir = proc[q].workdir /\ proc'[q].outcome = proc[q].outcome
        /\ proc'[q].built = proc[q].built /\ proc'[q].logged = proc[q].logged
        /\ proc'[q].raised = proc[q].raised
    BY <2>1
  <2>4. ~Alone(q)'
    BY <2>3 DEF Alone
  <2>5. Place(q)' /\ KeptText(q)'
    BY <1>0, <2>3 DEF Own, Place, KeptText, At, CutOff
  <2>6. FileFollows(q)'
    BY <2>4 DEF FileFollows
  <2>7. ImageFollows(q)'
    BY <1>0, <2>3, <2>4 DEF Own, ImageFollows
  <2>8. VerdictFollows(q)'
    BY <1>0, <2>3, <2>4 DEF Own, VerdictFollows, At
  <2> QED BY <2>2, <2>3, <2>4, <2>5, <2>6, <2>7, <2>8 DEF Own, Live, CutOff
<1>2. CASE ~Live(q)
  <2>1. proc'[q] = proc[q]
    BY <1>2 DEF Disturbed
  <2>2. ~Alone(q)
    BY <1>0, <1>2 DEF Own, FileFollows
  <2>3. ~Alone(q)'
    BY <2>1, <2>2 DEF Alone
  <2>4. Place(q)' /\ KeptText(q)'
    BY <1>0, <2>1 DEF Own, Place, KeptText, At, CutOff
  <2>5. FileFollows(q)'
    BY <2>3 DEF FileFollows
  <2>6. ImageFollows(q)'
    BY <1>0, <2>1, <2>3 DEF Own, ImageFollows
  <2>7. VerdictFollows(q)'
    BY <1>0, <2>1, <2>3 DEF Own, VerdictFollows, At
  <2> QED BY <1>0, <2>1, <2>3, <2>4, <2>5, <2>6, <2>7 DEF Own, Live, CutOff
<1> QED BY <1>1, <1>2

\* So do the owners of an injection.
LEMMA DisturbedOwned ==
  ASSUME SimInv, NEW p \in Command, ~Live(p), ~CutOff(p), "exact" \in file.injected,
         \A q \in Command \ {p} : /\ proc'[q].kind = proc[q].kind
                                  /\ proc'[q].original = proc[q].original
                                  /\ (Live(q)' <=> Live(q)) /\ (CutOff(q)' <=> CutOff(q))
  PROVE  Owned'
<1>1. PICK q \in Command : proc[q].kind = "run" /\ proc[q].original # NoText /\ (Live(q) \/ CutOff(q))
  BY DEF SimInv, Owned
<1>2. q # p
  BY <1>1
<1> QED BY <1>1, <1>2 DEF Owned

\* A command is started.
LEMMA StartStep ==
  ASSUME SimInv, NEW p \in Command, NEW kind \in {"run", "cleanup"}, Start(p, kind)
  PROVE  SimInv'
<1>0. /\ Types /\ Own(p) /\ proc[p] \in Process /\ At(p, "idle") /\ Shared
      /\ UNCHANGED <<scenario, file, image, scratch, faults, edits>>
  BY DEF SimInv, Types, Start
<1>1. \A q \in Command \ {p} :
        /\ proc'[q] = Disturbed[q] /\ Own(q)' /\ ~Alone(q)' /\ (Live(q)' <=> Live(q))
        /\ proc'[q] \in Process /\ proc'[q].kind = proc[q].kind
        /\ proc'[q].original = proc[q].original /\ (CutOff(q)' <=> CutOff(q))
  <2> SUFFICES ASSUME NEW q \in Command \ {p} PROVE proc'[q] = Disturbed[q]
    BY <1>0, DisturbedKeep
  <2> QED BY DEF Start, Disturbed
<1>2. PICK at \in {"check", "cleanup"}, found \in Content \cup {NoText} :
        /\ proc'[p] = [Idle EXCEPT !.at = at, !.kind = kind, !.found = found]
        /\ at = "check" <=> kind = "run"
        /\ found # NoText => found = file /\ \A q \in Command : ~Live(q)
  BY <1>0 DEF Start, Disturbed, Types
<1>3. /\ proc'[p].at = at /\ proc'[p].kind = kind /\ proc'[p].found = found
      /\ proc'[p].original = NoText /\ ~proc'[p].halfway /\ ~proc'[p].workdir /\ ~proc'[p].built
      /\ proc'[p].outcome = "none"
  BY <1>2 DEF Idle
<1>4. proc' \in [Command -> Process]
  <2>1. [Idle EXCEPT !.at = at, !.kind = kind, !.found = found] \in Process
    BY IdleType, Places, Zenon DEF Process
  <2>2. proc' = [q \in Command |-> proc'[q]]
    BY DEF Start, Disturbed
  <2> QED BY <1>1, <1>2, <2>1, <2>2
<1>5. Types'
  BY <1>0, <1>4 DEF Types
<1>6. scratch[p] = "none" /\ p \notin image
  BY <1>0 DEF Own, Place, ImageFollows, At, CutOff
<1>7. Place(p)'
  BY <1>0, <1>2, <1>3, <1>6 DEF Place, At, RunSteps, FileSteps
<1>8. KeptText(p)' /\ VerdictFollows(p)'
  BY <1>2, <1>3, TextsDiffer DEF KeptText, VerdictFollows, At
<1>9. FileFollows(p)'
  BY <1>0, <1>2, <1>3 DEF FileFollows, Alone, Live, At
<1>10. ImageFollows(p)'
  BY <1>0, <1>3, <1>6 DEF ImageFollows
<1>11. Shared'
  <2>1. Alone(p)' => \A q \in Command : ~Live(q)
    BY <1>2, <1>3 DEF Alone
  <2> QED BY <1>0, <1>1, <2>1 DEF Shared
<1>12. Owned'
  <2> SUFFICES ASSUME "exact" \in file'.injected PROVE Owned'
    BY DEF Owned
  <2>1. ~Live(p) /\ ~CutOff(p)
    BY <1>0 DEF At, Live, CutOff
  <2> QED BY <1>0, <1>1, <2>1, DisturbedOwned
<1> QED
  BY <1>1, <1>5, <1>7, <1>8, <1>9, <1>10, <1>11, <1>12 DEF SimInv, Own

\* The file is edited.
LEMMA EditStep == ASSUME SimInv, Edit PROVE SimInv'
<1>0. Types /\ Shared /\ proc' = Disturbed /\ UNCHANGED <<scenario, image, scratch, faults>>
      /\ scenario \in FileScenario
  BY DEF SimInv, Edit
<1>1. \A q \in Command :
        /\ Own(q)' /\ ~Alone(q)' /\ (Live(q)' <=> Live(q))
        /\ proc'[q] \in Process /\ proc'[q].kind = proc[q].kind
        /\ proc'[q].original = proc[q].original /\ (CutOff(q)' <=> CutOff(q))
  BY <1>0, DisturbedKeep
<1>2. proc' \in [Command -> Process]
  BY <1>0, <1>1 DEF Disturbed
<1>3. edits' \in 0..MaxEdits
  BY <1>0, BoundsAreNat DEF Types, Edit
<1>4. file' \in Content /\ ("exact" \in file'.injected => "exact" \in file.injected)
  <2>1. PICK injected \in {file.injected, {}} \cup (IF "exact" \in file.injected THEN {{"altered"}} ELSE {}) :
          file' = [text |-> edits + 2, injected |-> injected]
    BY DEF Edit
  <2>2. edits + 2 \in 0..(MaxEdits + 1)
    BY <1>0, BoundsAreNat DEF Types, Edit
  <2>3. injected \in SUBSET {"exact", "altered"}
    BY <1>0 DEF Types, Content
  <2> QED BY <2>1, <2>2, <2>3 DEF Content
<1>5. Types'
  BY <1>0, <1>2, <1>3, <1>4 DEF Types
<1>6. Shared'
  BY <1>0, <1>1 DEF Shared, FileScenario, ScratchScenario, Dependency, Workflow
<1>7. Owned'
  BY <1>1, <1>4 DEF SimInv, Owned
<1> QED BY <1>1, <1>5, <1>6, <1>7 DEF SimInv

LEMMA SimInvInit == Init => SimInv
<1> SUFFICES ASSUME Init PROVE SimInv
  OBVIOUS
<1>1. file \in Content
  BY BoundsAreNat DEF Init, Content
<1>2. Types
  BY <1>1, IdleType, SimAssumption, BoundsAreNat DEF Init, Types
<1>3. \A p \in Command : Own(p)
  BY TextsDiffer DEF Init, Own, Place, KeptText, FileFollows, ImageFollows, VerdictFollows, Idle,
     At,
    Alone, RunSteps, FileSteps
<1>4. Shared /\ Owned
  BY DEF Init, Shared, Owned, Idle, Alone
<1> QED BY <1>2, <1>3, <1>4 DEF SimInv

LEMMA SimInvStutters == SimInv /\ UNCHANGED vars => SimInv'
<1> SUFFICES ASSUME SimInv, UNCHANGED vars PROVE SimInv'
  OBVIOUS
<1>1. Types'
  BY DEF SimInv, Types, vars
<1>2. ASSUME NEW p \in Command PROVE Own(p)'
  <2>1. Own(p)
    BY DEF SimInv
  <2>2. Place(p)' /\ KeptText(p)'
    BY <2>1 DEF Own, Place, KeptText, vars, At, CutOff
  <2>3. FileFollows(p)' /\ ImageFollows(p)' /\ VerdictFollows(p)'
    BY <2>1 DEF Own, FileFollows, ImageFollows, VerdictFollows, vars, At, Alone, Live
  <2> QED BY <2>2, <2>3 DEF Own
<1>3. Shared' /\ Owned'
  BY DEF SimInv, Shared, Owned, vars, Alone, Live, CutOff
<1> QED BY <1>1, <1>2, <1>3 DEF SimInv

LEMMA SimInvNext == SimInv /\ [Next]_vars => SimInv'
BY CheckTargetStep, TruncateStep, WriteInjectedStep, StartBuildStep, BuildEndsStep, NoDockerStep,
   MakeWorkdirStep, PlantStep, UseToolStep, LogResultStep, CleanFileStep, RestoreStep,
   RemoveWorkdirStep, ExitStep, RunRaisesStep, CleanupRaisesStep, KillStep, StartStep, EditStep,
   SimInvStutters
DEF Next, CommandStep

LEMMA SimInvAlways == Spec => []SimInv
BY SimInvInit, SimInvNext, PTL DEF Spec

\* The state of the commands and of what they share is well typed.
THEOREM TypeCorrect == Spec => []TypeOK
<1>1. SimInv => TypeOK
  <2> SUFFICES ASSUME SimInv PROVE TypeOK
    OBVIOUS
  <2>1. image \in SUBSET Command /\ Cardinality(image) <= 1
    <3>1. image = {} \/ \E p \in Command : image = {p}
      BY DEF SimInv, Types
    <3>2. CASE image = {}
      BY <3>2, FS_EmptySet
    <3>3. ASSUME NEW p \in Command, image = {p} PROVE image \in SUBSET Command /\ Cardinality(image) <= 1
      <4>1. Cardinality({p}) = 1
        BY FS_Singleton
      <4> QED BY <3>3, <4>1
    <3> QED BY <3>1, <3>2, <3>3
  <2>2. ASSUME NEW p \in Command
        PROVE  /\ proc[p].original \in Content \cup {NoText} /\ proc[p].found \in Content \cup {NoText}
               /\ proc[p].workdir => /\ scratch[p] # "none"
                                    /\ proc[p].at \in {"plant", "tool", "log", "cleanup"}
               /\ proc[p].halfway => /\ scenario \in FileScenario
                                    /\ proc[p].at \in {"inject", "build", "restore", "rebuild"}
    BY DEF SimInv, Types, Process, Own, Place, FileSteps
  <2> QED BY <2>1, <2>2 DEF SimInv, Types, TypeOK
<1> QED BY <1>1, SimInvAlways, PTL

\* What was injected has an owner, and so has every scratch directory, however
\* many commands and edits meet at the file (scenarios/replay.py:33).
THEOREM TracesOwned == Spec => []TracesHaveOwner
<1>1. SimInv => TracesHaveOwner
  BY DEF SimInv, Owned, Own, Place, TracesHaveOwner
<1> QED BY <1>1, SimInvAlways, PTL

\* An undisturbed command leaves the file, and the image, as it found them.
THEOREM FoundIsLeft == Spec => []LeavesAsFound
<1>1. SimInv => LeavesAsFound
  BY DEF SimInv, Own, FileFollows, ImageFollows, LeavesAsFound, At
<1> QED BY <1>1, SimInvAlways, PTL

\* What a run reports is about what it injected.
THEOREM VerdictsFollow == Spec => []VerdictsAreReal
<1>1. SimInv => VerdictsAreReal
  BY DEF SimInv, Own, VerdictFollows, VerdictsAreReal, At
<1> QED BY <1>1, SimInvAlways, PTL
=============================================================================
