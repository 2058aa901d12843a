----------------------------- MODULE AttackSim ------------------------------
(***************************************************************************)
(* The attack simulator (attack-sim/): processes started by `cli.py run s` *)
(* and `cli.py cleanup s`, of which the first goes through replay():       *)
(* run(), log_result() and, whatever happens, cleanup().  Two scenarios    *)
(* change a file of the repository and put it back, two work in a scratch  *)
(* directory.  What they share, and what a run that is cut off leaves      *)
(* behind, is on disk: the two files, the scratch directories and the api  *)
(* image.  Any number of commands may be under way at once, somebody may   *)
(* edit a file meanwhile, and a process may be killed at any step.  No two *)
(* scenarios touch the same thing, so a behaviour is about one of them.    *)
(*                                                                         *)
(* A file is its text (a version number, 0 when empty) and the forms in    *)
(* which the injected text is in it: "exact", as it was written, or        *)
(* "altered" by an edit.                                                   *)
(***************************************************************************)
EXTENDS Integers, FiniteSets

CONSTANTS Command,    \* processes, each started at most once
          Scenario,   \* the scenarios they are started with
          MaxFaults,  \* bound: system calls that fail and runs interrupted
          MaxEdits    \* bound: edits of the files by hand

Dependency == "malicious-dependency"
Workflow   == "compromised-ci-step"

FileScenario    == {Dependency, Workflow}
ScratchScenario == {"leaked-secret", "typosquatting"}

ASSUME SimAssumption ==
  /\ Scenario \subseteq FileScenario \cup ScratchScenario
  /\ MaxFaults \in Nat /\ MaxEdits \in Nat

VARIABLES scenario,  \* the one the commands are given
          file,      \* requirements.txt or ci.yml
          image,     \* whose build put the injected line into the api image
          scratch,   \* by process: the directory it made under /tmp
          proc,      \* by process: the scenario object and where it is
          faults, edits

vars == <<scenario, file, image, scratch, proc, faults, edits>>

Content  == [text : 0..(MaxEdits + 1), injected : SUBSET {"exact", "altered"}]
Empty    == [text |-> 0, injected |-> {}]
NoText   == [text |-> -1, injected |-> {}]
Outcomes == {"success", "failure", "error"}

\* A process not started yet; then what replay() or _cmd_cleanup() holds.
Idle == [at |-> "idle", kind |-> "none", original |-> NoText,
         built |-> FALSE, workdir |-> FALSE, outcome |-> "none", logged |-> FALSE,
         halfway |-> FALSE, poisoned |-> FALSE, raised |-> FALSE, warned |-> FALSE,
         found |-> NoText]

\* What is kept of a process that is over: what it had still to write back.
Over(p, how) == [Idle EXCEPT !.at = how, !.kind = proc[p].kind, !.original = proc[p].original]

Live(p)      == proc[p].at \notin {"idle", "done", "failed", "killed"}
At(p, where) == proc[p].at = where

\* History: a process knows what it found as long as nobody else is at the file.
Alone(p)  == proc[p].found # NoText
Disturbed == [p \in Command |-> IF Live(p) THEN [proc[p] EXCEPT !.found = NoText] ELSE proc[p]]

Fault == faults < MaxFaults /\ faults' = faults + 1

TypeOK ==
  /\ scenario \in Scenario
  /\ file \in Content
  /\ image \in SUBSET Command /\ Cardinality(image) <= 1
  /\ scratch \in [Command -> {"none", "empty", "planted"}]
  /\ faults \in 0..MaxFaults /\ edits \in 0..MaxEdits
  /\ \A p \in Command :
       /\ proc[p].original \in Content \cup {NoText}
       /\ proc[p].found \in Content \cup {NoText}
       /\ proc[p].workdir => /\ scratch[p] # "none"
                            /\ proc[p].at \in {"plant", "tool", "log", "cleanup"}
       /\ proc[p].halfway => /\ scenario \in FileScenario
                            /\ proc[p].at \in {"inject", "build", "restore", "rebuild"}

Init ==
  /\ scenario \in Scenario
  /\ file = [text |-> 1, injected |-> {}]
  /\ image = {}
  /\ scratch = [p \in Command |-> "none"]
  /\ proc = [p \in Command |-> Idle]
  /\ faults = 0 /\ edits = 0

\* cli.py run s: a new instance, whose run() comes first; cli.py cleanup s: a
\* new instance, which remembers nothing, and its cleanup().
Start(p, kind) ==
  /\ At(p, "idle")
  /\ proc' = [Disturbed EXCEPT ![p] =
                [Idle EXCEPT !.at = IF kind = "run" THEN "check" ELSE "cleanup",
                             !.kind = kind,
                             !.found = IF \E q \in Command : Live(q) THEN NoText ELSE file]]
  /\ UNCHANGED <<scenario, file, image, scratch, faults, edits>>

-----------------------------------------------------------------------------
(* run() of the scenarios that change a file *)

\* requirements.txt is searched for the whole injected line, ci.yml for its
\* marker only; ci.yml must have a job to inject into.
Refuses ==
  \/ scenario = Dependency /\ "exact" \in file.injected
  \/ scenario = Workflow /\ (file.injected # {} \/ file.text = 0)

CheckTarget(p) ==
  /\ At(p, "check") /\ scenario \in FileScenario
  /\ proc' = IF Refuses
             THEN [proc EXCEPT ![p] = [@ EXCEPT !.outcome = "error", !.at = "log"]]
             ELSE [proc EXCEPT ![p] = [@ EXCEPT !.original = file, !.at = "inject"]]
  /\ UNCHANGED <<scenario, file, image, scratch, faults, edits>>

\* write_text first empties the file and then writes it.
Truncate(p) ==
  /\ proc[p].at \in {"inject", "restore"} /\ ~proc[p].halfway
  /\ file' = Empty
  /\ proc' = [proc EXCEPT ![p].halfway = TRUE]
  /\ UNCHANGED <<scenario, image, scratch, faults, edits>>

\* The line is appended; the step goes behind the first job's steps: line.
Injected(c) == [c EXCEPT !.injected = @ \cup {"exact"}]

WriteInjected(p) ==
  /\ At(p, "inject") /\ proc[p].halfway
  /\ file' = Injected(proc[p].original)
  /\ proc' = IF scenario = Dependency
             THEN [proc EXCEPT ![p] = [@ EXCEPT !.halfway = FALSE, !.at = "build"]]
             ELSE [proc EXCEPT ![p] =
                    [@ EXCEPT !.halfway = FALSE, !.at = "log", !.outcome = "success"]]
  /\ UNCHANGED <<scenario, image, scratch, faults, edits>>

\* docker compose build api, in run() and in _rebuild(): it reads the file when
\* it starts and replaces the image when it succeeds; a client stopped by the
\* timeout may have got that far.  There may be no docker.
StartBuild(p) ==
  /\ proc[p].at \in {"build", "rebuild"} /\ ~proc[p].halfway
  /\ proc' = [proc EXCEPT ![p] = [@ EXCEPT !.halfway = TRUE, !.poisoned = file.injected # {}]]
  /\ UNCHANGED <<scenario, file, image, scratch, faults, edits>>

BuiltBy(p) == IF proc[p].poisoned THEN {p} ELSE {}

BuildReturns(p, accepted, outcome) ==
  IF At(p, "build")
  THEN proc' = [proc EXCEPT ![p] =
         [@ EXCEPT !.at = "log", !.outcome = outcome, !.built = accepted, !.halfway = FALSE]]
  ELSE proc' = [proc EXCEPT ![p] =
         [@ EXCEPT !.at = "exit", !.warned = ~accepted, !.built = FALSE, !.halfway = FALSE]]

BuildEnds(p) ==
  /\ proc[p].at \in {"build", "rebuild"} /\ proc[p].halfway
  /\ \/ image' = BuiltBy(p) /\ BuildReturns(p, TRUE, "success")
     \/ image' = image      /\ BuildReturns(p, FALSE, "failure")
     \/ image' \in {image, BuiltBy(p)} /\ BuildReturns(p, FALSE, "error")
  /\ UNCHANGED <<scenario, file, scratch, faults, edits>>

NoDocker(p) ==
  /\ proc[p].at \in {"build", "rebuild"} /\ ~proc[p].halfway
  /\ BuildReturns(p, FALSE, "error")
  /\ UNCHANGED <<scenario, file, image, scratch, faults, edits>>

-----------------------------------------------------------------------------
(* run() of the scenarios that work in a scratch directory *)

MakeWorkdir(p) ==
  /\ At(p, "check") /\ scenario \in ScratchScenario
  /\ scratch' = [scratch EXCEPT ![p] = "empty"]
  /\ proc' = [proc EXCEPT ![p] = [@ EXCEPT !.workdir = TRUE, !.at = "plant"]]
  /\ UNCHANGED <<scenario, file, image, faults, edits>>

\* The file with the fake secret, after git init, which may fail; the wheel.
Plant(p) ==
  /\ At(p, "plant")
  /\ \/ /\ scratch' = [scratch EXCEPT ![p] = "planted"]
        /\ proc' = [proc EXCEPT ![p].at = "tool"]
     \/ /\ scenario = "leaked-secret"
        /\ proc' = [proc EXCEPT ![p] = [@ EXCEPT !.at = "log", !.outcome = "error"]]
        /\ UNCHANGED scratch
  /\ UNCHANGED <<scenario, file, image, faults, edits>>

\* git commit and gitleaks, or pip install: undetected, caught, or no verdict.
UseTool(p) ==
  /\ At(p, "tool")
  /\ \E outcome \in Outcomes :
       proc' = [proc EXCEPT ![p] = [@ EXCEPT !.at = "log", !.outcome = outcome]]
  /\ UNCHANGED <<scenario, file, image, scratch, faults, edits>>

-----------------------------------------------------------------------------
(* log_result(), and what replay() and the CLI do in every case *)

\* One event; the handler that forwards it posts it once and never raises.
LogResult(p) ==
  /\ At(p, "log")
  /\ proc' = [proc EXCEPT ![p] = [@ EXCEPT !.at = "cleanup", !.logged = TRUE]]
  /\ UNCHANGED <<scenario, file, image, scratch, faults, edits>>

\* Mutant: cleanup() is not in a finally block.
RunRaisesUncleaned(p) ==
  /\ Fault
  /\ proc[p].at \in {"check", "inject", "build", "plant", "tool", "log"}
  /\ proc' = [proc EXCEPT ![p] = [@ EXCEPT !.at = "exit", !.raised = TRUE, !.halfway = FALSE]]
  /\ UNCHANGED <<scenario, file, image, scratch, edits>>

\* Mutant: the exception is swallowed.
RunRaisesQuietly(p) ==
  /\ Fault
  /\ proc[p].at \in {"check", "inject", "build", "plant", "tool", "log"}
  /\ proc' = [proc EXCEPT ![p] = [@ EXCEPT !.at = "cleanup", !.halfway = FALSE]]
  /\ UNCHANGED <<scenario, file, image, scratch, edits>>

\* A system call of run() fails, or Ctrl-C: the exception passes through
\* replay()'s finally.
RunRaises(p) ==
  /\ Fault
  /\ proc[p].at \in {"check", "inject", "build", "plant", "tool", "log"}
  /\ image' \in {image} \cup (IF At(p, "build") /\ proc[p].halfway THEN {BuiltBy(p)} ELSE {})
  /\ proc' = [proc EXCEPT ![p] = [@ EXCEPT !.at = "cleanup", !.raised = TRUE, !.halfway = FALSE]]
  /\ UNCHANGED <<scenario, file, scratch, edits>>

\* cleanup(): an instance that changed its file writes back what it read; one
\* that did not removes the injected text as it would have written it.
Stripped(c) == [c EXCEPT !.injected = @ \ {"exact"}]

ToWrite(p) ==
  CASE proc[p].original # NoText -> proc[p].original
    [] proc[p].original = NoText /\ "exact" \in file.injected -> Stripped(file)
    [] OTHER -> NoText

\* Mutant: nothing is cleaned after a run that ended in an error.
CleanFileIfCompleted(p) ==
  /\ At(p, "cleanup") /\ scenario \in FileScenario
  /\ proc' = IF proc[p].outcome = "error" THEN [proc EXCEPT ![p].at = "exit"]
             ELSE [proc EXCEPT ![p] = [@ EXCEPT !.original = ToWrite(p),
                                                !.at = IF ToWrite(p) = NoText THEN "exit" ELSE "restore"]]
  /\ UNCHANGED <<scenario, file, image, scratch, faults, edits>>

CleanFile(p) ==
  /\ At(p, "cleanup") /\ scenario \in FileScenario
  /\ proc' = [proc EXCEPT ![p] = [@ EXCEPT !.original = ToWrite(p),
                                           !.at = IF ToWrite(p) = NoText THEN "exit" ELSE "restore"]]
  /\ UNCHANGED <<scenario, file, image, scratch, faults, edits>>

\* Mutant: the image built with the injected line is kept.
RestoreWithoutRebuild(p) ==
  /\ At(p, "restore") /\ proc[p].halfway
  /\ file' = proc[p].original
  /\ proc' = [proc EXCEPT ![p] = [@ EXCEPT !.original = NoText, !.halfway = FALSE, !.at = "exit"]]
  /\ UNCHANGED <<scenario, image, scratch, faults, edits>>

Restore(p) ==
  /\ At(p, "restore") /\ proc[p].halfway
  /\ file' = proc[p].original
  /\ proc' = [proc EXCEPT ![p] = [@ EXCEPT !.original = NoText, !.halfway = FALSE,
                                           !.at = IF proc[p].built THEN "rebuild" ELSE "exit"]]
  /\ UNCHANGED <<scenario, image, scratch, faults, edits>>

\* Mutant: the directory is removed and still remembered.
RemoveWorkdirStillKnown(p) ==
  /\ At(p, "cleanup") /\ scenario \in ScratchScenario
  /\ scratch' = IF proc[p].workdir THEN [scratch EXCEPT ![p] = "none"] ELSE scratch
  /\ proc' = [proc EXCEPT ![p].at = "exit"]
  /\ UNCHANGED <<scenario, file, image, faults, edits>>

\* rmtree of the directory this instance made, if it made one.
RemoveWorkdir(p) ==
  /\ At(p, "cleanup") /\ scenario \in ScratchScenario
  /\ scratch' = IF proc[p].workdir THEN [scratch EXCEPT ![p] = "none"] ELSE scratch
  /\ proc' = [proc EXCEPT ![p] = [@ EXCEPT !.workdir = FALSE, !.at = "exit"]]
  /\ UNCHANGED <<scenario, file, image, faults, edits>>

\* The write or the rmtree of cleanup() fails: the exception ends the command.
CleanupRaises(p) ==
  /\ Fault
  /\ At(p, "restore") \/ (At(p, "cleanup") /\ proc[p].workdir)
  /\ proc' = [proc EXCEPT ![p] = Over(p, "failed")]
  /\ UNCHANGED <<scenario, file, image, scratch, edits>>

Exit(p) ==
  /\ At(p, "exit")
  /\ proc' = [proc EXCEPT ![p] = Over(p, "done")]
  /\ UNCHANGED <<scenario, file, image, scratch, faults, edits>>

\* The process dies; docker may finish the build it was asked for.
Kill(p) ==
  /\ Live(p) /\ ~At(p, "exit")
  /\ image' \in {image} \cup (IF proc[p].at \in {"build", "rebuild"} /\ proc[p].halfway
                              THEN {BuiltBy(p)} ELSE {})
  /\ proc' = [proc EXCEPT ![p] = Over(p, "killed")]
  /\ UNCHANGED <<scenario, file, scratch, faults, edits>>

\* Somebody changes the file, and leaves, alters or removes the injected text.
Edit ==
  /\ scenario \in FileScenario
  /\ edits < MaxEdits
  /\ edits' = edits + 1
  /\ \E injected \in {file.injected, {}} \cup (IF "exact" \in file.injected THEN {{"altered"}} ELSE {}) :
       file' = [text |-> edits + 2, injected |-> injected]
  /\ proc' = Disturbed
  /\ UNCHANGED <<scenario, image, scratch, faults>>

CommandStep(p) ==
  \/ CheckTarget(p) \/ Truncate(p) \/ WriteInjected(p)
  \/ StartBuild(p) \/ BuildEnds(p) \/ NoDocker(p)
  \/ MakeWorkdir(p) \/ Plant(p) \/ UseTool(p)
  \/ LogResult(p) \/ CleanFile(p) \/ Restore(p) \/ RemoveWorkdir(p) \/ Exit(p)

Next ==
  \/ \E p \in Command :
       \/ \E kind \in {"run", "cleanup"} : Start(p, kind)
       \/ CommandStep(p) \/ RunRaises(p) \/ CleanupRaises(p) \/ Kill(p)
  \/ Edit

Spec == Init /\ [][Next]_vars

\* A started process goes on until it ends or is killed: its tools run with a
\* timeout, or are local git commands.
FairSpec == Spec /\ \A p \in Command : WF_vars(CommandStep(p))
-----------------------------------------------------------------------------
(* Properties *)

\* What cleanup() of this process would have undone and never will.
CutOff(p) == proc[p].at \in {"killed", "failed"}

\* replay() cleans up whatever happens (scenarios/replay.py:33): the injected
\* text is in the file, and a scratch directory exists, only while a run is
\* under way that will remove it, or because one was killed or could not; also
\* with several commands at the same file, one of which may undo the other's
\* injection or refuse because of it.
TracesHaveOwner ==
  /\ "exact" \in file.injected =>
       \E p \in Command : /\ proc[p].kind = "run" /\ proc[p].original # NoText
                          /\ Live(p) \/ CutOff(p)
  /\ \A p \in Command : scratch[p] # "none" => proc[p].workdir \/ CutOff(p)

\* A command that nobody disturbed and whose cleanup() came to its end leaves
\* the file as it found it without what an earlier one injected, whatever failed
\* in between; and a run's build is not the last one of the image, unless the
\* file was dirty, the build got no verdict or a warning of _rebuild() said so
\* (scenarios/malicious_dependency.py:93).
LeavesAsFound ==
  \A p \in Command :
    At(p, "exit") /\ Alone(p) =>
      /\ file = Stripped(proc[p].found)
      /\ p \in image => \/ proc[p].found.injected # {} \/ proc[p].warned
                        \/ proc[p].outcome \notin {"success", "failure"}

\* A run that ends without an exception has logged its one event; a verdict of
\* a tool is about the thing injected: an undisturbed success was a build of
\* the injected line, and a scan or an install had its target in place.
VerdictsAreReal ==
  \A p \in Command : proc[p].kind = "run" =>
    /\ At(p, "exit") => proc[p].logged \/ proc[p].raised
    /\ proc[p].at \in {"log", "cleanup", "restore"} =>
         /\ scenario = Dependency /\ proc[p].outcome = "success" /\ Alone(p) => proc[p].poisoned
         /\ scenario \in ScratchScenario /\ At(p, "log") /\ proc[p].outcome # "error"
              => scratch[p] = "planted"

\* An injection does not stay: it is removed, or whoever would have was cut off.
InjectionRemoved ==
  "exact" \in file.injected ~> "exact" \notin file.injected \/ \E p \in Command : CutOff(p)
=============================================================================
