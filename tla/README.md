# Bantis, modelled in TLA+

Bantis watches a small system (the *range*) that is attacked on purpose (the
*attack simulator*), turns the events into incidents (the *detection engine*),
has each incident analysed by a paid model (the *AI Copilot*) and can answer
with an action of its own (the *response controller*). These modules model the
parts that coordinate: several processes over one database, one log, two files
and one variable on GitHub. Paths below are those of the repository.

## Inventory

| Component | State | Operations | What is hard | What makes it correct |
|---|---|---|---|---|
| Correlation rules (`detection-engine/app/correlation.py`) | none | `correlate` | rules compete for events; waits against late partners | one incident per event in a pass; loops agree with the rules; waiting only delays |
| Correlation passes (`correlation.py`, `scheduler.py`) | tables incidents, claims | `run_correlation`, the scheduler thread | concurrent passes, retries, three queries that are not one snapshot | no event in two incidents, ever; no composite lost, no burst split or held for ever |
| Ingestion (`routers/events.py`) | table events | `POST /events` | producers repeat calls; check then insert | idempotent; one 201 per event |
| Read API, scorecard (`routers/incidents.py`, `scorecard.py`) | none | list, get | paging while incidents come in | (seen through the worker) |
| Worker (`ai-copilot/worker.py`) | cursor, processed and announced ids, back-off | `poll_once`, `run_forever` | crashes, outages, late commits, limits | nothing missed, nothing paid twice |
| Decision log (`decision_log.py`) | tables decisions, claims, followups | append, claim, release, counts | several processes, leases, failed writes | one decision per incident |
| Budget (`budget.py`) | the log's token counts | `status`, `record` | checked before, charged after | bounded overshoot |
| Follow-up API (`api.py`) | table followups | `ask` | concurrent questions | limits hold for questions too |
| Provider, parser, prompts | none | `analyze_traced`, `ask` | repair loop, outages | every call ends, and is accounted for |
| Kill switch (`response-controller/kill_switch.py`) | two files | `engage`, `trip`, `read_state` | commands racing, files read one after the other | fails closed; stopping always wins |
| Executor and promotion hold (`executor.py`, `actions/`, `github_client.py`) | record of executions; variable on GitHub | `run` | the world changes between check and act; half-done writes | permitted, approved, once; stops after a failure |
| CI promotion (`.github/workflows/ci.yml`) | the `:latest` tag | promote, rollback | the hold is evaluated before it is used | nothing is promoted under a hold |
| Range task API (`range/api/app`) | table tasks, Redis cache | list, get, create, update, delete | a read that fills the cache races a write that empties it; a write fails half-way | staleness has a bound, and a cause |
| Attack simulator (`attack-sim/`) | two files of the repository, scratch directories, the api image | `run`, `cleanup` | runs cut off between the change and its undoing; two commands at one file; edits by hand | an injection never stays unless someone was cut off |
| Range auth, gateway, drill; evaluation script | none that outlives a run | | external tools | |

Interaction: the range and the simulator POST events to the detection engine;
its scheduler thread correlates what is stored; workers poll its incident list
over HTTP and share the decision log (SQLite) with each other and with the
follow-up API; the response controller is to receive proposals, reads the kill
switch's files and talks to GitHub, whose variable CI reads.

## Modules

| Module | Models | Correspondence |
|---|---|---|
| `CorrelationRules` | `correlate` | Declarative: `CompositePairs`, `ClusterByGap`, `Bursts`, `Correlate(events, now)`. `now = Batch` is `now=None`. The greedy pairing is a recursive function over the sorted candidates. |
| `CorrelationLoops` | the same functions as loops over sorted lists | `PairLoop`, `ClusterLoop`, compared with the rules on every small input |
| `Correlation` | ingestion, passes, scheduler, database | one action per query or commit: `Lookup`/`Flush`/`CommitEvent` for a request, `StartPass`, `ReadIncidents`, `ReadClaims`, `ReadEvents`, `CommitPass`, `RetryPass`, `FailPass` for a pass |
| `IncidentLedger` | what readers of the incident tables rely on | abstract specification, implemented by `Correlation` |
| `CopilotWorker` | `poll_once`, the decision log, limits, crashes and restarts | `Poll`, `TakeNext`, the gates in the order of the `elif` chain, `Claim`, `Fetch`, `Answered`, `Record`, `EndPoll`, and the ways each can fail |
| `CopilotSpending` | who pays for what: analyses with their repair loop, follow-up questions in threads, limits and budget | `Admit` is the worker's gates and claim in one step, `FinalReply`, `RejectedReply`, `AnalysisUnavailable` and `WorkerError` are an iteration of `analyze_traced`; `Ask` to `RecordFollowup` follow `ask`, one step per query |
| `KillSwitch` | the two files and who writes them | `Kill`, `WriteTmp`, `Replace` are `engage` cut at its reads and writes; `Effective` is `read_state` |
| `ResponseController` | the executor with its two actions, over `KillSwitch` | `Begin` to `RecordOutcome` follow the numbered steps of `executor.py`; each reading of a switch file and each request to GitHub is a step |
| `AttackSim` | `cli.py run` and `cli.py cleanup` for the four scenarios, any number of processes | `CheckTarget`, `Truncate`, `WriteInjected`, `StartBuild`, `BuildEnds` and `MakeWorkdir`, `Plant`, `UseTool` are `run()`; `LogResult`, `CleanFile`, `Restore`, `RemoveWorkdir` what `replay()` does next; `RunRaises` its `finally`. A write is two steps, because `write_text` empties the file first |
| `TaskApi` | the task routes over their table and cache | one action per `await`: `Lookup`, `Select`, `Put` for a read, `Insert` or `Find` and a commit, `Refresh`, `Drop` for a write |
| `*Proofs` | theorems | see Proofs |
| `MC*` and `.cfg` | instances for TLC | |

Operators whose name follows the one they vary and whose comment begins with
"Mutant" are deliberate mistakes. Each property is shown to be broken by one of
them in place of the definition it varies, under the run that checks it.

## Runs

Times are scaled down and keep their order (a burst's window < a composite's <
the longest hold; a lease > an analysis). Bounds on clocks, faults, calls and
retries are constants whose comments say "bound".

| Run | Instance | What it asks |
|---|---|---|
| `rules` | every set of up to 3 events of 8 kinds, 4 of the composite kinds, 5 of one source | do the loops take what the rules name; is an event used once in a pass; does waiting only delay, and never an urgent pattern |
| `claims` | 2 passes, 2 requests, 4 events, commits up to a tick late, a legacy incident without claims, a failing pass, passes with and without `now`, fair | is an event ever in two incidents or created twice; is `IncidentLedger` implemented; is every burst reported in the end |
| `timing` | 1 pass at a time, 4 requests at any of 4 moments, clock to 4 | are composites lost, bursts split, or bursts held beyond the maximum |
| `billing` | 2 workers, 1 incident, crashes, failed writes, outages, replies that break the parser, failed fetches; two faults in all, at any time until the lease of a first claim has run out, fair | how often is an incident paid for; is an append ever a duplicate; is every incident decided in the end, or each worker stopped or its own write of it failed |
| `window` | 1 worker, 3 incidents of which one is skipped, 1 analysis an hour, late commits, outages, failed fetches, records made without a call, a longest wait that cuts the doubling off | does anything fall behind the cursor; is it announced once; does the wait double while the provider is not marked up |
| `spending` | 2 workers, 3 incidents, 2 replies per analysis, 3 questions in 2 threads, limits and budget of 1, two days, one fault of any kind | how far are limits and budget exceeded; is every token recorded, in hand, or lost in one of three known ways; does a question continue the conversation |
| `controller` | 1 operator, 2 approvers, a hold and a lift in two versions, 2 executions, 1 edit by hand, 1 fault | are writes permitted, approved, made once, and none after a failure |
| `attacks` | 2 commands, each of the four scenarios in turn, 1 edit, 1 failed call or interrupt, kills at any step, fair | does what was injected stay; does a command leave things as it found them; is what a run reports about what it injected |
| `tasks` | 3 requests of any kind, 2 tasks of which one exists, a TTL of 1, requests that take up to 1, one fault | how stale can an answer be, and by what cause |
| `forgets` (violation) | 1 worker, 3 incidents, 1 failed write and 1 failed fetch | "marked done once analyzed": it is not |
| `unrecorded` (violation) | 1 worker, 3 replies per analysis, 1 reply that breaks the parser | "every model call's token usage is recorded per attempt": it is not |
| `kill_lost` (violation) | 2 operators, 3 commands | "never lowers the current operator level": it can |

Why the bounds suffice: each hazard needs two actors (passes, workers,
operators) and, at the most, three incidents or four events to show; a further
actor of a kind repeats what the second one does. The clocks reach past every
wait and lease in the instance. Where that argument is weakest, in the number of
workers, passes and incidents, the theorems below hold for all of them.

In `billing` faults can happen until tick 3, which is the lease: the second worker
can take the incident over from the first, whose write failed, and fail to write
it as well. Its one incident is enough for what it asks about payments and
decisions; that nothing is missed behind the cursor is asked by `window`.

In `spending` an hour and a day are one tick of the clock each: calls are checked
on one day and recorded on the next. Its log starts with yesterday's decisions,
so that there is something to ask about.

The runs stop when a bound is reached, so deadlock is left unchecked in
`attacks`, `controller`, `rules`, `spending`, `tasks` and `unrecorded`; everywhere else time keeps passing or stutters, and it
is checked.

Fairness. `Correlation!FairSpec`: the scheduler's thread starts a pass every
interval and catches whatever a pass raises (`scheduler.py:43-50`), its queries
return, a flushed transaction commits, time passes. Nothing makes a client call.
`CopilotWorker!FairSpec`: `run_forever` polls after every interval, and all its calls
have timeouts. Nothing in the repository starts a stopped worker again, so
nothing is assumed of `Start`.
`AttackSim!FairSpec`: a command that was started goes on until it ends or is
killed, because its tools have timeouts or are local `git` commands.
No fairness is assumed of any fault, kill or edit, so faults are bounded and not required.

What `EveryIncidentDecided` says of the workers is therefore conditional: no incident
waits for ever, unless each worker is stopped or has itself failed to write its
record. That exception is real. An append that fails leaves the incident
processed (`worker.py:292`, `:157`), so the process never lists it again; the
other worker takes it over when the lease runs out, but if its append fails too,
the incident stays undecided until some worker is started with a `--since`
before it. The run reaches that state.

### The three disagreements

- `forgets`. A worker drops the ids it has processed that lie a lookback before
  its new cursor (`worker.py:183`), and the cursor can move *back*: an incident
  that becomes visible late and is deferred is older than everything done. If
  the log write of an analysed incident failed, its id is then neither in the
  log nor remembered, and it is listed and paid for again by the same process.
  `ai-copilot/README.md:109` says it is marked done once analysed.
- `unrecorded`. A reply that is JSON and has a list or an object as its action's type
  makes `parser.py:69` raise `TypeError`, since neither is hashable. (An integer too
  large for `math.isfinite` at `:53`, or for `json.loads`, ends the same way with an
  `OverflowError` or a `ValueError`.) `parser.py:101` and `providers/claude.py:108`
  catch only `OutputParseError`, so the exception leaves `analyze_traced` with the
  attempts made so far, and `worker.py:278-281` records a decision without a call.
  The tokens of that reply and of the rejected ones before it are in no record and
  count neither towards the budget nor, as a call, towards the hourly limit.
  `ai-copilot/README.md:300` says that every call's usage is recorded, and
  `:352-354` that a parse failure produces no other exception. `EveryTokenCounted`
  counts what is lost like this (`WorkerError`) and says that there is no fourth way.
- `kill_lost`. `engage` reads, decides and renames without a lock
  (`kill_switch.py:97-102`). Two commands at once can leave the milder level of
  the two, against the docstring in line 92.

What each of them takes is settled by a theorem: the statement holds as long as no
write of the log fails (`AnalyzedOncePerLife`), as long as replies break no parser,
writes do not fail and no worker crashes (`CallsRecorded`), and with one operator
(`KillsNeverLower`).

Two more places where the documents say more than the code does are not runs of
their own, because a property that a passing run checks states what the code does:

- The overshoot of the budget. FastAPI runs `ask` in a pool of threads, and each
  reads the budget (`api.py:145`) before any other is recorded.
  `ai-copilot/README.md:321` bounds the overshoot by the one call a process had in
  flight; for the API it is one per thread, which is what `BudgetOvershoot` states
  and `spending` shows. The documented bound is `OneInFlightPerProcess`: TLC refutes it
  if it is added to the invariants of `MCSpending.cfg`, and `OvershootOfOneThread`
  proves it for one thread. `QuestionLimitSoft` is the same for "at most 60
  questions per rolling hour".
- The back-off. `ai-copilot/README.md:151-153` says that each further failure doubles
  the wait and the first success resets it. `worker.py:150` marks the provider as up
  after every decision, also one made without calling it (the evidence is gone,
  or the analysis broke down), so in the middle of an outage the wait can start
  again at its shortest. `BackoffDoubles` counts failures from the last decision of any
  kind, `window` makes such records, and `WaitDoubles` is about that count.

## Proofs

Checked by TLAPS for every value of the constants that meets the named
assumptions.

- `CorrelationRulesProofs` (assumes `WindowsAreNat`): lemmas about one pass. The
  code's greedy pairing is a recursion over pairs; that it has a solution for
  any finite set of events is part of `PairsTaken`: a pair is taken iff
  it is within the window and no pair that comes before it and shares a half
  with it is (a kernel of "comes before and shares a half", found by induction
  over finite sets, `KernelExists`). From it follow that the incidents of a pass
  share no event (`IncidentsApart`), that of two halves close in time one is
  paired (`OneHalfPaired`), and what bursts contain (`BurstClosed`, `HeldIsReported`).
- `CorrelationLoopsProofs` (also `MenusAssumption`): all that the `rules` run
  checks, for inputs of any size. `PairsAgree` and `ClustersAgree` say that the
  loops of the code compute what the rules name. The loops are folds, which the
  library defines by recursion over sets of positions: `FoldExists` shows that
  this recursion has a solution, and `CountingUp` gives induction over the
  prefixes of the list, one loop step at a time (`NextPair`, `NextCluster`).
  `PassesConsistent`, `WaitsEnd` and `UrgentAtOnce` follow from the lemmas above and
  the invariant `RowsOK` of the stored rows; `InputsTyped` is its type invariant.
- `CorrelationProofs` (assumes `CorrelationAssumption`, `EventsAssumption`,
  `WindowsAreNat`): `TypeCorrect`, `EventsNotShared`, `EventsCreatedOnce` and
  `TablesImplementLedger`. That no event is in two incidents is not inductive:
  nothing in it says why a new incident avoids the old ones. The invariant
  `IInv` adds that claim rows cover every incident made since the table exists
  (`ClaimsCover`), so that the primary key keeps those apart, and that a pass
  past its first query knows the events of the legacy incident
  (`PassSawLegacy`, `PlansAvoidLegacy`), which has no rows. It is here that the
  order of the queries matters. Refinement follows because commits only add.
  `CompositesKept`, `BurstsWhole` and `HoldEnds` are about time, and a state does
  not say what a pass knew when it grouped the events. `TimingInv` does: a plan,
  and so every commit, follows from some `now` and from all events but those in
  earlier incidents and those stored less than `CommitLag` before that `now`, or
  later (`PlansInformed`, `CommitsInformed`). What a pass knew and did not use for a
  burst it used otherwise, or could not use; that no event is in two incidents
  does the rest. The first two need `~ByHand`, since a pass without `now` waits for nobody;
  the third needs `HoldOutlasts`, which 600 s meets as long as a commit takes less.
- `CopilotWorkerProofs`: `TypeCorrect`, one lemma per action, and `PaidOnce`. The invariant `PaymentInv` adds that a worker
  that analyses holds an unexpired claim (`ClaimHeld`), so no two analyse the
  same incident, and keeps an account: until its answer comes nothing is paid
  for an incident in hand that is not lost (`NothingPaidYet`), nor for one that
  is undecided and in nobody's hands (`NothingPaidFor`). It rests on
  `LeaseOutlivesAnalysis`: one fetch and all provider attempts, plus the wait for
  the lock, are shorter than the lease (at most about 10 minutes against 15).
  `NoDuplicates` follows from the same account and the condition `PoliciesAgree`:
  what a worker has claimed stays undecided in its hands, because no other may
  record even a skip for it.
  `WindowReachesAll` is under `LogNeverFails` (with failed writes the statement is
  false, as `forgets` shows from the other side) and `LateCommitsInLookback`. The
  invariant follows an incident through a poll (`Tracked`): it is in the list, or
  holds the cursor, or is too young for anything in the list to move the cursor
  past it.
  `AnnouncedOncePerLife` is under `LogNeverFails` too, for the same reason: what a
  worker forgets and lists again it could announce again. Its invariant
  (`Remembered`) is that an incident told about is either still among those
  announced or decided, and one in hand is not forgotten: what holds it in memory
  also holds the cursor back (`AnnouncedHolds`, `ListedSinceStart`).
  `WaitDoubles` has no condition: it counts the failures since the provider was last
  marked up, by a decision of any kind. It needs one more fact about a worker,
  that without failures there is no wait, and that powers of two are numbers that
  grow, which is proved from subsets (`PowersOfTwo`) because no prover knows `^`.
  `AnalyzedOncePerLife` (`LogNeverFails` again): what a process analysed is decided or
  about to be recorded, and nothing decided is taken up (`AnalyzedIsDecided`).

- `ResponseControllerProofs` (assumes `ControllerAssumption`, `KillsAreNat` and
  that approvers are finitely many): `TypeCorrect`, `EveryWriteApproved`,
  `OneWritePerAction`, `FailureStops` and `SwitchRespected`, the last with one
  operator. The approvers a run counts did approve this version while it was
  open (`Vetted`); an action id is recorded before its one write, and a recorded
  id is never taken up again (`WriteAccount`); after a failure the tripwire is
  about to be written or stops whoever reads it, since a run takes its last reading
  right before it writes (`Tripped`). `SwitchRespected` needs `Opened`: a
  half-finished reading that would permit the job is of a state that did,
  because the one operator deletes the tripwire only over a cleared switch.
  `KillsNeverLower` is about the switch on its own: what a command under way will
  put in place is at least as strict as what is there (`PendingIsStricter`).
- `TaskApiProofs` (assumes `TaskAssumption`): `TypeCorrect`, `Staleness` and
  `OnlyByRace`, for any number of requests, tasks and faults. Every value in hand
  or in the cache carries a date: nothing that replaced it is older than the
  arrival of the request that read it (`Dated`, `EntryOK`), so that storing it
  late cannot prolong it beyond a request's duration. For the cause, `Meet` says
  that a read knows each write that runs beside it, and `StaleEntries` names
  for each stale entry one to blame; the step that matters is the commit, after
  which the writer itself is to blame until it has deleted its keys.
- `AttackSimProofs` (assumes `SimAssumption`): `TypeCorrect`, `TracesOwned`,
  `FoundIsLeft` and `VerdictsFollow`, for any number of commands and edits. Per
  command, the invariant relates the text it keeps, the file, the image and its
  verdict to its step (`Place`, `KeptText`, `FileFollows`, `ImageFollows`,
  `VerdictFollows`), the middle two as long as it is alone; `Owned` is
  `TracesHaveOwner` and inductive with these.
- `CopilotSpendingProofs` (assumes `SpendingAssumption`): everything the `spending`
  run checks, for any number of workers, questions, threads and faults.
  `AnalysesBounded`, `QuestionsBounded`: that an hour's records stay within the
  limit plus those who share it is not inductive, since a check that passes adds
  its record later. `AnalysesCounted` and `QuestionsCounted` add to the records of
  an hour the calls under way whose record may still fall into it. A check that
  passes in that hour saw every one of its records and leaves room for one;
  besides the records there are at most as many calls as workers, or threads.
  `TokensCounted`: every token charged is recorded, in hand, or lost in a crash, a
  failed write or a reply that broke the parser; `CallsRecorded`: without those
  three nothing is lost (`NothingLost`).
  These are sums over growing tables; `SumIsCount` shows that a sum is the number
  of its units, and what a sum gains by one element follows from cardinalities.
  Each step moves tokens from one book to another (`WorkerBooks`, `QuestionBooks`,
  `CrashBooks`); the invariant `InStep` says who can hold any.
  `OvershootBounded`: `BudgetKept` does for a day's tokens what the counts do for an
  hour's records, with the replies that may yet be recorded on that day
  (`RepliesDue`), each of at most the cost of the dearest; `OvershootOfOneThread`
  is what remains of it with one thread.
  `ConversationKept`: an answered question's row stays in the log (`RowsTell`), rows
  are in the order of their ids, which a set of numbers has exactly one of
  (`InOrderIs`), and the turns a question reads are the last of them.
  `SpendingTyped` rests on where each caller stands (`Placed`).

Several fields of a record in a function are updated as `![p] = [@ EXCEPT ...]`:
tlapm 1.4.5 takes two updates at one index for contradictory and then proves
anything. Against such accidents the leaves were also tried with `FALSE` as their
goal: it follows only in two cases of `TaskApiProofs` that cannot occur and are
there to say so.

Every invariant and action property that a passing run checks is also a theorem.
Only model-checked: liveness (`BurstEventuallyReported`, `EveryIncidentDecided`,
`InjectionRemoved`), which needs fairness and with it ENABLED, beyond this prover;
and the three disagreements, which are counterexamples (with the theorems above on
when they cannot arise). A theorem's conditions
are met by the run that checks the same property: `controller` has one operator,
no write of the log fails in `window`, and every pass of `timing` is the scheduler's.

The library's folds that recurse through an operator (`MapThenSumSet`, `SelectSeq`,
`SortSeq`) are opaque to the prover. Where something is proved about a sum or a
sorted list, the model uses `SumFunction`, or names the list by what it is: the
only one with the set's elements in order (`Sorted`, `InOrder`).

## Abstractions, and what is left out

- SQLite's transactions are atomic and its primary keys hold; a process can die
  between two of them. `POST /events` cut short before its commit has no effect.
- A failed listing changes nothing in a worker and is a stuttering step.
- An event that is half of a composite and an untrusted pull as well is reported
  at once and then not there for the composite; `CompositeNotLost` counts that as
  used first. `TooLateFor` allows a row `CommitLag` from its receipt to the table.
- `AttackSim`: the newline that `append_text` may put before the line, files that
  are missing, the `noop` scenario, the check of `BANTIS_ENV`, and the handler
  that forwards the logged event. A file is a version of its text and the forms
  in which the injected text is in it. No two scenarios touch the same thing, so
  a behaviour is about one of them.
- `attack-sim/README.md:92` promises that every `cleanup()` recovers a dirty state
  without memory. That is narrower in the code: a fresh instance knows no scratch
  directory (`leaked_secret.py:130`) and removes the injected text only as it was
  written. `TracesHaveOwner` and `InjectionRemoved` say what holds: the traces
  stay after a kill, and only then.
- `TaskApi`: the fields of a task are a version number, tokens are valid. A row
  deleted by another request between an update's commit and its refresh makes
  that update end in an error without deleting its keys; `StaleOnlyByRace` lists
  this among the causes.
- A question's text, its validation and its token; the endpoints that only read.
- A call that was cut short by a crash is not counted as billed in
  `CopilotSpending`; nobody but the provider knows whether it was.
- Confidence scores, summaries, texts, log lines and the contents of prompts.
- A worker without a decision log, and workers whose policies disagree about an
  incident (`worker.py:287`: an analysis can then be a duplicate; the condition
  of `NoDuplicates` is exactly that they agree).
- Records made without a provider call because the evidence is gone cost nothing
  and are left out of `CopilotSpending`; `CopilotWorker` has them (`AnalysisImpossible`).
- A `Retry-After` that the provider's SDK obeys between its own attempts is not part
  of the sum behind `LeaseOutlivesAnalysis`.
- Releasing a claim is best effort in the code (`worker.py:226-229`); `ReleaseClaim` may
  leave it to its lease.
- A new executor process: the only recorder is in memory and nothing starts the
  executor yet; `executing` lives as long as it. The action log, `approve` and
  `resume` do not exist yet; approvals come from outside and the switch is
  cleared by hand, the operator's file first, then the tripwire.
- Two operators of whom one clears the switch by hand while the other kills:
  `read_state` reads one file after the other and can combine two that were
  never there together. `controller` has one operator.
- `ai_off`, which nothing reads yet.

## Not modelled

- CI (`.github/workflows/ci.yml`): when the service reads a repository variable, and
  what it does to the runs of a concurrency group it cancels, decides everything
  one would want to state, and neither is in this repository. The variable is
  part of `ResponseController`.
- The hash chain of the decision log: a link is computed inside the transaction
  that appends, so it adds no interleaving to those modelled.
- The counting of tokens in a process without a decision log, which shares nothing.
- Authentication, gateway, credential drill, prompt evaluation, scorecard: no state
  that outlives a call or a run.

## Plan

1. (done) Detection engine, workers with claims, window, limits; kill switch and
   executor; follow-up API and provider over the same log and budget; range task
   API; attack simulator; the theorems above.
2. (done) Every invariant and action property of a passing run proved.
3. Workers whose policies disagree about an incident, with an account of which
   analyses are then duplicates.
