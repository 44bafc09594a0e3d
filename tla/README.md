# Verification of batuta deliveries

Batuta is a Go extension of CompozyOS that delivers an authored task set: it
routes every task to a runtime, runs the tasks in parallel worktrees, integrates
their commits into one branch, recovers from failed attempts, and publishes the
result. Its state is a journal per workspace, written under a workspace lock;
the work is done by CompozyOS loop runs that call the extension's tools. This
directory models the parts of it where concurrent calls, crashes and late
answers meet, checks them with TLC and proves their central properties with
TLAPS. Line numbers below refer to `internal/extensionapp/` unless a path is
given.

## 1. Inventory

| component | state | operations | interacts with |
|---|---|---|---|
| delivery graph service (`delivery_graph_service.go`, `delivery_graph.go`) | the delivery's graph in the journal: waves, attempts of each task, integrations, cleanups, pauses; settlement intents | prepare_wave, task_context, record_question, record_answer, record_failure, record_candidate, settle_wave, cleanup, terminalize | called by the core loop and by child runs; reads runs from CompozyOS, moves the integration worktree through the integrator |
| delivery attempts (`routing_recovery.go`, `delivery_envelope.go`, `delivery_client.go`) | the attempts of a delivery and its disposition | Start, Recover, Reconcile | called by the operator's agent; starts and lists runs with the CompozyOS command line |
| loops (`loops/batuta-deliver`, `batuta-deliver-core`, `batuta-task`) | node outputs of a generation | the launcher runs the core; the core prepares waves, fans out children, settles, reviews, publishes; a child implements one task and may ask the operator | call the tools above |
| integration journal (`delivery_integration_journal.go`) | operation states and settlement intents | load, compare-and-swap | the integrator of batuta-ai/core |
| task worktrees (`internal/worktreeops`) | CompozyOS worktrees | derive identity, list, create, remove | graph service |
| routing runtime (`routing_runtime.go`) | routing generations, delivery records | plan, apply, align | operator's agent |
| routing and budget context (`routing_context.go`) | in-memory accounting of implementation runs | report rules and remaining budget | runs of sequential deliveries |
| tools, wiring, client (`routing_tools.go`, `inventory_tools.go`, `app.go`, `tool_errors.go`, `main.go`, `internal/compozyclient`) | none | validation, process execution, decoding | everything above |

What is hard here, and what makes each part correct:

* **Graph service.** Every operation reads the journal without the lock, asks
  CompozyOS or Git, and commits under the lock what it learned. Between the
  parts other calls commit, the delivery may be closed, and the extension may
  crash. Correct means: a task never has two live attempts, no history is
  rewritten, the token ceiling is shared and handed on without being granted
  twice, the integrations form one chain of commits, every base contains its
  dependencies, a candidate stands for a run that really completed this attempt,
  and the wall clock stands still exactly while only a human is waited for.
* **Attempts.** Start holds the lock across the start command, but the command
  may time out, be carried out later, or succeed and have its answer lost; the
  run works in the worktree meanwhile. Correct means: an attempt is bound to one
  run, is started a second time only if nothing tells of the first, is settled
  once and charged once, and a closed delivery stays closed and starts nothing.
* **Loops.** They decide what happens after each refusal, crash and timeout.
  Correct means that a delivery always comes to a disposition, that done stands
  for a delivery that was integrated, reviewed once and verified, and that nothing
  is launched for a delivery that is closed.
* **Integration journal.** A prefix of candidates is applied commit by commit
  with a compare-and-swap. Correct means that a crash leaves an exact prefix.
* **Worktrees and cleanup.** A worktree is created before it is recorded and
  removed before the removal is recorded. Correct means that a replay finds it,
  that two runs never share one, that nothing with evidence that changed is
  removed, and that journal, report and disposition agree with what is left.
* **Budget context.** It grants what a run may still use; for deliveries without
  a graph it keeps part of its accounting in memory only.

`PROJECT.json` lists every hazard with its line and the properties that cover it.

## 2. Modules and plan

1. `DeliveryGraph` with `MCDeliveryGraph` (seven configurations) and its proofs
   in `DeliveryGraphProofs` (types), `DeliveryGraphHistoryProofs` (the history of
   a task, the human pause and the runs behind candidates),
   `DeliveryGraphChainProofs` (integration, bases and fences) and
   `DeliveryGraphBudgetProofs`. `Totals` has the one sum the models use,
   `TotalTheorems` what the proofs need of it.
2. `DeliveryLedger`, the abstract promise of a delivery's attempts, and
   `DeliveryAttempts`, which implements it (`Ledger == INSTANCE DeliveryLedger
   WITH ...`), with `MCDeliveryAttempts` (two configurations) and
   `DeliveryAttemptsProofs`.
3. `TaskWorktrees` with `MCTaskWorktrees` (two configurations) and
   `TaskWorktreesProofs`: planning, finding, creating, attaching, inspecting and
   removing the worktrees of the attempts, against a CompozyOS that may carry out
   a command without answering it, and long after its call gave up.
4. `DeliveryLoops` with `MCDeliveryLoops` and `DeliveryLoopsProofs`: the composition. It extends
   `DeliveryGraph`, instantiates `DeliveryAttempts` over the same state
   (`A == INSTANCE DeliveryAttempts WITH graph <- GraphView, ...`), adds the nodes
   and routes of the three loops, and states the fairness under which a delivery
   closes. `AttemptsAreImplemented` says that the whole implements
   `DeliveryAttempts`, which in turn implements `DeliveryLedger`.

`DeliveryAttempts` and `DeliveryGraph` meet in two places: `GraphMoves` of
`DeliveryAttempts` is what the graph operations may do to the five facts that
Reconcile reads of the graph, and `Terminalize` appears in both, with its proof
obligation in `DeliveryGraph` and its effect on the attempts in
`DeliveryAttempts`. `DeliveryLoops` checks that the two sides agree.
`TaskWorktrees` stands beside the composition: it has the worktrees in detail and
the rest of the delivery as the few things that can happen to an attempt.

## 3. DeliveryGraph

**State.** `dState`, `tState`, `att`, `waves`, `integrations`, `blockers` and
`paused` are the delivery record and its graph; `att[t][e]` is the attempt with
execution `e` of task `t`, `count[t]` the length of the task's list. `intents`
are the persisted settlement intents. `head` and `results` are the integration
branch and the integrator's own journal in Git. `runs` are the batuta-task runs
of CompozyOS. `call[c]` is what one invocation holds between two of its parts;
it is the only volatile state, and `CallEnds` throws it away: a refused guard, a
failed command and a crash of the extension look the same to the journal.

**Actions.** Each operation is its parts: `PrepareRead` (HEAD is read without
the lock, 206-221), `PrepareResume` or `PrepareAdmit` (the locked section), one
`AttachWorktree` per task, `PrepareReturn`; `...Load` and `...Commit` for
question, answer, candidate and failure, and for the candidate between the two
`CandidateRecent` (the list of runs, 2058), `CandidateStatus` (the run, 909) and
`CandidateInspect` (the worktree, 951), each with any steps of others in between; `SettleLoad` or `SettleResume`,
`SettleIntent`, `Integrate` or `IntegrateReplay`, `SettleCommit` or
`SettleReplay`; `Terminalize`, whose reads and write are in one locked section.
The child run (`TaskContext`, `ChildCompletes`, `ChildFails`, `ChildAsks`,
`HumanReplies`, `NextGeneration`) follows `loops/batuta-task/loop.yaml`, and
`StartChild` the fan-out of the core loop.

**Names of data.** Tasks are numbers in authored order. A commit of the
integration branch is the number of task commits below it, because only
`Integrate` moves the branch and it only appends; a candidate commit is the pair
of task and execution that made it; a worktree (`att[t][e].tree`) is the wave in
its identity. Prompts are model values.

**Abstractions.** record_question, record_answer and record_failure ask for the
status of one run after they loaded the journal; that read is taken together with
the load. What they take from the journal is checked again by the commit
(`StillRunning`, and the waiting attempt of `AnswerCommit`), so a load a little
earlier commits nothing else. The planning and attaching sections of the worktree are one
step (`TaskWorktrees` has them apart). The operations the integrator performs are one step, which may conflict
with a candidate unless that was made on the very head it is applied to. The
cleanup branch of terminalize is in `TaskWorktrees` and `DeliveryLoops`, as are
the outputs that route the core loop; outputs that only report are left out. Question replays
write nothing and are omitted. Runtimes and blocker codes are left out: a
failure with or without another runtime to fall back on is a choice of
`FailureCommit`.

## 4. DeliveryAttempts and DeliveryLedger

**State.** `attempts` and `dState` are the delivery record; `tree` is the
fingerprint of the delivery worktree, a number that every change increments;
`graph` is what Reconcile reads of the graph; `runs` are the start commands that
were sent, each with the run it created, if any; `lock` is what the holder of
the workspace lock is doing. Start and Recover hold the lock from the first read
to the last write, so only one of them is ever under way.

**Actions.** `Plan` or `Exhaust` is the first part of `start` up to the first
persist; `Adopt`, `Ambiguous` and `Send` are the three outcomes of listing the
recent runs; `StartReturns` is the answer of the command, `GiveUp` the error,
the 30 seconds or the crash that comes instead. `RunCreated` is CompozyOS
carrying out a command, also one that was given up; from then on `RunWorks`,
`GraphMoves`, `Terminalize` and `RunEnds` may happen. `Reconcile` is the whole
settlement of the attempt, with the evidence that `settlementParentDetail`
derives from launcher and core, the charge for the graph's tokens and the
disposition.

**Abstractions.** The terminal data of launcher and core is one field, set when
the launcher ends, because neither changes afterwards. Deliveries without a
graph settle with no failed task. Refusals by the task snapshot or the routing
rules are calls that end. Only running runs change the worktree, and fewer than
200 runs are listed. The bound `MaxStarts` limits the commands sent; a caller
that would exceed it can still give up.

**The ledger.** `DeliveryLedger` says: attempts are opened one at a time and at
most `AttemptCeiling` of them; each is bound to one run that no other attempt
ever had; it is settled once, after it was bound; and a delivery that is closed
opens and binds nothing and stays closed. The refinement maps `closed` to
"not active", `bound` to the run of each attempt and `settled` to the number of
terminal attempts.

## 5. TaskWorktrees

**State.** `att`, `waves`, `head`, `cleanups` and `dState` are the journal:
`att[t]` the attempts with their worktree intent and ID, `cleanups[id]` the state
of the cleanup operation of a worktree. `trees` are the create commands that were
sent, each with the worktree it created; `content` is what `WorktreeState` shows
of one, `asked` that a remove command was sent for it. `lateCreate` and
`lateRemove` mark the commands whose call ended before CompozyOS had carried them
out. `call[c]` is what a call holds
between two steps, `lock` who is in `WithLockedJournal`, `report` the disposition
the last cleanup returned.

**Actions.** `PrepareTask`, `PlanWorktree` (1632-1673), `OpenWorktree`
(1675-1695), `CreateWorktree` and `AttachWorktree` (1696-1722) are
`reconcileTaskWorktree`. `CleanupLoad` and, for each worktree in authored order,
`CleanupInspect`, `CleanupPersist`, then under the lock `CleanupRetain`, or
`CleanupCheck`, `CleanupRemove` and `CleanupRecord`, and at last `CleanupReturns`
are cleanup (1367-1621). `CreateWorktree` and `CleanupRemove` send a command, and
the call waits for what CompozyOS does with it: `WorktreeCreated`, and
`RemovalBegins` and `RemovalEnds` with the state removing in between, which is not
ready. A call may end at any step (`CallEnds`: a refused guard, a command that
failed, the timeout of 30 seconds, a crash), and the workspace lock with it; the
timeout ends only the client process (`worktreeops/client.go` 163-181), so the
command it leaves is carried out at any later time or never. `Touched` is a child
that left files, or an operator who changes or removes a worktree, at any moment,
between the last look and the removal too (`lateChange`).

**Abstractions.** The wave of several tasks is one wave for each of them. A
worktree that is missing or dismissed behaves as one that failed: not attachable,
retained by cleanup. A conflict is retried or not as executions, tokens and wall
time allow; tokens and time are not state here, so with executions left it is a
choice. `RecordCleanup` of
batuta-ai/core is taken to let a retained operation replace a planned one, as
1493-1520 use it. One cleanup runs at a time, because one node of the core loop
calls it and its reattempts are halted.

## 6. DeliveryLoops

**State.** The state of `DeliveryGraph`; `attempts`, `launchers`, `lock` and
`lapsed` of `DeliveryAttempts`; and `core`, the core run of the latest launcher:
its node, its generation, the wave whose cells run, the cells that have not
settled and whether one failed. `reviews`, `fixes`, `published` and `retained`
are what review, publication and cleanup did.

**Actions.** Each node of `loops/batuta-deliver-core/loop.yaml` is one action, or
the steps of the graph operation it calls followed by the route taken on its
output: `RoutingContext`, `CorePrepares` and `PrepareAnswers`,
`PrepareExhausted`, `PrepareAllIntegrated`, `CellStarts`, `CellRecords`,
`CellSucceeds`, `CellFails`, `Collects`, `CoreSettles`, `SettleAnswers`,
`BudgetContext`, `ReviewEnds`, `PublicationPlan`, `PublicationVerify`, `Cleanup`,
`CoreTerminalizes`. Any node may fail at any step of its call (`CoreFails`), the
core may be stopped (`CoreStops`), and a launcher may end without the evidence
Reconcile wants (`LauncherLost`). Children work and call as in `DeliveryGraph`,
also after their core ended. `Starts`, `LauncherStarts`, `LauncherEnds` and
`Reconciles` are the attempt service and the launcher.

**Abstractions.** Starts are answered here; lost and late ones are the subject of
`DeliveryAttempts`. Graph commits wait for the lock that a start holds;
`routing_context` takes no lock and accepts a planned attempt as well as a
submitted one. The fan-out collects its cells without canceling siblings
(docs/internal/plans/2026-08-27-batuta-parallel-graph-delivery.md:672). A call of
the core is killed with the core; commits that come late are `DeliveryGraph`'s.
A core that crashed between Integrate and its commit left a branch that moved, and
`prepare_wave` refuses it (244), unless the integration met a conflict before it
accepted anything: then a successor resumes the intent and replays the result
(`SettleResume`, `IntegrateReplay`). No core repeats `settle_wave` for an
operation that is recorded, so `SettleReplay` is not among its steps. The deadline passes only where it is read, the wall clock only
while the delivery is open, and a child that fails after its context but before a
question is one that fails before its context: each leaves out runs that differ in
nothing the code reads. The route to `terminal_blocked` is the default of
`wave_route` and not reachable: `prepare_wave` has four outputs and each has a
route.

**Fairness.** One condition, `WF_loopVars(Proceeds)`: while the agent can start or
reconcile, the launcher can begin or end, a core node or a child can take its next
step, one of them eventually does. CompozyOS runs the loops it has started; the
effect of the launcher's end prompts the agent to reconcile and to recover once
(batuta-deliver/loop.yaml:38-59). Nothing is assumed of a human, the operator, the
clocks, or the calls that children make as effects of their end. The condition is
weak and joint: it does not promise that any particular one of the actions
happens, so the failing alternatives remain possible for ever, and a proof of
progress may not rely on the successful ones.

## 7. Runs

| run | instance | shows |
|---|---|---|
| `graph_races` | 1 task, 2 executions, 2 copies of a child, 2 callers, terminalize | failures, questions, answers, candidates and settlements of one attempt over stale reads: `TaskMirrorsLatestAttempt`, `CandidateHasItsRun`, `AttemptHistoryIsKept` |
| `graph_wave` | 2 tasks, 2 executions, 1 caller, over-use, wall clock may expire | sharing a wave: `PauseExact`, `BudgetConserved`, `IntegrationChain`, `TaskMirrorsLatestAttempt` |
| `graph_settle` | 4 tasks, one dependency, 2 callers that settle | `IntegrationChain`, `DependencyBase`, `ConflictFence` |
| `attempts_ledger` | 2 attempts, 2 start commands, 2 worktree changes | the ledger is implemented; `OneRunPerAttempt`, `SuccessorIsRecovery`, `TokensChargedOnce` |
| `worktrees` | 1 task, 2 executions, 2 create commands, 2 callers of which one cleans up | twins only through a command that outlived its call, no shared worktree (`NoTwins`, `OneRunPerWorktree`); `CleanedMeansGone` |
| `worktrees_cleanup` | 1 task, 2 executions, 2 create commands, somebody else changes a worktree, the head moves, 1 caller | `RemovalIsSafe`, `CleanupIsTruthful`, `BlockedHasEvidence` over cleanups that were cut off and removals that came late |
| `loops` | 2 parallel tasks, 2 executions, 2 attempts, 3 generations, 2 copies of a child, one task may ask | `DoneIsDelivered`, `ReviewedOnce`, `ClosedIsFinal`; the attempt service's view of the graph is implemented (`AttemptsAreImplemented`); every delivery closes (`DeliveryCloses`) |
| `graph_intent`, `graph_worktree`, `graph_child`, `graph_fence`, `attempts_lost` | as small as the disagreement allows | section 8 |

`DeliveryCloses` has two exceptions, and both are real: a human who was asked and
does not answer, and a launcher that ended without the evidence Reconcile wants
(no settled output of its core, or a canceled review), whose attempt nothing in
the code can settle. Every other failure ends in a disposition, for the price of a
delivery that is closed although it might have gone on: two finished copies of a
child, a child canceled over its open question, a crash between Git and the
journal, a worktree whose setup never ends, a Reconcile that comes before the
failure of a child is recorded.

Three properties of the worktrees except the commands that outlived their calls,
and each exception is one nothing in the code prevents. `NoTwins`: a create that
was given up and carried out after the retry had found nothing makes a second
worktree of the same identity, and every later search is refused as ambiguous
(`FindByName`). `CleanedMeansGone`, which is about a cleanup that began with every
task integrated: a worktree created late that no later call found belongs to no
attempt, so no cleanup removes it, and the delivery is reported as cleaned.
`CleanupIsTruthful`: a worktree still being removed when the next cleanup looks is
not ready (1493), is recorded as retained, and the delivery is closed as blocked
over a worktree that is then gone. The flags mark a command only while it was
under way when its call ended; one that was carried out and merely not answered
is found by the next call, and no exception is made for it.

*Why the bounds are enough.* Two executions let an attempt be replaced by a
failure, an answer or a conflict, and the last one be refused another. In
`graph_races` one caller invokes every operation and the other failure, question,
answer and candidate; an attempt has two child runs, of which one may complete
while the other fails or asks, so every two of these four operations hold stale
reads of one attempt at the same time. Leaving out what any one of the four commits
checks again under the lock (the attempt is still the latest one and still runs or
waits) breaks `TaskMirrorsLatestAttempt` there, and `AttemptHistoryIsKept`. Two
settlements race in `graph_settle`. `graph_wave` has over-use (a run may report 2
tokens of an allowance of 1) and a ceiling that two live attempts share. Three
parallel tasks and a dependent fourth are the smallest wave with a task before
the conflict, the conflict and a task behind it, and a dependency that must wait
for all of it. Two copies of a child are the smallest ambiguity. Two attempts
and two start commands give lost, late, duplicate and ambiguous starts, an
adopted run, a successor, and the ceiling; `MaxUse` 1 with a token ceiling of 2
separates charged once from charged twice.

In `worktrees` two executions give an old and a new wave of one task, an answered
attempt that shares its worktree and a failed one that does not; two create
commands are a worktree of each attempt, or a first command and its retry; the
second caller is the `prepare_wave` call that fell behind. In `worktrees_cleanup`
`MaxHead` 2 lets a conflicted attempt be replaced and integrated, and the head move
during a cleanup; `prepare_wave` and cleanup alternate there, since what a second
`prepare_wave` could do to a cleanup under way is in the other run.

In `loops` three generations let a conflict be retried and the delivery still end
as done; two attempts are a recovery and the ceiling. `MaxCopies` is not smaller
than `AttemptCeiling`, so this bound never keeps a core from starting its cells.
Tokens are not used up (`MaxUse` 0), exhaustion comes from the wall clock, the
generations and the executions: how tokens are shared and charged is checked by
`graph_wave` and `attempts_ledger`.

The bounds `MaxUse`, `MaxCopies`, `MaxStarts`, `MaxChanges`, `MaxTrees`,
`Touches`, `MaxHead`, `MaxRounds`, `Askers` and `Stops` do not exist in the code.

`CHECK_DEADLOCK FALSE` is set for the attempts and the loops only, where a closed
delivery whose runs have ended stops. The other configurations check deadlock;
there a caller can always invoke an operation again.

## 8. Disagreements between documents and code

Each has a run that finds it; `PROJECT.json` quotes the documents.

* `graph_intent`: a settlement intent persisted before a crash is refused for
  ever once another wave's settlement moved the head (1248).
* `graph_worktree`: a `prepare_wave` call that fell behind attaches the worktree
  of its own wave, at the old base, to a newer attempt (1646).
* `graph_child`: after an answer, `prepare_wave` offers the attempt's own number
  where the child's operations look for the execution of its run (1762).
* `graph_fence`: a task behind a conflict that was retried on the same base in a
  wave of its own is integrated before the conflicted task is replaced (1146). The
  service allows it; the shipped core loop settles the wave its own `prepare_wave`
  named and so prefers the newest one.
* `attempts_lost`: the run of a start whose answer was lost is not adopted once
  it changed the worktree, and not at the attempt ceiling (`routing_recovery.go`
  95, 128).

## 9. Proofs

All theorems hold for every value of the constants, from the named assumptions
on them: in `DeliveryGraph` positive numbers of tasks, executions and slots,
dependencies on earlier tasks only, dispositions that terminalize knows, known
duties, and a no-prompt that is no prompt; in `DeliveryAttempts` positive
ceilings and natural bounds; in `TaskWorktrees` positive numbers of tasks and
executions, natural bounds, and a cleaner that is one of the callers, none of
which is called nobody; in `DeliveryLoops` a positive attempt ceiling and iteration
cap, askers that are tasks, and the two callers core and child with their duties.

* `DeliveryGraphProofs!TypeCorrect`: `Spec => []TypeOK`. `TypeOK` alone is not
  inductive: the commits index the attempts with what the call holds, so the
  invariant adds `CallsNameAttempts`, that a held failure, question, answer or
  candidate, in whichever part of it, names an attempt. The proof has one lemma per operation.
* `DeliveryGraphHistoryProofs!OneLiveAttempt` (`TaskMirrorsLatestAttempt`) and
  `NoHistoryRewritten` (`AttemptHistoryIsKept`) come from one view of a step: a
  task is left alone, or its latest attempt is replaced, or that is closed and the
  next one opened. The invariant `HistoryInv` adds two facts to the types: a
  pending task has no attempts (or a wave could be admitted over a history), and
  the integrator accepts candidates of its operation other than the one that
  conflicts (or a settlement could both integrate and retry a task).
* `PauseIsExact` (`PauseExact`), in the same module, adds that a task with an
  attempt belongs to a wave: an open question therefore keeps a wave open, and
  prepare_wave admits only when none is.
* `CandidatesHaveRuns` (`CandidateHasItsRun`), in the same module, follows a
  candidate through its call: completed runs stay as they are (the newest copy of
  a run alone is resumed), each read of record_candidate leaves in the call what
  the next one goes by, at last a completed run, its tokens and the execution its
  last context named, whatever happened in between, and the commit writes them only
  to an attempt of that execution. An integrated attempt was a
  candidate before, so the fact survives settlement.
* `DeliveryGraphChainProofs` proves `JournalIsOneChain` (`IntegrationChain`),
  `DependenciesBelow` (`DependencyBase`) and `ConflictIsFenced`
  (`ConflictFence`) from one invariant over `HistoryInv`. The results in Git are
  unique, each starts at a commit of the chain, and one that starts at its end and
  is not recorded ends at the branch: so the branch is at the end or one
  operation ahead. The operations in intents and calls are sound: they were
  derived from candidates at a head the journal once had, and two of them for one
  head and wave agree on what they integrate, which is why a replay may record
  what another caller applied. A wave's base is a commit of the chain when the
  wave is admitted, and every integrated dependency is below it. Fences stay
  because the replacement of a conflicted task belongs to a later wave.
* `DeliveryGraphBudgetProofs!BudgetIsConserved` (`BudgetConserved`). An open
  attempt has used nothing, and each step changes the sum of the costs in one of
  four ways: an attempt closes and costs no more than it was granted; what it
  leaves is handed to its successor; a wave shares out what is available, where
  what is available is what the sum leaves of the ceiling; or nothing moves.
* `TotalTheorems`: the total of a function over a finite set is that of a subset
  plus the rest, grows with each value, and changes by what one value changes.
  `Total` is a fold, so the induction is done by hand: the sets for which a
  statement fails have a smallest member, and removing an element from it gives a
  smaller one.
* `DeliveryAttemptsProofs` proves one inductive invariant `Inv`: `TypeOK`;
  whoever holds the lock works on the planned last attempt of an active delivery
  and waits for a start command of that attempt (`LockInv`); every attempt but
  the last is terminal, and an attempt has a run exactly when it is not planned,
  a run that was sent for it (`AttemptsInv`); a command on its way is the lock
  holder's or was given up (`SentInv`); an active delivery whose last attempt is
  settled was settled as a recoverable failure, and a done one is settled
  (`StateInv`); and the two properties themselves. `SentInv` is what
  `OneRunPerAttempt` needs: without it a retry that finds no run says nothing
  about the commands still under way. `LockInv` is what keeps a terminalize or a
  Reconcile from closing the delivery between planning and binding. From `Inv`
  follow `AttemptsTypeCorrect`, `NoSecondRun` (`OneRunPerAttempt`),
  `OnlyFailuresAreRecovered` (`SuccessorIsRecovery`) and the refinement
  `AttemptsKeepTheLedger` (`LedgerIsKept`), whose proof maps each action to a
  step of the ledger or to a stutter. `EveryTokenIsChargedOnce`
  (`TokensChargedOnce`) adds `ChargeInv`: before the graph is owned nothing is
  used or charged, and the charges never exceed what the graph used; Reconcile
  charges the difference to the one attempt it settles.
* `TaskWorktreesProofs` has four layers. `IInv` is about what a call knows
  between two steps. `Shape` is `TypeOK` without the form of names and
  waves, and says that the lock belongs to whoever creates, attaches, removes or
  records. `Prepares`: a call that is about to create has seen no worktree of the
  name, so what was sent for that name before was given up, and the lock keeps every
  other call from sending another since. `Owned`: the
  worktree of an attempt bears a name of its task, so that the first user of a
  worktree, whose task cleanup looks at, speaks for all of them. `Gone` and
  `Cleans`: what Batuta removed was planned and belongs to a task that was
  integrated when cleanup read the journal, integrated tasks stay so, and the
  verdict a cleanup holds outside the lock stays true because nobody else
  removes for Batuta. The steps that touch no call are dealt with together
  (`QuietKeeps`): they keep every attempt's worktree and every worktree's name.
  From `IInv` follow `OneWorktreePerIdentity` (`NoTwins`), `CleanupNeverLies`
  (`CleanupIsTruthful`) and `OnlyIntegratedTasksLoseWorktrees`.
  `PlanInv` is about who a worktree is for. Only the latest attempt of a task
  prepares or runs, one without a worktree prepares, an intent is named after its
  attempt's run, an attached worktree bears the name its attempt planned, and
  every worktree was planned by an attempt of its task that has it or is still to
  find it. A call that is about to create or attach knows that plan: the lock
  keeps others from attaching, and the graph moves only as `GoesOn` says. From it
  follow `WorktreesServeOneRun` (`OneRunPerWorktree`) and `AttemptsAreFinal`.
  `CleanInv` is about what cleanup knows. Only worktrees that were used have
  operations; the work list of a cleanup is all that is still open; a report of
  evidence means that something is retained; and the attempts of an integrated
  task are final, so that what the journal expects of a worktree is the same when
  it is inspected, planned, removed and recorded. From it follow
  `RemovalsAreSafe` (`RemovalIsSafe`), `CleanedLeavesNothing`
  (`CleanedMeansGone`) and `BlockedForAReason` (`BlockedHasEvidence`).
  `TypeInv` counts waves: a task is in one wave more than it has answered earlier
  attempts, so that graphWaveForAttempt finds a wave for every attempt and every
  name is derived from one. From it follows `WorktreesTypeCorrect` (`TypeOK`).

* `DeliveryLoopsProofs` proves one inductive invariant `LoopInv` of the
  composition, one lemma per action. `OuterInv`: the lock is held for the planned
  last attempt of an active delivery, one attempt at a time is submitted, only its
  launcher runs, which is the last one, and the core is that launcher's.
  `GraphInv`: `HistoryInv` of the graph holds while the delivery is not done.
  `ChildrenInv`: children work for unsettled cells of the fan-out only, or after a
  core that was stopped there. `ReviewInv`: the review begins when every task is
  integrated, so the attempt that reviewed has nothing to fall back on and is the
  last. `DoneInv`: a core that is done delivered. From it follow `ReviewsAreSingle`
  (`ReviewedOnce`), `DoneMeansDelivered` (`DoneIsDelivered`),
  `ClosedDeliveriesStayClosed` (`ClosedIsFinal`, which needs that a closed delivery
  has no core at work) and `LoopTypesCorrect` (`LoopTypeOK`).
* `LoopsKeepTheAttempts` (`AttemptsAreImplemented`), in the same module, is the
  refinement of `DeliveryAttempts` by the composition. `RefInv` says what the graph
  owes the attempt service: only closed attempts have used tokens, so that the
  tokens only add up; what was tried belongs to a wave, and a launcher began before
  there was one; the core settles at one node, and a generation integrates once, so
  that the changes of the worktree stay below those the attempts and their
  generations can make and the bound of `RunWorks` never stands in the way. That
  what is spent stays spent rests on `TasksMove` of `DeliveryGraphChainProofs`.
  Each action is then one action of `DeliveryAttempts` or leaves all its variables
  alone: an operation that commits to the graph is `GraphMoves`, an integration and
  a committing review are `RunWorks`, and everything else of the core and of its
  children is a stutter.

Only model-checked: the liveness of `DeliveryCloses`, since fairness and ENABLED are
beyond the prover. The properties of the runs that expect a violation are refuted,
not proved. All other properties of the runs are theorems.

## 10. Not modelled

* The commits of one integration: the integrator of `batuta-ai/core` decides which
  operation states it writes and when; only the compare-and-swap that stores them
  is in the repository. `Integrate` is one step.
* Plan and apply of a routing (`routing_runtime.go`): one locked section over data
  that `batuta-ai/core` plans and validates. A delivery keeps the generation it was
  created with, which is all the models need of it.
* The budget of deliveries without a graph (`routing_context.go`, from 184): the
  loops of the repository make graph deliveries only.
* The replayed outcome of a settlement (1278): no loop repeats `settle_wave`.
* Parsing and limits of command output, validation of tool inputs, error texts,
  packaging, prompts and documents.

`batuta-ai/core` (routing, integration, publication) and CompozyOS are outside
the repository; what the services use of them is modelled from that use and
marked external in the map.
