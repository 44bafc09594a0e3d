---------------------------- MODULE DeliveryLoops ----------------------------
(***************************************************************************)
(* One delivery from its first launcher to its last disposition: the nodes *)
(* of the core loop (loops/batuta-deliver-core/loop.yaml) drive the graph  *)
(* operations of DeliveryGraph, the child runs of its fan-out call back,   *)
(* and the attempt service of DeliveryAttempts starts the launcher,        *)
(* reconciles it when it ended and starts a successor.                     *)
(*                                                                         *)
(* The actions of both modules are used as they are.  This module says in  *)
(* which order the core loop takes them, adds the routes between the       *)
(* nodes, review, publication and cleanup, and replaces what               *)
(* DeliveryAttempts assumes of the graph by the graph itself.              *)
(*                                                                         *)
(* A node that calls the extension may fail at any step (a refused guard,  *)
(* a timeout, a crash); with reattempt_strategy halt that ends the core.   *)
(* The fan-out collects its cells without canceling healthy siblings.      *)
(* Starts are answered here; lost and late answers are DeliveryAttempts'.  *)
(***************************************************************************)
EXTENDS DeliveryGraph

CONSTANTS
    AttemptCeiling,  \* delivery.AttemptCeiling, 4 in the product
    MaxGenerations,  \* iteration_cap of the core loop, 64 in the product
    Askers,          \* bound: the tasks whose children may ask
    MaxRounds,       \* bound: generations the children begin after an answer
    Stops            \* bound: "exhausted", "stopped": how a core may be ended

ASSUME CeilingsAssumption ==
    /\ AttemptCeiling \in Nat \ {0}
    /\ MaxGenerations \in Nat \ {0}
    /\ Askers \subseteq Tasks
    /\ MaxRounds \in Nat
    /\ Stops \subseteq {"exhausted", "stopped"}
ASSUME CallersOfTheLoops ==
    /\ Callers = {"core", "child"}
    /\ Duties = [c \in Callers |-> IF c = "core" THEN {"prepare", "candidate", "settle"}
                                   ELSE {"failure", "question", "answer"}]

VARIABLES
    attempts,   \* delivery.Attempts
    launchers,  \* the batuta-deliver runs
    lock,       \* the workspace lock, while an attempt is started
    lapsed,     \* AbsoluteDeadline has passed
    core,       \* the core run of the latest launcher
    rounds,     \* generations the children have begun after an answer
    reviews,    \* review-and-fix runs started
    fixes,      \* reviews that committed
    published,  \* publication_verify proved the reviewed HEAD
    retained    \* cleanup retained a worktree

outer == <<attempts, launchers, lock, lapsed>>
end == <<reviews, fixes, published, retained>>
inner == <<tState, count, att, waves, intents, integrations, blockers, paused,
           wall, git, runs, call>>
loopVars == <<vars, outer, end, core, rounds>>

-----------------------------------------------------------------------------
(* The values *)

CoreNodes == {"routing_context", "prepare_wave", "task_wave", "settle_wave",
              "delivery_budget_context", "review", "publication_plan",
              "publication_verify", "terminal_blocked_publication", "cleanup",
              "terminal_blocked_cleanup", "terminal_exhausted", "ended"}
Terminal == {"done", "failed", "exhausted", "stopped"}

\* Items are the cells of the fan-out that have not settled, failed whether one
\* of them failed.
Core == [launcher: 0..AttemptCeiling, node: CoreNodes, generation: 1..MaxGenerations,
         wave: Nat, items: SUBSET Commit, failed: BOOLEAN,
         status: Terminal \cup {"none"}]
Generation(launcher, n) ==
    [launcher |-> launcher, node |-> "routing_context", generation |-> n,
     wave |-> 0, items |-> {}, failed |-> FALSE, status |-> "none"]
NoCore == [Generation(0, 1) EXCEPT !.node = "ended", !.status = "stopped"]

-----------------------------------------------------------------------------
(* What the attempt service sees of the graph *)

AllIntegrated == \A t \in Tasks : tState[t] = "integrated"

\* graphFallbackTaskIDs: tasks that wait for the attempt after a failure.
FollowsFailure(t) == count[t] >= 2 /\ att[t][count[t] - 1].state = "blocked"
FallbackTasks == {t \in Tasks : tState[t] = "preparing" /\ FollowsFailure(t)}

\* graphHasExhaustedTasks
OutOfExecutions ==
    {t \in Tasks : count[t] >= MaxExec \/ att[t][MaxExec].conflict # NoOperation}
ExhaustedTasks ==
    {t \in Tasks : /\ tState[t] = "blocked"
                   /\ \/ count[t] >= MaxExec
                      \/ att[t][count[t]].conflict # NoOperation}

\* graphOwnsParentSettlement, graphAllIntegrated and CumulativeTokens
GraphView == [owned |-> waves # <<>>, fallback |-> FallbackTasks # {},
              spent |-> ExhaustedTasks # {}, whole |-> AllIntegrated,
              used |-> CumulativeTokens]

\* Every integration and every committing review changes the worktree.
Fingerprint == Cardinality(results) + fixes

A == INSTANCE DeliveryAttempts WITH
        MaxStarts <- AttemptCeiling,
        MaxChanges <- AttemptCeiling * (MaxGenerations + 1),
        MaxUse <- NTasks * MaxExec * MaxUse,
        tree <- Fingerprint, graph <- GraphView, runs <- launchers

\* Type invariant: the core stands at one of its nodes with the cells of one
\* wave, and the state shared with the graph and the attempts keeps its shape.
LoopTypeOK ==
    /\ A!TypeOK
    /\ core \in Core
    /\ tState \in [Tasks -> TaskStates] /\ att \in [Tasks -> [Execs -> Attempt]]
    /\ call \in [Callers -> Call] /\ runs \in SUBSET Run
    /\ rounds \in 0..MaxRounds
    /\ reviews \in Nat /\ fixes \in 0..reviews
    /\ published \in BOOLEAN /\ retained \in BOOLEAN
    /\ core.items # {} => core.node = "task_wave"
    /\ core.node = "ended" <=> core.status # "none"

LoopInit ==
    /\ Init
    /\ core = NoCore
    /\ rounds = 0
    /\ reviews = 0
    /\ fixes = 0
    /\ published = FALSE
    /\ retained = FALSE
    /\ A!Init

-----------------------------------------------------------------------------
(* The launcher and the attempt service *)

Outside == UNCHANGED <<inner, end, core, rounds>>
GraphOnly == UNCHANGED <<outer, end, core, rounds>>
LastLauncher == Len(launchers)

\* start_delivery, and recover_delivery after a recoverable failure: the
\* attempt is planned and its launcher started; out of attempts, tokens or
\* time the delivery is closed as exhausted.
Starts ==
    /\ Outside
    /\ A!Plan(LastLauncher) \/ A!Send \/ A!StartReturns \/ A!Exhaust(LastLauncher)

\* The launcher's one node runs the core.
LauncherStarts(i) ==
    /\ UNCHANGED <<inner, end, rounds, dState>>
    /\ core' = Generation(i, 1)
    /\ A!RunCreated(i)

\* The launcher ends with its core; the effect of its end prompts the agent to
\* reconcile.
LauncherEnds ==
    /\ core.node = "ended" /\ core.launcher # 0
    /\ UNCHANGED <<inner, end, core, rounds, dState>>
    /\ A!RunEnds(core.launcher, IF core.status = "done" THEN "done" ELSE "failed",
                 core.status, 0)

Reconciles == Outside /\ A!Reconcile

\* The deadline is read when an attempt is planned and by routing_context, and
\* the wall clock while the delivery is open: nothing depends on either passing
\* at any other time, so they do not.
DeadlinePasses ==
    /\ dState = "active"
    /\ A!LatestIs("submitted") => core.node = "routing_context"
    /\ Outside
    /\ UNCHANGED dState
    /\ A!DeadlinePasses
WallClockRunsOut == dState = "active" /\ WallExpires /\ GraphOnly

-----------------------------------------------------------------------------
(* The core loop *)

CoreAt(node) == core.node = node /\ lock = A!Free
Moves(node) == core' = [core EXCEPT !.node = node]
Ends(status) == core' = [Generation(core.launcher, 1) EXCEPT !.node = "ended", !.status = status]

\* A generation ended without its stop condition: the next one begins, up to
\* the iteration cap.
GoesRoundUncapped == core' = Generation(core.launcher, core.generation + 1)
GoesRoundForEver ==
    core' = Generation(core.launcher, IF core.generation < MaxGenerations
                                      THEN core.generation + 1 ELSE core.generation)
GoesRound ==
    IF core.generation < MaxGenerations
    THEN core' = Generation(core.launcher, core.generation + 1)
    ELSE Ends("exhausted")

\* routing_context: an unlocked read that wants an open attempt and budget.
RoutingContext ==
    /\ core.node = "routing_context"
    /\ dState = "active"
    /\ A!LatestIs("planned") \/ A!LatestIs("submitted")
    /\ TokenCeiling > A!UsedTokens /\ ~lapsed
    /\ Moves("prepare_wave")
    /\ UNCHANGED <<vars, outer, end, rounds>>

CorePrepares ==
    /\ CoreAt("prepare_wave")
    /\ \/ PrepareRead("core") \/ PrepareResume("core") \/ PrepareAdmit("core")
       \/ \E t \in Tasks, ready \in BOOLEAN : AttachWorktree("core", t, ready)
    /\ GraphOnly

\* prepareWaveOutput and wave_route: a wave with a preparing task goes round,
\* any other runs its cells.
PrepareAnswers ==
    /\ CoreAt("prepare_wave")
    /\ PrepareReturn("core")
    /\ LET w == call["core"].wave IN
         IF \E t \in waves[w].tasks : tState[t] = "preparing" THEN GoesRound
         ELSE core' = [core EXCEPT !.node = "task_wave", !.wave = w,
                                   !.items = call'["core"].cands]
    /\ UNCHANGED <<outer, end, rounds>>

\* prepareWave without a wave to run, both under the lock.
PreparedNothing ==
    /\ CoreAt("prepare_wave")
    /\ call["core"].op = "prepare"
    /\ dState = "active"
    /\ ExpectedHead(call["core"].head)
    /\ Returns("core")
    /\ UNCHANGED <<journal, wall, git, runs, outer, end, rounds>>
NothingLeftToSpend ==
    RemainingTokens = 0 \/ ~wall \/ (OpenWaves = {} /\ AvailableTokens = 0)
PrepareExhausted ==
    PreparedNothing /\ NothingLeftToSpend /\ Moves("terminal_exhausted")
StopsWhenIntegrated == Ends("done")
PublishesWhenIntegrated == Moves("delivery_budget_context")
PrepareAllIntegrated ==
    /\ PreparedNothing
    /\ ~NothingLeftToSpend
    /\ AllIntegrated
    /\ PublishesWhenIntegrated

CellStarts ==
    /\ CoreAt("task_wave")
    /\ \E x \in Commit, k \in 1..MaxCopies : StartChild("core", x, k)
    /\ GraphOnly

\* The child a cell waits for: the newest copy of its run.
ChildOf(x) ==
    LET copies == {r \in runs : [r.id EXCEPT !.copy = 1] =
                     [wave |-> core.wave, task |-> x[1], exec |-> x[2], copy |-> 1]}
    IN  CHOOSE r \in copies : \A s \in copies : s.id.copy <= r.id.copy
CellsStarted == call["core"].op # "children"

\* record_candidate after a child that is done; it looks the run up itself.
CellRecords(x) ==
    /\ CoreAt("task_wave") /\ CellsStarted
    /\ x \in core.items
    /\ ChildOf(x).status = "done"
    /\ \/ CandidateLoad("core", core.wave, x[1], x[2])
       \/ call["core"].task = x[1] /\ CandidateReads("core")
    /\ GraphOnly
CellSucceeds ==
    /\ CoreAt("task_wave")
    /\ CandidateCommit("core")
    /\ core' = [core EXCEPT !.items = {x \in @ : x[1] # call["core"].task}]
    /\ UNCHANGED <<outer, end, rounds>>

\* The child failed, or its candidate is refused or not recorded in time.
CellFails(x) ==
    /\ CoreAt("task_wave") /\ CellsStarted
    /\ x \in core.items
    /\ ChildOf(x).status # "running"
    /\ call["core"].op \in CandidateParts => call["core"].task = x[1]
    /\ Returns("core")
    /\ core' = [core EXCEPT !.items = @ \ {x}, !.failed = TRUE]
    /\ UNCHANGED <<journal, wall, git, runs, outer, end, rounds>>

\* collect_wave and wave_route
Collects ==
    /\ CoreAt("task_wave") /\ CellsStarted
    /\ core.items = {}
    /\ IF core.failed THEN Ends("failed") ELSE Moves("settle_wave")
    /\ UNCHANGED <<vars, outer, end, rounds>>

CoreSettles ==
    /\ CoreAt("settle_wave")
    /\ \/ SettleResume("core", core.wave) \/ SettleLoad("core", core.wave)
       \/ SettleIntent("core")
       \/ \E conflict \in 0..NTasks : Integrate("core", conflict)
       \/ IntegrateReplay("core")
    /\ GraphOnly

\* settlementOutput and settle_route: a conflict that got no further attempt
\* closes the delivery, everything else goes round.
SettleAnswers ==
    /\ CoreAt("settle_wave")
    /\ \E r \in results :
         /\ SettleCommit("core", r)
         /\ IF r.conflict # 0 /\ tState'[r.conflict] = "blocked"
            THEN Moves("terminal_exhausted") ELSE GoesRound
    /\ UNCHANGED <<outer, end, rounds>>

\* delivery_budget_context, review, publication_plan and what follows it.
BudgetContext ==
    /\ core.node = "delivery_budget_context"
    /\ dState = "active" /\ RemainingTokens > 0 /\ wall
    /\ Moves("review")
    /\ reviews' = reviews + 1
    /\ UNCHANGED <<vars, outer, fixes, published, retained, rounds>>
ReviewEnds(commits) ==
    /\ core.node = "review"
    /\ Moves("publication_plan")
    /\ fixes' = fixes + commits
    /\ head' = head + commits
    /\ UNCHANGED <<journal, wall, results, runs, call, outer, reviews, published, retained, rounds>>
PublicationPlan ==
    /\ core.node = "publication_plan"
    /\ Moves("publication_verify") \/ Moves("terminal_blocked_publication")
    /\ UNCHANGED <<vars, outer, end, rounds>>
PublicationVerify ==
    /\ core.node = "publication_verify"
    /\ published' = TRUE
    /\ Moves("cleanup")
    /\ UNCHANGED <<vars, outer, reviews, fixes, retained, rounds>>

\* cleanup and cleanup_route: cleaned ends the generation, and stop_when holds.
Cleanup(kept) ==
    /\ CoreAt("cleanup")
    /\ retained' = kept
    /\ IF kept THEN Moves("terminal_blocked_cleanup") ELSE Ends("done")
    /\ UNCHANGED <<vars, outer, reviews, fixes, published, rounds>>

\* The terminal nodes: terminalize closes the delivery and fails its node.
CoreTerminalizes ==
    /\ lock = A!Free
    /\ \/ core.node = "terminal_exhausted" /\ Terminalize("exhausted", FALSE)
       \/ core.node = "terminal_blocked_publication" /\ Terminalize("blocked", TRUE)
       \/ /\ core.node = "terminal_blocked_cleanup"
          /\ dState = "active" /\ retained /\ ~ExhaustionProven
          /\ dState' = "blocked"
          /\ UNCHANGED inner
    /\ Ends("failed")
    /\ UNCHANGED <<outer, end, rounds>>

\* A node other than the fan-out fails, at whatever step its call was.
CoreFails ==
    /\ core.node \notin {"ended", "task_wave"}
    /\ call' = [call EXCEPT !["core"] = Idle]
    /\ Ends("failed")
    /\ UNCHANGED <<journal, wall, git, runs, outer, end, rounds>>

\* The core runs out of its own budget, stalls or is canceled ...
CoreStops(status) ==
    /\ core.node # "ended"
    /\ call' = [call EXCEPT !["core"] = Idle]
    /\ Ends(status)
    /\ UNCHANGED <<journal, wall, git, runs, outer, end, rounds>>

\* ... or its launcher ends without the evidence Reconcile wants: no settled
\* output of the core, or a review that was canceled (graphParentUsage).
LauncherLost ==
    /\ core.node # "ended"
    /\ call' = [call EXCEPT !["core"] = Idle]
    /\ Ends("stopped")
    /\ UNCHANGED <<journal, wall, git, runs, end, rounds>>
    /\ A!RunEnds(core.launcher, "stopped", "none", 0)

-----------------------------------------------------------------------------
(* The child runs *)

\* A recorded question waits for its human.
AwaitsHuman(r) ==
    r.status = "running" /\ r.ask # NoPrompt /\ ~r.replied /\ QuestionAttempt(r) # 0

\* A child that fails between its context and a question is as good as one that
\* fails before its context, which only reads the journal.
ChildWorks(r) ==
    /\ \/ TaskContext(r)
       \/ \E used \in 0..MaxUse :
            \/ ChildCompletes(r, used)
            \/ /\ r.ctx = 0 \/ r.ask # NoPrompt
               /\ ChildFails(r, used)
       \/ r.id.task \in Askers /\ \E p \in Prompts : ChildAsks(r, p)
    /\ GraphOnly
ChildGoesRound(r) ==
    /\ rounds < MaxRounds
    /\ NextGeneration(r)
    /\ rounds' = rounds + 1
    /\ UNCHANGED <<outer, end, core>>
Replies(r) == HumanReplies(r) /\ GraphOnly

\* record_question, record_answer, and record_failure as the effect of the end
\* of a child, at any time after it.
ChildCalls ==
    /\ lock = A!Free
    /\ \/ \E r \in runs, e \in Execs : \/ QuestionLoad("child", r, e)
                                       \/ AnswerLoad("child", r, e)
                                       \/ FailureLoad("child", r, e)
       \/ QuestionCommit("child") \/ AnswerCommit("child")
       \/ \E fallback \in BOOLEAN : FailureCommit("child", fallback)
       \/ CallEnds("child")
    /\ GraphOnly

-----------------------------------------------------------------------------

CoreStep ==
    \/ RoutingContext
    \/ CorePrepares \/ PrepareAnswers \/ PrepareExhausted \/ PrepareAllIntegrated
    \/ CellStarts
    \/ \E x \in Commit : CellRecords(x) \/ CellFails(x)
    \/ CellSucceeds \/ Collects
    \/ CoreSettles \/ SettleAnswers
    \/ BudgetContext
    \/ \E commits \in {0, 1} : ReviewEnds(commits)
    \/ PublicationPlan \/ PublicationVerify
    \/ \E kept \in BOOLEAN : Cleanup(kept)
    \/ CoreTerminalizes
    \/ CoreFails

ChildProceeds ==
    \E r \in runs : (~AwaitsHuman(r) /\ ChildWorks(r)) \/ ChildGoesRound(r)

LauncherStep ==
    \/ \E i \in DOMAIN launchers : LauncherStarts(i)
    \/ LauncherEnds

LoopNext ==
    \/ Starts
    \/ LauncherStep
    \/ Reconciles
    \/ DeadlinePasses
    \/ CoreStep
    \/ \E status \in Stops : CoreStops(status)
    \/ LauncherLost
    \/ \E r \in runs : ChildWorks(r) \/ ChildGoesRound(r) \/ Replies(r)
    \/ ChildCalls
    \/ WallClockRunsOut

\* CompozyOS runs what it has started, and the agent answers the prompt of the
\* launcher's effect: while one of them can go on, one does.  Humans, the
\* operator, the clocks and the calls of the children owe nothing.
Proceeds == Starts \/ LauncherStep \/ Reconciles \/ CoreStep \/ ChildProceeds
Fairness == WF_loopVars(Proceeds)

LoopSpec == LoopInit /\ [][LoopNext]_loopVars /\ Fairness

-----------------------------------------------------------------------------
(* What must hold *)

\* A delivery that is done was delivered: every task integrated, one review,
\* the publication verified, no worktree retained and no child at work (the
\* routes of the core loop, its stop_when and Reconcile).
DoneIsDelivered ==
    dState = "done" =>
        /\ AllIntegrated
        /\ reviews = 1
        /\ published
        /\ ~retained
        /\ \A r \in runs : r.status # "running"

\* However often the delivery is recovered, it is reviewed once: a fresh
\* launcher does not repeat the review of its predecessor.
ReviewedOnce == reviews <= 1

\* Nothing is launched for a delivery that is closed: no attempt, no child, no
\* review and no publication, and it stays closed, whichever of terminalize,
\* start and Reconcile closed it while children were still calling.
ClosedIsFinal ==
    [][dState # "active" =>
         /\ dState' # "active"
         /\ Len(attempts') = Len(attempts)
         /\ {r.id : r \in runs'} = {r.id : r \in runs}
         /\ reviews' = reviews /\ published' = published]_loopVars

\* The delivery implements DeliveryAttempts: whatever the core and its children
\* do to the graph is a move that module allows.
AttemptsAreImplemented == A!Spec

\* Every delivery closes, unless a human is asked or a launcher ended without
\* the evidence Reconcile wants.
Orphaned == \E i \in DOMAIN launchers :
    launchers[i].status = "ended" /\ launchers[i].evidence = "none"
DeliveryCloses ==
    <>[](dState # "active" \/ Orphaned \/ \E r \in runs : AwaitsHuman(r))
=============================================================================
