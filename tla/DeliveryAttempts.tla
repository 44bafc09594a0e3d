-------------------------- MODULE DeliveryAttempts --------------------------
(***************************************************************************)
(* The attempts of one delivery: deliveryAttemptService                    *)
(* (internal/extensionapp/routing_recovery.go) plans an attempt, finds or  *)
(* starts its batuta-deliver run in CompozyOS, and settles the attempt     *)
(* from the terminal run.                                                  *)
(*                                                                         *)
(* Start and Recover hold the workspace lock from the first read of the    *)
(* journal to the last write, so there is one lock here and no per-caller  *)
(* state.  What happens meanwhile happens outside: CompozyOS creates runs, *)
(* a run works in the delivery worktree, and the caller is cut off by the  *)
(* 30 seconds of a command, an error or a crash, which frees the lock and  *)
(* leaves what was persisted so far.  A start command that was sent and    *)
(* given up may still create its run.                                      *)
(*                                                                         *)
(* The delivery's graph is reduced to what Reconcile reads of it; the      *)
(* module DeliveryGraph models its operations.  The worktree's fingerprint *)
(* (HEAD, status, content) is a number that every change increments.       *)
(***************************************************************************)
EXTENDS Integers, Sequences, FiniteSets, Totals

CONSTANTS
    AttemptCeiling, \* delivery.AttemptCeiling, 4 in the product
    TokenCeiling,   \* delivery.TokenCeiling
    MaxStarts,      \* bound: start commands sent
    MaxChanges,     \* bound: changes of the delivery worktree
    MaxUse          \* bound: tokens the graph and one review can use

ASSUME BoundsAssumption ==
    /\ AttemptCeiling \in Nat \ {0}
    /\ TokenCeiling \in Nat \ {0}
    /\ MaxStarts \in Nat
    /\ MaxChanges \in Nat
    /\ MaxUse \in Nat

VARIABLES
    dState,     \* delivery.State
    attempts,   \* delivery.Attempts
    lapsed,     \* AbsoluteDeadline has passed
    tree,       \* fingerprint of the delivery worktree
    graph,      \* what the attempt service reads of delivery.Graph
    runs,       \* start commands sent, each with the run it created
    lock        \* what the holder of the workspace lock is doing

vars == <<dState, attempts, lapsed, tree, graph, runs, lock>>

-----------------------------------------------------------------------------
(* The values *)

\* Terminal statuses: "done" stands for no-op too, "stopped" for blocked,
\* stalled and canceled.
Terminal == {"done", "failed", "exhausted", "stopped"}

NoRun == 0

Attempt == [state: {"planned", "submitted", "terminal"}, run: Nat,
            status: Terminal \cup {"none"}, failed: BOOLEAN,
            graphTokens: Nat, reviewTokens: Nat, seen: Nat]
Planned == [state |-> "planned", run |-> NoRun, status |-> "none",
            failed |-> FALSE, graphTokens |-> 0, reviewTokens |-> 0, seen |-> 0]

\* Evidence is the status of the run's core once the run ended and the core's
\* output agrees with it, "none" otherwise.
Run == [attempt: Nat, status: {"sent", "running", "ended"},
        evidence: Terminal \cup {"none"}, review: 0..MaxUse, late: BOOLEAN]
Sent(n) == [attempt |-> n, status |-> "sent", evidence |-> "none", review |-> 0,
            late |-> FALSE]

\* Owned: a wave or a task transition was recorded.  Fallback: a task waits for
\* the attempt that follows a failure.  Spent: a task is blocked for good.
\* Whole: every task is integrated.
Graph == [owned: BOOLEAN, fallback: BOOLEAN, spent: BOOLEAN, whole: BOOLEAN,
          used: 0..MaxUse]
EmptyGraph == [owned |-> FALSE, fallback |-> FALSE, spent |-> FALSE,
               whole |-> FALSE, used |-> 0]

Lock == [op: {"free", "lookup", "start"}, run: Nat]
Free == [op |-> "free", run |-> NoRun]

\* Type invariant: the records keep the shape the Go structures give them.
TypeOK ==
    /\ dState \in {"active", "done", "blocked", "exhausted"}
    /\ attempts \in Seq(Attempt)
    /\ lapsed \in BOOLEAN
    /\ tree \in Nat
    /\ graph \in Graph
    /\ runs \in Seq(Run)
    /\ lock \in Lock

Init ==
    /\ dState = "active"
    /\ attempts = <<>>
    /\ lapsed = FALSE
    /\ tree = 0
    /\ graph = EmptyGraph
    /\ runs = <<>>
    /\ lock = Free

-----------------------------------------------------------------------------
(* What the service computes from the journal *)

Latest == Len(attempts)
LatestIs(state) == Latest > 0 /\ attempts[Latest].state = state

Settled == {n \in DOMAIN attempts : attempts[n].state = "terminal"}
AccountedGraphTokens == Total([n \in Settled |-> attempts[n].graphTokens])
UsedTokens == Total([n \in Settled |-> attempts[n].graphTokens + attempts[n].reviewTokens])

\* The caller names the run of the attempt before the one it wants, nothing
\* (NoRun) for the first; a first call is not checked.
Follows(prior) ==
    /\ ~LatestIs("submitted")
    /\ LatestIs("terminal") => prior # NoRun /\ attempts[Latest].run = prior
    /\ LatestIs("planned") =>
         IF Latest = 1 THEN prior = NoRun
         ELSE /\ prior # NoRun
              /\ attempts[Latest - 1].state = "terminal"
              /\ attempts[Latest - 1].run = prior

\* The worktree must be what the last settled attempt left, and what the
\* delivery began with before there is one or while the last one is planned.
ExpectedTree == IF LatestIs("terminal") THEN attempts[Latest].seen ELSE 0

OutOfBudget == lapsed \/ Latest >= AttemptCeiling \/ UsedTokens >= TokenCeiling

\* matchingRecentRuns: the runs CompozyOS lists with the inputs of attempt n,
\* whatever became of them.
MatchesStillRunning(n) == {i \in DOMAIN runs : runs[i].attempt = n /\ runs[i].status = "running"}
Matches(n) == {i \in DOMAIN runs : runs[i].attempt = n /\ runs[i].status # "sent"}

-----------------------------------------------------------------------------
(* Start and Recover *)

\* A new attempt is planned and persisted, or the planned one is taken up.
\* Start of a submitted attempt only reports its run.
Plan(prior) ==
    /\ lock = Free
    /\ dState = "active"
    /\ Follows(prior)
    /\ ~OutOfBudget
    /\ tree = ExpectedTree
    /\ attempts' = IF LatestIs("planned") THEN attempts ELSE Append(attempts, Planned)
    /\ lock' = [Free EXCEPT !.op = "lookup"]
    /\ UNCHANGED <<dState, lapsed, tree, graph, runs>>

\* The deadline, the attempts or the tokens are used up, and the delivery is
\* closed even if its last attempt is planned.
Exhaust(prior) ==
    /\ lock = Free
    /\ dState = "active"
    /\ Follows(prior)
    /\ OutOfBudget
    /\ dState' = "exhausted"
    /\ UNCHANGED <<attempts, lapsed, tree, graph, runs, lock>>

\* The attempt is persisted as submitted with its run.
Submits(i) ==
    /\ attempts' = [attempts EXCEPT ![Latest] = [@ EXCEPT !.state = "submitted", !.run = i]]
    /\ lock' = Free

\* Client.Recent lists one run of this attempt: it is adopted.
Adopt ==
    /\ lock.op = "lookup"
    /\ \E i \in DOMAIN runs : Matches(Latest) = {i} /\ Submits(i)
    /\ UNCHANGED <<dState, lapsed, tree, graph, runs>>

\* It lists several: the delivery is blocked.
Ambiguous ==
    /\ lock.op = "lookup"
    /\ Cardinality(Matches(Latest)) > 1
    /\ dState' = "blocked"
    /\ lock' = Free
    /\ UNCHANGED <<attempts, lapsed, tree, graph, runs>>

\* It lists none: Client.Start sends the start command ...
Send ==
    /\ lock.op = "lookup"
    /\ Matches(Latest) = {}
    /\ Len(runs) < MaxStarts
    /\ runs' = Append(runs, Sent(Latest))
    /\ lock' = [op |-> "start", run |-> Len(runs) + 1]
    /\ UNCHANGED <<dState, attempts, lapsed, tree, graph>>

\* ... and answers with the run it created.
StartReturns ==
    /\ lock.op = "start"
    /\ runs[lock.run].status # "sent"
    /\ Submits(lock.run)
    /\ UNCHANGED <<dState, lapsed, tree, graph, runs>>

\* The call fails, runs into the timeout of its command or crashes.
GiveUp ==
    /\ lock # Free
    /\ lock' = Free
    /\ runs' = IF lock.op = "start" /\ runs[lock.run].status = "sent"
               THEN [runs EXCEPT ![lock.run] = [@ EXCEPT !.late = TRUE]]
               ELSE runs
    /\ UNCHANGED <<dState, attempts, lapsed, tree, graph>>

-----------------------------------------------------------------------------
(* CompozyOS, the delivery loop and the clock *)

\* CompozyOS creates the run of a start command, at once or after the caller
\* stopped waiting; a command may also be lost.
RunCreated(i) ==
    /\ runs[i].status = "sent"
    /\ runs' = [runs EXCEPT ![i] = [@ EXCEPT !.status = "running"]]
    /\ UNCHANGED <<dState, attempts, lapsed, tree, graph, lock>>

\* A running delivery changes the worktree: settle_wave integrates commits and
\* the review fixes and commits.
RunWorks(i) ==
    /\ runs[i].status = "running"
    /\ tree < MaxChanges
    /\ tree' = tree + 1
    /\ UNCHANGED <<dState, attempts, lapsed, graph, runs, lock>>

\* It moves the graph, whose commits take the workspace lock: tokens only add
\* up, what is blocked for good or wholly integrated stays so, and a failure is
\* recorded in an active delivery only.  The effects of its children may come
\* after the run ended.
GraphMoves(g) ==
    /\ \E i \in DOMAIN runs : runs[i].status # "sent"
    /\ lock = Free
    /\ ~graph.whole
    /\ g.owned
    /\ g.fallback => graph.fallback \/ dState = "active"
    /\ g.used >= graph.used
    /\ graph.spent => g.spent
    /\ g.whole => ~g.fallback /\ ~g.spent
    /\ graph' = g
    /\ UNCHANGED <<dState, attempts, lapsed, tree, runs, lock>>

\* settlementParentDetail: the status of the one batuta-deliver-core child that
\* a settled delivery_core output names, if it agrees with the launcher's.
Evidence(launcher, core) ==
    CASE core = "none" -> "none"
      [] core = "done" -> IF launcher = "done" THEN "done" ELSE "none"
      [] OTHER -> IF launcher \in {core, "failed"} THEN core ELSE "none"

\* The launcher ends, with or without a settled output of its core; from then
\* on neither changes.
RunEnds(i, launcher, core, review) ==
    /\ runs[i].status = "running"
    /\ runs' = [runs EXCEPT ![i] = [@ EXCEPT !.status = "ended", !.review = review,
                                             !.evidence = Evidence(launcher, core)]]
    /\ UNCHANGED <<dState, attempts, lapsed, tree, graph, lock>>

\* terminalize of the delivery graph closes the delivery under the lock.
Terminalize(disposition) ==
    /\ lock = Free
    /\ dState = "active"
    /\ dState' = disposition
    /\ UNCHANGED <<attempts, lapsed, tree, graph, runs, lock>>

DeadlinePasses ==
    /\ ~lapsed
    /\ lapsed' = TRUE
    /\ UNCHANGED <<dState, attempts, tree, graph, runs, lock>>

-----------------------------------------------------------------------------
(* Reconcile *)

\* The delivery's state after its run ended with the given status.  A closed
\* delivery whose run failed keeps the disposition terminalize proved.
RetriesUnlessSpent == IF graph.owned /\ graph.spent THEN "exhausted" ELSE "active"
AfterFailure ==
    IF graph.owned /\ graph.fallback THEN "active"
    ELSE IF graph.owned /\ graph.spent THEN "exhausted"
    ELSE "blocked"
DispositionOfStatus(status) == IF status = "failed" THEN AfterFailure ELSE status
DispositionReopens(status) ==
    CASE status = "done" -> "done"
      [] status = "failed" -> AfterFailure
      [] status = "exhausted" -> "exhausted"
      [] status = "stopped" -> "blocked"
DispositionRetriesStopped(status) ==
    CASE status = "done" -> "done"
      [] status \in {"failed", "stopped"} ->
           IF dState \in {"blocked", "exhausted"} THEN dState ELSE AfterFailure
      [] status = "exhausted" -> "exhausted"
Disposition(status) ==
    CASE status = "done" -> "done"
      [] status = "failed" ->
           IF dState \in {"blocked", "exhausted"} THEN dState ELSE AfterFailure
      [] status = "exhausted" -> "exhausted"
      [] status = "stopped" -> "blocked"

\* graphParentUsage: the graph's tokens no earlier attempt was charged for; the
\* attempts must not have been charged for more than there are.
UsageSinceBeginning == IF graph.owned THEN graph.used ELSE 0
GraphUsage == IF graph.owned THEN graph.used - AccountedGraphTokens ELSE 0

\* Under the lock the submitted attempt of the named run is settled once the
\* run is terminal; before that, and for a settled attempt, Reconcile reports.
Reconcile ==
    /\ lock = Free
    /\ LatestIs("submitted")
    /\ LET run == runs[attempts[Latest].run] IN
         /\ run.evidence # "none"
         /\ graph.owned /\ run.evidence = "done" => graph.whole
         /\ GraphUsage \in Nat
         /\ attempts' = [attempts EXCEPT ![Latest] =
                           [@ EXCEPT !.state = "terminal", !.status = run.evidence,
                                     !.failed = graph.owned /\ graph.fallback,
                                     !.graphTokens = GraphUsage,
                                     !.reviewTokens = run.review,
                                     !.seen = tree]]
         /\ dState' = Disposition(run.evidence)
    /\ UNCHANGED <<lapsed, tree, graph, runs, lock>>

-----------------------------------------------------------------------------

Next ==
    \/ \E prior \in 0..Len(runs) : Plan(prior)
    \/ \E prior \in 0..Len(runs) : Exhaust(prior)
    \/ Adopt
    \/ Ambiguous
    \/ Send
    \/ StartReturns
    \/ GiveUp
    \/ \E i \in DOMAIN runs : RunCreated(i)
    \/ \E i \in DOMAIN runs : RunWorks(i)
    \/ \E g \in Graph : GraphMoves(g)
    \/ \E i \in DOMAIN runs, launcher \in Terminal, core \in Terminal \cup {"none"},
          review \in 0..MaxUse : RunEnds(i, launcher, core, review)
    \/ \E disposition \in {"blocked", "exhausted"} : Terminalize(disposition)
    \/ DeadlinePasses
    \/ Reconcile

Spec == Init /\ [][Next]_vars

-----------------------------------------------------------------------------
(* What must hold *)

\* The ledger of the delivery: one attempt at a time, at most AttemptCeiling of
\* them, a run of its own for each, nothing opened or bound after the delivery
\* was closed, and a closed delivery stays closed (start and Reconcile under
\* crashes, lost and late answers, and terminalize in between).
Closed == dState # "active"
BoundRuns == [n \in 1..Latest |-> attempts[n].run]
SettledAttempts ==
    IF Latest = 0 \/ LatestIs("terminal") THEN Latest ELSE Latest - 1
Ledger == INSTANCE DeliveryLedger WITH
            closed <- Closed, bound <- BoundRuns, settled <- SettledAttempts
LedgerIsKept == Ledger!Spec

\* A second run of one attempt exists only when CompozyOS created a run after
\* its caller had given the start command up: a lost answer, a failed persist
\* or a crash never starts the attempt again (recent-run reconciliation under
\* the lock).
OneRunPerAttempt ==
    \A i, j \in DOMAIN runs :
        i # j /\ runs[i].attempt = runs[j].attempt => runs[i].late \/ runs[j].late

\* A successor follows only a failed attempt with a task to fall back on:
\* canceled, exhausted and terminalized deliveries get none.
SuccessorIsRecovery ==
    \A n \in DOMAIN attempts : n < Latest =>
        attempts[n].state = "terminal" /\ attempts[n].status = "failed" /\ attempts[n].failed

\* When an attempt is settled, all attempts together were charged for exactly
\* the tokens the graph has used, each token once.
TokensChargedOnce ==
    [][LatestIs("submitted") /\ LatestIs("terminal")' =>
         AccountedGraphTokens' = graph.used]_vars

-----------------------------------------------------------------------------
(* What the documentation promises *)

\* The one run that matches a planned attempt can be adopted by a retry while
\* deadline and delivery are open (the delivery recovery design: exactly one
\* matching input tuple is adopted; a replay before and after successor
\* submission returns the same run).
MatchingRunIsAdoptable ==
    /\ lock = Free /\ dState = "active" /\ ~lapsed
    /\ LatestIs("planned")
    /\ Cardinality(Matches(Latest)) = 1
    => ~OutOfBudget /\ tree = ExpectedTree
=============================================================================
