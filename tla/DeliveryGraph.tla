---------------------------- MODULE DeliveryGraph ----------------------------
(***************************************************************************)
(* The journal of one parallel delivery and the operations of              *)
(* deliveryGraphService on it (internal/extensionapp/                      *)
(* delivery_graph_service.go): the waves of tasks, the attempts of every   *)
(* task, the settlement of a wave into the integration worktree, and the   *)
(* disposition that closes the delivery.                                   *)
(*                                                                         *)
(* Every operation of the service loads the journal without the lock, asks *)
(* CompozyOS or Git something, and commits under the workspace lock what   *)
(* it learned.  Load and commit are separate actions here, and a caller    *)
(* holds in between what it read.  record_candidate asks three times, each *)
(* time in an action of its own; the one run that record_question,         *)
(* record_answer and record_failure ask for is read with their load.  A    *)
(* caller may stop anywhere: a refused guard, a failed remote call and a   *)
(* crash of the extension all end it without a further write.              *)
(*                                                                         *)
(* Tasks are numbered in authored order, which is also a topological       *)
(* order.  A commit of the integration branch is named by the number of    *)
(* task commits integrated up to it, 0 being the delivery's initial HEAD;  *)
(* only Integrate moves the branch and it only appends.  A candidate       *)
(* commit is named by the attempt <<task, execution>> that made it.        *)
(***************************************************************************)
EXTENDS Integers, Sequences, FiniteSets, Totals

CONSTANTS
    NTasks,         \* number of authored tasks
    Deps,           \* Deps[t]: the tasks t depends on
    MaxExec,        \* routing.MaxTaskExecutions, 4 in the product
    MaxParallel,    \* routing.MaxParallelTasks, 4 in the product
    TokenCeiling,   \* the delivery's token ceiling
    MaxUse,         \* bound: the tokens one child run can report
    MaxCopies,      \* bound: child runs started for the same inputs
    Prompts,        \* the questions a child may ask
    NoPrompt,       \* an attempt or a run without a question
    Dispositions,   \* the dispositions the core loop may ask terminalize for
    WallRunsOut,    \* whether the active wall clock may run out
    Callers,        \* concurrent invocations of the service
    Duties          \* Duties[c]: the operations caller c may invoke

Tasks == 1..NTasks
Execs == 1..MaxExec

ASSUME SizesAssumption ==
    /\ NTasks \in Nat \ {0}
    /\ MaxExec \in Nat \ {0}
    /\ MaxParallel \in Nat \ {0}
    /\ TokenCeiling \in Nat
    /\ MaxUse \in Nat
    /\ MaxCopies \in Nat
ASSUME DepsAssumption ==
    /\ Deps \in [Tasks -> SUBSET Tasks]
    /\ \A t \in Tasks : \A d \in Deps[t] : d < t
ASSUME DispositionAssumption ==
    /\ Dispositions \subseteq {"blocked", "exhausted"}
    /\ WallRunsOut \in BOOLEAN
ASSUME DutiesAssumption ==
    Duties \in [Callers -> SUBSET {"prepare", "candidate", "failure", "question",
                                    "answer", "settle"}]
ASSUME PromptAssumption == NoPrompt \notin Prompts

VARIABLES
    dState,         \* delivery.State
    wall,           \* TRUE while RemainingActiveWall is positive
    paused,         \* an open HumanPause stops the active wall clock
    tState,         \* task.State
    count,          \* len(task.Attempts)
    att,            \* att[t][e]: the attempt with Execution e
    waves,          \* Graph.Waves
    intents,        \* persisted settlement intents (IntegrationStates)
    integrations,   \* Graph.Integrations
    blockers,       \* Graph.PublicationBlockers is not empty
    head,           \* HEAD of the integration worktree
    results,        \* operations the integrator has completed in Git
    runs,           \* the batuta-task runs CompozyOS knows
    call            \* call[c]: what caller c holds between two parts

journal == <<dState, tState, count, att, waves, intents, integrations,
             blockers, paused>>
git == <<head, results>>
vars == <<journal, wall, git, runs, call>>

-----------------------------------------------------------------------------
(* The values *)

TaskStates == {"pending", "preparing", "running", "waiting_input",
               "candidate", "integrated", "blocked"}
Commit == Tasks \X Execs
RunId == [wave: Nat, task: 0..NTasks, exec: 0..MaxExec, copy: 0..MaxCopies]
NoRun == [wave |-> 0, task |-> 0, exec |-> 0, copy |-> 0]
Operation == [wave: Nat, start: Nat, cands: SUBSET Commit]
NoOperation == [wave |-> 0, start |-> 0, cands |-> {}]
Result == [op: Operation, accepted: SUBSET Commit, conflict: 0..NTasks, final: Nat]

Attempt == [state: TaskStates \cup {"none"}, base: Nat, runExec: 0..MaxExec,
            allow: 0..TokenCeiling, used: 0..MaxUse, child: RunId, tree: Nat,
            prompt: Prompts \cup {NoPrompt}, answered: BOOLEAN,
            conflict: Operation]
NoAttempt == [state |-> "none", base |-> 0, runExec |-> 0, allow |-> 0,
              used |-> 0, child |-> NoRun, tree |-> 0, prompt |-> NoPrompt,
              answered |-> FALSE, conflict |-> NoOperation]

Run == [id: RunId, status: {"running", "done", "failed"}, used: 0..MaxUse,
        ctx: 0..MaxExec, ask: Prompts \cup {NoPrompt}, replied: BOOLEAN]

Call == [op: {"idle", "prepare", "attach", "recent", "status", "inspect",
              "candidate", "failure", "question", "answer", "children", "intent",
              "integrate", "settle"},
         wave: Nat, task: 0..NTasks, exec: 0..MaxExec, run: RunId,
         used: 0..MaxUse, head: Nat, cands: SUBSET Commit,
         todo: SUBSET Tasks, prompt: Prompts \cup {NoPrompt}]
Idle == [op |-> "idle", wave |-> 0, task |-> 0, exec |-> 0, run |-> NoRun,
         used |-> 0, head |-> 0, cands |-> {}, todo |-> {}, prompt |-> NoPrompt]

\* Type invariant: every variable of the journal, of Git and of the callers
\* keeps the shape the Go structures give it.
TypeOK ==
    /\ dState \in {"active", "blocked", "exhausted"}
    /\ wall \in BOOLEAN
    /\ paused \in BOOLEAN
    /\ tState \in [Tasks -> TaskStates]
    /\ count \in [Tasks -> 0..MaxExec]
    /\ att \in [Tasks -> [Execs -> Attempt]]
    /\ waves \in Seq([base: Nat, tasks: SUBSET Tasks])
    /\ intents \in SUBSET Operation
    /\ integrations \in Seq(Result)
    /\ blockers \in BOOLEAN
    /\ head \in Nat
    /\ results \in SUBSET Result
    /\ runs \in SUBSET Run
    /\ call \in [Callers -> Call]

Init ==
    /\ dState = "active"
    /\ wall = TRUE
    /\ paused = FALSE
    /\ tState = [t \in Tasks |-> "pending"]
    /\ count = [t \in Tasks |-> 0]
    /\ att = [t \in Tasks |-> [e \in Execs |-> NoAttempt]]
    /\ waves = <<>>
    /\ intents = {}
    /\ integrations = <<>>
    /\ blockers = FALSE
    /\ head = 0
    /\ results = {}
    /\ runs = {}
    /\ call = [c \in Callers |-> Idle]

-----------------------------------------------------------------------------
(* What the service computes from the journal *)

\* graphIntegrationHead
GraphHead == IF integrations = <<>> THEN 0
             ELSE integrations[Len(integrations)].final

Clamp(n) == IF n \in 0..TokenCeiling THEN n ELSE 0

\* An attempt that still owns its allowance: not closed, and not continued by
\* the attempt an answer appended.
OpenAttempt(a) ==
    a.state \in {"preparing", "running", "waiting_input"} /\ ~a.answered

\* Graph.CumulativeTokens: what the closed attempts used.
CumulativeTokens == Total([x \in Commit |-> att[x[1]][x[2]].used])

\* The allowances the open attempts hold.
Reserved(a) == IF OpenAttempt(a) THEN a.allow ELSE 0
ReservedTokens == Total([x \in Commit |-> Reserved(att[x[1]][x[2]])])

\* graphRemainingBudget
RemainingTokens == Clamp(TokenCeiling - CumulativeTokens)

\* Graph.AvailableTokenBudget: neither used nor reserved.
AvailableWithReserved == RemainingTokens
AvailableTokens == Clamp(TokenCeiling - CumulativeTokens - ReservedTokens)

\* deliveryWaveSlots
WaveSlots(available) ==
    IF available >= MaxParallel THEN MaxParallel ELSE available

Unresolved(w) == {t \in waves[w].tasks : tState[t] \notin {"integrated", "blocked"}}

\* activeDeliveryWave: the newest wave with an unresolved task.
OpenWaves == {w \in DOMAIN waves : Unresolved(w) # {}}
ActiveWave(w) == w \in OpenWaves /\ \A v \in OpenWaves : v <= w

\* AdmitReadyWave: the first ready tasks in authored order.
Ready == {t \in Tasks : tState[t] = "pending"
                        /\ \A d \in Deps[t] : tState[d] = "integrated"}
Admitted(slots) ==
    {t \in Ready : Cardinality({u \in Ready : u < t}) < slots}

\* graphTaskAttemptForRunExecution: the newest attempt of a child run, 0 for none.
AttemptOfRun(t, x) ==
    LET found == {e \in 1..count[t] : att[t][e].runExec = x}
    IN  IF found = {} THEN 0 ELSE CHOOSE e \in found : \A f \in found : f <= e

\* graphTaskForOperation: the operation (wave, task, run execution) addresses
\* attempt e of the active delivery.
Addresses(w, t, x, e) ==
    /\ dState = "active"
    /\ w \in DOMAIN waves
    /\ t \in waves[w].tasks
    /\ e \in 1..count[t]
    /\ e = AttemptOfRun(t, x)
    /\ att[t][e].base = waves[w].base

\* graphTaskRunMatches: the run was started for this wave and attempt.
RunMatches(r, w, t, e) ==
    /\ r.id.wave = w
    /\ r.id.task = t
    /\ r.id.exec = att[t][e].runExec

RunningAttempt(t, e) == tState[t] = "running" /\ att[t][e].state = "running"

\* Under the lock: the attempt a call has read is still the latest one of its
\* task, and still runs.
AsItWasRead(t, e) == TRUE
LatestAttempt(t, e) == e = count[t]
StillRunning(t, e) == e = count[t] /\ RunningAttempt(t, e)

\* A failed or conflicted task gets another attempt while tokens, active wall
\* clock and executions last.
MayRetryOnceMore(e, tokens) == tokens > 0 /\ wall /\ e <= MaxExec
MayRetry(e, tokens) == tokens > 0 /\ wall /\ e < MaxExec

NewAttempt(e, base, allowance) ==
    [NoAttempt EXCEPT !.state = "preparing", !.base = base, !.runExec = e,
                      !.allow = allowance]

\* ReconcileHumanPause: the wall clock stops while a human is asked and no
\* task is preparing or running.
PauseIgnoringPreparing(states) ==
    /\ \E t \in Tasks : states[t] = "waiting_input"
    /\ \A t \in Tasks : states[t] # "running"
PauseFor(states) ==
    /\ \E t \in Tasks : states[t] = "waiting_input"
    /\ \A t \in Tasks : states[t] \notin {"preparing", "running"}

\* Attempt e of task t becomes a.
Replaced(t, e, a) == [att EXCEPT ![t] = [@ EXCEPT ![e] = a]]

Begins(c, duty) == call[c] = Idle /\ duty \in Duties[c]
Holds(c, record) == call' = [call EXCEPT ![c] = record]
Returns(c) == call' = [call EXCEPT ![c] = Idle]

-----------------------------------------------------------------------------
(* prepare_wave *)

\* prepareWave reads the HEAD of the integration worktree before it takes the
\* lock.
PrepareRead(c) ==
    /\ Begins(c, "prepare")
    /\ Holds(c, [Idle EXCEPT !.op = "prepare", !.head = head])
    /\ UNCHANGED <<journal, wall, git, runs>>

\* The HEAD read before the lock is still the one the journal names.
AnyHead(h) == TRUE
ExpectedHead(h) == h = GraphHead

\* Under the lock, an unfinished wave is returned as it stands ...
PrepareResume(c) ==
    /\ call[c].op = "prepare"
    /\ dState = "active"
    /\ ExpectedHead(call[c].head)
    /\ RemainingTokens > 0 /\ wall
    /\ \E w \in DOMAIN waves :
         /\ ActiveWave(w)
         /\ Holds(c, [Idle EXCEPT !.op = "attach", !.wave = w,
                        !.todo = {t \in waves[w].tasks :
                                    tState[t] \in {"preparing", "running"}}])
    /\ UNCHANGED <<journal, wall, git, runs>>

\* ... and otherwise the first ready tasks are admitted in a new wave: each
\* gets its first attempt and an even share of the available tokens.
EvenShare(share, tasks, available) ==
    /\ Total(share) = available
    /\ \A t, u \in tasks : t < u => share[u] \in (share[t] - 1)..share[t]

PrepareAdmit(c) ==
    /\ call[c].op = "prepare"
    /\ dState = "active"
    /\ ExpectedHead(call[c].head)
    /\ RemainingTokens > 0 /\ wall
    /\ OpenWaves = {}
    /\ LET available == AvailableTokens
           admitted == Admitted(WaveSlots(available))
       IN  /\ admitted # {}
           /\ \E share \in [admitted -> 1..available] :
                /\ EvenShare(share, admitted, available)
                /\ att' = [t \in Tasks |->
                             IF t \in admitted
                             THEN [att[t] EXCEPT ![1] = NewAttempt(1, call[c].head, share[t])]
                             ELSE att[t]]
           /\ tState' = [t \in Tasks |-> IF t \in admitted THEN "preparing" ELSE tState[t]]
           /\ count' = [t \in Tasks |-> IF t \in admitted THEN 1 ELSE count[t]]
           /\ waves' = Append(waves, [base |-> call[c].head, tasks |-> admitted])
           /\ Holds(c, [Idle EXCEPT !.op = "attach", !.wave = Len(waves) + 1,
                                    !.todo = admitted])
    /\ UNCHANGED <<dState, intents, integrations, blockers, paused, wall, git, runs>>

\* A worktree is attached to an attempt that still waits for it or runs, and
\* has no worktree of another wave.
Attachable(a, w) == a.tree \in {0, w} /\ a.state \in {"preparing", "running"}

\* reconcileTaskWorktree for the next task of the wave the call holds: the
\* worktree named after the call's wave is planned for the task's latest
\* attempt, found or created, and attached.  Only a ready worktree lets the
\* attempt run; a pending one is attached and leaves it preparing.
AttachWorktree(c, t, ready) ==
    /\ call[c].op = "attach"
    /\ t \in call[c].todo
    /\ \A u \in call[c].todo : t <= u
    /\ count[t] > 0
    /\ LET e == count[t]
           w == call[c].wave
       IN  /\ Attachable(att[t][e], w)
           /\ LET state == IF ready THEN "running" ELSE att[t][e].state IN
                /\ att' = Replaced(t, e, [att[t][e] EXCEPT !.tree = w, !.state = state])
                /\ tState' = [tState EXCEPT ![t] = state]
    /\ Holds(c, [call[c] EXCEPT !.todo = @ \ {t}])
    /\ UNCHANGED <<dState, count, waves, intents, integrations, blockers, paused,
                   wall, git, runs>>

\* prepareWaveOutput reports the wave as the journal has it by now: while one
\* of its tasks is preparing, the loop only goes round again; otherwise its
\* fan-out gets one item for every running task, with the execution of the
\* latest attempt.
PrepareReturn(c) ==
    /\ call[c].op = "attach"
    /\ call[c].todo = {}
    /\ LET w == call[c].wave
           ready == \A t \in waves[w].tasks : tState[t] # "preparing"
           items == {x \in Commit : /\ x[1] \in waves[w].tasks
                                    /\ tState[x[1]] = "running"
                                    /\ x[2] = count[x[1]]}
       IN  IF ready /\ items # {}
           THEN Holds(c, [Idle EXCEPT !.op = "children", !.wave = w, !.cands = items])
           ELSE Returns(c)
    /\ UNCHANGED <<journal, wall, git, runs>>

-----------------------------------------------------------------------------
(* The batuta-task child run of an attempt (loops/batuta-task/loop.yaml) *)

\* The fan-out of the core loop starts a child for an item.  A loop that comes
\* back to an item it already started may start a child with the same inputs.
StartChild(c, x, k) ==
    /\ call[c].op = "children"
    /\ x \in call[c].cands
    /\ LET id == [wave |-> call[c].wave, task |-> x[1], exec |-> x[2], copy |-> k] IN
         /\ \A j \in 1..MaxCopies :
              (\E r \in runs : r.id = [id EXCEPT !.copy = j]) <=> j < k
         /\ runs' = runs \cup {[id |-> id, status |-> "running", used |-> 0,
                                ctx |-> 0, ask |-> NoPrompt, replied |-> FALSE]}
    /\ LET left == call[c].cands \ {x} IN
         IF left = {} THEN Returns(c) ELSE Holds(c, [call[c] EXCEPT !.cands = left])
    /\ UNCHANGED <<journal, wall, git>>

RunBecomes(r, s) == runs' = (runs \ {r}) \cup {s}

\* task_context, the first node of every generation: a read of the journal.
\* It answers the latest attempt only.
TaskContext(r) ==
    /\ r.status = "running" /\ r.ctx = 0
    /\ \E e \in Execs :
         /\ Addresses(r.id.wave, r.id.task, r.id.exec, e)
         /\ e = count[r.id.task]
         /\ att[r.id.task][e].tree # 0
         /\ tState[r.id.task] \in {"running", "waiting_input"}
         /\ RunBecomes(r, [r EXCEPT !.ctx = e])
    /\ UNCHANGED <<journal, wall, git, call>>

\* implement_task returns completed: the implementation output carries the
\* execution task_context reported.
ChildCompletes(r, used) ==
    /\ r.status = "running" /\ r.ctx # 0 /\ r.ask = NoPrompt
    /\ RunBecomes(r, [r EXCEPT !.status = "done", !.used = used])
    /\ UNCHANGED <<journal, wall, git, call>>

\* The run ends blocked, failed, exhausted, stalled or canceled.  What it had
\* read or asked is not looked at again, only its status and its tokens.
ChildFails(r, used) ==
    /\ r.status = "running"
    /\ RunBecomes(r, [r EXCEPT !.status = "failed", !.used = used,
                              !.ctx = 0, !.ask = NoPrompt, !.replied = FALSE])
    /\ UNCHANGED <<journal, wall, git, call>>

\* implement_task returns needs_input.
ChildAsks(r, p) ==
    /\ r.status = "running" /\ r.ctx # 0 /\ r.ask = NoPrompt
    /\ RunBecomes(r, [r EXCEPT !.ask = p])
    /\ UNCHANGED <<journal, wall, git, call>>

\* The attempt in which run r recorded the question it now asks, 0 for none.
QuestionAttempt(r) ==
    LET asked == {e \in 1..count[r.id.task] :
                    /\ att[r.id.task][e].runExec = r.id.exec
                    /\ att[r.id.task][e].prompt = r.ask}
    IN  IF asked = {} THEN 0 ELSE CHOOSE e \in asked : \A f \in asked : f <= e

\* ask_operator follows record_question: a human answers the recorded question.
HumanReplies(r) ==
    /\ r.status = "running" /\ r.ask # NoPrompt /\ ~r.replied
    /\ QuestionAttempt(r) # 0
    /\ RunBecomes(r, [r EXCEPT !.replied = TRUE])
    /\ UNCHANGED <<journal, wall, git, call>>

\* record_answer succeeded and the run begins its next generation.
NextGeneration(r) ==
    /\ r.status = "running" /\ r.replied
    /\ QuestionAttempt(r) # 0
    /\ att[r.id.task][QuestionAttempt(r)].answered
    /\ RunBecomes(r, [r EXCEPT !.ctx = 0, !.ask = NoPrompt, !.replied = FALSE])
    /\ UNCHANGED <<journal, wall, git, call>>

-----------------------------------------------------------------------------
(* record_question and record_answer *)

\* Load and RecentTasks: a new question of the one running child of the
\* addressed attempt.  Replays of recorded questions write nothing.
QuestionLoad(c, r, e) ==
    /\ Begins(c, "question")
    /\ r.status = "running" /\ r.ask # NoPrompt
    /\ LET t == r.id.task
           w == r.id.wave
       IN  /\ Addresses(w, t, r.id.exec, e)
           /\ \A f \in 1..count[t] : ~(att[t][f].runExec = r.id.exec
                                       /\ att[t][f].prompt = r.ask)
           /\ e < MaxExec
           /\ RunningAttempt(t, e)
           /\ {s \in runs : s.status = "running" /\ RunMatches(s, w, t, e)} = {r}
           /\ Holds(c, [Idle EXCEPT !.op = "question", !.task = t, !.exec = e,
                                    !.run = r.id, !.prompt = r.ask])
    /\ UNCHANGED <<journal, wall, git, runs>>

\* Commit: Graph.RecordQuestion parks the attempt.
QuestionCommit(c) ==
    /\ call[c].op = "question"
    /\ LET t == call[c].task
           e == call[c].exec
       IN  /\ StillRunning(t, e)
           /\ att' = Replaced(t, e, [att[t][e] EXCEPT !.state = "waiting_input",
                                                      !.child = call[c].run,
                                                      !.prompt = call[c].prompt])
           /\ tState' = [tState EXCEPT ![t] = "waiting_input"]
    /\ paused' = PauseFor(tState')
    /\ Returns(c)
    /\ UNCHANGED <<dState, count, waves, intents, integrations, blockers, wall, git, runs>>

\* Load and Status: a human answered the open question of the latest attempt.
AnswerLoad(c, r, e) ==
    /\ Begins(c, "answer")
    /\ r.status = "running" /\ r.replied
    /\ LET t == r.id.task
           w == r.id.wave
       IN  /\ Addresses(w, t, r.id.exec, e)
           /\ QuestionAttempt(r) = e
           /\ ~att[t][e].answered
           /\ tState[t] = "waiting_input" /\ att[t][e].state = "waiting_input"
           /\ att[t][e].allow >= 1 /\ wall
           /\ att[t][e].child = r.id
           /\ RunMatches(r, w, t, e)
           /\ Holds(c, [Idle EXCEPT !.op = "answer", !.task = t, !.exec = e, !.run = r.id])
    /\ UNCHANGED <<journal, wall, git, runs>>

\* The answered attempt stays in the history and a new one continues its run.
Continued(a) == [a EXCEPT !.state = "running", !.prompt = NoPrompt, !.child = NoRun]
Answered(t, e) == [att[t] EXCEPT ![e] = [@ EXCEPT !.answered = TRUE],
                                 ![e + 1] = Continued(att[t][e])]

\* Commit: Graph.RecordAnswer appends the physical attempt that continues the
\* same run in the same worktree with the same allowance.
AnswerCommit(c) ==
    /\ call[c].op = "answer"
    /\ LET t == call[c].task
           e == call[c].exec
       IN  /\ e = count[t]
           /\ e < MaxExec
           /\ tState[t] = "waiting_input" /\ att[t][e].state = "waiting_input"
           /\ ~att[t][e].answered
           /\ att' = [att EXCEPT ![t] = Answered(t, e)]
           /\ count' = [count EXCEPT ![t] = e + 1]
           /\ tState' = [tState EXCEPT ![t] = "running"]
    /\ paused' = PauseFor(tState')
    /\ Returns(c)
    /\ UNCHANGED <<dState, waves, intents, integrations, blockers, wall, git, runs>>

-----------------------------------------------------------------------------
(* record_candidate *)

\* The implementation output of a run names the execution its last
\* task_context reported.
AnyOutput(r, e) == TRUE
OutputNames(r, e) == r.ctx = e

CandidateParts == {"recent", "status", "inspect", "candidate"}

\* Load: the operation addresses a running attempt with a worktree.  The parts
\* that follow go by this reading: an attempt keeps its base, its allowance, the
\* execution of its run and, once attached, its worktree.
CandidateLoad(c, w, t, x) ==
    /\ Begins(c, "candidate")
    /\ \E e \in Execs :
         /\ Addresses(w, t, x, e)
         /\ RunningAttempt(t, e)
         /\ att[t][e].tree # 0
         /\ Holds(c, [Idle EXCEPT !.op = "recent", !.wave = w, !.task = t, !.exec = e])
    /\ UNCHANGED <<journal, wall, git, runs>>

\* RecentTasks: there is exactly one completed run of the attempt by now.
CandidateRecent(c, r) ==
    /\ call[c].op = "recent"
    /\ {s \in runs : /\ s.status = "done"
                     /\ RunMatches(s, call[c].wave, call[c].task, call[c].exec)} = {r}
    /\ Holds(c, [call[c] EXCEPT !.op = "status", !.run = r.id])
    /\ UNCHANGED <<journal, wall, git, runs>>

\* Status of that run: its output names this execution, and it stayed within
\* the allowance of the attempt.
CandidateStatus(c, r) ==
    /\ call[c].op = "status"
    /\ r.id = call[c].run
    /\ r.status = "done"
    /\ RunMatches(r, call[c].wave, call[c].task, call[c].exec)
    /\ OutputNames(r, call[c].exec)
    /\ LET allow == att[call[c].task][call[c].exec].allow IN allow > 0 => r.used <= allow
    /\ Holds(c, [call[c] EXCEPT !.op = "inspect", !.used = r.used])
    /\ UNCHANGED <<journal, wall, git, runs>>

\* Candidate: the attached worktree is based on the base of the attempt.
CandidateInspect(c) ==
    /\ call[c].op = "inspect"
    /\ LET a == att[call[c].task][call[c].exec] IN waves[a.tree].base = a.base
    /\ Holds(c, [call[c] EXCEPT !.op = "candidate"])
    /\ UNCHANGED <<journal, wall, git, runs>>

CandidateReads(c) ==
    \/ \E r \in runs : CandidateRecent(c, r) \/ CandidateStatus(c, r)
    \/ CandidateInspect(c)

\* Commit: Graph.RecordCandidate.  The delivery's state is not checked again.
CandidateCommit(c) ==
    /\ call[c].op = "candidate"
    /\ LET t == call[c].task
           e == call[c].exec
       IN  /\ StillRunning(t, e)
           /\ att' = Replaced(t, e, [att[t][e] EXCEPT !.state = "candidate",
                                                      !.child = call[c].run,
                                                      !.used = call[c].used])
           /\ tState' = [tState EXCEPT ![t] = "candidate"]
    /\ paused' = PauseFor(tState')
    /\ Returns(c)
    /\ UNCHANGED <<dState, count, waves, intents, integrations, blockers, wall, git, runs>>

-----------------------------------------------------------------------------
(* record_failure *)

\* Load and Status: the failed run of a running attempt, or a replay of the
\* failure this attempt already holds.
FailureLoad(c, r, e) ==
    /\ Begins(c, "failure")
    /\ r.status = "failed"
    /\ LET t == r.id.task
           w == r.id.wave
       IN  /\ Addresses(w, t, r.id.exec, e)
           /\ \/ /\ att[t][e].state = "blocked"
                 /\ att[t][e].child = r.id
              \/ /\ RunningAttempt(t, e)
                 /\ RunMatches(r, w, t, e)
           /\ Holds(c, [Idle EXCEPT !.op = "failure", !.task = t, !.exec = e,
                                    !.run = r.id, !.used = r.used])
    /\ UNCHANGED <<journal, wall, git, runs>>

\* The tokens the fallback attempt may have: what is available once the failed
\* attempt gave back its allowance and paid what it used.
ProjectedForFree(t, e, used) == Clamp(AvailableTokens + att[t][e].allow)
ProjectedTokens(t, e, used) == Clamp(AvailableTokens + att[t][e].allow - used)

\* Commit of a failure not recorded yet: Graph.RecordFailure closes the attempt
\* and either appends a fallback attempt in a wave of its own, based on the
\* current integration head, or blocks the task.  Fallback says whether the
\* routing generation has another runtime for the task.
FailureCommit(c, fallback) ==
    /\ call[c].op = "failure"
    /\ dState = "active"
    /\ LET t == call[c].task
           e == call[c].exec
           projected == ProjectedTokens(t, e, call[c].used)
           retry == MayRetry(e, projected) /\ fallback
           closed == [att[t][e] EXCEPT !.state = "blocked", !.child = call[c].run,
                                       !.used = call[c].used]
       IN  /\ StillRunning(t, e)
           /\ IF retry
              THEN /\ att' = [att EXCEPT ![t] = [@ EXCEPT ![e] = closed,
                                ![e + 1] = NewAttempt(e + 1, GraphHead, projected)]]
                   /\ count' = [count EXCEPT ![t] = e + 1]
                   /\ tState' = [tState EXCEPT ![t] = "preparing"]
                   /\ waves' = Append(waves, [base |-> GraphHead, tasks |-> {t}])
              ELSE /\ att' = Replaced(t, e, closed)
                   /\ tState' = [tState EXCEPT ![t] = "blocked"]
                   /\ UNCHANGED <<count, waves>>
    /\ paused' = PauseFor(tState')
    /\ Returns(c)
    /\ UNCHANGED <<dState, intents, integrations, blockers, wall, git, runs>>

\* Commit of a failure the journal already holds: a replay writes nothing new.
FailureReplay(c) ==
    /\ call[c].op = "failure"
    /\ dState = "active"
    /\ att[call[c].task][call[c].exec].state = "blocked"
    /\ att[call[c].task][call[c].exec].child = call[c].run
    /\ Returns(c)
    /\ UNCHANGED <<journal, wall, git, runs>>

-----------------------------------------------------------------------------
(* settle_wave *)

OperationOf(record) ==
    [wave |-> record.wave, start |-> record.head, cands |-> record.cands]

Completed == {integrations[i].op : i \in DOMAIN integrations}

\* pendingGraphSettlementRequest: the persisted intents of a wave that no
\* integration completed.
PendingIntents(w) == {i \in intents : i.wave = w /\ i \notin Completed}

\* waveSettlementCandidates: the candidates of a wave, none while a task of
\* the wave has a newer attempt on another base.
SettlementCandidatesOnAnyBase(w) ==
    {x \in Commit : /\ x[1] \in Unresolved(w)
                    /\ x[2] = count[x[1]]
                    /\ tState[x[1]] = "candidate"}
SettlementCandidates(w) ==
    IF \E t \in Unresolved(w) : count[t] = 0 \/ att[t][count[t]].base # waves[w].base
    THEN {}
    ELSE {x \in Commit : /\ x[1] \in Unresolved(w)
                         /\ x[2] = count[x[1]]
                         /\ tState[x[1]] = "candidate"}

\* Load: an intent that is still pending is taken up again ...
SettleResume(c, w) ==
    /\ Begins(c, "settle")
    /\ dState = "active"
    /\ \E i \in intents :
         /\ PendingIntents(w) = {i}
         /\ i.start = GraphHead
         /\ Holds(c, [Idle EXCEPT !.op = "integrate", !.wave = w,
                                  !.head = i.start, !.cands = i.cands])
    /\ UNCHANGED <<journal, wall, git, runs>>

\* ... and otherwise the wave's candidates make a new request.
SettleLoad(c, w) ==
    /\ Begins(c, "settle")
    /\ dState = "active"
    /\ w \in DOMAIN waves
    /\ PendingIntents(w) = {}
    /\ SettlementCandidates(w) # {}
    /\ Holds(c, [Idle EXCEPT !.op = "intent", !.wave = w, !.head = GraphHead,
                             !.cands = SettlementCandidates(w)])
    /\ UNCHANGED <<journal, wall, git, runs>>

\* persistGraphSettlementIntent: the request must still be what the journal
\* says under the lock.
SettleIntent(c) ==
    /\ call[c].op = "intent"
    /\ call[c].wave \in DOMAIN waves
    /\ SettlementCandidates(call[c].wave) = call[c].cands
    /\ GraphHead = call[c].head
    /\ intents' = intents \cup {OperationOf(call[c])}
    /\ Holds(c, [call[c] EXCEPT !.op = "integrate"])
    /\ UNCHANGED <<dState, tState, count, att, waves, integrations, blockers, paused,
                   wall, git, runs>>

\* Integrator.Integrate applies the candidates in order onto the expected head
\* up to the first one that conflicts.  A candidate made on that very head
\* cannot conflict.
Accepted(cands, conflict) == {x \in cands : conflict = 0 \/ x[1] < conflict}
HeadOfAllCandidates(start, cands, conflict) == start + Cardinality(cands)
FinalHead(start, cands, conflict) == start + Cardinality(Accepted(cands, conflict))

IntegratesAnywhere(start) == TRUE
IntegratesAt(start) == head = start

Integrate(c, conflict) ==
    /\ call[c].op = "integrate"
    /\ IntegratesAt(call[c].head)
    /\ \A r \in results : r.op # OperationOf(call[c])
    /\ LET final == FinalHead(head, call[c].cands, conflict) IN
         /\ conflict = 0 \/ \E x \in call[c].cands :
                              x[1] = conflict /\ att[x[1]][x[2]].base # final
         /\ head' = final
         /\ results' = results \cup
              {[op |-> OperationOf(call[c]), conflict |-> conflict, final |-> final,
                accepted |-> Accepted(call[c].cands, conflict)]}
    /\ Holds(c, [call[c] EXCEPT !.op = "settle"])
    /\ UNCHANGED <<journal, wall, runs>>

\* An operation that Git already completed is answered from its journal.
IntegrateReplay(c) ==
    /\ call[c].op = "integrate"
    /\ \E r \in results : r.op = OperationOf(call[c])
    /\ Holds(c, [call[c] EXCEPT !.op = "settle"])
    /\ UNCHANGED <<journal, wall, git, runs>>

\* Commit: Graph.SettleWave records the accepted prefix as integrated and gives
\* the first conflicting task an attempt on the new head, in a wave of its own
\* and with all the available tokens, or blocks it.
ConflictLeavesNoTrace(r, retry, available) ==
    [t \in Tasks |->
       LET e == count[t] IN
       IF <<t, e>> \in r.accepted
         THEN [att[t] EXCEPT ![e] = [@ EXCEPT !.state = "integrated"]]
       ELSE IF t # r.conflict THEN att[t]
       ELSE IF retry THEN [att[t] EXCEPT ![e + 1] = NewAttempt(e + 1, r.final, available)]
       ELSE [att[t] EXCEPT ![e] = [@ EXCEPT !.state = "blocked"]]]
SettledAttempts(r, retry, available) ==
    [t \in Tasks |->
       LET e == count[t] IN
       IF <<t, e>> \in r.accepted
         THEN [att[t] EXCEPT ![e] = [@ EXCEPT !.state = "integrated"]]
       ELSE IF t # r.conflict THEN att[t]
       ELSE IF retry
         THEN [att[t] EXCEPT ![e] = [@ EXCEPT !.conflict = r.op],
                             ![e + 1] = NewAttempt(e + 1, r.final, available)]
       ELSE [att[t] EXCEPT ![e] = [@ EXCEPT !.state = "blocked", !.conflict = r.op]]]

SettleCommit(c, r) ==
    /\ call[c].op = "settle"
    /\ r.op = OperationOf(call[c])
    /\ r.op \notin Completed
    /\ r.op.start = GraphHead
    /\ \A x \in r.op.cands :
         (x \in r.accepted \/ x[1] = r.conflict) =>
            x[2] = count[x[1]] /\ tState[x[1]] = "candidate"
    /\ LET available == AvailableTokens
           k == r.conflict
           retry == k # 0 /\ MayRetry(count[k], available)
       IN  /\ att' = SettledAttempts(r, retry, available)
           /\ tState' = [t \in Tasks |->
                           IF <<t, count[t]>> \in r.accepted THEN "integrated"
                           ELSE IF t = k THEN (IF retry THEN "preparing" ELSE "blocked")
                           ELSE tState[t]]
           /\ count' = [t \in Tasks |-> IF t = k /\ retry THEN count[t] + 1 ELSE count[t]]
           /\ waves' = IF retry THEN Append(waves, [base |-> r.final, tasks |-> {k}])
                       ELSE waves
    /\ integrations' = Append(integrations, r)
    /\ paused' = PauseFor(tState')
    /\ Returns(c)
    /\ UNCHANGED <<dState, intents, blockers, wall, git, runs>>

\* A settlement another caller committed first is a replay: no second wave and
\* no second reservation.
SettleReplay(c) ==
    /\ call[c].op = "settle"
    /\ OperationOf(call[c]) \in Completed
    /\ Returns(c)
    /\ UNCHANGED <<journal, wall, git, runs>>

-----------------------------------------------------------------------------
(* terminalize, the clock, and the end of a call *)

\* terminalDispositionProven
ExhaustionProven ==
    \/ RemainingTokens = 0
    \/ ~wall
    \/ \E t \in Tasks : /\ tState[t] = "blocked"
                        /\ \/ count[t] >= MaxExec
                           \/ att[t][count[t]].conflict # NoOperation
BlockProven(recorded) ==
    /\ ~ExhaustionProven
    /\ recorded \/ \E t \in Tasks : tState[t] = "blocked"

\* terminalize records the publication blockers it is given, then stores the
\* disposition the graph proves; a disposition that is not proven, or a
\* delivery closed otherwise, is refused without a write.
Terminalize(disposition, given) ==
    /\ dState \in {"active", disposition}
    /\ CASE disposition = "exhausted" -> ExhaustionProven
         [] disposition = "blocked" -> BlockProven(blockers \/ given)
    /\ dState' = disposition
    /\ blockers' = (blockers \/ given)
    /\ UNCHANGED <<tState, count, att, waves, intents, integrations, paused,
                   wall, git, runs, call>>

\* The active wall clock runs out; it stands still during a human pause.
WallExpires ==
    /\ WallRunsOut /\ wall /\ ~paused
    /\ wall' = FALSE
    /\ UNCHANGED <<journal, git, runs, call>>

\* A call ends before its next part: its guard is refused, a remote call
\* fails, or the extension crashes.
CallEnds(c) ==
    /\ call[c] # Idle
    /\ Returns(c)
    /\ UNCHANGED <<journal, wall, git, runs>>

-----------------------------------------------------------------------------

ServiceStep(c) ==
    \/ PrepareRead(c)
    \/ PrepareResume(c)
    \/ PrepareAdmit(c)
    \/ \E t \in Tasks, ready \in BOOLEAN : AttachWorktree(c, t, ready)
    \/ PrepareReturn(c)
    \/ \E x \in Commit, k \in 1..MaxCopies : StartChild(c, x, k)
    \/ \E r \in runs, e \in Execs : QuestionLoad(c, r, e)
    \/ QuestionCommit(c)
    \/ \E r \in runs, e \in Execs : AnswerLoad(c, r, e)
    \/ AnswerCommit(c)
    \/ \E w \in DOMAIN waves : \E t \in waves[w].tasks, x \in Execs : CandidateLoad(c, w, t, x)
    \/ CandidateReads(c)
    \/ CandidateCommit(c)
    \/ \E r \in runs, e \in Execs : FailureLoad(c, r, e)
    \/ \E fallback \in BOOLEAN : FailureCommit(c, fallback)
    \/ FailureReplay(c)
    \/ \E w \in DOMAIN waves : SettleResume(c, w)
    \/ \E w \in DOMAIN waves : SettleLoad(c, w)
    \/ SettleIntent(c)
    \/ \E conflict \in 0..NTasks : Integrate(c, conflict)
    \/ IntegrateReplay(c)
    \/ \E r \in results : SettleCommit(c, r)
    \/ SettleReplay(c)
    \/ CallEnds(c)

ChildStep ==
    \/ \E r \in runs : TaskContext(r)
    \/ \E r \in runs, used \in 0..MaxUse : ChildCompletes(r, used)
    \/ \E r \in runs, used \in 0..MaxUse : ChildFails(r, used)
    \/ \E r \in runs, p \in Prompts : ChildAsks(r, p)
    \/ \E r \in runs : HumanReplies(r)
    \/ \E r \in runs : NextGeneration(r)

Next ==
    \/ \E c \in Callers : ServiceStep(c)
    \/ ChildStep
    \/ \E disposition \in Dispositions, given \in BOOLEAN :
         Terminalize(disposition, given)
    \/ WallExpires

Spec == Init /\ [][Next]_vars

-----------------------------------------------------------------------------
(* What must hold *)

Closed(a) ==
    \/ a.state = "blocked"
    \/ a.state = "waiting_input" /\ a.answered
    \/ a.state = "candidate" /\ a.conflict # NoOperation

\* A task is what its latest attempt is, every earlier attempt is over, and
\* none exists beyond the count: whatever callers raced, the journal never
\* holds two live attempts of a task (Graph.RecordFailure, RecordAnswer and
\* SettleWave, committed over stale reads).
TaskMirrorsLatestAttempt ==
    \A t \in Tasks :
        /\ IF count[t] = 0 THEN tState[t] = "pending"
           ELSE tState[t] = att[t][count[t]].state /\ ~att[t][count[t]].answered
        /\ \A e \in Execs :
             /\ e < count[t] => Closed(att[t][e])
             /\ e > count[t] => att[t][e] = NoAttempt

\* The tokens granted to live attempts and the tokens closed attempts paid out
\* of their allowance never exceed the delivery's ceiling, however failures,
\* conflicts and answers hand allowances on (ReserveWaveTokens,
\* ReserveAttemptTokens and the projections of recordFailure).
Spent(a) ==
    IF OpenAttempt(a) THEN a.allow ELSE IF a.used <= a.allow THEN a.used ELSE a.allow
BudgetConserved == Total([x \in Commit |-> Spent(att[x[1]][x[2]])]) <= TokenCeiling

\* A candidate stands for a run that completed this very attempt: the run is
\* done, reported these tokens, and its last task context named this execution,
\* although recordCandidate reads the journal, the list of runs, the run and the
\* worktree one after the other without a lock while failures, answers and other
\* copies of the run go on.
CandidateHasItsRun ==
    \A t \in Tasks, e \in Execs :
        att[t][e].state \in {"candidate", "integrated"} =>
            \E r \in runs : /\ r.id = att[t][e].child
                            /\ r.id.task = t
                            /\ r.status = "done"
                            /\ r.used = att[t][e].used
                            /\ r.ctx = e

\* The integrations of the journal are one chain of commits, each candidate is
\* in it at most once, and the branch is at its end or one whole operation
\* ahead of it: a crash between Integrate and the commit of settleWave loses
\* nothing and a replay duplicates nothing.
IntegrationChain ==
    /\ \A i \in DOMAIN integrations :
         LET r == integrations[i] IN
         /\ r.op.start = IF i = 1 THEN 0 ELSE integrations[i - 1].final
         /\ r.final = r.op.start + Cardinality(r.accepted)
         /\ \A j \in DOMAIN integrations :
              i # j => integrations[j].accepted \cap r.accepted = {}
    /\ \/ head = GraphHead
       \/ \E r \in results : /\ r.op \notin Completed
                             /\ r.op.start = GraphHead
                             /\ r.final = head

\* Every attempt of a task is based on a commit that contains the integrated
\* work of all its dependencies (prepareWave checks a HEAD it read before the
\* lock; fallbacks and conflicts rebase on the head of their own commit).
DependencyBase ==
    \A t \in Tasks, e \in Execs : att[t][e].state # "none" =>
        \A d \in Deps[t] :
            \E i \in DOMAIN integrations :
                /\ <<d, count[d]>> \in integrations[i].accepted
                /\ integrations[i].final <= att[t][e].base

\* The active wall clock stands still exactly while a question is open and no
\* task is preparing or running, although prepare_wave admits and attaches
\* without reconciling the pause.
PauseExact ==
    paused <=> /\ \E t \in Tasks : tState[t] = "waiting_input"
               /\ \A t \in Tasks : tState[t] \notin {"preparing", "running"}

\* A wave that met a conflict is settled again only after the conflicted task
\* was integrated through the wave of its replacement, or is blocked: the
\* candidates behind the conflict wait (waveSettlementCandidates).
ConflictFence ==
    \A i, j \in DOMAIN integrations :
        LET k == integrations[i].conflict IN
        i < j /\ k # 0 /\ integrations[i].op.wave = integrations[j].op.wave =>
            \/ tState[k] = "blocked"
            \/ \E m \in (i + 1)..(j - 1) : \E x \in integrations[m].accepted : x[1] = k

\* What an attempt became stays: a candidate is only integrated, blocked or
\* closed by its conflict, integrated and blocked attempts never change, and
\* an attempt keeps its base for ever.
AttemptHistoryIsKept ==
    [][\A t \in Tasks, e \in Execs :
         LET a == att[t][e]
             b == att'[t][e]
         IN  /\ a.state \in {"integrated", "blocked"} => b = a
             /\ a.state = "candidate" =>
                  /\ b.state \in {"candidate", "integrated", "blocked"}
                  /\ [b EXCEPT !.state = a.state, !.conflict = a.conflict] = a
             /\ a.state # "none" => b.base = a.base]_vars

-----------------------------------------------------------------------------
(* What the documentation promises *)

\* A persisted settlement intent can be taken up again as long as one of its
\* candidates waits for it (docs/how-it-works.md, section 5: replaying an
\* integration returns the truthful current result).
IntentCanBeResumed ==
    \A i \in intents \ Completed : \A x \in i.cands :
        x[2] = count[x[1]] /\ tState[x[1]] = "candidate" => i.start = GraphHead

\* The worktree of an attempt was created at the base the attempt records (the
\* parallel graph design: each attempt receives a worktree created from the
\* exact integration HEAD recorded for its wave).
WorktreeAtBase ==
    \A t \in Tasks, e \in Execs :
        att[t][e].tree # 0 => waves[att[t][e].tree].base = att[t][e].base

\* No task behind a conflict is integrated before the conflicted task is
\* replaced, in whichever wave it became a candidate (the parallel graph
\* design: tasks after the conflict remain completed candidates but are not
\* integrated until the conflict is replaced).
ReplacedBeforeLaterTasks ==
    \A i \in DOMAIN integrations :
        LET r == integrations[i] IN
        \A x \in r.op.cands :
            r.conflict # 0 /\ x[1] > r.conflict /\ tState[x[1]] = "integrated"
                => tState[r.conflict] \in {"integrated", "blocked"}

\* A child run the core loop starts belongs to an attempt (docs/
\* how-it-works.md, section 5: replays create no duplicate child runs).
ChildHasItsAttempt ==
    \A r \in runs : AttemptOfRun(r.id.task, r.id.exec) # 0
=============================================================================
