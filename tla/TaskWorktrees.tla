---------------------------- MODULE TaskWorktrees ----------------------------
(***************************************************************************)
(* The CompozyOS worktrees of the task attempts: how prepare_wave plans,   *)
(* finds or creates and attaches them (reconcileTaskWorktree), how cleanup *)
(* inspects and removes them (cleanup, cleanupAttempt), and the client     *)
(* both use (internal/worktreeops).                                        *)
(*                                                                         *)
(* The journal and CompozyOS are two stores without a common transaction.  *)
(* Both handlers write ahead what they are going to do, hold the workspace *)
(* lock from the last look at the worktree to the write that records the   *)
(* outcome, and rely on a later call to find out what became of a command  *)
(* whose answer was lost.  A call may end between any two steps (CallEnds):*)
(* a refused guard, a command that failed, one that ran into its timeout   *)
(* of 30 seconds, and a crash of the extension look alike.  A command that *)
(* was sent and given up may still be carried out by CompozyOS, at any     *)
(* later time, or be lost.                                                 *)
(*                                                                         *)
(* The rest of the delivery is abstracted to what moves an attempt         *)
(* (DeliveryGraph has it in full).  A wave of several tasks is one wave    *)
(* for each of them here.  Only one cleanup call runs at a time: one node  *)
(* of the core loop makes it and its reattempts are halted.                *)
(***************************************************************************)
EXTENDS Integers, Sequences, FiniteSets, SequencesExt, FiniteSetsExt

CONSTANTS
    NTasks,     \* number of authored tasks
    MaxExec,    \* routing.MaxTaskExecutions, 4 in the product
    MaxTrees,   \* bound: create commands sent
    Touches,    \* bound: times somebody else changes a worktree
    MaxHead,    \* bound: commits on the integration branch
    Callers,    \* concurrent calls of the service
    Cleaner,    \* the one caller that also cleans up
    Nobody      \* the workspace lock is free

Tasks == 1..NTasks
Trees == 1..MaxTrees

ASSUME SizesAssumption ==
    /\ NTasks \in Nat \ {0}
    /\ MaxExec \in Nat \ {0}
    /\ MaxTrees \in Nat
    /\ Touches \in Nat
    /\ MaxHead \in Nat
ASSUME CallersAssumption == Cleaner \in Callers /\ Nobody \notin Callers

VARIABLES
    att,        \* att[t]: task.Attempts
    waves,      \* Graph.Waves, each with its task and base
    head,       \* graphIntegrationHead
    cleanups,   \* cleanups[id]: state of the cleanup operation of worktree id
    dState,     \* delivery.State
    trees,      \* create commands sent, each with the worktree it created
    touched,    \* how often somebody else changed a worktree
    lock,       \* who is in WithLockedJournal
    call,       \* call[c]: what call c holds between two steps
    report      \* the disposition the last cleanup returned

graph == <<att, waves, head, dState>>
vars == <<att, waves, head, cleanups, dState, trees, touched, lock, call, report>>

-----------------------------------------------------------------------------
(* The values *)

\* worktreeops.DeriveIdentity: the name and the branch of a worktree stand for
\* the wave, the task, the execution of the child run and the base.
Name == [wave: Nat, task: 0..NTasks, exec: 0..MaxExec, base: Nat]
NoName == [wave |-> 0, task |-> 0, exec |-> 0, base |-> 0]
IdentityOfTask(w, t, exec) == [wave |-> 1, task |-> t, exec |-> 1, base |-> waves[w].base]
Identity(w, t, exec) == [wave |-> w, task |-> t, exec |-> exec, base |-> waves[w].base]

\* An attempt; run is its RunExecution, commit whether CandidateCommitSHA is set.
Attempt == [state: {"preparing", "running", "answered", "candidate", "conflicted",
                    "integrated", "blocked"},
            run: 1..MaxExec, base: Nat, intent: Name, tree: 0..MaxTrees,
            commit: BOOLEAN]
NewAttempt(exec) == [state |-> "preparing", run |-> exec, base |-> head,
                     intent |-> NoName, tree |-> 0, commit |-> FALSE]

\* A create command ("sent") or the worktree it created; content is what
\* WorktreeState shows of it, asked whether a remove command was sent for it,
\* removed whether that command removed it.  A late command is one whose call
\* ended before CompozyOS had carried it out, a late change one made between
\* the last look at the worktree and its removal.
TreeStates == {"sent", "pending", "ready", "failed", "removing", "removed"}
Tree == [name: Name, state: TreeStates, healthy: BOOLEAN,
         content: {"base", "commit", "changed"}, asked: BOOLEAN, removed: BOOLEAN,
         lateCreate: BOOLEAN, lateRemove: BOOLEAN, lateChange: BOOLEAN]
SentTree(name) ==
    [name |-> name, state |-> "sent", healthy |-> TRUE, content |-> "base",
     asked |-> FALSE, removed |-> FALSE,
     lateCreate |-> FALSE, lateRemove |-> FALSE, lateChange |-> FALSE]

Call == [op: {"idle", "plan", "attach", "create", "inspect", "persist", "check",
              "remove", "record"},
         wave: Nat, task: 0..NTasks, exec: 0..MaxExec, name: Name,
         tree: 0..MaxTrees, todo: SUBSET Trees, done: SUBSET Tasks, head: Nat,
         verdict: {"none", "planned", "removed", "retained"}]
Idle == [op |-> "idle", wave |-> 0, task |-> 0, exec |-> 0, name |-> NoName,
         tree |-> 0, todo |-> {}, done |-> {}, head |-> 0, verdict |-> "none"]

\* Type invariant: the journal, CompozyOS and the calls keep the shape of the
\* Go structures, and the lock belongs to a call that is in a locked section.
TypeOK ==
    /\ att \in [Tasks -> Seq(Attempt)]
    /\ waves \in Seq([task: Tasks, base: Nat])
    /\ head \in Nat
    /\ cleanups \in [Trees -> {"none", "planned", "removed", "retained"}]
    /\ dState \in {"active", "blocked"}
    /\ trees \in Seq(Tree) /\ Len(trees) <= MaxTrees
    /\ touched \in 0..Touches
    /\ lock \in Callers \cup {Nobody}
    /\ call \in [Callers -> Call]
    /\ report \in {"none", "cleaned", "blocked"}
    /\ \A c \in Callers : lock = c <=> call[c].op \in {"create", "attach", "remove", "record"}

Init ==
    /\ att = [t \in Tasks |-> <<>>]
    /\ waves = <<>>
    /\ head = 0
    /\ cleanups = [id \in Trees |-> "none"]
    /\ dState = "active"
    /\ trees = <<>>
    /\ touched = 0
    /\ lock = Nobody
    /\ call = [c \in Callers |-> Idle]
    /\ report = "none"

Integrated(t) == att[t] # <<>> /\ Last(att[t]).state = "integrated"
IntegratedTasks == {t \in Tasks : Integrated(t)}

\* graphWaveForAttempt: attempts that continue an answered question stay in
\* their wave, every other attempt has one of its own.
WaveOrdinal(t, e) == 1 + Cardinality({f \in 1..(e - 1) : att[t][f].state # "answered"})
WaveOf(t, e) ==
    CHOOSE w \in DOMAIN waves :
        /\ waves[w].task = t
        /\ Cardinality({v \in 1..w : waves[v].task = t}) = WaveOrdinal(t, e)

Holds(c, record) == call' = [call EXCEPT ![c] = record]
Free == lock = Nobody
TreeBecomes(id, tree) == trees' = [trees EXCEPT ![id] = tree]

-----------------------------------------------------------------------------
(* What the rest of the delivery does to an attempt, each under the lock *)

\* att[t] becomes s, followed by a new attempt in a new wave if there is to be
\* one.
Continues(t, s, retry) ==
    /\ att' = [att EXCEPT ![t] = IF retry THEN Append(s, NewAttempt(Len(s) + 1)) ELSE s]
    /\ waves' = IF retry THEN Append(waves, [task |-> t, base |-> head]) ELSE waves

Closes(t, state) == [att[t] EXCEPT ![Len(att[t])].state = state]

Unchanged == UNCHANGED <<cleanups, trees, touched, lock, call, report, dState>>

\* AdmitReadyWave
Admits(t) ==
    /\ Free /\ att[t] = <<>>
    /\ Continues(t, <<>>, TRUE)
    /\ UNCHANGED head
    /\ Unchanged

\* record_failure, with or without a fallback
Fails(t, retry) ==
    /\ Free /\ att[t] # <<>> /\ Last(att[t]).state = "running"
    /\ retry => Len(att[t]) < MaxExec
    /\ Continues(t, Closes(t, "blocked"), retry)
    /\ UNCHANGED head
    /\ Unchanged

\* record_question and record_answer: the next attempt goes on in the same
\* worktree as the same child run.
Answers(t) ==
    /\ Free /\ att[t] # <<>> /\ Last(att[t]).state = "running"
    /\ Len(att[t]) < MaxExec
    /\ att' = [att EXCEPT ![t] = Append(Closes(t, "answered"), Last(@))]
    /\ UNCHANGED <<waves, head>>
    /\ Unchanged

\* record_candidate: the child left one commit in a clean worktree that was
\* created at the attempt's base.
BecomesCandidate(t) ==
    /\ Free /\ att[t] # <<>> /\ Last(att[t]).state = "running"
    /\ LET id == Last(att[t]).tree IN
         /\ trees[id].state = "ready" /\ trees[id].content = "commit"
         /\ trees[id].name.base = Last(att[t]).base
    /\ att' = [att EXCEPT ![t][Len(att[t])] =
                 [@ EXCEPT !.state = "candidate", !.commit = TRUE]]
    /\ UNCHANGED <<waves, head>>
    /\ Unchanged

\* settle_wave, for this task, for a task whose worktrees are not modelled, or
\* with a conflict: a candidate made on the head itself cannot conflict.  A
\* conflict is retried unless executions, tokens or wall time are used up.
Integrates(t) ==
    /\ Free /\ att[t] # <<>> /\ Last(att[t]).state = "candidate"
    /\ head < MaxHead
    /\ att' = [att EXCEPT ![t] = Closes(t, "integrated")]
    /\ head' = head + 1
    /\ UNCHANGED waves
    /\ Unchanged
OthersIntegrate ==
    /\ Free /\ head < MaxHead
    /\ head' = head + 1
    /\ UNCHANGED <<att, waves>>
    /\ Unchanged
Conflicts(t, retry) ==
    /\ Free /\ att[t] # <<>> /\ Last(att[t]).state = "candidate"
    /\ Last(att[t]).base # head
    /\ retry => Len(att[t]) < MaxExec
    /\ Continues(t, Closes(t, IF retry THEN "conflicted" ELSE "blocked"), retry)
    /\ UNCHANGED head
    /\ Unchanged

-----------------------------------------------------------------------------
(* CompozyOS and everybody who works in a worktree *)

OtherUnchanged == UNCHANGED <<graph, cleanups, lock, call, report>>

\* A create command is carried out, while its call waits or after it gave up.
WorktreeCreated(id, state) ==
    /\ trees[id].state = "sent"
    /\ TreeBecomes(id, [trees[id] EXCEPT !.state = state])
    /\ UNCHANGED touched
    /\ OtherUnchanged

\* A remove command is carried out, likewise.  Until it is, the worktree may
\* change, and while it is, the worktree is shown as removing.
RemovalBegins(id) ==
    /\ trees[id].asked /\ trees[id].state = "ready"
    /\ TreeBecomes(id, [trees[id] EXCEPT !.state = "removing"])
    /\ UNCHANGED touched
    /\ OtherUnchanged
RemovalEnds(id) ==
    /\ trees[id].state = "removing"
    /\ TreeBecomes(id, [trees[id] EXCEPT !.state = "removed", !.removed = TRUE])
    /\ UNCHANGED touched
    /\ OtherUnchanged

\* The setup of a new worktree ends.
SetupEnds(id, state, healthy) ==
    /\ trees[id].state = "pending"
    /\ state = "failed" => ~healthy
    /\ TreeBecomes(id, [trees[id] EXCEPT !.state = state, !.healthy = healthy])
    /\ UNCHANGED touched
    /\ OtherUnchanged

\* The child run of a running attempt commits its work.
ChildCommits(t) ==
    /\ att[t] # <<>> /\ Last(att[t]).state = "running"
    /\ LET id == Last(att[t]).tree IN
         /\ trees[id].state = "ready" /\ trees[id].content = "base"
         /\ TreeBecomes(id, [trees[id] EXCEPT !.content = "commit"])
    /\ UNCHANGED touched
    /\ OtherUnchanged

\* A child that leaves dirty files, a delivery that ended, an operator: the
\* worktree is changed, or removed, behind Batuta's back.
Touched(id, state) ==
    /\ touched < Touches
    /\ trees[id].state = "ready"
    /\ TreeBecomes(id, [trees[id] EXCEPT !.state = state, !.content = "changed",
                          !.lateChange = \/ trees[id].asked
                                         \/ \E c \in Callers : /\ call[c].op = "remove"
                                                               /\ call[c].tree = id])
    /\ touched' = touched + 1
    /\ OtherUnchanged

-----------------------------------------------------------------------------
(* prepare_wave: reconcileTaskWorktree *)

JournalUnchanged == UNCHANGED <<graph, cleanups>>
OutsideUnchanged == UNCHANGED <<trees, touched, report>>

\* prepareWave has found or admitted the wave of a task that is preparing or
\* running.
PrepareTask(c, t) ==
    /\ call[c] = Idle /\ Free /\ dState = "active"
    /\ att[t] # <<>> /\ Last(att[t]).state \in {"preparing", "running"}
    /\ Holds(c, [Idle EXCEPT !.op = "plan", !.task = t, !.wave = WaveOf(t, Len(att[t]))])
    /\ JournalUnchanged /\ OutsideUnchanged /\ UNCHANGED lock

\* The task's latest attempt gets the intent derived from the call's wave, or
\* holds it already.
PlanWorktree(c) ==
    /\ call[c].op = "plan" /\ Free
    /\ LET t == call[c].task
           e == Len(att[t])
           a == att[t][e]
           name == Identity(call[c].wave, t, a.run)
       IN  /\ \/ a.intent = name
              \/ a.intent = NoName /\ a.state = "preparing"
           /\ att' = [att EXCEPT ![t][e].intent = name]
           /\ Holds(c, [call[c] EXCEPT !.op = "inspect", !.exec = e, !.name = name])
    /\ UNCHANGED <<waves, head, cleanups, dState, lock>>
    /\ OutsideUnchanged

\* Inspect and FindByName under the lock: the worktree the attempt has, the one
\* worktree of this name, or none.
Named(name) == {id \in DOMAIN trees : trees[id].name = name /\ trees[id].state # "sent"}
FindNothing(tree, name) == IF tree # 0 THEN {tree} ELSE {}
FindWorktree(tree, name) == IF tree # 0 THEN {tree} ELSE Named(name)

OpenWorktree(c) ==
    /\ call[c].op = "inspect" /\ call[c].task # 0 /\ Free
    /\ lock' = c
    /\ LET a == att[call[c].task][call[c].exec]
           found == FindWorktree(a.tree, call[c].name)
       IN  /\ a.intent = call[c].name
           /\ \/ found = {} /\ Holds(c, [call[c] EXCEPT !.op = "create"])
              \/ \E id \in Trees : /\ found = {id}
                                   /\ Holds(c, [call[c] EXCEPT !.op = "attach", !.tree = id])
    /\ JournalUnchanged /\ OutsideUnchanged

\* Create: the command is sent, and the call waits for the worktree.
CreateWorktree(c) ==
    /\ call[c].op = "create"
    /\ Len(trees) < MaxTrees
    /\ trees' = Append(trees, SentTree(call[c].name))
    /\ Holds(c, [call[c] EXCEPT !.op = "attach", !.tree = Len(trees) + 1])
    /\ JournalUnchanged /\ UNCHANGED <<touched, lock, report>>

\* Graph.AttachWorktree: a pending or ready worktree of this identity; only a
\* ready and healthy one lets the attempt run.
AttachWorktree(c) ==
    /\ call[c].op = "attach"
    /\ LET t == call[c].task
           e == call[c].exec
           id == call[c].tree
           ready == trees[id].state = "ready" /\ trees[id].healthy
       IN  /\ trees[id].name = call[c].name
           /\ trees[id].state \in {"pending", "ready"}
           /\ att[t][e].state \in {"preparing", "running"}
           /\ att[t][e].tree \in {0, id}
           /\ att' = [att EXCEPT ![t][e].tree = id,
                                 ![t][e].state = IF ready THEN "running" ELSE @]
    /\ lock' = Nobody
    /\ Holds(c, Idle)
    /\ UNCHANGED <<waves, head, cleanups, dState>> /\ OutsideUnchanged

-----------------------------------------------------------------------------
(* cleanup *)

\* The attempts that had worktree id, in authored order: the first one gave it
\* its identity, the last one has the evidence of what it holds.
Users(id) == {x \in Tasks \X (1..MaxExec) :
                x[2] <= Len(att[x[1]]) /\ att[x[1]][x[2]].tree = id}
Before(x, y) == x[1] < y[1] \/ (x[1] = y[1] /\ x[2] <= y[2])
FirstUser(id) == CHOOSE x \in Users(id) : \A y \in Users(id) : Before(x, y)
LastUser(id) == CHOOSE x \in Users(id) : \A y \in Users(id) : Before(y, x)
LatestTrees == {id \in Trees : \E x \in Users(id) : x[2] = Len(att[x[1]])}
AttachedTrees == {id \in Trees : Users(id) # {}}

\* Load: one target for every attached worktree; operations that ended are
\* answered from the journal.
EndedOrPlanned == {"planned", "removed", "retained"}
Ended == {"removed", "retained"}
CleanupTargets == {id \in AttachedTrees : cleanups[id] \notin Ended}

CleanupLoad(c) ==
    /\ c = Cleaner /\ call[c] = Idle
    /\ Holds(c, [Idle EXCEPT !.op = "inspect", !.todo = CleanupTargets,
                             !.done = IntegratedTasks, !.head = head])
    /\ JournalUnchanged /\ OutsideUnchanged /\ UNCHANGED lock

NextTarget(id, todo) ==
    /\ id \in todo
    /\ \A other \in todo : Before(FirstUser(id), FirstUser(other))

\* The identity of a target, derived from its first attempt.
HasIdentity(id) ==
    LET t == FirstUser(id)[1]
        e == FirstUser(id)[2]
    IN  /\ waves[WaveOf(t, e)].base = att[t][e].base
        /\ trees[id].name = Identity(WaveOf(t, e), t, e)

\* The worktree is where its last attempt left it: at its candidate or, if it
\* has none, at its base, without other changes.
Expected(id) ==
    IF att[LastUser(id)[1]][LastUser(id)[2]].commit THEN "commit" ELSE "base"
IsEvidence(id) ==
    /\ trees[id].state = "ready" /\ trees[id].healthy
    /\ trees[id].content = Expected(id)

\* cleanupAttempt, up to its first write: what the journal read by the call
\* and the worktree say.  Git says whether the integrated commit is reachable.
TaskMayBeCleaned(id, done) == FirstUser(id)[1] \in done
Verdict(id, done, reachable) ==
    IF ~TaskMayBeCleaned(id, done) THEN "retained"
    ELSE IF trees[id].state = "removed" THEN "removed"
    ELSE IF IsEvidence(id) /\ reachable THEN "planned"
    ELSE "retained"

CleanupInspect(c, id, reachable) ==
    /\ call[c].op = "inspect" /\ call[c].task = 0
    /\ NextTarget(id, call[c].todo)
    /\ TaskMayBeCleaned(id, call[c].done) => HasIdentity(id)
    /\ Holds(c, [call[c] EXCEPT !.op = "persist", !.tree = id,
                                !.verdict = Verdict(id, call[c].done, reachable)])
    /\ JournalUnchanged /\ OutsideUnchanged /\ UNCHANGED lock

\* persistCleanup and completeCleanup: a worktree that is gone completes the
\* operation that was planned for it, and none else.
CleanupDone(c) == [call[c] EXCEPT !.op = "inspect", !.tree = 0, !.verdict = "none",
                                  !.todo = @ \ {call[c].tree}]
CleanupPersistLate(c) ==
    /\ call[c].op = "persist" /\ Free
    /\ call[c].verdict = "removed" => cleanups[call[c].tree] = "planned"
    /\ cleanups' = IF call[c].verdict = "planned" THEN cleanups
                   ELSE [cleanups EXCEPT ![call[c].tree] = call[c].verdict]
    /\ Holds(c, IF call[c].verdict = "planned"
                THEN [call[c] EXCEPT !.op = "check"] ELSE CleanupDone(c))
    /\ UNCHANGED <<graph, lock>> /\ OutsideUnchanged
CleanupPersist(c) ==
    /\ call[c].op = "persist" /\ Free
    /\ call[c].verdict = "removed" => cleanups[call[c].tree] = "planned"
    /\ cleanups' = [cleanups EXCEPT ![call[c].tree] = call[c].verdict]
    /\ Holds(c, IF call[c].verdict = "planned"
                THEN [call[c] EXCEPT !.op = "check"] ELSE CleanupDone(c))
    /\ UNCHANGED <<graph, lock>> /\ OutsideUnchanged

\* Under the lock everything is looked at again, unless the head has moved: a
\* worktree that changed since is retained ...
StillThere(id, reachable) == trees[id].state = "ready"
StillRemovable(id, reachable) == IsEvidence(id) /\ reachable

CleanupRetain(c, reachable) ==
    /\ call[c].op = "check" /\ Free
    /\ head = call[c].head
    /\ ~StillRemovable(call[c].tree, reachable)
    /\ cleanups' = [cleanups EXCEPT ![call[c].tree] = "retained"]
    /\ Holds(c, CleanupDone(c))
    /\ UNCHANGED <<graph, lock>> /\ OutsideUnchanged

\* ... and otherwise it is removed before the lock is given back.
CleanupCheck(c) ==
    /\ call[c].op = "check" /\ Free
    /\ head = call[c].head
    /\ StillRemovable(call[c].tree, TRUE)
    /\ lock' = c
    /\ Holds(c, [call[c] EXCEPT !.op = "remove"])
    /\ JournalUnchanged /\ OutsideUnchanged

\* Remove: the command is sent, and the call waits until the worktree is gone.
CleanupRemove(c) ==
    /\ call[c].op = "remove"
    /\ TreeBecomes(call[c].tree, [trees[call[c].tree] EXCEPT !.asked = TRUE])
    /\ Holds(c, [call[c] EXCEPT !.op = "record"])
    /\ JournalUnchanged /\ UNCHANGED <<touched, lock, report>>

CleanupRecord(c) ==
    /\ call[c].op = "record" /\ trees[call[c].tree].state = "removed"
    /\ cleanups' = [cleanups EXCEPT ![call[c].tree] = "removed"]
    /\ lock' = Nobody
    /\ Holds(c, CleanupDone(c))
    /\ UNCHANGED graph /\ OutsideUnchanged

\* The output: cleaned if every operation of the journal removed its worktree.
NotRemoved == {id \in Trees : cleanups[id] \notin {"none", "removed"}}
CleanupReturns(c) ==
    /\ call[c].op = "inspect" /\ call[c].task = 0 /\ call[c].todo = {}
    /\ report' = IF NotRemoved = {} THEN "cleaned" ELSE "blocked"
    /\ Holds(c, Idle)
    /\ JournalUnchanged /\ UNCHANGED <<trees, touched, lock>>

\* cleanup_route and terminalize: a cleanup that did not clean closes the
\* delivery, if an operation that has not removed its worktree or a blocked
\* task proves it blocked.
BlockedTask == \E t \in Tasks : att[t] # <<>> /\ Last(att[t]).state = "blocked"
Terminalize ==
    /\ Free /\ call[Cleaner] = Idle /\ report = "blocked" /\ dState = "active"
    /\ NotRemoved # {} \/ BlockedTask
    /\ dState' = "blocked"
    /\ UNCHANGED <<att, waves, head, cleanups, trees, touched, lock, call, report>>

\* A call ends before its next step; the workspace lock falls with it, and a
\* command it still waits for is given up.
GivesUpCreate(k) == k.op = "attach" /\ trees[k.tree].state = "sent"
GivesUpRemove(k) == k.op = "record" /\ trees[k.tree].state # "removed"
GivenUp(k) ==
    IF GivesUpCreate(k) THEN [trees EXCEPT ![k.tree] = [@ EXCEPT !.lateCreate = TRUE]]
    ELSE IF GivesUpRemove(k) THEN [trees EXCEPT ![k.tree] = [@ EXCEPT !.lateRemove = TRUE]]
    ELSE trees

CallEndsLocked(c) ==
    /\ call[c] # Idle
    /\ trees' = GivenUp(call[c])
    /\ Holds(c, Idle)
    /\ JournalUnchanged /\ UNCHANGED <<lock, touched, report>>
CallEnds(c) ==
    /\ call[c] # Idle
    /\ trees' = GivenUp(call[c])
    /\ Holds(c, Idle)
    /\ lock' = IF lock = c THEN Nobody ELSE lock
    /\ JournalUnchanged /\ UNCHANGED <<touched, report>>

-----------------------------------------------------------------------------

GraphStep ==
    \/ \E t \in Tasks :
        \/ Admits(t)
        \/ \E retry \in BOOLEAN : Fails(t, retry)
        \/ Answers(t)
        \/ BecomesCandidate(t)
        \/ Integrates(t)
        \/ \E retry \in BOOLEAN : Conflicts(t, retry)
    \/ OthersIntegrate

OutsideStep ==
    \/ \E id \in DOMAIN trees, state \in {"pending", "ready"} : WorktreeCreated(id, state)
    \/ \E id \in DOMAIN trees : RemovalBegins(id) \/ RemovalEnds(id)
    \/ \E id \in DOMAIN trees, state \in {"ready", "failed"}, healthy \in BOOLEAN :
         SetupEnds(id, state, healthy)
    \/ \E t \in Tasks : ChildCommits(t)
    \/ \E id \in DOMAIN trees, state \in {"ready", "removed"} : Touched(id, state)

PrepareStep(c) ==
    \/ \E t \in Tasks : PrepareTask(c, t)
    \/ PlanWorktree(c)
    \/ OpenWorktree(c)
    \/ CreateWorktree(c)
    \/ AttachWorktree(c)

CleanupStep(c) ==
    \/ CleanupLoad(c)
    \/ \E id \in Trees, reachable \in BOOLEAN : CleanupInspect(c, id, reachable)
    \/ CleanupPersist(c)
    \/ \E reachable \in BOOLEAN : CleanupRetain(c, reachable)
    \/ CleanupCheck(c)
    \/ CleanupRemove(c)
    \/ CleanupRecord(c)
    \/ CleanupReturns(c)

Next ==
    \/ GraphStep
    \/ OutsideStep
    \/ \E c \in Callers : PrepareStep(c) \/ CleanupStep(c) \/ CallEnds(c)
    \/ Terminalize

Spec == Init /\ [][Next]_vars
-----------------------------------------------------------------------------
(* What must hold *)

\* Batuta never asks for a second worktree of an identity CompozyOS has, however
\* often a call was cut off between the worktree and its attachment (FindByName
\* and Create under one lock): two create commands of one identity mean that one
\* of their calls had given up before its worktree was there.
NoTwins ==
    \A i, j \in DOMAIN trees :
        i # j /\ trees[i].name = trees[j].name => trees[i].lateCreate \/ trees[j].lateCreate

\* A worktree serves one child run: attempts share it only when one continues
\* the answered question of the other (DeriveIdentity, AttachWorktree and the
\* prepare_wave calls that hold an old wave).
OneRunPerWorktree ==
    \A id \in Trees : \A x, y \in Users(id) :
        x[1] = y[1] /\ att[x[1]][x[2]].run = att[y[1]][y[2]].run

\* Batuta removes a worktree only when its task is integrated and it holds
\* nothing but what the journal recorded, unless somebody changed it between
\* the last look before the remove command and the removal itself, however late
\* that is: blocked and externally mutated worktrees remain available.
RemovalIsSafe ==
    \A id \in DOMAIN trees : trees[id].removed =>
        \A x \in Users(id) :
            /\ Integrated(x[1])
            /\ trees[id].lateChange \/ trees[id].content = Expected(id)

\* Journal and CompozyOS agree on what is gone: an operation recorded as removed
\* has removed its worktree, and a worktree Batuta removed is recorded, or
\* planned so that the next cleanup records it, wherever a call was cut off.
\* Only when the remove command outlived its call can a cleanup have recorded
\* the worktree as retained in between.
CleanupIsTruthful ==
    \A id \in DOMAIN trees :
        /\ cleanups[id] = "removed" => trees[id].state = "removed"
        /\ trees[id].removed => \/ cleanups[id] \in {"planned", "removed"}
                               \/ (cleanups[id] = "retained" /\ trees[id].lateRemove)

\* A cleanup that began when every task was integrated and is about to report
\* cleaned leaves no worktree of the delivery behind, attached or not, but those
\* whose create command outlived its call and that no later call found.
CleanedMeansGone ==
    LET c == Cleaner IN
    /\ call[c].op = "inspect" /\ call[c].task = 0 /\ call[c].todo = {}
    /\ call[c].done = Tasks
    /\ NotRemoved = {}
    => \A id \in DOMAIN trees :
         trees[id].state = "removed" \/ (trees[id].lateCreate /\ Users(id) = {})

\* A delivery closed as blocked after its cleanup stays blocked for a reason:
\* a worktree that is recorded as retained or a blocked task, never a removal that
\* was only planned and that a later cleanup completes.
BlockedHasEvidence ==
    dState = "blocked" => BlockedTask \/ \E id \in Trees : cleanups[id] = "retained"
=============================================================================
