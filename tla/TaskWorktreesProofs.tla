------------------------- MODULE TaskWorktreesProofs -------------------------
(***************************************************************************)
(* The properties of TaskWorktrees for every number of tasks, executions,  *)
(* worktrees and calls, in four layers, each on those before.  IInv is     *)
(* what a call between two steps knows about the worktree it works on.     *)
(* PlanInv ties every worktree to the attempt that planned it.  CleanInv   *)
(* is what a cleanup knows of all its targets, and what the worktrees it   *)
(* removes hold.  TypeInv counts the waves, which the names are made of.   *)
(***************************************************************************)
EXTENDS TaskWorktrees, FiniteSetTheorems, WellFoundedInduction, TLAPS

-----------------------------------------------------------------------------
(* The inductive invariant *)

\* The shape of the state.  A name stands for a wave that graphWaveForAttempt
\* finds; what waves and names are is left to the sets W and N, because no
\* conjunct below depends on it.
AttemptOf(N) == [state: {"preparing", "running", "answered", "candidate", "conflicted",
                         "integrated", "blocked"},
                 run: 1..MaxExec, base: Nat, intent: N, tree: 0..MaxTrees,
                 commit: BOOLEAN]
TreeOf(N) == [name: N, state: TreeStates, healthy: BOOLEAN,
              content: {"base", "commit", "changed"}, asked: BOOLEAN, removed: BOOLEAN,
              lateCreate: BOOLEAN, lateRemove: BOOLEAN, lateChange: BOOLEAN]
CallOf(N, W) == [op: {"idle", "plan", "attach", "create", "inspect", "persist", "check",
                      "remove", "record"},
                 wave: W, task: 0..NTasks, exec: 0..MaxExec, name: N,
                 tree: 0..MaxTrees, todo: SUBSET Trees, done: SUBSET Tasks, head: Nat,
                 verdict: {"none", "planned", "removed", "retained"}]
LockedOps == {"create", "attach", "remove", "record"}
Shape(N, W) ==
    /\ 0 \in W /\ NoName \in N
    /\ att \in [Tasks -> Seq(AttemptOf(N))]
    /\ \A t \in Tasks : Len(att[t]) <= MaxExec
    /\ head \in Nat
    /\ cleanups \in [Trees -> {"none", "planned", "removed", "retained"}]
    /\ trees \in Seq(TreeOf(N)) /\ Len(trees) <= MaxTrees
    /\ lock \in Callers \cup {Nobody}
    /\ call \in [Callers -> CallOf(N, W)]
    /\ \A c \in Callers : lock = c <=> call[c].op \in LockedOps

\* A prepare_wave call works on a task that has an attempt, under a name of that
\* task, and creates only what is not there, except for what a create command
\* still brings whose call gave up.
PreparesOne(k) ==
    /\ k.op = "plan" => k.task \in Tasks /\ att[k.task] # <<>>
    /\ k.op \in {"create", "attach"} \/ (k.op = "inspect" /\ k.task # 0)
         => /\ k.task \in Tasks
            /\ k.exec \in 1..Len(att[k.task])
            /\ k.name.task = k.task
    /\ k.op = "attach" => k.tree \in 1..Len(trees)
    /\ k.op = "create" =>
         \A id \in 1..Len(trees) : trees[id].name = k.name => trees[id].lateCreate
Prepares == \A c \in Callers : PreparesOne(call[c])

\* An attempt has a worktree that CompozyOS has, under a name of its task.
Owned ==
    \A t \in Tasks : \A e \in 1..Len(att[t]) :
        att[t][e].tree # 0 => /\ att[t][e].tree \in 1..Len(trees)
                              /\ trees[att[t][e].tree].name.task = t

Twinless ==
    \A i, j \in 1..Len(trees) :
        i # j /\ trees[i].name = trees[j].name => trees[i].lateCreate \/ trees[j].lateCreate

\* A command that CompozyOS has not carried out yet has a call that waits for it
\* or gave it up.
Awaited ==
    \A id \in 1..Len(trees) :
        /\ trees[id].state = "sent" =>
             \/ trees[id].lateCreate
             \/ \E c \in Callers : call[c].op = "attach" /\ call[c].tree = id
        /\ trees[id].asked /\ trees[id].state # "removed" =>
             \/ trees[id].lateRemove
             \/ call[Cleaner].op = "record" /\ call[Cleaner].tree = id

\* What Batuta removed it asked for, and what it asked for belongs to an
\* integrated task and has an operation that says so, unless the command was
\* late; what CompozyOS does not have has no cleanup.
Gone ==
    /\ \A id \in 1..Len(trees) :
        /\ trees[id].removed => trees[id].asked /\ trees[id].state = "removed"
        /\ trees[id].state = "removing" => trees[id].asked
        /\ trees[id].asked =>
             /\ trees[id].name.task \in IntegratedTasks
             /\ cleanups[id] # "none"
             /\ cleanups[id] = "retained" => trees[id].lateRemove
        /\ cleanups[id] = "removed" => trees[id].state = "removed"
    /\ \A id \in Trees : id > Len(trees) => cleanups[id] = "none"

\* A cleanup knows the integrated tasks of all that Batuta has asked to remove,
\* and of its target what the write it is about to make says.
CleansOne(k) ==
    /\ k.task = 0
    /\ k.done \subseteq IntegratedTasks
    /\ \A id \in 1..Len(trees) : trees[id].asked => trees[id].name.task \in k.done
    /\ \A id \in k.todo : Users(id) # {}
    /\ k.op # "inspect" => k.tree \in 1..Len(trees)
    /\ k.op = "persist" =>
         /\ k.verdict # "none"
         /\ k.verdict = "removed" => trees[k.tree].state = "removed"
         /\ k.verdict # "removed" => (trees[k.tree].asked => trees[k.tree].lateRemove)
         /\ k.verdict = "planned" => trees[k.tree].name.task \in k.done
    /\ k.op \in {"check", "remove"} =>
         /\ trees[k.tree].asked => trees[k.tree].lateRemove
         /\ trees[k.tree].name.task \in k.done
         /\ cleanups[k.tree] = "planned"
Cleaning(k) == k.op \in {"persist", "check", "remove", "record"}
               \/ (k.op = "inspect" /\ k.task = 0)
Cleans == \A c \in Callers : Cleaning(call[c]) => c = Cleaner /\ CleansOne(call[c])

IInv == /\ \E N, W : Shape(N, W)
        /\ Prepares
        /\ Owned
        /\ Twinless
        /\ Awaited
        /\ Gone
        /\ Cleans

\* Of every attempt that had a worktree Batuta removed the task is integrated.
RemovedIsIntegrated ==
    \A id \in DOMAIN trees : trees[id].removed =>
        \A x \in Users(id) : Integrated(x[1])

-----------------------------------------------------------------------------
(* The first user of a worktree *)

\* A set of natural numbers that is not empty has a least element: the end of a
\* smallest interval 1..n.
LEMMA Least ==
    ASSUME NEW S \in SUBSET Nat, S # {}
    PROVE  \E n \in S : \A m \in S : n <= m
  <1> DEFINE I == {1..n : n \in S}
  <1>1. IsWellFoundedOn(StrictSubsetOrdering(Nat), FiniteSubsetsOf(Nat))
    BY FS_StrictSubsetOrderingWellFounded
  <1>2. I \subseteq FiniteSubsetsOf(Nat) /\ I # {}
    <2>1. \A n \in S : 1..n \in SUBSET Nat /\ IsFiniteSet(1..n)
      BY FS_Interval
    <2> QED
      BY <2>1 DEF FiniteSubsetsOf
  <1>3. PICK x \in I : \A y \in I : ~ (<<y, x>> \in StrictSubsetOrdering(Nat))
    <2> HIDE DEF I
    <2> QED
      BY <1>1, <1>2, WFMin
  <1>4. PICK n \in S : x = 1..n
    OBVIOUS
  <1>5. \A m \in S : n <= m
    <2> SUFFICES ASSUME NEW m \in S, m < n
                 PROVE  FALSE
      OBVIOUS
    <2>1. 1..m \subseteq 1..n /\ n \in 1..n /\ n \notin 1..m
      OBVIOUS
    <2>2. <<1..m, 1..n>> \in StrictSubsetOrdering(Nat)
      BY <2>1 DEF StrictSubsetOrdering
    <2> QED
      BY <1>3, <1>4, <2>2
  <1> QED
    BY <1>5

\* FirstUser is one of the attempts that have the worktree.
LEMMA FirstUserIsUser ==
    ASSUME NEW id, Users(id) # {}
    PROVE  FirstUser(id) \in Users(id)
  <1> DEFINE T == {x[1] : x \in Users(id)}
  <1>1. Users(id) \subseteq Tasks \X (1..MaxExec)
    BY DEF Users
  <1>2. T \in SUBSET Nat /\ T # {}
    BY <1>1 DEF Tasks
  <1>3. PICK t \in T : \A s \in T : t <= s
    <2> HIDE DEF T
    <2> QED
      BY <1>2, Least
  <1> DEFINE E == {x[2] : x \in {y \in Users(id) : y[1] = t}}
  <1>4. E \in SUBSET Nat /\ E # {}
    BY <1>1
  <1>5. PICK e \in E : \A f \in E : e <= f
    <2> HIDE DEF E
    <2> QED
      BY <1>4, Least
  <1>6. PICK x \in Users(id) : x[1] = t /\ x[2] = e
    OBVIOUS
  <1>7. \A y \in Users(id) : Before(x, y)
    <2> TAKE y \in Users(id)
    <2>1. y[1] \in T /\ y[1] \in Nat /\ y[2] \in Nat /\ t \in Nat /\ e \in Nat /\ t <= y[1]
      BY <1>1, <1>2, <1>3, <1>4, <1>5 DEF Tasks
    <2>2. CASE y[1] = t
      <3>1. y[2] \in E
        BY <2>2
      <3> QED
        BY <1>5, <1>6, <2>2, <3>1 DEF Before
    <2>3. CASE y[1] # t
      BY <1>6, <2>1, <2>3 DEF Before
    <2> QED
      BY <2>2, <2>3
  <1> QED
    BY <1>7 DEF FirstUser

-----------------------------------------------------------------------------
(* What a step does to the attempts of a task and to the worktrees *)

\* The attempts h became s: none is lost, moved to another worktree or given a
\* worktree that is not the task's, and an integrated task stays integrated.
HistoryKept(h, s) ==
    /\ Len(s) >= Len(h)
    /\ \A e \in 1..Len(h) : s[e].tree = h[e].tree
    /\ \A e \in 1..Len(s) :
         s[e].tree # 0 => \E f \in 1..Len(h) : s[e].tree = h[f].tree
    /\ h # <<>> /\ Last(h).state = "integrated" => s # <<>> /\ Last(s).state = "integrated"
AttemptsKept == \A t \in Tasks : HistoryKept(att[t], att'[t])

\* The worktrees stay, with their names; what is gone stays gone, and what is
\* removed was asked for.
TreeKept(old, new) ==
    /\ new.name = old.name
    /\ new.asked = old.asked
    /\ new.removed => old.removed \/ (old.asked /\ new.state = "removed")
    /\ old.state = "removed" => new.state = "removed"
    /\ new.state = "sent" => old.state = "sent"
    /\ new.state = "removing" => old.state = "removing" \/ old.asked
    /\ old.lateCreate => new.lateCreate
    /\ old.lateRemove => new.lateRemove
TreesKept ==
    /\ Len(trees') = Len(trees)
    /\ \A id \in 1..Len(trees) : TreeKept(trees[id], trees'[id])

\* The latest attempt changes its state and nothing about its worktree.
LEMMA LatestChanges ==
    ASSUME NEW A, NEW h \in Seq(A), h # <<>>, h[Len(h)].state # "integrated",
           NEW a \in A, a.tree = h[Len(h)].tree
    PROVE  LET s == [h EXCEPT ![Len(h)] = a] IN
           s \in Seq(A) /\ Len(s) = Len(h) /\ HistoryKept(h, s)
  <1> DEFINE s == [h EXCEPT ![Len(h)] = a]
  <1>1. Len(h) \in 1..Len(h)
    OBVIOUS
  <1>2. s \in Seq(A) /\ Len(s) = Len(h)
    BY <1>1
  <1>3. \A e \in 1..Len(h) : s[e].tree = h[e].tree
    BY <1>1
  <1>4. Last(h).state # "integrated"
    BY DEF Last
  <1> HIDE DEF s
  <1>5. HistoryKept(h, s)
    BY <1>2, <1>3, <1>4 DEF HistoryKept
  <1> QED
    BY <1>2, <1>5 DEF s

\* An attempt is appended, without a worktree or with that of the latest one.
LEMMA AttemptAppended ==
    ASSUME NEW A, NEW h \in Seq(A), NEW s \in Seq(A), Len(s) = Len(h), HistoryKept(h, s),
           h = <<>> \/ Last(h).state # "integrated",
           NEW a \in A, a.tree = 0 \/ (h # <<>> /\ a.tree = h[Len(h)].tree)
    PROVE  LET r == Append(s, a) IN
           r \in Seq(A) /\ Len(r) = Len(h) + 1 /\ HistoryKept(h, r)
  <1> DEFINE r == Append(s, a)
  <1>1. r \in Seq(A) /\ Len(r) = Len(h) + 1 /\ r[Len(h) + 1] = a
    OBVIOUS
  <1>2. \A e \in 1..Len(h) : r[e] = s[e]
    OBVIOUS
  <1>3. \A e \in 1..Len(r) : e \in 1..Len(h) \/ e = Len(h) + 1
    BY <1>1
  <1>4. \A e \in 1..Len(h) : r[e].tree = h[e].tree
    BY <1>2 DEF HistoryKept
  <1>5. h # <<>> => Len(h) \in 1..Len(h)
    OBVIOUS
  <1> HIDE DEF r
  <1>6. HistoryKept(h, r)
    BY <1>1, <1>3, <1>4, <1>5 DEF HistoryKept
  <1> QED
    BY <1>1, <1>6 DEF r

\* A history that stays as it is is kept.
LEMMA HistoryKeptSame ==
    ASSUME NEW A, NEW h \in Seq(A)
    PROVE  HistoryKept(h, h)
  BY DEF HistoryKept

-----------------------------------------------------------------------------
(* The steps that change no call: the rest of the delivery and CompozyOS *)

Histories(N) == /\ att \in [Tasks -> Seq(AttemptOf(N))]
                /\ \A t \in Tasks : Len(att[t]) <= MaxExec

\* One task's attempts change.
LEMMA OneTaskChanges ==
    ASSUME NEW N, Histories(N), NEW t \in Tasks,
           NEW s \in Seq(AttemptOf(N)), Len(s) <= MaxExec, HistoryKept(att[t], s),
           att' = [att EXCEPT ![t] = s]
    PROVE  Histories(N)' /\ AttemptsKept
  <1>1. \A u \in Tasks : att'[u] = IF u = t THEN s ELSE att[u]
    BY DEF Histories
  <1>2. \A u \in Tasks : HistoryKept(att[u], att'[u])
    BY <1>1, HistoryKeptSame DEF Histories
  <1>3. Histories(N)'
    BY <1>1 DEF Histories
  <1> QED
    BY <1>2, <1>3 DEF AttemptsKept

\* A new attempt is one, without a worktree.
LEMMA NewAttemptType ==
    ASSUME NEW N, NoName \in N, head \in Nat, NEW n \in 1..MaxExec
    PROVE  NewAttempt(n) \in AttemptOf(N) /\ NewAttempt(n).tree = 0
  <1>1. 0 \in 0..MaxTrees
    BY SizesAssumption
  <1> QED
    BY <1>1 DEF NewAttempt, AttemptOf

\* The latest attempt is closed in state x, and a new one follows or not.
LEMMA ContinuesKeeps ==
    ASSUME NEW N, Histories(N), NoName \in N, head \in Nat,
           NEW t \in Tasks, att[t] # <<>>, Last(att[t]).state # "integrated",
           NEW x \in {"preparing", "running", "answered", "candidate", "conflicted",
                      "integrated", "blocked"},
           NEW retry \in BOOLEAN, retry => Len(att[t]) < MaxExec,
           att' = [att EXCEPT ![t] = IF retry THEN Append(Closes(t, x), NewAttempt(Len(Closes(t, x)) + 1))
                                     ELSE Closes(t, x)]
    PROVE  Histories(N)' /\ AttemptsKept
  <1> DEFINE A == AttemptOf(N)
             h == att[t]
             a == [h[Len(h)] EXCEPT !.state = x]
             s == [h EXCEPT ![Len(h)] = a]
  <1>1. h \in Seq(A) /\ Len(h) <= MaxExec /\ Len(h) \in 1..Len(h) /\ h[Len(h)] \in A
    BY DEF Histories
  <1>2. h[Len(h)].state # "integrated"
    BY DEF Last
  <1>3. a \in A /\ a.tree = h[Len(h)].tree
    BY <1>1 DEF AttemptOf
  <1>4. Closes(t, x) = s
    BY DEF Closes
  <1>5. s \in Seq(A) /\ Len(s) = Len(h) /\ HistoryKept(h, s)
    <2> HIDE DEF A, a
    <2> QED
      BY <1>1, <1>2, <1>3, LatestChanges
  <1>6. CASE ~retry
    BY <1>1, <1>4, <1>5, <1>6, OneTaskChanges
  <1>7. CASE retry
    <2> DEFINE b == NewAttempt(Len(s) + 1)
               r == Append(s, b)
    <2>1. Len(s) + 1 \in 1..MaxExec
      BY <1>1, <1>5, <1>7, SizesAssumption
    <2>2. b \in A /\ b.tree = 0
      BY <2>1, NewAttemptType
    <2>3. r \in Seq(A) /\ Len(r) = Len(h) + 1 /\ HistoryKept(h, r)
      <3> HIDE DEF A, b, s
      <3> QED
        BY <1>1, <1>5, <2>2, AttemptAppended
    <2>4. Len(r) <= MaxExec
      BY <1>5, <2>1, <2>3
    <2>5. att' = [att EXCEPT ![t] = r]
      BY <1>4, <1>7
    <2> HIDE DEF r
    <2> QED
      BY <2>3, <2>4, <2>5, OneTaskChanges
  <1> QED
    BY <1>6, <1>7

\* The rest of the delivery keeps the attempts.
LEMMA GraphStepKeeps ==
    ASSUME NEW N, Histories(N), NoName \in N, head \in Nat, GraphStep
    PROVE  /\ Histories(N)' /\ AttemptsKept /\ head' \in Nat
           /\ UNCHANGED <<cleanups, trees, lock, call>>
  <1>1. CASE \E t \in Tasks : Admits(t)
    <2>1. PICK t \in Tasks : Admits(t)
      BY <1>1
    <2> DEFINE r == Append(<<>>, NewAttempt(1))
    <2>2. NewAttempt(1) \in AttemptOf(N) /\ NewAttempt(1).tree = 0
      BY NewAttemptType, SizesAssumption
    <2>3. att[t] = <<>> /\ att' = [att EXCEPT ![t] = r]
      BY <2>1 DEF Admits, Continues
    <2>4. r \in Seq(AttemptOf(N)) /\ Len(r) = 1 /\ r[1] = NewAttempt(1)
      BY <2>2
    <2> HIDE DEF r
    <2>5. HistoryKept(att[t], r)
      BY <2>2, <2>3, <2>4 DEF HistoryKept
    <2>6. Len(r) <= MaxExec
      BY <2>4, SizesAssumption
    <2>7. Histories(N)' /\ AttemptsKept
      BY <2>3, <2>4, <2>5, <2>6, OneTaskChanges
    <2> QED
      BY <2>1, <2>7 DEF Admits, Unchanged
  <1>2. CASE \E t \in Tasks : \E retry \in BOOLEAN : Fails(t, retry)
    <2>1. PICK t \in Tasks, retry \in BOOLEAN : Fails(t, retry)
      BY <1>2
    <2>2. Histories(N)' /\ AttemptsKept
      BY <2>1, ContinuesKeeps DEF Fails, Continues
    <2> QED
      BY <2>1, <2>2 DEF Fails, Unchanged
  <1>3. CASE \E t \in Tasks : Answers(t)
    <2>1. PICK t \in Tasks : Answers(t)
      BY <1>3
    <2> DEFINE A == AttemptOf(N)
               h == att[t]
               a == [h[Len(h)] EXCEPT !.state = "answered"]
               s == [h EXCEPT ![Len(h)] = a]
               b == h[Len(h)]
               r == Append(s, b)
    <2>2. /\ h \in Seq(A) /\ h # <<>> /\ Len(h) \in 1..Len(h) /\ b \in A
          /\ b.state # "integrated" /\ Len(h) < MaxExec
          /\ att' = [att EXCEPT ![t] = r]
      BY <2>1 DEF Answers, Closes, Last, Histories
    <2>3. a \in A /\ a.tree = b.tree
      BY <2>2 DEF AttemptOf
    <2>4. s \in Seq(A) /\ Len(s) = Len(h) /\ HistoryKept(h, s)
      <3> HIDE DEF A, a, h
      <3> QED
        BY <2>2, <2>3, LatestChanges
    <2>5. r \in Seq(A) /\ Len(r) = Len(h) + 1 /\ HistoryKept(h, r)
      <3> HIDE DEF A, s, h
      <3> QED
        BY <2>2, <2>4, AttemptAppended DEF Last
    <2>6. Len(r) <= MaxExec
      BY <2>2, <2>5, SizesAssumption
    <2>7. Histories(N)' /\ AttemptsKept
      <3> HIDE DEF r
      <3> QED
        BY <2>2, <2>5, <2>6, OneTaskChanges
    <2> QED
      BY <2>1, <2>7 DEF Answers, Unchanged
  <1>4. CASE \E t \in Tasks : BecomesCandidate(t)
    <2>1. PICK t \in Tasks : BecomesCandidate(t)
      BY <1>4
    <2> DEFINE A == AttemptOf(N)
               h == att[t]
               a == [h[Len(h)] EXCEPT !.state = "candidate", !.commit = TRUE]
               s == [h EXCEPT ![Len(h)] = a]
    <2>2. /\ h \in Seq(A) /\ h # <<>> /\ Len(h) \in 1..Len(h) /\ h[Len(h)] \in A
          /\ h[Len(h)].state # "integrated" /\ Len(h) <= MaxExec
          /\ att' = [att EXCEPT ![t] = s]
      BY <2>1 DEF BecomesCandidate, Last, Histories
    <2>3. a \in A /\ a.tree = h[Len(h)].tree
      BY <2>2 DEF AttemptOf
    <2>4. s \in Seq(A) /\ Len(s) = Len(h) /\ HistoryKept(h, s)
      <3> HIDE DEF A, a, h
      <3> QED
        BY <2>2, <2>3, LatestChanges
    <2>5. Histories(N)' /\ AttemptsKept
      <3> HIDE DEF s
      <3> QED
        BY <2>2, <2>4, OneTaskChanges
    <2> QED
      BY <2>1, <2>5 DEF BecomesCandidate, Unchanged
  <1>5. CASE \E t \in Tasks : Integrates(t)
    <2>1. PICK t \in Tasks : Integrates(t)
      BY <1>5
    <2>2. Histories(N)' /\ AttemptsKept
      <3>1. /\ att[t] # <<>> /\ Last(att[t]).state # "integrated"
            /\ att' = [att EXCEPT ![t] = IF FALSE THEN Append(Closes(t, "integrated"), NewAttempt(Len(Closes(t, "integrated")) + 1))
                                         ELSE Closes(t, "integrated")]
        BY <2>1 DEF Integrates
      <3> QED
        BY <3>1, ContinuesKeeps
    <2> QED
      BY <2>1, <2>2 DEF Integrates, Unchanged
  <1>6. CASE \E t \in Tasks : \E retry \in BOOLEAN : Conflicts(t, retry)
    <2>1. PICK t \in Tasks, retry \in BOOLEAN : Conflicts(t, retry)
      BY <1>6
    <2> DEFINE x == IF retry THEN "conflicted" ELSE "blocked"
    <2>2. /\ att[t] # <<>> /\ Last(att[t]).state # "integrated"
          /\ att' = [att EXCEPT ![t] = IF retry THEN Append(Closes(t, x), NewAttempt(Len(Closes(t, x)) + 1))
                                       ELSE Closes(t, x)]
      BY <2>1 DEF Conflicts, Continues
    <2>3. x \in {"conflicted", "blocked"} /\ (retry => Len(att[t]) < MaxExec)
      BY <2>1 DEF Conflicts
    <2>4. Histories(N)' /\ AttemptsKept
      <3> HIDE DEF x
      <3> QED
        BY <2>2, <2>3, ContinuesKeeps
    <2> QED
      BY <2>1, <2>4 DEF Conflicts, Unchanged
  <1>7. CASE OthersIntegrate
    BY <1>7, HistoryKeptSame DEF OthersIntegrate, AttemptsKept, Histories, Unchanged
  <1> QED
    BY <1>1, <1>2, <1>3, <1>4, <1>5, <1>6, <1>7 DEF GraphStep

\* CompozyOS and everybody else keep the worktrees.
LEMMA OutsideStepKeeps ==
    ASSUME NEW N, trees \in Seq(TreeOf(N)), Gone, OutsideStep
    PROVE  /\ trees' \in Seq(TreeOf(N)) /\ TreesKept
           /\ UNCHANGED <<att, head, cleanups, lock, call>>
  <1> USE DEF OtherUnchanged, graph
  <1>1. ASSUME NEW id \in 1..Len(trees), NEW tree \in TreeOf(N), TreeBecomes(id, tree),
               TreeKept(trees[id], tree)
        PROVE  trees' \in Seq(TreeOf(N)) /\ TreesKept
    <2>1. trees' \in Seq(TreeOf(N)) /\ Len(trees') = Len(trees)
      BY <1>1 DEF TreeBecomes
    <2>2. \A i \in 1..Len(trees) : trees'[i] = IF i = id THEN tree ELSE trees[i]
      BY <1>1 DEF TreeBecomes
    <2>3. \A i \in 1..Len(trees) : TreeKept(trees[i], trees'[i])
      BY <1>1, <2>2 DEF TreeKept
    <2> QED
      BY <2>1, <2>3 DEF TreesKept
  <1>2. \A id \in 1..Len(trees) : trees[id] \in TreeOf(N)
    OBVIOUS
  <1>3. CASE \E id \in DOMAIN trees, state \in {"pending", "ready"} : WorktreeCreated(id, state)
    <2>1. PICK id \in 1..Len(trees), state \in {"pending", "ready"} : WorktreeCreated(id, state)
      BY <1>3
    <2>2. PICK tree : tree = [trees[id] EXCEPT !.state = state]
      OBVIOUS
    <2>3. TreeBecomes(id, tree) /\ trees[id].state = "sent"
      BY <2>1, <2>2 DEF WorktreeCreated
    <2>4. tree \in TreeOf(N) /\ TreeKept(trees[id], tree)
      BY <1>2, <2>2, <2>3 DEF TreeOf, TreeStates, TreeKept
    <2> QED
      BY <1>1, <2>1, <2>3, <2>4 DEF WorktreeCreated
  <1>4. CASE \E id \in DOMAIN trees : RemovalBegins(id)
    <2>1. PICK id \in 1..Len(trees) : RemovalBegins(id)
      BY <1>4
    <2>2. PICK tree : tree = [trees[id] EXCEPT !.state = "removing"]
      OBVIOUS
    <2>3. TreeBecomes(id, tree) /\ trees[id].state = "ready" /\ trees[id].asked
      BY <2>1, <2>2 DEF RemovalBegins
    <2>4. tree \in TreeOf(N) /\ TreeKept(trees[id], tree)
      BY <1>2, <2>2, <2>3 DEF TreeOf, TreeStates, TreeKept
    <2> QED
      BY <1>1, <2>1, <2>3, <2>4 DEF RemovalBegins
  <1>5. CASE \E id \in DOMAIN trees : RemovalEnds(id)
    <2>1. PICK id \in 1..Len(trees) : RemovalEnds(id)
      BY <1>5
    <2>2. PICK tree : tree = [trees[id] EXCEPT !.state = "removed", !.removed = TRUE]
      OBVIOUS
    <2>3. TreeBecomes(id, tree) /\ trees[id].state = "removing" /\ trees[id].asked
      BY <2>1, <2>2 DEF RemovalEnds, Gone
    <2>4. tree \in TreeOf(N) /\ TreeKept(trees[id], tree)
      BY <1>2, <2>2, <2>3 DEF TreeOf, TreeStates, TreeKept
    <2> QED
      BY <1>1, <2>1, <2>3, <2>4 DEF RemovalEnds
  <1>6. CASE \E id \in DOMAIN trees, state \in {"ready", "failed"}, healthy \in BOOLEAN :
               SetupEnds(id, state, healthy)
    <2>1. PICK id \in 1..Len(trees), state \in {"ready", "failed"}, healthy \in BOOLEAN :
                 SetupEnds(id, state, healthy)
      BY <1>6
    <2>2. PICK tree : tree = [trees[id] EXCEPT !.state = state, !.healthy = healthy]
      OBVIOUS
    <2>3. TreeBecomes(id, tree) /\ trees[id].state = "pending"
      BY <2>1, <2>2 DEF SetupEnds
    <2>4. tree \in TreeOf(N) /\ TreeKept(trees[id], tree)
      BY <1>2, <2>2, <2>3 DEF TreeOf, TreeStates, TreeKept
    <2> QED
      BY <1>1, <2>1, <2>3, <2>4 DEF SetupEnds
  <1>7. CASE \E t \in Tasks : ChildCommits(t)
    <2>1. PICK t \in Tasks : ChildCommits(t)
      BY <1>7
    <2>2. PICK id, tree : id = Last(att[t]).tree /\ tree = [trees[id] EXCEPT !.content = "commit"]
      OBVIOUS
    <2>3. TreeBecomes(id, tree) /\ trees[id].state = "ready"
      BY <2>1, <2>2 DEF ChildCommits
    <2>4. CASE id \in 1..Len(trees)
      <3>1. tree \in TreeOf(N) /\ TreeKept(trees[id], tree)
        BY <1>2, <2>2, <2>3, <2>4 DEF TreeOf, TreeKept
      <3> QED
        BY <1>1, <2>1, <2>3, <2>4, <3>1 DEF ChildCommits
    <2>5. CASE id \notin 1..Len(trees)
      <3>1. trees' = trees
        BY <2>3, <2>5 DEF TreeBecomes
      <3> QED
        BY <2>1, <3>1 DEF ChildCommits, TreesKept, TreeKept
    <2> QED
      BY <2>4, <2>5
  <1>8. CASE \E id \in DOMAIN trees, state \in {"ready", "removed"} : Touched(id, state)
    <2>1. PICK id \in 1..Len(trees), state \in {"ready", "removed"} : Touched(id, state)
      BY <1>8
    <2>2. PICK late, tree :
            /\ late = (\/ trees[id].asked
                       \/ \E c \in Callers : call[c].op = "remove" /\ call[c].tree = id)
            /\ tree = [trees[id] EXCEPT !.state = state, !.content = "changed",
                                        !.lateChange = late]
      OBVIOUS
    <2>3. TreeBecomes(id, tree) /\ trees[id].state = "ready"
      BY <2>1, <2>2 DEF Touched
    <2>4. late \in BOOLEAN
      BY <2>2
    <2>5. tree \in TreeOf(N) /\ TreeKept(trees[id], tree)
      BY ZenonT(60), <1>2, <2>2, <2>3, <2>4 DEF TreeOf, TreeStates, TreeKept
    <2> QED
      BY <1>1, <2>1, <2>3, <2>5 DEF Touched
  <1> QED
    BY <1>3, <1>4, <1>5, <1>6, <1>7, <1>8 DEF OutsideStep

-----------------------------------------------------------------------------
(* What survives a step that only keeps attempts and worktrees *)

\* An integrated task stays integrated.
LEMMA IntegratedKept ==
    ASSUME AttemptsKept
    PROVE  IntegratedTasks \subseteq IntegratedTasks'
  BY DEF AttemptsKept, HistoryKept, IntegratedTasks, Integrated

\* A worktree keeps its users.
LEMMA UsersKept ==
    ASSUME NEW N, Histories(N), Histories(N)', NEW id,
           \A t \in Tasks : /\ Len(att'[t]) >= Len(att[t])
                            /\ \A e \in 1..Len(att[t]) :
                                 att[t][e].tree = id => att'[t][e].tree = id,
           Users(id) # {}
    PROVE  Users(id)' # {}
  <1>1. PICK x \in Users(id) : TRUE
    OBVIOUS
  <1>2. /\ x \in Tasks \X (1..MaxExec) /\ x[1] \in Tasks /\ x[2] \in 1..MaxExec
        /\ x[2] <= Len(att[x[1]]) /\ att[x[1]][x[2]].tree = id
    BY <1>1 DEF Users
  <1>3. Len(att[x[1]]) \in Nat /\ Len(att'[x[1]]) \in Nat /\ x[2] \in Nat /\ x[2] >= 1
    BY <1>2, SizesAssumption DEF Histories
  <1>4. x[2] <= Len(att'[x[1]]) /\ att'[x[1]][x[2]].tree = id
    BY <1>2, <1>3
  <1>5. x \in Users(id)'
    BY <1>2, <1>4 DEF Users
  <1> QED
    BY <1>5

\* What a caller knows of the worktree it prepares stays true.
LEMMA PreparesOneKept ==
    ASSUME NEW N, Histories(N), Histories(N)', trees \in Seq(TreeOf(N)),
           AttemptsKept, TreesKept, call' = call,
           NEW c \in Callers, PreparesOne(call[c])
    PROVE  PreparesOne(call[c])'
  <1>1. \A t \in Tasks : /\ Len(att[t]) \in Nat /\ Len(att'[t]) \in Nat
                         /\ Len(att'[t]) >= Len(att[t])
                         /\ att[t] # <<>> => att'[t] # <<>>
    BY DEF Histories, AttemptsKept, HistoryKept
  <1>2. \A id \in 1..Len(trees) : TreeKept(trees[id], trees'[id])
    BY DEF TreesKept
  <1>3. Len(trees') = Len(trees) /\ Len(trees) \in Nat
    BY DEF TreesKept
  <1>4. PICK k : k = call[c] /\ k = call'[c]
    OBVIOUS
  <1>5. k.op = "create" =>
          \A id \in 1..Len(trees) : trees'[id].name = k.name => trees'[id].lateCreate
    <2> SUFFICES ASSUME k.op = "create", NEW id \in 1..Len(trees), trees'[id].name = k.name
                 PROVE  trees'[id].lateCreate
      OBVIOUS
    <2>1. PreparesOne(k)
      BY <1>4
    <2>2. TreeKept(trees[id], trees'[id])
      BY <1>2
    <2>3. trees[id].name = k.name
      BY <2>2 DEF TreeKept
    <2>4. trees[id].lateCreate
      BY <2>1, <2>3 DEF PreparesOne
    <2> QED
      BY <2>2, <2>4 DEF TreeKept
  <1>6. /\ k.op = "plan" => k.task \in Tasks /\ att'[k.task] # <<>>
        /\ k.op \in {"create", "attach"} \/ (k.op = "inspect" /\ k.task # 0)
             => k.task \in Tasks /\ k.exec \in 1..Len(att'[k.task]) /\ k.name.task = k.task
        /\ k.op = "attach" => k.tree \in 1..Len(trees')
    BY <1>1, <1>3, <1>4 DEF PreparesOne
  <1> QED
    BY <1>3, <1>4, <1>5, <1>6 DEF PreparesOne

\* Every worktree an attempt names still belongs to its task.
LEMMA OwnedKept ==
    ASSUME NEW N, Histories(N), Histories(N)', trees \in Seq(TreeOf(N)),
           AttemptsKept, TreesKept, Owned
    PROVE  Owned'
  <1> SUFFICES ASSUME NEW t \in Tasks, NEW e \in 1..Len(att'[t]), att'[t][e].tree # 0
               PROVE  /\ att'[t][e].tree \in 1..Len(trees')
                      /\ trees'[att'[t][e].tree].name.task = t
    BY DEF Owned
  <1>1. PICK f \in 1..Len(att[t]) : att'[t][e].tree = att[t][f].tree
    BY DEF AttemptsKept, HistoryKept
  <1> QED
    BY <1>1 DEF Owned, TreesKept, TreeKept

\* A command that is still awaited was so before, and if no call changed or one
\* that waits for none, its call still waits.
LEMMA AwaitedKept ==
    ASSUME TreesKept, Awaited,
           \A c \in Callers : call[c].op \in {"attach", "record"} => call'[c] = call[c]
    PROVE  Awaited'
  <1> SUFFICES ASSUME NEW id \in 1..Len(trees)
               PROVE  /\ trees'[id].state = "sent" =>
                           \/ trees'[id].lateCreate
                           \/ \E c \in Callers : call'[c].op = "attach" /\ call'[c].tree = id
                      /\ trees'[id].asked /\ trees'[id].state # "removed" =>
                           \/ trees'[id].lateRemove
                           \/ call'[Cleaner].op = "record" /\ call'[Cleaner].tree = id
    BY DEF Awaited, TreesKept
  <1>1. TreeKept(trees[id], trees'[id])
    BY DEF TreesKept
  <1>2. ASSUME trees'[id].state = "sent", ~trees'[id].lateCreate
        PROVE  \E c \in Callers : call'[c].op = "attach" /\ call'[c].tree = id
    BY <1>1, <1>2 DEF Awaited, TreeKept
  <1>3. ASSUME trees'[id].asked, trees'[id].state # "removed", ~trees'[id].lateRemove
        PROVE  call'[Cleaner].op = "record" /\ call'[Cleaner].tree = id
    BY <1>1, <1>3, CallersAssumption DEF Awaited, TreeKept
  <1> QED
    BY <1>2, <1>3

\* Removed worktrees stay removed, and their tasks integrated.
LEMMA GoneKept ==
    ASSUME Len(trees) \in Nat,
           AttemptsKept, TreesKept, cleanups' = cleanups, Gone
    PROVE  Gone'
  <1>1. \A id \in 1..Len(trees) : TreeKept(trees[id], trees'[id])
    BY DEF TreesKept
  <1> QED
    BY <1>1, IntegratedKept DEF Gone, TreesKept, TreeKept

\* What a caller knows of the worktree it removes stays true.
LEMMA CleansOneKept ==
    ASSUME NEW N, Histories(N), Histories(N)', Len(trees) \in Nat,
           AttemptsKept, TreesKept, UNCHANGED <<cleanups, call>>,
           NEW c \in Callers, CleansOne(call[c])
    PROVE  CleansOne(call[c])'
  <1>1. \A id : Users(id) # {} => Users(id)' # {}
    BY UsersKept DEF AttemptsKept, HistoryKept
  <1>2. IntegratedTasks \subseteq IntegratedTasks'
    BY IntegratedKept
  <1> QED
    BY <1>1, <1>2 DEF CleansOne, TreesKept, TreeKept

\* Together: a step that changes no call keeps the invariant.
LEMMA QuietKeeps ==
    ASSUME NEW N, NEW W, Shape(N, W), Histories(N)', head' \in Nat,
           trees' \in Seq(TreeOf(N)), AttemptsKept, TreesKept,
           UNCHANGED <<cleanups, lock, call>>,
           Prepares, Owned, Twinless, Awaited, Gone, Cleans
    PROVE  IInv'
  <1>1. Histories(N) /\ trees \in Seq(TreeOf(N)) /\ Len(trees) \in Nat
    BY DEF Shape, Histories
  <1>2. Shape(N, W)'
    BY DEF Shape, Histories, TreesKept
  <1>3. Prepares'
    BY <1>1, PreparesOneKept DEF Prepares
  <1>4. Owned'
    BY <1>1, OwnedKept
  <1>5. Twinless'
    BY DEF Twinless, TreesKept, TreeKept
  <1>6. Gone'
    BY <1>1, GoneKept
  <1>7. Cleans'
    <2> SUFFICES ASSUME NEW c \in Callers, Cleaning(call[c])
                 PROVE  c = Cleaner /\ CleansOne(call[c])'
      BY DEF Cleans, Cleaning
    <2> QED
      BY <1>1, CleansOneKept DEF Cleans
  <1>8. Awaited'
    BY AwaitedKept
  <1> QED
    BY <1>2, <1>3, <1>4, <1>5, <1>6, <1>7, <1>8 DEF IInv

-----------------------------------------------------------------------------
(* The steps of a call *)

\* A shape over some names and waves is one over more of them.
LEMMA ShapeWidens ==
    ASSUME NEW N, NEW W, Shape(N, W), NEW M, NEW V, N \subseteq M, W \subseteq V
    PROVE  Shape(M, V)
  <1>1. AttemptOf(N) \subseteq AttemptOf(M) /\ TreeOf(N) \subseteq TreeOf(M)
        /\ CallOf(N, W) \subseteq CallOf(M, V)
    BY DEF AttemptOf, TreeOf, CallOf
  <1>2. Seq(AttemptOf(N)) \subseteq Seq(AttemptOf(M)) /\ Seq(TreeOf(N)) \subseteq Seq(TreeOf(M))
    BY <1>1
  <1> QED
    BY <1>1, <1>2 DEF Shape

\* Call c becomes k, and takes, keeps or gives back the lock accordingly.
CallBecomes(c, k) ==
    /\ call' = [call EXCEPT ![c] = k]
    /\ lock' \in Callers \cup {Nobody}
    /\ lock' = c <=> k.op \in LockedOps
    /\ \A d \in Callers : d # c => (lock' = d <=> lock = d)

\* A call that keeps attempts, worktrees and cleanups keeps the invariant if
\* what it holds afterwards is sound.
LEMMA CallKeeps ==
    ASSUME NEW N, NEW W, Shape(N, W), Histories(N)', head' = head,
           trees' \in Seq(TreeOf(N)), AttemptsKept, TreesKept, cleanups' = cleanups,
           Prepares, Owned, Twinless, Awaited, Gone, Cleans,
           NEW c \in Callers, NEW k \in CallOf(N, W), CallBecomes(c, k),
           PreparesOne(k)', Awaited',
           Cleaning(k) => c = Cleaner /\ CleansOne(k)'
    PROVE  IInv'
  <1>1. Histories(N) /\ trees \in Seq(TreeOf(N)) /\ Len(trees) \in Nat
    BY DEF Shape, Histories
  <1>2. \A d \in Callers : call'[d] = IF d = c THEN k ELSE call[d]
    BY DEF CallBecomes, Shape
  <1>3. Shape(N, W)'
    <2>1. call' \in [Callers -> CallOf(N, W)]
      BY DEF CallBecomes, Shape
    <2>2. \A d \in Callers : lock' = d <=> call'[d].op \in LockedOps
      BY <1>2 DEF CallBecomes, Shape
    <2> QED
      BY <2>1, <2>2 DEF CallBecomes, Shape, Histories, TreesKept
  <1>4. Prepares'
    <2> SUFFICES ASSUME NEW d \in Callers, d # c
                 PROVE  PreparesOne(call[d])'
      BY <1>2 DEF Prepares, PreparesOne
    <2>1. \A t \in Tasks : /\ Len(att[t]) \in Nat /\ Len(att'[t]) \in Nat
                           /\ Len(att'[t]) >= Len(att[t])
                           /\ att[t] # <<>> => att'[t] # <<>>
      BY <1>1 DEF Histories, AttemptsKept, HistoryKept
    <2>2. call'[d] = call[d] /\ PreparesOne(call[d])
      BY <1>2 DEF Prepares
    <2> QED
      BY <2>1, <2>2 DEF PreparesOne, TreesKept, TreeKept
  <1>5. Owned'
    BY <1>1, OwnedKept
  <1>6. Twinless'
    BY DEF Twinless, TreesKept, TreeKept
  <1>7. Gone'
    BY <1>1, GoneKept
  <1>8. Cleans'
    <2> SUFFICES ASSUME NEW d \in Callers, d # c, Cleaning(call[d])
                 PROVE  d = Cleaner /\ CleansOne(call[d])'
      BY <1>2 DEF Cleans, Cleaning, CleansOne
    <2>1. \A id : Users(id) # {} => Users(id)' # {}
      BY <1>1, UsersKept DEF AttemptsKept, HistoryKept
    <2>2. IntegratedTasks \subseteq IntegratedTasks'
      BY IntegratedKept
    <2>3. call'[d] = call[d] /\ d = Cleaner /\ CleansOne(call[d])
      BY <1>2 DEF Cleans
    <2> QED
      BY <1>1, <2>1, <2>2, <2>3 DEF CleansOne, TreesKept, TreeKept
  <1> QED
    BY <1>3, <1>4, <1>5, <1>6, <1>7, <1>8 DEF IInv

\* The same for a call that changes nothing else.
LEMMA CallOnlyKeeps ==
    ASSUME NEW N, NEW W, Shape(N, W), UNCHANGED <<att, head, trees, cleanups>>,
           Prepares, Owned, Twinless, Awaited, Gone, Cleans,
           NEW c \in Callers, NEW k \in CallOf(N, W), CallBecomes(c, k),
           call[c].op \notin {"attach", "record"},
           PreparesOne(k), Cleaning(k) => c = Cleaner /\ CleansOne(k)
    PROVE  IInv'
  <1>1. Histories(N)' /\ trees' \in Seq(TreeOf(N))
    BY DEF Shape, Histories
  <1>2. AttemptsKept
    BY HistoryKeptSame DEF AttemptsKept, Shape
  <1>3. TreesKept
    BY DEF TreesKept, TreeKept
  <1>6. Awaited'
    BY <1>3, AwaitedKept DEF CallBecomes, Shape
  <1>4. PreparesOne(k)'
    BY DEF PreparesOne
  <1>5. CleansOne(k) => CleansOne(k)'
    BY DEF CleansOne, IntegratedTasks, Integrated, Users
  <1> QED
    BY <1>1, <1>2, <1>3, <1>4, <1>5, <1>6, CallKeeps

\* Idle is a call that holds nothing.
LEMMA IdleHoldsNothing ==
    ASSUME NEW N, NEW W, NoName \in N, 0 \in W
    PROVE  Idle \in CallOf(N, W) /\ PreparesOne(Idle) /\ ~Cleaning(Idle)
           /\ Idle.op \notin LockedOps
  <1>1. 0 \in 0..NTasks /\ 0 \in 0..MaxExec /\ 0 \in 0..MaxTrees /\ 0 \in Nat
    BY SizesAssumption
  <1> QED
    BY <1>1 DEF Idle, CallOf, PreparesOne, Cleaning, LockedOps

\* What holds of the call that takes a step.
LEMMA CallShape ==
    ASSUME NEW N, NEW W, Shape(N, W), NEW c \in Callers
    PROVE  /\ call[c] \in CallOf(N, W)
           /\ call[c].op \in LockedOps => lock = c
           /\ lock = Nobody => call[c].op \notin LockedOps
           /\ Len(trees) \in Nat /\ 0 \in W /\ NoName \in N
  BY CallersAssumption DEF Shape

\* A call outside the locked sections holds record k next.
LEMMA HoldsUnlocked ==
    ASSUME NEW N, NEW W, Shape(N, W), NEW c \in Callers, NEW k, Holds(c, k),
           call[c].op \notin LockedOps, k.op \notin LockedOps, lock' = lock
    PROVE  CallBecomes(c, k)
  BY DEF Shape, Holds, CallBecomes

\* A call takes the free lock, or the lock is released by its holder.
LEMMA HoldsTakes ==
    ASSUME NEW N, NEW W, Shape(N, W), NEW c \in Callers, NEW k, Holds(c, k),
           lock = Nobody, lock' = c, k.op \in LockedOps
    PROVE  CallBecomes(c, k)
  BY CallersAssumption DEF Shape, Holds, CallBecomes

\* A call that goes on to a part without the lock gives the lock back.
LEMMA HoldsReleases ==
    ASSUME NEW N, NEW W, Shape(N, W), NEW c \in Callers, NEW k, Holds(c, k),
           k.op \notin LockedOps, lock' = IF lock = c THEN Nobody ELSE lock
    PROVE  CallBecomes(c, k)
  BY CallersAssumption DEF Shape, Holds, CallBecomes

\* A call that goes on under the lock keeps it.
LEMMA HoldsLocked ==
    ASSUME NEW N, NEW W, Shape(N, W), NEW c \in Callers, NEW k, Holds(c, k),
           call[c].op \in LockedOps, k.op \in LockedOps, lock' = lock
    PROVE  CallBecomes(c, k)
  BY DEF Shape, Holds, CallBecomes

\* A caller takes up a task of a wave.
LEMMA PrepareTaskKeeps ==
    ASSUME NEW N, NEW W, Shape(N, W), IInv, NEW c \in Callers, NEW t \in Tasks,
           PrepareTask(c, t)
    PROVE  IInv'
  <1>1. PICK w, V, k : /\ w = WaveOf(t, Len(att[t]))
                       /\ V = W \cup {w}
                       /\ k = [Idle EXCEPT !.op = "plan", !.task = t, !.wave = w]
    OBVIOUS
  <1>2. Shape(N, V) /\ w \in V
    BY <1>1, ShapeWidens
  <1>4. k \in CallOf(N, V)
    <2>1. t \in 0..NTasks
      BY DEF Tasks
    <2> QED
      BY <1>1, <1>2, <2>1, IdleHoldsNothing DEF Shape, CallOf, Idle
  <1>5. Holds(c, k) /\ k.op = "plan" /\ k.task = t
    BY <1>1 DEF PrepareTask, Idle
  <1>6. CallBecomes(c, k)
    <2>1. call[c].op \notin LockedOps /\ k.op \notin LockedOps /\ lock' = lock
      BY <1>5 DEF PrepareTask, Idle, LockedOps
    <2> QED
      BY <1>2, <1>5, <2>1, HoldsUnlocked
  <1>7. PreparesOne(k) /\ ~Cleaning(k)
    BY <1>5 DEF PrepareTask, PreparesOne, Cleaning
  <1>8. UNCHANGED <<att, head, trees, cleanups>> /\ call[c].op \notin {"attach", "record"}
    BY DEF PrepareTask, JournalUnchanged, OutsideUnchanged, graph, Idle
  <1> QED
    BY <1>2, <1>4, <1>6, <1>7, <1>8, CallOnlyKeeps DEF IInv

\* The name of the worktree is planned before the worktree is created.
LEMMA PlanWorktreeKeeps ==
    ASSUME NEW N, NEW W, Shape(N, W), IInv, NEW c \in Callers, PlanWorktree(c)
    PROVE  IInv'
  <1>1. PICK t, e, name :
           t = call[c].task /\ e = Len(att[t]) /\ name = Identity(call[c].wave, t, att[t][e].run)
    OBVIOUS
  <1>2. PICK a, b, s, M, k :
           /\ a = att[t][e]
           /\ b = [a EXCEPT !.intent = name]
           /\ s = [att[t] EXCEPT ![e] = b]
           /\ M = N \cup {name}
           /\ k = [call[c] EXCEPT !.op = "inspect", !.exec = e, !.name = name]
    OBVIOUS
  <1>3. t \in Tasks /\ att[t] # <<>> /\ t # 0
    <2>1. PreparesOne(call[c]) /\ call[c].op = "plan"
      BY DEF PlanWorktree, IInv, Prepares
    <2>2. t \in Tasks /\ att[t] # <<>>
      BY <1>1, <2>1 DEF PreparesOne
    <2> QED
      BY <2>2 DEF Tasks
  <1>4. Shape(M, W) /\ name \in M /\ name.task = t
    <2>1. N \subseteq M /\ name \in M
      BY <1>2
    <2>2. name.task = t
      BY <1>1 DEF Identity
    <2> QED
      BY <2>1, <2>2, ShapeWidens
  <1>5. /\ a.intent = name \/ (a.intent = NoName /\ a.state = "preparing")
        /\ att' = [att EXCEPT ![t] = s]
        /\ Holds(c, k) /\ call[c].op = "plan" /\ lock' = lock
        /\ head' = head /\ trees' = trees /\ cleanups' = cleanups
    BY <1>1, <1>2 DEF PlanWorktree, OutsideUnchanged
  <1>6. /\ Histories(M) /\ att[t] \in Seq(AttemptOf(M)) /\ Len(att[t]) <= MaxExec
        /\ e \in 1..Len(att[t]) /\ e = Len(att[t]) /\ a \in AttemptOf(M) /\ att[t] # <<>>
    <2>1. Histories(M)
      BY <1>4 DEF Shape, Histories
    <2>2. att[t] \in Seq(AttemptOf(M)) /\ Len(att[t]) <= MaxExec
      BY <1>3, <2>1 DEF Histories
    <2>3. e = Len(att[t]) /\ e \in 1..Len(att[t])
      BY <1>1, <1>3, <2>2
    <2>4. a = att[t][e]
      BY <1>2
    <2>5. a \in AttemptOf(M)
      BY <2>2, <2>3, <2>4
    <2> QED
      BY <1>3, <2>1, <2>2, <2>3, <2>5
  <1>7. b \in AttemptOf(M) /\ b.tree = a.tree /\ b.state = a.state
    BY <1>2, <1>4, <1>6 DEF AttemptOf
  <1>8. s \in Seq(AttemptOf(M)) /\ Len(s) = e /\ s[e] = b
    BY <1>2, <1>6, <1>7
  <1>9. HistoryKept(att[t], s)
    <2>1. \A f \in 1..e : s[f].tree = att[t][f].tree
      BY <1>2, <1>6, <1>7
    <2>2. a = att[t][e]
      BY <1>2
    <2>3. Last(s) = b /\ Last(att[t]) = a
      BY <1>6, <1>8, <2>2 DEF Last
    <2>4. s # <<>>
      BY <1>6, <1>8
    <2> QED
      BY <1>6, <1>7, <1>8, <2>1, <2>3, <2>4 DEF HistoryKept
  <1>10. Histories(M)' /\ AttemptsKept
    BY <1>3, <1>5, <1>6, <1>8, <1>9, OneTaskChanges
  <1>11. /\ k \in CallOf(M, W)
         /\ k.op = "inspect" /\ k.task = t /\ k.name = name /\ k.exec = e
    <2>1. e \in 0..MaxExec
      BY <1>6, SizesAssumption
    <2>2. call[c] \in CallOf(M, W)
      BY <1>4, CallShape
    <2>3. k = [call[c] EXCEPT !.op = "inspect", !.exec = e, !.name = name]
      BY <1>2
    <2>4. k.task = t
      BY <1>1, <2>2, <2>3 DEF CallOf
    <2> QED
      BY <1>4, <2>1, <2>2, <2>3, <2>4 DEF CallOf
  <1>12. CallBecomes(c, k)
    <2>1. call[c].op \notin LockedOps /\ k.op \notin LockedOps
      BY <1>5, <1>11 DEF LockedOps
    <2> QED
      BY <1>4, <1>5, <2>1, HoldsUnlocked
  <1>13. PreparesOne(k)'
    <2>1. Len(att'[t]) \in Nat /\ Len(att'[t]) >= e
      BY <1>3, <1>6, <1>10 DEF AttemptsKept, HistoryKept, Histories
    <2> QED
      BY <1>3, <1>4, <1>6, <1>11, <2>1 DEF PreparesOne
  <1>14. ~Cleaning(k)
    BY <1>3, <1>11 DEF Cleaning
  <1>15. trees' \in Seq(TreeOf(M)) /\ TreesKept
    BY <1>4, <1>5 DEF Shape, TreesKept, TreeKept
  <1>16. Awaited'
    BY <1>4, <1>5, <1>12, <1>15, AwaitedKept DEF CallBecomes, Shape, IInv
  <1> QED
    BY <1>4, <1>5, <1>10, <1>11, <1>12, <1>13, <1>14, <1>15, <1>16, CallKeeps DEF IInv

\* While the lock is free, no create command has a call that waits for it.
LEMMA UnlockedIsLate ==
    ASSUME NEW N, NEW W, Shape(N, W), Awaited, lock = Nobody
    PROVE  \A id \in 1..Len(trees) : trees[id].state = "sent" => trees[id].lateCreate
  BY CallersAssumption DEF Awaited, Shape, LockedOps

\* Under the lock, the worktree of the planned name is found or will be created.
LEMMA OpenWorktreeKeeps ==
    ASSUME NEW N, NEW W, Shape(N, W), IInv, NEW c \in Callers, OpenWorktree(c)
    PROVE  IInv'
  <1> DEFINE q == call[c]
             a == att[q.task][q.exec]
             found == FindWorktree(a.tree, q.name)
  <1>1. q \in CallOf(N, W) /\ q.op = "inspect" /\ q.task # 0 /\ PreparesOne(q)
    BY CallShape DEF OpenWorktree, IInv, Prepares
  <1>2. /\ q.task \in Tasks /\ q.exec \in 1..Len(att[q.task]) /\ q.name.task = q.task
    BY <1>1 DEF PreparesOne
  <1>3. UNCHANGED <<att, head, trees, cleanups>> /\ lock = Nobody /\ lock' = c
    BY DEF OpenWorktree, JournalUnchanged, OutsideUnchanged, graph, Free
  <1>4. ASSUME NEW k \in CallOf(N, W), Holds(c, k), k.op \in {"create", "attach"}, PreparesOne(k)
        PROVE  IInv'
    <2>1. CallBecomes(c, k)
      BY <1>3, <1>4, HoldsTakes DEF LockedOps
    <2>2. ~Cleaning(k) /\ call[c].op \notin {"attach", "record"}
      BY <1>1, <1>4 DEF Cleaning
    <2> QED
      BY <1>3, <1>4, <2>1, <2>2, CallOnlyKeeps DEF IInv
  <1>5. CASE found = {} /\ Holds(c, [q EXCEPT !.op = "create"])
    <2>1. PICK k : k = [q EXCEPT !.op = "create"]
      OBVIOUS
    <2>2. k \in CallOf(N, W) /\ k.op = "create" /\ k.task = q.task /\ k.exec = q.exec /\ k.name = q.name
      BY <1>1, <2>1 DEF CallOf
    <2>3. \A id \in 1..Len(trees) : trees[id].name = q.name => trees[id].lateCreate
      <3>1. Named(q.name) = {}
        BY <1>5 DEF FindWorktree
      <3>2. DOMAIN trees = 1..Len(trees)
        BY DEF Shape
      <3>3. \A id \in 1..Len(trees) : trees[id].name = q.name => trees[id].state = "sent"
        BY <3>1, <3>2 DEF Named
      <3> QED
        BY <1>3, <3>3, UnlockedIsLate DEF IInv
    <2>4. PreparesOne(k)
      BY <1>2, <2>2, <2>3 DEF PreparesOne
    <2> QED
      BY <1>4, <1>5, <2>1, <2>2, <2>4
  <1>6. ASSUME NEW id \in Trees, found = {id}, Holds(c, [q EXCEPT !.op = "attach", !.tree = id])
        PROVE  IInv'
    <2>1. PICK k : k = [q EXCEPT !.op = "attach", !.tree = id]
      OBVIOUS
    <2>2. /\ k \in CallOf(N, W) /\ k.op = "attach" /\ k.task = q.task /\ k.exec = q.exec
          /\ k.name = q.name /\ k.tree = id
      <3>1. id \in 0..MaxTrees
        BY SizesAssumption DEF Trees
      <3> HIDE DEF q
      <3> QED
        BY <1>1, <2>1, <3>1 DEF CallOf
    <2>3. id \in 1..Len(trees)
      <3>1. CASE a.tree # 0
        <4>1. id = a.tree
          BY <1>6, <3>1 DEF FindWorktree
        <4> QED
          BY <1>2, <3>1, <4>1 DEF IInv, Owned
      <3>2. CASE a.tree = 0
        <4>1. id \in DOMAIN trees
          BY <1>6, <3>2 DEF FindWorktree, Named
        <4> QED
          BY <4>1 DEF Shape
      <3> QED
        BY <3>1, <3>2
    <2>4. PreparesOne(k)
      BY <1>2, <2>2, <2>3 DEF PreparesOne
    <2> QED
      BY <1>4, <1>6, <2>1, <2>2, <2>4
  <1> QED
    BY <1>5, <1>6 DEF OpenWorktree

\* Create: the lock kept every other call from creating the same name.
LEMMA CreateWorktreeKeeps ==
    ASSUME NEW N, NEW W, Shape(N, W), IInv, NEW c \in Callers, CreateWorktree(c)
    PROVE  IInv'
  <1>1. PICK q, n, k, tree :
           /\ q = call[c]
           /\ n = Len(trees) + 1
           /\ k = [q EXCEPT !.op = "attach", !.tree = n]
           /\ tree.name = q.name /\ tree.state = "sent" /\ ~tree.asked /\ ~tree.removed
           /\ tree \in TreeOf(N)
           /\ trees' = Append(trees, tree)
    <2>1. PICK tree : tree = SentTree(call[c].name)
      OBVIOUS
    <2>2. call[c].name \in N
      BY CallShape DEF CallOf
    <2>3. /\ tree.name = call[c].name /\ tree.state = "sent" /\ ~tree.asked /\ ~tree.removed
          /\ tree \in TreeOf(N)
      BY <2>1, <2>2 DEF SentTree, TreeOf, TreeStates
    <2> QED
      BY <2>1, <2>3 DEF CreateWorktree
  <1>2. /\ q \in CallOf(N, W) /\ q.op = "create" /\ lock = c /\ PreparesOne(q) /\ lock' = lock
        /\ Holds(c, k) /\ Len(trees) < MaxTrees
        /\ UNCHANGED <<att, head, cleanups>>
    <2>1. q \in CallOf(N, W) /\ q.op = "create" /\ lock = c
      BY <1>1, CallShape DEF CreateWorktree, LockedOps
    <2> QED
      BY <1>1, <2>1 DEF CreateWorktree, IInv, Prepares, JournalUnchanged, graph
  <1>3. trees \in Seq(TreeOf(N)) /\ Len(trees) \in Nat
    BY DEF Shape
  <1>4. /\ trees' \in Seq(TreeOf(N)) /\ Len(trees') = n /\ trees'[n] = tree
        /\ \A id \in 1..Len(trees) : trees'[id] = trees[id]
        /\ n \in Nat /\ n \in 1..n /\ 1..n = (1..Len(trees)) \cup {n} /\ n \notin 1..Len(trees)
    BY <1>1, <1>3
  <1>5. n \in 0..MaxTrees /\ n \in Trees /\ Len(trees') <= MaxTrees
    BY <1>1, <1>2, <1>3, <1>4, SizesAssumption DEF Trees
  <1>6. /\ k \in CallOf(N, W) /\ k.op = "attach" /\ k.task = q.task /\ k.exec = q.exec
        /\ k.name = q.name /\ k.tree = n
    BY <1>1, <1>2, <1>5 DEF CallOf
  <1>7. CallBecomes(c, k)
    BY <1>1, <1>2, <1>6, HoldsLocked DEF LockedOps
  <1>8. \A d \in Callers : call'[d] = IF d = c THEN k ELSE call[d]
    BY <1>7 DEF CallBecomes, Shape
  <1>9. \A d \in Callers : d # c => call[d].op \notin LockedOps
    BY <1>2 DEF Shape
  <1>10. Shape(N, W)'
    <2>1. call' \in [Callers -> CallOf(N, W)]
      BY <1>6, <1>7 DEF CallBecomes, Shape
    <2>2. \A d \in Callers : lock' = d <=> call'[d].op \in LockedOps
      BY <1>7, <1>8 DEF CallBecomes, Shape
    <2> QED
      BY <1>2, <1>4, <1>5, <2>1, <2>2 DEF Shape
  <1>11. Prepares'
    <2> SUFFICES ASSUME NEW d \in Callers
                 PROVE  PreparesOne(call[d])'
      BY DEF Prepares
    <2>1. CASE d = c
      BY <1>2, <1>4, <1>6, <1>8, <2>1 DEF PreparesOne
    <2>2. CASE d # c
      <3>1. PreparesOne(call[d]) /\ call'[d] = call[d] /\ call[d].op \notin {"create", "attach"}
        BY <1>8, <1>9, <2>2 DEF IInv, Prepares, LockedOps
      <3> QED
        BY <1>2, <3>1 DEF PreparesOne
    <2> QED
      BY <2>1, <2>2
  <1>12. Owned'
    BY <1>2, <1>4 DEF IInv, Owned
  <1>13. Twinless'
    <2>1. \A id \in 1..Len(trees) : trees[id].name = tree.name => trees[id].lateCreate
      BY <1>1, <1>2 DEF PreparesOne
    <2> QED
      BY <1>4, <2>1 DEF IInv, Twinless
  <1>14. Gone'
    <2>1. cleanups[n] = "none"
      BY <1>1, <1>3, <1>5 DEF IInv, Gone
    <2>2. IntegratedTasks' = IntegratedTasks
      BY <1>2 DEF IntegratedTasks, Integrated
    <2>3. \A id \in Trees : id > n => id > Len(trees)
      BY <1>1, <1>3 DEF Trees
    <2> QED
      BY <1>1, <1>2, <1>4, <2>1, <2>2, <2>3 DEF IInv, Gone
  <1>15. Cleans'
    <2> SUFFICES ASSUME NEW d \in Callers, Cleaning(call[d])'
                 PROVE  d = Cleaner /\ CleansOne(call[d])'
      BY DEF Cleans, Cleaning
    <2>1. d # c /\ call'[d] = call[d]
      BY <1>6, <1>8 DEF Cleaning
    <2>2. d = Cleaner /\ CleansOne(call[d])
      BY <2>1 DEF IInv, Cleans
    <2>3. IntegratedTasks' = IntegratedTasks /\ \A id : Users(id)' = Users(id)
      BY <1>2 DEF IntegratedTasks, Integrated, Users
    <2> QED
      BY <1>1, <1>2, <1>4, <2>1, <2>2, <2>3 DEF CleansOne
  <1>16. Awaited'
    <2> SUFFICES ASSUME NEW id \in 1..Len(trees')
                 PROVE  /\ trees'[id].state = "sent" =>
                             \/ trees'[id].lateCreate
                             \/ \E d \in Callers : call'[d].op = "attach" /\ call'[d].tree = id
                        /\ trees'[id].asked /\ trees'[id].state # "removed" =>
                             \/ trees'[id].lateRemove
                             \/ call'[Cleaner].op = "record" /\ call'[Cleaner].tree = id
      BY DEF Awaited
    <2>1. CASE id = n
      BY <1>1, <1>4, <1>6, <1>8, <2>1
    <2>2. CASE id \in 1..Len(trees)
      <3>1. \A d \in Callers : call[d].op \in {"attach", "record"} => call'[d] = call[d]
        BY <1>1, <1>2, <1>8
      <3> QED
        BY <1>4, <2>2, <3>1, CallersAssumption DEF IInv, Awaited
    <2> QED
      BY <1>4, <2>1, <2>2
  <1> QED
    BY <1>10, <1>11, <1>12, <1>13, <1>14, <1>15, <1>16 DEF IInv

\* Attach: the attempt gets the worktree of its name.
LEMMA AttachWorktreeKeeps ==
    ASSUME NEW N, NEW W, Shape(N, W), IInv, NEW c \in Callers, AttachWorktree(c)
    PROVE  IInv'
  <1>1. PICK q, t, e, id, b, s, k :
           /\ q = call[c]
           /\ t = q.task /\ e = q.exec /\ id = q.tree
           /\ b = [att[t][e] EXCEPT !.tree = id,
                     !.state = IF trees[id].state = "ready" /\ trees[id].healthy THEN "running" ELSE @]
           /\ s = [att[t] EXCEPT ![e] = b]
           /\ k = Idle
    OBVIOUS
  <1>2. /\ q \in CallOf(N, W) /\ q.op = "attach" /\ lock = c /\ PreparesOne(q)
        /\ lock' = Nobody /\ Holds(c, k)
        /\ UNCHANGED <<head, trees, cleanups>>
        /\ trees[id].name = q.name /\ trees[id].state # "sent"
        /\ att[t][e].state \in {"preparing", "running"} /\ att[t][e].tree \in {0, id}
    <2>1. q \in CallOf(N, W) /\ q.op = "attach" /\ lock = c
      BY <1>1, CallShape DEF AttachWorktree, LockedOps
    <2> QED
      BY <1>1, <2>1 DEF AttachWorktree, IInv, Prepares, OutsideUnchanged
  <1>3. att' = [att EXCEPT ![t] = s]
    <2>1. att' = [att EXCEPT ![t] = [@ EXCEPT ![e] = b]]
      BY ZenonT(60), <1>1 DEF AttachWorktree
    <2> QED
      BY <1>1, <2>1
  <1>4. t \in Tasks /\ e \in 1..Len(att[t]) /\ id \in 1..Len(trees) /\ trees[id].name.task = t
    BY <1>1, <1>2 DEF PreparesOne
  <1>5. /\ att[t] \in Seq(AttemptOf(N)) /\ Len(att[t]) \in Nat /\ att[t][e] \in AttemptOf(N)
        /\ trees \in Seq(TreeOf(N)) /\ Len(trees) \in Nat /\ Histories(N)
    BY <1>4 DEF Shape, Histories
  <1>6. b \in AttemptOf(N) /\ b.tree = id /\ b.state \in {"preparing", "running"}
    <2>1. id \in 0..MaxTrees
      BY <1>4, <1>5, SizesAssumption DEF Shape
    <2>2. b = [att[t][e] EXCEPT !.tree = id, !.state = "running"]
          \/ b = [att[t][e] EXCEPT !.tree = id]
      BY <1>1, <1>5 DEF AttemptOf
    <2> QED
      BY <1>2, <1>5, <2>1, <2>2 DEF AttemptOf
  <1>7. /\ s \in Seq(AttemptOf(N)) /\ Len(s) = Len(att[t]) /\ s[e] = b
        /\ \A f \in 1..Len(att[t]) : f # e => s[f] = att[t][f]
    <2>1. s = [att[t] EXCEPT ![e] = b]
      BY <1>1
    <2> QED
      BY <1>4, <1>5, <1>6, <2>1
  <1>8. \A u \in Tasks : att'[u] = IF u = t THEN s ELSE att[u]
    BY <1>3, <1>4 DEF Shape
  <1>9. Histories(N)' /\ \A u \in Tasks : Len(att'[u]) = Len(att[u])
    BY <1>3, <1>4, <1>5, <1>7, <1>8 DEF Histories
  <1>10. CallBecomes(c, k) /\ k \in CallOf(N, W) /\ PreparesOne(k)' /\ ~Cleaning(k)
    <2>1. k \in CallOf(N, W) /\ ~Cleaning(k) /\ k.op \notin LockedOps /\ k.op = "idle" /\ k.task = 0
      BY <1>1, CallShape, IdleHoldsNothing DEF Idle
    <2> QED
      BY <1>2, <2>1, HoldsReleases DEF PreparesOne
  <1>11. \A d \in Callers : call'[d] = IF d = c THEN k ELSE call[d]
    BY <1>10 DEF CallBecomes, Shape
  <1>12. Shape(N, W)'
    <2>1. call' \in [Callers -> CallOf(N, W)]
      BY <1>10 DEF CallBecomes, Shape
    <2>2. \A d \in Callers : lock' = d <=> call'[d].op \in LockedOps
      BY <1>10, <1>11 DEF CallBecomes, Shape
    <2> QED
      BY <1>2, <1>9, <1>10, <2>1, <2>2 DEF CallBecomes, Shape, Histories
  <1>13. Prepares'
    <2> SUFFICES ASSUME NEW d \in Callers, d # c
                 PROVE  PreparesOne(call[d])'
      BY <1>10, <1>11 DEF Prepares, PreparesOne
    <2>1. PreparesOne(call[d]) /\ call'[d] = call[d]
      BY <1>11 DEF IInv, Prepares
    <2>2. \A u \in Tasks : Len(att[u]) \in Nat /\ (att[u] # <<>> => att'[u] # <<>>)
      BY <1>5, <1>9 DEF Histories
    <2> QED
      BY <1>2, <1>9, <2>1, <2>2 DEF PreparesOne
  <1>14. Owned'
    <2> SUFFICES ASSUME NEW u \in Tasks, NEW f \in 1..Len(att'[u]), att'[u][f].tree # 0
                 PROVE  /\ att'[u][f].tree \in 1..Len(trees)
                        /\ trees[att'[u][f].tree].name.task = u
      BY <1>2 DEF Owned
    <2>1. f \in 1..Len(att[u])
      BY <1>9
    <2>2. CASE u = t /\ f = e
      BY <1>4, <1>6, <1>7, <1>8, <2>2
    <2>3. CASE ~(u = t /\ f = e)
      <3>1. att'[u][f] = att[u][f]
        BY <1>7, <1>8, <2>1, <2>3
      <3> QED
        BY <2>1, <3>1 DEF IInv, Owned
    <2> QED
      BY <2>2, <2>3
  <1>15. Twinless'
    BY <1>2 DEF IInv, Twinless
  <1>16. IntegratedTasks \subseteq IntegratedTasks'
    <2> SUFFICES ASSUME NEW u \in Tasks, att[u] # <<>>, Last(att[u]).state = "integrated"
                 PROVE  att'[u] # <<>> /\ Last(att'[u]).state = "integrated"
      BY DEF IntegratedTasks, Integrated
    <2>1. CASE u = t
      <3>1. Len(att[t]) # e
        BY <1>2, <1>4, <2>1 DEF Last
      <3>2. s[Len(s)] = att[t][Len(att[t])] /\ s # <<>>
        BY <1>4, <1>5, <1>7, <3>1
      <3> QED
        BY <1>8, <2>1, <3>2 DEF Last
    <2>2. CASE u # t
      BY <1>8, <2>2
    <2> QED
      BY <2>1, <2>2
  <1>17. Gone'
    BY <1>2, <1>16 DEF IInv, Gone
  <1>18. \A i \in Trees : Users(i) # {} => Users(i)' # {}
    <2> SUFFICES ASSUME NEW i \in Trees, Users(i) # {}
                 PROVE  Users(i)' # {}
      OBVIOUS
    <2>1. i # 0
      BY DEF Trees
    <2>2. \A u \in Tasks : \A f \in 1..Len(att[u]) : att[u][f].tree = i => att'[u][f].tree = i
      BY <1>2, <1>6, <1>7, <1>8, <2>1
    <2>3. \A u \in Tasks : Len(att'[u]) >= Len(att[u])
      BY <1>5, <1>9 DEF Histories
    <2> QED
      BY <1>5, <1>9, <2>2, <2>3, UsersKept
  <1>19. Cleans'
    <2> SUFFICES ASSUME NEW d \in Callers, Cleaning(call[d])'
                 PROVE  d = Cleaner /\ CleansOne(call[d])'
      BY DEF Cleans, Cleaning
    <2>1. d # c /\ call'[d] = call[d]
      BY <1>10, <1>11 DEF Cleaning
    <2>2. d = Cleaner /\ CleansOne(call[d])
      BY <2>1 DEF IInv, Cleans, Cleaning
    <2>3. call[d].todo \subseteq Trees
      BY CallShape DEF CallOf
    <2> QED
      BY <1>2, <1>16, <1>18, <2>1, <2>2, <2>3 DEF CleansOne
  <1>20. Awaited'
    <2>1. \A d \in Callers : d # c => call'[d] = call[d]
      BY <1>11
    <2>2. ASSUME NEW i \in 1..Len(trees), trees[i].state = "sent"
          PROVE  \/ trees[i].lateCreate
                 \/ \E d \in Callers : d # c /\ call[d].op = "attach" /\ call[d].tree = i
      <3>1. \/ trees[i].lateCreate
            \/ \E d \in Callers : call[d].op = "attach" /\ call[d].tree = i
        BY <2>2 DEF IInv, Awaited
      <3>2. call[c].tree # i
        BY <1>1, <1>2, <2>2
      <3> QED
        BY <3>1, <3>2
    <2>3. \A i \in 1..Len(trees) : trees[i].asked /\ trees[i].state # "removed" =>
             \/ trees[i].lateRemove
             \/ Cleaner # c /\ call[Cleaner].op = "record" /\ call[Cleaner].tree = i
      BY <1>1, <1>2 DEF IInv, Awaited
    <2> QED
      BY <1>2, <2>1, <2>2, <2>3, CallersAssumption DEF Awaited
  <1> QED
    BY <1>12, <1>13, <1>14, <1>15, <1>17, <1>19, <1>20 DEF IInv

\* A cleanup begins: what it reads of the journal is so.
LEMMA CleanupLoadKeeps ==
    ASSUME NEW N, NEW W, Shape(N, W), IInv, NEW c \in Callers, CleanupLoad(c)
    PROVE  IInv'
  <1>1. PICK k : k = [Idle EXCEPT !.op = "inspect", !.todo = CleanupTargets,
                                  !.done = IntegratedTasks, !.head = head]
    OBVIOUS
  <1>2. /\ c = Cleaner /\ call[c].op = "idle" /\ Holds(c, k)
        /\ UNCHANGED <<att, head, trees, cleanups, lock>>
    BY <1>1 DEF CleanupLoad, Idle, JournalUnchanged, OutsideUnchanged, graph
  <1>3. /\ k.op = "inspect" /\ k.task = 0 /\ k.todo = CleanupTargets /\ k.done = IntegratedTasks
    BY <1>1 DEF Idle
  <1>4. k \in CallOf(N, W)
    <2>1. CleanupTargets \subseteq Trees /\ IntegratedTasks \subseteq Tasks /\ head \in Nat
      BY DEF CleanupTargets, AttachedTrees, IntegratedTasks, Shape
    <2>2. 0 \in 0..NTasks /\ 0 \in 0..MaxExec /\ 0 \in 0..MaxTrees
      BY SizesAssumption
    <2> QED
      BY <1>1, <2>1, <2>2, CallShape DEF CallOf, Idle
  <1>5. CallBecomes(c, k)
    BY <1>2, <1>3, HoldsUnlocked DEF LockedOps
  <1>6. PreparesOne(k)
    BY <1>3 DEF PreparesOne
  <1>8. call[c].op \notin {"attach", "record"}
    BY <1>2
  <1>7. CleansOne(k)
    <2>1. \A id \in k.todo : Users(id) # {}
      BY <1>3 DEF CleanupTargets, AttachedTrees
    <2>2. \A id \in 1..Len(trees) : trees[id].asked => trees[id].name.task \in k.done
      BY <1>3 DEF IInv, Gone
    <2> QED
      BY <1>3, <2>1, <2>2 DEF CleansOne
  <1> QED
    BY <1>2, <1>4, <1>5, <1>6, <1>7, <1>8, CallOnlyKeeps DEF IInv

\* A call that cleans is the cleaner's, and knows what Cleans says.
LEMMA CleanerKnows ==
    ASSUME NEW N, NEW W, Shape(N, W), IInv, NEW c \in Callers, Cleaning(call[c])
    PROVE  c = Cleaner /\ CleansOne(call[c]) /\ call[c] \in CallOf(N, W)
  BY CallShape DEF IInv, Cleans

\* A cleanup judges a worktree, which is one of the task of its first attempt.
LEMMA CleanupInspectKeeps ==
    ASSUME NEW N, NEW W, Shape(N, W), IInv, NEW c \in Callers,
           NEW id \in Trees, NEW reachable \in BOOLEAN, CleanupInspect(c, id, reachable)
    PROVE  IInv'
  <1>1. PICK q, v, k :
           /\ q = call[c] /\ v = Verdict(id, q.done, reachable)
           /\ k = [q EXCEPT !.op = "persist", !.tree = id, !.verdict = v]
    OBVIOUS
  <1>2. /\ q.op = "inspect" /\ q.task = 0 /\ id \in q.todo /\ Holds(c, k)
        /\ UNCHANGED <<att, head, trees, cleanups, lock>>
    BY <1>1 DEF CleanupInspect, NextTarget, JournalUnchanged, OutsideUnchanged, graph
  <1>3. c = Cleaner /\ CleansOne(q) /\ q \in CallOf(N, W)
    BY <1>1, <1>2, CleanerKnows DEF Cleaning
  <1>4. v \in {"planned", "removed", "retained"}
    BY <1>1 DEF Verdict
  <1>5. /\ k \in CallOf(N, W) /\ k.op = "persist" /\ k.task = 0 /\ k.tree = id /\ k.verdict = v
        /\ k.done = q.done /\ k.todo = q.todo
    <2>1. id \in 0..MaxTrees
      BY SizesAssumption DEF Trees
    <2> QED
      BY ZenonT(60), <1>1, <1>2, <1>3, <1>4, <2>1 DEF CallOf
  <1>6. CallBecomes(c, k)
    BY <1>1, <1>2, <1>5, HoldsUnlocked DEF LockedOps
  <1>7. PreparesOne(k) /\ call[c].op \notin {"attach", "record"}
    BY <1>1, <1>2, <1>5 DEF PreparesOne
  <1>8. id \in 1..Len(trees) /\ trees[id].name.task = FirstUser(id)[1]
    <2>1. PICK x : x = FirstUser(id)
      OBVIOUS
    <2>2. x \in Users(id)
      BY <1>2, <1>3, <2>1, FirstUserIsUser DEF CleansOne
    <2>3. /\ x[1] \in Tasks /\ x[2] \in 1..MaxExec /\ x[2] <= Len(att[x[1]])
          /\ att[x[1]][x[2]].tree = id
      BY <2>2 DEF Users
    <2>4. x[2] \in 1..Len(att[x[1]])
      BY <2>3, SizesAssumption DEF Shape
    <2>5. id # 0
      BY DEF Trees
    <2> QED
      BY <2>1, <2>3, <2>4, <2>5 DEF IInv, Owned
  <1>9. CleansOne(k)
    <2>1. v = "removed" => trees[id].state = "removed"
      BY <1>1 DEF Verdict
    <2>2. v = "planned" => trees[id].name.task \in q.done
      BY <1>1, <1>8 DEF Verdict, TaskMayBeCleaned
    <2>3. v # "removed" => (trees[id].asked => trees[id].lateRemove)
      <3>1. trees[id].asked => trees[id].name.task \in q.done
        BY <1>3, <1>8 DEF CleansOne
      <3>2. trees[id].asked => trees[id].lateRemove \/ trees[id].state = "removed"
        BY <1>1, <1>2, <1>3, <1>8 DEF IInv, Awaited
      <3> QED
        BY <1>1, <1>8, <3>1, <3>2 DEF Verdict, TaskMayBeCleaned
    <2> QED
      BY <1>3, <1>4, <1>5, <1>8, <2>1, <2>2, <2>3 DEF CleansOne
  <1> QED
    BY <1>2, <1>3, <1>5, <1>6, <1>7, <1>9, CallOnlyKeeps DEF IInv

\* The cleaner writes what it knows of its target to the journal.
LEMMA CleanerWrites ==
    ASSUME NEW N, NEW W, Shape(N, W), IInv, UNCHANGED <<att, head, trees>>,
           NEW id \in 1..Len(trees), NEW v \in {"planned", "removed", "retained"},
           cleanups' = [cleanups EXCEPT ![id] = v],
           v = "removed" => trees[id].state = "removed",
           v = "retained" => (trees[id].asked => trees[id].lateRemove),
           \/ call[Cleaner].op \in {"persist", "check"}
           \/ call[Cleaner].op = "record" /\ call[Cleaner].tree = id /\ v = "removed",
           NEW k \in CallOf(N, W), CallBecomes(Cleaner, k),
           k.task = 0, k.op = "inspect" \/ k.op = "check", CleansOne(k)'
    PROVE  IInv'
  <1>1. Cleaner \in Callers
    BY CallersAssumption
  <1>2. id \in Trees /\ cleanups \in [Trees -> {"none", "planned", "removed", "retained"}]
    <2>1. Len(trees) \in Nat /\ Len(trees) <= MaxTrees
      BY DEF Shape
    <2> QED
      BY <2>1, SizesAssumption DEF Trees, Shape
  <1>3. \A i \in Trees : cleanups'[i] = IF i = id THEN v ELSE cleanups[i]
    BY <1>2
  <1>4. \A d \in Callers : call'[d] = IF d = Cleaner THEN k ELSE call[d]
    BY <1>1 DEF CallBecomes, Shape
  <1>5. Shape(N, W)'
    <2>1. call' \in [Callers -> CallOf(N, W)]
      BY <1>1 DEF CallBecomes, Shape
    <2>2. \A d \in Callers : lock' = d <=> call'[d].op \in LockedOps
      BY <1>1, <1>4 DEF CallBecomes, Shape
    <2>3. cleanups' \in [Trees -> {"none", "planned", "removed", "retained"}]
      BY <1>2
    <2> QED
      BY <2>1, <2>2, <2>3 DEF CallBecomes, Shape
  <1>6. Prepares'
    BY <1>4 DEF IInv, Prepares, PreparesOne
  <1>7. Owned' /\ Twinless'
    BY DEF IInv, Owned, Twinless
  <1>8. IntegratedTasks' = IntegratedTasks
    BY DEF IntegratedTasks, Integrated
  <1>9. Gone'
    <2>1. 1..Len(trees) \subseteq Trees /\ Len(trees) \in Nat
      BY SizesAssumption DEF Shape, Trees
    <2>2. \A i \in 1..Len(trees) :
            /\ trees[i].removed => trees[i].asked /\ trees[i].state = "removed"
            /\ trees[i].state = "removing" => trees[i].asked
            /\ trees[i].asked =>
                 /\ trees[i].name.task \in IntegratedTasks
                 /\ cleanups'[i] # "none"
                 /\ cleanups'[i] = "retained" => trees[i].lateRemove
            /\ cleanups'[i] = "removed" => trees[i].state = "removed"
      BY <1>3, <2>1 DEF IInv, Gone
    <2>3. \A i \in Trees : i > Len(trees) => cleanups'[i] = "none"
      BY <1>3, <2>1 DEF IInv, Gone
    <2> QED
      BY <1>8, <2>2, <2>3 DEF Gone
  <1>10. Cleans'
    BY <1>4 DEF IInv, Cleans, Cleaning, CleansOne
  <1>11. Awaited'
    <2>1. \A d \in Callers : d # Cleaner => call'[d] = call[d]
      BY <1>4
    <2>2. \A i \in 1..Len(trees) : trees[i].state = "sent" =>
             \/ trees[i].lateCreate
             \/ \E d \in Callers : d # Cleaner /\ call[d].op = "attach" /\ call[d].tree = i
      BY DEF IInv, Awaited
    <2>3. \A i \in 1..Len(trees) : trees[i].asked /\ trees[i].state # "removed" =>
             trees[i].lateRemove
      BY DEF IInv, Awaited
    <2> QED
      BY <2>1, <2>2, <2>3 DEF Awaited
  <1> QED
    BY <1>5, <1>6, <1>7, <1>9, <1>10, <1>11 DEF IInv

\* The next target, after the one the call worked on.
LEMMA NextKnows ==
    ASSUME NEW N, NEW W, Shape(N, W), IInv, NEW c \in Callers,
           Cleaning(call[c]), NEW k, k = CleanupDone(c)
    PROVE  /\ k \in CallOf(N, W) /\ k.op = "inspect" /\ k.task = 0
           /\ UNCHANGED <<att, trees>> => CleansOne(k)'
  <1>1. c = Cleaner /\ CleansOne(call[c]) /\ call[c] \in CallOf(N, W)
    BY CleanerKnows
  <1>2. k = [call[c] EXCEPT !.op = "inspect", !.tree = 0, !.verdict = "none",
                            !.todo = call[c].todo \ {call[c].tree}]
    BY DEF CleanupDone
  <1>3. 0 \in 0..MaxTrees
    BY SizesAssumption
  <1>4. /\ k \in CallOf(N, W) /\ k.op = "inspect" /\ k.task = call[c].task
        /\ k.done = call[c].done /\ k.todo \subseteq call[c].todo
    <2>1. PICK todo : todo = call[c].todo \ {call[c].tree}
      OBVIOUS
    <2>2. todo \subseteq call[c].todo /\ todo \in SUBSET Trees
      BY <1>1, <2>1 DEF CallOf
    <2>3. PICK q : q = call[c] /\ q \in CallOf(N, W)
      BY <1>1
    <2>4. k = [q EXCEPT !.op = "inspect", !.tree = 0, !.verdict = "none", !.todo = todo]
      BY <1>2, <2>1, <2>3
    <2>5. k \in CallOf(N, W)
      BY <1>3, <2>2, <2>3, <2>4 DEF CallOf
    <2>6. k.op = "inspect" /\ k.task = q.task /\ k.done = q.done /\ k.todo = todo
      BY <2>3, <2>4 DEF CallOf
    <2> QED
      BY <2>2, <2>3, <2>5, <2>6
  <1>5. ASSUME UNCHANGED <<att, trees>>
        PROVE  CleansOne(k)'
    <2>1. IntegratedTasks' = IntegratedTasks /\ \A id : Users(id)' = Users(id)
      BY <1>5 DEF IntegratedTasks, Integrated, Users
    <2> QED
      BY <1>1, <1>4, <1>5, <2>1 DEF CleansOne
  <1> QED
    BY <1>1, <1>4, <1>5 DEF CleansOne

\* persistCleanup and completeCleanup.
LEMMA CleanupPersistKeeps ==
    ASSUME NEW N, NEW W, Shape(N, W), IInv, NEW c \in Callers, CleanupPersist(c)
    PROVE  IInv'
  <1>1. PICK q, id, v : q = call[c] /\ id = q.tree /\ v = q.verdict
    OBVIOUS
  <1>2. /\ q.op = "persist" /\ cleanups' = [cleanups EXCEPT ![id] = v]
        /\ UNCHANGED <<att, head, trees, lock>>
    BY <1>1 DEF CleanupPersist, OutsideUnchanged, graph
  <1>3. c = Cleaner /\ CleansOne(q) /\ q \in CallOf(N, W)
    BY <1>1, <1>2, CleanerKnows DEF Cleaning
  <1>4. /\ id \in 1..Len(trees) /\ v \in {"planned", "removed", "retained"}
        /\ v = "removed" => trees[id].state = "removed"
        /\ v # "removed" => (trees[id].asked => trees[id].lateRemove)
        /\ v = "planned" => trees[id].name.task \in q.done
    BY <1>1, <1>2, <1>3 DEF CleansOne, CallOf
  <1>5. q.op \notin LockedOps
    BY <1>2 DEF LockedOps
  <1>6. CASE v = "planned"
    <2>1. PICK k : k = [q EXCEPT !.op = "check"]
      OBVIOUS
    <2>2. /\ k \in CallOf(N, W) /\ k.op = "check" /\ k.task = q.task /\ k.tree = id
          /\ k.done = q.done /\ k.todo = q.todo
      BY <1>1, <1>3, <2>1 DEF CallOf
    <2>3. Holds(c, k)
      BY <1>1, <1>6, <2>1 DEF CleanupPersist
    <2>4. CallBecomes(c, k)
      BY <1>1, <1>2, <1>5, <2>2, <2>3, HoldsUnlocked DEF LockedOps
    <2>5. cleanups'[id] = "planned"
      <3>1. Len(trees) \in Nat /\ Len(trees) <= MaxTrees
        BY DEF Shape
      <3>2. id \in Trees
        BY <1>4, <3>1, SizesAssumption DEF Trees
      <3> QED
        BY <1>2, <1>6, <3>2 DEF Shape
    <2>6. IntegratedTasks' = IntegratedTasks /\ \A i : Users(i)' = Users(i)
      BY <1>2 DEF IntegratedTasks, Integrated, Users
    <2>7. CleansOne(k)'
      BY <1>2, <1>3, <1>4, <1>6, <2>2, <2>5, <2>6 DEF CleansOne
    <2>8. k.task = 0
      BY <1>3, <2>2 DEF CleansOne
    <2> QED
      BY <1>1, <1>2, <1>3, <1>4, <2>2, <2>4, <2>7, <2>8, CleanerWrites
  <1>7. CASE v # "planned"
    <2>1. PICK k : k = CleanupDone(c)
      OBVIOUS
    <2>2. Holds(c, k)
      BY <1>1, <1>7, <2>1 DEF CleanupPersist
    <2>3. /\ k \in CallOf(N, W) /\ k.op = "inspect" /\ k.task = 0 /\ CleansOne(k)'
      BY <1>1, <1>2, <2>1, NextKnows DEF Cleaning
    <2>4. CallBecomes(c, k)
      BY <1>1, <1>2, <1>5, <2>2, <2>3, HoldsUnlocked DEF LockedOps
    <2> QED
      BY <1>1, <1>2, <1>3, <1>4, <2>3, <2>4, CleanerWrites
  <1> QED
    BY <1>6, <1>7

\* The second look: the worktree is retained ...
LEMMA CleanupRetainKeeps ==
    ASSUME NEW N, NEW W, Shape(N, W), IInv, NEW c \in Callers,
           NEW reachable \in BOOLEAN, CleanupRetain(c, reachable)
    PROVE  IInv'
  <1>1. PICK id, k : id = call[c].tree /\ k = CleanupDone(c)
    OBVIOUS
  <1>2. /\ call[c].op = "check" /\ cleanups' = [cleanups EXCEPT ![id] = "retained"]
        /\ Holds(c, k) /\ UNCHANGED <<att, head, trees, lock>>
    BY <1>1 DEF CleanupRetain, OutsideUnchanged, graph
  <1>3. c = Cleaner /\ id \in 1..Len(trees) /\ (trees[id].asked => trees[id].lateRemove)
    BY <1>1, <1>2, CleanerKnows DEF Cleaning, CleansOne
  <1>4. k \in CallOf(N, W) /\ k.op = "inspect" /\ k.task = 0 /\ CleansOne(k)'
    BY <1>1, <1>2, NextKnows DEF Cleaning
  <1>5. CallBecomes(c, k)
    BY <1>2, <1>4, HoldsUnlocked DEF LockedOps
  <1> QED
    BY <1>2, <1>3, <1>4, <1>5, CleanerWrites

\* ... or will be removed under the lock ...
LEMMA CleanupCheckKeeps ==
    ASSUME NEW N, NEW W, Shape(N, W), IInv, NEW c \in Callers, CleanupCheck(c)
    PROVE  IInv'
  <1>1. PICK q, k : q = call[c] /\ k = [q EXCEPT !.op = "remove"]
    OBVIOUS
  <1>2. /\ q.op = "check" /\ lock = Nobody /\ lock' = c /\ Holds(c, k)
        /\ UNCHANGED <<att, head, trees, cleanups>>
    BY <1>1 DEF CleanupCheck, Free, JournalUnchanged, OutsideUnchanged, graph
  <1>3. c = Cleaner /\ CleansOne(q) /\ q \in CallOf(N, W)
    BY <1>1, <1>2, CleanerKnows DEF Cleaning
  <1>4. /\ k \in CallOf(N, W) /\ k.op = "remove" /\ k.task = q.task /\ k.tree = q.tree
        /\ k.done = q.done /\ k.todo = q.todo
    BY <1>1, <1>3 DEF CallOf
  <1>5. CallBecomes(c, k)
    BY <1>2, <1>4, HoldsTakes DEF LockedOps
  <1>6. CleansOne(k)
    BY <1>2, <1>3, <1>4 DEF CleansOne
  <1>7. PreparesOne(k) /\ call[c].op \notin {"attach", "record"}
    BY <1>1, <1>2, <1>4 DEF PreparesOne
  <1> QED
    BY <1>2, <1>3, <1>4, <1>5, <1>6, <1>7, CallOnlyKeeps DEF IInv

\* ... and is asked for: its operation is planned and its task is integrated.
LEMMA CleanupRemoveKeeps ==
    ASSUME NEW N, NEW W, Shape(N, W), IInv, NEW c \in Callers, CleanupRemove(c)
    PROVE  IInv'
  <1>1. PICK q, id, tree, k :
           /\ q = call[c] /\ id = q.tree
           /\ tree = [trees[id] EXCEPT !.asked = TRUE]
           /\ k = [q EXCEPT !.op = "record"]
    OBVIOUS
  <1>2. /\ q.op = "remove" /\ Holds(c, k) /\ trees' = [trees EXCEPT ![id] = tree]
        /\ UNCHANGED <<att, head, cleanups, lock>>
    BY <1>1 DEF CleanupRemove, TreeBecomes, JournalUnchanged, graph
  <1>3. c = Cleaner /\ CleansOne(q) /\ q \in CallOf(N, W)
    BY <1>1, <1>2, CleanerKnows DEF Cleaning
  <1>4. /\ id \in 1..Len(trees) /\ cleanups[id] = "planned" /\ trees[id].name.task \in q.done
        /\ q.done \subseteq IntegratedTasks /\ q.task = 0
    BY <1>1, <1>2, <1>3 DEF CleansOne
  <1>5. trees \in Seq(TreeOf(N)) /\ trees[id] \in TreeOf(N) /\ Len(trees) \in Nat
    BY <1>4 DEF Shape
  <1>6. /\ tree \in TreeOf(N) /\ tree.name = trees[id].name /\ tree.asked
        /\ tree.state = trees[id].state /\ tree.removed = trees[id].removed
        /\ tree.lateCreate = trees[id].lateCreate /\ tree.lateRemove = trees[id].lateRemove
    BY <1>1, <1>5 DEF TreeOf
  <1>7. /\ trees' \in Seq(TreeOf(N)) /\ Len(trees') = Len(trees)
        /\ \A i \in 1..Len(trees) : trees'[i] = IF i = id THEN tree ELSE trees[i]
    BY <1>2, <1>4, <1>5, <1>6
  <1>8. /\ k \in CallOf(N, W) /\ k.op = "record" /\ k.task = q.task /\ k.tree = id
        /\ k.done = q.done /\ k.todo = q.todo
    BY <1>1, <1>3 DEF CallOf
  <1>9. CallBecomes(c, k)
    BY <1>1, <1>2, <1>8, HoldsLocked DEF LockedOps
  <1>10. \A d \in Callers : call'[d] = IF d = c THEN k ELSE call[d]
    BY <1>9 DEF CallBecomes, Shape
  <1>11. Shape(N, W)'
    <2>1. call' \in [Callers -> CallOf(N, W)]
      BY <1>8, <1>9 DEF CallBecomes, Shape
    <2>2. \A d \in Callers : lock' = d <=> call'[d].op \in LockedOps
      BY <1>9, <1>10 DEF CallBecomes, Shape
    <2> QED
      BY <1>2, <1>7, <2>1, <2>2 DEF Shape
  <1>12. Prepares'
    <2> SUFFICES ASSUME NEW d \in Callers, d # c
                 PROVE  PreparesOne(call[d])'
      BY <1>8, <1>10 DEF Prepares, PreparesOne
    <2>1. PreparesOne(call[d]) /\ call'[d] = call[d]
      BY <1>10 DEF IInv, Prepares
    <2> QED
      BY <1>2, <1>6, <1>7, <2>1 DEF PreparesOne
  <1>13. \A i \in 1..Len(trees) : /\ trees'[i].name = trees[i].name
                                  /\ trees'[i].lateCreate = trees[i].lateCreate
    BY <1>6, <1>7
  <1>14. Owned' /\ Twinless'
    BY <1>2, <1>7, <1>13 DEF IInv, Owned, Twinless
  <1>15. IntegratedTasks' = IntegratedTasks /\ \A i : Users(i)' = Users(i)
    BY <1>2 DEF IntegratedTasks, Integrated, Users
  <1>16. Gone'
    BY <1>2, <1>4, <1>6, <1>7, <1>15 DEF IInv, Gone
  <1>17. CleansOne(k)'
    BY <1>2, <1>3, <1>4, <1>6, <1>7, <1>8, <1>15 DEF CleansOne
  <1>18. Cleans'
    <2> SUFFICES ASSUME NEW d \in Callers, Cleaning(call[d])'
                 PROVE  d = Cleaner /\ CleansOne(call[d])'
      BY DEF Cleans, Cleaning
    <2>1. d # c => d = Cleaner
      BY <1>10 DEF IInv, Cleans, Cleaning
    <2>2. d = c /\ call'[d] = k
      BY <1>3, <1>10, <2>1
    <2> QED
      BY <1>3, <1>17, <2>2 DEF CleansOne
  <1>19. Awaited'
    <2>1. \A d \in Callers : d # c => call'[d] = call[d]
      BY <1>10
    <2>2. \A i \in 1..Len(trees) : trees[i].state = "sent" =>
             \/ trees[i].lateCreate
             \/ \E d \in Callers : d # c /\ call[d].op = "attach" /\ call[d].tree = i
      BY <1>1, <1>2 DEF IInv, Awaited
    <2>3. \A i \in 1..Len(trees) : trees[i].asked /\ trees[i].state # "removed" =>
             trees[i].lateRemove
      BY <1>1, <1>2, <1>3 DEF IInv, Awaited
    <2>4. call'[Cleaner].op = "record" /\ call'[Cleaner].tree = id
      BY <1>3, <1>8, <1>10
    <2> QED
      BY <1>6, <1>7, <2>1, <2>2, <2>3, <2>4 DEF Awaited
  <1> QED
    BY <1>11, <1>12, <1>14, <1>16, <1>18, <1>19 DEF IInv

\* The removal is recorded for a worktree that is removed.
LEMMA CleanupRecordKeeps ==
    ASSUME NEW N, NEW W, Shape(N, W), IInv, NEW c \in Callers, CleanupRecord(c)
    PROVE  IInv'
  <1>1. PICK id, k : id = call[c].tree /\ k = CleanupDone(c)
    OBVIOUS
  <1>2. /\ call[c].op = "record" /\ cleanups' = [cleanups EXCEPT ![id] = "removed"]
        /\ Holds(c, k) /\ UNCHANGED <<att, head, trees>> /\ lock' = Nobody
    BY <1>1 DEF CleanupRecord, OutsideUnchanged, graph
  <1>3. c = Cleaner /\ id \in 1..Len(trees) /\ trees[id].state = "removed"
    BY <1>1, <1>2, CleanerKnows DEF CleanupRecord, Cleaning, CleansOne
  <1>4. k \in CallOf(N, W) /\ k.op = "inspect" /\ k.task = 0 /\ CleansOne(k)'
    BY <1>1, <1>2, NextKnows DEF Cleaning
  <1>5. CallBecomes(c, k)
    <2>1. lock = c
      BY <1>2, CallShape DEF LockedOps
    <2> QED
      BY <1>2, <1>4, <2>1, HoldsReleases DEF LockedOps
  <1> QED
    BY <1>1, <1>2, <1>3, <1>4, <1>5, CleanerWrites

\* The report of a cleanup is its last step.
LEMMA CleanupReturnsKeeps ==
    ASSUME NEW N, NEW W, Shape(N, W), IInv, NEW c \in Callers, CleanupReturns(c)
    PROVE  IInv'
  <1>1. UNCHANGED <<att, head, trees, cleanups, lock>> /\ Holds(c, Idle) /\ call[c].op = "inspect"
    BY DEF CleanupReturns, JournalUnchanged, graph
  <1>2. Idle \in CallOf(N, W) /\ PreparesOne(Idle) /\ ~Cleaning(Idle) /\ Idle.op \notin LockedOps
    BY CallShape, IdleHoldsNothing
  <1>3. CallBecomes(c, Idle)
    BY <1>1, <1>2, HoldsUnlocked DEF LockedOps
  <1> QED
    BY <1>1, <1>2, <1>3, CallOnlyKeeps DEF IInv

\* A call that is given up gives up one command at most, and a worktree is late
\* from then on.
LEMMA GivenUpKeeps ==
    ASSUME NEW N, trees \in Seq(TreeOf(N)), NEW k, trees' = GivenUp(k)
    PROVE  /\ trees' \in Seq(TreeOf(N)) /\ TreesKept
           /\ \A id \in 1..Len(trees) :
                /\ k.op = "attach" /\ k.tree = id /\ trees[id].state = "sent" =>
                     trees'[id].lateCreate
                /\ k.op = "record" /\ k.tree = id /\ trees[id].state # "removed" =>
                     trees'[id].lateRemove
  <1>1. \A id \in 1..Len(trees) : trees[id] \in TreeOf(N)
    OBVIOUS
  <1>2. ASSUME NEW id, NEW tree, trees' = [trees EXCEPT ![id] = tree],
               id \in 1..Len(trees) => tree \in TreeOf(N) /\ TreeKept(trees[id], tree)
        PROVE  /\ trees' \in Seq(TreeOf(N)) /\ TreesKept
               /\ id \in 1..Len(trees) => trees'[id] = tree
    <2>1. CASE id \in 1..Len(trees)
      <3>1. trees' \in Seq(TreeOf(N)) /\ Len(trees') = Len(trees)
        BY <1>2, <2>1
      <3>2. \A i \in 1..Len(trees) : trees'[i] = IF i = id THEN tree ELSE trees[i]
        BY <1>2, <2>1
      <3>3. \A i \in 1..Len(trees) : TreeKept(trees[i], trees'[i])
        BY <1>2, <2>1, <3>2 DEF TreeKept
      <3> QED
        BY <2>1, <3>1, <3>2, <3>3 DEF TreesKept
    <2>2. CASE id \notin 1..Len(trees)
      <3>1. trees' = trees
        BY <1>2, <2>2
      <3> QED
        BY <2>2, <3>1 DEF TreesKept, TreeKept
    <2> QED
      BY <2>1, <2>2
  <1>3. CASE GivesUpCreate(k)
    <2>1. PICK id, tree : id = k.tree /\ tree = [trees[id] EXCEPT !.lateCreate = TRUE]
      OBVIOUS
    <2>2. trees' = [trees EXCEPT ![id] = tree] /\ k.op = "attach"
      BY <1>3, <2>1 DEF GivenUp, GivesUpCreate
    <2>3. id \in 1..Len(trees) =>
            tree \in TreeOf(N) /\ TreeKept(trees[id], tree) /\ tree.lateCreate
      BY ZenonT(60), <1>1, <2>1 DEF TreeOf, TreeKept
    <2> QED
      BY ZenonT(60), <1>2, <2>1, <2>2, <2>3
  <1>4. CASE ~GivesUpCreate(k) /\ GivesUpRemove(k)
    <2>1. PICK id, tree : id = k.tree /\ tree = [trees[id] EXCEPT !.lateRemove = TRUE]
      OBVIOUS
    <2>2. trees' = [trees EXCEPT ![id] = tree] /\ k.op = "record"
      BY <1>4, <2>1 DEF GivenUp, GivesUpRemove
    <2>3. id \in 1..Len(trees) =>
            tree \in TreeOf(N) /\ TreeKept(trees[id], tree) /\ tree.lateRemove
      BY ZenonT(60), <1>1, <2>1 DEF TreeOf, TreeKept
    <2> QED
      BY ZenonT(60), <1>2, <2>1, <2>2, <2>3
  <1>5. CASE ~GivesUpCreate(k) /\ ~GivesUpRemove(k)
    <2>1. trees' = trees
      BY <1>5 DEF GivenUp
    <2> QED
      BY <1>5, <2>1 DEF TreesKept, TreeKept, GivesUpCreate, GivesUpRemove
  <1> QED
    BY <1>3, <1>4, <1>5

\* A call ends before its next step: a command it still waited for is late.
LEMMA CallEndsKeeps ==
    ASSUME NEW N, NEW W, Shape(N, W), IInv, NEW c \in Callers, CallEnds(c)
    PROVE  IInv'
  <1>1. /\ UNCHANGED <<att, head, cleanups>> /\ Holds(c, Idle) /\ trees' = GivenUp(call[c])
        /\ lock' = IF lock = c THEN Nobody ELSE lock
    BY DEF CallEnds, JournalUnchanged, graph
  <1>2. Idle \in CallOf(N, W) /\ ~Cleaning(Idle) /\ Idle.op \notin LockedOps
        /\ Idle.op = "idle"
    BY CallShape, IdleHoldsNothing DEF Idle
  <1>3. CallBecomes(c, Idle)
    BY <1>1, <1>2, HoldsReleases
  <1>4. trees \in Seq(TreeOf(N)) /\ Histories(N)
    BY DEF Shape, Histories
  <1>5. /\ trees' \in Seq(TreeOf(N)) /\ TreesKept
        /\ \A id \in 1..Len(trees) :
             /\ call[c].op = "attach" /\ call[c].tree = id /\ trees[id].state = "sent" =>
                  trees'[id].lateCreate
             /\ call[c].op = "record" /\ call[c].tree = id /\ trees[id].state # "removed" =>
                  trees'[id].lateRemove
    <2>1. PICK k : k = call[c]
      OBVIOUS
    <2> QED
      BY <1>1, <1>4, <2>1, GivenUpKeeps
  <1>6. Histories(N)' /\ AttemptsKept
    BY <1>1, <1>4, HistoryKeptSame DEF Histories, AttemptsKept
  <1>7. Awaited'
    <2> SUFFICES ASSUME NEW id \in 1..Len(trees)
                 PROVE  /\ trees'[id].state = "sent" =>
                             \/ trees'[id].lateCreate
                             \/ \E d \in Callers : call'[d].op = "attach" /\ call'[d].tree = id
                        /\ trees'[id].asked /\ trees'[id].state # "removed" =>
                             \/ trees'[id].lateRemove
                             \/ call'[Cleaner].op = "record" /\ call'[Cleaner].tree = id
      BY <1>5 DEF Awaited, TreesKept
    <2>1. \A d \in Callers : d # c => call'[d] = call[d]
      BY <1>3 DEF CallBecomes, Shape
    <2>2. TreeKept(trees[id], trees'[id])
      BY <1>5 DEF TreesKept
    <2>3. ASSUME trees'[id].state = "sent", ~trees'[id].lateCreate
          PROVE  \E d \in Callers : call'[d].op = "attach" /\ call'[d].tree = id
      <3>1. trees[id].state = "sent" /\ ~trees[id].lateCreate
        BY <2>2, <2>3 DEF TreeKept
      <3>2. PICK d \in Callers : call[d].op = "attach" /\ call[d].tree = id
        BY <3>1 DEF IInv, Awaited
      <3>3. d # c
        BY <1>5, <2>3, <3>1, <3>2
      <3> QED
        BY <2>1, <3>2, <3>3
    <2>4. ASSUME trees'[id].asked, trees'[id].state # "removed", ~trees'[id].lateRemove
          PROVE  call'[Cleaner].op = "record" /\ call'[Cleaner].tree = id
      <3>1. trees[id].asked /\ trees[id].state # "removed" /\ ~trees[id].lateRemove
        BY <2>2, <2>4 DEF TreeKept
      <3>2. call[Cleaner].op = "record" /\ call[Cleaner].tree = id
        BY <3>1 DEF IInv, Awaited
      <3>3. Cleaner # c
        BY <1>5, <2>4, <3>1, <3>2
      <3> QED
        BY <2>1, <3>2, <3>3, CallersAssumption
    <2> QED
      BY <2>3, <2>4
  <1>8. PreparesOne(Idle)'
    BY DEF PreparesOne, Idle
  <1> QED
    BY <1>1, <1>2, <1>3, <1>5, <1>6, <1>7, <1>8, CallKeeps DEF IInv

-----------------------------------------------------------------------------
(* The invariant is inductive *)

\* The delivery begins without attempts and worktrees.
LEMMA InitLemma ==
    Init => IInv
  <1> SUFFICES ASSUME Init PROVE IInv
    OBVIOUS
  <1>1. PICK N, W : N = {NoName} /\ W = {0}
    OBVIOUS
  <1>2. /\ \A t \in Tasks : att[t] = <<>>
        /\ \A c \in Callers : call[c] = Idle
        /\ trees = <<>> /\ lock = Nobody /\ head = 0
        /\ \A id \in Trees : cleanups[id] = "none"
    BY DEF Init
  <1>3. 0 \in W /\ NoName \in N /\ \A c \in Callers : lock # c
    BY <1>1, <1>2, CallersAssumption
  <1>4. Idle \in CallOf(N, W) /\ PreparesOne(Idle) /\ ~Cleaning(Idle) /\ Idle.op \notin LockedOps
    BY <1>3, IdleHoldsNothing
  <1>5. Shape(N, W)
    <2>1. att \in [Tasks -> Seq(AttemptOf(N))] /\ \A t \in Tasks : Len(att[t]) <= MaxExec
      BY <1>2, SizesAssumption DEF Init
    <2>2. trees \in Seq(TreeOf(N)) /\ Len(trees) <= MaxTrees /\ head \in Nat
      BY <1>2, SizesAssumption
    <2>3. call \in [Callers -> CallOf(N, W)]
      BY <1>4 DEF Init
    <2>4. cleanups \in [Trees -> {"none", "planned", "removed", "retained"}]
      BY DEF Init
    <2> QED
      BY <1>2, <1>3, <1>4, <2>1, <2>2, <2>3, <2>4 DEF Shape
  <1>6. Prepares /\ Cleans
    BY <1>2, <1>4 DEF Prepares, Cleans
  <1>7. Owned
    BY <1>2 DEF Owned
  <1>8. Twinless /\ Awaited /\ Gone
    BY <1>2 DEF Twinless, Awaited, Gone
  <1> QED
    BY <1>5, <1>6, <1>7, <1>8 DEF IInv

\* Every step keeps the invariant.
LEMMA NextKeeps ==
    IInv /\ [Next]_vars => IInv'
  <1> SUFFICES ASSUME IInv, [Next]_vars
               PROVE  IInv'
    OBVIOUS
  <1>1. PICK N, W : Shape(N, W)
    BY DEF IInv
  <1>2. /\ Histories(N) /\ NoName \in N /\ head \in Nat /\ trees \in Seq(TreeOf(N))
        /\ Prepares /\ Owned /\ Twinless /\ Awaited /\ Gone /\ Cleans
    BY <1>1 DEF Shape, Histories, IInv
  <1>3. AttemptsKept \/ att' # att
    BY <1>2, HistoryKeptSame DEF AttemptsKept, Histories
  <1>4. TreesKept \/ trees' # trees
    BY DEF TreesKept, TreeKept
  <1>5. CASE GraphStep
    <2>1. Histories(N)' /\ AttemptsKept /\ head' \in Nat /\ UNCHANGED <<cleanups, trees, lock, call>>
      BY <1>2, <1>5, GraphStepKeeps
    <2> QED
      BY <1>1, <1>2, <1>4, <2>1, QuietKeeps
  <1>6. CASE OutsideStep
    <2>1. /\ trees' \in Seq(TreeOf(N)) /\ TreesKept
          /\ UNCHANGED <<att, head, cleanups, lock, call>>
      BY <1>2, <1>6, OutsideStepKeeps
    <2>2. Histories(N)'
      BY <1>2, <2>1 DEF Histories
    <2> QED
      BY <1>1, <1>2, <1>3, <2>1, <2>2, QuietKeeps
  <1>7. CASE Terminalize \/ UNCHANGED vars
    <2>1. UNCHANGED <<att, head, cleanups, trees, lock, call>>
      BY <1>7 DEF Terminalize, vars
    <2>2. Histories(N)'
      BY <1>2, <2>1 DEF Histories
    <2> QED
      BY <1>1, <1>2, <1>3, <1>4, <2>1, <2>2, QuietKeeps
  <1>8. CASE \E c \in Callers : PrepareStep(c) \/ CleanupStep(c) \/ CallEnds(c)
    <2>1. PICK c \in Callers : PrepareStep(c) \/ CleanupStep(c) \/ CallEnds(c)
      BY <1>8
    <2>2. CASE PrepareStep(c)
      BY <1>1, <2>2, PrepareTaskKeeps, PlanWorktreeKeeps, OpenWorktreeKeeps,
         CreateWorktreeKeeps, AttachWorktreeKeeps DEF PrepareStep
    <2>3. CASE CleanupStep(c)
      BY <1>1, <2>3, CleanupLoadKeeps, CleanupInspectKeeps, CleanupPersistKeeps,
         CleanupRetainKeeps, CleanupCheckKeeps, CleanupRemoveKeeps, CleanupRecordKeeps,
         CleanupReturnsKeeps DEF CleanupStep
    <2>4. CASE CallEnds(c)
      BY <1>1, <2>4, CallEndsKeeps
    <2> QED
      BY <2>1, <2>2, <2>3, <2>4
  <1> QED
    BY <1>5, <1>6, <1>7, <1>8 DEF Next

\* The invariant holds throughout.
LEMMA Invariance == Spec => []IInv
  BY InitLemma, NextKeeps, PTL DEF Spec

-----------------------------------------------------------------------------
(* The theorems *)

\* Batuta sends a second create command for an identity only if a call that sent
\* one had given up before its worktree was there, whatever the number of calls
\* and wherever they are cut off: reconcileTaskWorktree looks for the name and
\* creates it under one lock.
THEOREM OneWorktreePerIdentity == Spec => []NoTwins
  <1>1. IInv => NoTwins
    BY DEF IInv, Shape, Twinless, NoTwins
  <1> QED
    BY <1>1, Invariance, PTL

\* Journal and CompozyOS agree on what is gone: cleanupAttempt plans a removal in
\* the journal before it removes, and records it only of a worktree that is gone.
\* A worktree that Batuta removed is recorded as retained only if the call that
\* sent the remove command had given up before it was gone.
THEOREM CleanupNeverLies == Spec => []CleanupIsTruthful
  <1>1. IInv => CleanupIsTruthful
    <2> SUFFICES ASSUME IInv, NEW id \in DOMAIN trees
                 PROVE  /\ cleanups[id] = "removed" => trees[id].state = "removed"
                        /\ trees[id].removed =>
                             \/ cleanups[id] \in {"planned", "removed"}
                             \/ (cleanups[id] = "retained" /\ trees[id].lateRemove)
      BY DEF CleanupIsTruthful
    <2>1. PICK N, W : Shape(N, W)
      BY DEF IInv
    <2>2. id \in 1..Len(trees) /\ id \in Trees
      BY <2>1, SizesAssumption DEF Shape, Trees
    <2>3. cleanups[id] \in {"none", "planned", "removed", "retained"}
      BY <2>1, <2>2 DEF Shape
    <2> QED
      BY <2>2, <2>3 DEF IInv, Gone
  <1> QED
    BY <1>1, Invariance, PTL

\* What Batuta removed, at whatever time after it asked, belongs to tasks that are
\* integrated: the half of RemovalIsSafe that does not depend on what a worktree
\* holds.
THEOREM OnlyIntegratedTasksLoseWorktrees == Spec => []RemovedIsIntegrated
  <1>1. IInv => RemovedIsIntegrated
    <2> SUFFICES ASSUME IInv, NEW id \in DOMAIN trees, trees[id].removed,
                        NEW x \in Users(id)
                 PROVE  Integrated(x[1])
      BY DEF RemovedIsIntegrated
    <2>1. PICK N, W : Shape(N, W)
      BY DEF IInv
    <2>2. id \in 1..Len(trees)
      BY <2>1 DEF Shape
    <2>3. x[1] \in Tasks /\ x[2] \in 1..Len(att[x[1]]) /\ att[x[1]][x[2]].tree = id
      BY <2>1, SizesAssumption DEF Users, Shape
    <2>4. trees[id].name.task = x[1]
      BY <2>2, <2>3 DEF IInv, Owned
    <2> QED
      BY <2>2, <2>4 DEF IInv, Gone, IntegratedTasks
  <1> QED
    BY <1>1, Invariance, PTL

-----------------------------------------------------------------------------
(* What an attempt has to do with the worktree of its name *)

\* Only the latest attempt of a task prepares or runs, one without a worktree
\* prepares, each plans the worktree of its own run and has the one it planned.
AttemptPlans(a, latest) ==
    /\ a.state \in {"preparing", "running"} => latest
    /\ a.tree = 0 => a.state = "preparing"
    /\ a.intent # NoName => a.intent.exec = a.run
    /\ a.tree # 0 => a.intent = trees[a.tree].name
HistoryPlans(h) == \A e \in 1..Len(h) : AttemptPlans(h[e], e = Len(h))
AttemptsPlan == \A t \in Tasks : HistoryPlans(att[t])

\* Every worktree was planned by an attempt of its task, which has it or is
\* still to find it, unless it came too late for the call that asked for it.
PlannedIn(h, id) ==
    \E e \in 1..Len(h) : /\ h[e].intent = trees[id].name
                         /\ h[e].tree \in {0, id} \/ trees[id].lateCreate
TreesPlanned ==
    \A id \in 1..Len(trees) : /\ trees[id].name.task \in Tasks
                              /\ PlannedIn(att[trees[id].name.task], id)

\* A call that is about to create or attach works on the plan it found, and on
\* the one worktree of that name that was not late.
KnowsPlan(k) ==
    k.op \in {"create", "attach"} =>
        /\ att[k.task][k.exec].intent = k.name
        /\ k.op = "create" => att[k.task][k.exec].tree = 0
        /\ k.op = "attach" /\ att[k.task][k.exec].tree # k.tree =>
             \A id \in 1..Len(trees) :
                 id # k.tree /\ trees[id].name = k.name => trees[id].lateCreate
PlansKnown == \A c \in Callers : KnowsPlan(call[c])

PlanInv == IInv /\ AttemptsPlan /\ TreesPlanned /\ PlansKnown

\* What the rest of the delivery does to the attempts h of a task: it adds the
\* first one, or closes the latest one and adds another or not, which is new or
\* continues the run of the one it closes.
Fresh(a) == a.state = "preparing" /\ a.tree = 0 /\ a.intent = NoName
Over(a, b) == /\ b.state \notin {"preparing", "running"}
              /\ b.run = a.run /\ b.intent = a.intent /\ b.tree = a.tree
GoesOn(h, s) ==
    \/ s = h
    \/ h = <<>> /\ Len(s) = 1 /\ Fresh(s[1])
    \/ /\ h # <<>> /\ h[Len(h)].state \in {"running", "candidate"}
       /\ Len(s) \in {Len(h), Len(h) + 1}
       /\ \A e \in 1..Len(h) : e # Len(h) => s[e] = h[e]
       /\ Over(h[Len(h)], s[Len(h)])
       /\ Len(s) = Len(h) + 1 => \/ Fresh(s[Len(s)])
                                 \/ s[Len(s)] = h[Len(h)] /\ h[Len(h)].state = "running"

\* The latest attempt becomes a, and b is appended or not.
LEMMA LatestGoesOn ==
    ASSUME NEW A, NEW h \in Seq(A), h # <<>>, h[Len(h)].state \in {"running", "candidate"},
           NEW a, Over(h[Len(h)], a), NEW b,
           Fresh(b) \/ (b = h[Len(h)] /\ h[Len(h)].state = "running")
    PROVE  LET s == [h EXCEPT ![Len(h)] = a] IN GoesOn(h, s) /\ GoesOn(h, Append(s, b))
  <1> DEFINE n == Len(h)
             s == [h EXCEPT ![n] = a]
             r == Append(s, b)
  <1>1. n \in Nat /\ n # 0 /\ n \in 1..n /\ DOMAIN h = 1..n
    OBVIOUS
  <1>2. s \in Seq(A \cup {a}) /\ Len(s) = n /\ s[n] = a
    BY <1>1
  <1>3. \A e \in 1..n : e # n => s[e] = h[e]
    BY <1>1
  <1> HIDE DEF s
  <1>4. Len(r) = n + 1 /\ r[n + 1] = b /\ \A e \in 1..n : r[e] = s[e]
    BY <1>1, <1>2
  <1> HIDE DEF r
  <1>5. Len(s) # n + 1
    <2>1. \A m \in Nat : m # m + 1
      OBVIOUS
    <2> HIDE DEF n
    <2> QED
      BY <1>1, <1>2, <2>1
  <1>6. GoesOn(h, s)
    BY <1>1, <1>2, <1>3, <1>5 DEF GoesOn
  <1>7. GoesOn(h, r)
    <2>1. r[n] = a /\ r[Len(r)] = b /\ Len(r) = Len(h) + 1
      BY <1>1, <1>2, <1>4
    <2>2. \A e \in 1..n : e # n => r[e] = h[e]
      BY <1>3, <1>4
    <2> QED
      BY <2>1, <2>2 DEF GoesOn
  <1> QED
    BY <1>6, <1>7 DEF r, s

\* One task's attempts go on.
LEMMA OneGoesOn ==
    ASSUME NEW N, Histories(N), NEW t \in Tasks, NEW s, GoesOn(att[t], s),
           att' = [att EXCEPT ![t] = s]
    PROVE  \A u \in Tasks : GoesOn(att[u], att'[u])
  <1>1. \A u \in Tasks : att'[u] = IF u = t THEN s ELSE att[u]
    BY DEF Histories
  <1> QED
    BY <1>1 DEF GoesOn

\* The latest attempt is closed in state x, and a new one follows or not.
LEMMA ContinuesGoesOn ==
    ASSUME NEW N, Histories(N), NEW t \in Tasks, att[t] # <<>>,
           Last(att[t]).state \in {"running", "candidate"},
           NEW x, x \notin {"preparing", "running"}, NEW retry \in BOOLEAN,
           Continues(t, Closes(t, x), retry)
    PROVE  \A u \in Tasks : GoesOn(att[u], att'[u])
  <1> DEFINE h == att[t]
             a == [h[Len(h)] EXCEPT !.state = x]
             s == [h EXCEPT ![Len(h)] = a]
             b == NewAttempt(Len(s) + 1)
  <1>1. h \in Seq(AttemptOf(N)) /\ h[Len(h)] \in AttemptOf(N)
    BY DEF Histories
  <1>2. h[Len(h)].state \in {"running", "candidate"}
    BY DEF Last
  <1>3. Over(h[Len(h)], a)
    BY <1>1 DEF Over, AttemptOf
  <1>4. Fresh(b)
    BY DEF Fresh, NewAttempt
  <1>5. Closes(t, x) = s
    BY DEF Closes
  <1>6. att' = [att EXCEPT ![t] = IF retry THEN Append(s, b) ELSE s]
    BY <1>5 DEF Continues
  <1>7. GoesOn(h, s) /\ GoesOn(h, Append(s, b))
    <2> HIDE DEF a, b
    <2> QED
      BY <1>1, <1>2, <1>3, <1>4, LatestGoesOn
  <1>8. GoesOn(h, IF retry THEN Append(s, b) ELSE s)
    BY <1>7
  <1> HIDE DEF s, b
  <1> QED
    BY <1>6, <1>8, OneGoesOn

\* The rest of the delivery moves on with the attempts, when nobody is in a
\* locked section.
LEMMA GraphGoesOn ==
    ASSUME NEW N, Histories(N), GraphStep
    PROVE  /\ \A t \in Tasks : GoesOn(att[t], att'[t])
           /\ lock = Nobody
  <1>1. ASSUME NEW t \in Tasks, Admits(t)
        PROVE  \A u \in Tasks : GoesOn(att[u], att'[u])
    <2> DEFINE r == Append(<<>>, NewAttempt(1))
    <2>1. att[t] = <<>> /\ att' = [att EXCEPT ![t] = r]
      BY <1>1 DEF Admits, Continues
    <2>2. Len(r) = 1 /\ r[1] = NewAttempt(1)
      OBVIOUS
    <2> HIDE DEF r
    <2>3. GoesOn(att[t], r)
      BY <2>1, <2>2 DEF GoesOn, Fresh, NewAttempt
    <2> QED
      BY <2>1, <2>3, OneGoesOn
  <1>2. ASSUME NEW t \in Tasks, NEW retry \in BOOLEAN, Fails(t, retry)
        PROVE  \A u \in Tasks : GoesOn(att[u], att'[u])
    BY <1>2, ContinuesGoesOn DEF Fails
  <1>3. ASSUME NEW t \in Tasks, Answers(t)
        PROVE  \A u \in Tasks : GoesOn(att[u], att'[u])
    <2> DEFINE h == att[t]
               a == [h[Len(h)] EXCEPT !.state = "answered"]
               s == [h EXCEPT ![Len(h)] = a]
    <2>1. /\ h \in Seq(AttemptOf(N)) /\ h # <<>> /\ h[Len(h)] \in AttemptOf(N)
          /\ h[Len(h)].state = "running"
          /\ att' = [att EXCEPT ![t] = Append(s, h[Len(h)])]
      BY <1>3 DEF Answers, Closes, Last, Histories
    <2>2. Over(h[Len(h)], a)
      BY <2>1 DEF Over, AttemptOf
    <2>3. GoesOn(h, Append(s, h[Len(h)]))
      <3> HIDE DEF a, h
      <3> QED
        BY <2>1, <2>2, LatestGoesOn
    <2> HIDE DEF s
    <2> QED
      BY <2>1, <2>3, OneGoesOn
  <1>4. ASSUME NEW t \in Tasks, BecomesCandidate(t)
        PROVE  \A u \in Tasks : GoesOn(att[u], att'[u])
    <2> DEFINE h == att[t]
               a == [h[Len(h)] EXCEPT !.state = "candidate", !.commit = TRUE]
               s == [h EXCEPT ![Len(h)] = a]
    <2>1. /\ h \in Seq(AttemptOf(N)) /\ h # <<>> /\ h[Len(h)] \in AttemptOf(N)
          /\ h[Len(h)].state = "running"
          /\ att' = [att EXCEPT ![t] = s]
      BY <1>4 DEF BecomesCandidate, Last, Histories
    <2>2. Over(h[Len(h)], a)
      BY <2>1 DEF Over, AttemptOf
    <2>3. GoesOn(h, s)
      <3> HIDE DEF a, h
      <3> QED
        BY <2>1, <2>2, LatestGoesOn
    <2> HIDE DEF s
    <2> QED
      BY <2>1, <2>3, OneGoesOn
  <1>5. ASSUME NEW t \in Tasks, Integrates(t)
        PROVE  \A u \in Tasks : GoesOn(att[u], att'[u])
    <2>1. Continues(t, Closes(t, "integrated"), FALSE)
      BY <1>5 DEF Integrates, Continues
    <2> QED
      BY <1>5, <2>1, ContinuesGoesOn DEF Integrates
  <1>6. ASSUME NEW t \in Tasks, NEW retry \in BOOLEAN, Conflicts(t, retry)
        PROVE  \A u \in Tasks : GoesOn(att[u], att'[u])
    <2> DEFINE x == IF retry THEN "conflicted" ELSE "blocked"
    <2>1. /\ att[t] # <<>> /\ Last(att[t]).state = "candidate"
          /\ Continues(t, Closes(t, x), retry)
      BY <1>6 DEF Conflicts
    <2>2. x \notin {"preparing", "running"}
      OBVIOUS
    <2> HIDE DEF x
    <2> QED
      BY <2>1, <2>2, ContinuesGoesOn
  <1>7. ASSUME OthersIntegrate
        PROVE  \A u \in Tasks : GoesOn(att[u], att'[u])
    BY <1>7 DEF OthersIntegrate, GoesOn
  <1>8. lock = Nobody
    BY DEF GraphStep, Admits, Fails, Answers, BecomesCandidate, Integrates, Conflicts,
           OthersIntegrate, Free
  <1> QED
    BY <1>1, <1>2, <1>3, <1>4, <1>5, <1>6, <1>7, <1>8 DEF GraphStep


\* The rest of the delivery keeps what the attempts planned.
LEMMA GoesOnPlans ==
    ASSUME NEW A, NEW h \in Seq(A), NEW s \in Seq(A), HistoryPlans(h), GoesOn(h, s)
    PROVE  HistoryPlans(s) /\ \A id : PlannedIn(h, id) => PlannedIn(s, id)
  <1>1. CASE s = h
    BY <1>1
  <1>2. CASE h = <<>> /\ Len(s) = 1 /\ Fresh(s[1])
    BY <1>2 DEF HistoryPlans, PlannedIn, AttemptPlans, Fresh
  <1>3. CASE /\ h # <<>> /\ h[Len(h)].state \in {"running", "candidate"}
             /\ Len(s) \in {Len(h), Len(h) + 1}
             /\ \A e \in 1..Len(h) : e # Len(h) => s[e] = h[e]
             /\ Over(h[Len(h)], s[Len(h)])
             /\ Len(s) = Len(h) + 1 => \/ Fresh(s[Len(s)])
                                       \/ s[Len(s)] = h[Len(h)] /\ h[Len(h)].state = "running"
    <2> DEFINE n == Len(h)
    <2>1. n \in Nat /\ n \in 1..n /\ 1..n \subseteq 1..Len(s) /\ n <= Len(s)
          /\ \A e \in 1..Len(s) : e \in 1..n \/ (e = n + 1 /\ e = Len(s))
      BY <1>3
    <2>2. AttemptPlans(h[n], TRUE) /\ h[n].state \in {"running", "candidate"}
      BY <1>3, <2>1 DEF HistoryPlans
    <2>3. AttemptPlans(s[n], n = Len(s))
      BY <1>3, <2>2 DEF AttemptPlans, Over
    <2>4. \A e \in 1..n : e # n => AttemptPlans(s[e], e = Len(s))
      <3> SUFFICES ASSUME NEW e \in 1..n, e # n
                   PROVE  AttemptPlans(s[e], e = Len(s))
        OBVIOUS
      <3>1. s[e] = h[e] /\ e # Len(s)
        BY <1>3, <2>1
      <3>2. AttemptPlans(h[e], e = n)
        BY DEF HistoryPlans
      <3> QED
        BY <3>1, <3>2 DEF AttemptPlans
    <2>5. Len(s) = n + 1 => AttemptPlans(s[n + 1], TRUE)
      BY <1>3, <2>2 DEF AttemptPlans, Fresh
    <2>6. HistoryPlans(s)
      <3> SUFFICES ASSUME NEW e \in 1..Len(s)
                   PROVE  AttemptPlans(s[e], e = Len(s))
        BY DEF HistoryPlans
      <3>1. CASE e \in 1..n
        BY <2>3, <2>4, <3>1
      <3>2. CASE e = n + 1 /\ e = Len(s)
        BY <2>5, <3>2 DEF AttemptPlans
      <3> QED
        BY <2>1, <3>1, <3>2
    <2>7. \A e \in 1..n : s[e].intent = h[e].intent /\ s[e].tree = h[e].tree
      BY <1>3 DEF Over
    <2>8. \A id : PlannedIn(h, id) => PlannedIn(s, id)
      BY <2>1, <2>7 DEF PlannedIn
    <2> QED
      BY <2>6, <2>8
  <1> QED
    BY <1>1, <1>2, <1>3 DEF GoesOn

\* The worktrees stay, with their names, and those that are late.
NamesStay == /\ Len(trees') = Len(trees)
             /\ \A id \in 1..Len(trees) :
                  /\ trees'[id].name = trees[id].name
                  /\ trees[id].lateCreate => trees'[id].lateCreate

\* So do the plans, when the attempts go on.
LEMMA PlansStay ==
    ASSUME NEW N, Histories(N), Histories(N)', Len(trees) \in Nat, NamesStay, Owned',
           AttemptsPlan, TreesPlanned, \A t \in Tasks : GoesOn(att[t], att'[t])
    PROVE  AttemptsPlan' /\ TreesPlanned'
  <1>1. ASSUME NEW t \in Tasks
        PROVE  HistoryPlans(att'[t]) /\ \A id : PlannedIn(att[t], id) => PlannedIn(att'[t], id)
    <2>1. att[t] \in Seq(AttemptOf(N)) /\ att'[t] \in Seq(AttemptOf(N)) /\ HistoryPlans(att[t])
      BY DEF Histories, AttemptsPlan
    <2> QED
      BY <2>1, GoesOnPlans
  <1>2. AttemptsPlan'
    <2> SUFFICES ASSUME NEW t \in Tasks, NEW e \in 1..Len(att'[t])
                 PROVE  AttemptPlans(att[t][e], e = Len(att[t]))'
      BY DEF AttemptsPlan, HistoryPlans
    <2>1. AttemptPlans(att'[t][e], e = Len(att'[t]))
      BY <1>1 DEF HistoryPlans
    <2>2. att'[t][e].tree # 0 => att'[t][e].tree \in 1..Len(trees)
      BY DEF Owned, NamesStay
    <2> QED
      BY <2>1, <2>2 DEF AttemptPlans, NamesStay
  <1>3. TreesPlanned'
    <2> SUFFICES ASSUME NEW id \in 1..Len(trees)
                 PROVE  /\ trees[id].name.task \in Tasks
                        /\ PlannedIn(att[trees[id].name.task], id)'
      BY DEF TreesPlanned, NamesStay
    <2>1. PICK t : t = trees[id].name.task
      OBVIOUS
    <2>2. t \in Tasks /\ PlannedIn(att[t], id)
      BY <2>1 DEF TreesPlanned
    <2>3. PlannedIn(att'[t], id)
      BY <1>1, <2>2
    <2>4. trees'[id].name = trees[id].name /\ (trees[id].lateCreate => trees'[id].lateCreate)
      BY DEF NamesStay
    <2>5. PlannedIn(att[t], id)'
      BY <2>3, <2>4 DEF PlannedIn
    <2> QED
      BY <2>1, <2>2, <2>4, <2>5
  <1> QED
    BY <1>2, <1>3

\* One call takes a step: the others hold what they held, and only the holder of
\* the lock writes an attempt or names a worktree while another one is about to.
CallSteps(c) ==
    /\ \A d \in Callers : d # c => call'[d] = call[d]
    /\ \/ att' = att /\ NamesStay
       \/ \A d \in Callers : d # c => call[d].op \notin {"create", "attach"}

\* What a call knows of its plan stays known while attempts and names stay.
LEMMA KnowsPlanStays ==
    ASSUME NamesStay, att' = att, NEW k, KnowsPlan(k), NEW c, call'[c] = k
    PROVE  KnowsPlan(call[c])'
  BY DEF KnowsPlan, NamesStay

\* The plans of the calls are known if that of the call that steps is.
LEMMA OthersKnow ==
    ASSUME NEW c \in Callers, PlansKnown, CallSteps(c), KnowsPlan(call[c])'
    PROVE  PlansKnown'
  <1> SUFFICES ASSUME NEW d \in Callers, d # c
               PROVE  KnowsPlan(call[d])'
    BY DEF PlansKnown
  <1>1. PICK k : k = call[d] /\ call'[d] = k /\ KnowsPlan(k)
    BY DEF CallSteps, PlansKnown
  <1>2. CASE att' = att /\ NamesStay
    BY <1>1, <1>2, KnowsPlanStays
  <1>3. CASE k.op \notin {"create", "attach"}
    BY <1>1, <1>3 DEF KnowsPlan
  <1> QED
    BY <1>1, <1>2, <1>3 DEF CallSteps

\* A call that is not about to create or attach has nothing to know.
LEMMA CallKnows ==
    ASSUME NEW N, NEW W, Shape(N, W), NEW c \in Callers, NEW k, Holds(c, k),
           (att' = att /\ NamesStay) \/ lock \in {Nobody, c}
    PROVE  /\ CallSteps(c) /\ call'[c] = k
           /\ k.op \notin {"create", "attach"} => KnowsPlan(call[c])'
  <1>1. call'[c] = k /\ \A d \in Callers : d # c => call'[d] = call[d]
    BY DEF Shape, Holds
  <1>2. lock \in {Nobody, c} => \A d \in Callers : d # c => call[d].op \notin {"create", "attach"}
    BY CallersAssumption DEF Shape, LockedOps
  <1>3. k.op \notin {"create", "attach"} => KnowsPlan(call[c])'
    BY <1>1 DEF KnowsPlan
  <1> QED
    BY <1>1, <1>2, <1>3 DEF CallSteps

-----------------------------------------------------------------------------
(* The plans are kept by every step *)

\* The plans hold when nothing was begun.
LEMMA PlanInitLemma ==
    Init => PlanInv
  <1> SUFFICES ASSUME Init PROVE PlanInv
    OBVIOUS
  <1>1. /\ \A t \in Tasks : att[t] = <<>>
        /\ trees = <<>>
        /\ \A c \in Callers : call[c].op = "idle"
    BY DEF Init, Idle
  <1>2. AttemptsPlan /\ TreesPlanned /\ PlansKnown
    BY <1>1 DEF AttemptsPlan, HistoryPlans, TreesPlanned, PlansKnown, KnowsPlan
  <1> QED
    BY <1>2, InitLemma DEF PlanInv

\* A worktree keeps its name in whatever state it is.
LEMMA NamesOfTreesKept ==
    ASSUME TreesKept
    PROVE  NamesStay
  BY DEF TreesKept, TreeKept, NamesStay

\* A task gets its call, which finds no worktree yet.
LEMMA PrepareTaskPlans ==
    ASSUME NEW N, NEW W, Shape(N, W), PlanInv, NEW c \in Callers, NEW t \in Tasks,
           PrepareTask(c, t)
    PROVE  /\ att' = att /\ trees' = trees
           /\ PlansKnown'
  <1>1. PICK k : k = [Idle EXCEPT !.op = "plan", !.task = t, !.wave = WaveOf(t, Len(att[t]))]
    OBVIOUS
  <1>2. Holds(c, k) /\ k.op = "plan" /\ UNCHANGED <<att, trees>>
    BY <1>1 DEF PrepareTask, JournalUnchanged, OutsideUnchanged, graph, Idle
  <1>3. NamesStay
    BY <1>2 DEF NamesStay
  <1>4. CallSteps(c) /\ KnowsPlan(call[c])'
    BY <1>2, <1>3, CallKnows
  <1> QED
    BY <1>2, <1>4, OthersKnow DEF PlanInv

\* A call plans the worktree of the run of its attempt, which had planned it
\* before or had none.
LEMMA PlanWorktreePlans ==
    ASSUME NEW N, NEW W, Shape(N, W), PlanInv, NEW c \in Callers, PlanWorktree(c)
    PROVE  AttemptsPlan' /\ TreesPlanned' /\ PlansKnown'
  <1>1. PICK t, e, name, a, b, s, k :
           /\ t = call[c].task /\ e = Len(att[t]) /\ name = Identity(call[c].wave, t, att[t][e].run)
           /\ a = att[t][e]
           /\ b = [a EXCEPT !.intent = name]
           /\ s = [att[t] EXCEPT ![e] = b]
           /\ k = [call[c] EXCEPT !.op = "inspect", !.exec = e, !.name = name]
    OBVIOUS
  <1>2. t \in Tasks /\ att[t] # <<>>
    <2>1. PreparesOne(call[c]) /\ call[c].op = "plan"
      BY DEF PlanWorktree, PlanInv, IInv, Prepares
    <2> QED
      BY <1>1, <2>1 DEF PreparesOne
  <1>3. /\ a.intent = name \/ (a.intent = NoName /\ a.state = "preparing")
        /\ att' = [att EXCEPT ![t] = s]
        /\ Holds(c, k) /\ lock = Nobody /\ trees' = trees
    BY <1>1 DEF PlanWorktree, OutsideUnchanged, Free
  <1>4. /\ att[t] \in Seq(AttemptOf(N)) /\ e \in 1..Len(att[t]) /\ e = Len(att[t])
        /\ a \in AttemptOf(N) /\ DOMAIN att = Tasks
    <2>1. att[t] \in Seq(AttemptOf(N)) /\ DOMAIN att = Tasks
      BY <1>2 DEF Shape
    <2>2. e = Len(att[t]) /\ a = att[t][e]
      BY <1>1
    <2>3. e \in 1..Len(att[t])
      BY <1>2, <2>1, <2>2
    <2>4. a \in AttemptOf(N)
      BY <2>1, <2>2, <2>3
    <2> QED
      BY <2>1, <2>2, <2>3, <2>4
  <1>5. /\ b.tree = a.tree /\ b.state = a.state /\ b.run = a.run /\ b.intent = name
        /\ name.exec = a.run
    <2>1. name.exec = a.run
      BY <1>1 DEF Identity
    <2> QED
      BY <1>1, <1>4, <2>1 DEF AttemptOf
  <1>6. /\ Len(s) = Len(att[t]) /\ s[e] = b
        /\ \A f \in 1..Len(att[t]) : f # e => s[f] = att[t][f]
    <2>1. s = [att[t] EXCEPT ![e] = b]
      BY <1>1
    <2>2. att[t] \in Seq(AttemptOf(N) \cup {b})
      BY <1>4
    <2> QED
      BY <1>4, <2>1, <2>2
  <1>7. \A u \in Tasks : att'[u] = IF u = t THEN s ELSE att[u]
    BY <1>2, <1>3, <1>4
  <1>8. a.tree # 0 => a.intent = name
    <2>1. ASSUME a.tree # 0, a.intent = NoName
          PROVE  FALSE
      <3>1. a.intent = trees[a.tree].name /\ trees[a.tree].name.task = t
        BY ZenonT(60), <1>1, <1>2, <1>4, <2>1 DEF PlanInv, IInv, Owned, AttemptsPlan, HistoryPlans, AttemptPlans
      <3>2. t # 0
        BY <1>2 DEF Tasks
      <3> QED
        BY <2>1, <3>1, <3>2 DEF NoName
    <2> QED
      BY <1>3, <2>1
  <1>9. HistoryPlans(s)
    <2>1. \A f \in 1..Len(att[t]) : AttemptPlans(att[t][f], f = Len(att[t]))
      BY <1>2 DEF PlanInv, AttemptsPlan, HistoryPlans
    <2>2. AttemptPlans(a, TRUE)
      BY <1>1, <1>4, <2>1
    <2>3. AttemptPlans(b, TRUE)
      BY <1>5, <1>8, <2>2 DEF AttemptPlans
    <2>4. \A f \in 1..Len(s) : AttemptPlans(s[f], f = Len(s))
      BY <1>4, <1>6, <2>1, <2>3
    <2> QED
      BY <2>4 DEF HistoryPlans
  <1>10. AttemptsPlan'
    <2>1. \A u \in Tasks : HistoryPlans(att'[u])
      BY <1>7, <1>9 DEF PlanInv, AttemptsPlan
    <2> QED
      BY <1>3, <2>1 DEF AttemptsPlan, HistoryPlans, AttemptPlans
  <1>11. TreesPlanned'
    <2> SUFFICES ASSUME NEW id \in 1..Len(trees)
                 PROVE  /\ trees[id].name.task \in Tasks
                        /\ PlannedIn(att[trees[id].name.task], id)'
      BY <1>3 DEF TreesPlanned
    <2>1. PICK u : u = trees[id].name.task
      OBVIOUS
    <2>2. u \in Tasks /\ PlannedIn(att[u], id)
      BY <2>1 DEF PlanInv, TreesPlanned
    <2>3. CASE u # t
      <3>1. PlannedIn(att[u], id)'
        BY <1>3, <1>7, <2>2, <2>3 DEF PlannedIn
      <3> QED
        BY <1>3, <2>1, <2>2, <3>1
    <2>4. CASE u = t
      <3>1. PICK f \in 1..Len(att[t]) : /\ att[t][f].intent = trees[id].name
                                        /\ att[t][f].tree \in {0, id} \/ trees[id].lateCreate
        BY <2>2, <2>4 DEF PlannedIn
      <3>2. /\ att'[t][f].intent = trees[id].name
            /\ att'[t][f].tree \in {0, id} \/ trees[id].lateCreate
        <4>1. CASE f = e
          <5>1. a.intent = trees[id].name /\ (a.tree \in {0, id} \/ trees[id].lateCreate)
            BY <1>1, <3>1, <4>1
          <5>2. a.intent # NoName
            <6>1. NoName.task = 0 /\ u # 0
              BY <2>2 DEF NoName, Tasks
            <6> QED
              BY <2>1, <5>1, <6>1
          <5>3. b.intent = a.intent
            BY <1>3, <1>5, <5>2
          <5> QED
            BY <1>2, <1>5, <1>6, <1>7, <4>1, <5>1, <5>3
        <4>2. CASE f # e
          BY <1>2, <1>6, <1>7, <3>1, <4>2
        <4> QED
          BY <4>1, <4>2
      <3>3. PlannedIn(att[t], id)'
        BY <1>2, <1>3, <1>6, <1>7, <3>1, <3>2 DEF PlannedIn
      <3> QED
        BY <1>3, <2>1, <2>2, <2>4, <3>3
    <2> QED
      BY <2>3, <2>4
  <1>12. PlansKnown'
    <2>1. k.op = "inspect"
      <3>1. call[c] \in CallOf(N, W)
        BY CallShape
      <3> QED
        BY <1>1, <3>1 DEF CallOf
    <2>2. CallSteps(c) /\ KnowsPlan(call[c])'
      BY <1>3, <2>1, CallKnows
    <2> QED
      BY <2>2, OthersKnow DEF PlanInv
  <1> QED
    BY <1>10, <1>11, <1>12

\* A call that found no worktree of the planned name will create it.
LEMMA OpenWorktreePlans ==
    ASSUME NEW N, NEW W, Shape(N, W), PlanInv, NEW c \in Callers, OpenWorktree(c)
    PROVE  att' = att /\ trees' = trees /\ PlansKnown'
  <1>1. PICK q, a, found : /\ q = call[c] /\ a = att[q.task][q.exec]
                           /\ found = FindWorktree(a.tree, q.name)
    OBVIOUS
  <1>2. /\ q \in CallOf(N, W) /\ a.intent = q.name /\ lock = Nobody
        /\ UNCHANGED <<att, trees>>
    BY <1>1, CallShape DEF OpenWorktree, JournalUnchanged, OutsideUnchanged, graph, Free
  <1>3. CASE found = {} /\ Holds(c, [q EXCEPT !.op = "create"])
    <2>1. PICK k : k = [q EXCEPT !.op = "create"]
      OBVIOUS
    <2>2. k.op = "create" /\ k.task = q.task /\ k.exec = q.exec /\ k.name = q.name
      BY <1>2, <2>1 DEF CallOf
    <2>3. CallSteps(c) /\ call'[c] = k
      BY <1>2, <1>3, <2>1, CallKnows
    <2>4. a.tree = 0
      BY <1>1, <1>3 DEF FindWorktree
    <2>5. KnowsPlan(call[c])'
      BY <1>1, <1>2, <2>2, <2>3, <2>4 DEF KnowsPlan
    <2> QED
      BY <1>2, <2>3, <2>5, OthersKnow DEF PlanInv
  <1>4. CASE \E id \in Trees : found = {id} /\ Holds(c, [q EXCEPT !.op = "attach", !.tree = id])
    <2>1. PICK id \in Trees : found = {id} /\ Holds(c, [q EXCEPT !.op = "attach", !.tree = id])
      BY <1>4
    <2>2. PICK k : k = [q EXCEPT !.op = "attach", !.tree = id]
      OBVIOUS
    <2>3. k.op = "attach" /\ k.task = q.task /\ k.exec = q.exec /\ k.name = q.name /\ k.tree = id
      BY <1>2, <2>2 DEF CallOf
    <2>4. CallSteps(c) /\ call'[c] = k
      BY <1>2, <2>1, <2>2, CallKnows
    <2>6. ASSUME a.tree # id, NEW j \in 1..Len(trees), j # id, trees[j].name = q.name
          PROVE  trees[j].lateCreate
      <3>1. Named(q.name) = {id}
        BY <1>1, <2>1, <2>6 DEF FindWorktree
      <3>2. DOMAIN trees = 1..Len(trees)
        BY DEF Shape
      <3>3. trees[j].state = "sent"
        BY <2>6, <3>1, <3>2 DEF Named
      <3> QED
        BY <1>2, <3>3, UnlockedIsLate DEF PlanInv, IInv
    <2>5. KnowsPlan(call[c])'
      BY <1>1, <1>2, <2>3, <2>4, <2>6 DEF KnowsPlan
    <2> QED
      BY <1>2, <2>4, <2>5, OthersKnow DEF PlanInv
  <1> QED
    BY <1>1, <1>3, <1>4 DEF OpenWorktree

\* A new worktree was planned by the attempt that creates it.
LEMMA CreateWorktreePlans ==
    ASSUME NEW N, NEW W, Shape(N, W), PlanInv, NEW c \in Callers, CreateWorktree(c)
    PROVE  AttemptsPlan' /\ TreesPlanned' /\ PlansKnown'
  <1>1. PICK q, n, k, tree :
           /\ q = call[c] /\ n = Len(trees) + 1
           /\ k = [q EXCEPT !.op = "attach", !.tree = n]
           /\ tree.name = q.name /\ tree \in TreeOf(N)
           /\ trees' = Append(trees, tree)
    <2>1. PICK tree : tree = SentTree(call[c].name)
      OBVIOUS
    <2>2. call[c].name \in N
      BY CallShape DEF CallOf
    <2>3. tree.name = call[c].name /\ tree \in TreeOf(N)
      BY <2>1, <2>2 DEF SentTree, TreeOf, TreeStates
    <2> QED
      BY <2>1, <2>3 DEF CreateWorktree
  <1>2. /\ q \in CallOf(N, W) /\ q.op = "create" /\ PreparesOne(q) /\ KnowsPlan(q)
        /\ Holds(c, k) /\ att' = att /\ lock = c
    BY <1>1, CallShape DEF CreateWorktree, PlanInv, IInv, Prepares, PlansKnown,
                           JournalUnchanged, graph, LockedOps
  <1>3. trees \in Seq(TreeOf(N)) /\ Len(trees) \in Nat
    BY DEF Shape
  <1>4. /\ Len(trees') = n /\ trees'[n] = tree
        /\ \A id \in 1..Len(trees) : trees'[id] = trees[id]
        /\ 1..n = (1..Len(trees)) \cup {n}
    BY <1>1, <1>3
  <1>5. /\ q.task \in Tasks /\ q.name.task = q.task /\ q.exec \in 1..Len(att[q.task])
        /\ att[q.task][q.exec].intent = q.name /\ att[q.task][q.exec].tree = 0
    BY <1>2 DEF PreparesOne, KnowsPlan
  <1>6. AttemptsPlan'
    <2> SUFFICES ASSUME NEW t \in Tasks, NEW e \in 1..Len(att[t])
                 PROVE  AttemptPlans(att[t][e], e = Len(att[t]))'
      BY <1>2 DEF AttemptsPlan, HistoryPlans
    <2>1. AttemptPlans(att[t][e], e = Len(att[t]))
      BY DEF PlanInv, AttemptsPlan, HistoryPlans
    <2>2. att[t][e].tree # 0 => att[t][e].tree \in 1..Len(trees)
      BY DEF PlanInv, IInv, Owned
    <2> QED
      BY <1>2, <1>4, <2>1, <2>2 DEF AttemptPlans
  <1>7. TreesPlanned'
    <2> SUFFICES ASSUME NEW id \in 1..n
                 PROVE  /\ trees'[id].name.task \in Tasks
                        /\ PlannedIn(att[trees[id].name.task], id)'
      BY <1>4 DEF TreesPlanned
    <2>1. CASE id = n
      <3>1. trees'[id].name = q.name
        BY <1>1, <1>4, <2>1
      <3>2. PlannedIn(att[q.task], id)'
        BY <1>2, <1>5, <3>1 DEF PlannedIn
      <3> QED
        BY <1>5, <3>1, <3>2
    <2>2. CASE id \in 1..Len(trees)
      <3>1. PICK u : u = trees[id].name.task
        OBVIOUS
      <3>2. u \in Tasks /\ PlannedIn(att[u], id)
        BY <2>2, <3>1 DEF PlanInv, TreesPlanned
      <3>3. trees'[id] = trees[id]
        BY <1>4, <2>2
      <3>4. PlannedIn(att[u], id)'
        BY <1>2, <3>2, <3>3 DEF PlannedIn
      <3> QED
        BY <3>1, <3>2, <3>3, <3>4
    <2> QED
      BY <1>4, <2>1, <2>2
  <1>8. PlansKnown'
    <2>1. k.op = "attach" /\ k.task = q.task /\ k.exec = q.exec /\ k.name = q.name /\ k.tree = n
      BY <1>1, <1>2 DEF CallOf
    <2>2. CallSteps(c) /\ call'[c] = k
      BY <1>2, CallKnows
    <2>4. \A id \in 1..n : id # n /\ trees'[id].name = q.name => trees'[id].lateCreate
      BY <1>2, <1>4 DEF PreparesOne
    <2>3. KnowsPlan(call[c])'
      BY <1>2, <1>4, <1>5, <2>1, <2>2, <2>4 DEF KnowsPlan
    <2> QED
      BY <2>2, <2>3, OthersKnow DEF PlanInv
  <1> QED
    BY <1>6, <1>7, <1>8

\* The attempt gets the worktree it planned, and nobody else's plan is this one.
LEMMA AttachWorktreePlans ==
    ASSUME NEW N, NEW W, Shape(N, W), PlanInv, NEW c \in Callers, AttachWorktree(c)
    PROVE  AttemptsPlan' /\ TreesPlanned' /\ PlansKnown'
  <1>1. PICK q, t, e, id, b, s :
           /\ q = call[c]
           /\ t = q.task /\ e = q.exec /\ id = q.tree
           /\ b = [att[t][e] EXCEPT !.tree = id,
                     !.state = IF trees[id].state = "ready" /\ trees[id].healthy THEN "running" ELSE @]
           /\ s = [att[t] EXCEPT ![e] = b]
    OBVIOUS
  <1>2. /\ q \in CallOf(N, W) /\ q.op = "attach" /\ lock = c /\ PreparesOne(q) /\ KnowsPlan(q)
        /\ Holds(c, Idle) /\ trees' = trees /\ trees[id].name = q.name
        /\ att[t][e].state \in {"preparing", "running"}
    <2>1. q \in CallOf(N, W) /\ q.op = "attach" /\ lock = c
      BY <1>1, CallShape DEF AttachWorktree, LockedOps
    <2> QED
      BY <1>1, <2>1 DEF AttachWorktree, PlanInv, IInv, Prepares, PlansKnown, OutsideUnchanged
  <1>3. att' = [att EXCEPT ![t] = s]
    <2>1. att' = [att EXCEPT ![t] = [@ EXCEPT ![e] = b]]
      BY ZenonT(60), <1>1 DEF AttachWorktree
    <2> QED
      BY <1>1, <2>1
  <1>4. /\ t \in Tasks /\ e \in 1..Len(att[t]) /\ id \in 1..Len(trees)
        /\ att[t][e].intent = trees[id].name
    BY <1>1, <1>2 DEF PreparesOne, KnowsPlan
  <1>5. att[t] \in Seq(AttemptOf(N)) /\ att[t][e] \in AttemptOf(N) /\ DOMAIN att = Tasks
    BY <1>4 DEF Shape
  <1>6. /\ b.tree = id /\ b.state \in {"preparing", "running"}
        /\ b.run = att[t][e].run /\ b.intent = att[t][e].intent
    <2>1. b = [att[t][e] EXCEPT !.tree = id, !.state = "running"]
          \/ b = [att[t][e] EXCEPT !.tree = id]
      BY <1>1, <1>5 DEF AttemptOf
    <2> QED
      BY <1>2, <1>5, <2>1 DEF AttemptOf
  <1>7. /\ Len(s) = Len(att[t]) /\ s[e] = b
        /\ \A f \in 1..Len(att[t]) : f # e => s[f] = att[t][f]
    <2>1. s = [att[t] EXCEPT ![e] = b]
      BY <1>1
    <2>2. att[t] \in Seq(AttemptOf(N) \cup {b})
      BY <1>5
    <2> QED
      BY <1>4, <2>1, <2>2
  <1>8. \A u \in Tasks : att'[u] = IF u = t THEN s ELSE att[u]
    BY <1>3, <1>4, <1>5
  <1>9. id # 0
    <2>1. Len(trees) \in Nat
      BY CallShape
    <2> QED
      BY <1>4, <2>1
  <1>10. AttemptsPlan'
    <2>1. \A f \in 1..Len(att[t]) : AttemptPlans(att[t][f], f = Len(att[t]))
      BY <1>4 DEF PlanInv, AttemptsPlan, HistoryPlans
    <2>2. AttemptPlans(b, e = Len(att[t]))
      <3>1. AttemptPlans(att[t][e], e = Len(att[t]))
        BY <1>4, <2>1
      <3> QED
        BY <1>2, <1>4, <1>6, <1>9, <3>1 DEF AttemptPlans
    <2>3. \A f \in 1..Len(s) : AttemptPlans(s[f], f = Len(s))
      BY <1>7, <2>1, <2>2
    <2>4. \A u \in Tasks : HistoryPlans(att'[u])
      BY <1>8, <2>3 DEF PlanInv, AttemptsPlan, HistoryPlans
    <2> QED
      BY <1>2, <2>4 DEF AttemptsPlan, HistoryPlans, AttemptPlans
  <1>11. TreesPlanned'
    <2> SUFFICES ASSUME NEW j \in 1..Len(trees)
                 PROVE  /\ trees[j].name.task \in Tasks
                        /\ PlannedIn(att[trees[j].name.task], j)'
      BY <1>2 DEF TreesPlanned
    <2>1. PICK u : u = trees[j].name.task
      OBVIOUS
    <2>2. u \in Tasks /\ PlannedIn(att[u], j)
      BY <2>1 DEF PlanInv, TreesPlanned
    <2>3. PICK f \in 1..Len(att[u]) : /\ att[u][f].intent = trees[j].name
                                      /\ att[u][f].tree \in {0, j} \/ trees[j].lateCreate
      BY <2>2 DEF PlannedIn
    <2>4. /\ att'[u][f].intent = trees[j].name /\ f \in 1..Len(att'[u])
          /\ att'[u][f].tree \in {0, j} \/ trees[j].lateCreate
      <3>1. CASE u = t /\ f = e
        <4>1. trees[j].name = trees[id].name
          BY <1>4, <2>3, <3>1
        <4>2. j = id \/ trees[j].lateCreate
          <5>1. att[t][e].tree # id /\ j # id => trees[j].lateCreate
            BY <1>1, <1>2, <4>1 DEF KnowsPlan
          <5>2. att[t][e].tree = id => j = id \/ trees[j].lateCreate
            BY <1>9, <2>3, <3>1
          <5> QED
            BY <5>1, <5>2
        <4>3. att'[u][f] = b /\ Len(att'[u]) = Len(att[u])
          BY <1>7, <1>8, <2>2, <3>1
        <4>4. b.intent = trees[j].name
          BY <1>4, <1>6, <4>1
        <4> QED
          BY <1>6, <4>2, <4>3, <4>4
      <3>2. CASE ~(u = t /\ f = e)
        BY <1>7, <1>8, <2>2, <2>3, <3>2
      <3> QED
        BY <3>1, <3>2
    <2>5. PlannedIn(att[u], j)'
      BY <1>2, <2>4 DEF PlannedIn
    <2> QED
      BY <1>2, <2>1, <2>2, <2>5
  <1>12. PlansKnown'
    <2>1. Idle.op \notin {"create", "attach"}
      BY DEF Idle
    <2>2. CallSteps(c) /\ KnowsPlan(call[c])'
      BY <1>2, <2>1, CallKnows
    <2> QED
      BY <2>2, OthersKnow DEF PlanInv
  <1> QED
    BY <1>10, <1>11, <1>12

\* A cleanup and the end of a call write no attempt, name no worktree anew and
\* are not about to create or attach one.
LEMMA CleanupPlans ==
    ASSUME NEW N, NEW W, Shape(N, W), PlanInv, NEW c \in Callers,
           CleanupStep(c) \/ CallEnds(c)
    PROVE  att' = att /\ NamesStay /\ PlansKnown'
  <1>1. trees \in Seq(TreeOf(N)) /\ Len(trees) \in Nat /\ call[c] \in CallOf(N, W)
    BY CallShape DEF Shape
  <1>2. att' = att
    BY DEF CleanupStep, CleanupLoad, CleanupInspect, CleanupPersist, CleanupRetain, CleanupCheck,
           CleanupRemove, CleanupRecord, CleanupReturns, CallEnds, JournalUnchanged, graph
  <1>3. NamesStay
    <2>1. CASE CleanupRemove(c)
      <3>1. PICK id, tree : /\ id = call[c].tree
                            /\ tree = [trees[id] EXCEPT !.asked = TRUE]
        OBVIOUS
      <3>2. trees' = [trees EXCEPT ![id] = tree]
        BY <2>1, <3>1 DEF CleanupRemove, TreeBecomes
      <3>3. id \in 1..Len(trees)
        BY <2>1, <3>1, CleanerKnows DEF CleanupRemove, Cleaning, CleansOne, PlanInv
      <3>4. tree.name = trees[id].name /\ tree.lateCreate = trees[id].lateCreate
        BY <1>1, <3>1, <3>3 DEF TreeOf
      <3> QED
        BY <1>1, <3>2, <3>3, <3>4 DEF NamesStay
    <2>2. CASE CallEnds(c)
      <3>1. trees' = GivenUp(call[c])
        BY <2>2 DEF CallEnds
      <3> QED
        BY <1>1, <3>1, GivenUpKeeps, NamesOfTreesKept
    <2>3. CASE ~CleanupRemove(c) /\ ~CallEnds(c)
      <3>1. trees' = trees
        BY <2>3 DEF CleanupStep, CleanupLoad, CleanupInspect, CleanupPersist, CleanupRetain,
                    CleanupCheck, CleanupRecord, CleanupReturns, OutsideUnchanged
      <3> QED
        BY <3>1 DEF NamesStay
    <2> QED
      BY <2>1, <2>2, <2>3
  <1>4. ASSUME NEW k, Holds(c, k), k.op \notin {"create", "attach"}
        PROVE  PlansKnown'
    <2>1. CallSteps(c) /\ KnowsPlan(call[c])'
      BY <1>2, <1>3, <1>4, CallKnows
    <2> QED
      BY <2>1, OthersKnow DEF PlanInv
  <1>5. ASSUME NEW op, op \notin {"create", "attach"}, Holds(c, [call[c] EXCEPT !.op = op])
        PROVE  PlansKnown'
    <2>1. PICK k : k = [call[c] EXCEPT !.op = op]
      OBVIOUS
    <2>2. k.op = op
      BY <1>1, <2>1 DEF CallOf
    <2> QED
      BY <1>4, <1>5, <2>1, <2>2
  <1>6. ASSUME Holds(c, CleanupDone(c))
        PROVE  PlansKnown'
    <2>1. PICK k : k = CleanupDone(c)
      OBVIOUS
    <2>2. k.op = "inspect"
      BY <1>1, <2>1 DEF CallOf, CleanupDone
    <2> QED
      BY <1>4, <1>6, <2>1, <2>2
  <1>7. ASSUME CleanupLoad(c)
        PROVE  PlansKnown'
    <2>1. PICK k : k = [Idle EXCEPT !.op = "inspect", !.todo = CleanupTargets,
                                    !.done = IntegratedTasks, !.head = head]
      OBVIOUS
    <2> QED
      BY <1>4, <1>7, <2>1 DEF CleanupLoad, Idle
  <1>8. ASSUME NEW id \in Trees, NEW reachable \in BOOLEAN, CleanupInspect(c, id, reachable)
        PROVE  PlansKnown'
    <2>1. PICK k : k = [call[c] EXCEPT !.op = "persist", !.tree = id,
                                       !.verdict = Verdict(id, call[c].done, reachable)]
      OBVIOUS
    <2>2. k.op = "persist"
      BY <1>1, <2>1 DEF CallOf
    <2> QED
      BY <1>4, <1>8, <2>1, <2>2 DEF CleanupInspect
  <1>9. ASSUME CleanupPersist(c)
        PROVE  PlansKnown'
    BY <1>5, <1>6, <1>9 DEF CleanupPersist
  <1>10. ASSUME NEW reachable \in BOOLEAN, CleanupRetain(c, reachable)
         PROVE  PlansKnown'
    BY <1>6, <1>10 DEF CleanupRetain
  <1>11. ASSUME CleanupCheck(c) \/ CleanupRemove(c)
         PROVE  PlansKnown'
    <2>1. \/ Holds(c, [call[c] EXCEPT !.op = "remove"])
          \/ Holds(c, [call[c] EXCEPT !.op = "record"])
      BY <1>11 DEF CleanupCheck, CleanupRemove
    <2> QED
      BY <1>5, <2>1
  <1>12. ASSUME CleanupRecord(c)
         PROVE  PlansKnown'
    BY <1>6, <1>12 DEF CleanupRecord
  <1>13. ASSUME CleanupReturns(c) \/ CallEnds(c)
         PROVE  PlansKnown'
    <2>1. PICK k : k = Idle
      OBVIOUS
    <2> QED
      BY <1>4, <1>13, <2>1 DEF CleanupReturns, CallEnds, Idle
  <1>14. PlansKnown'
    BY <1>7, <1>8, <1>9, <1>10, <1>11, <1>12, <1>13 DEF CleanupStep
  <1> QED
    BY <1>2, <1>3, <1>14

\* The plans are kept by every step.
LEMMA PlanNextLemma ==
    PlanInv /\ [Next]_vars => PlanInv'
  <1> SUFFICES ASSUME PlanInv, [Next]_vars
               PROVE  PlanInv'
    OBVIOUS
  <1>1. IInv /\ IInv'
    BY NextKeeps DEF PlanInv
  <1>2. PICK N, W : Shape(N, W)
    BY <1>1 DEF IInv
  <1>3. Owned' /\ AttemptsPlan /\ TreesPlanned /\ PlansKnown
    BY <1>1 DEF IInv, PlanInv
  <1>4. Histories(N) /\ Len(trees) \in Nat /\ trees \in Seq(TreeOf(N)) /\ NoName \in N /\ head \in Nat
    BY <1>2 DEF Shape, Histories
  <1>5. ASSUME Histories(N)', NamesStay, \A t \in Tasks : GoesOn(att[t], att'[t]), PlansKnown'
        PROVE  PlanInv'
    BY <1>1, <1>3, <1>4, <1>5, PlansStay DEF PlanInv
  <1>6. ASSUME att' = att, NamesStay, PlansKnown'
        PROVE  PlanInv'
    <2>1. Histories(N)'
      BY <1>4, <1>6 DEF Histories
    <2> QED
      BY <1>5, <1>6, <2>1 DEF GoesOn
  <1>7. ASSUME AttemptsPlan', TreesPlanned', PlansKnown'
        PROVE  PlanInv'
    BY <1>1, <1>7 DEF PlanInv
  <1>8. ASSUME att' = att, call' = call, NamesStay
        PROVE  PlansKnown'
    <2> SUFFICES ASSUME NEW c \in Callers
                 PROVE  KnowsPlan(call[c])'
      BY DEF PlansKnown
    <2>1. PICK k : k = call[c] /\ call'[c] = k /\ KnowsPlan(k)
      BY <1>3, <1>8 DEF PlansKnown
    <2> QED
      BY <1>8, <2>1, KnowsPlanStays
  <1>9. trees' = trees => NamesStay
    BY DEF NamesStay
  <1>10. CASE GraphStep
    <2>1. Histories(N)' /\ UNCHANGED <<trees, lock, call>>
      BY <1>4, <1>10, GraphStepKeeps
    <2>2. lock = Nobody /\ \A t \in Tasks : GoesOn(att[t], att'[t])
      BY <1>4, <1>10, GraphGoesOn
    <2>3. \A c \in Callers : call[c].op \notin {"create", "attach"}
      BY <1>2, <2>2, CallShape DEF LockedOps
    <2>4. PlansKnown'
      BY <2>1, <2>3 DEF PlansKnown, KnowsPlan
    <2> QED
      BY <1>5, <1>9, <2>1, <2>2, <2>4
  <1>11. CASE OutsideStep
    <2>1. TreesKept /\ att' = att /\ call' = call
      BY <1>1, <1>4, <1>11, OutsideStepKeeps DEF IInv
    <2> QED
      BY <1>6, <1>8, <2>1, NamesOfTreesKept
  <1>12. CASE Terminalize \/ UNCHANGED vars
    BY <1>6, <1>8, <1>9, <1>12 DEF Terminalize, vars
  <1>13. ASSUME NEW c \in Callers, PrepareStep(c)
         PROVE  PlanInv'
    <2>1. CASE \E t \in Tasks : PrepareTask(c, t)
      BY <1>2, <1>6, <1>9, <2>1, PrepareTaskPlans
    <2>2. CASE PlanWorktree(c)
      BY <1>2, <1>7, <2>2, PlanWorktreePlans
    <2>3. CASE OpenWorktree(c)
      BY <1>2, <1>6, <1>9, <2>3, OpenWorktreePlans
    <2>4. CASE CreateWorktree(c)
      BY <1>2, <1>7, <2>4, CreateWorktreePlans
    <2>5. CASE AttachWorktree(c)
      BY <1>2, <1>7, <2>5, AttachWorktreePlans
    <2> QED
      BY <1>13, <2>1, <2>2, <2>3, <2>4, <2>5 DEF PrepareStep
  <1>14. ASSUME NEW c \in Callers, CleanupStep(c) \/ CallEnds(c)
         PROVE  PlanInv'
    BY <1>2, <1>6, <1>14, CleanupPlans
  <1> QED
    BY <1>10, <1>11, <1>12, <1>13, <1>14 DEF Next

\* The plans hold throughout.
LEMMA PlanInvariance == Spec => []PlanInv
  BY PlanInitLemma, PlanNextLemma, PTL DEF Spec

\* What an attempt that has a worktree is to it.
LEMMA UserIs ==
    ASSUME NEW N, NEW W, Shape(N, W), PlanInv, NEW id \in Trees, NEW x \in Users(id)
    PROVE  /\ id \in 1..Len(trees)
           /\ x[1] \in Tasks /\ x[2] \in 1..Len(att[x[1]]) /\ att[x[1]][x[2]].tree = id
           /\ trees[id].name.task = x[1]
           /\ trees[id].name.exec = att[x[1]][x[2]].run
  <1>1. /\ x[1] \in Tasks /\ x[2] \in 1..MaxExec /\ x[2] <= Len(att[x[1]])
        /\ att[x[1]][x[2]].tree = id
    BY DEF Users
  <1>2. Len(att[x[1]]) \in Nat /\ id # 0
    BY <1>1 DEF Shape, Trees
  <1>3. x[2] \in 1..Len(att[x[1]])
    BY <1>1, <1>2, SizesAssumption
  <1>4. id \in 1..Len(trees) /\ trees[id].name.task = x[1]
    BY <1>1, <1>2, <1>3 DEF PlanInv, IInv, Owned
  <1>5. AttemptPlans(att[x[1]][x[2]], x[2] = Len(att[x[1]]))
    BY <1>1, <1>3 DEF PlanInv, AttemptsPlan, HistoryPlans
  <1>6. trees[id].name # NoName
    <2>1. NoName.task = 0 /\ x[1] # 0
      BY <1>1 DEF NoName, Tasks
    <2> QED
      BY <1>4, <2>1
  <1>7. trees[id].name.exec = att[x[1]][x[2]].run
    BY <1>1, <1>2, <1>5, <1>6 DEF AttemptPlans
  <1> QED
    BY <1>1, <1>3, <1>4, <1>7

\* A worktree serves one child run: an attempt has only the worktree it planned,
\* which was named after its run, and a prepare_wave call that holds an old wave
\* finds the plan of the attempt in its way.
THEOREM WorktreesServeOneRun == Spec => []OneRunPerWorktree
  <1>1. PlanInv => OneRunPerWorktree
    <2> SUFFICES ASSUME PlanInv, NEW id \in Trees, NEW x \in Users(id), NEW y \in Users(id)
                 PROVE  x[1] = y[1] /\ att[x[1]][x[2]].run = att[y[1]][y[2]].run
      BY DEF OneRunPerWorktree
    <2>1. PICK N, W : Shape(N, W)
      BY DEF PlanInv, IInv
    <2>2. trees[id].name.task = x[1] /\ trees[id].name.exec = att[x[1]][x[2]].run
      BY <2>1, UserIs
    <2>3. trees[id].name.task = y[1] /\ trees[id].name.exec = att[y[1]][y[2]].run
      BY <2>1, UserIs
    <2> QED
      BY <2>2, <2>3
  <1> QED
    BY <1>1, PlanInvariance, PTL

-----------------------------------------------------------------------------
(* What a cleanup is about *)

\* Only a worktree that somebody had is cleaned up.
UsedOnly == \A id \in Trees : cleanups[id] # "none" => Users(id) # {}

\* The targets a cleanup still has are all that is open: the one it works on,
\* every removal that was planned and, if every task was integrated when it
\* began, every worktree whose operation has not ended.
OpenTargets(k) ==
    /\ \A id \in k.todo : cleanups[id] \notin Ended
    /\ \A id \in Trees : cleanups[id] = "planned" => id \in k.todo
    /\ k.op # "inspect" => k.tree \in k.todo
    /\ k.done = Tasks => \A id \in AttachedTrees : id \in k.todo \/ cleanups[id] \in Ended
TargetsOpen == Cleaning(call[Cleaner]) => OpenTargets(call[Cleaner])

\* A cleanup that did not clean, and a delivery that was closed for it, have
\* retained a worktree.
RetainedSome == \E id \in Trees : cleanups[id] = "retained"
ReportsRetained == report = "blocked" \/ dState = "blocked" => RetainedSome

\* A worktree that Batuta has asked to remove, or is about to, holds what was
\* recorded or changed after the last look at it.
AsExpected(id) == trees[id].lateChange \/ trees[id].content = Expected(id)
Removing(id) == call[Cleaner].op = "remove" /\ call[Cleaner].tree = id
RemovedAsExpected ==
    \A id \in 1..Len(trees) :
        trees[id].asked \/ Removing(id) => Users(id) # {} /\ AsExpected(id)

CleanInv == PlanInv /\ UsedOnly /\ TargetsOpen /\ ReportsRetained /\ RemovedAsExpected

\* The attempts of an integrated task are final, and an attempt keeps the
\* worktree it has.
AttemptsStay ==
    \A t \in Tasks :
        /\ Integrated(t) => att'[t] = att[t]
        /\ Len(att'[t]) >= Len(att[t])
        /\ \A e \in 1..Len(att[t]) : att[t][e].tree # 0 => att'[t][e].tree = att[t][e].tree

\* Worktrees stay, the cleaner alone asks to remove one, and one that it asks or
\* is about to ask for does not change without a trace.
TreesStay ==
    /\ Len(trees') >= Len(trees)
    /\ \A id \in 1..Len(trees) :
        /\ trees'[id].name = trees[id].name
        /\ trees'[id].asked => trees[id].asked \/ Removing(id)
        /\ trees[id].asked \/ Removing(id) =>
             \/ trees'[id].lateChange
             \/ /\ trees'[id].content = trees[id].content
                /\ trees'[id].lateChange = trees[id].lateChange
    /\ \A id \in 1..Len(trees') : id \notin 1..Len(trees) => ~trees'[id].asked

\* The rest of the delivery leaves the attempts of an integrated task alone.
LEMMA GoesOnStays ==
    ASSUME NEW A, NEW h \in Seq(A), NEW s \in Seq(A), HistoryPlans(h), GoesOn(h, s)
    PROVE  /\ h # <<>> /\ Last(h).state = "integrated" => s = h
           /\ Len(s) >= Len(h)
           /\ \A e \in 1..Len(h) : h[e].tree # 0 => s[e].tree = h[e].tree
  <1>1. CASE s = h
    BY <1>1
  <1>2. CASE h = <<>> /\ Len(s) = 1
    BY <1>2
  <1>3. CASE /\ h # <<>> /\ h[Len(h)].state \in {"running", "candidate"}
             /\ Len(s) \in {Len(h), Len(h) + 1}
             /\ \A e \in 1..Len(h) : e # Len(h) => s[e] = h[e]
             /\ Over(h[Len(h)], s[Len(h)])
    <2>1. Last(h).state # "integrated"
      BY <1>3 DEF Last
    <2>2. Len(s) >= Len(h)
      BY <1>3
    <2>3. \A e \in 1..Len(h) : s[e].tree = h[e].tree
      BY <1>3 DEF Over
    <2> QED
      BY <2>1, <2>2, <2>3
  <1> QED
    BY <1>1, <1>2, <1>3 DEF GoesOn

\* Planning a worktree changes no attempt of an integrated task, which has its
\* plan, and no worktree of an attempt.
LEMMA PlanWorktreeStays ==
    ASSUME NEW N, NEW W, Shape(N, W), PlanInv, NEW c \in Callers, PlanWorktree(c)
    PROVE  AttemptsStay
  <1>1. PICK t, e, name, a, b, s :
           /\ t = call[c].task /\ e = Len(att[t]) /\ name = Identity(call[c].wave, t, att[t][e].run)
           /\ a = att[t][e]
           /\ b = [a EXCEPT !.intent = name]
           /\ s = [att[t] EXCEPT ![e] = b]
    OBVIOUS
  <1>2. t \in Tasks /\ att[t] # <<>>
    <2>1. PreparesOne(call[c]) /\ call[c].op = "plan"
      BY DEF PlanWorktree, PlanInv, IInv, Prepares
    <2> QED
      BY <1>1, <2>1 DEF PreparesOne
  <1>3. /\ a.intent = name \/ (a.intent = NoName /\ a.state = "preparing")
        /\ att' = [att EXCEPT ![t] = s]
    BY <1>1 DEF PlanWorktree
  <1>4. att[t] \in Seq(AttemptOf(N)) /\ DOMAIN att = Tasks
    BY <1>2 DEF Shape
  <1>5. e = Len(att[t]) /\ a = att[t][e] /\ e \in 1..Len(att[t])
    <2>1. e = Len(att[t]) /\ a = att[t][e]
      BY <1>1
    <2>2. Len(att[t]) \in Nat /\ Len(att[t]) # 0
      BY <1>2, <1>4
    <2> QED
      BY <2>1, <2>2
  <1>6. a \in AttemptOf(N)
    BY <1>4, <1>5
  <1>7. b.tree = a.tree /\ (a.intent = name => b = a)
    BY <1>1, <1>6 DEF AttemptOf
  <1>8. Len(s) = Len(att[t]) /\ s[e] = b /\ (b = a => s = att[t])
        /\ \A f \in 1..Len(att[t]) : f # e => s[f] = att[t][f]
    <2>1. s = [att[t] EXCEPT ![e] = b]
      BY <1>1
    <2>2. att[t] \in Seq(AttemptOf(N) \cup {b})
      BY <1>4
    <2> QED
      BY <1>4, <1>5, <2>1, <2>2
  <1>9. \A u \in Tasks : att'[u] = IF u = t THEN s ELSE att[u]
    BY <1>2, <1>3, <1>4
  <1>10. Integrated(t) => s = att[t]
    <2>1. Integrated(t) => a.state = "integrated"
      BY <1>5 DEF Integrated, Last
    <2> QED
      BY <1>3, <1>7, <1>8, <2>1
  <1>11. \A f \in 1..Len(att[t]) : s[f].tree = att[t][f].tree
    BY <1>5, <1>7, <1>8
  <1>12. \A u \in Tasks : Len(att[u]) \in Nat
    BY DEF Shape
  <1> QED
    BY <1>8, <1>9, <1>10, <1>11, <1>12 DEF AttemptsStay

\* Nor does attaching one: an attempt that takes a worktree is its task's latest
\* and prepares or runs.
LEMMA AttachWorktreeStays ==
    ASSUME NEW N, NEW W, Shape(N, W), PlanInv, NEW c \in Callers, AttachWorktree(c)
    PROVE  AttemptsStay
  <1>1. PICK t, e, id, b, s :
           /\ t = call[c].task /\ e = call[c].exec /\ id = call[c].tree
           /\ b = [att[t][e] EXCEPT !.tree = id,
                     !.state = IF trees[id].state = "ready" /\ trees[id].healthy THEN "running" ELSE @]
           /\ s = [att[t] EXCEPT ![e] = b]
    OBVIOUS
  <1>2. /\ PreparesOne(call[c]) /\ call[c].op = "attach"
        /\ att[t][e].state \in {"preparing", "running"} /\ att[t][e].tree \in {0, id}
    BY <1>1 DEF AttachWorktree, PlanInv, IInv, Prepares
  <1>3. att' = [att EXCEPT ![t] = s]
    <2>1. att' = [att EXCEPT ![t] = [@ EXCEPT ![e] = b]]
      BY <1>1 DEF AttachWorktree
    <2> QED
      BY <1>1, <2>1
  <1>4. t \in Tasks /\ e \in 1..Len(att[t])
    BY <1>1, <1>2 DEF PreparesOne
  <1>5. att[t] \in Seq(AttemptOf(N)) /\ att[t][e] \in AttemptOf(N) /\ DOMAIN att = Tasks
    BY <1>4 DEF Shape
  <1>6. b.tree = id
    <2>1. b = [att[t][e] EXCEPT !.tree = id, !.state = "running"]
          \/ b = [att[t][e] EXCEPT !.tree = id]
      BY <1>1, <1>5 DEF AttemptOf
    <2> QED
      BY <1>5, <2>1 DEF AttemptOf
  <1>7. /\ Len(s) = Len(att[t]) /\ s[e] = b
        /\ \A f \in 1..Len(att[t]) : f # e => s[f] = att[t][f]
    <2>1. s = [att[t] EXCEPT ![e] = b]
      BY <1>1
    <2>2. att[t] \in Seq(AttemptOf(N) \cup {b})
      BY <1>5
    <2> QED
      BY <1>4, <2>1, <2>2
  <1>8. \A u \in Tasks : att'[u] = IF u = t THEN s ELSE att[u]
    BY <1>3, <1>4, <1>5
  <1>9. ~Integrated(t)
    <2>1. AttemptPlans(att[t][e], e = Len(att[t]))
      BY <1>4 DEF PlanInv, AttemptsPlan, HistoryPlans
    <2>2. e = Len(att[t])
      BY <1>2, <2>1 DEF AttemptPlans
    <2> QED
      BY <1>2, <2>2 DEF Integrated, Last
  <1>10. \A f \in 1..Len(att[t]) : att[t][f].tree # 0 => s[f].tree = att[t][f].tree
    BY <1>2, <1>6, <1>7
  <1>11. \A u \in Tasks : Len(att[u]) \in Nat
    BY DEF Shape
  <1> QED
    BY <1>7, <1>8, <1>9, <1>10, <1>11 DEF AttemptsStay

\* Every step leaves the attempts of the integrated tasks and the worktrees of
\* the attempts as they are.
LEMMA StepKeepsAttempts ==
    ASSUME NEW N, NEW W, Shape(N, W), PlanInv, [Next]_vars
    PROVE  AttemptsStay
  <1>1. Histories(N) /\ NoName \in N /\ head \in Nat /\ trees \in Seq(TreeOf(N))
    BY DEF Shape, Histories
  <1>2. att' = att => AttemptsStay
    BY <1>1 DEF AttemptsStay, Histories
  <1>3. CASE GraphStep
    <2>1. Histories(N)' /\ \A t \in Tasks : GoesOn(att[t], att'[t])
      BY <1>1, <1>3, GraphStepKeeps, GraphGoesOn
    <2> SUFFICES ASSUME NEW t \in Tasks
                 PROVE  /\ Integrated(t) => att'[t] = att[t]
                        /\ Len(att'[t]) >= Len(att[t])
                        /\ \A e \in 1..Len(att[t]) :
                             att[t][e].tree # 0 => att'[t][e].tree = att[t][e].tree
      BY DEF AttemptsStay
    <2>2. /\ att[t] \in Seq(AttemptOf(N)) /\ att'[t] \in Seq(AttemptOf(N))
          /\ HistoryPlans(att[t]) /\ GoesOn(att[t], att'[t])
      BY <1>1, <2>1 DEF Histories, PlanInv, AttemptsPlan
    <2> QED
      BY <2>2, GoesOnStays DEF Integrated
  <1>4. CASE OutsideStep
    <2>1. Gone
      BY DEF PlanInv, IInv
    <2> QED
      BY <1>1, <1>2, <1>4, <2>1, OutsideStepKeeps
  <1>5. CASE Terminalize \/ UNCHANGED vars
    BY <1>2, <1>5 DEF Terminalize, vars
  <1>6. ASSUME NEW c \in Callers, PrepareStep(c)
        PROVE  AttemptsStay
    <2>1. CASE \E t \in Tasks : PrepareTask(c, t)
      BY <1>2, <2>1, PrepareTaskPlans
    <2>2. CASE PlanWorktree(c)
      BY <2>2, PlanWorktreeStays
    <2>3. CASE OpenWorktree(c)
      BY <1>2, <2>3, OpenWorktreePlans
    <2>4. CASE CreateWorktree(c)
      BY <1>2, <2>4 DEF CreateWorktree, JournalUnchanged, graph
    <2>5. CASE AttachWorktree(c)
      BY <2>5, AttachWorktreeStays
    <2> QED
      BY <1>6, <2>1, <2>2, <2>3, <2>4, <2>5 DEF PrepareStep
  <1>7. ASSUME NEW c \in Callers, CleanupStep(c) \/ CallEnds(c)
        PROVE  AttemptsStay
    BY <1>2, <1>7, CleanupPlans
  <1> QED
    BY <1>3, <1>4, <1>5, <1>6, <1>7 DEF Next

\* Of a worktree nothing changes that TreesStay is about.
SameEvidence(old, new) ==
    /\ new.name = old.name /\ new.asked = old.asked
    /\ new.content = old.content /\ new.lateChange = old.lateChange

\* Every step leaves the worktrees as TreesStay says.
LEMMA StepKeepsTrees ==
    ASSUME NEW N, NEW W, Shape(N, W), PlanInv, [Next]_vars
    PROVE  TreesStay
  <1>1. trees \in Seq(TreeOf(N)) /\ Len(trees) \in Nat
    BY DEF Shape
  <1>2. ASSUME trees' = trees
        PROVE  TreesStay
    BY <1>1, <1>2 DEF TreesStay
  <1>3. ASSUME NEW id \in 1..Len(trees), NEW tree, trees' = [trees EXCEPT ![id] = tree],
               tree.name = trees[id].name,
               tree.asked => trees[id].asked \/ Removing(id),
               trees[id].asked \/ Removing(id) =>
                 \/ tree.lateChange
                 \/ tree.content = trees[id].content /\ tree.lateChange = trees[id].lateChange
        PROVE  TreesStay
    <2>1. trees \in Seq(TreeOf(N) \cup {tree})
      BY <1>1
    <2>2. /\ Len(trees') = Len(trees) /\ trees'[id] = tree
          /\ \A i \in 1..Len(trees) : i # id => trees'[i] = trees[i]
      BY <1>3, <2>1
    <2>3. \A i \in 1..Len(trees) :
            /\ trees'[i].name = trees[i].name
            /\ trees'[i].asked => trees[i].asked \/ Removing(i)
            /\ trees[i].asked \/ Removing(i) =>
                 \/ trees'[i].lateChange
                 \/ /\ trees'[i].content = trees[i].content
                    /\ trees'[i].lateChange = trees[i].lateChange
      <3> TAKE i \in 1..Len(trees)
      <3>1. CASE i = id
        BY <1>3, <2>2, <3>1
      <3>2. CASE i # id
        BY <2>2, <3>2
      <3> QED
        BY <3>1, <3>2
    <2> QED
      BY <1>1, <2>2, <2>3 DEF TreesStay
  <1>4. \A id \in 1..Len(trees) :
          /\ trees[id] \in TreeOf(N)
          /\ trees[id].asked => trees[id].name.task \in IntegratedTasks
    BY <1>1 DEF PlanInv, IInv, Gone
  <1>5. ASSUME NEW id, NEW tree, trees' = [trees EXCEPT ![id] = tree],
               id \in 1..Len(trees) => SameEvidence(trees[id], tree)
        PROVE  TreesStay
    <2>1. CASE id \in 1..Len(trees)
      BY <1>3, <1>5, <2>1 DEF SameEvidence
    <2>2. CASE id \notin 1..Len(trees)
      BY <1>1, <1>2, <1>5, <2>2
    <2> QED
      BY <2>1, <2>2
  <1>6. ASSUME NEW id \in 1..Len(trees), NEW state \in {"pending", "ready"},
               WorktreeCreated(id, state)
        PROVE  TreesStay
    <2>1. PICK tree : tree = [trees[id] EXCEPT !.state = state]
      OBVIOUS
    <2>2. SameEvidence(trees[id], tree)
      BY <1>4, <2>1 DEF TreeOf, SameEvidence
    <2> QED
      BY <1>5, <1>6, <2>1, <2>2 DEF WorktreeCreated, TreeBecomes
  <1>7. ASSUME NEW id \in 1..Len(trees), RemovalBegins(id)
        PROVE  TreesStay
    <2>1. PICK tree : tree = [trees[id] EXCEPT !.state = "removing"]
      OBVIOUS
    <2>2. SameEvidence(trees[id], tree)
      BY <1>4, <2>1 DEF TreeOf, SameEvidence
    <2> QED
      BY <1>5, <1>7, <2>1, <2>2 DEF RemovalBegins, TreeBecomes
  <1>8. ASSUME NEW id \in 1..Len(trees), RemovalEnds(id)
        PROVE  TreesStay
    <2>1. PICK tree : tree = [trees[id] EXCEPT !.state = "removed", !.removed = TRUE]
      OBVIOUS
    <2>2. SameEvidence(trees[id], tree)
      BY <1>4, <2>1 DEF TreeOf, SameEvidence
    <2> QED
      BY <1>5, <1>8, <2>1, <2>2 DEF RemovalEnds, TreeBecomes
  <1>9. ASSUME NEW id \in 1..Len(trees), NEW state \in {"ready", "failed"},
               NEW healthy \in BOOLEAN, SetupEnds(id, state, healthy)
        PROVE  TreesStay
    <2>1. PICK tree : tree = [trees[id] EXCEPT !.state = state, !.healthy = healthy]
      OBVIOUS
    <2>2. SameEvidence(trees[id], tree)
      BY <1>4, <2>1 DEF TreeOf, SameEvidence
    <2> QED
      BY <1>5, <1>9, <2>1, <2>2 DEF SetupEnds, TreeBecomes
  <1>10. ASSUME NEW t \in Tasks, ChildCommits(t)
         PROVE  TreesStay
    <2>1. PICK id, tree : id = Last(att[t]).tree /\ tree = [trees[id] EXCEPT !.content = "commit"]
      OBVIOUS
    <2>2. /\ trees' = [trees EXCEPT ![id] = tree]
          /\ att[t] # <<>> /\ Last(att[t]).state = "running"
      BY <1>10, <2>1 DEF ChildCommits, TreeBecomes
    <2>3. id # 0 => id \in 1..Len(trees) /\ trees[id].name.task = t
      <3>1. Len(att[t]) \in 1..Len(att[t])
        BY <2>2 DEF Shape
      <3> QED
        BY <2>1, <3>1 DEF Last, PlanInv, IInv, Owned
    <2>4. CASE id = 0
      BY <1>1, <1>2, <2>2, <2>4
    <2>5. CASE id # 0
      <3>1. ~Integrated(t)
        BY <2>2 DEF Integrated
      <3>2. ~Removing(id)
        <4>1. Removing(id) => CleansOne(call[Cleaner])
          BY CallersAssumption, CleanerKnows DEF Removing, Cleaning, PlanInv
        <4> QED
          BY <2>3, <2>5, <3>1, <4>1 DEF Removing, CleansOne, IntegratedTasks
      <3>3. tree.name = trees[id].name /\ tree.asked = trees[id].asked
        BY <1>4, <2>1, <2>3, <2>5 DEF TreeOf
      <3>4. ~trees[id].asked
        BY <1>4, <2>3, <2>5, <3>1 DEF IntegratedTasks
      <3> QED
        BY <1>3, <2>2, <2>3, <2>5, <3>2, <3>3, <3>4
    <2> QED
      BY <2>4, <2>5
  <1>11. ASSUME NEW id \in 1..Len(trees), NEW state \in {"ready", "removed"}, Touched(id, state)
         PROVE  TreesStay
    <2>1. PICK late, tree :
            /\ late = (\/ trees[id].asked
                       \/ \E c \in Callers : call[c].op = "remove" /\ call[c].tree = id)
            /\ tree = [trees[id] EXCEPT !.state = state, !.content = "changed",
                                        !.lateChange = late]
      OBVIOUS
    <2>2. tree.name = trees[id].name /\ tree.asked = trees[id].asked /\ tree.lateChange = late
      BY <1>4, <2>1 DEF TreeOf
    <2>3. trees' = [trees EXCEPT ![id] = tree]
      BY <1>11, <2>1 DEF Touched, TreeBecomes
    <2>4. trees[id].asked \/ Removing(id) => late
      BY <2>1, CallersAssumption DEF Removing
    <2> QED
      BY <1>3, <2>2, <2>3, <2>4
  <1>12. ASSUME NEW c \in Callers, CreateWorktree(c)
         PROVE  TreesStay
    <2>1. PICK tree : trees' = Append(trees, tree) /\ tree.asked = FALSE
      BY <1>12 DEF CreateWorktree, SentTree
    <2>2. /\ Len(trees') = Len(trees) + 1 /\ trees'[Len(trees) + 1] = tree
          /\ \A id \in 1..Len(trees) : trees'[id] = trees[id]
          /\ \A id \in 1..Len(trees') : id \notin 1..Len(trees) => id = Len(trees) + 1
      BY <1>1, <2>1
    <2> QED
      BY <1>1, <2>1, <2>2 DEF TreesStay
  <1>13. ASSUME NEW c \in Callers, CleanupRemove(c)
         PROVE  TreesStay
    <2>1. PICK id, tree : /\ id = call[c].tree
                          /\ tree = [trees[id] EXCEPT !.asked = TRUE]
      OBVIOUS
    <2>2. c = Cleaner /\ id \in 1..Len(trees)
      BY <1>13, <2>1, CleanerKnows DEF CleanupRemove, Cleaning, CleansOne, PlanInv
    <2>3. Removing(id) /\ trees' = [trees EXCEPT ![id] = tree]
      BY <1>13, <2>1, <2>2 DEF CleanupRemove, Removing, TreeBecomes
    <2>4. /\ tree.name = trees[id].name /\ tree.content = trees[id].content
          /\ tree.lateChange = trees[id].lateChange
      BY <1>4, <2>1, <2>2 DEF TreeOf
    <2> QED
      BY <1>3, <2>2, <2>3, <2>4
  <1>14. ASSUME NEW c \in Callers, CallEnds(c)
         PROVE  TreesStay
    <2>1. PICK k : k = call[c]
      OBVIOUS
    <2>2. trees' = GivenUp(k)
      BY <1>14, <2>1 DEF CallEnds
    <2>3. PICK id, early, late :
            /\ id = k.tree
            /\ early = [trees[id] EXCEPT !.lateCreate = TRUE]
            /\ late = [trees[id] EXCEPT !.lateRemove = TRUE]
      OBVIOUS
    <2>4. id \in 1..Len(trees) =>
            SameEvidence(trees[id], early) /\ SameEvidence(trees[id], late)
      BY <1>4, <2>3 DEF TreeOf, SameEvidence
    <2>5. \/ trees' = [trees EXCEPT ![id] = early]
          \/ trees' = [trees EXCEPT ![id] = late]
          \/ trees' = trees
      BY <2>2, <2>3 DEF GivenUp
    <2> QED
      BY <1>2, <1>5, <2>4, <2>5
  <1>15. CASE GraphStep \/ Terminalize \/ UNCHANGED vars
    <2>1. GraphStep => trees' = trees
      BY DEF GraphStep, Admits, Fails, Answers, BecomesCandidate, Integrates, Conflicts,
             OthersIntegrate, Unchanged
    <2> QED
      BY <1>2, <1>15, <2>1 DEF Terminalize, vars
  <1>16. CASE OutsideStep
    <2>1. DOMAIN trees = 1..Len(trees)
      BY <1>1
    <2> QED
      BY <1>6, <1>7, <1>8, <1>9, <1>10, <1>11, <1>16, <2>1 DEF OutsideStep
  <1>17. ASSUME NEW c \in Callers, PrepareStep(c)
         PROVE  TreesStay
    <2>1. CreateWorktree(c) \/ trees' = trees
      BY <1>17 DEF PrepareStep, PrepareTask, PlanWorktree, OpenWorktree, AttachWorktree,
                   OutsideUnchanged
    <2> QED
      BY <1>2, <1>12, <2>1
  <1>18. ASSUME NEW c \in Callers, CleanupStep(c)
         PROVE  TreesStay
    <2>1. CleanupRemove(c) \/ trees' = trees
      BY <1>18 DEF CleanupStep, CleanupLoad, CleanupInspect, CleanupPersist, CleanupRetain,
                   CleanupCheck, CleanupRecord, CleanupReturns, OutsideUnchanged
    <2> QED
      BY <1>2, <1>13, <2>1
  <1> QED
    BY <1>14, <1>15, <1>16, <1>17, <1>18 DEF Next

-----------------------------------------------------------------------------
(* What the steps keep of it *)

\* A worktree keeps its users ...
LEMMA UsersStay ==
    ASSUME NEW N, Histories(N), NEW M, Histories(M)', AttemptsStay,
           NEW id \in Trees, Users(id) # {}
    PROVE  Users(id)' # {}
  <1>1. PICK x \in Users(id) : TRUE
    OBVIOUS
  <1>2. /\ x \in Tasks \X (1..MaxExec) /\ x[1] \in Tasks /\ x[2] \in 1..MaxExec
        /\ x[2] <= Len(att[x[1]]) /\ att[x[1]][x[2]].tree = id
    BY <1>1 DEF Users
  <1>3. Len(att[x[1]]) \in Nat /\ Len(att'[x[1]]) \in Nat /\ x[2] \in Nat /\ x[2] >= 1 /\ id # 0
    BY <1>2, SizesAssumption DEF Histories, Trees
  <1>4. x[2] <= Len(att'[x[1]]) /\ att'[x[1]][x[2]].tree = id
    BY <1>2, <1>3 DEF AttemptsStay
  <1>5. x \in Users(id)'
    BY <1>2, <1>4 DEF Users
  <1> QED
    BY <1>5

\* ... and if its task is integrated it keeps exactly these.
LEMMA IntegratedUsersStay ==
    ASSUME NEW N, Histories(N), NEW M, Histories(M)', Len(trees) \in Nat,
           AttemptsStay, TreesStay, Owned, Owned',
           NEW id \in 1..Len(trees), trees[id].name.task \in IntegratedTasks
    PROVE  /\ Users(id)' = Users(id)
           /\ \A x \in Users(id) : att'[x[1]] = att[x[1]]
  <1>1. PICK t : t = trees[id].name.task
    OBVIOUS
  <1>2. t \in Tasks /\ att'[t] = att[t] /\ id # 0
    BY <1>1 DEF IntegratedTasks, AttemptsStay
  <1>3. trees'[id].name.task = t
    BY <1>1 DEF TreesStay
  <1>4. ASSUME NEW x \in Users(id)
        PROVE  x[1] = t
    <2>1. /\ x[1] \in Tasks /\ x[2] \in 1..MaxExec
          /\ x[2] <= Len(att[x[1]]) /\ att[x[1]][x[2]].tree = id
      BY DEF Users
    <2>2. x[2] \in 1..Len(att[x[1]])
      BY <2>1, SizesAssumption DEF Histories
    <2> QED
      BY <1>1, <1>2, <2>1, <2>2 DEF Owned
  <1>5. ASSUME NEW x \in Users(id)'
        PROVE  x[1] = t
    <2>1. /\ x[1] \in Tasks /\ x[2] \in 1..MaxExec
          /\ x[2] <= Len(att'[x[1]]) /\ att'[x[1]][x[2]].tree = id
      BY DEF Users
    <2>2. x[2] \in 1..Len(att'[x[1]])
      BY <2>1, SizesAssumption DEF Histories
    <2> QED
      BY <1>2, <1>3, <2>1, <2>2 DEF Owned
  <1>6. Users(id)' = Users(id)
    BY <1>2, <1>4, <1>5 DEF Users
  <1> QED
    BY <1>2, <1>4, <1>6

\* A set of numbers up to n that is not empty has a greatest element.
LEMMA Greatest ==
    ASSUME NEW n \in Nat, NEW S \in SUBSET (0..n), S # {}
    PROVE  \E e \in S : \A f \in S : f <= e
  <1> DEFINE T == {n - e : e \in S}
  <1>1. T \in SUBSET Nat /\ T # {}
    <2>1. \A e \in S : e \in 0..n
      OBVIOUS
    <2>2. \A e \in 0..n : n - e \in Nat
      OBVIOUS
    <2>3. T # {}
      OBVIOUS
    <2> QED
      BY <2>1, <2>2, <2>3
  <1>2. PICK m \in T : \A k \in T : m <= k
    <2> HIDE DEF T
    <2> QED
      BY <1>1, Least
  <1>3. PICK e \in S : m = n - e
    OBVIOUS
  <1>4. \A f \in S : f <= e
    <2> TAKE f \in S
    <2>1. n - f \in T /\ e \in Int /\ f \in Int
      OBVIOUS
    <2> HIDE DEF T
    <2>2. n - e <= n - f
      BY <1>2, <1>3, <2>1
    <2> QED
      BY <2>1, <2>2
  <1> QED
    BY <1>4

\* LastUser is one of the attempts that have the worktree: the latest of the
\* attempts of the last such task.
LEMMA LastUserIsUser ==
    ASSUME NEW id, Users(id) # {}
    PROVE  LastUser(id) \in Users(id)
  <1> DEFINE T == {x[1] : x \in Users(id)}
  <1>1. Users(id) \subseteq Tasks \X (1..MaxExec)
    BY DEF Users
  <1>2. T \in SUBSET (0..NTasks) /\ T # {}
    BY <1>1 DEF Tasks
  <1>3. PICK t \in T : \A s \in T : s <= t
    <2> HIDE DEF T
    <2> QED
      BY <1>2, Greatest, SizesAssumption
  <1> DEFINE E == {x[2] : x \in {y \in Users(id) : y[1] = t}}
  <1>4. E \in SUBSET (0..MaxExec) /\ E # {}
    BY <1>1
  <1>5. PICK e \in E : \A f \in E : f <= e
    <2> HIDE DEF E
    <2> QED
      BY <1>4, Greatest, SizesAssumption
  <1>6. PICK x \in Users(id) : x[1] = t /\ x[2] = e
    OBVIOUS
  <1>7. \A y \in Users(id) : Before(y, x)
    <2> TAKE y \in Users(id)
    <2>1. y[1] \in T /\ y[1] \in Int /\ y[2] \in Int /\ t \in Int /\ e \in Int /\ y[1] <= t
      BY <1>1, <1>2, <1>3, <1>4, <1>5 DEF Tasks
    <2>2. CASE y[1] = t
      <3>1. y[2] \in E
        BY <2>2
      <3> QED
        BY <1>5, <1>6, <2>2, <3>1 DEF Before
    <2>3. CASE y[1] # t
      BY <1>6, <2>1, <2>3 DEF Before
    <2> QED
      BY <2>2, <2>3
  <1> QED
    BY <1>7 DEF LastUser

\* What is expected of the worktree of an integrated task stays the same.
LEMMA ExpectedStays ==
    ASSUME NEW N, Histories(N), NEW M, Histories(M)', Len(trees) \in Nat,
           AttemptsStay, TreesStay, Owned, Owned',
           NEW id \in 1..Len(trees), trees[id].name.task \in IntegratedTasks,
           Users(id) # {}
    PROVE  Users(id)' # {} /\ Expected(id)' = Expected(id)
  <1>1. /\ Users(id)' = Users(id)
        /\ \A x \in Users(id) : att'[x[1]] = att[x[1]]
    BY IntegratedUsersStay
  <1>2. PICK x : x = LastUser(id)
    OBVIOUS
  <1>3. x \in Users(id)
    BY <1>2, LastUserIsUser
  <1>4. LastUser(id)' = x
    BY <1>1, <1>2 DEF LastUser
  <1>5. att'[x[1]] = att[x[1]]
    BY <1>1, <1>3
  <1>6. Expected(id)' = Expected(id)
    BY <1>2, <1>4, <1>5 DEF Expected
  <1> QED
    BY <1>1, <1>6

\* The cleaner is about to remove a worktree only after it looked at it.
LEMMA RemovingBegins ==
    ASSUME NEW N, NEW W, Shape(N, W), [Next]_vars, call'[Cleaner].op = "remove"
    PROVE  call'[Cleaner] = call[Cleaner] \/ CleanupCheck(Cleaner)
  <1>1. Cleaner \in Callers /\ call \in [Callers -> CallOf(N, W)]
    BY CallersAssumption DEF Shape
  <1>2. ASSUME NEW c \in Callers, NEW k, Holds(c, k), k.op # "remove"
        PROVE  call'[Cleaner] = call[Cleaner]
    BY <1>1, <1>2 DEF Holds
  <1>3. ASSUME NEW c \in Callers, NEW op \in {"create", "check", "record"},
               Holds(c, [call[c] EXCEPT !.op = op])
        PROVE  call'[Cleaner] = call[Cleaner]
    <2>1. PICK k : k = [call[c] EXCEPT !.op = op]
      OBVIOUS
    <2>2. k.op # "remove"
      BY <1>1, <1>3, <2>1 DEF CallOf
    <2> QED
      BY <1>2, <1>3, <2>1, <2>2
  <1>4. ASSUME NEW c \in Callers, NEW id, Holds(c, [call[c] EXCEPT !.op = "attach", !.tree = id])
        PROVE  call'[Cleaner] = call[Cleaner]
    <2>1. PICK k : k = [call[c] EXCEPT !.op = "attach", !.tree = id]
      OBVIOUS
    <2>2. k.op # "remove"
      BY <1>1, <2>1 DEF CallOf
    <2> QED
      BY <1>2, <1>4, <2>1, <2>2
  <1>5. ASSUME NEW c \in Callers, Holds(c, CleanupDone(c))
        PROVE  call'[Cleaner] = call[Cleaner]
    <2>1. PICK k : k = CleanupDone(c)
      OBVIOUS
    <2>2. k.op # "remove"
      BY <1>1, <2>1 DEF CallOf, CleanupDone
    <2> QED
      BY <1>2, <1>5, <2>1, <2>2
  <1>6. ASSUME NEW c \in Callers, Holds(c, Idle)
        PROVE  call'[Cleaner] = call[Cleaner]
    BY <1>2, <1>6 DEF Idle
  <1>7. CASE GraphStep \/ OutsideStep \/ Terminalize \/ UNCHANGED vars
    <2>1. call' = call
      <3>1. GraphStep => call' = call
        BY DEF GraphStep, Admits, Fails, Answers, BecomesCandidate, Integrates, Conflicts,
               OthersIntegrate, Unchanged
      <3>2. OutsideStep => call' = call
        BY DEF OutsideStep, WorktreeCreated, RemovalBegins, RemovalEnds,
                   SetupEnds, ChildCommits, Touched, OtherUnchanged
      <3> QED
        BY <1>7, <3>1, <3>2 DEF Terminalize, vars
    <2> QED
      BY <2>1
  <1>8. ASSUME NEW c \in Callers, PrepareStep(c)
        PROVE  call'[Cleaner] = call[Cleaner]
    <2>1. ASSUME NEW t \in Tasks, PrepareTask(c, t)
          PROVE  call'[Cleaner] = call[Cleaner]
      <3>1. PICK k : k = [Idle EXCEPT !.op = "plan", !.task = t, !.wave = WaveOf(t, Len(att[t]))]
        OBVIOUS
      <3> QED
        BY <1>2, <2>1, <3>1 DEF PrepareTask, Idle
    <2>2. CASE PlanWorktree(c)
      <3>1. PICK e, name, k : /\ k = [call[c] EXCEPT !.op = "inspect", !.exec = e, !.name = name]
                              /\ Holds(c, k)
        BY <2>2 DEF PlanWorktree
      <3>2. k.op # "remove"
        BY <1>1, <3>1 DEF CallOf
      <3> QED
        BY <1>2, <3>1, <3>2
    <2>3. CASE OpenWorktree(c)
      <3>1. \/ Holds(c, [call[c] EXCEPT !.op = "create"])
            \/ \E id \in Trees : Holds(c, [call[c] EXCEPT !.op = "attach", !.tree = id])
        BY <2>3 DEF OpenWorktree
      <3> QED
        BY <1>3, <1>4, <3>1
    <2>4. CASE CreateWorktree(c)
      BY <1>4, <2>4 DEF CreateWorktree
    <2>5. CASE AttachWorktree(c)
      BY <1>6, <2>5 DEF AttachWorktree
    <2> QED
      BY <1>8, <2>1, <2>2, <2>3, <2>4, <2>5 DEF PrepareStep
  <1>9. ASSUME NEW c \in Callers, CleanupStep(c) \/ CallEnds(c)
        PROVE  call'[Cleaner] = call[Cleaner] \/ CleanupCheck(Cleaner)
    <2>1. CASE CleanupLoad(c)
      <3>1. PICK k : k = [Idle EXCEPT !.op = "inspect", !.todo = CleanupTargets,
                                      !.done = IntegratedTasks, !.head = head]
        OBVIOUS
      <3> QED
        BY <1>2, <2>1, <3>1 DEF CleanupLoad, Idle
    <2>2. ASSUME NEW id \in Trees, NEW reachable \in BOOLEAN, CleanupInspect(c, id, reachable)
          PROVE  call'[Cleaner] = call[Cleaner]
      <3>1. PICK k : k = [call[c] EXCEPT !.op = "persist", !.tree = id,
                                         !.verdict = Verdict(id, call[c].done, reachable)]
        OBVIOUS
      <3>2. k.op # "remove"
        BY <1>1, <3>1 DEF CallOf
      <3> QED
        BY <1>2, <2>2, <3>1, <3>2 DEF CleanupInspect
    <2>3. CASE CleanupPersist(c)
      <3>1. Holds(c, [call[c] EXCEPT !.op = "check"]) \/ Holds(c, CleanupDone(c))
        BY <2>3 DEF CleanupPersist
      <3> QED
        BY <1>3, <1>5, <3>1
    <2>4. CASE CleanupRecord(c) \/ \E reachable \in BOOLEAN : CleanupRetain(c, reachable)
      BY <1>5, <2>4 DEF CleanupRecord, CleanupRetain
    <2>5. CASE CleanupCheck(c)
      <3>1. c # Cleaner => call'[Cleaner] = call[Cleaner]
        BY <1>1, <2>5 DEF CleanupCheck, Holds
      <3> QED
        BY <2>5, <3>1
    <2>6. CASE CleanupRemove(c)
      BY <1>3, <2>6 DEF CleanupRemove
    <2>7. CASE CleanupReturns(c) \/ CallEnds(c)
      BY <1>6, <2>7 DEF CleanupReturns, CallEnds
    <2> QED
      BY <1>9, <2>1, <2>2, <2>3, <2>4, <2>5, <2>6, <2>7 DEF CleanupStep
  <1> QED
    BY <1>7, <1>8, <1>9 DEF Next

\* What was asked to be removed, or is about to be, stays as expected.
LEMMA RemovedKeeps ==
    ASSUME NEW N, NEW W, Shape(N, W), CleanInv, PlanInv', [Next]_vars
    PROVE  RemovedAsExpected'
  <1>1. AttemptsStay /\ TreesStay
    BY StepKeepsAttempts, StepKeepsTrees DEF CleanInv
  <1>2. Owned /\ Owned' /\ Histories(N) /\ Len(trees) \in Nat
    BY DEF CleanInv, PlanInv, IInv, Shape, Histories
  <1>3. PICK M, V : Shape(M, V)'
    BY DEF PlanInv, IInv
  <1>4. Histories(M)'
    BY <1>3 DEF Shape, Histories
  <1> SUFFICES ASSUME NEW id \in 1..Len(trees'), trees'[id].asked \/ Removing(id)'
               PROVE  Users(id)' # {} /\ AsExpected(id)'
    BY DEF RemovedAsExpected
  <1>5. ASSUME id \in 1..Len(trees), trees[id].asked \/ Removing(id)
        PROVE  Users(id)' # {} /\ AsExpected(id)'
    <2>1. Users(id) # {} /\ AsExpected(id)
      BY <1>5 DEF CleanInv, RemovedAsExpected
    <2>2. trees[id].name.task \in IntegratedTasks
      <3>1. CASE trees[id].asked
        BY <1>5, <3>1 DEF CleanInv, PlanInv, IInv, Gone
      <3>2. CASE Removing(id)
        <4>1. CleansOne(call[Cleaner])
          BY <3>2, CallersAssumption, CleanerKnows DEF Removing, Cleaning, CleanInv, PlanInv
        <4> QED
          BY <3>2, <4>1 DEF Removing, CleansOne
      <3> QED
        BY <1>5, <3>1, <3>2
    <2>3. Users(id)' # {} /\ Expected(id)' = Expected(id)
      BY <1>1, <1>2, <1>4, <1>5, <2>1, <2>2, ExpectedStays
    <2>4. \/ trees'[id].lateChange
          \/ /\ trees'[id].content = trees[id].content
             /\ trees'[id].lateChange = trees[id].lateChange
      BY <1>1, <1>5 DEF TreesStay
    <2> QED
      BY <2>1, <2>3, <2>4 DEF AsExpected
  <1>6. ASSUME Removing(id)', ~Removing(id)
        PROVE  id \in 1..Len(trees) /\ Users(id)' # {} /\ AsExpected(id)'
    <2>1. CleanupCheck(Cleaner)
      BY <1>6, RemovingBegins DEF Removing
    <2>2. PICK q, k : q = call[Cleaner] /\ k = [q EXCEPT !.op = "remove"]
      OBVIOUS
    <2>3. /\ q.op = "check" /\ IsEvidence(q.tree) /\ call'[Cleaner] = k
          /\ UNCHANGED <<att, trees>>
      BY <2>1, <2>2, CallersAssumption
         DEF CleanupCheck, StillRemovable, Holds, Shape, JournalUnchanged, OutsideUnchanged, graph
    <2>4. q \in CallOf(N, W) /\ CleansOne(q)
      BY <2>2, <2>3, CallersAssumption, CleanerKnows DEF Cleaning, CleanInv, PlanInv
    <2>5. k.tree = q.tree
      BY <2>2, <2>4 DEF CallOf
    <2>6. q.tree = id
      BY <1>6, <2>3, <2>5 DEF Removing
    <2>7. q.tree \in q.todo
      BY <2>2, <2>3 DEF CleanInv, TargetsOpen, OpenTargets, Cleaning
    <2>8. Users(id) # {} /\ id \in 1..Len(trees)
      BY <2>3, <2>4, <2>6, <2>7 DEF CleansOne
    <2>9. trees[id].content = Expected(id)
      BY <2>3, <2>6 DEF IsEvidence
    <2>10. Users(id)' = Users(id) /\ Expected(id)' = Expected(id)
      BY <2>3 DEF Users, Expected, LastUser
    <2> QED
      BY <2>3, <2>8, <2>9, <2>10 DEF AsExpected
  <1>7. trees'[id].asked => id \in 1..Len(trees) /\ (trees[id].asked \/ Removing(id))
    BY <1>1 DEF TreesStay
  <1>8. CASE Removing(id)' /\ ~Removing(id)
    BY <1>6, <1>8
  <1>9. CASE ~(Removing(id)' /\ ~Removing(id))
    <2>1. trees[id].asked \/ Removing(id)
      BY <1>7, <1>9
    <2>2. id \in 1..Len(trees)
      <3>1. Removing(id) => CleansOne(call[Cleaner])
        BY CallersAssumption, CleanerKnows DEF Removing, Cleaning, CleanInv, PlanInv
      <3> QED
        BY <1>7, <1>9, <3>1 DEF Removing, CleansOne
    <2> QED
      BY <1>5, <2>1, <2>2
  <1> QED
    BY <1>8, <1>9

\* A step of a cleanup.  Every other step leaves the operations alone and the
\* cleaner's call too, unless it is then not that of a cleanup.
CleanStep ==
    \/ CleanupLoad(Cleaner)
    \/ \E id \in Trees, reachable \in BOOLEAN : CleanupInspect(Cleaner, id, reachable)
    \/ CleanupPersist(Cleaner)
    \/ \E reachable \in BOOLEAN : CleanupRetain(Cleaner, reachable)
    \/ CleanupCheck(Cleaner)
    \/ CleanupRemove(Cleaner)
    \/ CleanupRecord(Cleaner)

\* Every step is one of a cleanup or leaves the cleanup alone.
LEMMA CleanerMoves ==
    ASSUME NEW N, NEW W, Shape(N, W), PlanInv, [Next]_vars
    PROVE  \/ CleanStep
           \/ /\ cleanups' = cleanups
              /\ call'[Cleaner] = call[Cleaner] \/ ~Cleaning(call[Cleaner])'
  <1>1. Cleaner \in Callers /\ call \in [Callers -> CallOf(N, W)]
    BY CallersAssumption DEF Shape
  <1>2. ASSUME NEW c \in Callers, NEW k, Holds(c, k), ~Cleaning(k)
        PROVE  call'[Cleaner] = call[Cleaner] \/ ~Cleaning(call[Cleaner])'
    <2>1. call'[Cleaner] = call[Cleaner] \/ call'[Cleaner] = k
      BY <1>1, <1>2 DEF Holds
    <2> QED
      BY <1>2, <2>1 DEF Cleaning
  <1>3. ~Cleaning(Idle)
    BY DEF Idle, Cleaning
  <1>4. CASE GraphStep \/ OutsideStep \/ Terminalize \/ UNCHANGED vars
    <2>1. GraphStep => call' = call /\ cleanups' = cleanups
      BY DEF GraphStep, Admits, Fails, Answers, BecomesCandidate, Integrates, Conflicts,
             OthersIntegrate, Unchanged
    <2>2. OutsideStep => call' = call /\ cleanups' = cleanups
      BY DEF OutsideStep, WorktreeCreated, RemovalBegins, RemovalEnds,
                   SetupEnds, ChildCommits, Touched, OtherUnchanged
    <2> QED
      BY <1>4, <2>1, <2>2 DEF Terminalize, vars
  <1>5. ASSUME NEW c \in Callers, PrepareStep(c)
        PROVE  /\ cleanups' = cleanups
               /\ call'[Cleaner] = call[Cleaner] \/ ~Cleaning(call[Cleaner])'
    <2>1. cleanups' = cleanups
      BY <1>5 DEF PrepareStep, PrepareTask, PlanWorktree, OpenWorktree, CreateWorktree,
                  AttachWorktree, JournalUnchanged
    <2>2. ASSUME NEW t \in Tasks, PrepareTask(c, t)
          PROVE  call'[Cleaner] = call[Cleaner] \/ ~Cleaning(call[Cleaner])'
      <3>1. PICK k : k = [Idle EXCEPT !.op = "plan", !.task = t, !.wave = WaveOf(t, Len(att[t]))]
        OBVIOUS
      <3>2. ~Cleaning(k)
        BY <3>1 DEF Idle, Cleaning
      <3> QED
        BY <1>2, <2>2, <3>1, <3>2 DEF PrepareTask
    <2>3. CASE PlanWorktree(c)
      <3>1. PICK e, name, k : /\ k = [call[c] EXCEPT !.op = "inspect", !.exec = e, !.name = name]
                              /\ Holds(c, k)
        BY <2>3 DEF PlanWorktree
      <3>2. call[c].task # 0
        <4>1. PreparesOne(call[c]) /\ call[c].op = "plan"
          BY <2>3 DEF PlanWorktree, PlanInv, IInv, Prepares
        <4> QED
          BY <4>1 DEF PreparesOne, Tasks
      <3>3. ~Cleaning(k)
        BY <1>1, <3>1, <3>2 DEF CallOf, Cleaning
      <3> QED
        BY <1>2, <2>1, <3>1, <3>3
    <2>4. CASE OpenWorktree(c) \/ CreateWorktree(c)
      <3>1. PICK k : /\ Holds(c, k)
                     /\ \/ k = [call[c] EXCEPT !.op = "create"]
                        \/ \E id : k = [call[c] EXCEPT !.op = "attach", !.tree = id]
        BY <2>4 DEF OpenWorktree, CreateWorktree
      <3>2. k.op \in {"create", "attach"}
        BY <1>1, <3>1 DEF CallOf
      <3>3. ~Cleaning(k)
        BY <3>2 DEF Cleaning
      <3> QED
        BY <1>2, <2>1, <3>1, <3>3
    <2>5. CASE AttachWorktree(c)
      BY <1>2, <1>3, <2>1, <2>5 DEF AttachWorktree
    <2> QED
      BY <1>5, <2>1, <2>2, <2>3, <2>4, <2>5 DEF PrepareStep
  <1>6. ASSUME NEW c \in Callers, CleanupReturns(c) \/ CallEnds(c)
        PROVE  /\ cleanups' = cleanups
               /\ call'[Cleaner] = call[Cleaner] \/ ~Cleaning(call[Cleaner])'
    BY <1>2, <1>3, <1>6 DEF CleanupReturns, CallEnds, JournalUnchanged
  <1>7. ASSUME NEW c \in Callers, CleanupStep(c), ~CleanupReturns(c)
        PROVE  CleanStep
    <2>1. c = Cleaner
      <3>1. Cleaning(call[c]) => c = Cleaner
        BY CleanerKnows DEF PlanInv
      <3> QED
        BY <1>7, <3>1 DEF CleanupStep, CleanupLoad, CleanupInspect, CleanupPersist, CleanupRetain,
                          CleanupCheck, CleanupRemove, CleanupRecord, Cleaning
    <2> QED
      BY <1>7, <2>1 DEF CleanupStep, CleanStep
  <1> QED
    BY <1>4, <1>5, <1>6, <1>7 DEF Next

\* What a cleanup knows of its targets stays true while the operations do not
\* change: if every task is integrated no worktree gets its first user.
LEMMA OpenStays ==
    ASSUME AttemptsStay, cleanups' = cleanups, NEW k, k.done \subseteq IntegratedTasks,
           OpenTargets(k)
    PROVE  OpenTargets(k)'
  <1>1. ASSUME k.done = Tasks
        PROVE  AttachedTrees' = AttachedTrees
    <2>1. \A t \in Tasks : att'[t] = att[t]
      BY <1>1 DEF IntegratedTasks, AttemptsStay
    <2>2. \A id : Users(id)' = Users(id)
      BY <2>1 DEF Users
    <2> QED
      BY <2>2 DEF AttachedTrees
  <1> QED
    BY <1>1 DEF OpenTargets

\* What an operation that ended leaves to do.
LEMMA DoneIs ==
    ASSUME NEW N, NEW W, NEW c, call[c] \in CallOf(N, W)
    PROVE  /\ CleanupDone(c).op = "inspect" /\ CleanupDone(c).done = call[c].done
           /\ CleanupDone(c).todo = call[c].todo \ {call[c].tree}
  <1>1. PICK q, todo : q = call[c] /\ todo = q.todo \ {q.tree} /\ q \in CallOf(N, W)
    OBVIOUS
  <1>2. CleanupDone(c) = [q EXCEPT !.op = "inspect", !.tree = 0, !.verdict = "none", !.todo = todo]
    BY <1>1 DEF CleanupDone
  <1> QED
    BY <1>1, <1>2 DEF CallOf

\* What a step of a cleanup writes: nothing while it looks, and otherwise what
\* becomes of the target it works on.
Looks == cleanups' = cleanups /\ OpenTargets(call'[Cleaner])
Writes(id, v) ==
    /\ cleanups' = [cleanups EXCEPT ![id] = v]
    /\ Cleaning(call[Cleaner]) /\ id \in call[Cleaner].todo
    /\ call'[Cleaner].done = call[Cleaner].done
    /\ \/ /\ v = "planned"
          /\ call'[Cleaner].todo = call[Cleaner].todo
          /\ call'[Cleaner].tree = id
       \/ /\ v \in Ended
          /\ call'[Cleaner].todo = call[Cleaner].todo \ {id}
          /\ call'[Cleaner].op = "inspect"

\* A step of a cleanup looks or writes.
LEMMA CleanStepWrites ==
    ASSUME NEW N, NEW W, Shape(N, W), CleanInv, CleanStep
    PROVE  Looks \/ \E id \in Trees, v \in EndedOrPlanned : Writes(id, v)
  <1>1. Cleaner \in Callers /\ call \in [Callers -> CallOf(N, W)]
    BY CallersAssumption DEF Shape
  <1>2. PICK q : q = call[Cleaner]
    OBVIOUS
  <1>3. q \in CallOf(N, W) /\ (Cleaning(q) => CleansOne(q) /\ OpenTargets(q))
    BY <1>1, <1>2, CleanerKnows DEF CleanInv, PlanInv, TargetsOpen
  <1>4. q.op \in {"persist", "check", "remove", "record"} => q.tree \in q.todo /\ q.tree \in Trees
    BY <1>3 DEF Cleaning, OpenTargets, CallOf
  <1>5. \A k : Holds(Cleaner, k) => call'[Cleaner] = k
    BY <1>1 DEF Holds
  <1>6. ASSUME CleanupLoad(Cleaner)
        PROVE  Looks
    <2>1. PICK k : k = [Idle EXCEPT !.op = "inspect", !.todo = CleanupTargets,
                                    !.done = IntegratedTasks, !.head = head]
      OBVIOUS
    <2>2. k.op = "inspect" /\ k.todo = CleanupTargets
      BY <2>1 DEF Idle
    <2>3. call'[Cleaner] = k /\ cleanups' = cleanups
      BY <1>5, <1>6, <2>1 DEF CleanupLoad, JournalUnchanged
    <2>4. \A id \in Trees : cleanups[id] = "planned" => id \in CleanupTargets
      BY DEF CleanInv, UsedOnly, CleanupTargets, AttachedTrees, Ended
    <2>5. OpenTargets(k)
      BY <2>2, <2>4 DEF OpenTargets, CleanupTargets
    <2> QED
      BY <2>3, <2>5 DEF Looks
  <1>7. ASSUME NEW id \in Trees, NEW reachable \in BOOLEAN, CleanupInspect(Cleaner, id, reachable)
        PROVE  Looks
    <2>1. PICK k : k = [q EXCEPT !.op = "persist", !.tree = id,
                                 !.verdict = Verdict(id, q.done, reachable)]
      OBVIOUS
    <2>2. /\ q.op = "inspect" /\ q.task = 0 /\ id \in q.todo
          /\ call'[Cleaner] = k /\ cleanups' = cleanups
      BY <1>2, <1>5, <1>7, <2>1 DEF CleanupInspect, NextTarget, JournalUnchanged
    <2>3. k.op = "persist" /\ k.tree = id /\ k.todo = q.todo /\ k.done = q.done
      BY <1>3, <2>1 DEF CallOf
    <2>4. OpenTargets(k)
      BY <1>3, <2>2, <2>3 DEF OpenTargets, Cleaning
    <2> QED
      BY <2>2, <2>4 DEF Looks
  <1>8. ASSUME NEW op, call'[Cleaner] = [q EXCEPT !.op = op], q.op \in {"check", "remove"},
               cleanups' = cleanups
        PROVE  Looks
    <2>1. PICK k : k = [q EXCEPT !.op = op]
      OBVIOUS
    <2>2. k.tree = q.tree /\ k.todo = q.todo /\ k.done = q.done
      BY <1>3, <2>1 DEF CallOf
    <2>3. OpenTargets(k)
      BY <1>3, <1>8, <2>2 DEF OpenTargets, Cleaning
    <2> QED
      BY <1>8, <2>1, <2>3 DEF Looks
  <1>9. CASE CleanupCheck(Cleaner) \/ CleanupRemove(Cleaner)
    <2>1. PICK op : Holds(Cleaner, [q EXCEPT !.op = op])
      BY <1>2, <1>9 DEF CleanupCheck, CleanupRemove
    <2>2. cleanups' = cleanups /\ q.op \in {"check", "remove"}
      BY <1>2, <1>9 DEF CleanupCheck, CleanupRemove, JournalUnchanged
    <2> QED
      BY <1>5, <1>8, <2>1, <2>2
  <1>10. ASSUME NEW v \in Ended, q.op \in {"persist", "check", "remove", "record"},
                cleanups' = [cleanups EXCEPT ![q.tree] = v], Holds(Cleaner, CleanupDone(Cleaner))
         PROVE  \E id \in Trees, w \in EndedOrPlanned : Writes(id, w)
    <2>1. PICK k : k = CleanupDone(Cleaner)
      OBVIOUS
    <2>2. k.op = "inspect" /\ k.done = q.done /\ k.todo = q.todo \ {q.tree}
      BY <1>2, <1>3, <2>1, DoneIs
    <2>3. call'[Cleaner] = k
      BY <1>5, <1>10, <2>1
    <2>4. Writes(q.tree, v)
      BY <1>2, <1>4, <1>10, <2>2, <2>3 DEF Writes, Cleaning
    <2> QED
      BY <1>4, <1>10, <2>4 DEF Ended, EndedOrPlanned
  <1>11. CASE CleanupPersist(Cleaner)
    <2>1. /\ q.op = "persist" /\ cleanups' = [cleanups EXCEPT ![q.tree] = q.verdict]
          /\ q.verdict \in EndedOrPlanned
      BY <1>2, <1>3, <1>11 DEF CleanupPersist, Cleaning, CleansOne, CallOf, EndedOrPlanned
    <2>2. CASE q.verdict = "planned"
      <3>1. PICK k : k = [q EXCEPT !.op = "check"]
        OBVIOUS
      <3>2. k.tree = q.tree /\ k.todo = q.todo /\ k.done = q.done
        BY <1>3, <3>1 DEF CallOf
      <3>3. call'[Cleaner] = k
        BY <1>2, <1>5, <1>11, <2>2, <3>1 DEF CleanupPersist
      <3>4. Writes(q.tree, "planned")
        BY <1>2, <1>4, <2>1, <2>2, <3>2, <3>3 DEF Writes, Cleaning
      <3> QED
        BY <1>4, <2>1, <3>4 DEF EndedOrPlanned
    <2>3. CASE q.verdict # "planned"
      <3>1. Holds(Cleaner, CleanupDone(Cleaner)) /\ q.verdict \in Ended
        BY <1>2, <1>11, <2>1, <2>3 DEF CleanupPersist, EndedOrPlanned, Ended
      <3> QED
        BY <1>10, <2>1, <3>1
    <2> QED
      BY <2>2, <2>3
  <1>12. CASE \E reachable \in BOOLEAN : CleanupRetain(Cleaner, reachable)
    BY <1>2, <1>10, <1>12 DEF CleanupRetain, Ended
  <1>13. CASE CleanupRecord(Cleaner)
    BY <1>2, <1>10, <1>13 DEF CleanupRecord, Ended
  <1> QED
    BY <1>6, <1>7, <1>9, <1>11, <1>12, <1>13 DEF CleanStep

\* The operations a cleanup works through: only used worktrees have one, what is
\* open is what it still has, and what was retained stays retained.
LEMMA OperationsKeep ==
    ASSUME NEW N, NEW W, Shape(N, W), CleanInv, PlanInv', [Next]_vars
    PROVE  UsedOnly' /\ TargetsOpen' /\ (RetainedSome => RetainedSome')
  <1>1. AttemptsStay
    BY StepKeepsAttempts DEF CleanInv
  <1>2. Histories(N) /\ cleanups \in [Trees -> {"none", "planned", "removed", "retained"}]
        /\ Cleaner \in Callers /\ call[Cleaner] \in CallOf(N, W)
    BY CallersAssumption, CallShape DEF Shape, Histories
  <1>3. PICK M, V : Shape(M, V)'
    BY DEF PlanInv, IInv
  <1>4. \A id \in Trees : Users(id) # {} => Users(id)' # {}
    <2>1. Histories(M)'
      BY <1>3 DEF Shape, Histories
    <2> QED
      BY <1>1, <1>2, <2>1, UsersStay
  <1>5. PICK q, k : q = call[Cleaner] /\ k = call'[Cleaner]
    OBVIOUS
  <1>6. Cleaning(q) => CleansOne(q) /\ OpenTargets(q)
    BY <1>2, <1>5, CleanerKnows DEF CleanInv, PlanInv, TargetsOpen
  <1>7. Cleaning(k) => k.done \subseteq IntegratedTasks'
    BY <1>2, <1>5 DEF PlanInv, IInv, Cleans, Cleaning, CleansOne
  <1>8. CASE cleanups' = cleanups /\ (Cleaning(k) => OpenTargets(k) /\ k.done \subseteq IntegratedTasks)
    <2>1. UsedOnly'
      BY <1>4, <1>8 DEF CleanInv, UsedOnly
    <2>2. Cleaning(k) => OpenTargets(k)'
      BY <1>1, <1>8, OpenStays
    <2>3. TargetsOpen'
      BY <1>5, <2>2 DEF TargetsOpen, OpenTargets, Cleaning
    <2> QED
      BY <1>8, <2>1, <2>3 DEF RetainedSome
  <1>9. ASSUME NEW id \in Trees, NEW v \in EndedOrPlanned, Writes(id, v)
        PROVE  UsedOnly' /\ TargetsOpen' /\ (RetainedSome => RetainedSome')
    <2>1. /\ \A i \in Trees : cleanups'[i] = IF i = id THEN v ELSE cleanups[i]
          /\ id \in q.todo /\ k.done = q.done
          /\ \/ v = "planned" /\ k.todo = q.todo /\ k.tree = id
             \/ v \in Ended /\ k.todo = q.todo \ {id} /\ k.op = "inspect"
          /\ Cleaning(q)
      BY <1>2, <1>5, <1>9 DEF Writes
    <2>2. cleanups[id] \notin Ended /\ Users(id) # {} /\ q.done \subseteq IntegratedTasks
      BY <1>6, <1>9, <2>1 DEF OpenTargets, CleansOne
    <2>3. UsedOnly'
      BY <1>4, <2>1, <2>2 DEF CleanInv, UsedOnly
    <2>4. RetainedSome => RetainedSome'
      BY <2>1, <2>2 DEF RetainedSome, Ended
    <2>5. k.done = Tasks => AttachedTrees' = AttachedTrees
      <3>1. k.done = Tasks => \A t \in Tasks : att'[t] = att[t]
        BY <1>1, <2>1, <2>2 DEF IntegratedTasks, AttemptsStay
      <3>2. k.done = Tasks => \A i : Users(i)' = Users(i)
        BY <3>1 DEF Users
      <3> QED
        BY <3>2 DEF AttachedTrees
    <2>6. \A i \in AttachedTrees : i \in Trees
      BY DEF AttachedTrees
    <2>7. q.todo \subseteq Trees
      BY <1>2, <1>5 DEF CallOf
    <2>8. /\ \A i \in k.todo : cleanups'[i] \notin Ended
          /\ \A i \in Trees : cleanups'[i] = "planned" => i \in k.todo
          /\ k.op # "inspect" => k.tree \in k.todo
      BY <1>6, <1>9, <2>1, <2>2, <2>7 DEF OpenTargets, Ended
    <2>9. k.done = Tasks => \A i \in AttachedTrees : i \in k.todo \/ cleanups'[i] \in Ended
      <3> SUFFICES ASSUME k.done = Tasks, NEW i \in AttachedTrees
                   PROVE  i \in k.todo \/ cleanups'[i] \in Ended
        OBVIOUS
      <3>1. i \in q.todo \/ cleanups[i] \in Ended
        BY <1>6, <1>9, <2>1 DEF OpenTargets
      <3> QED
        BY <2>1, <2>2, <2>6, <3>1
    <2>10. OpenTargets(k)'
      BY <2>5, <2>8, <2>9 DEF OpenTargets
    <2>11. TargetsOpen'
      BY <1>5, <2>10 DEF TargetsOpen, OpenTargets
    <2> QED
      BY <2>3, <2>4, <2>11
  <1>10. CASE CleanStep
    <2>1. CASE Looks
      <3>1. Cleaning(k) => k.done \subseteq IntegratedTasks
        <4>1. att' = att
          BY <1>10 DEF CleanStep, CleanupLoad, CleanupInspect, CleanupPersist, CleanupRetain,
                       CleanupCheck, CleanupRemove, CleanupRecord, JournalUnchanged, graph
        <4>2. IntegratedTasks' = IntegratedTasks
          BY <4>1 DEF IntegratedTasks, Integrated
        <4> QED
          BY <1>7, <4>2
      <3> QED
        BY <1>5, <1>8, <2>1, <3>1 DEF Looks
    <2>2. CASE ~Looks
      <3>1. PICK id \in Trees, v \in EndedOrPlanned : Writes(id, v)
        BY <1>10, <2>2, CleanStepWrites
      <3> QED
        BY <1>9, <3>1
    <2> QED
      BY <2>1, <2>2
  <1>11. CASE cleanups' = cleanups /\ (k = q \/ ~Cleaning(k))
    BY <1>6, <1>8, <1>11 DEF CleansOne
  <1>12. ~Cleaning(call[Cleaner])' => ~Cleaning(k)
    BY <1>5 DEF Cleaning
  <1> QED
    BY <1>5, <1>10, <1>11, <1>12, CleanerMoves DEF CleanInv

\* What a cleanup reports: if it did not clean, something was retained, because
\* an operation that is only planned is one of its targets.
LEMMA ReportsKeep ==
    ASSUME NEW N, NEW W, Shape(N, W), CleanInv, [Next]_vars, RetainedSome => RetainedSome'
    PROVE  ReportsRetained'
  <1>1. ASSUME report' = report \/ (report' = "blocked" => RetainedSome'),
               dState' = dState \/ (dState' = "blocked" => RetainedSome')
        PROVE  ReportsRetained'
    BY <1>1 DEF CleanInv, ReportsRetained
  <1>2. ASSUME NEW c \in Callers, CleanupReturns(c), report' = "blocked"
        PROVE  RetainedSome'
    <2>1. c = Cleaner /\ Cleaning(call[Cleaner])
      BY <1>2, CleanerKnows DEF CleanupReturns, Cleaning, CleanInv, PlanInv
    <2>2. call[Cleaner].todo = {} /\ NotRemoved # {}
      BY <1>2, <2>1 DEF CleanupReturns
    <2>3. PICK id \in Trees : cleanups[id] \notin {"none", "removed"}
      BY <2>2 DEF NotRemoved
    <2>4. cleanups[id] # "planned"
      BY <2>1, <2>2 DEF CleanInv, TargetsOpen, OpenTargets
    <2>5. cleanups[id] = "retained"
      BY <2>3, <2>4 DEF Shape
    <2> QED
      BY <2>5 DEF RetainedSome
  <1>3. CASE Terminalize
    <2>1. report = "blocked" /\ report' = report
      BY <1>3 DEF Terminalize
    <2> QED
      BY <1>1, <2>1 DEF CleanInv, ReportsRetained
  <1>4. CASE GraphStep \/ OutsideStep \/ UNCHANGED vars
    <2>1. GraphStep => report' = report /\ dState' = dState
      BY DEF GraphStep, Admits, Fails, Answers, BecomesCandidate, Integrates, Conflicts,
             OthersIntegrate, Unchanged
    <2>2. OutsideStep => report' = report /\ dState' = dState
      BY DEF OutsideStep, WorktreeCreated, RemovalBegins, RemovalEnds,
                   SetupEnds, ChildCommits, Touched, OtherUnchanged, graph
    <2> QED
      BY <1>1, <1>4, <2>1, <2>2 DEF vars
  <1>5. ASSUME NEW c \in Callers, PrepareStep(c)
        PROVE  ReportsRetained'
    <2>1. dState' = dState
      BY <1>5 DEF PrepareStep, PrepareTask, PlanWorktree, OpenWorktree, CreateWorktree,
                  AttachWorktree, JournalUnchanged, graph
    <2>2. report' = report
      BY <1>5 DEF PrepareStep, PrepareTask, PlanWorktree, OpenWorktree, CreateWorktree,
                  AttachWorktree, OutsideUnchanged
    <2> QED
      BY <1>1, <2>1, <2>2
  <1>6. ASSUME NEW c \in Callers, CleanupStep(c) \/ CallEnds(c)
        PROVE  ReportsRetained'
    <2>1. dState' = dState
      BY <1>6 DEF CleanupStep, CleanupLoad, CleanupInspect, CleanupPersist, CleanupRetain,
                  CleanupCheck, CleanupRemove, CleanupRecord, CleanupReturns, CallEnds,
                  JournalUnchanged, graph
    <2>2. CleanupReturns(c) \/ report' = report
      BY <1>6 DEF CleanupStep, CleanupLoad, CleanupInspect, CleanupPersist, CleanupRetain,
                  CleanupCheck, CleanupRemove, CleanupRecord, CallEnds, OutsideUnchanged
    <2> QED
      BY <1>1, <1>2, <2>1, <2>2
  <1> QED
    BY <1>3, <1>4, <1>5, <1>6 DEF Next

\* All of it holds when nothing was begun ...
LEMMA CleanInitLemma ==
    Init => CleanInv
  <1> SUFFICES ASSUME Init PROVE CleanInv
    OBVIOUS
  <1>1. UsedOnly /\ ReportsRetained
    BY DEF Init, UsedOnly, ReportsRetained
  <1>2. call[Cleaner] = Idle /\ trees = <<>>
    BY CallersAssumption DEF Init
  <1>3. TargetsOpen /\ RemovedAsExpected
    BY <1>2 DEF TargetsOpen, RemovedAsExpected, Cleaning, Idle
  <1> QED
    BY <1>1, <1>3, PlanInitLemma DEF CleanInv

\* ... and is kept by every step.
LEMMA CleanNextLemma ==
    CleanInv /\ [Next]_vars => CleanInv'
  <1> SUFFICES ASSUME CleanInv, [Next]_vars
               PROVE  CleanInv'
    OBVIOUS
  <1>1. PlanInv /\ PlanInv'
    BY PlanNextLemma DEF CleanInv
  <1>2. PICK N, W : Shape(N, W)
    BY <1>1 DEF PlanInv, IInv
  <1>3. UsedOnly' /\ TargetsOpen' /\ (RetainedSome => RetainedSome')
    BY <1>1, <1>2, OperationsKeep
  <1>4. ReportsRetained'
    BY <1>2, <1>3, ReportsKeep
  <1>5. RemovedAsExpected'
    BY <1>1, <1>2, RemovedKeeps
  <1> QED
    BY <1>1, <1>3, <1>4, <1>5 DEF CleanInv

\* So it holds throughout.
LEMMA CleanInvariance == Spec => []CleanInv
  BY CleanInitLemma, CleanNextLemma, PTL DEF Spec

\* Batuta removes a worktree only when its task is integrated and it holds what
\* the journal recorded, unless somebody changed it between the last look under
\* the lock and the removal, which may come long after the call gave up:
\* cleanupAttempt looks again before it sends the command, and nothing moves the
\* attempts of an integrated task any more.
THEOREM RemovalsAreSafe == Spec => []RemovalIsSafe
  <1>1. CleanInv => RemovalIsSafe
    <2> SUFFICES ASSUME CleanInv, NEW id \in DOMAIN trees, trees[id].removed, NEW x \in Users(id)
                 PROVE  Integrated(x[1]) /\ AsExpected(id)
      BY DEF RemovalIsSafe, AsExpected
    <2>1. PICK N, W : Shape(N, W)
      BY DEF CleanInv, PlanInv, IInv
    <2>2. id \in 1..Len(trees) /\ id \in Trees
      <3>1. DOMAIN trees = 1..Len(trees) /\ Len(trees) \in Nat /\ Len(trees) <= MaxTrees
        BY <2>1 DEF Shape
      <3> QED
        BY <3>1, SizesAssumption DEF Trees
    <2>3. trees[id].name.task = x[1]
      BY <2>1, <2>2, UserIs DEF CleanInv
    <2>4. trees[id].asked /\ trees[id].name.task \in IntegratedTasks
      BY <2>2 DEF CleanInv, PlanInv, IInv, Gone
    <2> QED
      BY <2>2, <2>3, <2>4 DEF CleanInv, RemovedAsExpected, IntegratedTasks
  <1> QED
    BY <1>1, CleanInvariance, PTL

\* A cleanup that began when every task was integrated and is about to report
\* cleaned leaves no worktree behind but one that no attempt has and whose create
\* command outlived its call: every attached one was a target, and what a call
\* waited for was attached before its task went on.
THEOREM CleanedLeavesNothing == Spec => []CleanedMeansGone
  <1>1. CleanInv => CleanedMeansGone
    <2> SUFFICES ASSUME CleanInv,
                        call[Cleaner].op = "inspect", call[Cleaner].task = 0,
                        call[Cleaner].todo = {}, call[Cleaner].done = Tasks, NotRemoved = {},
                        NEW id \in DOMAIN trees
                 PROVE  trees[id].state = "removed" \/ (trees[id].lateCreate /\ Users(id) = {})
      BY DEF CleanedMeansGone
    <2>1. PICK N, W : Shape(N, W)
      BY DEF CleanInv, PlanInv, IInv
    <2>2. id \in 1..Len(trees) /\ id \in Trees /\ id # 0
      <3>1. DOMAIN trees = 1..Len(trees) /\ Len(trees) \in Nat /\ Len(trees) <= MaxTrees
        BY <2>1 DEF Shape
      <3> QED
        BY <3>1, SizesAssumption DEF Trees
    <2>3. Cleaning(call[Cleaner])
      BY DEF Cleaning
    <2>4. Tasks \subseteq IntegratedTasks
      BY <2>1, <2>3, CallersAssumption, CleanerKnows DEF CleanInv, PlanInv, CleansOne
    <2>5. CASE Users(id) # {}
      <3>1. cleanups[id] \in Ended
        BY <2>2, <2>3, <2>5 DEF CleanInv, TargetsOpen, OpenTargets, AttachedTrees
      <3>2. cleanups[id] = "removed"
        BY <2>2, <3>1 DEF NotRemoved, Ended
      <3> QED
        BY <2>2, <3>2 DEF CleanInv, PlanInv, IInv, Gone
    <2>6. CASE Users(id) = {}
      <3>1. PICK t : t = trees[id].name.task
        OBVIOUS
      <3>2. t \in Tasks /\ PlannedIn(att[t], id)
        BY <2>2, <3>1 DEF CleanInv, PlanInv, TreesPlanned
      <3>3. PICK e \in 1..Len(att[t]) : att[t][e].tree \in {0, id} \/ trees[id].lateCreate
        BY <3>2 DEF PlannedIn
      <3>4. att[t][e].tree # 0
        <4>1. AttemptPlans(att[t][e], e = Len(att[t]))
          BY <3>2, <3>3 DEF CleanInv, PlanInv, AttemptsPlan, HistoryPlans
        <4>2. e = Len(att[t]) => att[t][e].state = "integrated"
          BY <2>4, <3>2 DEF IntegratedTasks, Integrated, Last
        <4> QED
          BY <4>1, <4>2 DEF AttemptPlans
      <3>5. att[t][e].tree # id
        <4>1. Len(att[t]) \in Nat /\ Len(att[t]) <= MaxExec
          BY <2>1, <3>2 DEF Shape
        <4>2. att[t][e].tree = id => <<t, e>> \in Users(id)
          BY <3>2, <3>3, <4>1, SizesAssumption DEF Users
        <4> QED
          BY <2>6, <4>2
      <3> QED
        BY <2>6, <3>3, <3>4, <3>5
    <2> QED
      BY <2>5, <2>6
  <1> QED
    BY <1>1, CleanInvariance, PTL

\* A delivery closed as blocked after its cleanup stays blocked for a reason: the
\* report that closed it came from a cleanup that had no planned removal left to
\* complete, so something was recorded as retained, and that record stays.
THEOREM BlockedForAReason == Spec => []BlockedHasEvidence
  <1>1. CleanInv => BlockedHasEvidence
    BY DEF CleanInv, ReportsRetained, RetainedSome, BlockedHasEvidence
  <1> QED
    BY <1>1, CleanInvariance, PTL

\* The attempts of an integrated task are final and an attempt keeps its
\* worktree, whatever a prepare_wave or cleanup call that was cut off left.
THEOREM AttemptsAreFinal == Spec => [][AttemptsStay]_vars
  <1>1. PlanInv /\ [Next]_vars => AttemptsStay
    <2> SUFFICES ASSUME PlanInv, [Next]_vars PROVE AttemptsStay
      OBVIOUS
    <2>1. PICK N, W : Shape(N, W)
      BY DEF PlanInv, IInv
    <2> QED
      BY <2>1, StepKeepsAttempts
  <1> QED
    BY <1>1, PlanInvariance, PTL DEF Spec

-----------------------------------------------------------------------------
(* The waves and the names *)

\* The waves of a task, and how many its attempts account for: one for the first
\* attempt and one for each that follows an attempt without an answer.
WavesOf(t) == {w \in 1..Len(waves) : waves[w].task = t}
Unanswered(h) == {f \in 1..(Len(h) - 1) : h[f].state # "answered"}
WaveCount(h) == IF h = <<>> THEN 0 ELSE 1 + Cardinality(Unanswered(h))
WavesMatch ==
    /\ waves \in Seq([task: Tasks, base: Nat])
    /\ \A t \in Tasks : Cardinality(WavesOf(t)) = WaveCount(att[t])

\* A call that plans a worktree knows a wave that exists, and every name is one.
NamesKnown(k) ==
    /\ k.name \in Name /\ k.wave \in Nat
    /\ k.op = "plan" => k.wave \in 1..Len(waves)
IntentsNamed == \A t \in Tasks : \A e \in 1..Len(att[t]) : att[t][e].intent \in Name
CallsNamed == \A c \in Callers : NamesKnown(call[c])

\* The variables the other invariants say nothing of.
Rest == /\ touched \in 0..Touches
        /\ dState \in {"active", "blocked"}
        /\ report \in {"none", "cleaned", "blocked"}

TypeInv == PlanInv /\ WavesMatch /\ IntentsNamed /\ CallsNamed /\ Rest

\* A set of n elements has a first, a second, ..., and an n-th one.
LEMMA KthElement ==
    ASSUME NEW n \in Nat, NEW S \in SUBSET (1..n), NEW k \in Nat, k # 0, k <= Cardinality(S)
    PROVE  \E w \in S : Cardinality({v \in 1..w : v \in S}) = k
  <1> DEFINE P(m) == {v \in 1..m : v \in S}
             T == {m \in Nat : k <= Cardinality(P(m))}
  <1>1. \A m \in Nat : IsFiniteSet(P(m)) /\ Cardinality(P(m)) \in Nat
    <2> TAKE m \in Nat
    <2>1. IsFiniteSet(1..m) /\ P(m) \subseteq 1..m
      BY FS_Interval
    <2> QED
      BY <2>1, FS_Subset, FS_CardinalityType
  <1>2. n \in T
    <2>1. P(n) = S
      OBVIOUS
    <2> HIDE DEF P
    <2> QED
      BY <2>1
  <1>3. PICK m \in T : \A i \in T : m <= i
    <2>1. T \subseteq Nat
      OBVIOUS
    <2> HIDE DEF T
    <2> QED
      BY <1>2, <2>1, Least
  <1>4. m \in Nat /\ k <= Cardinality(P(m))
    OBVIOUS
  <1>5. m # 0
    <2>1. P(0) = {}
      OBVIOUS
    <2>2. Cardinality(P(0)) = 0
      BY <2>1, FS_EmptySet
    <2> HIDE DEF P, T
    <2> QED
      BY <1>4, <2>2
  <1>6. m - 1 \in Nat /\ ~(k <= Cardinality(P(m - 1)))
    <2>1. m - 1 \in Nat /\ ~(m <= m - 1)
      BY <1>4, <1>5
    <2>2. m - 1 \notin T
      <3> HIDE DEF T
      <3> QED
        BY <1>3, <2>1
    <2> HIDE DEF P
    <2> QED
      BY <2>1, <2>2
  <1>7. m \in S /\ P(m) = P(m - 1) \cup {m} /\ m \notin P(m - 1)
    <2>1. 1..m = (1..(m - 1)) \cup {m} /\ m \notin 1..(m - 1)
      BY <1>4, <1>5
    <2>2. m \notin S => P(m) = P(m - 1)
      BY <2>1
    <2>3. m \in S
      <3> HIDE DEF P
      <3> QED
        BY <1>4, <1>6, <2>2
    <2> QED
      BY <2>1, <2>3
  <1>8. Cardinality(P(m)) = Cardinality(P(m - 1)) + 1
    <2> HIDE DEF P
    <2> QED
      BY <1>1, <1>6, <1>7, FS_AddElement
  <1>9. Cardinality(P(m)) = k
    <2> HIDE DEF P
    <2> QED
      BY <1>1, <1>4, <1>6, <1>8
  <1> QED
    BY <1>7, <1>9

\* The waves of a task are finitely many.
LEMMA WavesOfFinite ==
    ASSUME waves \in Seq([task: Tasks, base: Nat]), NEW t
    PROVE  /\ WavesOf(t) \in SUBSET (1..Len(waves)) /\ Len(waves) \in Nat
           /\ IsFiniteSet(WavesOf(t)) /\ Cardinality(WavesOf(t)) \in Nat
  <1>1. Len(waves) \in Nat /\ WavesOf(t) \subseteq 1..Len(waves)
    BY DEF WavesOf
  <1>2. IsFiniteSet(1..Len(waves))
    BY <1>1, FS_Interval
  <1> QED
    BY <1>1, <1>2, FS_Subset, FS_CardinalityType

\* So are the attempts without an answer.
LEMMA UnansweredFinite ==
    ASSUME NEW A, NEW h \in Seq(A), h # <<>>
    PROVE  IsFiniteSet(Unanswered(h)) /\ Cardinality(Unanswered(h)) \in Nat
  <1>1. Len(h) - 1 \in Nat /\ Unanswered(h) \subseteq 1..(Len(h) - 1)
    BY DEF Unanswered
  <1>2. IsFiniteSet(1..(Len(h) - 1))
    BY <1>1, FS_Interval
  <1> QED
    BY <1>1, <1>2, FS_Subset, FS_CardinalityType

\* graphWaveForAttempt finds the wave of a task's latest attempt.
LEMMA WaveOfExists ==
    ASSUME NEW N, Histories(N), WavesMatch, NEW t \in Tasks, att[t] # <<>>
    PROVE  WaveOf(t, Len(att[t])) \in 1..Len(waves)
  <1>1. PICK S, e, k : /\ S = WavesOf(t) /\ e = Len(att[t])
                       /\ k = WaveOrdinal(t, e)
    OBVIOUS
  <1>2. k = 1 + Cardinality(Unanswered(att[t]))
    BY <1>1 DEF WaveOrdinal, Unanswered
  <1>3. Cardinality(Unanswered(att[t])) \in Nat
    BY UnansweredFinite DEF Histories
  <1>4. k \in Nat /\ k # 0 /\ k <= Cardinality(S) /\ S \in SUBSET (1..Len(waves)) /\ Len(waves) \in Nat
    <2>1. Cardinality(S) = k
      BY <1>1, <1>2 DEF WavesMatch, WaveCount
    <2> QED
      BY <1>1, <1>2, <1>3, <2>1, WavesOfFinite DEF WavesMatch
  <1>5. PICK w \in S : Cardinality({v \in 1..w : v \in S}) = k
    BY <1>4, KthElement
  <1>6. w \in DOMAIN waves /\ waves[w].task = t
    BY <1>1, <1>4 DEF WavesOf, WavesMatch
  <1>7. {v \in 1..w : v \in S} = {v \in 1..w : waves[v].task = t}
    BY <1>1, <1>4 DEF WavesOf
  <1>8. \E x \in DOMAIN waves :
           /\ waves[x].task = t
           /\ Cardinality({v \in 1..x : waves[v].task = t}) = WaveOrdinal(t, e)
    BY <1>1, <1>5, <1>6, <1>7
  <1>9. WaveOf(t, e) \in DOMAIN waves
    BY <1>8 DEF WaveOf
  <1> QED
    BY <1>1, <1>9 DEF WavesMatch

\* A history that only closes its latest attempt accounts for the same waves ...
LEMMA WaveCountSame ==
    ASSUME NEW A, NEW h \in Seq(A), NEW s, Len(s) = Len(h), s # <<>> <=> h # <<>>,
           \A f \in 1..Len(h) : f # Len(h) => (s[f].state = "answered" <=> h[f].state = "answered")
    PROVE  WaveCount(s) = WaveCount(h)
  <1>1. \A f \in 1..(Len(h) - 1) : f \in 1..Len(h) /\ f # Len(h)
    OBVIOUS
  <1>2. Unanswered(s) = Unanswered(h)
    BY <1>1 DEF Unanswered
  <1> QED
    BY <1>2 DEF WaveCount

\* ... and one that goes on for one more, unless the latest attempt is answered.
LEMMA WaveCountNext ==
    ASSUME NEW A, NEW h \in Seq(A), h # <<>>, NEW s, Len(s) = Len(h) + 1, s # <<>>,
           \A f \in 1..Len(h) : f # Len(h) => (s[f].state = "answered" <=> h[f].state = "answered")
    PROVE  /\ s[Len(h)].state = "answered" => WaveCount(s) = WaveCount(h)
           /\ s[Len(h)].state # "answered" => WaveCount(s) = WaveCount(h) + 1
  <1>1. PICK n : n = Len(h)
    OBVIOUS
  <1>2. n \in Nat /\ n # 0 /\ 1..n = (1..(n - 1)) \cup {n} /\ n \notin 1..(n - 1)
        /\ Len(s) - 1 = n
    BY <1>1
  <1>3. Unanswered(h) = {f \in 1..(n - 1) : s[f].state # "answered"}
    BY <1>1, <1>2 DEF Unanswered
  <1>4. Unanswered(s) = {f \in 1..n : s[f].state # "answered"}
    BY <1>2 DEF Unanswered
  <1>5. IsFiniteSet(Unanswered(h)) /\ Cardinality(Unanswered(h)) \in Nat
    BY UnansweredFinite
  <1>6. CASE s[n].state = "answered"
    <2>1. Unanswered(s) = Unanswered(h)
      BY <1>2, <1>3, <1>4, <1>6
    <2> QED
      BY <1>1, <1>6, <2>1 DEF WaveCount
  <1>7. CASE s[n].state # "answered"
    <2>1. Unanswered(s) = Unanswered(h) \cup {n} /\ n \notin Unanswered(h)
      BY <1>2, <1>3, <1>4, <1>7
    <2>2. Cardinality(Unanswered(s)) = Cardinality(Unanswered(h)) + 1
      BY <1>5, <2>1, FS_AddElement
    <2> QED
      BY <1>1, <1>5, <1>7, <2>2 DEF WaveCount
  <1> QED
    BY <1>1, <1>6, <1>7

\* Task t gets the history s, and a wave of its own if it accounts for one more.
LEMMA OneTaskMatches ==
    ASSUME NEW N, Histories(N), WavesMatch, NEW t \in Tasks, NEW s, NEW b \in Nat,
           att' = [att EXCEPT ![t] = s],
           \/ waves' = waves /\ WaveCount(s) = WaveCount(att[t])
           \/ /\ waves' = Append(waves, [task |-> t, base |-> b])
              /\ WaveCount(s) = WaveCount(att[t]) + 1
    PROVE  WavesMatch'
  <1>1. \A u \in Tasks : att'[u] = IF u = t THEN s ELSE att[u]
    BY DEF Histories
  <1>2. CASE waves' = waves /\ WaveCount(s) = WaveCount(att[t])
    <2>1. \A u : WavesOf(u)' = WavesOf(u)
      BY <1>2 DEF WavesOf
    <2>2. \A u \in Tasks : WaveCount(att'[u]) = WaveCount(att[u])
      BY <1>1, <1>2
    <2> QED
      BY <1>2, <2>1, <2>2 DEF WavesMatch, WaveCount, Unanswered
  <1>3. CASE /\ waves' = Append(waves, [task |-> t, base |-> b])
             /\ WaveCount(s) = WaveCount(att[t]) + 1
    <2>1. PICK n, w : n = Len(waves) + 1 /\ w = [task |-> t, base |-> b]
      OBVIOUS
    <2>2. waves \in Seq([task: Tasks, base: Nat]) /\ w \in [task: Tasks, base: Nat] /\ w.task = t
      BY <2>1 DEF WavesMatch
    <2>3. /\ waves' \in Seq([task: Tasks, base: Nat]) /\ Len(waves') = n /\ waves'[n] = w
          /\ \A v \in 1..Len(waves) : waves'[v] = waves[v]
          /\ 1..n = (1..Len(waves)) \cup {n} /\ n \notin 1..Len(waves)
      BY <1>3, <2>1, <2>2
    <2>4. ASSUME NEW u \in Tasks
          PROVE  Cardinality(WavesOf(u)') = WaveCount(att'[u])
      <3>1. CASE u = t
        <4>1. WavesOf(t)' = WavesOf(t) \cup {n} /\ n \notin WavesOf(t)
          BY <2>2, <2>3 DEF WavesOf
        <4>2. Cardinality(WavesOf(t)') = Cardinality(WavesOf(t)) + 1
          <5>1. PICK U : U = WavesOf(t)
            OBVIOUS
          <5>2. IsFiniteSet(U) /\ n \notin U /\ WavesOf(t)' = U \cup {n}
            BY <2>2, <4>1, <5>1, WavesOfFinite
          <5>3. Cardinality(U \cup {n}) = Cardinality(U) + 1
            BY <5>2, FS_AddElement
          <5> QED
            BY <5>1, <5>2, <5>3
        <4> QED
          BY <1>1, <1>3, <3>1, <4>2 DEF WavesMatch
      <3>2. CASE u # t
        <4>1. WavesOf(u)' = WavesOf(u)
          BY <2>2, <2>3, <3>2 DEF WavesOf
        <4> QED
          BY <1>1, <3>2, <4>1 DEF WavesMatch
      <3> QED
        BY <3>1, <3>2
    <2> QED
      BY <2>3, <2>4 DEF WavesMatch, WaveCount, Unanswered
  <1> QED
    BY <1>2, <1>3

\* The latest attempt is closed without an answer, and a new one follows, in a
\* wave of its own, or not.
LEMMA ContinuesMatches ==
    ASSUME NEW N, Histories(N), head \in Nat, WavesMatch, NEW t \in Tasks, att[t] # <<>>,
           NEW x, x # "answered", NEW retry \in BOOLEAN, Continues(t, Closes(t, x), retry)
    PROVE  WavesMatch'
  <1>1. PICK h, a, s, r :
           /\ h = att[t] /\ a = [h[Len(h)] EXCEPT !.state = x]
           /\ s = [h EXCEPT ![Len(h)] = a]
           /\ r = Append(s, NewAttempt(Len(s) + 1))
    OBVIOUS
  <1>2. h \in Seq(AttemptOf(N)) /\ h # <<>>
    BY <1>1 DEF Histories
  <1>3. Len(h) \in 1..Len(h) /\ Len(h) \in Nat /\ h[Len(h)] \in AttemptOf(N)
    BY <1>2
  <1>4. a.state = x
    BY <1>1, <1>3 DEF AttemptOf
  <1>5. /\ s \in Seq(AttemptOf(N) \cup {a}) /\ Len(s) = Len(h) /\ s[Len(h)] = a /\ s # <<>>
        /\ \A f \in 1..Len(h) : f # Len(h) => s[f] = h[f]
    <2>1. s = [h EXCEPT ![Len(h)] = a]
      BY <1>1
    <2>2. h \in Seq(AttemptOf(N) \cup {a})
      BY <1>2
    <2>3. s \in Seq(AttemptOf(N) \cup {a}) /\ Len(s) = Len(h) /\ s[Len(h)] = a
      BY <1>3, <2>1, <2>2
    <2>4. s # <<>>
      BY <1>3, <2>3
    <2>5. \A f \in 1..Len(h) : f # Len(h) => s[f] = h[f]
      BY <1>2, <2>1
    <2> QED
      BY <2>3, <2>4, <2>5
  <1>6. /\ Len(r) = Len(h) + 1 /\ r # <<>>
        /\ \A f \in 1..Len(h) : r[f] = s[f]
    <2>1. PICK b : b = NewAttempt(Len(s) + 1) /\ r = Append(s, b)
      BY <1>1
    <2> QED
      BY <1>3, <1>5, <2>1
  <1>7. Closes(t, x) = s
    BY <1>1 DEF Closes
  <1>8. CASE ~retry
    <2>1. WaveCount(s) = WaveCount(h)
      BY <1>2, <1>5, WaveCountSame
    <2>2. att' = [att EXCEPT ![t] = s] /\ waves' = waves
      BY <1>7, <1>8 DEF Continues
    <2> QED
      BY <1>1, <2>1, <2>2, OneTaskMatches
  <1>9. CASE retry
    <2>1. r[Len(h)].state # "answered"
      BY <1>3, <1>4, <1>5, <1>6
    <2>2. WaveCount(r) = WaveCount(h) + 1
      BY <1>2, <1>3, <1>5, <1>6, <2>1, WaveCountNext
    <2>3. att' = [att EXCEPT ![t] = r] /\ waves' = Append(waves, [task |-> t, base |-> head])
      BY <1>1, <1>7, <1>9 DEF Continues
    <2> QED
      BY <1>1, <2>2, <2>3, OneTaskMatches
  <1> QED
    BY <1>8, <1>9

\* An attempt that does not become answered changes no wave, if it is the latest
\* one or was not answered.
LEMMA LatestMatches ==
    ASSUME NEW N, Histories(N), WavesMatch, NEW t \in Tasks, NEW e \in 1..Len(att[t]), NEW a,
           a.state # "answered", att[t][e].state # "answered" \/ e = Len(att[t]),
           att' = [att EXCEPT ![t] = [att[t] EXCEPT ![e] = a]], waves' = waves
    PROVE  WavesMatch'
  <1>1. PICK h, s : h = att[t] /\ s = [h EXCEPT ![e] = a]
    OBVIOUS
  <1>2. h \in Seq(AttemptOf(N)) /\ Len(h) \in Nat /\ e \in 1..Len(h) /\ h # <<>>
    BY <1>1 DEF Histories
  <1>3. h \in Seq(AttemptOf(N) \cup {a})
    BY <1>2
  <1>4. /\ Len(s) = Len(h) /\ s[e] = a /\ \A f \in 1..Len(h) : f # e => s[f] = h[f]
    BY <1>1, <1>2, <1>3
  <1>5. s # <<>>
    BY <1>2, <1>4
  <1>6. \A f \in 1..Len(h) : f # Len(h) => (s[f].state = "answered" <=> h[f].state = "answered")
    BY <1>1, <1>4
  <1>7. WaveCount(s) = WaveCount(h)
    BY <1>2, <1>4, <1>5, <1>6, WaveCountSame
  <1> QED
    BY <1>1, <1>7, OneTaskMatches, 0 \in Nat

\* The waves match the attempts after every step.
LEMMA WavesKeep ==
    ASSUME NEW N, NEW W, Shape(N, W), PlanInv, WavesMatch, [Next]_vars
    PROVE  WavesMatch' /\ Len(waves') >= Len(waves)
  <1>1. Histories(N) /\ NoName \in N /\ head \in Nat /\ trees \in Seq(TreeOf(N))
        /\ waves \in Seq([task: Tasks, base: Nat]) /\ Len(waves) \in Nat
    BY DEF Shape, Histories, WavesMatch
  <1>2. ASSUME att' = att, waves' = waves
        PROVE  WavesMatch'
    BY <1>2 DEF WavesMatch, WavesOf, WaveCount, Unanswered
  <1>3. Len(waves') >= Len(waves)
    <2>1. waves' = waves \/ \E w : waves' = Append(waves, w)
      <3>1. GraphStep => waves' = waves \/ \E w : waves' = Append(waves, w)
        BY DEF GraphStep, Admits, Fails, Answers, BecomesCandidate, Integrates, Conflicts,
               OthersIntegrate, Continues
      <3>2. OutsideStep \/ Terminalize \/ UNCHANGED vars => waves' = waves
        BY DEF OutsideStep, WorktreeCreated, RemovalBegins, RemovalEnds,
                   SetupEnds, ChildCommits, Touched, OtherUnchanged, Terminalize, vars,
               graph
      <3>3. (\E c \in Callers : PrepareStep(c)) => waves' = waves
        BY DEF PrepareStep, PrepareTask, PlanWorktree, OpenWorktree, CreateWorktree,
               AttachWorktree, JournalUnchanged, graph
      <3>4. (\E c \in Callers : CleanupStep(c) \/ CallEnds(c)) => waves' = waves
        BY DEF CleanupStep, CleanupLoad, CleanupInspect, CleanupPersist, CleanupRetain,
               CleanupCheck, CleanupRemove, CleanupRecord, CleanupReturns, CallEnds,
               JournalUnchanged, graph
      <3> QED
        BY <3>1, <3>2, <3>3, <3>4 DEF Next
    <2> QED
      BY <1>1, <2>1
  <1>4. ASSUME NEW t \in Tasks, Admits(t)
        PROVE  WavesMatch'
    <2>1. PICK r : r = Append(<<>>, NewAttempt(1))
      OBVIOUS
    <2>2. Len(r) = 1 /\ r # <<>>
      BY <2>1
    <2>3. WaveCount(r) = 1
      <3>1. Unanswered(r) = {}
        BY <2>2 DEF Unanswered
      <3> QED
        BY <2>2, <3>1, FS_EmptySet DEF WaveCount
    <2>4. /\ att' = [att EXCEPT ![t] = r] /\ waves' = Append(waves, [task |-> t, base |-> head])
          /\ WaveCount(att[t]) = 0
      BY <1>4, <2>1 DEF Admits, Continues, WaveCount
    <2>5. WaveCount(r) = WaveCount(att[t]) + 1
      BY <2>3, <2>4
    <2>6. PICK b : b = head
      OBVIOUS
    <2>7. b \in Nat /\ waves' = Append(waves, [task |-> t, base |-> b])
      BY <1>1, <2>4, <2>6
    <2> QED
      BY <1>1, <2>4, <2>5, <2>7, OneTaskMatches
  <1>5. ASSUME NEW t \in Tasks, NEW retry \in BOOLEAN, Fails(t, retry)
        PROVE  WavesMatch'
    BY <1>1, <1>5, ContinuesMatches DEF Fails
  <1>6. ASSUME NEW t \in Tasks, Answers(t)
        PROVE  WavesMatch'
    <2>1. PICK h, a, s, r :
             /\ h = att[t] /\ a = [h[Len(h)] EXCEPT !.state = "answered"]
             /\ s = [h EXCEPT ![Len(h)] = a] /\ r = Append(s, h[Len(h)])
      OBVIOUS
    <2>2. h \in Seq(AttemptOf(N)) /\ h # <<>>
      BY <1>1, <1>6, <2>1 DEF Histories, Answers
    <2>3. Len(h) \in 1..Len(h) /\ Len(h) \in Nat /\ h[Len(h)] \in AttemptOf(N)
      BY <2>2
    <2>4. a.state = "answered"
      BY <2>1, <2>3 DEF AttemptOf
    <2>5. h \in Seq(AttemptOf(N) \cup {a})
      BY <2>2
    <2>6. s \in Seq(AttemptOf(N) \cup {a}) /\ Len(s) = Len(h) /\ s[Len(h)] = a
          /\ \A f \in 1..Len(h) : f # Len(h) => s[f] = h[f]
      BY <2>1, <2>3, <2>5
    <2>7. Len(r) = Len(h) + 1 /\ r # <<>> /\ \A f \in 1..Len(h) : r[f] = s[f]
      BY <2>1, <2>3, <2>6
    <2>8. WaveCount(r) = WaveCount(h)
      BY <2>2, <2>3, <2>4, <2>6, <2>7, WaveCountNext
    <2>9. att' = [att EXCEPT ![t] = r] /\ waves' = waves
      BY <1>6, <2>1 DEF Answers, Closes, Last
    <2> QED
      BY <1>1, <2>1, <2>8, <2>9, OneTaskMatches
  <1>7. ASSUME NEW t \in Tasks, BecomesCandidate(t)
        PROVE  WavesMatch'
    <2>1. PICK h, a : h = att[t] /\ a = [h[Len(h)] EXCEPT !.state = "candidate", !.commit = TRUE]
      OBVIOUS
    <2>2. h \in Seq(AttemptOf(N)) /\ h # <<>>
      BY <1>1, <1>7, <2>1 DEF Histories, BecomesCandidate
    <2>3. Len(h) \in 1..Len(h) /\ h[Len(h)] \in AttemptOf(N)
      BY <2>2
    <2>4. a.state = "candidate"
      BY <2>1, <2>3 DEF AttemptOf
    <2>5. att' = [att EXCEPT ![t] = [h EXCEPT ![Len(h)] = a]] /\ waves' = waves
      BY <1>7, <2>1 DEF BecomesCandidate
    <2> QED
      BY <1>1, <2>1, <2>3, <2>4, <2>5, LatestMatches
  <1>8. ASSUME NEW t \in Tasks, Integrates(t)
        PROVE  WavesMatch'
    <2>1. Continues(t, Closes(t, "integrated"), FALSE) /\ att[t] # <<>>
      BY <1>8 DEF Integrates, Continues
    <2> QED
      BY <1>1, <2>1, ContinuesMatches
  <1>9. ASSUME NEW t \in Tasks, NEW retry \in BOOLEAN, Conflicts(t, retry)
        PROVE  WavesMatch'
    <2> DEFINE x == IF retry THEN "conflicted" ELSE "blocked"
    <2>1. att[t] # <<>> /\ Continues(t, Closes(t, x), retry)
      BY <1>9 DEF Conflicts
    <2>2. x # "answered"
      OBVIOUS
    <2> HIDE DEF x
    <2> QED
      BY <1>1, <2>1, <2>2, ContinuesMatches
  <1>10. CASE GraphStep
    <2>1. OthersIntegrate => WavesMatch'
      BY <1>2 DEF OthersIntegrate
    <2> QED
      BY <1>3, <1>4, <1>5, <1>6, <1>7, <1>8, <1>9, <1>10, <2>1 DEF GraphStep
  <1>11. CASE OutsideStep \/ Terminalize \/ UNCHANGED vars
    <2>1. att' = att /\ waves' = waves
      BY <1>11 DEF OutsideStep, WorktreeCreated, RemovalBegins, RemovalEnds,
                   SetupEnds, ChildCommits, Touched, OtherUnchanged, Terminalize, vars,
                   graph
    <2> QED
      BY <1>2, <1>3, <2>1
  <1>12. ASSUME NEW c \in Callers, PlanWorktree(c)
         PROVE  WavesMatch'
    <2>1. PICK t, e, name, a :
             /\ t = call[c].task /\ e = Len(att[t]) /\ name = Identity(call[c].wave, t, att[t][e].run)
             /\ a = [att[t][e] EXCEPT !.intent = name]
      OBVIOUS
    <2>2. t \in Tasks /\ att[t] # <<>>
      <3>1. PreparesOne(call[c]) /\ call[c].op = "plan"
        BY <1>12 DEF PlanWorktree, PlanInv, IInv, Prepares
      <3> QED
        BY <2>1, <3>1 DEF PreparesOne
    <2>3. att[t] \in Seq(AttemptOf(N))
      BY <1>1, <2>2 DEF Histories
    <2>4. e = Len(att[t]) /\ e \in 1..Len(att[t])
      BY <2>1, <2>2, <2>3
    <2>5. att[t][e] \in AttemptOf(N)
      BY <2>3, <2>4
    <2>6. a.state = att[t][e].state /\ waves' = waves
          /\ att' = [att EXCEPT ![t] = [att[t] EXCEPT ![e] = a]]
      BY <1>12, <2>1, <2>5 DEF PlanWorktree, AttemptOf
    <2>7. WaveCount(att[t]) = WaveCount([att[t] EXCEPT ![e] = a])
      <3>1. PICK s : s = [att[t] EXCEPT ![e] = a]
        OBVIOUS
      <3>2. att[t] \in Seq(AttemptOf(N) \cup {a})
        BY <2>3
      <3>3. Len(s) = Len(att[t]) /\ \A f \in 1..Len(att[t]) : f # e => s[f] = att[t][f]
        BY <2>4, <3>1, <3>2
      <3>4. s # <<>>
        BY <2>3, <2>4, <3>3
      <3> QED
        BY <2>2, <2>3, <2>4, <3>1, <3>3, <3>4, WaveCountSame
    <2> QED
      BY <1>1, <2>2, <2>6, <2>7, OneTaskMatches
  <1>13. ASSUME NEW c \in Callers, AttachWorktree(c)
         PROVE  WavesMatch'
    <2>1. PICK t, e, id, a :
             /\ t = call[c].task /\ e = call[c].exec /\ id = call[c].tree
             /\ a = [att[t][e] EXCEPT !.tree = id,
                       !.state = IF trees[id].state = "ready" /\ trees[id].healthy THEN "running" ELSE @]
      OBVIOUS
    <2>2. /\ PreparesOne(call[c]) /\ call[c].op = "attach" /\ waves' = waves
          /\ att[t][e].state \in {"preparing", "running"}
      BY <1>13, <2>1 DEF AttachWorktree, PlanInv, IInv, Prepares
    <2>3. t \in Tasks /\ e \in 1..Len(att[t])
      BY <2>1, <2>2 DEF PreparesOne
    <2>4. att[t][e] \in AttemptOf(N)
      BY <1>1, <2>3 DEF Histories
    <2>5. a.state # "answered"
      BY <2>1, <2>2, <2>4 DEF AttemptOf
    <2>6. att' = [att EXCEPT ![t] = [att[t] EXCEPT ![e] = a]]
      <3>1. att' = [att EXCEPT ![t] = [@ EXCEPT ![e] = a]]
        BY ZenonT(60), <1>13, <2>1 DEF AttachWorktree
      <3> QED
        BY <3>1
    <2> QED
      BY <1>1, <2>2, <2>3, <2>5, <2>6, LatestMatches
  <1>14. ASSUME NEW c \in Callers, PrepareStep(c)
         PROVE  WavesMatch'
    <2>1. \/ PlanWorktree(c) \/ AttachWorktree(c)
          \/ att' = att /\ waves' = waves
      BY <1>14 DEF PrepareStep, PrepareTask, OpenWorktree, CreateWorktree, JournalUnchanged, graph
    <2> QED
      BY <1>2, <1>12, <1>13, <2>1
  <1>15. ASSUME NEW c \in Callers, CleanupStep(c) \/ CallEnds(c)
         PROVE  WavesMatch'
    <2>1. att' = att /\ waves' = waves
      BY <1>15 DEF CleanupStep, CleanupLoad, CleanupInspect, CleanupPersist, CleanupRetain,
                   CleanupCheck, CleanupRemove, CleanupRecord, CleanupReturns, CallEnds,
                   JournalUnchanged, graph
    <2> QED
      BY <1>2, <2>1
  <1> QED
    BY <1>3, <1>10, <1>11, <1>14, <1>15 DEF Next

\* A name derived from a wave that exists is a name.
LEMMA IdentityIsName ==
    ASSUME WavesMatch, NEW w \in 1..Len(waves), NEW t \in Tasks, NEW exec \in 1..MaxExec
    PROVE  Identity(w, t, exec) \in Name
  <1>1. waves[w] \in [task: Tasks, base: Nat] /\ Len(waves) \in Nat
    <2>1. PICK A : A = [task: Tasks, base: Nat]
      OBVIOUS
    <2>2. waves \in Seq(A)
      BY <2>1 DEF WavesMatch
    <2>3. waves[w] \in A /\ Len(waves) \in Nat
      BY <2>2
    <2> QED
      BY <2>1, <2>3
  <1>2. w \in Nat /\ waves[w].base \in Nat /\ t \in 0..NTasks /\ exec \in 0..MaxExec
    BY <1>1, SizesAssumption DEF Tasks
  <1> QED
    BY <1>2 DEF Identity, Name

\* So is the one that stands for none.
LEMMA NoNameIsName ==
    NoName \in Name
  BY SizesAssumption DEF NoName, Name

\* The calls know names if the call that steps does.
LEMMA OthersNamed ==
    ASSUME NEW N, NEW W, Shape(N, W), CallsNamed, NEW c \in Callers, NEW k, Holds(c, k),
           WavesMatch, Len(waves') >= Len(waves), Len(waves') \in Nat, NamesKnown(k)'
    PROVE  CallsNamed'
  <1>1. /\ call'[c] = k
        /\ \A d \in Callers : d # c => call'[d] = call[d] /\ NamesKnown(call[d])
    BY DEF Shape, Holds, CallsNamed
  <1>2. Len(waves) \in Nat
    BY DEF WavesMatch
  <1>3. \A d \in Callers : NamesKnown(call[d])'
    BY <1>1, <1>2 DEF NamesKnown
  <1> QED
    BY <1>3 DEF CallsNamed

\* A call that goes on with the wave and the name it has, and plans no more.
LEMMA SameNames ==
    ASSUME NEW k, NamesKnown(k), NEW q, q.name = k.name, q.wave = k.wave, q.op # "plan"
    PROVE  NamesKnown(q)'
  BY DEF NamesKnown

\* Attempt e of task t becomes b, which has a name.
LEMMA OneIntentNamed ==
    ASSUME NEW N, Histories(N), IntentsNamed, NEW t \in Tasks, NEW e \in 1..Len(att[t]), NEW b,
           b.intent \in Name, att' = [att EXCEPT ![t] = [att[t] EXCEPT ![e] = b]]
    PROVE  IntentsNamed'
  <1>1. PICK s : s = [att[t] EXCEPT ![e] = b]
    OBVIOUS
  <1>2. att[t] \in Seq(AttemptOf(N) \cup {b})
    BY DEF Histories
  <1>3. /\ Len(s) = Len(att[t]) /\ s[e] = b
        /\ \A f \in 1..Len(att[t]) : f # e => s[f] = att[t][f]
    BY <1>1, <1>2
  <1>4. \A u \in Tasks : att'[u] = IF u = t THEN s ELSE att[u]
    BY <1>1 DEF Histories
  <1>5. \A f \in 1..Len(s) : s[f].intent \in Name
    BY <1>3 DEF IntentsNamed
  <1> QED
    BY <1>4, <1>5 DEF IntentsNamed

\* Attempts that go on have names.
LEMMA GoesOnNamed ==
    ASSUME NEW N, NEW M, Histories(N), Histories(M)', IntentsNamed,
           \A t \in Tasks : GoesOn(att[t], att'[t])
    PROVE  IntentsNamed'
  <1> SUFFICES ASSUME NEW t \in Tasks, NEW e \in 1..Len(att'[t])
               PROVE  att'[t][e].intent \in Name
    BY DEF IntentsNamed
  <1>1. PICK h, s : h = att[t] /\ s = att'[t]
    OBVIOUS
  <1>2. h \in Seq(AttemptOf(N)) /\ s \in Seq(AttemptOf(M)) /\ Len(h) \in Nat /\ Len(s) \in Nat
        /\ e \in 1..Len(s) /\ GoesOn(h, s) /\ \A f \in 1..Len(h) : h[f].intent \in Name
    BY <1>1 DEF Histories, IntentsNamed
  <1>3. \A a : Fresh(a) => a.intent \in Name
    BY NoNameIsName DEF Fresh
  <1>4. CASE s = h
    BY <1>1, <1>2, <1>4
  <1>5. CASE h = <<>> /\ Len(s) = 1 /\ Fresh(s[1])
    <2>1. e = 1
      BY <1>2, <1>5
    <2> QED
      BY <1>1, <1>3, <1>5, <2>1
  <1>6. CASE /\ h # <<>>
             /\ Len(s) \in {Len(h), Len(h) + 1}
             /\ \A f \in 1..Len(h) : f # Len(h) => s[f] = h[f]
             /\ Over(h[Len(h)], s[Len(h)])
             /\ Len(s) = Len(h) + 1 => \/ Fresh(s[Len(s)])
                                       \/ s[Len(s)] = h[Len(h)]
    <2>1. Len(h) \in 1..Len(h)
      BY <1>2, <1>6
    <2>2. CASE e = Len(h)
      <3>1. s[e].intent = h[e].intent
        BY <1>6, <2>2 DEF Over
      <3> QED
        BY <1>1, <1>2, <2>1, <2>2, <3>1
    <2>3. CASE e \in 1..Len(h) /\ e # Len(h)
      BY <1>1, <1>2, <1>6, <2>3
    <2>4. CASE e = Len(h) + 1 /\ Len(s) = Len(h) + 1
      BY <1>1, <1>2, <1>3, <1>6, <2>1, <2>4
    <2> QED
      BY <1>2, <1>6, <2>2, <2>3, <2>4
  <1> QED
    BY <1>2, <1>4, <1>5, <1>6 DEF GoesOn

\* A call that looks for the worktree of its task works on the attempt it planned.
LEMMA PlanNames ==
    ASSUME NEW N, NEW W, Shape(N, W), TypeInv, NEW c \in Callers, PlanWorktree(c),
           WavesMatch', Len(waves') >= Len(waves)
    PROVE  IntentsNamed' /\ CallsNamed'
  <1>1. PICK t, e, name, b, k :
           /\ t = call[c].task /\ e = Len(att[t]) /\ name = Identity(call[c].wave, t, att[t][e].run)
           /\ b = [att[t][e] EXCEPT !.intent = name]
           /\ k = [call[c] EXCEPT !.op = "inspect", !.exec = e, !.name = name]
    OBVIOUS
  <1>2. t \in Tasks /\ att[t] # <<>> /\ NamesKnown(call[c]) /\ call[c].op = "plan"
    <2>1. PreparesOne(call[c]) /\ call[c].op = "plan" /\ NamesKnown(call[c])
      BY DEF PlanWorktree, TypeInv, PlanInv, IInv, Prepares, CallsNamed
    <2> QED
      BY <1>1, <2>1 DEF PreparesOne
  <1>3. Histories(N) /\ att[t] \in Seq(AttemptOf(N))
    BY <1>2 DEF Shape, Histories
  <1>4. e = Len(att[t]) /\ e \in 1..Len(att[t])
    <2>1. e = Len(att[t])
      BY <1>1
    <2>2. Len(att[t]) \in Nat /\ Len(att[t]) # 0
      BY <1>2, <1>3
    <2> QED
      BY <2>1, <2>2
  <1>5. att[t][e] \in AttemptOf(N)
    BY <1>3, <1>4
  <1>6. name \in Name
    <2>1. att[t][e].run \in 1..MaxExec
      BY <1>5 DEF AttemptOf
    <2>2. call[c].wave \in 1..Len(waves)
      BY <1>2 DEF NamesKnown
    <2> QED
      BY <1>1, <1>2, <2>1, <2>2, IdentityIsName DEF TypeInv
  <1>7. b.intent = name
    BY <1>1, <1>5 DEF AttemptOf
  <1>8. att' = [att EXCEPT ![t] = [att[t] EXCEPT ![e] = b]] /\ Holds(c, k)
    BY <1>1 DEF PlanWorktree
  <1>9. IntentsNamed'
    BY <1>2, <1>3, <1>4, <1>6, <1>7, <1>8, OneIntentNamed DEF TypeInv
  <1>10. NamesKnown(k)'
    <2>1. call[c] \in CallOf(N, W)
      BY CallShape
    <2>2. k.name = name /\ k.wave = call[c].wave /\ k.op = "inspect"
      BY <1>1, <2>1 DEF CallOf
    <2> QED
      BY <1>2, <1>6, <2>2 DEF NamesKnown
  <1>11. CallsNamed'
    <2>1. Len(waves') \in Nat
      BY DEF WavesMatch
    <2>2. CallsNamed /\ WavesMatch
      BY DEF TypeInv
    <2> QED
      BY <1>8, <1>10, <2>1, <2>2, OthersNamed
  <1> QED
    BY <1>9, <1>11

\* A call that attaches a worktree leaves the attempt its name.
LEMMA AttachNames ==
    ASSUME NEW N, NEW W, Shape(N, W), TypeInv, NEW c \in Callers, AttachWorktree(c)
    PROVE  IntentsNamed'
  <1>1. PICK t, e, id, a :
           /\ t = call[c].task /\ e = call[c].exec /\ id = call[c].tree
           /\ a = [att[t][e] EXCEPT !.tree = id,
                     !.state = IF trees[id].state = "ready" /\ trees[id].healthy THEN "running" ELSE @]
    OBVIOUS
  <1>2. PreparesOne(call[c]) /\ call[c].op = "attach"
    BY DEF AttachWorktree, TypeInv, PlanInv, IInv, Prepares
  <1>3. t \in Tasks /\ e \in 1..Len(att[t])
    BY <1>1, <1>2 DEF PreparesOne
  <1>4. Histories(N) /\ att[t][e] \in AttemptOf(N)
    BY <1>3 DEF Shape, Histories
  <1>5. a.intent \in Name
    <2>1. a.intent = att[t][e].intent
      BY <1>1, <1>4 DEF AttemptOf
    <2> QED
      BY <1>3, <2>1 DEF TypeInv, IntentsNamed
  <1>6. att' = [att EXCEPT ![t] = [att[t] EXCEPT ![e] = a]]
    <2>1. att' = [att EXCEPT ![t] = [@ EXCEPT ![e] = a]]
      BY <1>1 DEF AttachWorktree
    <2> QED
      BY <2>1
  <1> QED
    BY <1>3, <1>4, <1>5, <1>6, OneIntentNamed DEF TypeInv

\* A prepare_wave call knows a wave that exists, and keeps the name it has.
LEMMA PrepareNames ==
    ASSUME NEW N, NEW W, Shape(N, W), TypeInv, NEW c \in Callers, PrepareStep(c),
           WavesMatch', Len(waves') >= Len(waves)
    PROVE  IntentsNamed' /\ CallsNamed'
  <1>1. call[c] \in CallOf(N, W) /\ NamesKnown(call[c]) /\ CallsNamed /\ WavesMatch /\ IntentsNamed
        /\ Histories(N) /\ Len(waves') \in Nat /\ Len(waves) \in Nat
    <2>1. CallsNamed /\ WavesMatch /\ IntentsNamed
      BY DEF TypeInv
    <2>2. Len(waves) \in Nat /\ Len(waves') \in Nat
      BY <2>1 DEF WavesMatch
    <2> QED
      BY <2>1, <2>2, CallShape DEF CallsNamed, Shape, Histories
  <1>2. att' = att => IntentsNamed'
    BY <1>1 DEF IntentsNamed
  <1>3. ASSUME NEW k, Holds(c, k), NamesKnown(k)'
        PROVE  CallsNamed'
    BY <1>1, <1>3, OthersNamed
  <1>4. NamesKnown(Idle)'
    BY NoNameIsName DEF NamesKnown, Idle
  <1>5. CASE \E t \in Tasks : PrepareTask(c, t)
    <2>1. PICK t \in Tasks : PrepareTask(c, t)
      BY <1>5
    <2>2. PICK w, k : /\ w = WaveOf(t, Len(att[t]))
                      /\ k = [Idle EXCEPT !.op = "plan", !.task = t, !.wave = w]
      OBVIOUS
    <2>3. Holds(c, k) /\ att[t] # <<>> /\ att' = att
      BY <2>1, <2>2 DEF PrepareTask, JournalUnchanged, graph
    <2>4. w \in 1..Len(waves)
      BY <1>1, <2>2, <2>3, WaveOfExists
    <2>5. w \in 1..Len(waves') /\ w \in Nat
      BY <1>1, <2>4
    <2>6. k.name = NoName /\ k.wave = w
      BY <2>2 DEF Idle
    <2>7. NamesKnown(k)'
      BY <2>5, <2>6, NoNameIsName DEF NamesKnown
    <2> QED
      BY <1>2, <1>3, <2>3, <2>7
  <1>6. CASE PlanWorktree(c)
    BY <1>6, PlanNames
  <1>7. ASSUME NEW op \in {"create", "attach"},
               \/ Holds(c, [call[c] EXCEPT !.op = op])
               \/ \E id : Holds(c, [call[c] EXCEPT !.op = op, !.tree = id])
        PROVE  CallsNamed'
    <2>1. PICK k : /\ Holds(c, k)
                   /\ \/ k = [call[c] EXCEPT !.op = op]
                      \/ \E id : k = [call[c] EXCEPT !.op = op, !.tree = id]
      BY <1>7
    <2>2. k.name = call[c].name /\ k.wave = call[c].wave /\ k.op # "plan"
      BY <1>1, <1>7, <2>1 DEF CallOf
    <2> QED
      BY <1>1, <1>3, <2>1, <2>2, SameNames
  <1>8. CASE OpenWorktree(c)
    <2>1. \/ Holds(c, [call[c] EXCEPT !.op = "create"])
          \/ \E id : Holds(c, [call[c] EXCEPT !.op = "attach", !.tree = id])
      BY <1>8 DEF OpenWorktree
    <2>2. att' = att
      BY <1>8 DEF OpenWorktree, JournalUnchanged, graph
    <2> QED
      BY <1>2, <1>7, <2>1, <2>2
  <1>9. CASE CreateWorktree(c)
    <2>1. \E id : Holds(c, [call[c] EXCEPT !.op = "attach", !.tree = id])
      BY <1>9 DEF CreateWorktree
    <2>2. att' = att
      BY <1>9 DEF CreateWorktree, JournalUnchanged, graph
    <2> QED
      BY <1>2, <1>7, <2>1, <2>2
  <1>10. CASE AttachWorktree(c)
    <2>1. Holds(c, Idle)
      BY <1>10 DEF AttachWorktree
    <2>2. PICK k : k = Idle
      OBVIOUS
    <2>3. NamesKnown(k)'
      BY <1>4, <2>2 DEF NamesKnown, Idle
    <2>4. CallsNamed'
      BY <1>3, <2>1, <2>2, <2>3
    <2> QED
      BY <1>10, <2>4, AttachNames
  <1> QED
    BY <1>5, <1>6, <1>8, <1>9, <1>10 DEF PrepareStep

\* So does a cleanup, and a call that ends has none.
LEMMA CleanupNames ==
    ASSUME NEW N, NEW W, Shape(N, W), TypeInv, NEW c \in Callers, CleanupStep(c) \/ CallEnds(c),
           WavesMatch', Len(waves') >= Len(waves)
    PROVE  IntentsNamed' /\ CallsNamed'
  <1>1. call[c] \in CallOf(N, W) /\ NamesKnown(call[c]) /\ CallsNamed /\ WavesMatch /\ IntentsNamed
        /\ Len(waves') \in Nat
    <2>1. CallsNamed /\ WavesMatch /\ IntentsNamed
      BY DEF TypeInv
    <2>2. Len(waves') \in Nat
      BY DEF WavesMatch
    <2> QED
      BY <2>1, <2>2, CallShape DEF CallsNamed
  <1>2. IntentsNamed'
    <2>1. att' = att
      BY CleanupPlans DEF TypeInv
    <2> QED
      BY <1>1, <2>1 DEF IntentsNamed
  <1>3. ASSUME NEW k, Holds(c, k), k.op # "plan",
               (k.name = call[c].name /\ k.wave = call[c].wave) \/ (k.name = NoName /\ k.wave = 0)
        PROVE  CallsNamed'
    <2>1. NamesKnown(k)'
      BY <1>1, <1>3, NoNameIsName DEF NamesKnown
    <2> QED
      BY <1>1, <1>3, <2>1, OthersNamed
  <1>4. ASSUME NEW op, op # "plan", Holds(c, [call[c] EXCEPT !.op = op])
        PROVE  CallsNamed'
    <2>1. PICK k : k = [call[c] EXCEPT !.op = op]
      OBVIOUS
    <2>2. k.op = op /\ k.name = call[c].name /\ k.wave = call[c].wave
      BY <1>1, <2>1 DEF CallOf
    <2> QED
      BY <1>3, <1>4, <2>1, <2>2
  <1>5. ASSUME Holds(c, CleanupDone(c))
        PROVE  CallsNamed'
    <2>1. PICK k : k = CleanupDone(c)
      OBVIOUS
    <2>2. k.op = "inspect" /\ k.name = call[c].name /\ k.wave = call[c].wave
      BY <1>1, <2>1 DEF CallOf, CleanupDone
    <2> QED
      BY <1>3, <1>5, <2>1, <2>2
  <1>6. ASSUME CleanupLoad(c)
        PROVE  CallsNamed'
    <2>1. PICK k : k = [Idle EXCEPT !.op = "inspect", !.todo = CleanupTargets,
                                    !.done = IntegratedTasks, !.head = head]
      OBVIOUS
    <2> QED
      BY <1>3, <1>6, <2>1 DEF CleanupLoad, Idle
  <1>7. ASSUME NEW id \in Trees, NEW reachable \in BOOLEAN, CleanupInspect(c, id, reachable)
        PROVE  CallsNamed'
    <2>1. PICK k : k = [call[c] EXCEPT !.op = "persist", !.tree = id,
                                       !.verdict = Verdict(id, call[c].done, reachable)]
      OBVIOUS
    <2>2. k.op = "persist" /\ k.name = call[c].name /\ k.wave = call[c].wave
      BY <1>1, <2>1 DEF CallOf
    <2> QED
      BY <1>3, <1>7, <2>1, <2>2 DEF CleanupInspect
  <1>8. ASSUME CleanupPersist(c)
        PROVE  CallsNamed'
    BY <1>4, <1>5, <1>8 DEF CleanupPersist
  <1>9. ASSUME NEW reachable \in BOOLEAN, CleanupRetain(c, reachable)
        PROVE  CallsNamed'
    BY <1>5, <1>9 DEF CleanupRetain
  <1>10. ASSUME CleanupCheck(c) \/ CleanupRemove(c)
         PROVE  CallsNamed'
    <2>1. \/ Holds(c, [call[c] EXCEPT !.op = "remove"])
          \/ Holds(c, [call[c] EXCEPT !.op = "record"])
      BY <1>10 DEF CleanupCheck, CleanupRemove
    <2> QED
      BY <1>4, <2>1
  <1>11. ASSUME CleanupRecord(c)
         PROVE  CallsNamed'
    BY <1>5, <1>11 DEF CleanupRecord
  <1>12. ASSUME CleanupReturns(c) \/ CallEnds(c)
         PROVE  CallsNamed'
    <2>1. PICK k : k = Idle
      OBVIOUS
    <2> QED
      BY <1>3, <1>12, <2>1 DEF CleanupReturns, CallEnds, Idle
  <1>13. CallsNamed'
    BY <1>6, <1>7, <1>8, <1>9, <1>10, <1>11, <1>12 DEF CleanupStep
  <1> QED
    BY <1>2, <1>13

\* The counters and flags stay in their ranges.
LEMMA RestKeeps ==
    Rest /\ [Next]_vars => Rest'
  <1> SUFFICES ASSUME Rest, [Next]_vars PROVE Rest'
    OBVIOUS
  <1>1. CASE GraphStep
    BY <1>1 DEF GraphStep, Admits, Fails, Answers, BecomesCandidate, Integrates, Conflicts,
                OthersIntegrate, Unchanged, Rest
  <1>2. CASE OutsideStep
    <2>1. touched' = touched \/ (touched < Touches /\ touched' = touched + 1)
      BY <1>2 DEF OutsideStep, WorktreeCreated, RemovalBegins, RemovalEnds, SetupEnds,
                  ChildCommits, Touched
    <2>2. UNCHANGED <<dState, report>>
      BY <1>2 DEF OutsideStep, WorktreeCreated, RemovalBegins, RemovalEnds,
                   SetupEnds, ChildCommits, Touched, OtherUnchanged, graph
    <2> QED
      BY <2>1, <2>2, SizesAssumption DEF Rest
  <1>3. CASE Terminalize \/ UNCHANGED vars
    BY <1>3 DEF Terminalize, vars, Rest
  <1>4. ASSUME NEW c \in Callers, PrepareStep(c)
        PROVE  Rest'
    <2>1. UNCHANGED <<touched, dState, report>>
      BY <1>4 DEF PrepareStep, PrepareTask, PlanWorktree, OpenWorktree, CreateWorktree,
                  AttachWorktree, JournalUnchanged, OutsideUnchanged, graph
    <2> QED
      BY <2>1 DEF Rest
  <1>5. ASSUME NEW c \in Callers, CleanupStep(c) \/ CallEnds(c)
        PROVE  Rest'
    <2>1. UNCHANGED <<touched, dState>>
      BY <1>5 DEF CleanupStep, CleanupLoad, CleanupInspect, CleanupPersist, CleanupRetain,
                  CleanupCheck, CleanupRemove, CleanupRecord, CleanupReturns, CallEnds,
                  JournalUnchanged, OutsideUnchanged, graph
    <2>2. report' = report \/ report' \in {"cleaned", "blocked"}
      BY <1>5 DEF CleanupStep, CleanupLoad, CleanupInspect, CleanupPersist, CleanupRetain,
                  CleanupCheck, CleanupRemove, CleanupRecord, CleanupReturns, CallEnds,
                  OutsideUnchanged
    <2> QED
      BY <2>1, <2>2 DEF Rest
  <1> QED
    BY <1>1, <1>2, <1>3, <1>4, <1>5 DEF Next

\* There are no names and no waves at first.
LEMMA TypeInitLemma ==
    Init => TypeInv
  <1> SUFFICES ASSUME Init PROVE TypeInv
    OBVIOUS
  <1>1. PICK S : S = [task: Tasks, base: Nat]
    OBVIOUS
  <1>2. <<>> \in Seq(S) /\ Len(<<>>) = 0
    OBVIOUS
  <1>3. waves \in Seq([task: Tasks, base: Nat]) /\ Len(waves) = 0
    BY <1>1, <1>2 DEF Init
  <1>4. \A t \in Tasks : WavesOf(t) = {} /\ att[t] = <<>>
    BY <1>3 DEF WavesOf, Init
  <1>5. WavesMatch
    BY <1>3, <1>4, FS_EmptySet DEF WavesMatch, WaveCount
  <1>6. IntentsNamed
    BY <1>4 DEF IntentsNamed
  <1>7. CallsNamed
    BY NoNameIsName DEF CallsNamed, NamesKnown, Init, Idle
  <1>8. Rest
    BY SizesAssumption DEF Rest, Init
  <1> QED
    BY <1>5, <1>6, <1>7, <1>8, PlanInitLemma DEF TypeInv

\* Every step keeps the names and the waves.
LEMMA TypeNextLemma ==
    TypeInv /\ [Next]_vars => TypeInv'
  <1> SUFFICES ASSUME TypeInv, [Next]_vars PROVE TypeInv'
    OBVIOUS
  <1>1. PlanInv /\ PlanInv' /\ Rest' /\ WavesMatch /\ IntentsNamed /\ CallsNamed
    BY PlanNextLemma, RestKeeps DEF TypeInv
  <1>2. PICK N, W : Shape(N, W)
    BY <1>1 DEF PlanInv, IInv
  <1>3. WavesMatch' /\ Len(waves') >= Len(waves) /\ Len(waves) \in Nat /\ Len(waves') \in Nat
    <2>1. WavesMatch' /\ Len(waves') >= Len(waves)
      BY <1>1, <1>2, WavesKeep
    <2> QED
      BY <1>1, <2>1 DEF WavesMatch
  <1>4. ASSUME call' = call
        PROVE  CallsNamed'
    <2>1. \A c \in Callers : NamesKnown(call[c])'
      BY <1>1, <1>3, <1>4 DEF CallsNamed, NamesKnown
    <2> QED
      BY <2>1 DEF CallsNamed
  <1>5. Histories(N) /\ NoName \in N /\ head \in Nat /\ trees \in Seq(TreeOf(N))
    BY <1>2 DEF Shape, Histories
  <1>6. CASE GraphStep
    <2>1. Histories(N)' /\ call' = call
      BY <1>5, <1>6, GraphStepKeeps
    <2>2. \A t \in Tasks : GoesOn(att[t], att'[t])
      BY <1>5, <1>6, GraphGoesOn
    <2>3. IntentsNamed'
      BY <1>1, <1>5, <2>1, <2>2, GoesOnNamed
    <2> QED
      BY <1>1, <1>3, <1>4, <2>1, <2>3 DEF TypeInv
  <1>7. CASE OutsideStep \/ Terminalize \/ UNCHANGED vars
    <2>1. att' = att /\ call' = call
      <3>1. Gone
        BY <1>1 DEF PlanInv, IInv
      <3> QED
        BY <1>5, <1>7, <3>1, OutsideStepKeeps DEF Terminalize, vars
    <2>2. IntentsNamed'
      BY <1>1, <2>1 DEF IntentsNamed
    <2> QED
      BY <1>1, <1>3, <1>4, <2>1, <2>2 DEF TypeInv
  <1>8. ASSUME NEW c \in Callers, PrepareStep(c) \/ CleanupStep(c) \/ CallEnds(c)
        PROVE  TypeInv'
    BY <1>1, <1>2, <1>3, <1>8, PrepareNames, CleanupNames DEF TypeInv
  <1> QED
    BY <1>6, <1>7, <1>8 DEF Next

\* The state has the shape of the Go structures.
LEMMA TypeInvTypes ==
    TypeInv => TypeOK
  <1> SUFFICES ASSUME TypeInv PROVE TypeOK
    OBVIOUS
  <1>1. PICK N, W : Shape(N, W)
    BY DEF TypeInv, PlanInv, IInv
  <1>2. IntentsNamed /\ CallsNamed /\ WavesMatch /\ Rest /\ TreesPlanned
    BY DEF TypeInv, PlanInv
  <1>3. att \in [Tasks -> Seq(Attempt)]
    <2> SUFFICES ASSUME NEW t \in Tasks
                 PROVE  att[t] \in Seq(Attempt)
      BY <1>1 DEF Shape
    <2>1. PICK A, h : A = AttemptOf(N) /\ h = att[t]
      OBVIOUS
    <2>2. h \in Seq(A) /\ Len(h) \in Nat
      BY <1>1, <2>1 DEF Shape
    <2>3. ASSUME NEW e \in 1..Len(h)
          PROVE  h[e] \in Attempt
      <3>1. h[e] \in A
        BY <2>2
      <3>2. h[e].intent \in Name
        BY <1>2, <2>1 DEF IntentsNamed
      <3> QED
        BY <2>1, <3>1, <3>2 DEF AttemptOf, Attempt
    <2>4. h = [e \in 1..Len(h) |-> h[e]]
      BY <2>2
    <2>5. [e \in 1..Len(h) |-> h[e]] \in Seq(Attempt)
      BY <2>2, <2>3
    <2> QED
      BY <2>1, <2>4, <2>5
  <1>4. trees \in Seq(Tree) /\ Len(trees) <= MaxTrees
    <2>1. PICK A, h : A = TreeOf(N) /\ h = trees
      OBVIOUS
    <2>2. h \in Seq(A) /\ Len(h) \in Nat
      BY <1>1, <2>1 DEF Shape
    <2>3. ASSUME NEW id \in 1..Len(h)
          PROVE  h[id] \in Tree
      <3>1. h[id] \in A
        BY <2>2
      <3>2. PICK t : t = trees[id].name.task
        OBVIOUS
      <3>3. t \in Tasks /\ PlannedIn(att[t], id)
        BY <1>2, <2>1, <3>2 DEF TreesPlanned
      <3>4. PICK e \in 1..Len(att[t]) : att[t][e].intent = trees[id].name
        BY <3>3 DEF PlannedIn
      <3>5. h[id].name \in Name
        BY <1>2, <2>1, <3>3, <3>4 DEF IntentsNamed
      <3> QED
        BY <2>1, <3>1, <3>5 DEF TreeOf, Tree
    <2>4. h = [e \in 1..Len(h) |-> h[e]]
      BY <2>2
    <2>5. [e \in 1..Len(h) |-> h[e]] \in Seq(Tree)
      BY <2>2, <2>3
    <2>6. Len(trees) <= MaxTrees
      BY <1>1 DEF Shape
    <2> QED
      BY <2>1, <2>4, <2>5, <2>6
  <1>5. call \in [Callers -> Call]
    <2> SUFFICES ASSUME NEW c \in Callers
                 PROVE  call[c] \in Call
      BY <1>1 DEF Shape
    <2>1. call[c] \in CallOf(N, W) /\ NamesKnown(call[c])
      BY <1>1, <1>2 DEF Shape, CallsNamed
    <2> QED
      BY <2>1 DEF CallOf, Call, NamesKnown
  <1>6. /\ head \in Nat
        /\ cleanups \in [Trees -> {"none", "planned", "removed", "retained"}]
        /\ lock \in Callers \cup {Nobody}
        /\ \A c \in Callers : lock = c <=> call[c].op \in {"create", "attach", "remove", "record"}
    BY <1>1 DEF Shape, LockedOps
  <1> QED
    BY <1>2, <1>3, <1>4, <1>5, <1>6 DEF TypeOK, WavesMatch, Rest

\* The journal, CompozyOS and the calls keep the shape of the Go structures
\* (task.Attempts, Graph.Waves, the operations of cleanup): graphWaveForAttempt
\* finds a wave for every attempt that prepares, so every name is derived from
\* one, and the workspace lock belongs to the call in a locked section.
THEOREM WorktreesTypeCorrect == Spec => []TypeOK
  <1>1. Spec => []TypeInv
    BY TypeInitLemma, TypeNextLemma, PTL DEF Spec
  <1> QED
    BY <1>1, TypeInvTypes, PTL
=============================================================================
