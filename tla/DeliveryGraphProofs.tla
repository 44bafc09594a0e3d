------------------------- MODULE DeliveryGraphProofs -------------------------
(* Theorems of DeliveryGraph for every number of tasks, callers and runs. *)
EXTENDS DeliveryGraph, FiniteSetTheorems, TLAPS

\* The budgets the service hands out are allowances.
LEMMA BudgetType ==
    /\ AvailableTokens \in 0..TokenCeiling
    /\ \A t \in Tasks, e \in Execs, used \in Nat :
         ProjectedTokens(t, e, used) \in 0..TokenCeiling
  <1>1. \A n : Clamp(n) \in 0..TokenCeiling
    BY SizesAssumption DEF Clamp
  <1> QED
    BY <1>1 DEF AvailableTokens, ProjectedTokens

\* The null values have their types.
LEMMA NullTypes ==
    /\ NoRun \in RunId
    /\ NoOperation \in Operation
    /\ NoAttempt \in Attempt
    /\ Idle \in Call
  <1>1. NoRun \in RunId
    BY SizesAssumption DEF NoRun, RunId
  <1>2. NoOperation \in Operation
    BY DEF NoOperation, Operation
  <1>3. NoAttempt \in Attempt
    BY <1>1, <1>2, SizesAssumption DEF NoAttempt, Attempt
  <1>4. Idle \in Call
    BY <1>1, SizesAssumption DEF Idle, Call
  <1> QED
    BY <1>1, <1>2, <1>3, <1>4

\* A fresh attempt is an attempt.
LEMMA NewAttemptType ==
    ASSUME NEW e \in Execs, NEW base \in Nat, NEW allowance \in 0..TokenCeiling
    PROVE  NewAttempt(e, base, allowance) \in Attempt
  <1>1. e \in 0..MaxExec /\ "preparing" \in TaskStates
    BY SizesAssumption DEF Execs, TaskStates
  <1> QED
    BY <1>1, NullTypes DEF NewAttempt, Attempt

\* Replacing attempts keeps the shape of the history.
LEMMA ReplaceAttempt ==
    ASSUME TypeOK, NEW t \in Tasks, NEW e \in Execs, NEW a \in Attempt
    PROVE  Replaced(t, e, a) \in [Tasks -> [Execs -> Attempt]]
  BY DEF TypeOK, Replaced

\* The head of the chain is a commit.
LEMMA HeadType == ASSUME TypeOK PROVE GraphHead \in Nat
  <1>1. CASE integrations = <<>>
    BY <1>1 DEF GraphHead
  <1>2. CASE integrations # <<>>
    <2>1. integrations \in Seq(Result)
      BY DEF TypeOK
    <2>2. integrations[Len(integrations)] \in Result
      BY <1>2, <2>1
    <2> QED
      BY <1>2, <2>2 DEF GraphHead, Result
  <1> QED
    BY <1>1, <1>2

\* The initial journal is well formed.
LEMMA InitType == Init => TypeOK
  <1> SUFFICES ASSUME Init PROVE TypeOK
    OBVIOUS
  <1>1. tState \in [Tasks -> TaskStates] /\ count \in [Tasks -> 0..MaxExec]
    BY SizesAssumption DEF Init, TaskStates
  <1>2. att \in [Tasks -> [Execs -> Attempt]] /\ call \in [Callers -> Call]
    BY NullTypes DEF Init
  <1>3. /\ waves \in Seq([base: Nat, tasks: SUBSET Tasks])
        /\ integrations \in Seq(Result)
    BY DEF Init
  <1> QED
    BY <1>1, <1>2, <1>3 DEF Init, TypeOK

\* What Next makes a caller, a child run, the core loop or the clock do.
LEMMA NextCases ==
    ASSUME Next
    PROVE  \/ \E c \in Callers : ServiceStep(c)
           \/ ChildStep
           \/ \E disposition \in Dispositions, given \in BOOLEAN :
                Terminalize(disposition, given)
           \/ WallExpires
  BY DEF Next

\* What the type invariant says of a caller, of a task's history and of the
\* waves, one fact at a time.
Wave == [base: Nat, tasks: SUBSET Tasks]
LEMMA TypeFacts ==
    ASSUME TypeOK, NEW c \in Callers
    PROVE  /\ call \in [Callers -> Call]
           /\ call[c] \in Call
           /\ att \in [Tasks -> [Execs -> Attempt]]
           /\ waves \in Seq(Wave)
           /\ \A w \in DOMAIN waves : w \in Nat /\ waves[w] \in Wave
           /\ \A t \in Tasks : count[t] \in 0..MaxExec /\ tState[t] \in TaskStates
  <1>1. call \in [Callers -> Call] /\ att \in [Tasks -> [Execs -> Attempt]]
    BY DEF TypeOK
  <1>2. waves \in Seq(Wave)
    BY DEF TypeOK, Wave
  <1>3. \A w \in DOMAIN waves : w \in Nat /\ waves[w] \in Wave
    BY <1>2
  <1>4. \A t \in Tasks : count[t] \in 0..MaxExec /\ tState[t] \in TaskStates
    BY DEF TypeOK
  <1> QED
    BY <1>1, <1>2, <1>3, <1>4

\* A call that changes its step, its work list or its candidates stays a call.
LEMMA CallUpdates ==
    ASSUME NEW r \in Call
    PROVE  /\ \A todo \in SUBSET Tasks : [r EXCEPT !.todo = todo] \in Call
           /\ \A cands \in SUBSET Commit : [r EXCEPT !.cands = cands] \in Call
           /\ \A op \in {"integrate", "settle"} : [r EXCEPT !.op = op] \in Call
  <1>1. ASSUME NEW todo \in SUBSET Tasks PROVE [r EXCEPT !.todo = todo] \in Call
    BY DEF Call
  <1>2. ASSUME NEW cands \in SUBSET Commit PROVE [r EXCEPT !.cands = cands] \in Call
    BY DEF Call
  <1>3. ASSUME NEW op \in {"integrate", "settle"} PROVE [r EXCEPT !.op = op] \in Call
    BY DEF Call
  <1> QED
    BY <1>1, <1>2, <1>3

\* record_candidate fills in the run it finds and the tokens of that run.
LEMMA CandidateUpdates ==
    ASSUME NEW k \in Call
    PROVE  /\ \A id \in RunId : [k EXCEPT !.op = "status", !.run = id] \in Call
           /\ \A used \in 0..MaxUse : [k EXCEPT !.op = "inspect", !.used = used] \in Call
           /\ [k EXCEPT !.op = "candidate"] \in Call
  BY DEF Call

\* A call that is about to commit what it learned of one attempt names it.
Naming == CandidateParts \cup {"failure", "question", "answer"}
CallsNameAttempts ==
    \A c \in Callers :
        call[c].op \in Naming => call[c].task \in Tasks /\ call[c].exec \in Execs

\* prepare_wave keeps the types.
LEMMA PrepareType ==
    ASSUME TypeOK, NEW c \in Callers,
           \/ PrepareRead(c) \/ PrepareResume(c) \/ PrepareAdmit(c) \/ PrepareReturn(c)
           \/ \E t \in Tasks, ready \in BOOLEAN : AttachWorktree(c, t, ready)
    PROVE  TypeOK'
  <1> USE SizesAssumption
  <1>1. CASE PrepareRead(c)
    <2>1. [Idle EXCEPT !.op = "prepare", !.head = head] \in Call
      BY NullTypes DEF TypeOK, Call
    <2> QED
      BY <1>1, <2>1 DEF PrepareRead, TypeOK, journal, git, Holds
  <1>2. CASE PrepareResume(c)
    <2>1. PICK w \in DOMAIN waves :
            call' = [call EXCEPT ![c] =
                       [Idle EXCEPT !.op = "attach", !.wave = w,
                          !.todo = {t \in waves[w].tasks :
                                      tState[t] \in {"preparing", "running"}}]]
      BY <1>2 DEF PrepareResume, Holds
    <2>2. w \in Nat /\ waves[w].tasks \subseteq Tasks
      BY TypeFacts DEF Wave
    <2>3. [Idle EXCEPT !.op = "attach", !.wave = w,
             !.todo = {t \in waves[w].tasks : tState[t] \in {"preparing", "running"}}] \in Call
      BY <2>2, NullTypes DEF Call
    <2> QED
      BY <1>2, <2>1, <2>3 DEF PrepareResume, TypeOK, journal, git
  <1>3. CASE PrepareAdmit(c)
    <2> DEFINE admitted == Admitted(WaveSlots(AvailableTokens))
    <2>1. admitted \subseteq Tasks /\ 1 \in Execs
      BY DEF Admitted, Ready, Execs
    <2>2. call[c].head \in Nat
      BY DEF TypeOK, Call
    <2>3. PICK share \in [admitted -> 1..AvailableTokens] :
            att' = [t \in Tasks |->
                      IF t \in admitted
                      THEN [att[t] EXCEPT ![1] = NewAttempt(1, call[c].head, share[t])]
                      ELSE att[t]]
      BY <1>3 DEF PrepareAdmit
    <2>4. \A t \in admitted : share[t] \in 0..TokenCeiling
      BY BudgetType
    <2>5. \A t \in admitted : NewAttempt(1, call[c].head, share[t]) \in Attempt
      BY <2>1, <2>2, <2>4, NewAttemptType
    <2>6. att' \in [Tasks -> [Execs -> Attempt]]
      BY <2>3, <2>5 DEF TypeOK
    <2>7. tState' \in [Tasks -> TaskStates] /\ count' \in [Tasks -> 0..MaxExec]
      <3>1. /\ tState' = [t \in Tasks |-> IF t \in admitted THEN "preparing" ELSE tState[t]]
            /\ count' = [t \in Tasks |-> IF t \in admitted THEN 1 ELSE count[t]]
        BY <1>3 DEF PrepareAdmit
      <3> HIDE DEF admitted
      <3>2. "preparing" \in TaskStates /\ 1 \in 0..MaxExec
        BY DEF TaskStates
      <3> QED
        BY <3>1, <3>2, TypeFacts
    <2>8. waves' \in Seq(Wave) /\ Len(waves) + 1 \in Nat
      <3>1. [base |-> call[c].head, tasks |-> admitted] \in Wave
        BY <2>1, <2>2 DEF Wave
      <3>2. waves' = Append(waves, [base |-> call[c].head, tasks |-> admitted])
        BY <1>3 DEF PrepareAdmit
      <3> QED
        BY <3>1, <3>2, TypeFacts
    <2>9. [Idle EXCEPT !.op = "attach", !.wave = Len(waves) + 1, !.todo = admitted] \in Call
      BY <2>1, <2>8, NullTypes DEF Call
    <2>10. call' \in [Callers -> Call]
      BY <1>3, <2>9 DEF PrepareAdmit, Holds, TypeOK
    <2> QED
      BY <1>3, <2>6, <2>7, <2>8, <2>10 DEF PrepareAdmit, TypeOK, git, Wave
  <1>4. CASE PrepareReturn(c)
    <2>1. \A items \in SUBSET Commit :
            [Idle EXCEPT !.op = "children", !.wave = call[c].wave, !.cands = items] \in Call
      BY NullTypes, TypeFacts DEF Call
    <2> DEFINE items == {x \in Commit : /\ x[1] \in waves[call[c].wave].tasks
                                        /\ tState[x[1]] = "running"
                                        /\ x[2] = count[x[1]]}
    <2>2. \/ call' = [call EXCEPT ![c] = [Idle EXCEPT !.op = "children",
                                           !.wave = call[c].wave, !.cands = items]]
          \/ call' = [call EXCEPT ![c] = Idle]
      BY <1>4 DEF PrepareReturn, Holds, Returns
    <2>3. items \in SUBSET Commit
      OBVIOUS
    <2>4. call' \in [Callers -> Call]
      BY <2>1, <2>2, <2>3, NullTypes, TypeFacts
    <2> QED
      BY <1>4, <2>4 DEF PrepareReturn, TypeOK, journal, git
  <1>5. ASSUME NEW t \in Tasks, NEW ready \in BOOLEAN, AttachWorktree(c, t, ready)
        PROVE  TypeOK'
    <2> DEFINE e == count[t]
               state == IF ready THEN "running" ELSE att[t][e].state
               attached == [att[t][e] EXCEPT !.tree = call[c].wave, !.state = state]
    <2>1. e \in Execs
      <3>1. count[t] \in 0..MaxExec
        BY TypeFacts
      <3>2. count[t] > 0
        BY <1>5 DEF AttachWorktree
      <3> QED
        BY <3>1, <3>2 DEF Execs
    <2>2. state \in TaskStates
      BY <1>5 DEF AttachWorktree, Attachable, TaskStates
    <2>3. att[t][e] \in Attempt /\ call[c].wave \in Nat
      BY <2>1, TypeFacts DEF Call
    <2>4. attached \in Attempt
      BY <2>2, <2>3 DEF Attempt
    <2>5. att' = Replaced(t, e, attached)
      BY <1>5 DEF AttachWorktree
    <2>6. att' \in [Tasks -> [Execs -> Attempt]]
      BY <2>1, <2>4, <2>5, ReplaceAttempt
    <2>7. tState' \in [Tasks -> TaskStates]
      BY <1>5, <2>2 DEF AttachWorktree, TypeOK
    <2>8. [call[c] EXCEPT !.todo = @ \ {t}] \in Call
      <3>1. call[c] \in Call
        BY TypeFacts
      <3>2. call[c].todo \ {t} \in SUBSET Tasks
        BY <3>1 DEF Call
      <3> QED
        BY <3>1, <3>2, CallUpdates
    <2>9. call' \in [Callers -> Call]
      BY <1>5, <2>8, TypeFacts DEF AttachWorktree, Holds
    <2> QED
      BY <1>5, <2>6, <2>7, <2>9 DEF AttachWorktree, TypeOK, git
  <1> QED
    BY <1>1, <1>2, <1>3, <1>4, <1>5

\* A run without context and question is a run.
LEMMA RunReset ==
    \A q \in Run : [q EXCEPT !.ctx = 0, !.ask = NoPrompt, !.replied = FALSE] \in Run
  <1>1. ASSUME NEW q \in Run PROVE [q EXCEPT !.ctx = 0] \in Run
    BY SizesAssumption DEF Run
  <1>2. ASSUME NEW q \in Run PROVE [q EXCEPT !.ask = NoPrompt] \in Run
    BY DEF Run
  <1>3. ASSUME NEW q \in Run PROVE [q EXCEPT !.replied = FALSE] \in Run
    BY DEF Run
  <1>4. \A q \in Run :
          [[[q EXCEPT !.ctx = 0] EXCEPT !.ask = NoPrompt] EXCEPT !.replied = FALSE] \in Run
    BY <1>1, <1>2, <1>3
  <1> QED
    BY <1>4 DEF Run

\* The child runs keep the types.
LEMMA ChildType ==
    ASSUME TypeOK,
           \/ ChildStep
           \/ \E c \in Callers, x \in Commit, k \in 1..MaxCopies : StartChild(c, x, k)
    PROVE  TypeOK'
  <1> USE SizesAssumption
  <1>1. ASSUME NEW r \in runs, NEW s \in Run, RunBecomes(r, s),
               UNCHANGED <<journal, wall, git, call>>
        PROVE  TypeOK'
    BY <1>1 DEF RunBecomes, TypeOK, journal, git
  <1>2. runs \subseteq Run
    BY DEF TypeOK
  <1>3. ASSUME NEW r \in runs, TaskContext(r) PROVE TypeOK'
    <2>1. PICK e \in Execs : RunBecomes(r, [r EXCEPT !.ctx = e])
      BY <1>3 DEF TaskContext
    <2>2. [r EXCEPT !.ctx = e] \in Run
      BY <1>2 DEF Run, Execs
    <2> QED
      BY <1>1, <1>3, <2>1, <2>2 DEF TaskContext
  <1>4. ASSUME NEW r \in runs, NEW used \in 0..MaxUse
        PROVE  /\ [r EXCEPT !.status = "done", !.used = used] \in Run
               /\ [r EXCEPT !.status = "failed", !.used = used,
                            !.ctx = 0, !.ask = NoPrompt, !.replied = FALSE] \in Run
    <2>1. \A st \in {"done", "failed"} : [r EXCEPT !.status = st, !.used = used] \in Run
      BY <1>2 DEF Run
    <2>2. \A st \in {"done", "failed"} :
            [[r EXCEPT !.status = st, !.used = used]
               EXCEPT !.ctx = 0, !.ask = NoPrompt, !.replied = FALSE] \in Run
      BY <2>1, RunReset
    <2> QED
      BY <2>1, <2>2
  <1>5. ASSUME NEW r \in runs, NEW used \in 0..MaxUse, ChildCompletes(r, used)
        PROVE  TypeOK'
    BY <1>1, <1>4, <1>5 DEF ChildCompletes
  <1>6. ASSUME NEW r \in runs, NEW used \in 0..MaxUse, ChildFails(r, used)
        PROVE  TypeOK'
    BY <1>1, <1>4, <1>6 DEF ChildFails
  <1>7. ASSUME NEW r \in runs, NEW p \in Prompts, ChildAsks(r, p) PROVE TypeOK'
    <2>1. [r EXCEPT !.ask = p] \in Run
      BY <1>2 DEF Run
    <2> QED
      BY <1>1, <1>7, <2>1 DEF ChildAsks
  <1>8. ASSUME NEW r \in runs, HumanReplies(r) PROVE TypeOK'
    <2>1. [r EXCEPT !.replied = TRUE] \in Run
      BY <1>2 DEF Run
    <2> QED
      BY <1>1, <1>8, <2>1 DEF HumanReplies
  <1>9. ASSUME NEW r \in runs, NextGeneration(r) PROVE TypeOK'
    <2>1. [r EXCEPT !.ctx = 0, !.ask = NoPrompt, !.replied = FALSE] \in Run
      BY <1>2, RunReset
    <2> QED
      BY <1>1, <1>9, <2>1 DEF NextGeneration
  <1>10. ASSUME NEW c \in Callers, NEW x \in Commit, NEW k \in 1..MaxCopies,
                StartChild(c, x, k)
         PROVE  TypeOK'
    <2> DEFINE id == [wave |-> call[c].wave, task |-> x[1], exec |-> x[2], copy |-> k]
               left == call[c].cands \ {x}
    <2>1. id \in RunId
      <3>1. x[1] \in 0..NTasks /\ x[2] \in 0..MaxExec
        BY DEF Commit, Tasks, Execs
      <3>2. call[c].wave \in Nat /\ k \in 0..MaxCopies
        BY TypeFacts DEF Call
      <3> QED
        BY <3>1, <3>2 DEF RunId
    <2>2. [id |-> id, status |-> "running", used |-> 0, ctx |-> 0,
           ask |-> NoPrompt, replied |-> FALSE] \in Run
      BY <2>1 DEF Run
    <2>3. runs' \subseteq Run
      BY <1>2, <1>10, <2>2 DEF StartChild
    <2>4. call' = [call EXCEPT ![c] = Idle]
          \/ call' = [call EXCEPT ![c] = [call[c] EXCEPT !.cands = left]]
      BY <1>10 DEF StartChild, Returns, Holds
    <2>5. [call[c] EXCEPT !.cands = left] \in Call
      <3>1. call[c] \in Call
        BY TypeFacts
      <3>2. left \in SUBSET Commit
        BY <3>1 DEF Call
      <3> QED
        BY <3>1, <3>2, CallUpdates
    <2>6. call' \in [Callers -> Call]
      BY <2>4, <2>5, NullTypes, TypeFacts
    <2> QED
      BY <1>10, <2>3, <2>6 DEF StartChild, TypeOK, journal, git
  <1> QED
    BY <1>3, <1>5, <1>6, <1>7, <1>8, <1>9, <1>10 DEF ChildStep

\* A call that only loads keeps the types; what it holds is well formed.
LEMMA LoadType ==
    ASSUME TypeOK, NEW c \in Callers,
           \/ \E r \in runs, e \in Execs : QuestionLoad(c, r, e)
           \/ \E r \in runs, e \in Execs : AnswerLoad(c, r, e)
           \/ \E w \in DOMAIN waves : \E t \in waves[w].tasks, x \in Execs :
                CandidateLoad(c, w, t, x)
           \/ \E r \in runs, e \in Execs : FailureLoad(c, r, e)
    PROVE  TypeOK' /\ (CallsNameAttempts => CallsNameAttempts')
  <1> USE SizesAssumption
  <1>1. ASSUME NEW r \in runs, NEW w \in DOMAIN waves, NEW e \in Execs,
               Addresses(w, r.id.task, r.id.exec, e)
        PROVE  r.id.task \in Tasks
    <2>1. waves[w].tasks \subseteq Tasks
      BY TypeFacts DEF Wave
    <2> QED
      BY <1>1, <2>1 DEF Addresses
  <1>2. ASSUME NEW rec \in Call,
               rec.op \in Naming =>
                   rec.task \in Tasks /\ rec.exec \in Execs,
               Holds(c, rec), UNCHANGED <<journal, wall, git, runs>>
        PROVE  TypeOK' /\ (CallsNameAttempts => CallsNameAttempts')
    <2>1. call' \in [Callers -> Call]
      BY <1>2, TypeFacts DEF Holds
    <2>2. TypeOK'
      BY <1>2, <2>1 DEF TypeOK, journal, git
    <2> QED
      BY <1>2, <2>2, TypeFacts DEF CallsNameAttempts, Holds
  <1>3. ASSUME NEW r \in runs, NEW e \in Execs, r.id.task \in Tasks
        PROVE  /\ r.id \in RunId /\ r.id.task \in 0..NTasks /\ e \in 0..MaxExec
               /\ r.used \in 0..MaxUse /\ r.ask \in Prompts \cup {NoPrompt}
    <2>1. r \in Run /\ r.id.task \in 0..NTasks /\ e \in 0..MaxExec
      BY <1>3, SizesAssumption DEF TypeOK, Tasks, Execs
    <2> QED
      BY <2>1 DEF Run
  <1>4. ASSUME NEW r \in runs, NEW e \in Execs, QuestionLoad(c, r, e)
        PROVE  TypeOK' /\ (CallsNameAttempts => CallsNameAttempts')
    <2> DEFINE rec == [Idle EXCEPT !.op = "question", !.task = r.id.task, !.exec = e,
                                   !.run = r.id, !.prompt = r.ask]
    <2>1. r.id.task \in Tasks
      BY <1>1, <1>4 DEF QuestionLoad, Addresses
    <2>2. rec \in Call /\ rec.task \in Tasks /\ rec.exec \in Execs
      BY <1>3, <2>1, NullTypes DEF Call
    <2> HIDE DEF rec
    <2>3. Holds(c, rec) /\ UNCHANGED <<journal, wall, git, runs>>
      BY <1>4 DEF QuestionLoad, rec
    <2> QED
      BY <1>2, <2>2, <2>3
  <1>5. ASSUME NEW r \in runs, NEW e \in Execs, AnswerLoad(c, r, e)
        PROVE  TypeOK' /\ (CallsNameAttempts => CallsNameAttempts')
    <2> DEFINE rec == [Idle EXCEPT !.op = "answer", !.task = r.id.task, !.exec = e,
                                   !.run = r.id]
    <2>1. r.id.task \in Tasks
      BY <1>1, <1>5 DEF AnswerLoad, Addresses
    <2>2. rec \in Call /\ rec.task \in Tasks /\ rec.exec \in Execs
      BY <1>3, <2>1, NullTypes DEF Call
    <2> HIDE DEF rec
    <2>3. Holds(c, rec) /\ UNCHANGED <<journal, wall, git, runs>>
      BY <1>5 DEF AnswerLoad, rec
    <2> QED
      BY <1>2, <2>2, <2>3
  <1>6. ASSUME NEW w \in DOMAIN waves, NEW t \in waves[w].tasks, NEW x \in Execs,
               CandidateLoad(c, w, t, x)
        PROVE  TypeOK' /\ (CallsNameAttempts => CallsNameAttempts')
    <2>1. PICK e \in Execs :
            Holds(c, [Idle EXCEPT !.op = "recent", !.wave = w, !.task = t, !.exec = e])
      BY <1>6 DEF CandidateLoad
    <2> DEFINE rec == [Idle EXCEPT !.op = "recent", !.wave = w, !.task = t, !.exec = e]
    <2>2. w \in Nat /\ t \in Tasks
      BY TypeFacts DEF Wave
    <2>3. t \in 0..NTasks /\ e \in 0..MaxExec
      BY <2>2 DEF Tasks, Execs
    <2>4. rec \in Call /\ rec.task \in Tasks /\ rec.exec \in Execs
      BY <2>2, <2>3, NullTypes DEF Call
    <2>5. Holds(c, rec) /\ UNCHANGED <<journal, wall, git, runs>>
      BY <1>6, <2>1 DEF CandidateLoad
    <2> HIDE DEF rec
    <2> QED
      BY <1>2, <2>4, <2>5
  <1>7. ASSUME NEW r \in runs, NEW e \in Execs, FailureLoad(c, r, e)
        PROVE  TypeOK' /\ (CallsNameAttempts => CallsNameAttempts')
    <2> DEFINE rec == [Idle EXCEPT !.op = "failure", !.task = r.id.task, !.exec = e,
                                   !.run = r.id, !.used = r.used]
    <2>1. r.id.task \in Tasks
      BY <1>1, <1>7 DEF FailureLoad, Addresses
    <2>2. rec \in Call /\ rec.task \in Tasks /\ rec.exec \in Execs
      BY <1>3, <2>1, NullTypes DEF Call
    <2> HIDE DEF rec
    <2>3. Holds(c, rec) /\ UNCHANGED <<journal, wall, git, runs>>
      BY <1>7 DEF FailureLoad, rec
    <2> QED
      BY <1>2, <2>2, <2>3
  <1> QED
    BY <1>4, <1>5, <1>6, <1>7

\* What record_candidate reads after its load changes nothing but its call, which
\* goes on to the next part.
LEMMA CandidateReadsHold ==
    ASSUME TypeOK, NEW c \in Callers, CandidateReads(c)
    PROVE  /\ UNCHANGED <<journal, wall, git, runs>>
           /\ call[c].op \in CandidateParts
           /\ \E k \in Call : /\ Holds(c, k)
                             /\ k.op \in {"status", "inspect", "candidate"}
                             /\ k.task = call[c].task /\ k.exec = call[c].exec
  <1>1. call[c] \in Call /\ runs \subseteq Run
    BY TypeFacts DEF TypeOK
  <1>2. CASE \E r \in runs : CandidateRecent(c, r)
    <2>1. PICK r \in runs : CandidateRecent(c, r)
      BY <1>2
    <2>2. PICK k : k = [call[c] EXCEPT !.op = "status", !.run = r.id]
      OBVIOUS
    <2>3. k \in Call
      BY <1>1, <2>2, CandidateUpdates DEF Run
    <2>4. k.op = "status" /\ k.task = call[c].task /\ k.exec = call[c].exec
      BY <1>1, <2>2 DEF Call
    <2> QED
      BY <2>1, <2>2, <2>3, <2>4 DEF CandidateRecent, CandidateParts
  <1>3. CASE \E r \in runs : CandidateStatus(c, r)
    <2>1. PICK r \in runs : CandidateStatus(c, r)
      BY <1>3
    <2>2. PICK k : k = [call[c] EXCEPT !.op = "inspect", !.used = r.used]
      OBVIOUS
    <2>3. k \in Call
      BY <1>1, <2>2, CandidateUpdates DEF Run
    <2>4. k.op = "inspect" /\ k.task = call[c].task /\ k.exec = call[c].exec
      BY <1>1, <2>2 DEF Call
    <2> QED
      BY <2>1, <2>2, <2>3, <2>4 DEF CandidateStatus, CandidateParts
  <1>4. CASE CandidateInspect(c)
    <2>1. PICK k : k = [call[c] EXCEPT !.op = "candidate"]
      OBVIOUS
    <2>2. k \in Call
      BY <1>1, <2>1, CandidateUpdates
    <2>3. k.op = "candidate" /\ k.task = call[c].task /\ k.exec = call[c].exec
      BY <1>1, <2>1 DEF Call
    <2> QED
      BY <1>4, <2>1, <2>2, <2>3 DEF CandidateInspect, CandidateParts
  <1> QED
    BY <1>2, <1>3, <1>4 DEF CandidateReads

\* The reads of record_candidate keep the types and the name of the attempt.
LEMMA CandidateReadType ==
    ASSUME TypeOK, CallsNameAttempts, NEW c \in Callers, CandidateReads(c)
    PROVE  TypeOK' /\ CallsNameAttempts'
  <1>1. PICK k \in Call : /\ Holds(c, k)
                          /\ k.task = call[c].task /\ k.exec = call[c].exec
    BY CandidateReadsHold
  <1>2. UNCHANGED <<journal, wall, git, runs>> /\ call[c].op \in Naming
    BY CandidateReadsHold DEF Naming
  <1>3. k.task \in Tasks /\ k.exec \in Execs
    BY <1>1, <1>2 DEF CallsNameAttempts
  <1>4. call' \in [Callers -> Call]
    BY <1>1, TypeFacts DEF Holds
  <1>5. TypeOK'
    BY <1>2, <1>4 DEF TypeOK, journal, git
  <1>6. CallsNameAttempts'
    BY <1>1, <1>3, TypeFacts DEF CallsNameAttempts, Holds
  <1> QED
    BY <1>5, <1>6

\* The commits of a question, an answer, a candidate and a failure keep the
\* types.
LEMMA CommitType ==
    ASSUME TypeOK, CallsNameAttempts, NEW c \in Callers,
           \/ QuestionCommit(c) \/ AnswerCommit(c) \/ CandidateCommit(c)
           \/ \E fallback \in BOOLEAN : FailureCommit(c, fallback)
           \/ FailureReplay(c)
    PROVE  TypeOK'
  <1> USE SizesAssumption
  <1> DEFINE t == call[c].task
             e == call[c].exec
  <1>1. /\ t \in Tasks /\ e \in Execs /\ att[t][e] \in Attempt
        /\ call[c].run \in RunId /\ call[c].used \in 0..MaxUse
        /\ call[c].prompt \in Prompts \cup {NoPrompt}
    <2>1. t \in Tasks /\ e \in Execs
      BY DEF CallsNameAttempts, Naming, CandidateParts, QuestionCommit, AnswerCommit,
             CandidateCommit, FailureCommit, FailureReplay
    <2> QED
      BY <2>1, TypeFacts DEF Call
  <1>2. PauseFor(tState') \in BOOLEAN
    BY DEF PauseFor
  <1>3. Returns(c) => call' \in [Callers -> Call]
    BY NullTypes, TypeFacts DEF Returns
  <1>4. \A s \in TaskStates : [tState EXCEPT ![t] = s] \in [Tasks -> TaskStates]
    BY DEF TypeOK
  <1>5. {"waiting_input", "running", "candidate", "blocked", "preparing"} \subseteq TaskStates
    BY DEF TaskStates
  <1>6. CASE QuestionCommit(c)
    <2> DEFINE a == [att[t][e] EXCEPT !.state = "waiting_input", !.child = call[c].run,
                                      !.prompt = call[c].prompt]
    <2>1. a \in Attempt
      BY <1>1, <1>5 DEF Attempt
    <2>2. att' = Replaced(t, e, a)
      BY <1>6 DEF QuestionCommit
    <2>3. att' \in [Tasks -> [Execs -> Attempt]]
      BY <1>1, <2>1, <2>2, ReplaceAttempt
    <2> QED
      BY <1>2, <1>3, <1>4, <1>5, <1>6, <2>3 DEF QuestionCommit, TypeOK, git
  <1>7. CASE AnswerCommit(c)
    <2>1. e + 1 \in Execs /\ e + 1 \in 0..MaxExec
      BY <1>1, <1>7 DEF AnswerCommit, Execs
    <2>2. /\ [att[t][e] EXCEPT !.answered = TRUE] \in Attempt
          /\ Continued(att[t][e]) \in Attempt
      BY <1>1, <1>5, NullTypes DEF Attempt, Continued
    <2>3. Answered(t, e) \in [Execs -> Attempt]
      BY <1>1, <2>1, <2>2, TypeFacts DEF Answered
    <2>4. att' \in [Tasks -> [Execs -> Attempt]]
      BY <1>1, <1>7, <2>3, TypeFacts DEF AnswerCommit
    <2>5. count' \in [Tasks -> 0..MaxExec]
      BY <1>7, <2>1 DEF AnswerCommit, TypeOK
    <2> QED
      BY <1>2, <1>3, <1>4, <1>5, <1>7, <2>4, <2>5 DEF AnswerCommit, TypeOK, git
  <1>8. CASE CandidateCommit(c)
    <2> DEFINE a == [att[t][e] EXCEPT !.state = "candidate", !.child = call[c].run,
                                      !.used = call[c].used]
    <2>1. a \in Attempt
      BY <1>1, <1>5 DEF Attempt
    <2>2. att' = Replaced(t, e, a)
      BY <1>8 DEF CandidateCommit
    <2>3. att' \in [Tasks -> [Execs -> Attempt]]
      BY <1>1, <2>1, <2>2, ReplaceAttempt
    <2> QED
      BY <1>2, <1>3, <1>4, <1>5, <1>8, <2>3 DEF CandidateCommit, TypeOK, git
  <1>9. ASSUME NEW fallback \in BOOLEAN, FailureCommit(c, fallback) PROVE TypeOK'
    <2> DEFINE projected == ProjectedTokens(t, e, call[c].used)
               closed == [att[t][e] EXCEPT !.state = "blocked", !.child = call[c].run,
                                           !.used = call[c].used]
               next == NewAttempt(e + 1, GraphHead, projected)
    <2>1. closed \in Attempt
      BY <1>1, <1>5 DEF Attempt
    <2>2. CASE MayRetry(e, projected) /\ fallback
      <3>1. e + 1 \in Execs /\ e + 1 \in 0..MaxExec
        BY <1>1, <2>2 DEF MayRetry, Execs
      <3>2. projected \in 0..TokenCeiling
        BY <1>1, BudgetType
      <3>3. next \in Attempt
        BY <3>1, <3>2, HeadType, NewAttemptType
      <3>4. /\ att' = [att EXCEPT ![t] = [@ EXCEPT ![e] = closed, ![e + 1] = next]]
            /\ count' = [count EXCEPT ![t] = e + 1]
            /\ tState' = [tState EXCEPT ![t] = "preparing"]
            /\ waves' = Append(waves, [base |-> GraphHead, tasks |-> {t}])
        BY <1>9, <2>2 DEF FailureCommit
      <3>5. [att[t] EXCEPT ![e] = closed, ![e + 1] = next] \in [Execs -> Attempt]
        BY <1>1, <2>1, <3>1, <3>3, TypeFacts
      <3>6. att' \in [Tasks -> [Execs -> Attempt]]
        BY <1>1, <3>4, <3>5, TypeFacts
      <3>7. count' \in [Tasks -> 0..MaxExec]
        BY <3>1, <3>4 DEF TypeOK
      <3>8. [base |-> GraphHead, tasks |-> {t}] \in Wave
        BY <1>1, HeadType DEF Wave
      <3>9. waves' \in Seq(Wave)
        BY <3>4, <3>8, TypeFacts
      <3> QED
        BY <1>2, <1>3, <1>4, <1>5, <1>9, <3>4, <3>6, <3>7, <3>9
           DEF FailureCommit, TypeOK, git, Wave
    <2>3. CASE ~(MayRetry(e, projected) /\ fallback)
      <3>1. /\ att' = Replaced(t, e, closed)
            /\ tState' = [tState EXCEPT ![t] = "blocked"]
            /\ UNCHANGED <<count, waves>>
        BY <1>9, <2>3 DEF FailureCommit
      <3>2. att' \in [Tasks -> [Execs -> Attempt]]
        BY <1>1, <2>1, <3>1, ReplaceAttempt
      <3> QED
        BY <1>2, <1>3, <1>4, <1>5, <1>9, <3>1, <3>2 DEF FailureCommit, TypeOK, git
    <2> QED
      BY <2>2, <2>3
  <1>10. CASE FailureReplay(c)
    BY <1>3, <1>10 DEF FailureReplay, TypeOK, journal, git
  <1> QED
    BY <1>6, <1>7, <1>8, <1>9, <1>10

\* Accepted candidates are finitely many, so they can be counted.
LEMMA AcceptedFinite ==
    ASSUME NEW cands \in SUBSET Commit, NEW k
    PROVE  /\ Accepted(cands, k) \subseteq cands
           /\ IsFiniteSet(cands)
           /\ Cardinality(Accepted(cands, k)) \in Nat
  <1>1. IsFiniteSet(Tasks) /\ IsFiniteSet(Execs)
    BY SizesAssumption, FS_Interval DEF Tasks, Execs
  <1>2. IsFiniteSet(Commit)
    BY <1>1, FS_Product DEF Commit
  <1>3. Accepted(cands, k) \subseteq cands
    BY DEF Accepted
  <1> QED
    BY <1>2, <1>3, FS_Subset, FS_CardinalityType

\* settle_wave keeps the types up to its commit.
LEMMA SettleStepType ==
    ASSUME TypeOK, NEW c \in Callers,
           \/ \E w \in DOMAIN waves : SettleResume(c, w) \/ SettleLoad(c, w)
           \/ SettleIntent(c)
           \/ \E conflict \in 0..NTasks : Integrate(c, conflict)
           \/ IntegrateReplay(c)
           \/ SettleReplay(c)
    PROVE  TypeOK'
  <1> USE SizesAssumption
  <1>1. /\ call[c].head \in Nat /\ call[c].cands \subseteq Commit
        /\ call[c].wave \in Nat /\ OperationOf(call[c]) \in Operation
    BY TypeFacts DEF Call, OperationOf, Operation
  <1>2. \A op \in {"integrate", "settle"} : [call[c] EXCEPT !.op = op] \in Call
    <2>1. call[c] \in Call
      BY TypeFacts
    <2> QED
      BY <2>1, CallUpdates
  <1>3. ASSUME NEW w \in DOMAIN waves, SettleResume(c, w) PROVE TypeOK'
    <2>1. PICK i \in intents :
            Holds(c, [Idle EXCEPT !.op = "integrate", !.wave = w, !.head = i.start,
                                  !.cands = i.cands])
      BY <1>3 DEF SettleResume
    <2>2. i \in Operation /\ w \in Nat
      BY TypeFacts DEF TypeOK
    <2>3. [Idle EXCEPT !.op = "integrate", !.wave = w, !.head = i.start,
                       !.cands = i.cands] \in Call
      BY <2>2, NullTypes DEF Call, Operation
    <2>4. call' \in [Callers -> Call]
      BY <2>1, <2>3, TypeFacts DEF Holds
    <2> QED
      BY <1>3, <2>4 DEF SettleResume, TypeOK, journal, git
  <1>4. ASSUME NEW w \in DOMAIN waves, SettleLoad(c, w) PROVE TypeOK'
    <2>1. SettlementCandidates(w) \in SUBSET Commit /\ w \in Nat
      BY TypeFacts DEF SettlementCandidates
    <2>2. [Idle EXCEPT !.op = "intent", !.wave = w, !.head = GraphHead,
                       !.cands = SettlementCandidates(w)] \in Call
      BY <2>1, HeadType, NullTypes DEF Call
    <2>3. call' \in [Callers -> Call]
      BY <1>4, <2>2, TypeFacts DEF SettleLoad, Holds
    <2> QED
      BY <1>4, <2>3 DEF SettleLoad, TypeOK, journal, git
  <1>5. CASE SettleIntent(c)
    <2>1. call' \in [Callers -> Call]
      BY <1>2, <1>5, TypeFacts DEF SettleIntent, Holds
    <2> QED
      BY <1>1, <1>5, <2>1 DEF SettleIntent, TypeOK, git
  <1>6. ASSUME NEW conflict \in 0..NTasks, Integrate(c, conflict) PROVE TypeOK'
    <2> DEFINE final == FinalHead(head, call[c].cands, conflict)
               accepted == Accepted(call[c].cands, conflict)
    <2>1. accepted \subseteq Commit /\ final \in Nat
      <3>1. head \in Nat
        BY DEF TypeOK
      <3>2. Accepted(call[c].cands, conflict) \subseteq Commit
        BY <1>1 DEF Accepted
      <3>3. Cardinality(Accepted(call[c].cands, conflict)) \in Nat
        BY <1>1, AcceptedFinite
      <3> QED
        BY <3>1, <3>2, <3>3 DEF FinalHead
    <2>2. [op |-> OperationOf(call[c]), conflict |-> conflict, final |-> final,
           accepted |-> accepted] \in Result
      BY <1>1, <2>1 DEF Result
    <2>3. head' \in Nat /\ results' \subseteq Result
      BY <1>6, <2>1, <2>2 DEF Integrate, TypeOK
    <2>4. call' \in [Callers -> Call]
      BY <1>2, <1>6, TypeFacts DEF Integrate, Holds
    <2> QED
      BY <1>6, <2>3, <2>4 DEF Integrate, TypeOK, journal
  <1>7. CASE IntegrateReplay(c)
    <2>1. call' \in [Callers -> Call]
      BY <1>2, <1>7, TypeFacts DEF IntegrateReplay, Holds
    <2> QED
      BY <1>7, <2>1 DEF IntegrateReplay, TypeOK, journal, git
  <1>8. CASE SettleReplay(c)
    BY <1>8, NullTypes DEF SettleReplay, Returns, TypeOK, journal, git
  <1> QED
    BY <1>3, <1>4, <1>5, <1>6, <1>7, <1>8

\* The commit of a settlement keeps the types.
LEMMA SettleCommitType ==
    ASSUME TypeOK, NEW c \in Callers, NEW r \in results, SettleCommit(c, r)
    PROVE  TypeOK'
  <1> USE SizesAssumption
  <1> DEFINE available == AvailableTokens
             k == r.conflict
             retry == k # 0 /\ MayRetry(count[k], available)
  <1>1. r \in Result
    BY DEF TypeOK
  <1>2. available \in 0..TokenCeiling /\ r.final \in Nat /\ r.op \in Operation
    BY <1>1, BudgetType DEF Result
  <1>3. att' = SettledAttempts(r, retry, available)
    BY DEF SettleCommit
  <1>4. ASSUME NEW t \in Tasks PROVE SettledAttempts(r, retry, available)[t] \in [Execs -> Attempt]
    <2> DEFINE e == count[t]
    <2>1. att[t] \in [Execs -> Attempt] /\ e \in 0..MaxExec
      BY TypeFacts
    <2>2. \A a \in Attempt : /\ [a EXCEPT !.state = "integrated"] \in Attempt
                             /\ [a EXCEPT !.conflict = r.op] \in Attempt
      BY <1>2 DEF Attempt, TaskStates
    <2>3. \A a \in Attempt : [a EXCEPT !.state = "blocked", !.conflict = r.op] \in Attempt
      BY <1>2 DEF Attempt, TaskStates
    <2>4. [att[t] EXCEPT ![e] = [@ EXCEPT !.state = "integrated"]] \in [Execs -> Attempt]
      BY <2>1, <2>2
    <2>5. [att[t] EXCEPT ![e] = [@ EXCEPT !.state = "blocked", !.conflict = r.op]]
             \in [Execs -> Attempt]
      BY <2>1, <2>3
    <2>6. ASSUME retry, t = k
          PROVE  [att[t] EXCEPT ![e] = [@ EXCEPT !.conflict = r.op],
                                ![e + 1] = NewAttempt(e + 1, r.final, available)]
                   \in [Execs -> Attempt]
      <3>1. e + 1 \in Execs
        BY <2>1, <2>6 DEF MayRetry, Execs
      <3>2. NewAttempt(e + 1, r.final, available) \in Attempt
        BY <1>2, <3>1, NewAttemptType
      <3> QED
        BY <2>1, <2>2, <3>1, <3>2
    <2> QED
      BY <2>1, <2>4, <2>5, <2>6 DEF SettledAttempts
  <1>5. att' \in [Tasks -> [Execs -> Attempt]]
    BY <1>3, <1>4 DEF SettledAttempts
  <1>6. tState' \in [Tasks -> TaskStates]
    BY DEF SettleCommit, TypeOK, TaskStates
  <1>7. count' \in [Tasks -> 0..MaxExec]
    <2>1. count' = [t \in Tasks |-> IF t = k /\ retry THEN count[t] + 1 ELSE count[t]]
      BY DEF SettleCommit
    <2>2. \A t \in Tasks : t = k /\ retry => count[t] + 1 \in 0..MaxExec
      BY TypeFacts DEF MayRetry
    <2> QED
      BY <2>1, <2>2, TypeFacts
  <1>8. waves' \in Seq(Wave)
    <2>1. CASE retry
      <3>1. k \in Tasks
        BY <1>1, <2>1 DEF Result, Tasks
      <3>2. [base |-> r.final, tasks |-> {k}] \in Wave
        BY <1>2, <3>1 DEF Wave
      <3>3. waves' = Append(waves, [base |-> r.final, tasks |-> {k}])
        BY <2>1 DEF SettleCommit
      <3> QED
        BY <3>2, <3>3, TypeFacts
    <2>2. CASE ~retry
      BY <2>2, TypeFacts DEF SettleCommit
    <2> QED
      BY <2>1, <2>2
  <1>9. integrations' \in Seq(Result)
    BY <1>1 DEF SettleCommit, TypeOK
  <1>10. call' \in [Callers -> Call] /\ paused' \in BOOLEAN
    BY NullTypes, TypeFacts DEF SettleCommit, Returns, PauseFor
  <1> QED
    BY <1>5, <1>6, <1>7, <1>8, <1>9, <1>10 DEF SettleCommit, TypeOK, git, Wave

\* terminalize, the clock and the end of a call keep the types.
LEMMA ClosingType ==
    ASSUME TypeOK,
           \/ \E disposition \in Dispositions, given \in BOOLEAN :
                Terminalize(disposition, given)
           \/ WallExpires
           \/ \E c \in Callers : CallEnds(c)
    PROVE  TypeOK'
  <1>1. ASSUME NEW disposition \in Dispositions, NEW given \in BOOLEAN,
               Terminalize(disposition, given)
        PROVE  TypeOK'
    <2>1. dState' \in {"active", "blocked", "exhausted"} /\ blockers' \in BOOLEAN
      BY <1>1, DispositionAssumption DEF Terminalize, TypeOK
    <2> QED
      BY <1>1, <2>1 DEF Terminalize, TypeOK, git
  <1>2. CASE WallExpires
    BY <1>2 DEF WallExpires, TypeOK, journal, git
  <1>3. ASSUME NEW c \in Callers, CallEnds(c) PROVE TypeOK'
    BY <1>3, NullTypes DEF CallEnds, Returns, TypeOK, journal, git
  <1> QED
    BY <1>1, <1>2, <1>3

\* A call that is left alone, ends, or goes on to a part that commits no
\* attempt by name keeps CallsNameAttempts.
LEMMA CallsKept ==
    ASSUME TypeOK, CallsNameAttempts, NEW c \in Callers, NEW record,
           record.op \notin Naming,
           call' = call \/ Returns(c) \/ Holds(c, record)
    PROVE  CallsNameAttempts'
  <1>1. CASE call' = call
    BY <1>1 DEF CallsNameAttempts
  <1>2. CASE Returns(c)
    BY <1>2, TypeFacts DEF Returns, CallsNameAttempts, Naming, CandidateParts, Idle
  <1>3. CASE Holds(c, record)
    BY <1>3, TypeFacts DEF Holds, CallsNameAttempts
  <1> QED
    BY <1>1, <1>2, <1>3

\* Every step of a caller but the four loads keeps CallsNameAttempts.
LEMMA ServiceCalls ==
    ASSUME TypeOK, CallsNameAttempts, NEW c \in Callers, ServiceStep(c)
    PROVE  CallsNameAttempts'
  <1> DEFINE Plain(record) ==
               record.op \notin Naming
  <1>1. Plain(Idle)
    BY DEF Idle, Naming, CandidateParts
  <1>2. Returns(c) => CallsNameAttempts'
    BY <1>1, CallsKept
  <1>3. \A record : Plain(record) /\ Holds(c, record) => CallsNameAttempts'
    BY CallsKept
  <1>4. call[c] \in Call /\ Idle \in Call
    BY TypeFacts, NullTypes
  <1> HIDE DEF Plain
  <1>5. CASE PrepareRead(c)
    <2>1. Plain([Idle EXCEPT !.op = "prepare", !.head = head])
      BY DEF Plain, Naming, CandidateParts, Idle
    <2> QED
      BY <1>3, <1>5, <2>1 DEF PrepareRead
  <1>6. CASE PrepareResume(c)
    <2>1. \A w, todo : Plain([Idle EXCEPT !.op = "attach", !.wave = w, !.todo = todo])
      BY DEF Plain, Naming, CandidateParts, Idle
    <2> QED
      BY <1>3, <1>6, <2>1 DEF PrepareResume
  <1>7. CASE PrepareAdmit(c)
    <2>1. \A w, todo : Plain([Idle EXCEPT !.op = "attach", !.wave = w, !.todo = todo])
      BY DEF Plain, Naming, CandidateParts, Idle
    <2> QED
      BY <1>3, <1>7, <2>1 DEF PrepareAdmit
  <1>8. ASSUME NEW t \in Tasks, NEW ready \in BOOLEAN, AttachWorktree(c, t, ready)
        PROVE  CallsNameAttempts'
    <2>1. \A todo : Plain([call[c] EXCEPT !.todo = todo])
      BY <1>4, <1>8 DEF Plain, Naming, CandidateParts, AttachWorktree, Call
    <2> QED
      BY <1>3, <1>8, <2>1 DEF AttachWorktree
  <1>9. CASE PrepareReturn(c)
    <2>1. \A w, items : Plain([Idle EXCEPT !.op = "children", !.wave = w, !.cands = items])
      BY DEF Plain, Naming, CandidateParts, Idle
    <2> QED
      BY <1>2, <1>3, <1>9, <2>1 DEF PrepareReturn
  <1>10. ASSUME NEW x \in Commit, NEW k \in 1..MaxCopies, StartChild(c, x, k)
         PROVE  CallsNameAttempts'
    <2>1. \A left : Plain([call[c] EXCEPT !.cands = left])
      BY <1>4, <1>10 DEF Plain, Naming, CandidateParts, StartChild, Call
    <2> QED
      BY <1>2, <1>3, <1>10, <2>1 DEF StartChild
  <1>11. CASE \/ QuestionCommit(c) \/ AnswerCommit(c) \/ CandidateCommit(c)
              \/ \E fallback \in BOOLEAN : FailureCommit(c, fallback)
              \/ FailureReplay(c) \/ SettleReplay(c) \/ CallEnds(c)
              \/ \E r \in results : SettleCommit(c, r)
    BY <1>2, <1>11 DEF QuestionCommit, AnswerCommit, CandidateCommit, FailureCommit,
                       FailureReplay, SettleReplay, CallEnds, SettleCommit
  <1>12. ASSUME NEW w \in DOMAIN waves, SettleResume(c, w) PROVE CallsNameAttempts'
    <2>1. \A h, cands : Plain([Idle EXCEPT !.op = "integrate", !.wave = w, !.head = h,
                                           !.cands = cands])
      BY DEF Plain, Naming, CandidateParts, Idle
    <2> QED
      BY <1>3, <1>12, <2>1 DEF SettleResume
  <1>13. ASSUME NEW w \in DOMAIN waves, SettleLoad(c, w) PROVE CallsNameAttempts'
    <2>1. \A h, cands : Plain([Idle EXCEPT !.op = "intent", !.wave = w, !.head = h,
                                           !.cands = cands])
      BY DEF Plain, Naming, CandidateParts, Idle
    <2> QED
      BY <1>3, <1>13, <2>1 DEF SettleLoad
  <1>14. CASE SettleIntent(c) \/ IntegrateReplay(c)
              \/ \E conflict \in 0..NTasks : Integrate(c, conflict)
    <2>1. \A op \in {"integrate", "settle"} : Plain([call[c] EXCEPT !.op = op])
      BY <1>4 DEF Plain, Naming, CandidateParts, Call
    <2>2. Holds(c, [call[c] EXCEPT !.op = "integrate"])
          \/ Holds(c, [call[c] EXCEPT !.op = "settle"])
      BY <1>14 DEF SettleIntent, IntegrateReplay, Integrate
    <2> QED
      BY <1>3, <2>1, <2>2
  <1> QED
    BY <1>5, <1>6, <1>7, <1>8, <1>9, <1>10, <1>11, <1>12, <1>13, <1>14, LoadType,
       CandidateReadType DEF ServiceStep

\* Every step of a caller keeps the types.
LEMMA ServiceType ==
    ASSUME TypeOK, CallsNameAttempts, NEW c \in Callers, ServiceStep(c)
    PROVE  TypeOK'
  <1>1. CASE \/ PrepareRead(c) \/ PrepareResume(c) \/ PrepareAdmit(c) \/ PrepareReturn(c)
             \/ \E t \in Tasks, ready \in BOOLEAN : AttachWorktree(c, t, ready)
    BY <1>1, PrepareType
  <1>2. CASE \E x \in Commit, k \in 1..MaxCopies : StartChild(c, x, k)
    BY <1>2, ChildType
  <1>3. CASE \/ \E r \in runs, e \in Execs : QuestionLoad(c, r, e)
             \/ \E r \in runs, e \in Execs : AnswerLoad(c, r, e)
             \/ \E w \in DOMAIN waves : \E t \in waves[w].tasks, x \in Execs :
                  CandidateLoad(c, w, t, x)
             \/ \E r \in runs, e \in Execs : FailureLoad(c, r, e)
    BY <1>3, LoadType
  <1>4. CASE \/ QuestionCommit(c) \/ AnswerCommit(c) \/ CandidateCommit(c)
             \/ \E fallback \in BOOLEAN : FailureCommit(c, fallback)
             \/ FailureReplay(c)
    BY <1>4, CommitType
  <1>5. CASE \/ \E w \in DOMAIN waves : SettleResume(c, w) \/ SettleLoad(c, w)
             \/ SettleIntent(c)
             \/ \E conflict \in 0..NTasks : Integrate(c, conflict)
             \/ IntegrateReplay(c)
             \/ SettleReplay(c)
    BY <1>5, SettleStepType
  <1>6. CASE \E r \in results : SettleCommit(c, r)
    BY <1>6, SettleCommitType
  <1>7. CASE CallEnds(c)
    BY <1>7, ClosingType
  <1>8. CASE CandidateReads(c)
    BY <1>8, CandidateReadType
  <1> QED
    BY <1>1, <1>2, <1>3, <1>4, <1>5, <1>6, <1>7, <1>8 DEF ServiceStep

\* Every step keeps the types and the names of the pending commits.
LEMMA StepType == TypeOK /\ CallsNameAttempts /\ [Next]_vars => (TypeOK /\ CallsNameAttempts)'
  <1> SUFFICES ASSUME TypeOK, CallsNameAttempts, [Next]_vars
               PROVE  TypeOK' /\ CallsNameAttempts'
    OBVIOUS
  <1>1. CASE \E c \in Callers : ServiceStep(c)
    BY <1>1, ServiceType, ServiceCalls
  <1>2. CASE ChildStep
    <2>1. call' = call
      BY <1>2 DEF ChildStep, TaskContext, ChildCompletes, ChildFails, ChildAsks,
                  HumanReplies, NextGeneration
    <2> QED
      BY <1>2, <2>1, ChildType DEF CallsNameAttempts
  <1>3. CASE \/ \E disposition \in Dispositions, given \in BOOLEAN :
                   Terminalize(disposition, given)
             \/ WallExpires
    <2>1. call' = call
      BY <1>3 DEF Terminalize, WallExpires
    <2> QED
      BY <1>3, <2>1, ClosingType DEF CallsNameAttempts
  <1>4. CASE UNCHANGED vars
    BY <1>4 DEF vars, journal, git, TypeOK, CallsNameAttempts
  <1> QED
    BY <1>1, <1>2, <1>3, <1>4, NextCases

\* Whatever calls, crashes, children and clocks interleave, for any number of
\* tasks, callers and executions, the journal, Git and every pending call keep
\* their shape (TypeOK).
THEOREM TypeCorrect == Spec => []TypeOK
  <1> DEFINE IInv == TypeOK /\ CallsNameAttempts
  <1>1. Init => IInv
    BY InitType DEF Init, CallsNameAttempts, Naming, CandidateParts, Idle
  <1>2. IInv /\ [Next]_vars => IInv'
    BY StepType
  <1>3. IInv => TypeOK
    OBVIOUS
  <1> QED
    BY <1>1, <1>2, <1>3, PTL DEF Spec
=============================================================================
