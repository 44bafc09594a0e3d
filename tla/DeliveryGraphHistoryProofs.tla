--------------------- MODULE DeliveryGraphHistoryProofs ---------------------
(***************************************************************************)
(* The history of a task in DeliveryGraph, for every number of tasks,      *)
(* callers and runs: the task mirrors its latest attempt, and what an      *)
(* attempt became stays.  Both follow from one view of a step: per task,   *)
(* either nothing changes, or the latest attempt is replaced, or it is     *)
(* closed and the next one opened.  On the same invariant rest that the    *)
(* human pause is exact and that a candidate has the run it came from.     *)
(***************************************************************************)
EXTENDS DeliveryGraphProofs

\* A task in state ts, with n attempts in its history h: the conjuncts of
\* TaskMirrorsLatestAttempt, and a pending task has never been tried.
TaskSound(ts, n, h) ==
    /\ IF n = 0 THEN ts = "pending" ELSE ts = h[n].state /\ ~h[n].answered
    /\ ts = "pending" => n = 0
    /\ \A e \in Execs : /\ e < n => Closed(h[e])
                        /\ e > n => h[e] = NoAttempt
HistorySound == \A t \in Tasks : TaskSound(tState[t], count[t], att[t])

\* What attempt a may become.
Kept(a, b) ==
    /\ a.state \in {"integrated", "blocked"} => b = a
    /\ a.state = "candidate" =>
         /\ b.state \in {"candidate", "integrated", "blocked"}
         /\ [b EXCEPT !.state = a.state, !.conflict = a.conflict] = a
    /\ a.state # "none" => b.base = a.base
HistoryKept(h, i) == \A e \in Execs : Kept(h[e], i[e])

\* A step keeps every task sound and every attempt.
Good ==
    \A t \in Tasks : /\ TaskSound(tState'[t], count'[t], att'[t])
                     /\ HistoryKept(att[t], att'[t])

\* The integrator accepts candidates of its operation, those before the one
\* that conflicts, and the conflict is one of them.
ResultsSound ==
    \A r \in results :
        /\ \A x \in r.accepted : x \in r.op.cands /\ x[1] # r.conflict
        /\ r.conflict # 0 => \E x \in r.op.cands : x[1] = r.conflict

-----------------------------------------------------------------------------
(* The three ways a history changes *)

\* What stays the same is kept.
LEMMA KeptSame == ASSUME NEW a \in Attempt PROVE Kept(a, a)
  BY DEF Kept, Attempt

\* The latest attempt is replaced by an open or final one.
LEMMA LatestReplaced ==
    ASSUME NEW ts, NEW n \in Execs, NEW h \in [Execs -> Attempt], TaskSound(ts, n, h),
           NEW a \in Attempt, ~a.answered, a.state # "pending", Kept(h[n], a)
    PROVE  /\ TaskSound(a.state, n, [h EXCEPT ![n] = a])
           /\ HistoryKept(h, [h EXCEPT ![n] = a])
  <1> DEFINE i == [h EXCEPT ![n] = a]
  <1>1. i[n] = a /\ \A e \in Execs : e # n => i[e] = h[e]
    OBVIOUS
  <1>2. n # 0
    BY DEF Execs
  <1>3. TaskSound(a.state, n, i)
    BY <1>1, <1>2 DEF TaskSound, Execs
  <1>4. \A e \in Execs : Kept(h[e], i[e])
    BY <1>1, KeptSame
  <1> QED
    BY <1>3, <1>4 DEF HistoryKept

\* The latest attempt is closed and the next one opened.
LEMMA NextOpened ==
    ASSUME NEW ts, NEW n \in Execs, n + 1 \in Execs,
           NEW h \in [Execs -> Attempt], TaskSound(ts, n, h),
           NEW c \in Attempt, Closed(c), Kept(h[n], c),
           NEW a \in Attempt, ~a.answered, a.state # "pending"
    PROVE  /\ TaskSound(a.state, n + 1, [h EXCEPT ![n] = c, ![n + 1] = a])
           /\ HistoryKept(h, [h EXCEPT ![n] = c, ![n + 1] = a])
  <1> DEFINE i == [h EXCEPT ![n] = c, ![n + 1] = a]
  <1>1. n \in Nat /\ n # 0 /\ n + 1 # n /\ n + 1 # 0
    BY DEF Execs
  <1>2. /\ i[n] = c /\ i[n + 1] = a
        /\ \A e \in Execs : e # n /\ e # n + 1 => i[e] = h[e]
    BY <1>1
  <1>3. \A e \in Execs : /\ e < n + 1 => Closed(i[e])
                         /\ e > n + 1 => i[e] = NoAttempt
    <2> TAKE e \in Execs
    <2>1. e \in Nat
      BY DEF Execs
    <2>2. (e < n => Closed(h[e])) /\ (e > n => h[e] = NoAttempt)
      BY DEF TaskSound
    <2>3. CASE e = n
      BY <1>1, <1>2, <2>3
    <2>4. CASE e = n + 1
      BY <1>1, <2>4
    <2>5. CASE e # n /\ e # n + 1
      BY <1>1, <1>2, <2>1, <2>2, <2>5
    <2> QED
      BY <2>3, <2>4, <2>5
  <1>4. TaskSound(a.state, n + 1, i)
    BY <1>1, <1>2, <1>3 DEF TaskSound
  <1>5. Kept(h[n + 1], a)
    <2>1. h[n + 1] = NoAttempt
      BY <1>1 DEF TaskSound
    <2> QED
      BY <2>1 DEF Kept, NoAttempt
  <1>6. \A e \in Execs : Kept(h[e], i[e])
    BY <1>2, <1>5, KeptSame
  <1> QED
    BY <1>4, <1>6 DEF HistoryKept

\* The first attempt is opened.
LEMMA FirstOpened ==
    ASSUME NEW h \in [Execs -> Attempt], TaskSound("pending", 0, h), 1 \in Execs,
           NEW a \in Attempt, ~a.answered, a.state # "pending"
    PROVE  /\ TaskSound(a.state, 1, [h EXCEPT ![1] = a])
           /\ HistoryKept(h, [h EXCEPT ![1] = a])
  <1> DEFINE i == [h EXCEPT ![1] = a]
  <1>1. i[1] = a /\ \A e \in Execs : e # 1 => i[e] = h[e]
    OBVIOUS
  <1>2. \A e \in Execs : h[e] = NoAttempt
    BY DEF TaskSound, Execs
  <1>3. TaskSound(a.state, 1, i)
    BY <1>1, <1>2 DEF TaskSound, Execs
  <1>4. \A b : Kept(NoAttempt, b)
    BY DEF Kept, NoAttempt
  <1> QED
    BY <1>2, <1>3, <1>4 DEF HistoryKept

\* A step that changes one task only.
LEMMA OneTask ==
    ASSUME TypeOK, HistorySound, NEW t \in Tasks, NEW ts, NEW n, NEW h,
           tState' = [tState EXCEPT ![t] = ts],
           count' = [count EXCEPT ![t] = n],
           att' = [att EXCEPT ![t] = h],
           TaskSound(ts, n, h), HistoryKept(att[t], h)
    PROVE  Good
  <1>1. /\ tState \in [Tasks -> TaskStates] /\ count \in [Tasks -> 0..MaxExec]
        /\ att \in [Tasks -> [Execs -> Attempt]]
    BY DEF TypeOK
  <1>2. tState'[t] = ts /\ count'[t] = n /\ att'[t] = h
    BY <1>1
  <1>3. \A u \in Tasks : u # t =>
          tState'[u] = tState[u] /\ count'[u] = count[u] /\ att'[u] = att[u]
    BY <1>1
  <1>4. \A u \in Tasks : HistoryKept(att[u], att[u])
    BY <1>1, KeptSame DEF HistoryKept
  <1> QED
    BY <1>2, <1>3, <1>4 DEF Good, HistorySound

\* A step that changes no task.
LEMMA NoTask ==
    ASSUME TypeOK, HistorySound, UNCHANGED <<tState, count, att>>
    PROVE  Good
  <1>1. att \in [Tasks -> [Execs -> Attempt]]
    BY DEF TypeOK
  <1>2. \A u \in Tasks : HistoryKept(att[u], att[u])
    BY <1>1, KeptSame DEF HistoryKept
  <1> QED
    BY <1>2 DEF Good, HistorySound

-----------------------------------------------------------------------------
(* The commits *)

\* What holds of the latest attempt of a task that has one.
LEMMA LatestFacts ==
    ASSUME TypeOK, HistorySound, NEW t \in Tasks, count[t] # 0
    PROVE  /\ count[t] \in Execs
           /\ att[t] \in [Execs -> Attempt]
           /\ att[t][count[t]] \in Attempt
           /\ TaskSound(tState[t], count[t], att[t])
           /\ tState[t] = att[t][count[t]].state
           /\ ~att[t][count[t]].answered
  <1>1. count[t] \in 0..MaxExec /\ att[t] \in [Execs -> Attempt]
    BY DEF TypeOK
  <1>2. count[t] \in Execs
    BY <1>1, SizesAssumption DEF Execs
  <1>3. TaskSound(tState[t], count[t], att[t])
    BY DEF HistorySound
  <1> QED
    BY <1>1, <1>2, <1>3 DEF TaskSound

\* A new attempt is open and not continued.
LEMMA NewAttemptOpen ==
    ASSUME NEW e, NEW base, NEW allowance
    PROVE  /\ NewAttempt(e, base, allowance).state = "preparing"
           /\ NewAttempt(e, base, allowance).answered = FALSE
  BY DEF NewAttempt, NoAttempt

\* record_question, record_candidate and record_answer.
LEMMA CommitGood ==
    ASSUME TypeOK, HistorySound, CallsNameAttempts, NEW c \in Callers,
           QuestionCommit(c) \/ CandidateCommit(c) \/ AnswerCommit(c)
    PROVE  Good
  <1> DEFINE t == call[c].task
             e == call[c].exec
             a == att[t][e]
  <1>1. /\ t \in Tasks /\ e \in Execs
        /\ call[c].run \in RunId /\ call[c].used \in 0..MaxUse
        /\ call[c].prompt \in Prompts \cup {NoPrompt}
    <2>1. t \in Tasks /\ e \in Execs
      BY DEF CallsNameAttempts, Naming, CandidateParts, QuestionCommit, AnswerCommit, CandidateCommit
    <2> QED
      BY <2>1, TypeFacts DEF Call
  <1>2. e = count[t] /\ e # 0
    BY <1>1 DEF QuestionCommit, AnswerCommit, CandidateCommit, StillRunning, Execs
  <1>3. /\ att[t] \in [Execs -> Attempt] /\ a \in Attempt /\ ~a.answered
        /\ TaskSound(tState[t], e, att[t])
    BY <1>1, <1>2, LatestFacts
  <1>4. count = [count EXCEPT ![t] = e]
    BY <1>1, <1>2 DEF TypeOK
  <1>5. {"waiting_input", "running", "candidate"} \subseteq TaskStates
    BY DEF TaskStates
  <1>6. CASE QuestionCommit(c)
    <2> DEFINE b == [a EXCEPT !.state = "waiting_input", !.child = call[c].run,
                              !.prompt = call[c].prompt]
    <2>1. /\ att' = [att EXCEPT ![t] = [@ EXCEPT ![e] = b]]
          /\ tState' = [tState EXCEPT ![t] = "waiting_input"] /\ count' = count
          /\ a.state = "running"
      BY <1>6 DEF QuestionCommit, Replaced, StillRunning, RunningAttempt
    <2>2. b \in Attempt /\ ~b.answered /\ b.state = "waiting_input" /\ b.base = a.base
      BY <1>1, <1>3, <1>5 DEF Attempt
    <2>3. Kept(a, b)
      BY <2>1, <2>2 DEF Kept
    <2> HIDE DEF b
    <2>4. /\ TaskSound("waiting_input", e, [att[t] EXCEPT ![e] = b])
          /\ HistoryKept(att[t], [att[t] EXCEPT ![e] = b])
      BY <1>1, <1>3, <2>2, <2>3, LatestReplaced
    <2>5. att' = [att EXCEPT ![t] = [att[t] EXCEPT ![e] = b]]
      BY <2>1
    <2> QED
      BY <1>1, <1>4, <2>1, <2>4, <2>5, OneTask
  <1>7. CASE CandidateCommit(c)
    <2> DEFINE b == [a EXCEPT !.state = "candidate", !.child = call[c].run,
                              !.used = call[c].used]
    <2>1. /\ att' = [att EXCEPT ![t] = [@ EXCEPT ![e] = b]]
          /\ tState' = [tState EXCEPT ![t] = "candidate"] /\ count' = count
          /\ a.state = "running"
      BY <1>7 DEF CandidateCommit, Replaced, StillRunning, RunningAttempt
    <2>2. b \in Attempt /\ ~b.answered /\ b.state = "candidate" /\ b.base = a.base
      BY <1>1, <1>3, <1>5 DEF Attempt
    <2>3. Kept(a, b)
      BY <2>1, <2>2 DEF Kept
    <2> HIDE DEF b
    <2>4. /\ TaskSound("candidate", e, [att[t] EXCEPT ![e] = b])
          /\ HistoryKept(att[t], [att[t] EXCEPT ![e] = b])
      BY <1>1, <1>3, <2>2, <2>3, LatestReplaced
    <2>5. att' = [att EXCEPT ![t] = [att[t] EXCEPT ![e] = b]]
      BY <2>1
    <2> QED
      BY <1>1, <1>4, <2>1, <2>4, <2>5, OneTask
  <1>8. CASE AnswerCommit(c)
    <2> DEFINE b == [a EXCEPT !.answered = TRUE]
               next == Continued(a)
    <2>1. /\ att' = [att EXCEPT ![t] = Answered(t, e)]
          /\ tState' = [tState EXCEPT ![t] = "running"]
          /\ count' = [count EXCEPT ![t] = e + 1]
          /\ a.state = "waiting_input" /\ e < MaxExec
      BY <1>8 DEF AnswerCommit
    <2>2. /\ b \in Attempt /\ b.answered /\ b.state = "waiting_input" /\ b.base = a.base
      BY <1>3, <2>1 DEF Attempt
    <2>3. next \in Attempt /\ ~next.answered /\ next.state = "running"
      BY <1>3, <1>5, NullTypes DEF Attempt, Continued
    <2>4. Kept(a, b) /\ Closed(b)
      BY <2>1, <2>2 DEF Kept, Closed
    <2>5. e + 1 \in Execs
      BY <1>1, <2>1, SizesAssumption DEF Execs
    <2>6. Answered(t, e) = [att[t] EXCEPT ![e] = b, ![e + 1] = next]
      BY DEF Answered
    <2> HIDE DEF b, next
    <2>7. TaskSound("running", e + 1, Answered(t, e)) /\ HistoryKept(att[t], Answered(t, e))
      BY SMTT(30), <1>1, <1>3, <2>2, <2>3, <2>4, <2>5, <2>6, NextOpened
    <2> QED
      BY <1>1, <2>1, <2>7, OneTask
  <1> QED
    BY <1>6, <1>7, <1>8

\* record_failure: the attempt is closed with or without a fallback.
LEMMA FailureGood ==
    ASSUME TypeOK, HistorySound, CallsNameAttempts, NEW c \in Callers,
           NEW fallback \in BOOLEAN, FailureCommit(c, fallback)
    PROVE  Good
  <1> DEFINE t == call[c].task
             e == call[c].exec
             a == att[t][e]
             projected == ProjectedTokens(t, e, call[c].used)
             next == NewAttempt(e + 1, GraphHead, projected)
             b == [a EXCEPT !.state = "blocked", !.child = call[c].run,
                            !.used = call[c].used]
  <1>1. t \in Tasks /\ e \in Execs /\ call[c].run \in RunId /\ call[c].used \in 0..MaxUse
    <2>1. t \in Tasks /\ e \in Execs
      BY DEF CallsNameAttempts, Naming, CandidateParts, FailureCommit
    <2> QED
      BY <2>1, TypeFacts DEF Call
  <1>2. e = count[t] /\ e # 0 /\ a.state = "running"
    BY <1>1 DEF FailureCommit, StillRunning, RunningAttempt, Execs
  <1>3. /\ att[t] \in [Execs -> Attempt] /\ a \in Attempt /\ ~a.answered
        /\ TaskSound(tState[t], e, att[t])
    BY <1>1, <1>2, LatestFacts
  <1>4. b \in Attempt /\ ~b.answered /\ b.state = "blocked" /\ b.base = a.base
    BY <1>1, <1>3 DEF Attempt, TaskStates
  <1>5. Kept(a, b) /\ Closed(b)
    BY <1>2, <1>4 DEF Kept, Closed
  <1>6. CASE MayRetry(e, projected) /\ fallback
    <2>1. /\ att' = [att EXCEPT ![t] = [@ EXCEPT ![e] = b, ![e + 1] = next]]
          /\ count' = [count EXCEPT ![t] = e + 1]
          /\ tState' = [tState EXCEPT ![t] = "preparing"]
      BY <1>6 DEF FailureCommit
    <2>2. e + 1 \in Execs
      BY <1>1, <1>6, SizesAssumption DEF MayRetry, Execs
    <2>3. projected \in 0..TokenCeiling /\ GraphHead \in Nat
      <3>1. call[c].used \in Nat
        BY <1>1, SizesAssumption
      <3> QED
        BY <1>1, <3>1, BudgetType, HeadType
    <2>4. next \in Attempt /\ ~next.answered /\ next.state = "preparing"
      BY <2>2, <2>3, NewAttemptType, NewAttemptOpen
    <2> HIDE DEF b, next
    <2>5. /\ TaskSound("preparing", e + 1, [att[t] EXCEPT ![e] = b, ![e + 1] = next])
          /\ HistoryKept(att[t], [att[t] EXCEPT ![e] = b, ![e + 1] = next])
      <3>1. PICK h : h = att[t]
        OBVIOUS
      <3>2. h \in [Execs -> Attempt] /\ TaskSound(tState[t], e, h) /\ Kept(h[e], b)
        BY <1>3, <1>5, <3>1
      <3> HIDE DEF t, e, a, projected
      <3> QED
        BY <1>1, <1>4, <1>5, <2>2, <2>4, <3>1, <3>2, NextOpened
    <2>6. att' = [att EXCEPT ![t] = [att[t] EXCEPT ![e] = b, ![e + 1] = next]]
      BY <2>1
    <2> QED
      BY <1>1, <2>1, <2>5, <2>6, OneTask
  <1>7. CASE ~(MayRetry(e, projected) /\ fallback)
    <2>1. /\ att' = [att EXCEPT ![t] = [@ EXCEPT ![e] = b]]
          /\ tState' = [tState EXCEPT ![t] = "blocked"] /\ count' = count
      BY <1>7 DEF FailureCommit, Replaced
    <2> HIDE DEF b
    <2>2. /\ TaskSound("blocked", e, [att[t] EXCEPT ![e] = b])
          /\ HistoryKept(att[t], [att[t] EXCEPT ![e] = b])
      BY <1>1, <1>3, <1>4, <1>5, LatestReplaced
    <2>3. att' = [att EXCEPT ![t] = [att[t] EXCEPT ![e] = b]]
      BY <2>1
    <2>4. count' = [count EXCEPT ![t] = e]
      BY <1>1, <1>2, <2>1 DEF TypeOK
    <2> QED
      BY <1>1, <2>1, <2>2, <2>3, <2>4, OneTask
  <1> QED
    BY <1>6, <1>7

-----------------------------------------------------------------------------
(* prepare_wave *)

\* A worktree is attached to a latest attempt that prepares or runs.
LEMMA AttachGood ==
    ASSUME TypeOK, HistorySound, NEW c \in Callers, NEW t \in Tasks, NEW ready \in BOOLEAN,
           AttachWorktree(c, t, ready)
    PROVE  Good
  <1> DEFINE e == count[t]
             a == att[t][e]
             state == IF ready THEN "running" ELSE a.state
             b == [a EXCEPT !.tree = call[c].wave, !.state = state]
  <1>1. /\ e # 0 /\ a.state \in {"preparing", "running"}
        /\ att' = [att EXCEPT ![t] = [@ EXCEPT ![e] = b]]
        /\ tState' = [tState EXCEPT ![t] = state] /\ count' = count
    BY DEF AttachWorktree, Attachable, Replaced
  <1>2. /\ e \in Execs /\ att[t] \in [Execs -> Attempt] /\ a \in Attempt /\ ~a.answered
        /\ TaskSound(tState[t], e, att[t])
    BY <1>1, LatestFacts
  <1>3. call[c].wave \in Nat /\ state \in {"preparing", "running"}
    BY <1>1, TypeFacts DEF Call
  <1> HIDE DEF state
  <1>4. b \in Attempt /\ ~b.answered /\ b.state = state /\ b.base = a.base
    BY <1>2, <1>3 DEF Attempt, TaskStates
  <1>5. Kept(a, b)
    BY <1>1, <1>4 DEF Kept
  <1> HIDE DEF b
  <1>6. /\ TaskSound(state, e, [att[t] EXCEPT ![e] = b])
        /\ HistoryKept(att[t], [att[t] EXCEPT ![e] = b])
    BY <1>2, <1>3, <1>4, <1>5, LatestReplaced
  <1>7. att' = [att EXCEPT ![t] = [att[t] EXCEPT ![e] = b]] /\ count' = [count EXCEPT ![t] = e]
    BY <1>1 DEF TypeOK
  <1> QED
    BY <1>1, <1>6, <1>7, OneTask

\* Only tasks that were never tried are admitted.
LEMMA AdmitGood ==
    ASSUME TypeOK, HistorySound, NEW c \in Callers, PrepareAdmit(c)
    PROVE  Good
  <1> DEFINE admitted == Admitted(WaveSlots(AvailableTokens))
             New(share, t) == NewAttempt(1, call[c].head, share[t])
  <1>1. PICK share \in [admitted -> 1..AvailableTokens] :
          att' = [t \in Tasks |-> IF t \in admitted
                                  THEN [att[t] EXCEPT ![1] = New(share, t)] ELSE att[t]]
    BY DEF PrepareAdmit
  <1>2. /\ tState' = [t \in Tasks |-> IF t \in admitted THEN "preparing" ELSE tState[t]]
        /\ count' = [t \in Tasks |-> IF t \in admitted THEN 1 ELSE count[t]]
    BY DEF PrepareAdmit
  <1> SUFFICES ASSUME NEW t \in Tasks
               PROVE  /\ TaskSound(tState'[t], count'[t], att'[t])
                      /\ HistoryKept(att[t], att'[t])
    BY DEF Good
  <1>3. att[t] \in [Execs -> Attempt] /\ TaskSound(tState[t], count[t], att[t])
    BY DEF TypeOK, HistorySound
  <1>4. CASE t \in admitted
    <2>1. tState[t] = "pending" /\ count[t] = 0
      BY <1>3, <1>4 DEF Admitted, Ready, TaskSound
    <2>2. 1 \in Execs /\ call[c].head \in Nat
      BY SizesAssumption, TypeFacts DEF Execs, Call
    <2>3. share[t] \in 0..TokenCeiling
      <3>1. share[t] \in 1..AvailableTokens
        BY <1>1, <1>4
      <3> QED
        BY <3>1, BudgetType, SizesAssumption
    <2>4. New(share, t) \in Attempt
      BY <2>2, <2>3, NewAttemptType
    <2>5. New(share, t).state = "preparing" /\ New(share, t).answered = FALSE
      BY DEF NewAttempt, NoAttempt
    <2>6. att'[t] = [att[t] EXCEPT ![1] = New(share, t)]
      BY <1>1, <1>4
    <2>7. tState'[t] = "preparing" /\ count'[t] = 1
      BY <1>2, <1>4
    <2> HIDE DEF New
    <2>8. /\ TaskSound("preparing", 1, [att[t] EXCEPT ![1] = New(share, t)])
          /\ HistoryKept(att[t], [att[t] EXCEPT ![1] = New(share, t)])
      BY <1>3, <2>1, <2>2, <2>4, <2>5, FirstOpened
    <2> QED
      BY <2>6, <2>7, <2>8
  <1>5. CASE t \notin admitted
    <2>1. tState'[t] = tState[t] /\ count'[t] = count[t] /\ att'[t] = att[t]
      BY <1>1, <1>2, <1>5
    <2> QED
      BY <1>3, <2>1, KeptSame DEF HistoryKept
  <1> QED
    BY <1>4, <1>5

-----------------------------------------------------------------------------
(* settle_wave *)

\* The integrator accepts the candidates before the conflict.
LEMMA IntegrateSound ==
    ASSUME TypeOK, ResultsSound, NEW c \in Callers, NEW conflict \in 0..NTasks,
           Integrate(c, conflict)
    PROVE  ResultsSound'
  <1> DEFINE op == OperationOf(call[c])
             accepted == Accepted(call[c].cands, conflict)
             final == FinalHead(head, call[c].cands, conflict)
             r == [op |-> op, conflict |-> conflict, final |-> final, accepted |-> accepted]
  <1>1. results' = results \cup {r}
    BY DEF Integrate
  <1>2. op.cands = call[c].cands
    BY DEF OperationOf
  <1>3. call[c].cands \subseteq Commit
    BY TypeFacts DEF Call
  <1>4. \A x \in Commit : x[1] \in 1..NTasks
    BY DEF Commit, Tasks
  <1>5. \A x \in accepted : x \in op.cands /\ x[1] # conflict
    BY <1>2, <1>3, <1>4, SizesAssumption DEF Accepted
  <1>6. conflict # 0 => \E x \in op.cands : x[1] = conflict
    BY <1>2 DEF Integrate
  <1>7. r.op = op /\ r.conflict = conflict /\ r.accepted = accepted
    OBVIOUS
  <1> HIDE DEF r, op, accepted
  <1> QED
    BY <1>1, <1>5, <1>6, <1>7 DEF ResultsSound

\* The commit of a settlement moves candidates only: those accepted, and the
\* one that conflicted.
LEMMA SettleGood ==
    ASSUME TypeOK, HistorySound, ResultsSound, NEW c \in Callers, NEW r \in results,
           SettleCommit(c, r)
    PROVE  Good
  <1> DEFINE available == AvailableTokens
             k == r.conflict
             retry == k # 0 /\ MayRetry(count[k], available)
  <1>1. /\ att' = SettledAttempts(r, retry, available)
        /\ tState' = [t \in Tasks |->
                        IF <<t, count[t]>> \in r.accepted THEN "integrated"
                        ELSE IF t = k THEN (IF retry THEN "preparing" ELSE "blocked")
                        ELSE tState[t]]
        /\ count' = [t \in Tasks |-> IF t = k /\ retry THEN count[t] + 1 ELSE count[t]]
        /\ \A x \in r.op.cands :
             (x \in r.accepted \/ x[1] = k) => x[2] = count[x[1]] /\ tState[x[1]] = "candidate"
    BY DEF SettleCommit
  <1>2. r \in Result /\ r.op \in Operation /\ r.final \in Nat
    BY DEF TypeOK, Result
  <1>3. available \in 0..TokenCeiling
    BY BudgetType
  <1>4. /\ \A x \in r.accepted : x \in r.op.cands /\ x[1] # k
        /\ k # 0 => \E x \in r.op.cands : x[1] = k
    BY DEF ResultsSound
  <1>5. k # 0 => r.op # NoOperation
    BY <1>4 DEF NoOperation
  <1> SUFFICES ASSUME NEW t \in Tasks
               PROVE  /\ TaskSound(tState'[t], count'[t], att'[t])
                      /\ HistoryKept(att[t], att'[t])
    BY DEF Good
  <1> DEFINE e == count[t]
             a == att[t][e]
  <1>6. att[t] \in [Execs -> Attempt] /\ TaskSound(tState[t], e, att[t])
    BY DEF TypeOK, HistorySound
  <1>7. tState[t] = "candidate" =>
          e \in Execs /\ a \in Attempt /\ ~a.answered /\ a.state = "candidate"
    BY <1>6, LatestFacts DEF TaskSound
  <1>8. t # 0
    BY DEF Tasks
  <1> HIDE DEF available, retry
  <1>9. CASE <<t, e>> \in r.accepted
    <2> DEFINE b == [a EXCEPT !.state = "integrated"]
    <2>1. tState[t] = "candidate" /\ t # k
      BY <1>1, <1>4, <1>9
    <2>2. att'[t] = [att[t] EXCEPT ![e] = b]
      BY <1>1, <1>9 DEF SettledAttempts
    <2>3. tState'[t] = "integrated" /\ count'[t] = e
      BY <1>1, <1>9, <2>1
    <2>4. b \in Attempt /\ ~b.answered /\ b.state = "integrated" /\ b.base = a.base
      BY <1>7, <2>1 DEF Attempt, TaskStates
    <2>5. [b EXCEPT !.state = a.state, !.conflict = a.conflict] = a
      BY <1>7, <2>1 DEF Attempt
    <2>6. Kept(a, b)
      BY <1>7, <2>1, <2>4, <2>5 DEF Kept
    <2> HIDE DEF b
    <2>7. /\ TaskSound("integrated", e, [att[t] EXCEPT ![e] = b])
          /\ HistoryKept(att[t], [att[t] EXCEPT ![e] = b])
      BY <1>6, <1>7, <2>1, <2>4, <2>6, LatestReplaced
    <2> QED
      BY <2>2, <2>3, <2>7
  <1>10. CASE <<t, e>> \notin r.accepted /\ t = k
    <2>1. tState[t] = "candidate"
      BY <1>1, <1>4, <1>8, <1>10
    <2>2. k # 0 /\ r.op # NoOperation
      BY <1>5, <1>8, <1>10
    <2>3. CASE retry
      <3> DEFINE b == [a EXCEPT !.conflict = r.op]
                 next == NewAttempt(e + 1, r.final, available)
      <3>1. att'[t] = [att[t] EXCEPT ![e] = b, ![e + 1] = next]
        BY <1>1, <1>10, <2>3 DEF SettledAttempts
      <3>2. tState'[t] = "preparing" /\ count'[t] = e + 1
        BY <1>1, <1>10, <2>3
      <3>3. e + 1 \in Execs
        BY <1>7, <1>10, <2>1, <2>3, SizesAssumption DEF retry, MayRetry, Execs
      <3>4. next \in Attempt
        BY <1>2, <1>3, <3>3, NewAttemptType
      <3>5. ~next.answered /\ next.state = "preparing"
        BY NewAttemptOpen
      <3>6. b \in Attempt /\ b.state = "candidate" /\ b.conflict = r.op /\ b.base = a.base
        BY <1>2, <1>7, <2>1 DEF Attempt
      <3>7. [b EXCEPT !.state = a.state, !.conflict = a.conflict] = a
        BY <1>7, <2>1 DEF Attempt
      <3>8. Kept(a, b) /\ Closed(b)
        BY <1>7, <2>1, <2>2, <3>6, <3>7 DEF Kept, Closed
      <3> HIDE DEF b, next
      <3>9. /\ TaskSound("preparing", e + 1, [att[t] EXCEPT ![e] = b, ![e + 1] = next])
            /\ HistoryKept(att[t], [att[t] EXCEPT ![e] = b, ![e + 1] = next])
        BY <1>6, <1>7, <2>1, <3>3, <3>4, <3>5, <3>6, <3>8, NextOpened
      <3> QED
        BY <3>1, <3>2, <3>9
    <2>4. CASE ~retry
      <3> DEFINE b == [a EXCEPT !.state = "blocked", !.conflict = r.op]
      <3>1. att'[t] = [att[t] EXCEPT ![e] = b]
        BY <1>1, <1>10, <2>4 DEF SettledAttempts
      <3>2. tState'[t] = "blocked" /\ count'[t] = e
        BY <1>1, <1>10, <2>4
      <3>3. b \in Attempt /\ ~b.answered /\ b.state = "blocked" /\ b.base = a.base
        BY <1>2, <1>7, <2>1 DEF Attempt, TaskStates
      <3>4. [b EXCEPT !.state = a.state, !.conflict = a.conflict] = a
        BY <1>7, <2>1 DEF Attempt
      <3>5. Kept(a, b)
        BY <1>7, <2>1, <3>3, <3>4 DEF Kept
      <3> HIDE DEF b
      <3>6. /\ TaskSound("blocked", e, [att[t] EXCEPT ![e] = b])
            /\ HistoryKept(att[t], [att[t] EXCEPT ![e] = b])
        BY <1>6, <1>7, <2>1, <3>3, <3>5, LatestReplaced
      <3> QED
        BY <3>1, <3>2, <3>6
    <2> QED
      BY <2>3, <2>4
  <1>11. CASE <<t, e>> \notin r.accepted /\ t # k
    <2>1. tState'[t] = tState[t] /\ count'[t] = e /\ att'[t] = att[t]
      BY <1>1, <1>11 DEF SettledAttempts
    <2> QED
      BY <1>6, <2>1, KeptSame DEF HistoryKept
  <1> QED
    BY <1>9, <1>10, <1>11

-----------------------------------------------------------------------------
(* The invariant and the theorems *)

HistoryInv == TypeOK /\ CallsNameAttempts /\ HistorySound /\ ResultsSound

\* Every other step leaves the tasks alone.
LEMMA ServiceGood ==
    ASSUME TypeOK, HistorySound, CallsNameAttempts, ResultsSound, NEW c \in Callers,
           ServiceStep(c)
    PROVE  Good /\ ResultsSound'
  <1>1. UNCHANGED results => ResultsSound'
    BY DEF ResultsSound
  <1>2. CASE PrepareRead(c) \/ PrepareResume(c) \/ PrepareReturn(c)
    <2>1. UNCHANGED <<tState, count, att, results>>
      BY <1>2 DEF PrepareRead, PrepareResume, PrepareReturn, journal, git
    <2> QED
      BY <1>1, <2>1, NoTask
  <1>3. CASE PrepareAdmit(c)
    <2>1. UNCHANGED results
      BY <1>3 DEF PrepareAdmit, git
    <2> QED
      BY <1>1, <1>3, <2>1, AdmitGood
  <1>4. ASSUME NEW t \in Tasks, NEW ready \in BOOLEAN, AttachWorktree(c, t, ready)
        PROVE  Good /\ ResultsSound'
    <2>1. UNCHANGED results
      BY <1>4 DEF AttachWorktree, git
    <2> QED
      BY <1>1, <1>4, <2>1, AttachGood
  <1>5. ASSUME NEW x \in Commit, NEW k \in 1..MaxCopies, StartChild(c, x, k)
        PROVE  Good /\ ResultsSound'
    <2>1. UNCHANGED <<tState, count, att, results>>
      BY <1>5 DEF StartChild, journal, git
    <2> QED
      BY <1>1, <2>1, NoTask
  <1>6. CASE \/ \E r \in runs, e \in Execs :
                  QuestionLoad(c, r, e) \/ AnswerLoad(c, r, e) \/ FailureLoad(c, r, e)
             \/ \E w, t, x : CandidateLoad(c, w, t, x)
             \/ CandidateReads(c)
    <2>1. UNCHANGED journal /\ UNCHANGED git
      <3>1. CASE CandidateReads(c)
        BY <3>1, <1>1, CandidateReadsHold DEF HistoryInv
      <3>2. ASSUME NEW r \in runs, NEW e \in Execs,
                   QuestionLoad(c, r, e) \/ AnswerLoad(c, r, e) \/ FailureLoad(c, r, e)
            PROVE  UNCHANGED journal /\ UNCHANGED git
        BY <3>2 DEF QuestionLoad, AnswerLoad, FailureLoad
      <3>3. ASSUME NEW w, NEW t, NEW x, CandidateLoad(c, w, t, x)
            PROVE  UNCHANGED journal /\ UNCHANGED git
        BY <3>3 DEF CandidateLoad
      <3> QED
        BY <1>6, <3>1, <3>2, <3>3
    <2>2. UNCHANGED <<tState, count, att, results>>
      BY <2>1 DEF journal, git
    <2> QED
      BY <1>1, <2>2, NoTask
  <1>7. CASE QuestionCommit(c) \/ CandidateCommit(c) \/ AnswerCommit(c)
    <2>1. UNCHANGED results
      BY <1>7 DEF QuestionCommit, CandidateCommit, AnswerCommit, git
    <2> QED
      BY <1>1, <1>7, <2>1, CommitGood
  <1>8. ASSUME NEW fallback \in BOOLEAN, FailureCommit(c, fallback)
        PROVE  Good /\ ResultsSound'
    <2>1. UNCHANGED results
      BY <1>8 DEF FailureCommit, git
    <2> QED
      BY <1>1, <1>8, <2>1, FailureGood
  <1>9. CASE \E w \in DOMAIN waves : SettleResume(c, w) \/ SettleLoad(c, w)
    <2>1. UNCHANGED <<tState, count, att, results>>
      BY <1>9 DEF SettleResume, SettleLoad, journal, git
    <2> QED
      BY <1>1, <2>1, NoTask
  <1>10. CASE \/ FailureReplay(c) \/ SettleIntent(c) \/ IntegrateReplay(c)
              \/ SettleReplay(c) \/ CallEnds(c)
    <2>1. UNCHANGED <<tState, count, att, results>>
      BY <1>10 DEF FailureReplay, SettleIntent, IntegrateReplay, SettleReplay, CallEnds,
                   journal, git
    <2> QED
      BY <1>1, <2>1, NoTask
  <1>11. ASSUME NEW conflict \in 0..NTasks, Integrate(c, conflict)
         PROVE  Good /\ ResultsSound'
    <2>1. UNCHANGED <<tState, count, att>>
      BY <1>11 DEF Integrate, journal
    <2> QED
      BY <1>11, <2>1, NoTask, IntegrateSound
  <1>12. ASSUME NEW r \in results, SettleCommit(c, r)
         PROVE  Good /\ ResultsSound'
    <2>1. UNCHANGED results
      BY <1>12 DEF SettleCommit, git
    <2> QED
      BY <1>1, <1>12, <2>1, SettleGood
  <1> QED
    BY <1>2, <1>3, <1>4, <1>5, <1>6, <1>7, <1>8, <1>9, <1>10, <1>11, <1>12
       DEF ServiceStep

\* Every step keeps every task and every attempt.
LEMMA StepGood == HistoryInv /\ [Next]_vars => Good /\ ResultsSound'
  <1> SUFFICES ASSUME HistoryInv, [Next]_vars PROVE Good /\ ResultsSound'
    OBVIOUS
  <1> USE DEF HistoryInv
  <1>1. UNCHANGED <<tState, count, att, results>> => Good /\ ResultsSound'
    BY NoTask DEF ResultsSound
  <1>2. CASE \E c \in Callers : ServiceStep(c)
    BY <1>2, ServiceGood
  <1>3. CASE ChildStep
    <2>1. UNCHANGED <<tState, count, att, results>>
      BY <1>3 DEF ChildStep, TaskContext, ChildCompletes, ChildFails, ChildAsks,
                  HumanReplies, NextGeneration, journal, git
    <2> QED
      BY <1>1, <2>1
  <1>4. CASE \/ \E disposition \in Dispositions, given \in BOOLEAN :
                   Terminalize(disposition, given)
             \/ WallExpires
    <2>1. UNCHANGED <<tState, count, att, results>>
      BY <1>4 DEF Terminalize, WallExpires, journal, git
    <2> QED
      BY <1>1, <2>1
  <1>5. CASE UNCHANGED vars
    BY <1>1, <1>5 DEF vars, journal, git
  <1> QED
    BY <1>2, <1>3, <1>4, <1>5, NextCases

\* What is good for every task keeps the history sound.
LEMMA GoodIsSound == Good => HistorySound'
  BY DEF Good, HistorySound

\* The journal begins without attempts.
LEMMA InitSound == Init => HistorySound /\ ResultsSound
  <1> SUFFICES ASSUME Init PROVE HistorySound /\ ResultsSound
    OBVIOUS
  <1>1. \A t \in Tasks : TaskSound(tState[t], count[t], att[t])
    BY DEF Init, TaskSound, Execs
  <1> QED
    BY <1>1 DEF HistorySound, ResultsSound, Init

\* A sound history is what TaskMirrorsLatestAttempt asks for.
LEMMA SoundMirrors == HistorySound => TaskMirrorsLatestAttempt
  BY DEF HistorySound, TaskSound, TaskMirrorsLatestAttempt

\* A good step is what AttemptHistoryIsKept asks for.
LEMMA GoodKeeps ==
    Good => \A t \in Tasks, e \in Execs :
              LET a == att[t][e]
                  b == att'[t][e]
              IN  /\ a.state \in {"integrated", "blocked"} => b = a
                  /\ a.state = "candidate" =>
                       /\ b.state \in {"candidate", "integrated", "blocked"}
                       /\ [b EXCEPT !.state = a.state, !.conflict = a.conflict] = a
                  /\ a.state # "none" => b.base = a.base
  BY DEF Good, HistoryKept, Kept

\* The invariant holds throughout.
LEMMA HistoryInvariant == Spec => []HistoryInv
  <1>1. Init => HistoryInv
    <2>1. Init => CallsNameAttempts
      BY DEF Init, CallsNameAttempts, Naming, CandidateParts, Idle
    <2> QED
      BY <2>1, InitType, InitSound DEF HistoryInv
  <1>2. HistoryInv /\ [Next]_vars => HistoryInv'
    BY StepType, StepGood, GoodIsSound DEF HistoryInv
  <1> QED
    BY <1>1, <1>2, PTL DEF Spec

\* Whatever loads and commits of questions, answers, candidates, failures and
\* settlements interleave, a task is what its latest attempt is and every
\* earlier attempt is over: the commits of deliveryGraphService never leave a
\* task with two live attempts.
THEOREM OneLiveAttempt == Spec => []TaskMirrorsLatestAttempt
  <1>1. HistoryInv => TaskMirrorsLatestAttempt
    BY SoundMirrors DEF HistoryInv
  <1> QED
    BY <1>1, HistoryInvariant, PTL

\* No step of the service rewrites an attempt that is integrated or blocked,
\* turns a candidate into anything but what its settlement made of it, or
\* moves an attempt to another base.
THEOREM NoHistoryRewritten == Spec => AttemptHistoryIsKept
  <1>1. HistoryInv /\ [Next]_vars =>
          [\A t \in Tasks, e \in Execs :
             LET a == att[t][e]
                 b == att'[t][e]
             IN  /\ a.state \in {"integrated", "blocked"} => b = a
                 /\ a.state = "candidate" =>
                      /\ b.state \in {"candidate", "integrated", "blocked"}
                      /\ [b EXCEPT !.state = a.state, !.conflict = a.conflict] = a
                 /\ a.state # "none" => b.base = a.base]_vars
    BY StepGood, GoodKeeps
  <1> QED
    BY <1>1, HistoryInvariant, PTL DEF Spec, AttemptHistoryIsKept

-----------------------------------------------------------------------------
(* The human pause.  prepare_wave changes task states without reconciling  *)
(* it: it admits tasks only when no question is open, because a task that  *)
(* waits for a human keeps a wave open, and it attaches worktrees only to  *)
(* tasks that stop the pause already.                                      *)

\* Every task that was ever tried belongs to a wave.
TriedTasksHaveWaves ==
    \A t \in Tasks : count[t] # 0 => \E w \in DOMAIN waves : t \in waves[w].tasks

PauseInv == HistoryInv /\ TriedTasksHaveWaves /\ PauseExact

\* An open question keeps a wave open.
LEMMA QuestionKeepsWave ==
    ASSUME HistorySound, TriedTasksHaveWaves, NEW t \in Tasks, tState[t] = "waiting_input"
    PROVE  OpenWaves # {}
  <1>1. count[t] # 0
    BY DEF HistorySound, TaskSound
  <1>2. PICK w \in DOMAIN waves : t \in waves[w].tasks
    BY <1>1 DEF TriedTasksHaveWaves
  <1>3. t \in Unresolved(w)
    BY <1>2 DEF Unresolved
  <1> QED
    BY <1>2, <1>3 DEF OpenWaves

\* The commits that reconcile the pause, and the steps that touch neither it
\* nor a task, keep it exact.
LEMMA PauseReconciled ==
    ASSUME PauseExact, paused' = PauseFor(tState') \/ UNCHANGED <<tState, paused>>
    PROVE  PauseExact'
  BY DEF PauseExact, PauseFor

\* Only admission opens a task, and it does so when nothing is paused.
LEMMA AdmitPause ==
    ASSUME PauseInv, NEW c \in Callers, PrepareAdmit(c)
    PROVE  PauseExact' /\ TriedTasksHaveWaves'
  <1> DEFINE admitted == Admitted(WaveSlots(AvailableTokens))
             wave == [base |-> call[c].head, tasks |-> admitted]
  <1>1. /\ OpenWaves = {} /\ admitted # {} /\ paused' = paused
        /\ waves' = Append(waves, wave)
        /\ tState' = [t \in Tasks |-> IF t \in admitted THEN "preparing" ELSE tState[t]]
        /\ count' = [t \in Tasks |-> IF t \in admitted THEN 1 ELSE count[t]]
    BY DEF PrepareAdmit
  <1>2. admitted \subseteq Tasks
    BY DEF Admitted, Ready
  <1> HIDE DEF admitted
  <1>3. \A t \in Tasks : tState[t] # "waiting_input"
    BY <1>1, QuestionKeepsWave DEF PauseInv, HistoryInv
  <1>4. ~paused
    BY <1>3 DEF PauseInv, PauseExact
  <1>5. \A t \in Tasks : tState'[t] # "waiting_input"
    BY <1>1, <1>3
  <1>6. PauseExact'
    BY <1>1, <1>4, <1>5 DEF PauseExact
  <1>7. waves \in Seq(Wave)
    BY TypeFacts DEF PauseInv, HistoryInv
  <1>8. /\ Len(waves) + 1 \in DOMAIN waves' /\ waves'[Len(waves) + 1] = wave
        /\ \A w \in DOMAIN waves : w \in DOMAIN waves' /\ waves'[w] = waves[w]
    BY <1>1, <1>7
  <1>9. ASSUME NEW t \in Tasks, count'[t] # 0
        PROVE  \E w \in DOMAIN waves' : t \in waves'[w].tasks
    <2>1. CASE t \in admitted
      BY <1>8, <2>1
    <2>2. CASE t \notin admitted
      <3>1. count[t] # 0
        BY <1>1, <1>9, <2>2
      <3>2. PICK w \in DOMAIN waves : t \in waves[w].tasks
        BY <3>1 DEF PauseInv, TriedTasksHaveWaves
      <3> QED
        BY <1>8, <3>2
    <2> QED
      BY <2>1, <2>2
  <1> QED
    BY <1>6, <1>9 DEF TriedTasksHaveWaves

\* A worktree is attached to a task that prepares or runs, and it still does.
LEMMA AttachPause ==
    ASSUME PauseInv, NEW c \in Callers, NEW t \in Tasks, NEW ready \in BOOLEAN,
           AttachWorktree(c, t, ready)
    PROVE  PauseExact'
  <1> DEFINE state == IF ready THEN "running" ELSE att[t][count[t]].state
  <1>1. /\ count[t] # 0 /\ att[t][count[t]].state \in {"preparing", "running"}
        /\ tState' = [tState EXCEPT ![t] = state] /\ paused' = paused
    BY DEF AttachWorktree, Attachable
  <1>2. tState[t] = att[t][count[t]].state
    BY <1>1, LatestFacts DEF PauseInv, HistoryInv
  <1>3. tState'[t] \in {"preparing", "running"}
    BY <1>1 DEF PauseInv, HistoryInv, TypeOK
  <1>4. ~paused
    BY <1>1, <1>2 DEF PauseInv, PauseExact
  <1> QED
    BY <1>1, <1>3, <1>4 DEF PauseExact

\* Waves are only appended, and every other step tries only tasks tried before.
LEMMA WavesKept ==
    ASSUME PauseInv, \E wave \in Wave : waves' = waves \/ waves' = Append(waves, wave),
           \A t \in Tasks : count'[t] # 0 => count[t] # 0
    PROVE  TriedTasksHaveWaves'
  <1>1. waves \in Seq(Wave)
    BY DEF PauseInv, HistoryInv, TypeOK, Wave
  <1>2. \A w \in DOMAIN waves : w \in DOMAIN waves' /\ waves'[w] = waves[w]
    BY <1>1
  <1> SUFFICES ASSUME NEW t \in Tasks, count'[t] # 0
               PROVE  \E w \in DOMAIN waves' : t \in waves'[w].tasks
    BY DEF TriedTasksHaveWaves
  <1>3. PICK w \in DOMAIN waves : t \in waves[w].tasks
    BY DEF PauseInv, TriedTasksHaveWaves
  <1> QED
    BY <1>2, <1>3

\* What leaves the journal's tasks, waves and pause alone.
LEMMA PauseAside ==
    ASSUME PauseInv, UNCHANGED <<tState, count, waves, paused>>
    PROVE  PauseExact' /\ TriedTasksHaveWaves'
  <1>1. PauseExact'
    BY PauseReconciled DEF PauseInv
  <1>2. TriedTasksHaveWaves'
    BY DEF PauseInv, TriedTasksHaveWaves
  <1> QED
    BY <1>1, <1>2

\* The commits reconcile the pause, and open only waves and attempts of tasks
\* that were tried before.
LEMMA CommitPause ==
    ASSUME PauseInv, NEW c \in Callers,
           \/ QuestionCommit(c) \/ CandidateCommit(c) \/ AnswerCommit(c)
           \/ \E fallback \in BOOLEAN : FailureCommit(c, fallback)
           \/ \E r \in results : SettleCommit(c, r)
    PROVE  PauseExact' /\ TriedTasksHaveWaves'
  <1> USE DEF PauseInv, HistoryInv
  <1>1. PauseExact'
    <2>1. paused' = PauseFor(tState')
      BY DEF QuestionCommit, CandidateCommit, AnswerCommit, FailureCommit, SettleCommit
    <2> QED
      BY <2>1, PauseReconciled
  <1>2. CASE QuestionCommit(c) \/ CandidateCommit(c)
    <2>1. UNCHANGED <<count, waves>>
      BY <1>2 DEF QuestionCommit, CandidateCommit
    <2> QED
      BY <1>1, <2>1 DEF TriedTasksHaveWaves
  <1>3. CASE AnswerCommit(c)
    <2>1. call[c].task \in Tasks /\ call[c].exec \in Execs
      BY <1>3 DEF AnswerCommit, CallsNameAttempts, Naming, CandidateParts
    <2>2. /\ call[c].exec = count[call[c].task] /\ call[c].exec # 0 /\ waves' = waves
          /\ count' = [count EXCEPT ![call[c].task] = call[c].exec + 1]
      BY <1>3, <2>1 DEF AnswerCommit, Execs
    <2>3. \A t \in Tasks : count'[t] # 0 => count[t] # 0
      BY <2>1, <2>2 DEF TypeOK
    <2> QED
      BY <1>1, <2>2, <2>3 DEF TriedTasksHaveWaves
  <1>4. ASSUME NEW fallback \in BOOLEAN, FailureCommit(c, fallback)
        PROVE  TriedTasksHaveWaves'
    <2> DEFINE t == call[c].task
               wave == [base |-> GraphHead, tasks |-> {t}]
    <2>1. t \in Tasks /\ call[c].exec \in Execs /\ GraphHead \in Nat
      BY <1>4, HeadType DEF FailureCommit, CallsNameAttempts, Naming, CandidateParts
    <2>2. count[t] # 0
      <3>1. call[c].exec = count[t]
        BY <1>4 DEF FailureCommit, StillRunning
      <3> QED
        BY <2>1, <3>1 DEF Execs
    <2>3. /\ waves' = waves \/ waves' = Append(waves, wave)
          /\ count' = count \/ count' = [count EXCEPT ![t] = call[c].exec + 1]
      BY <1>4 DEF FailureCommit
    <2>4. wave \in Wave
      BY <2>1 DEF Wave
    <2>5. \A u \in Tasks : count'[u] # 0 => count[u] # 0
      BY <2>1, <2>2, <2>3 DEF TypeOK
    <2> HIDE DEF wave
    <2> QED
      BY <2>3, <2>4, <2>5, WavesKept
  <1>5. ASSUME NEW r \in results, SettleCommit(c, r)
        PROVE  TriedTasksHaveWaves'
    <2> DEFINE k == r.conflict
               retry == k # 0 /\ MayRetry(count[k], AvailableTokens)
               wave == [base |-> r.final, tasks |-> {k}]
    <2>1. /\ waves' = IF retry THEN Append(waves, wave) ELSE waves
          /\ count' = [t \in Tasks |-> IF t = k /\ retry THEN count[t] + 1 ELSE count[t]]
          /\ \A x \in r.op.cands : x[1] = k => tState[x[1]] = "candidate"
      BY <1>5 DEF SettleCommit
    <2>2. r.final \in Nat /\ k \in 0..NTasks
      BY DEF TypeOK, Result
    <2>3. retry => k \in Tasks /\ wave \in Wave
      BY <2>2 DEF Wave, Tasks
    <2>4. retry => count[k] # 0
      <3>1. retry => \E x \in r.op.cands : x[1] = k
        BY DEF ResultsSound
      <3>2. retry => tState[k] = "candidate"
        BY <2>1, <3>1
      <3> QED
        BY <2>3, <3>2 DEF HistorySound, TaskSound
    <2> HIDE DEF retry, wave
    <2>5. \A t \in Tasks : count'[t] # 0 => count[t] # 0
      BY <2>1, <2>4
    <2>6. CASE retry
      BY <2>1, <2>3, <2>5, <2>6, WavesKept
    <2>7. CASE ~retry
      BY <2>1, <2>5, <2>7 DEF TriedTasksHaveWaves
    <2> QED
      BY <2>6, <2>7
  <1> QED
    BY <1>1, <1>2, <1>3, <1>4, <1>5

\* Every step of a caller keeps the pause exact.
LEMMA ServicePause ==
    ASSUME PauseInv, NEW c \in Callers, ServiceStep(c)
    PROVE  PauseExact' /\ TriedTasksHaveWaves'
  <1>1. UNCHANGED journal => PauseExact' /\ TriedTasksHaveWaves'
    BY PauseAside DEF journal
  <1>2. CASE PrepareAdmit(c)
    BY <1>2, AdmitPause
  <1>3. ASSUME NEW t \in Tasks, NEW ready \in BOOLEAN, AttachWorktree(c, t, ready)
        PROVE  PauseExact' /\ TriedTasksHaveWaves'
    <2>1. UNCHANGED <<count, waves>>
      BY <1>3 DEF AttachWorktree
    <2> QED
      BY <1>3, <2>1, AttachPause DEF PauseInv, TriedTasksHaveWaves
  <1>4. CASE \/ QuestionCommit(c) \/ CandidateCommit(c) \/ AnswerCommit(c)
             \/ \E fallback \in BOOLEAN : FailureCommit(c, fallback)
             \/ \E r \in results : SettleCommit(c, r)
    BY <1>4, CommitPause
  <1>5. CASE SettleIntent(c)
    <2>1. UNCHANGED <<tState, count, waves, paused>>
      BY <1>5 DEF SettleIntent
    <2> QED
      BY <2>1, PauseAside
  <1>6. CASE \/ PrepareRead(c) \/ PrepareResume(c) \/ PrepareReturn(c)
             \/ FailureReplay(c) \/ IntegrateReplay(c) \/ SettleReplay(c) \/ CallEnds(c)
    <2>1. UNCHANGED journal
      BY <1>6 DEF PrepareRead, PrepareResume, PrepareReturn, FailureReplay,
                  IntegrateReplay, SettleReplay, CallEnds
    <2> QED
      BY <1>1, <2>1
  <1>7. CASE \/ \E r \in runs, e \in Execs :
                  QuestionLoad(c, r, e) \/ AnswerLoad(c, r, e) \/ FailureLoad(c, r, e)
             \/ \E w, t, x : CandidateLoad(c, w, t, x)
             \/ CandidateReads(c)
    <2>1. UNCHANGED journal
      <3>1. CASE CandidateReads(c)
        BY <3>1, <1>1, CandidateReadsHold DEF PauseInv, HistoryInv
      <3>2. ASSUME NEW r \in runs, NEW e \in Execs,
                   QuestionLoad(c, r, e) \/ AnswerLoad(c, r, e) \/ FailureLoad(c, r, e)
            PROVE  UNCHANGED journal
        BY <3>2 DEF QuestionLoad, AnswerLoad, FailureLoad
      <3>3. ASSUME NEW w, NEW t, NEW x, CandidateLoad(c, w, t, x)
            PROVE  UNCHANGED journal
        BY <3>3 DEF CandidateLoad
      <3> QED
        BY <1>7, <3>1, <3>2, <3>3
    <2> QED
      BY <1>1, <2>1
  <1>8. ASSUME NEW x \in Commit, NEW k \in 1..MaxCopies, StartChild(c, x, k)
        PROVE  PauseExact' /\ TriedTasksHaveWaves'
    BY <1>1, <1>8 DEF StartChild
  <1>9. ASSUME NEW w \in DOMAIN waves, SettleResume(c, w) \/ SettleLoad(c, w)
        PROVE  PauseExact' /\ TriedTasksHaveWaves'
    BY <1>1, <1>9 DEF SettleResume, SettleLoad
  <1>10. ASSUME NEW conflict \in 0..NTasks, Integrate(c, conflict)
         PROVE  PauseExact' /\ TriedTasksHaveWaves'
    BY <1>1, <1>10 DEF Integrate
  <1> QED
    BY <1>2, <1>3, <1>4, <1>5, <1>6, <1>7, <1>8, <1>9, <1>10 DEF ServiceStep

\* PauseInv is inductive.
LEMMA StepPause == PauseInv /\ [Next]_vars => PauseInv'
  <1> SUFFICES ASSUME PauseInv, [Next]_vars PROVE PauseInv'
    OBVIOUS
  <1>1. HistoryInv'
    BY StepType, StepGood, GoodIsSound DEF PauseInv, HistoryInv
  <1>2. UNCHANGED journal => PauseExact' /\ TriedTasksHaveWaves'
    BY PauseAside DEF journal
  <1>3. PauseExact' /\ TriedTasksHaveWaves'
    <2>1. CASE \E c \in Callers : ServiceStep(c)
      BY <2>1, ServicePause
    <2>2. CASE ChildStep
      BY <1>2, <2>2 DEF ChildStep, TaskContext, ChildCompletes, ChildFails, ChildAsks,
                        HumanReplies, NextGeneration
    <2>3. CASE \E disposition \in Dispositions, given \in BOOLEAN :
                 Terminalize(disposition, given)
      <3>1. UNCHANGED <<tState, count, waves, paused>>
        BY <2>3 DEF Terminalize
      <3> QED
        BY <3>1, PauseAside
    <2>4. CASE WallExpires
      BY <1>2, <2>4 DEF WallExpires
    <2>5. CASE UNCHANGED vars
      BY <1>2, <2>5 DEF vars
    <2> QED
      BY <2>1, <2>2, <2>3, <2>4, <2>5, NextCases
  <1> QED
    BY <1>1, <1>3 DEF PauseInv

\* The active wall clock stands still exactly while a question is open and no
\* task is preparing or running, whatever calls interleave: prepare_wave never
\* needs to reconcile the pause.
THEOREM PauseIsExact == Spec => []PauseExact
  <1>1. Init => PauseInv
    <2>1. Init => PauseExact /\ TriedTasksHaveWaves
      BY DEF Init, PauseExact, TriedTasksHaveWaves
    <2>2. Init => CallsNameAttempts
      BY DEF Init, CallsNameAttempts, Naming, CandidateParts, Idle
    <2> QED
      BY <2>1, <2>2, InitType, InitSound DEF PauseInv, HistoryInv
  <1>2. PauseInv => PauseExact
    BY DEF PauseInv
  <1> QED
    BY <1>1, <1>2, StepPause, PTL DEF Spec

-----------------------------------------------------------------------------
(* Where a candidate comes from.  From the status it has read on, the call   *)
(* of record_candidate carries over what it knows of the run, and nothing    *)
(* that happens before its commit can make that wrong: a completed run stays *)
(* as it is.                                                                 *)

Delivered == {"candidate", "integrated"}

\* Run id completed attempt e of task t and reported these tokens.
CompletedBy(id, t, e, used) ==
    \E r \in runs : /\ r.id = id /\ r.id.task = t
                    /\ r.status = "done" /\ r.used = used /\ r.ctx = e

\* The parts of record_candidate that come after the status of the run.
Informed == {"inspect", "candidate"}

CandidateCalls ==
    \A c \in Callers : call[c].op \in Informed =>
        CompletedBy(call[c].run, call[c].task, call[c].exec, call[c].used)

CandidateInv == HistoryInv /\ CandidateCalls /\ CandidateHasItsRun

\* A completed run is never changed or forgotten.
CompletedRunsStay == \A r \in runs : r.status = "done" => r \in runs'

\* No attempt is delivered that was not delivered before.
NothingDelivered ==
    \A t \in Tasks, e \in Execs :
        att'[t][e].state \in Delivered => att[t][e].state \in Delivered

\* No call to record_candidate has read the status of its run or gone on from it.
NoNewCandidate ==
    \A c \in Callers : call'[c].op \in Informed => call'[c] = call[c]

\* What a completed run says of an attempt it says after every step that keeps
\* completed runs.
LEMMA CompletedStays ==
    ASSUME CompletedRunsStay, NEW id, NEW t, NEW e, NEW used, CompletedBy(id, t, e, used)
    PROVE  CompletedBy(id, t, e, used)'
  BY DEF CompletedRunsStay, CompletedBy

\* Only the call of c changes.
CallMoves(c) == \A d \in Callers : d # c => call'[d] = call[d]

\* A caller that goes on to another operation has no candidate.
LEMMA OtherOperation ==
    ASSUME NEW c \in Callers, CallMoves(c), call'[c].op \notin Informed
    PROVE  NoNewCandidate
  BY DEF CallMoves, NoNewCandidate

\* Neither has a caller whose call returned.
LEMMA ReturnsWithNone ==
    ASSUME TypeOK, NEW c \in Callers, Returns(c)
    PROVE  NoNewCandidate
  <1>1. CallMoves(c) /\ call'[c].op \notin Informed
    BY DEF TypeOK, Returns, CallMoves, Idle, Informed
  <1> QED
    BY <1>1, OtherOperation

\* Every step keeps completed runs: CompozyOS changes only runs that are
\* running, and batuta changes none.
LEMMA StepKeepsRuns ==
    ASSUME [Next]_vars
    PROVE  CompletedRunsStay
  <1> USE DEF CompletedRunsStay
  <1>1. UNCHANGED runs => CompletedRunsStay
    OBVIOUS
  <1>2. CASE ChildStep
    <2>1. PICK r, s : r \in runs /\ r.status = "running" /\ RunBecomes(r, s)
      BY <1>2 DEF ChildStep, TaskContext, ChildCompletes, ChildFails, ChildAsks, HumanReplies,
                  NextGeneration
    <2> QED
      BY <2>1 DEF RunBecomes
  <1>3. ASSUME NEW c \in Callers, ServiceStep(c)
        PROVE  CompletedRunsStay
    <2>1. CASE \E x \in Commit, k \in 1..MaxCopies : StartChild(c, x, k)
      BY <2>1 DEF StartChild
    <2>2. CASE PrepareRead(c) \/ PrepareResume(c) \/ PrepareAdmit(c) \/ PrepareReturn(c)
      BY <1>1, <2>2 DEF PrepareRead, PrepareResume, PrepareAdmit, PrepareReturn
    <2>3. CASE \E t \in Tasks, ready \in BOOLEAN : AttachWorktree(c, t, ready)
      BY <1>1, <2>3 DEF AttachWorktree
    <2>4. CASE \/ QuestionCommit(c) \/ AnswerCommit(c) \/ CandidateCommit(c)
               \/ \E fallback \in BOOLEAN : FailureCommit(c, fallback)
               \/ FailureReplay(c)
      BY <1>1, <2>4 DEF QuestionCommit, AnswerCommit, CandidateCommit, FailureCommit,
                        FailureReplay
    <2>5. CASE \/ \E r \in runs, e \in Execs :
                    QuestionLoad(c, r, e) \/ AnswerLoad(c, r, e) \/ FailureLoad(c, r, e)
               \/ \E w, t, x : CandidateLoad(c, w, t, x)
               \/ CandidateReads(c)
      <3>1. UNCHANGED runs
        <4>1. CASE CandidateReads(c)
          BY <4>1 DEF CandidateReads, CandidateRecent, CandidateStatus, CandidateInspect
        <4>2. ASSUME NEW r \in runs, NEW e \in Execs,
                     QuestionLoad(c, r, e) \/ AnswerLoad(c, r, e) \/ FailureLoad(c, r, e)
              PROVE  UNCHANGED runs
          BY <4>2 DEF QuestionLoad, AnswerLoad, FailureLoad
        <4>3. ASSUME NEW w, NEW t, NEW x, CandidateLoad(c, w, t, x)
              PROVE  UNCHANGED runs
          BY <4>3 DEF CandidateLoad
        <4> QED
          BY <2>5, <4>1, <4>2, <4>3
      <3> QED
        BY <1>1, <3>1
    <2>6. CASE \/ \E w \in DOMAIN waves : SettleResume(c, w) \/ SettleLoad(c, w)
               \/ SettleIntent(c) \/ IntegrateReplay(c) \/ SettleReplay(c) \/ CallEnds(c)
      BY <1>1, <2>6 DEF SettleResume, SettleLoad, SettleIntent, IntegrateReplay, SettleReplay,
                        CallEnds
    <2>7. CASE \/ \E conflict \in 0..NTasks : Integrate(c, conflict)
               \/ \E r \in results : SettleCommit(c, r)
      BY <1>1, <2>7 DEF Integrate, SettleCommit
    <2> QED
      BY <1>1, <1>3, <2>1, <2>2, <2>3, <2>4, <2>5, <2>6, <2>7 DEF ServiceStep
  <1>4. CASE \/ \E disposition \in Dispositions, given \in BOOLEAN :
                  Terminalize(disposition, given)
             \/ WallExpires
             \/ UNCHANGED vars
    BY <1>1, <1>4 DEF Terminalize, WallExpires, vars
  <1> QED
    BY <1>2, <1>3, <1>4, NextCases

\* Only record_candidate and settle_wave deliver an attempt: the others leave
\* every attempt they touch in another state.
LEMMA OthersDeliverNothing ==
    ASSUME HistoryInv, NEW c \in Callers,
           \/ PrepareAdmit(c)
           \/ \E t \in Tasks, ready \in BOOLEAN : AttachWorktree(c, t, ready)
           \/ QuestionCommit(c) \/ AnswerCommit(c)
           \/ \E fallback \in BOOLEAN : FailureCommit(c, fallback)
    PROVE  NothingDelivered
  <1> USE DEF HistoryInv
  <1>0. \A t \in Tasks : att[t] \in [Execs -> Attempt]
    BY DEF TypeOK
  <1>1. CASE PrepareAdmit(c)
    <2> DEFINE admitted == Admitted(WaveSlots(AvailableTokens))
               New(share, t) == NewAttempt(1, call[c].head, share[t])
    <2>1. PICK share \in [admitted -> 1..AvailableTokens] :
            att' = [t \in Tasks |-> IF t \in admitted
                                    THEN [att[t] EXCEPT ![1] = New(share, t)] ELSE att[t]]
      BY <1>1 DEF PrepareAdmit
    <2>2. \A t : New(share, t).state = "preparing"
      BY DEF NewAttempt, NoAttempt
    <2> HIDE DEF admitted, New
    <2> QED
      BY <1>0, <2>1, <2>2 DEF NothingDelivered, Delivered
  <1>2. ASSUME NEW t \in Tasks, NEW ready \in BOOLEAN, AttachWorktree(c, t, ready)
        PROVE  NothingDelivered
    <2> DEFINE state == IF ready THEN "running" ELSE att[t][count[t]].state
               b == [att[t][count[t]] EXCEPT !.tree = call[c].wave, !.state = state]
    <2>1. /\ count[t] > 0 /\ att[t][count[t]].state \in {"preparing", "running"}
          /\ att' = Replaced(t, count[t], b)
      BY <1>2 DEF AttachWorktree, Attachable
    <2>2. att[t][count[t]] \in Attempt
      BY <2>1, LatestFacts DEF TypeOK
    <2>3. b.state \in {"preparing", "running"}
      BY <2>1, <2>2 DEF Attempt
    <2> HIDE DEF b
    <2> QED
      BY <1>0, <2>1, <2>3 DEF Replaced, NothingDelivered, Delivered, TypeOK
  <1>3. CASE QuestionCommit(c) \/ AnswerCommit(c)
                \/ \E fallback \in BOOLEAN : FailureCommit(c, fallback)
    <2> DEFINE t == call[c].task
               e == call[c].exec
               a == att[t][e]
               asks == [a EXCEPT !.state = "waiting_input", !.child = call[c].run,
                                 !.prompt = call[c].prompt]
               answers == [a EXCEPT !.answered = TRUE]
               fails == [a EXCEPT !.state = "blocked", !.child = call[c].run,
                                  !.used = call[c].used]
               n == NewAttempt(e + 1, GraphHead, ProjectedTokens(t, e, call[c].used))
    <2>1. t \in Tasks /\ e \in Execs /\ a \in Attempt
      BY <1>0, <1>3 DEF QuestionCommit, AnswerCommit, FailureCommit, CallsNameAttempts, Naming, CandidateParts
    <2>2. /\ asks.state = "waiting_input" /\ fails.state = "blocked" /\ n.state = "preparing"
          /\ Continued(a).state = "running" /\ answers.state = a.state
      BY <2>1 DEF Attempt, NewAttempt, NoAttempt, Continued
    <2>3. CASE QuestionCommit(c)
      <3>1. att' = Replaced(t, e, asks)
        BY <2>3 DEF QuestionCommit
      <3> HIDE DEF asks, t, e
      <3> QED
        BY <1>0, <2>1, <2>2, <3>1 DEF Replaced, NothingDelivered, Delivered, TypeOK
    <2>4. CASE AnswerCommit(c)
      <3>1. att' = [att EXCEPT ![t] = Answered(t, e)]
        BY <2>4 DEF AnswerCommit
      <3>2. Answered(t, e) = [att[t] EXCEPT ![e] = answers, ![e + 1] = Continued(a)]
        BY <1>0, <2>1 DEF Answered
      <3> HIDE DEF answers, a, t, e
      <3>3. \A f \in Execs : \/ Answered(t, e)[f] = att[t][f]
                             \/ f = e /\ Answered(t, e)[f] = answers
                             \/ Answered(t, e)[f] = Continued(a)
        BY <1>0, <2>1, <3>2
      <3>4. \A u \in Tasks : att'[u] = IF u = t THEN Answered(t, e) ELSE att[u]
        BY <2>1, <3>1 DEF TypeOK
      <3>5. a = att[t][e]
        BY DEF a
      <3> QED
        BY <2>2, <3>3, <3>4, <3>5 DEF NothingDelivered, Delivered
    <2>5. CASE \E fallback \in BOOLEAN : FailureCommit(c, fallback)
      <3>1. \/ att' = [att EXCEPT ![t] = [@ EXCEPT ![e] = fails, ![e + 1] = n]]
            \/ att' = Replaced(t, e, fails)
        BY <2>5 DEF FailureCommit
      <3> HIDE DEF fails, n, t, e
      <3>2. PICK h : /\ att' = [att EXCEPT ![t] = h]
                     /\ \/ h = [att[t] EXCEPT ![e] = fails, ![e + 1] = n]
                        \/ h = [att[t] EXCEPT ![e] = fails]
        BY <3>1 DEF Replaced
      <3>3. \A f \in Execs : h[f] = att[t][f] \/ h[f] = fails \/ h[f] = n
        BY <1>0, <2>1, <3>2
      <3>4. \A u \in Tasks : att'[u] = IF u = t THEN h ELSE att[u]
        BY <2>1, <3>2 DEF TypeOK
      <3> QED
        BY <2>2, <3>3, <3>4 DEF NothingDelivered, Delivered
    <2> QED
      BY <1>3, <2>3, <2>4, <2>5
  <1> QED
    BY <1>1, <1>2, <1>3

\* settle_wave integrates attempts that are candidates.
LEMMA SettleDeliversCandidates ==
    ASSUME HistoryInv, NEW c \in Callers, NEW r \in results, SettleCommit(c, r)
    PROVE  NothingDelivered
  <1> USE DEF HistoryInv
  <1> DEFINE k == r.conflict
             available == AvailableTokens
             retry == k # 0 /\ MayRetry(count[k], available)
             n(t) == NewAttempt(count[t] + 1, r.final, available)
  <1>1. /\ att' = SettledAttempts(r, retry, available)
        /\ \A x \in r.op.cands : x \in r.accepted => tState[x[1]] = "candidate"
    BY DEF SettleCommit
  <1>2. \A x \in r.accepted : x \in r.op.cands
    BY DEF ResultsSound
  <1>3. \A t : n(t).state = "preparing"
    BY DEF NewAttempt, NoAttempt
  <1> HIDE DEF retry
  <1> SUFFICES ASSUME NEW t \in Tasks, NEW f \in Execs, att'[t][f].state \in Delivered
               PROVE  att[t][f].state \in Delivered
    BY DEF NothingDelivered
  <1>4. att[t] \in [Execs -> Attempt] /\ count[t] \in 0..MaxExec
    BY DEF TypeOK
  <1>5. CASE <<t, count[t]>> \in r.accepted
    <2>1. tState[t] = "candidate"
      BY <1>1, <1>2, <1>5
    <2>2. count[t] # 0
      BY <2>1 DEF HistorySound, TaskSound
    <2>3. att[t][count[t]].state = "candidate"
      BY <2>1, <2>2, LatestFacts
    <2>4. att'[t] = [att[t] EXCEPT ![count[t]] = [@ EXCEPT !.state = "integrated"]]
      BY <1>1, <1>5 DEF SettledAttempts
    <2>5. f # count[t] => att'[t][f] = att[t][f]
      BY <1>4, <2>4
    <2> QED
      BY <2>3, <2>5 DEF Delivered
  <1>6. CASE <<t, count[t]>> \notin r.accepted /\ t # k
    <2>1. att'[t] = att[t]
      BY <1>1, <1>6 DEF SettledAttempts
    <2> QED
      BY <2>1
  <1>7. CASE <<t, count[t]>> \notin r.accepted /\ t = k
    <2> DEFINE a == att[t][count[t]]
               b == [a EXCEPT !.conflict = r.op]
               d == [a EXCEPT !.state = "blocked", !.conflict = r.op]
    <2>1. att'[t] = IF retry THEN [att[t] EXCEPT ![count[t]] = b, ![count[t] + 1] = n(t)]
                    ELSE [att[t] EXCEPT ![count[t]] = d]
      BY <1>1, <1>4, <1>7 DEF SettledAttempts
    <2>2. f = count[t] => a \in Attempt
      BY <1>4
    <2>3. f = count[t] => b.state = a.state /\ d.state = "blocked"
      BY <2>2 DEF Attempt
    <2> HIDE DEF b, d, n
    <2>4. \/ att'[t][f] = att[t][f] \/ att'[t][f] = n(t)
          \/ f = count[t] /\ (att'[t][f] = b \/ att'[t][f] = d)
      BY <1>4, <2>1
    <2> QED
      BY <1>3, <2>3, <2>4 DEF Delivered
  <1> QED
    BY <1>5, <1>6, <1>7

\* The steps that deliver nothing and tell nobody of a candidate keep the
\* invariant.
LEMMA KeepsCandidates ==
    ASSUME CandidateInv, HistoryInv', Good, CompletedRunsStay, NothingDelivered, NoNewCandidate
    PROVE  CandidateCalls' /\ CandidateHasItsRun'
  <1> USE DEF CandidateInv
  <1>1. ASSUME NEW c \in Callers, call'[c].op \in Informed
        PROVE  CompletedBy(call[c].run, call[c].task, call[c].exec, call[c].used)'
    <2>1. PICK q : q = call[c] /\ q = call'[c]
      BY <1>1 DEF NoNewCandidate
    <2>2. CompletedBy(q.run, q.task, q.exec, q.used)
      BY <1>1, <2>1 DEF CandidateCalls
    <2>3. CompletedBy(q.run, q.task, q.exec, q.used)'
      BY <2>2, CompletedStays
    <2> QED
      BY <2>1, <2>3 DEF CompletedBy
  <1>2. ASSUME NEW t \in Tasks, NEW e \in Execs, att'[t][e].state \in Delivered
        PROVE  CompletedBy(att[t][e].child, t, e, att[t][e].used)'
    <2>1. PICK a, b : a = att[t][e] /\ b = att'[t][e]
      OBVIOUS
    <2>2. a.state \in Delivered /\ a \in Attempt /\ b \in Attempt
      BY <1>2, <2>1 DEF NothingDelivered, HistoryInv, TypeOK
    <2>3. a.state = "integrated" => b = a
      BY <2>1, GoodKeeps
    <2>4. a.state = "candidate" => [b EXCEPT !.state = a.state, !.conflict = a.conflict] = a
      BY <2>1, GoodKeeps
    <2>5. a.child = b.child /\ a.used = b.used
      BY <2>2, <2>3, <2>4 DEF Delivered, Attempt
    <2>6. CompletedBy(a.child, t, e, a.used)
      BY <2>1, <2>2 DEF CandidateHasItsRun, CompletedBy, Delivered
    <2>7. CompletedBy(b.child, t, e, b.used)
      BY <2>5, <2>6
    <2>8. CompletedBy(b.child, t, e, b.used)'
      BY <2>7, CompletedStays
    <2> QED
      BY <2>1, <2>8 DEF CompletedBy
  <1>3. CandidateCalls'
    BY <1>1 DEF CandidateCalls
  <1>4. CandidateHasItsRun'
    BY <1>2 DEF CandidateHasItsRun, CompletedBy, Delivered
  <1> QED
    BY <1>3, <1>4

\* The status takes over what the completed run reports, and the look at the
\* worktree leaves it alone.
LEMMA ReadCandidates ==
    ASSUME CandidateInv, NEW c \in Callers,
           CandidateInspect(c) \/ \E r \in runs : CandidateStatus(c, r)
    PROVE  CandidateCalls' /\ CandidateHasItsRun'
  <1> USE DEF CandidateInv, HistoryInv
  <1>1. call \in [Callers -> Call] /\ call[c] \in Call
    BY TypeFacts
  <1>2. PICK k : /\ call' = [call EXCEPT ![c] = k] /\ UNCHANGED <<att, runs>>
                 /\ CompletedBy(k.run, k.task, k.exec, k.used)
    <2>1. CASE CandidateInspect(c)
      <3>1. PICK k : k = [call[c] EXCEPT !.op = "candidate"]
        OBVIOUS
      <3>2. /\ k.run = call[c].run /\ k.task = call[c].task
            /\ k.exec = call[c].exec /\ k.used = call[c].used
        BY <1>1, <3>1 DEF Call
      <3>3. CompletedBy(call[c].run, call[c].task, call[c].exec, call[c].used)
        BY <2>1 DEF CandidateInspect, CandidateCalls, Informed
      <3> QED
        BY <2>1, <3>1, <3>2, <3>3 DEF CandidateInspect, Holds, journal
    <2>2. ASSUME NEW r \in runs, CandidateStatus(c, r)
          PROVE  \E k : /\ call' = [call EXCEPT ![c] = k] /\ UNCHANGED <<att, runs>>
                       /\ CompletedBy(k.run, k.task, k.exec, k.used)
      <3>1. PICK k : k = [call[c] EXCEPT !.op = "inspect", !.used = r.used]
        OBVIOUS
      <3>2. /\ k.run = call[c].run /\ k.task = call[c].task
            /\ k.exec = call[c].exec /\ k.used = r.used
        BY <1>1, <3>1 DEF Call
      <3>3. /\ r.id = call[c].run /\ r.id.task = call[c].task /\ r.status = "done"
            /\ r.ctx = call[c].exec
        BY <2>2 DEF CandidateStatus, RunMatches, OutputNames
      <3>4. CompletedBy(k.run, k.task, k.exec, k.used)
        BY <3>2, <3>3 DEF CompletedBy
      <3> QED
        BY <2>2, <3>1, <3>4 DEF CandidateStatus, Holds, journal
    <2> QED
      BY <2>1, <2>2
  <1>3. CandidateHasItsRun'
    BY <1>2 DEF CandidateHasItsRun
  <1>4. ASSUME NEW d \in Callers, call'[d].op \in Informed
        PROVE  CompletedBy(call[d].run, call[d].task, call[d].exec, call[d].used)'
    <2>1. PICK q : q = call'[d]
      OBVIOUS
    <2>2. q = k \/ q = call[d]
      BY <1>1, <1>2, <2>1
    <2>3. CompletedBy(q.run, q.task, q.exec, q.used)
      BY <1>2, <1>4, <2>1, <2>2 DEF CandidateCalls
    <2> QED
      BY <1>2, <2>1, <2>3 DEF CompletedBy
  <1> QED
    BY <1>3, <1>4 DEF CandidateCalls

\* The commit of record_candidate delivers the attempt with that run.
LEMMA CommitCandidates ==
    ASSUME CandidateInv, NEW c \in Callers, CandidateCommit(c)
    PROVE  CandidateCalls' /\ CandidateHasItsRun'
  <1> USE DEF CandidateInv, HistoryInv
  <1>1. PICK t, e, id, used : /\ t = call[c].task /\ e = call[c].exec
                              /\ id = call[c].run /\ used = call[c].used
    OBVIOUS
  <1>2. t \in Tasks /\ e \in Execs /\ CompletedBy(id, t, e, used)
    BY <1>1 DEF CandidateCommit, CallsNameAttempts, Naming, CandidateParts, CandidateCalls,
                Informed
  <1>3. PICK b : b = [att[t][e] EXCEPT !.state = "candidate", !.child = id, !.used = used]
    OBVIOUS
  <1>4. att' = Replaced(t, e, b) /\ UNCHANGED runs /\ Returns(c)
    BY <1>1, <1>3 DEF CandidateCommit
  <1>5. b.child = id /\ b.used = used
    BY <1>2, <1>3 DEF TypeOK, Attempt
  <1>6. ASSUME NEW d \in Callers, call'[d].op \in Informed
        PROVE  CompletedBy(call[d].run, call[d].task, call[d].exec, call[d].used)'
    <2>1. PICK q : q = call[d] /\ q = call'[d]
      BY <1>4, <1>6, ReturnsWithNone DEF NoNewCandidate
    <2>2. CompletedBy(q.run, q.task, q.exec, q.used)
      BY <1>6, <2>1 DEF CandidateCalls
    <2> QED
      BY <1>4, <2>1, <2>2 DEF CompletedBy
  <1>7. ASSUME NEW u \in Tasks, NEW f \in Execs, att'[u][f].state \in Delivered
        PROVE  CompletedBy(att[u][f].child, u, f, att[u][f].used)'
    <2>1. PICK x, y : x = att[u][f] /\ y = att'[u][f]
      OBVIOUS
    <2>2. CASE u = t /\ f = e
      <3>1. y = b
        BY <1>2, <1>4, <2>1, <2>2 DEF Replaced, TypeOK
      <3>2. CompletedBy(y.child, u, f, y.used)
        BY <1>2, <1>5, <2>2, <3>1
      <3> QED
        BY <1>4, <2>1, <3>2 DEF CompletedBy
    <2>3. CASE ~(u = t /\ f = e)
      <3>1. y = x
        BY <1>2, <1>4, <2>1, <2>3 DEF Replaced, TypeOK
      <3>2. CompletedBy(y.child, u, f, y.used)
        BY <1>7, <2>1, <3>1 DEF CandidateHasItsRun, CompletedBy, Delivered
      <3> QED
        BY <1>4, <2>1, <3>2 DEF CompletedBy
    <2> QED
      BY <2>2, <2>3
  <1>8. CandidateHasItsRun'
    BY <1>7 DEF CandidateHasItsRun, CompletedBy, Delivered
  <1> QED
    BY <1>6, <1>8 DEF CandidateCalls

\* What every other part of a call does.
LEMMA OtherCandidates ==
    ASSUME HistoryInv, NEW c \in Callers, ServiceStep(c)
    PROVE  \/ NothingDelivered /\ NoNewCandidate
           \/ CandidateCommit(c)
           \/ CandidateInspect(c) \/ \E r \in runs : CandidateStatus(c, r)
  <1> USE DEF HistoryInv
  <1>1. UNCHANGED att => NothingDelivered
    BY DEF NothingDelivered
  <1>2. Returns(c) => NoNewCandidate
    BY ReturnsWithNone
  <1>3. CallMoves(c) /\ call'[c].op \notin {"inspect", "candidate"} => NoNewCandidate
    BY OtherOperation DEF Informed
  <1>0. call \in [Callers -> Call]
    BY DEF TypeOK
  <1>4. CASE PrepareRead(c)
    <2>1. UNCHANGED att
      BY <1>4 DEF PrepareRead, journal
    <2>2. CallMoves(c) /\ call'[c].op = "prepare"
      BY <1>0, <1>4 DEF PrepareRead, Holds, CallMoves, Idle
    <2> QED
      BY <1>1, <1>3, <2>1, <2>2
  <1>15. CASE PrepareReturn(c)
    <2>1. UNCHANGED att
      BY <1>15 DEF PrepareReturn, journal
    <2>2. PICK w, items :
            \/ Returns(c)
            \/ Holds(c, [Idle EXCEPT !.op = "children", !.wave = w, !.cands = items])
      BY <1>15 DEF PrepareReturn
    <2>3. CASE Returns(c)
      BY <1>1, <1>2, <2>1, <2>3
    <2>4. CASE ~Returns(c)
      <3>1. CallMoves(c) /\ call'[c].op = "children"
        BY <1>0, <2>2, <2>4 DEF Holds, CallMoves, Idle
      <3> QED
        BY <1>1, <1>3, <2>1, <3>1
    <2> QED
      BY <2>3, <2>4
  <1>5. CASE PrepareResume(c)
    <2>1. UNCHANGED att
      BY <1>5 DEF PrepareResume, journal
    <2>2. CallMoves(c) /\ call'[c].op = "attach"
      BY <1>0, <1>5 DEF PrepareResume, Holds, CallMoves, Idle
    <2> QED
      BY <1>1, <1>3, <2>1, <2>2
  <1>6. CASE PrepareAdmit(c)
    <2>1. CallMoves(c) /\ call'[c].op = "attach"
      BY <1>0, <1>6 DEF PrepareAdmit, Holds, CallMoves, Idle
    <2> QED
      BY <1>3, <1>6, <2>1, OthersDeliverNothing
  <1>7. CASE \E t \in Tasks, ready \in BOOLEAN : AttachWorktree(c, t, ready)
    <2>1. PICK t \in Tasks, ready \in BOOLEAN : AttachWorktree(c, t, ready)
      BY <1>7
    <2>2. CallMoves(c) /\ call'[c].op = "attach"
      BY <1>0, <2>1 DEF AttachWorktree, Holds, CallMoves, Call
    <2> QED
      BY <1>3, <1>7, <2>2, OthersDeliverNothing
  <1>8. CASE \E x \in Commit, k \in 1..MaxCopies : StartChild(c, x, k)
    <2>1. UNCHANGED att
      BY <1>8 DEF StartChild, journal
    <2>2. CallMoves(c) /\ call'[c].op \in {"idle", "children"}
      BY <1>0, <1>8 DEF StartChild, Holds, Returns, CallMoves, Call, Idle
    <2> QED
      BY <1>1, <1>3, <2>1, <2>2
  <1>9. CASE \E r \in runs, e \in Execs : \/ QuestionLoad(c, r, e) \/ AnswerLoad(c, r, e)
                                          \/ FailureLoad(c, r, e)
    <2>1. PICK r \in runs, e \in Execs : \/ QuestionLoad(c, r, e) \/ AnswerLoad(c, r, e)
                                         \/ FailureLoad(c, r, e)
      BY <1>9
    <2>2. UNCHANGED journal
      BY <2>1 DEF QuestionLoad, AnswerLoad, FailureLoad
    <2>3. CallMoves(c) /\ call'[c].op \in {"question", "answer", "failure"}
      <3>1. CASE QuestionLoad(c, r, e)
        BY <1>0, <3>1 DEF QuestionLoad, Holds, CallMoves, Idle
      <3>2. CASE AnswerLoad(c, r, e)
        BY <1>0, <3>2 DEF AnswerLoad, Holds, CallMoves, Idle
      <3>3. CASE FailureLoad(c, r, e)
        BY <1>0, <3>3 DEF FailureLoad, Holds, CallMoves, Idle
      <3> QED
        BY <2>1, <3>1, <3>2, <3>3
    <2> QED
      BY <1>1, <1>3, <2>2, <2>3 DEF journal
  <1>10. CASE \/ QuestionCommit(c) \/ AnswerCommit(c)
              \/ \E fallback \in BOOLEAN : FailureCommit(c, fallback)
    <2>1. Returns(c)
      BY <1>10 DEF QuestionCommit, AnswerCommit, FailureCommit
    <2> QED
      BY <1>2, <1>10, <2>1, OthersDeliverNothing
  <1>11. CASE FailureReplay(c) \/ SettleReplay(c) \/ CallEnds(c)
    <2>1. UNCHANGED att /\ Returns(c)
      BY <1>11 DEF FailureReplay, SettleReplay, CallEnds, journal
    <2> QED
      BY <1>1, <1>2, <2>1
  <1>12. CASE \E w \in DOMAIN waves : SettleResume(c, w) \/ SettleLoad(c, w)
    <2>1. UNCHANGED att
      BY <1>12 DEF SettleResume, SettleLoad, journal
    <2>2. CallMoves(c) /\ call'[c].op \in {"integrate", "intent"}
      <3>1. ASSUME NEW w, SettleResume(c, w)
            PROVE  CallMoves(c) /\ call'[c].op = "integrate"
        BY <1>0, <3>1 DEF SettleResume, Holds, CallMoves, Idle
      <3>2. ASSUME NEW w, SettleLoad(c, w)
            PROVE  CallMoves(c) /\ call'[c].op = "intent"
        BY <1>0, <3>2 DEF SettleLoad, Holds, CallMoves, Idle
      <3> QED
        BY <1>12, <3>1, <3>2
    <2> QED
      BY <1>1, <1>3, <2>1, <2>2
  <1>13. CASE \/ SettleIntent(c) \/ IntegrateReplay(c)
              \/ \E conflict \in 0..NTasks : Integrate(c, conflict)
    <2>1. UNCHANGED att
      BY <1>13 DEF SettleIntent, IntegrateReplay, Integrate, journal
    <2>2. CallMoves(c) /\ call'[c].op \in {"integrate", "settle"}
      BY <1>0, <1>13 DEF SettleIntent, IntegrateReplay, Integrate, Holds, CallMoves, Call
    <2> QED
      BY <1>1, <1>3, <2>1, <2>2
  <1>14. CASE \E r \in results : SettleCommit(c, r)
    <2>1. Returns(c)
      BY <1>14 DEF SettleCommit
    <2> QED
      BY <1>2, <1>14, <2>1, SettleDeliversCandidates
  <1>16. ASSUME NEW w \in DOMAIN waves, NEW t \in waves[w].tasks, NEW x \in Execs,
                CandidateLoad(c, w, t, x)
         PROVE  NothingDelivered /\ NoNewCandidate
    <2>1. UNCHANGED att
      BY <1>16 DEF CandidateLoad, journal
    <2>2. CallMoves(c) /\ call'[c].op = "recent"
      BY <1>0, <1>16 DEF CandidateLoad, Holds, CallMoves, Idle
    <2> QED
      BY <1>1, <1>3, <2>1, <2>2
  <1>17. ASSUME NEW r \in runs, CandidateRecent(c, r)
         PROVE  NothingDelivered /\ NoNewCandidate
    <2>1. UNCHANGED att
      BY <1>17 DEF CandidateRecent, journal
    <2>2. CallMoves(c) /\ call'[c].op = "status"
      BY <1>0, <1>17 DEF CandidateRecent, Holds, CallMoves, Call
    <2> QED
      BY <1>1, <1>3, <2>1, <2>2
  <1> QED
    BY <1>4, <1>5, <1>6, <1>7, <1>8, <1>9, <1>10, <1>11, <1>12, <1>13, <1>14,
       <1>15, <1>16, <1>17 DEF ServiceStep, CandidateReads

\* Every step keeps the invariant.
LEMMA StepCandidates == CandidateInv /\ [Next]_vars => CandidateInv'
  <1> SUFFICES ASSUME CandidateInv, [Next]_vars PROVE CandidateInv'
    OBVIOUS
  <1>1. HistoryInv' /\ Good
    BY StepType, StepGood, GoodIsSound DEF CandidateInv, HistoryInv
  <1>2. CompletedRunsStay
    BY StepKeepsRuns
  <1>3. NothingDelivered /\ NoNewCandidate => CandidateCalls' /\ CandidateHasItsRun'
    BY <1>1, <1>2, KeepsCandidates
  <1>4. ASSUME NEW c \in Callers, ServiceStep(c)
        PROVE  CandidateCalls' /\ CandidateHasItsRun'
    <2>1. HistoryInv
      BY DEF CandidateInv
    <2> QED
      BY <1>3, <1>4, <2>1, OtherCandidates, CommitCandidates, ReadCandidates
  <1>5. ASSUME \/ ChildStep
               \/ \E disposition \in Dispositions, given \in BOOLEAN :
                    Terminalize(disposition, given)
               \/ WallExpires
               \/ UNCHANGED vars
        PROVE  CandidateCalls' /\ CandidateHasItsRun'
    <2>1. UNCHANGED <<att, call>>
      BY <1>5 DEF ChildStep, TaskContext, ChildCompletes, ChildFails, ChildAsks, HumanReplies,
                  NextGeneration, Terminalize, WallExpires, vars, journal
    <2>2. NothingDelivered /\ NoNewCandidate
      BY <2>1 DEF NothingDelivered, NoNewCandidate
    <2> QED
      BY <1>3, <2>2
  <1>6. CandidateCalls' /\ CandidateHasItsRun'
    BY <1>4, <1>5, NextCases
  <1> QED
    BY <1>1, <1>6 DEF CandidateInv

\* A candidate stands for a run that completed this very attempt: although
\* recordCandidate reads the journal, the recent runs, the status of one run and
\* the worktree one after the other, with any steps of the children and of other
\* callers in between, and commits under a lock it takes only then, what it
\* commits names a completed run of the task whose last context was this
\* execution, with the tokens that run reports.
THEOREM CandidatesHaveRuns == Spec => []CandidateHasItsRun
  <1>1. Init => CandidateInv
    <2>1. Init => CallsNameAttempts
      BY DEF Init, CallsNameAttempts, Naming, CandidateParts, Idle
    <2>2. Init => CandidateCalls
      BY DEF Init, CandidateCalls, Idle, Informed
    <2>3. Init => CandidateHasItsRun
      BY DEF Init, CandidateHasItsRun, NoAttempt
    <2> QED
      BY <2>1, <2>2, <2>3, InitType, InitSound DEF CandidateInv, HistoryInv
  <1>2. CandidateInv => CandidateHasItsRun
    BY DEF CandidateInv
  <1> QED
    BY <1>1, <1>2, StepCandidates, PTL DEF Spec
=============================================================================
