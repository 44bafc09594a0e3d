---------------------- MODULE DeliveryGraphChainProofs ----------------------
(***************************************************************************)
(* The integrations of DeliveryGraph, for every number of tasks, callers   *)
(* and runs: they are one chain of commits that the branch is at the end   *)
(* of or one operation ahead of, every attempt is based on a commit of     *)
(* that chain that contains its dependencies, and a wave that met a        *)
(* conflict is not settled again before the conflicted task is replaced.   *)
(***************************************************************************)
EXTENDS DeliveryGraphHistoryProofs

-----------------------------------------------------------------------------
(* What a step may do to a task *)

\* The base a new attempt of task t may have.
Opens(t, b) ==
    IF count[t] = 0 THEN t \in Ready /\ b = GraphHead'
    ELSE b \in {GraphHead', att[t][count[t]].base}

\* A task that is over stays as it is, attempts are only added, and a new one
\* is based on the head of the journal or where the attempt before it was.
TaskMoves(t) ==
    /\ tState[t] \in {"integrated", "blocked"} =>
         tState'[t] = tState[t] /\ count'[t] = count[t]
    /\ count[t] <= count'[t]
    /\ \A e \in Execs : att[t][e].state = "none" /\ att'[t][e].state # "none" =>
         Opens(t, att'[t][e].base)
TasksMove == \A t \in Tasks : TaskMoves(t)
NothingIntegrated == \A t \in Tasks : tState'[t] = "integrated" => tState[t] = "integrated"

\* A step that changes no task.
LEMMA NoTaskMoves ==
    ASSUME TypeOK, UNCHANGED <<tState, count, att>>
    PROVE  TasksMove /\ NothingIntegrated
  <1>1. \A t \in Tasks : count[t] \in 0..MaxExec
    BY DEF TypeOK
  <1>2. \A t \in Tasks : count[t] <= count[t]
    BY <1>1, SizesAssumption
  <1> QED
    BY <1>2 DEF TasksMove, TaskMoves, NothingIntegrated

\* A step that changes one task only, which is not over.
LEMMA OneTaskMoves ==
    ASSUME TypeOK, NEW t \in Tasks, NEW ts, NEW n, NEW h,
           tState' = [tState EXCEPT ![t] = ts],
           count' = [count EXCEPT ![t] = n],
           att' = [att EXCEPT ![t] = h],
           tState[t] \notin {"integrated", "blocked"}, ts # "integrated", count[t] <= n,
           \A e \in Execs : att[t][e].state = "none" /\ h[e].state # "none" =>
             Opens(t, h[e].base)
    PROVE  TasksMove /\ NothingIntegrated
  <1>1. /\ tState \in [Tasks -> TaskStates] /\ count \in [Tasks -> 0..MaxExec]
        /\ att \in [Tasks -> [Execs -> Attempt]]
    BY DEF TypeOK
  <1>2. tState'[t] = ts /\ count'[t] = n /\ att'[t] = h
    BY <1>1
  <1>3. \A u \in Tasks : u # t =>
          /\ tState'[u] = tState[u] /\ count'[u] = count[u] /\ att'[u] = att[u]
          /\ count[u] <= count'[u]
    BY <1>1, SizesAssumption
  <1> QED
    BY <1>2, <1>3 DEF TasksMove, TaskMoves, NothingIntegrated

\* The latest attempt e of task t becomes b.
LEMMA LatestMoves ==
    ASSUME TypeOK, NEW t \in Tasks, NEW e \in Execs, NEW ts, NEW b,
           tState' = [tState EXCEPT ![t] = ts], count' = count,
           att' = [att EXCEPT ![t] = [@ EXCEPT ![e] = b]],
           att[t][e].state # "none",
           tState[t] \notin {"integrated", "blocked"}, ts # "integrated"
    PROVE  TasksMove /\ NothingIntegrated
  <1>1. /\ tState \in [Tasks -> TaskStates] /\ count \in [Tasks -> 0..MaxExec]
        /\ att \in [Tasks -> [Execs -> Attempt]]
    BY DEF TypeOK
  <1>2. tState'[t] = ts /\ att'[t] = [att[t] EXCEPT ![e] = b]
    BY <1>1
  <1>3. \A f \in Execs : att[t][f].state = "none" => att'[t][f] = att[t][f]
    BY <1>1, <1>2
  <1>4. \A u \in Tasks : u # t => tState'[u] = tState[u] /\ att'[u] = att[u]
    BY <1>1
  <1>5. \A u \in Tasks : count'[u] = count[u] /\ count[u] <= count'[u]
    BY <1>1, SizesAssumption
  <1> QED
    BY <1>2, <1>3, <1>4, <1>5 DEF TasksMove, TaskMoves, NothingIntegrated

\* The commits of record_question, record_candidate and record_answer.
LEMMA CommitMoves ==
    ASSUME HistoryInv, NEW c \in Callers,
           QuestionCommit(c) \/ CandidateCommit(c) \/ AnswerCommit(c)
    PROVE  TasksMove /\ NothingIntegrated
  <1> USE DEF HistoryInv
  <1> DEFINE t == call[c].task
             e == call[c].exec
             a == att[t][e]
  <1>1. t \in Tasks /\ e \in Execs
    BY DEF CallsNameAttempts, Naming, CandidateParts, QuestionCommit, AnswerCommit, CandidateCommit
  <1>2. e = count[t] /\ e # 0 /\ e \in Nat
    BY <1>1 DEF QuestionCommit, AnswerCommit, CandidateCommit, StillRunning, Execs
  <1>3. att \in [Tasks -> [Execs -> Attempt]] /\ count \in [Tasks -> 0..MaxExec]
    BY DEF TypeOK
  <1>4. a.state # "none" /\ a.state = tState[t]
    <2>1. a.state = tState[t]
      BY <1>1, <1>2, LatestFacts
    <2> QED
      BY <2>1, <1>1, <1>3 DEF QuestionCommit, CandidateCommit, AnswerCommit, StillRunning, RunningAttempt
  <1>5. ASSUME NEW b, NEW ts, att' = [att EXCEPT ![t] = [@ EXCEPT ![e] = b]],
               tState' = [tState EXCEPT ![t] = ts], count' = count, a.state = "running",
               ts # "integrated"
        PROVE  TasksMove /\ NothingIntegrated
    BY <1>1, <1>4, <1>5, LatestMoves
  <1>6. CASE AnswerCommit(c)
    <2>1. /\ att' = [att EXCEPT ![t] = Answered(t, e)]
          /\ tState' = [tState EXCEPT ![t] = "running"]
          /\ count' = [count EXCEPT ![t] = e + 1]
          /\ a.state = "waiting_input"
      BY <1>6 DEF AnswerCommit
    <2>2. Continued(a).base = a.base
      <3>1. a \in Attempt
        BY <1>1, <1>3
      <3> QED
        BY <3>1 DEF Continued, Attempt
    <2>3. \A f \in Execs : /\ f # e /\ f # e + 1 => Answered(t, e)[f] = att[t][f]
                           /\ f = e + 1 => Answered(t, e)[f] = Continued(a)
      BY <1>1, <1>2, <1>3 DEF Answered
    <2>4. ASSUME NEW f \in Execs, att[t][f].state = "none", Answered(t, e)[f].state # "none"
          PROVE  Opens(t, Answered(t, e)[f].base)
      <3>1. f = e + 1
        BY <1>4, <2>3, <2>4
      <3> QED
        BY <1>2, <2>2, <2>3, <3>1 DEF Opens
    <2>5. count[t] <= e + 1
      BY <1>2
    <2> QED
      BY <1>1, <1>4, <2>1, <2>4, <2>5, OneTaskMoves DEF Opens
  <1>7. CASE QuestionCommit(c)
    <2> DEFINE b == [a EXCEPT !.state = "waiting_input", !.child = call[c].run,
                              !.prompt = call[c].prompt]
    <2>1. /\ att' = [att EXCEPT ![t] = [@ EXCEPT ![e] = b]]
          /\ tState' = [tState EXCEPT ![t] = "waiting_input"] /\ count' = count
          /\ a.state = "running"
      BY <1>7 DEF QuestionCommit, Replaced, StillRunning, RunningAttempt
    <2> HIDE DEF b
    <2> QED
      BY <1>5, <2>1
  <1>8. CASE CandidateCommit(c)
    <2> DEFINE b == [a EXCEPT !.state = "candidate", !.child = call[c].run,
                              !.used = call[c].used]
    <2>1. /\ att' = [att EXCEPT ![t] = [@ EXCEPT ![e] = b]]
          /\ tState' = [tState EXCEPT ![t] = "candidate"] /\ count' = count
          /\ a.state = "running"
      BY <1>8 DEF CandidateCommit, Replaced, StillRunning, RunningAttempt
    <2> HIDE DEF b
    <2> QED
      BY <1>5, <2>1
  <1> QED
    BY <1>6, <1>7, <1>8

\* The commit of record_failure.
LEMMA FailureMoves ==
    ASSUME HistoryInv, NEW c \in Callers, NEW fallback \in BOOLEAN, FailureCommit(c, fallback)
    PROVE  TasksMove /\ NothingIntegrated
  <1> USE DEF HistoryInv
  <1> DEFINE t == call[c].task
             e == call[c].exec
             a == att[t][e]
             next == NewAttempt(e + 1, GraphHead, ProjectedTokens(t, e, call[c].used))
             b == [a EXCEPT !.state = "blocked", !.child = call[c].run,
                            !.used = call[c].used]
  <1>1. t \in Tasks /\ e \in Execs
    BY DEF CallsNameAttempts, Naming, CandidateParts, FailureCommit
  <1>2. e = count[t] /\ e # 0 /\ e \in Nat /\ a.state = "running" /\ tState[t] = "running"
    BY <1>1 DEF FailureCommit, StillRunning, RunningAttempt, Execs
  <1>3. att \in [Tasks -> [Execs -> Attempt]] /\ count \in [Tasks -> 0..MaxExec]
    BY DEF TypeOK
  <1>4. GraphHead' = GraphHead
    BY DEF FailureCommit, GraphHead
  <1>5. \/ /\ att' = [att EXCEPT ![t] = [@ EXCEPT ![e] = b, ![e + 1] = next]]
           /\ count' = [count EXCEPT ![t] = e + 1]
           /\ tState' = [tState EXCEPT ![t] = "preparing"]
        \/ /\ att' = [att EXCEPT ![t] = [@ EXCEPT ![e] = b]]
           /\ tState' = [tState EXCEPT ![t] = "blocked"]
           /\ count' = count
    BY DEF FailureCommit, Replaced
  <1>6. next.base = GraphHead
    BY DEF NewAttempt, NoAttempt
  <1> HIDE DEF next, b
  <1>7. CASE /\ att' = [att EXCEPT ![t] = [@ EXCEPT ![e] = b, ![e + 1] = next]]
             /\ count' = [count EXCEPT ![t] = e + 1]
             /\ tState' = [tState EXCEPT ![t] = "preparing"]
    <2>1. PICK h, n : h = [att[t] EXCEPT ![e] = b, ![e + 1] = next] /\ n = e + 1
      OBVIOUS
    <2>2. \A f \in Execs : /\ f # e /\ f # e + 1 => h[f] = att[t][f]
                           /\ f = e + 1 => h[f] = next
      BY <1>1, <1>2, <1>3, <2>1
    <2>3. ASSUME NEW f \in Execs, att[t][f].state = "none", h[f].state # "none"
          PROVE  Opens(t, h[f].base)
      <3>1. f = e + 1
        BY <1>2, <2>2, <2>3
      <3> QED
        BY <1>4, <1>6, <1>2, <2>2, <3>1 DEF Opens
    <2>4. /\ att' = [att EXCEPT ![t] = h] /\ count' = [count EXCEPT ![t] = n]
          /\ count[t] <= n
      BY <1>2, <1>7, <2>1
    <2> QED
      BY <1>1, <1>2, <1>7, <2>3, <2>4, OneTaskMoves DEF Opens
  <1>8. CASE /\ att' = [att EXCEPT ![t] = [@ EXCEPT ![e] = b]]
             /\ tState' = [tState EXCEPT ![t] = "blocked"]
             /\ count' = count
    BY <1>1, <1>2, <1>8, LatestMoves
  <1> QED
    BY <1>5, <1>7, <1>8

\* A worktree is attached.
LEMMA AttachMoves ==
    ASSUME HistoryInv, NEW c \in Callers, NEW t \in Tasks, NEW ready \in BOOLEAN,
           AttachWorktree(c, t, ready)
    PROVE  TasksMove /\ NothingIntegrated
  <1> USE DEF HistoryInv
  <1> DEFINE e == count[t]
             a == att[t][e]
             state == IF ready THEN "running" ELSE a.state
             b == [a EXCEPT !.tree = call[c].wave, !.state = state]
  <1>1. /\ e # 0 /\ a.state \in {"preparing", "running"}
        /\ att' = [att EXCEPT ![t] = [@ EXCEPT ![e] = b]]
        /\ tState' = [tState EXCEPT ![t] = state] /\ count' = count
    BY DEF AttachWorktree, Attachable, Replaced
  <1>2. e \in Execs /\ tState[t] = a.state /\ e \in Nat
    BY <1>1, LatestFacts DEF Execs
  <1>3. att \in [Tasks -> [Execs -> Attempt]] /\ count \in [Tasks -> 0..MaxExec]
    BY DEF TypeOK
  <1>4. state # "integrated"
    BY <1>1
  <1> HIDE DEF b, state
  <1> QED
    BY <1>1, <1>2, <1>4, LatestMoves

\* The first attempts of a new wave.
LEMMA AdmitMoves ==
    ASSUME HistoryInv, NEW c \in Callers, PrepareAdmit(c)
    PROVE  TasksMove /\ NothingIntegrated
  <1> USE DEF HistoryInv
  <1> DEFINE admitted == Admitted(WaveSlots(AvailableTokens))
             New(share, t) == NewAttempt(1, call[c].head, share[t])
  <1>1. PICK share \in [admitted -> 1..AvailableTokens] :
          att' = [t \in Tasks |-> IF t \in admitted
                                  THEN [att[t] EXCEPT ![1] = New(share, t)] ELSE att[t]]
    BY DEF PrepareAdmit
  <1>2. /\ tState' = [t \in Tasks |-> IF t \in admitted THEN "preparing" ELSE tState[t]]
        /\ count' = [t \in Tasks |-> IF t \in admitted THEN 1 ELSE count[t]]
        /\ call[c].head = GraphHead'
    BY DEF PrepareAdmit, ExpectedHead, GraphHead
  <1>3. admitted \subseteq Ready
    BY DEF Admitted
  <1>4. \A s, t : New(s, t).base = call[c].head
    BY DEF NewAttempt, NoAttempt
  <1>5. \A t \in Tasks : count[t] \in 0..MaxExec /\ att[t] \in [Execs -> Attempt]
    BY DEF TypeOK
  <1> HIDE DEF admitted, New
  <1> SUFFICES ASSUME NEW t \in Tasks
               PROVE  TaskMoves(t) /\ (tState'[t] = "integrated" => tState[t] = "integrated")
    BY DEF TasksMove, NothingIntegrated
  <1>6. CASE t \in admitted
    <2>1. tState[t] = "pending" /\ count[t] = 0 /\ t \in Ready
      BY <1>3, <1>6 DEF Ready, HistorySound, TaskSound
    <2>2. tState'[t] = "preparing" /\ count'[t] = 1 /\ att'[t] = [att[t] EXCEPT ![1] = New(share, t)]
      BY <1>1, <1>2, <1>6
    <2>3. ASSUME NEW e \in Execs, att[t][e].state = "none", att'[t][e].state # "none"
          PROVE  Opens(t, att'[t][e].base)
      <3>1. e = 1
        BY <1>5, <2>2, <2>3
      <3>2. att'[t][e] = New(share, t)
        BY <1>5, <2>2, <3>1
      <3> QED
        BY <1>2, <1>4, <2>1, <3>2 DEF Opens
    <2> QED
      BY <2>1, <2>2, <2>3 DEF TaskMoves
  <1>7. CASE t \notin admitted
    <2>1. tState'[t] = tState[t] /\ count'[t] = count[t] /\ att'[t] = att[t]
      BY <1>1, <1>2, <1>7
    <2>2. count[t] <= count[t]
      BY <1>5, SizesAssumption
    <2> QED
      BY <2>1, <2>2 DEF TaskMoves
  <1> QED
    BY <1>6, <1>7

\* The commit of a settlement: only its accepted candidates are integrated.
LEMMA SettleMoves ==
    ASSUME HistoryInv, NEW c \in Callers, NEW r \in results, SettleCommit(c, r)
    PROVE  /\ TasksMove
           /\ \A t \in Tasks : tState'[t] = "integrated" /\ tState[t] # "integrated" =>
                <<t, count'[t]>> \in r.accepted
  <1> USE DEF HistoryInv
  <1> DEFINE available == AvailableTokens
             k == r.conflict
             retry == k # 0 /\ MayRetry(count[k], available)
  <1>1. /\ att' = SettledAttempts(r, retry, available)
        /\ tState' = [t \in Tasks |->
                        IF <<t, count[t]>> \in r.accepted THEN "integrated"
                        ELSE IF t = k THEN (IF retry THEN "preparing" ELSE "blocked")
                        ELSE tState[t]]
        /\ count' = [t \in Tasks |-> IF t = k /\ retry THEN count[t] + 1 ELSE count[t]]
        /\ \A x \in r.op.cands :
             (x \in r.accepted \/ x[1] = k) => x[2] = count[x[1]] /\ tState[x[1]] = "candidate"
        /\ integrations' = Append(integrations, r)
    BY DEF SettleCommit
  <1>2. /\ \A x \in r.accepted : x \in r.op.cands /\ x[1] # k
        /\ k # 0 => \E x \in r.op.cands : x[1] = k
    BY DEF ResultsSound
  <1>3. GraphHead' = r.final
    <2>1. integrations \in Seq(Result) /\ r \in Result
      BY DEF TypeOK
    <2>2. /\ Append(integrations, r) # <<>>
          /\ Append(integrations, r)[Len(Append(integrations, r))] = r
      BY <2>1
    <2> QED
      BY <1>1, <2>2 DEF GraphHead
  <1> SUFFICES ASSUME NEW t \in Tasks
               PROVE  /\ TaskMoves(t)
                      /\ tState'[t] = "integrated" /\ tState[t] # "integrated" =>
                           <<t, count'[t]>> \in r.accepted
    BY DEF TasksMove
  <1> DEFINE e == count[t]
             a == att[t][e]
  <1>4. e \in 0..MaxExec /\ e \in Nat /\ att[t] \in [Execs -> Attempt]
    BY SizesAssumption DEF TypeOK
  <1>5. tState[t] = "candidate" => e \in Execs /\ e # 0 /\ a.state = "candidate"
    <2>1. tState[t] = "candidate" => e # 0
      BY DEF HistorySound, TaskSound
    <2> QED
      BY <2>1, LatestFacts
  <1>6. t # 0
    BY DEF Tasks
  <1> HIDE DEF available, retry
  <1>7. CASE <<t, e>> \in r.accepted
    <2>1. tState[t] = "candidate" /\ t # k
      BY <1>1, <1>2, <1>7
    <2>2. att'[t] = [att[t] EXCEPT ![e] = [a EXCEPT !.state = "integrated"]]
      BY <1>1, <1>7 DEF SettledAttempts
    <2>3. tState'[t] = "integrated" /\ count'[t] = e
      BY <1>1, <1>7, <2>1
    <2>4. \A f \in Execs : att[t][f].state = "none" => att'[t][f] = att[t][f]
      BY <1>4, <1>5, <2>1, <2>2
    <2>5. e <= e
      BY <1>4
    <2> QED
      BY <1>7, <2>1, <2>3, <2>4, <2>5 DEF TaskMoves
  <1>8. CASE <<t, e>> \notin r.accepted /\ t = k
    <2>1. tState[t] = "candidate"
      BY <1>1, <1>2, <1>6, <1>8
    <2>2. tState'[t] \in {"preparing", "blocked"}
      BY <1>1, <1>8
    <2>3. CASE retry
      <3> DEFINE b == [a EXCEPT !.conflict = r.op]
                 next == NewAttempt(e + 1, r.final, available)
      <3>1. att'[t] = [att[t] EXCEPT ![e] = b, ![e + 1] = next]
        BY <1>1, <1>8, <2>3 DEF SettledAttempts
      <3>2. next.base = r.final
        BY DEF NewAttempt, NoAttempt
      <3>3. count'[t] = e + 1
        BY <1>1, <1>8, <2>3
      <3> HIDE DEF b, next
      <3>4. ASSUME NEW f \in Execs, att[t][f].state = "none", att'[t][f].state # "none"
            PROVE  Opens(t, att'[t][f].base)
        <4>1. f # e
          BY <1>5, <2>1, <3>4
        <4>2. f = e + 1
          BY <1>4, <3>1, <3>4, <4>1
        <4>3. att'[t][f] = next
          BY <1>4, <3>1, <4>2
        <4> QED
          BY <1>3, <1>5, <2>1, <3>2, <4>3 DEF Opens
      <3>5. e <= e + 1
        BY <1>4
      <3> QED
        BY <2>1, <2>2, <3>3, <3>4, <3>5 DEF TaskMoves
    <2>4. CASE ~retry
      <3>1. att'[t] = [att[t] EXCEPT ![e] = [a EXCEPT !.state = "blocked", !.conflict = r.op]]
        BY <1>1, <1>8, <2>4 DEF SettledAttempts
      <3>2. count'[t] = e /\ e <= e
        BY <1>1, <1>4, <1>8, <2>4
      <3>3. \A f \in Execs : att[t][f].state = "none" => att'[t][f] = att[t][f]
        BY <1>4, <1>5, <2>1, <3>1
      <3> QED
        BY <2>1, <2>2, <3>2, <3>3 DEF TaskMoves
    <2> QED
      BY <2>3, <2>4
  <1>9. CASE <<t, e>> \notin r.accepted /\ t # k
    <2>1. tState'[t] = tState[t] /\ count'[t] = e /\ att'[t] = att[t]
      BY <1>1, <1>9 DEF SettledAttempts
    <2>2. e <= e
      BY <1>4
    <2> QED
      BY <2>1, <2>2 DEF TaskMoves
  <1> QED
    BY <1>7, <1>8, <1>9

-----------------------------------------------------------------------------
(* The invariant *)

\* An attempt that stands for its task and waits to be integrated.
Current(x) == x[2] = count[x[1]] /\ tState[x[1]] = "candidate"

\* The operation a call settles, before its intent is persisted and after.
Offers(c) == call[c].op = "intent"
Settles(c) == call[c].op \in {"integrate", "settle"}

\* Every commit the journal knows is one the branch has passed.
BasesPassed ==
    /\ \A t \in Tasks, e \in Execs :
         att[t][e].state # "none" => att[t][e].base <= GraphHead
    /\ \A w \in DOMAIN waves : waves[w].base <= GraphHead

\* What the journal recorded is one chain: its records are results of Git,
\* each begins where the one before ended, and their attempts are integrated.
Recorded ==
    \A i \in DOMAIN integrations :
        LET r == integrations[i] IN
        /\ r \in results
        /\ r.op.start = IF i = 1 THEN 0 ELSE integrations[i - 1].final
        /\ r.final <= GraphHead
        /\ \A x \in r.accepted : att[x[1]][x[2]].state = "integrated"
RecordedOnce ==
    \A i, j \in DOMAIN integrations :
        i # j => integrations[i].accepted \cap integrations[j].accepted = {}

\* Every integrated task is in the chain.
IntegratedRecorded ==
    \A t \in Tasks : tState[t] = "integrated" =>
        \E i \in DOMAIN integrations : <<t, count[t]>> \in integrations[i].accepted

\* What Git completed: one result per operation, whose accepted candidates are
\* those before the conflict, one commit each; a result the journal lacks and
\* still could record is where the branch is.
ResultsPlaced ==
    /\ \A r \in results :
         /\ r.accepted = Accepted(r.op.cands, r.conflict)
         /\ r.final = r.op.start + Cardinality(r.accepted)
         /\ r.op \notin Completed /\ r.op.start = GraphHead => r.final \in {GraphHead, head}
         /\ r.op \in intents
         /\ r.conflict # 0 =>
              \E x \in r.op.cands : x[1] = r.conflict /\ att[x[1]][x[2]].base # r.final
    /\ \A r, s \in results : r.op = s.op => r = s
HeadPlaced ==
    \/ head = GraphHead
    \/ \E r \in results : /\ r.op \notin Completed
                          /\ r.op.start = GraphHead
                          /\ r.final = head

OpSound(o) ==
    /\ o.wave \in DOMAIN waves
    /\ waves[o.wave].base <= o.start
    /\ o.start <= GraphHead
    /\ o.cands # {}
    /\ \A x \in o.cands : /\ x[1] \in waves[o.wave].tasks
                          /\ att[x[1]][x[2]].state \in {"candidate", "integrated", "blocked"}
                          /\ att[x[1]][x[2]].base = waves[o.wave].base
OpsSound ==
    /\ \A o \in intents : OpSound(o)
    /\ \A c \in Callers : Offers(c) => OpSound(OperationOf(call[c]))
    /\ \A c \in Callers : Settles(c) => OperationOf(call[c]) \in intents

Live(o) == o \notin Completed /\ o.start = GraphHead
SameOffer(a, b) == a.wave = b.wave /\ a.start = b.start
OffersAgree ==
    \A a \in intents : Live(a) =>
        /\ \A b \in intents : SameOffer(a, b) /\ Live(b) =>
             \A x \in a.cands : Current(x) => x \in b.cands
        /\ \A c \in Callers : Offers(c) /\ SameOffer(OperationOf(call[c]), a) =>
             \A x \in call[c].cands : Current(x) => x \in a.cands

Since(i, k) == \E m \in DOMAIN integrations : m > i /\ \E x \in integrations[m].accepted : x[1] = k
Fenced(i) ==
    LET k == integrations[i].conflict IN
    k # 0 /\ tState[k] # "blocked" /\ ~Since(i, k)
ReplacementsAhead ==
    \A i \in DOMAIN integrations : Fenced(i) =>
        LET k == integrations[i].conflict IN
        /\ tState[k] # "integrated"
        /\ count[k] # 0
        /\ integrations[i].final <= att[k][count[k]].base
Stuck(o) ==
    \E x \in o.cands : /\ ~Current(x)
                       /\ \A y \in o.cands : y[1] < x[1] => ~Current(y)
FencedStuck ==
    \A i \in DOMAIN integrations, o \in intents :
        Fenced(i) /\ Live(o) /\ o.wave = integrations[i].op.wave => Stuck(o)

-----------------------------------------------------------------------------
(* What stays when the journal grows *)

JournalGrows ==
    /\ TypeOK /\ TypeOK' /\ Good /\ TasksMove
    /\ GraphHead <= GraphHead'
    /\ \A i \in DOMAIN integrations :
         i \in DOMAIN integrations' /\ integrations'[i] = integrations[i]
    /\ \A w \in DOMAIN waves : w \in DOMAIN waves' /\ waves'[w] = waves[w]
    /\ \A w \in DOMAIN waves' : w \notin DOMAIN waves => waves'[w].base <= GraphHead'

\* What the type invariant says of the values the chain is made of.
LEMMA ChainTypes ==
    ASSUME TypeOK
    PROVE  /\ GraphHead \in Nat /\ head \in Nat
           /\ \A r \in results : r \in Result
           /\ \A i \in DOMAIN integrations : i \in Nat /\ i # 0 /\ integrations[i] \in Result
           /\ \A o \in intents : o \in Operation
           /\ \A t \in Tasks : /\ count[t] \in 0..MaxExec /\ count[t] \in Nat
                               /\ tState[t] \in TaskStates
                               /\ \A e \in Execs : att[t][e] \in Attempt
           /\ \A w \in DOMAIN waves : waves[w].base \in Nat /\ waves[w].tasks \in SUBSET Tasks
           /\ \A c \in Callers : OperationOf(call[c]) \in Operation
  <1>1. GraphHead \in Nat /\ head \in Nat
    BY HeadType DEF TypeOK
  <1>2. /\ \A r \in results : r \in Result
        /\ \A i \in DOMAIN integrations : i \in Nat /\ i # 0 /\ integrations[i] \in Result
        /\ \A o \in intents : o \in Operation
    BY DEF TypeOK
  <1>3. \A t \in Tasks : /\ count[t] \in 0..MaxExec /\ count[t] \in Nat
                         /\ tState[t] \in TaskStates
                         /\ \A e \in Execs : att[t][e] \in Attempt
    BY SizesAssumption DEF TypeOK
  <1>4. ASSUME NEW w \in DOMAIN waves
        PROVE  waves[w].base \in Nat /\ waves[w].tasks \in SUBSET Tasks
    <2>1. waves \in Seq(Wave)
      BY DEF TypeOK, Wave
    <2>2. waves[w] \in Wave
      BY <2>1
    <2> QED
      BY <2>2 DEF Wave
  <1>5. ASSUME NEW c \in Callers PROVE OperationOf(call[c]) \in Operation
    <2>1. call[c] \in Call
      BY DEF TypeOK
    <2> QED
      BY <2>1 DEF Call, Operation, OperationOf
  <1> QED
    BY <1>1, <1>2, <1>3, <1>4, <1>5

\* The same of the values a step leads to.
LEMMA NextTypes ==
    ASSUME TypeOK'
    PROVE  /\ GraphHead' \in Nat
           /\ \A t \in Tasks : /\ count'[t] \in 0..MaxExec /\ count'[t] \in Nat
                               /\ tState'[t] \in TaskStates
  <1>1. integrations' \in Seq(Result)
    BY DEF TypeOK
  <1>2. GraphHead' \in Nat
    <2>1. CASE integrations' = <<>>
      BY <2>1 DEF GraphHead
    <2>2. CASE integrations' # <<>>
      <3>1. integrations'[Len(integrations')] \in Result
        BY <1>1, <2>2
      <3> QED
        BY <2>2, <3>1 DEF GraphHead, Result
    <2> QED
      BY <2>1, <2>2
  <1>3. \A t \in Tasks : /\ count'[t] \in 0..MaxExec /\ count'[t] \in Nat
                         /\ tState'[t] \in TaskStates
    BY SizesAssumption DEF TypeOK
  <1> QED
    BY <1>2, <1>3

\* An attempt that was a candidate stays one, or is over, on the same base.
LEMMA OfferedStays ==
    ASSUME JournalGrows, NEW x \in Commit,
           att[x[1]][x[2]].state \in {"candidate", "integrated", "blocked"}
    PROVE  /\ att'[x[1]][x[2]].state \in {"candidate", "integrated", "blocked"}
           /\ att[x[1]][x[2]].state = "integrated" => att'[x[1]][x[2]].state = "integrated"
           /\ att'[x[1]][x[2]].base = att[x[1]][x[2]].base
  <1>1. x[1] \in Tasks /\ x[2] \in Execs
    BY DEF Commit
  <1>2. Kept(att[x[1]][x[2]], att'[x[1]][x[2]])
    BY <1>1 DEF JournalGrows, Good, HistoryKept
  <1> QED
    BY <1>2 DEF Kept

\* A candidate that stopped to stand for its task never does again.
LEMMA CurrentWas ==
    ASSUME HistorySound, JournalGrows, NEW x \in Commit,
           att[x[1]][x[2]].state \in {"candidate", "integrated", "blocked"}, Current(x)'
    PROVE  Current(x)
  <1> DEFINE t == x[1]
             e == x[2]
  <1>1. t \in Tasks /\ e \in Execs /\ e \in Nat /\ e # 0
    BY DEF Commit, Execs
  <1>2. e = count'[t] /\ tState'[t] = "candidate"
    BY DEF Current
  <1>3. TaskSound(tState'[t], count'[t], att'[t]) /\ Kept(att[t][e], att'[t][e])
    BY <1>1 DEF JournalGrows, Good, HistoryKept
  <1>4. att'[t][e].state = "candidate"
    BY <1>1, <1>2, <1>3 DEF TaskSound
  <1>5. att[t][e].state = "candidate"
    BY <1>3, <1>4 DEF Kept
  <1>6. count[t] <= e /\ count[t] \in Nat
    BY <1>1, <1>2, ChainTypes DEF JournalGrows, TasksMove, TaskMoves
  <1>7. TaskSound(tState[t], count[t], att[t])
    BY <1>1 DEF HistorySound
  <1>8. ~(e > count[t])
    BY <1>1, <1>5, <1>7 DEF TaskSound, NoAttempt
  <1>9. e = count[t]
    BY <1>1, <1>6, <1>8
  <1> QED
    BY <1>1, <1>5, <1>7, <1>9 DEF TaskSound, Current

\* The latest attempt of a task exists.
LEMMA LatestExists ==
    ASSUME TypeOK, HistorySound, NEW t \in Tasks, count[t] # 0
    PROVE  att[t][count[t]].state # "none" /\ count[t] \in Execs
  <1>1. tState[t] = att[t][count[t]].state /\ tState[t] \in TaskStates /\ count[t] \in Execs
    BY LatestFacts, ChainTypes
  <1> QED
    BY <1>1 DEF TaskStates

\* An existing attempt keeps its base.
LEMMA BaseStays ==
    ASSUME JournalGrows, NEW t \in Tasks, NEW e \in Execs, att[t][e].state # "none"
    PROVE  att'[t][e].base = att[t][e].base
  <1>1. Kept(att[t][e], att'[t][e])
    BY DEF JournalGrows, Good, HistoryKept
  <1> QED
    BY <1>1 DEF Kept

\* A new attempt is based on the head, or where the attempt before it was.
LEMMA BaseOpens ==
    ASSUME JournalGrows, HistorySound, NEW t \in Tasks, NEW e \in Execs,
           att[t][e].state = "none", att'[t][e].state # "none"
    PROVE  \/ count[t] = 0 /\ t \in Ready /\ att'[t][e].base = GraphHead'
           \/ /\ count[t] \in Execs /\ att[t][count[t]].state # "none"
              /\ att'[t][e].base \in {GraphHead', att[t][count[t]].base}
  <1>1. Opens(t, att'[t][e].base)
    BY DEF JournalGrows, TasksMove, TaskMoves
  <1>2. count[t] # 0 => count[t] \in Execs /\ att[t][count[t]].state # "none"
    BY LatestExists DEF JournalGrows
  <1> QED
    BY <1>1, <1>2 DEF Opens

\* Every base is a commit the branch has passed.
LEMMA BasesKept ==
    ASSUME HistorySound, JournalGrows, BasesPassed
    PROVE  BasesPassed'
  <1>1. TypeOK /\ TypeOK' /\ GraphHead <= GraphHead'
    BY DEF JournalGrows
  <1>2. GraphHead \in Nat /\ GraphHead' \in Nat
    BY <1>1, HeadType, NextTypes
  <1>3. ASSUME NEW t \in Tasks, NEW e \in Execs, att'[t][e].state # "none"
        PROVE  att'[t][e].base <= GraphHead'
    <2>1. \A f \in Execs : att[t][f].state # "none" =>
            att[t][f].base <= GraphHead /\ att[t][f].base \in Nat
      BY <1>1, ChainTypes DEF BasesPassed, Attempt
    <2>2. CASE att[t][e].state # "none"
      BY <1>1, <1>2, <2>1, <2>2, BaseStays
    <2>3. CASE att[t][e].state = "none"
      BY <1>1, <1>2, <1>3, <2>1, <2>3, BaseOpens
    <2> QED
      BY <2>2, <2>3
  <1>4. ASSUME NEW w \in DOMAIN waves'
        PROVE  waves'[w].base <= GraphHead'
    <2>1. CASE w \in DOMAIN waves
      <3>1. waves'[w] = waves[w] /\ waves[w].base <= GraphHead /\ waves[w].base \in Nat
        BY <1>1, <2>1, ChainTypes DEF JournalGrows, BasesPassed
      <3> QED
        BY <1>1, <1>2, <3>1
    <2>2. CASE w \notin DOMAIN waves
      BY <2>2 DEF JournalGrows
    <2> QED
      BY <2>1, <2>2
  <1> QED
    BY <1>3, <1>4 DEF BasesPassed

\* An integrated attempt stands for its task.
LEMMA IntegratedIsLatest ==
    ASSUME TypeOK, HistorySound, NEW t \in Tasks, NEW e \in Execs,
           att[t][e].state = "integrated"
    PROVE  tState[t] = "integrated" /\ e = count[t]
  <1>1. TaskSound(tState[t], count[t], att[t]) /\ count[t] \in Nat /\ e \in Nat /\ e # 0
    BY ChainTypes DEF HistorySound, Execs
  <1>2. ~(e < count[t])
    BY <1>1 DEF TaskSound, Closed
  <1>3. ~(e > count[t])
    BY <1>1 DEF TaskSound, NoAttempt
  <1>4. e = count[t]
    BY <1>1, <1>2, <1>3
  <1> QED
    BY <1>1, <1>4 DEF TaskSound

\* What a task depends on stays integrated below its attempts.
LEMMA DependencyKept ==
    ASSUME HistorySound, JournalGrows, DependencyBase, IntegratedRecorded, Recorded
    PROVE  DependencyBase'
  <1>1. TypeOK /\ TypeOK' /\ GraphHead <= GraphHead' /\ GraphHead \in Nat /\ GraphHead' \in Nat
    BY HeadType, NextTypes DEF JournalGrows
  <1> SUFFICES ASSUME NEW t \in Tasks, NEW e \in Execs, att'[t][e].state # "none",
                      NEW d \in Deps[t]
               PROVE  \E i \in DOMAIN integrations' :
                         /\ <<d, count'[d]>> \in integrations'[i].accepted
                         /\ integrations'[i].final <= att'[t][e].base
    BY DEF DependencyBase
  <1>2. d \in Tasks
    BY DepsAssumption
  <1>3. ASSUME NEW i \in DOMAIN integrations, <<d, count[d]>> \in integrations[i].accepted,
               integrations[i].final <= att'[t][e].base
        PROVE  \E j \in DOMAIN integrations' :
                         /\ <<d, count'[d]>> \in integrations'[j].accepted
                         /\ integrations'[j].final <= att'[t][e].base
    <2>1. att[d][count[d]].state = "integrated"
      BY <1>3 DEF Recorded
    <2>2. integrations[i].accepted \subseteq Commit
      BY <1>1, ChainTypes DEF Result
    <2>3. count[d] \in Execs
      BY <1>3, <2>2 DEF Commit
    <2>4. tState[d] = "integrated"
      BY <1>1, <1>2, <2>1, <2>3, IntegratedIsLatest
    <2>5. count'[d] = count[d]
      BY <1>2, <2>4 DEF JournalGrows, TasksMove, TaskMoves
    <2>6. i \in DOMAIN integrations' /\ integrations'[i] = integrations[i]
      BY DEF JournalGrows
    <2> QED
      BY <1>3, <2>5, <2>6
  <1>4. \A i \in DOMAIN integrations : /\ integrations[i].final \in Nat
                                       /\ integrations[i].final <= GraphHead
    BY <1>1, ChainTypes DEF Recorded, Result
  <1>5. CASE att[t][e].state # "none"
    <2>1. PICK i \in DOMAIN integrations : /\ <<d, count[d]>> \in integrations[i].accepted
                                           /\ integrations[i].final <= att[t][e].base
      BY <1>5 DEF DependencyBase
    <2>2. att'[t][e].base = att[t][e].base
      BY <1>5, BaseStays
    <2> QED
      BY <1>3, <2>1, <2>2
  <1>6. CASE att[t][e].state = "none"
    <2>1. CASE t \in Ready /\ att'[t][e].base = GraphHead'
      <3>1. tState[d] = "integrated"
        BY <2>1 DEF Ready
      <3>2. PICK i \in DOMAIN integrations : <<d, count[d]>> \in integrations[i].accepted
        BY <1>2, <3>1 DEF IntegratedRecorded
      <3>3. integrations[i].final <= att'[t][e].base
        BY <1>1, <1>4, <2>1
      <3> QED
        BY <1>3, <3>2, <3>3
    <2>2. CASE /\ count[t] \in Execs /\ att[t][count[t]].state # "none"
               /\ att'[t][e].base \in {GraphHead', att[t][count[t]].base}
      <3>1. PICK i \in DOMAIN integrations :
              /\ <<d, count[d]>> \in integrations[i].accepted
              /\ integrations[i].final <= att[t][count[t]].base
        BY <2>2 DEF DependencyBase
      <3>2. integrations[i].final <= att'[t][e].base
        BY <1>1, <1>4, <2>2, <3>1
      <3> QED
        BY <1>3, <3>1, <3>2
    <2> QED
      BY <1>6, <2>1, <2>2, BaseOpens
  <1> QED
    BY <1>5, <1>6

\* A sound operation stays sound.
LEMMA OpStays ==
    ASSUME JournalGrows, NEW o \in Operation, OpSound(o)
    PROVE  OpSound(o)'
  <1>1. TypeOK /\ TypeOK' /\ GraphHead <= GraphHead' /\ GraphHead \in Nat /\ GraphHead' \in Nat
    BY HeadType, NextTypes DEF JournalGrows
  <1>2. o.wave \in DOMAIN waves' /\ waves'[o.wave] = waves[o.wave]
    BY DEF JournalGrows, OpSound
  <1>3. o.start \in Nat /\ o.start <= GraphHead /\ o.cands \subseteq Commit
    BY DEF Operation, OpSound
  <1>4. o.start <= GraphHead'
    BY <1>1, <1>3
  <1>5. \A x \in o.cands : /\ x \in Commit
                           /\ x[1] \in waves[o.wave].tasks
                           /\ att[x[1]][x[2]].state \in {"candidate", "integrated", "blocked"}
                           /\ att[x[1]][x[2]].base = waves[o.wave].base
    BY <1>3 DEF OpSound
  <1>6. \A x \in o.cands :
          /\ att'[x[1]][x[2]].state \in {"candidate", "integrated", "blocked"}
          /\ att'[x[1]][x[2]].base = att[x[1]][x[2]].base
    BY <1>5, OfferedStays
  <1> QED
    BY <1>2, <1>4, <1>5, <1>6 DEF OpSound

\* A candidate of a sound operation that stands for its task always did.
LEMMA OpCurrentWas ==
    ASSUME HistorySound, JournalGrows, NEW o \in Operation, OpSound(o)
    PROVE  \A x \in o.cands : Current(x)' => Current(x)
  <1>1. \A x \in o.cands : x \in Commit
    BY DEF Operation
  <1> QED
    BY <1>1, CurrentWas DEF OpSound

\* A stuck operation stays stuck.
LEMMA StuckStays ==
    ASSUME HistorySound, JournalGrows, NEW o \in Operation, OpSound(o), Stuck(o)
    PROVE  Stuck(o)'
  <1>1. PICK x \in o.cands : /\ ~Current(x)
                             /\ \A y \in o.cands : y[1] < x[1] => ~Current(y)
    BY DEF Stuck
  <1> QED
    BY <1>1, OpCurrentWas DEF Stuck

\* A wave fenced by conflict i was fenced before.
LEMMA FencedWas ==
    ASSUME JournalGrows, NEW i \in DOMAIN integrations, Fenced(i)'
    PROVE  /\ Fenced(i) /\ integrations'[i] = integrations[i]
           /\ integrations[i].conflict \in Tasks
  <1> DEFINE k == integrations[i].conflict
  <1>1. integrations'[i] = integrations[i]
    BY DEF JournalGrows
  <1>2. k # 0 /\ tState'[k] # "blocked" /\ ~Since(i, k)'
    BY <1>1 DEF Fenced
  <1>3. k \in Tasks
    <2>1. k \in 0..NTasks
      BY ChainTypes DEF JournalGrows, Result
    <2> QED
      BY <1>2, <2>1, SizesAssumption DEF Tasks
  <1>4. tState[k] # "blocked"
    BY <1>2, <1>3 DEF JournalGrows, TasksMove, TaskMoves
  <1>5. ~Since(i, k)
    <2>1. \A m \in DOMAIN integrations :
            m \in DOMAIN integrations' /\ integrations'[m] = integrations[m]
      BY DEF JournalGrows
    <2> QED
      BY <1>2, <2>1 DEF Since
  <1> QED
    BY <1>1, <1>2, <1>3, <1>4, <1>5 DEF Fenced

\* The replacement of a conflicted task stays ahead of the conflict.
LEMMA ReplacementKept ==
    ASSUME HistorySound, JournalGrows, Recorded, ReplacementsAhead,
           NEW i \in DOMAIN integrations, Fenced(i)', NEW k, k = integrations[i].conflict,
           tState'[k] = "integrated" => tState[k] = "integrated"
    PROVE  /\ tState'[k] # "integrated"
           /\ count'[k] # 0
           /\ integrations'[i].final <= att'[k][count'[k]].base
  <1>1. TypeOK /\ TypeOK' /\ GraphHead <= GraphHead' /\ GraphHead \in Nat /\ GraphHead' \in Nat
    BY HeadType, NextTypes DEF JournalGrows
  <1>2. Fenced(i) /\ integrations'[i] = integrations[i] /\ k \in Tasks
    BY FencedWas
  <1>3. /\ tState[k] # "integrated" /\ count[k] # 0
        /\ integrations[i].final <= att[k][count[k]].base
    BY <1>2 DEF ReplacementsAhead
  <1>4. /\ count[k] \in Nat /\ count'[k] \in Nat /\ count[k] <= count'[k]
        /\ count[k] \in Execs /\ att[k][count[k]].state # "none"
    BY <1>1, <1>2, <1>3, ChainTypes, NextTypes, LatestExists DEF JournalGrows, TasksMove, TaskMoves
  <1>5. /\ TaskSound(tState[k], count[k], att[k])
        /\ TaskSound(tState'[k], count'[k], att'[k])
    BY <1>2 DEF JournalGrows, Good, HistorySound
  <1>6. count'[k] # 0 /\ count'[k] \in Execs
    <2>1. count'[k] \in 0..MaxExec
      BY <1>1, <1>2, NextTypes
    <2> QED
      BY <1>3, <1>4, <2>1, SizesAssumption DEF Execs
  <1>7. integrations[i].final \in Nat /\ integrations[i].final <= GraphHead
    BY <1>1, ChainTypes DEF Recorded, Result
  <1>8. CASE count'[k] = count[k]
    BY <1>2, <1>3, <1>4, <1>8, BaseStays
  <1>9. CASE count'[k] # count[k]
    <2>1. att[k][count'[k]].state = "none"
      BY <1>4, <1>5, <1>6, <1>9 DEF TaskSound, NoAttempt
    <2>2. att'[k][count'[k]].state # "none"
      <3>1. tState'[k] \in TaskStates
        BY <1>1, <1>2, NextTypes
      <3> QED
        BY <1>5, <1>6, <3>1 DEF TaskSound, TaskStates
    <2>3. PICK e \in Execs : e = count'[k]
      BY <1>6
    <2>4. att'[k][e].base \in {GraphHead', att[k][count[k]].base}
      BY <1>2, <1>3, <2>1, <2>2, <2>3, BaseOpens
    <2> QED
      BY <1>1, <1>2, <1>3, <1>6, <1>7, <2>3, <2>4
  <1> QED
    BY <1>3, <1>6, <1>8, <1>9

-----------------------------------------------------------------------------
(* The steps that leave the branch and the chain alone *)

ChainInv ==
    /\ HistoryInv
    /\ BasesPassed /\ Recorded /\ RecordedOnce /\ IntegratedRecorded
    /\ ResultsPlaced /\ HeadPlaced /\ OpsSound /\ OffersAgree
    /\ ReplacementsAhead /\ FencedStuck
    /\ DependencyBase /\ ConflictFence

\* A caller takes up a persisted operation, or makes one of the candidates of
\* a wave without a pending intent, or goes on with the one it has.
CallsQuiet ==
    \A c \in Callers :
        /\ call'[c].op = "intent" =>
             \/ call'[c] = call[c]
             \/ \E o \in Operation : /\ OperationOf(call'[c]) = o
                                     /\ OpSound(o)
                                     /\ PendingIntents(o.wave) = {}
        /\ call'[c].op \in {"integrate", "settle"} => OperationOf(call'[c]) \in intents

Quiet ==
    /\ JournalGrows
    /\ UNCHANGED <<integrations, head, results, intents>>
    /\ NothingIntegrated
    /\ CallsQuiet

\* What the chain is, after a quiet step.
LEMMA QuietChain ==
    ASSUME ChainInv, Quiet
    PROVE  /\ BasesPassed' /\ Recorded' /\ RecordedOnce' /\ IntegratedRecorded'
           /\ ResultsPlaced' /\ HeadPlaced' /\ DependencyBase'
  <1> USE DEF ChainInv, HistoryInv
  <1>1. /\ JournalGrows /\ TypeOK
        /\ integrations' = integrations /\ head' = head /\ results' = results
        /\ intents' = intents
    BY DEF Quiet
  <1>2. GraphHead' = GraphHead /\ Completed' = Completed
    BY <1>1 DEF GraphHead, Completed
  <1>3. BasesPassed' /\ DependencyBase'
    BY <1>1, BasesKept, DependencyKept
  <1>4. Recorded'
    <2>1. ASSUME NEW i \in DOMAIN integrations, NEW x \in integrations[i].accepted
          PROVE  att'[x[1]][x[2]].state = "integrated"
      <3>1. x \in Commit
        BY <1>1, ChainTypes DEF Result
      <3>2. att[x[1]][x[2]].state = "integrated"
        BY DEF Recorded
      <3> QED
        BY <1>1, <3>1, <3>2, OfferedStays
    <2> QED
      BY <1>1, <1>2, <2>1 DEF Recorded
  <1>5. RecordedOnce'
    BY <1>1 DEF RecordedOnce
  <1>6. IntegratedRecorded'
    <2>1. \A t \in Tasks : tState'[t] = "integrated" =>
            tState[t] = "integrated" /\ count'[t] = count[t]
      BY <1>1 DEF Quiet, NothingIntegrated, JournalGrows, TasksMove, TaskMoves
    <2> QED
      BY <1>1, <2>1 DEF IntegratedRecorded
  <1>7. ResultsPlaced'
    <2>1. ASSUME NEW r \in results, r.conflict # 0
          PROVE  \E x \in r.op.cands : x[1] = r.conflict /\ att'[x[1]][x[2]].base # r.final
      <3>1. PICK x \in r.op.cands : x[1] = r.conflict /\ att[x[1]][x[2]].base # r.final
        BY <2>1 DEF ResultsPlaced
      <3>2. OpSound(r.op) /\ r.op \in Operation
        BY <1>1, ChainTypes DEF ResultsPlaced, OpsSound
      <3>3. x \in Commit /\ att[x[1]][x[2]].state \in {"candidate", "integrated", "blocked"}
        BY <3>2 DEF OpSound, Operation
      <3> QED
        BY <1>1, <3>1, <3>3, OfferedStays
    <2> QED
      BY <1>1, <1>2, <2>1 DEF ResultsPlaced
  <1>8. HeadPlaced'
    BY <1>1, <1>2 DEF HeadPlaced
  <1> QED
    BY <1>3, <1>4, <1>5, <1>6, <1>7, <1>8

\* What the callers hold, after a quiet step.
LEMMA QuietOffers ==
    ASSUME ChainInv, Quiet
    PROVE  OpsSound' /\ OffersAgree'
  <1> USE DEF ChainInv, HistoryInv
  <1>1. /\ JournalGrows /\ TypeOK /\ CallsQuiet
        /\ integrations' = integrations /\ intents' = intents
    BY DEF Quiet
  <1>2. GraphHead' = GraphHead /\ Completed' = Completed
    BY <1>1 DEF GraphHead, Completed
  <1>3. \A o \in intents : o \in Operation /\ OpSound(o)
    BY <1>1, ChainTypes DEF OpsSound
  <1>4. \A o \in intents : Live(o)' = Live(o)
    BY <1>2 DEF Live
  <1>5. \A o \in Operation : OpSound(o) => OpSound(o)'
    BY <1>1, OpStays
  <1>6. \A o \in Operation : OpSound(o) => \A x \in o.cands : Current(x)' => Current(x)
    BY <1>1, OpCurrentWas
  <1>7. ASSUME NEW c \in Callers, call'[c].op = "intent"
        PROVE  \E o \in Operation :
                  /\ OperationOf(call'[c]) = o /\ OpSound(o)
                  /\ \A a \in intents : Live(a) /\ SameOffer(o, a) =>
                       \A x \in o.cands : Current(x) => x \in a.cands
    <2>1. CASE call'[c] = call[c]
      <3>1. OperationOf(call[c]) \in Operation /\ Offers(c)
        BY <1>1, <1>7, <2>1, ChainTypes DEF Offers
      <3>2. OpSound(OperationOf(call[c]))
        BY <3>1 DEF OpsSound
      <3>3. OperationOf(call[c]).cands = call[c].cands
        BY DEF OperationOf
      <3>4. \A a \in intents : Live(a) /\ SameOffer(OperationOf(call[c]), a) =>
              \A x \in call[c].cands : Current(x) => x \in a.cands
        BY <3>1 DEF OffersAgree
      <3> QED
        BY <2>1, <3>1, <3>2, <3>3, <3>4
    <2>2. CASE \E o \in Operation : /\ OperationOf(call'[c]) = o
                                    /\ OpSound(o)
                                    /\ PendingIntents(o.wave) = {}
      <3>1. PICK o \in Operation : /\ OperationOf(call'[c]) = o
                                   /\ OpSound(o)
                                   /\ PendingIntents(o.wave) = {}
        BY <2>2
      <3>2. \A a \in intents : ~(Live(a) /\ SameOffer(o, a))
        BY <3>1 DEF PendingIntents, Live, SameOffer
      <3> QED
        BY <3>1, <3>2
    <2> QED
      BY <1>1, <1>7, <2>1, <2>2 DEF CallsQuiet
  <1>8. OpsSound'
    <2>1. \A o \in intents' : OpSound(o)'
      BY <1>1, <1>3, <1>5
    <2>2. ASSUME NEW c \in Callers, Offers(c)'
          PROVE  OpSound(OperationOf(call[c]))'
      <3>1. PICK o \in Operation : OperationOf(call'[c]) = o /\ OpSound(o)
        BY <1>7, <2>2 DEF Offers
      <3>2. OpSound(o)'
        BY <1>5, <3>1
      <3> QED
        BY <3>1, <3>2
    <2>3. \A c \in Callers : Settles(c)' => OperationOf(call'[c]) \in intents'
      BY <1>1 DEF CallsQuiet, Settles
    <2> QED
      BY <2>1, <2>2, <2>3 DEF OpsSound
  <1>9. OffersAgree'
    <2> SUFFICES ASSUME NEW a \in intents, Live(a)
                 PROVE  /\ \A b \in intents : SameOffer(a, b) /\ Live(b) =>
                             \A x \in a.cands : Current(x)' => x \in b.cands
                        /\ \A c \in Callers :
                             Offers(c)' /\ SameOffer(OperationOf(call'[c]), a) =>
                               \A x \in call'[c].cands : Current(x)' => x \in a.cands
      BY <1>1, <1>4 DEF OffersAgree
    <2>1. \A b \in intents : SameOffer(a, b) /\ Live(b) =>
            \A x \in a.cands : Current(x) => x \in b.cands
      BY DEF OffersAgree
    <2>2. \A b \in intents : SameOffer(a, b) /\ Live(b) =>
            \A x \in a.cands : Current(x)' => x \in b.cands
      BY <1>3, <1>6, <2>1
    <2>3. ASSUME NEW c \in Callers, Offers(c)', SameOffer(OperationOf(call'[c]), a),
                 NEW x \in call'[c].cands, Current(x)'
          PROVE  x \in a.cands
      <3>1. PICK o \in Operation :
              /\ OperationOf(call'[c]) = o /\ OpSound(o)
              /\ Live(a) /\ SameOffer(o, a) =>
                   \A y \in o.cands : Current(y) => y \in a.cands
        BY <1>7, <2>3 DEF Offers
      <3>2. o.cands = call'[c].cands
        BY <3>1 DEF OperationOf
      <3> QED
        BY <1>6, <2>3, <3>1, <3>2
    <2> QED
      BY <2>2, <2>3
  <1> QED
    BY <1>8, <1>9

\* What is fenced, after a quiet step.
LEMMA QuietFence ==
    ASSUME ChainInv, Quiet
    PROVE  ReplacementsAhead' /\ FencedStuck' /\ ConflictFence'
  <1> USE DEF ChainInv, HistoryInv
  <1>1. /\ JournalGrows /\ TypeOK /\ NothingIntegrated
        /\ integrations' = integrations /\ intents' = intents
    BY DEF Quiet
  <1>2. GraphHead' = GraphHead /\ Completed' = Completed
    BY <1>1 DEF GraphHead, Completed
  <1>3. ReplacementsAhead'
    <2> SUFFICES ASSUME NEW i \in DOMAIN integrations, Fenced(i)',
                        NEW k, k = integrations[i].conflict
                 PROVE  /\ tState'[k] # "integrated"
                        /\ count'[k] # 0
                        /\ integrations'[i].final <= att'[k][count'[k]].base
      BY <1>1 DEF ReplacementsAhead
    <2>1. k \in Tasks
      BY <1>1, FencedWas
    <2>2. tState'[k] = "integrated" => tState[k] = "integrated"
      BY <1>1, <2>1 DEF NothingIntegrated
    <2> QED
      BY <1>1, <2>2, ReplacementKept
  <1>4. FencedStuck'
    <2> SUFFICES ASSUME NEW i \in DOMAIN integrations, NEW o \in intents,
                        Fenced(i)', Live(o)', o.wave = integrations[i].op.wave
                 PROVE  Stuck(o)'
      BY <1>1 DEF FencedStuck
    <2>1. Fenced(i)
      BY <1>1, FencedWas
    <2>2. Live(o)
      BY <1>2 DEF Live
    <2>3. Stuck(o)
      BY <2>1, <2>2 DEF FencedStuck
    <2>4. o \in Operation /\ OpSound(o)
      BY <1>1, ChainTypes DEF OpsSound
    <2> QED
      BY <1>1, <2>3, <2>4, StuckStays
  <1>5. ConflictFence'
    <2> SUFFICES ASSUME NEW i \in DOMAIN integrations, NEW j \in DOMAIN integrations,
                        NEW k, k = integrations[i].conflict,
                        i < j, k # 0, integrations[i].op.wave = integrations[j].op.wave
                 PROVE  \/ tState'[k] = "blocked"
                        \/ \E m \in (i + 1)..(j - 1) :
                              \E x \in integrations[m].accepted : x[1] = k
      BY <1>1 DEF ConflictFence
    <2>1. k \in Tasks
      <3>1. k \in 0..NTasks
        BY <1>1, ChainTypes DEF Result
      <3> QED
        BY <3>1, SizesAssumption DEF Tasks
    <2>2. tState[k] = "blocked" => tState'[k] = "blocked"
      BY <1>1, <2>1 DEF JournalGrows, TasksMove, TaskMoves
    <2> QED
      BY <2>2 DEF ConflictFence
  <1> QED
    BY <1>3, <1>4, <1>5

-----------------------------------------------------------------------------
(* The steps that are quiet *)

\* Waves are only appended, on a head the journal names.
LEMMA WavesGrow ==
    ASSUME TypeOK, \/ waves' = waves
                   \/ \E wave \in Wave : /\ waves' = Append(waves, wave)
                                         /\ wave.base <= GraphHead'
    PROVE  /\ \A w \in DOMAIN waves : w \in DOMAIN waves' /\ waves'[w] = waves[w]
           /\ \A w \in DOMAIN waves' : w \notin DOMAIN waves => waves'[w].base <= GraphHead'
  <1>1. waves \in Seq(Wave)
    BY DEF TypeOK, Wave
  <1>2. CASE waves' = waves
    BY <1>2
  <1>3. ASSUME NEW wave \in Wave, waves' = Append(waves, wave), wave.base <= GraphHead'
        PROVE  /\ \A w \in DOMAIN waves : w \in DOMAIN waves' /\ waves'[w] = waves[w]
               /\ \A w \in DOMAIN waves' : w \notin DOMAIN waves =>
                    waves'[w].base <= GraphHead'
    <2>1. /\ DOMAIN waves = 1..Len(waves) /\ DOMAIN waves' = 1..(Len(waves) + 1)
          /\ Len(waves) \in Nat
          /\ waves'[Len(waves) + 1] = wave
          /\ \A w \in 1..Len(waves) : waves'[w] = waves[w]
      BY <1>1, <1>3
    <2>2. \A w \in DOMAIN waves' : w \notin DOMAIN waves => w = Len(waves) + 1
      BY <2>1
    <2>3. \A w \in DOMAIN waves : w \in DOMAIN waves' /\ waves'[w] = waves[w]
      BY <2>1
    <2>4. waves'[Len(waves) + 1].base <= GraphHead'
      BY <1>3, <2>1
    <2> QED
      BY <2>2, <2>3, <2>4
  <1> QED
    BY <1>2, <1>3

\* A step that records no integration lets the journal grow.
LEMMA GrowsQuietly ==
    ASSUME HistoryInv, [Next]_vars, TasksMove, integrations' = integrations,
           \/ waves' = waves
           \/ \E wave \in Wave : waves' = Append(waves, wave) /\ wave.base <= GraphHead
    PROVE  JournalGrows
  <1>1. TypeOK /\ TypeOK' /\ Good
    BY StepType, StepGood DEF HistoryInv
  <1>2. GraphHead' = GraphHead
    BY DEF GraphHead
  <1>3. GraphHead <= GraphHead'
    BY <1>1, <1>2, HeadType
  <1>4. \A i \in DOMAIN integrations :
          i \in DOMAIN integrations' /\ integrations'[i] = integrations[i]
    OBVIOUS
  <1>5. \/ waves' = waves
        \/ \E wave \in Wave : waves' = Append(waves, wave) /\ wave.base <= GraphHead'
    BY <1>2
  <1>6. /\ \A w \in DOMAIN waves : w \in DOMAIN waves' /\ waves'[w] = waves[w]
        /\ \A w \in DOMAIN waves' : w \notin DOMAIN waves => waves'[w].base <= GraphHead'
    BY <1>1, <1>5, WavesGrow
  <1> QED
    BY <1>1, <1>3, <1>4, <1>6 DEF JournalGrows

\* A call that is left alone, ends, or goes on with something else settles
\* nothing.
LEMMA CallsAside ==
    ASSUME TypeOK, OpsSound, NEW c \in Callers, NEW record,
           record.op \notin {"intent", "integrate", "settle"},
           call' = call \/ Returns(c) \/ Holds(c, record)
    PROVE  CallsQuiet
  <1>1. call \in [Callers -> Call]
    BY DEF TypeOK
  <1>2. ASSUME NEW d \in Callers, call'[d] = call[d]
        PROVE  /\ call'[d].op = "intent" => call'[d] = call[d]
               /\ call'[d].op \in {"integrate", "settle"} => OperationOf(call'[d]) \in intents
    BY <1>2 DEF OpsSound, Settles
  <1>3. ASSUME NEW d \in Callers, call'[d] # call[d]
        PROVE  call'[d].op \notin {"intent", "integrate", "settle"}
    BY <1>1, <1>3 DEF Returns, Holds, Idle
  <1> QED
    BY <1>2, <1>3 DEF CallsQuiet

\* A call that ends settles nothing.
LEMMA EndAside ==
    ASSUME TypeOK, OpsSound, NEW c \in Callers, Returns(c)
    PROVE  CallsQuiet
  <1>1. PICK record : record = Idle
    OBVIOUS
  <1>2. record.op \notin {"intent", "integrate", "settle"}
    BY <1>1 DEF Idle
  <1> QED
    BY <1>2, CallsAside

\* settle_wave takes up the pending intent of a wave.
LEMMA ResumeCalls ==
    ASSUME TypeOK, OpsSound, NEW c \in Callers, NEW w \in DOMAIN waves, SettleResume(c, w)
    PROVE  CallsQuiet
  <1>1. PICK i \in intents :
          /\ PendingIntents(w) = {i}
          /\ call' = [call EXCEPT ![c] = [Idle EXCEPT !.op = "integrate", !.wave = w,
                                                      !.head = i.start, !.cands = i.cands]]
    BY DEF SettleResume, Holds
  <1>2. i.wave = w
    BY <1>1 DEF PendingIntents
  <1>3. call \in [Callers -> Call] /\ i \in Operation
    BY ChainTypes DEF TypeOK
  <1>4. i = [wave |-> w, start |-> i.start, cands |-> i.cands]
    BY <1>2, <1>3 DEF Operation
  <1>5. call'[c].op = "integrate" /\ OperationOf(call'[c]) = i
    BY <1>1, <1>3, <1>4 DEF OperationOf, Idle
  <1>6. \A d \in Callers : d # c => call'[d] = call[d]
    BY <1>1, <1>3
  <1>7. \A d \in Callers : Settles(d) => OperationOf(call[d]) \in intents
    BY DEF OpsSound
  <1> QED
    BY <1>5, <1>6, <1>7 DEF CallsQuiet, Settles

\* The candidates of a wave that may be settled stand for their tasks, on the
\* base of the wave, and are all the wave has.
LEMMA CandidatesSound ==
    ASSUME TypeOK, HistorySound, NEW w \in DOMAIN waves, SettlementCandidates(w) # {}
    PROVE  /\ SettlementCandidates(w) \subseteq Commit
           /\ \A x \in SettlementCandidates(w) :
                /\ x[1] \in waves[w].tasks
                /\ att[x[1]][x[2]].state = "candidate"
                /\ att[x[1]][x[2]].base = waves[w].base
           /\ \A x \in Commit : x[1] \in waves[w].tasks /\ Current(x) =>
                x \in SettlementCandidates(w)
           /\ \A t \in Unresolved(w) : att[t][count[t]].base = waves[w].base
  <1>1. /\ SettlementCandidates(w) = {x \in Commit : /\ x[1] \in Unresolved(w)
                                                     /\ x[2] = count[x[1]]
                                                     /\ tState[x[1]] = "candidate"}
        /\ \A t \in Unresolved(w) : count[t] # 0 /\ att[t][count[t]].base = waves[w].base
    BY DEF SettlementCandidates
  <1>2. ASSUME NEW x \in SettlementCandidates(w)
        PROVE  /\ x[1] \in waves[w].tasks
               /\ att[x[1]][x[2]].state = "candidate"
               /\ att[x[1]][x[2]].base = waves[w].base
    <2>1. /\ x[1] \in Unresolved(w) /\ x[2] = count[x[1]] /\ tState[x[1]] = "candidate"
          /\ x[1] \in Tasks
      BY <1>1 DEF Commit
    <2>2. count[x[1]] # 0 /\ att[x[1]][x[2]].base = waves[w].base
      BY <1>1, <2>1
    <2>3. att[x[1]][x[2]].state = "candidate"
      BY <2>1, <2>2, LatestFacts
    <2> QED
      BY <2>1, <2>2, <2>3 DEF Unresolved
  <1>3. \A x \in Commit : x[1] \in waves[w].tasks /\ Current(x) => x \in SettlementCandidates(w)
    BY <1>1 DEF Current, Unresolved
  <1>4. SettlementCandidates(w) \subseteq Commit
    BY <1>1
  <1> QED
    BY <1>1, <1>2, <1>3, <1>4

\* settle_wave makes a request of a wave's candidates.
LEMMA LoadCalls ==
    ASSUME ChainInv, NEW c \in Callers, NEW w \in DOMAIN waves, SettleLoad(c, w)
    PROVE  CallsQuiet
  <1> USE DEF ChainInv, HistoryInv
  <1> DEFINE o == [wave |-> w, start |-> GraphHead, cands |-> SettlementCandidates(w)]
  <1>1. /\ PendingIntents(w) = {} /\ SettlementCandidates(w) # {}
        /\ call' = [call EXCEPT ![c] = [Idle EXCEPT !.op = "intent", !.wave = w,
                                                    !.head = GraphHead,
                                                    !.cands = SettlementCandidates(w)]]
    BY DEF SettleLoad, Holds
  <1>2. call \in [Callers -> Call] /\ GraphHead \in Nat /\ w \in Nat
    BY ChainTypes DEF TypeOK
  <1>3. SettlementCandidates(w) \subseteq Commit
    BY <1>1, CandidatesSound
  <1>4. o \in Operation
    BY <1>2, <1>3 DEF Operation
  <1>5. OperationOf(call'[c]) = o /\ call'[c].op = "intent"
    BY <1>1, <1>2 DEF OperationOf, Idle
  <1>6. OpSound(o)
    <2>1. waves[w].base <= GraphHead /\ GraphHead <= GraphHead
      BY <1>2 DEF BasesPassed
    <2>2. \A x \in SettlementCandidates(w) :
            /\ x[1] \in waves[w].tasks
            /\ att[x[1]][x[2]].state = "candidate"
            /\ att[x[1]][x[2]].base = waves[w].base
      BY <1>1, CandidatesSound
    <2> QED
      BY <1>1, <2>1, <2>2 DEF OpSound
  <1>7. o.wave = w
    OBVIOUS
  <1>8. \A d \in Callers : d # c => call'[d] = call[d]
    BY <1>1, <1>2
  <1>9. \A d \in Callers : Settles(d) => OperationOf(call[d]) \in intents
    BY DEF OpsSound
  <1> HIDE DEF o
  <1>10. \E p \in Operation : /\ OperationOf(call'[c]) = p
                              /\ OpSound(p)
                              /\ PendingIntents(p.wave) = {}
    BY <1>1, <1>4, <1>5, <1>6, <1>7
  <1> QED
    BY <1>5, <1>8, <1>9, <1>10 DEF CallsQuiet, Settles

\* What changes no task, no wave and no integration.
LEMMA AsideIsQuiet ==
    ASSUME ChainInv, [Next]_vars, CallsQuiet,
           UNCHANGED <<tState, count, att, waves, integrations, head, results, intents>>
    PROVE  Quiet
  <1> USE DEF ChainInv, HistoryInv
  <1>1. TasksMove /\ NothingIntegrated
    BY NoTaskMoves
  <1>2. JournalGrows
    BY <1>1, GrowsQuietly
  <1> QED
    BY <1>1, <1>2 DEF Quiet

\* A commit that opens at most a wave on the head of the journal.
LEMMA CommitIsQuiet ==
    ASSUME ChainInv, [Next]_vars, NEW c \in Callers,
           \/ PrepareAdmit(c)
           \/ \E t \in Tasks, ready \in BOOLEAN : AttachWorktree(c, t, ready)
           \/ QuestionCommit(c) \/ CandidateCommit(c) \/ AnswerCommit(c)
           \/ \E fallback \in BOOLEAN : FailureCommit(c, fallback)
    PROVE  Quiet
  <1> USE DEF ChainInv, HistoryInv
  <1>1. TasksMove /\ NothingIntegrated
    BY AdmitMoves, AttachMoves, CommitMoves, FailureMoves
  <1>2. UNCHANGED <<integrations, head, results, intents>>
    BY DEF PrepareAdmit, AttachWorktree, QuestionCommit, CandidateCommit, AnswerCommit,
           FailureCommit, git
  <1>3. CASE PrepareAdmit(c)
    <2> DEFINE record == [Idle EXCEPT !.op = "attach", !.wave = Len(waves) + 1,
                                      !.todo = Admitted(WaveSlots(AvailableTokens))]
               wave == [base |-> call[c].head, tasks |-> Admitted(WaveSlots(AvailableTokens))]
    <2>1. Holds(c, record) /\ waves' = Append(waves, wave) /\ call[c].head = GraphHead
      BY <1>3 DEF PrepareAdmit, ExpectedHead
    <2>2. record.op = "attach"
      BY DEF Idle
    <2>3. GraphHead \in Nat
      BY HeadType
    <2>4. wave \in Wave /\ wave.base <= GraphHead
      BY <2>1, <2>3 DEF Wave, Admitted, Ready
    <2> HIDE DEF record, wave
    <2>5. CallsQuiet
      BY <2>1, <2>2, CallsAside
    <2>6. JournalGrows
      BY <1>1, <1>2, <2>1, <2>4, GrowsQuietly
    <2> QED
      BY <1>1, <1>2, <2>5, <2>6 DEF Quiet
  <1>4. ASSUME NEW t \in Tasks, NEW ready \in BOOLEAN, AttachWorktree(c, t, ready)
        PROVE  Quiet
    <2> DEFINE record == [call[c] EXCEPT !.todo = @ \ {t}]
    <2>1. Holds(c, record) /\ waves' = waves /\ call[c].op = "attach"
      BY <1>4 DEF AttachWorktree
    <2>2. record.op = "attach"
      BY <2>1, TypeFacts DEF Call
    <2> HIDE DEF record
    <2>3. CallsQuiet
      BY <2>1, <2>2, CallsAside
    <2>4. JournalGrows
      BY <1>1, <1>2, <2>1, GrowsQuietly
    <2> QED
      BY <1>1, <1>2, <2>3, <2>4 DEF Quiet
  <1>5. CASE QuestionCommit(c) \/ CandidateCommit(c) \/ AnswerCommit(c)
    <2>1. Returns(c) /\ waves' = waves
      BY <1>5 DEF QuestionCommit, CandidateCommit, AnswerCommit
    <2>2. CallsQuiet
      BY <2>1, EndAside
    <2>3. JournalGrows
      BY <1>1, <1>2, <2>1, GrowsQuietly
    <2> QED
      BY <1>1, <1>2, <2>2, <2>3 DEF Quiet
  <1>6. ASSUME NEW fallback \in BOOLEAN, FailureCommit(c, fallback)
        PROVE  Quiet
    <2> DEFINE wave == [base |-> GraphHead, tasks |-> {call[c].task}]
    <2>1. Returns(c) /\ (waves' = waves \/ waves' = Append(waves, wave))
      BY <1>6 DEF FailureCommit
    <2>2. GraphHead \in Nat /\ call[c].task \in Tasks
      BY <1>6, HeadType DEF FailureCommit, CallsNameAttempts, Naming, CandidateParts
    <2>3. wave \in Wave /\ wave.base <= GraphHead
      BY <2>2 DEF Wave
    <2> HIDE DEF wave
    <2>4. CallsQuiet
      BY <2>1, EndAside
    <2>5. JournalGrows
      BY <1>1, <1>2, <2>1, <2>3, GrowsQuietly
    <2> QED
      BY <1>1, <1>2, <2>4, <2>5 DEF Quiet
  <1> QED
    BY <1>3, <1>4, <1>5, <1>6

\* The loads, the replays and the ends of calls.
LEMMA CallIsQuiet ==
    ASSUME ChainInv, [Next]_vars, NEW c \in Callers,
           \/ PrepareRead(c) \/ PrepareResume(c) \/ PrepareReturn(c)
           \/ \E x \in Commit, k \in 1..MaxCopies : StartChild(c, x, k)
           \/ \E r \in runs, e \in Execs : \/ QuestionLoad(c, r, e) \/ AnswerLoad(c, r, e)
                                           \/ FailureLoad(c, r, e)
           \/ \E w, t, x : CandidateLoad(c, w, t, x)
           \/ CandidateReads(c)
           \/ FailureReplay(c) \/ IntegrateReplay(c) \/ SettleReplay(c) \/ CallEnds(c)
           \/ \E w \in DOMAIN waves : SettleResume(c, w) \/ SettleLoad(c, w)
    PROVE  Quiet
  <1> USE DEF ChainInv, HistoryInv
  <1>1. UNCHANGED journal /\ UNCHANGED git
    <2>1. CASE \/ PrepareRead(c) \/ PrepareResume(c) \/ PrepareReturn(c)
               \/ FailureReplay(c) \/ IntegrateReplay(c) \/ SettleReplay(c) \/ CallEnds(c)
      BY <2>1 DEF PrepareRead, PrepareResume, PrepareReturn, FailureReplay, IntegrateReplay,
                  SettleReplay, CallEnds
    <2>2. ASSUME NEW r \in runs, NEW e \in Execs,
                 QuestionLoad(c, r, e) \/ AnswerLoad(c, r, e) \/ FailureLoad(c, r, e)
          PROVE  UNCHANGED journal /\ UNCHANGED git
      BY <2>2 DEF QuestionLoad, AnswerLoad, FailureLoad
    <2>5. ASSUME NEW w, NEW t, NEW x, CandidateLoad(c, w, t, x)
          PROVE  UNCHANGED journal /\ UNCHANGED git
      BY <2>5 DEF CandidateLoad
    <2>6. CASE CandidateReads(c)
      BY <2>6, CandidateReadsHold
    <2>3. ASSUME NEW x \in Commit, NEW k \in 1..MaxCopies, StartChild(c, x, k)
          PROVE  UNCHANGED journal /\ UNCHANGED git
      BY <2>3 DEF StartChild
    <2>4. ASSUME NEW w \in DOMAIN waves, SettleResume(c, w) \/ SettleLoad(c, w)
          PROVE  UNCHANGED journal /\ UNCHANGED git
      BY <2>4 DEF SettleResume, SettleLoad
    <2> QED
      BY <2>1, <2>2, <2>3, <2>4, <2>5, <2>6
  <1>2. CallsQuiet
    <2>1. CASE PrepareRead(c) \/ PrepareResume(c) \/ PrepareReturn(c)
      <3>1. \E record : /\ record.op \notin {"intent", "integrate", "settle"}
                        /\ Holds(c, record) \/ Returns(c)
        BY <2>1 DEF PrepareRead, PrepareResume, PrepareReturn, Idle
      <3> QED
        BY <3>1, CallsAside, EndAside
    <2>2. CASE \E x \in Commit, k \in 1..MaxCopies : StartChild(c, x, k)
      <3>1. PICK x \in Commit : \/ Returns(c)
                                \/ Holds(c, [call[c] EXCEPT !.cands = call[c].cands \ {x}])
        BY <2>2 DEF StartChild
      <3>2. call[c] \in Call /\ call[c].op = "children"
        BY <2>2, TypeFacts DEF StartChild
      <3>3. [call[c] EXCEPT !.cands = call[c].cands \ {x}].op = "children"
        BY <3>2 DEF Call
      <3> QED
        BY <3>1, <3>3, CallsAside, EndAside
    <2>3. CASE \/ \E r \in runs, e \in Execs : \/ QuestionLoad(c, r, e) \/ AnswerLoad(c, r, e)
                                               \/ FailureLoad(c, r, e)
               \/ \E w, t, x : CandidateLoad(c, w, t, x)
               \/ CandidateReads(c)
      <3>1. ASSUME NEW r \in runs, NEW e \in Execs,
                   QuestionLoad(c, r, e) \/ AnswerLoad(c, r, e) \/ FailureLoad(c, r, e)
            PROVE  \E record : /\ record.op \notin {"intent", "integrate", "settle"}
                               /\ Holds(c, record)
        BY <3>1 DEF QuestionLoad, AnswerLoad, FailureLoad, Idle
      <3>2. ASSUME NEW w, NEW t, NEW x, CandidateLoad(c, w, t, x)
            PROVE  \E record : /\ record.op \notin {"intent", "integrate", "settle"}
                               /\ Holds(c, record)
        BY <3>2 DEF CandidateLoad, Idle
      <3>3. CASE CandidateReads(c)
        <4>1. \E record : /\ record.op \notin {"intent", "integrate", "settle"}
                          /\ Holds(c, record)
          BY <3>3, CandidateReadsHold
        <4> QED
          BY <4>1, CallsAside
      <3> QED
        BY <2>3, <3>1, <3>2, <3>3, CallsAside
    <2>4. CASE FailureReplay(c) \/ SettleReplay(c) \/ CallEnds(c)
      <3>1. Returns(c)
        BY <2>4 DEF FailureReplay, SettleReplay, CallEnds
      <3> QED
        BY <3>1, EndAside
    <2>5. CASE IntegrateReplay(c)
      <3>1. /\ call' = [call EXCEPT ![c] = [call[c] EXCEPT !.op = "settle"]]
            /\ call[c].op = "integrate"
        BY <2>5 DEF IntegrateReplay, Holds
      <3>2. call \in [Callers -> Call] /\ call[c] \in Call
        BY TypeFacts
      <3>3. call'[c].op = "settle" /\ OperationOf(call'[c]) = OperationOf(call[c])
        BY <3>1, <3>2 DEF Call, OperationOf
      <3>4. \A d \in Callers : d # c => call'[d] = call[d]
        BY <3>1, <3>2
      <3>5. \A d \in Callers : Settles(d) => OperationOf(call[d]) \in intents
        BY DEF OpsSound
      <3>6. OperationOf(call'[c]) \in intents
        BY <3>1, <3>3, <3>5 DEF Settles
      <3> QED
        BY <3>3, <3>4, <3>5, <3>6 DEF CallsQuiet, Settles
    <2>6. CASE \E w \in DOMAIN waves : SettleResume(c, w) \/ SettleLoad(c, w)
      BY <2>6, ResumeCalls, LoadCalls
    <2> QED
      BY <2>1, <2>2, <2>3, <2>4, <2>5, <2>6
  <1> QED
    BY <1>1, <1>2, AsideIsQuiet DEF journal, git

\* The steps of the child runs, of the core loop and of the clock.
LEMMA ElseIsQuiet ==
    ASSUME ChainInv, [Next]_vars,
           \/ ChildStep
           \/ \E disposition \in Dispositions, given \in BOOLEAN :
                Terminalize(disposition, given)
           \/ WallExpires
           \/ UNCHANGED vars
    PROVE  Quiet
  <1> USE DEF ChainInv, HistoryInv
  <1>1. UNCHANGED <<tState, count, att, waves, integrations, head, results, intents, call>>
    BY DEF ChildStep, TaskContext, ChildCompletes, ChildFails, ChildAsks, HumanReplies,
           NextGeneration, Terminalize, WallExpires, vars, journal, git
  <1>2. CallsQuiet
    BY <1>1 DEF CallsQuiet, OpsSound, Settles
  <1> QED
    BY <1>1, <1>2, AsideIsQuiet

-----------------------------------------------------------------------------
(* The steps of a settlement *)

\* The facts about the operations and results a settlement step relies on.
LEMMA SettlementFacts ==
    ASSUME ChainInv
    PROVE  /\ \A o \in intents : o \in Operation /\ OpSound(o)
           /\ \A r \in results :
                /\ r \in Result /\ r.op \in intents /\ r.op \in Operation
                /\ r.op.start \in Nat /\ r.final \in Nat
                /\ r.op.start <= r.final /\ r.op.start <= GraphHead
           /\ \A i \in DOMAIN integrations : integrations[i] \in results
           /\ \A r \in results : r.accepted \subseteq r.op.cands /\ r.op.cands \subseteq Commit
  <1> USE DEF ChainInv, HistoryInv
  <1>1. \A o \in intents : o \in Operation /\ OpSound(o)
    BY ChainTypes DEF OpsSound
  <1>2. ASSUME NEW r \in results
        PROVE  /\ r \in Result /\ r.op \in intents /\ r.op \in Operation
               /\ r.op.start \in Nat /\ r.final \in Nat
               /\ r.op.start <= r.final /\ r.op.start <= GraphHead
               /\ r.accepted \subseteq r.op.cands /\ r.op.cands \subseteq Commit
    <2>1. r \in Result /\ r.op \in intents /\ r.op \in Operation
      BY <1>1, ChainTypes DEF ResultsPlaced
    <2>2. r.op.start \in Nat /\ r.final \in Nat /\ r.op.cands \in SUBSET Commit
      BY <2>1 DEF Result, Operation
    <2>3. /\ r.accepted = Accepted(r.op.cands, r.conflict)
          /\ r.final = r.op.start + Cardinality(r.accepted)
      BY DEF ResultsPlaced
    <2>4. Cardinality(r.accepted) \in Nat /\ r.accepted \subseteq r.op.cands
      BY <2>2, <2>3, AcceptedFinite
    <2>5. r.op.start <= r.final
      BY <2>2, <2>3, <2>4
    <2> QED
      BY <1>1, <2>1, <2>2, <2>4, <2>5 DEF OpSound
  <1>3. \A i \in DOMAIN integrations : integrations[i] \in results
    BY DEF Recorded
  <1> QED
    BY <1>1, <1>2, <1>3

\* The wave of a conflict that is not replaced yet has no candidates to settle.
LEMMA FencedHasNoCandidates ==
    ASSUME ChainInv, NEW i \in DOMAIN integrations, Fenced(i)
    PROVE  SettlementCandidates(integrations[i].op.wave) = {}
  <1> USE DEF ChainInv, HistoryInv
  <1> DEFINE r == integrations[i]
             k == r.conflict
             w == r.op.wave
  <1>1. /\ r \in results /\ r \in Result /\ r.op \in Operation /\ OpSound(r.op)
        /\ r.op.start \in Nat /\ r.final \in Nat /\ r.op.start <= r.final
        /\ r.op.cands \subseteq Commit
    BY SettlementFacts
  <1>2. w \in DOMAIN waves /\ waves[w].base <= r.op.start /\ waves[w].base \in Nat
    BY <1>1, ChainTypes DEF OpSound
  <1>3. k # 0 /\ tState[k] # "blocked"
    BY DEF Fenced
  <1>4. PICK x \in r.op.cands : x[1] = k /\ att[x[1]][x[2]].base # r.final
    BY <1>1, <1>3 DEF ResultsPlaced
  <1>5. x \in Commit /\ k \in waves[w].tasks /\ waves[w].base # r.final /\ k \in Tasks
    BY <1>1, <1>4 DEF OpSound, Commit
  <1>6. /\ tState[k] # "integrated" /\ count[k] # 0
        /\ r.final <= att[k][count[k]].base
    BY DEF ReplacementsAhead
  <1>7. k \in Unresolved(w)
    BY <1>3, <1>5, <1>6 DEF Unresolved
  <1>8. count[k] \in Execs /\ att[k][count[k]].base \in Nat
    <2>1. count[k] \in Execs /\ att[k][count[k]] \in Attempt
      BY <1>5, <1>6, LatestFacts
    <2> QED
      BY <2>1 DEF Attempt
  <1>9. att[k][count[k]].base # waves[w].base
    BY <1>1, <1>2, <1>5, <1>6, <1>8
  <1> QED
    BY <1>7, <1>9 DEF SettlementCandidates

\* The commit of an intent.
LEMMA IntentKeeps ==
    ASSUME ChainInv, [Next]_vars, NEW c \in Callers, SettleIntent(c)
    PROVE  ChainInv'
  <1> USE DEF HistoryInv
  <1> DEFINE b == OperationOf(call[c])
             w == call[c].wave
  <1>1. ChainInv /\ TypeOK /\ HistorySound
    BY DEF ChainInv
  <1>2. /\ call[c].op = "intent" /\ w \in DOMAIN waves
        /\ SettlementCandidates(w) = call[c].cands /\ GraphHead = call[c].head
        /\ intents' = intents \cup {b}
        /\ call' = [call EXCEPT ![c] = [call[c] EXCEPT !.op = "integrate"]]
        /\ UNCHANGED <<tState, count, att, waves, integrations, head, results>>
    BY DEF SettleIntent, Holds, git
  <1>3. /\ GraphHead' = GraphHead /\ Completed' = Completed
        /\ \A x : Current(x)' = Current(x)
        /\ \A o : OpSound(o)' = OpSound(o)
        /\ \A o : Live(o)' = Live(o)
        /\ \A o : Stuck(o)' = Stuck(o)
        /\ \A i : Fenced(i)' = Fenced(i)
    <2>1. GraphHead' = GraphHead /\ Completed' = Completed
      BY <1>2 DEF GraphHead, Completed
    <2>2. \A x : Current(x)' = Current(x)
      BY <1>2 DEF Current
    <2>3. \A o : OpSound(o)' = OpSound(o)
      BY <1>2, <2>1 DEF OpSound
    <2>4. \A o : Live(o)' = Live(o)
      BY <2>1 DEF Live
    <2>5. \A o : Stuck(o)' = Stuck(o)
      BY <1>2 DEF Stuck, Current
    <2>6. \A i : Fenced(i)' = Fenced(i)
      BY <1>2 DEF Fenced, Since
    <2> QED
      BY <2>1, <2>2, <2>3, <2>4, <2>5, <2>6
  <1>4. HistoryInv'
    BY StepType, StepGood, GoodIsSound DEF ChainInv
  <1>5. /\ BasesPassed' /\ Recorded' /\ RecordedOnce' /\ IntegratedRecorded'
        /\ HeadPlaced' /\ ReplacementsAhead' /\ DependencyBase' /\ ConflictFence'
    <2>1. BasesPassed' /\ Recorded' /\ RecordedOnce' /\ IntegratedRecorded'
      BY <1>1, <1>2, <1>3 DEF ChainInv, BasesPassed, Recorded, RecordedOnce, IntegratedRecorded
    <2>2. HeadPlaced' /\ DependencyBase' /\ ConflictFence'
      BY <1>1, <1>2, <1>3 DEF ChainInv, HeadPlaced, DependencyBase, ConflictFence
    <2>3. ReplacementsAhead'
      BY <1>1, <1>2, <1>3 DEF ChainInv, ReplacementsAhead
    <2> QED
      BY <2>1, <2>2, <2>3
  <1>6. ResultsPlaced'
    BY <1>1, <1>2, <1>3 DEF ChainInv, ResultsPlaced
  <1>7. /\ b \in Operation /\ OpSound(b) /\ b.cands = call[c].cands /\ b.wave = w
        /\ b.start = GraphHead /\ b.cands # {}
    <2>1. b \in Operation /\ Offers(c)
      BY <1>1, <1>2, ChainTypes DEF Offers
    <2>2. OpSound(b)
      BY <1>1, <2>1 DEF ChainInv, OpsSound
    <2> QED
      BY <1>2, <2>1, <2>2 DEF OpSound, OperationOf
  <1>8. /\ call'[c].op = "integrate" /\ OperationOf(call'[c]) = b
        /\ \A d \in Callers : d # c => call'[d] = call[d]
    <2>1. call \in [Callers -> Call] /\ call[c] \in Call
      BY <1>1, TypeFacts
    <2> QED
      BY <1>2, <2>1 DEF Call, OperationOf
  <1> HIDE DEF b
  <1>9. OpsSound'
    <2>1. \A o \in intents' : OpSound(o)
      BY <1>1, <1>2, <1>7 DEF ChainInv, OpsSound
    <2>2. \A d \in Callers : Offers(d)' => OpSound(OperationOf(call[d]))'
      <3> SUFFICES ASSUME NEW d \in Callers, Offers(d)'
                   PROVE  OpSound(OperationOf(call[d]))'
        OBVIOUS
      <3>1. d # c /\ call'[d] = call[d]
        BY <1>8 DEF Offers
      <3>2. OpSound(OperationOf(call[d]))
        BY <1>1, <3>1 DEF ChainInv, OpsSound, Offers
      <3>3. PICK o : o = OperationOf(call[d])
        OBVIOUS
      <3>4. OpSound(o)'
        BY <1>3, <3>2, <3>3
      <3> QED
        BY <3>1, <3>3, <3>4
    <2>3. \A d \in Callers : Settles(d)' => OperationOf(call'[d]) \in intents'
      BY <1>1, <1>2, <1>8 DEF ChainInv, OpsSound, Settles
    <2> QED
      BY <1>3, <2>1, <2>2, <2>3 DEF OpsSound
  <1>10. ASSUME NEW o \in Operation, OpSound(o), o.wave = w
         PROVE  \A x \in o.cands : Current(x) => x \in b.cands
    <2>1. \A x \in o.cands : x \in Commit /\ x[1] \in waves[w].tasks
      BY <1>10 DEF Operation, OpSound
    <2> QED
      BY <1>1, <1>2, <1>7, <2>1, CandidatesSound
  <1>11. ASSUME NEW a \in intents, Live(a), SameOffer(b, a)
         PROVE  \A x \in b.cands : Current(x) => x \in a.cands
    BY <1>1, <1>2, <1>7, <1>11 DEF ChainInv, OffersAgree, Offers, b
  <1>12. OffersAgree'
    <2>1. ASSUME NEW a \in intents', NEW d \in intents', Live(a), Live(d), SameOffer(a, d)
          PROVE  \A x \in a.cands : Current(x) => x \in d.cands
      <3>1. CASE a \in intents /\ d \in intents
        BY <1>1, <2>1, <3>1 DEF ChainInv, OffersAgree
      <3>2. CASE d = b
        <4>1. a \in Operation /\ OpSound(a) /\ a.wave = w
          BY <1>1, <1>2, <1>7, <2>1, <3>2, SettlementFacts DEF SameOffer
        <4> QED
          BY <1>10, <3>2, <4>1
      <3>3. CASE a = b /\ d \in intents
        BY <1>11, <2>1, <3>3
      <3> QED
        BY <1>2, <2>1, <3>1, <3>2, <3>3
    <2>2. ASSUME NEW a \in intents', Live(a), NEW d \in Callers, Offers(d)',
                 SameOffer(OperationOf(call'[d]), a)
          PROVE  \A x \in call'[d].cands : Current(x) => x \in a.cands
      <3>1. d # c /\ call'[d] = call[d] /\ Offers(d)
        BY <1>8, <2>2 DEF Offers
      <3>2. CASE a \in intents
        BY <1>1, <2>2, <3>1, <3>2 DEF ChainInv, OffersAgree
      <3>3. CASE a = b
        <4>1. PICK o : o = OperationOf(call[d])
          OBVIOUS
        <4>2. o \in Operation /\ OpSound(o)
          BY <1>1, <3>1, <4>1, ChainTypes DEF ChainInv, OpsSound
        <4>3. o.wave = w /\ o.cands = call'[d].cands
          BY <1>7, <2>2, <3>1, <3>3, <4>1 DEF SameOffer, OperationOf
        <4> QED
          BY <1>10, <3>3, <4>2, <4>3
      <3> QED
        BY <1>2, <3>2, <3>3
    <2> QED
      BY <1>3, <2>1, <2>2 DEF OffersAgree
  <1>13. FencedStuck'
    <2> SUFFICES ASSUME NEW i \in DOMAIN integrations, NEW o \in intents',
                        Fenced(i), Live(o), o.wave = integrations[i].op.wave
                 PROVE  Stuck(o)
      BY <1>2, <1>3 DEF FencedStuck
    <2>1. CASE o \in intents
      BY <1>1, <2>1 DEF ChainInv, FencedStuck
    <2>2. CASE o = b
      BY <1>1, <1>2, <1>7, <2>2, FencedHasNoCandidates
    <2> QED
      BY <1>2, <2>1, <2>2
  <1> QED
    BY <1>4, <1>5, <1>6, <1>9, <1>12, <1>13 DEF ChainInv

\* The integrator works on the head the journal names.
LEMMA IntegrateAtHead ==
    ASSUME ChainInv, NEW c \in Callers, call[c].op = "integrate", head = call[c].head
    PROVE  head = GraphHead /\ OperationOf(call[c]) \in intents
  <1>1. OperationOf(call[c]) \in intents
    BY DEF ChainInv, OpsSound, Settles
  <1>2. OpSound(OperationOf(call[c]))
    BY <1>1, SettlementFacts
  <1>3. head <= GraphHead /\ head \in Nat /\ GraphHead \in Nat
    BY <1>2, ChainTypes DEF OpSound, OperationOf, ChainInv, HistoryInv
  <1>4. CASE \E r \in results : /\ r.op \notin Completed
                                /\ r.op.start = GraphHead
                                /\ r.final = head
    <2>1. GraphHead <= head
      BY <1>4, SettlementFacts
    <2> QED
      BY <1>1, <1>3, <2>1
  <1> QED
    BY <1>1, <1>4 DEF ChainInv, HeadPlaced

\* The integrator moves the branch.
LEMMA IntegrateKeeps ==
    ASSUME ChainInv, [Next]_vars, NEW c \in Callers, NEW conflict \in 0..NTasks,
           Integrate(c, conflict)
    PROVE  ChainInv'
  <1> USE DEF HistoryInv
  <1> DEFINE o == OperationOf(call[c])
             accepted == Accepted(call[c].cands, conflict)
             final == FinalHead(head, call[c].cands, conflict)
             n == [op |-> o, conflict |-> conflict, final |-> final, accepted |-> accepted]
  <1>1. ChainInv /\ TypeOK
    BY DEF ChainInv
  <1>2. /\ call[c].op = "integrate" /\ head = call[c].head
        /\ \A r \in results : r.op # o
        /\ conflict # 0 => \E x \in call[c].cands :
                              x[1] = conflict /\ att[x[1]][x[2]].base # final
        /\ head' = final /\ results' = results \cup {n}
        /\ call' = [call EXCEPT ![c] = [call[c] EXCEPT !.op = "settle"]]
        /\ UNCHANGED <<tState, count, att, waves, integrations, intents>>
    BY DEF Integrate, Holds, IntegratesAt, journal
  <1>3. /\ GraphHead' = GraphHead /\ Completed' = Completed
        /\ \A x : Current(x)' = Current(x)
        /\ \A p : OpSound(p)' = OpSound(p)
        /\ \A p : Live(p)' = Live(p)
        /\ \A p : Stuck(p)' = Stuck(p)
        /\ \A i : Fenced(i)' = Fenced(i)
    <2>1. GraphHead' = GraphHead /\ Completed' = Completed
      BY <1>2 DEF GraphHead, Completed
    <2>2. \A x : Current(x)' = Current(x)
      BY <1>2 DEF Current
    <2>3. \A p : OpSound(p)' = OpSound(p)
      BY <1>2, <2>1 DEF OpSound
    <2>4. \A p : Live(p)' = Live(p)
      BY <2>1 DEF Live
    <2>5. \A p : Stuck(p)' = Stuck(p)
      BY <1>2 DEF Stuck, Current
    <2>6. \A i : Fenced(i)' = Fenced(i)
      BY <1>2 DEF Fenced, Since
    <2> QED
      BY <2>1, <2>2, <2>3, <2>4, <2>5, <2>6
  <1>4. HistoryInv'
    BY StepType, StepGood, GoodIsSound DEF ChainInv
  <1>5. /\ BasesPassed' /\ Recorded' /\ RecordedOnce' /\ IntegratedRecorded'
        /\ ReplacementsAhead' /\ FencedStuck' /\ DependencyBase' /\ ConflictFence'
    <2>1. BasesPassed' /\ Recorded' /\ RecordedOnce' /\ IntegratedRecorded'
      BY <1>1, <1>2, <1>3 DEF ChainInv, BasesPassed, Recorded, RecordedOnce, IntegratedRecorded
    <2>2. DependencyBase' /\ ConflictFence'
      BY <1>1, <1>2, <1>3 DEF ChainInv, DependencyBase, ConflictFence
    <2>3. ReplacementsAhead' /\ FencedStuck'
      BY <1>1, <1>2, <1>3 DEF ChainInv, ReplacementsAhead, FencedStuck
    <2> QED
      BY <2>1, <2>2, <2>3
  <1>6. /\ head = GraphHead /\ o \in intents /\ o.start = head /\ o.cands = call[c].cands
        /\ n.op = o /\ n.conflict = conflict /\ n.final = final /\ n.accepted = accepted
        /\ final = head + Cardinality(accepted)
    BY <1>1, <1>2, IntegrateAtHead DEF OperationOf, FinalHead
  <1>7. o \notin Completed
    <2>1. \A i \in DOMAIN integrations : integrations[i].op # o
      BY <1>1, <1>2, SettlementFacts
    <2> QED
      BY <2>1 DEF Completed
  <1>8. /\ call'[c].op = "settle" /\ OperationOf(call'[c]) = o
        /\ \A d \in Callers : d # c => call'[d] = call[d]
    <2>1. call \in [Callers -> Call] /\ call[c] \in Call
      BY <1>1, TypeFacts
    <2> QED
      BY <1>2, <2>1 DEF Call, OperationOf
  <1> HIDE DEF o, n, final
  <1>9. ResultsPlaced'
    <2>1. ASSUME NEW r \in results'
          PROVE  /\ r.accepted = Accepted(r.op.cands, r.conflict)
                 /\ r.final = r.op.start + Cardinality(r.accepted)
                 /\ r.op \notin Completed /\ r.op.start = GraphHead =>
                      r.final \in {GraphHead, head'}
                 /\ r.op \in intents
                 /\ r.conflict # 0 => \E x \in r.op.cands :
                                         x[1] = r.conflict /\ att[x[1]][x[2]].base # r.final
      <3>1. CASE r \in results
        BY <1>1, <1>6, <3>1 DEF ChainInv, ResultsPlaced
      <3>2. CASE r = n
        BY <1>2, <1>6, <3>2
      <3> QED
        BY <1>2, <3>1, <3>2
    <2>2. \A r, s \in results' : r.op = s.op => r = s
      BY <1>1, <1>2, <1>6 DEF ChainInv, ResultsPlaced
    <2> QED
      BY <1>2, <1>3, <2>1, <2>2 DEF ResultsPlaced
  <1>10. HeadPlaced'
    BY <1>2, <1>3, <1>6, <1>7 DEF HeadPlaced
  <1>11. OpsSound' /\ OffersAgree'
    <2>1. \A d \in Callers : Offers(d)' => Offers(d) /\ call'[d] = call[d]
      BY <1>8 DEF Offers
    <2>2. \A d \in Callers : Offers(d)' => OpSound(OperationOf(call[d]))'
      <3> SUFFICES ASSUME NEW d \in Callers, Offers(d)'
                   PROVE  OpSound(OperationOf(call[d]))'
        OBVIOUS
      <3>1. PICK p : p = OperationOf(call[d])
        OBVIOUS
      <3>2. OpSound(p)
        BY <1>1, <2>1, <3>1 DEF ChainInv, OpsSound
      <3>3. OpSound(p)'
        BY <1>3, <3>2
      <3>4. p = OperationOf(call'[d])
        BY <2>1, <3>1
      <3> QED
        BY <3>3, <3>4
    <2>3. \A d \in Callers : Settles(d)' => OperationOf(call'[d]) \in intents
      BY <1>1, <1>6, <1>8 DEF ChainInv, OpsSound, Settles
    <2>4. \A p \in intents : OpSound(p)
      BY <1>1 DEF ChainInv, OpsSound
    <2>5. OpsSound'
      BY <1>2, <1>3, <2>2, <2>3, <2>4 DEF OpsSound
    <2>6. OffersAgree'
      BY <1>1, <1>2, <1>3, <2>1 DEF ChainInv, OffersAgree
    <2> QED
      BY <2>5, <2>6
  <1> QED
    BY <1>4, <1>5, <1>9, <1>10, <1>11 DEF ChainInv

\* What the commit of a settlement does to the journal.
LEMMA SettleGrows ==
    ASSUME ChainInv, [Next]_vars, NEW c \in Callers, NEW r \in results, SettleCommit(c, r)
    PROVE  /\ JournalGrows
           /\ integrations' = Append(integrations, r) /\ GraphHead' = r.final
           /\ r.op \notin Completed /\ r.op.start = GraphHead /\ r.op \in intents
           /\ Completed' = Completed \cup {r.op}
           /\ UNCHANGED <<head, results, intents>>
           /\ Returns(c)
  <1> USE DEF HistoryInv
  <1>1. ChainInv /\ TypeOK /\ TypeOK' /\ Good /\ TasksMove
    BY StepType, StepGood, SettleMoves DEF ChainInv
  <1>2. /\ integrations' = Append(integrations, r)
        /\ r.op \notin Completed /\ r.op.start = GraphHead
        /\ UNCHANGED <<head, results, intents>>
        /\ Returns(c)
    BY DEF SettleCommit, git
  <1>3. /\ integrations \in Seq(Result) /\ r \in Result /\ r.op \in intents
        /\ r.op.start <= r.final /\ r.final \in Nat /\ GraphHead \in Nat
    BY <1>1, SettlementFacts, HeadType DEF TypeOK
  <1>4. /\ Len(integrations) \in Nat
        /\ DOMAIN integrations = 1..Len(integrations)
        /\ DOMAIN integrations' = 1..(Len(integrations) + 1)
        /\ Len(integrations') = Len(integrations) + 1
        /\ integrations'[Len(integrations) + 1] = r
        /\ \A i \in 1..Len(integrations) : integrations'[i] = integrations[i]
        /\ integrations' # <<>>
    BY <1>2, <1>3
  <1>5. \A i \in DOMAIN integrations :
          i \in DOMAIN integrations' /\ integrations'[i] = integrations[i]
    BY <1>4
  <1>6. GraphHead' = r.final
    BY <1>4 DEF GraphHead
  <1>7. GraphHead <= GraphHead'
    BY <1>2, <1>3, <1>6
  <1>8. Completed' = Completed \cup {r.op}
    <2>1. \A i \in DOMAIN integrations' : i = Len(integrations) + 1 \/ i \in DOMAIN integrations
      BY <1>4
    <2>2. Len(integrations) + 1 \in DOMAIN integrations'
      BY <1>4
    <2> QED
      BY <1>4, <1>5, <2>1, <2>2 DEF Completed
  <1>9. \/ waves' = waves
        \/ \E wave \in Wave : waves' = Append(waves, wave) /\ wave.base <= GraphHead'
    <2> DEFINE wave == [base |-> r.final, tasks |-> {r.conflict}]
    <2>1. \/ waves' = waves
          \/ waves' = Append(waves, wave) /\ r.conflict # 0
      BY DEF SettleCommit
    <2>2. r.conflict # 0 => r.conflict \in Tasks
      BY <1>3, SizesAssumption DEF Result, Tasks
    <2>3. r.conflict # 0 => wave \in Wave /\ wave.base <= GraphHead'
      BY <1>3, <1>6, <2>2 DEF Wave
    <2> QED
      BY <2>1, <2>3
  <1>10. /\ \A w \in DOMAIN waves : w \in DOMAIN waves' /\ waves'[w] = waves[w]
         /\ \A w \in DOMAIN waves' : w \notin DOMAIN waves => waves'[w].base <= GraphHead'
    BY <1>1, <1>9, WavesGrow
  <1> QED
    BY <1>1, <1>2, <1>3, <1>5, <1>6, <1>7, <1>8, <1>10 DEF JournalGrows

\* The tasks the commit of a settlement is about.
LEMMA SettledTasks ==
    ASSUME ChainInv, NEW c \in Callers, NEW r \in results, SettleCommit(c, r)
    PROVE  /\ \A x \in r.op.cands : x \in r.accepted \/ x[1] = r.conflict => Current(x)
           /\ \A x \in r.accepted : /\ att[x[1]][x[2]].state = "candidate"
                                    /\ att'[x[1]][x[2]].state = "integrated"
           /\ r.conflict # 0 /\ tState'[r.conflict] # "blocked" =>
                /\ tState'[r.conflict] = "preparing"
                /\ count'[r.conflict] = count[r.conflict] + 1
                /\ att'[r.conflict][count'[r.conflict]].base = r.final
           /\ r.conflict # 0 =>
                /\ r.conflict \in Tasks
                /\ <<r.conflict, count[r.conflict]>> \in r.op.cands
  <1> USE DEF ChainInv, HistoryInv
  <1> DEFINE k == r.conflict
             available == AvailableTokens
             retry == k # 0 /\ MayRetry(count[k], available)
  <1>1. /\ att' = SettledAttempts(r, retry, available)
        /\ tState' = [t \in Tasks |->
                        IF <<t, count[t]>> \in r.accepted THEN "integrated"
                        ELSE IF t = k THEN (IF retry THEN "preparing" ELSE "blocked")
                        ELSE tState[t]]
        /\ count' = [t \in Tasks |-> IF t = k /\ retry THEN count[t] + 1 ELSE count[t]]
        /\ \A x \in r.op.cands :
             (x \in r.accepted \/ x[1] = k) => x[2] = count[x[1]] /\ tState[x[1]] = "candidate"
    BY DEF SettleCommit
  <1>2. /\ \A x \in r.accepted : x \in r.op.cands /\ x[1] # k
        /\ k # 0 => \E x \in r.op.cands : x[1] = k
        /\ r.op.cands \subseteq Commit
    BY SettlementFacts DEF ResultsSound
  <1>3. \A x \in r.op.cands : x \in r.accepted \/ x[1] = k => Current(x)
    BY <1>1 DEF Current
  <1> HIDE DEF retry, available
  <1>4. \A t \in Tasks : att[t] \in [Execs -> Attempt]
    BY DEF TypeOK
  <1>5. ASSUME NEW x \in r.accepted
        PROVE  /\ att[x[1]][x[2]].state = "candidate"
               /\ att'[x[1]][x[2]].state = "integrated"
    <2>1. PICK t \in Tasks, e \in Execs : x = <<t, e>>
      BY <1>2 DEF Commit
    <2>2. e = count[t] /\ tState[t] = "candidate" /\ e # 0
      BY <1>1, <1>2, <2>1 DEF Execs
    <2>3. att[t][e].state = "candidate" /\ att[t][e] \in Attempt
      BY <2>2, LatestFacts
    <2>4. att'[t] = [att[t] EXCEPT ![e] = [att[t][e] EXCEPT !.state = "integrated"]]
      BY <1>1, <2>1, <2>2 DEF SettledAttempts
    <2>5. att'[t][e] = [att[t][e] EXCEPT !.state = "integrated"]
      BY <1>4, <2>4
    <2>6. att'[t][e].state = "integrated"
      BY <2>3, <2>5 DEF Attempt
    <2> QED
      BY <2>1, <2>3, <2>6
  <1>6. k # 0 => k \in Tasks /\ <<k, count[k]>> \in r.op.cands /\ <<k, count[k]>> \notin r.accepted
    <2> SUFFICES ASSUME k # 0
                 PROVE  /\ k \in Tasks /\ <<k, count[k]>> \in r.op.cands
                        /\ <<k, count[k]>> \notin r.accepted
      OBVIOUS
    <2>1. PICK x \in r.op.cands : x[1] = k
      BY <1>2
    <2>2. PICK t \in Tasks, e \in Execs : x = <<t, e>>
      BY <1>2, <2>1 DEF Commit
    <2>3. t = k /\ e = count[k]
      BY <1>1, <2>1, <2>2
    <2> QED
      BY <1>2, <2>1, <2>2, <2>3
  <1>7. ASSUME k # 0, tState'[k] # "blocked"
        PROVE  /\ tState'[k] = "preparing" /\ count'[k] = count[k] + 1
               /\ att'[k][count'[k]].base = r.final
    <2> DEFINE n == NewAttempt(count[k] + 1, r.final, available)
    <2>1. k \in Tasks /\ <<k, count[k]>> \notin r.accepted
      BY <1>6, <1>7
    <2>2. retry /\ tState'[k] = "preparing" /\ count'[k] = count[k] + 1
      BY <1>1, <1>7, <2>1
    <2>3. att'[k] = [att[k] EXCEPT ![count[k]] = [@ EXCEPT !.conflict = r.op],
                                   ![count[k] + 1] = n]
      BY <1>1, <2>1, <2>2 DEF SettledAttempts
    <2>4. n.base = r.final
      BY DEF NewAttempt, NoAttempt
    <2>5. count[k] \in Nat /\ count[k] + 1 \in Execs
      <3>1. count[k] \in Nat /\ count[k] < MaxExec
        BY <2>1, <2>2, ChainTypes DEF retry, MayRetry
      <3> QED
        BY <3>1, SizesAssumption DEF Execs
    <2> HIDE DEF n
    <2>6. att'[k][count[k] + 1] = n
      BY <1>4, <2>1, <2>3, <2>5
    <2> QED
      BY <2>2, <2>4, <2>6
  <1> QED
    BY <1>3, <1>5, <1>6, <1>7

\* A stuck operation is not committed.
LEMMA StuckIsRefused ==
    ASSUME ChainInv, NEW c \in Callers, NEW r \in results, SettleCommit(c, r), Stuck(r.op)
    PROVE  FALSE
  <1>1. /\ \A x \in r.op.cands : x \in r.accepted \/ x[1] = r.conflict => Current(x)
        /\ r.conflict # 0 => r.conflict \in Tasks /\ \E z \in r.op.cands : z[1] = r.conflict
    <2>1. r.conflict # 0 => <<r.conflict, count[r.conflict]>>[1] = r.conflict
      OBVIOUS
    <2> QED
      BY <2>1, SettledTasks
  <1>2. r.accepted = Accepted(r.op.cands, r.conflict) /\ r.op.cands \subseteq Commit
    BY SettlementFacts DEF ChainInv, ResultsPlaced
  <1>3. PICK x \in r.op.cands : /\ ~Current(x)
                                /\ \A y \in r.op.cands : y[1] < x[1] => ~Current(y)
    BY DEF Stuck
  <1>4. x[1] \in Nat
    BY <1>2 DEF Commit, Tasks
  <1>5. CASE r.conflict = 0
    BY <1>1, <1>2, <1>3, <1>5 DEF Accepted
  <1>6. CASE r.conflict # 0
    <2>1. r.conflict \in Nat
      BY <1>1, <1>6 DEF Tasks
    <2>2. ~(r.conflict < x[1])
      BY <1>1, <1>3, <1>6
    <2>3. x[1] = r.conflict \/ x[1] < r.conflict
      BY <1>4, <2>1, <2>2
    <2> QED
      BY <1>1, <1>2, <1>3, <2>3 DEF Accepted
  <1> QED
    BY <1>5, <1>6

\* The chain, when a settlement is committed.
LEMMA SettleChain ==
    ASSUME ChainInv, [Next]_vars, NEW c \in Callers, NEW r \in results, SettleCommit(c, r)
    PROVE  /\ BasesPassed' /\ Recorded' /\ RecordedOnce' /\ IntegratedRecorded'
           /\ ResultsPlaced' /\ HeadPlaced' /\ DependencyBase'
  <1> USE DEF HistoryInv
  <1> DEFINE n == Len(integrations) + 1
  <1>1. ChainInv /\ TypeOK
    BY DEF ChainInv
  <1>2. /\ JournalGrows
        /\ integrations' = Append(integrations, r) /\ GraphHead' = r.final
        /\ r.op \notin Completed /\ r.op.start = GraphHead /\ r.op \in intents
        /\ Completed' = Completed \cup {r.op}
        /\ head' = head /\ results' = results /\ intents' = intents
    BY SettleGrows
  <1>3. /\ integrations \in Seq(Result) /\ GraphHead \in Nat /\ r.final \in Nat
        /\ GraphHead <= r.final /\ GraphHead <= GraphHead'
    BY <1>1, <1>2, SettlementFacts, HeadType DEF TypeOK, JournalGrows
  <1>4. /\ n \in Nat /\ n # 0
        /\ DOMAIN integrations = 1..(n - 1) /\ DOMAIN integrations' = 1..n
        /\ integrations'[n] = r
        /\ \A i \in 1..(n - 1) : integrations'[i] = integrations[i]
        /\ \A i \in DOMAIN integrations' : i = n \/ i \in DOMAIN integrations
        /\ n > 1 => GraphHead = integrations[n - 1].final
        /\ n = 1 => GraphHead = 0
    BY <1>2, <1>3 DEF GraphHead
  <1>5. /\ \A x \in r.accepted : /\ att[x[1]][x[2]].state = "candidate"
                                 /\ att'[x[1]][x[2]].state = "integrated"
    BY SettledTasks
  <1>6. BasesPassed' /\ DependencyBase'
    BY <1>2, BasesKept, DependencyKept DEF ChainInv
  <1>7. \A i \in DOMAIN integrations : \A x \in integrations[i].accepted :
          x \in Commit /\ att[x[1]][x[2]].state = "integrated"
    BY <1>1, ChainTypes DEF ChainInv, Recorded, Result
  <1>8. Recorded'
    <2> SUFFICES ASSUME NEW i \in DOMAIN integrations'
                 PROVE  /\ integrations'[i] \in results'
                        /\ integrations'[i].op.start =
                             IF i = 1 THEN 0 ELSE integrations'[i - 1].final
                        /\ integrations'[i].final <= GraphHead'
                        /\ \A x \in integrations'[i].accepted :
                             att'[x[1]][x[2]].state = "integrated"
      BY DEF Recorded
    <2>1. CASE i = n
      <3>1. integrations'[i] = r
        BY <1>4, <2>1
      <3>2. r.op.start = IF i = 1 THEN 0 ELSE integrations'[i - 1].final
        <4>1. CASE n = 1
          BY <1>2, <1>4, <2>1, <4>1
        <4>2. CASE n # 1
          <5>1. n - 1 \in 1..(n - 1) /\ n > 1
            BY <1>4, <4>2
          <5>2. integrations'[n - 1] = integrations[n - 1]
            BY <1>4, <5>1
          <5>3. r.op.start = integrations'[n - 1].final
            BY <1>2, <1>4, <5>1, <5>2
          <5> QED
            BY <2>1, <4>2, <5>3
        <4> QED
          BY <4>1, <4>2
      <3>3. r.final <= GraphHead'
        BY <1>2, <1>3
      <3> QED
        BY <1>2, <1>5, <3>1, <3>2, <3>3
    <2>2. CASE i \in DOMAIN integrations
      <3>1. /\ integrations[i] \in results
            /\ integrations[i].op.start = IF i = 1 THEN 0 ELSE integrations[i - 1].final
            /\ integrations[i].final <= GraphHead
        BY <1>1, <2>2 DEF ChainInv, Recorded
      <3>2. /\ integrations'[i] = integrations[i]
            /\ i # 1 => integrations'[i - 1] = integrations[i - 1]
        BY <1>4, <2>2
      <3>3. integrations[i].final \in Nat
        BY <3>1, SettlementFacts
      <3>4. \A x \in integrations[i].accepted : att'[x[1]][x[2]].state = "integrated"
        BY <1>2, <1>7, <2>2, OfferedStays
      <3> QED
        BY <1>2, <1>3, <3>1, <3>2, <3>3, <3>4
    <2> QED
      BY <1>4, <2>1, <2>2
  <1>9. RecordedOnce'
    <2>1. \A i \in DOMAIN integrations : integrations[i].accepted \cap r.accepted = {}
      BY <1>5, <1>7
    <2>2. \A i, j \in DOMAIN integrations :
            i # j => integrations[i].accepted \cap integrations[j].accepted = {}
      BY <1>1 DEF ChainInv, RecordedOnce
    <2>3. \A i \in DOMAIN integrations : integrations'[i] = integrations[i]
      BY <1>4
    <2> QED
      BY <1>4, <2>1, <2>2, <2>3 DEF RecordedOnce
  <1>10. IntegratedRecorded'
    <2> SUFFICES ASSUME NEW t \in Tasks, tState'[t] = "integrated"
                 PROVE  \E i \in DOMAIN integrations' :
                           <<t, count'[t]>> \in integrations'[i].accepted
      BY DEF IntegratedRecorded
    <2>1. CASE tState[t] = "integrated"
      <3>1. PICK i \in DOMAIN integrations : <<t, count[t]>> \in integrations[i].accepted
        BY <1>1, <2>1 DEF ChainInv, IntegratedRecorded
      <3>2. count'[t] = count[t]
        BY <1>2, <2>1 DEF JournalGrows, TasksMove, TaskMoves
      <3> QED
        BY <1>2, <3>1, <3>2 DEF JournalGrows
    <2>2. CASE tState[t] # "integrated"
      <3>1. <<t, count'[t]>> \in r.accepted
        BY <2>2, SettleMoves DEF ChainInv
      <3>2. n \in DOMAIN integrations'
        BY <1>4
      <3> QED
        BY <1>4, <3>1, <3>2
    <2> QED
      BY <2>1, <2>2
  <1>11. ResultsPlaced'
    <2>1. ASSUME NEW s \in results
          PROVE  /\ s.op \notin Completed' /\ s.op.start = GraphHead' =>
                      s.final \in {GraphHead', head}
                 /\ s.conflict # 0 => \E x \in s.op.cands :
                                        x[1] = s.conflict /\ att'[x[1]][x[2]].base # s.final
      <3>1. /\ s.op.start \in Nat /\ s.op.start <= GraphHead
            /\ s.op \in Operation /\ OpSound(s.op)
        BY SettlementFacts
      <3>2. s.op \notin Completed /\ s.op.start = GraphHead => s.final \in {GraphHead, head}
        BY <1>1 DEF ChainInv, ResultsPlaced
      <3>3. s.op.start = GraphHead' => GraphHead = GraphHead'
        BY <1>2, <1>3, <3>1
      <3>4. ASSUME s.conflict # 0
            PROVE  \E x \in s.op.cands :
                      x[1] = s.conflict /\ att'[x[1]][x[2]].base # s.final
        <4>1. PICK x \in s.op.cands : x[1] = s.conflict /\ att[x[1]][x[2]].base # s.final
          BY <1>1, <3>4 DEF ChainInv, ResultsPlaced
        <4>2. x \in Commit /\ att[x[1]][x[2]].state \in {"candidate", "integrated", "blocked"}
          BY <3>1 DEF OpSound, Operation
        <4> QED
          BY <1>2, <4>1, <4>2, OfferedStays
      <3> QED
        BY <1>2, <3>2, <3>3, <3>4
    <2>2. /\ \A s \in results : /\ s.accepted = Accepted(s.op.cands, s.conflict)
                                /\ s.final = s.op.start + Cardinality(s.accepted)
                                /\ s.op \in intents
          /\ \A s, u \in results : s.op = u.op => s = u
      BY <1>1 DEF ChainInv, ResultsPlaced
    <2> QED
      BY <1>2, <2>1, <2>2 DEF ResultsPlaced
  <1>12. HeadPlaced'
    <2>1. r.final \in {GraphHead, head}
      BY <1>1, <1>2 DEF ChainInv, ResultsPlaced
    <2>2. CASE r.final = head
      BY <1>2, <2>2 DEF HeadPlaced
    <2>3. CASE r.final = GraphHead /\ r.final # head
      <3>1. PICK p \in results : /\ p.op \notin Completed
                                 /\ p.op.start = GraphHead
                                 /\ p.final = head
        BY <1>1, <2>3 DEF ChainInv, HeadPlaced
      <3>2. p.op # r.op
        BY <1>1, <2>3, <3>1 DEF ChainInv, ResultsPlaced
      <3> QED
        BY <1>2, <2>3, <3>1, <3>2 DEF HeadPlaced
    <2> QED
      BY <2>1, <2>2, <2>3
  <1> QED
    BY <1>6, <1>8, <1>9, <1>10, <1>11, <1>12

\* What the callers hold, when a settlement is committed.
LEMMA SettleOffers ==
    ASSUME ChainInv, [Next]_vars, NEW c \in Callers, NEW r \in results, SettleCommit(c, r)
    PROVE  OpsSound' /\ OffersAgree'
  <1> USE DEF HistoryInv
  <1>1. /\ ChainInv /\ TypeOK /\ HistorySound
        /\ JournalGrows /\ GraphHead' = r.final
        /\ Completed' = Completed \cup {r.op}
        /\ r.op.start = GraphHead /\ r.op \in intents
        /\ intents' = intents
        /\ Returns(c)
    BY SettleGrows DEF ChainInv
  <1>2. /\ \A o \in intents : o \in Operation /\ OpSound(o)
        /\ GraphHead \in Nat /\ r.final \in Nat /\ GraphHead <= r.final
    BY <1>1, SettlementFacts, HeadType
  <1>3. \A o \in intents : Live(o)' => Live(o)
    <2>1. ASSUME NEW o \in intents, Live(o)'
          PROVE  Live(o)
      <3>1. o.start \in Nat /\ o.start <= GraphHead
        BY <1>2 DEF Operation, OpSound
      <3>2. o.start = r.final /\ o \notin Completed
        BY <1>1, <2>1 DEF Live
      <3> QED
        BY <1>2, <3>1, <3>2 DEF Live
    <2> QED
      BY <2>1
  <1>4. \A d \in Callers : /\ Offers(d)' => Offers(d) /\ call'[d] = call[d]
                           /\ Settles(d)' => Settles(d) /\ call'[d] = call[d]
    <2>1. call \in [Callers -> Call] /\ call' = [call EXCEPT ![c] = Idle]
      BY <1>1, TypeFacts DEF Returns
    <2>2. Idle.op \notin {"intent", "integrate", "settle"}
      BY DEF Idle
    <2>3. \A d \in Callers : call'[d] = IF d = c THEN Idle ELSE call[d]
      BY <2>1
    <2> QED
      BY <2>2, <2>3 DEF Offers, Settles
  <1>5. OpsSound'
    <2>1. \A o \in intents' : OpSound(o)'
      BY <1>1, <1>2, OpStays
    <2>2. ASSUME NEW d \in Callers, Offers(d)'
          PROVE  OpSound(OperationOf(call[d]))'
      <3>1. PICK p : p = OperationOf(call[d])
        OBVIOUS
      <3>2. p \in Operation /\ OpSound(p)
        BY <1>1, <1>4, <2>2, <3>1, ChainTypes DEF ChainInv, OpsSound
      <3>3. OpSound(p)'
        BY <1>1, <3>2, OpStays
      <3>4. p = OperationOf(call'[d])
        BY <1>4, <2>2, <3>1
      <3> QED
        BY <3>3, <3>4
    <2>3. \A d \in Callers : Settles(d)' => OperationOf(call'[d]) \in intents'
      BY <1>1, <1>4 DEF ChainInv, OpsSound
    <2> QED
      BY <2>1, <2>2, <2>3 DEF OpsSound
  <1>6. \A o \in Operation : OpSound(o) => \A x \in o.cands : Current(x)' => Current(x)
    BY <1>1, OpCurrentWas
  <1>7. OffersAgree'
    <2> SUFFICES ASSUME NEW a \in intents, Live(a)'
                 PROVE  /\ \A b \in intents : SameOffer(a, b) /\ Live(b)' =>
                             \A x \in a.cands : Current(x)' => x \in b.cands
                        /\ \A d \in Callers :
                             Offers(d)' /\ SameOffer(OperationOf(call'[d]), a) =>
                               \A x \in call'[d].cands : Current(x)' => x \in a.cands
      BY <1>1 DEF OffersAgree
    <2>1. Live(a)
      BY <1>3
    <2>2. \A b \in intents : SameOffer(a, b) /\ Live(b) =>
            \A x \in a.cands : Current(x) => x \in b.cands
      BY <1>1, <2>1 DEF ChainInv, OffersAgree
    <2>3. \A b \in intents : SameOffer(a, b) /\ Live(b)' =>
            \A x \in a.cands : Current(x)' => x \in b.cands
      BY <1>2, <1>3, <1>6, <2>2
    <2>4. ASSUME NEW d \in Callers, Offers(d)', SameOffer(OperationOf(call'[d]), a),
                 NEW x \in call'[d].cands, Current(x)'
          PROVE  x \in a.cands
      <3>1. PICK p : p = OperationOf(call[d])
        OBVIOUS
      <3>2. Offers(d) /\ call'[d] = call[d] /\ p.cands = call[d].cands
        BY <1>4, <2>4, <3>1 DEF OperationOf
      <3>3. p \in Operation /\ OpSound(p)
        BY <1>1, <3>1, <3>2, ChainTypes DEF ChainInv, OpsSound
      <3>4. \A y \in call[d].cands : Current(y) => y \in a.cands
        BY <1>1, <2>1, <2>4, <3>1, <3>2 DEF ChainInv, OffersAgree
      <3> QED
        BY <1>6, <2>4, <3>2, <3>3, <3>4
    <2> QED
      BY <2>3, <2>4
  <1> QED
    BY <1>5, <1>7

\* An operation that is left where an empty settlement met its conflict has
\* nothing to settle before that conflict.
LEMMA LeftIsStuck ==
    ASSUME ChainInv, [Next]_vars, NEW c \in Callers, NEW r \in results, SettleCommit(c, r),
           r.conflict # 0, NEW o \in intents, Live(o)', o.wave = r.op.wave
    PROVE  Stuck(o)'
  <1> USE DEF HistoryInv
  <1> DEFINE k == r.conflict
  <1>0. PICK x : x = <<k, count[k]>>
    OBVIOUS
  <1>1. /\ ChainInv /\ TypeOK /\ HistorySound
        /\ JournalGrows /\ GraphHead' = r.final
        /\ Completed' = Completed \cup {r.op}
        /\ r.op \notin Completed /\ r.op.start = GraphHead /\ r.op \in intents
    BY SettleGrows DEF ChainInv
  <1>2. /\ o \in Operation /\ OpSound(o) /\ r.op \in Operation
        /\ GraphHead \in Nat /\ r.final \in Nat /\ GraphHead <= r.final
        /\ r.accepted = Accepted(r.op.cands, k)
        /\ r.final = r.op.start + Cardinality(r.accepted)
        /\ r.op.cands \in SUBSET Commit
    <2>1. r.op.cands \in SUBSET Commit
      BY <1>1, SettlementFacts
    <2> QED
      BY <1>1, <2>1, SettlementFacts, HeadType DEF ChainInv, ResultsPlaced
  <1>3. o # r.op /\ o \notin Completed /\ o.start = r.final
    BY <1>1 DEF Live
  <1>4. o.start \in Nat /\ o.start <= GraphHead
    BY <1>2 DEF Operation, OpSound
  <1>5. r.final = GraphHead
    BY <1>2, <1>3, <1>4
  <1>6. r.accepted = {}
    <2>1. IsFiniteSet(r.accepted) /\ Cardinality(r.accepted) \in Nat
      BY <1>2, AcceptedFinite
    <2>2. Cardinality(r.accepted) = 0
      BY <1>1, <1>2, <1>5, <2>1
    <2> QED
      BY <2>1, <2>2, FS_EmptySet
  <1>7. Live(o) /\ Live(r.op) /\ SameOffer(o, r.op) /\ SameOffer(r.op, o)
    BY <1>1, <1>3, <1>5 DEF Live, SameOffer
  <1>8. /\ \A y \in o.cands : Current(y) => y \in r.op.cands
        /\ \A y \in r.op.cands : Current(y) => y \in o.cands
    BY <1>1, <1>7 DEF ChainInv, OffersAgree
  <1>9. /\ k \in Tasks /\ x \in r.op.cands /\ Current(x)
        /\ tState'[k] # "blocked" => tState'[k] = "preparing" /\ count'[k] = count[k] + 1
        /\ x[1] = k /\ x[2] = count[k] /\ count[k] \in Nat
    <2>1. x[1] = k /\ x[2] = count[k]
      BY <1>0
    <2>2. k \in Tasks /\ count[k] \in Nat
      BY <1>1, SettledTasks, ChainTypes
    <2> QED
      BY <1>0, <1>1, <2>1, <2>2, SettledTasks
  <1>10. x \in o.cands
    BY <1>8, <1>9
  <1>11. ~Current(x)'
    BY <1>9 DEF Current
  <1>12. \A y \in o.cands : y[1] < k => ~Current(y)'
    <2> SUFFICES ASSUME NEW y \in o.cands, y[1] < k, Current(y)'
                 PROVE  FALSE
      OBVIOUS
    <2>1. Current(y)
      BY <1>1, <1>2, OpCurrentWas
    <2>2. y \in r.op.cands
      BY <1>8, <2>1
    <2>3. y \in Accepted(r.op.cands, k)
      BY <2>2 DEF Accepted
    <2> QED
      BY <1>2, <1>6, <2>3
  <1> QED
    BY <1>9, <1>10, <1>11, <1>12 DEF Stuck

\* What is fenced, when a settlement is committed.
LEMMA SettleFence ==
    ASSUME ChainInv, [Next]_vars, NEW c \in Callers, NEW r \in results, SettleCommit(c, r)
    PROVE  ReplacementsAhead' /\ FencedStuck' /\ ConflictFence'
  <1> USE DEF HistoryInv
  <1> DEFINE n == Len(integrations) + 1
  <1>1. /\ ChainInv /\ TypeOK /\ TypeOK' /\ HistorySound
        /\ JournalGrows /\ GraphHead' = r.final
        /\ integrations' = Append(integrations, r)
        /\ Completed' = Completed \cup {r.op}
        /\ r.op \notin Completed /\ r.op.start = GraphHead /\ r.op \in intents
        /\ intents' = intents
    BY SettleGrows DEF ChainInv, JournalGrows
  <1>2. integrations \in Seq(Result)
    BY <1>1 DEF TypeOK
  <1>3. /\ n \in Nat
        /\ DOMAIN integrations = 1..(n - 1) /\ DOMAIN integrations' = 1..n
        /\ n \in DOMAIN integrations'
        /\ integrations'[n] = r
        /\ \A i \in DOMAIN integrations : integrations'[i] = integrations[i]
        /\ \A i \in DOMAIN integrations' : i = n \/ i \in DOMAIN integrations
        /\ \A i \in DOMAIN integrations : i < n /\ ~(n < i) /\ i # n
    BY <1>1, <1>2
  <1>4. /\ r \in Result /\ GraphHead \in Nat /\ r.final \in Nat /\ GraphHead <= r.final
        /\ r.op \in Operation /\ OpSound(r.op)
    BY <1>1, SettlementFacts, HeadType
  <1>5. \A o \in intents : Live(o)' => Live(o)
    <2>1. ASSUME NEW o \in intents, Live(o)'
          PROVE  Live(o)
      <3>1. o.start \in Nat /\ o.start <= GraphHead
        BY <1>1, SettlementFacts DEF Operation, OpSound
      <3>2. o.start = r.final /\ o \notin Completed
        BY <1>1, <2>1 DEF Live
      <3> QED
        BY <1>4, <3>1, <3>2 DEF Live
    <2> QED
      BY <2>1
  <1>6. \A i \in DOMAIN integrations' : integrations'[i].conflict # 0 =>
          integrations'[i].conflict \in Tasks
    <2>1. \A i \in DOMAIN integrations' : integrations'[i] \in Result
      BY <1>1 DEF TypeOK
    <2> QED
      BY <2>1, SizesAssumption DEF Result, Tasks
  <1>7. \A i \in DOMAIN integrations : Fenced(i)' =>
          /\ Fenced(i)
          /\ tState'[integrations[i].conflict] = "integrated" =>
               tState[integrations[i].conflict] = "integrated"
    <2> SUFFICES ASSUME NEW i \in DOMAIN integrations, Fenced(i)',
                        NEW k, k = integrations[i].conflict
                 PROVE  Fenced(i) /\ (tState'[k] = "integrated" => tState[k] = "integrated")
      OBVIOUS
    <2>1. Fenced(i) /\ k \in Tasks
      BY <1>1, FencedWas
    <2>2. ~Since(i, k)'
      BY <1>3 DEF Fenced
    <2>3. <<k, count'[k]>> \notin r.accepted
      <3>1. <<k, count'[k]>>[1] = k
        OBVIOUS
      <3>2. n \in DOMAIN integrations' /\ n > i /\ integrations'[n] = r
        BY <1>3
      <3> QED
        BY <2>2, <3>1, <3>2 DEF Since
    <2> QED
      BY <1>1, <2>1, <2>3, SettleMoves DEF ChainInv
  <1>8. ReplacementsAhead'
    <2> SUFFICES ASSUME NEW i \in DOMAIN integrations', Fenced(i)',
                        NEW k, k = integrations'[i].conflict
                 PROVE  /\ tState'[k] # "integrated"
                        /\ count'[k] # 0
                        /\ integrations'[i].final <= att'[k][count'[k]].base
      BY DEF ReplacementsAhead
    <2>1. CASE i \in DOMAIN integrations
      <3>1. k = integrations[i].conflict
        BY <1>3, <2>1
      <3>2. Recorded /\ ReplacementsAhead
        BY <1>1 DEF ChainInv
      <3> QED
        BY <1>1, <1>7, <2>1, <3>1, <3>2, ReplacementKept
    <2>2. CASE i = n
      <3>1. k = r.conflict /\ integrations'[i] = r
        BY <1>3, <2>2
      <3>2. k # 0 /\ tState'[k] # "blocked"
        BY <3>1 DEF Fenced
      <3>3. /\ k \in Tasks /\ tState'[k] = "preparing" /\ count'[k] = count[k] + 1
            /\ att'[k][count'[k]].base = r.final
        BY <1>1, <3>1, <3>2, SettledTasks
      <3>4. count[k] \in Nat
        BY <1>1, <3>3, ChainTypes
      <3> QED
        BY <1>4, <3>1, <3>3, <3>4
    <2> QED
      BY <1>3, <2>1, <2>2
  <1>9. FencedStuck'
    <2> SUFFICES ASSUME NEW i \in DOMAIN integrations', NEW o \in intents,
                        Fenced(i)', Live(o)', o.wave = integrations'[i].op.wave
                 PROVE  Stuck(o)'
      BY <1>1 DEF FencedStuck
    <2>1. CASE i = n
      <3>1. r.conflict # 0 /\ o.wave = r.op.wave
        BY <1>3, <2>1 DEF Fenced
      <3> QED
        BY <1>1, <3>1, LeftIsStuck
    <2>2. CASE i \in DOMAIN integrations
      <3>1. Fenced(i) /\ Live(o) /\ o.wave = integrations[i].op.wave
        BY <1>3, <1>5, <1>7, <2>2
      <3>2. Stuck(o)
        BY <1>1, <2>2, <3>1 DEF ChainInv, FencedStuck
      <3>3. o \in Operation /\ OpSound(o)
        BY <1>1, SettlementFacts
      <3> QED
        BY <1>1, <3>2, <3>3, StuckStays
    <2> QED
      BY <1>3, <2>1, <2>2
  <1>10. ConflictFence'
    <2> SUFFICES ASSUME NEW i \in DOMAIN integrations', NEW j \in DOMAIN integrations',
                        NEW k, k = integrations'[i].conflict,
                        i < j, k # 0, integrations'[i].op.wave = integrations'[j].op.wave
                 PROVE  \/ tState'[k] = "blocked"
                        \/ \E m \in (i + 1)..(j - 1) :
                              \E x \in integrations'[m].accepted : x[1] = k
      BY DEF ConflictFence
    <2>1. k \in Tasks
      BY <1>6
    <2>2. tState[k] = "blocked" => tState'[k] = "blocked"
      BY <1>1, <2>1 DEF JournalGrows, TasksMove, TaskMoves
    <2>3. i \in 1..(n - 1) /\ i \in DOMAIN integrations /\ integrations'[i] = integrations[i]
      <3>1. i \in 1..n /\ j \in 1..n
        BY <1>3
      <3>2. i \in 1..(n - 1)
        BY <1>3, <3>1
      <3> QED
        BY <1>3, <3>2
    <2>4. CASE j \in DOMAIN integrations
      <3>1. integrations'[j] = integrations[j] /\ j \in 1..(n - 1)
        BY <1>3, <2>4
      <3>2. \/ tState[k] = "blocked"
            \/ \E m \in (i + 1)..(j - 1) : \E x \in integrations[m].accepted : x[1] = k
        BY <1>1, <2>3, <2>4, <3>1 DEF ChainInv, ConflictFence
      <3>3. \A m \in (i + 1)..(j - 1) : integrations'[m] = integrations[m]
        BY <1>3, <2>3, <3>1
      <3> QED
        BY <2>2, <3>2, <3>3
    <2>5. CASE j = n
      <3>1. r.op.wave = integrations[i].op.wave
        BY <1>3, <2>3, <2>5
      <3>2. ~Stuck(r.op)
        BY <1>1, StuckIsRefused
      <3>3. Live(r.op)
        BY <1>1 DEF Live
      <3>4. ~Fenced(i)
        BY <1>1, <2>3, <3>1, <3>2, <3>3 DEF ChainInv, FencedStuck
      <3>5. tState[k] = "blocked" \/ Since(i, k)
        BY <2>3, <3>4 DEF Fenced
      <3>6. CASE Since(i, k)
        <4>1. PICK m \in DOMAIN integrations :
                m > i /\ \E x \in integrations[m].accepted : x[1] = k
          BY <3>6 DEF Since
        <4>2. m \in 1..(n - 1) /\ integrations'[m] = integrations[m]
          BY <1>3, <4>1
        <4>3. m \in (i + 1)..(j - 1)
          BY <1>3, <2>3, <2>5, <4>1, <4>2
        <4> QED
          BY <4>1, <4>2, <4>3
      <3> QED
        BY <2>2, <3>5, <3>6
    <2> QED
      BY <1>3, <2>4, <2>5
  <1> QED
    BY <1>8, <1>9, <1>10

-----------------------------------------------------------------------------
(* The theorems *)

\* Every step keeps the invariant.
LEMMA StepChain == ChainInv /\ [Next]_vars => ChainInv'
  <1> SUFFICES ASSUME ChainInv, [Next]_vars PROVE ChainInv'
    OBVIOUS
  <1>1. HistoryInv'
    BY StepType, StepGood, GoodIsSound DEF ChainInv, HistoryInv
  <1>2. Quiet => ChainInv'
    <2> SUFFICES ASSUME Quiet PROVE ChainInv'
      OBVIOUS
    <2> QED
      BY <1>1, QuietChain, QuietOffers, QuietFence DEF ChainInv
  <1>3. ASSUME NEW c \in Callers, NEW r \in results, SettleCommit(c, r)
        PROVE  ChainInv'
    BY <1>1, <1>3, SettleChain, SettleOffers, SettleFence DEF ChainInv
  <1>4. ASSUME NEW c \in Callers, ServiceStep(c)
        PROVE  ChainInv'
    <2>1. CASE \/ PrepareAdmit(c)
               \/ \E t \in Tasks, ready \in BOOLEAN : AttachWorktree(c, t, ready)
               \/ QuestionCommit(c) \/ CandidateCommit(c) \/ AnswerCommit(c)
               \/ \E fallback \in BOOLEAN : FailureCommit(c, fallback)
      BY <1>2, <2>1, CommitIsQuiet
    <2>2. CASE \/ PrepareRead(c) \/ PrepareResume(c) \/ PrepareReturn(c)
               \/ \E x \in Commit, k \in 1..MaxCopies : StartChild(c, x, k)
               \/ \E r \in runs, e \in Execs : \/ QuestionLoad(c, r, e) \/ AnswerLoad(c, r, e)
                                               \/ FailureLoad(c, r, e)
               \/ \E w, t, x : CandidateLoad(c, w, t, x)
               \/ CandidateReads(c)
               \/ FailureReplay(c) \/ IntegrateReplay(c) \/ SettleReplay(c) \/ CallEnds(c)
               \/ \E w \in DOMAIN waves : SettleResume(c, w) \/ SettleLoad(c, w)
      BY <1>2, <2>2, CallIsQuiet
    <2>3. CASE SettleIntent(c)
      BY <2>3, IntentKeeps
    <2>4. CASE \E conflict \in 0..NTasks : Integrate(c, conflict)
      BY <2>4, IntegrateKeeps
    <2>5. CASE \E r \in results : SettleCommit(c, r)
      BY <1>3, <2>5
    <2> QED
      BY <1>4, <2>1, <2>2, <2>3, <2>4, <2>5 DEF ServiceStep
  <1>5. CASE \/ ChildStep
             \/ \E disposition \in Dispositions, given \in BOOLEAN :
                  Terminalize(disposition, given)
             \/ WallExpires
             \/ UNCHANGED vars
    BY <1>2, <1>5, ElseIsQuiet
  <1> QED
    BY <1>4, <1>5 DEF Next

\* The service begins with an empty journal and the branch where it is.
LEMMA InitChain == Init => ChainInv
  <1> SUFFICES ASSUME Init PROVE ChainInv
    OBVIOUS
  <1>1. HistoryInv
    <2>1. CallsNameAttempts
      BY DEF Init, CallsNameAttempts, Naming, CandidateParts, Idle
    <2> QED
      BY <2>1, InitType, InitSound DEF HistoryInv
  <1>2. /\ GraphHead = 0 /\ head = 0 /\ results = {} /\ intents = {}
        /\ DOMAIN integrations = {} /\ DOMAIN waves = {}
        /\ \A t \in Tasks, e \in Execs : att[t][e].state = "none"
        /\ \A t \in Tasks : tState[t] = "pending"
        /\ \A c \in Callers : call[c].op \notin {"intent", "integrate", "settle"}
    BY DEF Init, GraphHead, NoAttempt, Idle
  <1>3. BasesPassed /\ Recorded /\ RecordedOnce /\ IntegratedRecorded
    BY <1>2 DEF BasesPassed, Recorded, RecordedOnce, IntegratedRecorded
  <1>4. ResultsPlaced /\ HeadPlaced /\ OpsSound /\ OffersAgree
    BY <1>2 DEF ResultsPlaced, HeadPlaced, OpsSound, OffersAgree, Offers, Settles
  <1>5. ReplacementsAhead /\ FencedStuck /\ DependencyBase /\ ConflictFence
    BY <1>2 DEF ReplacementsAhead, FencedStuck, DependencyBase, ConflictFence
  <1> QED
    BY <1>1, <1>3, <1>4, <1>5 DEF ChainInv

\* The invariant holds throughout.
LEMMA ChainInvariant == Spec => []ChainInv
  BY InitChain, StepChain, PTL DEF Spec

\* The journal of the graph is one chain on the branch: whatever callers
\* settle, resume or replay an operation, each recorded integration begins where
\* the one before ended, advances by one commit per accepted candidate, and no
\* candidate is recorded twice; the branch is where the journal says, or one
\* integration ahead whose result the journal can still record
\* (Graph.SettleWave, integrateWave).
THEOREM JournalIsOneChain == Spec => []IntegrationChain
  <1>1. ASSUME ChainInv
        PROVE  IntegrationChain
    <2>1. ASSUME NEW i \in DOMAIN integrations
          PROVE  /\ integrations[i].op.start =
                      IF i = 1 THEN 0 ELSE integrations[i - 1].final
                 /\ integrations[i].final =
                      integrations[i].op.start + Cardinality(integrations[i].accepted)
                 /\ \A j \in DOMAIN integrations :
                      i # j => integrations[j].accepted \cap integrations[i].accepted = {}
      BY <1>1 DEF ChainInv, Recorded, ResultsPlaced, RecordedOnce
    <2>2. HeadPlaced
      BY <1>1 DEF ChainInv
    <2> QED
      BY <2>1, <2>2 DEF IntegrationChain, HeadPlaced
  <1> QED
    BY <1>1, ChainInvariant, PTL

\* No attempt of a task is ever based on a commit without the integrated work
\* of what the task depends on, although the wave, a fallback and the retry of
\* a conflict each take their base from another read of the branch
\* (prepareWave, Graph.RecordFailure, Graph.SettleWave).
THEOREM DependenciesBelow == Spec => []DependencyBase
  <1>1. ChainInv => DependencyBase
    BY DEF ChainInv
  <1> QED
    BY <1>1, ChainInvariant, PTL

\* A wave that met a conflict records nothing more before the replacement of
\* the conflicted task is integrated, or that task is blocked, even when other
\* callers hold operations of the same wave that were built or persisted before
\* the conflict (waveSettlementCandidates, Graph.SettleWave).
THEOREM ConflictIsFenced == Spec => []ConflictFence
  <1>1. ChainInv => ConflictFence
    BY DEF ChainInv
  <1> QED
    BY <1>1, ChainInvariant, PTL
=============================================================================
