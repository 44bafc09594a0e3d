---------------------- MODULE DeliveryGraphBudgetProofs ---------------------
(***************************************************************************)
(* The token budget of DeliveryGraph, for any ceiling and any number of    *)
(* tasks, callers and runs.  BudgetConserved is inductive once every       *)
(* attempt still open has no used tokens: then closing an attempt releases *)
(* the part of its allowance it did not use, and every new allowance comes *)
(* out of what was released or out of what nobody had.  Which of the two   *)
(* it is tells the lemmas on a commit apart: costs may fall (CostsLess),   *)
(* move from one attempt to the next (CostsMove, CostsPass), or rise by    *)
(* what was available (CostsShared).                                       *)
(***************************************************************************)
EXTENDS DeliveryGraphHistoryProofs, TotalTheorems

-----------------------------------------------------------------------------
(* The ledger of the tokens *)

\* What each attempt of the history h costs the delivery.
Costs(h) == [x \in Commit |-> Spent(h[x[1]][x[2]])]
Histories == [Tasks -> [Execs -> Attempt]]

\* An open attempt has not paid anything yet.
OpenUnpaid ==
    \A t \in Tasks, e \in Execs : OpenAttempt(att[t][e]) => att[t][e].used = 0

BudgetInv == HistoryInv /\ OpenUnpaid /\ BudgetConserved

\* There are finitely many attempts.
LEMMA CommitFinite == IsFiniteSet(Commit)
  <1>1. IsFiniteSet(Tasks) /\ IsFiniteSet(Execs)
    BY SizesAssumption, FS_Interval DEF Tasks, Execs
  <1> QED
    BY <1>1, FS_Product DEF Commit

\* The cost of an attempt is a natural number below its allowance.
LEMMA SpentType ==
    ASSUME NEW a \in Attempt
    PROVE  /\ Spent(a) \in Nat /\ a.allow \in Nat /\ a.used \in Nat
           /\ Spent(a) <= a.allow
           /\ ~OpenAttempt(a) => Spent(a) <= a.used
           /\ OpenAttempt(a) => Spent(a) = a.allow
           /\ Reserved(a) \in Nat
  <1>1. a.allow \in Nat /\ a.used \in Nat
    BY SizesAssumption DEF Attempt
  <1> QED
    BY <1>1 DEF Spent, Reserved

\* The costs of a history are naturals, and so is their total.
LEMMA CostsType ==
    ASSUME NEW h \in Histories
    PROVE  /\ Costs(h) \in [Commit -> Nat]
           /\ Total(Costs(h)) \in Nat
           /\ \A t \in Tasks, e \in Execs : /\ <<t, e>> \in Commit
                                            /\ Costs(h)[<<t, e>>] = Spent(h[t][e])
  <1>1. \A x \in Commit : h[x[1]][x[2]] \in Attempt
    BY DEF Commit, Histories
  <1>2. Costs(h) \in [Commit -> Nat]
    BY <1>1, SpentType DEF Costs
  <1>3. Total(Costs(h)) \in Nat
    BY <1>2, CommitFinite, TotalType
  <1> QED
    BY <1>2, <1>3 DEF Costs, Commit

\* Histories none of whose attempts costs more.
LEMMA CostsLess ==
    ASSUME NEW h \in Histories, NEW k \in Histories,
           \A t \in Tasks, e \in Execs : Spent(k[t][e]) <= Spent(h[t][e])
    PROVE  Total(Costs(k)) <= Total(Costs(h))
  <1>1. \A x \in Commit : Costs(k)[x] <= Costs(h)[x]
    BY DEF Costs, Commit
  <1> QED
    BY <1>1, CostsType, CommitFinite, TotalLess

\* Histories one of whose attempts may cost more.
LEMMA CostsMove ==
    ASSUME NEW h \in Histories, NEW k \in Histories, NEW t \in Tasks, NEW e \in Execs,
           \A u \in Tasks, f \in Execs : u # t \/ f # e => Spent(k[u][f]) <= Spent(h[u][f])
    PROVE  Total(Costs(k)) + Spent(h[t][e]) <= Total(Costs(h)) + Spent(k[t][e])
  <1>1. PICK x \in Commit : x = <<t, e>>
    BY DEF Commit
  <1>2. \A y \in Commit : y # x => Costs(k)[y] <= Costs(h)[y]
    BY <1>1 DEF Costs, Commit
  <1>3. Costs(h)[x] = Spent(h[t][e]) /\ Costs(k)[x] = Spent(k[t][e])
    BY <1>1 DEF Costs
  <1>4. Total(Costs(k)) + Costs(h)[x] <= Total(Costs(h)) + Costs(k)[x]
    BY <1>2, CostsType, CommitFinite, TotalMoves
  <1> QED
    BY <1>3, <1>4

\* What is available is neither paid nor reserved, nor spent.
LEMMA AvailableFacts ==
    ASSUME BudgetInv, NEW h, h = att
    PROVE  /\ h \in Histories
           /\ Total(Costs(h)) \in Nat /\ Total(Costs(h)) <= TokenCeiling
           /\ TokenCeiling \in Nat /\ AvailableTokens \in Nat
           /\ AvailableTokens # 0 => Total(Costs(h)) + AvailableTokens <= TokenCeiling
  <1>1. h \in Histories
    BY DEF BudgetInv, HistoryInv, TypeOK, Histories
  <1>2. PICK u, v : /\ u = [x \in Commit |-> h[x[1]][x[2]].used]
                    /\ v = [x \in Commit |-> Reserved(h[x[1]][x[2]])]
    OBVIOUS
  <1>3. \A x \in Commit : h[x[1]][x[2]] \in Attempt
    BY <1>1 DEF Commit, Histories
  <1>4. u \in [Commit -> Nat] /\ v \in [Commit -> Nat]
    BY <1>2, <1>3, SpentType
  <1>5. \A x \in Commit : Costs(h)[x] <= u[x] + v[x]
    <2> SUFFICES ASSUME NEW x \in Commit PROVE Costs(h)[x] <= u[x] + v[x]
      OBVIOUS
    <2>1. PICK a \in Attempt : a = h[x[1]][x[2]]
      BY <1>3
    <2>2. Costs(h)[x] = Spent(a) /\ u[x] = a.used /\ v[x] = Reserved(a)
      BY <1>2, <2>1 DEF Costs
    <2> QED
      BY <2>2, SpentType DEF Reserved
  <1>6. Total(Costs(h)) <= Total(u) + Total(v) /\ Total(u) \in Nat /\ Total(v) \in Nat
    BY <1>1, <1>4, <1>5, CostsType, CommitFinite, TotalBound, TotalType
  <1>7. CumulativeTokens = Total(u) /\ ReservedTokens = Total(v)
    BY <1>2 DEF CumulativeTokens, ReservedTokens
  <1>8. Total(Costs(h)) <= TokenCeiling
    BY DEF BudgetInv, BudgetConserved, Costs
  <1>9. AvailableTokens \in Nat /\ (AvailableTokens # 0 =>
          AvailableTokens = TokenCeiling - Total(u) - Total(v))
    BY <1>6, <1>7, SizesAssumption DEF AvailableTokens, Clamp
  <1> QED
    BY <1>1, <1>6, <1>8, <1>9, CostsType, SizesAssumption

-----------------------------------------------------------------------------
(* What a step may do to the ledger *)

\* A step after which no attempt costs more.
LEMMA BudgetLess ==
    ASSUME BudgetInv, TypeOK',
           \A t \in Tasks, e \in Execs : Spent(att'[t][e]) <= Spent(att[t][e])
    PROVE  BudgetConserved'
  <1>1. PICK h, k : h = att /\ k = att'
    OBVIOUS
  <1>2. /\ h \in Histories /\ Total(Costs(h)) \in Nat
        /\ Total(Costs(h)) <= TokenCeiling /\ TokenCeiling \in Nat
    BY <1>1, AvailableFacts
  <1>3. k \in Histories
    BY <1>1 DEF TypeOK, Histories
  <1>4. Total(Costs(k)) <= Total(Costs(h)) /\ Total(Costs(k)) \in Nat
    BY <1>1, <1>2, <1>3, CostsLess, CostsType
  <1> QED
    BY <1>1, <1>2, <1>4 DEF BudgetConserved, Costs

\* A step that passes the allowance of an attempt, or tokens that are
\* available, on to another attempt of the task.
LEMMA BudgetPasses ==
    ASSUME BudgetInv, TypeOK', NEW t \in Tasks, NEW e \in Execs, NEW f \in Execs, e # f,
           \A u \in Tasks, g \in Execs : u # t \/ g \notin {e, f} =>
             Spent(att'[u][g]) <= Spent(att[u][g]),
           Spent(att'[t][e]) + Spent(att'[t][f]) <=
             Spent(att[t][e]) + Spent(att[t][f]) + AvailableTokens
    PROVE  BudgetConserved'
  <1>1. PICK h, k, available : h = att /\ k = att' /\ available = AvailableTokens
    OBVIOUS
  <1>2. /\ h \in Histories /\ Total(Costs(h)) \in Nat
        /\ Total(Costs(h)) <= TokenCeiling /\ TokenCeiling \in Nat /\ available \in Nat
        /\ available # 0 => Total(Costs(h)) + available <= TokenCeiling
    BY <1>1, AvailableFacts
  <1>3. k \in Histories
    BY <1>1 DEF TypeOK, Histories
  <1>4. PICK m : m = [h EXCEPT ![t] = [h[t] EXCEPT ![e] = k[t][e]]]
    OBVIOUS
  <1>5. /\ m \in Histories
        /\ m[t][e] = k[t][e]
        /\ \A u \in Tasks, g \in Execs : u # t \/ g # e => m[u][g] = h[u][g]
    BY <1>2, <1>3, <1>4 DEF Histories
  <1>6. /\ Spent(h[t][e]) \in Nat /\ Spent(h[t][f]) \in Nat
        /\ Spent(k[t][e]) \in Nat /\ Spent(k[t][f]) \in Nat
        /\ \A u \in Tasks, g \in Execs : Spent(h[u][g]) <= Spent(h[u][g])
    BY <1>2, <1>3, SpentType DEF Histories
  <1>7. Total(Costs(m)) + Spent(h[t][e]) <= Total(Costs(h)) + Spent(k[t][e])
    BY <1>2, <1>5, <1>6, CostsMove
  <1>8. Total(Costs(k)) + Spent(h[t][f]) <= Total(Costs(m)) + Spent(k[t][f])
    <2>1. \A u \in Tasks, g \in Execs : u # t \/ g # f => Spent(k[u][g]) <= Spent(m[u][g])
      <3> SUFFICES ASSUME NEW u \in Tasks, NEW g \in Execs, u # t \/ g # f
                   PROVE  Spent(k[u][g]) <= Spent(m[u][g])
        OBVIOUS
      <3>1. CASE u = t /\ g = e
        BY <1>5, <1>6, <3>1
      <3>2. CASE u # t \/ g # e
        BY <1>1, <1>5, <3>2
      <3> QED
        BY <3>1, <3>2
    <2>2. m[t][f] = h[t][f]
      BY <1>5
    <2> QED
      BY <1>3, <1>5, <2>1, <2>2, CostsMove
  <1>9. Total(Costs(m)) \in Nat /\ Total(Costs(k)) \in Nat
    BY <1>3, <1>5, CostsType
  <1>10. Spent(k[t][e]) + Spent(k[t][f]) <= Spent(h[t][e]) + Spent(h[t][f]) + available
    BY <1>1
  <1>11. Total(Costs(k)) <= Total(Costs(h)) + available
    BY <1>2, <1>6, <1>7, <1>8, <1>9, <1>10
  <1>12. Total(Costs(k)) <= TokenCeiling
    BY <1>2, <1>9, <1>11
  <1> QED
    BY <1>1, <1>12 DEF BudgetConserved, Costs

\* A new attempt costs its allowance, no attempt costs nothing.
LEMMA NewCosts ==
    ASSUME NEW e, NEW base, NEW allowance
    PROVE  /\ OpenAttempt(NewAttempt(e, base, allowance))
           /\ NewAttempt(e, base, allowance).used = 0
           /\ Spent(NewAttempt(e, base, allowance)) = allowance
           /\ ~OpenAttempt(NoAttempt) /\ Spent(NoAttempt) = 0
  BY DEF NewAttempt, NoAttempt, OpenAttempt, Spent

\* A step that changes the latest attempt of a task only, at no cost.
LEMMA BudgetReplaces ==
    ASSUME BudgetInv, TypeOK', NEW t \in Tasks, NEW e \in Execs, NEW b,
           att' = [att EXCEPT ![t] = [@ EXCEPT ![e] = b]],
           Spent(b) <= Spent(att[t][e]), OpenAttempt(b) => b.used = 0
    PROVE  OpenUnpaid' /\ BudgetConserved'
  <1>1. att \in Histories
    BY DEF BudgetInv, HistoryInv, TypeOK, Histories
  <1>2. /\ att'[t][e] = b
        /\ \A u \in Tasks, f \in Execs : u # t \/ f # e => att'[u][f] = att[u][f]
    BY <1>1 DEF Histories
  <1>3. \A u \in Tasks, f \in Execs : Spent(att[u][f]) <= Spent(att[u][f])
    BY <1>1, SpentType DEF Histories
  <1>4. \A u \in Tasks, f \in Execs : Spent(att'[u][f]) <= Spent(att[u][f])
    BY <1>2, <1>3
  <1>5. OpenUnpaid'
    BY <1>2 DEF BudgetInv, OpenUnpaid
  <1> QED
    BY <1>4, <1>5, BudgetLess

\* The commits of attach, record_question and record_candidate.
LEMMA CommitCosts ==
    ASSUME BudgetInv, TypeOK', NEW c \in Callers,
           \/ \E t \in Tasks, ready \in BOOLEAN : AttachWorktree(c, t, ready)
           \/ QuestionCommit(c) \/ CandidateCommit(c)
    PROVE  OpenUnpaid' /\ BudgetConserved'
  <1> USE DEF BudgetInv, HistoryInv
  <1>1. att \in Histories
    BY DEF TypeOK, Histories
  <1>2. ASSUME NEW t \in Tasks, NEW ready \in BOOLEAN, AttachWorktree(c, t, ready)
        PROVE  OpenUnpaid' /\ BudgetConserved'
    <2>1. PICK e : e = count[t]
      OBVIOUS
    <2>2. e \in Execs
      <3>1. count[t] \in 0..MaxExec /\ count[t] > 0
        BY <1>2 DEF TypeOK, AttachWorktree
      <3> QED
        BY <2>1, <3>1, SizesAssumption DEF Execs
    <2>3. PICK a \in Attempt : a = att[t][e]
      BY <1>1, <2>2 DEF Histories
    <2>4. PICK b : /\ b = [a EXCEPT !.tree = call[c].wave,
                                   !.state = IF ready THEN "running" ELSE a.state]
                   /\ att' = [att EXCEPT ![t] = [@ EXCEPT ![e] = b]]
                   /\ a.state \in {"preparing", "running"}
      BY <1>2, <2>1, <2>3 DEF AttachWorktree, Attachable, Replaced
    <2>5. /\ b.state \in {"preparing", "running"}
          /\ b.used = a.used /\ b.allow = a.allow /\ b.answered = a.answered
      BY <2>4 DEF Attempt
    <2>6. OpenAttempt(a) = OpenAttempt(b) /\ Spent(b) = Spent(a) /\ Spent(a) \in Nat
      BY <2>4, <2>5, SpentType DEF OpenAttempt, Spent
    <2>7. OpenAttempt(a) => a.used = 0
      BY <2>2, <2>3 DEF OpenUnpaid
    <2>8. Spent(b) <= Spent(att[t][e]) /\ (OpenAttempt(b) => b.used = 0)
      BY <2>3, <2>5, <2>6, <2>7
    <2> QED
      BY <2>2, <2>4, <2>8, BudgetReplaces
  <1>3. ASSUME QuestionCommit(c) \/ CandidateCommit(c)
        PROVE  OpenUnpaid' /\ BudgetConserved'
    <2>1. PICK t \in Tasks, e \in Execs : t = call[c].task /\ e = call[c].exec
      BY <1>3 DEF CallsNameAttempts, Naming, CandidateParts, QuestionCommit, CandidateCommit
    <2>2. PICK a \in Attempt : a = att[t][e]
      BY <1>1 DEF Histories
    <2>3. PICK b : /\ att' = [att EXCEPT ![t] = [@ EXCEPT ![e] = b]]
                   /\ a.state = "running"
                   /\ \/ b = [a EXCEPT !.state = "waiting_input", !.child = call[c].run,
                                       !.prompt = call[c].prompt]
                      \/ b = [a EXCEPT !.state = "candidate", !.child = call[c].run,
                                       !.used = call[c].used]
      BY <1>3, <2>1, <2>2 DEF QuestionCommit, CandidateCommit, Replaced, StillRunning, RunningAttempt
    <2>4. OpenAttempt(a) => a.used = 0
      BY <2>2 DEF OpenUnpaid
    <2>5. /\ b.allow = a.allow /\ b.answered = a.answered
          /\ b.state = "candidate" \/ (b.state = "waiting_input" /\ b.used = a.used)
      BY <2>3 DEF Attempt
    <2>6. b \in Attempt
      <3>1. att'[t][e] = b
        BY <1>1, <2>3 DEF Histories
      <3> QED
        BY <3>1 DEF TypeOK
    <2>7. Spent(b) <= Spent(a) /\ (OpenAttempt(b) => b.used = 0)
      <3>1. CASE b.state = "candidate" /\ ~a.answered
        <4>1. OpenAttempt(a) /\ ~OpenAttempt(b)
          BY <2>3, <3>1 DEF OpenAttempt
        <4> QED
          BY <2>5, <2>6, <4>1, SpentType
      <3>2. CASE b.state = "waiting_input" /\ b.used = a.used
        <4>1. OpenAttempt(a) = OpenAttempt(b)
          BY <2>3, <2>5, <3>2 DEF OpenAttempt
        <4> QED
          BY <2>4, <2>5, <2>6, <3>2, <4>1, SpentType DEF Spent
      <3>3. ~a.answered
        <4>1. e = count[t] /\ e # 0
          BY <1>3, <2>1 DEF QuestionCommit, CandidateCommit, StillRunning, Execs
        <4>2. TaskSound(tState[t], count[t], att[t])
          BY DEF HistorySound
        <4> QED
          BY <2>2, <4>1, <4>2 DEF TaskSound
      <3> QED
        BY <2>5, <3>1, <3>2, <3>3
    <2> QED
      BY <2>2, <2>3, <2>7, BudgetReplaces
  <1> QED
    BY <1>2, <1>3

\* The answered attempt hands its allowance on to the one that continues it.
LEMMA AnswerCosts ==
    ASSUME BudgetInv, TypeOK', NEW c \in Callers, AnswerCommit(c)
    PROVE  OpenUnpaid' /\ BudgetConserved'
  <1> USE DEF BudgetInv, HistoryInv
  <1>1. PICK t \in Tasks, e \in Execs : t = call[c].task /\ e = call[c].exec
    BY DEF CallsNameAttempts, Naming, CandidateParts, AnswerCommit
  <1>2. /\ e = count[t] /\ e < MaxExec /\ e \in Nat /\ e # 0
        /\ att[t][e].state = "waiting_input" /\ ~att[t][e].answered
        /\ att' = [att EXCEPT ![t] = Answered(t, e)]
    BY <1>1 DEF AnswerCommit, Execs
  <1>3. PICK f \in Execs : f = e + 1
    BY <1>2, SizesAssumption DEF Execs
  <1>4. att \in Histories
    BY DEF TypeOK, Histories
  <1>5. PICK a \in Attempt : a = att[t][e]
    BY <1>4 DEF Histories
  <1>6. PICK b, n : b = [a EXCEPT !.answered = TRUE] /\ n = Continued(a)
    OBVIOUS
  <1>7. /\ att'[t][e] = b /\ att'[t][f] = n
        /\ \A u \in Tasks, g \in Execs : u # t \/ g \notin {e, f} => att'[u][g] = att[u][g]
    <2>1. att'[t] = [att[t] EXCEPT ![e] = b, ![e + 1] = n]
      <3>1. att'[t] = Answered(t, e)
        BY <1>2, <1>4 DEF Histories
      <3>2. Answered(t, e) = [att[t] EXCEPT ![e] = [att[t][e] EXCEPT !.answered = TRUE],
                                            ![e + 1] = Continued(att[t][e])]
        BY DEF Answered
      <3> QED
        BY <1>5, <1>6, <3>1, <3>2
    <2>2. att[t] \in [Execs -> Attempt] /\ f # e
      BY <1>2, <1>3, <1>4 DEF Histories
    <2>3. att'[t][e] = b /\ att'[t][f] = n /\ \A g \in Execs \ {e, f} : att'[t][g] = att[t][g]
      BY <1>3, <2>1, <2>2
    <2>4. \A u \in Tasks : u # t => att'[u] = att[u]
      BY <1>2, <1>4 DEF Histories
    <2> QED
      BY <2>3, <2>4
  <1>8. att[t][f] = NoAttempt
    BY <1>2, <1>3 DEF HistorySound, TaskSound
  <1>9. OpenAttempt(a) /\ a.used = 0
    <2>1. OpenAttempt(a)
      BY <1>2, <1>5 DEF OpenAttempt
    <2> QED
      BY <1>5, <2>1 DEF OpenUnpaid
  <1>10. /\ b.used = 0 /\ b.answered = TRUE
         /\ n.used = 0 /\ n.allow = a.allow
    BY <1>6, <1>9 DEF Continued, Attempt
  <1>11. ~OpenAttempt(b) /\ Spent(b) = 0 /\ Spent(n) <= a.allow /\ Spent(n) \in Nat
    <2>1. b \in Attempt /\ n \in Attempt
      <3>1. att' \in Histories
        BY DEF TypeOK, Histories
      <3> QED
        BY <1>7, <3>1 DEF Histories
    <2>2. ~OpenAttempt(b)
      BY <1>10 DEF OpenAttempt
    <2>3. Spent(b) \in Nat /\ Spent(b) <= 0
      BY <1>10, <2>1, <2>2, SpentType
    <2>4. Spent(b) = 0
      BY <2>3
    <2> QED
      BY <1>10, <2>1, <2>2, <2>4, SpentType
  <1>12. Spent(a) = a.allow /\ a.allow \in Nat /\ Spent(att[t][f]) = 0
    BY <1>8, <1>9, SpentType, NewCosts
  <1>13. \A u \in Tasks, g \in Execs : Spent(att[u][g]) <= Spent(att[u][g])
    BY <1>4, SpentType DEF Histories
  <1>14. AvailableTokens \in Nat
    <2>1. PICK h : h = att
      OBVIOUS
    <2> QED
      BY <2>1, AvailableFacts
  <1>15. Spent(att'[t][e]) + Spent(att'[t][f]) <=
           Spent(att[t][e]) + Spent(att[t][f]) + AvailableTokens
    BY <1>5, <1>7, <1>11, <1>12, <1>14
  <1>16. BudgetConserved'
    <2>1. e # f
      BY <1>2, <1>3
    <2> QED
      BY <1>7, <1>13, <1>15, <2>1, BudgetPasses
  <1>17. OpenUnpaid'
    BY <1>7, <1>10 DEF OpenUnpaid
  <1> QED
    BY <1>16, <1>17

\* A failed attempt pays what it used, and its fallback gets at most what is
\* available then.
LEMMA FailureCosts ==
    ASSUME BudgetInv, TypeOK', NEW c \in Callers, NEW fallback \in BOOLEAN,
           FailureCommit(c, fallback)
    PROVE  OpenUnpaid' /\ BudgetConserved'
  <1> USE DEF BudgetInv, HistoryInv
  <1>1. PICK t \in Tasks, e \in Execs, used \in 0..MaxUse :
          t = call[c].task /\ e = call[c].exec /\ used = call[c].used
    <2>1. call[c].task \in Tasks /\ call[c].exec \in Execs /\ call[c].used \in 0..MaxUse
      BY TypeFacts DEF CallsNameAttempts, Naming, CandidateParts, FailureCommit, Call
    <2> QED
      BY <2>1
  <1>2. PICK projected, retry :
          /\ projected = ProjectedTokens(t, e, used)
          /\ retry = (MayRetry(e, projected) /\ fallback)
    OBVIOUS
  <1>3. att \in Histories
    BY DEF TypeOK, Histories
  <1>4. PICK a \in Attempt : a = att[t][e]
    BY <1>3 DEF Histories
  <1>5. PICK b, n : /\ b = [a EXCEPT !.state = "blocked", !.child = call[c].run, !.used = used]
                    /\ n = NewAttempt(e + 1, GraphHead, projected)
    OBVIOUS
  <1>6. /\ e = count[t] /\ e \in Nat /\ e # 0 /\ a.state = "running"
        /\ \/ /\ retry
              /\ att' = [att EXCEPT ![t] = [@ EXCEPT ![e] = b, ![e + 1] = n]]
           \/ att' = [att EXCEPT ![t] = [@ EXCEPT ![e] = b]]
    <2>1. e = count[t] /\ a.state = "running"
      BY <1>1, <1>4 DEF FailureCommit, StillRunning, RunningAttempt
    <2>2. e \in Nat /\ e # 0
      BY SizesAssumption DEF Execs
    <2>3. \/ /\ MayRetry(e, ProjectedTokens(t, e, call[c].used)) /\ fallback
             /\ att' = [att EXCEPT ![t] = [@ EXCEPT ![e] = b, ![e + 1] = n]]
          \/ att' = [att EXCEPT ![t] = [@ EXCEPT ![e] = b]]
      BY <1>1, <1>2, <1>4, <1>5 DEF FailureCommit, Replaced
    <2> QED
      BY <1>1, <1>2, <2>1, <2>2, <2>3
  <1>7. /\ OpenAttempt(a) /\ a.used = 0 /\ Spent(a) = a.allow /\ a.allow \in Nat
    <2>1. TaskSound(tState[t], count[t], att[t])
      BY DEF HistorySound
    <2>2. OpenAttempt(a)
      BY <1>4, <1>6, <2>1 DEF OpenAttempt, TaskSound
    <2> QED
      BY <1>4, <2>2, SpentType DEF OpenUnpaid
  <1>8. used \in Nat /\ b.state = "blocked" /\ b.used = used /\ b.allow = a.allow
    <2>1. call[c] \in Call
      BY DEF TypeOK
    <2>2. used \in Nat
      BY <1>1, <2>1, SizesAssumption DEF Call
    <2> QED
      BY <1>5, <2>2 DEF Attempt
  <1>9. ~OpenAttempt(b) /\ Spent(b) \in Nat /\ Spent(b) <= used /\ Spent(b) <= a.allow
    <2>1. ~OpenAttempt(b)
      BY <1>8 DEF OpenAttempt
    <2> QED
      BY <1>7, <1>8, <2>1 DEF Spent
  <1>10. CASE att' = [att EXCEPT ![t] = [@ EXCEPT ![e] = b]]
    <2>1. Spent(b) <= Spent(att[t][e]) /\ (OpenAttempt(b) => b.used = 0)
      BY <1>4, <1>7, <1>9
    <2> QED
      BY <1>10, <2>1, BudgetReplaces
  <1>11. CASE retry /\ att' = [att EXCEPT ![t] = [@ EXCEPT ![e] = b, ![e + 1] = n]]
    <2>1. projected > 0 /\ e < MaxExec
      BY <1>2, <1>11 DEF MayRetry
    <2>2. PICK f \in Execs : f = e + 1 /\ e # f
      BY <1>6, <2>1, SizesAssumption DEF Execs
    <2>3. AvailableTokens \in Nat
      <3>1. PICK h : h = att
        OBVIOUS
      <3> QED
        BY <3>1, AvailableFacts
    <2>4. projected = AvailableTokens + a.allow - used
      BY <1>2, <1>4, <2>1 DEF ProjectedTokens, Clamp
    <2>5. /\ att'[t][e] = b /\ att'[t][f] = n
          /\ \A u \in Tasks, g \in Execs : u # t \/ g \notin {e, f} => att'[u][g] = att[u][g]
      BY <1>3, <1>11, <2>2 DEF Histories
    <2>6. Spent(n) = projected /\ n.used = 0
      BY <1>5, NewCosts
    <2>7. Spent(att[t][f]) = 0
      <3>1. att[t][f] = NoAttempt
        BY <1>6, <2>2 DEF HistorySound, TaskSound
      <3> QED
        BY <3>1, NewCosts
    <2>8. Spent(att'[t][e]) + Spent(att'[t][f]) <=
            Spent(att[t][e]) + Spent(att[t][f]) + AvailableTokens
      BY <1>4, <1>7, <1>8, <1>9, <2>3, <2>4, <2>5, <2>6, <2>7
    <2>9. \A u \in Tasks, g \in Execs : Spent(att[u][g]) <= Spent(att[u][g])
      BY <1>3, SpentType DEF Histories
    <2>10. BudgetConserved'
      BY <2>2, <2>5, <2>8, <2>9, BudgetPasses
    <2>11. OpenUnpaid'
      BY <1>9, <2>5, <2>6 DEF OpenUnpaid
    <2> QED
      BY <2>10, <2>11
  <1> QED
    BY <1>6, <1>10, <1>11

\* The retry of a conflict gets what is available, the accepted candidates have
\* paid already.
LEMMA SettleCosts ==
    ASSUME BudgetInv, TypeOK', NEW c \in Callers, NEW r \in results, SettleCommit(c, r)
    PROVE  OpenUnpaid' /\ BudgetConserved'
  <1> USE DEF BudgetInv, HistoryInv
  <1>1. PICK available, k, retry :
          /\ available = AvailableTokens /\ k = r.conflict
          /\ retry = (k # 0 /\ MayRetry(count[k], available))
    OBVIOUS
  <1>2. /\ att' = SettledAttempts(r, retry, available)
        /\ \A x \in r.op.cands :
             (x \in r.accepted \/ x[1] = k) => x[2] = count[x[1]] /\ tState[x[1]] = "candidate"
    BY <1>1 DEF SettleCommit
  <1>3. /\ \A x \in r.accepted : x \in r.op.cands /\ x[1] # k
        /\ k # 0 => \E x \in r.op.cands : x[1] = k
    BY <1>1 DEF ResultsSound
  <1>4. att \in Histories /\ att' \in Histories
    BY DEF TypeOK, Histories
  <1>5. available \in Nat
    <2>1. PICK h : h = att
      OBVIOUS
    <2> QED
      BY <1>1, <2>1, AvailableFacts
  <1>6. ASSUME NEW t \in Tasks, tState[t] = "candidate"
        PROVE  /\ count[t] \in Execs /\ count[t] # 0 /\ count[t] \in Nat
               /\ att[t][count[t]] \in Attempt /\ att[t][count[t]].state = "candidate"
    <2>1. count[t] # 0
      BY <1>6 DEF HistorySound, TaskSound
    <2> QED
      BY <1>6, <2>1, LatestFacts DEF Execs
  <1>7. ASSUME NEW t \in Tasks, NEW e \in Execs, ~(retry /\ t = k /\ e = count[t] + 1)
        PROVE  /\ Spent(att'[t][e]) = Spent(att[t][e])
               /\ OpenAttempt(att'[t][e]) => att'[t][e].used = 0
    <2>1. att[t] \in [Execs -> Attempt]
      BY <1>4 DEF Histories
    <2>2. ASSUME att'[t][e] = att[t][e]
          PROVE  /\ Spent(att'[t][e]) = Spent(att[t][e])
                 /\ OpenAttempt(att'[t][e]) => att'[t][e].used = 0
      BY <2>2 DEF OpenUnpaid
    <2>3. ASSUME NEW a \in Attempt, NEW b, a = att[t][e], b = att'[t][e],
                 a.state = "candidate", b.state \in {"candidate", "integrated", "blocked"},
                 b.used = a.used, b.allow = a.allow
          PROVE  /\ Spent(att'[t][e]) = Spent(att[t][e])
                 /\ OpenAttempt(att'[t][e]) => att'[t][e].used = 0
      <3>1. ~OpenAttempt(a) /\ ~OpenAttempt(b)
        BY <2>3 DEF OpenAttempt
      <3>2. Spent(a) = Spent(b)
        BY <2>3, <3>1 DEF Spent
      <3> QED
        BY <2>3, <3>1, <3>2
    <2>4. CASE <<t, count[t]>> \in r.accepted
      <3>1. tState[t] = "candidate"
        BY <1>2, <1>3, <2>4
      <3>2. att'[t] = [att[t] EXCEPT ![count[t]] = [@ EXCEPT !.state = "integrated"]]
        BY <1>2, <2>4 DEF SettledAttempts
      <3>3. CASE e = count[t]
        <4>1. PICK a \in Attempt : a = att[t][e] /\ a.state = "candidate"
          BY <1>6, <3>1, <3>3
        <4>2. PICK b : b = att'[t][e] /\ b = [a EXCEPT !.state = "integrated"]
          BY <2>1, <3>2, <3>3, <4>1
        <4>3. b.state = "integrated" /\ b.used = a.used /\ b.allow = a.allow
          BY <4>2 DEF Attempt
        <4> QED
          BY <2>3, <4>1, <4>2, <4>3
      <3>4. CASE e # count[t]
        BY <2>1, <2>2, <3>2, <3>4
      <3> QED
        BY <3>3, <3>4
    <2>5. CASE <<t, count[t]>> \notin r.accepted /\ t # k
      BY <1>1, <1>2, <2>2, <2>5 DEF SettledAttempts
    <2>6. CASE <<t, count[t]>> \notin r.accepted /\ t = k
      <3>1. tState[t] = "candidate"
        <4>1. k # 0
          BY <2>6 DEF Tasks
        <4> QED
          BY <1>2, <1>3, <2>6, <4>1
      <3>2. \/ att'[t] = [att[t] EXCEPT ![count[t]] = [@ EXCEPT !.state = "blocked",
                                                                !.conflict = r.op]]
            \/ /\ retry
               /\ att'[t] = [att[t] EXCEPT ![count[t]] = [@ EXCEPT !.conflict = r.op],
                               ![count[t] + 1] = NewAttempt(count[t] + 1, r.final, available)]
        BY <1>1, <1>2, <2>6 DEF SettledAttempts
      <3>3. CASE e = count[t]
        <4>1. PICK a \in Attempt : a = att[t][e] /\ a.state = "candidate"
          BY <1>6, <3>1, <3>3
        <4>2. e # count[t] + 1
          BY <1>6, <3>1, <3>3
        <4>3. PICK b : b = att'[t][e] /\ b \in {[a EXCEPT !.state = "blocked", !.conflict = r.op],
                                                [a EXCEPT !.conflict = r.op]}
          BY <2>1, <3>2, <3>3, <4>1, <4>2
        <4>4. b.state \in {"candidate", "blocked"} /\ b.used = a.used /\ b.allow = a.allow
          BY <4>1, <4>3 DEF Attempt
        <4> QED
          BY <2>3, <4>1, <4>3, <4>4
      <3>4. CASE e # count[t]
        <4>1. ~retry \/ e # count[t] + 1
          BY <1>7, <2>6
        <4>2. att'[t][e] = att[t][e]
          BY <2>1, <3>2, <3>4, <4>1
        <4> QED
          BY <2>2, <4>2
      <3> QED
        BY <3>3, <3>4
    <2> QED
      BY <2>4, <2>5, <2>6
  <1>8. \A t \in Tasks, e \in Execs : Spent(att[t][e]) \in Nat
    BY <1>4, SpentType DEF Histories
  <1>9. CASE ~retry
    <2>1. \A t \in Tasks, e \in Execs : Spent(att'[t][e]) <= Spent(att[t][e])
      BY <1>7, <1>8, <1>9
    <2>2. OpenUnpaid'
      BY <1>7, <1>9 DEF OpenUnpaid
    <2> QED
      BY <2>1, <2>2, BudgetLess
  <1>10. CASE retry
    <2>1. k # 0 /\ \E x \in r.op.cands : x[1] = k /\ x[2] = count[k] /\ tState[k] = "candidate"
      BY <1>1, <1>2, <1>3, <1>10
    <2>2. k \in Tasks
      <3>1. k \in 0..NTasks
        BY <1>1 DEF TypeOK, Result
      <3> QED
        BY <2>1, <3>1, SizesAssumption DEF Tasks
    <2>3. PICK e \in Execs : e = count[k] /\ e \in Nat
      BY <1>6, <2>1, <2>2
    <2>4. PICK f \in Execs : f = e + 1 /\ f # e
      <3>1. e < MaxExec
        BY <1>1, <1>10, <2>3 DEF MayRetry
      <3> QED
        BY <2>3, <3>1, SizesAssumption DEF Execs
    <2>5. PICK n : n = NewAttempt(e + 1, r.final, available)
      OBVIOUS
    <2>6. <<k, count[k]>> \notin r.accepted
      BY <1>3
    <2>7. att'[k][f] = n
      <3>1. att'[k] = [att[k] EXCEPT ![e] = [@ EXCEPT !.conflict = r.op], ![e + 1] = n]
        BY <1>1, <1>2, <1>10, <2>2, <2>3, <2>5, <2>6 DEF SettledAttempts
      <3> QED
        BY <1>4, <2>2, <2>4, <3>1 DEF Histories
    <2>8. Spent(n) = available /\ n.used = 0
      BY <2>5, NewCosts
    <2>9. Spent(att[k][f]) = 0
      <3>1. att[k][f] = NoAttempt
        BY <2>2, <2>3, <2>4 DEF HistorySound, TaskSound
      <3> QED
        BY <3>1, NewCosts
    <2>10. \A u \in Tasks, g \in Execs : u # k \/ g # f =>
             /\ Spent(att'[u][g]) = Spent(att[u][g])
             /\ OpenAttempt(att'[u][g]) => att'[u][g].used = 0
      BY <1>7, <2>3, <2>4
    <2>11. Spent(att'[k][e]) + Spent(att'[k][f]) <=
             Spent(att[k][e]) + Spent(att[k][f]) + AvailableTokens
      BY <1>1, <1>5, <1>8, <2>2, <2>4, <2>7, <2>8, <2>9, <2>10
    <2>12. \A u \in Tasks, g \in Execs : u # k \/ g \notin {e, f} =>
             Spent(att'[u][g]) <= Spent(att[u][g])
      BY <1>8, <2>10
    <2>13. BudgetConserved'
      BY <2>2, <2>4, <2>11, <2>12, BudgetPasses
    <2>14. OpenUnpaid'
      BY <2>7, <2>8, <2>10 DEF OpenUnpaid
    <2> QED
      BY <2>13, <2>14
  <1> QED
    BY <1>9, <1>10

\* Histories whose first attempts share the available tokens.
LEMMA CostsShared ==
    ASSUME NEW h \in Histories, NEW k \in Histories,
           NEW A \in SUBSET Tasks, NEW share \in [A -> Nat],
           \A t \in Tasks, e \in Execs :
             Spent(k[t][e]) <= Spent(h[t][e]) + IF t \in A /\ e = 1 THEN share[t] ELSE 0
    PROVE  Total(Costs(k)) <= Total(Costs(h)) + Total(share)
  <1> DEFINE Given(s) == [x \in Commit |-> IF x[1] \in s /\ x[2] = 1 THEN share[x[1]] ELSE 0]
  <1>1. IsFiniteSet(A)
    <2>1. NTasks \in Int /\ IsFiniteSet(1..NTasks)
      BY SizesAssumption, FS_Interval
    <2>2. A \subseteq 1..NTasks
      BY DEF Tasks
    <2> QED
      BY <2>1, <2>2, FS_Subset
  <1>2. PICK G : Sums(G, share, A) /\ Total(share) = G[A]
    BY <1>1, TotalSums
  <1>3. \A s \in SUBSET A : Given(s) \in [Commit -> Nat]
    OBVIOUS
  <1> DEFINE B == {s \in SUBSET A : ~(Total(Given(s)) <= G[s])}
  <1>4. ASSUME NEW s \in B, \A u \in SUBSET s : u # s => u \notin B
        PROVE  FALSE
    <2>1. CASE s = {}
      <3>1. G[s] = 0
        BY <1>2, <2>1 DEF Sums
      <3>2. PICK z : z = Given(s)
        OBVIOUS
      <3>3. z \in [Commit -> Nat] /\ \A x \in Commit : z[x] = 0
        BY <2>1, <3>2
      <3>4. Total(z) = 0
        BY <3>3, CommitFinite, TotalZero
      <3> QED
        BY <3>1, <3>2, <3>4
    <2>2. CASE s # {}
      <3>1. PICK t \in s : TRUE
        BY <2>2
      <3>2. s \ {t} \in SUBSET A /\ s \ {t} \in SUBSET s /\ s \ {t} # s /\ s \in SUBSET A
        OBVIOUS
      <3>3. Total(Given(s \ {t})) <= G[s \ {t}]
        BY <1>4, <3>2
      <3>4. G[s] = share[t] + G[s \ {t}] /\ G[s \ {t}] \in Nat /\ share[t] \in Nat
        BY <1>2, <3>2 DEF Sums
      <3>5. PICK y, z : y = Given(s) /\ z = Given(s \ {t})
        OBVIOUS
      <3>6. y \in [Commit -> Nat] /\ z \in [Commit -> Nat]
        BY <1>3, <3>2, <3>5
      <3>7. PICK x \in Commit : x = <<t, 1>>
        <4>1. t \in Tasks /\ 1 \in Execs
          BY <3>1, <3>2, SizesAssumption DEF Execs
        <4> QED
          BY <4>1 DEF Commit
      <3>8. y[x] = share[t] /\ z[x] = 0
        BY <3>1, <3>5, <3>7
      <3>9. \A w \in Commit : w # x => y[w] <= z[w]
        <4> SUFFICES ASSUME NEW w \in Commit, w # x PROVE y[w] <= z[w]
          OBVIOUS
        <4>1. ~(w[1] = t /\ w[2] = 1)
          BY <3>7 DEF Commit
        <4>2. y[w] = z[w]
          BY <3>5, <4>1
        <4> QED
          BY <3>6, <4>2
      <3>10. Total(y) + z[x] <= Total(z) + y[x]
        BY <3>6, <3>9, CommitFinite, TotalMoves
      <3>11. Total(y) \in Nat /\ Total(z) \in Nat
        BY <3>6, CommitFinite, TotalType
      <3>12. Total(y) <= G[s]
        BY <3>3, <3>4, <3>5, <3>8, <3>10, <3>11
      <3> QED
        BY <3>5, <3>12
    <2> QED
      BY <2>1, <2>2
  <1>5. B = {}
    <2> SUFFICES ASSUME B # {} PROVE FALSE
      OBVIOUS
    <2>1. B \in SUBSET SUBSET A
      OBVIOUS
    <2> HIDE DEF B
    <2>2. PICK s \in B : \A u \in SUBSET s : u # s => u \notin B
      BY <1>1, <2>1, SmallestSet
    <2> QED
      BY <1>4, <2>2
  <1>6. Total(Given(A)) <= Total(share)
    BY <1>2, <1>5
  <1>7. PICK g : g = Given(A)
    OBVIOUS
  <1>8. g \in [Commit -> Nat]
    BY <1>3, <1>7
  <1>9. \A x \in Commit : Costs(k)[x] <= Costs(h)[x] + g[x]
    BY <1>7 DEF Costs, Commit
  <1>10. Total(Costs(k)) <= Total(Costs(h)) + Total(g)
    BY <1>8, <1>9, CostsType, CommitFinite, TotalBound
  <1>11. /\ Total(Costs(h)) \in Nat /\ Total(Costs(k)) \in Nat /\ Total(g) \in Nat
         /\ Total(share) \in Nat
    BY <1>1, <1>8, CostsType, CommitFinite, TotalType
  <1> QED
    BY <1>6, <1>7, <1>10, <1>11

\* The admitted tasks share what is available.
LEMMA AdmitCosts ==
    ASSUME BudgetInv, TypeOK', NEW c \in Callers, PrepareAdmit(c)
    PROVE  OpenUnpaid' /\ BudgetConserved'
  <1> USE DEF BudgetInv, HistoryInv
  <1>1. PICK available, A : available = AvailableTokens /\ A = Admitted(WaveSlots(available))
    OBVIOUS
  <1>2. PICK share \in [A -> 1..available] :
          /\ EvenShare(share, A, available)
          /\ att' = [t \in Tasks |->
                       IF t \in A THEN [att[t] EXCEPT ![1] = NewAttempt(1, call[c].head, share[t])]
                       ELSE att[t]]
    <2> DEFINE open == AvailableTokens
               admitted == Admitted(WaveSlots(open))
    <2>1. PICK share \in [admitted -> 1..open] :
            /\ EvenShare(share, admitted, open)
            /\ att' = [t \in Tasks |->
                         IF t \in admitted
                         THEN [att[t] EXCEPT ![1] = NewAttempt(1, call[c].head, share[t])]
                         ELSE att[t]]
      BY DEF PrepareAdmit
    <2>2. open = available /\ admitted = A
      BY <1>1
    <2> HIDE DEF open, admitted
    <2> QED
      BY <2>1, <2>2
  <1>3. PICK h, k : h = att /\ k = att'
    OBVIOUS
  <1>4. /\ h \in Histories /\ Total(Costs(h)) \in Nat /\ TokenCeiling \in Nat
        /\ Total(Costs(h)) <= TokenCeiling /\ available \in Nat
        /\ available # 0 => Total(Costs(h)) + available <= TokenCeiling
    BY <1>1, <1>3, AvailableFacts
  <1>5. k \in Histories
    BY <1>3 DEF TypeOK, Histories
  <1>6. A \in SUBSET Tasks /\ \A t \in A : count[t] = 0
    BY <1>1 DEF Admitted, Ready, HistorySound, TaskSound
  <1>7. ASSUME NEW t \in Tasks, NEW e \in Execs
        PROVE  /\ Spent(k[t][e]) <= Spent(h[t][e]) + IF t \in A /\ e = 1 THEN share[t] ELSE 0
               /\ OpenAttempt(k[t][e]) => k[t][e].used = 0
    <2>1. h[t] \in [Execs -> Attempt] /\ Spent(h[t][e]) \in Nat
      BY <1>4, SpentType DEF Histories
    <2>2. CASE t \in A /\ e = 1
      <3>1. PICK n : n = NewAttempt(1, call[c].head, share[t]) /\ k[t][e] = n
        BY <1>2, <1>3, <2>1, <2>2
      <3>2. Spent(n) = share[t] /\ n.used = 0 /\ share[t] \in Nat
        BY <1>2, <1>4, <2>2, <3>1, NewCosts
      <3> QED
        BY <2>1, <2>2, <3>1, <3>2
    <2>3. CASE ~(t \in A /\ e = 1)
      <3>1. k[t][e] = h[t][e]
        BY <1>2, <1>3, <2>1, <2>3
      <3>2. OpenAttempt(h[t][e]) => h[t][e].used = 0
        BY <1>3 DEF OpenUnpaid
      <3> QED
        BY <2>1, <2>3, <3>1, <3>2
    <2> QED
      BY <2>2, <2>3
  <1>8. share \in [A -> Nat] /\ Total(share) = available
    BY <1>2, <1>4 DEF EvenShare
  <1>9. Total(Costs(k)) <= Total(Costs(h)) + available
    BY <1>4, <1>5, <1>6, <1>7, <1>8, CostsShared
  <1>10. Total(Costs(k)) <= TokenCeiling
    <2>1. Total(Costs(k)) \in Nat
      BY <1>5, CostsType
    <2> QED
      BY <1>4, <1>9, <2>1
  <1>11. OpenUnpaid'
    BY <1>3, <1>7 DEF OpenUnpaid
  <1> QED
    BY <1>3, <1>10, <1>11 DEF BudgetConserved, Costs

-----------------------------------------------------------------------------
(* The theorem *)

\* Every other step leaves the attempts as they are.
LEMMA OtherCosts ==
    ASSUME BudgetInv, UNCHANGED att
    PROVE  OpenUnpaid' /\ BudgetConserved'
  BY DEF BudgetInv, OpenUnpaid, BudgetConserved

\* Every step keeps the budget.
LEMMA StepBudget == BudgetInv /\ [Next]_vars => BudgetInv'
  <1> SUFFICES ASSUME BudgetInv, [Next]_vars PROVE BudgetInv'
    OBVIOUS
  <1>1. HistoryInv'
    BY StepType, StepGood, GoodIsSound DEF BudgetInv, HistoryInv
  <1>2. TypeOK'
    BY <1>1 DEF HistoryInv
  <1>3. ASSUME NEW c \in Callers, ServiceStep(c)
        PROVE  OpenUnpaid' /\ BudgetConserved'
    <2>1. CASE \/ \E t \in Tasks, ready \in BOOLEAN : AttachWorktree(c, t, ready)
               \/ QuestionCommit(c) \/ CandidateCommit(c)
      BY <1>2, <2>1, CommitCosts
    <2>2. CASE PrepareAdmit(c)
      BY <1>2, <2>2, AdmitCosts
    <2>3. CASE AnswerCommit(c)
      BY <1>2, <2>3, AnswerCosts
    <2>4. CASE \E fallback \in BOOLEAN : FailureCommit(c, fallback)
      BY <1>2, <2>4, FailureCosts
    <2>5. CASE \E r \in results : SettleCommit(c, r)
      BY <1>2, <2>5, SettleCosts
    <2>10. CASE PrepareRead(c) \/ PrepareResume(c) \/ PrepareReturn(c)
      <3>1. UNCHANGED att
        BY <2>10 DEF PrepareRead, PrepareResume, PrepareReturn, journal
      <3> QED
        BY <3>1, OtherCosts
    <2>6. CASE \E x \in Commit, k \in 1..MaxCopies : StartChild(c, x, k)
      <3>1. UNCHANGED att
        BY <2>6 DEF StartChild, journal
      <3> QED
        BY <3>1, OtherCosts
    <2>11. CASE \E r \in runs, e \in Execs : \/ QuestionLoad(c, r, e) \/ AnswerLoad(c, r, e)
                                              \/ FailureLoad(c, r, e)
      <3>1. PICK r \in runs, e \in Execs : \/ QuestionLoad(c, r, e) \/ AnswerLoad(c, r, e)
                                            \/ FailureLoad(c, r, e)
        BY <2>11
      <3>2. UNCHANGED journal
        BY <3>1 DEF QuestionLoad, AnswerLoad, FailureLoad
      <3> QED
        BY <3>2, OtherCosts DEF journal
    <2>12. CASE \/ \E w, t, x : CandidateLoad(c, w, t, x)
                \/ CandidateReads(c)
      <3>1. UNCHANGED journal
        <4>1. CASE CandidateReads(c)
          BY <4>1, CandidateReadsHold DEF BudgetInv, HistoryInv
        <4>2. ASSUME NEW w, NEW t, NEW x, CandidateLoad(c, w, t, x)
              PROVE  UNCHANGED journal
          BY <4>2 DEF CandidateLoad
        <4> QED
          BY <2>12, <4>1, <4>2
      <3> QED
        BY <3>1, OtherCosts DEF journal
    <2>7. CASE FailureReplay(c) \/ IntegrateReplay(c) \/ SettleReplay(c) \/ CallEnds(c)
      <3>1. UNCHANGED att
        BY <2>7 DEF FailureReplay, IntegrateReplay, SettleReplay, CallEnds, journal
      <3> QED
        BY <3>1, OtherCosts
    <2>8. CASE \E w \in DOMAIN waves : SettleResume(c, w) \/ SettleLoad(c, w)
      <3>1. UNCHANGED att
        BY <2>8 DEF SettleResume, SettleLoad, journal
      <3> QED
        BY <3>1, OtherCosts
    <2>9. CASE SettleIntent(c) \/ \E conflict \in 0..NTasks : Integrate(c, conflict)
      <3>1. UNCHANGED att
        BY <2>9 DEF SettleIntent, Integrate, journal
      <3> QED
        BY <3>1, OtherCosts
    <2> QED
      BY <1>3, <2>1, <2>2, <2>3, <2>4, <2>5, <2>6, <2>7, <2>8, <2>9, <2>10, <2>11,
         <2>12 DEF ServiceStep
  <1>4. ASSUME \/ ChildStep
               \/ \E disposition \in Dispositions, given \in BOOLEAN :
                    Terminalize(disposition, given)
               \/ WallExpires
               \/ UNCHANGED vars
        PROVE  OpenUnpaid' /\ BudgetConserved'
    <2>1. UNCHANGED att
      BY <1>4 DEF ChildStep, TaskContext, ChildCompletes, ChildFails, ChildAsks, HumanReplies,
                  NextGeneration, Terminalize, WallExpires, vars, journal
    <2> QED
      BY <2>1, OtherCosts
  <1>5. OpenUnpaid' /\ BudgetConserved'
    BY <1>3, <1>4 DEF Next
  <1> QED
    BY <1>1, <1>5 DEF BudgetInv

\* A journal without attempts has spent nothing.
LEMMA InitBudget == Init => BudgetInv
  <1> SUFFICES ASSUME Init PROVE BudgetInv
    OBVIOUS
  <1>1. HistoryInv
    <2>1. CallsNameAttempts
      BY DEF Init, CallsNameAttempts, Naming, CandidateParts, Idle
    <2> QED
      BY <2>1, InitType, InitSound DEF HistoryInv
  <1>2. PICK h : h = att
    OBVIOUS
  <1>3. \A t \in Tasks, e \in Execs : h[t][e] = NoAttempt
    BY <1>2 DEF Init
  <1>4. \A x \in Commit : Costs(h)[x] = 0
    <2>1. \A x \in Commit : h[x[1]][x[2]] = NoAttempt
      BY <1>3 DEF Commit
    <2> QED
      BY <2>1, NewCosts DEF Costs
  <1>5. h \in Histories
    BY <1>1, <1>2 DEF HistoryInv, TypeOK, Histories
  <1>6. Total(Costs(h)) = 0
    BY <1>4, <1>5, CostsType, CommitFinite, TotalZero
  <1>7. BudgetConserved
    BY <1>2, <1>6, SizesAssumption DEF BudgetConserved, Costs
  <1>8. OpenUnpaid
    BY <1>2, <1>3, NewCosts DEF OpenUnpaid
  <1> QED
    BY <1>1, <1>7, <1>8 DEF BudgetInv

\* The tokens granted to the live attempts and paid for by the closed ones never
\* exceed the ceiling of the delivery, for any ceiling, number of tasks and
\* interleaving of callers: a wave shares out what is neither used nor reserved,
\* an answer hands the allowance of its question on, a fallback gets what the
\* failed attempt left, and the retry of a conflict what is left altogether
\* (ReserveWaveTokens, RecordAnswer, recordFailure, settleWave).
THEOREM BudgetIsConserved == Spec => []BudgetConserved
  <1>1. BudgetInv => BudgetConserved
    BY DEF BudgetInv
  <1> QED
    BY <1>1, InitBudget, StepBudget, PTL DEF Spec
=============================================================================
