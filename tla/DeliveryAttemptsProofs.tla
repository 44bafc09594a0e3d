----------------------- MODULE DeliveryAttemptsProofs -----------------------
(***************************************************************************)
(* Proofs about DeliveryAttempts, for every ceiling and every bound.  One  *)
(* inductive invariant, Inv, carries all results: what the holder of the   *)
(* lock relies on, which attempts have a run, whose run it is, and which   *)
(* start commands may still create a run nobody waits for.                 *)
(***************************************************************************)
EXTENDS DeliveryAttempts, TotalTheorems

\* Whoever holds the lock works on the planned attempt of an active delivery,
\* and waits for a start command sent for it.
LockInv ==
    /\ lock.op = "free" => lock = Free
    /\ lock # Free => dState = "active" /\ LatestIs("planned")
    /\ lock.op = "start" => lock.run \in DOMAIN runs /\ runs[lock.run].attempt = Latest

\* Every attempt but the latest is settled; an attempt has a run exactly when
\* it is not planned, and the run was sent for it.
AttemptsInv ==
    \A n \in DOMAIN attempts :
        /\ n < Latest => attempts[n].state = "terminal"
        /\ attempts[n].state = "planned" <=> attempts[n].run = NoRun
        /\ attempts[n].run # NoRun =>
             attempts[n].run \in DOMAIN runs /\ runs[attempts[n].run].attempt = n

\* A start command on its way is the lock holder's, or was given up.
SentInv ==
    \A i \in DOMAIN runs :
        runs[i].status = "sent" /\ ~runs[i].late => lock = [op |-> "start", run |-> i]

\* An active delivery is settled up to a failure with a task to fall back on,
\* and only the settlement of the latest attempt makes a delivery done.
StateInv ==
    /\ dState = "active" /\ LatestIs("terminal") =>
         attempts[Latest].status = "failed" /\ attempts[Latest].failed
    /\ dState = "done" => LatestIs("terminal")

Inv == /\ TypeOK /\ LockInv /\ AttemptsInv /\ SentInv /\ StateInv
       /\ OneRunPerAttempt /\ SuccessorIsRecovery

-----------------------------------------------------------------------------
(* Inv is inductive. *)

\* A delivery without attempts satisfies it.
LEMMA InitInv == Init => Inv
<1> SUFFICES ASSUME Init PROVE Inv
  OBVIOUS
<1> USE DEF Init
<1>1. TypeOK
  <2>1. EmptyGraph \in Graph
    BY BoundsAssumption DEF EmptyGraph, Graph
  <2>2. Free \in Lock
    BY DEF Free, Lock, NoRun
  <2>3. attempts \in Seq(Attempt) /\ runs \in Seq(Run)
    OBVIOUS
  <2> QED BY <2>1, <2>2, <2>3 DEF TypeOK
<1>2. LockInv /\ AttemptsInv /\ SentInv /\ StateInv
  BY DEF LockInv, AttemptsInv, SentInv, StateInv, LatestIs, Latest, Free
<1>3. OneRunPerAttempt /\ SuccessorIsRecovery
  BY DEF OneRunPerAttempt, SuccessorIsRecovery
<1> QED
  BY <1>1, <1>2, <1>3 DEF Inv

\* Plan: the new attempt is planned, the lock looks for its run.
LEMMA PlanInv ==
    ASSUME Inv, NEW prior, Plan(prior)
    PROVE  Inv'
<1> USE DEF Inv
<1>1. CASE LatestIs("planned")
  <2> USE <1>1 DEF Plan
  <2>1. TypeOK'
    BY DEF TypeOK, Free, Lock, NoRun
  <2>2. LockInv'
    BY DEF LockInv, LatestIs, Latest, Free
  <2>3. AttemptsInv' /\ StateInv'
    BY DEF AttemptsInv, StateInv, LatestIs, Latest
  <2>4. SentInv'
    BY DEF SentInv, Free
  <2>5. OneRunPerAttempt' /\ SuccessorIsRecovery'
    BY DEF OneRunPerAttempt, SuccessorIsRecovery, Latest
  <2> QED BY <2>1, <2>2, <2>3, <2>4, <2>5
<1>2. CASE ~LatestIs("planned")
  <2>1. /\ attempts' = Append(attempts, Planned)
        /\ lock = Free /\ lock' = [Free EXCEPT !.op = "lookup"]
        /\ dState = "active"
        /\ UNCHANGED <<dState, lapsed, tree, graph, runs>>
    BY <1>2 DEF Plan
  <2>2. Latest = 0 \/ LatestIs("terminal")
    <3>1. Latest > 0 => attempts[Latest].state \in {"planned", "submitted", "terminal"}
      <4>1. ASSUME Latest > 0 PROVE attempts[Latest] \in Attempt
        BY <4>1 DEF TypeOK, Latest
      <4> QED BY <4>1 DEF Attempt
    <3>2. Follows(prior) /\ Latest \in Nat
      BY DEF Plan, TypeOK, Latest
    <3> QED BY <1>2, <3>1, <3>2 DEF Follows, LatestIs
  <2>3. attempts \in Seq(Attempt) /\ Planned \in Attempt
    BY DEF TypeOK, Planned, Attempt, NoRun
  <2>4. /\ Len(attempts') = Len(attempts) + 1
        /\ \A n \in 1..Len(attempts) : attempts'[n] = attempts[n]
        /\ attempts'[Len(attempts) + 1] = Planned
        /\ attempts' \in Seq(Attempt)
    BY <2>1, <2>3
  <2>5. TypeOK'
    BY <2>1, <2>4 DEF TypeOK, Free, Lock, NoRun
  <2>6. LockInv'
    BY <2>1, <2>3, <2>4 DEF LockInv, LatestIs, Latest, Free, Planned
  <2>7. AttemptsInv'
    <3> SUFFICES ASSUME NEW n \in 1..(Len(attempts) + 1)
                 PROVE  /\ n < Latest' => attempts'[n].state = "terminal"
                        /\ attempts'[n].state = "planned" <=> attempts'[n].run = NoRun
                        /\ attempts'[n].run # NoRun =>
                             /\ attempts'[n].run \in DOMAIN runs'
                             /\ runs'[attempts'[n].run].attempt = n
      BY <2>3, <2>4 DEF AttemptsInv
    <3>1. CASE n = Len(attempts) + 1
      BY <3>1, <2>3, <2>4 DEF Latest, Planned
    <3>2. CASE n \in 1..Len(attempts)
      BY <3>2, <2>1, <2>2, <2>3, <2>4 DEF AttemptsInv, Latest, LatestIs
    <3> QED BY <3>1, <3>2, <2>3
  <2>8. SentInv' /\ StateInv'
    BY <2>1, <2>3, <2>4 DEF SentInv, StateInv, LatestIs, Latest, Planned, Free
  <2>9. OneRunPerAttempt'
    BY <2>1 DEF OneRunPerAttempt
  <2>10. SuccessorIsRecovery'
    BY <2>1, <2>2, <2>3, <2>4 DEF SuccessorIsRecovery, StateInv, LatestIs, Latest
  <2> QED BY <2>5, <2>6, <2>7, <2>8, <2>9, <2>10
<1> QED BY <1>1, <1>2

\* Adopt and StartReturns: the planned attempt is submitted with its run.
LEMMA SubmitInv ==
    ASSUME Inv, NEW i \in DOMAIN runs,
           lock.op = "lookup" \/ (lock.op = "start" /\ lock.run = i),
           runs[i].attempt = Latest, runs[i].status # "sent",
           Submits(i), UNCHANGED <<dState, lapsed, tree, graph, runs>>
    PROVE  Inv'
<1> USE DEF Inv
<1> DEFINE rec == [attempts[Latest] EXCEPT !.state = "submitted", !.run = i]
<1>1. /\ lock # Free /\ LatestIs("planned") /\ lock' = Free /\ dState = "active"
      /\ attempts' = [attempts EXCEPT ![Latest] = rec]
  BY DEF LockInv, Submits, Free
<1>2. attempts \in Seq(Attempt) /\ runs \in Seq(Run) /\ Latest \in 1..Len(attempts)
  BY <1>1 DEF TypeOK, LatestIs, Latest
<1>3. attempts[Latest] \in Attempt /\ i \in Nat \ {NoRun}
  BY <1>2 DEF NoRun
<1>4. rec \in Attempt /\ rec.state = "submitted" /\ rec.run = i
  BY <1>3 DEF Attempt
<1> HIDE DEF rec
<1>5. /\ attempts' \in Seq(Attempt)
      /\ Len(attempts') = Len(attempts)
      /\ attempts'[Latest] = rec
      /\ \A n \in 1..Len(attempts) : n # Latest => attempts'[n] = attempts[n]
  BY <1>1, <1>2, <1>4
<1>6. TypeOK'
  BY <1>1, <1>5 DEF TypeOK, Free, Lock, NoRun
<1>7. LockInv' /\ SentInv'
  BY <1>1 DEF LockInv, SentInv, Free
<1>8. AttemptsInv'
  <2> SUFFICES ASSUME NEW n \in 1..Len(attempts)
               PROVE  /\ n < Latest => attempts'[n].state = "terminal"
                      /\ attempts'[n].state = "planned" <=> attempts'[n].run = NoRun
                      /\ attempts'[n].run # NoRun =>
                           /\ attempts'[n].run \in DOMAIN runs
                           /\ runs[attempts'[n].run].attempt = n
    BY <1>2, <1>5 DEF AttemptsInv, Latest
  <2>1. CASE n = Latest
    BY <2>1, <1>2, <1>3, <1>4, <1>5
  <2>2. CASE n # Latest
    BY <2>2, <1>2, <1>5 DEF AttemptsInv
  <2> QED BY <2>1, <2>2
<1>9. StateInv' /\ OneRunPerAttempt'
  BY <1>1, <1>2, <1>4, <1>5 DEF StateInv, OneRunPerAttempt, LatestIs, Latest
<1>10. SuccessorIsRecovery'
  BY <1>2, <1>5 DEF SuccessorIsRecovery, Latest
<1> QED BY <1>6, <1>7, <1>8, <1>9, <1>10

\* Exhaust, Ambiguous and Terminalize close an active delivery and leave the
\* lock free.
LEMMA CloseInv ==
    ASSUME Inv, dState' \in {"blocked", "exhausted"},
           lock.op # "start", lock' = Free,
           UNCHANGED <<attempts, lapsed, tree, graph, runs>>
    PROVE  Inv'
<1> USE DEF Inv
<1>1. TypeOK'
  BY DEF TypeOK, Free, Lock, NoRun
<1>2. LockInv' /\ SentInv' /\ StateInv'
  BY DEF LockInv, SentInv, StateInv, Free
<1>3. AttemptsInv' /\ OneRunPerAttempt' /\ SuccessorIsRecovery'
  BY DEF AttemptsInv, OneRunPerAttempt, SuccessorIsRecovery, Latest
<1> QED BY <1>1, <1>2, <1>3

\* Send: every earlier start command of the attempt was given up and has
\* created no run yet.
LEMMA SendInv == ASSUME Inv, Send PROVE Inv'
<1> USE DEF Inv
<1> DEFINE k == Len(runs) + 1
<1>1. /\ lock.op = "lookup" /\ Matches(Latest) = {}
      /\ runs' = Append(runs, Sent(Latest))
      /\ lock' = [op |-> "start", run |-> k]
      /\ UNCHANGED <<dState, attempts, lapsed, tree, graph>>
  BY DEF Send
<1>2. attempts \in Seq(Attempt) /\ runs \in Seq(Run) /\ Latest \in Nat
  BY DEF TypeOK, Latest
<1>3. Sent(Latest) \in Run
  BY <1>2, BoundsAssumption DEF Sent, Run
<1>4. /\ runs' \in Seq(Run)
      /\ DOMAIN runs' = 1..k
      /\ runs'[k] = Sent(Latest)
      /\ \A i \in 1..Len(runs) : runs'[i] = runs[i]
  BY <1>1, <1>2, <1>3
<1>5. \A i \in 1..Len(runs) : runs[i].attempt = Latest => runs[i].late
  <2> SUFFICES ASSUME NEW i \in 1..Len(runs), runs[i].attempt = Latest
               PROVE  runs[i].late
    OBVIOUS
  <2>1. runs[i].status = "sent"
    BY <1>1, <1>2 DEF Matches
  <2> QED BY <2>1, <1>1, <1>2 DEF SentInv, TypeOK, Run
<1>6. TypeOK'
  BY <1>1, <1>2, <1>4 DEF TypeOK, Lock
<1>7. LockInv'
  BY <1>1, <1>2, <1>4 DEF LockInv, LatestIs, Latest, Free, Sent
<1>8. AttemptsInv' /\ StateInv' /\ SuccessorIsRecovery'
  BY <1>1, <1>2, <1>4 DEF AttemptsInv, StateInv, SuccessorIsRecovery, LatestIs, Latest
<1>9. SentInv'
  BY <1>1, <1>2, <1>4 DEF SentInv
<1>10. OneRunPerAttempt'
  BY <1>1, <1>2, <1>4, <1>5 DEF OneRunPerAttempt, Sent
<1> QED BY <1>6, <1>7, <1>8, <1>9, <1>10

\* GiveUp, RunCreated and RunEnds change one run, which keeps its attempt and
\* is late if it was.
LEMMA RunInv ==
    ASSUME Inv, NEW i \in DOMAIN runs, NEW r \in Run,
           r.attempt = runs[i].attempt, runs[i].late => r.late,
           runs' = [runs EXCEPT ![i] = r],
           r.status # "sent" \/ r.late,
           lock' = lock \/ (lock' = Free /\ (lock.op = "start" => lock.run = i)),
           UNCHANGED <<dState, attempts, lapsed, tree, graph>>
    PROVE  Inv'
<1> USE DEF Inv
<1>1. attempts \in Seq(Attempt) /\ runs \in Seq(Run) /\ lock \in Lock /\ lock' \in Lock
  BY DEF TypeOK, Free, Lock, NoRun
<1>2. /\ runs' \in Seq(Run)
      /\ DOMAIN runs' = DOMAIN runs
      /\ runs'[i] = r
      /\ \A j \in DOMAIN runs : j # i => runs'[j] = runs[j]
  BY <1>1
<1>3. \A j \in DOMAIN runs : /\ runs'[j].attempt = runs[j].attempt
                             /\ runs[j].late => runs'[j].late
  BY <1>2
<1>4. TypeOK'
  BY <1>1, <1>2 DEF TypeOK
<1>5. LockInv'
  BY <1>2, <1>3 DEF LockInv, LatestIs, Latest, Free
<1>6. AttemptsInv' /\ StateInv' /\ SuccessorIsRecovery'
  BY <1>2, <1>3 DEF AttemptsInv, StateInv, SuccessorIsRecovery, LatestIs, Latest
<1>7. SentInv'
  <2> SUFFICES ASSUME NEW j \in DOMAIN runs,
                      runs'[j].status = "sent", ~runs'[j].late
               PROVE  lock' = [op |-> "start", run |-> j]
    BY <1>2 DEF SentInv
  <2>1. j # i /\ runs'[j] = runs[j]
    BY <1>2
  <2>2. lock = [op |-> "start", run |-> j]
    BY <2>1 DEF SentInv
  <2> QED BY <2>1, <2>2
<1>8. OneRunPerAttempt'
  BY <1>2, <1>3 DEF OneRunPerAttempt
<1> QED BY <1>4, <1>5, <1>6, <1>7, <1>8

\* RunWorks, GraphMoves and DeadlinePasses move what Inv does not constrain.
LEMMA OutsideInv ==
    ASSUME Inv, tree' \in Nat, graph' \in Graph, lapsed' \in BOOLEAN,
           UNCHANGED <<dState, attempts, runs, lock>>
    PROVE  Inv'
<1> USE DEF Inv
<1>1. TypeOK' /\ LockInv' /\ AttemptsInv'
  BY DEF TypeOK, LockInv, AttemptsInv, LatestIs, Latest
<1>2. SentInv' /\ StateInv' /\ OneRunPerAttempt' /\ SuccessorIsRecovery'
  BY DEF SentInv, StateInv, OneRunPerAttempt, SuccessorIsRecovery, LatestIs, Latest
<1> QED BY <1>1, <1>2

\* Reconcile settles the submitted attempt; the delivery stays active only
\* after a failure with a task to fall back on.
LEMMA ReconcileInv == ASSUME Inv, Reconcile PROVE Inv'
<1> USE DEF Inv
<1> DEFINE run == runs[attempts[Latest].run]
           rec == [attempts[Latest] EXCEPT !.state = "terminal",
                     !.status = run.evidence,
                     !.failed = graph.owned /\ graph.fallback,
                     !.graphTokens = GraphUsage,
                     !.reviewTokens = run.review, !.seen = tree]
<1>1. /\ lock = Free /\ LatestIs("submitted") /\ run.evidence # "none"
      /\ GraphUsage \in Nat
      /\ attempts' = [attempts EXCEPT ![Latest] = rec]
      /\ dState' = Disposition(run.evidence)
      /\ UNCHANGED <<lapsed, tree, graph, runs, lock>>
  BY DEF Reconcile
<1>2. /\ attempts \in Seq(Attempt) /\ runs \in Seq(Run) /\ Latest \in 1..Len(attempts)
      /\ attempts[Latest] \in Attempt /\ graph \in Graph /\ tree \in Nat
  BY <1>1 DEF TypeOK, LatestIs, Latest
<1>3. /\ attempts[Latest].run # NoRun
      /\ attempts[Latest].run \in DOMAIN runs
      /\ runs[attempts[Latest].run].attempt = Latest
  BY <1>1, <1>2 DEF AttemptsInv, LatestIs
<1>4. run \in Run /\ run.evidence \in Terminal /\ run.review \in Nat
  <2>1. run \in Run
    BY <1>2, <1>3
  <2> QED BY <2>1, <1>1, BoundsAssumption DEF Run
<1>5. (graph.owned /\ graph.fallback) \in BOOLEAN
  OBVIOUS
<1>6. /\ rec \in Attempt
      /\ rec.state = "terminal" /\ rec.run = attempts[Latest].run
      /\ rec.status = run.evidence
      /\ graph.owned /\ graph.fallback => rec.failed
  BY <1>1, <1>2, <1>4, <1>5 DEF Attempt
<1>7. /\ dState' \in {"active", "done", "blocked", "exhausted"}
      /\ dState' = "active" => run.evidence = "failed" /\ graph.owned /\ graph.fallback
  BY <1>1, <1>4 DEF Disposition, AfterFailure, Terminal
<1> HIDE DEF run, rec
<1>8. /\ attempts' \in Seq(Attempt)
      /\ Len(attempts') = Len(attempts)
      /\ attempts'[Latest] = rec
      /\ \A n \in 1..Len(attempts) : n # Latest => attempts'[n] = attempts[n]
  BY <1>1, <1>2, <1>6
<1>9. UNCHANGED <<lapsed, tree, graph, runs, lock>>
  BY <1>1
<1>10. dState' = "active" => rec.status = "failed" /\ rec.failed
  BY <1>6, <1>7
<1>11. TypeOK'
  BY <1>9, <1>7, <1>8 DEF TypeOK
<1>12. LockInv' /\ SentInv' /\ OneRunPerAttempt'
  BY <1>1 DEF LockInv, SentInv, OneRunPerAttempt, Free
<1>13. AttemptsInv'
  <2> SUFFICES ASSUME NEW n \in 1..Len(attempts)
               PROVE  /\ n < Latest => attempts'[n].state = "terminal"
                      /\ attempts'[n].state = "planned" <=> attempts'[n].run = NoRun
                      /\ attempts'[n].run # NoRun =>
                           /\ attempts'[n].run \in DOMAIN runs
                           /\ runs[attempts'[n].run].attempt = n
    BY <1>9, <1>2, <1>8 DEF AttemptsInv, Latest
  <2>1. CASE n = Latest
    BY <2>1, <1>2, <1>3, <1>6, <1>8
  <2>2. CASE n # Latest
    BY <2>2, <1>2, <1>8 DEF AttemptsInv
  <2> QED BY <2>1, <2>2
<1>14. StateInv'
  BY <1>10, <1>2, <1>6, <1>8 DEF StateInv, LatestIs, Latest
<1>15. SuccessorIsRecovery'
  BY <1>2, <1>8 DEF SuccessorIsRecovery, Latest
<1> QED BY <1>11, <1>12, <1>13, <1>14, <1>15

\* Every step keeps the invariant.
LEMMA StepInv == Inv /\ [Next]_vars => Inv'
<1> SUFFICES ASSUME Inv, [Next]_vars PROVE Inv'
  OBVIOUS
<1>0. /\ tree \in Nat /\ graph \in Graph /\ lapsed \in BOOLEAN
      /\ \A i \in DOMAIN runs : runs[i] \in Run
      /\ lock.op # "free" => lock.op \in {"lookup", "start"}
  BY DEF Inv, TypeOK, Lock
<1>1. ASSUME NEW prior, Plan(prior) PROVE Inv'
  BY <1>1, PlanInv
<1>2. ASSUME NEW prior, Exhaust(prior) PROVE Inv'
  BY <1>2, CloseInv DEF Exhaust, Free
<1>3. CASE Adopt
  <2>1. PICK i \in DOMAIN runs : Matches(Latest) = {i} /\ Submits(i)
    BY <1>3 DEF Adopt
  <2>2. runs[i].attempt = Latest /\ runs[i].status # "sent"
    BY <2>1 DEF Matches
  <2> QED BY <2>1, <2>2, <1>3, SubmitInv DEF Adopt
<1>4. CASE Ambiguous
  BY <1>4, CloseInv DEF Ambiguous
<1>5. CASE Send
  BY <1>5, SendInv
<1>6. CASE StartReturns
  BY <1>6, SubmitInv DEF StartReturns, Inv, LockInv
<1>7. CASE GiveUp
  <2>1. lock' = Free /\ UNCHANGED <<dState, attempts, lapsed, tree, graph>>
    BY <1>7 DEF GiveUp
  <2>2. CASE lock.op = "start"
    <3> DEFINE i == lock.run
               r == IF runs[i].status = "sent" THEN [runs[i] EXCEPT !.late = TRUE] ELSE runs[i]
    <3>1. i \in DOMAIN runs /\ runs[i] \in Run /\ runs \in Seq(Run)
      BY <2>2, <1>0 DEF Inv, LockInv, TypeOK
    <3>2. r \in Run /\ r.attempt = runs[i].attempt /\ (runs[i].late => r.late)
          /\ (r.status # "sent" \/ r.late)
      BY <3>1 DEF Run
    <3>3. runs' = [runs EXCEPT ![i] = r]
      <4>1. CASE runs[i].status = "sent"
        BY <1>7, <2>2, <3>1, <4>1 DEF GiveUp
      <4>2. CASE runs[i].status # "sent"
        BY <1>7, <2>2, <3>1, <4>2 DEF GiveUp
      <4> QED BY <4>1, <4>2
    <3> HIDE DEF r
    <3> QED BY <2>1, <2>2, <3>1, <3>2, <3>3, RunInv
  <2>3. CASE lock.op # "start"
    <3>1. UNCHANGED runs
      BY <1>7, <2>3 DEF GiveUp
    <3>2. TypeOK' /\ LockInv'
      BY <2>1, <3>1 DEF Inv, TypeOK, LockInv, Free, Lock, NoRun
    <3>3. AttemptsInv' /\ StateInv' /\ SuccessorIsRecovery' /\ OneRunPerAttempt'
      BY <2>1, <3>1 DEF Inv, AttemptsInv, StateInv, SuccessorIsRecovery, OneRunPerAttempt,
                        LatestIs, Latest
    <3>4. SentInv'
      BY <2>1, <2>3, <3>1 DEF Inv, SentInv
    <3> QED BY <3>2, <3>3, <3>4 DEF Inv
  <2> QED BY <2>2, <2>3
<1>8. ASSUME NEW i \in DOMAIN runs, RunCreated(i) PROVE Inv'
  <2> DEFINE r == [runs[i] EXCEPT !.status = "running"]
  <2>1. r \in Run /\ r.attempt = runs[i].attempt /\ r.late = runs[i].late
        /\ r.status # "sent"
    BY <1>0 DEF Run
  <2>2. runs' = [runs EXCEPT ![i] = r] /\ UNCHANGED <<dState, attempts, lapsed, tree, graph, lock>>
    BY <1>8 DEF RunCreated
  <2> HIDE DEF r
  <2> QED BY <2>1, <2>2, RunInv
<1>9. ASSUME NEW i \in DOMAIN runs, RunWorks(i) PROVE Inv'
  BY <1>0, <1>9, OutsideInv DEF RunWorks
<1>10. ASSUME NEW g \in Graph, GraphMoves(g) PROVE Inv'
  BY <1>0, <1>10, OutsideInv DEF GraphMoves
<1>11. ASSUME NEW i \in DOMAIN runs, NEW launcher \in Terminal,
              NEW core \in Terminal \cup {"none"}, NEW review \in 0..MaxUse,
              RunEnds(i, launcher, core, review)
       PROVE  Inv'
  <2> DEFINE r == [runs[i] EXCEPT !.status = "ended", !.review = review,
                                  !.evidence = Evidence(launcher, core)]
  <2>1. Evidence(launcher, core) \in Terminal \cup {"none"}
    BY DEF Evidence, Terminal
  <2>2. r \in Run /\ r.attempt = runs[i].attempt /\ r.late = runs[i].late
        /\ r.status # "sent"
    BY <1>0, <2>1 DEF Run
  <2>3. runs' = [runs EXCEPT ![i] = r] /\ UNCHANGED <<dState, attempts, lapsed, tree, graph, lock>>
    BY <1>11 DEF RunEnds
  <2> HIDE DEF r
  <2> QED BY <2>2, <2>3, RunInv
<1>12. ASSUME NEW disposition \in {"blocked", "exhausted"}, Terminalize(disposition) PROVE Inv'
  BY <1>12, CloseInv DEF Terminalize, Free
<1>13. CASE DeadlinePasses
  BY <1>0, <1>13, OutsideInv DEF DeadlinePasses
<1>14. CASE Reconcile
  BY <1>14, ReconcileInv
<1>15. CASE UNCHANGED vars
  BY <1>0, <1>15, OutsideInv DEF vars
<1> QED
  BY <1>1, <1>2, <1>3, <1>4, <1>5, <1>6, <1>7, <1>8, <1>9, <1>10, <1>11, <1>12, <1>13,
     <1>14, <1>15 DEF Next

\* The invariant holds in every reachable state.
LEMMA InvHolds == Spec => []Inv
  BY InitInv, StepInv, PTL DEF Spec

\* The records of the service keep their shape; settling needs that the run of
\* a submitted attempt exists (AttemptsInv).
THEOREM AttemptsTypeCorrect == Spec => []TypeOK
<1>1. Inv => TypeOK
  BY DEF Inv
<1> QED BY <1>1, InvHolds, PTL

\* An attempt has a second run only if a start command was given up before
\* CompozyOS created its run (recent-run reconciliation in start, under the
\* lock, for any number of lost answers, retries and crashes).
THEOREM NoSecondRun == Spec => []OneRunPerAttempt
<1>1. Inv => OneRunPerAttempt
  BY DEF Inv
<1> QED BY <1>1, InvHolds, PTL

\* A successor exists only after a settled failure with a task to fall back on
\* (start under the lock against Reconcile and terminalize).
THEOREM OnlyFailuresAreRecovered == Spec => []SuccessorIsRecovery
<1>1. Inv => SuccessorIsRecovery
  BY DEF Inv
<1> QED BY <1>1, InvHolds, PTL

-----------------------------------------------------------------------------
(* Spec implements DeliveryLedger. *)

\* The runs of the attempts, one for each.
LEMMA BoundType ==
    ASSUME TypeOK
    PROVE  /\ BoundRuns \in Seq(Nat)
           /\ Len(BoundRuns) = Latest /\ Latest \in Nat
           /\ \A n \in 1..Latest : BoundRuns[n] = attempts[n].run
<1>1. attempts \in Seq(Attempt) /\ Latest \in Nat
  BY DEF TypeOK, Latest
<1>2. \A n \in 1..Latest : attempts[n].run \in Nat
  <2>1. \A n \in 1..Latest : attempts[n] \in Attempt
    BY <1>1 DEF Latest
  <2> QED BY <2>1 DEF Attempt
<1> QED BY <1>1, <1>2 DEF BoundRuns

\* Adopt and StartReturns bind the run of the planned attempt, which no other
\* attempt has.
LEMMA SubmitBinds ==
    ASSUME Inv, Inv', NEW i \in DOMAIN runs, lock # Free,
           runs[i].attempt = Latest, Submits(i),
           UNCHANGED <<dState, lapsed, tree, graph, runs>>
    PROVE  Ledger!Bind
<1>1. /\ dState = "active" /\ LatestIs("planned") /\ Latest \in 1..Len(attempts)
      /\ attempts \in Seq(Attempt) /\ runs \in Seq(Run)
  BY DEF Inv, LockInv, LatestIs, Latest, TypeOK
<1>2. /\ attempts' = [attempts EXCEPT ![Latest] =
                         [attempts[Latest] EXCEPT !.state = "submitted", !.run = i]]
      /\ Latest' = Latest /\ attempts[Latest] \in Attempt
  BY <1>1 DEF Submits, Latest
<1>3. /\ attempts'[Latest].run = i /\ attempts'[Latest].state = "submitted"
      /\ \A n \in 1..Latest : n # Latest => attempts'[n] = attempts[n]
  BY <1>1, <1>2 DEF Attempt, Latest
<1>4. /\ attempts[Latest].run = NoRun /\ i # NoRun
      /\ \A n \in 1..Latest : attempts[n].run # i
  BY <1>1 DEF Inv, AttemptsInv, LatestIs, Latest, NoRun
<1>5. BoundRuns' = [BoundRuns EXCEPT ![Latest] = i]
  <2>1. BoundRuns' = [n \in 1..Latest |-> attempts'[n].run]
    BY <1>2 DEF BoundRuns
  <2>2. \A n \in 1..Latest : attempts'[n].run = IF n = Latest THEN i ELSE attempts[n].run
    BY <1>3
  <2> QED BY <2>1, <2>2 DEF BoundRuns
<1>6. /\ Closed = FALSE /\ UNCHANGED Closed
      /\ SettledAttempts = Latest - 1 /\ SettledAttempts' = Latest - 1
  BY <1>1, <1>2, <1>3 DEF Closed, SettledAttempts, LatestIs
<1>7. /\ Len(BoundRuns) = Latest /\ BoundRuns[Latest] = NoRun
      /\ BoundRuns'[Latest] = i
      /\ \A n \in 1..Latest : BoundRuns[n] # i
  <2>1. /\ Len(BoundRuns) = Latest /\ Latest \in 1..Latest
        /\ \A n \in 1..Latest : BoundRuns[n] = attempts[n].run
    BY <1>1, BoundType DEF Inv, Latest
  <2>2. BoundRuns'[Latest] = i
    BY <2>1, <1>5 DEF BoundRuns
  <2> QED BY <2>1, <2>2, <1>4
<1>8. /\ Ledger!Latest = Latest /\ SettledAttempts < Latest
      /\ UNCHANGED <<Closed, SettledAttempts>> /\ ~Closed
  BY <1>1, <1>6, <1>7 DEF Ledger!Latest
<1> QED
  BY <1>4, <1>5, <1>7, <1>8 DEF Ledger!Bind

\* Every step is a step of the ledger or leaves it as it is.
LEMMA StepRefines == Inv /\ Inv' /\ [Next]_vars => [Ledger!Next]_(Ledger!vars)
<1> SUFFICES ASSUME Inv, Inv', [Next]_vars PROVE [Ledger!Next]_(Ledger!vars)
  OBVIOUS
<1> DEFINE Stutter == UNCHANGED <<Closed, BoundRuns, SettledAttempts>>
<1>0. /\ TypeOK /\ Len(BoundRuns) = Latest /\ Latest \in Nat
      /\ attempts \in Seq(Attempt) /\ BoundRuns \in Seq(Nat)
  BY BoundType DEF Inv, TypeOK
<1>a. ASSUME UNCHANGED <<dState, attempts>> PROVE Stutter
  BY <1>a DEF Closed, BoundRuns, SettledAttempts, LatestIs, Latest
<1>b. ASSUME UNCHANGED attempts, dState' # "active" PROVE Ledger!Close
  <2>1. UNCHANGED <<BoundRuns, SettledAttempts>> /\ Closed' = TRUE
    BY <1>b DEF Closed, BoundRuns, SettledAttempts, LatestIs, Latest
  <2> QED BY <2>1 DEF Ledger!Close
<1>c. Stutter => [Ledger!Next]_(Ledger!vars)
  BY DEF Ledger!vars
<1>d. Ledger!Close \/ Ledger!Settle \/ Ledger!Bind \/ Ledger!Open
        => [Ledger!Next]_(Ledger!vars)
  BY DEF Ledger!Next
<1>1. ASSUME NEW prior, Plan(prior) PROVE Ledger!Open \/ Stutter
  <2>1. CASE LatestIs("planned")
    BY <2>1, <1>1, <1>a DEF Plan
  <2>2. CASE ~LatestIs("planned")
    <3>1. /\ attempts' = Append(attempts, Planned) /\ dState = "active" /\ UNCHANGED dState
          /\ ~OutOfBudget /\ Follows(prior)
      BY <2>2, <1>1 DEF Plan
    <3>2. Latest = 0 \/ LatestIs("terminal")
      <4>1. Latest > 0 => attempts[Latest].state \in {"planned", "submitted", "terminal"}
        <5>1. ASSUME Latest > 0 PROVE attempts[Latest] \in Attempt
          BY <5>1, <1>0 DEF Latest
        <5> QED BY <5>1 DEF Attempt
      <4> QED BY <2>2, <3>1, <4>1, <1>0 DEF Follows, LatestIs
    <3>3. /\ Latest < AttemptCeiling /\ Closed = FALSE /\ Closed' = FALSE
          /\ SettledAttempts = Latest
      BY <3>1, <3>2, <1>0, BoundsAssumption DEF OutOfBudget, Closed, SettledAttempts
    <3>4. /\ Latest' = Latest + 1
          /\ \A n \in 1..Latest : attempts'[n] = attempts[n]
          /\ attempts'[Latest + 1] = Planned
      BY <3>1, <1>0 DEF Latest
    <3>5. BoundRuns' = Append(BoundRuns, NoRun)
      BY <3>4, <1>0 DEF BoundRuns, Planned
    <3>6. SettledAttempts' = Latest
      BY <3>4, <1>0 DEF SettledAttempts, LatestIs, Planned
    <3> QED BY <3>3, <3>5, <3>6, <1>0 DEF Ledger!Open, Ledger!Latest
  <2> QED BY <2>1, <2>2
<1>2. ASSUME NEW prior, Exhaust(prior) PROVE Ledger!Close
  BY <1>2, <1>b DEF Exhaust
<1>3. CASE Adopt
  <2>1. PICK i \in DOMAIN runs : Matches(Latest) = {i} /\ Submits(i)
    BY <1>3 DEF Adopt
  <2>2. runs[i].attempt = Latest /\ lock # Free
    BY <2>1, <1>3 DEF Matches, Adopt, Free
  <2> QED BY <2>1, <2>2, <1>3, <1>d, SubmitBinds DEF Adopt
<1>4. CASE Ambiguous
  BY <1>4, <1>b, <1>d DEF Ambiguous
<1>5. CASE Send
  BY <1>5, <1>a, <1>c DEF Send
<1>6. CASE StartReturns
  <2>1. lock # Free /\ lock.run \in DOMAIN runs /\ runs[lock.run].attempt = Latest
    BY <1>6 DEF StartReturns, Inv, LockInv, Free
  <2> QED BY <2>1, <1>6, <1>d, SubmitBinds DEF StartReturns
<1>7. CASE GiveUp \/ DeadlinePasses \/ UNCHANGED vars
  <2>1. UNCHANGED <<dState, attempts>>
    BY <1>7 DEF GiveUp, DeadlinePasses, vars
  <2> QED BY <2>1, <1>a, <1>c
<1>8. ASSUME NEW i \in DOMAIN runs, RunCreated(i) \/ RunWorks(i) PROVE Stutter
  BY <1>8, <1>a DEF RunCreated, RunWorks
<1>9. ASSUME NEW g \in Graph, GraphMoves(g) PROVE Stutter
  BY <1>9, <1>a DEF GraphMoves
<1>10. ASSUME NEW i \in DOMAIN runs, NEW launcher \in Terminal,
              NEW core \in Terminal \cup {"none"}, NEW review \in 0..MaxUse,
              RunEnds(i, launcher, core, review)
       PROVE  Stutter
  BY <1>10, <1>a DEF RunEnds
<1>11. ASSUME NEW disposition \in {"blocked", "exhausted"}, Terminalize(disposition)
       PROVE  Ledger!Close
  BY <1>11, <1>b DEF Terminalize
<1>12. CASE Reconcile
  <2>1. /\ LatestIs("submitted") /\ Latest \in 1..Len(attempts)
        /\ Latest' = Latest
        /\ attempts[Latest] \in Attempt
    BY <1>12, <1>0 DEF Reconcile, LatestIs, Latest
  <2>2. /\ attempts'[Latest].state = "terminal"
        /\ \A n \in 1..Latest : attempts'[n].run = attempts[n].run
    BY <1>12, <1>0, <2>1 DEF Reconcile, Attempt, Latest
  <2>3. BoundRuns' = BoundRuns /\ BoundRuns[Latest] # NoRun
    BY <2>1, <2>2 DEF BoundRuns, Inv, AttemptsInv, LatestIs, Latest
  <2>4. SettledAttempts = Latest - 1 /\ SettledAttempts' = Latest
    BY <2>1, <2>2, <1>0 DEF SettledAttempts, LatestIs
  <2>5. Closed' \in {Closed, TRUE}
    <3>1. runs[attempts[Latest].run] \in Run
      BY <2>1 DEF Inv, AttemptsInv, TypeOK, LatestIs, Latest
    <3>2. runs[attempts[Latest].run].evidence \in Terminal
      BY <3>1, <1>12 DEF Reconcile, Run
    <3>3. dState \in {"active", "blocked", "exhausted"}
      BY <1>0, <2>1 DEF Inv, StateInv, TypeOK, LatestIs
    <3>4. dState' = "active" => dState = "active"
      BY <3>2, <3>3, <1>12 DEF Reconcile, Disposition, Terminal
    <3> QED BY <3>4 DEF Closed
  <2>6. Ledger!Settle
    <3>1. Ledger!Latest = Latest /\ SettledAttempts < Latest
      BY <2>4, <1>0 DEF Ledger!Latest
    <3> QED BY <3>1, <2>3, <2>4, <2>5 DEF Ledger!Settle
  <2> QED BY <2>6, <1>d
<1> QED
  BY <1>c, <1>d, <1>1, <1>2, <1>3, <1>4, <1>5, <1>6, <1>7, <1>8, <1>9, <1>10, <1>11, <1>12
  DEF Next

\* start, Recover, Reconcile and terminalize keep the ledger of the delivery,
\* for every ceiling and whatever CompozyOS loses, delays or repeats.
THEOREM AttemptsKeepTheLedger == Spec => LedgerIsKept
<1>1. Init => Ledger!Init
  <2> SUFFICES ASSUME Init PROVE Ledger!Init
    OBVIOUS
  <2>1. Latest = 0 /\ dState = "active"
    BY DEF Init, Latest
  <2>2. BoundRuns = << >> /\ SettledAttempts = 0 /\ Closed = FALSE
    BY <2>1 DEF BoundRuns, SettledAttempts, Closed
  <2> QED BY <2>2 DEF Ledger!Init
<1> QED
  BY <1>1, InvHolds, StepRefines, PTL DEF Spec, LedgerIsKept, Ledger!Spec

-----------------------------------------------------------------------------
(* The charges for the tokens of the graph *)

\* As long as no wave and no task transition was recorded the graph has used no
\* tokens, and nobody was charged for any.
ChargeInv ==
    ~graph.owned => /\ graph.used = 0
                    /\ \A n \in Settled : attempts[n].graphTokens = 0

\* What the settled attempts were charged.
LEMMA ChargesType ==
    ASSUME TypeOK
    PROVE  /\ IsFiniteSet(Settled) /\ Settled \subseteq 1..Latest /\ Latest \in Nat
           /\ [n \in Settled |-> attempts[n].graphTokens] \in [Settled -> Nat]
           /\ AccountedGraphTokens \in Nat
<1>1. /\ attempts \in Seq(Attempt) /\ Latest \in Nat /\ Settled \subseteq 1..Latest
  BY DEF TypeOK, Latest, Settled
<1>2. IsFiniteSet(Settled)
  <2>1. IsFiniteSet(1..Latest)
    BY <1>1, FS_Interval
  <2> QED BY <1>1, <2>1, FS_Subset
<1>3. \A n \in Settled : attempts[n].graphTokens \in Nat
  <2>1. \A n \in Settled : attempts[n] \in Attempt
    BY <1>1 DEF Latest
  <2> QED BY <2>1 DEF Attempt
<1>4. PICK f : f = [n \in Settled |-> attempts[n].graphTokens]
  OBVIOUS
<1>5. f \in [Settled -> Nat]
  BY <1>3, <1>4
<1>6. Total(f) \in Nat
  BY <1>2, <1>5, TotalType
<1> QED
  BY <1>1, <1>2, <1>4, <1>5, <1>6 DEF AccountedGraphTokens

\* What Reconcile does to the settled attempts.
LEMMA ReconcileSettles ==
    ASSUME Inv, Reconcile
    PROVE  /\ Latest \notin Settled /\ Settled' = Settled \cup {Latest}
           /\ \A n \in Settled : attempts'[n] = attempts[n]
           /\ attempts'[Latest].graphTokens = GraphUsage
           /\ GraphUsage \in Nat
           /\ UNCHANGED graph
<1>1. PICK rec : rec = [attempts[Latest] EXCEPT !.state = "terminal",
                          !.status = runs[attempts[Latest].run].evidence,
                          !.failed = graph.owned /\ graph.fallback,
                          !.graphTokens = GraphUsage,
                          !.reviewTokens = runs[attempts[Latest].run].review, !.seen = tree]
  OBVIOUS
<1>2. /\ LatestIs("submitted") /\ GraphUsage \in Nat /\ UNCHANGED graph
      /\ attempts' = [attempts EXCEPT ![Latest] = rec]
  BY <1>1 DEF Reconcile
<1>3. attempts \in Seq(Attempt) /\ Latest \in 1..Len(attempts) /\ attempts[Latest] \in Attempt
  BY <1>2 DEF Inv, TypeOK, LatestIs, Latest
<1>4. rec.state = "terminal" /\ rec.graphTokens = GraphUsage
  BY <1>1, <1>3 DEF Attempt
<1>5. /\ Len(attempts') = Len(attempts) /\ attempts'[Latest] = rec
      /\ DOMAIN attempts' = DOMAIN attempts
      /\ \A n \in DOMAIN attempts : n # Latest => attempts'[n] = attempts[n]
  BY <1>2, <1>3
<1>6. Latest \notin Settled
  BY <1>2 DEF Settled, LatestIs
<1>7. Settled' = Settled \cup {Latest}
  BY <1>3, <1>4, <1>5 DEF Settled
<1> QED
  BY <1>2, <1>4, <1>5, <1>6, <1>7 DEF Settled

\* Nothing is charged before something is owned.
LEMMA ChargeStep == Inv /\ ChargeInv /\ [Next]_vars => ChargeInv'
<1> SUFFICES ASSUME Inv, ChargeInv, [Next]_vars PROVE ChargeInv'
  OBVIOUS
<1>1. attempts \in Seq(Attempt) /\ Latest \in Nat
  BY DEF Inv, TypeOK, Latest
<1>2. ASSUME UNCHANGED graph,
             \A n \in Settled' : n \in Settled /\ attempts'[n].graphTokens = attempts[n].graphTokens
      PROVE  ChargeInv'
  BY <1>2 DEF ChargeInv
<1>3. ASSUME UNCHANGED <<attempts, graph>> PROVE ChargeInv'
  BY <1>3, <1>2 DEF Settled
<1>4. ASSUME NEW i, Submits(i), LatestIs("planned"), UNCHANGED graph PROVE ChargeInv'
  <2>1. PICK rec : rec = [attempts[Latest] EXCEPT !.state = "submitted", !.run = i]
    OBVIOUS
  <2>2. attempts' = [attempts EXCEPT ![Latest] = rec] /\ Latest \in 1..Len(attempts)
        /\ attempts[Latest] \in Attempt
    BY <1>1, <1>4, <2>1 DEF Submits, LatestIs, Latest
  <2>3. rec.state = "submitted"
    BY <2>1, <2>2 DEF Attempt
  <2>4. /\ DOMAIN attempts' = DOMAIN attempts /\ attempts'[Latest] = rec
        /\ \A n \in DOMAIN attempts : n # Latest => attempts'[n] = attempts[n]
    BY <1>1, <2>2
  <2> QED BY <1>2, <1>4, <2>3, <2>4 DEF Settled
<1>5. ASSUME NEW prior, Plan(prior) PROVE ChargeInv'
  <2>1. CASE attempts' = attempts
    BY <1>3, <1>5, <2>1 DEF Plan
  <2>2. CASE attempts' = Append(attempts, Planned)
    <3>1. /\ DOMAIN attempts' = 1..(Latest + 1) /\ attempts'[Latest + 1] = Planned
          /\ \A n \in 1..Latest : attempts'[n] = attempts[n]
          /\ DOMAIN attempts = 1..Latest
      BY <1>1, <2>2 DEF Latest, Planned
    <3>2. UNCHANGED graph
      BY <1>5 DEF Plan
    <3> QED BY <1>1, <1>2, <3>1, <3>2 DEF Settled, Planned
  <2> QED BY <1>5, <2>1, <2>2 DEF Plan
<1>6. CASE Adopt
  <2>1. \E i : Submits(i)
    BY <1>6 DEF Adopt
  <2>2. LatestIs("planned") /\ UNCHANGED graph
    BY <1>6 DEF Adopt, Inv, LockInv, Free
  <2> QED BY <1>4, <2>1, <2>2
<1>7. CASE StartReturns
  <2>1. LatestIs("planned") /\ UNCHANGED graph /\ Submits(lock.run)
    BY <1>7 DEF StartReturns, Inv, LockInv, Free
  <2> QED BY <1>4, <2>1
<1>8. ASSUME NEW g \in Graph, GraphMoves(g) PROVE ChargeInv'
  BY <1>8 DEF GraphMoves, ChargeInv
<1>9. CASE Reconcile
  <2>1. /\ Settled' = Settled \cup {Latest} /\ UNCHANGED graph
        /\ \A n \in Settled : attempts'[n] = attempts[n]
        /\ attempts'[Latest].graphTokens = GraphUsage
    BY <1>9, ReconcileSettles
  <2>2. ~graph.owned => GraphUsage = 0
    BY DEF GraphUsage
  <2> QED BY <2>1, <2>2 DEF ChargeInv
<1>10. CASE \/ \E prior : Exhaust(prior)
            \/ Ambiguous \/ Send \/ GiveUp \/ DeadlinePasses
            \/ \E i : RunCreated(i) \/ RunWorks(i)
            \/ \E i, launcher, status, review : RunEnds(i, launcher, status, review)
            \/ \E disposition : Terminalize(disposition)
            \/ UNCHANGED vars
  <2>1. UNCHANGED <<attempts, graph>>
    BY <1>10 DEF Exhaust, Ambiguous, Send, GiveUp, DeadlinePasses, RunCreated, RunWorks, RunEnds,
                 Terminalize, vars
  <2> QED BY <1>3, <2>1
<1> QED
  BY <1>5, <1>6, <1>7, <1>8, <1>9, <1>10 DEF Next

\* The settlement of an attempt charges it for what is left.
LEMMA ChargesAddUp ==
    Inv /\ ChargeInv /\ [Next]_vars =>
        [LatestIs("submitted") /\ LatestIs("terminal")' => AccountedGraphTokens' = graph.used]_vars
<1> SUFFICES ASSUME Inv, ChargeInv, Next, LatestIs("submitted"), LatestIs("terminal")'
             PROVE  AccountedGraphTokens' = graph.used
  BY DEF vars
<1>1. attempts \in Seq(Attempt) /\ Latest \in Nat /\ TypeOK
  BY DEF Inv, TypeOK, Latest
<1>2. Reconcile
  <2>1. attempts' # attempts
    BY DEF LatestIs, Latest
  <2>2. lock = Free
    BY DEF Inv, LockInv, LatestIs
  <2>3. ~ \E prior : Plan(prior)
    BY DEF Plan, Follows
  <2> QED BY <2>1, <2>2, <2>3 DEF Next, Exhaust, Adopt, Ambiguous, Send, StartReturns, GiveUp, RunCreated,
             RunWorks, GraphMoves, RunEnds, Terminalize, DeadlinePasses, Free
<1>3. PICK S, x, f, h :
        /\ S = Settled /\ x = Latest
        /\ f = [n \in S |-> attempts[n].graphTokens]
        /\ h = [n \in S \cup {x} |-> attempts'[n].graphTokens]
  OBVIOUS
<1>4. /\ IsFiniteSet(S) /\ f \in [S -> Nat]
      /\ AccountedGraphTokens \in Nat /\ AccountedGraphTokens = Total(f)
  BY <1>1, <1>3, ChargesType DEF AccountedGraphTokens
<1>5. /\ x \notin S /\ Settled' = S \cup {x} /\ GraphUsage \in Nat
      /\ \A n \in S : attempts'[n] = attempts[n]
      /\ attempts'[x].graphTokens = GraphUsage
  BY <1>2, <1>3, ReconcileSettles
<1>6. h \in [S \cup {x} -> Nat] /\ (\A n \in S : h[n] = f[n]) /\ h[x] = GraphUsage
  <2>1. \A n \in S : f[n] \in Nat /\ f[n] = attempts[n].graphTokens
    BY <1>3, <1>4
  <2>2. \A n \in S \cup {x} : attempts'[n].graphTokens \in Nat
    BY <1>5, <2>1
  <2> QED BY <1>3, <1>5, <2>1, <2>2
<1>7. AccountedGraphTokens' = Total(h)
  BY <1>3, <1>5 DEF AccountedGraphTokens
<1>8. Total(h) = Total(f) + h[x]
  BY <1>4, <1>5, <1>6, TotalGrows
<1>9. graph.used \in Nat
  <2>1. graph \in Graph
    BY <1>1 DEF TypeOK
  <2> QED BY <2>1, BoundsAssumption DEF Graph
<1>10. CASE graph.owned
  BY <1>4, <1>6, <1>7, <1>8, <1>9, <1>10 DEF GraphUsage
<1>11. CASE ~graph.owned
  <2>1. \A n \in S : f[n] = 0
    BY <1>3, <1>11 DEF ChargeInv
  <2>2. Total(f) = 0
    BY <1>4, <2>1, TotalZero
  <2> QED BY <1>6, <1>7, <1>8, <1>11, <2>2 DEF GraphUsage, ChargeInv
<1> QED
  BY <1>10, <1>11

\* Whatever the order in which runs end, are lost or are settled late, an
\* attempt is settled with all tokens of the graph charged, each to one attempt
\* (graphParentUsage in Reconcile).
THEOREM EveryTokenIsChargedOnce == Spec => TokensChargedOnce
<1>1. Init => ChargeInv
  BY DEF Init, ChargeInv, EmptyGraph, Settled
<1>2. Spec => []ChargeInv
  BY <1>1, InvHolds, ChargeStep, PTL DEF Spec
<1> QED
  BY <1>2, InvHolds, ChargesAddUp, PTL DEF Spec, TokensChargedOnce
=============================================================================
