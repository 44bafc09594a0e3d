------------------------- MODULE DeliveryLoopsProofs -------------------------
(***************************************************************************)
(* The core loop over the graph and its attempts, for any number of tasks, *)
(* attempts, generations and children.  LoopInv is inductive.  Its parts:  *)
(*   OuterInv    whose lock, launcher and core it is: one submitted        *)
(*               attempt, its launcher the last one, its core the only one *)
(*   GraphInv    the history of the graph is sound (DeliveryGraph's        *)
(*               HistoryInv) while the delivery is not done                *)
(*   ChildrenInv children work for unsettled cells of the fan-out only, or *)
(*               after a core that was stopped there                       *)
(*   ReviewInv   the review begins when every task is integrated, and the  *)
(*               attempt that reviewed is the last                         *)
(*   DoneInv     a core that is done delivered                             *)
(* Each action has a lemma of its own, <action>Keeps.  With RefInv, which   *)
(* says what the graph owes the attempt service, each is a step of         *)
(* DeliveryAttempts or nothing to it: <action>Implements.                  *)
(***************************************************************************)
EXTENDS DeliveryLoops, DeliveryGraphChainProofs, TotalTheorems

-----------------------------------------------------------------------------
(* The attempts, their launchers and the core *)

\* The types of what the core loop and the attempt service keep.
LoopShape ==
    /\ dState \in {"active", "done", "blocked", "exhausted"}
    /\ attempts \in Seq(A!Attempt)
    /\ launchers \in Seq(A!Run)
    /\ Len(launchers) <= AttemptCeiling
    /\ lock \in A!Lock
    /\ lapsed \in BOOLEAN
    /\ core \in Core
    /\ core.items # {} => core.node = "task_wave"
    /\ core.node = "ended" <=> core.status # "none"
    /\ rounds \in 0..MaxRounds
    /\ reviews \in Nat
    /\ fixes \in Nat
    /\ published \in BOOLEAN
    /\ retained \in BOOLEAN

\* The lock is held for the planned last attempt of an active delivery only, and
\* for the launcher that was sent last.
LockInv ==
    /\ lock.op = "free" => lock = A!Free
    /\ lock # A!Free => dState = "active" /\ A!LatestIs("planned")
    /\ A!LatestIs("planned") => lock # A!Free
    /\ lock.op = "start" => LastLauncher # 0 /\ lock.run = LastLauncher

\* The last launcher is being started; the last attempt is submitted.
Starting == lock = [op |-> "start", run |-> LastLauncher]
Submitted == lock = A!Free /\ A!LatestIs("submitted")

\* Only the last launcher works, for the attempt that is being started or was
\* submitted with it; its evidence is the status of the core, which was its core.
LauncherInv ==
    /\ core.launcher \in 0..LastLauncher
    /\ A!LatestIs("submitted") => LastLauncher # 0 /\ attempts[A!Latest].run = LastLauncher
    /\ \A i \in DOMAIN launchers :
         /\ launchers[i].status = "sent" => i = LastLauncher /\ Starting
         /\ launchers[i].status = "running" =>
              i = LastLauncher /\ core.launcher = i /\ (Starting \/ Submitted)
         /\ i = LastLauncher /\ launchers[i].evidence # "none" =>
              /\ launchers[i].status = "ended"
              /\ core.launcher = i /\ core.node = "ended" /\ core.status = launchers[i].evidence

\* A core at work is the core of the running launcher of an active delivery, and
\* it got beyond its first nodes only when its attempt was submitted.
CoreInv ==
    core.node # "ended" =>
        /\ dState = "active"
        /\ core.launcher = LastLauncher /\ LastLauncher # 0
        /\ launchers[LastLauncher].status = "running"
        /\ Submitted \/ (Starting /\ core.node \in {"routing_context", "prepare_wave"})

\* What ties the lock, the attempts, the launchers and the core together.
OuterInv == LoopShape /\ LockInv /\ LauncherInv /\ CoreInv

\* Before the first attempt there is no launcher and the core has ended.
LEMMA OuterInit == LoopInit => OuterInv
<1> SUFFICES ASSUME LoopInit
             PROVE  OuterInv
  OBVIOUS
<1>1. /\ dState = "active" /\ attempts = <<>> /\ launchers = <<>> /\ lapsed = FALSE
      /\ lock = [op |-> "free", run |-> 0]
      /\ core = NoCore /\ rounds = 0 /\ reviews = 0 /\ fixes = 0
      /\ published = FALSE /\ retained = FALSE
  BY DEF LoopInit, Init, A!Init, A!Free, A!NoRun
<1>2. core = [launcher |-> 0, node |-> "ended", generation |-> 1, wave |-> 0, items |-> {},
              failed |-> FALSE, status |-> "stopped"]
  BY <1>1 DEF NoCore, Generation
<1>3. core \in Core
  BY <1>2, CeilingsAssumption DEF Core, CoreNodes, Terminal
<1>4. LoopShape
  <2>1. lock \in A!Lock
    BY <1>1 DEF A!Lock
  <2>2. attempts \in Seq(A!Attempt) /\ launchers \in Seq(A!Run) /\ Len(launchers) = 0
    BY <1>1
  <2>3. core.items = {} /\ core.node = "ended" /\ core.status = "stopped"
    BY <1>2
  <2>4. Len(launchers) <= AttemptCeiling /\ rounds \in 0..MaxRounds
    BY <1>1, <2>2, CeilingsAssumption
  <2>5. core.items # {} => core.node = "task_wave"
    BY <2>3
  <2>6. core.node = "ended" <=> core.status # "none"
    BY <2>3
  <2> QED
    BY <1>1, <1>3, <2>1, <2>2, <2>4, <2>5, <2>6 DEF LoopShape
<1>5. LockInv
  BY <1>1 DEF LockInv, A!Free, A!NoRun, A!LatestIs, A!Latest
<1>6. LauncherInv /\ CoreInv
  BY <1>1, <1>2 DEF LauncherInv, CoreInv, A!LatestIs, A!Latest, LastLauncher
<1> QED
  BY <1>4, <1>5, <1>6 DEF OuterInv

\* The core goes from one node to another, or ends, and nothing else moves that
\* the attempt service knows.
CoreMoves ==
    /\ UNCHANGED <<dState, outer>>
    /\ core.node # "ended"
    /\ core'.launcher = core.launcher
    /\ \/ core'.node \in {"ended", core.node}
       \/ core.node = "routing_context" /\ core'.node = "prepare_wave"
       \/ lock = A!Free

\* A move of the core leaves the attempts and the launchers in order.
LEMMA MovesOuter ==
  ASSUME OuterInv, LoopShape', CoreMoves \/ UNCHANGED <<dState, outer, core>>
  PROVE  OuterInv'
<1>1. CASE UNCHANGED <<dState, outer, core>>
  BY <1>1 DEF OuterInv, LoopShape, LockInv, LauncherInv, CoreInv, outer, A!Free, A!NoRun, A!LatestIs, A!Latest, LastLauncher, Starting, Submitted
<1>2. CASE CoreMoves
  <2>1. LockInv'
    BY <1>2 DEF OuterInv, LockInv, CoreMoves, outer, A!Free, A!NoRun, A!LatestIs, A!Latest, LastLauncher
  <2>2. LauncherInv'
    BY <1>2 DEF OuterInv, LauncherInv, CoreMoves, outer, A!Free, A!NoRun, A!LatestIs, A!Latest, LastLauncher, Starting, Submitted
  <2>3. CoreInv'
    BY <1>2 DEF OuterInv, LoopShape, LockInv, CoreInv, CoreMoves, outer, A!Free, A!NoRun, A!LatestIs, A!Latest, LastLauncher, Starting, Submitted, A!Lock
  <2> QED
    BY <2>1, <2>2, <2>3 DEF OuterInv
<1> QED
  BY <1>1, <1>2

-----------------------------------------------------------------------------
(* The attempt service *)

\* Plan: a closed or submitted attempt is left alone, a planned one is held.
LEMMA PlanOuter ==
  ASSUME OuterInv, A!Plan(LastLauncher), UNCHANGED <<core, end, rounds>>
  PROVE  OuterInv'
<1>1. /\ lock = A!Free /\ dState = "active" /\ ~A!LatestIs("submitted") /\ ~A!LatestIs("planned")
      /\ attempts' = Append(attempts, A!Planned)
      /\ lock' = [op |-> "lookup", run |-> 0]
      /\ UNCHANGED <<dState, lapsed, launchers>>
  BY DEF A!Plan, A!Follows, OuterInv, LockInv, A!Free, A!NoRun
<1>2. A!Planned \in A!Attempt
  BY DEF A!Planned, A!Attempt, A!NoRun, A!Terminal
<1>3. /\ attempts' \in Seq(A!Attempt) /\ Len(attempts') = Len(attempts) + 1
      /\ attempts'[Len(attempts')] = A!Planned /\ Len(attempts) \in Nat
  BY <1>1, <1>2 DEF OuterInv, LoopShape
<1>4. A!LatestIs("planned")' /\ ~A!LatestIs("submitted")'
  BY <1>3 DEF A!LatestIs, A!Latest, A!Planned
<1>5. LoopShape'
  BY <1>1, <1>3 DEF OuterInv, LoopShape, end, A!Lock
<1>6. LockInv'
  BY <1>1, <1>4 DEF LockInv, A!Free, A!NoRun
<1>7. core.node = "ended" /\ \A i \in DOMAIN launchers : launchers[i].status = "ended"
  <2>1. ~Starting /\ ~Submitted
    BY <1>1 DEF Starting, Submitted, A!Free
  <2>2. \A i \in DOMAIN launchers : launchers[i] \in A!Run
    BY DEF OuterInv, LoopShape
  <2> QED
    BY <2>1, <2>2 DEF OuterInv, CoreInv, LauncherInv, A!Run
<1>8. LauncherInv' /\ CoreInv'
  BY <1>1, <1>4, <1>7 DEF OuterInv, LauncherInv, CoreInv, LastLauncher
<1> QED
  BY <1>5, <1>6, <1>8 DEF OuterInv

\* Send: the launcher is the last one, and the lock waits for it.
LEMMA SendOuter ==
  ASSUME OuterInv, A!Send, UNCHANGED <<core, end, rounds>>
  PROVE  OuterInv'
<1>1. /\ lock.op = "lookup" /\ Len(launchers) < AttemptCeiling
      /\ launchers' = Append(launchers, A!Sent(A!Latest))
      /\ lock' = [op |-> "start", run |-> LastLauncher + 1]
      /\ UNCHANGED <<dState, lapsed, attempts>>
  BY DEF A!Send, LastLauncher
<1>2. A!Sent(A!Latest) \in A!Run
  <2>1. A!Latest \in Nat
    BY DEF OuterInv, LoopShape, A!Latest
  <2>2. 0 \in 0..(NTasks * MaxExec * MaxUse)
    BY SizesAssumption
  <2> QED
    BY <2>1, <2>2 DEF A!Sent, A!Run, A!Terminal
<1>3. /\ launchers' \in Seq(A!Run) /\ LastLauncher' = LastLauncher + 1 /\ LastLauncher \in Nat
      /\ launchers'[LastLauncher'] = A!Sent(A!Latest)
      /\ \A i \in DOMAIN launchers : launchers'[i] = launchers[i] /\ launchers[i] \in A!Run
      /\ DOMAIN launchers = 1..LastLauncher /\ DOMAIN launchers' = 1..LastLauncher'
  BY <1>1, <1>2 DEF OuterInv, LoopShape, LastLauncher
<1>4. lock # A!Free /\ A!LatestIs("planned") /\ ~A!LatestIs("submitted") /\ dState = "active"
  BY <1>1 DEF OuterInv, LockInv, A!Free, A!LatestIs
<1>5. LoopShape'
  <2>1. LastLauncher' \in Nat
    BY <1>3
  <2>2. lock' \in A!Lock
    BY <1>1, <1>3, <2>1 DEF A!Lock
  <2>3. Len(launchers') <= AttemptCeiling
    BY <1>1, <1>3, CeilingsAssumption DEF LastLauncher
  <2> QED
    BY <1>1, <1>3, <2>2, <2>3 DEF OuterInv, LoopShape, end
<1>6. A!LatestIs("planned")' /\ ~A!LatestIs("submitted")' /\ lock' # A!Free /\ Starting'
  BY <1>1, <1>3, <1>4 DEF A!LatestIs, A!Latest, A!Free, Starting
<1>7. LockInv'
  BY <1>1, <1>3, <1>4, <1>6 DEF LockInv, A!Free
<1>8. core.node = "ended" /\ \A i \in DOMAIN launchers : launchers[i].status = "ended"
  <2>1. ~Starting /\ ~Submitted
    BY <1>1, <1>4 DEF Starting, Submitted, A!Free
  <2> QED
    BY <2>1, <1>3 DEF OuterInv, CoreInv, LauncherInv, A!Run
<1>9. CoreInv'
  BY <1>8 DEF CoreInv
<1>10. LauncherInv'
  <2>1. core'.launcher \in 0..LastLauncher'
    BY <1>3 DEF OuterInv, LauncherInv
  <2>2. ASSUME NEW i \in DOMAIN launchers', i # LastLauncher'
        PROVE  i \in DOMAIN launchers /\ launchers'[i].status = "ended"
    BY <2>2, <1>3, <1>8
  <2>3. launchers'[LastLauncher'].status = "sent" /\ launchers'[LastLauncher'].evidence = "none"
    BY <1>3 DEF A!Sent
  <2> QED
    BY <2>1, <2>2, <2>3, <1>6 DEF LauncherInv
<1> QED
  BY <1>5, <1>7, <1>9, <1>10 DEF OuterInv

\* StartReturns: the attempt is submitted with the last launcher.
LEMMA ReturnsOuter ==
  ASSUME OuterInv, A!StartReturns, UNCHANGED <<core, end, rounds>>
  PROVE  OuterInv'
<1>1. /\ lock.op = "start" /\ lock.run = LastLauncher /\ LastLauncher # 0
      /\ lock # A!Free /\ dState = "active" /\ A!LatestIs("planned")
      /\ launchers[LastLauncher].status # "sent"
      /\ attempts' = [attempts EXCEPT ![A!Latest] =
                        [@ EXCEPT !.state = "submitted", !.run = LastLauncher]]
      /\ lock' = A!Free
      /\ UNCHANGED <<dState, lapsed, launchers>>
  <2>1. lock.op = "start" /\ lock # A!Free
    BY DEF A!StartReturns, A!Free
  <2>2. lock.run = LastLauncher /\ LastLauncher # 0 /\ dState = "active" /\ A!LatestIs("planned")
    BY <2>1 DEF OuterInv, LockInv
  <2> QED
    BY <2>1, <2>2 DEF A!StartReturns, A!Submits
<1>2. /\ A!Latest \in DOMAIN attempts /\ attempts[A!Latest] \in A!Attempt
      /\ LastLauncher \in Nat /\ Len(attempts) \in Nat
  BY <1>1 DEF OuterInv, LoopShape, A!LatestIs, A!Latest, LastLauncher
<1> DEFINE a == [attempts[A!Latest] EXCEPT !.state = "submitted", !.run = LastLauncher]
<1>3. a \in A!Attempt /\ a.state = "submitted" /\ a.run = LastLauncher
  BY <1>2 DEF A!Attempt
<1>4. attempts' = [attempts EXCEPT ![A!Latest] = a]
  BY <1>1
<1>5. /\ attempts' \in Seq(A!Attempt) /\ Len(attempts') = Len(attempts)
      /\ attempts'[Len(attempts)] = a
  BY <1>2, <1>3, <1>4 DEF OuterInv, LoopShape, A!Latest
<1>6. A!LatestIs("submitted")' /\ ~A!LatestIs("planned")' /\ Submitted'
      /\ attempts'[A!Latest'].run = LastLauncher
  BY <1>1, <1>2, <1>3, <1>5 DEF A!LatestIs, A!Latest, Submitted, A!Free
<1>7. LoopShape'
  BY <1>1, <1>5 DEF OuterInv, LoopShape, end, A!Lock, A!Free, A!NoRun
<1>8. LockInv'
  BY <1>1, <1>6 DEF LockInv, A!Free, A!NoRun
<1>9. CoreInv'
  BY <1>1, <1>6 DEF OuterInv, CoreInv, LastLauncher
<1>10. LauncherInv'
  <2>1. LastLauncher' = LastLauncher
    BY <1>1 DEF LastLauncher
  <2>2. \A i \in DOMAIN launchers : launchers[i].status # "sent"
    BY <1>1 DEF OuterInv, LauncherInv
  <2> QED
    BY <1>1, <1>6, <2>1, <2>2 DEF OuterInv, LauncherInv
<1> QED
  BY <1>7, <1>8, <1>9, <1>10 DEF OuterInv

\* Exhaust: no attempt is submitted, so no core is at work.
LEMMA ExhaustOuter ==
  ASSUME OuterInv, A!Exhaust(LastLauncher), UNCHANGED <<core, end, rounds>>
  PROVE  OuterInv' /\ core.node = "ended"
<1>1. /\ lock = A!Free /\ ~A!LatestIs("submitted") /\ dState' = "exhausted"
      /\ UNCHANGED <<attempts, lapsed, launchers, lock>>
  BY DEF A!Exhaust, A!Follows
<1>2. ~Submitted /\ ~Starting
  BY <1>1 DEF Submitted, Starting, A!Free
<1>3. core.node = "ended"
  BY <1>2 DEF OuterInv, CoreInv
<1>4. LoopShape'
  BY <1>1 DEF OuterInv, LoopShape, end
<1>5. LockInv' /\ CoreInv'
  BY <1>1, <1>3 DEF OuterInv, LockInv, CoreInv, A!Free, A!LatestIs, A!Latest
<1>6. LauncherInv'
  BY <1>1 DEF OuterInv, LauncherInv, A!Free, A!LatestIs, A!Latest, LastLauncher, Starting, Submitted
<1> QED
  BY <1>3, <1>4, <1>5, <1>6 DEF OuterInv

\* RunCreated, and the core begins with its first generation.
LEMMA LauncherStartsOuter ==
  ASSUME OuterInv, NEW i \in DOMAIN launchers, LauncherStarts(i)
  PROVE  /\ OuterInv'
         /\ dState = "active" /\ A!LatestIs("planned") /\ ~A!LatestIs("submitted")
<1>1. /\ launchers[i].status = "sent"
      /\ launchers' = [launchers EXCEPT ![i] = [@ EXCEPT !.status = "running"]]
      /\ core' = Generation(i, 1)
      /\ UNCHANGED <<dState, attempts, lapsed, lock, end, rounds>>
  BY DEF LauncherStarts, A!RunCreated
<1>2. i = LastLauncher /\ Starting /\ LastLauncher # 0 /\ lock # A!Free
      /\ dState = "active" /\ A!LatestIs("planned") /\ ~A!LatestIs("submitted")
  <2>1. i = LastLauncher /\ Starting
    BY <1>1 DEF OuterInv, LauncherInv
  <2>2. lock # A!Free /\ lock.op = "start"
    BY <2>1 DEF Starting, A!Free
  <2> QED
    BY <2>1, <2>2 DEF OuterInv, LockInv, A!LatestIs
<1> DEFINE run == [launchers[i] EXCEPT !.status = "running"]
<1>3. launchers[i] \in A!Run /\ LastLauncher \in Nat /\ launchers \in Seq(A!Run)
      /\ LastLauncher <= AttemptCeiling
  BY DEF OuterInv, LoopShape, LastLauncher
<1>4. run \in A!Run /\ run.status = "running" /\ run.evidence = launchers[i].evidence
  BY <1>3 DEF A!Run
<1>5. launchers' = [launchers EXCEPT ![i] = run]
  BY <1>1
<1>6. /\ launchers' \in Seq(A!Run) /\ LastLauncher' = LastLauncher /\ launchers'[i] = run
      /\ DOMAIN launchers' = DOMAIN launchers
      /\ \A j \in DOMAIN launchers : j # i => launchers'[j] = launchers[j]
  BY <1>3, <1>4, <1>5 DEF LastLauncher
<1>7. /\ core' \in Core /\ core'.launcher = i /\ core'.node = "routing_context"
      /\ core'.items = {} /\ core'.status = "none"
  <2>1. core' = [launcher |-> i, node |-> "routing_context", generation |-> 1,
                 wave |-> 0, items |-> {}, failed |-> FALSE, status |-> "none"]
    BY <1>1 DEF Generation
  <2>2. i \in 0..AttemptCeiling /\ 1 \in 1..MaxGenerations
    BY <1>2, <1>3, CeilingsAssumption
  <2> QED
    BY <2>1, <2>2 DEF Core, CoreNodes
<1>8. launchers[i].evidence = "none"
  BY <1>1, <1>2 DEF OuterInv, LauncherInv
<1>9. LoopShape'
  BY <1>1, <1>6, <1>7 DEF OuterInv, LoopShape, end, LastLauncher
<1>10. Starting' /\ A!LatestIs("planned")' /\ lock' # A!Free
  BY <1>1, <1>2, <1>6 DEF Starting, A!LatestIs, A!Latest
<1>11. LockInv'
  BY <1>1, <1>2, <1>6, <1>10 DEF OuterInv, LockInv, A!Free
<1>12. CoreInv'
  BY <1>1, <1>2, <1>4, <1>6, <1>7, <1>10 DEF CoreInv
<1>13. LauncherInv'
  <2>1. core'.launcher \in 0..LastLauncher'
    BY <1>2, <1>3, <1>6, <1>7
  <2>2. ~A!LatestIs("submitted")'
    BY <1>1, <1>2 DEF A!LatestIs, A!Latest
  <2>3. ASSUME NEW j \in DOMAIN launchers'
        PROVE  /\ launchers'[j].status = "sent" => j = LastLauncher' /\ Starting'
               /\ launchers'[j].status = "running" => j = LastLauncher' /\ core'.launcher = j
               /\ j = LastLauncher' => launchers'[j].evidence = "none"
    <3>1. CASE j = i
      BY <3>1, <1>2, <1>4, <1>6, <1>7, <1>8
    <3>2. CASE j # i
      BY <3>2, <1>2, <1>6, <2>3 DEF OuterInv, LauncherInv
    <3> QED
      BY <3>1, <3>2
  <2> QED
    BY <2>1, <2>2, <2>3, <1>10 DEF LauncherInv
<1> QED
  BY <1>2, <1>9, <1>11, <1>12, <1>13 DEF OuterInv

\* A launcher ends: with its core, or without evidence together with it.
LEMMA RunEndsOuter ==
  ASSUME OuterInv, NEW launcher, NEW status,
         A!RunEnds(core.launcher, launcher, status, 0), core.launcher # 0,
         UNCHANGED <<dState, end, rounds>>,
         core'.node = "ended", core'.launcher = core.launcher,
         LoopShape' \/ core' = core,
         A!Evidence(launcher, status) \in A!Terminal \cup {"none"},
         A!Evidence(launcher, status) # "none" => A!Evidence(launcher, status) = core'.status
  PROVE  OuterInv'
<1> DEFINE i == core.launcher
           e == A!Evidence(launcher, status)
           run == [launchers[i] EXCEPT !.status = "ended", !.review = 0, !.evidence = e]
<1>1. /\ launchers[i].status = "running"
      /\ launchers' = [launchers EXCEPT ![i] = run]
      /\ UNCHANGED <<attempts, lapsed, lock>>
  BY DEF A!RunEnds
<1>2. i \in DOMAIN launchers /\ launchers[i] \in A!Run /\ LastLauncher \in Nat
      /\ launchers \in Seq(A!Run) /\ DOMAIN launchers = 1..LastLauncher
  <2>1. launchers \in Seq(A!Run) /\ DOMAIN launchers = 1..LastLauncher /\ LastLauncher \in Nat
    BY DEF OuterInv, LoopShape, LastLauncher
  <2>2. i \in 1..LastLauncher
    BY <2>1 DEF OuterInv, LauncherInv
  <2> QED
    BY <2>1, <2>2
<1>3. i = LastLauncher
  BY <1>1, <1>2 DEF OuterInv, LauncherInv
<1>4. run \in A!Run /\ run.status = "ended" /\ run.evidence = e
  <2>1. 0 \in 0..(NTasks * MaxExec * MaxUse)
    BY SizesAssumption
  <2> HIDE DEF e
  <2>2. e \in A!Terminal \cup {"none"}
    BY DEF e
  <2> QED
    BY <1>2, <2>1, <2>2 DEF A!Run
<1> HIDE DEF e, run
<1>5. /\ launchers' \in Seq(A!Run) /\ LastLauncher' = LastLauncher /\ launchers'[i] = run
      /\ DOMAIN launchers' = DOMAIN launchers
      /\ \A j \in DOMAIN launchers : j # i => launchers'[j] = launchers[j]
  BY <1>1, <1>2, <1>4 DEF LastLauncher
<1>6. LoopShape'
  <2>1. CASE core' = core
    BY <2>1, <1>1, <1>5 DEF OuterInv, LoopShape, end, LastLauncher
  <2> QED
    BY <2>1
<1>7. LockInv' /\ (Starting' <=> Starting) /\ (A!LatestIs("submitted")' <=> A!LatestIs("submitted"))
      /\ A!Latest' = A!Latest
  BY <1>1, <1>5 DEF OuterInv, LockInv, A!Free, A!LatestIs, A!Latest, Starting
<1>8. LauncherInv'
  <2>1. core'.launcher \in 0..LastLauncher'
    BY <1>5 DEF OuterInv, LauncherInv
  <2>2. ASSUME NEW j \in DOMAIN launchers'
        PROVE  /\ launchers'[j].status = "sent" => j = LastLauncher' /\ Starting'
               /\ launchers'[j].status # "running"
               /\ j = LastLauncher' /\ launchers'[j].evidence # "none" =>
                    launchers'[j].status = "ended" /\ core'.launcher = j /\ core'.node = "ended" /\ core'.status = launchers'[j].evidence
    <3>1. CASE j = i
      BY <3>1, <1>3, <1>4, <1>5 DEF e
    <3>2. CASE j # i
      BY <3>2, <1>3, <1>5, <1>7, <2>2 DEF OuterInv, LauncherInv
    <3> QED
      BY <3>1, <3>2
  <2> QED
    BY <2>1, <2>2, <1>1, <1>5, <1>7 DEF OuterInv, LauncherInv
<1>9. CoreInv'
  BY DEF CoreInv
<1> QED
  BY <1>6, <1>7, <1>8, <1>9 DEF OuterInv

\* Reconcile: the submitted attempt of the last launcher is settled.
ReconcileView ==
    LET run == launchers[LastLauncher] IN
    /\ lock = A!Free /\ A!LatestIs("submitted") /\ ~A!LatestIs("submitted")' /\ LastLauncher # 0
    /\ run.evidence # "none" /\ core.node = "ended" /\ core.status = run.evidence
    /\ core.launcher = LastLauncher
    /\ dState' = A!Disposition(run.evidence)
    /\ UNCHANGED <<lapsed, launchers, lock>> /\ Len(attempts') = Len(attempts)

\* Reconcile settles the attempt of a launcher whose core has ended, with the
\* status of that core.
LEMMA ReconcileOuter ==
  ASSUME OuterInv, Fingerprint \in Nat, A!Reconcile, UNCHANGED <<core, end, rounds>>
  PROVE  OuterInv' /\ ReconcileView
<1> DEFINE run == launchers[LastLauncher]
<1>1. /\ lock = A!Free /\ A!LatestIs("submitted") /\ LastLauncher # 0
      /\ attempts[A!Latest].run = LastLauncher
  BY DEF A!Reconcile, OuterInv, LauncherInv
<1>2. /\ run.evidence # "none" /\ A!GraphUsage \in Nat
      /\ attempts' = [attempts EXCEPT ![A!Latest] =
                        [@ EXCEPT !.state = "terminal", !.status = run.evidence,
                                  !.failed = GraphView.owned /\ GraphView.fallback,
                                  !.graphTokens = A!GraphUsage,
                                  !.reviewTokens = run.review,
                                  !.seen = Fingerprint]]
      /\ dState' = A!Disposition(run.evidence)
      /\ UNCHANGED <<lapsed, launchers, lock>>
  BY <1>1 DEF A!Reconcile
<1>3. /\ A!Latest \in DOMAIN attempts /\ attempts[A!Latest] \in A!Attempt
      /\ run \in A!Run /\ attempts \in Seq(A!Attempt)
  BY <1>1 DEF OuterInv, LoopShape, A!LatestIs, A!Latest, LastLauncher
<1>4. /\ run.status = "ended" /\ core.launcher = LastLauncher /\ core.node = "ended"
      /\ core.status = run.evidence
  <2>1. LastLauncher \in DOMAIN launchers
    BY <1>1 DEF OuterInv, LoopShape, LastLauncher
  <2> QED
    BY <2>1, <1>2 DEF OuterInv, LauncherInv
<1> DEFINE a == [attempts[A!Latest] EXCEPT !.state = "terminal", !.status = run.evidence,
                                  !.failed = GraphView.owned /\ GraphView.fallback,
                                  !.graphTokens = A!GraphUsage,
                                  !.reviewTokens = run.review,
                                  !.seen = Fingerprint]
<1>5. a \in A!Attempt /\ a.state = "terminal"
  <2>1. run.evidence \in A!Terminal \cup {"none"} /\ run.review \in Nat
    BY <1>3, SizesAssumption DEF A!Run
  <2>2. (GraphView.owned /\ GraphView.fallback) \in BOOLEAN
    OBVIOUS
  <2> QED
    BY <2>1, <2>2, <1>2, <1>3 DEF A!Attempt
<1>6. attempts' = [attempts EXCEPT ![A!Latest] = a]
  BY <1>2
<1> HIDE DEF a
<1>7. /\ attempts' \in Seq(A!Attempt) /\ Len(attempts') = Len(attempts)
      /\ attempts'[Len(attempts)] = a
  BY <1>3, <1>5, <1>6 DEF A!Latest
<1>8. ~A!LatestIs("submitted")' /\ ~A!LatestIs("planned")'
  BY <1>5, <1>7 DEF A!LatestIs, A!Latest
<1>9. dState' \in {"active", "done", "blocked", "exhausted"}
  <2>1. run.evidence \in {"done", "failed", "exhausted", "stopped"}
    BY <1>2, <1>3 DEF A!Run, A!Terminal
  <2>2. dState \in {"active", "done", "blocked", "exhausted"}
    BY DEF OuterInv, LoopShape
  <2> QED
    BY <2>1, <2>2, <1>2 DEF A!Disposition, A!AfterFailure
<1>10. LoopShape'
  BY <1>2, <1>7, <1>9 DEF OuterInv, LoopShape, end
<1>11. LockInv'
  BY <1>1, <1>2, <1>8 DEF LockInv, A!Free
<1>12. CoreInv'
  BY <1>4 DEF CoreInv
<1>13. LauncherInv'
  <2>1. \A i \in DOMAIN launchers : launchers[i].status = "ended"
    <3>1. ASSUME NEW i \in DOMAIN launchers, i # LastLauncher PROVE launchers[i].status \notin {"sent", "running"}
      BY <3>1 DEF OuterInv, LauncherInv
    <3>2. \A i \in DOMAIN launchers : launchers[i] \in A!Run
      BY DEF OuterInv, LoopShape
    <3> QED
      BY <3>1, <3>2, <1>4 DEF A!Run
  <2> QED
    BY <1>2, <1>8, <2>1 DEF OuterInv, LauncherInv, LastLauncher
<1> QED
  BY <1>1, <1>2, <1>4, <1>7, <1>8, <1>10, <1>11, <1>12, <1>13 DEF OuterInv, ReconcileView

\* The deadline touches nothing else.
LEMMA DeadlineOuter ==
  ASSUME OuterInv, A!DeadlinePasses, UNCHANGED <<dState, core, end, rounds>>
  PROVE  OuterInv'
<1>1. lapsed' = TRUE /\ UNCHANGED <<attempts, launchers, lock>>
  BY DEF A!DeadlinePasses
<1>2. LoopShape'
  BY <1>1 DEF OuterInv, LoopShape, end
<1>3. LockInv' /\ CoreInv' /\ LauncherInv'
  BY <1>1 DEF OuterInv, LockInv, CoreInv, LauncherInv, A!Free, A!LatestIs, A!Latest, LastLauncher, Starting, Submitted
<1> QED
  BY <1>2, <1>3 DEF OuterInv

\* The core closes the delivery and ends.
LEMMA TerminalizesOuter ==
  ASSUME OuterInv, lock = A!Free, dState' \in {"blocked", "exhausted"},
         core'.node = "ended", core'.launcher = core.launcher, core.node # "ended",
         UNCHANGED <<outer, end, rounds>>, LoopShape'
  PROVE  OuterInv'
<1>1. UNCHANGED <<attempts, launchers, lock, lapsed>>
  BY DEF outer
<1>2. LockInv' /\ CoreInv'
  BY <1>1 DEF OuterInv, LockInv, CoreInv, A!Free, A!LatestIs, A!Latest, LastLauncher
<1>3. LauncherInv'
  BY <1>1 DEF OuterInv, LauncherInv, A!LatestIs, A!Latest, LastLauncher, Starting, Submitted, A!Free
<1> QED
  BY <1>2, <1>3 DEF OuterInv

-----------------------------------------------------------------------------
(* The core *)

\* The types of the core.
CoreShape ==
    /\ core \in Core
    /\ core.items # {} => core.node = "task_wave"
    /\ core.node = "ended" <=> core.status # "none"

\* The types are kept when the attempts are left alone.
LEMMA ShapeKept ==
  ASSUME LoopShape, CoreShape',
         dState' \in {"active", "done", "blocked", "exhausted"},
         UNCHANGED outer, rounds' \in 0..MaxRounds, reviews' \in Nat, fixes' \in Nat,
         published' \in BOOLEAN, retained' \in BOOLEAN
  PROVE  LoopShape'
  BY DEF LoopShape, CoreShape, outer

\* A generation that goes round begins the next one or ends at the cap.
LEMMA GenerationShape ==
  ASSUME CoreShape, core.node # "ended", GoesRound
  PROVE  /\ CoreShape' /\ core'.launcher = core.launcher
         /\ core'.node = "routing_context" \/ (core'.node = "ended" /\ core'.status = "exhausted")
         /\ core'.node = "routing_context" => core'.status = "none"
<1>1. core.launcher \in 0..AttemptCeiling /\ core.generation \in 1..MaxGenerations
  BY DEF CoreShape, Core
<1>2. CASE core.generation < MaxGenerations
  <2>1. core' = [launcher |-> core.launcher, node |-> "routing_context",
                 generation |-> core.generation + 1,
                 wave |-> 0, items |-> {}, failed |-> FALSE, status |-> "none"]
    BY <1>2 DEF GoesRound, Generation
  <2>2. core.generation + 1 \in 1..MaxGenerations
    BY <1>1, <1>2, CeilingsAssumption
  <2> QED
    BY <2>1, <2>2, <1>1 DEF CoreShape, Core, CoreNodes
<1>3. CASE ~(core.generation < MaxGenerations)
  <2>1. core' = [launcher |-> core.launcher, node |-> "ended",
                 generation |-> 1,
                 wave |-> 0, items |-> {}, failed |-> FALSE, status |-> "exhausted"]
    BY <1>3 DEF GoesRound, Ends, Generation
  <2>2. 1 \in 1..MaxGenerations
    BY CeilingsAssumption
  <2> QED
    BY <2>1, <2>2, <1>1 DEF CoreShape, Core, CoreNodes, Terminal
<1> QED
  BY <1>2, <1>3

\* A core that ends has the status it ended with and no cells.
LEMMA EndShape ==
  ASSUME CoreShape, NEW status \in Terminal, Ends(status)
  PROVE  /\ CoreShape' /\ core'.launcher = core.launcher
         /\ core'.node = "ended" /\ core'.status = status
<1>1. core.launcher \in 0..AttemptCeiling
  BY DEF CoreShape, Core
<1>2. core' = [launcher |-> core.launcher, node |-> "ended",
               generation |-> 1,
               wave |-> 0, items |-> {}, failed |-> FALSE, status |-> status]
  BY DEF Ends, Generation
<1>3. 1 \in 1..MaxGenerations
  BY CeilingsAssumption
<1> QED
  BY <1>1, <1>2, <1>3 DEF CoreShape, Core, CoreNodes, Terminal

\* A core that moves keeps its launcher and its wave.
LEMMA MoveShape ==
  ASSUME CoreShape, core.node # "ended", core.items = {}, NEW n \in CoreNodes \ {"ended"},
         Moves(n)
  PROVE  /\ CoreShape' /\ core'.launcher = core.launcher
         /\ core'.node = n /\ core'.status = core.status
         /\ core'.wave = core.wave /\ core'.items = {}
<1>1. core' \in Core /\ core'.node = n /\ core'.items = {} /\ core'.status = core.status
      /\ core'.launcher = core.launcher /\ core'.wave = core.wave
  BY DEF CoreShape, Core, Moves
<1> QED
  BY <1>1 DEF CoreShape

-----------------------------------------------------------------------------
(* The graph *)

\* The types of the graph whatever the delivery's state; run names are unique.
GraphShape ==
    /\ tState \in [Tasks -> TaskStates]
    /\ count \in [Tasks -> 0..MaxExec]
    /\ att \in [Tasks -> [Execs -> Attempt]]
    /\ call \in [Callers -> Call]
    /\ runs \in SUBSET Run
    /\ CallsNameAttempts
    /\ IsFiniteSet(results)
    /\ \A r, s \in runs : r.id = s.id => r = s
    /\ \A r \in runs : r.id.copy # 0

\* The graph of a delivery that is not done is one of DeliveryGraph's.
GraphInv == GraphShape /\ (dState # "done" => HistoryInv)

\* The core and its children are the callers.
LEMMA CallersAre == "core" \in Callers /\ "child" \in Callers
  BY CallersOfTheLoops

\* A step that at most ends a call, closes the delivery, lets the clock run out
\* or moves HEAD keeps the graph.
LEMMA GraphAside ==
  ASSUME GraphInv, dState' \in {"active", "done", "blocked", "exhausted"},
         dState' # "done" => /\ dState # "done"
                            /\ wall' \in BOOLEAN /\ blockers' \in BOOLEAN /\ head' \in Nat,
         UNCHANGED <<tState, count, att, waves, intents, integrations, paused, results, runs>>,
         NEW c \in Callers, call' = call \/ Returns(c)
  PROVE  GraphInv'
<1>1. call' \in [Callers -> Call] /\ CallsNameAttempts'
  <2>1. CASE call' = call
    BY <2>1 DEF GraphInv, GraphShape, CallsNameAttempts, Naming, CandidateParts
  <2>2. CASE Returns(c)
    <3>1. Idle \in Call /\ Idle.op = "idle"
      BY NullTypes DEF Idle
    <3>2. call' = [call EXCEPT ![c] = Idle]
      BY <2>2 DEF Returns
    <3> QED
      BY <3>1, <3>2 DEF GraphInv, GraphShape, CallsNameAttempts, Naming, CandidateParts
  <2> QED
    BY <2>1, <2>2
<1>2. GraphShape'
  BY <1>1 DEF GraphInv, GraphShape
<1>3. ASSUME dState' # "done"
      PROVE  HistoryInv'
  <2>1. HistoryInv /\ dState # "done"
    BY <1>3 DEF GraphInv
  <2>2. TypeOK'
    BY <1>1, <1>3, <2>1 DEF HistoryInv, TypeOK
  <2>3. HistorySound' /\ ResultsSound'
    BY <2>1 DEF HistoryInv, HistorySound, ResultsSound, TaskSound
  <2> QED
    BY <1>1, <2>2, <2>3 DEF HistoryInv
<1> QED
  BY <1>2, <1>3 DEF GraphInv

\* What the children may do to the runs: none begins and none comes back.
RunsStay ==
    /\ {r.id : r \in runs'} = {r.id : r \in runs}
    /\ \A r \in runs' : r.status = "running" => \E s \in runs : s.id = r.id /\ s.status = "running"

\* Runs that do not change stay.
LEMMA RunsSame == ASSUME runs' = runs PROVE RunsStay
  BY DEF RunsStay

\* A run at work that changes without its name stays.
LEMMA RunBecomesStays ==
  ASSUME GraphShape, NEW r \in runs, NEW s \in Run, RunBecomes(r, s), s.id = r.id, r.status = "running"
  PROVE  /\ RunsStay
         /\ \A p, q \in runs' : p.id = q.id => p = q
         /\ \A p \in runs' : p.id.copy # 0
<1>1. runs' = (runs \ {r}) \cup {s}
  BY DEF RunBecomes
<1>2. {p.id : p \in runs'} = {p.id : p \in runs}
  <2>1. ASSUME NEW p \in runs' PROVE \E q \in runs : q.id = p.id
    BY <1>1
  <2>2. ASSUME NEW p \in runs PROVE \E q \in runs' : q.id = p.id
    BY <1>1
  <2> QED
    BY <2>1, <2>2
<1>3. \A p \in runs' : p.status = "running" => \E q \in runs : q.id = p.id /\ q.status = "running"
  BY <1>1
<1> QED
  BY <1>1, <1>2, <1>3 DEF GraphShape, RunsStay

\* One step of a child run.
ChildRunStep(r) ==
    \/ TaskContext(r)
    \/ \E used \in 0..MaxUse : ChildCompletes(r, used) \/ ChildFails(r, used)
    \/ \E p \in Prompts : ChildAsks(r, p)
    \/ HumanReplies(r)
    \/ NextGeneration(r)

\* A step of a child run changes that run only, which was at work.
LEMMA ChildRunStays ==
  ASSUME GraphShape, NEW r \in runs, ChildRunStep(r)
  PROVE  /\ RunsStay /\ r.status = "running"
         /\ \A p, q \in runs' : p.id = q.id => p = q
         /\ \A p \in runs' : p.id.copy # 0
         /\ UNCHANGED <<journal, wall, git, call>>
         /\ runs' \in SUBSET Run
<1>1. r \in Run /\ Execs \subseteq 0..MaxExec /\ runs \in SUBSET Run
  BY DEF GraphShape, Execs
<1>2. PICK s : /\ s \in Run /\ s.id = r.id /\ RunBecomes(r, s) /\ r.status = "running"
               /\ UNCHANGED <<journal, wall, git, call>>
  <2>1. CASE TaskContext(r)
    <3>1. PICK e \in Execs : RunBecomes(r, [r EXCEPT !.ctx = e])
      BY <2>1 DEF TaskContext
    <3>2. [r EXCEPT !.ctx = e] \in Run /\ [r EXCEPT !.ctx = e].id = r.id
      BY <1>1 DEF Run
    <3> QED
      BY <2>1, <3>1, <3>2 DEF TaskContext
  <2>2. ASSUME NEW used \in 0..MaxUse, ChildCompletes(r, used)
        PROVE  \E s : /\ s \in Run /\ s.id = r.id /\ RunBecomes(r, s) /\ r.status = "running"
                      /\ UNCHANGED <<journal, wall, git, call>>
    <3>1. [r EXCEPT !.status = "done", !.used = used] \in Run
          /\ [r EXCEPT !.status = "done", !.used = used].id = r.id
      BY <1>1 DEF Run
    <3> QED
      BY <2>2, <3>1 DEF ChildCompletes
  <2>6. ASSUME NEW used \in 0..MaxUse, ChildFails(r, used)
        PROVE  \E s : /\ s \in Run /\ s.id = r.id /\ RunBecomes(r, s) /\ r.status = "running"
                      /\ UNCHANGED <<journal, wall, git, call>>
    <3>1. [r EXCEPT !.status = "failed", !.used = used,
                    !.ctx = 0, !.ask = NoPrompt, !.replied = FALSE] \in Run
          /\ [r EXCEPT !.status = "failed", !.used = used,
                       !.ctx = 0, !.ask = NoPrompt, !.replied = FALSE].id = r.id
      <4>1. 0 \in 0..MaxExec
        BY SizesAssumption
      <4> QED
        BY <1>1, <4>1 DEF Run
    <3> QED
      BY <2>6, <3>1 DEF ChildFails
  <2>3. ASSUME NEW p \in Prompts, ChildAsks(r, p)
        PROVE  \E s : /\ s \in Run /\ s.id = r.id /\ RunBecomes(r, s) /\ r.status = "running"
                      /\ UNCHANGED <<journal, wall, git, call>>
    <3>1. [r EXCEPT !.ask = p] \in Run /\ [r EXCEPT !.ask = p].id = r.id
      BY <1>1 DEF Run
    <3> QED
      BY <2>3, <3>1 DEF ChildAsks
  <2>4. CASE HumanReplies(r)
    <3>1. [r EXCEPT !.replied = TRUE] \in Run /\ [r EXCEPT !.replied = TRUE].id = r.id
      BY <1>1 DEF Run
    <3> QED
      BY <2>4, <3>1 DEF HumanReplies
  <2>5. CASE NextGeneration(r)
    <3>1. [r EXCEPT !.ctx = 0, !.ask = NoPrompt, !.replied = FALSE] \in Run
          /\ [r EXCEPT !.ctx = 0, !.ask = NoPrompt, !.replied = FALSE].id = r.id
      <4>1. 0 \in 0..MaxExec
        BY SizesAssumption
      <4> QED
        BY <1>1, <4>1 DEF Run
    <3> QED
      BY <2>5, <3>1 DEF NextGeneration
  <2> QED
    BY <2>1, <2>2, <2>3, <2>4, <2>5, <2>6 DEF ChildRunStep
<1>3. runs' \in SUBSET Run
  BY <1>1, <1>2 DEF RunBecomes
<1> QED
  BY <1>2, <1>3, RunBecomesStays

\* What a service step may touch outside the graph.
ServiceEffects(c) ==
    /\ UNCHANGED dState
    /\ UNCHANGED runs \/ \E x \in Commit, k \in 1..MaxCopies : StartChild(c, x, k)
    /\ UNCHANGED results \/ \E r : results' = results \cup {r}
    /\ \E record : Holds(c, record)

\* What the operations of DeliveryGraph leave alone.
LEMMA ServiceTouches ==
  ASSUME NEW c \in Callers, ServiceStep(c)
  PROVE  ServiceEffects(c)
<1>1. CASE PrepareRead(c)
  BY <1>1 DEF PrepareRead, Returns, Holds, journal, git, ServiceEffects
<1>2. CASE PrepareResume(c)
  BY <1>2 DEF PrepareResume, Returns, Holds, journal, git, ServiceEffects
<1>3. CASE PrepareAdmit(c)
  BY <1>3 DEF PrepareAdmit, Returns, Holds, journal, git, ServiceEffects
<1>4. CASE \E t \in Tasks, ready \in BOOLEAN : AttachWorktree(c, t, ready)
  BY <1>4 DEF AttachWorktree, Returns, Holds, journal, git, ServiceEffects
<1>5. CASE PrepareReturn(c)
  BY <1>5 DEF PrepareReturn, Returns, Holds, journal, git, ServiceEffects
<1>6. CASE \E r \in runs, e \in Execs : QuestionLoad(c, r, e)
  BY <1>6 DEF QuestionLoad, Returns, Holds, journal, git, ServiceEffects
<1>7. CASE QuestionCommit(c)
  BY <1>7 DEF QuestionCommit, Returns, Holds, journal, git, ServiceEffects
<1>8. CASE \E r \in runs, e \in Execs : AnswerLoad(c, r, e)
  BY <1>8 DEF AnswerLoad, Returns, Holds, journal, git, ServiceEffects
<1>9. CASE AnswerCommit(c)
  BY <1>9 DEF AnswerCommit, Returns, Holds, journal, git, ServiceEffects
<1>10. CASE \E w, t, x : CandidateLoad(c, w, t, x)
  BY ZenonT(60), <1>10 DEF CandidateLoad, journal, git, ServiceEffects
<1>24. CASE CandidateReads(c)
  BY ZenonT(60), <1>24 DEF CandidateReads, CandidateRecent, CandidateStatus, CandidateInspect,
                           journal, git, ServiceEffects
<1>11. CASE CandidateCommit(c)
  BY <1>11 DEF CandidateCommit, Returns, Holds, journal, git, ServiceEffects
<1>12. CASE \E r \in runs, e \in Execs : FailureLoad(c, r, e)
  BY <1>12 DEF FailureLoad, Returns, Holds, journal, git, ServiceEffects
<1>13. CASE \E fallback \in BOOLEAN : FailureCommit(c, fallback)
  BY <1>13 DEF FailureCommit, Returns, Holds, journal, git, ServiceEffects
<1>14. CASE FailureReplay(c)
  BY <1>14 DEF FailureReplay, Returns, Holds, journal, git, ServiceEffects
<1>15. CASE \E w \in DOMAIN waves : SettleResume(c, w)
  BY <1>15 DEF SettleResume, Returns, Holds, journal, git, ServiceEffects
<1>16. CASE \E w \in DOMAIN waves : SettleLoad(c, w)
  BY <1>16 DEF SettleLoad, Returns, Holds, journal, git, ServiceEffects
<1>17. CASE SettleIntent(c)
  BY <1>17 DEF SettleIntent, Returns, Holds, journal, git, ServiceEffects
<1>18. CASE IntegrateReplay(c)
  BY <1>18 DEF IntegrateReplay, Returns, Holds, journal, git, ServiceEffects
<1>19. CASE \E r \in results : SettleCommit(c, r)
  BY <1>19 DEF SettleCommit, Returns, Holds, journal, git, ServiceEffects
<1>20. CASE SettleReplay(c)
  BY <1>20 DEF SettleReplay, Returns, Holds, journal, git, ServiceEffects
<1>21. CASE CallEnds(c)
  BY <1>21 DEF CallEnds, Returns, Holds, journal, git, ServiceEffects
<1>22. ASSUME NEW x \in Commit, NEW k \in 1..MaxCopies, StartChild(c, x, k)
      PROVE  ServiceEffects(c)
  <2>1. UNCHANGED <<dState, results>>
    BY <1>22 DEF StartChild, journal, git
  <2>2. \E record : Holds(c, record)
    BY <1>22 DEF StartChild, Returns, Holds
  <2> QED
    BY <2>1, <2>2, <1>22 DEF ServiceEffects
<1>23. ASSUME NEW conflict \in 0..NTasks, Integrate(c, conflict)
      PROVE  ServiceEffects(c)
  <2>1. UNCHANGED <<dState, runs>> /\ \E r : results' = results \cup {r}
    BY <1>23 DEF Integrate, journal
  <2>2. \E record : Holds(c, record)
    BY <1>23 DEF Integrate, Holds
  <2> QED
    BY <2>1, <2>2 DEF ServiceEffects
<1> QED
  BY <1>1, <1>2, <1>3, <1>4, <1>5, <1>6, <1>7, <1>8, <1>9, <1>10, <1>11, <1>12, <1>13, <1>14, <1>15, <1>16, <1>17, <1>18, <1>19, <1>20, <1>21, <1>22, <1>23, <1>24 DEF ServiceStep

\* The operations keep the names of the runs unique and the calls apart.
LEMMA ServiceKeepsRuns ==
  ASSUME GraphShape, NEW c \in Callers, ServiceEffects(c), runs' \in SUBSET Run
  PROVE  /\ IsFiniteSet(results')
         /\ \A p, q \in runs' : p.id = q.id => p = q
         /\ \A p \in runs' : p.id.copy # 0
         /\ \A d \in Callers : d # c => call'[d] = call[d]
<1>1. IsFiniteSet(results')
  <2>1. IsFiniteSet(results)
    BY DEF GraphShape
  <2>2. ASSUME NEW r, results' = results \cup {r}
        PROVE  IsFiniteSet(results')
    BY <2>1, <2>2, FS_AddElement
  <2> QED
    BY <2>1, <2>2 DEF ServiceEffects
<1>2. \A d \in Callers : d # c => call'[d] = call[d]
  BY DEF GraphShape, ServiceEffects, Holds
<1>3. CASE UNCHANGED runs
  BY <1>1, <1>2, <1>3 DEF GraphShape
<1>4. ASSUME NEW x \in Commit, NEW k \in 1..MaxCopies, StartChild(c, x, k)
      PROVE  /\ \A p, q \in runs' : p.id = q.id => p = q
             /\ \A p \in runs' : p.id.copy # 0
  <2> DEFINE id == [wave |-> call[c].wave, task |-> x[1], exec |-> x[2], copy |-> k]
             run == [id |-> id, status |-> "running", used |-> 0,
                     ctx |-> 0, ask |-> NoPrompt, replied |-> FALSE]
  <2>1. runs' = runs \cup {run}
    BY <1>4 DEF StartChild
  <2>2. ~ \E r \in runs : r.id = [id EXCEPT !.copy = k]
    BY <1>4 DEF StartChild
  <2>3. [id EXCEPT !.copy = k] = id
    OBVIOUS
  <2>4. run.id = id /\ id.copy = k /\ k # 0
    OBVIOUS
  <2> HIDE DEF run, id
  <2> QED
    BY <2>1, <2>2, <2>3, <2>4 DEF GraphShape
<1> QED
  BY <1>1, <1>2, <1>3, <1>4 DEF ServiceEffects

\* Every operation keeps the graph, by the history proof of DeliveryGraph.
LEMMA GraphService ==
  ASSUME GraphInv, dState # "done", NEW c \in Callers, ServiceStep(c)
  PROVE  GraphInv' /\ Good /\ UNCHANGED dState /\ \A d \in Callers : d # c => call'[d] = call[d]
<1>1. HistoryInv
  BY DEF GraphInv
<1>2. [Next]_vars
  BY DEF Next
<1>3. TypeOK' /\ CallsNameAttempts'
  BY <1>1, <1>2, StepType DEF HistoryInv
<1>4. Good /\ ResultsSound'
  BY <1>1, <1>2, StepGood
<1>5. HistoryInv'
  BY <1>3, <1>4, GoodIsSound DEF HistoryInv
<1>6. ServiceEffects(c)
  BY ServiceTouches
<1>7. runs' \in SUBSET Run
  BY <1>3 DEF TypeOK
<1>8. /\ IsFiniteSet(results')
      /\ \A p, q \in runs' : p.id = q.id => p = q
      /\ \A p \in runs' : p.id.copy # 0
      /\ \A d \in Callers : d # c => call'[d] = call[d]
  BY <1>6, <1>7, ServiceKeepsRuns DEF GraphInv
<1>9. GraphShape'
  BY <1>3, <1>8 DEF GraphShape, TypeOK
<1> QED
  BY <1>4, <1>5, <1>6, <1>8, <1>9 DEF GraphInv, ServiceEffects

\* settle_wave takes up an intent of the core's wave.
LEMMA GraphResume ==
  ASSUME GraphInv, dState # "done", NEW c \in Callers, NEW w, SettleResume(c, w)
  PROVE  /\ GraphInv' /\ UNCHANGED <<journal, wall, git, runs>>
         /\ \A d \in Callers : d # c => call'[d] = call[d]
<1>1. HistoryInv
  BY DEF GraphInv
<1>2. PICK i \in intents : i.wave = w /\ Holds(c, [Idle EXCEPT !.op = "integrate", !.wave = w,
                                  !.head = i.start, !.cands = i.cands])
  BY DEF SettleResume, PendingIntents
<1>3. UNCHANGED <<journal, wall, git, runs>>
  BY DEF SettleResume
<1> DEFINE record == [Idle EXCEPT !.op = "integrate", !.wave = w, !.head = i.start, !.cands = i.cands]
<1>4. record \in Call /\ record.op = "integrate"
  <2>1. i \in Operation
    BY <1>1 DEF HistoryInv, TypeOK
  <2> QED
    BY <1>2, <2>1, NullTypes DEF Operation, Call
<1>5. call' = [call EXCEPT ![c] = record]
  BY <1>2 DEF Holds
<1> HIDE DEF record
<1>6. call' \in [Callers -> Call] /\ CallsNameAttempts' /\ \A d \in Callers : d # c => call'[d] = call[d]
  BY <1>4, <1>5 DEF GraphInv, GraphShape, CallsNameAttempts, Naming, CandidateParts
<1>7. TypeOK'
  BY <1>1, <1>3, <1>6 DEF HistoryInv, TypeOK, journal, git
<1>8. HistorySound' /\ ResultsSound'
  BY <1>1, <1>3 DEF HistoryInv, HistorySound, ResultsSound, TaskSound, journal, git
<1> QED
  BY <1>3, <1>6, <1>7, <1>8 DEF GraphInv, GraphShape, HistoryInv, journal, git

\* A step of a child keeps the graph.
LEMMA GraphChild ==
  ASSUME GraphInv, NEW r \in runs, ChildRunStep(r), dState # "done"
  PROVE  /\ GraphInv' /\ RunsStay /\ UNCHANGED <<journal, wall, git, call>>
<1>1. /\ RunsStay /\ r.status = "running"
      /\ \A p, q \in runs' : p.id = q.id => p = q
      /\ \A p \in runs' : p.id.copy # 0
      /\ UNCHANGED <<journal, wall, git, call>>
      /\ runs' \in SUBSET Run
  BY ChildRunStays DEF GraphInv
<1>2. HistoryInv
  BY DEF GraphInv
<1>3. TypeOK' /\ CallsNameAttempts'
  BY <1>1, <1>2 DEF HistoryInv, TypeOK, CallsNameAttempts, Naming, CandidateParts, journal, git
<1>4. HistorySound' /\ ResultsSound'
  BY <1>1, <1>2 DEF HistoryInv, HistorySound, ResultsSound, TaskSound, journal, git
<1>5. GraphShape'
  BY <1>1, <1>3 DEF GraphInv, GraphShape, journal, git
<1> QED
  BY <1>1, <1>3, <1>4, <1>5 DEF GraphInv, HistoryInv

\* A delivery that is wholly integrated stays so.
LEMMA IntegratedStay ==
  ASSUME HistoryInv, TypeOK', Good, AllIntegrated
  PROVE  AllIntegrated'
<1> SUFFICES ASSUME NEW t \in Tasks
             PROVE  tState'[t] = "integrated"
  BY DEF AllIntegrated
<1>1. tState[t] = "integrated" /\ TaskSound(tState[t], count[t], att[t])
  BY DEF AllIntegrated, HistoryInv, HistorySound
<1>2. count[t] # 0
  BY <1>1 DEF TaskSound
<1>3. count[t] \in Execs /\ att[t][count[t]].state = "integrated"
  BY <1>1, <1>2, LatestFacts DEF HistoryInv
<1>4. att'[t][count[t]].state = "integrated" /\ TaskSound(tState'[t], count'[t], att'[t])
  BY <1>3 DEF Good, HistoryKept, Kept
<1>5. ~Closed(att'[t][count[t]]) /\ att'[t][count[t]] # NoAttempt
  BY <1>4 DEF Closed, NoAttempt
<1>6. ~(count[t] < count'[t]) /\ ~(count[t] > count'[t])
  BY <1>3, <1>4, <1>5 DEF TaskSound
<1>7. count[t] \in Nat /\ count'[t] \in Nat
  BY <1>3, SizesAssumption DEF TypeOK, Execs
<1>8. count'[t] = count[t] /\ count[t] # 0
  BY <1>2, <1>6, <1>7
<1> QED
  BY <1>4, <1>8 DEF TaskSound

-----------------------------------------------------------------------------
(* Children, review and the end of a delivery *)

\* No child is at work.
NoChildAtWork == \A r \in runs : r.status # "running"

\* r is the newest copy of the child of cell x.
IsChildOf(r, x) ==
    /\ r.id = [wave |-> core.wave, task |-> x[1], exec |-> x[2], copy |-> r.id.copy]
    /\ \A s \in runs : s.id = [r.id EXCEPT !.copy = s.id.copy] => s.id.copy <= r.id.copy

\* Children work only while the core is at the fan-out, each for a cell that has
\* not settled, or after the core was stopped there.
CellsInv ==
    /\ \A x, y \in core.items : x[1] = y[1] => x = y
    /\ \A r \in runs : r.status = "running" =>
         \E x \in core.items :
            /\ IsChildOf(r, x)
            /\ call["core"].op = "children" => x \notin call["core"].cands
            /\ call["core"].op \in CandidateParts => call["core"].task # x[1]
    /\ call["core"].op = "children" =>
         call["core"].cands \subseteq core.items /\ call["core"].wave = core.wave

\* When children may be at work.
ChildrenInv ==
    /\ core.node \notin {"task_wave", "ended"} \/ core.status \in {"done", "failed"} => NoChildAtWork
    /\ dState = "active" /\ ~A!LatestIs("submitted") => NoChildAtWork
    /\ core.node = "task_wave" => CellsInv

\* The nodes before the review has begun, and those that want everything
\* integrated.
EarlyNodes == {"routing_context", "prepare_wave", "task_wave", "settle_wave",
               "delivery_budget_context"}
LateNodes == {"delivery_budget_context", "review", "publication_plan", "publication_verify",
              "cleanup", "terminal_blocked_publication", "terminal_blocked_cleanup"}

\* The review begins when everything is integrated, and the attempt that
\* reviewed is the last one.
ReviewInv ==
    /\ core.node \in LateNodes => AllIntegrated
    /\ core.node \in EarlyNodes => reviews = 0
    /\ core.node \in LateNodes \ EarlyNodes => reviews = 1
    /\ core.node = "review" => fixes = 0
    /\ core.node = "cleanup" => published
    /\ reviews \in {0, 1}
    /\ fixes <= reviews
    /\ reviews = 1 => AllIntegrated /\ (dState = "active" => A!LatestIs("submitted"))

\* What a delivery that is done did.
WasDelivered == AllIntegrated /\ reviews = 1 /\ published /\ ~retained /\ NoChildAtWork

\* A core that is done delivered, and so did a delivery that is done.
DoneInv ==
    /\ core.status = "done" => WasDelivered
    /\ dState = "done" => /\ WasDelivered
                          /\ core.node = "ended" /\ ~A!LatestIs("submitted") /\ lock = A!Free

\* The inductive invariant.
LoopInv == OuterInv /\ GraphInv /\ ChildrenInv /\ ReviewInv /\ DoneInv

\* The invariant holds at first.
LEMMA LoopInitInv == LoopInit => LoopInv
<1> SUFFICES ASSUME LoopInit
             PROVE  LoopInv
  OBVIOUS
<1>1. OuterInv
  BY OuterInit
<1>2. Init /\ runs = {} /\ results = {} /\ tState = [t \in Tasks |-> "pending"]
      /\ reviews = 0 /\ fixes = 0 /\ core.node = "ended" /\ core.status = "stopped" /\ dState = "active"
  BY DEF LoopInit, Init, NoCore, Generation
<1>3. TypeOK /\ HistorySound /\ ResultsSound
  BY <1>2, InitType, InitSound
<1>4. CallsNameAttempts
  BY <1>2 DEF CallsNameAttempts, Naming, CandidateParts, Init, Idle
<1>5. GraphInv
  BY <1>2, <1>3, <1>4, FS_EmptySet DEF GraphInv, GraphShape, HistoryInv, TypeOK
<1>6. ChildrenInv /\ ReviewInv /\ DoneInv
  BY <1>2 DEF ChildrenInv, ReviewInv, DoneInv, EarlyNodes, LateNodes, NoChildAtWork
<1> QED
  BY <1>1, <1>5, <1>6 DEF LoopInv

\* Where no child is at work none begins.
LEMMA NoneBegins == ASSUME NoChildAtWork, RunsStay PROVE NoChildAtWork'
  BY DEF NoChildAtWork, RunsStay

\* The cells of the fan-out stay in order while the core stands still.
LEMMA CellsStay ==
  ASSUME CellsInv, RunsStay, UNCHANGED core, call'["core"] = call["core"], runs \in SUBSET Run
  PROVE  CellsInv'
<1>1. ASSUME NEW r \in runs', r.status = "running"
      PROVE  \E x \in core.items :
                /\ IsChildOf(r, x)'
                /\ call["core"].op = "children" => x \notin call["core"].cands
                /\ call["core"].op \in CandidateParts => call["core"].task # x[1]
  <2>1. PICK s \in runs : s.id = r.id /\ s.status = "running"
    BY <1>1 DEF RunsStay
  <2>2. PICK x \in core.items :
                /\ IsChildOf(s, x)
                /\ call["core"].op = "children" => x \notin call["core"].cands
                /\ call["core"].op \in CandidateParts => call["core"].task # x[1]
    BY <2>1 DEF CellsInv
  <2>3. \A p \in runs' : \E q \in runs : q.id = p.id
    BY DEF RunsStay
  <2>4. IsChildOf(r, x)'
    BY <2>1, <2>2, <2>3 DEF IsChildOf
  <2> QED
    BY <2>2, <2>4
<1> QED
  BY <1>1 DEF CellsInv

\* ChildrenInv is kept while the core stands still.
LEMMA ChildrenStay ==
  ASSUME ChildrenInv, RunsStay, UNCHANGED core, runs \in SUBSET Run,
         core.node = "task_wave" => call'["core"] = call["core"],
         dState' = "active" /\ ~A!LatestIs("submitted")' => NoChildAtWork
  PROVE  ChildrenInv'
  BY NoneBegins, CellsStay DEF ChildrenInv

\* ChildrenInv is kept when the core leaves its node without children at work.
LEMMA ChildrenLeave ==
  ASSUME ChildrenInv, RunsStay, core'.node # "task_wave",
         core'.node # "ended" \/ core'.status \in {"done", "failed"} => NoChildAtWork,
         dState' = "active" /\ ~A!LatestIs("submitted")' => NoChildAtWork
  PROVE  ChildrenInv'
  BY NoneBegins DEF ChildrenInv

\* ReviewInv is kept when the core stays at its node or ends.
LEMMA ReviewStays ==
  ASSUME ReviewInv, AllIntegrated => AllIntegrated', UNCHANGED end,
         core'.node \in {core.node, "ended"},
         reviews = 1 /\ dState' = "active" => A!LatestIs("submitted")'
  PROVE  ReviewInv'
  BY DEF ReviewInv, end, EarlyNodes, LateNodes

\* ReviewInv is kept by the moves before the review.
LEMMA ReviewEarly ==
  ASSUME ReviewInv, UNCHANGED end, core.node \in EarlyNodes,
         core'.node \in {"routing_context", "prepare_wave", "task_wave", "settle_wave",
                         "terminal_exhausted", "ended"}
  PROVE  ReviewInv'
  BY DEF ReviewInv, end, EarlyNodes, LateNodes

\* DoneInv is kept when neither core nor delivery becomes done.
LEMMA DoneStays ==
  ASSUME DoneInv, AllIntegrated => AllIntegrated', UNCHANGED end, RunsStay,
         core'.status = "done" => core.status = "done",
         dState' = "done" => /\ dState = "done"
                            /\ core'.node = "ended" /\ ~A!LatestIs("submitted")' /\ lock' = A!Free
  PROVE  DoneInv'
  BY NoneBegins DEF DoneInv, WasDelivered, end

\* No operation takes back an integration.
LEMMA NowhereElse ==
  ASSUME GraphInv, GraphInv', dState' # "done", dState # "done",
         Good \/ UNCHANGED <<tState, count, att>>
  PROVE  AllIntegrated => AllIntegrated'
<1>1. HistoryInv /\ TypeOK'
  BY DEF GraphInv, HistoryInv
<1>2. CASE Good
  BY <1>1, <1>2, IntegratedStay
<1>3. CASE UNCHANGED <<tState, count, att>>
  BY <1>3 DEF AllIntegrated
<1> QED
  BY <1>2, <1>3

\* What a core at work can rely on.
LEMMA AtWork ==
  ASSUME LoopInv, core.node # "ended"
  PROVE  /\ dState = "active" /\ HistoryInv /\ core.status = "none"
         /\ core \in Core /\ CoreShape /\ runs \in SUBSET Run
         /\ core.launcher = LastLauncher /\ LastLauncher # 0
         /\ launchers[LastLauncher].status = "running"
         /\ Submitted \/ core.node \in {"routing_context", "prepare_wave"}
         /\ lock = A!Free => Submitted
         /\ core.node # "task_wave" => core.items = {} /\ NoChildAtWork
  BY DEF LoopInv, OuterInv, LoopShape, CoreInv, CoreShape, GraphInv, GraphShape, ChildrenInv, Starting, A!Free

\* A step of a core at work that neither closes the delivery nor touches the
\* attempts.
LEMMA CoreWorks ==
  ASSUME LoopInv, core.node # "ended", UNCHANGED <<outer, dState>>,
         core'.launcher = core.launcher,
         \/ core'.node \in {"ended", core.node}
         \/ core.node = "routing_context" /\ core'.node = "prepare_wave"
         \/ lock = A!Free,
         CoreShape', rounds' \in 0..MaxRounds, reviews' \in Nat, fixes' \in Nat,
         published' \in BOOLEAN, retained' \in BOOLEAN,
         GraphInv', ChildrenInv', ReviewInv', core'.status = "done" => WasDelivered'
  PROVE  LoopInv'
<1>1. dState = "active" /\ dState' = "active"
  BY AtWork
<1>2. LoopShape'
  BY <1>1, ShapeKept DEF LoopInv, OuterInv
<1>3. OuterInv'
  <2>1. outer' = outer /\ dState' = dState
    OBVIOUS
  <2>2. \/ core'.node \in {"ended", core.node}
        \/ core.node = "routing_context" /\ core'.node = "prepare_wave"
        \/ lock = A!Free
    OBVIOUS
  <2>3. CoreMoves
    BY <2>1, <2>2 DEF CoreMoves
  <2> QED
    BY <1>2, <2>3, MovesOuter DEF LoopInv
<1>4. DoneInv'
  BY <1>1 DEF DoneInv
<1> QED
  BY <1>3, <1>4 DEF LoopInv

-----------------------------------------------------------------------------
(* The nodes before the review *)

\* A step inside a node other than the fan-out that only the graph notices.
LEMMA NodeWorks ==
  ASSUME LoopInv, core.node \in {"prepare_wave", "settle_wave"},
         UNCHANGED <<dState, outer, end, core, rounds>>,
         GraphInv', RunsStay
  PROVE  LoopInv'
<1>1. core.node # "ended" /\ core.node # "task_wave" /\ core.node \in EarlyNodes
  BY DEF EarlyNodes
<1>2. dState = "active" /\ CoreShape /\ runs \in SUBSET Run /\ core.status = "none" /\ NoChildAtWork
  BY <1>1, AtWork
<1>3. ChildrenInv'
  BY <1>1, <1>2, ChildrenStay DEF LoopInv
<1>4. ReviewInv'
  BY <1>1, ReviewEarly DEF LoopInv
<1>5. CoreShape' /\ rounds' \in 0..MaxRounds /\ reviews' \in Nat /\ fixes' \in Nat
      /\ published' \in BOOLEAN /\ retained' \in BOOLEAN
  BY <1>2 DEF CoreShape, LoopInv, OuterInv, LoopShape, end
<1> QED
  BY <1>1, <1>2, <1>3, <1>4, <1>5, CoreWorks

\* A step of prepare_wave.
LEMMA CorePreparesKeeps == ASSUME LoopInv, CorePrepares PROVE LoopInv'
<1>1. core.node = "prepare_wave" /\ UNCHANGED <<outer, end, core, rounds>>
  BY DEF CorePrepares, CoreAt, GraphOnly
<1>2. ServiceStep("core") /\ UNCHANGED runs
  BY DEF CorePrepares, ServiceStep, PrepareRead, PrepareResume, PrepareAdmit, AttachWorktree
<1>3. dState # "done" /\ "core" \in Callers
  BY <1>1, AtWork, CallersAre
<1>4. GraphInv' /\ UNCHANGED dState
  BY <1>2, <1>3, GraphService DEF LoopInv
<1>5. UNCHANGED <<dState, outer, end, core, rounds>>
  BY <1>1, <1>4
<1> QED
  BY <1>1, <1>2, <1>4, <1>5, NodeWorks, RunsSame

\* A step of settle_wave, a resumed intent included.
LEMMA CoreSettlesKeeps == ASSUME LoopInv, CoreSettles PROVE LoopInv'
<1>1. core.node = "settle_wave" /\ UNCHANGED <<outer, end, core, rounds>>
  BY DEF CoreSettles, CoreAt, GraphOnly
<1>2. dState # "done" /\ "core" \in Callers
  BY <1>1, AtWork, CallersAre
<1>3. CASE SettleResume("core", core.wave)
  <2>1. GraphInv' /\ UNCHANGED <<dState, runs>>
    BY <1>2, <1>3, GraphResume DEF LoopInv, journal
  <2>2. UNCHANGED <<dState, outer, end, core, rounds>>
    BY <1>1, <2>1
  <2> QED
    BY <1>1, <2>1, <2>2, NodeWorks, RunsSame
<1>4. CASE \/ SettleLoad("core", core.wave) \/ SettleIntent("core")
           \/ \E conflict \in 0..NTasks : Integrate("core", conflict)
           \/ IntegrateReplay("core")
  <2>1. ServiceStep("core") /\ UNCHANGED runs
    BY <1>4 DEF ServiceStep, SettleLoad, SettleIntent, Integrate, IntegrateReplay
  <2>2. GraphInv' /\ UNCHANGED dState
    BY <1>2, <2>1, GraphService DEF LoopInv
  <2>3. UNCHANGED <<dState, outer, end, core, rounds>>
    BY <1>1, <2>2
  <2> QED
    BY <1>1, <2>1, <2>2, <2>3, NodeWorks, RunsSame
<1> QED
  BY <1>3, <1>4 DEF CoreSettles

\* The core leaves a node other than the fan-out; the graph does what it does.
LEMMA EarlyMoves ==
  ASSUME LoopInv, core.node \in {"routing_context", "prepare_wave", "settle_wave"},
         UNCHANGED <<dState, outer, end, rounds, runs>>, GraphInv',
         \/ GoesRound
         \/ \E n \in {"prepare_wave", "terminal_exhausted"} : Moves(n),
         lock = A!Free \/ (core.node = "routing_context" /\ Moves("prepare_wave"))
  PROVE  LoopInv'
<1>1. core.node # "ended" /\ core.node # "task_wave" /\ core.node \in EarlyNodes
  BY DEF EarlyNodes
<1>2. /\ dState = "active" /\ CoreShape /\ core.status = "none" /\ core.items = {} /\ NoChildAtWork
  BY <1>1, AtWork
<1>3. /\ CoreShape' /\ core'.launcher = core.launcher
      /\ core'.node \in {"routing_context", "prepare_wave", "terminal_exhausted", "ended"}
      /\ core'.status # "done"
      /\ Moves("prepare_wave") => core'.node = "prepare_wave"
  <2>1. CASE GoesRound
    <3>1. Moves("prepare_wave") => core'.node = "prepare_wave"
      BY <1>2 DEF Moves, CoreShape, Core
    <3>2. /\ CoreShape' /\ core'.launcher = core.launcher
          /\ core'.node \in {"routing_context", "ended"} /\ core'.status # "done"
      BY <1>1, <1>2, <2>1, GenerationShape
    <3> QED
      BY <3>1, <3>2
  <2>2. ASSUME NEW n \in {"prepare_wave", "terminal_exhausted"}, Moves(n)
        PROVE  /\ CoreShape' /\ core'.launcher = core.launcher
               /\ core'.node = n /\ core'.status = "none"
    <3>1. n \in CoreNodes \ {"ended"}
      BY DEF CoreNodes
    <3> QED
      BY <3>1, <1>1, <1>2, <2>2, MoveShape
  <2>3. Moves("prepare_wave") => core'.node = "prepare_wave"
    BY <1>2 DEF Moves, CoreShape, Core
  <2> QED
    BY <2>1, <2>2, <2>3
<1>4. ChildrenInv'
  BY <1>2, <1>3, ChildrenLeave, RunsSame DEF LoopInv
<1>5. ReviewInv'
  BY <1>1, <1>3, ReviewEarly DEF LoopInv
<1>6. rounds' \in 0..MaxRounds /\ reviews' \in Nat /\ fixes' \in Nat
      /\ published' \in BOOLEAN /\ retained' \in BOOLEAN
  BY DEF LoopInv, OuterInv, LoopShape, end
<1>7. UNCHANGED <<outer, dState>>
  OBVIOUS
<1>8. \/ core.node = "routing_context" /\ core'.node = "prepare_wave"
      \/ lock = A!Free
  BY <1>3
<1> QED
  BY <1>1, <1>3, <1>4, <1>5, <1>6, <1>7, <1>8, CoreWorks

\* routing_context only reads.
LEMMA RoutingContextKeeps == ASSUME LoopInv, RoutingContext PROVE LoopInv'
<1>1. core.node = "routing_context" /\ Moves("prepare_wave") /\ UNCHANGED <<vars, outer, end, rounds>>
  BY DEF RoutingContext
<1>2. UNCHANGED <<dState, outer, end, rounds, runs>> /\ call' = call /\ "core" \in Callers
  BY <1>1, CallersAre DEF vars, journal
<1>3. dState = "active" /\ HistoryInv
  BY <1>1, AtWork
<1>4. UNCHANGED <<tState, count, att, waves, intents, integrations, paused, results, runs>>
      /\ UNCHANGED <<wall, blockers, head, dState>>
  BY <1>1 DEF vars, journal, git
<1>5. wall' \in BOOLEAN /\ blockers' \in BOOLEAN /\ head' \in Nat
  BY <1>3, <1>4 DEF HistoryInv, TypeOK
<1>6. GraphInv'
  BY <1>2, <1>3, <1>4, <1>5, GraphAside DEF LoopInv
<1> QED
  BY <1>1, <1>2, <1>6, EarlyMoves

\* prepare_wave answers: the fan-out gets one cell for each running task.
LEMMA PrepareAnswersKeeps == ASSUME LoopInv, PrepareAnswers PROVE LoopInv'
<1>1. core.node = "prepare_wave" /\ lock = A!Free /\ PrepareReturn("core")
      /\ UNCHANGED <<outer, end, rounds>>
  BY DEF PrepareAnswers, CoreAt
<1>2. /\ dState = "active" /\ CoreShape /\ core \in Core /\ core.items = {} /\ NoChildAtWork
      /\ core.status = "none" /\ "core" \in Callers
  BY <1>1, AtWork, CallersAre
<1>3. GraphInv' /\ UNCHANGED <<dState, runs>>
  <2>1. ServiceStep("core")
    BY <1>1 DEF ServiceStep
  <2>2. UNCHANGED runs
    BY <1>1 DEF PrepareReturn
  <2> QED
    BY <1>2, <2>1, <2>2, GraphService DEF LoopInv
<1>4. CASE GoesRound
  BY <1>1, <1>3, <1>4, EarlyMoves
<1>5. CASE core' = [core EXCEPT !.node = "task_wave", !.wave = call["core"].wave,
                               !.items = call'["core"].cands]
  <2>1. call["core"] \in Call /\ call'["core"] \in Call /\ call \in [Callers -> Call]
    BY <1>2, <1>3 DEF LoopInv, GraphInv, GraphShape
  <2>2. call["core"].wave \in Nat /\ call'["core"].cands \in SUBSET Commit
    BY <2>1 DEF Call
  <2>3. /\ core' \in Core /\ core'.node = "task_wave" /\ core'.wave = call["core"].wave
        /\ core'.items = call'["core"].cands /\ core'.status = "none"
        /\ core'.launcher = core.launcher
    BY <1>2, <1>5, <2>2 DEF Core, CoreNodes
  <2>4. CoreShape'
    BY <2>3 DEF CoreShape
  <2> DEFINE items == {x \in Commit : /\ x[1] \in waves[call["core"].wave].tasks
                                      /\ tState[x[1]] = "running"
                                      /\ x[2] = count[x[1]]}
  <2>5. \/ Holds("core", [Idle EXCEPT !.op = "children", !.wave = call["core"].wave, !.cands = items])
        \/ Returns("core")
    BY <1>1 DEF PrepareReturn
  <2>6. /\ call'["core"].op = "children" => call'["core"].wave = call["core"].wave
        /\ call'["core"].cands \subseteq items
    <3>1. CASE Returns("core")
      <4>1. call'["core"] = Idle
        BY <3>1, <2>1, <1>2 DEF Returns
      <4> QED
        BY <4>1 DEF Idle
    <3>2. CASE Holds("core", [Idle EXCEPT !.op = "children", !.wave = call["core"].wave, !.cands = items])
      <4>1. call'["core"] = [Idle EXCEPT !.op = "children", !.wave = call["core"].wave, !.cands = items]
        BY <3>2, <2>1, <1>2 DEF Holds
      <4> QED
        BY <4>1 DEF Idle
    <3> QED
      BY <3>1, <3>2, <2>5
  <2>7. \A x, y \in items : x[1] = y[1] => x = y
    BY DEF Commit
  <2> HIDE DEF items
  <2>8. CellsInv'
    BY <1>2, <1>3, <2>3, <2>6, <2>7 DEF CellsInv, NoChildAtWork
  <2>9. ChildrenInv'
    BY <1>1, <1>2, <1>3, <2>3, <2>8 DEF ChildrenInv, NoChildAtWork
  <2>10. ReviewInv'
    BY <1>1, <2>3, ReviewEarly DEF LoopInv, EarlyNodes
  <2>11. rounds' \in 0..MaxRounds /\ reviews' \in Nat /\ fixes' \in Nat
        /\ published' \in BOOLEAN /\ retained' \in BOOLEAN
    BY <1>1 DEF LoopInv, OuterInv, LoopShape, end
  <2>12. UNCHANGED <<outer, dState>>
    BY <1>1, <1>3
  <2> QED
    BY <1>1, <1>3, <2>3, <2>4, <2>9, <2>10, <2>11, <2>12, CoreWorks
<1> QED
  BY <1>4, <1>5 DEF PrepareAnswers

\* prepare_wave found nothing to run.
LEMMA PreparedNothingGraph ==
  ASSUME LoopInv, PreparedNothing
  PROVE  /\ GraphInv' /\ core.node = "prepare_wave" /\ lock = A!Free
         /\ UNCHANGED <<tState, dState, outer, end, rounds, runs>>
<1>1. /\ core.node = "prepare_wave" /\ lock = A!Free /\ Returns("core")
      /\ UNCHANGED <<journal, wall, git, runs, outer, end, rounds>>
  BY DEF PreparedNothing, CoreAt
<1>2. UNCHANGED <<tState, count, att, waves, intents, integrations, paused, results, runs>>
      /\ UNCHANGED <<wall, blockers, head, dState>>
  BY <1>1 DEF journal, git
<1>3. dState = "active" /\ HistoryInv /\ "core" \in Callers
  BY <1>1, AtWork, CallersAre
<1>4. wall' \in BOOLEAN /\ blockers' \in BOOLEAN /\ head' \in Nat
  BY <1>2, <1>3 DEF HistoryInv, TypeOK
<1>5. GraphInv'
  BY <1>1, <1>2, <1>3, <1>4, GraphAside DEF LoopInv
<1> QED
  BY <1>1, <1>2, <1>5

\* Nothing is left to spend.
LEMMA PrepareExhaustedKeeps == ASSUME LoopInv, PrepareExhausted PROVE LoopInv'
<1>1. Moves("terminal_exhausted") /\ PreparedNothing
  BY DEF PrepareExhausted
<1>2. UNCHANGED <<dState, outer, end, rounds, runs>>
  BY <1>1, PreparedNothingGraph
<1> QED
  BY <1>1, <1>2, PreparedNothingGraph, EarlyMoves

\* Everything is integrated, and nothing was reviewed yet.
LEMMA PrepareAllIntegratedKeeps == ASSUME LoopInv, PrepareAllIntegrated PROVE LoopInv'
<1>1. Moves("delivery_budget_context") /\ PreparedNothing /\ AllIntegrated
  BY DEF PrepareAllIntegrated, PublishesWhenIntegrated
<1>2. /\ GraphInv' /\ core.node = "prepare_wave" /\ lock = A!Free
      /\ UNCHANGED <<tState, dState, outer, end, rounds, runs>>
  BY <1>1, PreparedNothingGraph
<1>3. /\ dState = "active" /\ CoreShape /\ core.items = {} /\ NoChildAtWork
      /\ core.status = "none" /\ core.node # "ended"
  BY <1>2, AtWork
<1>4. /\ CoreShape' /\ core'.launcher = core.launcher
      /\ core'.node = "delivery_budget_context" /\ core'.status = "none"
  <2>1. "delivery_budget_context" \in CoreNodes \ {"ended"}
    BY DEF CoreNodes
  <2> QED
    BY <1>1, <1>3, <2>1, MoveShape
<1>5. ChildrenInv'
  BY <1>2, <1>3, <1>4, ChildrenLeave, RunsSame DEF LoopInv
<1>6. AllIntegrated' /\ reviews = 0 /\ fixes \in Nat
  BY <1>1, <1>2 DEF AllIntegrated, LoopInv, ReviewInv, EarlyNodes, OuterInv, LoopShape
<1>7. ReviewInv'
  BY <1>2, <1>4, <1>6 DEF ReviewInv, EarlyNodes, LateNodes, end, LoopInv
<1>8. rounds' \in 0..MaxRounds /\ reviews' \in Nat /\ fixes' \in Nat
      /\ published' \in BOOLEAN /\ retained' \in BOOLEAN
  BY <1>2 DEF LoopInv, OuterInv, LoopShape, end
<1>9. UNCHANGED <<outer, dState>>
  BY <1>2
<1> QED
  BY <1>2, <1>3, <1>4, <1>5, <1>7, <1>8, <1>9, CoreWorks

\* settle_wave answers.
LEMMA SettleAnswersKeeps == ASSUME LoopInv, SettleAnswers PROVE LoopInv'
<1>1. PICK r \in results : /\ SettleCommit("core", r)
                           /\ Moves("terminal_exhausted") \/ GoesRound
  BY DEF SettleAnswers
<1>2. core.node = "settle_wave" /\ lock = A!Free /\ UNCHANGED <<outer, end, rounds>>
  BY DEF SettleAnswers, CoreAt
<1>3. dState = "active" /\ "core" \in Callers
  BY <1>2, AtWork, CallersAre
<1>4. ServiceStep("core") /\ UNCHANGED runs
  BY <1>1 DEF ServiceStep, SettleCommit
<1>5. GraphInv' /\ UNCHANGED dState
  BY <1>3, <1>4, GraphService DEF LoopInv
<1>6. UNCHANGED <<dState, outer, end, rounds, runs>>
  BY <1>2, <1>4, <1>5
<1> QED
  BY <1>1, <1>2, <1>5, <1>6, EarlyMoves

-----------------------------------------------------------------------------
(* The fan-out *)

\* A running child of a cell is the one the cell waits for.
LEMMA NewestChild ==
  ASSUME GraphShape, NEW x, NEW r \in runs, IsChildOf(r, x)
  PROVE  ChildOf(x) = r
<1> DEFINE same(s) == [s.id EXCEPT !.copy = 1] =
                        [wave |-> core.wave, task |-> x[1], exec |-> x[2], copy |-> 1]
           copies == {s \in runs : same(s)}
           newest(s) == \A p \in copies : p.id.copy <= s.id.copy
<1>1. \A s \in runs : s.id \in RunId /\ s.id.copy \in Nat
  BY SizesAssumption DEF GraphShape, Run, RunId
<1>2. \A s \in runs : same(s) => s.id = [r.id EXCEPT !.copy = s.id.copy]
  <2> SUFFICES ASSUME NEW s \in runs, same(s)
               PROVE  s.id = [r.id EXCEPT !.copy = s.id.copy]
    OBVIOUS
  <2>1. s.id \in RunId /\ r.id \in RunId
    BY <1>1
  <2>2. s.id.wave = core.wave /\ s.id.task = x[1] /\ s.id.exec = x[2]
    BY <2>1 DEF RunId
  <2>3. r.id.wave = core.wave /\ r.id.task = x[1] /\ r.id.exec = x[2]
    BY DEF IsChildOf
  <2> QED
    BY <2>1, <2>2, <2>3 DEF RunId
<1>3. r \in copies
  BY DEF IsChildOf
<1>4. newest(r)
  BY <1>2 DEF IsChildOf
<1>5. \A s \in copies : newest(s) => s = r
  <2> SUFFICES ASSUME NEW s \in copies, newest(s)
               PROVE  s = r
    OBVIOUS
  <2>1. s.id.copy = r.id.copy
    BY <1>1, <1>3, <1>4
  <2>2. s.id = [r.id EXCEPT !.copy = s.id.copy]
    BY <1>2
  <2>3. s.id = r.id
    BY <2>1, <2>2, <1>1 DEF RunId
  <2> QED
    BY <2>3 DEF GraphShape
<1>6. ChildOf(x) = CHOOSE s \in copies : newest(s)
  BY DEF ChildOf
<1> HIDE DEF copies, newest
<1> QED
  BY <1>3, <1>4, <1>5, <1>6

\* A step at the fan-out.
LEMMA CellsWork ==
  ASSUME LoopInv, core.node = "task_wave", core'.node = "task_wave",
         UNCHANGED <<dState, outer, end, rounds>>,
         core'.launcher = core.launcher, CoreShape', GraphInv', CellsInv'
  PROVE  LoopInv'
<1>2. A!LatestIs("submitted") /\ core.node # "ended"
  BY AtWork DEF Submitted
<1>3. A!LatestIs("submitted")'
  BY <1>2 DEF outer, A!LatestIs, A!Latest
<1>4. core'.status = "none"
  BY DEF CoreShape
<1>5. ChildrenInv'
  BY <1>3, <1>4 DEF ChildrenInv
<1>6. ReviewInv'
  BY ReviewEarly DEF LoopInv, EarlyNodes
<1>7. rounds' \in 0..MaxRounds /\ reviews' \in Nat /\ fixes' \in Nat
      /\ published' \in BOOLEAN /\ retained' \in BOOLEAN
  BY DEF LoopInv, OuterInv, LoopShape, end
<1>8. UNCHANGED <<outer, dState>>
  OBVIOUS
<1> QED
  BY <1>2, <1>4, <1>5, <1>6, <1>7, <1>8, CoreWorks

\* A cell starts its child, the newest copy from then on.
LEMMA CellStartsKeeps == ASSUME LoopInv, CellStarts PROVE LoopInv'
<1>1. PICK x \in Commit, k \in 1..MaxCopies : StartChild("core", x, k)
  BY DEF CellStarts
<1>2. core.node = "task_wave" /\ UNCHANGED <<outer, end, core, rounds>>
  BY DEF CellStarts, CoreAt, GraphOnly
<1>3. dState = "active" /\ "core" \in Callers /\ CoreShape /\ CellsInv
  BY <1>2, AtWork, CallersAre DEF LoopInv, ChildrenInv
<1>4. ServiceStep("core")
  BY <1>1 DEF ServiceStep
<1>5. GraphInv' /\ UNCHANGED dState
  BY <1>3, <1>4, GraphService DEF LoopInv
<1>a. PICK cands : cands = call["core"].cands
  OBVIOUS
<1>b. PICK id : id = [wave |-> call["core"].wave, task |-> x[1], exec |-> x[2], copy |-> k]
  OBVIOUS
<1>c. PICK run : run = [id |-> id, status |-> "running", used |-> 0,
                        ctx |-> 0, ask |-> NoPrompt, replied |-> FALSE]
  OBVIOUS
<1>6. /\ x \in cands /\ cands \subseteq core.items /\ call["core"].wave = core.wave
      /\ call["core"].op = "children"
  BY <1>1, <1>3, <1>a DEF StartChild, CellsInv
<1>7. runs' = runs \cup {run}
  BY <1>1, <1>b, <1>c DEF StartChild
<1>8. \A j \in 1..MaxCopies : (\E r \in runs : r.id = [id EXCEPT !.copy = j]) => j < k
  BY <1>1, <1>b DEF StartChild
<1>9. call \in [Callers -> Call]
  BY DEF LoopInv, GraphInv, GraphShape
<1>10. \/ call'["core"].op = "idle"
       \/ call'["core"].op = "children" /\ call'["core"].cands = cands \ {x} /\ call'["core"].wave = core.wave
  <2>1. CASE Returns("core")
    BY <2>1, <1>3, <1>9 DEF Returns, Idle
  <2>2. CASE Holds("core", [call["core"] EXCEPT !.cands = cands \ {x}])
    <3>1. call'["core"] = [call["core"] EXCEPT !.cands = cands \ {x}]
      BY <2>2, <1>3, <1>9 DEF Holds
    <3>2. call["core"] \in Call
      BY <1>3, <1>9
    <3> QED
      BY <3>1, <3>2, <1>6 DEF Call
  <2> QED
    BY <1>1, <1>a, <2>1, <2>2 DEF StartChild
<1>11. /\ run.id = id /\ id.task = x[1] /\ id.copy = k
       /\ id = [wave |-> core.wave, task |-> x[1], exec |-> x[2], copy |-> id.copy]
  BY <1>6, <1>b, <1>c
<1>12. runs \in SUBSET Run /\ \A r \in runs : r.id \in RunId /\ r.id.copy \in 0..MaxCopies /\ r.id.copy # 0
  BY SizesAssumption DEF LoopInv, GraphInv, GraphShape, Run, RunId
<1>13. IsChildOf(run, x)'
  <2>1. ASSUME NEW s \in runs, s.id = [id EXCEPT !.copy = s.id.copy]
        PROVE  s.id.copy <= k
    <3>1. s.id.copy \in 1..MaxCopies
      BY <1>12, SizesAssumption
    <3> QED
      BY <1>8, <2>1, <3>1
  <2>2. \A s \in runs' : s.id = [run.id EXCEPT !.copy = s.id.copy] => s.id.copy <= run.id.copy
    BY <1>7, <1>11, <2>1
  <2>3. run.id = [wave |-> core'.wave, task |-> x[1], exec |-> x[2], copy |-> run.id.copy]
    BY <1>2, <1>11
  <2> QED
    BY <2>2, <2>3 DEF IsChildOf
<1>14. ASSUME NEW r \in runs, r.status = "running"
       PROVE  \E y \in core.items : IsChildOf(r, y)' /\ y \notin cands \ {x}
  <2>1. PICK y \in core.items : IsChildOf(r, y) /\ y \notin cands
    BY <1>3, <1>6, <1>14, <1>a DEF CellsInv
  <2>2. y[1] # x[1]
    BY <1>3, <1>6, <2>1 DEF CellsInv
  <2>3. r.id.task = y[1]
    BY <2>1 DEF IsChildOf
  <2>4. run.id # [r.id EXCEPT !.copy = run.id.copy]
    <3>1. [r.id EXCEPT !.copy = run.id.copy].task = y[1]
      BY <2>3, <1>12 DEF RunId
    <3> QED
      BY <3>1, <2>2, <1>11
  <2>5. \A s \in runs' : s.id = [r.id EXCEPT !.copy = s.id.copy] => s.id.copy <= r.id.copy
    BY <2>1, <2>4, <1>7 DEF IsChildOf
  <2>6. IsChildOf(r, y)'
    BY <2>1, <2>5, <1>2 DEF IsChildOf
  <2> QED
    BY <2>1, <2>6
<1>15. CellsInv'
  <2>1. \A z, y \in core'.items : z[1] = y[1] => z = y
    BY <1>2, <1>3 DEF CellsInv
  <2>2. ASSUME NEW r \in runs', r.status = "running"
        PROVE  \E y \in core.items : IsChildOf(r, y)' /\ y \notin cands \ {x}
    <3>1. CASE r = run
      BY <3>1, <1>6, <1>13
    <3>2. CASE r \in runs
      BY <2>2, <3>2, <1>14
    <3> QED
      BY <3>1, <3>2, <1>7
  <2>3. call'["core"].op \notin CandidateParts
    BY <1>10 DEF CandidateParts
  <2>4. call'["core"].op = "children" => call'["core"].cands = cands \ {x} /\ call'["core"].wave = core.wave
    BY <1>10
  <2> QED
    BY <1>2, <1>6, <2>1, <2>2, <2>3, <2>4 DEF CellsInv
<1>16. CoreShape' /\ core'.node = "task_wave" /\ core'.launcher = core.launcher
  BY <1>2, <1>3 DEF CoreShape
<1>17. UNCHANGED <<dState, outer, end, rounds>>
  BY <1>2, <1>5
<1> QED
  BY <1>2, <1>5, <1>15, <1>16, <1>17, CellsWork

\* A cell that is about to record its candidate changes nothing but its call,
\* which is about its task.
LEMMA CellReads ==
  ASSUME LoopInv, NEW x \in Commit, CellRecords(x)
  PROVE  /\ ServiceStep("core") /\ UNCHANGED <<journal, wall, git, runs>>
         /\ \E record : /\ Holds("core", record)
                        /\ record.op \in CandidateParts /\ record.task = x[1]
<1>1. "core" \in Callers /\ TypeOK
  <2>1. core.node = "task_wave"
    BY DEF CellRecords, CoreAt
  <2> QED
    BY <2>1, AtWork, CallersAre DEF HistoryInv
<1>2. CASE CandidateLoad("core", core.wave, x[1], x[2])
  <2>1. core.wave \in DOMAIN waves /\ x[1] \in waves[core.wave].tasks /\ x[2] \in Execs
    BY <1>2 DEF CandidateLoad, Addresses, Commit
  <2>2. ServiceStep("core")
    BY <1>2, <2>1 DEF ServiceStep
  <2>3. PICK e \in Execs : Holds("core", [Idle EXCEPT !.op = "recent", !.wave = core.wave,
                                                    !.task = x[1], !.exec = e])
    BY <1>2 DEF CandidateLoad
  <2>4. PICK record : record = [Idle EXCEPT !.op = "recent", !.wave = core.wave,
                                            !.task = x[1], !.exec = e]
    OBVIOUS
  <2>5. record.op = "recent" /\ record.task = x[1]
    BY <2>4 DEF Idle
  <2>6. UNCHANGED <<journal, wall, git, runs>>
    BY <1>2 DEF CandidateLoad
  <2> QED
    BY <2>2, <2>3, <2>4, <2>5, <2>6 DEF CandidateParts
<1>3. CASE call["core"].task = x[1] /\ CandidateReads("core")
  <2>1. ServiceStep("core")
    BY <1>3 DEF ServiceStep
  <2> QED
    BY <1>1, <1>3, <2>1, CandidateReadsHold DEF CandidateParts
<1> QED
  BY <1>2, <1>3 DEF CellRecords

\* A cell records a candidate after its child has ended.
LEMMA CellRecordsKeeps == ASSUME LoopInv, NEW x \in Commit, CellRecords(x) PROVE LoopInv'
<1>1. /\ core.node = "task_wave" /\ x \in core.items /\ ChildOf(x).status = "done"
      /\ UNCHANGED <<outer, end, core, rounds>>
  BY DEF CellRecords, CoreAt, GraphOnly
<1>2. PICK record : /\ Holds("core", record)
                    /\ record.op \in CandidateParts /\ record.task = x[1]
  BY CellReads
<1>3. dState = "active" /\ "core" \in Callers /\ CoreShape /\ CellsInv
  BY <1>1, AtWork, CallersAre DEF LoopInv, ChildrenInv
<1>4. ServiceStep("core") /\ UNCHANGED runs
  BY CellReads
<1>5. GraphInv' /\ UNCHANGED dState
  BY <1>3, <1>4, GraphService DEF LoopInv
<1>6. call'["core"].op \in CandidateParts /\ call'["core"].op # "children"
      /\ call'["core"].task = x[1]
  <2>1. call \in [Callers -> Call]
    BY DEF LoopInv, GraphInv, GraphShape
  <2>2. call'["core"] = record
    BY <1>2, <1>3, <2>1 DEF Holds
  <2> QED
    BY <1>2, <2>2 DEF CandidateParts
<1>7. ASSUME NEW s \in runs', s.status = "running"
      PROVE  \E y \in core.items : IsChildOf(s, y)' /\ x[1] # y[1]
  <2>1. PICK y \in core.items : IsChildOf(s, y)
    BY <1>3, <1>4, <1>7 DEF CellsInv
  <2>2. ChildOf(y) = s
    BY <1>4, <2>1, NewestChild DEF LoopInv, GraphInv
  <2>3. y # x
    BY <1>1, <1>7, <2>2
  <2>4. x[1] # y[1]
    BY <1>1, <1>3, <2>3 DEF CellsInv
  <2>5. IsChildOf(s, y)'
    BY <1>1, <1>4, <2>1 DEF IsChildOf
  <2> QED
    BY <2>4, <2>5
<1>8. CellsInv'
  BY <1>1, <1>3, <1>6, <1>7 DEF CellsInv
<1>9. CoreShape' /\ core'.node = "task_wave" /\ core'.launcher = core.launcher
  BY <1>1, <1>3 DEF CoreShape
<1>10. UNCHANGED <<dState, outer, end, rounds>>
  BY <1>1, <1>5
<1> QED
  BY <1>1, <1>5, <1>8, <1>9, <1>10, CellsWork

\* A recorded cell has settled.
LEMMA CellSucceedsKeeps == ASSUME LoopInv, CellSucceeds PROVE LoopInv'
<1>1. /\ core.node = "task_wave" /\ CandidateCommit("core")
      /\ core' = [core EXCEPT !.items = {x \in core.items : x[1] # call["core"].task}]
      /\ UNCHANGED <<outer, end, rounds>>
  BY DEF CellSucceeds, CoreAt
<1>2. dState = "active" /\ "core" \in Callers /\ CoreShape /\ core \in Core /\ CellsInv /\ core.node # "ended"
  BY <1>1, AtWork, CallersAre DEF LoopInv, ChildrenInv
<1>3. ServiceStep("core") /\ UNCHANGED runs
  BY <1>1 DEF ServiceStep, CandidateCommit
<1>4. GraphInv' /\ UNCHANGED dState
  BY <1>2, <1>3, GraphService DEF LoopInv
<1>5. call["core"].op = "candidate" /\ call'["core"].op = "idle"
  BY <1>1, <1>2 DEF CandidateCommit, Returns, Idle, LoopInv, GraphInv, GraphShape
<1>6. /\ core' \in Core /\ core'.node = "task_wave" /\ core'.launcher = core.launcher
      /\ core'.items = {x \in core.items : x[1] # call["core"].task}
      /\ core'.status = core.status /\ core'.wave = core.wave
  BY <1>1, <1>2 DEF Core
<1>7. CoreShape'
  BY <1>1, <1>2, <1>6 DEF CoreShape
<1>8. ASSUME NEW s \in runs', s.status = "running"
      PROVE  \E y \in core'.items : IsChildOf(s, y)'
  <2>1. PICK y \in core.items : IsChildOf(s, y) /\ call["core"].task # y[1]
    BY <1>2, <1>3, <1>5, <1>8 DEF CellsInv, CandidateParts
  <2>2. IsChildOf(s, y)'
    BY <1>3, <1>6, <2>1 DEF IsChildOf
  <2> QED
    BY <1>6, <2>1, <2>2
<1>9. CellsInv'
  BY <1>2, <1>5, <1>6, <1>8 DEF CellsInv, CandidateParts
<1>10. UNCHANGED <<dState, outer, end, rounds>>
  BY <1>1, <1>4
<1> QED
  BY <1>1, <1>4, <1>6, <1>7, <1>9, <1>10, CellsWork

\* A failed cell has no child at work.
LEMMA CellFailsKeeps == ASSUME LoopInv, NEW x \in Commit, CellFails(x) PROVE LoopInv'
<1>1. /\ core.node = "task_wave" /\ Returns("core") /\ ChildOf(x).status # "running"
      /\ core' = [core EXCEPT !.items = core.items \ {x}, !.failed = TRUE]
      /\ UNCHANGED <<journal, wall, git, runs, outer, end, rounds>>
  BY DEF CellFails, CoreAt
<1>2. dState = "active" /\ HistoryInv /\ "core" \in Callers /\ CoreShape /\ core \in Core
      /\ CellsInv /\ core.node # "ended"
  BY <1>1, AtWork, CallersAre DEF LoopInv, ChildrenInv
<1>3. UNCHANGED <<tState, count, att, waves, intents, integrations, paused, results, runs>>
      /\ UNCHANGED <<wall, blockers, head, dState>>
  BY <1>1 DEF journal, git
<1>4. wall' \in BOOLEAN /\ blockers' \in BOOLEAN /\ head' \in Nat
  BY <1>2, <1>3 DEF HistoryInv, TypeOK
<1>5. GraphInv'
  BY <1>1, <1>2, <1>3, <1>4, GraphAside DEF LoopInv
<1>6. call'["core"].op = "idle"
  BY <1>1, <1>2 DEF Returns, Idle, LoopInv, GraphInv, GraphShape
<1>7. /\ core' \in Core /\ core'.node = "task_wave" /\ core'.launcher = core.launcher
      /\ core'.items = core.items \ {x}
      /\ core'.status = core.status /\ core'.wave = core.wave
  BY <1>1, <1>2 DEF Core
<1>8. CoreShape'
  BY <1>1, <1>2, <1>7 DEF CoreShape
<1>9. ASSUME NEW s \in runs', s.status = "running"
      PROVE  \E y \in core'.items : IsChildOf(s, y)'
  <2>1. PICK y \in core.items : IsChildOf(s, y)
    BY <1>2, <1>3, <1>9 DEF CellsInv
  <2>2. ChildOf(y) = s
    BY <1>3, <2>1, NewestChild DEF LoopInv, GraphInv
  <2>3. y # x
    BY <1>1, <1>9, <2>2
  <2>4. IsChildOf(s, y)'
    BY <1>3, <1>7, <2>1 DEF IsChildOf
  <2> QED
    BY <1>7, <2>1, <2>3, <2>4
<1>10. CellsInv'
  BY <1>2, <1>6, <1>7, <1>9 DEF CellsInv, CandidateParts
<1>11. UNCHANGED <<dState, outer, end, rounds>>
  BY <1>1, <1>3
<1> QED
  BY <1>1, <1>5, <1>7, <1>8, <1>10, <1>11, CellsWork

\* The core ends or leaves its node with the graph as it is.
LEMMA AsideKeepsGraph ==
  ASSUME LoopInv, core.node # "ended", dState' = dState,
         UNCHANGED <<tState, count, att, waves, intents, integrations, paused, blockers, wall, results, runs>>,
         head' \in Nat, call' = call \/ Returns("core")
  PROVE  GraphInv' /\ RunsStay /\ (AllIntegrated => AllIntegrated')
<1>1. dState = "active" /\ HistoryInv /\ "core" \in Callers
  BY AtWork, CallersAre
<1>2. wall' \in BOOLEAN /\ blockers' \in BOOLEAN
  BY <1>1 DEF HistoryInv, TypeOK
<1>3. GraphInv'
  BY <1>1, <1>2, GraphAside DEF LoopInv
<1> QED
  BY <1>3, RunsSame DEF AllIntegrated

\* The core ends or leaves its node and changes nothing else.
LEMMA SameGraph ==
  ASSUME LoopInv, core.node # "ended", UNCHANGED <<journal, wall, git, runs>>,
         call' = call \/ Returns("core")
  PROVE  GraphInv' /\ RunsStay /\ (AllIntegrated => AllIntegrated') /\ dState' = dState
<1>1. HistoryInv
  BY AtWork
<1>2. UNCHANGED <<tState, count, att, waves, intents, integrations, paused, blockers, wall, results, runs>>
      /\ dState' = dState /\ head' = head
  BY DEF journal, git
<1>3. head' \in Nat
  BY <1>1, <1>2 DEF HistoryInv, TypeOK
<1> QED
  BY <1>2, <1>3, AsideKeepsGraph

\* The core ends with no child at work or as a core that was stopped.
LEMMA EndsKeeps ==
  ASSUME LoopInv, core.node # "ended", NEW status \in Terminal \ {"done"}, Ends(status),
         UNCHANGED <<journal, wall, git, runs, outer, end, rounds>>,
         call' = call \/ Returns("core"),
         status = "failed" => NoChildAtWork
  PROVE  LoopInv'
<1>1. GraphInv' /\ RunsStay /\ (AllIntegrated => AllIntegrated') /\ dState' = dState
  <2>1. UNCHANGED <<journal, wall, git, runs>>
    OBVIOUS
  <2> QED
    BY <2>1, SameGraph
<1>2. dState = "active" /\ CoreShape
  BY AtWork
<1>3. CoreShape' /\ core'.launcher = core.launcher /\ core'.node = "ended" /\ core'.status = status
  BY <1>2, EndShape
<1>4. UNCHANGED <<outer, dState>> /\ UNCHANGED end
  BY <1>1
<1>5. A!LatestIs("submitted")' <=> A!LatestIs("submitted")
  BY <1>4 DEF outer, A!LatestIs, A!Latest
<1>6. ChildrenInv'
  <2>1. dState' = "active" /\ ~A!LatestIs("submitted")' => NoChildAtWork
    BY <1>1, <1>5 DEF LoopInv, ChildrenInv
  <2> QED
    BY <1>1, <1>3, <2>1, ChildrenLeave DEF LoopInv
<1>7. ReviewInv'
  <2>1. reviews = 1 /\ dState' = "active" => A!LatestIs("submitted")'
    BY <1>2, <1>5 DEF LoopInv, ReviewInv
  <2> QED
    BY <1>1, <1>3, <1>4, <2>1, ReviewStays DEF LoopInv
<1>8. rounds' \in 0..MaxRounds /\ reviews' \in Nat /\ fixes' \in Nat
      /\ published' \in BOOLEAN /\ retained' \in BOOLEAN
  BY DEF LoopInv, OuterInv, LoopShape, end
<1> QED
  BY <1>1, <1>3, <1>4, <1>6, <1>7, <1>8, CoreWorks

\* All cells settled, so no child is at work.
LEMMA CollectsKeeps == ASSUME LoopInv, Collects PROVE LoopInv'
<1>1. /\ core.node = "task_wave" /\ core.items = {} /\ lock = A!Free
      /\ Ends("failed") \/ Moves("settle_wave")
      /\ UNCHANGED <<vars, outer, end, rounds>>
  BY DEF Collects, CoreAt
<1>2. /\ core.node # "ended" /\ UNCHANGED <<journal, wall, git, runs, outer, end, rounds>> /\ call' = call
  BY <1>1 DEF vars
<1>3. CellsInv /\ CoreShape
  BY <1>1, <1>2, AtWork DEF LoopInv, ChildrenInv
<1>4. NoChildAtWork
  BY <1>1, <1>3 DEF CellsInv, NoChildAtWork
<1>5. CASE Ends("failed")
  <2>1. "failed" \in Terminal \ {"done"}
    BY DEF Terminal
  <2> QED
    BY <1>2, <1>4, <1>5, <2>1, EndsKeeps
<1>6. CASE Moves("settle_wave")
  <2>1. "settle_wave" \in CoreNodes \ {"ended"}
    BY DEF CoreNodes
  <2>2. CoreShape' /\ core'.launcher = core.launcher /\ core'.node = "settle_wave"
        /\ core'.status = core.status
    BY <1>1, <1>2, <1>3, <1>6, <2>1, MoveShape
  <2>3. GraphInv' /\ RunsStay /\ dState' = dState
    <3>1. UNCHANGED <<journal, wall, git, runs>>
      BY <1>2
    <3> QED
      BY <1>2, <3>1, SameGraph
  <2>4. ChildrenInv'
    BY <1>4, <2>2, <2>3, ChildrenLeave DEF LoopInv
  <2>5. ReviewInv'
    BY <1>1, <2>2, ReviewEarly DEF LoopInv, EarlyNodes
  <2>6. rounds' \in 0..MaxRounds /\ reviews' \in Nat /\ fixes' \in Nat
        /\ published' \in BOOLEAN /\ retained' \in BOOLEAN
    BY <1>1 DEF LoopInv, OuterInv, LoopShape, end
  <2>7. core'.status = "none" /\ UNCHANGED <<outer, dState>>
    BY <1>1, <1>2, <2>2, <2>3, AtWork
  <2> QED
    BY <1>1, <1>2, <2>2, <2>3, <2>4, <2>5, <2>6, <2>7, CoreWorks
<1> QED
  BY <1>1, <1>5, <1>6

-----------------------------------------------------------------------------
(* Review, publication and cleanup *)

\* The core goes on from a node after the fan-out, all tasks being integrated.
LEMMA LateMoves ==
  ASSUME LoopInv, core.node \in LateNodes, NEW n \in LateNodes, Moves(n),
         UNCHANGED <<dState, outer, rounds, call>>,
         UNCHANGED <<tState, count, att, waves, intents, integrations, paused, blockers, wall, results, runs>>,
         head' \in Nat, reviews' \in Nat, fixes' \in Nat,
         published' \in BOOLEAN, retained' \in BOOLEAN,
         core'.node = n => ReviewInv'
  PROVE  LoopInv'
<1>1. /\ core.node # "ended" /\ core.node # "task_wave"
      /\ core.node \notin {"routing_context", "prepare_wave"} /\ n \in CoreNodes \ {"ended"}
      /\ n # "task_wave"
  BY DEF LateNodes, CoreNodes
<1>2. /\ dState = "active" /\ CoreShape /\ core.status = "none" /\ core.items = {} /\ NoChildAtWork
      /\ lock = A!Free
  BY <1>1, AtWork DEF Submitted
<1>3. CoreShape' /\ core'.launcher = core.launcher /\ core'.node = n /\ core'.status = "none"
  BY <1>1, <1>2, MoveShape
<1>4. GraphInv' /\ RunsStay
  <2>1. dState' = dState /\ call' = call
    OBVIOUS
  <2> QED
    BY <1>1, <2>1, AsideKeepsGraph
<1>5. ChildrenInv'
  BY <1>1, <1>2, <1>3, <1>4, ChildrenLeave DEF LoopInv
<1>6. rounds' \in 0..MaxRounds
  BY DEF LoopInv, OuterInv, LoopShape
<1>7. UNCHANGED <<outer, dState>>
  OBVIOUS
<1> QED
  BY <1>1, <1>2, <1>3, <1>4, <1>5, <1>6, <1>7, CoreWorks

\* What the core relies on after the fan-out.
LEMMA AtLateWork ==
  ASSUME LoopInv, core.node \in LateNodes
  PROVE  /\ A!LatestIs("submitted") /\ AllIntegrated /\ head \in Nat
         /\ reviews \in {0, 1} /\ reviews \in Nat /\ fixes \in Nat /\ fixes <= reviews
         /\ published \in BOOLEAN /\ retained \in BOOLEAN
<1>1. core.node # "ended" /\ core.node \notin {"routing_context", "prepare_wave"}
  BY DEF LateNodes
<1>2. Submitted /\ HistoryInv
  BY <1>1, AtWork
<1> QED
  BY <1>2 DEF Submitted, HistoryInv, TypeOK, LoopInv, ReviewInv, OuterInv, LoopShape

\* The budget context begins the one review.
LEMMA BudgetContextKeeps == ASSUME LoopInv, BudgetContext PROVE LoopInv'
<1>1. /\ core.node = "delivery_budget_context" /\ Moves("review") /\ reviews' = reviews + 1
      /\ UNCHANGED <<vars, outer, fixes, published, retained, rounds>>
  BY DEF BudgetContext
<1>2. core.node \in LateNodes /\ "review" \in LateNodes /\ core.node \in EarlyNodes
  BY <1>1 DEF LateNodes, EarlyNodes
<1>3. /\ UNCHANGED <<dState, outer, rounds, call>>
      /\ UNCHANGED <<tState, count, att, waves, intents, integrations, paused, blockers, wall, results, runs>>
      /\ head' = head
  BY <1>1 DEF vars, journal, git
<1>4. A!LatestIs("submitted") /\ AllIntegrated /\ head \in Nat /\ fixes \in Nat /\ reviews = 0
      /\ fixes <= reviews /\ published \in BOOLEAN /\ retained \in BOOLEAN
  BY <1>2, AtLateWork DEF LoopInv, ReviewInv
<1>5. A!LatestIs("submitted")' /\ AllIntegrated'
  BY <1>3, <1>4 DEF outer, A!LatestIs, A!Latest, AllIntegrated
<1>6. reviews' = 1 /\ fixes' = 0 /\ head' \in Nat
  BY <1>1, <1>3, <1>4
<1>7. core'.node = "review" => ReviewInv'
  BY <1>5, <1>6 DEF ReviewInv, EarlyNodes, LateNodes
<1> QED
  BY <1>1, <1>2, <1>3, <1>4, <1>6, <1>7, LateMoves

\* The review commits at most once, on the integrated head.
LEMMA ReviewEndsKeeps == ASSUME LoopInv, NEW commits \in {0, 1}, ReviewEnds(commits) PROVE LoopInv'
<1>1. /\ core.node = "review" /\ Moves("publication_plan") /\ fixes' = fixes + commits
      /\ head' = head + commits
      /\ UNCHANGED <<journal, wall, results, runs, call, outer, reviews, published, retained, rounds>>
  BY DEF ReviewEnds
<1>2. core.node \in LateNodes /\ "publication_plan" \in LateNodes /\ core.node \in LateNodes \ EarlyNodes
  BY <1>1 DEF LateNodes, EarlyNodes
<1>3. /\ UNCHANGED <<dState, outer, rounds, call>>
      /\ UNCHANGED <<tState, count, att, waves, intents, integrations, paused, blockers, wall, results, runs>>
  BY <1>1 DEF journal
<1>4. A!LatestIs("submitted") /\ AllIntegrated /\ head \in Nat /\ fixes = 0 /\ reviews = 1
      /\ published \in BOOLEAN /\ retained \in BOOLEAN
  BY <1>1, <1>2, AtLateWork DEF LoopInv, ReviewInv
<1>5. A!LatestIs("submitted")' /\ AllIntegrated'
  BY <1>3, <1>4 DEF outer, A!LatestIs, A!Latest, AllIntegrated
<1>6. reviews' = 1 /\ fixes' \in Nat /\ fixes' <= 1 /\ head' \in Nat
  BY <1>1, <1>4
<1>7. core'.node = "publication_plan" => ReviewInv'
  BY <1>5, <1>6 DEF ReviewInv, EarlyNodes, LateNodes
<1> QED
  BY <1>1, <1>2, <1>3, <1>4, <1>6, <1>7, LateMoves

\* The plan allows the publication or blocks it.
LEMMA PublicationPlanKeeps == ASSUME LoopInv, PublicationPlan PROVE LoopInv'
<1>1. PICK n \in {"publication_verify", "terminal_blocked_publication"} :
        /\ core.node = "publication_plan" /\ Moves(n) /\ UNCHANGED <<vars, outer, end, rounds>>
  BY DEF PublicationPlan
<1>2. core.node \in LateNodes /\ n \in LateNodes /\ core.node \in LateNodes \ EarlyNodes
  BY <1>1 DEF LateNodes, EarlyNodes
<1>3. /\ UNCHANGED <<dState, outer, rounds, call>>
      /\ UNCHANGED <<tState, count, att, waves, intents, integrations, paused, blockers, wall, results, runs>>
      /\ head' = head /\ UNCHANGED <<reviews, fixes, published, retained>>
  BY <1>1 DEF vars, journal, git, end
<1>4. A!LatestIs("submitted") /\ AllIntegrated /\ head \in Nat /\ fixes \in Nat /\ reviews = 1
      /\ fixes <= reviews /\ published \in BOOLEAN /\ retained \in BOOLEAN
  BY <1>2, AtLateWork DEF LoopInv, ReviewInv
<1>5. A!LatestIs("submitted")' /\ AllIntegrated'
  BY <1>3, <1>4 DEF outer, A!LatestIs, A!Latest, AllIntegrated
<1>6. core'.node = n => ReviewInv'
  BY <1>3, <1>4, <1>5 DEF ReviewInv, EarlyNodes, LateNodes
<1>7. reviews' \in Nat /\ fixes' \in Nat /\ published' \in BOOLEAN /\ retained' \in BOOLEAN /\ head' \in Nat
  BY <1>3, <1>4
<1> QED
  BY <1>1, <1>2, <1>3, <1>6, <1>7, LateMoves

\* The publication is verified before the cleanup.
LEMMA PublicationVerifyKeeps == ASSUME LoopInv, PublicationVerify PROVE LoopInv'
<1>1. /\ core.node = "publication_verify" /\ published' = TRUE /\ Moves("cleanup")
      /\ UNCHANGED <<vars, outer, reviews, fixes, retained, rounds>>
  BY DEF PublicationVerify
<1>2. core.node \in LateNodes /\ "cleanup" \in LateNodes /\ core.node \in LateNodes \ EarlyNodes
  BY <1>1 DEF LateNodes, EarlyNodes
<1>3. /\ UNCHANGED <<dState, outer, rounds, call>>
      /\ UNCHANGED <<tState, count, att, waves, intents, integrations, paused, blockers, wall, results, runs>>
      /\ head' = head /\ UNCHANGED <<reviews, fixes, retained>>
  BY <1>1 DEF vars, journal, git
<1>4. A!LatestIs("submitted") /\ AllIntegrated /\ head \in Nat /\ fixes \in Nat /\ reviews = 1
      /\ fixes <= reviews /\ retained \in BOOLEAN
  BY <1>2, AtLateWork DEF LoopInv, ReviewInv
<1>5. A!LatestIs("submitted")' /\ AllIntegrated'
  BY <1>3, <1>4 DEF outer, A!LatestIs, A!Latest, AllIntegrated
<1>6. core'.node = "cleanup" => ReviewInv'
  BY <1>1, <1>3, <1>4, <1>5 DEF ReviewInv, EarlyNodes, LateNodes
<1>7. reviews' \in Nat /\ fixes' \in Nat /\ published' \in BOOLEAN /\ retained' \in BOOLEAN /\ head' \in Nat
  BY <1>1, <1>3, <1>4
<1> QED
  BY <1>1, <1>2, <1>3, <1>6, <1>7, LateMoves

\* The cleanup ends the core as done, or blocks over a retained worktree.
LEMMA CleanupKeeps == ASSUME LoopInv, NEW kept \in BOOLEAN, Cleanup(kept) PROVE LoopInv'
<1>1. /\ core.node = "cleanup" /\ retained' = kept
      /\ UNCHANGED <<vars, outer, reviews, fixes, published, rounds>>
  BY DEF Cleanup, CoreAt
<1>2. core.node \in LateNodes /\ core.node \in LateNodes \ EarlyNodes
  BY <1>1 DEF LateNodes, EarlyNodes
<1>3. /\ UNCHANGED <<dState, outer, rounds, call>>
      /\ UNCHANGED <<tState, count, att, waves, intents, integrations, paused, blockers, wall, results, runs>>
      /\ head' = head /\ UNCHANGED <<reviews, fixes, published>>
  BY <1>1 DEF vars, journal, git
<1>4. A!LatestIs("submitted") /\ AllIntegrated /\ head \in Nat /\ fixes \in Nat /\ reviews = 1
      /\ fixes <= reviews /\ published
  BY <1>1, <1>2, AtLateWork DEF LoopInv, ReviewInv
<1>5. A!LatestIs("submitted")' /\ AllIntegrated'
  BY <1>3, <1>4 DEF outer, A!LatestIs, A!Latest, AllIntegrated
<1>6. reviews' \in Nat /\ fixes' \in Nat /\ published' \in BOOLEAN /\ retained' \in BOOLEAN /\ head' \in Nat
  BY <1>1, <1>3, <1>4
<1>7. CASE kept
  <2>1. Moves("terminal_blocked_cleanup") /\ "terminal_blocked_cleanup" \in LateNodes
    BY <1>7 DEF Cleanup, LateNodes
  <2>2. core'.node = "terminal_blocked_cleanup" => ReviewInv'
    BY <1>3, <1>4, <1>5 DEF ReviewInv, EarlyNodes, LateNodes
  <2> QED
    BY <1>2, <1>3, <1>6, <2>1, <2>2, LateMoves
<1>8. CASE ~kept
  <2>1. Ends("done") /\ "done" \in Terminal
    BY <1>8 DEF Cleanup, Terminal
  <2>2. core.node # "ended" /\ core.node # "task_wave"
    BY <1>1
  <2>3. dState = "active" /\ CoreShape /\ NoChildAtWork /\ runs' = runs
    BY <1>3, <2>2, AtWork
  <2>4. CoreShape' /\ core'.launcher = core.launcher /\ core'.node = "ended" /\ core'.status = "done"
    BY <2>1, <2>3, EndShape
  <2>5. GraphInv' /\ RunsStay
    <3>1. dState' = dState /\ call' = call
      BY <1>3
    <3> QED
      BY <1>3, <1>6, <2>2, <3>1, AsideKeepsGraph
  <2>6. ChildrenInv'
    BY <2>3, <2>4, <2>5, ChildrenLeave DEF LoopInv
  <2>7. ReviewInv'
    BY <1>3, <1>4, <1>5, <2>4 DEF ReviewInv, EarlyNodes, LateNodes
  <2>8. WasDelivered'
    BY <1>1, <1>3, <1>4, <1>5, <1>8, <2>3 DEF WasDelivered, NoChildAtWork
  <2>9. rounds' \in 0..MaxRounds /\ UNCHANGED <<outer, dState>>
    BY <1>3 DEF LoopInv, OuterInv, LoopShape
  <2> QED
    BY <1>6, <2>2, <2>4, <2>5, <2>6, <2>7, <2>8, <2>9, CoreWorks
<1> QED
  BY <1>7, <1>8

-----------------------------------------------------------------------------
(* How the core ends *)

\* A terminal node closes the delivery and fails the core.
LEMMA CoreTerminalizesKeeps == ASSUME LoopInv, CoreTerminalizes PROVE LoopInv'
<1>1. /\ lock = A!Free /\ Ends("failed") /\ UNCHANGED <<outer, end, rounds>>
      /\ core.node \in {"terminal_exhausted", "terminal_blocked_publication", "terminal_blocked_cleanup"}
  BY DEF CoreTerminalizes
<1>2. core.node # "ended" /\ core.node # "task_wave" /\ "failed" \in Terminal
  BY <1>1 DEF Terminal
<1>3. dState = "active" /\ HistoryInv /\ CoreShape /\ NoChildAtWork /\ "core" \in Callers
  BY <1>2, AtWork, CallersAre
<1>4. blockers \in BOOLEAN /\ wall \in BOOLEAN /\ head \in Nat
  BY <1>3 DEF HistoryInv, TypeOK
<1>5. /\ dState' \in {"blocked", "exhausted"} /\ blockers' \in BOOLEAN
      /\ UNCHANGED <<tState, count, att, waves, intents, integrations, paused, results, runs>>
      /\ wall' = wall /\ head' = head /\ call' = call
  <2>1. CASE Terminalize("exhausted", FALSE)
    BY <2>1, <1>4 DEF Terminalize, git
  <2>2. CASE Terminalize("blocked", TRUE)
    BY <2>2, <1>4 DEF Terminalize, git
  <2>3. CASE dState' = "blocked" /\ UNCHANGED inner
    BY <2>3, <1>4 DEF inner, git
  <2> QED
    BY <2>1, <2>2, <2>3 DEF CoreTerminalizes
<1>6. GraphInv' /\ RunsStay /\ (AllIntegrated => AllIntegrated')
  BY <1>3, <1>4, <1>5, GraphAside, RunsSame DEF LoopInv, AllIntegrated
<1>7. CoreShape' /\ core'.launcher = core.launcher /\ core'.node = "ended" /\ core'.status = "failed"
  BY <1>1, <1>2, <1>3, EndShape
<1>8. /\ rounds' \in 0..MaxRounds /\ reviews' \in Nat /\ fixes' \in Nat
      /\ published' \in BOOLEAN /\ retained' \in BOOLEAN
      /\ dState' \in {"active", "done", "blocked", "exhausted"} /\ outer' = outer /\ LoopShape
  BY <1>1, <1>5 DEF LoopInv, OuterInv, LoopShape, end
<1>9. LoopShape'
  BY <1>7, <1>8, ShapeKept
<1>10. OuterInv'
  BY <1>1, <1>2, <1>5, <1>7, <1>9, TerminalizesOuter DEF LoopInv
<1>11. ChildrenInv'
  BY <1>3, <1>5, <1>6, <1>7, ChildrenLeave DEF LoopInv
<1>12. ReviewInv'
  BY <1>1, <1>5, <1>6, <1>7, ReviewStays DEF LoopInv
<1>13. DoneInv'
  BY <1>5, <1>7 DEF DoneInv
<1> QED
  BY <1>6, <1>10, <1>11, <1>12, <1>13 DEF LoopInv

\* A node other than the fan-out fails.
LEMMA CoreFailsKeeps == ASSUME LoopInv, CoreFails PROVE LoopInv'
<1>1. /\ core.node # "ended" /\ core.node # "task_wave" /\ Returns("core") /\ Ends("failed")
      /\ UNCHANGED <<journal, wall, git, runs, outer, end, rounds>>
  BY DEF CoreFails, Returns
<1>2. "failed" \in Terminal \ {"done"} /\ NoChildAtWork
  BY <1>1, AtWork DEF Terminal
<1> QED
  BY <1>1, <1>2, EndsKeeps

\* The core is stopped, wherever it stands.
LEMMA CoreStopsKeeps == ASSUME LoopInv, NEW status \in Stops, CoreStops(status) PROVE LoopInv'
<1>1. /\ core.node # "ended" /\ Returns("core") /\ Ends(status)
      /\ UNCHANGED <<journal, wall, git, runs, outer, end, rounds>>
  BY DEF CoreStops, Returns
<1>2. status \in Terminal \ {"done"} /\ status # "failed"
  BY CeilingsAssumption DEF Terminal
<1> QED
  BY <1>1, <1>2, EndsKeeps

\* The launcher ends without evidence, and its core with it.
LEMMA LauncherLostKeeps == ASSUME LoopInv, LauncherLost PROVE LoopInv'
<1>1. /\ core.node # "ended" /\ Returns("core") /\ Ends("stopped")
      /\ UNCHANGED <<journal, wall, git, runs, end, rounds>>
      /\ A!RunEnds(core.launcher, "stopped", "none", 0)
  BY DEF LauncherLost, Returns
<1>2. dState = "active" /\ CoreShape /\ core.launcher # 0 /\ "stopped" \in Terminal
  BY <1>1, AtWork DEF Terminal
<1>3. GraphInv' /\ RunsStay /\ (AllIntegrated => AllIntegrated') /\ dState' = dState
  <2>1. UNCHANGED <<journal, wall, git, runs>>
    BY <1>1
  <2> QED
    BY <1>1, <2>1, SameGraph
<1>4. CoreShape' /\ core'.launcher = core.launcher /\ core'.node = "ended" /\ core'.status = "stopped"
  BY <1>1, <1>2, EndShape
<1>5. A!Evidence("stopped", "none") = "none"
  BY DEF A!Evidence
<1>6. UNCHANGED <<attempts, lapsed, lock>>
      /\ launchers' = [launchers EXCEPT ![core.launcher] =
                         [@ EXCEPT !.status = "ended", !.review = 0, !.evidence = "none"]]
  BY <1>1, <1>5 DEF A!RunEnds
<1>7. LoopShape'
  <2>1. launchers \in Seq(A!Run) /\ core.launcher \in DOMAIN launchers /\ Len(launchers) <= AttemptCeiling
    BY <1>1, AtWork DEF LoopInv, OuterInv, LoopShape, LastLauncher
  <2> DEFINE run == [launchers[core.launcher] EXCEPT !.status = "ended", !.review = 0, !.evidence = "none"]
  <2>2. run \in A!Run
    <3>1. 0 \in 0..(NTasks * MaxExec * MaxUse)
      BY SizesAssumption
    <3>2. launchers[core.launcher] \in A!Run
      BY <2>1
    <3> QED
      BY <3>1, <3>2 DEF A!Run
  <2>3. launchers' = [launchers EXCEPT ![core.launcher] = run]
    BY <1>6
  <2> HIDE DEF run
  <2>4. launchers' \in Seq(A!Run) /\ Len(launchers') = Len(launchers)
    BY <2>1, <2>2, <2>3
  <2> QED
    BY <1>1, <1>3, <1>4, <1>6, <2>1, <2>4 DEF LoopInv, OuterInv, LoopShape, CoreShape, end
<1>8. OuterInv'
  BY <1>1, <1>2, <1>3, <1>4, <1>5, <1>7, RunEndsOuter DEF LoopInv
<1>9. A!LatestIs("submitted")' <=> A!LatestIs("submitted")
  BY <1>6 DEF A!LatestIs, A!Latest
<1>10. ChildrenInv'
  <2>1. dState' = "active" /\ ~A!LatestIs("submitted")' => NoChildAtWork
    BY <1>3, <1>9 DEF LoopInv, ChildrenInv
  <2> QED
    BY <1>3, <1>4, <2>1, ChildrenLeave DEF LoopInv
<1>11. ReviewInv'
  <2>1. reviews = 1 /\ dState' = "active" => A!LatestIs("submitted")'
    BY <1>2, <1>9 DEF LoopInv, ReviewInv
  <2> QED
    BY <1>1, <1>3, <1>4, <2>1, ReviewStays DEF LoopInv
<1>12. DoneInv'
  BY <1>2, <1>3, <1>4 DEF DoneInv
<1> QED
  BY <1>3, <1>8, <1>10, <1>11, <1>12 DEF LoopInv

-----------------------------------------------------------------------------
(* The attempt service and the clocks over the graph *)

\* The graph is left alone but for its wall clock.
LEMMA InnerAside ==
  ASSUME LoopInv, dState' \in {"active", "done", "blocked", "exhausted"},
         dState' # "done" => dState # "done",
         UNCHANGED <<tState, count, att, waves, intents, integrations, blockers, paused, git, runs, call>>,
         wall' \in {wall, FALSE}
  PROVE  GraphInv' /\ RunsStay /\ (AllIntegrated => AllIntegrated')
<1>1. UNCHANGED <<tState, count, att, waves, intents, integrations, paused, results, runs>>
      /\ call' = call /\ blockers' = blockers /\ head' = head /\ "core" \in Callers
  BY CallersAre DEF git
<1>2. ASSUME dState' # "done"
      PROVE  dState # "done" /\ wall' \in BOOLEAN /\ blockers' \in BOOLEAN /\ head' \in Nat
  <2>1. HistoryInv /\ dState # "done"
    BY <1>2 DEF LoopInv, GraphInv
  <2> QED
    BY <1>1, <2>1 DEF HistoryInv, TypeOK
<1>3. GraphInv'
  BY <1>1, <1>2, GraphAside DEF LoopInv
<1> QED
  BY <1>1, <1>3, RunsSame DEF AllIntegrated

\* An attempt is planned, sent or submitted, or the delivery is out of attempts.
LEMMA StartsKeeps == ASSUME LoopInv, Starts PROVE LoopInv'
<1>1. /\ UNCHANGED <<inner, end, core, rounds>>
      /\ A!Plan(LastLauncher) \/ A!Send \/ A!StartReturns \/ A!Exhaust(LastLauncher)
  BY DEF Starts, Outside
<1>2. OuterInv'
  BY <1>1, PlanOuter, SendOuter, ReturnsOuter, ExhaustOuter DEF LoopInv
<1>3. dState = "active" /\ dState' \in {"active", "exhausted"} /\ ~A!LatestIs("submitted")
  <2>1. CASE A!Plan(LastLauncher) \/ A!Exhaust(LastLauncher)
    BY <2>1 DEF A!Plan, A!Exhaust, A!Follows
  <2>2. CASE A!Send \/ A!StartReturns
    <3>1. lock # A!Free /\ dState' = dState
      BY <2>2 DEF A!Send, A!StartReturns, A!Free
    <3>2. dState = "active" /\ A!LatestIs("planned")
      BY <3>1 DEF LoopInv, OuterInv, LockInv
    <3> QED
      BY <3>1, <3>2 DEF A!LatestIs
  <2> QED
    BY <1>1, <2>1, <2>2
<1>4. GraphInv' /\ RunsStay /\ (AllIntegrated => AllIntegrated')
  BY <1>1, <1>3, InnerAside DEF inner
<1>5. NoChildAtWork /\ reviews # 1 /\ runs \in SUBSET Run
  BY <1>3 DEF LoopInv, ChildrenInv, ReviewInv, GraphInv, GraphShape
<1>6. ChildrenInv'
  <2>1. call'["core"] = call["core"]
    BY <1>1 DEF inner
  <2> QED
    BY <1>1, <1>4, <1>5, <2>1, ChildrenStay DEF LoopInv
<1>7. ReviewInv'
  BY <1>1, <1>4, <1>5, ReviewStays DEF LoopInv
<1>8. DoneInv'
  BY <1>1, <1>3, <1>4, DoneStays DEF LoopInv
<1> QED
  BY <1>2, <1>4, <1>6, <1>7, <1>8 DEF LoopInv

\* A launcher starts its core with no child at work.
LEMMA LauncherStartsKeeps ==
  ASSUME LoopInv, NEW i \in DOMAIN launchers, LauncherStarts(i) PROVE LoopInv'
<1>1. UNCHANGED <<inner, end, rounds, dState>> /\ core' = Generation(i, 1)
  BY DEF LauncherStarts
<1>2. OuterInv' /\ dState = "active" /\ ~A!LatestIs("submitted")
  BY LauncherStartsOuter DEF LoopInv
<1>3. core'.node = "routing_context" /\ core'.status = "none"
  BY <1>1 DEF Generation
<1>4. GraphInv' /\ RunsStay /\ (AllIntegrated => AllIntegrated')
  BY <1>1, <1>2, InnerAside DEF inner
<1>5. NoChildAtWork /\ reviews # 1
  BY <1>2 DEF LoopInv, ChildrenInv, ReviewInv
<1>6. ChildrenInv'
  BY <1>3, <1>4, <1>5, ChildrenLeave DEF LoopInv
<1>7. ReviewInv'
  BY <1>1, <1>3, <1>5 DEF LoopInv, ReviewInv, end, EarlyNodes, LateNodes
<1>8. DoneInv'
  BY <1>1, <1>2, <1>3 DEF DoneInv
<1> QED
  BY <1>2, <1>4, <1>6, <1>7, <1>8 DEF LoopInv

\* A launcher ends with the evidence of its core.
LEMMA LauncherEndsKeeps == ASSUME LoopInv, LauncherEnds PROVE LoopInv'
<1> DEFINE L == IF core.status = "done" THEN "done" ELSE "failed"
<1>1. /\ core.node = "ended" /\ core.launcher # 0
      /\ UNCHANGED <<inner, end, core, rounds, dState>>
      /\ A!RunEnds(core.launcher, L, core.status, 0)
  BY DEF LauncherEnds
<1>2. core.status \in Terminal
  BY <1>1 DEF LoopInv, OuterInv, LoopShape, Core
<1>3. A!Evidence(L, core.status) = core.status
  BY <1>2 DEF A!Evidence, Terminal
<1>4. core.status \in A!Terminal \cup {"none"}
  BY <1>2 DEF Terminal, A!Terminal
<1> HIDE DEF L
<1>5. OuterInv'
  BY <1>1, <1>3, <1>4, RunEndsOuter DEF LoopInv
<1>6. attempts' = attempts /\ lock' = lock
  BY <1>1 DEF A!RunEnds
<1>7. (A!LatestIs("submitted")' <=> A!LatestIs("submitted")) /\ A!Free' = A!Free
  BY <1>6 DEF A!LatestIs, A!Latest, A!Free, A!NoRun
<1>8. dState \in {"active", "done", "blocked", "exhausted"} /\ runs \in SUBSET Run
  BY DEF LoopInv, OuterInv, LoopShape, GraphInv, GraphShape
<1>9. GraphInv' /\ RunsStay /\ (AllIntegrated => AllIntegrated')
  BY <1>1, <1>8, InnerAside DEF inner
<1>10. ChildrenInv'
  <2>1. call'["core"] = call["core"]
    BY <1>1 DEF inner
  <2>2. dState' = "active" /\ ~A!LatestIs("submitted")' => NoChildAtWork
    BY <1>1, <1>7 DEF LoopInv, ChildrenInv
  <2> QED
    BY <1>1, <1>8, <1>9, <2>1, <2>2, ChildrenStay DEF LoopInv
<1>11. ReviewInv'
  <2>1. reviews = 1 /\ dState' = "active" => A!LatestIs("submitted")'
    BY <1>1, <1>7 DEF LoopInv, ReviewInv
  <2> QED
    BY <1>1, <1>9, <2>1, ReviewStays DEF LoopInv
<1>12. DoneInv'
  <2>1. dState' = "done" => /\ dState = "done"
                           /\ core'.node = "ended" /\ ~A!LatestIs("submitted")' /\ lock' = A!Free
    BY <1>1, <1>6, <1>7 DEF LoopInv, DoneInv
  <2> QED
    BY <1>1, <1>9, <2>1, DoneStays DEF LoopInv
<1> QED
  BY <1>5, <1>9, <1>10, <1>11, <1>12 DEF LoopInv

\* The fingerprint of the worktree is a number.
LEMMA FingerprintNat == ASSUME LoopInv PROVE Fingerprint \in Nat
<1>1. Cardinality(results) \in Nat
  BY FS_CardinalityType DEF LoopInv, GraphInv, GraphShape
<1>2. fixes \in Nat
  BY DEF LoopInv, OuterInv, LoopShape
<1> QED
  BY <1>1, <1>2 DEF Fingerprint

\* Reconcile reopens a delivery only after a failed core, and closes it as done
\* only after a core that is done.
LEMMA ReconcilesKeeps == ASSUME LoopInv, Reconciles PROVE LoopInv'
<1>1. UNCHANGED <<inner, end, core, rounds>> /\ A!Reconcile
  BY DEF Reconciles, Outside
<1>2. OuterInv' /\ ReconcileView
  BY <1>1, FingerprintNat, ReconcileOuter DEF LoopInv
<1> DEFINE evidence == launchers[LastLauncher].evidence
<1>3. /\ lock = A!Free /\ lock' = lock /\ A!LatestIs("submitted") /\ ~A!LatestIs("submitted")'
      /\ core.node = "ended" /\ core.status = evidence
      /\ dState' = A!Disposition(evidence)
  BY <1>2 DEF ReconcileView
<1>4. dState # "done"
  BY <1>3 DEF LoopInv, DoneInv
<1>5. dState' \in {"active", "done", "blocked", "exhausted"} /\ runs \in SUBSET Run
      /\ evidence \in {"done", "failed", "exhausted", "stopped", "none"}
  BY <1>2, <1>3 DEF OuterInv, LoopShape, LoopInv, GraphInv, GraphShape, Core, Terminal
<1>6. evidence # "none"
  BY <1>2 DEF ReconcileView
<1>7. /\ dState' = "done" => evidence = "done"
      /\ dState' = "active" => evidence = "failed" /\ FallbackTasks # {}
  <2>0. dState \in {"active", "done", "blocked", "exhausted"}
    BY DEF LoopInv, OuterInv, LoopShape
  <2> HIDE DEF evidence
  <2>1. CASE evidence = "done"
    BY <2>1, <1>3 DEF A!Disposition
  <2>2. CASE evidence = "exhausted" \/ evidence = "stopped"
    BY <2>2, <1>3 DEF A!Disposition
  <2>3. CASE evidence = "failed"
    <3>1. dState' = IF dState \in {"blocked", "exhausted"} THEN dState ELSE A!AfterFailure
      BY <2>3, <1>3 DEF A!Disposition
    <3>2. A!AfterFailure = "active" => GraphView.fallback
      BY DEF A!AfterFailure
    <3>3. A!AfterFailure # "done"
      BY DEF A!AfterFailure
    <3>4. GraphView.fallback = (FallbackTasks # {})
      BY DEF GraphView
    <3> QED
      BY <3>1, <3>2, <3>3, <3>4, <2>0, <2>3
  <2> QED
    BY <2>1, <2>2, <2>3, <1>5, <1>6
<1> HIDE DEF evidence
<1>8. GraphInv' /\ RunsStay /\ (AllIntegrated => AllIntegrated')
  BY <1>1, <1>4, <1>5, InnerAside DEF inner
<1>9. ChildrenInv'
  <2>1. call'["core"] = call["core"]
    BY <1>1 DEF inner
  <2>2. dState' = "active" => NoChildAtWork
    BY <1>3, <1>7 DEF LoopInv, ChildrenInv
  <2> QED
    BY <1>1, <1>5, <1>8, <2>1, <2>2, ChildrenStay DEF LoopInv
<1>10. ReviewInv'
  <2>1. reviews = 1 => dState' # "active"
    <3>1. AllIntegrated => FallbackTasks = {}
      BY DEF AllIntegrated, FallbackTasks
    <3> QED
      BY <3>1, <1>7 DEF LoopInv, ReviewInv
  <2> QED
    BY <1>1, <1>8, <2>1, ReviewStays DEF LoopInv
<1>11. DoneInv'
  <2>1. core.status = "done" => WasDelivered'
    BY <1>1, <1>8, NoneBegins DEF LoopInv, DoneInv, WasDelivered, end
  <2>2. A!Free' = A!Free
    BY DEF A!Free, A!NoRun
  <2> QED
    BY <1>1, <1>3, <1>7, <2>1, <2>2 DEF DoneInv
<1> QED
  BY <1>2, <1>8, <1>9, <1>10, <1>11 DEF LoopInv

\* A clock passes in an active delivery.
LEMMA ClockKeeps ==
  ASSUME LoopInv, OuterInv', dState = "active", UNCHANGED <<dState, attempts, end, core, rounds>>,
         UNCHANGED <<tState, count, att, waves, intents, integrations, blockers, paused, git, runs, call>>,
         wall' \in {wall, FALSE}
  PROVE  LoopInv'
<1>1. GraphInv' /\ RunsStay /\ (AllIntegrated => AllIntegrated')
  BY InnerAside
<1>2. A!LatestIs("submitted")' <=> A!LatestIs("submitted")
  BY DEF A!LatestIs, A!Latest
<1>3. ChildrenInv'
  <2>1. dState' = "active" /\ ~A!LatestIs("submitted")' => NoChildAtWork
    BY <1>2 DEF LoopInv, ChildrenInv
  <2>2. runs \in SUBSET Run /\ call'["core"] = call["core"] /\ core' = core
    BY DEF LoopInv, GraphInv, GraphShape
  <2> QED
    BY <1>1, <2>1, <2>2, ChildrenStay DEF LoopInv
<1>4. ReviewInv'
  <2>1. reviews = 1 /\ dState' = "active" => A!LatestIs("submitted")'
    BY <1>2 DEF LoopInv, ReviewInv
  <2>2. end' = end /\ core' = core
    OBVIOUS
  <2> QED
    BY <1>1, <2>1, <2>2, ReviewStays DEF LoopInv
<1>5. DoneInv'
  <2>1. end' = end /\ core' = core /\ dState' # "done"
    OBVIOUS
  <2> QED
    BY <1>1, <2>1, DoneStays DEF LoopInv
<1> QED
  BY <1>1, <1>3, <1>4, <1>5 DEF LoopInv

\* The deadline passes.
LEMMA DeadlineKeeps == ASSUME LoopInv, DeadlinePasses PROVE LoopInv'
<1>1. dState = "active" /\ UNCHANGED <<dState, inner, end, core, rounds>> /\ A!DeadlinePasses
  BY DEF DeadlinePasses, Outside
<1>2. OuterInv'
  BY <1>1, DeadlineOuter DEF LoopInv
<1>3. UNCHANGED <<dState, attempts, end, core, rounds>>
  BY <1>1 DEF A!DeadlinePasses
<1> QED
  BY <1>1, <1>2, <1>3, ClockKeeps DEF inner

\* The wall clock runs out.
LEMMA WallClockKeeps == ASSUME LoopInv, WallClockRunsOut PROVE LoopInv'
<1>1. dState = "active" /\ wall' = FALSE /\ UNCHANGED <<journal, git, runs, call>>
      /\ UNCHANGED <<outer, end, core, rounds>>
  BY DEF WallClockRunsOut, WallExpires, GraphOnly
<1>2. UNCHANGED <<dState, attempts, end, core, rounds>>
      /\ UNCHANGED <<tState, count, att, waves, intents, integrations, blockers, paused, git, runs, call>>
  BY <1>1 DEF journal, outer
<1>3. LoopShape'
  BY <1>1, <1>2 DEF LoopInv, OuterInv, LoopShape, outer, end
<1>4. OuterInv'
  <2>1. UNCHANGED <<dState, outer, core>>
    BY <1>1, <1>2
  <2> QED
    BY <1>3, <2>1, MovesOuter DEF LoopInv
<1> QED
  BY <1>1, <1>2, <1>4, ClockKeeps

-----------------------------------------------------------------------------
(* The children *)

\* A step of the children that leaves the core where it is.
LEMMA AroundTheCore ==
  ASSUME LoopInv, UNCHANGED <<dState, outer, end, core>>, rounds' \in 0..MaxRounds,
         GraphInv', RunsStay, AllIntegrated => AllIntegrated', call'["core"] = call["core"]
  PROVE  LoopInv'
<1>1. UNCHANGED <<attempts, lock>> /\ outer' = outer /\ end' = end /\ core' = core /\ dState' = dState
  BY DEF outer
<1>2. LoopShape'
  BY <1>1 DEF LoopInv, OuterInv, LoopShape, outer, end
<1>3. OuterInv'
  BY <1>2, MovesOuter DEF LoopInv
<1>4. (A!LatestIs("submitted")' <=> A!LatestIs("submitted")) /\ A!Free' = A!Free
  BY <1>1 DEF A!LatestIs, A!Latest, A!Free, A!NoRun
<1>5. ChildrenInv'
  <2>1. dState' = "active" /\ ~A!LatestIs("submitted")' => NoChildAtWork
    BY <1>1, <1>4 DEF LoopInv, ChildrenInv
  <2>2. runs \in SUBSET Run
    BY DEF LoopInv, GraphInv, GraphShape
  <2> QED
    BY <1>1, <2>1, <2>2, ChildrenStay DEF LoopInv
<1>6. ReviewInv'
  <2>1. reviews = 1 /\ dState' = "active" => A!LatestIs("submitted")'
    BY <1>1, <1>4 DEF LoopInv, ReviewInv
  <2> QED
    BY <1>1, <2>1, ReviewStays DEF LoopInv
<1>7. DoneInv'
  <2>1. dState' = "done" => /\ dState = "done"
                           /\ core'.node = "ended" /\ ~A!LatestIs("submitted")' /\ lock' = A!Free
    BY <1>1, <1>4 DEF LoopInv, DoneInv
  <2> QED
    BY <1>1, <2>1, DoneStays DEF LoopInv
<1> QED
  BY <1>3, <1>5, <1>6, <1>7 DEF LoopInv

\* A child run goes on: its delivery is not done.
LEMMA ChildStepKeeps ==
  ASSUME LoopInv, NEW r \in runs, ChildRunStep(r), UNCHANGED <<outer, end, core>>,
         rounds' \in 0..MaxRounds
  PROVE  LoopInv'
<1>1. r.status = "running"
  BY ChildRunStays DEF LoopInv, GraphInv
<1>2. dState # "done"
  BY <1>1 DEF LoopInv, DoneInv, WasDelivered, NoChildAtWork
<1>3. GraphInv' /\ RunsStay /\ UNCHANGED <<journal, wall, git, call>>
  BY <1>2, GraphChild DEF LoopInv
<1>4. dState' = dState /\ tState' = tState /\ call'["core"] = call["core"]
  BY <1>3 DEF journal
<1>5. (AllIntegrated => AllIntegrated') /\ UNCHANGED <<dState, outer, end, core>>
  BY <1>4 DEF AllIntegrated
<1> QED
  BY <1>3, <1>4, <1>5, AroundTheCore

\* A child works, ...
LEMMA ChildWorksKeeps == ASSUME LoopInv, NEW r \in runs, ChildWorks(r) PROVE LoopInv'
<1>1. UNCHANGED <<outer, end, core, rounds>>
  BY DEF ChildWorks, GraphOnly
<1>2. ChildRunStep(r)
  BY DEF ChildWorks, ChildRunStep
<1>3. rounds' \in 0..MaxRounds
  BY <1>1 DEF LoopInv, OuterInv, LoopShape
<1> QED
  BY <1>1, <1>2, <1>3, ChildStepKeeps

\* ... goes round after an answer, ...
LEMMA ChildGoesRoundKeeps == ASSUME LoopInv, NEW r \in runs, ChildGoesRound(r) PROVE LoopInv'
<1>1. ChildRunStep(r) /\ UNCHANGED <<outer, end, core>>
  BY DEF ChildGoesRound, ChildRunStep
<1>2. rounds' \in 0..MaxRounds
  BY CeilingsAssumption DEF ChildGoesRound, LoopInv, OuterInv, LoopShape
<1> QED
  BY <1>1, <1>2, ChildStepKeeps

\* ... and is answered by a human.
LEMMA RepliesKeeps == ASSUME LoopInv, NEW r \in runs, Replies(r) PROVE LoopInv'
<1>1. ChildRunStep(r) /\ UNCHANGED <<outer, end, core, rounds>>
  BY DEF Replies, ChildRunStep, GraphOnly
<1>2. rounds' \in 0..MaxRounds
  BY <1>1 DEF LoopInv, OuterInv, LoopShape
<1> QED
  BY <1>1, <1>2, ChildStepKeeps

\* What the children call changes no run and nothing of a delivery that is done.
LEMMA ChildCallsKeeps == ASSUME LoopInv, ChildCalls PROVE LoopInv'
<1>1. UNCHANGED <<outer, end, core, rounds>>
  BY DEF ChildCalls, GraphOnly
<1>2. rounds' \in 0..MaxRounds
  BY <1>1 DEF LoopInv, OuterInv, LoopShape
<1>3. runs' = runs
  BY ZenonT(60) DEF ChildCalls, QuestionLoad, AnswerLoad, FailureLoad, QuestionCommit, AnswerCommit,
         FailureCommit, CallEnds
<1>4. "core" \in Callers /\ "child" \in Callers /\ "core" # "child"
  BY CallersAre
<1>5. CASE dState # "done"
  <2>1. ServiceStep("child")
    BY DEF ChildCalls, ServiceStep
  <2>2. GraphInv' /\ Good /\ dState' = dState /\ call'["core"] = call["core"]
    BY <1>4, <1>5, <2>1, GraphService DEF LoopInv
  <2>3. AllIntegrated => AllIntegrated'
    BY <1>5, <2>2, NowhereElse DEF LoopInv
  <2>4. UNCHANGED <<dState, outer, end, core>>
    BY <1>1, <2>2
  <2> QED
    BY <1>2, <1>3, <2>2, <2>3, <2>4, RunsSame, AroundTheCore
<1>6. CASE dState = "done"
  <2>1. AllIntegrated /\ CallsNameAttempts /\ call \in [Callers -> Call]
    BY <1>6 DEF LoopInv, DoneInv, WasDelivered, GraphInv, GraphShape
  <2>2. ~QuestionCommit("child")
    <3>1. call["child"].op = "question" => call["child"].task \in Tasks
      BY <1>4, <2>1 DEF CallsNameAttempts, Naming, CandidateParts
    <3> QED
      BY <2>1, <3>1 DEF QuestionCommit, StillRunning, RunningAttempt, AllIntegrated
  <2>3. ~AnswerCommit("child")
    <3>1. call["child"].op = "answer" => call["child"].task \in Tasks
      BY <1>4, <2>1 DEF CallsNameAttempts, Naming, CandidateParts
    <3> QED
      BY <2>1, <3>1 DEF AnswerCommit, AllIntegrated
  <2>4. CallEnds("child")
    BY <1>6, <2>2, <2>3 DEF ChildCalls, QuestionLoad, AnswerLoad, FailureLoad, FailureCommit, Addresses
  <2>5. Returns("child") /\ UNCHANGED <<journal, wall, git, runs>>
    BY <2>4 DEF CallEnds
  <2>6. /\ UNCHANGED <<tState, count, att, waves, intents, integrations, paused, results, runs>>
        /\ dState' = dState
    BY <2>5 DEF journal, git
  <2>7. GraphInv'
    BY <1>4, <1>6, <2>5, <2>6, GraphAside DEF LoopInv
  <2>8. call'["core"] = call["core"]
    BY <1>4, <2>1, <2>5 DEF Returns
  <2>9. (AllIntegrated => AllIntegrated') /\ UNCHANGED <<dState, outer, end, core>>
    BY <1>1, <2>6 DEF AllIntegrated
  <2> QED
    BY <1>2, <1>3, <2>7, <2>8, <2>9, RunsSame, AroundTheCore
<1> QED
  BY <1>5, <1>6

-----------------------------------------------------------------------------
(* Every step *)

\* Every step of the core keeps the invariant, ...
LEMMA CoreStepKeeps == ASSUME LoopInv, CoreStep PROVE LoopInv'
  BY RoutingContextKeeps, CorePreparesKeeps, PrepareAnswersKeeps, PrepareExhaustedKeeps,
     PrepareAllIntegratedKeeps, CellStartsKeeps, CellRecordsKeeps, CellFailsKeeps,
     CellSucceedsKeeps, CollectsKeeps, CoreSettlesKeeps, SettleAnswersKeeps,
     BudgetContextKeeps, ReviewEndsKeeps, PublicationPlanKeeps, PublicationVerifyKeeps,
     CleanupKeeps, CoreTerminalizesKeeps, CoreFailsKeeps DEF CoreStep

\* ... a step that changes nothing does, ...
LEMMA NothingMoves == ASSUME LoopInv, UNCHANGED loopVars PROVE LoopInv'
<1>1. /\ UNCHANGED <<dState, outer, end, core, rounds, call, runs>>
      /\ UNCHANGED <<tState, count, att, waves, intents, integrations, blockers, paused, git, wall>>
  BY DEF loopVars, vars, journal
<1>2. dState' \in {"active", "done", "blocked", "exhausted"} /\ rounds' \in 0..MaxRounds
  BY <1>1 DEF LoopInv, OuterInv, LoopShape
<1>3. GraphInv' /\ RunsStay /\ (AllIntegrated => AllIntegrated')
  BY <1>1, <1>2, InnerAside
<1>4. UNCHANGED <<dState, outer, end, core>> /\ call'["core"] = call["core"]
  BY <1>1
<1> QED
  BY <1>2, <1>3, <1>4, AroundTheCore

\* ... and so does every step of the delivery.
LEMMA LoopStep == LoopInv /\ [LoopNext]_loopVars => LoopInv'
<1> SUFFICES ASSUME LoopInv, [LoopNext]_loopVars
             PROVE  LoopInv'
  OBVIOUS
<1>1. CASE LoopNext
  <2>1. CASE Starts \/ LauncherStep \/ Reconciles \/ DeadlinePasses \/ LauncherLost
             \/ ChildCalls \/ WallClockRunsOut
    BY <2>1, StartsKeeps, LauncherStartsKeeps, LauncherEndsKeeps, ReconcilesKeeps, DeadlineKeeps,
       LauncherLostKeeps, ChildCallsKeeps, WallClockKeeps DEF LauncherStep
  <2>2. CASE CoreStep \/ \E status \in Stops : CoreStops(status)
    BY <2>2, CoreStepKeeps, CoreStopsKeeps
  <2>3. CASE \E r \in runs : ChildWorks(r) \/ ChildGoesRound(r) \/ Replies(r)
    BY <2>3, ChildWorksKeeps, ChildGoesRoundKeeps, RepliesKeeps
  <2> QED
    BY <1>1, <2>1, <2>2, <2>3 DEF LoopNext
<1>2. CASE UNCHANGED loopVars
  BY <1>2, NothingMoves
<1> QED
  BY <1>1, <1>2

\* LoopInv is an invariant of the specification.
LEMMA LoopInvariant == LoopSpec => []LoopInv
  BY LoopInitInv, LoopStep, PTL DEF LoopSpec

\* However often the delivery is recovered, it is reviewed once.
THEOREM ReviewsAreSingle == LoopSpec => []ReviewedOnce
<1>1. LoopInv => ReviewedOnce
  BY DEF LoopInv, ReviewInv, ReviewedOnce
<1> QED
  BY <1>1, LoopInvariant, PTL

\* A delivery that is done was delivered.
THEOREM DoneMeansDelivered == LoopSpec => []DoneIsDelivered
<1>1. LoopInv => DoneIsDelivered
  BY DEF LoopInv, DoneInv, WasDelivered, NoChildAtWork, DoneIsDelivered
<1> QED
  BY <1>1, LoopInvariant, PTL

\* What a closed delivery can still do.
LEMMA ClosedStep ==
  ASSUME LoopInv, [LoopNext]_loopVars, dState # "active"
  PROVE  /\ dState' # "active"
         /\ Len(attempts') = Len(attempts)
         /\ {r.id : r \in runs'} = {r.id : r \in runs}
         /\ reviews' = reviews /\ published' = published
<1>1. core.node = "ended" /\ lock = A!Free
  BY DEF LoopInv, OuterInv, CoreInv, LockInv
<1>2. CASE Starts
  BY <1>1, <1>2 DEF Starts, A!Plan, A!Exhaust, A!Send, A!StartReturns, A!Free
<1>3. CASE LauncherEnds
  BY <1>3 DEF LauncherEnds, A!RunEnds, inner, end
<1>4. ASSUME NEW i \in DOMAIN launchers, LauncherStarts(i)
      PROVE  FALSE
  BY <1>4, LauncherStartsOuter DEF LoopInv
<1>5. CASE Reconciles
  <2>1. UNCHANGED <<inner, end, core, rounds>> /\ A!Reconcile
    BY <1>5 DEF Reconciles, Outside
  <2>2. ReconcileView
    BY <2>1, FingerprintNat, ReconcileOuter DEF LoopInv
  <2>3. PICK evidence : /\ dState' = A!Disposition(evidence) /\ core.status = evidence /\ evidence # "none"
                        /\ A!LatestIs("submitted") /\ Len(attempts') = Len(attempts)
    BY <2>2 DEF ReconcileView
  <2>4. dState \in {"blocked", "exhausted"}
    BY <2>3 DEF LoopInv, DoneInv, OuterInv, LoopShape
  <2>5. evidence \in {"done", "failed", "exhausted", "stopped"}
    BY <2>3 DEF LoopInv, OuterInv, LoopShape, Core, Terminal
  <2>6. dState' # "active"
    BY <2>3, <2>4, <2>5 DEF A!Disposition
  <2> QED
    BY <2>1, <2>3, <2>6 DEF inner, end
<1>6. ~(DeadlinePasses \/ WallClockRunsOut \/ LauncherLost)
  BY <1>1 DEF DeadlinePasses, WallClockRunsOut, LauncherLost
<1>7. \A status \in Stops : ~CoreStops(status)
  BY <1>1 DEF CoreStops
<1>8. ~CoreStep
  BY <1>1 DEF CoreStep, RoutingContext, CorePrepares, PrepareAnswers, PrepareExhausted,
     PrepareAllIntegrated, PreparedNothing, CellStarts, CellRecords, CellFails, CellSucceeds,
     Collects, CoreSettles, SettleAnswers, BudgetContext, ReviewEnds, PublicationPlan,
     PublicationVerify, Cleanup, CoreTerminalizes, CoreFails, CoreAt
<1>9. ASSUME NEW r \in runs, ChildWorks(r) \/ ChildGoesRound(r) \/ Replies(r)
      PROVE  /\ dState' = dState /\ attempts' = attempts /\ RunsStay
             /\ reviews' = reviews /\ published' = published
  <2>1. ChildRunStep(r) /\ UNCHANGED <<outer, end>>
    BY <1>9 DEF ChildWorks, ChildGoesRound, Replies, ChildRunStep, GraphOnly
  <2>2. RunsStay /\ UNCHANGED journal
    BY <2>1, ChildRunStays DEF LoopInv, GraphInv
  <2> QED
    BY <2>1, <2>2 DEF journal, outer, end
<1>10. CASE ChildCalls
  <2>1. runs' = runs /\ dState' = dState
    <3>1. ASSUME NEW r \in runs, NEW e \in Execs,
                 QuestionLoad("child", r, e) \/ AnswerLoad("child", r, e) \/ FailureLoad("child", r, e)
          PROVE  runs' = runs /\ dState' = dState
      BY <3>1 DEF QuestionLoad, AnswerLoad, FailureLoad, journal
    <3>2. CASE QuestionCommit("child") \/ AnswerCommit("child") \/ CallEnds("child")
      BY <3>2 DEF QuestionCommit, AnswerCommit, CallEnds, journal
    <3>3. ASSUME NEW fallback \in BOOLEAN, FailureCommit("child", fallback)
          PROVE  runs' = runs /\ dState' = dState
      BY <3>3 DEF FailureCommit
    <3> QED
      BY <1>10, <3>1, <3>2, <3>3 DEF ChildCalls
  <2> QED
    BY <1>10, <2>1 DEF ChildCalls, GraphOnly, outer, end
<1>11. CASE UNCHANGED loopVars
  BY <1>11 DEF loopVars, vars, journal, outer, end
<1> QED
  BY <1>2, <1>3, <1>4, <1>5, <1>6, <1>7, <1>8, <1>9, <1>10, <1>11 DEF LoopNext, LauncherStep, RunsStay

\* Nothing is launched for a delivery that is closed.
THEOREM ClosedDeliveriesStayClosed == LoopSpec => ClosedIsFinal
<1>1. LoopInv /\ [LoopNext]_loopVars =>
        [dState # "active" =>
         /\ dState' # "active"
         /\ Len(attempts') = Len(attempts)
         /\ {r.id : r \in runs'} = {r.id : r \in runs}
         /\ reviews' = reviews /\ published' = published]_loopVars
  BY ClosedStep
<1> QED
  BY <1>1, LoopInvariant, PTL DEF LoopSpec, ClosedIsFinal

\* The tokens of the graph have a bound.
LEMMA TokensBounded ==
  ASSUME LoopInv
  PROVE  CumulativeTokens \in 0..(NTasks * MaxExec * MaxUse)
<1>1. PICK f : f = [x \in Commit |-> att[x[1]][x[2]].used]
  OBVIOUS
<1>2. \A x \in Commit : att[x[1]][x[2]] \in Attempt
  BY DEF Commit, LoopInv, GraphInv, GraphShape
<1>3. f \in [Commit -> Nat] /\ \A x \in Commit : f[x] <= MaxUse
  BY <1>1, <1>2, SizesAssumption DEF Attempt
<1>4. IsFiniteSet(Commit) /\ Cardinality(Commit) = NTasks * MaxExec
  <2>1. /\ IsFiniteSet(Tasks) /\ Cardinality(Tasks) = NTasks
        /\ IsFiniteSet(Execs) /\ Cardinality(Execs) = MaxExec
    BY SizesAssumption, FS_Interval DEF Tasks, Execs
  <2> QED
    BY <2>1, FS_Product DEF Commit
<1>5. Total(f) \in Nat /\ Total(f) <= Cardinality(Commit) * MaxUse
  BY <1>3, <1>4, SizesAssumption, TotalType, TotalBounded
<1>6. CumulativeTokens = Total(f)
  BY <1>1 DEF CumulativeTokens
<1>7. NTasks * MaxExec * MaxUse \in Nat
  BY SizesAssumption
<1> QED
  BY <1>4, <1>5, <1>6, <1>7

\* What the attempt service sees is a graph of its own.
LEMMA ViewIsGraph == LoopInv => GraphView \in A!Graph
<1> SUFFICES ASSUME LoopInv
             PROVE  GraphView \in A!Graph
  OBVIOUS
<1>1. CumulativeTokens \in 0..(NTasks * MaxExec * MaxUse)
  BY TokensBounded
<1>2. /\ (waves # <<>>) \in BOOLEAN /\ (FallbackTasks # {}) \in BOOLEAN
      /\ (ExhaustedTasks # {}) \in BOOLEAN /\ AllIntegrated \in BOOLEAN
  BY DEF AllIntegrated
<1>3. \A o, f, s, w \in BOOLEAN : \A u \in 0..(NTasks * MaxExec * MaxUse) :
        [owned |-> o, fallback |-> f, spent |-> s, whole |-> w, used |-> u] \in A!Graph
  BY DEF A!Graph
<1> HIDE DEF AllIntegrated, FallbackTasks, ExhaustedTasks, CumulativeTokens
<1> QED
  BY <1>1, <1>2, <1>3, Zenon DEF GraphView

\* The core, the attempts and the graph keep their types.
THEOREM LoopTypesCorrect == LoopSpec => []LoopTypeOK
<1>1. ASSUME LoopInv
      PROVE  LoopTypeOK
  <2>1. GraphView \in A!Graph
    BY <1>1, ViewIsGraph
  <2>2. A!TypeOK
    BY <1>1, <2>1, FingerprintNat DEF A!TypeOK, LoopInv, OuterInv, LoopShape
  <2>3. fixes \in 0..reviews
    BY <1>1 DEF LoopInv, OuterInv, LoopShape, ReviewInv
  <2> QED
    BY <1>1, <2>2, <2>3 DEF LoopTypeOK, LoopInv, OuterInv, LoopShape, GraphInv, GraphShape
<1> QED
  BY <1>1, LoopInvariant, PTL

-----------------------------------------------------------------------------
(* The attempts of the delivery are those of DeliveryAttempts *)

\* Only a closed attempt has used tokens.
Unpaid(h) ==
    \A e \in Execs : h[e].state \notin {"candidate", "integrated", "blocked"} => h[e].used = 0
UnpaidUntilClosed == \A t \in Tasks : Unpaid(att[t])

\* What was tried belongs to a wave, and a launcher was there to admit it.
TriedHasWave == (\E t \in Tasks : count[t] # 0) => waves # <<>>
SomeLauncher == \E i \in DOMAIN launchers : launchers[i].status # "sent"
WaveHasLauncher == waves # <<>> => SomeLauncher

\* A core belongs to a launcher that began.
CoreHasLauncher == core.launcher # 0 => launchers[core.launcher].status # "sent"

\* The core settles at one node.
SettlesThere == call["core"].op \in {"intent", "integrate", "settle"} => core.node = "settle_wave"

\* The generation of the core has yet to integrate.
Unsettled ==
    \/ core.node \in {"routing_context", "prepare_wave", "task_wave"}
    \/ core.node = "settle_wave" /\ call["core"].op # "settle"

\* The generations that may have integrated: a generation integrates once.
Integrating ==
    IF core.node = "ended" THEN core.launcher * MaxGenerations
    ELSE (core.launcher - 1) * MaxGenerations
         + (IF Unsettled THEN core.generation - 1 ELSE core.generation)
IntegratesOnce == Cardinality(results) <= Integrating

\* What the refinement adds to LoopInv.
RefInv == /\ UnpaidUntilClosed /\ TriedHasWave /\ WaveHasLauncher /\ CoreHasLauncher
          /\ SettlesThere /\ IntegratesOnce

\* At first nothing was tried, started or integrated.
LEMMA RefInit == LoopInit => RefInv
<1> SUFFICES ASSUME LoopInit
             PROVE  RefInv
  OBVIOUS
<1>1. /\ att = [t \in Tasks |-> [e \in Execs |-> NoAttempt]] /\ count = [t \in Tasks |-> 0]
      /\ waves = <<>> /\ results = {} /\ call = [c \in Callers |-> Idle]
      /\ core.launcher = 0 /\ core.node = "ended"
  BY DEF LoopInit, Init, NoCore, Generation
<1>2. UnpaidUntilClosed /\ TriedHasWave /\ WaveHasLauncher
  BY <1>1 DEF Unpaid, UnpaidUntilClosed, NoAttempt, TriedHasWave, WaveHasLauncher
<1>3. CoreHasLauncher /\ SettlesThere
  BY <1>1, CallersAre DEF CoreHasLauncher, SettlesThere, Idle
<1>4. IntegratesOnce
  BY <1>1, FS_EmptySet, CeilingsAssumption DEF IntegratesOnce, Integrating
<1> QED
  BY <1>2, <1>3, <1>4 DEF RefInv

\* The attempt service sees the same graph and the same worktree.
SameSight == UNCHANGED <<tState, count, att, waves, results>>

\* What it sees of the graph depends on the tasks, the waves and the integrations.
LEMMA SightSame == ASSUME SameSight PROVE GraphView' = GraphView
  BY DEF SameSight, GraphView, FallbackTasks, FollowsFailure, ExhaustedTasks, AllIntegrated,
         CumulativeTokens

\* It does not notice a step that leaves these and its own state alone.
LEMMA Stutters ==
  ASSUME SameSight, UNCHANGED <<dState, outer, fixes>>
  PROVE  UNCHANGED A!vars
<1>1. GraphView' = GraphView /\ Fingerprint' = Fingerprint
  BY SightSame DEF SameSight, Fingerprint
<1>2. /\ dState' = dState /\ attempts' = attempts /\ lapsed' = lapsed
      /\ launchers' = launchers /\ lock' = lock
  BY DEF outer
<1> HIDE DEF GraphView, Fingerprint
<1> QED
  BY <1>1, <1>2 DEF A!vars

\* A launcher that began has begun.
LaunchersStay ==
    \A i \in DOMAIN launchers :
        /\ i \in DOMAIN launchers'
        /\ launchers[i].status # "sent" => launchers'[i].status # "sent"

\* The count of integrations has room for one generation more, ...
LEMMA NextRoom ==
  ASSUME NEW l \in Nat, NEW g \in 1..MaxGenerations
  PROVE  /\ (l - 1) * MaxGenerations \in Int /\ l * MaxGenerations \in Nat
         /\ (l - 1) * MaxGenerations + g <= l * MaxGenerations
  BY CeilingsAssumption

\* ... so whatever the core does without integrating leaves room.
CoreGoesOn ==
    /\ core'.launcher = core.launcher
    /\ \/ core'.node = "ended"
       \/ core.node # "ended" /\ core'.generation = core.generation /\ (Unsettled' => Unsettled)
       \/ core.node # "ended" /\ core'.generation = core.generation + 1

\* The integrations stay below those that may have been made.
LEMMA RoomStays ==
  ASSUME core \in Core, core' \in Core, IntegratesOnce, IsFiniteSet(results), results' = results,
         CoreGoesOn
  PROVE  IntegratesOnce'
<1>1. /\ core.launcher \in Nat /\ core.generation \in 1..MaxGenerations
      /\ core'.generation \in 1..MaxGenerations
  BY CeilingsAssumption DEF Core
<1>2. Cardinality(results) \in Nat
  BY FS_CardinalityType
<1>3. PICK room : room = core.launcher * MaxGenerations
  OBVIOUS
<1>4. PICK past : past = (core.launcher - 1) * MaxGenerations
  OBVIOUS
<1>5. /\ room \in Nat /\ past \in Int
      /\ past + core.generation <= room /\ past + core'.generation <= room
  BY <1>1, <1>3, <1>4, NextRoom
<1>6. Integrating = IF core.node = "ended" THEN room
                    ELSE past + (IF Unsettled THEN core.generation - 1 ELSE core.generation)
  BY <1>3, <1>4 DEF Integrating
<1>7. Integrating' = IF core'.node = "ended" THEN room
                     ELSE past + (IF Unsettled' THEN core'.generation - 1 ELSE core'.generation)
  BY <1>3, <1>4 DEF Integrating, CoreGoesOn
<1> HIDE DEF Integrating, Unsettled
<1>8. Integrating <= Integrating'
  BY <1>1, <1>5, <1>6, <1>7 DEF CoreGoesOn
<1>9. Integrating \in Int /\ Integrating' \in Int
  BY <1>1, <1>5, <1>6, <1>7
<1> QED
  BY <1>2, <1>8, <1>9 DEF IntegratesOnce

\* RefInv is kept by a step the attempt service does not see the graph move in.
LEMMA RefQuiet ==
  ASSUME RefInv, SameSight, LaunchersStay, CoreHasLauncher', SettlesThere', IntegratesOnce'
  PROVE  RefInv'
<1>1. UnpaidUntilClosed' /\ TriedHasWave'
  BY DEF RefInv, SameSight, Unpaid, UnpaidUntilClosed, TriedHasWave
<1>2. SomeLauncher => SomeLauncher'
  BY DEF SomeLauncher, LaunchersStay
<1>3. WaveHasLauncher'
  BY <1>2 DEF RefInv, SameSight, WaveHasLauncher
<1> QED
  BY <1>1, <1>3 DEF RefInv

\* What a step of the delivery is to DeliveryAttempts.
Implements == A!Next \/ UNCHANGED A!vars

\* The launchers the core may name.
LEMMA CoreNamesLauncher ==
  ASSUME LoopInv, core.launcher # 0
  PROVE  core.launcher \in DOMAIN launchers
<1>1. LastLauncher \in Nat /\ DOMAIN launchers = 1..LastLauncher
  BY DEF LoopInv, OuterInv, LoopShape, LastLauncher
<1>2. core.launcher \in 0..LastLauncher
  BY DEF LoopInv, OuterInv, LauncherInv
<1> QED
  BY <1>1, <1>2

\* RefInv is kept while the core stands still.
LEMMA RefRests ==
  ASSUME LoopInv, RefInv, SameSight, LaunchersStay, core' = core, call'["core"] = call["core"]
  PROVE  RefInv'
<1>1. CoreHasLauncher'
  BY CoreNamesLauncher DEF RefInv, CoreHasLauncher, LaunchersStay
<1>2. SettlesThere'
  BY DEF RefInv, SettlesThere
<1>3. IntegratesOnce'
  BY DEF RefInv, IntegratesOnce, Integrating, Unsettled, SameSight
<1> QED
  BY <1>1, <1>2, <1>3, RefQuiet

\* The attempt service and the clocks: the steps are those of DeliveryAttempts.
LEMMA OutsideSight ==
  ASSUME UNCHANGED inner
  PROVE  SameSight /\ call' = call
  BY DEF inner, SameSight, git

\* An attempt is planned and its launcher sent, or the delivery is exhausted.
LEMMA StartsImplement ==
  ASSUME LoopInv, RefInv, Starts
  PROVE  RefInv' /\ Implements
<1>1. UNCHANGED <<inner, core>> /\ LastLauncher \in 0..Len(launchers) /\ launchers \in Seq(A!Run)
  BY DEF Starts, Outside, LastLauncher, LoopInv, OuterInv, LoopShape
<1>2. Implements
  BY <1>1 DEF Starts, Implements, A!Next
<1>3. launchers' = launchers \/ launchers' = Append(launchers, A!Sent(A!Latest))
  BY DEF Starts, A!Plan, A!Send, A!StartReturns, A!Exhaust
<1>4. LaunchersStay
  BY <1>1, <1>3 DEF LaunchersStay
<1> QED
  BY <1>1, <1>2, <1>4, OutsideSight, RefRests

\* The core of a new launcher finds what the cores before it left.
LEMMA LauncherStartsImplement ==
  ASSUME LoopInv, LoopInv', RefInv, NEW i \in DOMAIN launchers, LauncherStarts(i)
  PROVE  RefInv' /\ Implements
<1>1. /\ UNCHANGED inner /\ core' = Generation(i, 1) /\ A!RunCreated(i)
      /\ launchers[i].status = "sent"
      /\ launchers' = [launchers EXCEPT ![i] = [@ EXCEPT !.status = "running"]]
  BY DEF LauncherStarts, A!RunCreated
<1>2. Implements
  BY <1>1 DEF Implements, A!Next
<1>3. launchers[i] \in A!Run /\ i \in Nat \ {0} /\ launchers \in Seq(A!Run)
  BY DEF LoopInv, OuterInv, LoopShape
<1>4. launchers'[i].status = "running" /\ \A j \in DOMAIN launchers : j # i => launchers'[j] = launchers[j]
  BY <1>1, <1>3 DEF A!Run
<1>5. LaunchersStay
  BY <1>1, <1>4 DEF LaunchersStay
<1>6. core'.launcher = i /\ core'.node = "routing_context" /\ core'.generation = 1
  BY <1>1 DEF Generation
<1>7. i = LastLauncher /\ Starting
  BY <1>1 DEF LoopInv, OuterInv, LauncherInv
<1>8. core.launcher \in 0..LastLauncher /\ core.launcher # i
  BY <1>1, <1>3 DEF LoopInv, OuterInv, LauncherInv, RefInv, CoreHasLauncher
<1>9. core.node = "ended"
  BY <1>7, <1>8 DEF LoopInv, OuterInv, CoreInv
<1>10. SettlesThere'
  <2>1. call' = call
    BY <1>1, OutsideSight
  <2> QED
    BY <1>9, <2>1 DEF RefInv, SettlesThere
<1>11. IntegratesOnce'
  <2>1. Cardinality(results) \in Nat /\ results' = results
    BY <1>1, OutsideSight, FS_CardinalityType DEF LoopInv, GraphInv, GraphShape, SameSight
  <2>2. Cardinality(results) <= core.launcher * MaxGenerations
    BY <1>9 DEF RefInv, IntegratesOnce, Integrating
  <2>3. Integrating' = (i - 1) * MaxGenerations + 0
    BY <1>6 DEF Integrating, Unsettled
  <2>4. PICK l : l = core.launcher
    OBVIOUS
  <2>5. l \in Nat /\ i \in Nat /\ l <= i - 1
    BY <1>3, <1>7, <1>8, <2>4 DEF LastLauncher
  <2>6. PICK m \in Nat : m = MaxGenerations
    BY CeilingsAssumption
  <2>7. l * m <= (i - 1) * m
    <3>1. PICK d \in Nat : d = (i - 1) - l
      BY <2>5
    <3>2. (i - 1) * m = l * m + d * m /\ d * m >= 0 /\ l * m \in Nat /\ d * m \in Nat
      BY <2>5, <3>1
    <3> QED
      BY <3>2
  <2>8. l * m \in Nat /\ (i - 1) * m \in Nat
    BY <2>5
  <2> QED
    BY <2>1, <2>2, <2>3, <2>4, <2>6, <2>7, <2>8 DEF IntegratesOnce
<1>12. CoreHasLauncher'
  BY <1>4, <1>6 DEF CoreHasLauncher
<1> QED
  BY <1>1, <1>2, <1>5, <1>10, <1>11, <1>12, OutsideSight, RefQuiet

\* A launcher that ends has begun.
LEMMA EndedStay ==
  ASSUME LoopInv, NEW i \in DOMAIN launchers, NEW status, NEW evidence,
         A!RunEnds(i, status, evidence, 0)
  PROVE  LaunchersStay
<1>1. launchers[i] \in A!Run /\ launchers \in Seq(A!Run)
  BY DEF LoopInv, OuterInv, LoopShape
<1>2. PICK e : launchers' = [launchers EXCEPT ![i] = [@ EXCEPT !.status = "ended", !.review = 0,
                                                           !.evidence = e]]
  BY DEF A!RunEnds
<1>3. launchers'[i].status = "ended" /\ \A j \in DOMAIN launchers : j # i => launchers'[j] = launchers[j]
  BY <1>1, <1>2 DEF A!Run
<1> QED
  BY <1>2, <1>3 DEF LaunchersStay

\* It ends with the evidence its core left.
LEMMA LauncherEndsImplements ==
  ASSUME LoopInv, RefInv, LauncherEnds
  PROVE  RefInv' /\ Implements
<1>1. PICK status \in {"done", "failed"} :
         A!RunEnds(core.launcher, status, core.status, 0)
  BY DEF LauncherEnds
<1>2. core.launcher \in DOMAIN launchers /\ UNCHANGED <<inner, core>>
  BY CoreNamesLauncher DEF LauncherEnds
<1>3. core.status \in A!Terminal \cup {"none"} /\ status \in A!Terminal
  BY <1>1 DEF LoopInv, OuterInv, LoopShape, Core, Terminal, A!Terminal
<1>4. 0 \in 0..(NTasks * MaxExec * MaxUse)
  BY SizesAssumption
<1>5. Implements
  BY <1>1, <1>2, <1>3, <1>4 DEF Implements, A!Next
<1>6. LaunchersStay
  BY <1>1, <1>2, EndedStay
<1> QED
  BY <1>2, <1>5, <1>6, OutsideSight, RefRests

\* The attempt is settled from it.
LEMMA ReconcilesImplement ==
  ASSUME LoopInv, RefInv, Reconciles
  PROVE  RefInv' /\ Implements
<1>1. UNCHANGED <<inner, core, launchers>> /\ A!Reconcile
  BY DEF Reconciles, Outside, A!Reconcile
<1>2. LaunchersStay
  BY <1>1 DEF LaunchersStay
<1> QED
  BY <1>1, <1>2, OutsideSight, RefRests DEF Implements, A!Next

\* The deadline passes.
LEMMA DeadlineImplements ==
  ASSUME LoopInv, RefInv, DeadlinePasses
  PROVE  RefInv' /\ Implements
<1>1. UNCHANGED <<inner, core, launchers>> /\ A!DeadlinePasses
  BY DEF DeadlinePasses, Outside, A!DeadlinePasses
<1>2. LaunchersStay
  BY <1>1 DEF LaunchersStay
<1> QED
  BY <1>1, <1>2, OutsideSight, RefRests DEF Implements, A!Next

-----------------------------------------------------------------------------
(* The core around the graph *)

\* A core goes on when it goes round, ends or moves on.
LEMMA RoundGoesOn ==
  ASSUME core.node # "ended", GoesRound
  PROVE  CoreGoesOn
<1>1. CASE core.generation < MaxGenerations
  BY <1>1 DEF GoesRound, Generation, CoreGoesOn
<1>2. CASE ~(core.generation < MaxGenerations)
  BY <1>2 DEF GoesRound, Ends, Generation, CoreGoesOn
<1> QED
  BY <1>1, <1>2

\* It ends.
LEMMA EndGoesOn ==
  ASSUME NEW status, Ends(status)
  PROVE  CoreGoesOn /\ core'.node = "ended"
  BY DEF Ends, Generation, CoreGoesOn

\* It moves on to a node, none that is yet to integrate again.
LEMMA MoveGoesOn ==
  ASSUME core \in Core, core.node # "ended", NEW node, Moves(node), Unsettled' => Unsettled
  PROVE  CoreGoesOn /\ core'.node = node
  BY DEF Moves, Core, CoreGoesOn

\* The graph outside the operations that commit to it.
LEMMA JournalSight ==
  ASSUME UNCHANGED <<journal, git>>
  PROVE  SameSight /\ dState' = dState
  BY DEF journal, git, SameSight

\* A step that leaves all the variables of the graph alone.
LEMMA VarsSight ==
  ASSUME UNCHANGED vars
  PROVE  SameSight /\ dState' = dState /\ call' = call
  BY DEF vars, journal, git, SameSight

\* The operations that settle a wave.
Settling == {"intent", "integrate", "settle"}

\* What the core does at other nodes than settle_wave without moving the graph.
LEMMA RefElsewhere ==
  ASSUME LoopInv, LoopInv', RefInv, core.node # "settle_wave", SameSight, LaunchersStay, CoreGoesOn,
         call'["core"] = call["core"] \/ call'["core"].op \notin Settling
  PROVE  RefInv'
<1>1. core \in Core /\ core' \in Core /\ IsFiniteSet(results) /\ results' = results
  BY DEF LoopInv, OuterInv, LoopShape, GraphInv, GraphShape, SameSight
<1>2. IntegratesOnce'
  BY <1>1, RoomStays DEF RefInv
<1>3. SettlesThere'
  BY DEF RefInv, SettlesThere, Settling
<1>4. CoreHasLauncher'
  BY CoreNamesLauncher DEF RefInv, CoreHasLauncher, LaunchersStay, CoreGoesOn
<1> QED
  BY <1>2, <1>3, <1>4, RefQuiet

\* What such a step leaves alone is nothing to the attempt service.
LEMMA CoreImplements ==
  ASSUME LoopInv, LoopInv', RefInv, core.node \notin {"settle_wave", "ended"},
         SameSight, UNCHANGED <<dState, outer, fixes>>, CoreGoesOn,
         call'["core"] = call["core"] \/ call'["core"].op \notin Settling
  PROVE  RefInv' /\ Implements
<1>1. launchers' = launchers
  BY DEF outer
<1>2. LaunchersStay
  BY <1>1 DEF LaunchersStay
<1> QED
  BY <1>2, RefElsewhere, Stutters DEF Implements

\* The core at its node has the shape of a core.
LEMMA CoreIs == ASSUME LoopInv PROVE core \in Core /\ call \in [Callers -> Call]
  BY DEF LoopInv, OuterInv, LoopShape, GraphInv, GraphShape

\* A call that returned settles nothing.
LEMMA ReturnsIdle ==
  ASSUME LoopInv, Returns("core")
  PROVE  call'["core"] = Idle /\ call'["core"].op \notin Settling
  BY CoreIs, CallersAre DEF Returns, Idle, Settling

\* A call that goes on is what the core holds.
LEMMA HoldsOp ==
  ASSUME LoopInv, NEW record, Holds("core", record)
  PROVE  call'["core"] = record
  BY CoreIs, CallersAre DEF Holds

\* routing_context reads only.
LEMMA RoutingImplements ==
  ASSUME LoopInv, LoopInv', RefInv, RoutingContext
  PROVE  RefInv' /\ Implements
<1>1. /\ core.node = "routing_context" /\ Moves("prepare_wave")
      /\ UNCHANGED <<vars, outer, end>>
  BY DEF RoutingContext
<1>2. CoreGoesOn
  BY <1>1, CoreIs, MoveGoesOn DEF Unsettled
<1> QED
  BY <1>1, <1>2, VarsSight, CoreImplements DEF end

\* prepare_wave answers with a wave, ...
LEMMA PrepareAnswersImplements ==
  ASSUME LoopInv, LoopInv', RefInv, PrepareAnswers
  PROVE  RefInv' /\ Implements
<1>1. /\ core.node = "prepare_wave" /\ PrepareReturn("core") /\ UNCHANGED <<outer, end>>
      /\ \/ GoesRound
         \/ \E w, items : core' = [core EXCEPT !.node = "task_wave", !.wave = w, !.items = items]
  BY DEF PrepareAnswers, CoreAt
<1>2. UNCHANGED <<journal, git>> /\ call'["core"].op \notin Settling
  <2>1. UNCHANGED <<journal, git>>
    BY <1>1 DEF PrepareReturn
  <2>2. Returns("core") \/ \E w, items : Holds("core", [Idle EXCEPT !.op = "children", !.wave = w, !.cands = items])
    BY <1>1 DEF PrepareReturn
  <2> QED
    BY <2>1, <2>2, ReturnsIdle, HoldsOp DEF Settling, Idle
<1>3. CoreGoesOn
  <2>1. CASE GoesRound
    BY <1>1, <2>1, RoundGoesOn
  <2>2. ASSUME NEW w, NEW items,
               core' = [core EXCEPT !.node = "task_wave", !.wave = w, !.items = items]
        PROVE  CoreGoesOn
    BY <1>1, <2>2, CoreIs DEF CoreGoesOn, Core, Unsettled
  <2> QED
    BY <1>1, <2>1, <2>2
<1> QED
  BY <1>1, <1>2, <1>3, JournalSight, CoreImplements DEF end

\* ... or without one.
LEMMA PreparedNothingImplements ==
  ASSUME LoopInv, LoopInv', RefInv, PrepareExhausted \/ PrepareAllIntegrated
  PROVE  RefInv' /\ Implements
<1>1. /\ core.node = "prepare_wave" /\ Returns("core") /\ UNCHANGED <<journal, git, outer, end>>
      /\ Moves("terminal_exhausted") \/ Moves("delivery_budget_context")
  BY DEF PrepareExhausted, PrepareAllIntegrated, PreparedNothing, CoreAt, PublishesWhenIntegrated
<1>2. CoreGoesOn
  BY <1>1, CoreIs, MoveGoesOn DEF Unsettled
<1> QED
  BY <1>1, <1>2, JournalSight, CoreImplements, ReturnsIdle DEF end

\* The fan-out: cells start, record, fail and are collected.
LEMMA CellsImplement ==
  ASSUME LoopInv, LoopInv', RefInv,
         CellStarts \/ Collects \/ \E x \in Commit : CellRecords(x) \/ CellFails(x)
  PROVE  RefInv' /\ Implements
<1>1. core.node = "task_wave" /\ UNCHANGED <<outer, end>>
  BY DEF CellStarts, Collects, CellRecords, CellFails, CoreAt, GraphOnly
<1>2. core' = core => CoreGoesOn
  BY <1>1 DEF CoreGoesOn, Unsettled
<1>3. CASE CellStarts
  <2>1. PICK x \in Commit, k \in 1..MaxCopies : StartChild("core", x, k)
    BY <1>3 DEF CellStarts
  <2>2. UNCHANGED <<journal, git>> /\ core' = core
    BY <1>3, <2>1 DEF StartChild, CellStarts, GraphOnly
  <2>3. call["core"].op = "children" /\ (Returns("core") \/ \E left : Holds("core", [call["core"] EXCEPT !.cands = left]))
    BY <2>1 DEF StartChild
  <2>4. call'["core"].op \notin Settling
    <3>1. call["core"] \in Call
      BY CoreIs, CallersAre
    <3> QED
      BY <2>3, <3>1, ReturnsIdle, HoldsOp DEF Settling, Call
  <2> QED
    BY <1>1, <1>2, <2>2, <2>4, JournalSight, CoreImplements DEF end
<1>4. CASE Collects
  <2>1. UNCHANGED vars /\ (Ends("failed") \/ Moves("settle_wave"))
    BY <1>4 DEF Collects
  <2>2. Unsettled /\ core.node # "ended"
    BY <1>1 DEF Unsettled
  <2>3. CoreGoesOn
    BY <2>1, <2>2, CoreIs, EndGoesOn, MoveGoesOn
  <2> QED
    BY <1>1, <2>1, <2>3, VarsSight, CoreImplements DEF end
<1>5. ASSUME NEW x \in Commit, CellRecords(x)
      PROVE  RefInv' /\ Implements
  <2>1. PICK record : /\ Holds("core", record)
                      /\ record.op \in CandidateParts /\ record.task = x[1]
    BY <1>5, CellReads
  <2>2. UNCHANGED <<journal, git>> /\ core' = core
    <3>1. core' = core
      BY <1>5 DEF CellRecords, GraphOnly
    <3> QED
      BY <1>5, <3>1, CellReads
  <2>4. call'["core"].op \notin Settling
    BY <2>1, HoldsOp DEF Settling, CandidateParts
  <2> QED
    BY <1>1, <1>2, <2>2, <2>4, JournalSight, CoreImplements DEF end
<1>6. ASSUME NEW x \in Commit, CellFails(x)
      PROVE  RefInv' /\ Implements
  <2>1. UNCHANGED <<journal, git>> /\ Returns("core")
        /\ core' = [core EXCEPT !.items = @ \ {x}, !.failed = TRUE]
    BY <1>6 DEF CellFails
  <2>2. CoreGoesOn
    BY <1>1, <2>1, CoreIs DEF CoreGoesOn, Core, Unsettled
  <2> QED
    BY <1>1, <2>1, <2>2, JournalSight, CoreImplements, ReturnsIdle DEF end
<1> QED
  BY <1>3, <1>4, <1>5, <1>6

\* The integrations of a core at work are below those its launcher may make.
LEMMA RoomLeft ==
  ASSUME LoopInv, RefInv, core.node # "ended"
  PROVE  /\ Cardinality(results) \in Nat
         /\ Unsettled => Cardinality(results) < AttemptCeiling * MaxGenerations
         /\ Cardinality(results) <= AttemptCeiling * MaxGenerations
         /\ AttemptCeiling * (MaxGenerations + 1) = AttemptCeiling * MaxGenerations + AttemptCeiling
         /\ AttemptCeiling * MaxGenerations \in Nat
<1>1. Cardinality(results) \in Nat
  BY FS_CardinalityType DEF LoopInv, GraphInv, GraphShape
<1>2. core.launcher \in 0..AttemptCeiling /\ core.generation \in 1..MaxGenerations
  BY CoreIs DEF Core
<1>3. PICK l \in Nat, g \in 1..MaxGenerations : l = core.launcher /\ g = core.generation
  BY <1>2, CeilingsAssumption
<1>4. Cardinality(results) <= (l - 1) * MaxGenerations + (IF Unsettled THEN g - 1 ELSE g)
  BY <1>3 DEF RefInv, IntegratesOnce, Integrating
<1>5. PICK a \in Nat, m \in Nat : a = AttemptCeiling /\ m = MaxGenerations
  BY CeilingsAssumption
<1>6. l * m <= a * m /\ a * m \in Nat /\ a * (m + 1) = a * m + a
  <2>1. PICK d \in Nat : d = a - l
    BY <1>2, <1>3, <1>5
  <2>2. a = l + d
    BY <2>1, <1>3, <1>5
  <2>3. (l + d) * m = l * m + d * m /\ l * m \in Nat /\ d * m \in Nat
    BY <1>3, <1>5, <2>1
  <2>4. a * (m + 1) = a * m + a /\ a * m \in Nat
    BY <1>5
  <2>5. l * m <= (l + d) * m
    BY <1>3, <1>5, <2>1, <2>3
  <2> QED
    BY <2>2, <2>4, <2>5
<1>7. (l - 1) * m \in Int /\ (l - 1) * m + g <= l * m
  BY <1>3, <1>5, NextRoom
<1> HIDE DEF Unsettled
<1> QED
  BY <1>1, <1>3, <1>4, <1>5, <1>6, <1>7

\* An integration and a committing review are the work of the last launcher.
LEMMA WorkImplements ==
  ASSUME LoopInv, core.node # "ended", Fingerprint < AttemptCeiling * (MaxGenerations + 1),
         Fingerprint' = Fingerprint + 1, GraphView' = GraphView, UNCHANGED <<dState, outer>>
  PROVE  Implements
<1>1. /\ LastLauncher \in DOMAIN launchers
      /\ launchers[LastLauncher].status = "running"
  BY AtWork DEF LoopInv, OuterInv, LoopShape, LastLauncher
<1> HIDE DEF Fingerprint, GraphView
<1>2. A!RunWorks(LastLauncher)
  BY <1>1 DEF A!RunWorks, outer
<1> QED
  BY <1>1, <1>2 DEF Implements, A!Next

\* settle_wave integrates once: the one step of it that changes the worktree.
LEMMA CoreSettlesImplements ==
  ASSUME LoopInv, LoopInv', RefInv, CoreSettles
  PROVE  RefInv' /\ Implements
<1>1. core.node = "settle_wave" /\ UNCHANGED <<outer, end, core>>
  BY DEF CoreSettles, CoreAt, GraphOnly
<1>2. /\ LaunchersStay /\ CoreHasLauncher' /\ SettlesThere' /\ fixes' = fixes
      /\ call["core"].op # "settle" => Unsettled
  BY <1>1 DEF LaunchersStay, outer, RefInv, CoreHasLauncher, SettlesThere, end, Unsettled
<1>3. CASE \/ SettleResume("core", core.wave) \/ SettleLoad("core", core.wave)
           \/ SettleIntent("core") \/ IntegrateReplay("core")
  <2>1. SameSight /\ dState' = dState /\ call["core"].op # "settle"
    <3>1. CASE SettleResume("core", core.wave)
      BY <3>1, JournalSight DEF SettleResume, Begins, Idle
    <3>2. CASE SettleLoad("core", core.wave)
      BY <3>2, JournalSight DEF SettleLoad, Begins, Idle
    <3>3. CASE SettleIntent("core")
      BY <3>3 DEF SettleIntent, git, SameSight
    <3>4. CASE IntegrateReplay("core")
      BY <3>4, JournalSight DEF IntegrateReplay
    <3> QED
      BY <1>3, <3>1, <3>2, <3>3, <3>4
  <2>2. CoreGoesOn
    BY <1>1, <1>2, <2>1 DEF CoreGoesOn
  <2>3. IntegratesOnce'
    BY <1>1, <2>1, <2>2, RoomStays, CoreIs DEF RefInv, LoopInv, GraphInv, GraphShape, SameSight
  <2> QED
    BY <1>1, <1>2, <2>1, <2>3, RefQuiet, Stutters DEF Implements
<1>4. ASSUME NEW conflict \in 0..NTasks, Integrate("core", conflict)
      PROVE  RefInv' /\ Implements
  <2>1. call["core"].op = "integrate" /\ call'["core"].op = "settle"
    <3>1. Holds("core", [call["core"] EXCEPT !.op = "settle"]) /\ call["core"] \in Call
      BY <1>4, CoreIs, CallersAre DEF Integrate
    <3> QED
      BY <1>4, <3>1, HoldsOp DEF Integrate, Call
  <2>2. /\ UNCHANGED <<tState, count, att, waves, dState>>
        /\ \E r : r \notin results /\ results' = results \cup {r}
    BY <1>4 DEF Integrate, journal
  <2>3. /\ IsFiniteSet(results)
        /\ Cardinality(results') = Cardinality(results) + 1
    <3>1. IsFiniteSet(results)
      BY DEF LoopInv, GraphInv, GraphShape
    <3> QED
      BY <2>2, <3>1, FS_AddElement
  <2>4. Unsettled /\ ~Unsettled'
    BY <1>1, <2>1 DEF Unsettled
  <2>5. IntegratesOnce'
    <3>1. core.generation \in 1..MaxGenerations /\ core.launcher \in 0..AttemptCeiling
      BY CoreIs DEF Core
    <3>2. PICK past : past = (core.launcher - 1) * MaxGenerations
      OBVIOUS
    <3>3. past \in Int
      BY <3>1, <3>2, CeilingsAssumption
    <3>4. Integrating = past + (core.generation - 1) /\ Integrating' = past + core.generation
      BY <1>1, <2>4, <3>2 DEF Integrating
    <3>5. Cardinality(results) \in Nat
      BY <2>3, FS_CardinalityType
    <3> QED
      BY <2>3, <3>1, <3>3, <3>4, <3>5 DEF RefInv, IntegratesOnce
  <2>6. RefInv'
    <3>1. UnpaidUntilClosed' /\ TriedHasWave' /\ WaveHasLauncher'
      BY <1>1, <2>2 DEF RefInv, Unpaid, UnpaidUntilClosed, TriedHasWave, WaveHasLauncher, SomeLauncher, outer
    <3> QED
      BY <1>2, <2>5, <3>1 DEF RefInv
  <2>7. fixes = 0 /\ Fingerprint < AttemptCeiling * (MaxGenerations + 1)
    <3>1. fixes = 0
      BY <1>1 DEF LoopInv, OuterInv, LoopShape, ReviewInv, EarlyNodes
    <3>2. /\ Cardinality(results) \in Nat
          /\ Cardinality(results) < AttemptCeiling * MaxGenerations
          /\ AttemptCeiling * (MaxGenerations + 1) = AttemptCeiling * MaxGenerations + AttemptCeiling
          /\ AttemptCeiling * MaxGenerations \in Nat
      BY <1>1, <2>4, RoomLeft
    <3> QED
      BY <3>1, <3>2, CeilingsAssumption DEF Fingerprint
  <2>8. GraphView' = GraphView
    BY <2>2 DEF GraphView, FallbackTasks, FollowsFailure, ExhaustedTasks, AllIntegrated, CumulativeTokens
  <2>9. Fingerprint' = Fingerprint + 1
    <3>1. Cardinality(results) \in Nat
      BY <2>3, FS_CardinalityType
    <3> QED
      BY <1>2, <2>3, <2>7, <3>1 DEF Fingerprint
  <2>10. Implements
    BY <1>1, <2>2, <2>7, <2>8, <2>9, WorkImplements
  <2> QED
    BY <2>6, <2>10
<1> QED
  BY <1>3, <1>4 DEF CoreSettles

\* The nodes after the settlements.
LEMMA LateImplement ==
  ASSUME LoopInv, LoopInv', RefInv,
         \/ BudgetContext \/ ReviewEnds(0) \/ PublicationPlan \/ PublicationVerify
         \/ \E kept \in BOOLEAN : Cleanup(kept)
  PROVE  RefInv' /\ Implements
<1>1. /\ core.node \in {"delivery_budget_context", "review", "publication_plan",
                        "publication_verify", "cleanup"}
      /\ UNCHANGED <<tState, count, att, waves, results, dState, call, outer>>
      /\ fixes' = fixes \/ fixes' = fixes + 0
      /\ \/ \E node \in CoreNodes \ {"routing_context", "prepare_wave", "task_wave", "settle_wave"} :
              Moves(node)
         \/ Ends("done")
  <2>1. CASE BudgetContext \/ PublicationPlan \/ PublicationVerify \/ ReviewEnds(0)
    BY <2>1 DEF BudgetContext, PublicationPlan, PublicationVerify, ReviewEnds, vars, journal, git, end, CoreNodes
  <2>2. ASSUME NEW kept \in BOOLEAN, Cleanup(kept)
        PROVE  <1>1!:
    BY <2>2 DEF Cleanup, CoreAt, vars, journal, git, CoreNodes
  <2> QED
    BY <2>1, <2>2
<1>2. fixes' = fixes
  BY <1>1 DEF LoopInv, OuterInv, LoopShape
<1>3. CoreGoesOn
  BY <1>1, CoreIs, MoveGoesOn, EndGoesOn DEF Unsettled, Moves, Core
<1> QED
  BY <1>1, <1>2, <1>3, CoreImplements DEF SameSight

\* A review that commits changes the worktree.
LEMMA ReviewImplements ==
  ASSUME LoopInv, LoopInv', RefInv, ReviewEnds(1)
  PROVE  RefInv' /\ Implements
<1>1. /\ core.node = "review" /\ Moves("publication_plan") /\ fixes' = fixes + 1
      /\ SameSight /\ UNCHANGED <<dState, call, outer>>
  BY DEF ReviewEnds, journal, SameSight
<1>2. LaunchersStay /\ CoreGoesOn
  BY <1>1, CoreIs, MoveGoesOn DEF LaunchersStay, outer, Unsettled, Moves, Core
<1>3. RefInv'
  BY <1>1, <1>2, RefElsewhere
<1>4. fixes = 0
  BY <1>1 DEF LoopInv, ReviewInv
<1>5. Fingerprint \in Nat /\ Fingerprint < AttemptCeiling * (MaxGenerations + 1)
  <2>1. /\ Cardinality(results) \in Nat
        /\ Cardinality(results) <= AttemptCeiling * MaxGenerations
        /\ AttemptCeiling * (MaxGenerations + 1) = AttemptCeiling * MaxGenerations + AttemptCeiling
        /\ AttemptCeiling * MaxGenerations \in Nat
    BY <1>1, RoomLeft
  <2> QED
    BY <1>4, <2>1, CeilingsAssumption DEF Fingerprint
<1>6. Fingerprint' = Fingerprint + 1
  <2>1. results' = results /\ fixes' = 1 /\ Cardinality(results) \in Nat
    BY <1>1, <1>4, RoomLeft DEF SameSight
  <2> QED
    BY <1>4, <2>1 DEF Fingerprint
<1>7. Implements
  BY <1>1, <1>5, <1>6, SightSame, WorkImplements
<1> QED
  BY <1>3, <1>7

\* A terminal node closes the delivery as terminalize does.
LEMMA TerminalizesImplements ==
  ASSUME LoopInv, LoopInv', RefInv, CoreTerminalizes
  PROVE  RefInv' /\ Implements
<1>1. core.node \in {"terminal_exhausted", "terminal_blocked_publication", "terminal_blocked_cleanup"}
  BY DEF CoreTerminalizes
<1>2. /\ lock = A!Free /\ Ends("failed") /\ UNCHANGED <<outer, end>> /\ dState = "active"
      /\ UNCHANGED <<tState, count, att, waves, results, call>>
      /\ dState' \in {"exhausted", "blocked"}
  BY <1>1, AtWork DEF CoreTerminalizes, Terminalize, git, inner
<1>3. LaunchersStay /\ CoreGoesOn /\ SameSight
  BY <1>2, EndGoesOn DEF LaunchersStay, outer, SameSight
<1>4. RefInv'
  BY <1>1, <1>2, <1>3, RefElsewhere
<1>5. GraphView' = GraphView /\ Fingerprint' = Fingerprint
  BY <1>2, <1>3, SightSame DEF Fingerprint, end
<1> HIDE DEF Fingerprint, GraphView
<1>6. A!Terminalize(dState')
  BY <1>2, <1>5 DEF A!Terminalize, outer
<1> QED
  BY <1>2, <1>4, <1>6 DEF Implements, A!Next

\* A core that ends takes its call with it.
LEMMA StopsImplement ==
  ASSUME LoopInv, LoopInv', RefInv, CoreFails \/ LauncherLost \/ \E status \in Stops : CoreStops(status)
  PROVE  RefInv' /\ Implements
<1>1. /\ core.node # "ended" /\ Returns("core") /\ UNCHANGED <<journal, git, end>>
      /\ \E status : Ends(status)
  BY DEF CoreFails, LauncherLost, CoreStops, Returns
<1>2. SameSight /\ dState' = dState /\ fixes' = fixes /\ CoreGoesOn /\ core'.node = "ended"
      /\ core'.launcher = core.launcher
  BY <1>1, JournalSight, EndGoesOn DEF end, CoreGoesOn
<1>3. SettlesThere'
  BY <1>1, ReturnsIdle DEF SettlesThere, Settling
<1>4. IntegratesOnce'
  BY <1>2, RoomStays, CoreIs DEF LoopInv, OuterInv, LoopShape, RefInv, GraphInv, GraphShape, SameSight
<1>5. CASE UNCHANGED outer
  <2>1. LaunchersStay
    BY <1>5 DEF LaunchersStay, outer
  <2>2. CoreHasLauncher'
    BY <1>2, <1>5 DEF RefInv, CoreHasLauncher, outer
  <2> QED
    BY <1>2, <1>3, <1>4, <1>5, <2>1, <2>2, RefQuiet, Stutters DEF Implements
<1>6. CASE LauncherLost
  <2>1. A!RunEnds(core.launcher, "stopped", "none", 0) /\ core.launcher \in DOMAIN launchers
    BY <1>1, <1>6, AtWork, CoreNamesLauncher DEF LauncherLost
  <2>2. LaunchersStay
    BY <2>1, EndedStay
  <2>3. CoreHasLauncher'
    BY <1>2, <2>1, <2>2 DEF RefInv, CoreHasLauncher, LaunchersStay
  <2>4. 0 \in 0..(NTasks * MaxExec * MaxUse) /\ "stopped" \in A!Terminal
    BY SizesAssumption DEF A!Terminal
  <2>5. Implements
    BY <2>1, <2>4 DEF Implements, A!Next
  <2> QED
    BY <1>2, <1>3, <1>4, <2>2, <2>3, <2>5, RefQuiet
<1> QED
  BY <1>5, <1>6 DEF CoreFails, CoreStops

-----------------------------------------------------------------------------
(* The operations that commit to the graph *)

\* The tokens only add up: what had used any was closed.
LEMMA UsedAdds ==
  ASSUME LoopInv, LoopInv', UnpaidUntilClosed, Good
  PROVE  CumulativeTokens' >= CumulativeTokens
<1>1. PICK f : f = [x \in Commit |-> att[x[1]][x[2]].used]
  OBVIOUS
<1>2. PICK h : h = [x \in Commit |-> att'[x[1]][x[2]].used]
  OBVIOUS
<1>3. IsFiniteSet(Commit)
  <2>1. IsFiniteSet(Tasks) /\ IsFiniteSet(Execs)
    BY SizesAssumption, FS_Interval DEF Tasks, Execs
  <2> QED
    BY <2>1, FS_Product DEF Commit
<1>4. \A x \in Commit : /\ x[1] \in Tasks /\ x[2] \in Execs
                        /\ att[x[1]][x[2]] \in Attempt /\ att'[x[1]][x[2]] \in Attempt
  BY DEF Commit, LoopInv, GraphInv, GraphShape
<1>5. f \in [Commit -> Nat] /\ h \in [Commit -> Nat]
  BY <1>1, <1>2, <1>4, SizesAssumption DEF Attempt
<1>6. ASSUME NEW x \in Commit
      PROVE  f[x] <= h[x]
  <2>1. Kept(att[x[1]][x[2]], att'[x[1]][x[2]])
    BY <1>4 DEF Good, HistoryKept
  <2>2. f[x] = att[x[1]][x[2]].used /\ h[x] = att'[x[1]][x[2]].used
    BY <1>1, <1>2
  <2>3. PICK a \in Attempt, b \in Attempt : a = att[x[1]][x[2]] /\ b = att'[x[1]][x[2]]
    BY <1>4
  <2>4. CASE a.state \in {"integrated", "blocked"}
    BY <1>5, <2>1, <2>2, <2>3, <2>4 DEF Kept
  <2>5. CASE a.state = "candidate"
    <3>1. [b EXCEPT !.state = a.state, !.conflict = a.conflict] = a
      BY <2>1, <2>3, <2>5 DEF Kept
    <3>2. b.used = a.used
      BY <3>1, <2>3 DEF Attempt
    <3> QED
      BY <1>5, <2>2, <2>3, <3>2
  <2>6. CASE a.state \notin {"candidate", "integrated", "blocked"}
    <3>1. a.used = 0
      BY <1>4, <2>3, <2>6 DEF Unpaid, UnpaidUntilClosed
    <3> QED
      BY <1>5, <2>2, <2>3, <3>1
  <2> QED
    BY <2>4, <2>5, <2>6
<1>7. Total(f) <= Total(h) /\ Total(f) \in Nat /\ Total(h) \in Nat
  BY <1>3, <1>5, <1>6, TotalLess, TotalType
<1>8. CumulativeTokens = Total(f) /\ CumulativeTokens' = Total(h)
  BY <1>1, <1>2 DEF CumulativeTokens
<1> QED
  BY <1>7, <1>8

\* A task that is blocked for good stays so.
LEMMA SpentStays ==
  ASSUME HistoryInv, Good, TasksMove, ExhaustedTasks # {}
  PROVE  ExhaustedTasks' # {}
<1>1. PICK t \in Tasks : /\ tState[t] = "blocked"
                         /\ count[t] >= MaxExec \/ att[t][count[t]].conflict # NoOperation
  BY DEF ExhaustedTasks
<1>2. count[t] # 0
  BY <1>1 DEF HistoryInv, HistorySound, TaskSound
<1>3. count[t] \in Execs /\ tState[t] = att[t][count[t]].state
  BY <1>2, LatestFacts DEF HistoryInv
<1>4. tState'[t] = tState[t] /\ count'[t] = count[t]
  BY <1>1 DEF TasksMove, TaskMoves
<1>5. PICK e \in Execs : e = count[t]
  BY <1>3
<1>6. att'[t][e] = att[t][e]
  <2>1. Kept(att[t][e], att'[t][e])
    BY DEF Good, HistoryKept
  <2> QED
    BY <1>1, <1>3, <1>5, <2>1 DEF Kept
<1>7. t \in ExhaustedTasks'
  BY <1>1, <1>4, <1>5, <1>6 DEF ExhaustedTasks
<1> QED
  BY <1>7

\* What it sees after a step is one too.
LEMMA NextViewIsGraph == LoopInv' => (GraphView \in A!Graph)'
  BY ViewIsGraph, PTL

\* A commit to the graph is a move DeliveryAttempts allows.
LEMMA MovesAllowed ==
  ASSUME LoopInv, LoopInv', RefInv, dState # "done", Good, TasksMove,
         lock = A!Free, ~AllIntegrated, waves' # <<>>, SomeLauncher,
         FallbackTasks' \subseteq FallbackTasks \/ dState = "active",
         UNCHANGED <<dState, outer, fixes, results>>
  PROVE  Implements
<1>1. HistoryInv
  BY DEF LoopInv, GraphInv
<1>2. PICK g \in A!Graph : g = GraphView'
  BY NextViewIsGraph
<1>3. /\ g.owned = (waves' # <<>>) /\ g.fallback = (FallbackTasks' # {})
      /\ g.spent = (ExhaustedTasks' # {}) /\ g.whole = AllIntegrated'
      /\ g.used = CumulativeTokens'
  BY <1>2 DEF GraphView
<1>4. /\ GraphView.fallback = (FallbackTasks # {}) /\ GraphView.spent = (ExhaustedTasks # {})
      /\ GraphView.whole = AllIntegrated /\ GraphView.used = CumulativeTokens
  BY DEF GraphView
<1>5. g.used >= GraphView.used
  BY <1>3, <1>4, UsedAdds DEF RefInv
<1>6. GraphView.spent => g.spent
  BY <1>1, <1>3, <1>4, SpentStays
<1>7. g.fallback => GraphView.fallback \/ dState = "active"
  BY <1>3, <1>4
<1>8. g.whole => ~g.fallback /\ ~g.spent
  BY <1>3 DEF AllIntegrated, FallbackTasks, ExhaustedTasks
<1>9. Fingerprint' = Fingerprint /\ UNCHANGED <<attempts, lapsed, launchers, lock>>
  BY DEF Fingerprint, outer
<1> HIDE DEF GraphView, Fingerprint, AllIntegrated, FallbackTasks
<1>10. A!GraphMoves(g)
  BY <1>2, <1>3, <1>4, <1>5, <1>6, <1>7, <1>8, <1>9 DEF A!GraphMoves, SomeLauncher
<1> QED
  BY <1>10 DEF Implements, A!Next

\* What a commit to the graph does for the refinement.
GraphAdvances ==
    /\ Good /\ TasksMove /\ ~AllIntegrated
    /\ UnpaidUntilClosed' /\ waves' # <<>>
    /\ FallbackTasks' \subseteq FallbackTasks \/ dState = "active"
    /\ UNCHANGED <<dState, results>>

\* Such a commit is a step of DeliveryAttempts.
LEMMA AdvanceImplements ==
  ASSUME LoopInv, LoopInv', RefInv, dState # "done", GraphAdvances, lock = A!Free, SomeLauncher,
         UNCHANGED <<outer, fixes>>, CoreHasLauncher', SettlesThere', IntegratesOnce'
  PROVE  RefInv' /\ Implements
<1>1. Implements
  BY MovesAllowed DEF GraphAdvances
<1>2. SomeLauncher'
  BY DEF SomeLauncher, outer
<1> QED
  BY <1>1, <1>2 DEF RefInv, GraphAdvances, TriedHasWave, WaveHasLauncher

\* The core settles or not as before, and its generation integrates nothing more.
LEMMA CoreAdvances ==
  ASSUME LoopInv, LoopInv', RefInv, core.node # "ended", lock = A!Free, GraphAdvances,
         UNCHANGED <<outer, fixes>>, CoreGoesOn, call'["core"].op \notin Settling
  PROVE  RefInv' /\ Implements
<1>1. /\ dState = "active" /\ core \in Core /\ core' \in Core /\ IsFiniteSet(results)
      /\ results' = results /\ launchers' = launchers
  BY AtWork DEF LoopInv, OuterInv, LoopShape, GraphInv, GraphShape, GraphAdvances, outer
<1>2. IntegratesOnce'
  BY <1>1, RoomStays DEF RefInv
<1>3. SettlesThere'
  BY DEF SettlesThere, Settling
<1>4. CoreHasLauncher'
  BY <1>1 DEF RefInv, CoreHasLauncher, CoreGoesOn
<1>5. SomeLauncher
  <2>1. LastLauncher \in DOMAIN launchers /\ launchers[LastLauncher].status = "running"
    BY AtWork DEF LoopInv, OuterInv, LoopShape, LastLauncher
  <2> QED
    BY <2>1 DEF SomeLauncher
<1> QED
  BY <1>1, <1>2, <1>3, <1>4, <1>5, AdvanceImplements

\* The attempts of one task change.
LEMMA OneUnpaid ==
  ASSUME UnpaidUntilClosed, att \in [Tasks -> [Execs -> Attempt]], NEW t \in Tasks, NEW h,
         att' = [att EXCEPT ![t] = h],
         Unpaid(h)
  PROVE  UnpaidUntilClosed'
<1>1. att'[t] = h /\ \A u \in Tasks : u # t => att'[u] = att[u]
  OBVIOUS
<1> QED
  BY <1>1 DEF UnpaidUntilClosed

\* The task whose attempt changes waits for no attempt after a failure.
LEMMA OneFallback ==
  ASSUME tState \in [Tasks -> TaskStates], count \in [Tasks -> 0..MaxExec],
         att \in [Tasks -> [Execs -> Attempt]], NEW t \in Tasks,
         tState'[t] # "preparing",
         \A u \in Tasks : u # t => /\ tState'[u] = tState[u] /\ count'[u] = count[u]
                                   /\ att'[u] = att[u]
  PROVE  FallbackTasks' \subseteq FallbackTasks
  BY DEF FallbackTasks, FollowsFailure

\* record_question, record_answer and record_candidate move one running or
\* waiting task.
LEMMA CommitAdvances ==
  ASSUME LoopInv, RefInv, dState # "done", NEW c \in Callers,
         QuestionCommit(c) \/ AnswerCommit(c) \/ CandidateCommit(c)
  PROVE  GraphAdvances /\ waves # <<>>
<1>1. /\ HistoryInv /\ TypeOK /\ tState \in [Tasks -> TaskStates]
      /\ count \in [Tasks -> 0..MaxExec] /\ att \in [Tasks -> [Execs -> Attempt]]
      /\ HistorySound /\ CallsNameAttempts
  BY DEF LoopInv, GraphInv, HistoryInv, TypeOK
<1>2. Good /\ TasksMove
  BY <1>1, CommitGood, CommitMoves
<1>3. PICK t \in Tasks, e \in Execs : t = call[c].task /\ e = call[c].exec
  BY <1>1 DEF CallsNameAttempts, Naming, CandidateParts, QuestionCommit, AnswerCommit, CandidateCommit
<1>4. e = count[t] /\ tState[t] \in {"running", "waiting_input"}
      /\ att[t][e].state \in {"running", "waiting_input"}
  BY <1>3 DEF QuestionCommit, AnswerCommit, CandidateCommit, StillRunning, RunningAttempt
<1>5. ~AllIntegrated
  BY <1>4 DEF AllIntegrated
<1>6. waves # <<>> /\ waves' = waves /\ UNCHANGED <<dState, results>>
  <2>1. count[t] # 0
    BY <1>4 DEF Execs
  <2>2. waves # <<>>
    BY <2>1 DEF RefInv, TriedHasWave
  <2> QED
    BY <2>2 DEF QuestionCommit, AnswerCommit, CandidateCommit, git
<1>7. att[t] \in [Execs -> Attempt] /\ att[t][e] \in Attempt /\ att[t][e].used = 0
  BY <1>1, <1>4 DEF RefInv, Unpaid, UnpaidUntilClosed
<1>8. \E h, state :
        /\ att' = [att EXCEPT ![t] = h]
        /\ tState' = [tState EXCEPT ![t] = state]
        /\ \A u \in Tasks : u # t => count'[u] = count[u]
        /\ state # "preparing"
        /\ Unpaid(h)
  <2>1. Unpaid(att[t])
    BY DEF RefInv, UnpaidUntilClosed
  <2>2. CASE QuestionCommit(c)
    <3>1. PICK b : b = [att[t][e] EXCEPT !.state = "waiting_input", !.child = call[c].run,
                                         !.prompt = call[c].prompt]
      OBVIOUS
    <3>2. b.used = 0
      BY <1>7, <3>1 DEF Attempt
    <3>3. PICK h : h = [att[t] EXCEPT ![e] = b]
      OBVIOUS
    <3>4. /\ att' = [att EXCEPT ![t] = h] /\ tState' = [tState EXCEPT ![t] = "waiting_input"]
          /\ count' = count
      BY <1>3, <2>2, <3>1, <3>3 DEF QuestionCommit, Replaced
    <3>5. Unpaid(h)
      BY <1>7, <2>1, <3>2, <3>3 DEF Unpaid
    <3> QED
      BY <1>1, <3>4, <3>5
  <2>3. CASE CandidateCommit(c)
    <3>1. PICK b : b = [att[t][e] EXCEPT !.state = "candidate", !.child = call[c].run,
                                         !.used = call[c].used]
      OBVIOUS
    <3>2. b.state = "candidate"
      BY <1>7, <3>1 DEF Attempt
    <3>3. PICK h : h = [att[t] EXCEPT ![e] = b]
      OBVIOUS
    <3>4. /\ att' = [att EXCEPT ![t] = h] /\ tState' = [tState EXCEPT ![t] = "candidate"]
          /\ count' = count
      BY <1>3, <2>3, <3>1, <3>3 DEF CandidateCommit, Replaced
    <3>5. Unpaid(h)
      BY <1>7, <2>1, <3>2, <3>3 DEF Unpaid
    <3> QED
      BY <1>1, <3>4, <3>5
  <2>4. CASE AnswerCommit(c)
    <3>1. PICK a, b : /\ a = [att[t][e] EXCEPT !.answered = TRUE] /\ b = Continued(att[t][e])
      OBVIOUS
    <3>2. a.used = 0 /\ b.used = 0
      BY <1>7, <3>1 DEF Attempt, Continued
    <3>3. PICK h : h = [att[t] EXCEPT ![e] = a, ![e + 1] = b]
      OBVIOUS
    <3>4. /\ att' = [att EXCEPT ![t] = h] /\ tState' = [tState EXCEPT ![t] = "running"]
          /\ count' = [count EXCEPT ![t] = e + 1]
      BY <1>3, <2>4, <3>1, <3>3 DEF AnswerCommit, Answered
    <3>5. Unpaid(h)
      BY <1>7, <2>1, <3>2, <3>3 DEF Unpaid, Execs
    <3> QED
      BY <1>1, <3>4, <3>5
  <2> QED
    BY <2>2, <2>3, <2>4
<1>9. PICK h, state :
        /\ att' = [att EXCEPT ![t] = h]
        /\ tState' = [tState EXCEPT ![t] = state]
        /\ \A u \in Tasks : u # t => count'[u] = count[u]
        /\ state # "preparing"
        /\ Unpaid(h)
  BY <1>8
<1>10. UnpaidUntilClosed'
  BY <1>1, <1>9, OneUnpaid DEF RefInv
<1>11. FallbackTasks' \subseteq FallbackTasks
  <2>1. tState'[t] = state /\ \A u \in Tasks : u # t => tState'[u] = tState[u]
    BY <1>1, <1>9
  <2>2. \A u \in Tasks : u # t => att'[u] = att[u]
    BY <1>1, <1>9
  <2> QED
    BY <1>1, <1>9, <2>1, <2>2, OneFallback
<1> QED
  BY <1>2, <1>5, <1>6, <1>10, <1>11 DEF GraphAdvances

\* The graph of a delivery that is not done, and what is new in it.
LEMMA GraphFacts ==
  ASSUME LoopInv, dState # "done"
  PROVE  /\ HistoryInv /\ TypeOK /\ HistorySound /\ CallsNameAttempts /\ ResultsSound
         /\ tState \in [Tasks -> TaskStates] /\ count \in [Tasks -> 0..MaxExec]
         /\ att \in [Tasks -> [Execs -> Attempt]]
  BY DEF LoopInv, GraphInv, HistoryInv, TypeOK

\* A new attempt has used nothing.
LEMMA NewIsUnpaid ==
  ASSUME NEW e, NEW base, NEW allowance
  PROVE  NewAttempt(e, base, allowance).used = 0
  BY DEF NewAttempt, NoAttempt

\* A worktree is attached.
LEMMA AttachAdvances ==
  ASSUME LoopInv, RefInv, dState = "active", NEW c \in Callers, NEW t \in Tasks,
         NEW ready \in BOOLEAN, AttachWorktree(c, t, ready)
  PROVE  GraphAdvances
<1>1. Good /\ TasksMove
  BY GraphFacts, AttachGood, AttachMoves
<1>2. PICK e : e = count[t]
  OBVIOUS
<1>3. PICK state : state = IF ready THEN "running" ELSE att[t][e].state
  OBVIOUS
<1>4. PICK b : b = [att[t][e] EXCEPT !.tree = call[c].wave, !.state = state]
  OBVIOUS
<1>5. /\ e # 0 /\ att[t][e].state \in {"preparing", "running"}
      /\ att' = [att EXCEPT ![t] = [@ EXCEPT ![e] = b]]
      /\ UNCHANGED <<dState, waves, results>>
  BY <1>2, <1>3, <1>4 DEF AttachWorktree, Attachable, Replaced, git
<1>6. e \in Execs /\ tState[t] = att[t][e].state /\ att[t][e] \in Attempt
  BY <1>2, <1>5, GraphFacts, LatestFacts
<1>7. ~AllIntegrated
  BY <1>5, <1>6 DEF AllIntegrated
<1>8. waves # <<>>
  BY <1>2, <1>5 DEF RefInv, TriedHasWave
<1>9. b.used = 0
  BY <1>4, <1>5, <1>6 DEF RefInv, Unpaid, UnpaidUntilClosed, Attempt
<1>10. PICK h : h = [att[t] EXCEPT ![e] = b]
  OBVIOUS
<1>11. Unpaid(h)
  BY <1>6, <1>9, <1>10, GraphFacts DEF RefInv, Unpaid, UnpaidUntilClosed
<1>12. UnpaidUntilClosed'
  BY <1>5, <1>10, <1>11, GraphFacts, OneUnpaid DEF RefInv
<1> QED
  BY <1>1, <1>5, <1>7, <1>8, <1>12 DEF GraphAdvances

\* A wave is admitted.
LEMMA AdmitAdvances ==
  ASSUME LoopInv, RefInv, NEW c \in Callers, PrepareAdmit(c)
  PROVE  GraphAdvances
<1>1. dState = "active" /\ UNCHANGED <<dState, results>>
  BY DEF PrepareAdmit, git
<1>2. Good /\ TasksMove
  BY <1>1, GraphFacts, AdmitGood, AdmitMoves
<1> DEFINE admitted == Admitted(WaveSlots(AvailableTokens))
<1>3. \E share \in [admitted -> 1..AvailableTokens] :
        att' = [t \in Tasks |-> IF t \in admitted
                                THEN [att[t] EXCEPT ![1] = NewAttempt(1, call[c].head, share[t])]
                                ELSE att[t]]
  BY DEF PrepareAdmit
<1>4. admitted # {} /\ admitted \subseteq Ready
  BY DEF PrepareAdmit, Admitted
<1> HIDE DEF admitted
<1>5. ~AllIntegrated
  BY <1>4 DEF AllIntegrated, Ready
<1>6. waves' # <<>>
  <2>1. PICK wave : waves' = Append(waves, wave)
    BY DEF PrepareAdmit
  <2>2. waves \in Seq([base: Nat, tasks: SUBSET Tasks])
    BY <1>1, GraphFacts DEF TypeOK
  <2> QED
    BY <2>1, <2>2
<1>7. PICK share : att' = [t \in Tasks |-> IF t \in admitted
                             THEN [att[t] EXCEPT ![1] = NewAttempt(1, call[c].head, share[t])]
                             ELSE att[t]]
  BY <1>3
<1>8. ASSUME NEW t \in Tasks
      PROVE  Unpaid(att'[t])
  <2>1. Unpaid(att[t]) /\ att[t] \in [Execs -> Attempt]
    BY <1>1, GraphFacts DEF RefInv, UnpaidUntilClosed
  <2>2. PICK new : new = NewAttempt(1, call[c].head, share[t])
    OBVIOUS
  <2>3. new.used = 0
    BY <2>2, NewIsUnpaid
  <2>4. att'[t] = IF t \in admitted THEN [att[t] EXCEPT ![1] = new] ELSE att[t]
    BY <1>7, <2>2
  <2> QED
    BY <2>1, <2>3, <2>4 DEF Unpaid
<1>9. UnpaidUntilClosed'
  BY <1>8 DEF UnpaidUntilClosed
<1> QED
  BY <1>1, <1>2, <1>5, <1>6, <1>9 DEF GraphAdvances

\* A failure is recorded.
LEMMA FailureAdvances ==
  ASSUME LoopInv, RefInv, NEW c \in Callers, NEW fallback \in BOOLEAN, FailureCommit(c, fallback)
  PROVE  GraphAdvances /\ waves # <<>>
<1>1. dState = "active" /\ UNCHANGED <<dState, results>>
  BY DEF FailureCommit, git
<1>2. Good /\ TasksMove
  BY <1>1, GraphFacts, FailureGood, FailureMoves
<1>3. PICK t \in Tasks, e \in Execs : t = call[c].task /\ e = call[c].exec
  BY <1>1, GraphFacts DEF CallsNameAttempts, Naming, CandidateParts, FailureCommit
<1>4. e = count[t] /\ tState[t] = "running"
  BY <1>3 DEF FailureCommit, StillRunning, RunningAttempt
<1>5. ~AllIntegrated
  BY <1>4 DEF AllIntegrated
<1>6. waves # <<>>
  BY <1>4 DEF RefInv, TriedHasWave, Execs
<1>7. waves' # <<>>
  <2>1. waves' = waves \/ \E wave : waves' = Append(waves, wave)
    BY DEF FailureCommit
  <2>2. waves \in Seq([base: Nat, tasks: SUBSET Tasks])
    BY <1>1, GraphFacts DEF TypeOK
  <2> QED
    BY <1>6, <2>1, <2>2
<1>8. PICK b : b = [att[t][e] EXCEPT !.state = "blocked", !.child = call[c].run,
                                     !.used = call[c].used]
  OBVIOUS
<1>9. PICK new : new = NewAttempt(e + 1, GraphHead, ProjectedTokens(t, e, call[c].used))
  OBVIOUS
<1>10. b.state = "blocked" /\ new.used = 0
  <2>1. att[t][e] \in Attempt
    BY <1>1, GraphFacts
  <2> QED
    BY <1>8, <1>9, <2>1, NewIsUnpaid DEF Attempt
<1>11. \E h : /\ att' = [att EXCEPT ![t] = h]
              /\ h = [att[t] EXCEPT ![e] = b] \/ h = [att[t] EXCEPT ![e] = b, ![e + 1] = new]
  BY <1>3, <1>8, <1>9 DEF FailureCommit, Replaced
<1>12. PICK h : /\ att' = [att EXCEPT ![t] = h]
                /\ h = [att[t] EXCEPT ![e] = b] \/ h = [att[t] EXCEPT ![e] = b, ![e + 1] = new]
  BY <1>11
<1>13. Unpaid(h)
  <2>1. Unpaid(att[t]) /\ att[t] \in [Execs -> Attempt]
    BY <1>1, GraphFacts DEF RefInv, UnpaidUntilClosed
  <2> QED
    BY <1>10, <1>12, <2>1 DEF Unpaid, Execs
<1>14. UnpaidUntilClosed'
  BY <1>1, <1>12, <1>13, GraphFacts, OneUnpaid DEF RefInv
<1> QED
  BY <1>1, <1>2, <1>5, <1>6, <1>7, <1>14 DEF GraphAdvances

\* A settlement is recorded; one that accepted nothing without a conflict
\* leaves the tasks alone.
LEMMA SettleAdvances ==
  ASSUME LoopInv, RefInv, dState = "active", NEW c \in Callers, NEW r \in results, SettleCommit(c, r)
  PROVE  GraphAdvances \/ (SameSight /\ dState' = dState)
<1>1. Good /\ TasksMove
  BY GraphFacts, SettleGood, SettleMoves
<1>2. PICK k, retry, available :
        /\ k = r.conflict /\ available = AvailableTokens
        /\ retry = (k # 0 /\ MayRetry(count[k], available))
  OBVIOUS
<1>3. /\ att' = SettledAttempts(r, retry, available)
      /\ tState' = [t \in Tasks |->
                      IF <<t, count[t]>> \in r.accepted THEN "integrated"
                      ELSE IF t = k THEN (IF retry THEN "preparing" ELSE "blocked")
                      ELSE tState[t]]
      /\ count' = [t \in Tasks |-> IF t = k /\ retry THEN count[t] + 1 ELSE count[t]]
      /\ \A x \in r.op.cands :
           (x \in r.accepted \/ x[1] = k) => x[2] = count[x[1]] /\ tState[x[1]] = "candidate"
      /\ waves' = waves \/ \E wave : waves' = Append(waves, wave)
      /\ retry \/ waves' = waves
      /\ UNCHANGED <<dState, results>>
  BY <1>2 DEF SettleCommit, git
<1>4. /\ \A x \in r.accepted : x \in r.op.cands /\ x[1] # k
      /\ k # 0 => \E x \in r.op.cands : x[1] = k
      /\ r \in Result /\ r.op.cands \subseteq Commit
  <2>1. r \in Result
    BY GraphFacts DEF TypeOK
  <2>2. r.op.cands \subseteq Commit
    BY <2>1 DEF Result, Operation
  <2> QED
    BY <1>2, <2>1, <2>2, GraphFacts DEF ResultsSound
<1>5. CASE r.accepted = {} /\ k = 0
  <2>1. \A t \in Tasks : t # k
    BY <1>5 DEF Tasks
  <2>2. att' = [t \in Tasks |-> att[t]]
    BY <1>3, <1>5, <1>2, <2>1 DEF SettledAttempts
  <2>3. tState' = [t \in Tasks |-> tState[t]] /\ count' = [t \in Tasks |-> count[t]]
    BY <1>3, <1>5, <2>1
  <2>4. ~retry
    BY <1>2, <1>5
  <2>5. att' = att /\ tState' = tState /\ count' = count /\ waves' = waves
    BY <1>3, <2>2, <2>3, <2>4, GraphFacts
  <2> QED
    BY <1>3, <2>5 DEF SameSight
<1>6. CASE r.accepted # {} \/ k # 0
  <2>1. PICK x \in r.op.cands : x \in r.accepted \/ x[1] = k
    BY <1>4, <1>6
  <2>2. x[1] \in Tasks /\ x[2] \in Execs /\ x[2] = count[x[1]] /\ tState[x[1]] = "candidate"
    BY <1>3, <1>4, <2>1 DEF Commit
  <2>3. ~AllIntegrated
    BY <2>2 DEF AllIntegrated
  <2>4. waves # <<>>
    BY <2>2 DEF RefInv, TriedHasWave, Execs
  <2>5. waves' # <<>>
    <3>1. waves \in Seq([base: Nat, tasks: SUBSET Tasks])
      BY GraphFacts DEF TypeOK
    <3> QED
      BY <1>3, <2>4, <3>1
  <2>6. ASSUME NEW t \in Tasks
        PROVE  Unpaid(att'[t])
    <3>1. PICK e : e = count[t]
      OBVIOUS
    <3>2. PICK new : new = NewAttempt(e + 1, r.final, available)
      OBVIOUS
    <3>3. att'[t] = IF <<t, e>> \in r.accepted
                      THEN [att[t] EXCEPT ![e] = [@ EXCEPT !.state = "integrated"]]
                    ELSE IF t # k THEN att[t]
                    ELSE IF retry
                      THEN [att[t] EXCEPT ![e] = [@ EXCEPT !.conflict = r.op], ![e + 1] = new]
                    ELSE [att[t] EXCEPT ![e] = [@ EXCEPT !.state = "blocked", !.conflict = r.op]]
      BY <1>2, <1>3, <3>1, <3>2 DEF SettledAttempts
    <3>4. Unpaid(att[t]) /\ att[t] \in [Execs -> Attempt] /\ new.used = 0 /\ e \in 0..MaxExec
      BY <3>1, <3>2, GraphFacts, NewIsUnpaid DEF RefInv, UnpaidUntilClosed
    <3>5. <<t, e>> \notin r.accepted /\ t = k => /\ e \in Execs /\ att[t][e].state = "candidate"
                                                 /\ e \in Nat
      <4>1. SUFFICES ASSUME t = k
                     PROVE  e \in Execs /\ att[t][e].state = "candidate" /\ e \in Nat
        OBVIOUS
      <4>2. k # 0
        BY <4>1 DEF Tasks
      <4>3. tState[t] = "candidate"
        BY <1>3, <1>4, <4>1, <4>2
      <4>4. count[t] # 0
        BY <4>3, GraphFacts DEF HistorySound, TaskSound
      <4> QED
        BY <3>1, <4>3, <4>4, GraphFacts, LatestFacts DEF Execs
    <3>6. CASE <<t, e>> \in r.accepted
      <4>1. att'[t] = [att[t] EXCEPT ![e] = [att[t][e] EXCEPT !.state = "integrated"]]
        BY <3>3, <3>6
      <4>2. e \in Execs => [att[t][e] EXCEPT !.state = "integrated"].state = "integrated"
        BY <3>4 DEF Attempt
      <4> QED
        BY <3>4, <4>1, <4>2 DEF Unpaid
    <3>7. CASE <<t, e>> \notin r.accepted /\ t # k
      BY <3>3, <3>4, <3>7
    <3>8. CASE <<t, e>> \notin r.accepted /\ t = k /\ retry
      <4>1. PICK b : b = [att[t][e] EXCEPT !.conflict = r.op]
        OBVIOUS
      <4>2. b.state = "candidate"
        BY <3>4, <3>5, <3>8, <4>1 DEF Attempt
      <4>3. att'[t] = [att[t] EXCEPT ![e] = b, ![e + 1] = new]
        BY <3>3, <3>8, <4>1
      <4> QED
        BY <3>4, <3>5, <3>8, <4>2, <4>3 DEF Unpaid, Execs
    <3>9. CASE <<t, e>> \notin r.accepted /\ t = k /\ ~retry
      <4>1. PICK b : b = [att[t][e] EXCEPT !.state = "blocked", !.conflict = r.op]
        OBVIOUS
      <4>2. b.state = "blocked"
        BY <3>4, <3>5, <3>9, <4>1 DEF Attempt
      <4>3. att'[t] = [att[t] EXCEPT ![e] = b]
        BY <3>3, <3>9, <4>1
      <4> QED
        BY <3>4, <4>2, <4>3 DEF Unpaid
    <3> QED
      BY <3>6, <3>7, <3>8, <3>9
  <2>7. UnpaidUntilClosed'
    BY <2>6 DEF UnpaidUntilClosed
  <2> QED
    BY <1>1, <1>3, <2>3, <2>5, <2>7 DEF GraphAdvances
<1> QED
  BY <1>5, <1>6

\* prepare_wave reads, resumes or admits a wave and attaches its worktrees.
LEMMA PreparesImplement ==
  ASSUME LoopInv, LoopInv', RefInv, CorePrepares
  PROVE  RefInv' /\ Implements
<1>1. core.node = "prepare_wave" /\ lock = A!Free /\ UNCHANGED <<outer, end, core>>
  BY DEF CorePrepares, CoreAt, GraphOnly
<1>2. CoreGoesOn /\ fixes' = fixes /\ "core" \in Callers
  BY <1>1, CallersAre DEF CoreGoesOn, Unsettled, end
<1>3. dState = "active"
  BY <1>1, AtWork
<1>4. CASE PrepareRead("core") \/ PrepareResume("core")
  <2>1. UNCHANGED <<journal, git>>
    BY <1>4 DEF PrepareRead, PrepareResume
  <2>2. \E record : Holds("core", record) /\ record.op \in {"prepare", "attach"}
    <3>1. CASE PrepareRead("core")
      <4>1. PICK record : record = [Idle EXCEPT !.op = "prepare", !.head = head]
        OBVIOUS
      <4>2. Holds("core", record)
        BY <3>1, <4>1 DEF PrepareRead
      <4>3. record.op = "prepare"
        BY <4>1 DEF Idle
      <4> QED
        BY <4>2, <4>3
    <3>2. CASE PrepareResume("core")
      <4>1. PICK w : Holds("core", [Idle EXCEPT !.op = "attach", !.wave = w,
                        !.todo = {t \in waves[w].tasks : tState[t] \in {"preparing", "running"}}])
        BY <3>2 DEF PrepareResume
      <4>2. PICK record : record = [Idle EXCEPT !.op = "attach", !.wave = w,
                        !.todo = {t \in waves[w].tasks : tState[t] \in {"preparing", "running"}}]
        OBVIOUS
      <4>3. record.op = "attach"
        BY <4>2 DEF Idle
      <4> QED
        BY <4>1, <4>2, <4>3
    <3> QED
      BY <1>4, <3>1, <3>2
  <2>3. call'["core"].op \notin Settling
    BY <2>2, HoldsOp DEF Settling
  <2> QED
    BY <1>1, <1>2, <2>1, <2>3, JournalSight, CoreImplements
<1>5. CASE PrepareAdmit("core")
  <2>1. GraphAdvances
    BY <1>2, <1>5, AdmitAdvances
  <2>2. \E record : Holds("core", record) /\ record.op = "attach"
    <3>1. PICK admitted : Holds("core", [Idle EXCEPT !.op = "attach", !.wave = Len(waves) + 1, !.todo = admitted])
      BY <1>5 DEF PrepareAdmit
    <3>2. PICK record : record = [Idle EXCEPT !.op = "attach", !.wave = Len(waves) + 1, !.todo = admitted]
      OBVIOUS
    <3>3. record.op = "attach"
      BY <3>2 DEF Idle
    <3> QED
      BY <3>1, <3>2, <3>3
  <2>3. call'["core"].op \notin Settling
    BY <2>2, HoldsOp DEF Settling
  <2> QED
    BY <1>1, <1>2, <2>1, <2>3, CoreAdvances
<1>6. ASSUME NEW t \in Tasks, NEW ready \in BOOLEAN, AttachWorktree("core", t, ready)
      PROVE  RefInv' /\ Implements
  <2>1. GraphAdvances
    BY <1>2, <1>3, <1>6, AttachAdvances
  <2>2. call["core"].op = "attach" /\ Holds("core", [call["core"] EXCEPT !.todo = @ \ {t}])
    BY <1>6 DEF AttachWorktree
  <2>3. call'["core"].op \notin Settling
    <3>1. call["core"] \in Call
      BY CoreIs, CallersAre
    <3> QED
      BY <2>2, <3>1, HoldsOp DEF Settling, Call
  <2> QED
    BY <1>1, <1>2, <2>1, <2>3, CoreAdvances
<1> QED
  BY <1>4, <1>5, <1>6 DEF CorePrepares

\* A cell records its candidate.
LEMMA CellSucceedsImplements ==
  ASSUME LoopInv, LoopInv', RefInv, CellSucceeds
  PROVE  RefInv' /\ Implements
<1>1. /\ core.node = "task_wave" /\ lock = A!Free /\ CandidateCommit("core")
      /\ core' = [core EXCEPT !.items = {x \in core.items : x[1] # call["core"].task}]
      /\ UNCHANGED <<outer, end>>
  BY DEF CellSucceeds, CoreAt
<1>2. dState = "active" /\ "core" \in Callers
  BY <1>1, AtWork, CallersAre
<1>3. GraphAdvances
  BY <1>1, <1>2, CommitAdvances
<1>4. CoreGoesOn /\ fixes' = fixes
  BY <1>1, CoreIs DEF CoreGoesOn, Core, Unsettled, end
<1>5. call'["core"].op \notin Settling
  BY <1>1, ReturnsIdle DEF CandidateCommit
<1> QED
  BY <1>1, <1>3, <1>4, <1>5, CoreAdvances

\* A settlement is answered.
LEMMA SettleAnswersImplement ==
  ASSUME LoopInv, LoopInv', RefInv, SettleAnswers
  PROVE  RefInv' /\ Implements
<1>1. PICK r \in results : SettleCommit("core", r) /\ (Moves("terminal_exhausted") \/ GoesRound)
  BY DEF SettleAnswers
<1>2. core.node = "settle_wave" /\ lock = A!Free /\ UNCHANGED <<outer, end>>
  BY DEF SettleAnswers, CoreAt
<1>3. dState = "active" /\ "core" \in Callers
  BY <1>2, AtWork, CallersAre
<1>4. CoreGoesOn
  <2>1. Moves("terminal_exhausted") => CoreGoesOn
    BY <1>2, CoreIs DEF CoreGoesOn, Moves, Core, Unsettled
  <2> QED
    BY <1>1, <1>2, <2>1, RoundGoesOn
<1>5. call'["core"].op \notin Settling /\ fixes' = fixes
  BY <1>1, <1>2, ReturnsIdle DEF SettleCommit, end
<1>6. CASE GraphAdvances
  BY <1>2, <1>4, <1>5, <1>6, CoreAdvances
<1>7. CASE SameSight /\ dState' = dState
  <2>1. /\ core \in Core /\ core' \in Core /\ IsFiniteSet(results) /\ results' = results
        /\ launchers' = launchers
    BY <1>2, <1>7 DEF LoopInv, OuterInv, LoopShape, GraphInv, GraphShape, SameSight, outer
  <2>2. IntegratesOnce'
    BY <1>4, <2>1, RoomStays DEF RefInv
  <2>3. SettlesThere' /\ CoreHasLauncher' /\ LaunchersStay
    BY <1>4, <1>5, <2>1 DEF RefInv, SettlesThere, Settling, CoreHasLauncher, CoreGoesOn, LaunchersStay
  <2> QED
    BY <1>2, <1>5, <1>7, <2>2, <2>3, RefQuiet, Stutters DEF Implements
<1> QED
  BY <1>1, <1>3, <1>6, <1>7, SettleAdvances

-----------------------------------------------------------------------------
(* The children and every step *)

\* A child goes on, and the attempt service sees nothing of it.
LEMMA ChildImplements ==
  ASSUME LoopInv, RefInv, NEW r \in runs, ChildWorks(r) \/ ChildGoesRound(r) \/ Replies(r)
  PROVE  RefInv' /\ Implements
<1>1. ChildRunStep(r) /\ UNCHANGED <<outer, end, core>>
  BY DEF ChildWorks, ChildGoesRound, Replies, ChildRunStep, GraphOnly
<1>2. r.status = "running"
  BY <1>1, ChildRunStays DEF LoopInv, GraphInv
<1>3. dState # "done"
  BY <1>2 DEF LoopInv, DoneInv, WasDelivered, NoChildAtWork
<1>4. UNCHANGED <<journal, git, call>>
  BY <1>1, <1>3, GraphChild DEF LoopInv
<1>5. SameSight /\ dState' = dState /\ LaunchersStay /\ fixes' = fixes
  BY <1>1, <1>4, JournalSight DEF LaunchersStay, outer, end
<1> QED
  BY <1>1, <1>4, <1>5, RefRests, Stutters DEF Implements

\* The children call back at any time.
LEMMA ChildCallsImplement ==
  ASSUME LoopInv, LoopInv', RefInv, ChildCalls
  PROVE  RefInv' /\ Implements
<1>1. lock = A!Free /\ UNCHANGED <<outer, end, core>>
  BY DEF ChildCalls, GraphOnly
<1>2. "core" # "child" /\ "child" \in Callers /\ call \in [Callers -> Call]
  BY CallersAre, CoreIs
<1>3. call'["core"] = call["core"]
  <2>1. ASSUME NEW record, Holds("child", record)
        PROVE  call'["core"] = call["core"]
    BY <1>2, <2>1 DEF Holds
  <2>2. Returns("child") => call'["core"] = call["core"]
    BY <1>2 DEF Returns
  <2>3. ASSUME NEW r \in runs, NEW e \in Execs,
               QuestionLoad("child", r, e) \/ AnswerLoad("child", r, e) \/ FailureLoad("child", r, e)
        PROVE  call'["core"] = call["core"]
    BY <2>1, <2>3 DEF QuestionLoad, AnswerLoad, FailureLoad
  <2>4. ASSUME \/ QuestionCommit("child") \/ AnswerCommit("child") \/ CallEnds("child")
               \/ \E fallback \in BOOLEAN : FailureCommit("child", fallback)
        PROVE  call'["core"] = call["core"]
    BY <2>2, <2>4 DEF QuestionCommit, AnswerCommit, FailureCommit, CallEnds
  <2> QED
    BY <2>3, <2>4 DEF ChildCalls
<1>4. LaunchersStay /\ fixes' = fixes
  BY <1>1 DEF LaunchersStay, outer, end
<1>5. CASE \/ CallEnds("child")
           \/ \E r \in runs, e \in Execs : \/ QuestionLoad("child", r, e)
                                           \/ AnswerLoad("child", r, e)
                                           \/ FailureLoad("child", r, e)
  <2>1. UNCHANGED <<journal, git>>
    <3>1. CallEnds("child") => UNCHANGED <<journal, git>>
      BY DEF CallEnds
    <3>2. ASSUME NEW r \in runs, NEW e \in Execs,
                 QuestionLoad("child", r, e) \/ AnswerLoad("child", r, e) \/ FailureLoad("child", r, e)
          PROVE  UNCHANGED <<journal, git>>
      <4>1. QuestionLoad("child", r, e) => UNCHANGED <<journal, git>>
        BY DEF QuestionLoad
      <4>2. AnswerLoad("child", r, e) => UNCHANGED <<journal, git>>
        BY DEF AnswerLoad
      <4>3. FailureLoad("child", r, e) => UNCHANGED <<journal, git>>
        BY DEF FailureLoad
      <4> QED
        BY <3>2, <4>1, <4>2, <4>3
    <3> QED
      BY <1>5, <3>1, <3>2
  <2> QED
    BY <1>1, <1>3, <1>4, <2>1, JournalSight, RefRests, Stutters DEF Implements
<1>6. CASE \/ QuestionCommit("child") \/ AnswerCommit("child")
           \/ \E fallback \in BOOLEAN : FailureCommit("child", fallback)
  <2>1. dState # "done"
    <3>1. CallsNameAttempts /\ (dState = "done" => AllIntegrated)
      BY DEF LoopInv, DoneInv, WasDelivered, GraphInv, GraphShape
    <3>2. QuestionCommit("child") => dState # "done"
      BY <1>2, <3>1 DEF QuestionCommit, StillRunning, RunningAttempt, AllIntegrated, CallsNameAttempts, Naming, CandidateParts
    <3>3. AnswerCommit("child") => dState # "done"
      BY <1>2, <3>1 DEF AnswerCommit, AllIntegrated, CallsNameAttempts, Naming, CandidateParts
    <3>4. \A fallback : FailureCommit("child", fallback) => dState # "done"
      BY DEF FailureCommit
    <3> QED
      BY <1>6, <3>2, <3>3, <3>4
  <2>2. GraphAdvances /\ waves # <<>>
    BY <1>2, <1>6, <2>1, CommitAdvances, FailureAdvances
  <2>3. SomeLauncher
    BY <2>2 DEF RefInv, WaveHasLauncher
  <2>4. results' = results /\ launchers' = launchers
    BY <1>1, <2>2 DEF GraphAdvances, outer
  <2>5. CoreHasLauncher' /\ SettlesThere' /\ IntegratesOnce'
    BY <1>1, <1>3, <2>4 DEF RefInv, CoreHasLauncher, SettlesThere, IntegratesOnce, Integrating, Unsettled
  <2> QED
    BY <1>1, <1>4, <2>1, <2>2, <2>3, <2>5, AdvanceImplements
<1> QED
  BY <1>5, <1>6 DEF ChildCalls

\* The active wall clock runs out.
LEMMA WallClockImplements ==
  ASSUME LoopInv, RefInv, WallClockRunsOut
  PROVE  RefInv' /\ Implements
<1>1. SameSight /\ UNCHANGED <<dState, outer, fixes, core, call>>
  BY DEF WallClockRunsOut, WallExpires, GraphOnly, journal, git, end, SameSight
<1>2. LaunchersStay
  BY <1>1 DEF LaunchersStay, outer
<1> QED
  BY <1>1, <1>2, RefRests, Stutters DEF Implements

\* Every step of the core.
LEMMA CoreStepImplements ==
  ASSUME LoopInv, LoopInv', RefInv, CoreStep
  PROVE  RefInv' /\ Implements
  BY RoutingImplements, PreparesImplement, PrepareAnswersImplements, PreparedNothingImplements,
     CellsImplement, CellSucceedsImplements, CoreSettlesImplements, SettleAnswersImplement,
     LateImplement, ReviewImplements, TerminalizesImplements, StopsImplement DEF CoreStep

\* Every step of the delivery is one of DeliveryAttempts, or nothing to it.
LEMMA RefStep ==
  LoopInv /\ LoopInv' /\ RefInv /\ [LoopNext]_loopVars => RefInv' /\ [A!Next]_(A!vars)
<1> SUFFICES ASSUME LoopInv, LoopInv', RefInv, [LoopNext]_loopVars
             PROVE  RefInv' /\ Implements
  BY DEF Implements
<1>1. CASE Starts \/ LauncherStep \/ Reconciles \/ DeadlinePasses \/ LauncherLost
        \/ ChildCalls \/ WallClockRunsOut
  BY <1>1, StartsImplement, LauncherStartsImplement, LauncherEndsImplements, ReconcilesImplement,
     DeadlineImplements, StopsImplement, ChildCallsImplement, WallClockImplements DEF LauncherStep
<1>2. CASE CoreStep \/ \E status \in Stops : CoreStops(status)
  BY <1>2, CoreStepImplements, StopsImplement
<1>3. CASE \E r \in runs : ChildWorks(r) \/ ChildGoesRound(r) \/ Replies(r)
  BY <1>3, ChildImplements
<1>4. CASE UNCHANGED loopVars
  <2>1. SameSight /\ UNCHANGED <<dState, outer, fixes, core, call>>
    BY <1>4 DEF loopVars, vars, journal, git, end, SameSight
  <2>2. LaunchersStay
    BY <2>1 DEF LaunchersStay, outer
  <2> QED
    BY <2>1, <2>2, RefRests, Stutters DEF Implements
<1> QED
  BY <1>1, <1>2, <1>3, <1>4 DEF LoopNext

\* Whatever the core, its children and the clock do to the graph and to the
\* worktree is a step the attempt service expects: the delivery implements
\* DeliveryAttempts (routing_recovery.go against delivery_graph_service.go).
THEOREM LoopsKeepTheAttempts == LoopSpec => AttemptsAreImplemented
<1>1. LoopInit => A!Init
  BY DEF LoopInit
<1>2. LoopInit => LoopInv /\ RefInv
  BY LoopInitInv, RefInit
<1> QED
  BY <1>1, <1>2, LoopInvariant, RefStep, PTL DEF LoopSpec, AttemptsAreImplemented, A!Spec
=============================================================================
