---------------------------- MODULE DataCallProofs ----------------------------
(***************************************************************************)
(* Theorems about DataCall, for any number of supervisor threads, requests *)
(* and pppd exits.  One strengthening, Supervised, carries three of the    *)
(* run's invariants; the count of failed calls and the pid that is killed  *)
(* have one more each.                                                     *)
(***************************************************************************)
EXTENDS DataCall, TLAPS

\* The two ways into an action's frame that every proof below needs.
LEMMA ThreadsArePositive == \A t \in Threads : t # Nobody /\ t \in Nat
BY BoundsAssumption DEF Threads, Nobody

-----------------------------------------------------------------------------
(* The types                                                               *)

LEMMA InitType == Init => TypeOK
<1> SUFFICES ASSUME Init
             PROVE  RildOK /\ PppdOK /\ FlagsOK /\ CountersOK
  BY DEF TypeOK
<1>1. RildOK
  BY BoundsAssumption DEF Init, RildOK, Places
<1>2. PppdOK
  BY DEF Init, PppdOK, SupPlaces, Children
<1>3. CountersOK
  BY BoundsAssumption DEF Init, CountersOK
<1>4. FlagsOK
  BY Zenon DEF Init, FlagsOK
<1> QED BY <1>1, <1>2, <1>3, <1>4

\* The request thread keeps the types.
LEMMA RildType == ASSUME TypeOK, RequestSetup \/ RequestDeactivate \/ RildStep
                  PROVE  TypeOK'
<1> USE DEF TypeOK, RildOK, PppdOK, FlagsOK, CountersOK, Places, Goto, Answer, rild, flags, pppd,
        procs, world, history
<1>1. CASE RequestSetup
  <2>1. RildOK'
    BY <1>1 DEF RequestSetup
  <2>2. PppdOK'
    BY <1>1 DEF RequestSetup
  <2>3. CountersOK'
    BY <1>1 DEF RequestSetup
  <2>4. FlagsOK'
    BY <1>1, Zenon DEF RequestSetup
  <2> QED BY <2>1, <2>2, <2>3, <2>4
<1>2. CASE RequestDeactivate
  BY <1>2 DEF RequestDeactivate
<1>3. CASE CheckNetwork
  BY <1>3 DEF CheckNetwork
<1>4. CASE PppdStop
  BY <1>4 DEF PppdStop, Stopped
<1>5. CASE TestPid
  <2>1. FlagsOK'
    BY <1>5, Zenon DEF TestPid
  <2>2. RildOK' /\ PppdOK' /\ CountersOK'
    BY <1>5 DEF TestPid
  <2> QED BY <2>1, <2>2
<1>6. CASE ForkKiller
  BY <1>6 DEF ForkKiller
<1>7. CASE StopWaited
  BY <1>7 DEF StopWaited, Stopped
<1>8. CASE StopGaveUp
  BY <1>8 DEF StopGaveUp, Stopped
<1>9. CASE PppdStart
  <2>1. created < MaxThreads => NewThread \in Threads /\ NewThread \in 0 .. MaxThreads
    BY BoundsAssumption DEF NewThread, Threads
  <2>2. PppdOK'
    BY <1>9, <2>1 DEF PppdStart, SupPlaces
  <2>3. RildOK'
    <3>0. retry' = 0 \/ retry' = retry
      BY <1>9, Zenon DEF PppdStart
    <3>1. retry' \in 0 .. MaxPolls
      BY <3>0, BoundsAssumption
    <3> QED BY <1>9, <3>1 DEF PppdStart
  <2>4. FlagsOK'
    BY <1>9 DEF PppdStart
  <2>5. CountersOK'
    <3>1. created' \in 0 .. MaxThreads
      BY <1>9, <2>1 DEF PppdStart
    <3> QED BY <1>9, <3>1 DEF PppdStart
  <2> QED BY <2>2, <2>3, <2>4, <2>5
<1>10. CASE Poll
  BY <1>10, BoundsAssumption DEF Poll, LoopEnds
<1>11. CASE SendDataCallList
  BY <1>11 DEF SendDataCallList
<1>12. CASE MarkComplete
  BY <1>12 DEF MarkComplete
<1> QED BY <1>1, <1>2, <1>3, <1>4, <1>5, <1>6, <1>7, <1>8, <1>9, <1>10, <1>11, <1>12
        DEF RildStep

\* The supervisors, the processes and the device keep them, too.
LEMMA OthersType ==
  ASSUME TypeOK,
         \/ \E t \in Threads : SupStep(t) \/ Connected(t) \/ PppdExit(t) \/ Kill(t)
         \/ Lose \/ Reopen
  PROVE  TypeOK'
<1> USE DEF TypeOK, RildOK, PppdOK, FlagsOK, CountersOK, SupPlaces, Children, rild, flags, pppd,
        procs, world, history, SupFrame, ProcFrame, End, At
<1>1. ASSUME NEW t \in Threads, SupStep(t)
      PROVE  TypeOK'
  <2>1. CASE Top(t)
    BY <2>1 DEF Top
  <2>2. CASE Chat(t)
    BY <2>2 DEF Chat, ChatResults
  <2>3. CASE Fork(t)
    BY <2>3 DEF Fork
  <2>4. CASE SetPid(t)
    BY <2>4 DEF SetPid
  <2>5. CASE WaitPid(t)
    BY <2>5 DEF WaitPid
  <2>6. CASE ClearPid(t)
    BY <2>6 DEF ClearPid
  <2>7. CASE Notify(t)
    <3>1. nSetupDataCallFailTimes' \in Nat /\ callbacks' \in Nat
      BY <2>7 DEF Notify
    <3>2. pppd_thread' \in {Nobody} \cup Threads /\ sup' \in [Threads -> SupPlaces]
      BY <2>7 DEF Notify
    <3>3. bSetupDataCallCompelete' \in BOOLEAN
      BY <2>7 DEF Notify
    <3>4. UNCHANGED <<rild, child, pppd_pid, pppd_quit, killers, world, answer, requests,
                      created, gaveUp>>
      BY <2>7 DEF Notify
    <3>5. RildOK' /\ PppdOK' /\ CountersOK'
      BY <3>1, <3>2, <3>4
    <3>6. FlagsOK'
      BY <3>3, <3>4, Zenon
    <3> QED BY <3>5, <3>6
  <2> QED BY <1>1, <2>1, <2>2, <2>3, <2>4, <2>5, <2>6, <2>7 DEF SupStep
<1>2. ASSUME NEW t \in Threads, Connected(t)
      PROVE  TypeOK'
  BY <1>2 DEF Connected
<1>3. ASSUME NEW t \in Threads, PppdExit(t)
      PROVE  TypeOK'
  BY <1>3 DEF PppdExit
<1>4. ASSUME NEW t \in Threads, Kill(t)
      PROVE  TypeOK'
  BY <1>4 DEF Kill
<1>5. CASE Lose
  BY <1>5 DEF Lose
<1>6. CASE Reopen
  <2>1. FlagsOK'
    BY <1>6, Zenon DEF Reopen
  <2> QED BY <1>6, <2>1 DEF Reopen
<1> QED BY <1>1, <1>2, <1>3, <1>4, <1>5, <1>6

\* Every step keeps them.
LEMMA TypeCorrectStep == TypeOK /\ [Next]_vars => TypeOK'
<1>1. ASSUME TypeOK, UNCHANGED vars
      PROVE  TypeOK'
  BY <1>1 DEF TypeOK, RildOK, PppdOK, FlagsOK, CountersOK, vars, rild, flags, pppd, procs, world,
     history
<1> QED BY <1>1, RildType, OthersType DEF Next

\* The values the state takes, whatever the bounds.
THEOREM TypeCorrect == Spec => []TypeOK
BY InitType, TypeCorrectStep, PTL DEF Spec

-----------------------------------------------------------------------------
(* One supervisor                                                          *)

\* Threads are created in order, and a process belongs to a thread that waits
\* for it or is about to.
Created ==
    /\ \A t \in Threads : t > created => sup[t] = "none"
    /\ \A t \in Threads : child[t] # "none" => sup[t] \in {"forked", "waitpid"}
    /\ pc \in {"begin", "start", "poll", "list", "mark"} => request = "setup"

\* What pppd_stop leaves behind holds until a thread is created.
NothingLeft ==
    \/ pc = "start"
    \/ pc = "idle" /\ request = "deactivate"
StopHolds == ~gaveUp /\ NothingLeft => pppd_thread = Nobody

Supervised == TypeOK /\ Created /\ OneSupervisor /\ PidIsChild /\ StopHolds

LEMMA InitSupervised == Init => Supervised
<1>1. Init => Created /\ OneSupervisor /\ PidIsChild /\ StopHolds
  BY ThreadsArePositive DEF Init, Created, OneSupervisor, PidIsChild, StopHolds, NothingLeft,
     Active
<1> QED BY <1>1, InitType DEF Supervised

\* A step of the request thread leaves processes and places alone, except for
\* the thread it creates.
LEMMA RildSupervised ==
  ASSUME Supervised, RequestSetup \/ RequestDeactivate \/ RildStep
  PROVE  Supervised'
<1> USE DEF Created, OneSupervisor, PidIsChild, StopHolds, NothingLeft, Active, Goto, Answer,
        rild, flags, pppd, procs, world, history
<1>0. TypeOK'
  BY RildType DEF Supervised
<1>a. Created /\ OneSupervisor /\ PidIsChild /\ StopHolds /\ TypeOK
  BY DEF Supervised
<1> SUFFICES Created' /\ OneSupervisor' /\ PidIsChild' /\ StopHolds'
  BY <1>0 DEF Supervised
<1>1. CASE RequestSetup
  BY <1>1, <1>a DEF RequestSetup
<1>2. CASE RequestDeactivate
  BY <1>2, <1>a DEF RequestDeactivate
<1>3. CASE CheckNetwork
  BY <1>3, <1>a DEF CheckNetwork
<1>4. CASE PppdStop
  BY <1>4, <1>a DEF PppdStop, Stopped, TypeOK, RildOK
<1>5. CASE TestPid
  BY <1>5, <1>a DEF TestPid
<1>6. CASE ForkKiller
  BY <1>6, <1>a DEF ForkKiller
<1>7. CASE StopWaited
  BY <1>7, <1>a DEF StopWaited, Stopped
<1>8. CASE StopGaveUp
  BY <1>8, <1>a DEF StopGaveUp, Stopped
<1>9. CASE PppdStart
  <2>1. CASE UNCHANGED <<sup, pppd_thread, created>>
    BY <1>9, <1>a, <2>1 DEF PppdStart
  <2>2. CASE sup' = [sup EXCEPT ![NewThread] = "top"] /\ created' = NewThread
             /\ pppd_thread' = NewThread /\ pc' = "poll" /\ created < MaxThreads
    <3>1. NewThread \in Threads /\ NewThread = created + 1 /\ created \in Nat
      BY <2>2, <1>a, BoundsAssumption DEF TypeOK, CountersOK, NewThread, Threads
    <3>2. pc = "start" /\ request = "setup" /\ UNCHANGED <<child, pppd_pid, request, gaveUp>>
      BY <1>9, <1>a DEF PppdStart
    <3>3. sup[NewThread] = "none" /\ sup'[NewThread] = "top"
      BY <3>1, <1>a, <2>2 DEF TypeOK, PppdOK
    <3>4. \A t \in Threads : t # NewThread => sup'[t] = sup[t]
      BY <2>2, <1>a DEF TypeOK, PppdOK
    <3>5. Created'
      BY <3>1, <3>2, <3>3, <3>4, <2>2, <1>a DEF Threads
    <3>6. OneSupervisor'
      BY <3>2, <3>3, <3>4, <2>2, <1>a, ThreadsArePositive
    <3>7. PidIsChild'
      BY <3>2, <3>3, <3>4, <1>a
    <3> QED BY <3>5, <3>6, <3>7, <2>2
  <2> QED BY <1>9, <2>1, <2>2 DEF PppdStart
<1>10. CASE Poll
  BY <1>10, <1>a DEF Poll
<1>11. CASE SendDataCallList
  BY <1>11, <1>a DEF SendDataCallList
<1>12. CASE MarkComplete
  BY <1>12, <1>a DEF MarkComplete
<1> QED BY <1>1, <1>2, <1>3, <1>4, <1>5, <1>6, <1>7, <1>8, <1>9, <1>10, <1>11, <1>12
        DEF RildStep

\* A step of a supervisor: no other is there, so pppd_thread and pppd_pid are
\* its own to clear.
LEMMA SupSupervised ==
  ASSUME Supervised, NEW t \in Threads, SupStep(t)
  PROVE  Supervised'
<1> USE DEF Created, OneSupervisor, PidIsChild, StopHolds, NothingLeft, Active, rild, flags,
        pppd, procs, world, history, SupFrame, End, At
<1>0. TypeOK'
  BY OthersType DEF Supervised
<1>a. Created /\ OneSupervisor /\ PidIsChild /\ StopHolds /\ TypeOK
  BY DEF Supervised
<1>b. sup \in [Threads -> SupPlaces] /\ child \in [Threads -> Children] /\ created \in Nat
  BY <1>a DEF TypeOK, PppdOK, CountersOK
<1> SUFFICES Created' /\ OneSupervisor' /\ PidIsChild' /\ StopHolds'
  BY <1>0 DEF Supervised
<1>1. CASE Top(t)
  BY <1>1, <1>a, <1>b, ThreadsArePositive DEF Top
<1>2. CASE Chat(t)
  BY <1>2, <1>a, <1>b, ThreadsArePositive DEF Chat, ChatResults
<1>3. CASE Fork(t)
  BY <1>3, <1>a, <1>b, ThreadsArePositive DEF Fork
<1>4. CASE SetPid(t)
  BY <1>4, <1>a, <1>b, ThreadsArePositive DEF SetPid
<1>5. CASE WaitPid(t)
  BY <1>5, <1>a, <1>b, ThreadsArePositive DEF WaitPid
<1>6. CASE ClearPid(t)
  BY <1>6, <1>a, <1>b, ThreadsArePositive DEF ClearPid
<1>7. CASE Notify(t)
  BY <1>7, <1>a, <1>b, ThreadsArePositive DEF Notify
<1> QED BY <1>1, <1>2, <1>3, <1>4, <1>5, <1>6, <1>7 DEF SupStep

\* The processes and the device only change child, killers and s_closed.
LEMMA ProcSupervised ==
  ASSUME Supervised,
         \/ \E t \in Threads : Connected(t) \/ PppdExit(t) \/ Kill(t)
         \/ Lose \/ Reopen \/ UNCHANGED vars
  PROVE  Supervised'
<1> USE DEF Created, OneSupervisor, PidIsChild, StopHolds, NothingLeft, Active, rild, flags,
        pppd, procs, world, history, ProcFrame, Running
<1>a. Created /\ OneSupervisor /\ PidIsChild /\ StopHolds /\ TypeOK
  BY DEF Supervised
<1>b. child \in [Threads -> Children]
  BY <1>a DEF TypeOK, PppdOK
<1>0. TypeOK'
  BY <1>a, TypeCorrectStep DEF Next
<1> SUFFICES Created' /\ OneSupervisor' /\ PidIsChild' /\ StopHolds'
  BY <1>0 DEF Supervised
<1>1. ASSUME NEW t \in Threads, Connected(t)
      PROVE  Created' /\ OneSupervisor' /\ PidIsChild' /\ StopHolds'
  BY <1>1, <1>a, <1>b DEF Connected
<1>2. ASSUME NEW t \in Threads, PppdExit(t)
      PROVE  Created' /\ OneSupervisor' /\ PidIsChild' /\ StopHolds'
  BY <1>2, <1>a, <1>b DEF PppdExit
<1>3. ASSUME NEW t \in Threads, Kill(t)
      PROVE  Created' /\ OneSupervisor' /\ PidIsChild' /\ StopHolds'
  BY <1>3, <1>a, <1>b DEF Kill
<1>4. CASE Lose
  BY <1>4, <1>a DEF Lose
<1>5. CASE Reopen
  BY <1>5, <1>a DEF Reopen
<1>6. CASE UNCHANGED vars
  BY <1>6, <1>a DEF vars
<1> QED BY <1>1, <1>2, <1>3, <1>4, <1>5, <1>6

LEMMA SupervisedStep == Supervised /\ [Next]_vars => Supervised'
BY RildSupervised, SupSupervised, ProcSupervised DEF Next

LEMMA AlwaysSupervised == Spec => []Supervised
BY InitSupervised, SupervisedStep, PTL DEF Spec

\* Unless a pppd_stop has given up waiting, two supervisor threads never run at
\* once, whatever the request thread and pppd do meanwhile.
THEOREM SingleSupervisor == Spec => []OneSupervisor
<1>1. Supervised => OneSupervisor
  BY DEF Supervised
<1> QED BY <1>1, AlwaysSupervised, PTL

\* pppd_pid is what pppd_stop would have to kill, from SetPid to ClearPid.
THEOREM PidFollowsChild == Spec => []PidIsChild
<1>1. Supervised => PidIsChild
  BY DEF Supervised
<1> QED BY <1>1, AlwaysSupervised, PTL

\* A deactivation is answered with success when nothing is left that could dial
\* or carry data.
THEOREM DeactivationStops == Spec => []DeactivatedMeansDown
<1>1. ASSUME Supervised, pc = "idle", request = "deactivate", ~gaveUp, NEW t \in Threads
      PROVE  ~Active(t) /\ child[t] = "none"
  <2>1. pppd_thread = Nobody
    BY <1>1 DEF Supervised, StopHolds, NothingLeft
  <2>2. ~Active(t)
    BY <2>1, <1>1, ThreadsArePositive DEF Supervised, OneSupervisor
  <2>3. child[t] # "none" => Active(t)
    BY <1>1 DEF Supervised, Created, Active
  <2> QED BY <2>2, <2>3
<1>2. Supervised => DeactivatedMeansDown
  BY <1>1 DEF DeactivatedMeansDown
<1> QED BY <1>2, AlwaysSupervised, PTL

-----------------------------------------------------------------------------
(* The count of failed calls                                               *)

\* Between the reset of the count and the start of the new supervisor, the old
\* one may count up to MaxFails + 1, which ends it; the new one adds one more.
Stopping == request = "setup" /\ pc \in {"begin", "pppd_stop", "test", "fork", "wait",
                                        "start"}
NoneActive == \A t \in Threads : ~Active(t)
Counted ==
    ~gaveUp =>
        /\ nSetupDataCallFailTimes <= MaxFails + 2
        /\ nSetupDataCallFailTimes = MaxFails + 2 => ~Stopping /\ NoneActive
        /\ nSetupDataCallFailTimes = MaxFails + 1 /\ Stopping => NoneActive

LEMMA RildCounted ==
  ASSUME Supervised, Counted, RequestSetup \/ RequestDeactivate \/ RildStep
  PROVE  Counted'
<1> USE BoundsAssumption DEF Counted, Stopping, NoneActive, Active, Goto, Answer, rild, flags,
        pppd, procs, world, history
<1>a. nSetupDataCallFailTimes \in Nat /\ Created
  BY DEF Supervised, TypeOK, CountersOK
<1>1. CASE RequestSetup
  BY <1>1, <1>a DEF RequestSetup
<1>2. CASE RequestDeactivate
  BY <1>2, <1>a DEF RequestDeactivate
<1>3. CASE CheckNetwork
  BY <1>3, <1>a DEF CheckNetwork, Created
<1>4. CASE PppdStop
  BY <1>4, <1>a DEF PppdStop, Stopped
<1>5. CASE TestPid
  BY <1>5, <1>a DEF TestPid
<1>6. CASE ForkKiller
  BY <1>6, <1>a DEF ForkKiller
<1>7. CASE StopWaited
  BY <1>7, <1>a DEF StopWaited, Stopped
<1>8. CASE StopGaveUp
  BY <1>8, <1>a DEF StopGaveUp, Stopped
<1>9. CASE PppdStart
  <2>1. Stopping /\ ~Stopping' /\ UNCHANGED <<nSetupDataCallFailTimes, gaveUp>>
    BY <1>9, <1>a DEF PppdStart, Created
  <2>2. CASE UNCHANGED sup
    BY <2>1, <2>2, <1>a
  <2>3. CASE ~UNCHANGED sup
    BY <2>1, <1>a
  <2> QED BY <2>2, <2>3
<1>10. CASE Poll
  BY <1>10, <1>a DEF Poll
<1>11. CASE SendDataCallList
  BY <1>11, <1>a DEF SendDataCallList
<1>12. CASE MarkComplete
  BY <1>12, <1>a DEF MarkComplete
<1> QED BY <1>1, <1>2, <1>3, <1>4, <1>5, <1>6, <1>7, <1>8, <1>9, <1>10, <1>11, <1>12
        DEF RildStep

\* A thread that ends leaves none active.
LEMMA EndIsLast ==
  ASSUME Supervised, ~gaveUp, NEW t \in Threads, Active(t), End(t)
  PROVE  NoneActive'
BY DEF Supervised, OneSupervisor, TypeOK, PppdOK, End, NoneActive, Active

LEMMA SupCounted ==
  ASSUME Supervised, Counted, NEW t \in Threads, SupStep(t)
  PROVE  Counted'
<1> USE BoundsAssumption DEF Counted, rild, flags, pppd, procs, world, history, SupFrame, At
<1>a. nSetupDataCallFailTimes \in Nat /\ sup \in [Threads -> SupPlaces]
  BY DEF Supervised, TypeOK, CountersOK, PppdOK
<1>b. Active(t)
  BY DEF SupStep, Top, Chat, Fork, SetPid, WaitPid, ClearPid, Notify, Active
<1>c. UNCHANGED <<gaveUp, pc, request>> /\ (Stopping' <=> Stopping)
  BY DEF SupStep, Top, Chat, Fork, SetPid, WaitPid, ClearPid, Notify, Stopping
<1>d. ~NoneActive
  BY <1>b DEF NoneActive
<1>1. CASE UNCHANGED nSetupDataCallFailTimes
  BY <1>1, <1>a, <1>b, <1>c, <1>d
<1>2. CASE ~UNCHANGED nSetupDataCallFailTimes
  <2>1. /\ nSetupDataCallFailTimes' = nSetupDataCallFailTimes + 1
        /\ nSetupDataCallFailTimes' > MaxFails => End(t)
    BY <1>2 DEF SupStep, Top, Chat, Fork, SetPid, WaitPid, ClearPid, Notify
  <2>2. ~gaveUp /\ nSetupDataCallFailTimes' > MaxFails => NoneActive'
    BY <2>1, <1>b, EndIsLast
  <2>3. ~gaveUp => nSetupDataCallFailTimes <= MaxFails + 1
    BY <1>a, <1>d
  <2>4. ~gaveUp /\ Stopping => nSetupDataCallFailTimes <= MaxFails
    BY <1>a, <1>d, <2>3
  <2> QED BY <2>1, <2>2, <2>3, <2>4, <1>a, <1>c
<1> QED BY <1>1, <1>2

\* The failures that one supervisor may run through are bounded, those that it
\* inherits from the one before included.
THEOREM FailuresBounded == Spec => []FailsBounded
<1>1. Init => Counted
  BY BoundsAssumption DEF Init, Counted, Stopping, NoneActive, Active
<1>2. ASSUME Supervised, Counted,
             \/ \E t \in Threads : Connected(t) \/ PppdExit(t) \/ Kill(t)
             \/ Lose \/ Reopen \/ UNCHANGED vars
      PROVE  Counted'
  BY <1>2 DEF Counted, Stopping, NoneActive, Active, Connected, PppdExit, Kill, Lose, Reopen,
     vars, rild, flags, pppd, procs, world, history, ProcFrame
<1>3. Supervised /\ Counted /\ [Next]_vars => Counted'
  BY <1>2, RildCounted, SupCounted DEF Next
<1>4. Counted => FailsBounded
  BY DEF Counted, FailsBounded
<1> QED BY <1>1, <1>3, <1>4, AlwaysSupervised, PTL DEF Spec

-----------------------------------------------------------------------------
(* Whom pppd_stop kills                                                    *)

\* A process that a helper is about to kill, has killed or whose supervisor has
\* just reaped it, and that did not end of itself, is one that the request thread
\* waits for: pppd_pid is not cleared for it between the test and the fork.
Waited(t) == t \in killers \/ child[t] = "dead" \/ sup[t] = "reaped"
Spared ==
    /\ pppd_pid <= created /\ \A k \in killers : k <= created
    /\ ~gaveUp =>
        /\ pc = "fork" /\ pppd_pid = Nobody => missed
        /\ \A t \in Threads : Active(t) /\ t \in killers => pc = "wait"
        /\ \A t \in Threads : Active(t) /\ Waited(t) => pc = "wait" \/ t \in ended

\* The request thread waits with a helper under way, and leaves when the thread
\* has ended.
LEMMA RildSpared ==
  ASSUME Supervised, Spared, RequestSetup \/ RequestDeactivate \/ RildStep
  PROVE  Spared'
<1> USE DEF Spared, Waited, Active, Goto, Answer, rild, flags, pppd, procs, world, history
<1>a. TypeOK /\ Created /\ OneSupervisor /\ StopHolds
  BY DEF Supervised
<1>b. created \in Nat /\ sup \in [Threads -> SupPlaces]
  BY <1>a DEF TypeOK, CountersOK, PppdOK
<1>1. CASE RequestSetup
  BY <1>1 DEF RequestSetup
<1>2. CASE RequestDeactivate
  BY <1>2 DEF RequestDeactivate
<1>3. CASE CheckNetwork
  BY <1>3 DEF CheckNetwork
<1>4. CASE PppdStop
  BY <1>4 DEF PppdStop, Stopped
<1>5. CASE TestPid
  BY <1>5 DEF TestPid
<1>6. CASE ForkKiller
  BY <1>6 DEF ForkKiller
<1>7. CASE StopWaited
  <2>1. ~gaveUp => \A t \in Threads : ~Active(t)
    BY <1>7, <1>a, ThreadsArePositive DEF StopWaited, OneSupervisor
  <2> QED BY <1>7, <2>1 DEF StopWaited, Stopped
<1>8. CASE StopGaveUp
  BY <1>8 DEF StopGaveUp, Stopped
<1>9. CASE PppdStart
  <2>1. pc = "start" /\ pc' # "fork" /\ UNCHANGED <<killers, child, pppd_pid, gaveUp, ended>>
    BY <1>9 DEF PppdStart
  <2>2. CASE UNCHANGED <<sup, created>>
    BY <2>1, <2>2
  <2>3. CASE /\ sup' = [sup EXCEPT ![NewThread] = "top"] /\ created' = NewThread
             /\ created < MaxThreads
    <3>1. NewThread \in Threads /\ NewThread = created + 1
      BY <2>3, <1>b, BoundsAssumption DEF NewThread, Threads
    <3>2. NewThread \notin killers /\ pppd_pid <= created' /\ \A k \in killers : k <= created'
      <4>1. killers \subseteq Nat /\ pppd_pid \in Nat
        BY <1>a, ThreadsArePositive DEF TypeOK, PppdOK, Nobody
      <4> QED BY <4>1, <3>1, <1>b, <2>3
    <3>7. sup'[NewThread] = "top" /\ child[NewThread] = "none"
      <4>1. sup[NewThread] = "none"
        BY <3>1, <1>a, <1>b DEF Created
      <4> QED BY <4>1, <3>1, <1>a, <1>b, <2>3 DEF Created
    <3>3. \A t \in Threads : t # NewThread => sup'[t] = sup[t]
      BY <2>3, <1>b
    <3>4. ~gaveUp => \A t \in Threads : ~Active(t)
      BY <2>1, <1>a, ThreadsArePositive DEF OneSupervisor, StopHolds, NothingLeft
    <3>5. ~gaveUp' => \A t \in Threads : ~(Active(t)' /\ Waited(t)')
      BY <2>1, <3>2, <3>3, <3>4, <3>7
    <3>6. pppd_pid' <= created' /\ \A k \in killers' : k <= created'
      BY <2>1, <3>2
    <3> QED BY <2>1, <3>5, <3>6
  <2> QED BY <1>9, <2>2, <2>3 DEF PppdStart
<1>10. CASE Poll
  BY <1>10 DEF Poll
<1>11. CASE SendDataCallList
  BY <1>11 DEF SendDataCallList
<1>12. CASE MarkComplete
  BY <1>12 DEF MarkComplete
<1> QED BY <1>1, <1>2, <1>3, <1>4, <1>5, <1>6, <1>7, <1>8, <1>9, <1>10, <1>11, <1>12
        DEF RildStep

\* A supervisor's process is dead because a helper killed it, and a thread
\* clears pppd_pid only when the request thread waits for that.
LEMMA SupSpared ==
  ASSUME Supervised, Spared, NEW t \in Threads, SupStep(t)
  PROVE  Spared'
<1> USE DEF Spared, Waited, Active, rild, flags, pppd, procs, world, history, SupFrame, End, At
<1>a. TypeOK /\ Created
  BY DEF Supervised
<1>b. /\ sup \in [Threads -> SupPlaces] /\ child \in [Threads -> Children] /\ created \in Nat
      /\ t \in Nat
  BY <1>a, ThreadsArePositive DEF TypeOK, CountersOK, PppdOK
<1>1. CASE Top(t)
  BY <1>1, <1>b DEF Top
<1>2. CASE Chat(t)
  BY <1>2, <1>b DEF Chat, ChatResults
<1>3. CASE Fork(t)
  BY <1>3, <1>b DEF Fork
<1>4. CASE SetPid(t)
  <2>1. t <= created
    BY <1>4, <1>a, <1>b DEF SetPid, Created
  <2> QED BY <1>4, <1>b, <2>1, ThreadsArePositive DEF SetPid
<1>5. CASE WaitPid(t)
  BY <1>5, <1>b DEF WaitPid
<1>6. CASE ClearPid(t)
  <2>1. /\ pppd_pid' = Nobody /\ UNCHANGED <<pc, child, killers, created, gaveUp>>
        /\ sup[t] = "reaped" /\ sup' = [sup EXCEPT ![t] = "notify"]
        /\ ended' = ended \ {t}
    BY <1>6 DEF ClearPid
  <2>2. missed' <=> (missed \/ t \in ended)
    BY <1>6, Zenon DEF ClearPid
  <2>3. ~gaveUp /\ pc = "fork" => missed'
    BY <2>1, <2>2
  <2>4. child[t] = "none"
    BY <2>1, <1>a DEF Created
  <2>5. ~gaveUp => \A u \in Threads : Active(u)' /\ u \in killers' => pc' = "wait"
    BY <2>1, <1>b
  <2>6. ~gaveUp => \A u \in Threads : u # t /\ Active(u)' /\ Waited(u)' => pc' = "wait" \/ u \in ended'
    BY <2>1, <1>b
  <2>7. ~gaveUp => (Active(t)' /\ Waited(t)' => pc' = "wait" \/ t \in ended')
    BY <2>1, <2>4, <2>5, <1>b
  <2>8. pppd_pid' <= created' /\ \A k \in killers' : k <= created'
    BY <2>1, <1>b DEF Nobody
  <2> QED BY <2>1, <2>3, <2>5, <2>6, <2>7, <2>8
<1>7. CASE Notify(t)
  BY <1>7, <1>b DEF Notify
<1> QED BY <1>1, <1>2, <1>3, <1>4, <1>5, <1>6, <1>7 DEF SupStep

\* pppd_stop signals the RIL's own process group only if a supervisor clears the
\* pid of a pppd that ended of itself between the test and the fork of one call:
\* the kill of a supervised process cannot do it, in that call or a later one.
THEOREM GroupSpared == Spec => []OwnGroupSpared
<1> USE DEF Spared, Waited, Active, rild, flags, pppd, procs, world, history, ProcFrame
<1>1. Init => Spared
  BY DEF Init, Nobody
<1>2. ASSUME Supervised, Spared, NEW t \in Threads, Connected(t) \/ PppdExit(t) \/ Kill(t)
      PROVE  Spared'
  <2>a. /\ child \in [Threads -> Children]
        /\ \A u \in Threads : child[u] # "none" => Active(u)
    BY <1>2 DEF Supervised, TypeOK, PppdOK, CountersOK, Created
  <2>1. CASE Connected(t)
    BY <2>1, <2>a, <1>2 DEF Connected
  <2>2. CASE PppdExit(t)
    BY <2>2, <2>a, <1>2 DEF PppdExit
  <2>3. CASE Kill(t)
    BY <2>3, <2>a, <1>2 DEF Kill, Running
  <2> QED BY <1>2, <2>1, <2>2, <2>3
<1>3. ASSUME Spared, Lose \/ Reopen \/ UNCHANGED vars
      PROVE  Spared'
  BY <1>3 DEF Lose, Reopen, vars
<1>4. Supervised /\ Spared /\ [Next]_vars => Spared'
  BY <1>2, <1>3, RildSpared, SupSpared DEF Next
<1>5. Supervised /\ Spared => OwnGroupSpared
  BY DEF OwnGroupSpared
<1> QED BY <1>1, <1>4, <1>5, AlwaysSupervised, PTL DEF Spec

=============================================================================
