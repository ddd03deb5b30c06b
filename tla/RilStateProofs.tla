---------------------------- MODULE RilStateProofs ----------------------------
(***************************************************************************)
(* Theorems about RilState, for every number of opens and requests and for *)
(* both builds.                                                            *)
(***************************************************************************)
EXTENDS RilState, TLAPS

\* Where the threads are, and what a step of setRadioState or the request thread
\* leaves alone.
LEMMA ThreadsAre ==
  /\ Rild \in Threads /\ Readers \subseteq Threads
  /\ \A t \in Threads : t = Rild \/ t \in Readers
  /\ \A r \in Readers : r # Rild
BY BoundsAssumption DEF Rild, Readers, Threads

\* Moving one thread keeps pc's type.
LEMMA GotoType ==
  ASSUME TypeOK, NEW t \in Threads, NEW place \in Places, Goto(t, place)
  PROVE  /\ pc' \in [Threads -> Places] /\ pc'[t] = place
         /\ \A u \in Threads : u # t => pc'[u] = pc[u]
BY DEF TypeOK, Goto

LEMMA InitType == ASSUME Init PROVE TypeOK
<1>1. v12 \in BOOLEAN
  BY BuildsAssumption DEF Init
<1>2. session \in 0 .. MaxSessions /\ onRequestCount \in 0 .. EarlyRequests
  BY BoundsAssumption DEF Init
<1>3. pc \in [Threads -> Places]
  BY DEF Init, Places
<1> QED BY <1>1, <1>2, <1>3 DEF Init, TypeOK, States

\* One step of setRadioState, or of what it calls, keeps the types.
LEMMA StateStepType ==
  ASSUME TypeOK, NEW t \in Threads, StateStep(t)
  PROVE  TypeOK'
<1> USE DEF TypeOK, Goto, Finish, Places, States, queue, framework
<1>1. CASE SetState(t)
  BY <1>1 DEF SetState, NewState
<1>2. CASE Notify(t)
  BY <1>2 DEF Notify
<1>3. CASE Dispatch(t)
  BY <1>3 DEF Dispatch
<1>4. CASE PollTest(t)
  BY <1>4 DEF PollTest
<1>5. CASE StatusTest(t)
  BY <1>5 DEF StatusTest
<1>6. CASE Cpin(t)
  <2>1. polls' = polls \/ polls' = polls + 1
    BY <1>6, Zenon DEF Cpin
  <2>4. polls' \in Nat
    BY <2>1
  <2>2. pc' \in [Threads -> Places]
    BY <1>6 DEF Cpin, Enter
  <2>3. arg' \in [Threads -> States]
    BY <1>6 DEF Cpin, Enter
  <2> QED BY <1>6, <2>2, <2>3, <2>4 DEF Cpin
<1>7. CASE SimReady(t)
  BY <1>7 DEF SimReady
<1> QED BY <1>1, <1>2, <1>3, <1>4, <1>5, <1>6, <1>7 DEF StateStep

\* Every step keeps the types.
LEMMA TypeStep == ASSUME TypeOK, [Next]_vars PROVE TypeOK'
<1> USE ThreadsAre DEF TypeOK, Goto, Finish, Enter, queue, framework, Places, States
<1>1. CASE \E t \in Threads : StateStep(t)
  BY <1>1, StateStepType
<1>2. CASE RildStep
  BY <1>2 DEF RildStep, IsRadioOn, RequestRadioPower, Cfun, CardStatusTest, CardQuery
<1>3. CASE InitializeCallback \/ PollCallback
  BY <1>3 DEF InitializeCallback, PollCallback
<1>4. CASE Framework
  BY <1>4, BoundsAssumption DEF Framework, Connect, OtherRequest, GetSimStatus, RadioPower,
     Counted
<1>5. CASE \E r \in Readers : OnReaderClosed(r) \/ OnATReaderClosed(r)
  <2>1. ASSUME NEW r \in Readers, OnReaderClosed(r) PROVE TypeOK'
    BY <2>1 DEF OnReaderClosed
  <2>2. ASSUME NEW r \in Readers, OnATReaderClosed(r) PROVE TypeOK'
    BY <2>2 DEF OnATReaderClosed
  <2> QED BY <1>5, <2>1, <2>2
<1>6. CASE MainStep
  <2>1. CASE AtOpen
    <3>1. session + 1 \in 0 .. MaxSessions
      BY <2>1, BoundsAssumption DEF AtOpen
    <3> QED BY <2>1, <3>1 DEF AtOpen
  <2>2. CASE QueueInit
    BY <2>2 DEF QueueInit
  <2>3. CASE Reopen \/ WaitForClose
    BY <2>3 DEF Reopen, WaitForClose
  <2> QED BY <1>6, <2>1, <2>2, <2>3 DEF MainStep
<1>7. CASE SpuriousWake
  BY <1>7 DEF SpuriousWake
<1>8. CASE UNCHANGED vars
  BY <1>8 DEF vars
<1> QED BY <1>1, <1>2, <1>3, <1>4, <1>5, <1>6, <1>7, <1>8 DEF Next

\* sState, s_closed, mainLoop and the threads only ever take the values declared
\* for them.
THEOREM TypeCorrect == Spec => []TypeOK
<1>1. Init => TypeOK
  BY InitType
<1>2. TypeOK /\ [Next]_vars => TypeOK'
  BY TypeStep
<1> QED BY <1>1, <1>2, PTL DEF Spec

-----------------------------------------------------------------------------
(* The readers and s_closed                                                *)

\* Which thread moves in a step of setRadioState: one that has something to do
\* with the radio state, and it keeps that.
LEMMA StateStepMoves ==
  ASSUME TypeOK, NEW t \in Threads, StateStep(t)
  PROVE  /\ Closed(t) /\ Closed(t)'
         /\ \A u \in Threads : u # t => pc'[u] = pc[u]
         /\ UNCHANGED <<s_closed, session>>
         /\ main' = main \/ (main = "asleep" /\ main' = "test")
<1> USE DEF Closed, Goto, Finish, TypeOK
<1>1. CASE SetState(t)
  BY <1>1 DEF SetState
<1>2. CASE Notify(t)
  BY <1>2 DEF Notify
<1>3. CASE Dispatch(t) \/ PollTest(t) \/ StatusTest(t) \/ SimReady(t)
  BY <1>3 DEF Dispatch, PollTest, StatusTest, SimReady, queue
<1>4. CASE Cpin(t)
  BY <1>4 DEF Cpin, Enter
<1> QED BY <1>1, <1>2, <1>3, <1>4 DEF StateStep

\* The same of the request thread's steps, which do not touch sState.
LEMMA RildStepMoves ==
  ASSUME TypeOK, RildStep \/ InitializeCallback \/ PollCallback \/ Framework
  PROVE  /\ pc' = pc \/ (Closed(Rild) /\ Closed(Rild)')
         /\ pc' = pc \/ pc[Rild] \in {"idle", "init", "power", "cfun", "getSimStatus",
                                      "query"}
         /\ \A u \in Threads : u # Rild => pc'[u] = pc[u]
         /\ UNCHANGED <<s_closed, session, main, sState, old, told>>
<1> USE ThreadsAre DEF Closed, Goto, Finish, Enter, TypeOK
<1>1. CASE RildStep
  BY <1>1 DEF RildStep, IsRadioOn, RequestRadioPower, Cfun, CardStatusTest, CardQuery
<1>2. CASE InitializeCallback \/ PollCallback
  BY <1>2 DEF InitializeCallback, PollCallback
<1>3. CASE Framework
  BY <1>3 DEF Framework, Connect, OtherRequest, GetSimStatus, RadioPower, queue
<1> QED BY <1>1, <1>2, <1>3

\* Such a step keeps ReadersInv.
LEMMA MoveKeepsReaders ==
  ASSUME TypeOK, ReadersInv, NEW t \in Threads, Closed(t), Closed(t)',
         \A u \in Threads : u # t => pc'[u] = pc[u],
         UNCHANGED <<s_closed, session>>,
         main' = main \/ (main = "asleep" /\ main' = "test")
  PROVE  ReadersInv'
<1>1. session \in Threads
  BY BoundsAssumption DEF TypeOK, Threads
<1>2. \A u \in Threads : /\ Closed(u) => Closed(u)'
                         /\ pc[u] = "none" => pc'[u] = "none"
                         /\ pc[u] # "none" => pc'[u] # "none"
  BY DEF Closed
<1> QED BY <1>1, <1>2, ThreadsAre DEF ReadersInv, Closed

\* The reader that finds the device gone is that of the last open, which was
\* not closed before.
LEMMA LastReader ==
  ASSUME TypeOK, ReadersInv, NEW r \in Readers, pc[r] \in {"running", "closing"}
  PROVE  r = session /\ ~s_closed /\ main \notin {"open", "reset"}
<1>1. session \in Int /\ r \in Int /\ r # 0
  BY BoundsAssumption DEF TypeOK, Readers
<1>2. r = session
  BY <1>1 DEF ReadersInv, Closed
<1> QED BY <1>1, <1>2 DEF ReadersInv, Closed

LEMMA ReadersStep == ASSUME TypeOK, ReadersInv, [Next]_vars PROVE ReadersInv'
<1>1. ASSUME NEW t \in Threads, StateStep(t) PROVE ReadersInv'
  BY <1>1, StateStepMoves, MoveKeepsReaders
<1>2. CASE RildStep \/ InitializeCallback \/ PollCallback \/ Framework
  <2>1. CASE pc' = pc
    BY <1>2, <2>1, RildStepMoves DEF ReadersInv, Closed
  <2>2. CASE Closed(Rild) /\ Closed(Rild)'
    BY <1>2, <2>2, RildStepMoves, MoveKeepsReaders, ThreadsAre
  <2> QED BY <1>2, <2>1, <2>2, RildStepMoves
<1>3. ASSUME NEW r \in Readers, OnReaderClosed(r) \/ OnATReaderClosed(r)
      PROVE  ReadersInv'
  <2>1. r = session /\ ~s_closed /\ main \notin {"open", "reset"}
    BY <1>3, LastReader DEF OnReaderClosed, OnATReaderClosed
  <2>2. /\ pc'[r] \in {"closing", "set"} /\ (s_closed' => pc'[r] = "set")
        /\ \A u \in Threads : u # r => pc'[u] = pc[u]
        /\ UNCHANGED <<session, main>>
    BY <1>3, <2>1, ThreadsAre DEF OnReaderClosed, OnATReaderClosed, Goto, Enter, TypeOK
  <2>3. r # 0 /\ r # Rild
    BY DEF Readers, Rild
  <2> QED BY <2>1, <2>2, <2>3, ThreadsAre DEF ReadersInv, Closed
<1>4. CASE Reopen
  <2>1. Closed(session)
    BY <1>4 DEF Reopen, ReadersInv, Closed, Rild
  <2> QED BY <1>4, <2>1 DEF Reopen, ReadersInv, Closed
<1>5. CASE AtOpen
  <2>1. /\ session \in Int /\ session + 1 \in Readers /\ session' = session + 1
        /\ Closed(session) /\ ~s_closed /\ ~s_closed' /\ main' = "opened"
    BY <1>5, BoundsAssumption DEF AtOpen, TypeOK, ReadersInv, Readers
  <2>2. /\ pc'[session + 1] = "running"
        /\ \A u \in Threads : u # session + 1 => pc'[u] = pc[u]
    BY <1>5, <2>1, ThreadsAre DEF AtOpen, Goto, TypeOK
  <2>3. ASSUME NEW r \in Readers
        PROVE  /\ r > session' => pc'[r] = "none"
               /\ r < session' => Closed(r)'
               /\ r = session' => pc'[r] # "none"
    <3>1. r \in Int /\ r \in Threads
      BY ThreadsAre DEF Readers
    <3>2. r < session + 1 => r < session \/ r = session
      BY <2>1, <3>1
    <3> QED BY <2>1, <2>2, <3>1, <3>2 DEF ReadersInv, Closed
  <2> QED BY <2>1, <2>2, <2>3, ThreadsAre DEF ReadersInv
<1>6. CASE QueueInit \/ WaitForClose \/ SpuriousWake
  BY <1>6 DEF QueueInit, WaitForClose, SpuriousWake, ReadersInv, Closed
<1>7. CASE UNCHANGED vars
  BY <1>7 DEF vars, ReadersInv, Closed
<1> QED BY <1>1, <1>2, <1>3, <1>4, <1>5, <1>6, <1>7 DEF Next, MainStep

LEMMA InitReaders == ASSUME Init PROVE ReadersInv
BY ThreadsAre, BoundsAssumption DEF Init, ReadersInv, Closed, Rild, Threads, Readers

-----------------------------------------------------------------------------
(* Announcements                                                           *)

\* Whoever changed sState last still has an oldState that differs from it.
LEMMA AnnouncedStep == ASSUME TypeOK, ReadersInv, Announced, [Next]_vars PROVE Announced'
<1> USE DEF Announced
<1>1. ASSUME NEW t \in Threads, SetState(t)
      PROVE  Announced'
  <2>1. pc' \in [Threads -> Places] /\ pc'[t] = "changed" /\ old'[t] = sState
        /\ \A u \in Threads : u # t => pc'[u] = pc[u] /\ old'[u] = old[u]
    BY <1>1 DEF SetState, Goto, TypeOK, Places
  <2>2. CASE sState' # sState
    BY <2>1, <2>2
  <2>3. CASE sState' = sState
    BY <1>1, <2>1, <2>3 DEF SetState
  <2> QED BY <2>2, <2>3
<1>2. ASSUME NEW t \in Threads, Notify(t)
      PROVE  Announced'
  BY <1>2 DEF Notify, Goto, Finish, TypeOK
<1>3. ASSUME NEW t \in Threads, pc[t] # "changed",
             \A u \in Threads : u # t => pc'[u] = pc[u],
             UNCHANGED <<sState, old, told>>
      PROVE  Announced'
  BY <1>3
<1>4. ASSUME NEW t \in Threads, StateStep(t) PROVE Announced'
  <2>1. CASE SetState(t) BY <1>1, <2>1
  <2>2. CASE Notify(t) BY <1>2, <2>2
  <2>3. CASE Dispatch(t) \/ PollTest(t) \/ StatusTest(t) \/ Cpin(t) \/ SimReady(t)
    <3>1. /\ pc[t] # "changed" /\ UNCHANGED <<sState, old, told>>
          /\ \A u \in Threads : u # t => pc'[u] = pc[u]
      BY <2>3 DEF Dispatch, PollTest, StatusTest, Cpin, SimReady, Goto, Finish, Enter, TypeOK
    <3> QED BY <1>3, <3>1
  <2> QED BY <1>4, <2>1, <2>2, <2>3 DEF StateStep
<1>5. CASE RildStep \/ InitializeCallback \/ PollCallback \/ Framework
  BY <1>3, <1>5, RildStepMoves, ThreadsAre
<1>6. ASSUME NEW r \in Readers, OnReaderClosed(r) \/ OnATReaderClosed(r)
      PROVE  Announced'
  <2>1. /\ pc[r] # "changed" /\ UNCHANGED <<sState, old, told>>
        /\ \A u \in Threads : u # r => pc'[u] = pc[u]
    BY <1>6 DEF OnReaderClosed, OnATReaderClosed, Goto, Enter, TypeOK
  <2> QED BY <1>3, <2>1, ThreadsAre
<1>7. CASE AtOpen
  <2>1. session + 1 \in Readers /\ pc[session + 1] = "none"
    BY <1>7, BoundsAssumption DEF AtOpen, TypeOK, ReadersInv, Readers
  <2>2. /\ UNCHANGED <<sState, old, told>>
        /\ \A u \in Threads : u # session + 1 => pc'[u] = pc[u]
    BY <1>7 DEF AtOpen, Goto, TypeOK
  <2> QED BY <1>3, <2>1, <2>2, ThreadsAre
<1>8. CASE Reopen \/ QueueInit \/ WaitForClose \/ SpuriousWake \/ UNCHANGED vars
  BY <1>8 DEF Reopen, QueueInit, WaitForClose, SpuriousWake, vars
<1> QED BY <1>4, <1>5, <1>6, <1>7, <1>8 DEF Next, MainStep

\* No change of the radio state goes unannounced, whatever happens between the
\* unlock and the comparison with oldState in setRadioState.
THEOREM ChangesAnnounced == Spec => []Announced
<1>1. Init => TypeOK /\ ReadersInv /\ Announced
  BY InitType, InitReaders DEF Init, Announced
<1>2. TypeOK /\ ReadersInv /\ Announced /\ [Next]_vars
      => (TypeOK /\ ReadersInv /\ Announced)'
  BY TypeStep, ReadersStep, AnnouncedStep
<1> QED BY <1>1, <1>2, PTL DEF Spec

-----------------------------------------------------------------------------
(* The loss of the device                                                  *)

\* What a step of setRadioState does while the device is gone.
LEMMA ClosedSetState ==
  ASSUME TypeOK, NEW t \in Threads, StateStep(t), s_closed
  PROVE  /\ SetState(t) => sState' = "UNAVAILABLE" /\ main' # "asleep"
         /\ ~SetState(t) => UNCHANGED <<sState, main>> /\ pc[t] # "set"
<1>1. ASSUME SetState(t) PROVE sState' = "UNAVAILABLE" /\ main' # "asleep"
  BY <1>1 DEF SetState, NewState, Broadcasts
<1>2. ASSUME ~SetState(t) PROVE UNCHANGED <<sState, main>> /\ pc[t] # "set"
  BY <1>2 DEF StateStep, Notify, Dispatch, PollTest, StatusTest, Cpin, SimReady
<1> QED BY <1>1, <1>2

LossInv == ClosedIsUnavailable /\ CloseNotMissed

LEMMA LossStep == ASSUME TypeOK, ReadersInv, LossInv, [Next]_vars PROVE LossInv'
<1> USE DEF LossInv, ClosedIsUnavailable, CloseNotMissed
<1>1. ASSUME NEW t \in Threads, StateStep(t) PROVE LossInv'
  <2>1. UNCHANGED <<s_closed, session>> /\ \A u \in Threads : u # t => pc'[u] = pc[u]
    BY <1>1, StateStepMoves
  <2>2. session \in Threads
    BY BoundsAssumption DEF TypeOK, Threads
  <2>3. CASE ~s_closed
    BY <2>1, <2>3
  <2>4. CASE s_closed /\ SetState(t)
    BY <1>1, <2>1, <2>4, ClosedSetState
  <2>5. CASE s_closed /\ ~SetState(t)
    <3>1. UNCHANGED <<sState, main>> /\ pc[t] # "set"
      BY <1>1, <2>5, ClosedSetState
    <3>2. pc[session] = "set" => pc'[session] = "set"
      BY <2>1, <2>2, <3>1
    <3> QED BY <2>1, <3>1, <3>2
  <2> QED BY <2>3, <2>4, <2>5
<1>2. CASE RildStep \/ InitializeCallback \/ PollCallback \/ Framework
  <2>1. /\ UNCHANGED <<s_closed, session, main, sState>>
        /\ \A u \in Threads : u # Rild => pc'[u] = pc[u]
    BY <1>2, RildStepMoves
  <2>2. s_closed => session \in Threads /\ session # Rild
    BY BoundsAssumption DEF TypeOK, Threads, ReadersInv, Rild
  <2> QED BY <2>1, <2>2
<1>3. ASSUME NEW r \in Readers, OnReaderClosed(r) PROVE LossInv'
  BY <1>3, LastReader DEF OnReaderClosed
<1>4. ASSUME NEW r \in Readers, OnATReaderClosed(r) PROVE LossInv'
  <2>1. r = session /\ UNCHANGED session
    BY <1>4, LastReader DEF OnATReaderClosed
  <2>2. pc'[r] = "set"
    BY <1>4, ThreadsAre DEF OnATReaderClosed, Enter, Goto, TypeOK
  <2> QED BY <2>1, <2>2
<1>5. CASE Reopen
  BY <1>5 DEF Reopen
<1>6. CASE AtOpen
  BY <1>6 DEF AtOpen, ReadersInv
<1>7. CASE QueueInit \/ WaitForClose \/ SpuriousWake
  BY <1>7 DEF QueueInit, WaitForClose, SpuriousWake
<1>8. CASE UNCHANGED vars
  BY <1>8 DEF vars
<1> QED BY <1>1, <1>2, <1>3, <1>4, <1>5, <1>6, <1>7, <1>8 DEF Next, MainStep

LEMMA LossKept == Spec => []LossInv
<1>1. Init => TypeOK /\ ReadersInv /\ LossInv
  BY InitType, InitReaders DEF Init, LossInv, ClosedIsUnavailable, CloseNotMissed
<1>2. TypeOK /\ ReadersInv /\ LossInv /\ [Next]_vars
      => (TypeOK /\ ReadersInv /\ LossInv)'
  BY TypeStep, ReadersStep, LossStep
<1> QED BY <1>1, <1>2, PTL DEF Spec

\* After the loss of the device the state is UNAVAILABLE from when
\* onATReaderClosed has said so until the device is reopened, whatever
\* initialization or power request is still on its way.
THEOREM LossPrevails == Spec => []ClosedIsUnavailable
<1>1. LossInv => ClosedIsUnavailable
  BY DEF LossInv
<1> QED BY <1>1, LossKept, PTL

\* waitForClose does not sleep through the loss of the device, although
\* onATReaderClosed sets s_closed without s_state_mutex.
THEOREM LossNoticed == Spec => []CloseNotMissed
<1>1. LossInv => CloseNotMissed
  BY DEF LossInv
<1> QED BY <1>1, LossKept, PTL
===============================================================================
