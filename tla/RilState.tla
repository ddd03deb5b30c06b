------------------------------- MODULE RilState -------------------------------
(***************************************************************************)
(* The radio state of reference-ril.c: sState and s_closed, which rild's   *)
(* request thread (requests and timed callbacks), the reader thread of     *)
(* each open of the device and mainLoop read and write, mostly without     *)
(* s_state_mutex.  Commands are only what they return here: a success      *)
(* needs an open channel (ATChannel has the rest).                         *)
(*                                                                         *)
(* Threads are numbers: 0 is the request thread, n the reader of open n.   *)
(***************************************************************************)
EXTENDS Integers

CONSTANTS
    Builds,        \* the builds considered: is RIL_VERSION at least 12?
    EarlyRequests, \* the 4 of onRequestCount < 4
    MaxSessions,   \* bound: opens of the device
    MaxRequests    \* bound: requests and connections of the framework

ASSUME BuildsAssumption == Builds \subseteq BOOLEAN
ASSUME BoundsAssumption ==
    /\ EarlyRequests \in Nat \ {0}
    /\ MaxSessions \in Nat \ {0} /\ MaxRequests \in Nat

Rild    == 0
Readers == 1 .. MaxSessions
Threads == 0 .. MaxSessions

\* RIL_RadioState, without the prefix RADIO_STATE_
States  == {"UNAVAILABLE", "OFF", "ON", "SIM_NOT_READY", "SIM_READY",
            "SIM_LOCKED_OR_ABSENT"}
Places  == {"none", "running", "closing", "gone", "idle", "init", "power", "cfun",
            "set", "changed", "dispatch", "poll", "status", "cpin", "simReady",
            "getSimStatus", "query"}

VARIABLES
    v12,             \* the build
    sState, s_closed,
    s_readerClosed,  \* atchannel.c: commands fail
    main,            \* mainLoop's place
    session,         \* number of the last open
    pc, arg, old,    \* per thread: its place; newState and oldState
    want,            \* requestRadioPower's onOff
    initDue, polls,  \* timed callbacks queued: initializeCallback, pollSIMState
    onRequestCount,  \* counted up to EarlyRequests
    requests,        \* counter
    told             \* history: RADIO_STATE_CHANGED was sent since the last change

queue == <<initDue, polls>>
framework == <<want, onRequestCount, requests>>
vars == <<v12, sState, s_closed, s_readerClosed, main, session, pc, arg, old, queue,
          framework, told>>

Init ==
    /\ v12 \in Builds
    /\ sState = "UNAVAILABLE" /\ s_closed = FALSE /\ s_readerClosed = FALSE
    /\ main = "open" /\ session = 0
    /\ pc = [t \in Threads |-> IF t = Rild THEN "idle" ELSE "none"]
    /\ arg = [t \in Threads |-> "UNAVAILABLE"]
    /\ old = [t \in Threads |-> "UNAVAILABLE"]
    /\ want = "off" /\ onRequestCount = 0 /\ requests = 0
    /\ initDue = 0 /\ polls = 0 /\ told = TRUE

Goto(t, place) == pc' = [pc EXCEPT ![t] = place]
Finish(t) == Goto(t, IF t = Rild THEN "idle" ELSE "gone")

\* setRadioState(state) is called
Enter(t, state) == Goto(t, "set") /\ arg' = [arg EXCEPT ![t] = state]

\* The result of a command: a success needs a channel
Results == IF s_readerClosed THEN {FALSE} ELSE BOOLEAN

-----------------------------------------------------------------------------
(* setRadioState and what it calls, on any thread                          *)

\* Variant: the closed channel does not prevail.
NewStateAsked(t) == arg[t]

\* "If we're closed, the only reasonable state is RADIO_STATE_UNAVAILABLE"
NewState(t) == IF s_closed THEN "UNAVAILABLE" ELSE arg[t]

\* Variant: only a change is broadcast.
BroadcastsChange(new) == sState # new

\* Does setRadioState broadcast s_state_cond?
Broadcasts(new) == sState # new \/ s_closed

\* From the lock to the unlock of s_state_mutex.  s_closed is not protected by
\* it, but nobody can tell a write of it in here from one before or after.
SetState(t) ==
    /\ pc[t] = "set"
    /\ old' = [old EXCEPT ![t] = sState]
    /\ sState' = NewState(t)
    /\ told' = (told /\ sState' = sState)
    /\ main' = IF main = "asleep" /\ Broadcasts(NewState(t)) THEN "test" ELSE main
    /\ Goto(t, "changed")
    /\ UNCHANGED <<v12, s_closed, s_readerClosed, session, arg, queue, framework>>

\* Variant: only a state that was asked for is announced.
NotifyAsked(t) ==
    /\ pc[t] = "changed"
    /\ IF sState # old[t] /\ sState = arg[t]
       THEN told' = TRUE /\ Goto(t, "dispatch")
       ELSE Finish(t) /\ UNCHANGED told
    /\ UNCHANGED <<v12, sState, s_closed, s_readerClosed, main, session, arg, old, queue,
                   framework>>

\* sState # oldState, after the unlock
Notify(t) ==
    /\ pc[t] = "changed"
    /\ IF sState # old[t]
       THEN told' = TRUE /\ Goto(t, "dispatch")
       ELSE Finish(t) /\ UNCHANGED told
    /\ UNCHANGED <<v12, sState, s_closed, s_readerClosed, main, session, arg, old, queue,
                   framework>>

\* onSIMReady before RIL_VERSION 12, onRadioPowerOn from then on
Dispatch(t) ==
    /\ pc[t] = "dispatch"
    /\ IF v12 /\ sState = "ON" THEN Goto(t, "poll")
       ELSE IF ~v12 /\ sState = "SIM_READY" THEN Goto(t, "simReady")
       ELSE Finish(t)
    /\ UNCHANGED <<v12, sState, s_closed, s_readerClosed, main, session, arg, old, queue,
                   framework, told>>

\* pollSIMState: is it "no longer valid to poll"?
PollTest(t) ==
    /\ pc[t] = "poll"
    /\ IF sState = IF v12 THEN "UNAVAILABLE" ELSE "SIM_NOT_READY"
       THEN Goto(t, "status") ELSE Finish(t)
    /\ UNCHANGED <<v12, sState, s_closed, s_readerClosed, main, session, arg, old, queue,
                   framework, told>>

\* getSIMStatus's own test, and what pollSIMState makes of SIM_NOT_READY
StatusTest(t) ==
    /\ pc[t] = "status"
    /\ IF sState \in {"OFF", "UNAVAILABLE"}
       THEN Finish(t) /\ polls' = polls + 1
       ELSE Goto(t, "cpin") /\ UNCHANGED polls
    /\ UNCHANGED <<v12, sState, s_closed, s_readerClosed, main, session, arg, old, initDue,
                   framework, told>>

\* getSIMStatus's AT+CPIN?, which is refused on the current reader thread, and
\* the switch of pollSIMState
Cpin(t) ==
    /\ pc[t] = "cpin"
    /\ \E sim \in {"not ready", "locked", "ready"} :
          /\ sim # "not ready" => TRUE \in Results /\ t # session
          /\ polls' = IF sim = "not ready" THEN polls + 1 ELSE polls
          /\ IF sim # "not ready" /\ ~v12
             THEN Enter(t, IF sim = "ready" THEN "SIM_READY" ELSE "SIM_LOCKED_OR_ABSENT")
             ELSE /\ IF sim = "ready" THEN Goto(t, "simReady") ELSE Finish(t)
                  /\ UNCHANGED arg
    /\ UNCHANGED <<v12, sState, s_closed, s_readerClosed, main, session, old, initDue,
                   framework, told>>

\* onSIMReady's commands, whose results are not looked at
SimReady(t) ==
    /\ pc[t] = "simReady"
    /\ Finish(t)
    /\ UNCHANGED <<v12, sState, s_closed, s_readerClosed, main, session, arg, old, queue,
                   framework, told>>

-----------------------------------------------------------------------------
(* The request thread                                                      *)

InitializeCallback ==
    /\ pc[Rild] = "idle" /\ initDue > 0
    /\ initDue' = initDue - 1
    /\ Goto(Rild, "init")
    /\ UNCHANGED <<v12, sState, s_closed, s_readerClosed, main, session, arg, old, polls,
                   framework, told>>

\* The end of initializeCallback: isRadioOn, "assume radio is off on error"
IsRadioOn ==
    /\ pc[Rild] = "init"
    /\ \E on \in Results :
          Enter(Rild, IF ~on THEN "OFF" ELSE IF v12 THEN "ON" ELSE "SIM_READY")
    /\ UNCHANGED <<v12, sState, s_closed, s_readerClosed, main, session, old, queue,
                   framework, told>>

PollCallback ==
    /\ pc[Rild] = "idle" /\ polls > 0
    /\ polls' = polls - 1
    /\ Goto(Rild, "poll")
    /\ UNCHANGED <<v12, sState, s_closed, s_readerClosed, main, session, arg, old, initDue,
                   framework, told>>

Counted == IF onRequestCount < EarlyRequests THEN onRequestCount + 1 ELSE onRequestCount

\* getVersion: a new connection of the framework
Connect ==
    /\ pc[Rild] = "idle" /\ requests < MaxRequests
    /\ requests' = requests + 1
    /\ onRequestCount' = 0
    /\ UNCHANGED <<v12, sState, s_closed, s_readerClosed, main, session, pc, arg, old,
                   queue, want, told>>

\* onRequest, a request that does not touch the radio state: it is counted if
\* it passes the first test, which some do in every state
OtherRequest ==
    /\ pc[Rild] = "idle" /\ requests < MaxRequests
    /\ requests' = requests + 1
    /\ onRequestCount' = Counted
    /\ UNCHANGED <<v12, sState, s_closed, s_readerClosed, main, session, pc, arg, old,
                   queue, want, told>>

\* onRequest, GET_SIM_STATUS, which is served in every state
GetSimStatus ==
    /\ pc[Rild] = "idle" /\ requests < MaxRequests
    /\ requests' = requests + 1
    /\ onRequestCount' = Counted
    /\ Goto(Rild, "getSimStatus")
    /\ UNCHANGED <<v12, sState, s_closed, s_readerClosed, main, session, arg, old, queue,
                   want, told>>

\* Its getSIMStatus: without the radio SIM_NOT_READY, else AT+CPIN?, whose
\* result, got or not, is in the answer and changes no state
CardStatusTest ==
    /\ pc[Rild] = "getSimStatus"
    /\ IF sState \in {"OFF", "UNAVAILABLE"} THEN Finish(Rild) ELSE Goto(Rild, "query")
    /\ UNCHANGED <<v12, sState, s_closed, s_readerClosed, main, session, arg, old, queue,
                   framework, told>>
CardQuery ==
    /\ pc[Rild] = "query"
    /\ Finish(Rild)
    /\ UNCHANGED <<v12, sState, s_closed, s_readerClosed, main, session, arg, old, queue,
                   framework, told>>

\* onRequest, RADIO_POWER: an early power-off is answered and not carried out
RadioPower ==
    /\ pc[Rild] = "idle" /\ requests < MaxRequests
    /\ requests' = requests + 1
    /\ sState # "UNAVAILABLE"
    /\ onRequestCount' = Counted
    /\ \E onOff \in {"on", "off"} :
          /\ want' = onOff
          /\ IF onOff = "off" /\ Counted < EarlyRequests
             THEN UNCHANGED pc ELSE Goto(Rild, "power")
    /\ UNCHANGED <<v12, sState, s_closed, s_readerClosed, main, session, arg, old, queue,
                   told>>

\* requestRadioPower: is there anything to do?
RequestRadioPower ==
    /\ pc[Rild] = "power"
    /\ IF (want = "on") = (sState = "OFF") THEN Goto(Rild, "cfun") ELSE Finish(Rild)
    /\ UNCHANGED <<v12, sState, s_closed, s_readerClosed, main, session, arg, old, queue,
                   framework, told>>

\* AT+CFUN, with isRadioOn as the second opinion on a failed CFUN=1
Cfun ==
    /\ pc[Rild] = "cfun"
    /\ \E ok \in Results :
          IF ~ok THEN Finish(Rild) /\ UNCHANGED arg
          ELSE Enter(Rild, IF want = "off" THEN "OFF"
                           ELSE IF v12 THEN "ON" ELSE "SIM_NOT_READY")
    /\ UNCHANGED <<v12, sState, s_closed, s_readerClosed, main, session, old, queue,
                   framework, told>>

-----------------------------------------------------------------------------
(* The reader threads: the end of readerLoop                               *)

\* onReaderClosed of atchannel.c, when the device goes
OnReaderClosed(r) ==
    /\ pc[r] = "running"
    /\ s_readerClosed' = TRUE
    /\ Goto(r, "closing")
    /\ UNCHANGED <<v12, sState, s_closed, main, session, arg, old, queue, framework, told>>

\* onATReaderClosed: s_closed = 1, without s_state_mutex, then setRadioState
OnATReaderClosed(r) ==
    /\ pc[r] = "closing"
    /\ s_closed' = TRUE
    /\ Enter(r, "UNAVAILABLE")
    /\ UNCHANGED <<v12, sState, s_readerClosed, main, session, old, queue, framework, told>>

-----------------------------------------------------------------------------
(* mainLoop                                                                *)

\* Variant: s_closed is not reset.
ReopenClosed ==
    /\ main = "open"
    /\ main' = "reset"
    /\ UNCHANGED <<v12, sState, s_closed, s_readerClosed, session, pc, arg, old, queue,
                   framework, told>>

\* The device is there again: s_closed = 0
Reopen ==
    /\ main = "open"
    /\ s_closed' = FALSE
    /\ main' = "reset"
    /\ UNCHANGED <<v12, sState, s_readerClosed, session, pc, arg, old, queue, framework,
                   told>>

\* at_open
AtOpen ==
    /\ main = "reset" /\ session < MaxSessions
    /\ s_readerClosed' = FALSE
    /\ session' = session + 1
    /\ Goto(session + 1, "running")
    /\ main' = "opened"
    /\ UNCHANGED <<v12, sState, s_closed, arg, old, queue, framework, told>>

\* RIL_requestTimedCallback(initializeCallback), sleep(1)
QueueInit ==
    /\ main = "opened"
    /\ initDue' = initDue + 1
    /\ main' = "test"
    /\ UNCHANGED <<v12, sState, s_closed, s_readerClosed, session, pc, arg, old, polls,
                   framework, told>>

\* waitForClose: the test of its loop, with s_state_mutex
WaitForClose ==
    /\ main = "test"
    /\ main' = IF s_closed THEN "open" ELSE "asleep"
    /\ UNCHANGED <<v12, sState, s_closed, s_readerClosed, session, pc, arg, old, queue,
                   framework, told>>

\* pthread_cond_wait may return unasked
SpuriousWake ==
    /\ main = "asleep"
    /\ main' = "test"
    /\ UNCHANGED <<v12, sState, s_closed, s_readerClosed, session, pc, arg, old, queue,
                   framework, told>>

-----------------------------------------------------------------------------
StateStep(t) == \/ SetState(t) \/ Notify(t) \/ Dispatch(t) \/ PollTest(t)
                \/ StatusTest(t) \/ Cpin(t) \/ SimReady(t)
RildStep == IsRadioOn \/ RequestRadioPower \/ Cfun \/ CardStatusTest \/ CardQuery
Framework == Connect \/ OtherRequest \/ GetSimStatus \/ RadioPower
MainStep == Reopen \/ AtOpen \/ QueueInit \/ WaitForClose

Next ==
    \/ \E t \in Threads : StateStep(t)
    \/ RildStep \/ InitializeCallback \/ PollCallback \/ Framework
    \/ \E r \in Readers : OnReaderClosed(r) \/ OnATReaderClosed(r)
    \/ MainStep \/ SpuriousWake

Spec == Init /\ [][Next]_vars

\* Threads run, commands return (ATChannel's EveryCallReturns), the device comes
\* back, and callbacks are run in the order of their times: polling, which
\* queues itself again for a second later, does not keep initializeCallback
\* from its turn.
FairSpec ==
    /\ Spec
    /\ \A t \in Threads : WF_vars(StateStep(t))
    /\ \A r \in Readers : WF_vars(OnATReaderClosed(r))
    /\ WF_vars(RildStep) /\ WF_vars(MainStep)
    /\ SF_vars(InitializeCallback) /\ WF_vars(PollCallback)

-----------------------------------------------------------------------------
(* Properties *)

\* The values the state takes.
TypeOK ==
    /\ v12 \in BOOLEAN /\ sState \in States
    /\ s_closed \in BOOLEAN /\ s_readerClosed \in BOOLEAN
    /\ main \in {"open", "reset", "opened", "test", "asleep"}
    /\ session \in 0 .. MaxSessions
    /\ pc \in [Threads -> Places]
    /\ arg \in [Threads -> States] /\ old \in [Threads -> States]
    /\ want \in {"on", "off"} /\ onRequestCount \in 0 .. EarlyRequests
    /\ requests \in Nat /\ initDue \in Nat /\ polls \in Nat /\ told \in BOOLEAN

\* "If we're closed, the only reasonable state is RADIO_STATE_UNAVAILABLE": once
\* onATReaderClosed has set the state, no initialization or power request that
\* is still on its way takes it out of UNAVAILABLE until the next open.
ClosedIsUnavailable ==
    s_closed /\ pc[session] # "set" => sState = "UNAVAILABLE"

\* Every change of sState is announced, although setRadioState compares with
\* oldState after it has released the mutex: while the framework has not been
\* told, some thread is still going to tell it.
Announced ==
    ~told => \E t \in Threads : pc[t] = "changed" /\ old[t] # sState

\* mainLoop does not sleep through the loss of the device, although s_closed is
\* set without s_state_mutex and the state may be UNAVAILABLE already: the
\* broadcast of onATReaderClosed's setRadioState is still to come.
CloseNotMissed ==
    main = "asleep" /\ s_closed => pc[session] = "set"

\* The loss of the device leads to another open.
LossReopens ==
    \A r \in Readers : pc[r] = "closing" /\ r < MaxSessions ~> session > r

\* Every open leads out of UNAVAILABLE, unless the device is lost again:
\* initializeCallback sets the state, and s_closed does not prevent it.  (It may
\* fall back when the reader of the open before has still not set its own.)
ComesUp ==
    \A r \in Readers : main = "opened" /\ session = r
                      ~> sState # "UNAVAILABLE" \/ pc[r] # "running"

\* "onSimReady() and onRadioPowerOn() cannot be called from the AT reader
\* thread.  Currently, this doesn't happen".
NotOnReader ==
    \A r \in Readers : pc[r] \notin {"poll", "simReady"}

\* onRadioPowerOn does "post-AT+CFUN=1 initialization" by calling pollSIMState:
\* with the radio on, pollSIMState asks the modem for the SIM's state, as
\* GET_SIM_STATUS (place "query") does when the framework wants to know.
SimIsPolled ==
    \A on \in {"ON", "SIM_NOT_READY"} :
        sState = on ~> sState # on \/ \E t \in Threads : pc[t] = "cpin"

-----------------------------------------------------------------------------
\* Inductive: which readers there are, and who may have set or reset s_closed.
Closed(r) == pc[r] \notin {"none", "running", "closing"}
ReadersInv ==
    /\ pc[Rild] \notin {"none", "running", "closing"}
    /\ \A r \in Readers : /\ r > session => pc[r] = "none"
                          /\ r < session => Closed(r)
                          /\ r = session => pc[r] # "none"
    /\ s_closed => session # 0 /\ Closed(session) /\ main # "reset"
    /\ main = "open" => session = 0 \/ s_closed
    /\ main = "reset" => Closed(session)
===============================================================================
