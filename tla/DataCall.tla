------------------------------- MODULE DataCall -------------------------------
(***************************************************************************)
(* The data call: requestSetupDataCall and requestDeactivateDataCall of    *)
(* reference-ril.c, on the request thread, and pppd.c's supervision of the *)
(* pppd process.  pppd_start creates a detached thread that dials, forks   *)
(* pppd and waits for it, again and again; pppd_stop sets pppd_quit, forks *)
(* a child that kills pppd, and waits at most 15 s for the thread to end.  *)
(* The two share pppd_pid, pppd_thread, pppd_quit and the two data call    *)
(* counters without any lock.                                              *)
(***************************************************************************)
EXTENDS Integers, FiniteSets

CONSTANTS
    MaxThreads,  \* bound: supervisor threads created in all
    MaxRequests, \* bound: requests made in all
    MaxPolls,    \* the 50 polls of requestSetupDataCall for an address
    MaxFails,    \* the 3 failed calls after which a supervisor gives up
    MaxExits,    \* bound: pppd processes that end of themselves
    MaxLosses,   \* bound: losses of the AT channel
    MayGiveUp    \* whether pppd_stop's 15 s may run out

Threads == 1 .. MaxThreads
Nobody  == 0       \* no process, no thread; kill(0, ...) means the RIL's own group

\* Where the request thread is, and a supervisor thread, and its pppd process:
\* running its chat script, with an address on ppp0, or dead and not reaped.
Places    == {"idle", "begin", "pppd_stop", "test", "fork", "wait", "start", "poll",
              "list", "mark"}
SupPlaces == {"none", "top", "chat", "dial", "forked", "waitpid", "reaped",
              "notify", "gone"}
Children  == {"none", "chat", "up", "dead"}

ASSUME BoundsAssumption ==
    /\ MaxThreads \in Nat \ {0} /\ MaxRequests \in Nat /\ MaxPolls \in Nat \ {0}
    /\ MaxFails \in Nat /\ MaxExits \in Nat /\ MaxLosses \in Nat
    /\ MayGiveUp \in BOOLEAN

VARIABLES
    pc, request, signo, \* the request thread, its request and pppd_stop's signal
    retry,              \* requestSetupDataCall's poll counter
    sup,                \* each supervisor thread's place
    child,              \* the pppd process each of them has forked
    killers,            \* forked kill helpers: the process each one kills
    pppd_pid, pppd_thread, pppd_quit,
    bSetupDataCallCompelete, nSetupDataCallFailTimes,
    s_closed,
    callbacks,          \* onDataCallExit callbacks requested
    answer,             \* history: how the last request was answered
    requests, created, exits, losses, \* counters of the bounds
    gaveUp,             \* history: a pppd_stop has returned without success
    ended,              \* history: supervisors whose pppd has ended of itself, up
                        \* to the moment they clear its pid
    missed              \* history: one of them cleared it since the last test of
                        \* pppd_pid by pppd_stop

rild == <<pc, request, signo, retry>>
flags == <<bSetupDataCallCompelete, nSetupDataCallFailTimes>>
pppd == <<pppd_pid, pppd_thread, pppd_quit>>
procs == <<sup, child, killers>>
world == <<s_closed, exits, losses, ended, missed>>
history == <<callbacks, answer, requests, created, gaveUp>>
vars == <<rild, procs, pppd, flags, world, history>>

Init ==
    /\ pc = "idle" /\ request = "none" /\ signo = "none" /\ retry = 0
    /\ sup = [t \in Threads |-> "none"] /\ child = [t \in Threads |-> "none"]
    /\ killers = {}
    /\ pppd_pid = Nobody /\ pppd_thread = Nobody /\ pppd_quit = FALSE
    /\ bSetupDataCallCompelete = FALSE /\ nSetupDataCallFailTimes = 0
    /\ s_closed = FALSE
    /\ callbacks = 0 /\ answer = "none"
    /\ requests = 0 /\ created = 0 /\ exits = 0 /\ losses = 0
    /\ gaveUp = FALSE /\ ended = {} /\ missed = FALSE

Goto(place) == pc' = place
Running(t) == child[t] \in {"chat", "up"}
Active(t) == sup[t] \notin {"none", "gone"}
HasAddress == \E t \in Threads : child[t] = "up"

-----------------------------------------------------------------------------
(* The request thread                                                      *)

\* RIL_onRequestComplete of a data call request
Answer(how) == answer' = how

\* RIL_REQUEST_SETUP_DATA_CALL, up to the checks of the radio and the network
RequestSetup ==
    /\ pc = "idle" /\ requests < MaxRequests
    /\ requests' = requests + 1
    /\ request' = "setup"
    /\ bSetupDataCallCompelete' = FALSE /\ nSetupDataCallFailTimes' = 0
    /\ Goto("begin") /\ Answer("none")
    /\ UNCHANGED <<signo, retry, procs, pppd, world, callbacks, created, gaveUp>>

\* isRadioOn and netwrokDataReady refuse, or pppd_start begins with
\* pppd_stop(SIGKILL)
CheckNetwork ==
    /\ pc = "begin"
    /\ \/ Goto("idle") /\ Answer("failure") /\ UNCHANGED signo
       \/ Goto("pppd_stop") /\ signo' = "KILL" /\ UNCHANGED answer
    /\ UNCHANGED <<request, retry, procs, pppd, flags, world, callbacks, requests,
                   created, gaveUp>>

\* RIL_REQUEST_DEACTIVATE_DATA_CALL
RequestDeactivate ==
    /\ pc = "idle" /\ requests < MaxRequests
    /\ requests' = requests + 1
    /\ request' = "deactivate" /\ signo' = "TERM"
    /\ Goto("pppd_stop") /\ Answer("none")
    /\ UNCHANGED <<retry, procs, pppd, flags, world, callbacks, created, gaveUp>>

\* What follows pppd_stop's return
Stopped ==
    IF request = "setup" THEN Goto("start") /\ UNCHANGED answer
                         ELSE Goto("idle") /\ Answer("success")

\* Variant: a supervisor without a process is not waited for.
PppdStopPidOnly ==
    /\ pc = "pppd_stop"
    /\ pppd_quit' = TRUE
    /\ IF pppd_pid = Nobody THEN Stopped
                            ELSE Goto("test") /\ UNCHANGED answer
    /\ UNCHANGED <<request, signo, retry, procs, pppd_pid, pppd_thread, flags, world,
                   callbacks, requests, created, gaveUp>>

\* pppd_stop up to its wait for chat, which is none: pppd_sleep returns at
\* once while pppd_quit is set, and the 50 polls change nothing
PppdStop ==
    /\ pc = "pppd_stop"
    /\ pppd_quit' = TRUE
    /\ IF pppd_pid = Nobody /\ pppd_thread = Nobody
       THEN Stopped
       ELSE Goto("test") /\ UNCHANGED answer
    /\ UNCHANGED <<request, signo, retry, procs, pppd_pid, pppd_thread, flags, world,
                   callbacks, requests, created, gaveUp>>

\* Variant: the pid is not tested.
TestPidDropped ==
    /\ pc = "test"
    /\ Goto("fork")
    /\ missed' = FALSE
    /\ UNCHANGED <<request, signo, retry, procs, pppd, flags, s_closed, exits, losses,
                   ended, history>>

\* if (pppd_pid != 0)
TestPid ==
    /\ pc = "test"
    /\ Goto(IF pppd_pid # Nobody THEN "fork" ELSE "wait")
    /\ missed' = FALSE
    /\ UNCHANGED <<request, signo, retry, procs, pppd, flags, s_closed, exits, losses,
                   ended, history>>

\* fork(): the child reads the pppd_pid of this moment
ForkKiller ==
    /\ pc = "fork"
    /\ killers' = killers \cup {pppd_pid}
    /\ Goto("wait")
    /\ UNCHANGED <<request, signo, retry, sup, child, pppd, flags, world, history>>

\* Variant: the wait is over as soon as the process is gone.
StopWaitedPidOnly ==
    /\ pc = "wait"
    /\ pppd_pid = Nobody
    /\ Stopped
    /\ UNCHANGED <<request, signo, retry, procs, pppd, flags, world, callbacks, requests,
                   created, gaveUp>>

\* The do-while loop sees both gone, or has used up its 15 s
StopWaited ==
    /\ pc = "wait"
    /\ pppd_pid = Nobody /\ pppd_thread = Nobody
    /\ Stopped
    /\ UNCHANGED <<request, signo, retry, procs, pppd, flags, world, callbacks, requests,
                   created, gaveUp>>
StopGaveUp ==
    /\ pc = "wait" /\ MayGiveUp
    /\ pppd_pid # Nobody \/ pppd_thread # Nobody
    /\ Stopped
    /\ gaveUp' = TRUE
    /\ UNCHANGED <<request, signo, retry, procs, pppd, flags, world, callbacks, requests,
                   created>>

\* The rest of pppd_start: a missing program or a failed pthread_create is an
\* error (pppd_quit is cleared before the latter); else a new supervisor
NewThread == created + 1
PppdStart ==
    /\ pc = "start"
    /\ \/ /\ Goto("idle") /\ Answer("failure")
          /\ pppd_quit' \in {pppd_quit, FALSE}
          /\ UNCHANGED <<retry, sup, pppd_thread, created>>
       \/ /\ created < MaxThreads
          /\ pppd_quit' = FALSE
          /\ created' = NewThread
          /\ pppd_thread' = NewThread
          /\ sup' = [sup EXCEPT ![NewThread] = "top"]
          /\ Goto("poll") /\ retry' = 0 /\ UNCHANGED answer
    /\ UNCHANGED <<request, signo, child, killers, pppd_pid, flags, world, callbacks,
                   requests, gaveUp>>

\* The loop's own test ends it, after the first poll for an address or before
LoopEnds(polled) ==
    polled = MaxPolls \/ s_closed \/ nSetupDataCallFailTimes > MaxFails

\* Variant: the polls are not counted, beyond the first.
PollUncounted ==
    /\ pc = "poll"
    /\ \/ /\ IF LoopEnds(0) THEN retry = 0 ELSE pppd_thread # Nobody /\ HasAddress
          /\ Goto("list") /\ UNCHANGED <<retry, answer>>
       \/ /\ IF LoopEnds(0) THEN retry > 0 ELSE pppd_thread = Nobody
          /\ Goto("idle") /\ Answer("failure") /\ UNCHANGED retry
       \/ /\ ~LoopEnds(0) /\ pppd_thread # Nobody /\ ~HasAddress
          /\ retry' = 1 /\ UNCHANGED <<pc, answer>>
    /\ UNCHANGED <<request, signo, procs, pppd, flags, world, callbacks, requests,
                   created, gaveUp>>

\* One turn of the wait for an address.  ppp_local_ip is empty until the first
\* poll: a loop that ends before it does not find "0.0.0.0" in it and goes on as
\* if there were an address.  (waitpid of the RIL's own pid never returns it, so
\* that test is no way out.)
Poll ==
    /\ pc = "poll"
    /\ \/ /\ IF LoopEnds(retry) THEN retry = 0 ELSE pppd_thread # Nobody /\ HasAddress
          /\ Goto("list") /\ UNCHANGED <<retry, answer>>
       \/ /\ IF LoopEnds(retry) THEN retry > 0 ELSE pppd_thread = Nobody
          /\ Goto("idle") /\ Answer("failure") /\ UNCHANGED retry
       \/ /\ ~LoopEnds(retry) /\ pppd_thread # Nobody /\ ~HasAddress
          /\ retry' = retry + 1 /\ UNCHANGED <<pc, answer>>
    /\ UNCHANGED <<request, signo, procs, pppd, flags, world, callbacks, requests,
                   created, gaveUp>>

\* ip route add, requestOrSendDataCallList(&t): the answer
SendDataCallList ==
    /\ pc = "list"
    /\ Goto("mark")
    /\ \E how \in {"success", "failure"} : Answer(how)
    /\ UNCHANGED <<request, signo, retry, procs, pppd, flags, world, callbacks,
                   requests, created, gaveUp>>

\* the assignments at the end of requestSetupDataCall
MarkComplete ==
    /\ pc = "mark"
    /\ bSetupDataCallCompelete' = TRUE /\ nSetupDataCallFailTimes' = 0
    /\ Goto("idle")
    /\ UNCHANGED <<request, signo, retry, procs, pppd, world, history>>

RildStep == CheckNetwork \/ PppdStop \/ TestPid \/ ForkKiller \/ StopWaited \/ StopGaveUp
            \/ PppdStart \/ Poll \/ SendDataCallList \/ MarkComplete

-----------------------------------------------------------------------------
(* The supervisor threads: pppd_thread_function                            *)

SupFrame == UNCHANGED <<rild, killers, world, answer, requests, created, gaveUp>>
At(t, from, to) == sup[t] = from /\ sup' = [sup EXCEPT ![t] = to]

\* The thread ends: pppd_thread = 0, whosever id it holds by now
End(t) == sup' = [sup EXCEPT ![t] = "gone"] /\ pppd_thread' = Nobody

\* while (!pppd_quit); the device is opened, or tried again after a pause
Top(t) ==
    /\ sup[t] = "top"
    /\ IF pppd_quit THEN End(t)
       ELSE /\ sup' \in {sup, [sup EXCEPT ![t] = "chat"]}
            /\ UNCHANGED pppd_thread
    /\ UNCHANGED <<child, pppd_pid, pppd_quit, flags, callbacks>> /\ SupFrame

\* chat(modem_fd, "AT\n", "OK"): OK is read, and the modem told the APN; or a
\* write, poll or read fails (a poll that times out is an error, too: errno is
\* not ETIMEDOUT), and the modem is taken out of data mode
ChatResults == {"OK", "error"}
Chat(t) ==
    /\ \E ret \in ChatResults : At(t, "chat", IF ret = "OK" THEN "dial" ELSE "notify")
    /\ UNCHANGED <<child, pppd, flags, callbacks>> /\ SupFrame

\* fork: fails and ends the thread, or starts pppd
Fork(t) ==
    /\ sup[t] = "dial"
    /\ \/ End(t) /\ UNCHANGED child
       \/ /\ sup' = [sup EXCEPT ![t] = "forked"]
          /\ child' = [child EXCEPT ![t] = "chat"]
          /\ UNCHANGED pppd_thread
    /\ UNCHANGED <<pppd_pid, pppd_quit, flags, callbacks>> /\ SupFrame

\* pppd_pid = child_pid
SetPid(t) ==
    /\ At(t, "forked", "waitpid")
    /\ pppd_pid' = t
    /\ UNCHANGED <<child, pppd_thread, pppd_quit, flags, callbacks>> /\ SupFrame

\* Variant: pppd_pid is cleared before the process is waited for.
WaitPidCleared(t) ==
    /\ sup[t] = "waitpid"
    /\ IF pppd_pid = t
       THEN pppd_pid' = Nobody /\ UNCHANGED <<sup, child>>
       ELSE /\ child[t] = "dead"
            /\ sup' = [sup EXCEPT ![t] = "reaped"] /\ child' = [child EXCEPT ![t] = "none"]
            /\ UNCHANGED pppd_pid
    /\ UNCHANGED <<pppd_thread, pppd_quit, flags, callbacks>> /\ SupFrame

\* waitpid(child_pid, ...) returns
WaitPid(t) ==
    /\ At(t, "waitpid", "reaped")
    /\ child[t] = "dead"
    /\ child' = [child EXCEPT ![t] = "none"]
    /\ UNCHANGED <<pppd, flags, callbacks>> /\ SupFrame

\* pppd_pid = 0
ClearPid(t) ==
    /\ At(t, "reaped", "notify")
    /\ pppd_pid' = Nobody
    /\ ended' = ended \ {t} /\ missed' = (missed \/ t \in ended)
    /\ UNCHANGED <<rild, child, killers, pppd_thread, pppd_quit, flags, s_closed, exits,
                   losses, history>>

\* Variants: the exit is not reported; failed calls have no limit.
NotifySilent(t) ==
    /\ sup[t] = "notify"
    /\ IF bSetupDataCallCompelete
       THEN /\ bSetupDataCallCompelete' = FALSE
            /\ End(t) /\ UNCHANGED nSetupDataCallFailTimes
       ELSE /\ nSetupDataCallFailTimes' = nSetupDataCallFailTimes + 1
            /\ IF nSetupDataCallFailTimes' > MaxFails \/ pppd_quit THEN End(t)
               ELSE sup' = [sup EXCEPT ![t] = "top"] /\ UNCHANGED pppd_thread
            /\ UNCHANGED bSetupDataCallCompelete
    /\ UNCHANGED <<child, pppd_pid, pppd_quit, callbacks>> /\ SupFrame
NotifyNoLimit(t) ==
    /\ sup[t] = "notify"
    /\ IF bSetupDataCallCompelete
       THEN /\ callbacks' = callbacks + 1
            /\ bSetupDataCallCompelete' = FALSE
            /\ End(t) /\ UNCHANGED nSetupDataCallFailTimes
       ELSE /\ nSetupDataCallFailTimes' = nSetupDataCallFailTimes + 1
            /\ IF pppd_quit THEN End(t)
               ELSE sup' = [sup EXCEPT ![t] = "top"] /\ UNCHANGED pppd_thread
            /\ UNCHANGED <<bSetupDataCallCompelete, callbacks>>
    /\ UNCHANGED <<child, pppd_pid, pppd_quit>> /\ SupFrame

\* notifyDataCallProcessExit, and what the loop makes of its result
Notify(t) ==
    /\ sup[t] = "notify"
    /\ IF bSetupDataCallCompelete
       THEN /\ callbacks' = callbacks + 1
            /\ bSetupDataCallCompelete' = FALSE
            /\ End(t) /\ UNCHANGED nSetupDataCallFailTimes
       ELSE /\ nSetupDataCallFailTimes' = nSetupDataCallFailTimes + 1
            /\ IF nSetupDataCallFailTimes' > MaxFails \/ pppd_quit THEN End(t)
               ELSE sup' = [sup EXCEPT ![t] = "top"] /\ UNCHANGED pppd_thread
            /\ UNCHANGED <<bSetupDataCallCompelete, callbacks>>
    /\ UNCHANGED <<child, pppd_pid, pppd_quit>> /\ SupFrame

SupStep(t) == Top(t) \/ Chat(t) \/ Fork(t) \/ SetPid(t) \/ WaitPid(t) \/ ClearPid(t)
              \/ Notify(t)

-----------------------------------------------------------------------------
(* The processes: pppd (external) and pppd_stop's kill helper              *)

ProcFrame == UNCHANGED <<rild, sup, pppd, flags, s_closed, losses, missed, history>>

\* pppd's connect script is done, and the peer gives ppp0 an address
Connected(t) ==
    /\ child[t] = "chat"
    /\ child' = [child EXCEPT ![t] = "up"]
    /\ UNCHANGED <<killers, exits, ended>> /\ ProcFrame

\* pppd ends: no carrier, no answer, the peer hangs up
PppdExit(t) ==
    /\ Running(t) /\ exits < MaxExits
    /\ child' = [child EXCEPT ![t] = "dead"]
    /\ exits' = exits + 1 /\ ended' = ended \cup {t}
    /\ UNCHANGED killers /\ ProcFrame

\* kill(pppd_pid, signo), and SIGKILL right after a SIGTERM: the helper's
\* pppd_sleep does not wait either.  The helper of process 0 stays in killers,
\* to be seen: it signals the RIL's own process group.
Kill(t) ==
    /\ t \in killers
    /\ killers' = killers \ {t}
    /\ child' = IF Running(t) THEN [child EXCEPT ![t] = "dead"] ELSE child
    /\ UNCHANGED <<exits, ended>> /\ ProcFrame

\* The AT channel is lost, and mainLoop reopens it
Lose ==
    /\ ~s_closed /\ losses < MaxLosses
    /\ s_closed' = TRUE /\ losses' = losses + 1
    /\ UNCHANGED <<rild, procs, pppd, flags, exits, ended, missed, history>>
Reopen ==
    /\ s_closed
    /\ s_closed' = FALSE
    /\ UNCHANGED <<rild, procs, pppd, flags, exits, losses, ended, missed, history>>

-----------------------------------------------------------------------------
Next ==
    \/ RequestSetup \/ RequestDeactivate \/ RildStep
    \/ \E t \in Threads : SupStep(t) \/ Connected(t) \/ PppdExit(t) \/ Kill(t)
    \/ Lose \/ Reopen

Spec == Init /\ [][Next]_vars

\* The threads and the kill helpers are scheduled; requests, pppd's fate and
\* the device owe nothing.
FairSpec ==
    /\ Spec
    /\ WF_vars(RildStep)
    /\ \A t \in Threads : WF_vars(SupStep(t)) /\ WF_vars(Kill(t))

-----------------------------------------------------------------------------
(* Properties *)

\* The values the state takes.
RildOK ==
    /\ pc \in Places /\ request \in {"none", "setup", "deactivate"}
    /\ signo \in {"none", "KILL", "TERM"} /\ retry \in 0 .. MaxPolls
PppdOK ==
    /\ pppd_pid \in {Nobody} \cup Threads /\ pppd_thread \in {Nobody} \cup Threads
    /\ pppd_quit \in BOOLEAN
    /\ sup \in [Threads -> SupPlaces] /\ child \in [Threads -> Children]
    /\ killers \subseteq {Nobody} \cup Threads
FlagsOK ==
    /\ bSetupDataCallCompelete \in BOOLEAN /\ s_closed \in BOOLEAN /\ gaveUp \in BOOLEAN
    /\ answer \in {"none", "success", "failure"}
    /\ ended \subseteq Threads /\ missed \in BOOLEAN
CountersOK ==
    /\ nSetupDataCallFailTimes \in Nat /\ callbacks \in Nat /\ requests \in Nat /\ exits \in Nat /\ losses \in Nat
    /\ created \in 0 .. MaxThreads
TypeOK == RildOK /\ PppdOK /\ FlagsOK /\ CountersOK

\* As long as no pppd_stop has given up, at most one supervisor thread is there
\* and pppd_thread is its id: pppd_start stops the old one, which has ended when
\* the new one is created ("Make sure there is no existing connection or pppd
\* instance running").
OneSupervisor ==
    ~gaveUp => \A t \in Threads : Active(t) => pppd_thread = t

\* A deactivation that is answered has stopped the call: no thread that could
\* dial again, no pppd, until the next setup; unless pppd_stop gave up.
DeactivatedMeansDown ==
    pc = "idle" /\ request = "deactivate" /\ ~gaveUp =>
        \A t \in Threads : ~Active(t) /\ child[t] = "none"

\* pppd_pid is the pid of a process that its supervisor has not reaped, or just
\* has; and the process that a supervisor waits for is the one in pppd_pid, so
\* that pppd_stop can find it.
PidIsChild ==
    ~gaveUp =>
        \A t \in Threads : pppd_pid = t <=> sup[t] \in {"waitpid", "reaped"}

\* pppd_stop does not tell its helper to kill pid 0, the RIL's own process group,
\* unless the supervisor of a pppd that ended of itself has cleared pppd_pid
\* between this call's test of it and this call's fork: a pppd that a helper
\* killed is reaped only while pppd_stop waits, however many calls there were.
OwnGroupSpared ==
    pc = "fork" /\ pppd_pid = Nobody => missed \/ gaveUp

\* A supervisor ends once more than MaxFails calls have failed.  The count goes
\* one further than that, no more: requestSetupDataCall resets it before it
\* stops the old supervisor, which may use it up, and the new one ends with its
\* first failed call.
FailsBounded == ~gaveUp => nSetupDataCallFailTimes <= MaxFails + 2

\* The exit of a pppd whose call is complete ends the completion, and the
\* completion ends only with a report to the framework or a new setup, which
\* takes it back: no exit of a complete call goes unreported.
Exited == \E t \in Threads : sup[t] = "waitpid" /\ child[t] = "dead"
ExitReported ==
    /\ bSetupDataCallCompelete /\ Exited ~> ~bSetupDataCallCompelete
    /\ [][bSetupDataCallCompelete /\ ~bSetupDataCallCompelete' =>
             callbacks' = callbacks + 1 \/ (pc = "idle" /\ pc' = "begin")]_vars

\* Every data call request comes back to the request thread's loop: the wait
\* for an address and the wait for the supervisor's end are bounded.
RequestReturns == pc # "idle" ~> pc = "idle"

=============================================================================
