------------------------------ MODULE ATChannel ------------------------------
(***************************************************************************)
(* The AT command channel of atchannel.c: command threads that send one    *)
(* command at a time and wait for its final response on s_commandcond, the *)
(* reader thread that sorts the modem's lines into final responses,        *)
(* intermediate responses and unsolicited lines, the handshake, the        *)
(* teardown after an end of file, and mainLoop's reopening (at_open, which *)
(* does not take s_commandmutex).  The modem at the other end of the fd is *)
(* external and modelled by what it may write.                             *)
(*                                                                         *)
(* A line is [k, n, i, p]: its kind, the number of the command it answers  *)
(* (0: none), how many intermediate lines of that command there are up to  *)
(* it and the response prefix it starts with.                              *)
(***************************************************************************)
EXTENDS Integers, Sequences, SequencesExt

CONSTANTS
    Threads,           \* the threads that issue commands (the program has one)
    Calls,             \* the calls they may make, see CallType
    MaxCalls,          \* bound: calls made in all
    MaxUrc,            \* bound: unsolicited lines sent by the modem
    UrcKinds,          \* the kinds of unsolicited lines the modem sends
    HandshakeRetries,  \* HANDSHAKE_RETRY_COUNT
    MaxInfo,           \* bound: intermediate lines per command
    MaxSessions,       \* bound: successful opens of the device
    ModemMayDrop,      \* whether the modem may leave a command unanswered
    DrainCovers,       \* whether at_handshake's pause outlasts late answers
    NoThread, NoResp, NoLine

\* A command thread's place in at_send_command_full_nolock and its callers
Places   == {"idle", "begin", "write", "check", "wait", "wake", "expired",
             "drain", "crashed"}
Types    == {"NO_RESULT", "NUMERIC", "SINGLELINE", "MULTILINE"}
PrefixKinds == {"none", "digit", "P"}
Errs     == {"none", "OK", "GENERIC", "PENDING", "CLOSED", "TIMEOUT", "INVALID"}

\* hs: ATE0 sent by at_handshake;  out: the caller passed a pp_outResponse;
\* sms: it passed an smspdu.
CallType == [type : Types, prefix : PrefixKinds, sms : BOOLEAN, out : BOOLEAN,
             hs : BOOLEAN]

Kinds    == {"ok", "error", "nocarrier", "prompt", "info", "urc", "cmt"}
CommandType == [n : Nat, p : PrefixKinds, sms : BOOLEAN]
LineType == [k : Kinds, n : Nat, i : Nat, p : PrefixKinds]

\* ATResponse, with the s_type and s_responsePrefix stored beside it (in c);
\* inter is in the list's order: newest first until it is reversed.
Response == [n : Nat, c : CallType, final : LineType \cup {NoLine},
             inter : Seq(LineType)]

ASSUME ThreadsAssumption == Threads # {} /\ NoThread \notin Threads
ASSUME CallsAssumption ==
    /\ Calls \subseteq CallType
    /\ \A c \in Calls : /\ ~c.hs
                        /\ c.type = "NO_RESULT" <=> c.prefix = "none"
                        /\ c.type = "NUMERIC" <=> c.prefix = "digit"
ASSUME BoundsAssumption ==
    /\ HandshakeRetries \in Nat \ {0}
    /\ MaxCalls \in Nat /\ MaxUrc \in Nat /\ MaxInfo \in Nat
    /\ MaxSessions \in Nat \ {0}
    /\ ModemMayDrop \in BOOLEAN /\ DrainCovers \in BOOLEAN
    /\ UrcKinds \subseteq {"urc", "cmt", "nocarrier"}
ASSUME NoLineAssumption == NoLine \notin LineType
ASSUME NoRespAssumption == NoResp \notin Response

VARIABLES
    mutex,           \* owner of s_commandmutex: a command thread or NoThread
    pc, call, tries, \* per command thread: where it is, what it asked for and
                     \* at_handshake's loop counter
    sp_response,     \* the pending command's response, or NoResp
    s_smsPDU,        \* whether s_smsPDU # NULL
    s_readerClosed,
    s_closed,        \* reference-ril.c: what waitForClose waits for
    reader,          \* the reader thread's place
    opening,         \* mainLoop is inside at_open
    initQueued,      \* initializeCallback is due on a command thread
    session,         \* number of the current open
    toModem, modem,  \* commands written and not answered; the modem's place
    input, eof,      \* lines not read yet; the device is gone
    sent, calls, urcs, \* counters: written commands, calls, unsolicited lines
    slips,           \* history: abandoned commands plus stray final responses
    ret              \* history: what the thread's current command returned

shared == <<sp_response, s_smsPDU>>
closing == <<s_readerClosed, s_closed, reader, opening, initQueued, session>>
device == <<toModem, modem, input, eof>>
thread == <<pc, call, tries>>
vars == <<mutex, thread, shared, closing, device, sent, calls, urcs, slips, ret>>

-----------------------------------------------------------------------------
Final(l) == l.k \in {"ok", "error", "nocarrier"}

Handshake0 == [type |-> "NO_RESULT", prefix |-> "none", sms |-> FALSE,
               out |-> FALSE, hs |-> TRUE]
NoRet == [n |-> 0, err |-> "none", final |-> NoLine, inter |-> <<>>]
RetType == [n : Nat, err : Errs, final : LineType \cup {NoLine},
            inter : Seq(LineType)]
ModemReady == [info |-> 0, prompt |-> "no"]

Init ==
    /\ mutex = NoThread
    /\ pc = [t \in Threads |-> "idle"]
    /\ call = [t \in Threads |-> Handshake0] /\ tries = [t \in Threads |-> 0]
    /\ sp_response = NoResp /\ s_smsPDU = FALSE
    /\ s_readerClosed = FALSE /\ s_closed = FALSE
    /\ reader = "read" /\ opening = FALSE
    /\ initQueued = TRUE /\ session = 1
    /\ toModem = <<>> /\ modem = ModemReady /\ input = <<>> /\ eof = FALSE
    /\ sent = 0 /\ calls = 0 /\ urcs = 0 /\ slips = 0
    /\ ret = [t \in Threads |-> NoRet]

-----------------------------------------------------------------------------
(* The command threads *)

\* Variant: one retry too many.
ReturnOnceMore(t, err, n, final, inter) ==
    /\ ret' = [ret EXCEPT ![t] = [n |-> n, err |-> err, final |-> final,
                                  inter |-> inter]]
    /\ IF call[t].hs /\ err # "OK" /\ tries[t] + 1 <= HandshakeRetries
       THEN /\ pc' = [pc EXCEPT ![t] = "begin"]
            /\ tries' = [tries EXCEPT ![t] = tries[t] + 1]
            /\ mutex' = t
       ELSE /\ pc' = [pc EXCEPT ![t] = "idle"]
            /\ mutex' = NoThread /\ UNCHANGED tries
    /\ UNCHANGED call

\* What follows the return of at_send_command_full_nolock: at_handshake
\* retries, or pauses, with the mutex still held; any other caller unlocks.
Return(t, err, n, final, inter) ==
    /\ ret' = [ret EXCEPT ![t] = [n |-> n, err |-> err, final |-> final,
                                  inter |-> inter]]
    /\ IF call[t].hs /\ err = "OK"
       THEN /\ pc' = [pc EXCEPT ![t] = "drain"]
            /\ mutex' = t /\ UNCHANGED tries
       ELSE IF call[t].hs /\ tries[t] + 1 < HandshakeRetries
       THEN /\ pc' = [pc EXCEPT ![t] = "begin"]
            /\ tries' = [tries EXCEPT ![t] = tries[t] + 1]
            /\ mutex' = t
       ELSE /\ pc' = [pc EXCEPT ![t] = "idle"]
            /\ mutex' = NoThread /\ UNCHANGED tries
    /\ UNCHANGED call

ClearPendingCommand == sp_response' = NoResp /\ s_smsPDU' = FALSE

\* goto error
Abort(t, err) == ClearPendingCommand /\ Return(t, err, 0, NoLine, <<>>)

\* at_send_command, _numeric, _singleline, _sms or _multiline, up to the lock
Call(t) ==
    /\ pc[t] = "idle" /\ calls < MaxCalls
    /\ \E c \in Calls : call' = [call EXCEPT ![t] = c]
    /\ pc' = [pc EXCEPT ![t] = "begin"]
    /\ calls' = calls + 1
    /\ ret' = [ret EXCEPT ![t] = NoRet]
    /\ UNCHANGED <<mutex, tries, shared, closing, device, sent, urcs, slips>>

\* initializeCallback calls at_handshake, up to the lock
Handshake(t) ==
    /\ pc[t] = "idle" /\ initQueued
    /\ initQueued' = FALSE
    /\ call' = [call EXCEPT ![t] = Handshake0]
    /\ tries' = [tries EXCEPT ![t] = 0]
    /\ pc' = [pc EXCEPT ![t] = "begin"]
    /\ ret' = [ret EXCEPT ![t] = NoRet]
    /\ UNCHANGED <<mutex, shared, s_readerClosed, s_closed, reader, opening,
                   session, device, sent, calls, urcs, slips>>

\* at_send_command_full_nolock up to writeline
Begin(t) ==
    /\ pc[t] = "begin" /\ mutex \in {NoThread, t}
    /\ IF sp_response # NoResp
       THEN Abort(t, "PENDING")
       ELSE /\ sp_response' = [n |-> sent + 1, c |-> call[t], final |-> NoLine,
                               inter |-> <<>>]
            /\ s_smsPDU' = call[t].sms
            /\ pc' = [pc EXCEPT ![t] = "write"]
            /\ mutex' = t
            /\ UNCHANGED <<call, tries, ret>>
    /\ UNCHANGED <<closing, device, sent, calls, urcs, slips>>

\* Variant: the command is written twice.
WriteTwice(t) ==
    /\ pc[t] = "write" /\ ~s_readerClosed /\ ~eof
    /\ LET c == [n |-> sent + 1, p |-> call[t].prefix, sms |-> call[t].sms]
       IN  toModem' = toModem \o <<c, c>>
    /\ sent' = sent + 1
    /\ pc' = [pc EXCEPT ![t] = "check"]
    /\ UNCHANGED <<mutex, call, tries, shared, closing, modem, input, eof, calls, urcs,
                   slips, ret>>

\* writeline: refuses a closed channel, and fails when the device is gone
Write(t) ==
    /\ pc[t] = "write"
    /\ IF s_readerClosed \/ eof
       THEN /\ Abort(t, IF s_readerClosed THEN "CLOSED" ELSE "GENERIC")
            /\ UNCHANGED <<toModem, sent>>
       ELSE /\ toModem' = Append(toModem, [n |-> sent + 1, p |-> call[t].prefix,
                                           sms |-> call[t].sms])
            /\ sent' = sent + 1
            /\ pc' = [pc EXCEPT ![t] = "check"]
            /\ UNCHANGED <<mutex, call, tries, shared, ret>>
    /\ UNCHANGED <<closing, modem, input, eof, calls, urcs, slips>>

\* Variant: a missing intermediate response is not checked for.
OutcomeUnchecked(t, r) == IF s_readerClosed THEN "CLOSED" ELSE "OK"

\* The caller's result once the wait is over, at_send_command_singleline's,
\* _sms's and _numeric's check of it included
Outcome(t, r) ==
    IF s_readerClosed THEN "CLOSED"
    ELSE IF /\ call[t].type \in {"SINGLELINE", "NUMERIC"} /\ call[t].out
            /\ r.final.k = "ok" /\ r.inter = <<>>
         THEN "INVALID" ELSE "OK"

\* The loop around pthread_cond_wait, entered with the mutex held, and what
\* follows it.  A response that is gone is a NULL that the loop dereferences.
Check(t) ==
    /\ pc[t] = "check"
    /\ IF sp_response = NoResp
       THEN /\ pc' = [pc EXCEPT ![t] = "crashed"]
            /\ UNCHANGED <<mutex, call, tries, shared, ret>>
       ELSE IF sp_response.final = NoLine /\ ~s_readerClosed
       THEN /\ pc' = [pc EXCEPT ![t] = "wait"]
            /\ mutex' = NoThread
            /\ UNCHANGED <<call, tries, shared, ret>>
       ELSE /\ ClearPendingCommand
            /\ Return(t, Outcome(t, sp_response), sp_response.n, sp_response.final,
                      IF call[t].out THEN Reverse(sp_response.inter)
                                     ELSE sp_response.inter)
    /\ UNCHANGED <<closing, device, sent, calls, urcs, slips>>

\* pthread_cond_wait may return unasked
SpuriousWake(t) ==
    /\ pc[t] = "wait"
    /\ pc' = [pc EXCEPT ![t] = "wake"]
    /\ UNCHANGED <<mutex, call, tries, shared, closing, device, sent, calls, urcs, slips, ret>>

\* A woken thread gets the mutex back
Resume(t) ==
    /\ pc[t] = "wake" /\ mutex = NoThread
    /\ mutex' = t
    /\ pc' = [pc EXCEPT ![t] = "check"]
    /\ UNCHANGED <<call, tries, shared, closing, device, sent, calls, urcs, slips, ret>>

\* pthread_cond_timedwait gives up; only the handshake waits with a timeout
Timeout(t) ==
    /\ pc[t] = "wait" /\ call[t].hs
    /\ pc' = [pc EXCEPT ![t] = "expired"]
    /\ UNCHANGED <<mutex, call, tries, shared, closing, device, sent, calls, urcs, slips, ret>>

\* Variant: a command that timed out stays pending.
ExpireStillPending(t) ==
    /\ pc[t] = "expired" /\ mutex = NoThread
    /\ Return(t, "TIMEOUT", 0, NoLine, <<>>)
    /\ slips' = slips + 1
    /\ UNCHANGED <<shared, closing, device, sent, calls, urcs>>

\* ETIMEDOUT, reported with the mutex back, whatever arrived meanwhile
Expire(t) ==
    /\ pc[t] = "expired" /\ mutex = NoThread
    /\ Abort(t, "TIMEOUT")
    /\ slips' = slips + 1
    /\ UNCHANGED <<closing, device, sent, calls, urcs>>

\* at_handshake's pause, which holds the mutex, is over
DrainEnd(t) ==
    /\ pc[t] = "drain"
    /\ DrainCovers => toModem = <<>>
    /\ pc' = [pc EXCEPT ![t] = "idle"]
    /\ mutex' = NoThread
    /\ UNCHANGED <<call, tries, shared, closing, device, sent, calls, urcs, slips, ret>>

ThreadStep(t) == Begin(t) \/ Write(t) \/ Check(t) \/ Resume(t) \/ Expire(t)
                 \/ DrainEnd(t)

-----------------------------------------------------------------------------
(* The reader thread.  readline and what is done with the line are one     *)
(* step: between the two the line is the reader's own.                     *)

\* pthread_cond_signal wakes one of the waiting threads, if any
Signal ==
    \/ /\ \A t \in Threads : pc[t] # "wait"
       /\ UNCHANGED pc
    \/ \E t \in Threads : /\ pc[t] = "wait"
                          /\ pc' = [pc EXCEPT ![t] = "wake"]

\* Variant: a multi-line answer is taken for a single line.
WantedOnce(l) ==
    /\ sp_response.c.type # "NO_RESULT"
    /\ sp_response.inter = <<>>
    /\ l.p = sp_response.c.prefix

\* The switch on s_type: does the pending command want this line?
Wanted(l) ==
    /\ sp_response.c.type # "NO_RESULT"
    /\ sp_response.c.type # "MULTILINE" => sp_response.inter = <<>>
    /\ l.p = sp_response.c.prefix

\* processLine's chain of conditions
Disposition(l) ==
    CASE sp_response = NoResp                 -> "unsolicited"
      [] sp_response # NoResp /\ Final(l)     -> "final"
      [] sp_response # NoResp /\ ~Final(l)    ->
            IF s_smsPDU /\ l.k = "prompt" THEN "prompt"
            ELSE IF Wanted(l) THEN "intermediate" ELSE "unsolicited"

\* processLine has the line and the mutex
TakeLine(d) ==
    /\ reader = "read" /\ mutex = NoThread
    /\ input # <<>> /\ Head(input).k # "cmt"
    /\ Disposition(Head(input)) = d
    /\ input' = Tail(input)

\* handleUnsolicited: nothing of the channel changes
ReadUnsolicited ==
    /\ TakeLine("unsolicited")
    /\ UNCHANGED <<mutex, thread, shared, closing, toModem, modem, eof, sent,
                   calls, urcs, slips, ret>>

\* Variant: the waiting thread is not signalled.
ReadFinalUnsignalled ==
    /\ TakeLine("final")
    /\ sp_response' = [sp_response EXCEPT !.final = Head(input)]
    /\ slips' = IF Head(input).n = 0 THEN slips + 1 ELSE slips
    /\ UNCHANGED <<mutex, thread, s_smsPDU, closing, toModem, modem, eof, sent,
                   calls, urcs, ret>>

\* handleFinalResponse; a final response of no command is a slip
ReadFinal ==
    /\ TakeLine("final")
    /\ sp_response' = [sp_response EXCEPT !.final = Head(input)]
    /\ Signal
    /\ slips' = IF Head(input).n = 0 THEN slips + 1 ELSE slips
    /\ UNCHANGED <<mutex, call, tries, s_smsPDU, closing, toModem, modem, eof, sent,
                   calls, urcs, ret>>

\* writeCtrlZ: the modem takes the text if it is at a prompt
ReadPrompt ==
    /\ TakeLine("prompt")
    /\ s_smsPDU' = FALSE
    /\ modem' = [modem EXCEPT !.prompt = IF @ = "sent" /\ ~eof THEN "done" ELSE @]
    /\ UNCHANGED <<mutex, thread, sp_response, closing, toModem, eof, sent,
                   calls, urcs, slips, ret>>

\* addIntermediate: the newest line goes first
ReadIntermediate ==
    /\ TakeLine("intermediate")
    /\ sp_response' = [sp_response EXCEPT !.inter = <<Head(input)>> \o @]
    /\ UNCHANGED <<mutex, thread, s_smsPDU, closing, toModem, modem, eof, sent,
                   calls, urcs, slips, ret>>

\* isSMSUnsolicited: the next line is its PDU, whatever it says; neither
\* goes through processLine nor takes the mutex
ReadSms ==
    /\ reader = "read" /\ input # <<>> /\ Head(input).k = "cmt"
    /\ input' = Tail(input)
    /\ reader' = "pdu"
    /\ UNCHANGED <<mutex, thread, shared, s_readerClosed, s_closed, opening,
                   initQueued, session, toModem, modem, eof, sent, calls, urcs,
                   slips, ret>>

ReadPdu ==
    /\ reader = "pdu" /\ input # <<>>
    /\ input' = Tail(input)
    /\ reader' = "read"
    /\ UNCHANGED <<mutex, thread, shared, s_readerClosed, s_closed, opening,
                   initQueued, session, toModem, modem, eof, sent, calls, urcs,
                   slips, ret>>

\* readline returns NULL
ReadEof ==
    /\ reader \in {"read", "pdu"} /\ input = <<>> /\ eof
    /\ reader' = "onReaderClosed"
    /\ UNCHANGED <<mutex, thread, shared, s_readerClosed, s_closed, opening,
                   initQueued, session, device, sent, calls, urcs, slips, ret>>

\* Variants: the pending command is cleared for its thread; the owner of the
\* channel is not told.
OnReaderClosedClears ==
    /\ reader = "onReaderClosed" /\ mutex = NoThread
    /\ reader' = "at_close" /\ s_readerClosed' = TRUE /\ Signal
    /\ ClearPendingCommand
    /\ UNCHANGED <<mutex, call, tries, s_closed, opening, initQueued, session,
                   device, sent, calls, urcs, slips, ret>>
OnReaderClosedSilent ==
    /\ reader = "onReaderClosed" /\ mutex = NoThread
    /\ reader' = "gone" /\ s_readerClosed' = TRUE /\ Signal
    /\ UNCHANGED <<mutex, call, tries, shared, s_closed, opening, initQueued, session,
                   device, sent, calls, urcs, slips, ret>>

\* onReaderClosed up to the call of s_onReaderClosed (onATReaderClosed)
OnReaderClosed ==
    /\ reader = "onReaderClosed" /\ mutex = NoThread
    /\ IF s_readerClosed
       THEN reader' = "gone" /\ UNCHANGED <<pc, s_readerClosed>>
       ELSE reader' = "at_close" /\ s_readerClosed' = TRUE /\ Signal
    /\ UNCHANGED <<mutex, call, tries, shared, s_closed, opening, initQueued, session,
                   device, sent, calls, urcs, slips, ret>>

\* at_close; s_fd = -1 adds nothing to s_readerClosed, already set
AtClose ==
    /\ reader = "at_close" /\ mutex = NoThread
    /\ reader' = "s_closed"
    /\ s_readerClosed' = TRUE
    /\ Signal
    /\ UNCHANGED <<mutex, call, tries, shared, s_closed, opening, initQueued, session,
                   device, sent, calls, urcs, slips, ret>>

\* onATReaderClosed's s_closed = 1; then the reader thread ends
SetClosed ==
    /\ reader = "s_closed"
    /\ reader' = "gone"
    /\ s_closed' = TRUE
    /\ UNCHANGED <<mutex, thread, shared, s_readerClosed, opening, initQueued,
                   session, device, sent, calls, urcs, slips, ret>>

ReaderStep == \/ ReadUnsolicited \/ ReadFinal \/ ReadPrompt \/ ReadIntermediate
              \/ ReadSms \/ ReadPdu \/ ReadEof
              \/ OnReaderClosed \/ AtClose \/ SetClosed

-----------------------------------------------------------------------------
(* mainLoop after waitForClose: a new fd, s_closed = 0 and at_open, whose  *)
(* assignments are made without s_commandmutex                             *)

AtOpen ==
    /\ s_closed /\ ~opening /\ session < MaxSessions
    /\ s_closed' = FALSE /\ s_readerClosed' = FALSE
    /\ opening' = TRUE
    /\ session' = session + 1
    /\ toModem' = <<>> /\ modem' = ModemReady /\ input' = <<>> /\ eof' = FALSE
    /\ UNCHANGED <<mutex, thread, shared, reader, initQueued, sent, calls,
                   urcs, slips, ret>>

\* sp_response is dropped, a reader is started, initializeCallback is queued
AtOpened ==
    /\ opening
    /\ sp_response' = NoResp /\ s_smsPDU' = FALSE
    /\ reader' = "read"
    /\ opening' = FALSE /\ initQueued' = TRUE
    /\ UNCHANGED <<mutex, thread, s_readerClosed, s_closed, session, device,
                   sent, calls, urcs, slips, ret>>

MainStep == AtOpen \/ AtOpened

-----------------------------------------------------------------------------
(* The modem: works on the oldest command it was sent                      *)

ModemFrame == UNCHANGED <<mutex, thread, shared, closing, sent, calls, slips, ret>>
Says(k, n, i, p) == input' = Append(input, [k |-> k, n |-> n, i |-> i, p |-> p])
Working == ~eof /\ toModem # <<>>
HasText == Head(toModem).sms => modem.prompt = "done"

ModemInfo ==
    /\ Working /\ HasText
    /\ Head(toModem).p # "none" /\ modem.info < MaxInfo
    /\ Says("info", Head(toModem).n, modem.info + 1, Head(toModem).p)
    /\ modem' = [modem EXCEPT !.info = @ + 1]
    /\ UNCHANGED <<toModem, eof, urcs>> /\ ModemFrame

ModemPrompt ==
    /\ Working /\ Head(toModem).sms /\ modem.prompt = "no"
    /\ Says("prompt", Head(toModem).n, 0, "none")
    /\ modem' = [modem EXCEPT !.prompt = "sent"]
    /\ UNCHANGED <<toModem, eof, urcs>> /\ ModemFrame

ModemFinal ==
    /\ Working
    /\ \E k \in {"ok", "error"} :
          /\ k = "ok" => HasText
          /\ Says(k, Head(toModem).n, modem.info, "none")
    /\ toModem' = Tail(toModem) /\ modem' = ModemReady
    /\ UNCHANGED <<eof, urcs>> /\ ModemFrame

\* An unsolicited line, which may start like an awaited response; NO CARRIER
\* reads as a final response; +CMT: comes with a second line
ModemUrc ==
    /\ ~eof /\ urcs < MaxUrc
    /\ urcs' = urcs + 1
    /\ \E k \in UrcKinds :
          \/ /\ k # "cmt"
             /\ \E p \in {"none", "P"} : /\ p = "P" => k = "urc"
                                         /\ Says(k, 0, 0, p)
          \/ /\ k = "cmt"
             /\ input' = input \o <<[k |-> "cmt", n |-> 0, i |-> 0, p |-> "none"],
                                    [k |-> "urc", n |-> 0, i |-> 0, p |-> "none"]>>
    /\ UNCHANGED <<toModem, modem, eof>> /\ ModemFrame

ModemDrop ==
    /\ ModemMayDrop /\ Working
    /\ toModem' = Tail(toModem) /\ modem' = ModemReady
    /\ UNCHANGED <<input, eof, urcs>> /\ ModemFrame

\* The device goes away, with the commands it had and perhaps unread lines
Unplug ==
    /\ ~eof
    /\ eof' = TRUE
    /\ toModem' = <<>> /\ modem' = ModemReady
    /\ input' \in {input, <<>>}
    /\ UNCHANGED urcs /\ ModemFrame

ModemAnswer == ModemInfo \/ ModemPrompt \/ ModemFinal

-----------------------------------------------------------------------------
\* Nobody has anything left to wait for: not a deadlock
Quiet == (\A t \in Threads : pc[t] = "idle") /\ UNCHANGED vars

Next ==
    \/ \E t \in Threads : \/ Call(t) \/ Handshake(t) \/ ThreadStep(t)
                          \/ SpuriousWake(t) \/ Timeout(t)
    \/ ReaderStep \/ MainStep
    \/ ModemAnswer \/ ModemUrc \/ ModemDrop \/ Unplug
    \/ Quiet

Spec == Init /\ [][Next]_vars

\* A thread that can run runs; the reader gets a mutex that is free again and
\* again (the waits between two uses of it are long); the timer of at_handshake
\* fires; initializeCallback is dispatched; a modem that is there answers.
FairSpec ==
    /\ Spec
    /\ \A t \in Threads : WF_vars(ThreadStep(t)) /\ WF_vars(Timeout(t))
    /\ SF_vars(ReaderStep) /\ WF_vars(MainStep) /\ WF_vars(ModemAnswer)
    /\ \A t \in Threads : WF_vars(Handshake(t))

-----------------------------------------------------------------------------
(* Properties *)

\* The values the state takes.
ThreadsOK ==
    /\ mutex \in Threads \cup {NoThread}
    /\ pc \in [Threads -> Places]
    /\ call \in [Threads -> CallType]
    /\ tries \in [Threads -> 0 .. HandshakeRetries - 1]
    /\ ret \in [Threads -> RetType]
SharedOK == sp_response \in Response \cup {NoResp} /\ s_smsPDU \in BOOLEAN
ClosingOK ==
    /\ s_readerClosed \in BOOLEAN /\ s_closed \in BOOLEAN
    /\ reader \in {"read", "pdu", "onReaderClosed", "at_close", "s_closed", "gone"}
    /\ opening \in BOOLEAN /\ initQueued \in BOOLEAN /\ session \in Nat
DeviceOK ==
    /\ toModem \in Seq(CommandType)
    /\ modem \in [info : Nat, prompt : {"no", "sent", "done"}]
    /\ input \in Seq(LineType) /\ eof \in BOOLEAN
CountersOK == sent \in Nat /\ calls \in Nat /\ urcs \in Nat /\ slips \in Nat
TypeOK == ThreadsOK /\ SharedOK /\ ClosingOK /\ DeviceOK /\ CountersOK

\* A thread asleep in pthread_cond_wait still has something to wait for: its
\* command is pending, has no final response, and the channel is not closed
\* (processLine and onReaderClosed signal s_commandcond under the mutex).
\* Until the device is reopened: see NoNullDeref.
NoLostWakeup ==
    session = 1 =>
        \A t \in Threads : pc[t] = "wait" =>
            /\ sp_response # NoResp /\ ~s_readerClosed
            /\ sp_response.final = NoLine

\* The waiting loop of at_send_command_full_nolock never finds sp_response
\* NULL: nobody but the caller itself takes its command away.
NoNullDeref == \A t \in Threads : pc[t] # "crashed"

\* AT_ERROR_COMMAND_PENDING is never returned: every way out of a command, the
\* timeout included, clears it before the thread issues another one.
NeverPending == \A t \in Threads : ret[t].err # "PENDING"

\* What a caller gets when it is told 0: a final response, and after the
\* success of a command that has an intermediate response, that response
\* (the callers dereference p_intermediates).
UsableResult ==
    \A t \in Threads : ret[t].err = "OK" =>
        /\ ret[t].final # NoLine
        /\ /\ call[t].type \in {"SINGLELINE", "NUMERIC"}
           /\ call[t].out /\ ret[t].final.k = "ok"
           => ret[t].inter # <<>>

\* The channel cannot tell whose answer a line is: it relies on one command
\* being outstanding.  An answer handed to a caller comes from its own command
\* or one that was written earlier, by no more commands than were abandoned
\* (timed out) or ended by a final response of no command (NO CARRIER).
AnswerMatches ==
    \A t \in Threads : \A l \in ToSet(ret[t].inter) \cup {ret[t].final} :
        l # NoLine /\ l.n # 0 => ret[t].n - l.n \in 0 .. slips

\* Unless something slipped, a multi-line answer is whole and in the modem's
\* order once reverseIntermediates has turned the list, unsolicited lines with
\* the awaited prefix apart.
CompleteInOrder ==
    \A t \in Threads :
        /\ slips = 0 /\ ret[t].err = "OK" /\ ret[t].final.n # 0
        /\ call[t].type = "MULTILINE" /\ call[t].out
        => LET got == ret[t].inter
               own == {j \in DOMAIN got : got[j].n # 0}
           IN  /\ {got[j].i : j \in own} = 1 .. ret[t].final.i
               /\ \A j, k \in own : j < k => got[j].i < got[k].i

\* The text of a short message answers the prompt of the very command it was
\* given with, never that of another one (writeCtrlZ in processLine), unless
\* something slipped.
PduToOwnPrompt ==
    [][ /\ modem.prompt = "sent" /\ modem'.prompt = "done" /\ slips = 0
        => sp_response.n = Head(toModem).n ]_vars

\* The late OK of a timed-out handshake attempt is not taken for the answer of
\* a later command: at_handshake pauses "to let the input buffer drain any
\* unmatched OK's (they will appear as extraneous unsolicited responses)".
\* (With fewer slips than attempts, one attempt succeeded and it paused.)
DrainedAnswers ==
    \A t \in Threads :
        slips < HandshakeRetries /\ ret[t].err = "OK" /\ ~call[t].hs
        => ret[t].final.n = ret[t].n

\* Every command that is issued returns, whether the modem answers or goes.
EveryCallReturns ==
    \A t \in Threads : pc[t] # "idle" ~> pc[t] = "idle"

\* The loss of the device is noticed, whatever the command thread is doing:
\* onReaderClosed and at_close get the mutex and s_closed is set.
LossIsReported == eof ~> s_closed

-----------------------------------------------------------------------------
(* The refinement: a command is outstanding from its place in Begin to its *)
(* return, and its answer is the final response stored for it.             *)

Service == INSTANCE CommandService WITH
    Clients <- Threads,
    Answers <- {l \in LineType : Final(l)},
    None <- NoLine,
    outstanding <- [t \in Threads |-> pc[t] \in {"write", "check", "wait", "wake", "expired"}],
    wire <- input,
    answer <- IF sp_response = NoResp THEN NoLine ELSE sp_response.final,
    lost <- s_readerClosed,
    told <- [t \in Threads |-> [err |-> ret[t].err, final |-> ret[t].final]]

\* Until the device is reopened, at_send_command_full, processLine and
\* onReaderClosed together do nothing that the command service does not do:
\* every result is the answer of the outstanding command, none is given twice
\* or kept for the next command, and failures are those the service allows.
ServiceSpec == Service!Spec

-----------------------------------------------------------------------------
(* Inductive invariants.  PendingInv is about one command thread and one   *)
(* open, the ones after it about one command thread and any number.        *)

\* s_commandmutex is held by the one thread that is past its lock, and a retry
\* of at_handshake starts with it.
MutexInv ==
    \A t \in Threads :
        /\ pc[t] \in {"write", "check", "drain", "crashed"} => mutex = t
        /\ mutex = t => pc[t] \in {"begin", "write", "check", "drain", "crashed"}

\* sp_response is there exactly while the thread is inside its command.
PendingInv ==
    /\ session = 1 /\ ~opening
    /\ \A t \in Threads :
          /\ pc[t] # "crashed" /\ ret[t].err # "PENDING"
          /\ sp_response # NoResp <=> pc[t] \in {"write", "check", "wait", "wake", "expired"}
          /\ pc[t] = "wait" => sp_response.final = NoLine /\ ~s_readerClosed

\* What a reopening leaves of that: sp_response, if it is there, is the
\* thread's own command.
HeldInv ==
    \A t \in Threads :
        /\ call[t] \in Calls \cup {Handshake0}
        /\ sp_response # NoResp =>
              /\ pc[t] \in {"write", "check", "wait", "wake", "expired"}
              /\ sp_response.c = call[t]

\* The reader and mainLoop: a closed channel is not read from, and is reopened
\* when its reader is gone.
ReaderInv ==
    /\ s_readerClosed => reader \in {"at_close", "s_closed", "gone"}
    /\ s_closed \/ opening => reader = "gone"
    /\ opening => ~s_closed /\ ~s_readerClosed

\* Lines and commands are in step: numbers do not exceed what was sent, and
\* nothing that answers a command follows the command's final response.
Precedes(l, n) == l.n # 0 => l.n <= n /\ (Final(l) => l.n < n)
InStep ==
    /\ \A i \in 1 .. Len(input) : input[i].n <= sent
    /\ \A i \in 1 .. Len(toModem) : toModem[i].n \in 1 .. sent
    /\ \A i, j \in 1 .. Len(input) :
          i < j /\ input[j].n # 0 => Precedes(input[i], input[j].n)
    /\ \A i \in 1 .. Len(input), j \in 1 .. Len(toModem) : Precedes(input[i], toModem[j].n)
    /\ \A i, j \in 1 .. Len(toModem) : i < j => toModem[i].n < toModem[j].n

\* How far what is still to come can be behind the last command sent: no more
\* than the slips while an answer is awaited (or none will come, or at_open
\* took the command away), less than that otherwise.
Unanswered == sp_response = NoResp \/ sp_response.final = NoLine
Awaited == \E t \in Threads :
              \/ pc[t] = "crashed"
              \/ pc[t] \in {"check", "wait", "wake", "expired"} /\ Unanswered
MaxLag == IF Awaited \/ s_readerClosed THEN slips ELSE slips - 1
Behind(lag) ==
    /\ \A i \in 1 .. Len(input) : input[i].n # 0 => sent - input[i].n <= lag
    /\ \A i \in 1 .. Len(toModem) : sent - toModem[i].n <= lag
LagInv == Behind(MaxLag)

\* What the pending command has got so far.
Fits(l, n) == l.n # 0 => n - l.n \in 0 .. slips
AnswerInv ==
    sp_response # NoResp =>
        IF \E t \in Threads : pc[t] = "write"
        THEN /\ sp_response.n = sent + 1 /\ sp_response.final = NoLine
             /\ sp_response.inter = <<>>
        ELSE /\ sp_response.n = sent
             /\ sp_response.final # NoLine => Fits(sp_response.final, sent)
             /\ \A i \in 1 .. Len(sp_response.inter) : Fits(sp_response.inter[i], sent)

=============================================================================
