------------------------------- MODULE Requests -------------------------------
(***************************************************************************)
(* The request thread executing the handlers of module Handlers, one at a  *)
(* time, while the modem answers their commands as it likes and the AT     *)
(* channel may be lost and opened again at any moment.  A response pointer *)
(* is followed through its life: not initialized, NULL, live, freed.  A    *)
(* use that the C program may not make of one ends the process, which its  *)
(* supervisor starts again.                                                *)
(***************************************************************************)
EXTENDS Handlers, Integers

CONSTANTS
    LineCounts, \* the numbers of lines a multi-line response may have
    MaxBlocks   \* bound: the 255-byte blocks of a binary file

ASSUME BoundsAssumption == LineCounts \subseteq Nat /\ MaxBlocks \in Nat \ {0}

VARIABLES
    sState,         \* the radio state; "ON" is any but the other two
    s_readerClosed, \* the channel is lost: commands fail
    initDue,        \* initializeCallback is queued
    request,        \* the request being handled, or the last one
    stack,          \* the functions being executed, the innermost first
    result,         \* what the last function returned
    remain,         \* requestReadBinary's blocks left
    MVersion,       \* MVersion holds a text with a 'V' in it
    answers,        \* history: how the request's token was completed
    refused,        \* history: a command whose response was asked for has failed
    leaked,         \* history: functions that lost a response in this request
    crash           \* history: <<function, reason>> of an illegal use, or "none"

channel == <<sState, s_readerClosed, initDue>>
data    == <<result, remain, MVersion>>
history == <<answers, refused, leaked, crash>>
vars == <<channel, request, stack, data, history>>

Pointers    == {p_response, p_response1}
Value(state, ok, n) == [state |-> state, ok |-> ok, lines |-> n]
Dangling(state) == Value(state, FALSE, 0)
Live(v) == v.state = "live"
NoCrash == <<"none", "none">>
AllLines == LineCounts \cup {0, 1}
Values == [state : {"uninit", "null", "live", "freed"}, ok : BOOLEAN, lines : AllLines]
Functions == DOMAIN Programs

Frame(f) == [f |-> f, label |-> "start", ip |-> 1, err |-> FALSE,
             ptr |-> [v \in Pointers |->
                        Dangling(IF v = p_response THEN Programs[f].init ELSE "uninit")]]

Init ==
    /\ sState = "UNAVAILABLE" /\ s_readerClosed = FALSE /\ initDue = TRUE
    /\ request = "none" /\ stack = <<>>
    /\ result = FALSE /\ remain = 0 /\ MVersion = FALSE
    /\ answers = <<>> /\ refused = FALSE /\ leaked = {} /\ crash = NoCrash

-----------------------------------------------------------------------------
(* The request thread between two requests                                 *)

Idle == stack = <<>> /\ crash = NoCrash

\* What onRequest lets through without a radio, and with the radio off
WithoutRadio == {"GET_SIM_STATUS", "SET_PREFERRED_NETWORK_TYPE", "BASEBAND_VERSION",
                 "GET_RADIO_CAPABILITY", "GET_IMEI", "DEVICE_IDENTITY"}
Admitted(r) ==
    CASE sState = "UNAVAILABLE" -> r \in WithoutRadio
      [] sState = "OFF"         -> r \in WithoutRadio \cup {"RADIO_POWER"}
      [] sState = "ON"          -> TRUE

OnRequest ==
    /\ Idle
    /\ \E r \in DOMAIN Handler :
         /\ request' = r
         /\ IF Admitted(r)
            THEN stack' = <<Frame(Handler[r])>> /\ answers' = <<>>
            ELSE stack' = <<>> /\ answers' = <<"RADIO_NOT_AVAILABLE">>
    /\ refused' = FALSE /\ leaked' = {}
    /\ UNCHANGED <<channel, data, crash>>

InitializeCallback ==
    /\ Idle /\ initDue
    /\ initDue' = FALSE
    /\ request' = "INITIALIZE" /\ stack' = <<Frame("initializeCallback")>>
    /\ answers' = <<>> /\ refused' = FALSE /\ leaked' = {}
    /\ UNCHANGED <<sState, s_readerClosed, data, crash>>

-----------------------------------------------------------------------------
(* One instruction of the innermost function                               *)

top   == Head(stack)
instr == Programs[top.f].body[top.label][top.ip]
AtEnd == top.ip > Len(Programs[top.f].body[top.label])
At(ops) == stack # <<>> /\ ~AtEnd /\ instr.op \in ops

\* The innermost function goes on, or to a label, with frame f
Continue(f) == stack' = <<f>> \o Tail(stack)
Next1(f)    == [f EXCEPT !.ip = @ + 1]
To(f, label) == [f EXCEPT !.ip = 1, !.label = label]
GoIf(b, label) == Continue(IF b THEN To(top, label) ELSE Next1(top))
Go == Continue(Next1(top))
Set(f, v, value) == [f EXCEPT !.ptr[v] = value]

\* SIGSEGV or abort
Crash(why) == /\ crash' = <<top.f, why>> /\ stack' = <<>>
Leaks(ps) == leaked' = IF \E v \in ps : Live(top.ptr[v]) THEN leaked \cup {top.f}
                                                         ELSE leaked

\* The responses the modem may give to a command
Responses(type) ==
    [state : {"live"}, ok : BOOLEAN,
     lines : CASE type = "NO_RESULT" -> {0}
               [] type = "MULTILINE" -> AllLines
               [] OTHER              -> {0, 1}]
Invalid(type, r) == type \in {"SINGLELINE", "NUMERIC"} /\ r.ok /\ r.lines = 0


\* The command ends with err and leaves value in the caller's pointer
Sent(value, err) ==
    /\ Continue(Next1([Set(top, instr.v, value) EXCEPT !.err = err]))
    /\ refused' = (refused \/ err \/ ~value.ok)
    /\ UNCHANGED <<sState, initDue, request, data, answers, crash>>

\* A command whose result nobody looks at
SendOnly ==
    /\ At({"send"}) /\ instr.v = nowhere
    /\ Go
    /\ UNCHANGED <<channel, request, data, history>>

\* at_send_command_*: the modem answers; a success without its line is freed
Answered ==
    /\ At({"send"}) /\ instr.v # nowhere /\ ~s_readerClosed
    /\ \E r \in Responses(instr.type) :
         IF Invalid(instr.type, r) THEN Sent(Dangling("null"), TRUE) ELSE Sent(r, FALSE)
    /\ Leaks({instr.v})
    /\ UNCHANGED s_readerClosed

\* The command could not be written: the pointer keeps its value
NotWritten ==
    /\ At({"send"}) /\ instr.v # nowhere
    /\ Sent(top.ptr[instr.v], TRUE)
    /\ UNCHANGED <<s_readerClosed, leaked>>

\* AT_ERROR_CHANNEL_CLOSED, with what has come of the response
LostWhileWaiting ==
    /\ At({"send"}) /\ instr.v # nowhere /\ ~s_readerClosed
    /\ \E r \in Responses(instr.type) : Sent(r, TRUE)
    /\ s_readerClosed' = TRUE
    /\ Leaks({instr.v})

\* v->success, v->finalResponse or v's list of lines is read
Uses == {"test", "cme", "scan", "threeLines", "ifNoLine", "line", "doneWith"}
Unusable ==
    LET v == top.ptr[instr.v] IN
    IF instr.op = "test" /\ top.err THEN "no"
    ELSE IF ~Live(v) THEN "response"
    ELSE IF instr.op \in {"line", "doneWith"} /\ v.lines = 0 THEN "line"
    ELSE IF instr.op = "threeLines" /\ v.lines > 3 THEN "response[3]"
    ELSE "no"

\* A pointer or an array is used that the program may not use
IllegalUse ==
    /\ At(Uses) /\ Unusable # "no"
    /\ Crash(Unusable)
    /\ UNCHANGED <<channel, request, data, answers, refused, leaked>>

\* A branch on the result of the last command
Examine ==
    /\ At({"test", "testErr", "cme", "ifNoLine"})
    /\ instr.op # "testErr" => Unusable = "no"
    /\ GoIf(CASE instr.op = "test"     -> top.err \/ ~top.ptr[instr.v].ok
              [] instr.op = "testErr"  -> top.err
              [] instr.op = "cme"      -> ~top.ptr[instr.v].ok
              [] instr.op = "ifNoLine" -> top.ptr[instr.v].lines = 0,
            instr.to)
    /\ UNCHANGED <<channel, request, data, history>>

\* The lines' fields are read; a field may be missing
Parse ==
    /\ At({"line", "scan", "threeLines"}) /\ Unusable = "no"
    /\ \E parsed \in BOOLEAN :
         /\ instr.op = "line" => parsed \in instr.may
         /\ instr.op = "scan" /\ top.ptr[instr.v].lines = 0 => parsed
         /\ instr.op = "threeLines" => (parsed => top.ptr[instr.v].lines = 3)
         /\ GoIf(~parsed, instr.to)
    /\ UNCHANGED <<channel, request, data, history>>

\* at_response_free, and the assignment of NULL
FreeResponse ==
    /\ At({"free"})
    /\ LET v == top.ptr[instr.v] IN
       IF v.state \in {"freed", "uninit"}
       THEN Crash("free")
       ELSE /\ Continue(Next1(IF Live(v) THEN Set(top, instr.v, Dangling("freed"))
                                         ELSE top))
            /\ UNCHANGED crash
    /\ UNCHANGED <<channel, request, data, answers, refused, leaked>>
AssignNull ==
    /\ At({"null"})
    /\ Continue(Next1(Set(top, instr.v, Dangling("null"))))
    /\ Leaks({instr.v})
    /\ UNCHANGED <<channel, request, data, answers, refused, crash>>

\* RIL_onRequestComplete
Complete ==
    /\ At({"done", "doneWith"})
    /\ instr.op = "doneWith" => Unusable = "no"
    /\ answers' = Append(answers, instr.e)
    /\ Go
    /\ UNCHANGED <<channel, request, data, refused, leaked, crash>>

\* Branches on what the model leaves out, on the request and on the radio state
Branch ==
    /\ At({"either", "goto", "when", "inState", "unless"})
    /\ CASE instr.op = "either"  -> \/ Go
                                    \/ \E l \in instr.labels : Continue(To(top, l))
         [] instr.op = "goto"    -> Continue(To(top, instr.to))
         [] instr.op = "when"    -> GoIf(request = instr.r, instr.to)
         [] instr.op = "inState" -> GoIf(sState \in instr.ss, instr.to)
         [] instr.op = "unless"  -> GoIf(~result, instr.to)
    /\ UNCHANGED <<channel, request, data, history>>

CallFunction ==
    /\ At({"call"})
    /\ stack' = <<Frame(instr.f), Next1(top)>> \o Tail(stack)
    /\ UNCHANGED <<channel, request, data, history>>

\* return, or the end of the function; what its pointers still hold is lost
ReturnFromFunction ==
    /\ stack # <<>>
    /\ AtEnd \/ At({"return"})
    /\ \E b \in IF AtEnd THEN {result} ELSE instr.bs : result' = b
    /\ stack' = Tail(stack)
    /\ Leaks(Pointers)
    /\ UNCHANGED <<channel, request, remain, MVersion, answers, refused, crash>>

\* setRadioState: UNAVAILABLE when the channel is lost (module RilState)
SetState ==
    /\ At({"setRadioState"})
    /\ sState' \in IF s_readerClosed THEN {instr.s, "UNAVAILABLE"} ELSE {instr.s}
    /\ Go
    /\ UNCHANGED <<s_readerClosed, initDue, request, data, history>>

\* MVersion: copied from the modem's text, and searched for a 'V'; a DNS
\* address is searched for a ':'
CopyText ==
    /\ At({"copyVersion"})
    /\ MVersion' \in BOOLEAN
    /\ Go
    /\ UNCHANGED <<channel, request, result, remain, history>>
FindText ==
    /\ At({"findVersion", "findColon"})
    /\ \E found \in IF instr.op = "findVersion" THEN {MVersion} ELSE BOOLEAN :
         IF found THEN Go /\ UNCHANGED crash ELSE Crash("text")
    /\ UNCHANGED <<channel, request, data, answers, refused, leaked>>

\* Variants: the blocks are not counted; or one too many is read.
BlocksUncounted ==
    /\ At({"setRemain", "takeBlock", "ifRemain"})
    /\ CASE instr.op = "setRemain" -> Go /\ remain' \in 1 .. MaxBlocks
         [] instr.op = "takeBlock" -> Go /\ UNCHANGED remain
         [] instr.op = "ifRemain"  -> GoIf(remain > 0, instr.to) /\ UNCHANGED remain
    /\ UNCHANGED <<channel, request, result, MVersion, history>>
BlocksOneMore ==
    /\ At({"setRemain", "takeBlock", "ifRemain"})
    /\ CASE instr.op = "setRemain" -> Go /\ remain' \in 1 .. MaxBlocks
         [] instr.op = "takeBlock" -> Go /\ remain' = remain - 1
         [] instr.op = "ifRemain"  -> GoIf(remain >= 0, instr.to) /\ UNCHANGED remain
    /\ UNCHANGED <<channel, request, result, MVersion, history>>

\* requestReadBinary's loop; a file of no bytes is read in one block of none
Blocks ==
    /\ At({"setRemain", "takeBlock", "ifRemain"})
    /\ CASE instr.op = "setRemain" -> Go /\ remain' \in 1 .. MaxBlocks
         [] instr.op = "takeBlock" -> Go /\ remain' = remain - 1
         [] instr.op = "ifRemain"  -> GoIf(remain > 0, instr.to) /\ UNCHANGED remain
    /\ UNCHANGED <<channel, request, result, MVersion, history>>

Step == \/ SendOnly \/ Answered \/ NotWritten \/ LostWhileWaiting
        \/ IllegalUse \/ Examine \/ Parse \/ FreeResponse \/ AssignNull
        \/ Complete \/ Branch \/ CallFunction \/ ReturnFromFunction
        \/ SetState \/ CopyText \/ FindText \/ Blocks

-----------------------------------------------------------------------------
(* The other threads                                                       *)

\* The reader finds the channel lost; and gets to onATReaderClosed
LoseChannel ==
    /\ ~s_readerClosed
    /\ s_readerClosed' = TRUE
    /\ UNCHANGED <<sState, initDue, request, stack, data, history>>
OnReaderClosed ==
    /\ s_readerClosed
    /\ sState' = "UNAVAILABLE"
    /\ UNCHANGED <<s_readerClosed, initDue, request, stack, data, history>>

\* mainLoop opens the device again and queues initializeCallback
Reopen ==
    /\ s_readerClosed
    /\ s_readerClosed' = FALSE /\ initDue' = TRUE
    /\ UNCHANGED <<sState, request, stack, data, history>>

\* The process has died and is started again
Restart ==
    /\ crash # NoCrash
    /\ sState' = "UNAVAILABLE" /\ s_readerClosed' = FALSE /\ initDue' = TRUE
    /\ request' = "none" /\ stack' = <<>>
    /\ result' = FALSE /\ remain' = 0 /\ MVersion' = FALSE
    /\ answers' = <<>> /\ refused' = FALSE /\ leaked' = {} /\ crash' = NoCrash

Next == OnRequest \/ InitializeCallback \/ Step
        \/ LoseChannel \/ OnReaderClosed \/ Reopen \/ Restart

Spec == Init /\ [][Next]_vars

\* Every command returns: the modem answers it or the channel is lost (the
\* property EveryCallReturns of module ATChannel, and what it assumes)
FairSpec == Spec /\ WF_vars(Step)

-----------------------------------------------------------------------------
(* Properties                                                              *)

Results == {"SUCCESS", "GENERIC_FAILURE", "PASSWORD_INCORRECT", "REQUEST_NOT_SUPPORTED",
            "RADIO_NOT_AVAILABLE"}
Reasons == {"response", "line", "response[3]", "free", "text"}

\* Every variable has its type; no function called by a handler calls another.
TypeOK ==
    /\ sState \in {"UNAVAILABLE", "OFF", "ON"}
    /\ s_readerClosed \in BOOLEAN /\ initDue \in BOOLEAN
    /\ request \in DOMAIN Handler \cup {"none", "INITIALIZE"}
    /\ Len(stack) <= 2
    /\ \A i \in DOMAIN stack :
         /\ stack[i].f \in Functions
         /\ stack[i].label \in DOMAIN Programs[stack[i].f].body
         /\ stack[i].ip \in 1 .. Len(Programs[stack[i].f].body[stack[i].label]) + 1
         /\ stack[i].err \in BOOLEAN
         /\ stack[i].ptr \in [Pointers -> Values]
    /\ result \in BOOLEAN /\ remain \in 0 .. MaxBlocks /\ MVersion \in BOOLEAN
    /\ \A i \in DOMAIN answers : answers[i] \in Results
    /\ refused \in BOOLEAN /\ leaked \subseteq Functions
    /\ crash \in (Functions \X Reasons) \cup {NoCrash}

\* The handlers that complete their token a second time
AnswersTwice == {"SMS_ACKNOWLEDGE", "SIGNAL_STRENGTH"}

\* The framework's token is completed at most once, and exactly once when the
\* handler has returned, whichever of its commands fail and wherever the
\* channel is lost; initializeCallback has no token to complete.
AnsweredOnce ==
    /\ request \notin AnswersTwice => Len(answers) <= 1
    /\ Idle /\ request \in DOMAIN Handler => answers # <<>>
    /\ request = "INITIALIZE" => answers = <<>>

\* What the handlers do not look at before they use it
Unchecked == {<<"requestRegistrationState", "line">>, <<"requestRegistrationState", "free">>,
              <<"requestBaseBandVersion", "line">>, <<"netwrokDataReady", "line">>,
              <<"requestOperator", "response[3]">>,
              <<"requestOrSendDataCallList", "text">>}

\* No handler uses a response that a failed command has not given it, a line
\* that the response does not have or a response already freed, and none
\* frees a response twice; but for the uses listed.
CheckedBeforeUse == crash # NoCrash => crash \in Unchecked

\* The functions that lose a response on some path
Leaky == {"requestBaseBandVersion", "netwrokDataReady", "requestOrSendDataCallList",
          "requestReadBinary", "getSIMStatus"}

\* Every other function frees every response it was given, on every path.
ResponsesFreed == leaked \subseteq Leaky

\* The requests that are answered with success on purpose or for want of a
\* look at the result, though a command failed
Lenient == {"GET_SIM_STATUS", "RADIO_POWER", "QUERY_NETWORK_SELECTION_MODE",
            "VOICE_REGISTRATION_STATE", "DATA_REGISTRATION_STATE", "OPERATOR",
            "BASEBAND_VERSION", "SETUP_DATA_CALL"}

\* Every other request answered with success has had success with every
\* command whose response it asked for.
SuccessIsTrue ==
    (\E i \in DOMAIN answers : answers[i] = "SUCCESS") /\ request \notin Lenient
        => ~refused

\* Every handler ends, so the thread gets to the next request.
HandlerReturns == stack # <<>> ~> stack = <<>>
=============================================================================
