--------------------------- MODULE RequestsProofs ---------------------------
(***************************************************************************)
(* What Requests promises, for every number of lines a response may have   *)
(* and of blocks a file may have.  The programs of Handlers are finite but *)
(* what they run on is not, so the proof is a proof outline: for every     *)
(* point of every program, what is known there of the response pointers    *)
(* (Outline), whether the token has been completed (Told) and whether a    *)
(* command may have failed (Failing).  Each instruction is shown to lead   *)
(* from what is known before it to what is known after it (Good), and that *)
(* makes what is known true of every frame of the stack (Inv).             *)
(***************************************************************************)
EXTENDS Requests, TLAPS, SequenceTheorems

-----------------------------------------------------------------------------
(* What is known of a response pointer at a point of a program             *)

\* What each mark says of a pointer p and of the last command's err: "owned" may
\* be freed; "tried" is what a command leaves in any pointer, "sent" in one that
\* was owned; after "...Line" a success has a line.  Nothing is at "none".
Is(k, p, err) ==
    \/ k = "any"
    \/ k = "gone"     /\ p.state # "live"
    \/ k = "null"     /\ p.state = "null"
    \/ k = "owned"    /\ p.state \in {"null", "live"}
    \/ k = "live"     /\ p.state = "live"
    \/ k = "answered" /\ p.state = "live" /\ (p.ok => p.lines # 0)
    \/ k = "line"     /\ p.state = "live" /\ p.lines # 0
    \/ k = "tried"    /\ (~err => p.state = "live")
    \/ k = "triedLine" /\ (~err => p.state = "live" /\ (p.ok => p.lines # 0))
    \/ k = "sent"     /\ p.state \in {"null", "live"} /\ (~err => p.state = "live")
    \/ k = "sentLine" /\ p.state \in {"null", "live"}
                      /\ (~err => p.state = "live" /\ (p.ok => p.lines # 0))

Owned == {"null", "owned", "live", "answered", "line"}
HasIt == {"live", "answered", "line"}
Empty == {"null", "gone", "none"}
OfErr == {"sent", "sentLine", "tried", "triedLine"}

\* What mark n follows from mark k
Follows(k, n) ==
    \/ n \in {k, "any"}
    \/ k = "null" /\ n \in {"gone", "owned"}
    \/ k = "live" /\ n = "owned"
    \/ k = "answered" /\ n \in {"live", "owned"}
    \/ k = "line" /\ n \in {"answered", "live", "owned"}

\* p_response before each instruction of each program, and at its end
Outline == [
    isRadioOn |-> [
        start |-> <<"null", "sentLine", "line", "line", "gone", "none">>,
        error |-> <<"owned", "gone", "none">>],
    netwrokDataReady |-> [
        start |-> <<"any", "triedLine", "answered", "line", "none">>,
        error |-> <<"any", "none">>],
    airm2m_at_cops |-> [
        start |-> <<"null", "sentLine", "line", "line", "none">>,
        error |-> <<"owned", "gone">>],
    getSIMStatus |-> [
        start |-> <<"null", "null", "sentLine", "answered", "none">>,
        again |-> <<"owned", "sentLine", "answered", "none">>,
        answered |-> <<"answered", "line", "line", "line", "gone", "null", "none">>,
        perso |-> <<"live", "none">>,
        done |-> <<"owned", "gone", "none">>],
    requestOrSendDataCallList |-> [
        start |-> <<"any", "tried", "live", "live", "gone", "tried", "live", "line",
            "line", "line", "line", "line", "none">>,
        old |-> <<"line", "line", "line", "line", "line", "none">>,
        list |-> <<"owned", "gone", "gone">>,
        failed |-> <<"any", "any">>,
        error |-> <<"owned", "owned", "gone">>],
    requestBaseBandVersion |-> [
        start |-> <<"null", "sentLine", "answered", "line", "line", "line", "gone">>,
        failed |-> <<"owned", "owned">>],
    requestRadioPower |-> [
        start |-> <<"null", "null", "null", "sent", "live", "live", "none">>,
        on |-> <<"null", "null", "sent", "live", "live", "none">>,
        verify |-> <<"owned", "owned", "owned", "owned", "none">>,
        done |-> <<"owned", "gone", "gone">>,
        error |-> <<"owned", "gone", "gone">>],
    getSimStatusRequest |-> [
        start |-> <<"gone", "gone", "gone">>],
    requestQueryNetworkSelectionMode |-> [
        start |-> <<"null", "sentLine", "line", "line", "line", "gone">>,
        refused |-> <<"owned", "owned", "gone">>,
        error |-> <<"owned", "gone", "gone">>],
    requestSignalStrength |-> [
        start |-> <<"null", "sentLine", "line", "line", "gone", "null", "sentLine",
            "line", "line", "line", "gone">>,
        refused |-> <<"owned", "owned", "none">>,
        error |-> <<"owned", "owned", "gone">>],
    requestRegistrationState |-> [
        start |-> <<"null", "null", "none">>,
        cops |-> <<"null", "null", "null", "none">>,
        state |-> <<"null", "sentLine", "answered", "line", "line", "none">>,
        sysinfo |-> <<"line", "gone", "triedLine", "answered", "line", "none">>,
        done |-> <<"owned", "owned", "gone">>,
        error |-> <<"any", "any", "gone">>],
    requestOperator |-> [
        start |-> <<"null", "sent", "live", "line", "line", "gone">>,
        error |-> <<"owned", "owned", "gone">>],
    requestSendSMS |-> [
        start |-> <<"null", "sentLine", "line", "line", "gone">>,
        error |-> <<"owned", "owned", "gone">>],
    requestWriteSmsToSim |-> [
        start |-> <<"null", "sentLine", "line", "line", "gone">>,
        error |-> <<"owned", "owned", "gone">>],
    deleteSmsOnSim |-> [
        start |-> <<"null", "sent", "live", "live", "none">>,
        failed |-> <<"owned", "owned", "none">>,
        done |-> <<"owned", "gone">>],
    requestSMSAcknowledge |-> [
        start |-> <<"gone", "gone", "gone", "gone", "none">>,
        error |-> <<"gone", "gone">>],
    requestReadBinary |-> [
        start |-> <<"null", "null", "none">>,
        block |-> <<"owned", "owned", "sentLine", "line", "line", "line", "line",
            "gone">>,
        error |-> <<"owned", "owned", "gone">>],
    requestSIM_IO |-> [
        start |-> <<"null", "null", "sentLine", "line", "line", "line", "gone">>,
        binary |-> <<"gone", "gone">>,
        error |-> <<"owned", "owned", "gone">>],
    requestEnterSimPin |-> [
        start |-> <<"null", "null", "sentLine", "line", "line", "gone">>,
        error |-> <<"owned", "owned", "gone">>],
    numericRequest |-> [
        start |-> <<"null", "sentLine", "line", "line", "none">>,
        failed |-> <<"owned", "owned", "none">>,
        done |-> <<"owned", "gone">>],
    requestDial |-> [
        start |-> <<"gone", "gone", "gone">>],
    requestHangup |-> [
        start |-> <<"gone", "gone", "gone">>],
    callControl |-> [
        start |-> <<"gone", "gone", "gone">>],
    dtmf |-> [
        start |-> <<"gone", "gone", "gone">>],
    separateConnection |-> [
        start |-> <<"gone", "gone", "gone", "gone">>,
        failed |-> <<"gone", "gone">>],
    requestSetupDataCall |-> [
        start |-> <<"null", "null", "null", "null", "null", "null", "null", "null",
            "null">>,
        error |-> <<"null", "null", "null">>],
    requestDataCallList |-> [
        start |-> <<"gone", "gone">>],
    alwaysSuccess |-> [
        start |-> <<"gone", "gone">>],
    requestSetPreferredNetworkType |-> [
        start |-> <<"gone", "gone">>],
    radioCapability |-> [
        start |-> <<"gone", "gone">>],
    oemHook |-> [
        start |-> <<"gone", "gone">>],
    notSupported |-> [
        start |-> <<"gone", "gone">>],
    requestSendUSSD |-> [
        start |-> <<"gone", "gone">>],
    initializeCallback |-> [
        start |-> <<"null", "null", "sent", "live", "none">>,
        creg |-> <<"owned", "owned", "none">>,
        free |-> <<"owned", "gone", "gone", "gone", "gone", "gone">>,
        off |-> <<"gone", "gone">>]]

\* p_response1 belongs to requestOrSendDataCallList, and is used at "old" only.
DataCallList == "requestOrSendDataCallList"
Second(f, l, i) ==
    IF f # DataCallList THEN "gone"
    ELSE IF l # "old" THEN "any"
    ELSE <<"any", "triedLine", "line", "line", "line", "none">>[i]

Mark(w, f, l, i) == IF w = p_response THEN Outline[f][l][i] ELSE Second(f, l, i)

-----------------------------------------------------------------------------
(* What is known of the token and of the commands                          *)

Body(f) == Programs[f].body
Leaves  == {"isRadioOn", "netwrokDataReady", "airm2m_at_cops", "getSIMStatus",
            DataCallList, "requestReadBinary"}
\* The functions that do not complete the token
Silent  == {"isRadioOn", "netwrokDataReady", "airm2m_at_cops", "getSIMStatus",
            "initializeCallback"}

\* The instruction of each label that completes the token, by itself or by what
\* it calls; 0 is before the label.
Never == 99
Tells == [
    requestOrSendDataCallList |->
        [start |-> Never, old |-> Never, list |-> 2, failed |-> 1, error |-> 1],
    requestBaseBandVersion |-> [start |-> 5, failed |-> 1],
    requestRadioPower |->
        [start |-> Never, on |-> Never, verify |-> Never, done |-> 2, error |-> 2],
    getSimStatusRequest |-> [start |-> 2],
    requestQueryNetworkSelectionMode |-> [start |-> 4, refused |-> 1, error |-> 2],
    requestSignalStrength |-> [start |-> 9, refused |-> 1, error |-> 1],
    requestRegistrationState |->
        [start |-> Never, cops |-> Never, state |-> Never, sysinfo |-> Never,
         done |-> 1, error |-> 1],
    requestOperator |-> [start |-> 4, error |-> 1],
    requestSendSMS |-> [start |-> 3, error |-> 1],
    requestWriteSmsToSim |-> [start |-> 3, error |-> 1],
    deleteSmsOnSim |-> [start |-> 3, failed |-> 1, done |-> 0],
    requestSMSAcknowledge |-> [start |-> 3, error |-> 1],
    requestReadBinary |-> [start |-> Never, block |-> 6, error |-> 1],
    requestSIM_IO |-> [start |-> 5, binary |-> 1, error |-> 1],
    requestEnterSimPin |-> [start |-> 4, error |-> 1],
    numericRequest |-> [start |-> 3, failed |-> 1, done |-> 0],
    requestDial |-> [start |-> 2], requestHangup |-> [start |-> 2],
    callControl |-> [start |-> 2], dtmf |-> [start |-> 2],
    separateConnection |-> [start |-> 3, failed |-> 1],
    requestSetupDataCall |-> [start |-> 7, error |-> 1],
    requestDataCallList |-> [start |-> 1],
    alwaysSuccess |-> [start |-> 1], requestSetPreferredNetworkType |-> [start |-> 1],
    radioCapability |-> [start |-> 1], oemHook |-> [start |-> 1],
    notSupported |-> [start |-> 1], requestSendUSSD |-> [start |-> 1]]
Told(f, l) == IF f \in Silent THEN Never ELSE Tells[f][l]

\* Where the handlers of AnswersTwice have completed the token or not
Blurred == {<<"requestSignalStrength", "error">>, <<"requestSMSAcknowledge", "error">>}

\* The functions of the requests that are not Lenient, and the labels of theirs
\* where a command may have failed
Strict == {"requestSignalStrength", "requestSendSMS", "requestWriteSmsToSim",
           "deleteSmsOnSim", "requestSMSAcknowledge", "requestReadBinary",
           "requestSIM_IO", "requestEnterSimPin", "numericRequest", "requestDial",
           "requestHangup", "callControl", "dtmf", "separateConnection", DataCallList,
           "requestDataCallList", "alwaysSuccess", "requestSetPreferredNetworkType",
           "radioCapability", "oemHook", "notSupported", "requestSendUSSD"}
Failing == {"error", "failed", "refused", "done"}

\* Where requestReadBinary has a block left to read
Due(f, l, i) == /\ f = "requestReadBinary"
                /\ <<l, i>> \in {<<"block", 1>>, <<"start", 2>>}

-----------------------------------------------------------------------------
(* The inductive invariant                                                 *)

FrameType == [f : Functions, label : UNION {DOMAIN Body(f) : f \in Functions},
              ip : Nat \ {0}, err : BOOLEAN, ptr : [Pointers -> Values]]

\* Frame x is at a point of its program, and what is known there is true of it.
Placed(x) == /\ x.label \in DOMAIN Body(x.f)
             /\ x.ip <= Len(Body(x.f)[x.label]) + 1
Known(x)  == \A w \in Pointers : Is(Mark(w, x.f, x.label, x.ip), x.ptr[w], x.err)

\* Frame y waits for the function g that it has called.
Waits(y, g) == /\ y.ip > 1 /\ g \in Leaves
               /\ Body(y.f)[y.label][y.ip - 1].op = "call"
               /\ Body(y.f)[y.label][y.ip - 1].f = g

StackInv ==
    /\ stack \in Seq(FrameType) /\ Len(stack) <= 2
    /\ \A i \in 1 .. Len(stack) : Placed(stack[i]) /\ Known(stack[i])
    /\ Len(stack) = 2 => Waits(stack[2], stack[1].f)

\* The frame at the bottom is the request's handler.
HandlerOf(r) == IF r \in DOMAIN Handler THEN Handler[r] ELSE "initializeCallback"
BottomInv == /\ request \in DOMAIN Handler \cup {"none", "INITIALIZE"}
             /\ stack # <<>> => /\ request # "none"
                                /\ stack[Len(stack)].f = HandlerOf(request)

\* The token is completed as often as the point the top frame is at says.
TokenAt(x, n) == IF <<x.f, x.label>> \in Blurred THEN x.ip > Told(x.f, x.label) => n # 0
                 ELSE n = IF x.ip > Told(x.f, x.label) THEN 1 ELSE 0
AnswersInv ==
    /\ answers \in Seq(Results) /\ AnsweredOnce
    /\ stack # <<>> => TokenAt(stack[1], Len(answers))

\* After a failed command a handler that is not lenient is on its way to an error.
Exposed(x) == \/ x.label \in Failing
              \/ x.ip > Len(Body(x.f)[x.label])
              \/ /\ Body(x.f)[x.label][x.ip].op = "test"
                 /\ x.err \/ ~x.ptr[Body(x.f)[x.label][x.ip].v].ok
TruthInv ==
    /\ SuccessIsTrue /\ refused \in BOOLEAN
    /\ request \in DOMAIN Handler \ Lenient /\ stack # <<>> /\ refused
         => Exposed(stack[1])

BlockInv == /\ remain \in 0 .. MaxBlocks
            /\ stack # <<>> => (Due(stack[1].f, stack[1].label, stack[1].ip) => remain > 0)

CrashInv == /\ CheckedBeforeUse /\ ResponsesFreed
            /\ crash \in (Functions \X Reasons) \cup {NoCrash}
            /\ crash # NoCrash => stack = <<>>

PlainInv == /\ sState \in {"UNAVAILABLE", "OFF", "ON"}
            /\ s_readerClosed \in BOOLEAN /\ initDue \in BOOLEAN
            /\ result \in BOOLEAN /\ MVersion \in BOOLEAN

Inv == /\ PlainInv /\ StackInv /\ BottomInv /\ AnswersInv /\ TruthInv
       /\ BlockInv /\ CrashInv

-----------------------------------------------------------------------------
(* What an instruction must do to what is known                            *)

PtrOps == {"send", "test", "cme", "line", "scan", "threeLines", "ifNoLine", "free",
           "null", "doneWith"}

\* The labels an instruction may go to, and whether it may go on
Targets(c) ==
    CASE c.op \in {"test", "testErr", "cme", "scan", "threeLines", "ifNoLine", "goto",
                   "when", "inState", "unless", "ifRemain"} -> {c.to}
      [] c.op = "line" -> IF FALSE \in c.may THEN {c.to} ELSE {}
      [] c.op = "either" -> c.labels
      [] OTHER -> {}
GoesOn(c) == c.op \notin {"goto", "return"}

\* The mark of the pointer that c is about, when it goes on and when it jumps
AfterSend(type, k) ==
    IF type \in {"SINGLELINE", "NUMERIC"}
    THEN IF k \in Owned THEN "sentLine" ELSE "triedLine"
    ELSE IF k \in Owned THEN "sent" ELSE "tried"
OnSuccess(k) == IF k \in {"sentLine", "triedLine", "answered"} THEN "line" ELSE "live"
OnFailure(k) == IF k \in {"sent", "sentLine"} THEN "owned" ELSE "any"
NoErr(k) == CASE k \in {"sent", "tried"} -> "live"
              [] k \in {"sentLine", "triedLine"} -> "answered"
              [] OTHER -> k
AnErr(k) == IF k \in OfErr THEN OnFailure(k) ELSE k
Fall(c, k) ==
    CASE c.op = "send" -> AfterSend(c.type, k)
      [] c.op \in {"test", "cme"} -> OnSuccess(k)
      [] c.op \in {"line", "doneWith", "threeLines", "ifNoLine"} -> "line"
      [] c.op = "free" -> IF k = "null" THEN "null" ELSE "gone"
      [] c.op = "null" -> "null"
      [] OTHER -> k
Jump(c, k) == IF c.op = "test" THEN OnFailure(k) ELSE k

\* The same of any pointer w; a command changes err, of which some marks speak.
Falls(c, w, k) == IF c.op = "testErr" THEN NoErr(k)
                  ELSE IF c.op \notin PtrOps THEN k
                  ELSE IF c.v = w THEN Fall(c, k)
                  ELSE IF k \in OfErr THEN "any" ELSE k
Jumps(c, w, k) == IF c.op = "testErr" THEN AnErr(k)
                  ELSE IF c.op \notin PtrOps THEN k
                  ELSE IF c.v = w THEN Jump(c, k)
                  ELSE IF k \in OfErr THEN "any" ELSE k

\* c uses the pointer only as the program may, or f is known not to look, and
\* loses no response, or f is known to be leaky.
Safe(f, c, k) ==
    CASE c.op = "test" -> k \in OfErr
      [] c.op \in {"scan", "cme", "ifNoLine"} -> k \in HasIt
      [] c.op = "threeLines" -> k \in HasIt /\ f = "requestOperator"
      [] c.op \in {"line", "doneWith"} ->
             k = "line" \/ (k \in HasIt /\ <<f, "line">> \in Unchecked)
      [] c.op = "free" -> k \in Owned \/ <<f, "free">> \in Unchecked
      [] c.op \in {"send", "null"} -> f \in Leaky \/ k \in Empty
      [] OTHER -> TRUE

\* From mark k of the pointer w, c leads to n and to the beginnings of labels.
Passes(w, f, c, k, n) ==
    /\ GoesOn(c) => Follows(Falls(c, w, k), n)
    /\ \A to \in Targets(c) : Follows(Jumps(c, w, k), Mark(w, f, to, 1))
    /\ c.op \in PtrOps /\ c.v = w => Safe(f, c, k)
    /\ c.op = "return" => f \in Leaky \/ k \in Empty

Typed(f, c) ==
    /\ c.op \in PtrOps => c.v \in Pointers \/ (c.op = "send" /\ c.v = nowhere)
    /\ Targets(c) \subseteq DOMAIN Body(f)
    /\ c.op = "call" => c.f \in Leaves /\ f \notin Leaves
    /\ c.op = "setRadioState" => c.s \in {"OFF", "ON"}
    /\ c.op \in {"done", "doneWith"} => c.e \in Results
    /\ c.op = "return" => c.bs \subseteq BOOLEAN
    /\ c.op \in {"findVersion", "findColon"} => f = DataCallList

\* c, at i of label l, completes the token where Told says so, and nowhere else.
Gives(c) == c.op \in {"done", "doneWith"} \/ (c.op = "call" /\ c.f \notin Silent)
Meets(f, l, i, to) == \/ <<f, to>> \in Blurred
                      \/ <<f, l>> \notin Blurred /\ (Told(f, to) = 0 <=> i > Told(f, l))
Counts(f, l, i, c) ==
    /\ Gives(c) <=> i = Told(f, l)
    /\ c.op = "call" => i <= Told(f, l) /\ <<f, l>> \notin Blurred
    /\ c.op = "return" => (i > Told(f, l) <=> f \notin Silent)
    /\ \A to \in Targets(c) : Meets(f, l, i, to)

\* A command is followed by a look at its result before the token is completed,
\* and no success is reported where one may have failed.
TestsNext(f, l, i, v) ==
    /\ l \notin Failing /\ i < Told(f, l) /\ i < Len(Body(f)[l])
    /\ \E j \in 1 .. Len(Body(f)[l]) :
          j = i + 1 /\ Body(f)[l][j].op = "test" /\ Body(f)[l][j].v = v
Truthful(f, l, i, c) ==
    /\ c.op = "send" /\ c.v # nowhere => TestsNext(f, l, i, c.v)
    /\ c.op \in {"done", "doneWith"} => c.e # "SUCCESS" \/ l \notin Failing
    /\ c.op = "test" => c.to \in Failing
    /\ l \in Failing => Targets(c) \subseteq Failing
    /\ c.op = "call" => c.f \in Strict /\ i = Len(Body(f)[l]) /\ l \notin Failing

\* A block is taken only where one is due.
Blocked(f, l, i, c) ==
    /\ c.op = "takeBlock" => Due(f, l, i)
    /\ GoesOn(c) /\ Due(f, l, i + 1) => c.op = "setRemain"
    /\ \A to \in Targets(c) :
          Due(f, to, 1) => c.op = "ifRemain" \/ (c.op = "goto" /\ Due(f, l, i))

\* Program f follows its outline.
GoodPoint(f, l, i, c) ==
    /\ \A w \in Pointers : Passes(w, f, c, Mark(w, f, l, i), Mark(w, f, l, i + 1))
    /\ Typed(f, c) /\ Counts(f, l, i, c) /\ Blocked(f, l, i, c)
    /\ f \in Strict => Truthful(f, l, i, c)
GoodEnd(f, l, e) ==
    \/ Outline[f][l][e] = "none"
    \/ /\ f \in Leaky \/ Outline[f][l][e] \in Empty
       /\ e > Told(f, l) <=> f \notin Silent
GoodLabel(f, l) ==
    /\ Len(Body(f)[l]) \in Nat /\ Len(Body(f)[l]) < Never /\ Told(f, l) \in Nat
    /\ \A i \in 1 .. Len(Body(f)[l]) : GoodPoint(f, l, i, Body(f)[l][i])
    /\ GoodEnd(f, l, Len(Body(f)[l]) + 1)
GoodStart(f) ==
    /\ "start" \in DOMAIN Body(f) /\ <<f, "start">> \notin Blurred
    /\ Told(f, "start") \in Nat \ {0}
    /\ \/ Programs[f].init = "null" /\ Follows("null", Outline[f]["start"][1])
       \/ Programs[f].init = "uninit" /\ Outline[f]["start"][1] = "any"
Good(f) == GoodStart(f) /\ \A l \in DOMAIN Body(f) : GoodLabel(f, l)

-----------------------------------------------------------------------------
(* The rules: what each instruction leads to                               *)

LEMMA PointersAre == /\ Pointers = {p_response, p_response1}
                     /\ p_response # p_response1
                     /\ p_response # nowhere /\ p_response1 # nowhere
  BY DEF Pointers, p_response, p_response1, nowhere

\* An instruction that is about p_response, or about none, and does not call
PlainPoint(f, l, i, c, k, n) ==
    /\ Passes(p_response, f, c, k, n) /\ Typed(f, c) /\ Counts(f, l, i, c)
    /\ f \in Strict => Truthful(f, l, i, c)
    /\ c.op \in PtrOps => c.v # p_response1
    /\ c.op = "takeBlock" => f = "requestReadBinary"

\* From mark k, label to may be gone to from i of label l.
Leads(f, l, i, k, to) ==
    /\ to \in DOMAIN Body(f) /\ Follows(k, Mark(p_response, f, to, 1))
    /\ Meets(f, l, i, to)
    /\ f \in Strict /\ l \in Failing => to \in Failing

LEMMA SendRule == \A f, l, i, type, k, n :
    /\ Follows(AfterSend(type, k), n) /\ (f \in Leaky \/ k \in Empty) /\ i # Told(f, l)
    /\ f \in Strict => TestsNext(f, l, i, p_response)
    => PlainPoint(f, l, i, Send(p_response, type), k, n)
  BY PointersAre DEF PlainPoint, Passes, Typed, Counts, Gives, Truthful, Send, Targets,
     GoesOn, Falls, Fall, Safe, PtrOps, OfErr

LEMMA SendOnlyRule == \A f, l, i, type, k, n :
    /\ k \notin OfErr /\ Follows(k, n) /\ i # Told(f, l)
    => PlainPoint(f, l, i, Send(nowhere, type), k, n)
  BY PointersAre DEF PlainPoint, Passes, Typed, Counts, Gives, Truthful, Send, Targets,
     GoesOn, Falls, PtrOps

LEMMA TestRule == \A f, l, i, to, k, n :
    /\ k \in OfErr /\ Follows(OnSuccess(k), n) /\ Leads(f, l, i, OnFailure(k), to)
    /\ i # Told(f, l) /\ (f \in Strict => to \in Failing)
    => PlainPoint(f, l, i, Test(p_response, to), k, n)
  BY PointersAre DEF PlainPoint, Passes, Typed, Counts, Gives, Truthful, Test, Targets,
     GoesOn, Falls, Fall, Jumps, Jump, Safe, PtrOps, Leads

LEMMA TestErrRule == \A f, l, i, to, k, n :
    /\ Follows(NoErr(k), n) /\ Leads(f, l, i, AnErr(k), to) /\ i # Told(f, l)
    => PlainPoint(f, l, i, TestErr(to), k, n)
  BY DEF PlainPoint, Passes, Typed, Counts, Gives, Truthful, TestErr, Targets,
     GoesOn, Falls, Jumps, PtrOps, Leads

LEMMA CmeRule == \A f, l, i, to, k, n :
    /\ k \in HasIt /\ Follows(OnSuccess(k), n) /\ Leads(f, l, i, k, to) /\ i # Told(f, l)
    => PlainPoint(f, l, i, Cme(p_response, to), k, n)
  BY PointersAre DEF PlainPoint, Passes, Typed, Counts, Gives, Truthful, Cme, Targets,
     GoesOn, Falls, Fall, Jumps, Jump, Safe, PtrOps, Leads

LEMMA LineRule == \A f, l, i, to, k, n :
    /\ k = "line" \/ (k \in HasIt /\ <<f, "line">> \in Unchecked)
    /\ Follows("line", n) /\ Leads(f, l, i, k, to) /\ i # Told(f, l)
    => PlainPoint(f, l, i, Line(p_response, to), k, n)
  BY PointersAre DEF PlainPoint, Passes, Typed, Counts, Gives, Truthful, Line, Targets,
     GoesOn, Falls, Fall, Jumps, Jump, Safe, PtrOps, Leads

LEMMA ReadRule == \A f, l, i, k, n :
    /\ k = "line" \/ (k \in HasIt /\ <<f, "line">> \in Unchecked)
    /\ Follows("line", n) /\ i # Told(f, l)
    => PlainPoint(f, l, i, Read(p_response), k, n)
  BY PointersAre DEF PlainPoint, Passes, Typed, Counts, Gives, Truthful, Read, Targets,
     GoesOn, Falls, Fall, Safe, PtrOps

LEMMA ScanRule == \A f, l, i, to, k, n :
    /\ k = "live" /\ n = "live" /\ Leads(f, l, i, k, to) /\ i # Told(f, l)
    => PlainPoint(f, l, i, Scan(p_response, to), k, n)
  BY PointersAre DEF PlainPoint, Passes, Typed, Counts, Gives, Truthful, Scan, Targets,
     GoesOn, Falls, Fall, Jumps, Jump, Safe, PtrOps, Leads, HasIt, Follows

LEMMA ThreeLinesRule == \A f, l, i, to, k, n :
    /\ k \in HasIt /\ f = "requestOperator" /\ Follows("line", n)
    /\ Leads(f, l, i, k, to) /\ i # Told(f, l)
    => PlainPoint(f, l, i, ThreeLines(p_response, to), k, n)
  BY PointersAre DEF PlainPoint, Passes, Typed, Counts, Gives, Truthful, ThreeLines,
     Targets, GoesOn, Falls, Fall, Jumps, Jump, Safe, PtrOps, Leads

LEMMA IfNoLineRule == \A f, l, i, to, k, n :
    /\ k \in HasIt /\ Follows("line", n) /\ Leads(f, l, i, k, to) /\ i # Told(f, l)
    => PlainPoint(f, l, i, IfNoLine(p_response, to), k, n)
  BY PointersAre DEF PlainPoint, Passes, Typed, Counts, Gives, Truthful, IfNoLine,
     Targets, GoesOn, Falls, Fall, Jumps, Jump, Safe, PtrOps, Leads

LEMMA FreeRule == \A f, l, i, k, n :
    /\ k \in Owned \/ <<f, "free">> \in Unchecked
    /\ Follows(IF k = "null" THEN "null" ELSE "gone", n) /\ i # Told(f, l)
    => PlainPoint(f, l, i, Free(p_response), k, n)
  BY PointersAre DEF PlainPoint, Passes, Typed, Counts, Gives, Truthful, Free, Targets,
     GoesOn, Falls, Fall, Safe, PtrOps

LEMMA NullRule == \A f, l, i, k, n :
    /\ f \in Leaky \/ k \in Empty
    /\ Follows("null", n) /\ i # Told(f, l)
    => PlainPoint(f, l, i, Null(p_response), k, n)
  BY PointersAre DEF PlainPoint, Passes, Typed, Counts, Gives, Truthful, Null, Targets,
     GoesOn, Falls, Fall, Safe, PtrOps

LEMMA DoneRule == \A f, l, i, e, k, n :
    /\ Follows(k, n) /\ i = Told(f, l) /\ e \in Results
    /\ f \in Strict => e # "SUCCESS" \/ l \notin Failing
    => PlainPoint(f, l, i, Done(e), k, n)
  BY DEF PlainPoint, Passes, Typed, Counts, Gives, Truthful, Done, Targets,
     GoesOn, Falls, PtrOps

LEMMA DoneWithRule == \A f, l, i, e, k, n :
    /\ k = "line" /\ n = "line" /\ i = Told(f, l) /\ e \in Results
    /\ f \in Strict => e # "SUCCESS" \/ l \notin Failing
    => PlainPoint(f, l, i, DoneWith(p_response, e), k, n)
  BY PointersAre DEF PlainPoint, Passes, Typed, Counts, Gives, Truthful, DoneWith,
     Targets, GoesOn, Falls, Fall, Safe, PtrOps, Follows

LEMMA EitherRule == \A f, l, i, labels, k, n :
    /\ Follows(k, n) /\ (\A to \in labels : Leads(f, l, i, k, to)) /\ i # Told(f, l)
    => PlainPoint(f, l, i, Either(labels), k, n)
  BY DEF PlainPoint, Passes, Typed, Counts, Gives, Truthful, Either, Targets,
     GoesOn, Falls, Jumps, PtrOps, Leads

LEMMA GotoRule == \A f, l, i, to, k, n :
    /\ Leads(f, l, i, k, to) /\ i # Told(f, l)
    => PlainPoint(f, l, i, Goto(to), k, n)
  BY DEF PlainPoint, Passes, Typed, Counts, Gives, Truthful, Goto, Targets,
     GoesOn, Jumps, PtrOps, Leads

LEMMA BranchRule == \A f, l, i, to, r, ss, k, n :
    /\ Follows(k, n) /\ Leads(f, l, i, k, to) /\ i # Told(f, l)
    => /\ PlainPoint(f, l, i, Unless(to), k, n)
       /\ PlainPoint(f, l, i, When(r, to), k, n)
       /\ PlainPoint(f, l, i, InState(ss, to), k, n)
       /\ PlainPoint(f, l, i, IfRemain(to), k, n)
  BY DEF PlainPoint, Passes, Typed, Counts, Gives, Truthful, Unless, When, InState,
     IfRemain, Targets, GoesOn, Falls, Jumps, PtrOps, Leads

LEMMA CallRule == \A f, l, i, g, k, n :
    /\ Follows(k, n) /\ g \in Leaves /\ f \notin Leaves
    /\ i <= Told(f, l) /\ <<f, l>> \notin Blurred
    /\ g \notin Silent <=> i = Told(f, l)
    /\ f \in Strict => g \in Strict /\ i = Len(Body(f)[l]) /\ l \notin Failing
    => PlainPoint(f, l, i, Call(g), k, n)
  BY DEF PlainPoint, Passes, Typed, Counts, Gives, Truthful, Call, Targets,
     GoesOn, Falls, PtrOps

LEMMA ReturnRule == \A f, l, i, bs, k, n :
    /\ f \in Leaky \/ k \in Empty
    /\ bs \subseteq BOOLEAN /\ i < Told(f, l) /\ f \in Silent
    /\ i \in Nat /\ Told(f, l) \in Nat
    => PlainPoint(f, l, i, Return(bs), k, n)
  BY DEF PlainPoint, Passes, Typed, Counts, Gives, Truthful, Return, Targets,
     GoesOn, PtrOps

LEMMA BooleanSets == {TRUE, FALSE} \subseteq BOOLEAN /\ {FALSE} \subseteq BOOLEAN
  OBVIOUS

LEMMA StraightRule == \A f, l, i, s, k, n :
    /\ Follows(k, n) /\ i # Told(f, l)
    => /\ PlainPoint(f, l, i, CopyVersion, k, n)
       /\ PlainPoint(f, l, i, SetRemain, k, n)
       /\ f = DataCallList => PlainPoint(f, l, i, FindVersion, k, n)
       /\ f = "requestReadBinary" => PlainPoint(f, l, i, TakeBlock, k, n)
       /\ s \in {"OFF", "ON"} => PlainPoint(f, l, i, SetRadioState(s), k, n)
  BY DEF PlainPoint, Passes, Typed, Counts, Gives, Truthful, CopyVersion, SetRemain,
     FindVersion, TakeBlock, SetRadioState, Targets, GoesOn, Falls, PtrOps

\* Only requestReadBinary has blocks.
LEMMA NoBlocks == \A f, l, i, c :
    f # "requestReadBinary" /\ c.op # "takeBlock" => Blocked(f, l, i, c)
  BY DEF Blocked, Due

PlainLabel(f, l) ==
    /\ Len(Body(f)[l]) \in Nat /\ Len(Body(f)[l]) < Never /\ Told(f, l) \in Nat
    /\ \A i \in 1 .. Len(Body(f)[l]) :
          PlainPoint(f, l, i, Body(f)[l][i], Outline[f][l][i], Outline[f][l][i + 1])
    /\ f = "requestReadBinary" =>
          \A i \in 1 .. Len(Body(f)[l]) : Blocked(f, l, i, Body(f)[l][i])
    /\ GoodEnd(f, l, Len(Body(f)[l]) + 1)

LEMMA MarksAre == \A f, l, i :
    /\ Mark(p_response, f, l, i) = Outline[f][l][i]
    /\ f # DataCallList => Mark(p_response1, f, l, i) = "gone"
    /\ f = DataCallList /\ (l # "old" \/ i = 1) => Mark(p_response1, f, l, i) = "any"
  BY PointersAre DEF Mark, Second

LEMMA PlainIsGood == \A f, l :
    PlainLabel(f, l) /\ (f # DataCallList \/ l # "old") => GoodLabel(f, l)
<1> SUFFICES ASSUME NEW f, NEW l, PlainLabel(f, l), f # DataCallList \/ l # "old",
                    NEW i \in 1 .. Len(Body(f)[l])
             PROVE  GoodPoint(f, l, i, Body(f)[l][i])
  BY DEF PlainLabel, GoodLabel
<1> DEFINE c == Body(f)[l][i]
<1>1. PlainPoint(f, l, i, c, Outline[f][l][i], Outline[f][l][i + 1])
  BY DEF PlainLabel
<1>2. f = "requestReadBinary" => Blocked(f, l, i, c)
  BY DEF PlainLabel
<1> HIDE DEF c
<1>3. Blocked(f, l, i, c)
  BY <1>1, <1>2, NoBlocks DEF PlainPoint
<1>4. Passes(p_response, f, c, Mark(p_response, f, l, i), Mark(p_response, f, l, i + 1))
  BY <1>1, MarksAre DEF PlainPoint
<1>5. Passes(p_response1, f, c, Mark(p_response1, f, l, i), Mark(p_response1, f, l, i + 1))
  <2> DEFINE m == IF f = DataCallList THEN "any" ELSE "gone"
  <2>1. /\ Mark(p_response1, f, l, i) = m /\ Mark(p_response1, f, l, i + 1) = m
        /\ \A to : Mark(p_response1, f, to, 1) = m
    BY MarksAre
  <2>2. m \in {"any", "gone"} /\ (f \in Leaky \/ m \in Empty)
    BY DEF Leaky, DataCallList, Empty
  <2>3. Falls(c, p_response1, m) = m /\ Jumps(c, p_response1, m) = m
    BY <1>1, <2>2 DEF PlainPoint, Falls, Jumps, OfErr, NoErr, AnErr
  <2> HIDE DEF m
  <2>4. Passes(p_response1, f, c, m, m)
    BY <1>1, <2>1, <2>2, <2>3 DEF PlainPoint, Passes, Follows
  <2> QED BY <2>1, <2>4
<1>6. GoodPoint(f, l, i, c)
  BY <1>1, <1>3, <1>4, <1>5, PointersAre DEF PlainPoint, GoodPoint
<1> QED BY <1>6 DEF c

-----------------------------------------------------------------------------
(* The programs follow their outlines                                      *)

LEMMA isRadioOnGood == Good("isRadioOn")
<1>0. SUFFICES ASSUME NEW f, f = "isRadioOn" PROVE Good(f)
  OBVIOUS
<1>1. /\ DOMAIN Body(f) = {"start", "error"}
      /\ Programs[f].init = "null"
      /\ Body(f)["start"] = <<Send(p_response, "SINGLELINE"), Test(p_response,
         "error"), Line(p_response, "error"), Free(p_response), Return({TRUE,
         FALSE})>>
      /\ Body(f)["error"] = <<Free(p_response), Return({FALSE})>>
  BY <1>0 DEF Body, Programs, isRadioOn, Program
<1>2. /\ Outline[f]["start"] = <<"null", "sentLine", "line", "line", "gone", "none">>
      /\ Outline[f]["error"] = <<"owned", "gone", "none">>
  BY <1>0 DEF Outline
<1>3. /\ Told(f, "start") = 99 /\ <<f, "start">> \notin Blurred
      /\ Told(f, "error") = 99 /\ <<f, "error">> \notin Blurred
  BY <1>0 DEF Told, Tells, Silent, Blurred, Never
<1>4. /\ f \notin Strict /\ f \in Silent /\ f \notin Leaky /\ f \in Leaves
      /\ f # "requestReadBinary" /\ f # DataCallList
  BY <1>0 DEF Strict, Silent, Leaky, Leaves, DataCallList
<1>5. PlainLabel(f, "start")
  <2>1. 1 # Told(f, "start") /\ 2 # Told(f, "start") /\ 3 # Told(f, "start") /\ 4 #
        Told(f, "start") /\ 5 < Told(f, "start") /\ Told(f, "start") \in Nat
    BY <1>3
  <2>2. /\ Leads(f, "start", 2, "owned", "error")
        /\ Leads(f, "start", 3, "line", "error")
    BY <1>1, <1>2, <1>3, <1>4, MarksAre DEF Leads, Meets, Follows
  <2>3. /\ PlainPoint(f, "start", 1, Send(p_response, "SINGLELINE"), "null",
           "sentLine")
        /\ PlainPoint(f, "start", 2, Test(p_response, "error"), "sentLine", "line")
        /\ PlainPoint(f, "start", 3, Line(p_response, "error"), "line", "line")
        /\ PlainPoint(f, "start", 4, Free(p_response), "line", "gone")
        /\ PlainPoint(f, "start", 5, Return({TRUE, FALSE}), "gone", "none")
    BY <1>4, <2>1, <2>2, BooleanSets, SendRule, TestRule, LineRule, FreeRule,
       ReturnRule DEF Follows, AfterSend, Owned, Empty, OnSuccess, OnFailure, OfErr
  <2> QED BY <1>1, <1>2, <1>3, <1>4, <2>3 DEF PlainLabel, GoodEnd, Empty, Never
<1>6. PlainLabel(f, "error")
  <2>1. 1 # Told(f, "error") /\ 2 < Told(f, "error") /\ Told(f, "error") \in Nat
    BY <1>3
  <2>2. /\ PlainPoint(f, "error", 1, Free(p_response), "owned", "gone")
        /\ PlainPoint(f, "error", 2, Return({FALSE}), "gone", "none")
    BY <1>4, <2>1, BooleanSets, FreeRule, ReturnRule DEF Follows, Owned, Empty
  <2> QED BY <1>1, <1>2, <1>3, <1>4, <2>2 DEF PlainLabel, GoodEnd, Empty, Never
<1>7. GoodStart(f)
  BY <1>1, <1>2, <1>3 DEF GoodStart, Follows
<1> QED BY <1>1, <1>4, <1>5, <1>6, <1>7, PlainIsGood DEF Good

LEMMA netwrokDataReadyGood == Good("netwrokDataReady")
<1>0. SUFFICES ASSUME NEW f, f = "netwrokDataReady" PROVE Good(f)
  OBVIOUS
<1>1. /\ DOMAIN Body(f) = {"start", "error"}
      /\ Programs[f].init = "uninit"
      /\ Body(f)["start"] = <<Send(p_response, "SINGLELINE"), TestErr("error"),
         Line(p_response, "error"), Return({TRUE, FALSE})>>
      /\ Body(f)["error"] = <<Return({FALSE})>>
  BY <1>0 DEF Body, Programs, netwrokDataReady, Program
<1>2. /\ Outline[f]["start"] = <<"any", "triedLine", "answered", "line", "none">>
      /\ Outline[f]["error"] = <<"any", "none">>
  BY <1>0 DEF Outline
<1>3. /\ Told(f, "start") = 99 /\ <<f, "start">> \notin Blurred
      /\ Told(f, "error") = 99 /\ <<f, "error">> \notin Blurred
  BY <1>0 DEF Told, Tells, Silent, Blurred, Never
<1>4. /\ f \notin Strict /\ f \in Silent /\ f \in Leaky /\ f \in Leaves
      /\ f # "requestReadBinary" /\ f # DataCallList /\ <<f, "line">> \in Unchecked
  BY <1>0 DEF Strict, Silent, Leaky, Leaves, DataCallList, Unchecked
<1>5. PlainLabel(f, "start")
  <2>1. 1 # Told(f, "start") /\ 2 # Told(f, "start") /\ 3 # Told(f, "start") /\ 4 <
        Told(f, "start") /\ Told(f, "start") \in Nat
    BY <1>3
  <2>2. /\ Leads(f, "start", 2, "any", "error")
        /\ Leads(f, "start", 3, "answered", "error")
    BY <1>1, <1>2, <1>3, <1>4, MarksAre DEF Leads, Meets, Follows
  <2>3. /\ PlainPoint(f, "start", 1, Send(p_response, "SINGLELINE"), "any",
           "triedLine")
        /\ PlainPoint(f, "start", 2, TestErr("error"), "triedLine", "answered")
        /\ PlainPoint(f, "start", 3, Line(p_response, "error"), "answered", "line")
        /\ PlainPoint(f, "start", 4, Return({TRUE, FALSE}), "line", "none")
    BY <1>4, <2>1, <2>2, BooleanSets, SendRule, TestErrRule, LineRule, ReturnRule DEF
       Follows, AfterSend, Owned, Empty, NoErr, AnErr, OnFailure, OfErr, HasIt
  <2> QED BY <1>1, <1>2, <1>3, <1>4, <2>3 DEF PlainLabel, GoodEnd, Empty, Never
<1>6. PlainLabel(f, "error")
  <2>1. 1 < Told(f, "error") /\ Told(f, "error") \in Nat
    BY <1>3
  <2>2. PlainPoint(f, "error", 1, Return({FALSE}), "any", "none")
    BY <1>4, <2>1, BooleanSets, ReturnRule DEF Empty
  <2> QED BY <1>1, <1>2, <1>3, <1>4, <2>2 DEF PlainLabel, GoodEnd, Empty, Never
<1>7. GoodStart(f)
  BY <1>1, <1>2, <1>3 DEF GoodStart, Follows
<1> QED BY <1>1, <1>4, <1>5, <1>6, <1>7, PlainIsGood DEF Good

LEMMA airm2m_at_copsGood == Good("airm2m_at_cops")
<1>0. SUFFICES ASSUME NEW f, f = "airm2m_at_cops" PROVE Good(f)
  OBVIOUS
<1>1. /\ DOMAIN Body(f) = {"start", "error"}
      /\ Programs[f].init = "null"
      /\ Body(f)["start"] = <<Send(p_response, "SINGLELINE"), Test(p_response,
         "error"), Line(p_response, "error"), Goto("error")>>
      /\ Body(f)["error"] = <<Free(p_response)>>
  BY <1>0 DEF Body, Programs, airm2m_at_cops, Program
<1>2. /\ Outline[f]["start"] = <<"null", "sentLine", "line", "line", "none">>
      /\ Outline[f]["error"] = <<"owned", "gone">>
  BY <1>0 DEF Outline
<1>3. /\ Told(f, "start") = 99 /\ <<f, "start">> \notin Blurred
      /\ Told(f, "error") = 99 /\ <<f, "error">> \notin Blurred
  BY <1>0 DEF Told, Tells, Silent, Blurred, Never
<1>4. /\ f \notin Strict /\ f \in Silent /\ f \notin Leaky /\ f \in Leaves
      /\ f # "requestReadBinary" /\ f # DataCallList
  BY <1>0 DEF Strict, Silent, Leaky, Leaves, DataCallList
<1>5. PlainLabel(f, "start")
  <2>1. 1 # Told(f, "start") /\ 2 # Told(f, "start") /\ 3 # Told(f, "start") /\ 4 #
        Told(f, "start")
    BY <1>3
  <2>2. /\ Leads(f, "start", 2, "owned", "error")
        /\ Leads(f, "start", 3, "line", "error")
        /\ Leads(f, "start", 4, "line", "error")
    BY <1>1, <1>2, <1>3, <1>4, MarksAre DEF Leads, Meets, Follows
  <2>3. /\ PlainPoint(f, "start", 1, Send(p_response, "SINGLELINE"), "null",
           "sentLine")
        /\ PlainPoint(f, "start", 2, Test(p_response, "error"), "sentLine", "line")
        /\ PlainPoint(f, "start", 3, Line(p_response, "error"), "line", "line")
        /\ PlainPoint(f, "start", 4, Goto("error"), "line", "none")
    BY <1>4, <2>1, <2>2, SendRule, TestRule, LineRule, GotoRule DEF Follows,
       AfterSend, Owned, Empty, OnSuccess, OnFailure, OfErr
  <2> QED BY <1>1, <1>2, <1>3, <1>4, <2>3 DEF PlainLabel, GoodEnd, Empty, Never
<1>6. PlainLabel(f, "error")
  <2>1. 1 # Told(f, "error")
    BY <1>3
  <2>2. PlainPoint(f, "error", 1, Free(p_response), "owned", "gone")
    BY <1>4, <2>1, FreeRule DEF Follows, Owned
  <2> QED BY <1>1, <1>2, <1>3, <1>4, <2>2 DEF PlainLabel, GoodEnd, Empty, Never
<1>7. GoodStart(f)
  BY <1>1, <1>2, <1>3 DEF GoodStart, Follows
<1> QED BY <1>1, <1>4, <1>5, <1>6, <1>7, PlainIsGood DEF Good

LEMMA getSIMStatusGood == Good("getSIMStatus")
<1>0. SUFFICES ASSUME NEW f, f = "getSIMStatus" PROVE Good(f)
  OBVIOUS
<1>1. /\ DOMAIN Body(f) = {"start", "again", "answered", "perso", "done"}
      /\ Programs[f].init = "null"
      /\ Body(f)["start"] = <<InState({"OFF", "UNAVAILABLE"}, "done"),
         Send(p_response, "SINGLELINE"), TestErr("again"), Goto("answered")>>
      /\ Body(f)["again"] = <<Send(p_response, "SINGLELINE"), TestErr("done"),
         Goto("answered")>>
      /\ Body(f)["answered"] = <<Cme(p_response, "done"), Line(p_response, "done"),
         Either({"done", "perso"}), Free(p_response), Null(p_response), Goto("done")>>
      /\ Body(f)["perso"] = <<Return({FALSE})>>
      /\ Body(f)["done"] = <<Free(p_response), Return({TRUE, FALSE})>>
  BY <1>0 DEF Body, Programs, getSIMStatus, Program
<1>2. /\ Outline[f]["start"] = <<"null", "null", "sentLine", "answered", "none">>
      /\ Outline[f]["again"] = <<"owned", "sentLine", "answered", "none">>
      /\ Outline[f]["answered"] = <<"answered", "line", "line", "line", "gone",
         "null", "none">>
      /\ Outline[f]["perso"] = <<"live", "none">>
      /\ Outline[f]["done"] = <<"owned", "gone", "none">>
  BY <1>0 DEF Outline
<1>3. /\ Told(f, "start") = 99 /\ <<f, "start">> \notin Blurred
      /\ Told(f, "again") = 99 /\ <<f, "again">> \notin Blurred
      /\ Told(f, "answered") = 99 /\ <<f, "answered">> \notin Blurred
      /\ Told(f, "perso") = 99 /\ <<f, "perso">> \notin Blurred
      /\ Told(f, "done") = 99 /\ <<f, "done">> \notin Blurred
  BY <1>0 DEF Told, Tells, Silent, Blurred, Never
<1>4. /\ f \notin Strict /\ f \in Silent /\ f \in Leaky /\ f \in Leaves
      /\ f # "requestReadBinary" /\ f # DataCallList
  BY <1>0 DEF Strict, Silent, Leaky, Leaves, DataCallList
<1>5. PlainLabel(f, "start")
  <2>1. 1 # Told(f, "start") /\ 2 # Told(f, "start") /\ 3 # Told(f, "start") /\ 4 #
        Told(f, "start")
    BY <1>3
  <2>2. /\ Leads(f, "start", 1, "null", "done")
        /\ Leads(f, "start", 3, "owned", "again")
        /\ Leads(f, "start", 4, "answered", "answered")
    BY <1>1, <1>2, <1>3, <1>4, MarksAre DEF Leads, Meets, Follows
  <2>3. /\ PlainPoint(f, "start", 1, InState({"OFF", "UNAVAILABLE"}, "done"), "null",
           "null")
        /\ PlainPoint(f, "start", 2, Send(p_response, "SINGLELINE"), "null",
           "sentLine")
        /\ PlainPoint(f, "start", 3, TestErr("again"), "sentLine", "answered")
        /\ PlainPoint(f, "start", 4, Goto("answered"), "answered", "none")
    BY <1>4, <2>1, <2>2, BranchRule, SendRule, TestErrRule, GotoRule DEF Follows,
       AfterSend, Owned, Empty, NoErr, AnErr, OnFailure, OfErr
  <2> QED BY <1>1, <1>2, <1>3, <1>4, <2>3 DEF PlainLabel, GoodEnd, Empty, Never
<1>6. PlainLabel(f, "again")
  <2>1. 1 # Told(f, "again") /\ 2 # Told(f, "again") /\ 3 # Told(f, "again")
    BY <1>3
  <2>2. /\ Leads(f, "again", 2, "owned", "done")
        /\ Leads(f, "again", 3, "answered", "answered")
    BY <1>1, <1>2, <1>3, <1>4, MarksAre DEF Leads, Meets, Follows
  <2>3. /\ PlainPoint(f, "again", 1, Send(p_response, "SINGLELINE"), "owned",
           "sentLine")
        /\ PlainPoint(f, "again", 2, TestErr("done"), "sentLine", "answered")
        /\ PlainPoint(f, "again", 3, Goto("answered"), "answered", "none")
    BY <1>4, <2>1, <2>2, SendRule, TestErrRule, GotoRule DEF Follows, AfterSend,
       Owned, Empty, NoErr, AnErr, OnFailure, OfErr
  <2> QED BY <1>1, <1>2, <1>3, <1>4, <2>3 DEF PlainLabel, GoodEnd, Empty, Never
<1>7. PlainLabel(f, "answered")
  <2>1. 1 # Told(f, "answered") /\ 2 # Told(f, "answered") /\ 3 # Told(f, "answered")
        /\ 4 # Told(f, "answered") /\ 5 # Told(f, "answered") /\ 6 # Told(f,
        "answered")
    BY <1>3
  <2>2. /\ Leads(f, "answered", 1, "answered", "done")
        /\ Leads(f, "answered", 2, "line", "done")
        /\ Leads(f, "answered", 3, "line", "done")
        /\ Leads(f, "answered", 3, "line", "perso")
        /\ Leads(f, "answered", 6, "null", "done")
    BY <1>1, <1>2, <1>3, <1>4, MarksAre DEF Leads, Meets, Follows
  <2>3. /\ PlainPoint(f, "answered", 1, Cme(p_response, "done"), "answered", "line")
        /\ PlainPoint(f, "answered", 2, Line(p_response, "done"), "line", "line")
        /\ PlainPoint(f, "answered", 3, Either({"done", "perso"}), "line", "line")
        /\ PlainPoint(f, "answered", 4, Free(p_response), "line", "gone")
        /\ PlainPoint(f, "answered", 5, Null(p_response), "gone", "null")
        /\ PlainPoint(f, "answered", 6, Goto("done"), "null", "none")
    BY <1>4, <2>1, <2>2, CmeRule, LineRule, EitherRule, FreeRule, NullRule, GotoRule
       DEF Follows, OnSuccess, HasIt, Owned, Empty
  <2> QED BY <1>1, <1>2, <1>3, <1>4, <2>3 DEF PlainLabel, GoodEnd, Empty, Never
<1>8. PlainLabel(f, "perso")
  <2>1. 1 < Told(f, "perso") /\ Told(f, "perso") \in Nat
    BY <1>3
  <2>2. PlainPoint(f, "perso", 1, Return({FALSE}), "live", "none")
    BY <1>4, <2>1, BooleanSets, ReturnRule DEF Empty
  <2> QED BY <1>1, <1>2, <1>3, <1>4, <2>2 DEF PlainLabel, GoodEnd, Empty, Never
<1>9. PlainLabel(f, "done")
  <2>1. 1 # Told(f, "done") /\ 2 < Told(f, "done") /\ Told(f, "done") \in Nat
    BY <1>3
  <2>2. /\ PlainPoint(f, "done", 1, Free(p_response), "owned", "gone")
        /\ PlainPoint(f, "done", 2, Return({TRUE, FALSE}), "gone", "none")
    BY <1>4, <2>1, BooleanSets, FreeRule, ReturnRule DEF Follows, Owned, Empty
  <2> QED BY <1>1, <1>2, <1>3, <1>4, <2>2 DEF PlainLabel, GoodEnd, Empty, Never
<1>10. GoodStart(f)
  BY <1>1, <1>2, <1>3 DEF GoodStart, Follows
<1> QED BY <1>1, <1>4, <1>5, <1>6, <1>7, <1>8, <1>9, <1>10, PlainIsGood DEF Good

LEMMA requestOrSendDataCallListGood == Good("requestOrSendDataCallList")
<1>0. SUFFICES ASSUME NEW f, f = "requestOrSendDataCallList" PROVE Good(f)
  OBVIOUS
<1>1. /\ DOMAIN Body(f) = {"start", "old", "list", "failed", "error"}
      /\ Programs[f].init = "uninit"
      /\ Body(f)["start"] = <<Send(p_response, "MULTILINE"), Test(p_response,
         "failed"), Scan(p_response, "error"), Free(p_response), Send(p_response,
         "MULTILINE"), Test(p_response, "failed"), IfNoLine(p_response, "list"),
         Line(p_response, "error"), FindVersion, Either({"old"}), Line(p_response,
         "error"), Goto("list")>>
      /\ Body(f)["old"] = <<Send(p_response1, "SINGLELINE"), Test(p_response1,
         "error"), Line(p_response1, "error"), FindColon, Goto("list")>>
      /\ Body(f)["list"] = <<Free(p_response), Done("SUCCESS")>>
      /\ Body(f)["failed"] = <<Done("GENERIC_FAILURE")>>
      /\ Body(f)["error"] = <<Done("GENERIC_FAILURE"), Free(p_response)>>
  BY <1>0 DEF Body, Programs, requestOrSendDataCallList, Program
<1>2. /\ Outline[f]["start"] = <<"any", "tried", "live", "live", "gone", "tried",
         "live", "line", "line", "line", "line", "line", "none">>
      /\ Outline[f]["old"] = <<"line", "line", "line", "line", "line", "none">>
      /\ Outline[f]["list"] = <<"owned", "gone", "gone">>
      /\ Outline[f]["failed"] = <<"any", "any">>
      /\ Outline[f]["error"] = <<"owned", "owned", "gone">>
  BY <1>0 DEF Outline
<1>3. /\ Told(f, "start") = 99 /\ <<f, "start">> \notin Blurred
      /\ Told(f, "old") = 99 /\ <<f, "old">> \notin Blurred
      /\ Told(f, "list") = 2 /\ <<f, "list">> \notin Blurred
      /\ Told(f, "failed") = 1 /\ <<f, "failed">> \notin Blurred
      /\ Told(f, "error") = 1 /\ <<f, "error">> \notin Blurred
  BY <1>0 DEF Told, Tells, Silent, Blurred, Never
<1>4. /\ f \in Strict /\ f \notin Silent /\ f \in Leaky /\ f \in Leaves
      /\ f # "requestReadBinary" /\ f = DataCallList
  BY <1>0 DEF Strict, Silent, Leaky, Leaves, DataCallList
<1>5. PlainLabel(f, "start")
  <2>1. 1 # Told(f, "start") /\ 2 # Told(f, "start") /\ 3 # Told(f, "start") /\ 4 #
        Told(f, "start") /\ 5 # Told(f, "start") /\ 6 # Told(f, "start") /\ 7 #
        Told(f, "start") /\ 8 # Told(f, "start") /\ 9 # Told(f, "start") /\ 10 #
        Told(f, "start") /\ 11 # Told(f, "start") /\ 12 # Told(f, "start")
    BY <1>3
  <2>2. /\ Leads(f, "start", 2, "any", "failed")
        /\ Leads(f, "start", 3, "live", "error")
        /\ Leads(f, "start", 6, "any", "failed")
        /\ Leads(f, "start", 7, "live", "list")
        /\ Leads(f, "start", 8, "line", "error")
        /\ Leads(f, "start", 10, "line", "old")
        /\ Leads(f, "start", 11, "line", "error")
        /\ Leads(f, "start", 12, "line", "list")
    BY <1>1, <1>2, <1>3, <1>4, MarksAre DEF Leads, Meets, Follows, Failing
  <2>3. TestsNext(f, "start", 1, p_response)
    BY <1>1, <1>3 DEF TestsNext, Test, Failing
  <2>4. TestsNext(f, "start", 5, p_response)
    BY <1>1, <1>3 DEF TestsNext, Test, Failing
  <2>5. /\ PlainPoint(f, "start", 1, Send(p_response, "MULTILINE"), "any", "tried")
        /\ PlainPoint(f, "start", 2, Test(p_response, "failed"), "tried", "live")
        /\ PlainPoint(f, "start", 3, Scan(p_response, "error"), "live", "live")
        /\ PlainPoint(f, "start", 4, Free(p_response), "live", "gone")
        /\ PlainPoint(f, "start", 5, Send(p_response, "MULTILINE"), "gone", "tried")
        /\ PlainPoint(f, "start", 6, Test(p_response, "failed"), "tried", "live")
        /\ PlainPoint(f, "start", 7, IfNoLine(p_response, "list"), "live", "line")
        /\ PlainPoint(f, "start", 8, Line(p_response, "error"), "line", "line")
        /\ PlainPoint(f, "start", 9, FindVersion, "line", "line")
        /\ PlainPoint(f, "start", 10, Either({"old"}), "line", "line")
        /\ PlainPoint(f, "start", 11, Line(p_response, "error"), "line", "line")
        /\ PlainPoint(f, "start", 12, Goto("list"), "line", "none")
    BY <1>4, <2>1, <2>2, <2>3, <2>4, SendRule, TestRule, ScanRule, FreeRule,
       IfNoLineRule, LineRule, StraightRule, EitherRule, GotoRule DEF Follows,
       AfterSend, Owned, Empty, OnSuccess, OnFailure, OfErr, Failing, HasIt
  <2> QED BY <1>1, <1>2, <1>3, <1>4, <2>5 DEF PlainLabel, GoodEnd, Empty, Never
<1>6. GoodLabel(f, "old")
  <2> DEFINE P1(c, k, n) == Passes(p_response, f, c, "line", "line")
                            /\ Passes(p_response1, f, c, k, n)
             Q(i, c) == Typed(f, c) /\ Counts(f, "old", i, c) /\ Blocked(f, "old", i, c)
                        /\ Truthful(f, "old", i, c)
  <2>1. /\ Mark(p_response, f, "error", 1) = "owned"
        /\ Mark(p_response, f, "list", 1) = "owned"
        /\ Mark(p_response1, f, "error", 1) = "any" /\ Mark(p_response1, f, "list", 1) = "any"
    BY <1>2, <1>4, MarksAre
  <2>2. P1(Send(p_response1, "SINGLELINE"), "any", "triedLine")
    BY <1>4, PointersAre DEF Passes, Send, Targets, GoesOn, Falls, Fall, AfterSend, Owned,
       OfErr, PtrOps, Safe, Follows
  <2>3. P1(Test(p_response1, "error"), "triedLine", "line")
    BY <2>1, PointersAre DEF Passes, Test, Targets, GoesOn, Falls, Fall, Jumps, Jump,
       OnSuccess, OnFailure, OfErr, PtrOps, Safe, Follows
  <2>4. P1(Line(p_response1, "error"), "line", "line")
    BY <2>1, PointersAre DEF Passes, Line, Targets, GoesOn, Falls, Fall, Jumps, Jump,
       OfErr, PtrOps, Safe, Follows
  <2>5. P1(FindColon, "line", "line")
    BY PointersAre DEF Passes, FindColon, Targets, GoesOn, Falls, PtrOps, Follows
  <2>6. \A n, m : /\ Passes(p_response, f, Goto("list"), "line", n)
                /\ Passes(p_response1, f, Goto("list"), "line", m)
    BY <2>1, PointersAre DEF Passes, Goto, Targets, GoesOn, Jumps, PtrOps, Follows
  <2>7. \A i \in 1 .. 5, to \in {"error", "list"} :
            Meets(f, "old", i, to) /\ i # Told(f, "old")
    BY <1>3 DEF Meets
  <2>8. Q(1, Send(p_response1, "SINGLELINE"))
    <3>1. TestsNext(f, "old", 1, p_response1)
      BY <1>1, <1>3 DEF TestsNext, Test, Failing
    <3> QED BY <1>4, <2>7, <3>1, NoBlocks, PointersAre
            DEF Typed, Counts, Gives, Truthful, Send, Targets, PtrOps
  <2>9. Q(2, Test(p_response1, "error"))
    BY <1>1, <1>4, <2>7, NoBlocks, PointersAre DEF Typed, Counts, Gives, Truthful, Test,
       Targets, PtrOps, Failing
  <2>10. Q(3, Line(p_response1, "error"))
    BY <1>1, <1>4, <2>7, NoBlocks, PointersAre DEF Typed, Counts, Gives, Truthful, Line,
       Targets, PtrOps, Failing
  <2>11. Q(4, FindColon)
    BY <1>4, <2>7, NoBlocks DEF Typed, Counts, Gives, Truthful, FindColon, Targets, PtrOps
  <2>12. Q(5, Goto("list"))
    BY <1>1, <1>4, <2>7, NoBlocks DEF Typed, Counts, Gives, Truthful, Goto, Targets,
       PtrOps, Failing
  <2>13. ASSUME NEW i \in 1 .. 5, NEW j, j = i + 1, NEW c, Q(i, c),
                \A w \in Pointers : Passes(w, f, c, Mark(w, f, "old", i), Mark(w, f, "old", j))
         PROVE  GoodPoint(f, "old", i, c)
    BY <2>13 DEF GoodPoint
  <2>14. \A j \in 1 .. 5 : Mark(p_response, f, "old", j) = "line"
    BY <1>2, MarksAre
  <2>15. /\ Mark(p_response1, f, "old", 1) = "any"
         /\ Mark(p_response1, f, "old", 2) = "triedLine"
         /\ \A j \in 3 .. 5 : Mark(p_response1, f, "old", j) = "line"
    BY <1>4, PointersAre DEF Mark, Second
  <2> HIDE DEF Q
  <2>16. GoodPoint(f, "old", 1, Send(p_response1, "SINGLELINE"))
    BY <2>2, <2>8, <2>13, <2>14, <2>15, PointersAre
  <2>17. GoodPoint(f, "old", 2, Test(p_response1, "error"))
    BY <2>3, <2>9, <2>13, <2>14, <2>15, PointersAre
  <2>18. GoodPoint(f, "old", 3, Line(p_response1, "error"))
    BY <2>4, <2>10, <2>13, <2>14, <2>15, PointersAre
  <2>19. GoodPoint(f, "old", 4, FindColon)
    BY <2>5, <2>11, <2>13, <2>14, <2>15, PointersAre
  <2>20. GoodPoint(f, "old", 5, Goto("list"))
    BY <2>6, <2>12, <2>13, <2>14, <2>15, PointersAre
  <2> QED BY <1>1, <1>2, <1>3, <2>16, <2>17, <2>18, <2>19, <2>20 DEF GoodLabel, GoodEnd, Never

<1>7. PlainLabel(f, "list")
  <2>1. 1 # Told(f, "list") /\ 2 = Told(f, "list")
    BY <1>3
  <2>2. /\ PlainPoint(f, "list", 1, Free(p_response), "owned", "gone")
        /\ PlainPoint(f, "list", 2, Done("SUCCESS"), "gone", "gone")
    BY <1>4, <2>1, FreeRule, DoneRule DEF Follows, Owned, Results, Failing
  <2> QED BY <1>1, <1>2, <1>3, <1>4, <2>2 DEF PlainLabel, GoodEnd, Empty, Never
<1>8. PlainLabel(f, "failed")
  <2>1. 1 = Told(f, "failed")
    BY <1>3
  <2>2. PlainPoint(f, "failed", 1, Done("GENERIC_FAILURE"), "any", "any")
    BY <1>4, <2>1, DoneRule DEF Follows, Results, Failing
  <2> QED BY <1>1, <1>2, <1>3, <1>4, <2>2 DEF PlainLabel, GoodEnd, Empty, Never
<1>9. PlainLabel(f, "error")
  <2>1. 1 = Told(f, "error") /\ 2 # Told(f, "error")
    BY <1>3
  <2>2. /\ PlainPoint(f, "error", 1, Done("GENERIC_FAILURE"), "owned", "owned")
        /\ PlainPoint(f, "error", 2, Free(p_response), "owned", "gone")
    BY <1>4, <2>1, DoneRule, FreeRule DEF Follows, Results, Failing, Owned
  <2> QED BY <1>1, <1>2, <1>3, <1>4, <2>2 DEF PlainLabel, GoodEnd, Empty, Never
<1>10. GoodStart(f)
  BY <1>1, <1>2, <1>3 DEF GoodStart, Follows
<1> QED BY <1>1, <1>4, <1>5, <1>6, <1>7, <1>8, <1>9, <1>10, PlainIsGood DEF Good,
         DataCallList

LEMMA requestBaseBandVersionGood == Good("requestBaseBandVersion")
<1>0. SUFFICES ASSUME NEW f, f = "requestBaseBandVersion" PROVE Good(f)
  OBVIOUS
<1>1. /\ DOMAIN Body(f) = {"start", "failed"}
      /\ Programs[f].init = "null"
      /\ Body(f)["start"] = <<Send(p_response, "SINGLELINE"), TestErr("failed"),
         Read(p_response), CopyVersion, DoneWith(p_response, "SUCCESS"),
         Free(p_response)>>
      /\ Body(f)["failed"] = <<Done("GENERIC_FAILURE")>>
  BY <1>0 DEF Body, Programs, requestBaseBandVersion, Program
<1>2. /\ Outline[f]["start"] = <<"null", "sentLine", "answered", "line", "line",
         "line", "gone">>
      /\ Outline[f]["failed"] = <<"owned", "owned">>
  BY <1>0 DEF Outline
<1>3. /\ Told(f, "start") = 5 /\ <<f, "start">> \notin Blurred
      /\ Told(f, "failed") = 1 /\ <<f, "failed">> \notin Blurred
  BY <1>0 DEF Told, Tells, Silent, Blurred, Never
<1>4. /\ f \notin Strict /\ f \notin Silent /\ f \in Leaky /\ f \notin Leaves
      /\ f # "requestReadBinary" /\ f # DataCallList /\ <<f, "line">> \in Unchecked
  BY <1>0 DEF Strict, Silent, Leaky, Leaves, DataCallList, Unchecked
<1>5. PlainLabel(f, "start")
  <2>1. 1 # Told(f, "start") /\ 2 # Told(f, "start") /\ 3 # Told(f, "start") /\ 4 #
        Told(f, "start") /\ 5 = Told(f, "start") /\ 6 # Told(f, "start")
    BY <1>3
  <2>2. Leads(f, "start", 2, "owned", "failed")
    BY <1>1, <1>2, <1>3, <1>4, MarksAre DEF Leads, Meets, Follows
  <2>3. /\ PlainPoint(f, "start", 1, Send(p_response, "SINGLELINE"), "null",
           "sentLine")
        /\ PlainPoint(f, "start", 2, TestErr("failed"), "sentLine", "answered")
        /\ PlainPoint(f, "start", 3, Read(p_response), "answered", "line")
        /\ PlainPoint(f, "start", 4, CopyVersion, "line", "line")
        /\ PlainPoint(f, "start", 5, DoneWith(p_response, "SUCCESS"), "line", "line")
        /\ PlainPoint(f, "start", 6, Free(p_response), "line", "gone")
    BY <1>4, <2>1, <2>2, SendRule, TestErrRule, ReadRule, StraightRule, DoneWithRule,
       FreeRule DEF Follows, AfterSend, Owned, Empty, NoErr, AnErr, OnFailure, OfErr,
       HasIt, Results
  <2> QED BY <1>1, <1>2, <1>3, <1>4, <2>3 DEF PlainLabel, GoodEnd, Empty, Never
<1>6. PlainLabel(f, "failed")
  <2>1. 1 = Told(f, "failed")
    BY <1>3
  <2>2. PlainPoint(f, "failed", 1, Done("GENERIC_FAILURE"), "owned", "owned")
    BY <1>4, <2>1, DoneRule DEF Follows, Results
  <2> QED BY <1>1, <1>2, <1>3, <1>4, <2>2 DEF PlainLabel, GoodEnd, Empty, Never
<1>7. GoodStart(f)
  BY <1>1, <1>2, <1>3 DEF GoodStart, Follows
<1> QED BY <1>1, <1>4, <1>5, <1>6, <1>7, PlainIsGood DEF Good

LEMMA requestRadioPowerGood == Good("requestRadioPower")
<1>0. SUFFICES ASSUME NEW f, f = "requestRadioPower" PROVE Good(f)
  OBVIOUS
<1>1. /\ DOMAIN Body(f) = {"start", "on", "verify", "done", "error"}
      /\ Programs[f].init = "null"
      /\ Body(f)["start"] = <<Either({"done", "on"}), InState({"OFF"}, "done"),
         Send(p_response, "NO_RESULT"), Test(p_response, "error"),
         SetRadioState("OFF"), Goto("done")>>
      /\ Body(f)["on"] = <<InState({"ON", "UNAVAILABLE"}, "done"), Send(p_response,
         "NO_RESULT"), Test(p_response, "verify"), SetRadioState("ON"), Goto("done")>>
      /\ Body(f)["verify"] = <<Call("isRadioOn"), Unless("error"),
         SetRadioState("ON"), Goto("done")>>
      /\ Body(f)["done"] = <<Free(p_response), Done("SUCCESS")>>
      /\ Body(f)["error"] = <<Free(p_response), Done("GENERIC_FAILURE")>>
  BY <1>0 DEF Body, Programs, requestRadioPower, Program
<1>2. /\ Outline[f]["start"] = <<"null", "null", "null", "sent", "live", "live",
         "none">>
      /\ Outline[f]["on"] = <<"null", "null", "sent", "live", "live", "none">>
      /\ Outline[f]["verify"] = <<"owned", "owned", "owned", "owned", "none">>
      /\ Outline[f]["done"] = <<"owned", "gone", "gone">>
      /\ Outline[f]["error"] = <<"owned", "gone", "gone">>
  BY <1>0 DEF Outline
<1>3. /\ Told(f, "start") = 99 /\ <<f, "start">> \notin Blurred
      /\ Told(f, "on") = 99 /\ <<f, "on">> \notin Blurred
      /\ Told(f, "verify") = 99 /\ <<f, "verify">> \notin Blurred
      /\ Told(f, "done") = 2 /\ <<f, "done">> \notin Blurred
      /\ Told(f, "error") = 2 /\ <<f, "error">> \notin Blurred
  BY <1>0 DEF Told, Tells, Silent, Blurred, Never
<1>4. /\ f \notin Strict /\ f \notin Silent /\ f \notin Leaky /\ f \notin Leaves
      /\ f # "requestReadBinary" /\ f # DataCallList
  BY <1>0 DEF Strict, Silent, Leaky, Leaves, DataCallList
<1>5. PlainLabel(f, "start")
  <2>1. 1 # Told(f, "start") /\ 2 # Told(f, "start") /\ 3 # Told(f, "start") /\ 4 #
        Told(f, "start") /\ 5 # Told(f, "start") /\ 6 # Told(f, "start")
    BY <1>3
  <2>2. /\ Leads(f, "start", 1, "null", "done")
        /\ Leads(f, "start", 1, "null", "on")
        /\ Leads(f, "start", 2, "null", "done")
        /\ Leads(f, "start", 4, "owned", "error")
        /\ Leads(f, "start", 6, "live", "done")
    BY <1>1, <1>2, <1>3, <1>4, MarksAre DEF Leads, Meets, Follows
  <2>3. /\ PlainPoint(f, "start", 1, Either({"done", "on"}), "null", "null")
        /\ PlainPoint(f, "start", 2, InState({"OFF"}, "done"), "null", "null")
        /\ PlainPoint(f, "start", 3, Send(p_response, "NO_RESULT"), "null", "sent")
        /\ PlainPoint(f, "start", 4, Test(p_response, "error"), "sent", "live")
        /\ PlainPoint(f, "start", 5, SetRadioState("OFF"), "live", "live")
        /\ PlainPoint(f, "start", 6, Goto("done"), "live", "none")
    BY <1>4, <2>1, <2>2, EitherRule, BranchRule, SendRule, TestRule, StraightRule,
       GotoRule DEF Follows, AfterSend, Owned, Empty, OnSuccess, OnFailure, OfErr
  <2> QED BY <1>1, <1>2, <1>3, <1>4, <2>3 DEF PlainLabel, GoodEnd, Empty, Never
<1>6. PlainLabel(f, "on")
  <2>1. 1 # Told(f, "on") /\ 2 # Told(f, "on") /\ 3 # Told(f, "on") /\ 4 # Told(f,
        "on") /\ 5 # Told(f, "on")
    BY <1>3
  <2>2. /\ Leads(f, "on", 1, "null", "done")
        /\ Leads(f, "on", 3, "owned", "verify")
        /\ Leads(f, "on", 5, "live", "done")
    BY <1>1, <1>2, <1>3, <1>4, MarksAre DEF Leads, Meets, Follows
  <2>3. /\ PlainPoint(f, "on", 1, InState({"ON", "UNAVAILABLE"}, "done"), "null",
           "null")
        /\ PlainPoint(f, "on", 2, Send(p_response, "NO_RESULT"), "null", "sent")
        /\ PlainPoint(f, "on", 3, Test(p_response, "verify"), "sent", "live")
        /\ PlainPoint(f, "on", 4, SetRadioState("ON"), "live", "live")
        /\ PlainPoint(f, "on", 5, Goto("done"), "live", "none")
    BY <1>4, <2>1, <2>2, BranchRule, SendRule, TestRule, StraightRule, GotoRule DEF
       Follows, AfterSend, Owned, Empty, OnSuccess, OnFailure, OfErr
  <2> QED BY <1>1, <1>2, <1>3, <1>4, <2>3 DEF PlainLabel, GoodEnd, Empty, Never
<1>7. PlainLabel(f, "verify")
  <2>1. 1 # Told(f, "verify") /\ 1 <= Told(f, "verify") /\ 2 # Told(f, "verify") /\ 3
        # Told(f, "verify") /\ 4 # Told(f, "verify")
    BY <1>3
  <2>2. /\ Leads(f, "verify", 2, "owned", "error")
        /\ Leads(f, "verify", 4, "owned", "done")
    BY <1>1, <1>2, <1>3, <1>4, MarksAre DEF Leads, Meets, Follows
  <2>3. /\ PlainPoint(f, "verify", 1, Call("isRadioOn"), "owned", "owned")
        /\ PlainPoint(f, "verify", 2, Unless("error"), "owned", "owned")
        /\ PlainPoint(f, "verify", 3, SetRadioState("ON"), "owned", "owned")
        /\ PlainPoint(f, "verify", 4, Goto("done"), "owned", "none")
    BY <1>3, <1>4, <2>1, <2>2, CallRule, BranchRule, StraightRule, GotoRule DEF
       Follows, Leaves, Silent, Strict, DataCallList
  <2> QED BY <1>1, <1>2, <1>3, <1>4, <2>3 DEF PlainLabel, GoodEnd, Empty, Never
<1>8. PlainLabel(f, "done")
  <2>1. 1 # Told(f, "done") /\ 2 = Told(f, "done")
    BY <1>3
  <2>2. /\ PlainPoint(f, "done", 1, Free(p_response), "owned", "gone")
        /\ PlainPoint(f, "done", 2, Done("SUCCESS"), "gone", "gone")
    BY <1>4, <2>1, FreeRule, DoneRule DEF Follows, Owned, Results
  <2> QED BY <1>1, <1>2, <1>3, <1>4, <2>2 DEF PlainLabel, GoodEnd, Empty, Never
<1>9. PlainLabel(f, "error")
  <2>1. 1 # Told(f, "error") /\ 2 = Told(f, "error")
    BY <1>3
  <2>2. /\ PlainPoint(f, "error", 1, Free(p_response), "owned", "gone")
        /\ PlainPoint(f, "error", 2, Done("GENERIC_FAILURE"), "gone", "gone")
    BY <1>4, <2>1, FreeRule, DoneRule DEF Follows, Owned, Results
  <2> QED BY <1>1, <1>2, <1>3, <1>4, <2>2 DEF PlainLabel, GoodEnd, Empty, Never
<1>10. GoodStart(f)
  BY <1>1, <1>2, <1>3 DEF GoodStart, Follows
<1> QED BY <1>1, <1>4, <1>5, <1>6, <1>7, <1>8, <1>9, <1>10, PlainIsGood DEF Good

LEMMA getSimStatusRequestGood == Good("getSimStatusRequest")
<1>0. SUFFICES ASSUME NEW f, f = "getSimStatusRequest" PROVE Good(f)
  OBVIOUS
<1>1. /\ DOMAIN Body(f) = {"start"}
      /\ Programs[f].init = "null"
      /\ Body(f)["start"] = <<Call("getSIMStatus"), Done("SUCCESS")>>
  BY <1>0 DEF Body, Programs, getSimStatusRequest, Program
<1>2. Outline[f]["start"] = <<"gone", "gone", "gone">>
  BY <1>0 DEF Outline
<1>3. Told(f, "start") = 2 /\ <<f, "start">> \notin Blurred
  BY <1>0 DEF Told, Tells, Silent, Blurred, Never
<1>4. /\ f \notin Strict /\ f \notin Silent /\ f \notin Leaky /\ f \notin Leaves
      /\ f # "requestReadBinary" /\ f # DataCallList
  BY <1>0 DEF Strict, Silent, Leaky, Leaves, DataCallList
<1>5. PlainLabel(f, "start")
  <2>1. 1 # Told(f, "start") /\ 1 <= Told(f, "start") /\ 2 = Told(f, "start")
    BY <1>3
  <2>2. /\ PlainPoint(f, "start", 1, Call("getSIMStatus"), "gone", "gone")
        /\ PlainPoint(f, "start", 2, Done("SUCCESS"), "gone", "gone")
    BY <1>3, <1>4, <2>1, CallRule, DoneRule DEF Follows, Leaves, Silent, Strict,
       DataCallList, Results
  <2> QED BY <1>1, <1>2, <1>3, <1>4, <2>2 DEF PlainLabel, GoodEnd, Empty, Never
<1>6. GoodStart(f)
  BY <1>1, <1>2, <1>3 DEF GoodStart, Follows
<1> QED BY <1>1, <1>4, <1>5, <1>6, PlainIsGood DEF Good

LEMMA requestQueryNetworkSelectionModeGood == Good("requestQueryNetworkSelectionMode")
<1>0. SUFFICES ASSUME NEW f, f = "requestQueryNetworkSelectionMode" PROVE Good(f)
  OBVIOUS
<1>1. /\ DOMAIN Body(f) = {"start", "refused", "error"}
      /\ Programs[f].init = "null"
      /\ Body(f)["start"] = <<Send(p_response, "SINGLELINE"), Test(p_response,
         "refused"), Line(p_response, "error"), Done("SUCCESS"), Free(p_response)>>
      /\ Body(f)["refused"] = <<Done("SUCCESS"), Free(p_response)>>
      /\ Body(f)["error"] = <<Free(p_response), Done("GENERIC_FAILURE")>>
  BY <1>0 DEF Body, Programs, requestQueryNetworkSelectionMode, Program
<1>2. /\ Outline[f]["start"] = <<"null", "sentLine", "line", "line", "line", "gone">>
      /\ Outline[f]["refused"] = <<"owned", "owned", "gone">>
      /\ Outline[f]["error"] = <<"owned", "gone", "gone">>
  BY <1>0 DEF Outline
<1>3. /\ Told(f, "start") = 4 /\ <<f, "start">> \notin Blurred
      /\ Told(f, "refused") = 1 /\ <<f, "refused">> \notin Blurred
      /\ Told(f, "error") = 2 /\ <<f, "error">> \notin Blurred
  BY <1>0 DEF Told, Tells, Silent, Blurred, Never
<1>4. /\ f \notin Strict /\ f \notin Silent /\ f \notin Leaky /\ f \notin Leaves
      /\ f # "requestReadBinary" /\ f # DataCallList
  BY <1>0 DEF Strict, Silent, Leaky, Leaves, DataCallList
<1>5. PlainLabel(f, "start")
  <2>1. 1 # Told(f, "start") /\ 2 # Told(f, "start") /\ 3 # Told(f, "start") /\ 4 =
        Told(f, "start") /\ 5 # Told(f, "start")
    BY <1>3
  <2>2. /\ Leads(f, "start", 2, "owned", "refused")
        /\ Leads(f, "start", 3, "line", "error")
    BY <1>1, <1>2, <1>3, <1>4, MarksAre DEF Leads, Meets, Follows
  <2>3. /\ PlainPoint(f, "start", 1, Send(p_response, "SINGLELINE"), "null",
           "sentLine")
        /\ PlainPoint(f, "start", 2, Test(p_response, "refused"), "sentLine", "line")
        /\ PlainPoint(f, "start", 3, Line(p_response, "error"), "line", "line")
        /\ PlainPoint(f, "start", 4, Done("SUCCESS"), "line", "line")
        /\ PlainPoint(f, "start", 5, Free(p_response), "line", "gone")
    BY <1>4, <2>1, <2>2, SendRule, TestRule, LineRule, DoneRule, FreeRule DEF Follows,
       AfterSend, Owned, Empty, OnSuccess, OnFailure, OfErr, Results
  <2> QED BY <1>1, <1>2, <1>3, <1>4, <2>3 DEF PlainLabel, GoodEnd, Empty, Never
<1>6. PlainLabel(f, "refused")
  <2>1. 1 = Told(f, "refused") /\ 2 # Told(f, "refused")
    BY <1>3
  <2>2. /\ PlainPoint(f, "refused", 1, Done("SUCCESS"), "owned", "owned")
        /\ PlainPoint(f, "refused", 2, Free(p_response), "owned", "gone")
    BY <1>4, <2>1, DoneRule, FreeRule DEF Follows, Results, Owned
  <2> QED BY <1>1, <1>2, <1>3, <1>4, <2>2 DEF PlainLabel, GoodEnd, Empty, Never
<1>7. PlainLabel(f, "error")
  <2>1. 1 # Told(f, "error") /\ 2 = Told(f, "error")
    BY <1>3
  <2>2. /\ PlainPoint(f, "error", 1, Free(p_response), "owned", "gone")
        /\ PlainPoint(f, "error", 2, Done("GENERIC_FAILURE"), "gone", "gone")
    BY <1>4, <2>1, FreeRule, DoneRule DEF Follows, Owned, Results
  <2> QED BY <1>1, <1>2, <1>3, <1>4, <2>2 DEF PlainLabel, GoodEnd, Empty, Never
<1>8. GoodStart(f)
  BY <1>1, <1>2, <1>3 DEF GoodStart, Follows
<1> QED BY <1>1, <1>4, <1>5, <1>6, <1>7, <1>8, PlainIsGood DEF Good

LEMMA requestSignalStrengthGood == Good("requestSignalStrength")
<1>0. SUFFICES ASSUME NEW f, f = "requestSignalStrength" PROVE Good(f)
  OBVIOUS
<1>1. /\ DOMAIN Body(f) = {"start", "refused", "error"}
      /\ Programs[f].init = "null"
      /\ Body(f)["start"] = <<Send(p_response, "SINGLELINE"), Test(p_response,
         "refused"), Line(p_response, "error"), Free(p_response), Null(p_response),
         Send(p_response, "SINGLELINE"), Test(p_response, "refused"), Line(p_response,
         "error"), Done("SUCCESS"), Free(p_response)>>
      /\ Body(f)["refused"] = <<Done("GENERIC_FAILURE"), Goto("error")>>
      /\ Body(f)["error"] = <<Done("GENERIC_FAILURE"), Free(p_response)>>
  BY <1>0 DEF Body, Programs, requestSignalStrength, Program
<1>2. /\ Outline[f]["start"] = <<"null", "sentLine", "line", "line", "gone", "null",
         "sentLine", "line", "line", "line", "gone">>
      /\ Outline[f]["refused"] = <<"owned", "owned", "none">>
      /\ Outline[f]["error"] = <<"owned", "owned", "gone">>
  BY <1>0 DEF Outline
<1>3. /\ Told(f, "start") = 9 /\ <<f, "start">> \notin Blurred
      /\ Told(f, "refused") = 1 /\ <<f, "refused">> \notin Blurred
      /\ Told(f, "error") = 1 /\ <<f, "error">> \in Blurred
  BY <1>0 DEF Told, Tells, Silent, Blurred, Never
<1>4. /\ f \in Strict /\ f \notin Silent /\ f \notin Leaky /\ f \notin Leaves
      /\ f # "requestReadBinary" /\ f # DataCallList
  BY <1>0 DEF Strict, Silent, Leaky, Leaves, DataCallList
<1>5. PlainLabel(f, "start")
  <2>1. 1 # Told(f, "start") /\ 2 # Told(f, "start") /\ 3 # Told(f, "start") /\ 4 #
        Told(f, "start") /\ 5 # Told(f, "start") /\ 6 # Told(f, "start") /\ 7 #
        Told(f, "start") /\ 8 # Told(f, "start") /\ 9 = Told(f, "start") /\ 10 #
        Told(f, "start")
    BY <1>3
  <2>2. /\ Leads(f, "start", 2, "owned", "refused")
        /\ Leads(f, "start", 3, "line", "error")
        /\ Leads(f, "start", 7, "owned", "refused")
        /\ Leads(f, "start", 8, "line", "error")
    BY <1>1, <1>2, <1>3, <1>4, MarksAre DEF Leads, Meets, Follows, Failing
  <2>3. TestsNext(f, "start", 1, p_response)
    BY <1>1, <1>3 DEF TestsNext, Test, Failing
  <2>4. TestsNext(f, "start", 6, p_response)
    BY <1>1, <1>3 DEF TestsNext, Test, Failing
  <2>5. /\ PlainPoint(f, "start", 1, Send(p_response, "SINGLELINE"), "null",
           "sentLine")
        /\ PlainPoint(f, "start", 2, Test(p_response, "refused"), "sentLine", "line")
        /\ PlainPoint(f, "start", 3, Line(p_response, "error"), "line", "line")
        /\ PlainPoint(f, "start", 4, Free(p_response), "line", "gone")
        /\ PlainPoint(f, "start", 5, Null(p_response), "gone", "null")
        /\ PlainPoint(f, "start", 6, Send(p_response, "SINGLELINE"), "null",
           "sentLine")
        /\ PlainPoint(f, "start", 7, Test(p_response, "refused"), "sentLine", "line")
        /\ PlainPoint(f, "start", 8, Line(p_response, "error"), "line", "line")
        /\ PlainPoint(f, "start", 9, Done("SUCCESS"), "line", "line")
        /\ PlainPoint(f, "start", 10, Free(p_response), "line", "gone")
    BY <1>4, <2>1, <2>2, <2>3, <2>4, SendRule, TestRule, LineRule, FreeRule, NullRule,
       DoneRule DEF Follows, AfterSend, Owned, Empty, OnSuccess, OnFailure, OfErr,
       Failing, Results
  <2> QED BY <1>1, <1>2, <1>3, <1>4, <2>5 DEF PlainLabel, GoodEnd, Empty, Never
<1>6. PlainLabel(f, "refused")
  <2>1. 1 = Told(f, "refused") /\ 2 # Told(f, "refused")
    BY <1>3
  <2>2. Leads(f, "refused", 2, "owned", "error")
    BY <1>1, <1>2, <1>3, <1>4, MarksAre DEF Leads, Meets, Follows, Failing
  <2>3. /\ PlainPoint(f, "refused", 1, Done("GENERIC_FAILURE"), "owned", "owned")
        /\ PlainPoint(f, "refused", 2, Goto("error"), "owned", "none")
    BY <1>4, <2>1, <2>2, DoneRule, GotoRule DEF Follows, Results, Failing
  <2> QED BY <1>1, <1>2, <1>3, <1>4, <2>3 DEF PlainLabel, GoodEnd, Empty, Never
<1>7. PlainLabel(f, "error")
  <2>1. 1 = Told(f, "error") /\ 2 # Told(f, "error")
    BY <1>3
  <2>2. /\ PlainPoint(f, "error", 1, Done("GENERIC_FAILURE"), "owned", "owned")
        /\ PlainPoint(f, "error", 2, Free(p_response), "owned", "gone")
    BY <1>4, <2>1, DoneRule, FreeRule DEF Follows, Results, Failing, Owned
  <2> QED BY <1>1, <1>2, <1>3, <1>4, <2>2 DEF PlainLabel, GoodEnd, Empty, Never
<1>8. GoodStart(f)
  BY <1>1, <1>2, <1>3 DEF GoodStart, Follows
<1> QED BY <1>1, <1>4, <1>5, <1>6, <1>7, <1>8, PlainIsGood DEF Good

LEMMA requestRegistrationStateGood == Good("requestRegistrationState")
<1>0. SUFFICES ASSUME NEW f, f = "requestRegistrationState" PROVE Good(f)
  OBVIOUS
<1>1. /\ DOMAIN Body(f) = {"start", "cops", "state", "sysinfo", "done", "error"}
      /\ Programs[f].init = "null"
      /\ Body(f)["start"] = <<When("DATA_REGISTRATION_STATE", "cops"), Goto("state")>>
      /\ Body(f)["cops"] = <<Call("airm2m_at_cops"), Free(p_response), Goto("state")>>
      /\ Body(f)["state"] = <<Send(p_response, "SINGLELINE"), TestErr("error"),
         Line(p_response, "error"), When("DATA_REGISTRATION_STATE", "sysinfo"),
         Goto("done")>>
      /\ Body(f)["sysinfo"] = <<Free(p_response), Send(p_response, "SINGLELINE"),
         TestErr("error"), Line(p_response, "error"), Goto("done")>>
      /\ Body(f)["done"] = <<Done("SUCCESS"), Free(p_response)>>
      /\ Body(f)["error"] = <<Done("GENERIC_FAILURE"), Free(p_response)>>
  BY <1>0 DEF Body, Programs, requestRegistrationState, Program
<1>2. /\ Outline[f]["start"] = <<"null", "null", "none">>
      /\ Outline[f]["cops"] = <<"null", "null", "null", "none">>
      /\ Outline[f]["state"] = <<"null", "sentLine", "answered", "line", "line",
         "none">>
      /\ Outline[f]["sysinfo"] = <<"line", "gone", "triedLine", "answered", "line",
         "none">>
      /\ Outline[f]["done"] = <<"owned", "owned", "gone">>
      /\ Outline[f]["error"] = <<"any", "any", "gone">>
  BY <1>0 DEF Outline
<1>3. /\ Told(f, "start") = 99 /\ <<f, "start">> \notin Blurred
      /\ Told(f, "cops") = 99 /\ <<f, "cops">> \notin Blurred
      /\ Told(f, "state") = 99 /\ <<f, "state">> \notin Blurred
      /\ Told(f, "sysinfo") = 99 /\ <<f, "sysinfo">> \notin Blurred
      /\ Told(f, "done") = 1 /\ <<f, "done">> \notin Blurred
      /\ Told(f, "error") = 1 /\ <<f, "error">> \notin Blurred
  BY <1>0 DEF Told, Tells, Silent, Blurred, Never
<1>4. /\ f \notin Strict /\ f \notin Silent /\ f \notin Leaky /\ f \notin Leaves
      /\ f # "requestReadBinary" /\ f # DataCallList /\ <<f, "line">> \in Unchecked
         /\ <<f, "free">> \in Unchecked
  BY <1>0 DEF Strict, Silent, Leaky, Leaves, DataCallList, Unchecked
<1>5. PlainLabel(f, "start")
  <2>1. 1 # Told(f, "start") /\ 2 # Told(f, "start")
    BY <1>3
  <2>2. /\ Leads(f, "start", 1, "null", "cops")
        /\ Leads(f, "start", 2, "null", "state")
    BY <1>1, <1>2, <1>3, <1>4, MarksAre DEF Leads, Meets, Follows
  <2>3. /\ PlainPoint(f, "start", 1, When("DATA_REGISTRATION_STATE", "cops"), "null",
           "null")
        /\ PlainPoint(f, "start", 2, Goto("state"), "null", "none")
    BY <1>4, <2>1, <2>2, BranchRule, GotoRule DEF Follows
  <2> QED BY <1>1, <1>2, <1>3, <1>4, <2>3 DEF PlainLabel, GoodEnd, Empty, Never
<1>6. PlainLabel(f, "cops")
  <2>1. 1 # Told(f, "cops") /\ 1 <= Told(f, "cops") /\ 2 # Told(f, "cops") /\ 3 #
        Told(f, "cops")
    BY <1>3
  <2>2. Leads(f, "cops", 3, "null", "state")
    BY <1>1, <1>2, <1>3, <1>4, MarksAre DEF Leads, Meets, Follows
  <2>3. /\ PlainPoint(f, "cops", 1, Call("airm2m_at_cops"), "null", "null")
        /\ PlainPoint(f, "cops", 2, Free(p_response), "null", "null")
        /\ PlainPoint(f, "cops", 3, Goto("state"), "null", "none")
    BY <1>3, <1>4, <2>1, <2>2, CallRule, FreeRule, GotoRule DEF Follows, Leaves,
       Silent, Strict, DataCallList, Owned
  <2> QED BY <1>1, <1>2, <1>3, <1>4, <2>3 DEF PlainLabel, GoodEnd, Empty, Never
<1>7. PlainLabel(f, "state")
  <2>1. 1 # Told(f, "state") /\ 2 # Told(f, "state") /\ 3 # Told(f, "state") /\ 4 #
        Told(f, "state") /\ 5 # Told(f, "state")
    BY <1>3
  <2>2. /\ Leads(f, "state", 2, "owned", "error")
        /\ Leads(f, "state", 3, "answered", "error")
        /\ Leads(f, "state", 4, "line", "sysinfo")
        /\ Leads(f, "state", 5, "line", "done")
    BY <1>1, <1>2, <1>3, <1>4, MarksAre DEF Leads, Meets, Follows
  <2>3. /\ PlainPoint(f, "state", 1, Send(p_response, "SINGLELINE"), "null",
           "sentLine")
        /\ PlainPoint(f, "state", 2, TestErr("error"), "sentLine", "answered")
        /\ PlainPoint(f, "state", 3, Line(p_response, "error"), "answered", "line")
        /\ PlainPoint(f, "state", 4, When("DATA_REGISTRATION_STATE", "sysinfo"),
           "line", "line")
        /\ PlainPoint(f, "state", 5, Goto("done"), "line", "none")
    BY <1>4, <2>1, <2>2, SendRule, TestErrRule, LineRule, BranchRule, GotoRule DEF
       Follows, AfterSend, Owned, Empty, NoErr, AnErr, OnFailure, OfErr, HasIt
  <2> QED BY <1>1, <1>2, <1>3, <1>4, <2>3 DEF PlainLabel, GoodEnd, Empty, Never
<1>8. PlainLabel(f, "sysinfo")
  <2>1. 1 # Told(f, "sysinfo") /\ 2 # Told(f, "sysinfo") /\ 3 # Told(f, "sysinfo")
        /\ 4 # Told(f, "sysinfo") /\ 5 # Told(f, "sysinfo")
    BY <1>3
  <2>2. /\ Leads(f, "sysinfo", 3, "any", "error")
        /\ Leads(f, "sysinfo", 4, "answered", "error")
        /\ Leads(f, "sysinfo", 5, "line", "done")
    BY <1>1, <1>2, <1>3, <1>4, MarksAre DEF Leads, Meets, Follows
  <2>3. /\ PlainPoint(f, "sysinfo", 1, Free(p_response), "line", "gone")
        /\ PlainPoint(f, "sysinfo", 2, Send(p_response, "SINGLELINE"), "gone",
           "triedLine")
        /\ PlainPoint(f, "sysinfo", 3, TestErr("error"), "triedLine", "answered")
        /\ PlainPoint(f, "sysinfo", 4, Line(p_response, "error"), "answered", "line")
        /\ PlainPoint(f, "sysinfo", 5, Goto("done"), "line", "none")
    BY <1>4, <2>1, <2>2, FreeRule, SendRule, TestErrRule, LineRule, GotoRule DEF
       Follows, Owned, AfterSend, Empty, NoErr, AnErr, OnFailure, OfErr, HasIt
  <2> QED BY <1>1, <1>2, <1>3, <1>4, <2>3 DEF PlainLabel, GoodEnd, Empty, Never
<1>9. PlainLabel(f, "done")
  <2>1. 1 = Told(f, "done") /\ 2 # Told(f, "done")
    BY <1>3
  <2>2. /\ PlainPoint(f, "done", 1, Done("SUCCESS"), "owned", "owned")
        /\ PlainPoint(f, "done", 2, Free(p_response), "owned", "gone")
    BY <1>4, <2>1, DoneRule, FreeRule DEF Follows, Results, Owned
  <2> QED BY <1>1, <1>2, <1>3, <1>4, <2>2 DEF PlainLabel, GoodEnd, Empty, Never
<1>10. PlainLabel(f, "error")
  <2>1. 1 = Told(f, "error") /\ 2 # Told(f, "error")
    BY <1>3
  <2>2. /\ PlainPoint(f, "error", 1, Done("GENERIC_FAILURE"), "any", "any")
        /\ PlainPoint(f, "error", 2, Free(p_response), "any", "gone")
    BY <1>4, <2>1, DoneRule, FreeRule DEF Follows, Results, Owned
  <2> QED BY <1>1, <1>2, <1>3, <1>4, <2>2 DEF PlainLabel, GoodEnd, Empty, Never
<1>11. GoodStart(f)
  BY <1>1, <1>2, <1>3 DEF GoodStart, Follows
<1> QED BY <1>1, <1>4, <1>5, <1>6, <1>7, <1>8, <1>9, <1>10, <1>11, PlainIsGood DEF Good

LEMMA requestOperatorGood == Good("requestOperator")
<1>0. SUFFICES ASSUME NEW f, f = "requestOperator" PROVE Good(f)
  OBVIOUS
<1>1. /\ DOMAIN Body(f) = {"start", "error"}
      /\ Programs[f].init = "null"
      /\ Body(f)["start"] = <<Send(p_response, "MULTILINE"), TestErr("error"),
         ThreeLines(p_response, "error"), DoneWith(p_response, "SUCCESS"),
         Free(p_response)>>
      /\ Body(f)["error"] = <<Done("GENERIC_FAILURE"), Free(p_response)>>
  BY <1>0 DEF Body, Programs, requestOperator, Program
<1>2. /\ Outline[f]["start"] = <<"null", "sent", "live", "line", "line", "gone">>
      /\ Outline[f]["error"] = <<"owned", "owned", "gone">>
  BY <1>0 DEF Outline
<1>3. /\ Told(f, "start") = 4 /\ <<f, "start">> \notin Blurred
      /\ Told(f, "error") = 1 /\ <<f, "error">> \notin Blurred
  BY <1>0 DEF Told, Tells, Silent, Blurred, Never
<1>4. /\ f \notin Strict /\ f \notin Silent /\ f \notin Leaky /\ f \notin Leaves
      /\ f # "requestReadBinary" /\ f # DataCallList
  BY <1>0 DEF Strict, Silent, Leaky, Leaves, DataCallList
<1>5. PlainLabel(f, "start")
  <2>1. 1 # Told(f, "start") /\ 2 # Told(f, "start") /\ 3 # Told(f, "start") /\ 4 =
        Told(f, "start") /\ 5 # Told(f, "start")
    BY <1>3
  <2>2. /\ Leads(f, "start", 2, "owned", "error")
        /\ Leads(f, "start", 3, "live", "error")
    BY <1>1, <1>2, <1>3, <1>4, MarksAre DEF Leads, Meets, Follows
  <2>3. /\ PlainPoint(f, "start", 1, Send(p_response, "MULTILINE"), "null", "sent")
        /\ PlainPoint(f, "start", 2, TestErr("error"), "sent", "live")
        /\ PlainPoint(f, "start", 3, ThreeLines(p_response, "error"), "live", "line")
        /\ PlainPoint(f, "start", 4, DoneWith(p_response, "SUCCESS"), "line", "line")
        /\ PlainPoint(f, "start", 5, Free(p_response), "line", "gone")
    BY <1>0, <1>4, <2>1, <2>2, SendRule, TestErrRule, ThreeLinesRule, DoneWithRule,
       FreeRule DEF Follows, AfterSend, Owned, Empty, NoErr, AnErr, OnFailure, OfErr,
       HasIt, Results
  <2> QED BY <1>1, <1>2, <1>3, <1>4, <2>3 DEF PlainLabel, GoodEnd, Empty, Never
<1>6. PlainLabel(f, "error")
  <2>1. 1 = Told(f, "error") /\ 2 # Told(f, "error")
    BY <1>3
  <2>2. /\ PlainPoint(f, "error", 1, Done("GENERIC_FAILURE"), "owned", "owned")
        /\ PlainPoint(f, "error", 2, Free(p_response), "owned", "gone")
    BY <1>4, <2>1, DoneRule, FreeRule DEF Follows, Results, Owned
  <2> QED BY <1>1, <1>2, <1>3, <1>4, <2>2 DEF PlainLabel, GoodEnd, Empty, Never
<1>7. GoodStart(f)
  BY <1>1, <1>2, <1>3 DEF GoodStart, Follows
<1> QED BY <1>1, <1>4, <1>5, <1>6, <1>7, PlainIsGood DEF Good

LEMMA requestSendSMSGood == Good("requestSendSMS")
<1>0. SUFFICES ASSUME NEW f, f = "requestSendSMS" PROVE Good(f)
  OBVIOUS
<1>1. /\ DOMAIN Body(f) = {"start", "error"}
      /\ Programs[f].init = "null"
      /\ Body(f)["start"] = <<Send(p_response, "SINGLELINE"), Test(p_response,
         "error"), Done("SUCCESS"), Free(p_response)>>
      /\ Body(f)["error"] = <<Done("GENERIC_FAILURE"), Free(p_response)>>
  BY <1>0 DEF Body, Programs, requestSendSMS, Program
<1>2. /\ Outline[f]["start"] = <<"null", "sentLine", "line", "line", "gone">>
      /\ Outline[f]["error"] = <<"owned", "owned", "gone">>
  BY <1>0 DEF Outline
<1>3. /\ Told(f, "start") = 3 /\ <<f, "start">> \notin Blurred
      /\ Told(f, "error") = 1 /\ <<f, "error">> \notin Blurred
  BY <1>0 DEF Told, Tells, Silent, Blurred, Never
<1>4. /\ f \in Strict /\ f \notin Silent /\ f \notin Leaky /\ f \notin Leaves
      /\ f # "requestReadBinary" /\ f # DataCallList
  BY <1>0 DEF Strict, Silent, Leaky, Leaves, DataCallList
<1>5. PlainLabel(f, "start")
  <2>1. 1 # Told(f, "start") /\ 2 # Told(f, "start") /\ 3 = Told(f, "start") /\ 4 #
        Told(f, "start")
    BY <1>3
  <2>2. Leads(f, "start", 2, "owned", "error")
    BY <1>1, <1>2, <1>3, <1>4, MarksAre DEF Leads, Meets, Follows, Failing
  <2>3. TestsNext(f, "start", 1, p_response)
    BY <1>1, <1>3 DEF TestsNext, Test, Failing
  <2>4. /\ PlainPoint(f, "start", 1, Send(p_response, "SINGLELINE"), "null",
           "sentLine")
        /\ PlainPoint(f, "start", 2, Test(p_response, "error"), "sentLine", "line")
        /\ PlainPoint(f, "start", 3, Done("SUCCESS"), "line", "line")
        /\ PlainPoint(f, "start", 4, Free(p_response), "line", "gone")
    BY <1>4, <2>1, <2>2, <2>3, SendRule, TestRule, DoneRule, FreeRule DEF Follows,
       AfterSend, Owned, Empty, OnSuccess, OnFailure, OfErr, Failing, Results
  <2> QED BY <1>1, <1>2, <1>3, <1>4, <2>4 DEF PlainLabel, GoodEnd, Empty, Never
<1>6. PlainLabel(f, "error")
  <2>1. 1 = Told(f, "error") /\ 2 # Told(f, "error")
    BY <1>3
  <2>2. /\ PlainPoint(f, "error", 1, Done("GENERIC_FAILURE"), "owned", "owned")
        /\ PlainPoint(f, "error", 2, Free(p_response), "owned", "gone")
    BY <1>4, <2>1, DoneRule, FreeRule DEF Follows, Results, Failing, Owned
  <2> QED BY <1>1, <1>2, <1>3, <1>4, <2>2 DEF PlainLabel, GoodEnd, Empty, Never
<1>7. GoodStart(f)
  BY <1>1, <1>2, <1>3 DEF GoodStart, Follows
<1> QED BY <1>1, <1>4, <1>5, <1>6, <1>7, PlainIsGood DEF Good

LEMMA requestWriteSmsToSimGood == Good("requestWriteSmsToSim")
<1>0. SUFFICES ASSUME NEW f, f = "requestWriteSmsToSim" PROVE Good(f)
  OBVIOUS
<1>1. /\ DOMAIN Body(f) = {"start", "error"}
      /\ Programs[f].init = "null"
      /\ Body(f)["start"] = <<Send(p_response, "SINGLELINE"), Test(p_response,
         "error"), Done("SUCCESS"), Free(p_response)>>
      /\ Body(f)["error"] = <<Done("GENERIC_FAILURE"), Free(p_response)>>
  BY <1>0 DEF Body, Programs, requestWriteSmsToSim, Program
<1>2. /\ Outline[f]["start"] = <<"null", "sentLine", "line", "line", "gone">>
      /\ Outline[f]["error"] = <<"owned", "owned", "gone">>
  BY <1>0 DEF Outline
<1>3. /\ Told(f, "start") = 3 /\ <<f, "start">> \notin Blurred
      /\ Told(f, "error") = 1 /\ <<f, "error">> \notin Blurred
  BY <1>0 DEF Told, Tells, Silent, Blurred, Never
<1>4. /\ f \in Strict /\ f \notin Silent /\ f \notin Leaky /\ f \notin Leaves
      /\ f # "requestReadBinary" /\ f # DataCallList
  BY <1>0 DEF Strict, Silent, Leaky, Leaves, DataCallList
<1>5. PlainLabel(f, "start")
  <2>1. 1 # Told(f, "start") /\ 2 # Told(f, "start") /\ 3 = Told(f, "start") /\ 4 #
        Told(f, "start")
    BY <1>3
  <2>2. Leads(f, "start", 2, "owned", "error")
    BY <1>1, <1>2, <1>3, <1>4, MarksAre DEF Leads, Meets, Follows, Failing
  <2>3. TestsNext(f, "start", 1, p_response)
    BY <1>1, <1>3 DEF TestsNext, Test, Failing
  <2>4. /\ PlainPoint(f, "start", 1, Send(p_response, "SINGLELINE"), "null",
           "sentLine")
        /\ PlainPoint(f, "start", 2, Test(p_response, "error"), "sentLine", "line")
        /\ PlainPoint(f, "start", 3, Done("SUCCESS"), "line", "line")
        /\ PlainPoint(f, "start", 4, Free(p_response), "line", "gone")
    BY <1>4, <2>1, <2>2, <2>3, SendRule, TestRule, DoneRule, FreeRule DEF Follows,
       AfterSend, Owned, Empty, OnSuccess, OnFailure, OfErr, Failing, Results
  <2> QED BY <1>1, <1>2, <1>3, <1>4, <2>4 DEF PlainLabel, GoodEnd, Empty, Never
<1>6. PlainLabel(f, "error")
  <2>1. 1 = Told(f, "error") /\ 2 # Told(f, "error")
    BY <1>3
  <2>2. /\ PlainPoint(f, "error", 1, Done("GENERIC_FAILURE"), "owned", "owned")
        /\ PlainPoint(f, "error", 2, Free(p_response), "owned", "gone")
    BY <1>4, <2>1, DoneRule, FreeRule DEF Follows, Results, Failing, Owned
  <2> QED BY <1>1, <1>2, <1>3, <1>4, <2>2 DEF PlainLabel, GoodEnd, Empty, Never
<1>7. GoodStart(f)
  BY <1>1, <1>2, <1>3 DEF GoodStart, Follows
<1> QED BY <1>1, <1>4, <1>5, <1>6, <1>7, PlainIsGood DEF Good

LEMMA deleteSmsOnSimGood == Good("deleteSmsOnSim")
<1>0. SUFFICES ASSUME NEW f, f = "deleteSmsOnSim" PROVE Good(f)
  OBVIOUS
<1>1. /\ DOMAIN Body(f) = {"start", "failed", "done"}
      /\ Programs[f].init = "null"
      /\ Body(f)["start"] = <<Send(p_response, "NO_RESULT"), Test(p_response,
         "failed"), Done("SUCCESS"), Goto("done")>>
      /\ Body(f)["failed"] = <<Done("GENERIC_FAILURE"), Goto("done")>>
      /\ Body(f)["done"] = <<Free(p_response)>>
  BY <1>0 DEF Body, Programs, deleteSmsOnSim, Program
<1>2. /\ Outline[f]["start"] = <<"null", "sent", "live", "live", "none">>
      /\ Outline[f]["failed"] = <<"owned", "owned", "none">>
      /\ Outline[f]["done"] = <<"owned", "gone">>
  BY <1>0 DEF Outline
<1>3. /\ Told(f, "start") = 3 /\ <<f, "start">> \notin Blurred
      /\ Told(f, "failed") = 1 /\ <<f, "failed">> \notin Blurred
      /\ Told(f, "done") = 0 /\ <<f, "done">> \notin Blurred
  BY <1>0 DEF Told, Tells, Silent, Blurred, Never
<1>4. /\ f \in Strict /\ f \notin Silent /\ f \notin Leaky /\ f \notin Leaves
      /\ f # "requestReadBinary" /\ f # DataCallList
  BY <1>0 DEF Strict, Silent, Leaky, Leaves, DataCallList
<1>5. PlainLabel(f, "start")
  <2>1. 1 # Told(f, "start") /\ 2 # Told(f, "start") /\ 3 = Told(f, "start") /\ 4 #
        Told(f, "start")
    BY <1>3
  <2>2. /\ Leads(f, "start", 2, "owned", "failed")
        /\ Leads(f, "start", 4, "live", "done")
    BY <1>1, <1>2, <1>3, <1>4, MarksAre DEF Leads, Meets, Follows, Failing
  <2>3. TestsNext(f, "start", 1, p_response)
    BY <1>1, <1>3 DEF TestsNext, Test, Failing
  <2>4. /\ PlainPoint(f, "start", 1, Send(p_response, "NO_RESULT"), "null", "sent")
        /\ PlainPoint(f, "start", 2, Test(p_response, "failed"), "sent", "live")
        /\ PlainPoint(f, "start", 3, Done("SUCCESS"), "live", "live")
        /\ PlainPoint(f, "start", 4, Goto("done"), "live", "none")
    BY <1>4, <2>1, <2>2, <2>3, SendRule, TestRule, DoneRule, GotoRule DEF Follows,
       AfterSend, Owned, Empty, OnSuccess, OnFailure, OfErr, Failing, Results
  <2> QED BY <1>1, <1>2, <1>3, <1>4, <2>4 DEF PlainLabel, GoodEnd, Empty, Never
<1>6. PlainLabel(f, "failed")
  <2>1. 1 = Told(f, "failed") /\ 2 # Told(f, "failed")
    BY <1>3
  <2>2. Leads(f, "failed", 2, "owned", "done")
    BY <1>1, <1>2, <1>3, <1>4, MarksAre DEF Leads, Meets, Follows, Failing
  <2>3. /\ PlainPoint(f, "failed", 1, Done("GENERIC_FAILURE"), "owned", "owned")
        /\ PlainPoint(f, "failed", 2, Goto("done"), "owned", "none")
    BY <1>4, <2>1, <2>2, DoneRule, GotoRule DEF Follows, Results, Failing
  <2> QED BY <1>1, <1>2, <1>3, <1>4, <2>3 DEF PlainLabel, GoodEnd, Empty, Never
<1>7. PlainLabel(f, "done")
  <2>1. 1 # Told(f, "done")
    BY <1>3
  <2>2. PlainPoint(f, "done", 1, Free(p_response), "owned", "gone")
    BY <1>4, <2>1, FreeRule DEF Follows, Owned
  <2> QED BY <1>1, <1>2, <1>3, <1>4, <2>2 DEF PlainLabel, GoodEnd, Empty, Never
<1>8. GoodStart(f)
  BY <1>1, <1>2, <1>3 DEF GoodStart, Follows
<1> QED BY <1>1, <1>4, <1>5, <1>6, <1>7, <1>8, PlainIsGood DEF Good

LEMMA requestSMSAcknowledgeGood == Good("requestSMSAcknowledge")
<1>0. SUFFICES ASSUME NEW f, f = "requestSMSAcknowledge" PROVE Good(f)
  OBVIOUS
<1>1. /\ DOMAIN Body(f) = {"start", "error"}
      /\ Programs[f].init = "null"
      /\ Body(f)["start"] = <<Either({"error"}), Send(nowhere, "NO_RESULT"),
         Done("SUCCESS"), Goto("error")>>
      /\ Body(f)["error"] = <<Done("GENERIC_FAILURE")>>
  BY <1>0 DEF Body, Programs, requestSMSAcknowledge, Program
<1>2. /\ Outline[f]["start"] = <<"gone", "gone", "gone", "gone", "none">>
      /\ Outline[f]["error"] = <<"gone", "gone">>
  BY <1>0 DEF Outline
<1>3. /\ Told(f, "start") = 3 /\ <<f, "start">> \notin Blurred
      /\ Told(f, "error") = 1 /\ <<f, "error">> \in Blurred
  BY <1>0 DEF Told, Tells, Silent, Blurred, Never
<1>4. /\ f \in Strict /\ f \notin Silent /\ f \notin Leaky /\ f \notin Leaves
      /\ f # "requestReadBinary" /\ f # DataCallList
  BY <1>0 DEF Strict, Silent, Leaky, Leaves, DataCallList
<1>5. PlainLabel(f, "start")
  <2>1. 1 # Told(f, "start") /\ 2 # Told(f, "start") /\ 3 = Told(f, "start") /\ 4 #
        Told(f, "start")
    BY <1>3
  <2>2. /\ Leads(f, "start", 1, "gone", "error")
        /\ Leads(f, "start", 4, "gone", "error")
    BY <1>1, <1>2, <1>3, <1>4, MarksAre DEF Leads, Meets, Follows, Failing
  <2>3. /\ PlainPoint(f, "start", 1, Either({"error"}), "gone", "gone")
        /\ PlainPoint(f, "start", 2, Send(nowhere, "NO_RESULT"), "gone", "gone")
        /\ PlainPoint(f, "start", 3, Done("SUCCESS"), "gone", "gone")
        /\ PlainPoint(f, "start", 4, Goto("error"), "gone", "none")
    BY <1>4, <2>1, <2>2, EitherRule, SendOnlyRule, DoneRule, GotoRule DEF Follows,
       OfErr, Results, Failing
  <2> QED BY <1>1, <1>2, <1>3, <1>4, <2>3 DEF PlainLabel, GoodEnd, Empty, Never
<1>6. PlainLabel(f, "error")
  <2>1. 1 = Told(f, "error")
    BY <1>3
  <2>2. PlainPoint(f, "error", 1, Done("GENERIC_FAILURE"), "gone", "gone")
    BY <1>4, <2>1, DoneRule DEF Follows, Results, Failing
  <2> QED BY <1>1, <1>2, <1>3, <1>4, <2>2 DEF PlainLabel, GoodEnd, Empty, Never
<1>7. GoodStart(f)
  BY <1>1, <1>2, <1>3 DEF GoodStart, Follows
<1> QED BY <1>1, <1>4, <1>5, <1>6, <1>7, PlainIsGood DEF Good

LEMMA requestReadBinaryGood == Good("requestReadBinary")
<1>0. SUFFICES ASSUME NEW f, f = "requestReadBinary" PROVE Good(f)
  OBVIOUS
<1>1. /\ DOMAIN Body(f) = {"start", "block", "error"}
      /\ Programs[f].init = "null"
      /\ Body(f)["start"] = <<SetRemain, Goto("block")>>
      /\ Body(f)["block"] = <<TakeBlock, Send(p_response, "SINGLELINE"),
         Test(p_response, "error"), Line(p_response, "error"), IfRemain("block"),
         Done("SUCCESS"), Free(p_response)>>
      /\ Body(f)["error"] = <<Done("GENERIC_FAILURE"), Free(p_response)>>
  BY <1>0 DEF Body, Programs, requestReadBinary, Program
<1>2. /\ Outline[f]["start"] = <<"null", "null", "none">>
      /\ Outline[f]["block"] = <<"owned", "owned", "sentLine", "line", "line", "line",
         "line", "gone">>
      /\ Outline[f]["error"] = <<"owned", "owned", "gone">>
  BY <1>0 DEF Outline
<1>3. /\ Told(f, "start") = 99 /\ <<f, "start">> \notin Blurred
      /\ Told(f, "block") = 6 /\ <<f, "block">> \notin Blurred
      /\ Told(f, "error") = 1 /\ <<f, "error">> \notin Blurred
  BY <1>0 DEF Told, Tells, Silent, Blurred, Never
<1>4. /\ f \in Strict /\ f \notin Silent /\ f \in Leaky /\ f \in Leaves
      /\ f # DataCallList
  BY <1>0 DEF Strict, Silent, Leaky, Leaves, DataCallList
<1>5. PlainLabel(f, "start")
  <2>1. 1 # Told(f, "start") /\ 2 # Told(f, "start")
    BY <1>3
  <2>2. Leads(f, "start", 2, "null", "block")
    BY <1>1, <1>2, <1>3, <1>4, MarksAre DEF Leads, Meets, Follows, Failing
  <2>3. /\ PlainPoint(f, "start", 1, SetRemain, "null", "null")
        /\ PlainPoint(f, "start", 2, Goto("block"), "null", "none")
    BY <1>0, <1>4, <2>1, <2>2, StraightRule, GotoRule DEF Follows
  <2>4. /\ Blocked(f, "start", 1, SetRemain)
        /\ Blocked(f, "start", 2, Goto("block"))
    BY <1>0 DEF Blocked, Due, Targets, GoesOn, SetRemain, Goto
  <2> QED BY <1>1, <1>2, <1>3, <1>4, <2>3, <2>4 DEF PlainLabel, GoodEnd, Empty, Never
<1>6. PlainLabel(f, "block")
  <2>1. 1 # Told(f, "block") /\ 2 # Told(f, "block") /\ 3 # Told(f, "block") /\ 4 #
        Told(f, "block") /\ 5 # Told(f, "block") /\ 6 = Told(f, "block") /\ 7 #
        Told(f, "block")
    BY <1>3
  <2>2. /\ Leads(f, "block", 3, "owned", "error")
        /\ Leads(f, "block", 4, "line", "error")
        /\ Leads(f, "block", 5, "line", "block")
    BY <1>1, <1>2, <1>3, <1>4, MarksAre DEF Leads, Meets, Follows, Failing
  <2>3. TestsNext(f, "block", 2, p_response)
    BY <1>1, <1>3 DEF TestsNext, Test, Failing
  <2>4. /\ PlainPoint(f, "block", 1, TakeBlock, "owned", "owned")
        /\ PlainPoint(f, "block", 2, Send(p_response, "SINGLELINE"), "owned",
           "sentLine")
        /\ PlainPoint(f, "block", 3, Test(p_response, "error"), "sentLine", "line")
        /\ PlainPoint(f, "block", 4, Line(p_response, "error"), "line", "line")
        /\ PlainPoint(f, "block", 5, IfRemain("block"), "line", "line")
        /\ PlainPoint(f, "block", 6, Done("SUCCESS"), "line", "line")
        /\ PlainPoint(f, "block", 7, Free(p_response), "line", "gone")
    BY <1>0, <1>4, <2>1, <2>2, <2>3, StraightRule, SendRule, TestRule, LineRule,
       BranchRule, DoneRule, FreeRule DEF Follows, AfterSend, Owned, Empty, OnSuccess,
       OnFailure, OfErr, Failing, Results
  <2>5. /\ Blocked(f, "block", 1, TakeBlock)
        /\ Blocked(f, "block", 2, Send(p_response, "SINGLELINE"))
        /\ Blocked(f, "block", 3, Test(p_response, "error"))
        /\ Blocked(f, "block", 4, Line(p_response, "error"))
        /\ Blocked(f, "block", 5, IfRemain("block"))
        /\ Blocked(f, "block", 6, Done("SUCCESS"))
        /\ Blocked(f, "block", 7, Free(p_response))
    BY <1>0 DEF Blocked, Due, Targets, GoesOn, TakeBlock, Send, Test, Line, IfRemain,
       Done, Free
  <2> QED BY <1>1, <1>2, <1>3, <1>4, <2>4, <2>5 DEF PlainLabel, GoodEnd, Empty, Never
<1>7. PlainLabel(f, "error")
  <2>1. 1 = Told(f, "error") /\ 2 # Told(f, "error")
    BY <1>3
  <2>2. /\ PlainPoint(f, "error", 1, Done("GENERIC_FAILURE"), "owned", "owned")
        /\ PlainPoint(f, "error", 2, Free(p_response), "owned", "gone")
    BY <1>0, <1>4, <2>1, DoneRule, FreeRule DEF Follows, Results, Failing, Owned
  <2>3. /\ Blocked(f, "error", 1, Done("GENERIC_FAILURE"))
        /\ Blocked(f, "error", 2, Free(p_response))
    BY <1>0 DEF Blocked, Due, Targets, GoesOn, Done, Free
  <2> QED BY <1>1, <1>2, <1>3, <1>4, <2>2, <2>3 DEF PlainLabel, GoodEnd, Empty, Never
<1>8. GoodStart(f)
  BY <1>1, <1>2, <1>3 DEF GoodStart, Follows
<1> QED BY <1>1, <1>4, <1>5, <1>6, <1>7, <1>8, PlainIsGood DEF Good

LEMMA requestSIM_IOGood == Good("requestSIM_IO")
<1>0. SUFFICES ASSUME NEW f, f = "requestSIM_IO" PROVE Good(f)
  OBVIOUS
<1>1. /\ DOMAIN Body(f) = {"start", "binary", "error"}
      /\ Programs[f].init = "null"
      /\ Body(f)["start"] = <<Either({"binary"}), Send(p_response, "SINGLELINE"),
         Test(p_response, "error"), Line(p_response, "error"), DoneWith(p_response,
         "SUCCESS"), Free(p_response)>>
      /\ Body(f)["binary"] = <<Call("requestReadBinary")>>
      /\ Body(f)["error"] = <<Done("GENERIC_FAILURE"), Free(p_response)>>
  BY <1>0 DEF Body, Programs, requestSIM_IO, Program
<1>2. /\ Outline[f]["start"] = <<"null", "null", "sentLine", "line", "line", "line",
         "gone">>
      /\ Outline[f]["binary"] = <<"gone", "gone">>
      /\ Outline[f]["error"] = <<"owned", "owned", "gone">>
  BY <1>0 DEF Outline
<1>3. /\ Told(f, "start") = 5 /\ <<f, "start">> \notin Blurred
      /\ Told(f, "binary") = 1 /\ <<f, "binary">> \notin Blurred
      /\ Told(f, "error") = 1 /\ <<f, "error">> \notin Blurred
  BY <1>0 DEF Told, Tells, Silent, Blurred, Never
<1>4. /\ f \in Strict /\ f \notin Silent /\ f \notin Leaky /\ f \notin Leaves
      /\ f # "requestReadBinary" /\ f # DataCallList
  BY <1>0 DEF Strict, Silent, Leaky, Leaves, DataCallList
<1>5. PlainLabel(f, "start")
  <2>1. 1 # Told(f, "start") /\ 2 # Told(f, "start") /\ 3 # Told(f, "start") /\ 4 #
        Told(f, "start") /\ 5 = Told(f, "start") /\ 6 # Told(f, "start")
    BY <1>3
  <2>2. /\ Leads(f, "start", 1, "null", "binary")
        /\ Leads(f, "start", 3, "owned", "error")
        /\ Leads(f, "start", 4, "line", "error")
    BY <1>1, <1>2, <1>3, <1>4, MarksAre DEF Leads, Meets, Follows, Failing
  <2>3. TestsNext(f, "start", 2, p_response)
    BY <1>1, <1>3 DEF TestsNext, Test, Failing
  <2>4. /\ PlainPoint(f, "start", 1, Either({"binary"}), "null", "null")
        /\ PlainPoint(f, "start", 2, Send(p_response, "SINGLELINE"), "null",
           "sentLine")
        /\ PlainPoint(f, "start", 3, Test(p_response, "error"), "sentLine", "line")
        /\ PlainPoint(f, "start", 4, Line(p_response, "error"), "line", "line")
        /\ PlainPoint(f, "start", 5, DoneWith(p_response, "SUCCESS"), "line", "line")
        /\ PlainPoint(f, "start", 6, Free(p_response), "line", "gone")
    BY <1>4, <2>1, <2>2, <2>3, EitherRule, SendRule, TestRule, LineRule, DoneWithRule,
       FreeRule DEF Follows, AfterSend, Owned, Empty, OnSuccess, OnFailure, OfErr,
       Failing, Results
  <2> QED BY <1>1, <1>2, <1>3, <1>4, <2>4 DEF PlainLabel, GoodEnd, Empty, Never
<1>6. PlainLabel(f, "binary")
  <2>1. 1 = Told(f, "binary") /\ 1 <= Told(f, "binary")
    BY <1>3
  <2>2. PlainPoint(f, "binary", 1, Call("requestReadBinary"), "gone", "gone")
    BY <1>1, <1>3, <1>4, <2>1, CallRule DEF Follows, Leaves, Silent, Strict,
       DataCallList, Failing
  <2> QED BY <1>1, <1>2, <1>3, <1>4, <2>2 DEF PlainLabel, GoodEnd, Empty, Never
<1>7. PlainLabel(f, "error")
  <2>1. 1 = Told(f, "error") /\ 2 # Told(f, "error")
    BY <1>3
  <2>2. /\ PlainPoint(f, "error", 1, Done("GENERIC_FAILURE"), "owned", "owned")
        /\ PlainPoint(f, "error", 2, Free(p_response), "owned", "gone")
    BY <1>4, <2>1, DoneRule, FreeRule DEF Follows, Results, Failing, Owned
  <2> QED BY <1>1, <1>2, <1>3, <1>4, <2>2 DEF PlainLabel, GoodEnd, Empty, Never
<1>8. GoodStart(f)
  BY <1>1, <1>2, <1>3 DEF GoodStart, Follows
<1> QED BY <1>1, <1>4, <1>5, <1>6, <1>7, <1>8, PlainIsGood DEF Good

LEMMA requestEnterSimPinGood == Good("requestEnterSimPin")
<1>0. SUFFICES ASSUME NEW f, f = "requestEnterSimPin" PROVE Good(f)
  OBVIOUS
<1>1. /\ DOMAIN Body(f) = {"start", "error"}
      /\ Programs[f].init = "null"
      /\ Body(f)["start"] = <<Either({"error"}), Send(p_response, "SINGLELINE"),
         Test(p_response, "error"), Done("SUCCESS"), Free(p_response)>>
      /\ Body(f)["error"] = <<Done("PASSWORD_INCORRECT"), Free(p_response)>>
  BY <1>0 DEF Body, Programs, requestEnterSimPin, Program
<1>2. /\ Outline[f]["start"] = <<"null", "null", "sentLine", "line", "line", "gone">>
      /\ Outline[f]["error"] = <<"owned", "owned", "gone">>
  BY <1>0 DEF Outline
<1>3. /\ Told(f, "start") = 4 /\ <<f, "start">> \notin Blurred
      /\ Told(f, "error") = 1 /\ <<f, "error">> \notin Blurred
  BY <1>0 DEF Told, Tells, Silent, Blurred, Never
<1>4. /\ f \in Strict /\ f \notin Silent /\ f \notin Leaky /\ f \notin Leaves
      /\ f # "requestReadBinary" /\ f # DataCallList
  BY <1>0 DEF Strict, Silent, Leaky, Leaves, DataCallList
<1>5. PlainLabel(f, "start")
  <2>1. 1 # Told(f, "start") /\ 2 # Told(f, "start") /\ 3 # Told(f, "start") /\ 4 =
        Told(f, "start") /\ 5 # Told(f, "start")
    BY <1>3
  <2>2. /\ Leads(f, "start", 1, "null", "error")
        /\ Leads(f, "start", 3, "owned", "error")
    BY <1>1, <1>2, <1>3, <1>4, MarksAre DEF Leads, Meets, Follows, Failing
  <2>3. TestsNext(f, "start", 2, p_response)
    BY <1>1, <1>3 DEF TestsNext, Test, Failing
  <2>4. /\ PlainPoint(f, "start", 1, Either({"error"}), "null", "null")
        /\ PlainPoint(f, "start", 2, Send(p_response, "SINGLELINE"), "null",
           "sentLine")
        /\ PlainPoint(f, "start", 3, Test(p_response, "error"), "sentLine", "line")
        /\ PlainPoint(f, "start", 4, Done("SUCCESS"), "line", "line")
        /\ PlainPoint(f, "start", 5, Free(p_response), "line", "gone")
    BY <1>4, <2>1, <2>2, <2>3, EitherRule, SendRule, TestRule, DoneRule, FreeRule DEF
       Follows, AfterSend, Owned, Empty, OnSuccess, OnFailure, OfErr, Failing, Results
  <2> QED BY <1>1, <1>2, <1>3, <1>4, <2>4 DEF PlainLabel, GoodEnd, Empty, Never
<1>6. PlainLabel(f, "error")
  <2>1. 1 = Told(f, "error") /\ 2 # Told(f, "error")
    BY <1>3
  <2>2. /\ PlainPoint(f, "error", 1, Done("PASSWORD_INCORRECT"), "owned", "owned")
        /\ PlainPoint(f, "error", 2, Free(p_response), "owned", "gone")
    BY <1>4, <2>1, DoneRule, FreeRule DEF Follows, Results, Failing, Owned
  <2> QED BY <1>1, <1>2, <1>3, <1>4, <2>2 DEF PlainLabel, GoodEnd, Empty, Never
<1>7. GoodStart(f)
  BY <1>1, <1>2, <1>3 DEF GoodStart, Follows
<1> QED BY <1>1, <1>4, <1>5, <1>6, <1>7, PlainIsGood DEF Good

LEMMA numericRequestGood == Good("numericRequest")
<1>0. SUFFICES ASSUME NEW f, f = "numericRequest" PROVE Good(f)
  OBVIOUS
<1>1. /\ DOMAIN Body(f) = {"start", "failed", "done"}
      /\ Programs[f].init = "null"
      /\ Body(f)["start"] = <<Send(p_response, "NUMERIC"), Test(p_response, "failed"),
         DoneWith(p_response, "SUCCESS"), Goto("done")>>
      /\ Body(f)["failed"] = <<Done("GENERIC_FAILURE"), Goto("done")>>
      /\ Body(f)["done"] = <<Free(p_response)>>
  BY <1>0 DEF Body, Programs, numericRequest, Program
<1>2. /\ Outline[f]["start"] = <<"null", "sentLine", "line", "line", "none">>
      /\ Outline[f]["failed"] = <<"owned", "owned", "none">>
      /\ Outline[f]["done"] = <<"owned", "gone">>
  BY <1>0 DEF Outline
<1>3. /\ Told(f, "start") = 3 /\ <<f, "start">> \notin Blurred
      /\ Told(f, "failed") = 1 /\ <<f, "failed">> \notin Blurred
      /\ Told(f, "done") = 0 /\ <<f, "done">> \notin Blurred
  BY <1>0 DEF Told, Tells, Silent, Blurred, Never
<1>4. /\ f \in Strict /\ f \notin Silent /\ f \notin Leaky /\ f \notin Leaves
      /\ f # "requestReadBinary" /\ f # DataCallList
  BY <1>0 DEF Strict, Silent, Leaky, Leaves, DataCallList
<1>5. PlainLabel(f, "start")
  <2>1. 1 # Told(f, "start") /\ 2 # Told(f, "start") /\ 3 = Told(f, "start") /\ 4 #
        Told(f, "start")
    BY <1>3
  <2>2. /\ Leads(f, "start", 2, "owned", "failed")
        /\ Leads(f, "start", 4, "line", "done")
    BY <1>1, <1>2, <1>3, <1>4, MarksAre DEF Leads, Meets, Follows, Failing
  <2>3. TestsNext(f, "start", 1, p_response)
    BY <1>1, <1>3 DEF TestsNext, Test, Failing
  <2>4. /\ PlainPoint(f, "start", 1, Send(p_response, "NUMERIC"), "null", "sentLine")
        /\ PlainPoint(f, "start", 2, Test(p_response, "failed"), "sentLine", "line")
        /\ PlainPoint(f, "start", 3, DoneWith(p_response, "SUCCESS"), "line", "line")
        /\ PlainPoint(f, "start", 4, Goto("done"), "line", "none")
    BY <1>4, <2>1, <2>2, <2>3, SendRule, TestRule, DoneWithRule, GotoRule DEF Follows,
       AfterSend, Owned, Empty, OnSuccess, OnFailure, OfErr, Failing, Results
  <2> QED BY <1>1, <1>2, <1>3, <1>4, <2>4 DEF PlainLabel, GoodEnd, Empty, Never
<1>6. PlainLabel(f, "failed")
  <2>1. 1 = Told(f, "failed") /\ 2 # Told(f, "failed")
    BY <1>3
  <2>2. Leads(f, "failed", 2, "owned", "done")
    BY <1>1, <1>2, <1>3, <1>4, MarksAre DEF Leads, Meets, Follows, Failing
  <2>3. /\ PlainPoint(f, "failed", 1, Done("GENERIC_FAILURE"), "owned", "owned")
        /\ PlainPoint(f, "failed", 2, Goto("done"), "owned", "none")
    BY <1>4, <2>1, <2>2, DoneRule, GotoRule DEF Follows, Results, Failing
  <2> QED BY <1>1, <1>2, <1>3, <1>4, <2>3 DEF PlainLabel, GoodEnd, Empty, Never
<1>7. PlainLabel(f, "done")
  <2>1. 1 # Told(f, "done")
    BY <1>3
  <2>2. PlainPoint(f, "done", 1, Free(p_response), "owned", "gone")
    BY <1>4, <2>1, FreeRule DEF Follows, Owned
  <2> QED BY <1>1, <1>2, <1>3, <1>4, <2>2 DEF PlainLabel, GoodEnd, Empty, Never
<1>8. GoodStart(f)
  BY <1>1, <1>2, <1>3 DEF GoodStart, Follows
<1> QED BY <1>1, <1>4, <1>5, <1>6, <1>7, <1>8, PlainIsGood DEF Good

LEMMA requestDialGood ==
  \A f \in {"requestDial", "requestHangup", "callControl", "dtmf"} : Good(f)
<1>0. SUFFICES ASSUME NEW f, f \in {"requestDial", "requestHangup", "callControl",
      "dtmf"} PROVE Good(f)
  OBVIOUS
<1>1. /\ DOMAIN Body(f) = {"start"}
      /\ Programs[f].init = "null"
      /\ Body(f)["start"] = <<Send(nowhere, "NO_RESULT"), Done("SUCCESS")>>
  BY <1>0 DEF Body, Programs, requestDial, requestHangup, callControl, dtmf, Program
<1>2. Outline[f]["start"] = <<"gone", "gone", "gone">>
  BY <1>0, SMTT(60) DEF Outline
<1>3. Told(f, "start") = 2 /\ <<f, "start">> \notin Blurred
  BY <1>0 DEF Told, Tells, Silent, Blurred, Never
<1>4. /\ f \in Strict /\ f \notin Silent /\ f \notin Leaky /\ f \notin Leaves
      /\ f # "requestReadBinary" /\ f # DataCallList
  BY <1>0 DEF Strict, Silent, Leaky, Leaves, DataCallList
<1>5. PlainLabel(f, "start")
  <2>1. 1 # Told(f, "start") /\ 2 = Told(f, "start")
    BY <1>3
  <2>2. /\ PlainPoint(f, "start", 1, Send(nowhere, "NO_RESULT"), "gone", "gone")
        /\ PlainPoint(f, "start", 2, Done("SUCCESS"), "gone", "gone")
    BY <1>4, <2>1, SendOnlyRule, DoneRule DEF Follows, OfErr, Results, Failing
  <2> QED BY <1>1, <1>2, <1>3, <1>4, <2>2 DEF PlainLabel, GoodEnd, Empty, Never
<1>6. GoodStart(f)
  BY <1>1, <1>2, <1>3 DEF GoodStart, Follows
<1> QED BY <1>1, <1>4, <1>5, <1>6, PlainIsGood DEF Good

LEMMA separateConnectionGood == Good("separateConnection")
<1>0. SUFFICES ASSUME NEW f, f = "separateConnection" PROVE Good(f)
  OBVIOUS
<1>1. /\ DOMAIN Body(f) = {"start", "failed"}
      /\ Programs[f].init = "null"
      /\ Body(f)["start"] = <<Either({"failed"}), Send(nowhere, "NO_RESULT"),
         Done("SUCCESS")>>
      /\ Body(f)["failed"] = <<Done("GENERIC_FAILURE")>>
  BY <1>0 DEF Body, Programs, separateConnection, Program
<1>2. /\ Outline[f]["start"] = <<"gone", "gone", "gone", "gone">>
      /\ Outline[f]["failed"] = <<"gone", "gone">>
  BY <1>0 DEF Outline
<1>3. /\ Told(f, "start") = 3 /\ <<f, "start">> \notin Blurred
      /\ Told(f, "failed") = 1 /\ <<f, "failed">> \notin Blurred
  BY <1>0 DEF Told, Tells, Silent, Blurred, Never
<1>4. /\ f \in Strict /\ f \notin Silent /\ f \notin Leaky /\ f \notin Leaves
      /\ f # "requestReadBinary" /\ f # DataCallList
  BY <1>0 DEF Strict, Silent, Leaky, Leaves, DataCallList
<1>5. PlainLabel(f, "start")
  <2>1. 1 # Told(f, "start") /\ 2 # Told(f, "start") /\ 3 = Told(f, "start")
    BY <1>3
  <2>2. Leads(f, "start", 1, "gone", "failed")
    BY <1>1, <1>2, <1>3, <1>4, MarksAre DEF Leads, Meets, Follows, Failing
  <2>3. /\ PlainPoint(f, "start", 1, Either({"failed"}), "gone", "gone")
        /\ PlainPoint(f, "start", 2, Send(nowhere, "NO_RESULT"), "gone", "gone")
        /\ PlainPoint(f, "start", 3, Done("SUCCESS"), "gone", "gone")
    BY <1>4, <2>1, <2>2, EitherRule, SendOnlyRule, DoneRule DEF Follows, OfErr,
       Results, Failing
  <2> QED BY <1>1, <1>2, <1>3, <1>4, <2>3 DEF PlainLabel, GoodEnd, Empty, Never
<1>6. PlainLabel(f, "failed")
  <2>1. 1 = Told(f, "failed")
    BY <1>3
  <2>2. PlainPoint(f, "failed", 1, Done("GENERIC_FAILURE"), "gone", "gone")
    BY <1>4, <2>1, DoneRule DEF Follows, Results, Failing
  <2> QED BY <1>1, <1>2, <1>3, <1>4, <2>2 DEF PlainLabel, GoodEnd, Empty, Never
<1>7. GoodStart(f)
  BY <1>1, <1>2, <1>3 DEF GoodStart, Follows
<1> QED BY <1>1, <1>4, <1>5, <1>6, <1>7, PlainIsGood DEF Good

LEMMA requestSetupDataCallGood == Good("requestSetupDataCall")
<1>0. SUFFICES ASSUME NEW f, f = "requestSetupDataCall" PROVE Good(f)
  OBVIOUS
<1>1. /\ DOMAIN Body(f) = {"start", "error"}
      /\ Programs[f].init = "null"
      /\ Body(f)["start"] = <<Send(nowhere, "NO_RESULT"), Call("isRadioOn"),
         Unless("error"), Call("netwrokDataReady"), Unless("error"),
         Either({"error"}), Call("requestOrSendDataCallList"), Free(p_response)>>
      /\ Body(f)["error"] = <<Done("GENERIC_FAILURE"), Free(p_response)>>
  BY <1>0 DEF Body, Programs, requestSetupDataCall, Program
<1>2. /\ Outline[f]["start"] = <<"null", "null", "null", "null", "null", "null",
         "null", "null", "null">>
      /\ Outline[f]["error"] = <<"null", "null", "null">>
  BY <1>0 DEF Outline
<1>3. /\ Told(f, "start") = 7 /\ <<f, "start">> \notin Blurred
      /\ Told(f, "error") = 1 /\ <<f, "error">> \notin Blurred
  BY <1>0 DEF Told, Tells, Silent, Blurred, Never
<1>4. /\ f \notin Strict /\ f \notin Silent /\ f \notin Leaky /\ f \notin Leaves
      /\ f # "requestReadBinary" /\ f # DataCallList
  BY <1>0 DEF Strict, Silent, Leaky, Leaves, DataCallList
<1>5. PlainLabel(f, "start")
  <2>1. 1 # Told(f, "start") /\ 2 # Told(f, "start") /\ 2 <= Told(f, "start") /\ 3 #
        Told(f, "start") /\ 4 # Told(f, "start") /\ 4 <= Told(f, "start") /\ 5 #
        Told(f, "start") /\ 6 # Told(f, "start") /\ 7 = Told(f, "start") /\ 7 <=
        Told(f, "start") /\ 8 # Told(f, "start")
    BY <1>3
  <2>2. /\ Leads(f, "start", 3, "null", "error")
        /\ Leads(f, "start", 5, "null", "error")
        /\ Leads(f, "start", 6, "null", "error")
    BY <1>1, <1>2, <1>3, <1>4, MarksAre DEF Leads, Meets, Follows
  <2>3. /\ PlainPoint(f, "start", 1, Send(nowhere, "NO_RESULT"), "null", "null")
        /\ PlainPoint(f, "start", 2, Call("isRadioOn"), "null", "null")
        /\ PlainPoint(f, "start", 3, Unless("error"), "null", "null")
        /\ PlainPoint(f, "start", 4, Call("netwrokDataReady"), "null", "null")
        /\ PlainPoint(f, "start", 5, Unless("error"), "null", "null")
        /\ PlainPoint(f, "start", 6, Either({"error"}), "null", "null")
        /\ PlainPoint(f, "start", 7, Call("requestOrSendDataCallList"), "null",
           "null")
        /\ PlainPoint(f, "start", 8, Free(p_response), "null", "null")
    BY <1>3, <1>4, <2>1, <2>2, SendOnlyRule, CallRule, BranchRule, EitherRule,
       FreeRule DEF Follows, OfErr, Leaves, Silent, Strict, DataCallList, Owned
  <2> QED BY <1>1, <1>2, <1>3, <1>4, <2>3 DEF PlainLabel, GoodEnd, Empty, Never
<1>6. PlainLabel(f, "error")
  <2>1. 1 = Told(f, "error") /\ 2 # Told(f, "error")
    BY <1>3
  <2>2. /\ PlainPoint(f, "error", 1, Done("GENERIC_FAILURE"), "null", "null")
        /\ PlainPoint(f, "error", 2, Free(p_response), "null", "null")
    BY <1>4, <2>1, DoneRule, FreeRule DEF Follows, Results, Owned
  <2> QED BY <1>1, <1>2, <1>3, <1>4, <2>2 DEF PlainLabel, GoodEnd, Empty, Never
<1>7. GoodStart(f)
  BY <1>1, <1>2, <1>3 DEF GoodStart, Follows
<1> QED BY <1>1, <1>4, <1>5, <1>6, <1>7, PlainIsGood DEF Good

LEMMA requestDataCallListGood == Good("requestDataCallList")
<1>0. SUFFICES ASSUME NEW f, f = "requestDataCallList" PROVE Good(f)
  OBVIOUS
<1>1. /\ DOMAIN Body(f) = {"start"}
      /\ Programs[f].init = "null"
      /\ Body(f)["start"] = <<Call("requestOrSendDataCallList")>>
  BY <1>0 DEF Body, Programs, requestDataCallList, Program
<1>2. Outline[f]["start"] = <<"gone", "gone">>
  BY <1>0 DEF Outline
<1>3. Told(f, "start") = 1 /\ <<f, "start">> \notin Blurred
  BY <1>0 DEF Told, Tells, Silent, Blurred, Never
<1>4. /\ f \in Strict /\ f \notin Silent /\ f \notin Leaky /\ f \notin Leaves
      /\ f # "requestReadBinary" /\ f # DataCallList
  BY <1>0 DEF Strict, Silent, Leaky, Leaves, DataCallList
<1>5. PlainLabel(f, "start")
  <2>1. 1 = Told(f, "start") /\ 1 <= Told(f, "start")
    BY <1>3
  <2>2. PlainPoint(f, "start", 1, Call("requestOrSendDataCallList"), "gone", "gone")
    BY <1>1, <1>3, <1>4, <2>1, CallRule DEF Follows, Leaves, Silent, Strict,
       DataCallList, Failing
  <2> QED BY <1>1, <1>2, <1>3, <1>4, <2>2 DEF PlainLabel, GoodEnd, Empty, Never
<1>6. GoodStart(f)
  BY <1>1, <1>2, <1>3 DEF GoodStart, Follows
<1> QED BY <1>1, <1>4, <1>5, <1>6, PlainIsGood DEF Good

LEMMA alwaysSuccessGood ==
  \A f \in {"alwaysSuccess", "requestSetPreferredNetworkType", "radioCapability",
      "oemHook"} : Good(f)
<1>0. SUFFICES ASSUME NEW f, f \in {"alwaysSuccess", "requestSetPreferredNetworkType",
      "radioCapability", "oemHook"} PROVE Good(f)
  OBVIOUS
<1>1. /\ DOMAIN Body(f) = {"start"}
      /\ Programs[f].init = "null"
      /\ Body(f)["start"] = <<Done("SUCCESS")>>
  BY <1>0 DEF Body, Programs, alwaysSuccess, requestSetPreferredNetworkType,
     radioCapability, oemHook, Program
<1>2. Outline[f]["start"] = <<"gone", "gone">>
  BY <1>0, SMTT(60) DEF Outline
<1>3. Told(f, "start") = 1 /\ <<f, "start">> \notin Blurred
  BY <1>0 DEF Told, Tells, Silent, Blurred, Never
<1>4. /\ f \in Strict /\ f \notin Silent /\ f \notin Leaky /\ f \notin Leaves
      /\ f # "requestReadBinary" /\ f # DataCallList
  BY <1>0 DEF Strict, Silent, Leaky, Leaves, DataCallList
<1>5. PlainLabel(f, "start")
  <2>1. 1 = Told(f, "start")
    BY <1>3
  <2>2. PlainPoint(f, "start", 1, Done("SUCCESS"), "gone", "gone")
    BY <1>4, <2>1, DoneRule DEF Follows, Results, Failing
  <2> QED BY <1>1, <1>2, <1>3, <1>4, <2>2 DEF PlainLabel, GoodEnd, Empty, Never
<1>6. GoodStart(f)
  BY <1>1, <1>2, <1>3 DEF GoodStart, Follows
<1> QED BY <1>1, <1>4, <1>5, <1>6, PlainIsGood DEF Good

LEMMA notSupportedGood ==
  \A f \in {"notSupported", "requestSendUSSD"} : Good(f)
<1>0. SUFFICES ASSUME NEW f, f \in {"notSupported", "requestSendUSSD"} PROVE Good(f)
  OBVIOUS
<1>1. /\ DOMAIN Body(f) = {"start"}
      /\ Programs[f].init = "null"
      /\ Body(f)["start"] = <<Done("REQUEST_NOT_SUPPORTED")>>
  BY <1>0 DEF Body, Programs, notSupported, requestSendUSSD, Program
<1>2. Outline[f]["start"] = <<"gone", "gone">>
  BY <1>0, SMTT(60) DEF Outline
<1>3. Told(f, "start") = 1 /\ <<f, "start">> \notin Blurred
  BY <1>0 DEF Told, Tells, Silent, Blurred, Never
<1>4. /\ f \in Strict /\ f \notin Silent /\ f \notin Leaky /\ f \notin Leaves
      /\ f # "requestReadBinary" /\ f # DataCallList
  BY <1>0 DEF Strict, Silent, Leaky, Leaves, DataCallList
<1>5. PlainLabel(f, "start")
  <2>1. 1 = Told(f, "start")
    BY <1>3
  <2>2. PlainPoint(f, "start", 1, Done("REQUEST_NOT_SUPPORTED"), "gone", "gone")
    BY <1>4, <2>1, DoneRule DEF Follows, Results, Failing
  <2> QED BY <1>1, <1>2, <1>3, <1>4, <2>2 DEF PlainLabel, GoodEnd, Empty, Never
<1>6. GoodStart(f)
  BY <1>1, <1>2, <1>3 DEF GoodStart, Follows
<1> QED BY <1>1, <1>4, <1>5, <1>6, PlainIsGood DEF Good

LEMMA initializeCallbackGood == Good("initializeCallback")
<1>0. SUFFICES ASSUME NEW f, f = "initializeCallback" PROVE Good(f)
  OBVIOUS
<1>1. /\ DOMAIN Body(f) = {"start", "creg", "free", "off"}
      /\ Programs[f].init = "null"
      /\ Body(f)["start"] = <<Send(nowhere, "NO_RESULT"), Send(p_response,
         "NO_RESULT"), Test(p_response, "creg"), Goto("free")>>
      /\ Body(f)["creg"] = <<Send(nowhere, "NO_RESULT"), Goto("free")>>
      /\ Body(f)["free"] = <<Free(p_response), Send(nowhere, "NO_RESULT"),
         Call("isRadioOn"), Unless("off"), SetRadioState("ON")>>
      /\ Body(f)["off"] = <<SetRadioState("OFF")>>
  BY <1>0 DEF Body, Programs, initializeCallback, Program
<1>2. /\ Outline[f]["start"] = <<"null", "null", "sent", "live", "none">>
      /\ Outline[f]["creg"] = <<"owned", "owned", "none">>
      /\ Outline[f]["free"] = <<"owned", "gone", "gone", "gone", "gone", "gone">>
      /\ Outline[f]["off"] = <<"gone", "gone">>
  BY <1>0 DEF Outline
<1>3. /\ Told(f, "start") = 99 /\ <<f, "start">> \notin Blurred
      /\ Told(f, "creg") = 99 /\ <<f, "creg">> \notin Blurred
      /\ Told(f, "free") = 99 /\ <<f, "free">> \notin Blurred
      /\ Told(f, "off") = 99 /\ <<f, "off">> \notin Blurred
  BY <1>0 DEF Told, Tells, Silent, Blurred, Never
<1>4. /\ f \notin Strict /\ f \in Silent /\ f \notin Leaky /\ f \notin Leaves
      /\ f # "requestReadBinary" /\ f # DataCallList
  BY <1>0 DEF Strict, Silent, Leaky, Leaves, DataCallList
<1>5. PlainLabel(f, "start")
  <2>1. 1 # Told(f, "start") /\ 2 # Told(f, "start") /\ 3 # Told(f, "start") /\ 4 #
        Told(f, "start")
    BY <1>3
  <2>2. /\ Leads(f, "start", 3, "owned", "creg")
        /\ Leads(f, "start", 4, "live", "free")
    BY <1>1, <1>2, <1>3, <1>4, MarksAre DEF Leads, Meets, Follows
  <2>3. /\ PlainPoint(f, "start", 1, Send(nowhere, "NO_RESULT"), "null", "null")
        /\ PlainPoint(f, "start", 2, Send(p_response, "NO_RESULT"), "null", "sent")
        /\ PlainPoint(f, "start", 3, Test(p_response, "creg"), "sent", "live")
        /\ PlainPoint(f, "start", 4, Goto("free"), "live", "none")
    BY <1>4, <2>1, <2>2, SendOnlyRule, SendRule, TestRule, GotoRule DEF Follows,
       OfErr, AfterSend, Owned, Empty, OnSuccess, OnFailure
  <2> QED BY <1>1, <1>2, <1>3, <1>4, <2>3 DEF PlainLabel, GoodEnd, Empty, Never
<1>6. PlainLabel(f, "creg")
  <2>1. 1 # Told(f, "creg") /\ 2 # Told(f, "creg")
    BY <1>3
  <2>2. Leads(f, "creg", 2, "owned", "free")
    BY <1>1, <1>2, <1>3, <1>4, MarksAre DEF Leads, Meets, Follows
  <2>3. /\ PlainPoint(f, "creg", 1, Send(nowhere, "NO_RESULT"), "owned", "owned")
        /\ PlainPoint(f, "creg", 2, Goto("free"), "owned", "none")
    BY <1>4, <2>1, <2>2, SendOnlyRule, GotoRule DEF Follows, OfErr
  <2> QED BY <1>1, <1>2, <1>3, <1>4, <2>3 DEF PlainLabel, GoodEnd, Empty, Never
<1>7. PlainLabel(f, "free")
  <2>1. 1 # Told(f, "free") /\ 2 # Told(f, "free") /\ 3 # Told(f, "free") /\ 3 <=
        Told(f, "free") /\ 4 # Told(f, "free") /\ 5 # Told(f, "free")
    BY <1>3
  <2>2. Leads(f, "free", 4, "gone", "off")
    BY <1>1, <1>2, <1>3, <1>4, MarksAre DEF Leads, Meets, Follows
  <2>3. /\ PlainPoint(f, "free", 1, Free(p_response), "owned", "gone")
        /\ PlainPoint(f, "free", 2, Send(nowhere, "NO_RESULT"), "gone", "gone")
        /\ PlainPoint(f, "free", 3, Call("isRadioOn"), "gone", "gone")
        /\ PlainPoint(f, "free", 4, Unless("off"), "gone", "gone")
        /\ PlainPoint(f, "free", 5, SetRadioState("ON"), "gone", "gone")
    BY <1>3, <1>4, <2>1, <2>2, FreeRule, SendOnlyRule, CallRule, BranchRule,
       StraightRule DEF Follows, Owned, OfErr, Leaves, Silent, Strict, DataCallList
  <2> QED BY <1>1, <1>2, <1>3, <1>4, <2>3 DEF PlainLabel, GoodEnd, Empty, Never
<1>8. PlainLabel(f, "off")
  <2>1. 1 # Told(f, "off")
    BY <1>3
  <2>2. PlainPoint(f, "off", 1, SetRadioState("OFF"), "gone", "gone")
    BY <1>4, <2>1, StraightRule DEF Follows
  <2> QED BY <1>1, <1>2, <1>3, <1>4, <2>2 DEF PlainLabel, GoodEnd, Empty, Never
<1>9. GoodStart(f)
  BY <1>1, <1>2, <1>3 DEF GoodStart, Follows
<1> QED BY <1>1, <1>4, <1>5, <1>6, <1>7, <1>8, <1>9, PlainIsGood DEF Good

LEMMA AllGood == \A f \in Functions : Good(f)
<1>1. /\ Good("isRadioOn")
      /\ Good("netwrokDataReady")
      /\ Good("airm2m_at_cops")
      /\ Good("getSIMStatus")
      /\ Good("requestOrSendDataCallList")
      /\ Good("requestBaseBandVersion")
      /\ Good("requestRadioPower")
      /\ Good("getSimStatusRequest")
      /\ Good("requestQueryNetworkSelectionMode")
      /\ Good("requestSignalStrength")
      /\ Good("requestRegistrationState")
      /\ Good("requestOperator")
      /\ Good("requestSendSMS")
      /\ Good("requestWriteSmsToSim")
      /\ Good("deleteSmsOnSim")
      /\ Good("requestSMSAcknowledge")
      /\ Good("requestReadBinary")
      /\ Good("requestSIM_IO")
      /\ Good("requestEnterSimPin")
      /\ Good("numericRequest")
      /\ Good("separateConnection")
      /\ Good("requestSetupDataCall")
      /\ Good("requestDataCallList")
      /\ Good("initializeCallback")
  BY isRadioOnGood, netwrokDataReadyGood, airm2m_at_copsGood, getSIMStatusGood,
     requestOrSendDataCallListGood, requestBaseBandVersionGood, requestRadioPowerGood,
     getSimStatusRequestGood, requestQueryNetworkSelectionModeGood,
     requestSignalStrengthGood, requestRegistrationStateGood, requestOperatorGood,
     requestSendSMSGood, requestWriteSmsToSimGood, deleteSmsOnSimGood,
     requestSMSAcknowledgeGood, requestReadBinaryGood, requestSIM_IOGood,
     requestEnterSimPinGood, numericRequestGood, separateConnectionGood,
     requestSetupDataCallGood, requestDataCallListGood, initializeCallbackGood
<1>2. \A f \in {"requestDial", "requestHangup", "callControl", "dtmf"} : Good(f)
  BY requestDialGood
<1>3. \A f \in {"alwaysSuccess", "requestSetPreferredNetworkType", "radioCapability",
                "oemHook", "notSupported", "requestSendUSSD"} : Good(f)
  BY alwaysSuccessGood, notSupportedGood
<1> QED BY <1>1, <1>2, <1>3 DEF Functions, Programs

-----------------------------------------------------------------------------
(* A step of the innermost function                                        *)

\* The function has gone on, or to a label, with frame y.
Replaces(y) == y \in FrameType /\ y.f = top.f /\ stack' = <<y>> \o Tail(stack)
Onward(y) == Replaces(y) /\ GoesOn(instr) /\ y.label = top.label /\ y.ip = top.ip + 1
Jumped(y) == Replaces(y) /\ y.label \in Targets(instr) /\ y.ip = 1
Moves(y)  == Onward(y) \/ Jumped(y)

LEMMA Weakened == \A k, n, p, e : Is(k, p, e) /\ Follows(k, n) => Is(n, p, e)
  BY DEF Is, Follows

LEMMA UpToTwo == \A n \in Nat : n # 0 /\ n <= 2 => n \in 1 .. 2
  OBVIOUS

LEMMA ShortStack ==
  ASSUME NEW S, NEW s \in Seq(S), s # <<>>, Len(s) <= 2
  PROVE  /\ Len(s) \in 1 .. 2 /\ Head(s) = s[1] /\ s[1] \in S
         /\ Len(s) = 1 => Tail(s) = <<>>
         /\ Len(s) = 2 => Tail(s) = <<s[2]>> /\ s[2] \in S
<1>1. Len(s) \in Nat \ {0}
  BY EmptySeq
<1>2. Len(s) \in 1 .. 2
  BY <1>1, UpToTwo
<1>3. Tail(s) \in Seq(S) /\ Len(Tail(s)) = Len(s) - 1
  BY HeadTailProperties
<1>4. Len(s) = 1 => Tail(s) = <<>>
  <2>1. Len(s) = 1 => Len(Tail(s)) = 0
    BY <1>3
  <2> QED BY <1>3, <2>1, EmptySeq
<1>5. ASSUME Len(s) = 2 PROVE Tail(s) = <<s[2]>> /\ s[2] \in S
  <2>1. Len(Tail(s)) = 1 /\ Tail(s)[1] = s[2]
    BY <1>1, <1>3, <1>5, HeadTailProperties
  <2>2. s[2] \in S
    BY <1>5, ElementOfSeq
  <2>3. Tail(s) = <<s[2]>>
    <3> DEFINE z == <<s[2]>>
    <3>1. z \in Seq(S) /\ Len(z) = 1 /\ z[1] = s[2]
      BY <2>2
    <3> HIDE DEF z
    <3>2. Len(Tail(s)) = Len(z) /\ \A i \in 1 .. Len(Tail(s)) : Tail(s)[i] = z[i]
      BY <2>1, <3>1
    <3>3. Tail(s) = z
      BY <1>3, <3>1, <3>2, SeqEqual
    <3> QED BY <3>3 DEF z
  <2> QED BY <2>2, <2>3
<1>6. Head(s) = s[1] /\ s[1] \in S
  OBVIOUS
<1> QED BY <1>2, <1>4, <1>5, <1>6

\* The top of a stack replaced; and with a frame above it.
LEMMA Replaced ==
  ASSUME NEW S, NEW s \in Seq(S), s # <<>>, NEW y \in S, NEW r, r = <<y>> \o Tail(s)
  PROVE  /\ r \in Seq(S) /\ Len(r) = Len(s) /\ r # <<>> /\ r[1] = y
         /\ \A i \in 2 .. Len(s) : r[i] = s[i]
<1> DEFINE a == <<y>>
           t == Tail(s)
<1>1. a \in Seq(S) /\ Len(a) = 1 /\ a[1] = y
  OBVIOUS
<1>2. /\ t \in Seq(S) /\ Len(t) = Len(s) - 1 /\ Len(s) \in Nat \ {0}
      /\ \A i \in 1 .. Len(t) : t[i] = s[i + 1]
  BY HeadTailProperties, EmptySeq
<1>3. r = a \o t
  OBVIOUS
<1> HIDE DEF a, t
<1>4. /\ r \in Seq(S) /\ Len(r) = Len(a) + Len(t)
      /\ \A i \in 1 .. Len(a) + Len(t) : r[i] = IF i <= Len(a) THEN a[i] ELSE t[i - Len(a)]
  BY <1>1, <1>2, <1>3, ConcatProperties
<1>5. Len(r) = Len(s) /\ r[1] = y
  BY <1>1, <1>2, <1>4
<1>6. r # <<>>
  BY <1>2, <1>4, <1>5, EmptySeq
<1>7. ASSUME NEW i \in 2 .. Len(s) PROVE r[i] = s[i]
  <2>1. i \in 1 .. Len(a) + Len(t) /\ ~(i <= Len(a)) /\ i - 1 \in 1 .. Len(t)
    BY <1>1, <1>2
  <2>2. r[i] = t[i - 1] /\ t[i - 1] = s[(i - 1) + 1]
    BY <1>1, <1>2, <1>4, <2>1
  <2> QED BY <2>2
<1> QED BY <1>4, <1>5, <1>6, <1>7

LEMMA Pushed ==
  ASSUME NEW S, NEW s \in Seq(S), Len(s) = 1, NEW x \in S, NEW y \in S, NEW r,
         r = <<x, y>> \o Tail(s)
  PROVE  r \in Seq(S) /\ Len(r) = 2 /\ r # <<>> /\ r[1] = x /\ r[2] = y
<1> DEFINE a == <<x, y>>
           t == Tail(s)
<1>1. a \in Seq(S) /\ Len(a) = 2 /\ a[1] = x /\ a[2] = y
  OBVIOUS
<1>2. t \in Seq(S) /\ Len(t) = 0
  <2>1. s # <<>>
    <3>1. Len(<<>>) # 1
      BY EmptySeq
    <3> QED BY <3>1, Zenon
  <2>2. Tail(s) \in Seq(S) /\ Len(Tail(s)) = Len(s) - 1
    BY <2>1, HeadTailProperties
  <2> QED BY <2>2
<1>3. r = a \o t
  OBVIOUS
<1> HIDE DEF a, t
<1>4. r = a
  BY <1>1, <1>2, <1>3, EmptySeq, ConcatEmptySeq
<1>5. Len(r) = 2 /\ r # <<>>
  BY <1>1, <1>4, EmptySeq
<1> QED BY <1>1, <1>4, <1>5

LEMMA TopIs ==
  ASSUME StackInv, stack # <<>>
  PROVE  /\ top \in FrameType /\ Placed(top) /\ Known(top) /\ top = stack[1]
         /\ \/ Len(stack) = 1 /\ Tail(stack) = <<>>
            \/ Len(stack) = 2 /\ Tail(stack) = <<stack[2]>> /\ stack[2] \in FrameType
<1>1. stack \in Seq(FrameType) /\ Len(stack) <= 2
  BY DEF StackInv
<1>2. Len(stack) \in 1 .. 2 /\ top = stack[1] /\ top \in FrameType
  BY <1>1, ShortStack DEF top
<1>3. Placed(top) /\ Known(top)
  <2>1. 1 \in 1 .. Len(stack)
    BY <1>2
  <2> QED BY <1>2, <2>1 DEF StackInv
<1>4. /\ Len(stack) = 1 => Tail(stack) = <<>>
      /\ Len(stack) = 2 => Tail(stack) = <<stack[2]>> /\ stack[2] \in FrameType
  BY <1>1, ShortStack
<1> QED BY <1>2, <1>3, <1>4

LEMMA LabelIs ==
  ASSUME NEW x \in FrameType, Placed(x)
  PROVE  GoodLabel(x.f, x.label) /\ x.ip \in Nat \ {0} /\ x.f \in Functions
<1>1. x.f \in Functions /\ x.ip \in Nat \ {0}
  BY DEF FrameType
<1> QED BY <1>1, AllGood DEF Good, Placed

\* What is known of the instruction that is executed.
LEMMA PointIs ==
  ASSUME StackInv, NEW ops, At(ops)
  PROVE  /\ instr.op \in ops /\ instr = Body(top.f)[top.label][top.ip]
         /\ top.ip \in 1 .. Len(Body(top.f)[top.label])
         /\ GoodPoint(top.f, top.label, top.ip, instr)
         /\ Told(top.f, top.label) \in Nat
<1>1. stack # <<>> /\ ~AtEnd /\ instr.op \in ops
  BY DEF At
<1>2. instr = Body(top.f)[top.label][top.ip]
  BY DEF instr, Body
<1>3. GoodLabel(top.f, top.label) /\ top.ip \in Nat \ {0}
  BY <1>1, TopIs, LabelIs
<1>4. top.ip \in 1 .. Len(Body(top.f)[top.label])
  BY <1>1, <1>3 DEF AtEnd, Body, GoodLabel
<1> QED BY <1>1, <1>2, <1>3, <1>4 DEF GoodLabel

\* What is known of the function that waits for the innermost one.
LEMMA Waiting ==
  ASSUME StackInv, Len(stack) = 2
  PROVE  LET y == stack[2] IN
         /\ top.f \in Leaves /\ y.f \notin Leaves
         /\ y.f \in Silent => top.f \in Silent
         /\ y.f \in Strict => top.f \in Strict /\ Exposed(y)
         /\ <<y.f, y.label>> \notin Blurred
         /\ y.ip > Told(y.f, y.label) <=> top.f \notin Silent
<1> DEFINE y == stack[2]
           l == Body(y.f)[y.label]
           c == l[y.ip - 1]
<1>1. y \in FrameType /\ Placed(y) /\ Waits(y, top.f)
  <2>1. stack \in Seq(FrameType) /\ 2 \in 1 .. Len(stack) /\ top = stack[1]
    BY DEF StackInv, top
  <2> QED BY <2>1 DEF StackInv
<1>2. GoodLabel(y.f, y.label) /\ y.ip \in Nat
  BY <1>1, LabelIs
<1>3. y.ip - 1 \in 1 .. Len(l) /\ c.op = "call" /\ c.f = top.f /\ top.f \in Leaves
  BY <1>1, <1>2 DEF Waits, Placed, GoodLabel
<1>4. GoodPoint(y.f, y.label, y.ip - 1, c) /\ Told(y.f, y.label) \in Nat /\ Len(l) \in Nat
      /\ Len(l) < Never
  BY <1>2, <1>3 DEF GoodLabel
<1> HIDE DEF c
<1>5. y.f \notin Leaves
  BY <1>3, <1>4 DEF GoodPoint, Typed
<1>6. /\ y.ip - 1 <= Told(y.f, y.label) /\ <<y.f, y.label>> \notin Blurred
      /\ top.f \notin Silent <=> y.ip - 1 = Told(y.f, y.label)
  BY <1>3, <1>4 DEF GoodPoint, Counts, Gives
<1>7. y.ip > Told(y.f, y.label) <=> top.f \notin Silent
  BY <1>2, <1>4, <1>6
<1>8. y.f \in Silent => top.f \in Silent
  BY <1>2, <1>3, <1>4, <1>6 DEF Told, Never
<1>9. y.f \in Strict => top.f \in Strict /\ Exposed(y)
  <2>1. y.f \in Strict => top.f \in Strict /\ y.ip - 1 = Len(l)
    BY <1>3, <1>4 DEF GoodPoint, Truthful
  <2>2. y.ip - 1 = Len(l) => y.ip > Len(Body(y.f)[y.label])
    BY <1>2, <1>4
  <2> QED BY <2>1, <2>2 DEF Exposed
<1> QED BY <1>3, <1>5, <1>6, <1>7, <1>8, <1>9

\* The handlers.
LEMMA HandlersAre == \A r \in DOMAIN Handler :
    /\ Handler[r] \in Functions \ (Leaves \cup Silent)
    /\ r \notin Lenient => Handler[r] \in Strict
    /\ Handler[r] \in {"requestSignalStrength", "requestSMSAcknowledge"} => r \in AnswersTwice
    /\ r \notin {"none", "INITIALIZE"}
  BY DEF Handler, Functions, Programs, Leaves, Silent, Lenient, Strict, AnswersTwice,
     DataCallList

\* Whose step it is.
LEMMA Whose ==
  ASSUME StackInv, BottomInv, stack # <<>>
  PROVE  /\ request \in DOMAIN Handler \ Lenient => top.f \in Strict
         /\ <<top.f, top.label>> \in Blurred => request \in AnswersTwice
         /\ request = "INITIALIZE" => top.f \in Silent
         /\ request \in DOMAIN Handler \cup {"INITIALIZE"}
<1> DEFINE bottom == stack[Len(stack)]
<1>1. /\ request \in DOMAIN Handler => bottom.f = Handler[request]
      /\ request = "INITIALIZE" => bottom.f = "initializeCallback"
      /\ request \in DOMAIN Handler \cup {"INITIALIZE"}
  BY HandlersAre DEF BottomInv, HandlerOf
<1>2. /\ request \in DOMAIN Handler \ Lenient => bottom.f \in Strict
      /\ bottom.f \in {"requestSignalStrength", "requestSMSAcknowledge"}
         => request \in AnswersTwice
      /\ request = "INITIALIZE" => bottom.f \in Silent
  BY <1>1, HandlersAre DEF Silent
<1>3. CASE Len(stack) = 1
  <2>1. bottom = top
    BY <1>3, TopIs
  <2> QED BY <1>1, <1>2, <2>1 DEF Blurred
<1>4. CASE Len(stack) = 2
  <2>1. <<top.f, top.label>> \notin Blurred
    BY <1>4, Waiting DEF Blurred, Leaves, DataCallList
  <2>2. bottom = stack[2]
    BY <1>4
  <2> QED BY <1>1, <1>2, <1>4, <2>1, <2>2, Waiting
<1> QED BY <1>3, <1>4, TopIs

LEMMA MovedStack ==
  ASSUME StackInv, NEW ops, At(ops), NEW y, Moves(y), Known(y)
  PROVE  /\ StackInv' /\ stack' # <<>> /\ stack'[1] = y
         /\ Len(stack') = Len(stack) /\ stack'[Len(stack')].f = stack[Len(stack)].f
<1>1. stack # <<>>
  BY DEF At
<1>2. y \in FrameType /\ y.f = top.f /\ stack' = <<y>> \o Tail(stack)
  BY DEF Moves, Onward, Jumped, Replaces
<1>3. Placed(y)
  <2>1. GoodLabel(top.f, top.label) /\ top.ip \in Nat
    BY <1>1, TopIs, LabelIs
  <2>2. Good(top.f) /\ top.label \in DOMAIN Body(top.f)
    BY <1>1, TopIs, LabelIs, AllGood DEF Placed
  <2>3. /\ top.ip \in 1 .. Len(Body(top.f)[top.label])
        /\ Targets(instr) \subseteq DOMAIN Body(top.f)
    BY PointIs DEF GoodPoint, Typed
  <2>4. CASE y.label = top.label /\ y.ip = top.ip + 1
    BY <1>2, <2>1, <2>2, <2>3, <2>4 DEF Placed, GoodLabel
  <2>5. CASE y.label \in Targets(instr) /\ y.ip = 1
    <3>1. y.label \in DOMAIN Body(top.f)
      BY <2>3, <2>5
    <3>2. Len(Body(top.f)[y.label]) \in Nat
      BY <2>2, <3>1 DEF Good, GoodLabel
    <3> QED BY <1>2, <2>5, <3>1, <3>2 DEF Placed
  <2> QED BY <2>4, <2>5 DEF Moves, Onward, Jumped
<1>4. /\ stack' \in Seq(FrameType) /\ Len(stack') = Len(stack) /\ stack' # <<>>
      /\ stack'[1] = y /\ \A i \in 2 .. Len(stack) : stack'[i] = stack[i]
  BY <1>1, <1>2, Replaced DEF StackInv
<1>5. Len(stack) \in 1 .. 2 /\ stack[1] = top
  BY <1>1, TopIs
<1>6. ASSUME NEW i \in 1 .. Len(stack') PROVE Placed(stack'[i]) /\ Known(stack'[i])
  <2>1. CASE i = 1
    BY <1>3, <1>4, <2>1
  <2>2. CASE i # 1
    <3>1. i \in 2 .. Len(stack) /\ i \in 1 .. Len(stack)
      BY <1>4, <1>5, <2>2
    <3> QED BY <1>4, <3>1 DEF StackInv
  <2> QED BY <2>1, <2>2
<1>7. Len(stack) = 2 => Waits(stack'[2], stack'[1].f)
  BY <1>2, <1>4, <1>5 DEF StackInv
<1>8. StackInv'
  BY <1>4, <1>5, <1>6, <1>7 DEF StackInv, Placed, Known, Waits
<1>9. stack'[Len(stack')].f = stack[Len(stack)].f
  <2>1. CASE Len(stack) = 1
    BY <1>2, <1>4, <1>5, <2>1
  <2>2. CASE Len(stack) = 2
    BY <1>4, <2>2
  <2> QED BY <1>5, <2>1, <2>2
<1> QED BY <1>4, <1>8, <1>9

LEMMA BlurredAre == \A f, l : <<f, l>> \in Blurred =>
    Told(f, l) = 1 /\ f \notin Silent /\ f \notin Leaves
  BY DEF Blurred, Told, Tells, Silent, Leaves, DataCallList

LEMMA MovedToken ==
  ASSUME StackInv, NEW ops, At(ops), NEW y, Moves(y), ~Gives(instr), NEW n, TokenAt(top, n)
  PROVE  TokenAt(y, n)
<1>0. y.f = top.f
  BY DEF Moves, Onward, Jumped, Replaces
<1>1. /\ top.ip \in Nat /\ Told(top.f, top.label) \in Nat
      /\ Counts(top.f, top.label, top.ip, instr)
  BY PointIs DEF GoodPoint
<1>2. top.ip # Told(top.f, top.label)
  BY <1>1 DEF Counts
<1>3. CASE y.label = top.label /\ y.ip = top.ip + 1
  BY <1>1, <1>2, <1>3, <1>0 DEF TokenAt
<1>4. CASE y.label \in Targets(instr) /\ y.ip = 1
  <2>1. Meets(top.f, top.label, top.ip, y.label)
    BY <1>1, <1>4 DEF Counts
  <2>2. Told(top.f, y.label) \in Nat
    <3>1. Good(top.f) /\ y.label \in DOMAIN Body(top.f)
      BY <1>4, PointIs, TopIs, LabelIs, AllGood DEF GoodPoint, Typed, At
    <3> QED BY <3>1 DEF Good, GoodLabel
  <2>3. y.f = top.f /\ y.ip = 1
    BY <1>0, <1>4
  <2>4. CASE <<top.f, y.label>> \in Blurred
    BY <2>3, <2>4, BlurredAre DEF TokenAt
  <2>5. CASE <<top.f, y.label>> \notin Blurred
    <3>1. /\ <<top.f, top.label>> \notin Blurred
          /\ Told(top.f, y.label) = 0 <=> top.ip > Told(top.f, top.label)
      BY <2>1, <2>5 DEF Meets
    <3>2. y.ip > Told(y.f, y.label) <=> top.ip > Told(top.f, top.label)
      BY <2>2, <2>3, <3>1
    <3> QED BY <2>3, <2>5, <3>1, <3>2 DEF TokenAt
  <2> QED BY <2>4, <2>5
<1> QED BY <1>3, <1>4 DEF Moves, Onward, Jumped

LEMMA MovedAnswers ==
  ASSUME StackInv, BottomInv, AnswersInv, NEW ops, At(ops), NEW y, Moves(y), Known(y),
         ~Gives(instr), UNCHANGED <<request, answers>>
  PROVE  AnswersInv'
<1>1. TokenAt(y, Len(answers))
  <2>1. TokenAt(top, Len(answers))
    BY TopIs DEF AnswersInv, At
  <2> QED BY <2>1, MovedToken
<1>2. AnsweredOnce'
  BY MovedStack DEF AnswersInv, AnsweredOnce, Idle
<1> QED BY <1>1, <1>2, MovedStack DEF AnswersInv, TokenAt

\* What a branch has found out when it goes on, and when it jumps.
MayFall(c, x) ==
    /\ c.op = "testErr" => ~x.err
    /\ c.op = "test" => ~x.err /\ x.ptr[c.v].ok
    /\ c.op = "cme" => x.ptr[c.v].ok
    /\ c.op \in {"line", "doneWith", "threeLines", "ifNoLine"}
         => x.ptr[c.v].state = "live" /\ x.ptr[c.v].lines # 0
MayJump(c, x) ==
    /\ c.op = "testErr" => x.err
    /\ c.op = "test" => x.err \/ ~x.ptr[c.v].ok

LEMMA MovedTruth ==
  ASSUME StackInv, BottomInv, TruthInv, NEW ops, At(ops), NEW y, Moves(y), Known(y),
         Onward(y) => MayFall(instr, top), UNCHANGED <<request, answers, refused>>
  PROVE  TruthInv'
<1>1. SuccessIsTrue' /\ refused' \in BOOLEAN
  BY DEF TruthInv, SuccessIsTrue
<1>2. ASSUME request \in DOMAIN Handler \ Lenient, refused PROVE Exposed(y)
  <2>1. top.f \in Strict /\ Exposed(top)
    BY <1>2, Whose, TopIs DEF TruthInv, At
  <2>2. /\ Truthful(top.f, top.label, top.ip, instr)
        /\ top.ip \in 1 .. Len(Body(top.f)[top.label])
        /\ instr = Body(top.f)[top.label][top.ip]
        /\ Len(Body(top.f)[top.label]) \in Nat
    BY <2>1, PointIs, TopIs, LabelIs DEF GoodPoint, GoodLabel, At
  <2>3. top.label \in Failing \/ (instr.op = "test" /\ (top.err \/ ~top.ptr[instr.v].ok))
    BY <2>1, <2>2 DEF Exposed
  <2>4. CASE Onward(y)
    BY <2>3, <2>4 DEF MayFall, Exposed, Onward
  <2>5. CASE Jumped(y)
    BY <2>2, <2>3, <2>5 DEF Truthful, Targets, Exposed, Jumped
  <2> QED BY <2>4, <2>5 DEF Moves
<1> QED BY <1>1, <1>2, MovedStack DEF TruthInv, Exposed

LEMMA MovedBlock ==
  ASSUME StackInv, BlockInv, NEW ops, At(ops), NEW y, Moves(y), Known(y),
         instr.op \notin {"setRemain", "takeBlock", "ifRemain"}, remain' = remain
  PROVE  BlockInv'
<1>1. /\ Blocked(top.f, top.label, top.ip, instr)
      /\ Due(top.f, top.label, top.ip) => remain > 0
  BY PointIs, TopIs DEF GoodPoint, BlockInv, At
<1>2. Due(y.f, y.label, y.ip) => remain > 0
  BY <1>1 DEF Blocked, Moves, Onward, Jumped, Replaces
<1> QED BY <1>2, MovedStack DEF BlockInv, Due

\* A step of the innermost function that keeps each part keeps all.
LEMMA StepKept ==
  ASSUME Inv, NEW ops, At(ops), NEW y, Moves(y), Known(y), UNCHANGED <<request, crash>>,
         leaked' \subseteq leaked \cup Leaky, PlainInv', AnswersInv', TruthInv', BlockInv'
  PROVE  Inv'
<1> USE DEF Inv
<1>1. StackInv' /\ BottomInv'
  BY MovedStack DEF BottomInv, HandlerOf, At
<1>2. CrashInv'
  BY MovedStack DEF CrashInv, CheckedBeforeUse, ResponsesFreed, At
<1> QED BY <1>1, <1>2

LEMMA FallKept == \A f, c, w, k, x :
    /\ Is(k, x.ptr[w], x.err) /\ MayFall(c, x) /\ c.op \notin {"free", "null"}
    /\ c.op = "send" => c.v # w
    /\ c.op \in PtrOps /\ c.v = w => Safe(f, c, k)
    => Is(Falls(c, w, k), x.ptr[w], x.err)
<1> SUFFICES ASSUME NEW f, NEW c, NEW w, NEW k, NEW x, Is(k, x.ptr[w], x.err),
                    MayFall(c, x), c.op \notin {"free", "null"}, c.op = "send" => c.v # w,
                    c.op \in PtrOps /\ c.v = w => Safe(f, c, k)
             PROVE  Is(Falls(c, w, k), x.ptr[w], x.err)
  OBVIOUS
<1>1. CASE c.op = "testErr"
  BY <1>1 DEF Falls, MayFall, NoErr, Is
<1>2. CASE c.op # "testErr" /\ c.op \notin PtrOps
  BY <1>2 DEF Falls
<1>3. CASE c.op \in PtrOps /\ c.v # w
  BY <1>3 DEF Falls, PtrOps, Is
<1>4. CASE c.op \in PtrOps /\ c.v = w
  <2>1. Falls(c, w, k) = Fall(c, k) /\ Safe(f, c, k)
    BY <1>4 DEF Falls, PtrOps
  <2>2. CASE c.op = "test"
    BY <1>4, <2>1, <2>2 DEF Fall, Safe, MayFall, OnSuccess, OfErr, Is
  <2>3. CASE c.op = "cme"
    BY <1>4, <2>1, <2>3 DEF Fall, Safe, MayFall, OnSuccess, HasIt, Is
  <2>4. CASE c.op \in {"line", "doneWith", "threeLines", "ifNoLine"}
    <3>1. Fall(c, k) = "line" /\ x.ptr[w].state = "live" /\ x.ptr[w].lines # 0
      BY <1>4, <2>4 DEF Fall, MayFall
    <3> QED BY <2>1, <3>1 DEF Is
  <2>5. CASE c.op = "scan"
    BY <2>1, <2>5 DEF Fall
  <2> QED BY <1>4, <2>2, <2>3, <2>4, <2>5 DEF PtrOps
<1> QED BY <1>1, <1>2, <1>3, <1>4

LEMMA JumpKept == \A f, c, w, k, x :
    /\ Is(k, x.ptr[w], x.err) /\ MayJump(c, x)
    /\ c.op \in PtrOps /\ c.v = w => Safe(f, c, k)
    => Is(Jumps(c, w, k), x.ptr[w], x.err)
<1> SUFFICES ASSUME NEW f, NEW c, NEW w, NEW k, NEW x, Is(k, x.ptr[w], x.err),
                    MayJump(c, x), c.op \in PtrOps /\ c.v = w => Safe(f, c, k)
             PROVE  Is(Jumps(c, w, k), x.ptr[w], x.err)
  OBVIOUS
<1>1. CASE c.op = "testErr"
  BY <1>1 DEF Jumps, MayJump, AnErr, OnFailure, OfErr, Is
<1>2. CASE c.op # "testErr" /\ c.op \notin PtrOps
  BY <1>2 DEF Jumps
<1>3. CASE c.op \in PtrOps /\ c.v # w
  BY <1>3 DEF Jumps, PtrOps, Is
<1>4. CASE c.op \in PtrOps /\ c.v = w
  BY <1>4 DEF Jumps, Jump, Safe, OnFailure, OfErr, PtrOps, Is
<1> QED BY <1>1, <1>2, <1>3, <1>4

\* An instruction that leaves the pointers and err alone.
LEMMA QuietKnown ==
  ASSUME StackInv, NEW ops, At(ops), NEW y,
         \/ Onward(y) /\ MayFall(instr, top)
         \/ Jumped(y) /\ MayJump(instr, top),
         y.ptr = top.ptr, y.err = top.err, instr.op \notin {"free", "null"},
         instr.op = "send" => instr.v \notin Pointers
  PROVE  Known(y)
<1> SUFFICES ASSUME NEW w \in Pointers
             PROVE  Is(Mark(w, y.f, y.label, y.ip), y.ptr[w], y.err)
  BY DEF Known
<1> DEFINE k == Mark(w, top.f, top.label, top.ip)
           n == Mark(w, top.f, top.label, top.ip + 1)
<1>1. Passes(w, top.f, instr, k, n)
  BY PointIs DEF GoodPoint
<1>2. Is(k, top.ptr[w], top.err)
  BY TopIs DEF At, Known
<1>3. instr.op \in PtrOps /\ instr.v = w => Safe(top.f, instr, k)
  BY <1>1 DEF Passes
<1>4. CASE Onward(y) /\ MayFall(instr, top)
  <2>1. Is(Falls(instr, w, k), top.ptr[w], top.err)
    BY <1>2, <1>3, <1>4, FallKept
  <2>2. Follows(Falls(instr, w, k), n) /\ n = Mark(w, y.f, y.label, y.ip)
    BY <1>1, <1>4 DEF Passes, Onward, Replaces
  <2> QED BY <2>1, <2>2, Weakened
<1>5. CASE Jumped(y) /\ MayJump(instr, top)
  <2>1. Is(Jumps(instr, w, k), top.ptr[w], top.err)
    BY <1>2, <1>3, <1>5, JumpKept
  <2>2. Follows(Jumps(instr, w, k), Mark(w, y.f, y.label, y.ip))
    BY <1>1, <1>5 DEF Passes, Jumped, Replaces
  <2> QED BY <2>1, <2>2, Weakened
<1> QED BY <1>4, <1>5

LEMMA QuietStep ==
  ASSUME Inv, NEW ops, At(ops), NEW y,
         \/ Onward(y) /\ MayFall(instr, top)
         \/ Jumped(y) /\ MayJump(instr, top),
         y.ptr = top.ptr, y.err = top.err, instr.op \notin {"free", "null"},
         instr.op = "send" => instr.v \notin Pointers, ~Gives(instr),
         UNCHANGED <<request, answers, refused, leaked, crash>>, PlainInv',
         \/ remain' = remain /\ instr.op \notin {"setRemain", "takeBlock", "ifRemain"}
         \/ (Known(y) => BlockInv')
  PROVE  Inv'
<1> USE DEF Inv
<1>1. Known(y) /\ Moves(y)
  BY QuietKnown DEF Moves
<1>2. AnswersInv'
  BY <1>1, MovedAnswers
<1>3. TruthInv'
  <2>1. Onward(y) => MayFall(instr, top)
    <3>1. top.ip \in Nat /\ top.ip > 0
      BY PointIs
    <3> QED BY <3>1 DEF Onward, Jumped
  <2> QED BY <1>1, <2>1, MovedTruth
<1>4. BlockInv'
  BY <1>1, MovedBlock
<1> QED BY <1>1, <1>2, <1>3, <1>4, StepKept

-----------------------------------------------------------------------------
(* The frames a step leaves                                                *)

LEMMA FrameIs ==
  ASSUME NEW x \in FrameType
  PROVE  /\ x.f \in Functions /\ x.ip \in Nat \ {0} /\ x.err \in BOOLEAN
         /\ x.ptr \in [Pointers -> Values]
         /\ x = [f |-> x.f, label |-> x.label, ip |-> x.ip, err |-> x.err, ptr |-> x.ptr]
  BY DEF FrameType

LEMMA NextIs ==
  ASSUME NEW x \in FrameType
  PROVE  /\ Next1(x) \in FrameType /\ Next1(x).f = x.f /\ Next1(x).label = x.label
         /\ Next1(x).ip = x.ip + 1 /\ Next1(x).err = x.err /\ Next1(x).ptr = x.ptr
  BY DEF FrameType, Next1

LEMMA ToIs ==
  ASSUME NEW x \in FrameType, NEW l \in DOMAIN Body(x.f)
  PROVE  /\ To(x, l) \in FrameType /\ To(x, l).f = x.f /\ To(x, l).label = l
         /\ To(x, l).ip = 1 /\ To(x, l).err = x.err /\ To(x, l).ptr = x.ptr
<1> DEFINE L == UNION {DOMAIN Body(f) : f \in Functions}
<1>1. l \in L
  BY FrameIs
<1>2. FrameType = [f : Functions, label : L, ip : Nat \ {0}, err : BOOLEAN,
                   ptr : [Pointers -> Values]]
  BY DEF FrameType
<1> HIDE DEF L
<1> DEFINE y == [x EXCEPT !.ip = 1]
<1>3. y \in FrameType /\ y.f = x.f /\ y.ip = 1 /\ y.err = x.err /\ y.ptr = x.ptr
  BY <1>2
<1> HIDE DEF y
<1>4. LET z == [y EXCEPT !.label = l] IN
      /\ z \in FrameType /\ z.f = y.f /\ z.label = l /\ z.ip = y.ip
      /\ z.err = y.err /\ z.ptr = y.ptr
  BY <1>1, <1>2, <1>3
<1>5. To(x, l) = [y EXCEPT !.label = l]
  BY DEF To, y
<1> QED BY <1>3, <1>4, <1>5

LEMMA SetIs ==
  ASSUME NEW x \in FrameType, NEW v \in Pointers, NEW value \in Values
  PROVE  /\ Set(x, v, value) \in FrameType /\ Set(x, v, value).f = x.f
         /\ Set(x, v, value).label = x.label /\ Set(x, v, value).ip = x.ip
         /\ Set(x, v, value).err = x.err
         /\ Set(x, v, value).ptr = [x.ptr EXCEPT ![v] = value]
  BY DEF FrameType, Set

\* The innermost function goes on, or to a label, as the program says.
LEMMA GoIs ==
  ASSUME StackInv, NEW ops, At(ops), GoesOn(instr), Go
  PROVE  Onward(Next1(top)) /\ Next1(top).ptr = top.ptr /\ Next1(top).err = top.err
  BY TopIs, NextIs DEF At, Go, Continue, Onward, Replaces

LEMMA ToTarget ==
  ASSUME StackInv, NEW ops, At(ops), NEW l \in Targets(instr), Continue(To(top, l))
  PROVE  Jumped(To(top, l)) /\ To(top, l).ptr = top.ptr /\ To(top, l).err = top.err
<1>1. top \in FrameType /\ l \in DOMAIN Body(top.f)
  BY TopIs, PointIs DEF At, GoodPoint, Typed
<1> QED BY <1>1, ToIs DEF Continue, Jumped, Replaces

\* A branch with what it has found out.
LEMMA Branches ==
  ASSUME Inv, NEW ops, At(ops), GoesOn(instr), NEW b \in BOOLEAN, NEW l \in Targets(instr),
         GoIf(b, l), b => MayJump(instr, top), ~b => MayFall(instr, top),
         instr.op \notin {"send", "free", "null"}, ~Gives(instr),
         UNCHANGED <<request, answers, refused, leaked, crash>>, PlainInv',
         remain' = remain, instr.op \notin {"setRemain", "takeBlock", "ifRemain"}
  PROVE  Inv'
<1>0. StackInv
  BY DEF Inv
<1>1. CASE b
  <2>1. Continue(To(top, l))
    BY <1>1 DEF GoIf
  <2>2. Jumped(To(top, l)) /\ To(top, l).ptr = top.ptr /\ To(top, l).err = top.err
    BY <1>0, <2>1, ToTarget
  <2> QED BY <1>1, <2>2, QuietStep
<1>2. CASE ~b
  <2>1. Go
    BY <1>2 DEF GoIf, Go
  <2>2. Onward(Next1(top)) /\ Next1(top).ptr = top.ptr /\ Next1(top).err = top.err
    BY <1>0, <2>1, GoIs
  <2> QED BY <1>2, <2>2, QuietStep
<1> QED BY <1>1, <1>2

-----------------------------------------------------------------------------
(* The instructions                                                        *)

LEMMA SendOnlyStep == ASSUME Inv, SendOnly PROVE Inv'
<1>1. At({"send"}) /\ instr.v = nowhere /\ Go
      /\ UNCHANGED <<channel, request, data, history>>
  BY DEF SendOnly
<1>2. instr.op = "send" /\ instr.v \notin Pointers
  BY <1>1, PointersAre DEF At
<1>3. GoesOn(instr) /\ ~Gives(instr) /\ MayFall(instr, top)
  BY <1>2 DEF GoesOn, Gives, MayFall
<1>4. StackInv /\ PlainInv'
  BY <1>1 DEF Inv, PlainInv, channel, data
<1>5. Onward(Next1(top)) /\ Next1(top).ptr = top.ptr /\ Next1(top).err = top.err
  BY <1>1, <1>3, <1>4, GoIs
<1> QED BY <1>1, <1>2, <1>3, <1>4, <1>5, QuietStep DEF data, history

LEMMA UsableIs ==
  ASSUME NEW ops, At(ops), instr.op \in Uses, Unusable = "no",
         ~(instr.op = "test" /\ top.err)
  PROVE  /\ Live(top.ptr[instr.v])
         /\ instr.op \in {"line", "doneWith"} => top.ptr[instr.v].lines # 0
  BY DEF Unusable

LEMMA ExamineStep == ASSUME Inv, Examine PROVE Inv'
<1>1. /\ At({"test", "testErr", "cme", "ifNoLine"})
      /\ instr.op # "testErr" => Unusable = "no"
      /\ UNCHANGED <<channel, request, data, history>>
  BY DEF Examine
<1>2. instr.op \in {"test", "testErr", "cme", "ifNoLine"} /\ StackInv
  BY <1>1 DEF At, Inv
<1>3. GoesOn(instr) /\ ~Gives(instr) /\ instr.to \in Targets(instr)
  BY <1>2 DEF GoesOn, Gives, Targets
<1>4. PlainInv'
  BY <1>1 DEF Inv, PlainInv, channel, data
<1>5. top.err \in BOOLEAN
  BY <1>1, <1>2, TopIs, FrameIs DEF At
<1>6. instr.op # "testErr" => top.ptr[instr.v] \in Values
  <2>1. top.ptr \in [Pointers -> Values]
    BY <1>1, <1>2, TopIs, FrameIs DEF At
  <2>2. instr.op # "testErr" => instr.v \in Pointers
    BY <1>1, <1>2, PointIs DEF GoodPoint, Typed, PtrOps
  <2> QED BY <2>1, <2>2
<1> DEFINE b == CASE instr.op = "test"     -> top.err \/ ~top.ptr[instr.v].ok
                  [] instr.op = "testErr"  -> top.err
                  [] instr.op = "cme"      -> ~top.ptr[instr.v].ok
                  [] instr.op = "ifNoLine" -> top.ptr[instr.v].lines = 0
<1>7. GoIf(b, instr.to)
  BY DEF Examine
<1>8. b \in BOOLEAN
  BY <1>2, <1>5
<1>9. b => MayJump(instr, top)
  BY <1>2 DEF MayJump
<1>10. ~b => MayFall(instr, top)
  <2>1. instr.op = "ifNoLine" => Live(top.ptr[instr.v])
    BY <1>1, UsableIs DEF Uses
  <2> QED BY <1>2, <1>6, <2>1 DEF MayFall, Values, Live
<1> HIDE DEF b
<1> QED BY <1>1, <1>2, <1>3, <1>4, <1>7, <1>8, <1>9, <1>10, Branches DEF data, history

LEMMA ParseStep == ASSUME Inv, Parse PROVE Inv'
<1>1. /\ At({"line", "scan", "threeLines"}) /\ Unusable = "no"
      /\ UNCHANGED <<channel, request, data, history>>
  BY DEF Parse
<1>2. instr.op \in {"line", "scan", "threeLines"} /\ StackInv
  BY <1>1 DEF At, Inv
<1>3. PICK parsed \in BOOLEAN :
        /\ instr.op = "line" => parsed \in instr.may
        /\ instr.op = "threeLines" => (parsed => top.ptr[instr.v].lines = 3)
        /\ GoIf(~parsed, instr.to)
  BY DEF Parse
<1>4. Live(top.ptr[instr.v]) /\ (instr.op = "line" => top.ptr[instr.v].lines # 0)
  BY <1>1, <1>2, UsableIs DEF Uses
<1>5. GoesOn(instr) /\ ~Gives(instr) /\ PlainInv'
  BY <1>1, <1>2 DEF GoesOn, Gives, Inv, PlainInv, channel, data
<1>6. CASE parsed
  <2>1. Go
    BY <1>3, <1>6 DEF GoIf, Go
  <2>2. Onward(Next1(top)) /\ Next1(top).ptr = top.ptr /\ Next1(top).err = top.err
    BY <1>1, <1>2, <1>5, <2>1, GoIs
  <2>3. MayFall(instr, top)
    BY <1>2, <1>3, <1>4, <1>6 DEF MayFall, Live
  <2> QED BY <1>1, <1>2, <1>5, <2>2, <2>3, QuietStep DEF data, history
<1>7. CASE ~parsed
  <2>1. instr.to \in Targets(instr) /\ MayJump(instr, top)
    BY <1>2, <1>3, <1>7 DEF Targets, MayJump
  <2>2. Continue(To(top, instr.to))
    BY <1>3, <1>7 DEF GoIf
  <2>3. Jumped(To(top, instr.to)) /\ To(top, instr.to).ptr = top.ptr
        /\ To(top, instr.to).err = top.err
    BY <1>1, <1>2, <2>1, <2>2, ToTarget
  <2> QED BY <1>1, <1>2, <1>5, <2>1, <2>3, QuietStep DEF data, history
<1> QED BY <1>6, <1>7

LEMMA BranchStep == ASSUME Inv, Branch PROVE Inv'
<1> DEFINE ops == {"either", "goto", "when", "inState", "unless"}
<1>1. At(ops) /\ UNCHANGED <<channel, request, data, history>>
  BY DEF Branch
<1>2. instr.op \in ops /\ StackInv
  BY <1>1 DEF At, Inv
<1>3. /\ ~Gives(instr) /\ MayFall(instr, top) /\ MayJump(instr, top) /\ PlainInv'
      /\ instr.op # "goto" => GoesOn(instr)
  BY <1>1, <1>2 DEF Gives, MayFall, MayJump, GoesOn, Inv, PlainInv, channel, data
<1>4. (instr.op # "goto" /\ Go) \/ (\E l \in Targets(instr) : Continue(To(top, l)))
  <2>1. CASE instr.op = "either"
    BY <2>1 DEF Branch, Targets
  <2>2. CASE instr.op = "goto"
    BY <2>2 DEF Branch, Targets
  <2>3. CASE instr.op = "when"
    BY <2>3 DEF Branch, Targets, GoIf, Go
  <2>4. CASE instr.op = "inState"
    BY <2>4 DEF Branch, Targets, GoIf, Go
  <2>5. CASE instr.op = "unless"
    BY <2>5 DEF Branch, Targets, GoIf, Go
  <2> QED BY <1>2, <2>1, <2>2, <2>3, <2>4, <2>5
<1>5. CASE instr.op # "goto" /\ Go
  <2>1. Onward(Next1(top)) /\ Next1(top).ptr = top.ptr /\ Next1(top).err = top.err
    BY <1>1, <1>2, <1>3, <1>5, GoIs
  <2> QED BY <1>1, <1>2, <1>3, <2>1, QuietStep DEF data, history
<1>6. ASSUME NEW l \in Targets(instr), Continue(To(top, l)) PROVE Inv'
  <2>1. Jumped(To(top, l)) /\ To(top, l).ptr = top.ptr /\ To(top, l).err = top.err
    BY <1>1, <1>2, <1>6, ToTarget
  <2> QED BY <1>1, <1>2, <1>3, <2>1, QuietStep DEF data, history
<1> QED BY <1>4, <1>5, <1>6

\* An illegal use that the program is known to make ends the process.
LEMMA Crashed ==
  ASSUME Inv, stack # <<>>, NEW why, Crash(why), <<top.f, why>> \in Unchecked,
         UNCHANGED <<channel, request, data, answers, refused, leaked>>
  PROVE  Inv'
<1>1. stack' = <<>> /\ crash' = <<top.f, why>>
  BY DEF Crash
<1>2. top.f \in Functions
  BY TopIs, FrameIs DEF Inv
<1>3. crash' # NoCrash
  BY <1>1 DEF Unchecked, NoCrash
<1>4. StackInv'
  BY <1>1 DEF StackInv
<1>5. PlainInv' /\ BottomInv' /\ BlockInv'
  BY <1>1 DEF Inv, PlainInv, BottomInv, BlockInv, channel, data
<1>6. AnswersInv' /\ TruthInv'
  BY <1>1, <1>3 DEF Inv, AnswersInv, AnsweredOnce, Idle, TruthInv, SuccessIsTrue
<1>7. CrashInv'
  <2>1. leaked' \subseteq Leaky
    BY DEF Inv, CrashInv, ResponsesFreed
  <2>2. crash' \in Unchecked /\ why \in Reasons
    BY <1>1 DEF Unchecked, Reasons
  <2>3. crash' \in Functions \X Reasons
    BY <1>1, <1>2, <2>2
  <2> QED BY <1>1, <2>1, <2>2, <2>3 DEF CrashInv, CheckedBeforeUse, ResponsesFreed
<1> QED BY <1>4, <1>5, <1>6, <1>7 DEF Inv

LEMMA SetStateStep == ASSUME Inv, SetState PROVE Inv'
<1>1. At({"setRadioState"}) /\ Go
      /\ UNCHANGED <<s_readerClosed, initDue, request, data, history>>
      /\ sState' \in IF s_readerClosed THEN {instr.s, "UNAVAILABLE"} ELSE {instr.s}
  BY DEF SetState
<1>2. instr.op = "setRadioState" /\ StackInv
  BY <1>1 DEF At, Inv
<1>3. GoesOn(instr) /\ ~Gives(instr) /\ MayFall(instr, top)
  BY <1>2 DEF GoesOn, Gives, MayFall
<1>4. PlainInv'
  <2>1. instr.s \in {"OFF", "ON"}
    BY <1>1, <1>2, PointIs DEF GoodPoint, Typed
  <2> QED BY <1>1, <2>1 DEF Inv, PlainInv, data
<1>5. Onward(Next1(top)) /\ Next1(top).ptr = top.ptr /\ Next1(top).err = top.err
  BY <1>1, <1>2, <1>3, GoIs
<1> QED BY <1>1, <1>2, <1>3, <1>4, <1>5, QuietStep DEF data, history

LEMMA CopyTextStep == ASSUME Inv, CopyText PROVE Inv'
<1>1. At({"copyVersion"}) /\ Go /\ MVersion' \in BOOLEAN
      /\ UNCHANGED <<channel, request, result, remain, history>>
  BY DEF CopyText
<1>2. instr.op = "copyVersion" /\ StackInv
  BY <1>1 DEF At, Inv
<1>3. GoesOn(instr) /\ ~Gives(instr) /\ MayFall(instr, top)
  BY <1>2 DEF GoesOn, Gives, MayFall
<1>4. PlainInv'
  BY <1>1 DEF Inv, PlainInv, channel
<1>5. Onward(Next1(top)) /\ Next1(top).ptr = top.ptr /\ Next1(top).err = top.err
  BY <1>1, <1>2, <1>3, GoIs
<1> QED BY <1>1, <1>2, <1>3, <1>4, <1>5, QuietStep DEF history

LEMMA FindTextStep == ASSUME Inv, FindText PROVE Inv'
<1>1. /\ At({"findVersion", "findColon"})
      /\ (Go /\ UNCHANGED crash) \/ Crash("text")
      /\ UNCHANGED <<channel, request, data, answers, refused, leaked>>
  BY DEF FindText
<1>2. instr.op \in {"findVersion", "findColon"} /\ StackInv /\ stack # <<>>
  BY <1>1 DEF At, Inv
<1>3. GoesOn(instr) /\ ~Gives(instr) /\ MayFall(instr, top)
  BY <1>2 DEF GoesOn, Gives, MayFall
<1>4. PlainInv'
  BY <1>1 DEF Inv, PlainInv, channel, data
<1>5. CASE Go /\ UNCHANGED crash
  <2>1. Onward(Next1(top)) /\ Next1(top).ptr = top.ptr /\ Next1(top).err = top.err
    BY <1>1, <1>2, <1>3, <1>5, GoIs
  <2> QED BY <1>1, <1>2, <1>3, <1>4, <1>5, <2>1, QuietStep DEF data
<1>6. CASE Crash("text")
  <2>1. top.f = DataCallList
    BY <1>1, <1>2, PointIs DEF GoodPoint, Typed
  <2>2. <<top.f, "text">> \in Unchecked
    BY <2>1 DEF Unchecked, DataCallList
  <2> QED BY <1>1, <1>2, <1>6, <2>2, Crashed
<1> QED BY <1>1, <1>5, <1>6

LEMMA IllegalUseStep == ASSUME Inv, IllegalUse PROVE Inv'
<1>1. /\ At(Uses) /\ Unusable # "no" /\ Crash(Unusable)
      /\ UNCHANGED <<channel, request, data, answers, refused, leaked>>
  BY DEF IllegalUse
<1>2. instr.op \in Uses /\ StackInv /\ stack # <<>>
  BY <1>1 DEF At, Inv
<1>3. top \in FrameType /\ Known(top)
  BY <1>2, TopIs
<1> DEFINE w == instr.v
           k == Mark(w, top.f, top.label, top.ip)
           v == top.ptr[w]
<1>4. w \in Pointers /\ Safe(top.f, instr, k)
  BY <1>1, <1>2, PointIs DEF GoodPoint, Typed, Passes, Uses, PtrOps
<1>5. Is(k, v, top.err)
  BY <1>3, <1>4 DEF Known
<1>7. <<top.f, Unusable>> \in Unchecked
  <2> HIDE DEF k, w
  <2>1. CASE instr.op = "test"
    BY <1>1, <1>4, <1>5, <2>1 DEF Unusable, Safe, OfErr, Is, Live, w
  <2>2. CASE instr.op \in {"scan", "cme", "ifNoLine"}
    BY <1>1, <1>4, <1>5, <2>2 DEF Unusable, Safe, HasIt, Is, Live, w
  <2>3. CASE instr.op = "threeLines"
    <3>1. Unusable = "response[3]" /\ top.f = "requestOperator"
      BY <1>1, <1>4, <1>5, <2>3 DEF Unusable, Safe, HasIt, Is, Live, w
    <3> QED BY <3>1 DEF Unchecked
  <2>4. CASE instr.op \in {"line", "doneWith"}
    <3>1. v.state = "live"
      BY <1>4, <1>5, <2>4 DEF Safe, HasIt, Is
    <3>2. Unusable = "line" /\ v.lines = 0
      BY <1>1, <2>4, <3>1 DEF Unusable, Live, w
    <3>3. k # "line"
      BY <1>5, <3>2 DEF Is
    <3> QED BY <1>4, <2>4, <3>2, <3>3 DEF Safe
  <2> QED BY <1>2, <2>1, <2>2, <2>3, <2>4 DEF Uses
<1> QED BY <1>1, <1>2, <1>7, Crashed

LEMMA BlocksKept ==
  ASSUME Inv, NEW ops, At(ops), NEW y, Moves(y), Known(y), remain' \in 0 .. MaxBlocks,
         Due(y.f, y.label, y.ip) => remain' > 0
  PROVE  BlockInv'
  BY MovedStack DEF Inv, BlockInv, Due

LEMMA BlocksStep == ASSUME Inv, Blocks PROVE Inv'
<1> DEFINE ops == {"setRemain", "takeBlock", "ifRemain"}
<1>1. At(ops) /\ UNCHANGED <<channel, request, result, MVersion, history>>
  BY DEF Blocks
<1>2. instr.op \in ops /\ StackInv /\ stack # <<>>
  BY <1>1 DEF At, Inv
<1>3. GoesOn(instr) /\ ~Gives(instr) /\ MayFall(instr, top) /\ MayJump(instr, top)
  BY <1>2 DEF GoesOn, Gives, MayFall, MayJump
<1>4. PlainInv'
  BY <1>1 DEF Inv, PlainInv, channel
<1>5. /\ Blocked(top.f, top.label, top.ip, instr) /\ remain \in 0 .. MaxBlocks
      /\ Due(top.f, top.label, top.ip) => remain > 0
  BY <1>1, <1>2, PointIs, TopIs DEF GoodPoint, Inv, BlockInv
<1>6. MaxBlocks \in Nat
  BY BoundsAssumption
<1>7. CASE Go /\ remain' \in 0 .. MaxBlocks /\ (instr.op = "setRemain" => remain' > 0)
  <2>1. Onward(Next1(top)) /\ Next1(top).ptr = top.ptr /\ Next1(top).err = top.err
    BY <1>1, <1>2, <1>3, <1>7, GoIs
  <2>2. Due(Next1(top).f, Next1(top).label, Next1(top).ip) => remain' > 0
    BY <1>3, <1>5, <1>7, <2>1 DEF Blocked, Onward, Replaces
  <2>3. Known(Next1(top)) => BlockInv'
    BY <1>1, <1>7, <2>1, <2>2, BlocksKept DEF Moves
  <2> QED BY <1>1, <1>2, <1>3, <1>4, <2>1, <2>3, QuietStep DEF history
<1>8. CASE instr.op = "ifRemain" /\ Continue(To(top, instr.to)) /\ remain > 0
           /\ remain' = remain
  <2>1. instr.to \in Targets(instr)
    BY <1>8 DEF Targets
  <2>2. Jumped(To(top, instr.to)) /\ To(top, instr.to).ptr = top.ptr
        /\ To(top, instr.to).err = top.err
    BY <1>1, <1>2, <1>8, <2>1, ToTarget
  <2>3. Known(To(top, instr.to)) => BlockInv'
    BY <1>1, <1>5, <1>8, <2>2, BlocksKept DEF Moves
  <2> QED BY <1>1, <1>2, <1>3, <1>4, <2>2, <2>3, QuietStep DEF history
<1>9. CASE instr.op = "setRemain"
  <2>1. Go /\ remain' \in 1 .. MaxBlocks
    BY <1>9 DEF Blocks
  <2>2. remain' \in 0 .. MaxBlocks /\ remain' > 0
    BY <1>6, <2>1
  <2> QED BY <1>7, <2>1, <2>2
<1>10. CASE instr.op = "takeBlock"
  <2>1. Go /\ remain' = remain - 1
    BY <1>10 DEF Blocks
  <2>2. remain > 0
    BY <1>5, <1>10 DEF Blocked
  <2>3. remain' \in 0 .. MaxBlocks
    BY <1>5, <1>6, <2>1, <2>2
  <2> QED BY <1>7, <1>10, <2>1, <2>3
<1>11. CASE instr.op = "ifRemain"
  <2>1. GoIf(remain > 0, instr.to) /\ remain' = remain
    BY <1>11 DEF Blocks
  <2>2. (remain > 0 /\ Continue(To(top, instr.to))) \/ Go
    BY <2>1 DEF GoIf, Go
  <2> QED BY <1>5, <1>7, <1>8, <1>11, <2>1, <2>2
<1> QED BY <1>2, <1>9, <1>10, <1>11

-----------------------------------------------------------------------------
(* The instructions that change a pointer or complete the token            *)

\* The pointer that instr is about is set; err may be, too.
LEMMA SetKnown ==
  ASSUME StackInv, NEW ops, At(ops), NEW y, Onward(y), instr.op \in PtrOps,
         instr.v \in Pointers,
         \A w \in Pointers : w # instr.v => y.ptr[w] = top.ptr[w],
         LET k == Mark(instr.v, top.f, top.label, top.ip) IN
           Is(k, top.ptr[instr.v], top.err) => Is(Fall(instr, k), y.ptr[instr.v], y.err)
  PROVE  Known(y)
<1> SUFFICES ASSUME NEW w \in Pointers
             PROVE  Is(Mark(w, y.f, y.label, y.ip), y.ptr[w], y.err)
  BY DEF Known
<1> DEFINE k == Mark(w, top.f, top.label, top.ip)
           n == Mark(w, top.f, top.label, top.ip + 1)
<1>1. Passes(w, top.f, instr, k, n)
  BY PointIs DEF GoodPoint
<1>2. Is(k, top.ptr[w], top.err)
  BY TopIs DEF At, Known
<1>3. n = Mark(w, y.f, y.label, y.ip) /\ Follows(Falls(instr, w, k), n)
  BY <1>1 DEF Passes, Onward, Replaces
<1>4. CASE w = instr.v
  <2>1. Falls(instr, w, k) = Fall(instr, k)
    BY <1>4 DEF Falls, PtrOps
  <2> QED BY <1>2, <1>3, <1>4, <2>1, Weakened
<1>5. CASE w # instr.v
  <2>1. Falls(instr, w, k) = IF k \in OfErr THEN "any" ELSE k
    BY <1>5 DEF Falls, PtrOps
  <2>2. Is(Falls(instr, w, k), top.ptr[w], y.err)
    BY <1>2, <2>1 DEF Is, OfErr
  <2> QED BY <1>3, <1>5, <2>2, Weakened
<1> QED BY <1>4, <1>5

\* A function that loses a response is known to.
LEMMA LeaksAre ==
  ASSUME StackInv, NEW ops, At(ops), instr.op \in {"send", "null"}, instr.v \in Pointers,
         Leaks({instr.v})
  PROVE  leaked' \subseteq leaked \cup Leaky
<1> DEFINE k == Mark(instr.v, top.f, top.label, top.ip)
<1>1. Safe(top.f, instr, k)
  BY PointIs DEF GoodPoint, Passes, PtrOps
<1>2. Is(k, top.ptr[instr.v], top.err)
  BY TopIs DEF At, Known
<1>3. top.f \in Leaky \/ ~Live(top.ptr[instr.v])
  BY <1>1, <1>2 DEF Safe, Empty, Is, Live
<1> QED BY <1>3 DEF Leaks

\* After a command whose result counts, the result is looked at.
LEMMA SentTruth ==
  ASSUME Inv, At({"send"}), instr.v # nowhere, NEW y, Onward(y), Known(y),
         y.err \/ ~y.ptr[instr.v].ok \/ refused' = refused,
         refused' \in BOOLEAN, UNCHANGED <<request, answers>>
  PROVE  TruthInv'
<1>1. StackInv /\ BottomInv /\ stack # <<>> /\ instr.op = "send" /\ y.f = top.f
  BY DEF Inv, At, Onward, Replaces
<1>2. ASSUME request \in DOMAIN Handler \ Lenient
      PROVE  /\ TestsNext(top.f, top.label, top.ip, instr.v) /\ ~refused
             /\ Len(answers) = 0
  <2>1. top.f \in Strict /\ Truthful(top.f, top.label, top.ip, instr)
    BY <1>1, <1>2, Whose, PointIs DEF GoodPoint
  <2>2. TestsNext(top.f, top.label, top.ip, instr.v)
    BY <1>1, <2>1 DEF Truthful
  <2>3. /\ top.ip \in 1 .. Len(Body(top.f)[top.label])
        /\ instr = Body(top.f)[top.label][top.ip]
        /\ Told(top.f, top.label) \in Nat
    BY <1>1, PointIs
  <2>4. ~Exposed(top)
    <3>1. Len(Body(top.f)[top.label]) \in Nat
      BY <1>1, TopIs, LabelIs DEF GoodLabel
    <3> QED BY <1>1, <2>2, <2>3, <3>1 DEF Exposed, TestsNext
  <2>5. ~refused
    BY <1>1, <1>2, <2>4, TopIs DEF Inv, TruthInv
  <2>6. <<top.f, top.label>> \notin Blurred /\ ~(top.ip > Told(top.f, top.label))
    BY <2>2, <2>3 DEF TestsNext, Failing, Blurred
  <2>7. Len(answers) = 0
    BY <1>1, <2>6, TopIs DEF Inv, AnswersInv, TokenAt
  <2> QED BY <2>2, <2>5, <2>7
<1>3. request = "INITIALIZE" => answers = <<>>
  BY DEF Inv, AnswersInv, AnsweredOnce
<1>4. request \in DOMAIN Handler \cup {"INITIALIZE"}
  BY <1>1, Whose
<1>5. request \notin Lenient => Len(answers) = 0
  BY <1>2, <1>3, <1>4, EmptySeq
<1>6. SuccessIsTrue'
  <2>1. answers \in Seq(Results)
    BY DEF Inv, AnswersInv
  <2>2. Len(answers) = 0 => DOMAIN answers = {}
    BY <2>1
  <2> QED BY <1>5, <2>2 DEF SuccessIsTrue
<1>7. ASSUME request \in DOMAIN Handler \ Lenient, refused' PROVE Exposed(y)
  <2>1. y.err \/ ~y.ptr[instr.v].ok
    BY <1>2, <1>7
  <2>2. y.label = top.label /\ y.ip = top.ip + 1
    BY DEF Onward
  <2>3. Body(y.f)[y.label][y.ip].op = "test" /\ Body(y.f)[y.label][y.ip].v = instr.v
    BY <1>1, <1>2, <1>7, <2>2 DEF TestsNext
  <2> QED BY <2>1, <2>3 DEF Exposed
<1>8. stack' # <<>> /\ stack'[1] = y
  BY <1>1, MovedStack DEF Moves
<1> QED BY <1>6, <1>7, <1>8 DEF TruthInv, Exposed

\* The end of a command, whatever has come of it
LEMMA SentStep ==
  ASSUME Inv, At({"send"}), instr.v # nowhere, NEW value \in Values, NEW err \in BOOLEAN,
         Sent(value, err),
         ~err => value.state = "live",
         ~err /\ instr.type \in {"SINGLELINE", "NUMERIC"} => (value.ok => value.lines # 0),
         value.state \in {"null", "live"} \/ value = top.ptr[instr.v],
         leaked' \subseteq leaked \cup Leaky, s_readerClosed' \in BOOLEAN
  PROVE  Inv'
<1> DEFINE v == instr.v
           x == Set(top, v, value)
           z == [x EXCEPT !.err = err]
           y == Next1(z)
<1>1. StackInv /\ stack # <<>> /\ instr.op = "send"
  BY DEF Inv, At
<1>2. v \in Pointers /\ instr.op \in PtrOps /\ GoesOn(instr) /\ ~Gives(instr)
  BY <1>1, PointIs DEF GoodPoint, Typed, PtrOps, GoesOn, Gives
<1>3. top \in FrameType /\ top.ptr \in [Pointers -> Values]
  BY <1>1, TopIs, FrameIs
<1>4. /\ x \in FrameType /\ x.f = top.f /\ x.label = top.label /\ x.ip = top.ip
      /\ x.ptr = [top.ptr EXCEPT ![v] = value]
  BY <1>2, <1>3, SetIs
<1>5. /\ z \in FrameType /\ z.f = x.f /\ z.label = x.label /\ z.ip = x.ip
      /\ z.err = err /\ z.ptr = x.ptr
  <2> HIDE DEF x
  <2> QED BY <1>4 DEF FrameType
<1>6. /\ y \in FrameType /\ y.f = top.f /\ y.label = top.label /\ y.ip = top.ip + 1
      /\ y.err = err /\ y.ptr = [top.ptr EXCEPT ![v] = value]
  <2> HIDE DEF x, z
  <2> QED BY <1>4, <1>5, NextIs
<1>7. /\ Continue(y) /\ refused' = (refused \/ err \/ ~value.ok)
      /\ UNCHANGED <<sState, initDue, request, data, answers, crash>>
  BY DEF Sent
<1> HIDE DEF x, z, y
<1>8. Onward(y)
  BY <1>2, <1>6, <1>7 DEF Continue, Onward, Replaces
<1>9. y.ptr[v] = value /\ \A w \in Pointers : w # v => y.ptr[w] = top.ptr[w]
  BY <1>2, <1>3, <1>6
<1>10. Known(y)
  <2> DEFINE k == Mark(v, top.f, top.label, top.ip)
  <2>1. Fall(instr, k) = AfterSend(instr.type, k)
    BY <1>1 DEF Fall
  <2>2. ASSUME Is(k, top.ptr[v], top.err) PROVE Is(AfterSend(instr.type, k), value, err)
    <3> HIDE DEF k, v
    <3>1. k \in Owned => value.state \in {"null", "live"}
      BY <2>2 DEF Owned, Is, v
    <3> QED BY <3>1 DEF AfterSend, Is
  <2>3. Is(k, top.ptr[v], top.err) => Is(Fall(instr, k), y.ptr[v], y.err)
    BY <1>6, <1>9, <2>1, <2>2
  <2> QED BY <1>1, <1>2, <1>8, <1>9, <2>3, SetKnown
<1>11. PlainInv'
  BY <1>7 DEF Inv, PlainInv, data
<1>12. AnswersInv'
  BY <1>2, <1>7, <1>8, <1>10, MovedAnswers DEF Inv, Moves
<1>13. TruthInv'
  <2>1. refused' \in BOOLEAN
    BY <1>7 DEF Inv, TruthInv
  <2>2. y.err \/ ~y.ptr[v].ok \/ refused' = refused
    BY <1>6, <1>7, <1>9 DEF Inv, TruthInv
  <2> QED BY <1>7, <1>8, <1>10, <2>1, <2>2, SentTruth
<1>14. BlockInv'
  <2>1. remain' = remain
    BY <1>7 DEF data
  <2> QED BY <1>1, <1>8, <1>10, <2>1, MovedBlock DEF Inv, Moves
<1> QED BY <1>7, <1>8, <1>10, <1>11, <1>12, <1>13, <1>14, StepKept DEF Moves

LEMMA ResponsesAre == \A type : \A r \in Responses(type) :
    r \in Values /\ r.state = "live"
<1> SUFFICES ASSUME NEW type, NEW r \in Responses(type)
             PROVE  r \in Values /\ r.state = "live"
  OBVIOUS
<1> DEFINE L == CASE type = "NO_RESULT" -> {0}
                  [] type = "MULTILINE" -> AllLines
                  [] OTHER              -> {0, 1}
<1>1. L \subseteq AllLines
  BY DEF AllLines
<1>2. r \in [state : {"live"}, ok : BOOLEAN, lines : L]
  BY DEF Responses
<1> HIDE DEF L
<1> QED BY <1>1, <1>2 DEF Values

LEMMA DanglingIs == \A s \in {"uninit", "null", "freed"} :
    Dangling(s) \in Values /\ Dangling(s).state = s
  BY DEF Dangling, Value, Values, AllLines

LEMMA AnsweredStep == ASSUME Inv, Answered PROVE Inv'
<1>1. /\ At({"send"}) /\ instr.v # nowhere /\ Leaks({instr.v}) /\ UNCHANGED s_readerClosed
  BY DEF Answered
<1>2. PICK r \in Responses(instr.type) :
        IF Invalid(instr.type, r) THEN Sent(Dangling("null"), TRUE) ELSE Sent(r, FALSE)
  BY DEF Answered
<1>3. s_readerClosed' \in BOOLEAN /\ StackInv
  BY <1>1 DEF Inv, PlainInv
<1>4. instr.op = "send" /\ instr.v \in Pointers
  BY <1>1, <1>3, PointIs DEF At, GoodPoint, Typed, PtrOps
<1>5. leaked' \subseteq leaked \cup Leaky
  BY <1>1, <1>3, <1>4, LeaksAre
<1>6. CASE Invalid(instr.type, r)
  BY <1>1, <1>2, <1>3, <1>5, <1>6, DanglingIs, SentStep
<1>7. CASE ~Invalid(instr.type, r)
  BY <1>1, <1>2, <1>3, <1>5, <1>7, ResponsesAre, SentStep DEF Invalid
<1> QED BY <1>6, <1>7

LEMMA NotWrittenStep == ASSUME Inv, NotWritten PROVE Inv'
<1>1. /\ At({"send"}) /\ instr.v # nowhere /\ Sent(top.ptr[instr.v], TRUE)
      /\ UNCHANGED <<s_readerClosed, leaked>>
  BY DEF NotWritten
<1>2. s_readerClosed' \in BOOLEAN /\ StackInv
  BY <1>1 DEF Inv, PlainInv
<1>3. instr.v \in Pointers
  BY <1>1, <1>2, PointIs DEF GoodPoint, Typed, PtrOps
<1>4. top.ptr[instr.v] \in Values
  BY <1>1, <1>2, <1>3, TopIs, FrameIs DEF At
<1> QED BY <1>1, <1>2, <1>4, SentStep

LEMMA LostWhileWaitingStep == ASSUME Inv, LostWhileWaiting PROVE Inv'
<1>1. /\ At({"send"}) /\ instr.v # nowhere /\ Leaks({instr.v}) /\ s_readerClosed' = TRUE
  BY DEF LostWhileWaiting
<1>2. PICK r \in Responses(instr.type) : Sent(r, TRUE)
  BY DEF LostWhileWaiting
<1>3. instr.op = "send" /\ instr.v \in Pointers /\ StackInv
  BY <1>1, PointIs DEF At, GoodPoint, Typed, PtrOps, Inv
<1>4. leaked' \subseteq leaked \cup Leaky
  BY <1>1, <1>3, LeaksAre
<1> QED BY <1>1, <1>2, <1>4, ResponsesAre, SentStep

\* at_response_free and the assignment of NULL change one pointer, and no more.
LEMMA SetStep ==
  ASSUME Inv, NEW ops, At(ops), instr.op \in {"free", "null"}, NEW y, Onward(y), Known(y),
         UNCHANGED <<channel, request, data, answers, refused, crash>>,
         leaked' \subseteq leaked \cup Leaky
  PROVE  Inv'
<1>1. ~Gives(instr) /\ MayFall(instr, top) /\ Moves(y)
  BY DEF Gives, MayFall, Moves
<1>2. PlainInv'
  BY DEF Inv, PlainInv, channel, data
<1>3. AnswersInv'
  BY <1>1, MovedAnswers DEF Inv
<1>4. TruthInv'
  BY <1>1, MovedTruth DEF Inv
<1>5. BlockInv'
  <2>1. remain' = remain
    BY DEF data
  <2> QED BY <1>1, <2>1, MovedBlock DEF Inv
<1> QED BY <1>1, <1>2, <1>3, <1>4, <1>5, StepKept

\* The frame that goes on with one of its pointers set
LEMMA SetNext ==
  ASSUME StackInv, NEW ops, At(ops), instr.op \in {"free", "null"}, NEW value \in Values,
         LET y == Next1(Set(top, instr.v, value)) IN Continue(y)
  PROVE  LET y == Next1(Set(top, instr.v, value)) IN
         /\ Onward(y) /\ y.err = top.err /\ instr.v \in Pointers
         /\ y.ptr[instr.v] = value
         /\ \A w \in Pointers : w # instr.v => y.ptr[w] = top.ptr[w]
<1> DEFINE x == Set(top, instr.v, value)
           y == Next1(x)
<1>1. stack # <<>> /\ top \in FrameType /\ top.ptr \in [Pointers -> Values]
  BY TopIs, FrameIs DEF At
<1>2. instr.v \in Pointers /\ GoesOn(instr)
  BY PointIs DEF GoodPoint, Typed, PtrOps, GoesOn
<1>3. /\ x \in FrameType /\ x.f = top.f /\ x.label = top.label /\ x.ip = top.ip
      /\ x.err = top.err /\ x.ptr = [top.ptr EXCEPT ![instr.v] = value]
  BY <1>1, <1>2, SetIs
<1>4. /\ y \in FrameType /\ y.f = x.f /\ y.label = x.label /\ y.ip = x.ip + 1
      /\ y.err = x.err /\ y.ptr = x.ptr
  <2> HIDE DEF x
  <2> QED BY <1>3, NextIs
<1> HIDE DEF x, y
<1>5. Onward(y)
  <2>1. Continue(y)
    BY DEF y, x
  <2> QED BY <1>2, <1>3, <1>4, <2>1 DEF Continue, Onward, Replaces
<1>6. y.ptr[instr.v] = value /\ \A w \in Pointers : w # instr.v => y.ptr[w] = top.ptr[w]
  BY <1>1, <1>2, <1>3, <1>4
<1>7. y.err = top.err
  BY <1>3, <1>4
<1> QED BY <1>2, <1>5, <1>6, <1>7 DEF y, x

LEMMA FreeResponseStep == ASSUME Inv, FreeResponse PROVE Inv'
<1> DEFINE v == top.ptr[instr.v]
           k == Mark(instr.v, top.f, top.label, top.ip)
<1>1. At({"free"}) /\ UNCHANGED <<channel, request, data, answers, refused, leaked>>
  BY DEF FreeResponse
<1>2. instr.op = "free" /\ StackInv /\ stack # <<>>
  BY <1>1 DEF At, Inv
<1>3. instr.v \in Pointers /\ Safe(top.f, instr, k) /\ GoesOn(instr)
  BY <1>1, <1>2, PointIs DEF GoodPoint, Typed, Passes, PtrOps, GoesOn
<1>4. Is(k, v, top.err) /\ v \in Values
  BY <1>2, <1>3, TopIs, FrameIs DEF Known
<1>5. CASE v.state \in {"freed", "uninit"}
  <2>1. Crash("free")
    BY <1>5 DEF FreeResponse
  <2>2. k \notin Owned
    BY <1>4, <1>5 DEF Owned, Is
  <2>3. <<top.f, "free">> \in Unchecked
    BY <1>2, <1>3, <2>2 DEF Safe
  <2> QED BY <1>1, <1>2, <2>1, <2>3, Crashed
<1>6. CASE Live(v)
  <2> DEFINE y == Next1(Set(top, instr.v, Dangling("freed")))
  <2>1. Continue(y) /\ UNCHANGED crash
    BY <1>6 DEF FreeResponse, Live
  <2>2. Dangling("freed") \in Values /\ Dangling("freed").state = "freed"
    BY DanglingIs
  <2>3. /\ Onward(y) /\ y.err = top.err /\ y.ptr[instr.v] = Dangling("freed")
        /\ \A w \in Pointers : w # instr.v => y.ptr[w] = top.ptr[w]
    BY <1>1, <1>2, <2>1, <2>2, SetNext
  <2> HIDE DEF y
  <2>4. Is(Fall(instr, k), y.ptr[instr.v], y.err)
    <3>1. k # "null"
      BY <1>4, <1>6 DEF Is, Live
    <3> QED BY <1>2, <2>2, <2>3, <3>1 DEF Fall, Is
  <2>5. Known(y)
    BY <1>1, <1>2, <1>3, <2>3, <2>4, SetKnown DEF PtrOps
  <2> QED BY <1>1, <1>2, <2>1, <2>3, <2>5, SetStep
<1>7. CASE v.state = "null"
  <2> DEFINE y == Next1(top)
  <2>1. Continue(y) /\ UNCHANGED crash
    BY <1>7 DEF FreeResponse, Live
  <2>2. Onward(y) /\ y.ptr = top.ptr /\ y.err = top.err
    BY <1>1, <1>2, <1>3, <2>1, GoIs DEF Go
  <2> HIDE DEF y
  <2>3. Is(Fall(instr, k), y.ptr[instr.v], y.err)
    BY <1>2, <1>7, <2>2 DEF Fall, Is
  <2>4. Known(y)
    BY <1>1, <1>2, <1>3, <2>2, <2>3, SetKnown DEF PtrOps
  <2> QED BY <1>1, <1>2, <2>1, <2>2, <2>4, SetStep
<1> QED BY <1>4, <1>5, <1>6, <1>7 DEF Values, Live

LEMMA AssignNullStep == ASSUME Inv, AssignNull PROVE Inv'
<1> DEFINE k == Mark(instr.v, top.f, top.label, top.ip)
           y == Next1(Set(top, instr.v, Dangling("null")))
<1>1. /\ At({"null"}) /\ Continue(y) /\ Leaks({instr.v})
      /\ UNCHANGED <<channel, request, data, answers, refused, crash>>
  BY DEF AssignNull
<1>2. instr.op = "null" /\ StackInv
  BY <1>1 DEF At, Inv
<1>3. Dangling("null") \in Values /\ Dangling("null").state = "null"
  BY DanglingIs
<1>4. /\ Onward(y) /\ y.err = top.err /\ y.ptr[instr.v] = Dangling("null")
      /\ instr.v \in Pointers
      /\ \A w \in Pointers : w # instr.v => y.ptr[w] = top.ptr[w]
  BY <1>1, <1>2, <1>3, SetNext
<1> HIDE DEF y
<1>5. Is(Fall(instr, k), y.ptr[instr.v], y.err)
  BY <1>2, <1>3, <1>4 DEF Fall, Is
<1>6. Known(y)
  BY <1>1, <1>2, <1>4, <1>5, SetKnown DEF PtrOps
<1>7. leaked' \subseteq leaked \cup Leaky
  BY <1>1, <1>2, <1>4, LeaksAre
<1> QED BY <1>1, <1>2, <1>4, <1>6, <1>7, SetStep

LEMMA CompleteStep == ASSUME Inv, Complete PROVE Inv'
<1> DEFINE y == Next1(top)
           l == Body(top.f)[top.label]
<1>1. /\ At({"done", "doneWith"}) /\ Go /\ answers' = Append(answers, instr.e)
      /\ instr.op = "doneWith" => Unusable = "no"
      /\ UNCHANGED <<channel, request, data, refused, leaked, crash>>
  BY DEF Complete
<1>2. instr.op \in {"done", "doneWith"} /\ StackInv /\ BottomInv /\ stack # <<>>
  BY <1>1 DEF At, Inv
<1>3. /\ GoesOn(instr) /\ Gives(instr)
      /\ instr.op \notin {"free", "null", "send", "setRemain", "takeBlock", "ifRemain"}
  BY <1>2 DEF GoesOn, Gives
<1>4. MayFall(instr, top)
  <2>1. instr.op = "doneWith" => Live(top.ptr[instr.v]) /\ top.ptr[instr.v].lines # 0
    BY <1>1, UsableIs DEF Uses
  <2> QED BY <1>2, <2>1 DEF MayFall, Live
<1>5. Onward(y) /\ y.ptr = top.ptr /\ y.err = top.err
  BY <1>1, <1>2, <1>3, GoIs
<1>6. Known(y) /\ Moves(y)
  BY <1>1, <1>2, <1>3, <1>4, <1>5, QuietKnown DEF Moves
<1>7. stack' # <<>> /\ stack'[1] = y
  BY <1>1, <1>2, <1>6, MovedStack
<1>8. y.f = top.f /\ y.label = top.label /\ y.ip = top.ip + 1
  BY <1>5 DEF Onward, Replaces
<1> HIDE DEF y
<1>9. /\ instr.e \in Results /\ top.ip \in Nat /\ top.ip = Told(top.f, top.label)
      /\ top.ip <= Len(l) /\ Len(l) \in Nat /\ Len(l) < Never /\ instr = l[top.ip]
  <2>1. /\ GoodPoint(top.f, top.label, top.ip, instr) /\ top.ip \in 1 .. Len(l)
        /\ instr = l[top.ip]
    BY <1>1, <1>2, PointIs
  <2>2. Len(l) \in Nat /\ Len(l) < Never
    BY <1>2, TopIs, LabelIs DEF GoodLabel
  <2> QED BY <1>2, <1>3, <2>1, <2>2 DEF GoodPoint, Typed, Counts
<1>10. top.f \notin Silent
  BY <1>9 DEF Told, Never
<1>11. /\ answers \in Seq(Results) /\ TokenAt(top, Len(answers)) /\ AnsweredOnce
  BY <1>2, TopIs DEF Inv, AnswersInv
<1>12. /\ answers' \in Seq(Results) /\ Len(answers') = Len(answers) + 1
       /\ Len(answers) \in Nat
       /\ \A i \in 1 .. Len(answers) : answers'[i] = answers[i]
       /\ answers'[Len(answers) + 1] = instr.e
  BY <1>1, <1>9, <1>11, AppendProperties
<1>13. request # "INITIALIZE" /\ request \in DOMAIN Handler
  BY <1>2, <1>10, Whose
<1>14. AnswersInv'
  <2>1. TokenAt(y, Len(answers'))
    BY <1>8, <1>9, <1>11, <1>12 DEF TokenAt
  <2>2. request \notin AnswersTwice => Len(answers') <= 1
    <3>1. request \notin AnswersTwice => <<top.f, top.label>> \notin Blurred
      BY <1>2, Whose
    <3>2. <<top.f, top.label>> \notin Blurred => Len(answers) = 0
      BY <1>9, <1>11 DEF TokenAt
    <3> QED BY <1>12, <3>1, <3>2
  <2>3. AnsweredOnce'
    BY <1>1, <1>7, <1>13, <2>2 DEF AnsweredOnce, Idle
  <2> QED BY <1>7, <1>12, <2>1, <2>3 DEF AnswersInv, TokenAt
<1>15. TruthInv'
  <2>1. ASSUME request \notin Lenient, refused
        PROVE  /\ top.label \in Failing /\ instr.e # "SUCCESS"
               /\ \A i \in 1 .. Len(answers) : answers[i] # "SUCCESS"
    <3>1. top.f \in Strict /\ Truthful(top.f, top.label, top.ip, instr)
      BY <1>1, <1>2, <1>13, <2>1, Whose, PointIs DEF GoodPoint
    <3>2. Exposed(top)
      BY <1>2, <1>13, <2>1, TopIs DEF Inv, TruthInv
    <3>3. top.label \in Failing
      BY <1>2, <1>9, <3>2 DEF Exposed
    <3>4. instr.e # "SUCCESS"
      BY <1>2, <3>1, <3>3 DEF Truthful
    <3>5. \A i \in DOMAIN answers : answers[i] # "SUCCESS"
      BY <2>1 DEF Inv, TruthInv, SuccessIsTrue
    <3> QED BY <1>11, <3>3, <3>4, <3>5
  <2>2. SuccessIsTrue'
    <3> SUFFICES ASSUME request \notin Lenient, refused, NEW i \in DOMAIN answers'
                 PROVE  answers'[i] # "SUCCESS"
      BY <1>1 DEF SuccessIsTrue
    <3>1. i \in 1 .. Len(answers) \/ i = Len(answers) + 1
      BY <1>12
    <3> QED BY <1>12, <2>1, <3>1
  <2>3. refused' \in BOOLEAN
    BY <1>1 DEF Inv, TruthInv
  <2> QED BY <1>1, <1>7, <1>8, <2>1, <2>2, <2>3 DEF TruthInv, Exposed
<1>16. BlockInv'
  <2>1. remain' = remain
    BY <1>1 DEF data
  <2> QED BY <1>1, <1>2, <1>3, <1>6, <2>1, MovedBlock DEF Inv
<1>17. PlainInv'
  BY <1>1 DEF Inv, PlainInv, channel, data
<1> QED BY <1>1, <1>6, <1>14, <1>15, <1>16, <1>17, StepKept

-----------------------------------------------------------------------------
(* Functions begin and end                                                 *)

\* What is known at the beginning of a function is true of its frame.
LEMMA FrameKnown ==
  ASSUME NEW f \in Functions
  PROVE  LET x == Frame(f) IN
         /\ x \in FrameType /\ Placed(x) /\ Known(x) /\ x.f = f
         /\ ~Due(x.f, x.label, x.ip)
         /\ \A n : n = 0 => TokenAt(x, n)
<1> DEFINE x == Frame(f)
           q == [w \in Pointers |->
                   Dangling(IF w = p_response THEN Programs[f].init ELSE "uninit")]
<1>1. GoodStart(f) /\ GoodLabel(f, "start")
  BY AllGood DEF Good, GoodStart
<1>2. x = [f |-> f, label |-> "start", ip |-> 1, err |-> FALSE, ptr |-> q]
  BY DEF Frame
<1>3. /\ Programs[f].init \in {"null", "uninit"}
      /\ \A w \in Pointers : q[w] \in Values
      /\ q[p_response].state = Programs[f].init /\ q[p_response1].state = "uninit"
  BY <1>1, PointersAre, DanglingIs DEF GoodStart
<1>4. q \in [Pointers -> Values]
  <2>1. q = [w \in Pointers |-> q[w]]
    OBVIOUS
  <2> HIDE DEF q
  <2> QED BY <1>3, <2>1
<1> HIDE DEF q
<1>5. "start" \in UNION {DOMAIN Body(g) : g \in Functions}
  BY <1>1 DEF GoodStart
<1>6. x \in FrameType
  BY <1>2, <1>4, <1>5 DEF FrameType
<1>7. /\ x.f = f /\ x.label = "start" /\ x.ip = 1 /\ x.err = FALSE /\ x.ptr = q
  BY <1>2
<1> HIDE DEF x
<1>8. Placed(x)
  BY <1>1, <1>7 DEF Placed, GoodStart, GoodLabel
<1>9. Known(x)
  <2>1. Is(Mark(p_response, f, "start", 1), q[p_response], FALSE)
    BY <1>1, <1>3 DEF GoodStart, Mark, Follows, Is
  <2>2. Is(Mark(p_response1, f, "start", 1), q[p_response1], FALSE)
    BY <1>3, PointersAre DEF Mark, Second, Is
  <2> QED BY <1>7, <2>1, <2>2, PointersAre DEF Known
<1>10. ~Due(x.f, x.label, x.ip)
  BY <1>7 DEF Due
<1>11. \A n : n = 0 => TokenAt(x, n)
  BY <1>1, <1>7 DEF TokenAt, GoodStart
<1> QED BY <1>6, <1>7, <1>8, <1>9, <1>10, <1>11 DEF x

LEMMA CallFunctionStep == ASSUME Inv, CallFunction PROVE Inv'
<1> DEFINE g == instr.f
           x == Frame(g)
           y == Next1(top)
           l == Body(top.f)[top.label]
<1>1. /\ At({"call"}) /\ stack' = <<x, y>> \o Tail(stack)
      /\ UNCHANGED <<channel, request, data, history>>
  BY DEF CallFunction
<1>2. instr.op = "call" /\ StackInv /\ BottomInv /\ stack # <<>>
  BY <1>1 DEF At, Inv
<1>3. /\ top.ip \in 1 .. Len(l) /\ instr = l[top.ip]
      /\ GoodPoint(top.f, top.label, top.ip, instr) /\ Told(top.f, top.label) \in Nat
  BY <1>1, <1>2, PointIs
<1>4. GoesOn(instr) /\ instr.op \notin PtrOps /\ instr.op # "testErr"
  BY <1>2 DEF GoesOn, PtrOps
<1>5. g \in Leaves /\ top.f \notin Leaves
  BY <1>2, <1>3 DEF GoodPoint, Typed
<1>6. g \in Functions
  BY <1>5 DEF Leaves, Functions, Programs, DataCallList
<1>7. Len(stack) = 1 /\ top = stack[1] /\ top \in FrameType /\ Placed(top) /\ Known(top)
  BY <1>2, <1>5, TopIs, Waiting
<1>8. /\ x \in FrameType /\ Placed(x) /\ Known(x) /\ x.f = g
      /\ ~Due(x.f, x.label, x.ip) /\ \A n : n = 0 => TokenAt(x, n)
  BY <1>6, FrameKnown
<1>9. /\ y \in FrameType /\ y.f = top.f /\ y.label = top.label /\ y.ip = top.ip + 1
      /\ y.ptr = top.ptr /\ y.err = top.err
  BY <1>7, NextIs
<1> HIDE DEF x, y
<1>10. Placed(y)
  <2>1. Len(l) \in Nat
    BY <1>7, LabelIs DEF GoodLabel
  <2> QED BY <1>3, <1>7, <1>9, <2>1 DEF Placed
<1>11. Known(y)
  <2> SUFFICES ASSUME NEW w \in Pointers
               PROVE  Is(Mark(w, y.f, y.label, y.ip), y.ptr[w], y.err)
    BY DEF Known
  <2> DEFINE k == Mark(w, top.f, top.label, top.ip)
             n == Mark(w, top.f, top.label, top.ip + 1)
  <2>1. Falls(instr, w, k) = k
    BY <1>4 DEF Falls
  <2>2. Follows(k, n)
    BY <1>3, <1>4, <2>1 DEF GoodPoint, Passes
  <2>3. Is(k, y.ptr[w], y.err)
    BY <1>7, <1>9 DEF Known
  <2> QED BY <1>9, <2>2, <2>3, Weakened
<1>12. Waits(y, x.f)
  <2>1. y.ip > 1 /\ y.ip - 1 = top.ip
    BY <1>3, <1>9
  <2> QED BY <1>2, <1>3, <1>5, <1>8, <1>9, <2>1 DEF Waits
<1>13. /\ stack' \in Seq(FrameType) /\ Len(stack') = 2 /\ stack' # <<>>
       /\ stack'[1] = x /\ stack'[2] = y
  BY <1>1, <1>2, <1>7, <1>8, <1>9, Pushed DEF StackInv
<1>14. StackInv'
  BY <1>8, <1>10, <1>11, <1>12, <1>13 DEF StackInv, Placed, Known, Waits
<1>15. BottomInv'
  BY <1>1, <1>2, <1>7, <1>9, <1>13 DEF BottomInv, HandlerOf
<1>16. AnswersInv'
  <2>1. answers \in Seq(Results) /\ TokenAt(top, Len(answers)) /\ AnsweredOnce
    BY <1>2, <1>7 DEF Inv, AnswersInv
  <2>2. top.ip <= Told(top.f, top.label) /\ <<top.f, top.label>> \notin Blurred
    BY <1>2, <1>3 DEF GoodPoint, Counts
  <2>3. Len(answers) = 0
    BY <1>3, <2>1, <2>2 DEF TokenAt
  <2>4. TokenAt(x, Len(answers))
    BY <1>8, <2>3
  <2>5. AnsweredOnce'
    BY <1>1, <1>13, <2>1 DEF AnsweredOnce, Idle, history
  <2> QED BY <1>1, <1>13, <2>1, <2>4, <2>5 DEF AnswersInv, TokenAt, history
<1>17. TruthInv'
  <2>1. SuccessIsTrue' /\ refused' \in BOOLEAN
    BY <1>1 DEF Inv, TruthInv, SuccessIsTrue, history
  <2>2. ASSUME request \in DOMAIN Handler \ Lenient PROVE ~refused
    <3>1. Truthful(top.f, top.label, top.ip, instr)
      BY <1>2, <1>3, <2>2, Whose DEF GoodPoint
    <3>2. ~Exposed(top)
      <4>1. Len(l) \in Nat
        BY <1>7, LabelIs DEF GoodLabel
      <4> QED BY <1>2, <1>3, <3>1, <4>1 DEF Truthful, Exposed
    <3> QED BY <1>2, <1>7, <2>2, <3>2 DEF Inv, TruthInv
  <2> QED BY <1>1, <2>1, <2>2 DEF TruthInv, history
<1>18. BlockInv'
  BY <1>1, <1>8, <1>13 DEF Inv, BlockInv, Due, data
<1>19. PlainInv'
  BY <1>1 DEF Inv, PlainInv, channel, data
<1>20. CrashInv'
  BY <1>1, <1>2 DEF Inv, CrashInv, CheckedBeforeUse, ResponsesFreed, history
<1> QED BY <1>14, <1>15, <1>16, <1>17, <1>18, <1>19, <1>20 DEF Inv

\* What is known when a function ends.
LEMMA AtReturn ==
  ASSUME StackInv, stack # <<>>, AtEnd \/ At({"return"})
  PROVE  /\ top.f \in Leaky \/ \A w \in Pointers : ~Live(top.ptr[w])
         /\ top.ip > Told(top.f, top.label) <=> top.f \notin Silent
<1>1. top \in FrameType /\ Placed(top) /\ Known(top)
  BY TopIs
<1>2. GoodLabel(top.f, top.label) /\ top.ip \in Nat
  BY <1>1, LabelIs
<1>3. /\ Is(Outline[top.f][top.label][top.ip], top.ptr[p_response], top.err)
      /\ top.f # DataCallList => ~Live(top.ptr[p_response1])
  BY <1>1, PointersAre DEF Known, Mark, Second, Is, Live
<1>4. CASE AtEnd
  <2>1. top.ip = Len(Body(top.f)[top.label]) + 1
    <3>1. Len(Body(top.f)[top.label]) \in Nat
      BY <1>2 DEF GoodLabel
    <3>2. top.ip <= Len(Body(top.f)[top.label]) + 1
      BY <1>1 DEF Placed
    <3>3. top.ip > Len(Body(top.f)[top.label])
      BY <1>4 DEF AtEnd, Body
    <3> QED BY <1>2, <3>1, <3>2, <3>3
  <2>2. Outline[top.f][top.label][top.ip] # "none"
    BY <1>3 DEF Is
  <2>3. /\ top.f \in Leaky \/ Outline[top.f][top.label][top.ip] \in Empty
        /\ top.ip > Told(top.f, top.label) <=> top.f \notin Silent
    BY <1>2, <2>1, <2>2 DEF GoodLabel, GoodEnd
  <2>4. top.f \in Leaky \/ ~Live(top.ptr[p_response])
    BY <1>3, <2>3 DEF Empty, Is, Live
  <2>5. DataCallList \in Leaky
    BY DEF DataCallList, Leaky
  <2> QED BY <1>3, <2>3, <2>4, <2>5, PointersAre
<1>5. CASE At({"return"})
  <2>1. instr.op = "return" /\ GoodPoint(top.f, top.label, top.ip, instr)
    BY <1>5, PointIs DEF At
  <2>2. top.ip > Told(top.f, top.label) <=> top.f \notin Silent
    BY <2>1 DEF GoodPoint, Counts
  <2>3. ASSUME NEW w \in Pointers PROVE top.f \in Leaky \/ ~Live(top.ptr[w])
    <3>1. Passes(w, top.f, instr, Mark(w, top.f, top.label, top.ip),
                 Mark(w, top.f, top.label, top.ip + 1))
      BY <2>1 DEF GoodPoint
    <3>2. Is(Mark(w, top.f, top.label, top.ip), top.ptr[w], top.err)
      BY <1>1 DEF Known
    <3> QED BY <2>1, <3>1, <3>2 DEF Passes, Empty, Is, Live
  <2> QED BY <2>2, <2>3
<1> QED BY <1>4, <1>5

LEMMA ReturnStep == ASSUME Inv, ReturnFromFunction PROVE Inv'
<1>1. /\ stack # <<>> /\ (AtEnd \/ At({"return"})) /\ stack' = Tail(stack)
      /\ Leaks(Pointers)
      /\ UNCHANGED <<channel, request, remain, MVersion, answers, refused, crash>>
  BY DEF ReturnFromFunction
<1>2. StackInv /\ BottomInv
  BY DEF Inv
<1>3. /\ top.f \in Leaky \/ \A w \in Pointers : ~Live(top.ptr[w])
      /\ top.ip > Told(top.f, top.label) <=> top.f \notin Silent
  BY <1>1, <1>2, AtReturn
<1>4. result' \in BOOLEAN
  <2>1. CASE AtEnd
    BY <2>1 DEF ReturnFromFunction, Inv, PlainInv
  <2>2. CASE ~AtEnd
    <3>1. At({"return"})
      BY <1>1, <2>2
    <3>2. instr.bs \subseteq BOOLEAN
      BY <1>2, <3>1, PointIs DEF GoodPoint, Typed
    <3> QED BY <2>2, <3>2 DEF ReturnFromFunction
  <2> QED BY <2>1, <2>2
<1>5. PlainInv'
  BY <1>1, <1>4 DEF Inv, PlainInv, channel
<1>6. CrashInv'
  <2>1. leaked' \subseteq Leaky
    BY <1>1, <1>3 DEF Leaks, Inv, CrashInv, ResponsesFreed
  <2>2. crash = NoCrash
    BY <1>1 DEF Inv, CrashInv
  <2> QED BY <1>1, <2>1, <2>2 DEF CrashInv, CheckedBeforeUse, ResponsesFreed
<1>7. answers \in Seq(Results) /\ TokenAt(top, Len(answers)) /\ AnsweredOnce
  BY <1>1, <1>2, TopIs DEF Inv, AnswersInv
<1>8. SuccessIsTrue' /\ refused' \in BOOLEAN /\ remain' \in 0 .. MaxBlocks
  BY <1>1 DEF Inv, TruthInv, SuccessIsTrue, BlockInv
<1>9. CASE Len(stack) = 1
  <2>1. stack' = <<>> /\ top = stack[Len(stack)]
    BY <1>1, <1>2, <1>9, TopIs
  <2>2. request \in DOMAIN Handler => answers # <<>>
    <3>1. ASSUME request \in DOMAIN Handler PROVE top.f \notin Silent
      <4>1. top.f = Handler[request]
        BY <1>1, <1>2, <2>1, <3>1 DEF BottomInv, HandlerOf
      <4> QED BY <3>1, <4>1, HandlersAre
    <3>2. top.f \notin Silent => Len(answers) # 0
      BY <1>3, <1>7 DEF TokenAt
    <3>3. Len(answers) # 0 => answers # <<>>
      BY EmptySeq
    <3> QED BY <3>1, <3>2, <3>3
  <2>3. AnswersInv'
    BY <1>1, <1>7, <2>1, <2>2 DEF AnswersInv, AnsweredOnce
  <2>4. TruthInv' /\ BlockInv' /\ BottomInv'
    BY <1>1, <1>2, <1>8, <2>1 DEF TruthInv, BlockInv, BottomInv
  <2>5. StackInv'
    BY <2>1 DEF StackInv
  <2> QED BY <1>5, <1>6, <2>3, <2>4, <2>5 DEF Inv
<1>10. CASE Len(stack) = 2
  <2> DEFINE y == stack[2]
  <2>1. stack' = <<y>> /\ y \in FrameType
    BY <1>1, <1>2, <1>10, TopIs
  <2>2. Placed(y) /\ Known(y)
    <3>1. 2 \in 1 .. Len(stack)
      BY <1>10
    <3> QED BY <1>2, <3>1 DEF StackInv
  <2>3. /\ y.f \notin Leaves /\ (y.f \in Strict => Exposed(y)) /\ top.f \in Leaves
        /\ <<y.f, y.label>> \notin Blurred
        /\ y.ip > Told(y.f, y.label) <=> top.f \notin Silent
    BY <1>2, <1>10, Waiting
  <2>4. request # "none" /\ y.f = HandlerOf(request)
    BY <1>1, <1>2, <1>10 DEF BottomInv
  <2> HIDE DEF y
  <2>5. /\ stack' \in Seq(FrameType) /\ Len(stack') = 1 /\ stack' # <<>> /\ stack'[1] = y
    BY <2>1
  <2>6. StackInv'
    BY <2>2, <2>5 DEF StackInv, Placed, Known
  <2>7. BottomInv'
    BY <1>1, <1>2, <2>4, <2>5 DEF BottomInv, HandlerOf
  <2>8. AnswersInv'
    <3>1. <<top.f, top.label>> \notin Blurred
      BY <2>3, BlurredAre
    <3>2. TokenAt(y, Len(answers))
      BY <1>3, <1>7, <2>3, <3>1 DEF TokenAt
    <3> QED BY <1>1, <1>7, <2>5, <3>2 DEF AnswersInv, AnsweredOnce, Idle, TokenAt
  <2>9. TruthInv'
    <3>1. request \in DOMAIN Handler \ Lenient => Exposed(y)
      BY <2>3, <2>4, HandlersAre DEF HandlerOf
    <3> QED BY <1>1, <1>8, <2>5, <3>1 DEF TruthInv, Exposed
  <2>10. BlockInv'
    BY <1>8, <2>3, <2>5 DEF BlockInv, Due, Leaves
  <2> QED BY <1>5, <1>6, <2>6, <2>7, <2>8, <2>9, <2>10 DEF Inv
<1> QED BY <1>1, <1>2, <1>9, <1>10, TopIs

-----------------------------------------------------------------------------
(* The request thread between two requests, and the other threads          *)

LEMMA Started ==
  ASSUME Inv, Idle, NEW f \in Functions, stack' = <<Frame(f)>>,
         request' \in DOMAIN Handler \cup {"INITIALIZE"}, f = HandlerOf(request'),
         answers' = <<>>, refused' = FALSE, leaked' = {}, UNCHANGED <<data, crash>>,
         PlainInv'
  PROVE  Inv'
<1> DEFINE x == Frame(f)
<1>1. /\ x \in FrameType /\ Placed(x) /\ Known(x) /\ x.f = f
      /\ ~Due(x.f, x.label, x.ip) /\ TokenAt(x, 0)
  BY FrameKnown
<1>2. stack' = <<x>>
  OBVIOUS
<1> HIDE DEF x
<1>3. stack' \in Seq(FrameType) /\ Len(stack') = 1 /\ stack' # <<>> /\ stack'[1] = x
  BY <1>1, <1>2
<1>4. StackInv'
  BY <1>1, <1>3 DEF StackInv, Placed, Known
<1>5. BottomInv'
  BY <1>1, <1>3, HandlersAre DEF BottomInv, HandlerOf
<1>6. AnswersInv'
  <2>1. answers' \in Seq(Results) /\ Len(answers') = 0
    OBVIOUS
  <2> QED BY <1>1, <1>3, <2>1 DEF AnswersInv, AnsweredOnce, Idle, TokenAt
<1>7. TruthInv' /\ BlockInv'
  BY <1>1, <1>3 DEF TruthInv, SuccessIsTrue, Inv, BlockInv, Due, data
<1>8. CrashInv'
  BY DEF Idle, Inv, CrashInv, CheckedBeforeUse, ResponsesFreed
<1> QED BY <1>4, <1>5, <1>6, <1>7, <1>8 DEF Inv

LEMMA OnRequestStep == ASSUME Inv, OnRequest PROVE Inv'
<1>1. /\ Idle /\ refused' = FALSE /\ leaked' = {} /\ UNCHANGED <<channel, data, crash>>
  BY DEF OnRequest
<1>2. PICK r \in DOMAIN Handler :
        /\ request' = r
        /\ IF Admitted(r)
           THEN stack' = <<Frame(Handler[r])>> /\ answers' = <<>>
           ELSE stack' = <<>> /\ answers' = <<"RADIO_NOT_AVAILABLE">>
  BY DEF OnRequest
<1>3. PlainInv'
  BY <1>1 DEF Inv, PlainInv, channel, data
<1>4. CASE Admitted(r)
  <2>1. Handler[r] \in Functions /\ Handler[r] = HandlerOf(request')
    BY <1>2, HandlersAre DEF HandlerOf
  <2> QED BY <1>1, <1>2, <1>3, <1>4, <2>1, Started
<1>5. CASE ~Admitted(r)
  <2>1. stack' = <<>> /\ answers' = <<"RADIO_NOT_AVAILABLE">> /\ request' = r
    BY <1>2, <1>5
  <2>2. answers' \in Seq(Results) /\ Len(answers') = 1 /\ answers' # <<>>
    BY <2>1 DEF Results
  <2>3. request' # "INITIALIZE"
    BY <2>1, HandlersAre
  <2>4. AnswersInv'
    <3>1. AnsweredOnce'
      BY <2>2, <2>3 DEF AnsweredOnce
    <3> QED BY <2>1, <2>2, <3>1 DEF AnswersInv
  <2>5. TruthInv' /\ BottomInv'
    BY <1>1, <2>1 DEF TruthInv, SuccessIsTrue, BottomInv
  <2>6. StackInv' /\ BlockInv'
    BY <1>1, <2>1 DEF StackInv, Inv, BlockInv, data
  <2>7. CrashInv'
    BY <1>1, <2>1 DEF Idle, Inv, CrashInv, CheckedBeforeUse, ResponsesFreed
  <2> QED BY <1>3, <2>4, <2>5, <2>6, <2>7 DEF Inv
<1> QED BY <1>4, <1>5

LEMMA InitializeCallbackStep == ASSUME Inv, InitializeCallback PROVE Inv'
<1>1. /\ Idle /\ initDue' = FALSE
      /\ request' = "INITIALIZE" /\ stack' = <<Frame("initializeCallback")>>
      /\ answers' = <<>> /\ refused' = FALSE /\ leaked' = {}
      /\ UNCHANGED <<sState, s_readerClosed, data, crash>>
  BY DEF InitializeCallback
<1>2. PlainInv'
  BY <1>1 DEF Inv, PlainInv, data
<1>3. "initializeCallback" \in Functions
  BY DEF Functions, Programs
<1>4. "initializeCallback" = HandlerOf(request')
  BY <1>1, HandlersAre DEF HandlerOf
<1> QED BY <1>1, <1>2, <1>3, <1>4, Started

\* What the other threads change is not what the handlers rely on.
LEMMA OthersKept ==
  ASSUME Inv, PlainInv', UNCHANGED <<request, stack, remain, history>>
  PROVE  Inv'
<1> USE DEF Inv, history
<1>1. StackInv' /\ BottomInv' /\ BlockInv'
  BY DEF StackInv, Placed, Known, Waits, BottomInv, BlockInv, Due
<1>2. AnswersInv'
  BY DEF AnswersInv, AnsweredOnce, Idle, TokenAt
<1>3. TruthInv' /\ CrashInv'
  BY DEF TruthInv, SuccessIsTrue, Exposed, CrashInv, CheckedBeforeUse, ResponsesFreed
<1> QED BY <1>1, <1>2, <1>3

\* A process that begins
LEMMA BeginsWell == Init => Inv
<1> SUFFICES ASSUME Init PROVE Inv
  OBVIOUS
<1>1. PlainInv
  BY DEF Init, PlainInv
<1>2. stack = <<>> /\ answers = <<>> /\ refused = FALSE /\ crash = NoCrash
      /\ leaked = {} /\ request = "none" /\ remain = 0
  BY DEF Init
<1>3. StackInv
  BY <1>2 DEF StackInv
<1>4. BottomInv
  BY <1>2 DEF BottomInv
<1>5. AnswersInv
  <2>1. request \notin DOMAIN Handler
    BY <1>2, HandlersAre
  <2>2. answers \in Seq(Results) /\ Len(answers) = 0
    BY <1>2
  <2> QED BY <1>2, <2>1, <2>2 DEF AnswersInv, AnsweredOnce
<1>6. TruthInv
  BY <1>2 DEF TruthInv, SuccessIsTrue
<1>7. BlockInv
  BY <1>2, BoundsAssumption DEF BlockInv
<1>8. CrashInv
  BY <1>2 DEF CrashInv, CheckedBeforeUse, ResponsesFreed
<1> QED BY <1>1, <1>3, <1>4, <1>5, <1>6, <1>7, <1>8 DEF Inv

LEMMA StepKeeps == ASSUME Inv, Step PROVE Inv'
<1>1. CASE SendOnly          BY <1>1, SendOnlyStep
<1>2. CASE Answered          BY <1>2, AnsweredStep
<1>3. CASE NotWritten        BY <1>3, NotWrittenStep
<1>4. CASE LostWhileWaiting  BY <1>4, LostWhileWaitingStep
<1>5. CASE IllegalUse        BY <1>5, IllegalUseStep
<1>6. CASE Examine           BY <1>6, ExamineStep
<1>7. CASE Parse             BY <1>7, ParseStep
<1>8. CASE FreeResponse      BY <1>8, FreeResponseStep
<1>9. CASE AssignNull        BY <1>9, AssignNullStep
<1>10. CASE Complete         BY <1>10, CompleteStep
<1>11. CASE Branch           BY <1>11, BranchStep
<1>12. CASE CallFunction     BY <1>12, CallFunctionStep
<1>13. CASE ReturnFromFunction BY <1>13, ReturnStep
<1>14. CASE SetState         BY <1>14, SetStateStep
<1>15. CASE CopyText         BY <1>15, CopyTextStep
<1>16. CASE FindText         BY <1>16, FindTextStep
<1>17. CASE Blocks           BY <1>17, BlocksStep
<1> QED BY <1>1, <1>2, <1>3, <1>4, <1>5, <1>6, <1>7, <1>8, <1>9, <1>10, <1>11, <1>12,
           <1>13, <1>14, <1>15, <1>16, <1>17 DEF Step

LEMMA InvInductive == Inv /\ [Next]_vars => Inv'
<1> SUFFICES ASSUME Inv, [Next]_vars PROVE Inv'
  OBVIOUS
<1>1. CASE OnRequest
  BY <1>1, OnRequestStep
<1>2. CASE InitializeCallback
  BY <1>2, InitializeCallbackStep
<1>3. CASE Step
  BY <1>3, StepKeeps
<1>4. CASE LoseChannel
  <2>1. PlainInv'
    BY <1>4 DEF LoseChannel, Inv, PlainInv, data
  <2> QED BY <1>4, <2>1, OthersKept DEF LoseChannel, data
<1>5. CASE OnReaderClosed
  <2>1. PlainInv'
    BY <1>5 DEF OnReaderClosed, Inv, PlainInv, data
  <2> QED BY <1>5, <2>1, OthersKept DEF OnReaderClosed, data
<1>6. CASE Reopen
  <2>1. PlainInv'
    BY <1>6 DEF Reopen, Inv, PlainInv, data
  <2> QED BY <1>6, <2>1, OthersKept DEF Reopen, data
<1>7. CASE Restart
  <2>1. Init'
    BY <1>7 DEF Restart, Init
  <2>2. Init' => Inv'
    BY BeginsWell, PTL
  <2> QED BY <2>1, <2>2
<1>8. CASE UNCHANGED vars
  <2>1. PlainInv'
    BY <1>8 DEF vars, channel, data, Inv, PlainInv
  <2> QED BY <1>8, <2>1, OthersKept DEF vars, data
<1> QED BY <1>1, <1>2, <1>3, <1>4, <1>5, <1>6, <1>7, <1>8 DEF Next

THEOREM InvHolds == Spec => []Inv
  BY BeginsWell, InvInductive, PTL DEF Spec

\* Every variable has its type, at most two functions are being executed, each of
\* them at a point of its program, and requestReadBinary never counts its blocks
\* below zero, for any number of lines and of blocks.
THEOREM TypeCorrect == Spec => []TypeOK
<1>1. Inv => TypeOK
  <2> SUFFICES ASSUME Inv PROVE TypeOK
    OBVIOUS
  <2>1. stack \in Seq(FrameType) /\ Len(stack) <= 2 /\ Len(stack) \in Nat
    BY DEF Inv, StackInv
  <2>2. ASSUME NEW i \in DOMAIN stack
        PROVE  /\ stack[i].f \in Functions
               /\ stack[i].label \in DOMAIN Programs[stack[i].f].body
               /\ stack[i].ip \in 1 .. Len(Programs[stack[i].f].body[stack[i].label]) + 1
               /\ stack[i].err \in BOOLEAN
               /\ stack[i].ptr \in [Pointers -> Values]
    <3> DEFINE x == stack[i]
    <3>1. i \in 1 .. Len(stack)
      BY <2>1
    <3>2. x \in FrameType /\ Placed(x)
      BY <2>1, <3>1 DEF Inv, StackInv
    <3> HIDE DEF x
    <3>3. GoodLabel(x.f, x.label) /\ x.ip \in Nat \ {0}
      BY <3>2, LabelIs
    <3>4. x.ip \in 1 .. Len(Body(x.f)[x.label]) + 1
      BY <3>2, <3>3 DEF Placed, GoodLabel
    <3> QED BY <3>2, <3>4, FrameIs DEF x, Placed, Body
  <2>3. \A i \in DOMAIN answers : answers[i] \in Results
    BY DEF Inv, AnswersInv
  <2>4. leaked \subseteq Functions
    <3>1. Leaky \subseteq Functions
      BY DEF Leaky, Functions, Programs
    <3> QED BY <3>1 DEF Inv, CrashInv, ResponsesFreed
  <2> QED BY <2>1, <2>2, <2>3, <2>4
          DEF TypeOK, Inv, PlainInv, BottomInv, TruthInv, BlockInv, CrashInv
<1> QED BY <1>1, InvHolds, PTL

\* However its commands end, a request's token is completed exactly once by the time
\* its handler has returned, and never for initializeCallback.
THEOREM AnsweredExactlyOnce == Spec => []AnsweredOnce
<1>1. Inv => AnsweredOnce
  BY DEF Inv, AnswersInv
<1> QED BY <1>1, InvHolds, PTL

\* The only illegal uses of a response are those the code is known to make.
THEOREM UsesChecked == Spec => []CheckedBeforeUse
<1>1. Inv => CheckedBeforeUse
  BY DEF Inv, CrashInv
<1> QED BY <1>1, InvHolds, PTL

\* The only functions that lose a response are those known to.
THEOREM ResponsesAlwaysFreed == Spec => []ResponsesFreed
<1>1. Inv => ResponsesFreed
  BY DEF Inv, CrashInv
<1> QED BY <1>1, InvHolds, PTL

\* A request that is not lenient and is answered with success has had success with
\* every command whose response it asked for.
THEOREM SuccessAlwaysTrue == Spec => []SuccessIsTrue
<1>1. Inv => SuccessIsTrue
  BY DEF Inv, TruthInv
<1> QED BY <1>1, InvHolds, PTL
==============================================================================
