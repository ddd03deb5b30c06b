--------------------------- MODULE ATChannelProofs ---------------------------
(***************************************************************************)
(* What holds of ATChannel for every set of calls and every bound; and,    *)
(* with one command thread and one open, that no answer is lost and that   *)
(* the channel is a CommandService.                                        *)
(***************************************************************************)
EXTENDS ATChannel, TLAPS

\* reverseIntermediates keeps lines lines.
LEMMA ReverseType == ASSUME NEW S, NEW s \in Seq(S)
                     PROVE Reverse(s) \in Seq(S)
  BY DEF Reverse

LEMMA EmptyDevice ==
  /\ <<>> \in Seq(CommandType) /\ <<>> \in Seq(LineType)
  /\ ModemReady \in [info : Nat, prompt : {"no", "sent", "done"}]
  BY DEF ModemReady

LEMMA HandshakeType == Handshake0 \in CallType
  BY BoundsAssumption DEF Handshake0, CallType, Types, PrefixKinds

\* What Return does to the state preserves its type, whatever the outcome.
LEMMA ReturnType ==
  ASSUME TypeOK, NEW t \in Threads, NEW err \in Errs, NEW n \in Nat,
         NEW final \in LineType \cup {NoLine}, NEW inter \in Seq(LineType),
         Return(t, err, n, final, inter)
  PROVE  ThreadsOK'
<1> USE DEF Return
<1>0. /\ pc \in [Threads -> Places]
      /\ call \in [Threads -> CallType]
      /\ tries \in [Threads -> 0 .. HandshakeRetries - 1]
      /\ ret \in [Threads -> RetType]
  BY DEF TypeOK, ThreadsOK
<1>1. ret' \in [Threads -> RetType] /\ call' \in [Threads -> CallType]
  BY <1>0 DEF RetType
<1>2. pc' \in [Threads -> Places] /\ mutex' \in Threads \cup {NoThread}
  BY <1>0 DEF Places
<1>3. tries' \in [Threads -> 0 .. HandshakeRetries - 1]
  BY <1>0, BoundsAssumption
<1> QED BY <1>1, <1>2, <1>3 DEF ThreadsOK

LEMMA AbortType ==
  ASSUME TypeOK, NEW t \in Threads, NEW err \in Errs, Abort(t, err)
  PROVE  ThreadsOK' /\ SharedOK'
<1>1. Return(t, err, 0, NoLine, <<>>) /\ <<>> \in Seq(LineType)
  BY DEF Abort
<1>2. SharedOK'
  BY DEF Abort, ClearPendingCommand, SharedOK
<1> QED BY <1>1, <1>2, ReturnType

\* pthread_cond_signal changes nothing but where a waiting thread is.
LEMMA SignalType == ASSUME TypeOK, Signal PROVE pc' \in [Threads -> Places]
  BY DEF TypeOK, ThreadsOK, Signal, Places

-----------------------------------------------------------------------------
(* Each step keeps TypeOK *)

\* A part of the state that a step leaves alone keeps its type.
LEMMA Frames ==
  ASSUME TypeOK
  PROVE  /\ UNCHANGED shared => SharedOK'
         /\ UNCHANGED closing => ClosingOK'
         /\ UNCHANGED device => DeviceOK'
         /\ UNCHANGED <<mutex, thread, ret>> => ThreadsOK'
         /\ UNCHANGED <<sent, calls, urcs, slips>> => CountersOK'
BY DEF TypeOK, ThreadsOK, SharedOK, ClosingOK, DeviceOK, CountersOK,
       shared, closing, device, thread

LEMMA FreshResponse ==
  ASSUME TypeOK, NEW t \in Threads
  PROVE  [n |-> sent + 1, c |-> call[t], final |-> NoLine, inter |-> <<>>] \in Response
<1>1. call[t] \in CallType /\ sent + 1 \in Nat /\ <<>> \in Seq(LineType)
  BY DEF TypeOK, ThreadsOK, CountersOK
<1> QED BY <1>1 DEF Response

LEMMA ThreadTypes ==
  ASSUME TypeOK, NEW t \in Threads,
         Call(t) \/ Handshake(t) \/ ThreadStep(t) \/ SpuriousWake(t) \/ Timeout(t)
  PROVE  TypeOK'
<1> USE Frames
<1>1. CASE Call(t)
  <2>1. ThreadsOK'
    BY <1>1, CallsAssumption DEF Call, TypeOK, ThreadsOK, Places, NoRet, RetType, Errs
  <2>2. CountersOK'
    BY <1>1 DEF Call, TypeOK, CountersOK
  <2> QED BY <1>1, <2>1, <2>2 DEF Call, TypeOK
<1>2. CASE Handshake(t)
  <2>1. ThreadsOK'
    BY <1>2, HandshakeType, BoundsAssumption
    DEF Handshake, TypeOK, ThreadsOK, Places, NoRet, RetType, Errs
  <2>2. ClosingOK'
    BY <1>2 DEF Handshake, TypeOK, ClosingOK
  <2> QED BY <1>2, <2>1, <2>2 DEF Handshake, TypeOK
<1>3. CASE Begin(t)
  <2>1. CASE sp_response # NoResp
    <3>1. "PENDING" \in Errs
      BY DEF Errs
    <3> QED BY <1>3, <2>1, <3>1, AbortType DEF Begin, TypeOK
  <2>2. CASE sp_response = NoResp
    <3>0. call[t] \in CallType
      BY DEF TypeOK, ThreadsOK
    <3>a. sp_response' \in Response
      BY <1>3, <2>2, FreshResponse DEF Begin
    <3>b. s_smsPDU' \in BOOLEAN
      BY <1>3, <2>2, <3>0 DEF Begin, CallType
    <3>1. SharedOK'
      BY <3>a, <3>b DEF SharedOK
    <3>2. ThreadsOK'
      BY <1>3, <2>2 DEF Begin, TypeOK, ThreadsOK, Places
    <3> QED BY <1>3, <3>1, <3>2 DEF Begin, TypeOK
  <2> QED BY <2>1, <2>2
<1>4. CASE Write(t)
  <2>0. ClosingOK'
    BY <1>4 DEF Write
  <2>1. CASE s_readerClosed \/ eof
    <3>1. (IF s_readerClosed THEN "CLOSED" ELSE "GENERIC") \in Errs
      BY DEF Errs
    <3>2. UNCHANGED device /\ UNCHANGED <<sent, calls, urcs, slips>>
      BY <1>4, <2>1 DEF Write, device
    <3> QED BY <1>4, <2>0, <2>1, <3>1, <3>2, AbortType DEF Write, TypeOK
  <2>2. CASE ~(s_readerClosed \/ eof)
    <3>1. [n |-> sent + 1, p |-> call[t].prefix, sms |-> call[t].sms] \in CommandType
      BY DEF TypeOK, ThreadsOK, CountersOK, CallType, CommandType
    <3> DEFINE cmd == [n |-> sent + 1, p |-> call[t].prefix, sms |-> call[t].sms]
    <3>a. /\ toModem' = Append(toModem, cmd) /\ sent' = sent + 1
          /\ pc' = [pc EXCEPT ![t] = "check"] /\ UNCHANGED <<mutex, call, tries, ret>>
          /\ UNCHANGED <<modem, input, eof, calls, urcs, slips>> /\ UNCHANGED shared
      BY <1>4, <2>2 DEF Write
    <3> HIDE DEF cmd
    <3>2. DeviceOK'
      BY <3>1, <3>a DEF cmd, TypeOK, DeviceOK
    <3>3. CountersOK'
      BY <3>a DEF TypeOK, CountersOK
    <3>4. ThreadsOK'
      BY <3>a DEF TypeOK, ThreadsOK, Places
    <3> QED BY <2>0, <3>a, <3>2, <3>3, <3>4 DEF TypeOK
  <2> QED BY <2>1, <2>2
<1>5. CASE Check(t)
  <2>0. ClosingOK' /\ DeviceOK' /\ CountersOK'
    BY <1>5 DEF Check
  <2>1. CASE sp_response = NoResp \/ (sp_response.final = NoLine /\ ~s_readerClosed)
    <3>1. ThreadsOK'
      BY <1>5, <2>1 DEF Check, TypeOK, ThreadsOK, Places
    <3> QED BY <1>5, <2>0, <2>1, <3>1 DEF Check, TypeOK
  <2>2. CASE sp_response # NoResp /\ ~(sp_response.final = NoLine /\ ~s_readerClosed)
    <3> DEFINE inter == IF call[t].out THEN Reverse(sp_response.inter)
                                       ELSE sp_response.inter
    <3>1. /\ sp_response.n \in Nat /\ sp_response.final \in LineType \cup {NoLine}
          /\ sp_response.inter \in Seq(LineType)
      BY <2>2 DEF TypeOK, SharedOK, Response
    <3>2. inter \in Seq(LineType)
      BY <3>1, ReverseType
    <3>3. Outcome(t, sp_response) \in Errs
      BY DEF Outcome, Errs
    <3>4. Return(t, Outcome(t, sp_response), sp_response.n, sp_response.final, inter)
      BY <1>5, <2>2 DEF Check
    <3>5. SharedOK'
      BY <1>5, <2>2 DEF Check, ClearPendingCommand, SharedOK
    <3> HIDE DEF inter
    <3> QED BY <2>0, <3>1, <3>2, <3>3, <3>4, <3>5, ReturnType DEF TypeOK
  <2> QED BY <2>1, <2>2
<1>6. CASE Resume(t) \/ SpuriousWake(t) \/ Timeout(t) \/ DrainEnd(t)
  <2>1. ThreadsOK'
    BY <1>6 DEF Resume, SpuriousWake, Timeout, DrainEnd, TypeOK, ThreadsOK, Places
  <2> QED BY <1>6, <2>1 DEF Resume, SpuriousWake, Timeout, DrainEnd, TypeOK
<1>7. CASE Expire(t)
  <2>1. "TIMEOUT" \in Errs
    BY DEF Errs
  <2>2. CountersOK'
    BY <1>7 DEF Expire, TypeOK, CountersOK
  <2> QED BY <1>7, <2>1, <2>2, AbortType DEF Expire, TypeOK
<1> QED BY <1>1, <1>2, <1>3, <1>4, <1>5, <1>6, <1>7 DEF ThreadStep

\* Only what TakeLine names is read off the input.
LEMMA TakeLineType ==
  ASSUME TypeOK, NEW d, TakeLine(d)
  PROVE  input' \in Seq(LineType) /\ Head(input) \in LineType
  BY DEF TypeOK, DeviceOK, TakeLine

\* A line recorded in the pending response leaves a response.
LEMMA Recorded ==
  ASSUME TypeOK, ReadFinal \/ ReadIntermediate
  PROVE  /\ sp_response # NoResp
         /\ sp_response \in Response /\ sp_response' \in Response
         /\ sp_response'.n = sp_response.n
         /\ ReadFinal => /\ sp_response'.final = Head(input)
                         /\ sp_response'.inter = sp_response.inter
         /\ ReadIntermediate => /\ sp_response'.final = sp_response.final
                                /\ sp_response'.inter = <<Head(input)>> \o sp_response.inter
<1>1. sp_response # NoResp /\ sp_response \in Response /\ Head(input) \in LineType
  BY TakeLineType DEF ReadFinal, ReadIntermediate, TakeLine, Disposition, TypeOK, SharedOK
<1>2. CASE ReadFinal
  <2>1. sp_response' = [sp_response EXCEPT !.final = Head(input)]
    BY <1>2 DEF ReadFinal
  <2>2. Disposition(Head(input)) = "final"
    BY <1>2 DEF ReadFinal, TakeLine
  <2>3. ~ReadIntermediate
    BY <2>2 DEF ReadIntermediate, TakeLine
  <2> QED BY <1>1, <2>1, <2>3 DEF Response
<1>3. CASE ReadIntermediate
  <2>1. sp_response' = [sp_response EXCEPT !.inter = <<Head(input)>> \o sp_response.inter]
    BY <1>3 DEF ReadIntermediate
  <2>2. Disposition(Head(input)) = "intermediate"
    BY <1>3 DEF ReadIntermediate, TakeLine
  <2>3. ~ReadFinal
    BY <2>2 DEF ReadFinal, TakeLine
  <2>4. <<Head(input)>> \o sp_response.inter \in Seq(LineType)
    BY <1>1 DEF Response
  <2> QED BY <1>1, <2>1, <2>3, <2>4 DEF Response
<1> QED BY <1>2, <1>3

LEMMA ReaderTypes == ASSUME TypeOK, ReaderStep \/ MainStep PROVE TypeOK'
<1> USE Frames
<1>1. CASE ReadUnsolicited
  <2>1. DeviceOK'
    BY <1>1, TakeLineType DEF ReadUnsolicited, TypeOK, DeviceOK
  <2> QED BY <1>1, <2>1 DEF ReadUnsolicited, TypeOK
<1>2. CASE ReadFinal
  <2>1. DeviceOK' /\ Head(input) \in LineType
    BY <1>2, TakeLineType DEF ReadFinal, TypeOK, DeviceOK
  <2>3. SharedOK'
    BY <1>2, Recorded DEF ReadFinal, TypeOK, SharedOK
  <2>4. CountersOK'
    BY <1>2 DEF ReadFinal, TypeOK, CountersOK
  <2>5. ThreadsOK'
    BY <1>2, SignalType DEF ReadFinal, TypeOK, ThreadsOK
  <2> QED BY <1>2, <2>1, <2>3, <2>4, <2>5 DEF ReadFinal, TypeOK
<1>3. CASE ReadPrompt
  <2>1. DeviceOK'
    BY <1>3, TakeLineType DEF ReadPrompt, TypeOK, DeviceOK
  <2>2. SharedOK'
    BY <1>3 DEF ReadPrompt, TypeOK, SharedOK
  <2> QED BY <1>3, <2>1, <2>2 DEF ReadPrompt, TypeOK
<1>4. CASE ReadIntermediate
  <2>1. DeviceOK' /\ Head(input) \in LineType
    BY <1>4, TakeLineType DEF ReadIntermediate, TypeOK, DeviceOK
  <2>4. SharedOK'
    BY <1>4, Recorded DEF ReadIntermediate, TypeOK, SharedOK
  <2> QED BY <1>4, <2>1, <2>4 DEF ReadIntermediate, TypeOK
<1>5. CASE ReadSms \/ ReadPdu
  <2>0. input' = Tail(input) /\ input # <<>> /\ UNCHANGED <<toModem, modem, eof>>
    BY <1>5 DEF ReadSms, ReadPdu
  <2>1. DeviceOK'
    BY <2>0 DEF TypeOK, DeviceOK
  <2>2. ClosingOK'
    BY <1>5 DEF ReadSms, ReadPdu, TypeOK, ClosingOK
  <2> QED BY <1>5, <2>1, <2>2 DEF ReadSms, ReadPdu, TypeOK
<1>6. CASE ReadEof \/ SetClosed
  <2>1. ClosingOK'
    BY <1>6 DEF ReadEof, SetClosed, TypeOK, ClosingOK
  <2> QED BY <1>6, <2>1 DEF ReadEof, SetClosed, TypeOK
<1>7. CASE OnReaderClosed \/ AtClose
  <2>1. ClosingOK'
    BY <1>7 DEF OnReaderClosed, AtClose, TypeOK, ClosingOK
  <2>2. ThreadsOK'
    BY <1>7, SignalType DEF OnReaderClosed, AtClose, TypeOK, ThreadsOK
  <2> QED BY <1>7, <2>1, <2>2 DEF OnReaderClosed, AtClose, TypeOK
<1>8. CASE AtOpen
  <2>0. /\ s_closed' = FALSE /\ s_readerClosed' = FALSE /\ opening' = TRUE
        /\ session' = session + 1 /\ UNCHANGED <<reader, initQueued>>
        /\ toModem' = <<>> /\ modem' = ModemReady /\ input' = <<>> /\ eof' = FALSE
    BY <1>8 DEF AtOpen
  <2>1. ClosingOK'
    <3>1. session' \in Nat
      BY <2>0 DEF TypeOK, ClosingOK
    <3>2. reader' = reader /\ initQueued' = initQueued
      BY <2>0
    <3> QED BY <2>0, <3>1, <3>2 DEF TypeOK, ClosingOK
  <2>2. DeviceOK'
    BY <2>0, EmptyDevice DEF DeviceOK
  <2> QED BY <1>8, <2>1, <2>2 DEF AtOpen, TypeOK
<1>9. CASE AtOpened
  <2>1. ClosingOK' /\ SharedOK'
    BY <1>9 DEF AtOpened, TypeOK, ClosingOK, SharedOK
  <2> QED BY <1>9, <2>1 DEF AtOpened, TypeOK
<1> QED BY <1>1, <1>2, <1>3, <1>4, <1>5, <1>6, <1>7, <1>8, <1>9
        DEF ReaderStep, MainStep

LEMMA ModemTypes ==
  ASSUME TypeOK, ModemAnswer \/ ModemUrc \/ ModemDrop \/ Unplug PROVE TypeOK'
<1> USE Frames
<1>0. ASSUME NEW k \in Kinds, NEW n \in Nat, NEW i \in Nat, NEW p \in PrefixKinds
      PROVE  [k |-> k, n |-> n, i |-> i, p |-> p] \in LineType
  BY DEF LineType
<1>1. ASSUME NEW k \in Kinds, NEW n \in Nat, NEW i \in Nat, NEW p \in PrefixKinds,
             Says(k, n, i, p)
      PROVE  input' \in Seq(LineType)
  BY <1>0, <1>1 DEF Says, TypeOK, DeviceOK
<1>a. modem.info \in Nat /\ modem.info + 1 \in Nat
  BY DEF TypeOK, DeviceOK
<1>b. Working => Head(toModem) \in CommandType
  BY DEF Working, TypeOK, DeviceOK
<1>2. Working => Head(toModem).n \in Nat /\ Head(toModem).p \in PrefixKinds
  BY <1>b DEF CommandType
<1>3. \A k \in {"ok", "error", "prompt", "info", "urc", "cmt", "nocarrier"} : k \in Kinds
  BY DEF Kinds
<1>4. "none" \in PrefixKinds /\ "P" \in PrefixKinds
  BY DEF PrefixKinds
<1>6. CASE ModemInfo
  <2>1. input' \in Seq(LineType)
    BY <1>6, <1>1, <1>2, <1>3, <1>a DEF ModemInfo
  <2>2. DeviceOK'
    BY <1>6, <2>1 DEF ModemInfo, TypeOK, DeviceOK
  <2> QED BY <1>6, <2>2 DEF ModemInfo, ModemFrame, TypeOK
<1>7. CASE ModemPrompt
  <2>1. input' \in Seq(LineType)
    BY <1>7, <1>1, <1>2, <1>3, <1>4 DEF ModemPrompt
  <2>2. DeviceOK'
    BY <1>7, <2>1 DEF ModemPrompt, TypeOK, DeviceOK
  <2> QED BY <1>7, <2>2 DEF ModemPrompt, ModemFrame, TypeOK
<1>8. CASE ModemFinal
  <2>1. input' \in Seq(LineType)
    BY <1>8, <1>1, <1>2, <1>3, <1>4, <1>a DEF ModemFinal
  <2>2. DeviceOK'
    BY <1>8, EmptyDevice, <2>1 DEF ModemFinal, Working, TypeOK, DeviceOK
  <2> QED BY <1>8, <2>2 DEF ModemFinal, ModemFrame, TypeOK
<1>9. CASE ModemUrc
  <2>1. input' \in Seq(LineType)
    <3>1. PICK k \in UrcKinds :
             \/ \E p \in {"none", "P"} : Says(k, 0, 0, p)
             \/ input' = input \o <<[k |-> "cmt", n |-> 0, i |-> 0, p |-> "none"],
                                    [k |-> "urc", n |-> 0, i |-> 0, p |-> "none"]>>
      BY <1>9 DEF ModemUrc
    <3>2. CASE \E p \in {"none", "P"} : Says(k, 0, 0, p)
      BY <3>2, <1>1, <1>3, <1>4, BoundsAssumption
    <3>3. CASE input' = input \o <<[k |-> "cmt", n |-> 0, i |-> 0, p |-> "none"],
                                   [k |-> "urc", n |-> 0, i |-> 0, p |-> "none"]>>
      BY <3>3, <1>0, <1>3, <1>4 DEF TypeOK, DeviceOK
    <3> QED BY <3>1, <3>2, <3>3
  <2>2. DeviceOK' /\ CountersOK'
    BY <1>9, <2>1 DEF ModemUrc, ModemFrame, TypeOK, DeviceOK, CountersOK
  <2> QED BY <1>9, <2>2 DEF ModemUrc, ModemFrame, TypeOK
<1>10. CASE ModemDrop
  <2>1. DeviceOK'
    BY <1>10, EmptyDevice DEF ModemDrop, Working, TypeOK, DeviceOK
  <2> QED BY <1>10, <2>1 DEF ModemDrop, ModemFrame, TypeOK
<1>11. CASE Unplug
  <2>0. /\ toModem' = <<>> /\ modem' = ModemReady /\ eof' = TRUE
        /\ input' = input \/ input' = <<>>
    BY <1>11 DEF Unplug
  <2>1. DeviceOK'
    BY <2>0, EmptyDevice DEF TypeOK, DeviceOK
  <2> QED BY <1>11, <2>1 DEF Unplug, ModemFrame, TypeOK
<1> QED BY <1>6, <1>7, <1>8, <1>9, <1>10, <1>11 DEF ModemAnswer

LEMMA TypeStep == ASSUME TypeOK, [Next]_vars PROVE TypeOK'
<1>1. CASE UNCHANGED vars
  BY <1>1, Frames DEF vars, thread, TypeOK
<1> QED BY <1>1, ThreadTypes, ReaderTypes, ModemTypes DEF Next, Quiet

\* Every variable keeps its type, for every instance.
THEOREM TypeCorrect == Spec => []TypeOK
<1>1. Init => TypeOK
  <2> SUFFICES ASSUME Init PROVE TypeOK
    OBVIOUS
  <2>1. NoRet \in RetType
    BY DEF NoRet, RetType, Errs
  <2>2. ThreadsOK
    BY <2>1, HandshakeType, BoundsAssumption DEF Init, ThreadsOK, Places
  <2>3. SharedOK /\ ClosingOK /\ CountersOK
    BY DEF Init, SharedOK, ClosingOK, CountersOK
  <2>4. DeviceOK
    BY EmptyDevice DEF Init, DeviceOK
  <2> QED BY <2>2, <2>3, <2>4 DEF TypeOK
<1>2. TypeOK /\ [Next]_vars => TypeOK'
  BY TypeStep
<1> QED BY <1>1, <1>2, PTL DEF Spec

-----------------------------------------------------------------------------
(* The mutex *)

\* Return gives the mutex back, or keeps it for the handshake.
LEMMA ReturnMutex ==
  ASSUME TypeOK, MutexInv, NEW t \in Threads, mutex \in {NoThread, t},
         NEW err, NEW n, NEW final, NEW inter, Return(t, err, n, final, inter)
  PROVE  MutexInv'
  BY ThreadsAssumption DEF TypeOK, ThreadsOK, MutexInv, Return

\* Signal moves waiting threads only.
LEMMA SignalMutex ==
  ASSUME TypeOK, MutexInv, Signal, UNCHANGED mutex
  PROVE  MutexInv'
  BY DEF TypeOK, ThreadsOK, MutexInv, Signal

LEMMA MutexStep == ASSUME TypeOK, MutexInv, [Next]_vars PROVE MutexInv'
<1> USE DEF thread
<1>1. ASSUME NEW t \in Threads, Call(t) \/ Handshake(t) \/ SpuriousWake(t) \/ Timeout(t)
      PROVE  MutexInv'
  BY <1>1 DEF Call, Handshake, SpuriousWake, Timeout, TypeOK, ThreadsOK, MutexInv
<1>2. ASSUME NEW t \in Threads, Begin(t) PROVE MutexInv'
  <2>1. CASE sp_response # NoResp
    BY <1>2, <2>1, ReturnMutex DEF Begin, Abort
  <2>2. CASE sp_response = NoResp
    BY <1>2, <2>2, ThreadsAssumption DEF Begin, TypeOK, ThreadsOK, MutexInv
  <2> QED BY <2>1, <2>2
<1>3. ASSUME NEW t \in Threads, Write(t) PROVE MutexInv'
  <2>0. mutex = t
    BY <1>3 DEF Write, MutexInv
  <2>1. CASE s_readerClosed \/ eof
    BY <1>3, <2>0, <2>1, ReturnMutex DEF Write, Abort
  <2>2. CASE ~(s_readerClosed \/ eof)
    BY <1>3, <2>0, <2>2 DEF Write, TypeOK, ThreadsOK, MutexInv
  <2> QED BY <2>1, <2>2
<1>4. ASSUME NEW t \in Threads, Check(t) PROVE MutexInv'
  <2>0. mutex = t
    BY <1>4 DEF Check, MutexInv
  <2>1. CASE sp_response = NoResp \/ (sp_response.final = NoLine /\ ~s_readerClosed)
    BY <1>4, <2>0, <2>1, ThreadsAssumption DEF Check, TypeOK, ThreadsOK, MutexInv
  <2>2. CASE sp_response # NoResp /\ ~(sp_response.final = NoLine /\ ~s_readerClosed)
    BY <1>4, <2>0, <2>2, ReturnMutex DEF Check
  <2> QED BY <2>1, <2>2
<1>5. ASSUME NEW t \in Threads, Resume(t) \/ DrainEnd(t) PROVE MutexInv'
  BY <1>5, ThreadsAssumption DEF Resume, DrainEnd, TypeOK, ThreadsOK, MutexInv
<1>6. ASSUME NEW t \in Threads, Expire(t) PROVE MutexInv'
  BY <1>6, ReturnMutex DEF Expire, Abort
<1>7. CASE ReadFinal \/ OnReaderClosed \/ AtClose
  <2>1. Signal \/ UNCHANGED <<mutex, pc>>
    BY <1>7 DEF ReadFinal, OnReaderClosed, AtClose
  <2>2. UNCHANGED mutex
    BY <1>7 DEF ReadFinal, OnReaderClosed, AtClose
  <2> QED BY <2>1, <2>2, SignalMutex DEF MutexInv
<1>8. CASE UNCHANGED <<mutex, pc>>
  BY <1>8 DEF MutexInv
<1>9. ReadUnsolicited \/ ReadPrompt \/ ReadIntermediate \/ ReadSms \/ ReadPdu \/ ReadEof
      \/ SetClosed \/ MainStep \/ ModemAnswer \/ ModemUrc \/ ModemDrop \/ Unplug
      \/ UNCHANGED vars
      => UNCHANGED <<mutex, pc>>
  BY DEF ReadUnsolicited, ReadPrompt, ReadIntermediate, ReadSms, ReadPdu, ReadEof, SetClosed,
         MainStep, AtOpen, AtOpened, ModemAnswer, ModemInfo, ModemPrompt, ModemFinal,
         ModemUrc, ModemDrop, Unplug, ModemFrame, vars
<1> QED BY <1>1, <1>2, <1>3, <1>4, <1>5, <1>6, <1>7, <1>8, <1>9
        DEF Next, Quiet, ThreadStep, ReaderStep

\* s_commandmutex excludes: at most one thread is between its lock and its
\* unlock, at_handshake's retries and pause included, for every set of threads.
THEOREM MutualExclusion == Spec => []MutexInv
<1>1. Init => MutexInv
  BY ThreadsAssumption DEF Init, MutexInv
<1> QED BY <1>1, MutexStep, TypeCorrect, PTL DEF Spec

-----------------------------------------------------------------------------
(* What a caller may rely on when it is told 0                             *)

LEMMA ReverseNonempty ==
  ASSUME NEW S, NEW s \in Seq(S), s # <<>>
  PROVE  Reverse(s) # <<>>
BY DEF Reverse

\* An outcome that is not "OK" leaves the thread with nothing to rely on.
LEMMA ReturnFailed ==
  ASSUME TypeOK, UsableResult, NEW t \in Threads, NEW err \in Errs, err # "OK",
         NEW n \in Nat, NEW final \in LineType \cup {NoLine},
         NEW inter \in Seq(LineType), Return(t, err, n, final, inter)
  PROVE  UsableResult'
BY DEF TypeOK, ThreadsOK, UsableResult, Return

LEMMA UsableStep == TypeOK /\ UsableResult /\ [Next]_vars => UsableResult'
<1> SUFFICES ASSUME TypeOK, UsableResult, [Next]_vars PROVE UsableResult'
  OBVIOUS
<1>0. ret \in [Threads -> RetType] /\ call \in [Threads -> CallType]
  BY DEF TypeOK, ThreadsOK
<1>1. ASSUME NEW t \in Threads, Call(t) \/ Handshake(t) PROVE UsableResult'
  BY <1>0, <1>1 DEF Call, Handshake, NoRet, UsableResult
<1>2. ASSUME NEW t \in Threads, NEW err \in Errs, err # "OK", Abort(t, err)
      PROVE  UsableResult'
  <2>1. <<>> \in Seq(LineType)
    OBVIOUS
  <2> QED BY <1>2, <2>1, ReturnFailed DEF Abort
<1>3. CASE UNCHANGED <<ret, call>>
  BY <1>3 DEF UsableResult
<1>4. ASSUME NEW t \in Threads, Begin(t) PROVE UsableResult'
  BY <1>2, <1>3, <1>4 DEF Begin, Errs
<1>5. ASSUME NEW t \in Threads, Write(t) PROVE UsableResult'
  BY <1>2, <1>3, <1>5 DEF Write, Errs
<1>6. ASSUME NEW t \in Threads, Expire(t) PROVE UsableResult'
  BY <1>2, <1>6 DEF Expire, Errs
<1>7. ASSUME NEW t \in Threads, Check(t) PROVE UsableResult'
  <2>1. CASE sp_response = NoResp \/ (sp_response.final = NoLine /\ ~s_readerClosed)
    BY <1>3, <1>7, <2>1 DEF Check
  <2>2. CASE sp_response # NoResp /\ ~(sp_response.final = NoLine /\ ~s_readerClosed)
    <3> DEFINE err == Outcome(t, sp_response)
               inter == IF call[t].out THEN Reverse(sp_response.inter) ELSE sp_response.inter
    <3>1. /\ sp_response.n \in Nat /\ sp_response.final \in LineType \cup {NoLine}
          /\ sp_response.inter \in Seq(LineType)
      BY <2>2 DEF TypeOK, SharedOK, Response
    <3>2. Return(t, err, sp_response.n, sp_response.final, inter)
      BY <1>7, <2>2 DEF Check
    <3>3. inter \in Seq(LineType) /\ (sp_response.inter # <<>> => inter # <<>>)
      BY <3>1, ReverseType, ReverseNonempty
    <3>4. err \in Errs
      BY DEF Outcome, Errs
    <3>5. err = "OK" =>
            /\ sp_response.final # NoLine
            /\ /\ call[t].type \in {"SINGLELINE", "NUMERIC"}
               /\ call[t].out /\ sp_response.final.k = "ok"
               => inter # <<>>
      BY <2>2, <3>3 DEF Outcome
    <3> HIDE DEF err, inter
    <3>6. CASE err # "OK"
      BY <3>1, <3>2, <3>3, <3>4, <3>6, ReturnFailed
    <3>7. CASE err = "OK"
      <4>1. /\ UNCHANGED call
            /\ ret' = [ret EXCEPT ![t] = [n |-> sp_response.n, err |-> err,
                                          final |-> sp_response.final, inter |-> inter]]
        BY <3>2 DEF Return
      <4> QED BY <1>0, <3>5, <3>7, <4>1 DEF UsableResult
    <3> QED BY <3>6, <3>7
  <2> QED BY <2>1, <2>2
<1>8. ASSUME NEW t \in Threads, Resume(t) \/ DrainEnd(t) \/ SpuriousWake(t) \/ Timeout(t)
      PROVE  UsableResult'
  BY <1>3, <1>8 DEF Resume, DrainEnd, SpuriousWake, Timeout
<1>9. ReaderStep \/ MainStep \/ ModemAnswer \/ ModemUrc \/ ModemDrop \/ Unplug
      \/ UNCHANGED vars
      => UNCHANGED <<ret, call>>
  BY DEF ReaderStep, ReadUnsolicited, ReadFinal, ReadPrompt, ReadIntermediate, ReadSms,
         ReadPdu, ReadEof, OnReaderClosed, AtClose, SetClosed, MainStep, AtOpen, AtOpened,
         ModemAnswer, ModemInfo, ModemPrompt, ModemFinal, ModemUrc, ModemDrop, Unplug,
         ModemFrame, thread, vars
<1> QED BY <1>1, <1>3, <1>4, <1>5, <1>6, <1>7, <1>8, <1>9 DEF Next, Quiet, ThreadStep

\* However many threads there are and however often the device is reopened, a
\* caller that is told 0 has a final response and, where it asked for an
\* intermediate response and the command succeeded, that response.
THEOREM ResultsUsable == Spec => []UsableResult
<1>1. Init => UsableResult
  BY DEF Init, NoRet, UsableResult
<1> QED BY <1>1, UsableStep, TypeCorrect, PTL DEF Spec

-----------------------------------------------------------------------------
(* One command thread, one open: the pending command is the thread's own   *)

OneThread == \E t : Threads = {t}

\* What Return does to the one thread when it leaves its command.
LEMMA ReturnPlace ==
  ASSUME TypeOK, NEW t \in Threads, NEW err, NEW n, NEW final, NEW inter,
         Return(t, err, n, final, inter)
  PROVE  pc'[t] \in {"idle", "begin", "drain"} /\ ret'[t].err = err
  BY DEF TypeOK, ThreadsOK, Return

LEMMA PendingStep ==
  ASSUME OneThread, MaxSessions = 1, TypeOK, PendingInv, [Next]_vars
  PROVE  PendingInv'
<1>0. PICK t : Threads = {t}
  BY DEF OneThread
<1> DEFINE Within == {"write", "check", "wait", "wake", "expired"}
<1>1. /\ session = 1 /\ ~opening
      /\ pc[t] # "crashed" /\ ret[t].err # "PENDING"
      /\ sp_response # NoResp <=> pc[t] \in Within
      /\ pc[t] = "wait" => sp_response.final = NoLine /\ ~s_readerClosed
  BY <1>0 DEF PendingInv
<1>2. SUFFICES /\ session' = 1 /\ ~opening'
               /\ pc'[t] # "crashed" /\ ret'[t].err # "PENDING"
               /\ sp_response' # NoResp <=> pc'[t] \in Within
               /\ pc'[t] = "wait" => sp_response'.final = NoLine /\ ~s_readerClosed'
  BY <1>0 DEF PendingInv
<1>3. t \in Threads /\ pc \in [Threads -> Places] /\ ret \in [Threads -> RetType]
  BY <1>0 DEF TypeOK, ThreadsOK
<1> USE <1>1, <1>3
<1>4. CASE Call(t) \/ Handshake(t)
  BY <1>4 DEF Call, Handshake, shared, closing, NoRet
<1>5. CASE Begin(t)
  <2>1. sp_response = NoResp
    BY <1>5 DEF Begin
  <2>2. /\ sp_response' = [n |-> sent + 1, c |-> call[t], final |-> NoLine, inter |-> <<>>]
        /\ pc' = [pc EXCEPT ![t] = "write"] /\ UNCHANGED ret /\ UNCHANGED closing
    BY <1>5, <2>1 DEF Begin
  <2>3. sp_response' # NoResp
    BY <2>2, FreshResponse, NoRespAssumption
  <2> QED BY <2>2, <2>3 DEF closing
<1>6. CASE Write(t)
  <2>1. CASE s_readerClosed \/ eof
    <3>1. sp_response' = NoResp /\ UNCHANGED closing
      BY <1>6, <2>1 DEF Write, Abort, ClearPendingCommand
    <3>2. pc'[t] \in {"idle", "begin", "drain"} /\ ret'[t].err # "PENDING"
      BY <1>6, <2>1, ReturnPlace DEF Write, Abort
    <3> QED BY <3>1, <3>2 DEF closing
  <2>2. CASE ~(s_readerClosed \/ eof)
    BY <1>6, <2>2 DEF Write, shared, closing
  <2> QED BY <2>1, <2>2
<1>7. CASE Check(t)
  <2>1. sp_response # NoResp
    BY <1>7 DEF Check
  <2>2. CASE sp_response.final = NoLine /\ ~s_readerClosed
    BY <1>7, <2>1, <2>2 DEF Check, shared, closing
  <2>3. CASE ~(sp_response.final = NoLine /\ ~s_readerClosed)
    <3>1. sp_response' = NoResp /\ UNCHANGED closing
      BY <1>7, <2>1, <2>3 DEF Check, ClearPendingCommand
    <3>2. pc'[t] \in {"idle", "begin", "drain"} /\ ret'[t].err # "PENDING"
      BY <1>7, <2>1, <2>3, ReturnPlace DEF Check, Outcome
    <3> QED BY <3>1, <3>2 DEF closing
  <2> QED BY <2>2, <2>3
<1>8. CASE Resume(t) \/ SpuriousWake(t) \/ Timeout(t) \/ DrainEnd(t)
  BY <1>8 DEF Resume, SpuriousWake, Timeout, DrainEnd, shared, closing
<1>9. CASE Expire(t)
  <2>1. sp_response' = NoResp /\ UNCHANGED closing
    BY <1>9 DEF Expire, Abort, ClearPendingCommand
  <2>2. pc'[t] \in {"idle", "begin", "drain"} /\ ret'[t].err # "PENDING"
    BY <1>9, ReturnPlace DEF Expire, Abort
  <2> QED BY <2>1, <2>2 DEF closing
<1>10. CASE ReadFinal
  <2>1. sp_response # NoResp
    BY <1>10, Recorded
  <2>2. sp_response' # NoResp
    BY <1>10, Recorded, NoRespAssumption
  <2>3. pc'[t] \in Within /\ pc'[t] # "wait"
    BY <1>0, <1>10, <2>1 DEF ReadFinal, Signal
  <2>4. UNCHANGED <<ret, closing>>
    BY <1>10 DEF ReadFinal
  <2> QED BY <2>1, <2>2, <2>3, <2>4 DEF closing
<1>11. CASE ReadIntermediate
  <2>1. sp_response # NoResp
    BY <1>11, Recorded
  <2>2. sp_response' # NoResp /\ sp_response'.final = sp_response.final
    BY <1>11, Recorded, NoRespAssumption
  <2>3. UNCHANGED <<pc, ret, closing>>
    BY <1>11 DEF ReadIntermediate, thread
  <2> QED BY <2>1, <2>2, <2>3 DEF closing
<1>12. CASE OnReaderClosed \/ AtClose
  <2>1. pc'[t] = pc[t] \/ (pc[t] = "wait" /\ pc'[t] = "wake")
    BY <1>0, <1>12 DEF OnReaderClosed, AtClose, Signal
  <2>2. pc'[t] = "wait" => ~s_readerClosed'
    BY <1>0, <1>12 DEF OnReaderClosed, AtClose, Signal
  <2>3. UNCHANGED <<sp_response, ret, session, opening>>
    BY <1>12 DEF OnReaderClosed, AtClose, shared
  <2> QED BY <2>1, <2>2, <2>3
<1>13. CASE MainStep
  BY <1>13 DEF MainStep, AtOpen, AtOpened
<1>14. CASE UNCHANGED <<sp_response, pc, ret, s_readerClosed, opening, session>>
  BY <1>14
<1>15. ReadUnsolicited \/ ReadPrompt \/ ReadSms \/ ReadPdu \/ ReadEof \/ SetClosed
       \/ ModemAnswer \/ ModemUrc \/ ModemDrop \/ Unplug \/ UNCHANGED vars
       => UNCHANGED <<sp_response, pc, ret, s_readerClosed, opening, session>>
  BY DEF ReadUnsolicited, ReadPrompt, ReadSms, ReadPdu, ReadEof, SetClosed, ModemAnswer,
         ModemInfo, ModemPrompt, ModemFinal, ModemUrc, ModemDrop, Unplug, ModemFrame,
         vars, thread, shared, closing
<1> QED BY <1>0, <1>4, <1>5, <1>6, <1>7, <1>8, <1>9, <1>10, <1>11, <1>12, <1>13, <1>14,
           <1>15 DEF Next, Quiet, ThreadStep, ReaderStep

LEMMA Pending == ASSUME OneThread, MaxSessions = 1 PROVE Spec => []PendingInv
<1>1. Init => PendingInv
  BY DEF Init, PendingInv, NoRet
<1>2. TypeOK /\ PendingInv /\ [Next]_vars => PendingInv'
  BY PendingStep
<1> QED BY <1>1, <1>2, TypeCorrect, PTL DEF Spec

\* With one command thread and until the device is reopened, a sleeping thread
\* has something to wait for and no command finds another one pending.
THEOREM NoLostAnswer ==
  ASSUME OneThread, MaxSessions = 1
  PROVE  Spec => [](NoLostWakeup /\ NeverPending)
<1>1. PendingInv => NoLostWakeup /\ NeverPending
  BY DEF PendingInv, NoLostWakeup, NeverPending
<1> QED BY <1>1, Pending, PTL

\* Nor is sp_response ever NULL under the waiting loop: timeout, final response
\* and the loss of the device never take another's command away.
THEOREM NeverNull ==
  ASSUME OneThread, MaxSessions = 1
  PROVE  Spec => []NoNullDeref
<1>1. PendingInv => NoNullDeref
  BY DEF PendingInv, NoNullDeref
<1> QED BY <1>1, Pending, PTL

-----------------------------------------------------------------------------
(* The reader thread and mainLoop                                          *)

LEMMA ReaderKept == ASSUME ReaderInv, [Next]_vars PROVE ReaderInv'
<1> USE DEF ReaderInv
<1>1. CASE ReadUnsolicited \/ ReadFinal \/ ReadPrompt \/ ReadIntermediate
  BY <1>1 DEF ReadUnsolicited, ReadFinal, ReadPrompt, ReadIntermediate, closing
<1>2. CASE ReadSms \/ ReadPdu \/ ReadEof
  BY <1>2 DEF ReadSms, ReadPdu, ReadEof
<1>3. CASE OnReaderClosed \/ AtClose \/ SetClosed
  BY <1>3 DEF OnReaderClosed, AtClose, SetClosed
<1>4. CASE MainStep
  BY <1>4 DEF MainStep, AtOpen, AtOpened
<1>5. CASE UNCHANGED <<s_readerClosed, s_closed, reader, opening>>
  BY <1>5
<1>6. ASSUME NEW t \in Threads,
             Call(t) \/ Handshake(t) \/ ThreadStep(t) \/ SpuriousWake(t) \/ Timeout(t)
      PROVE  UNCHANGED <<s_readerClosed, s_closed, reader, opening>>
  BY <1>6 DEF Call, Handshake, ThreadStep, Begin, Write, Check, Resume, Expire, DrainEnd,
              SpuriousWake, Timeout, closing
<1>7. ModemAnswer \/ ModemUrc \/ ModemDrop \/ Unplug \/ UNCHANGED vars
      => UNCHANGED <<s_readerClosed, s_closed, reader, opening>>
  BY DEF ModemAnswer, ModemInfo, ModemPrompt, ModemFinal, ModemUrc, ModemDrop, Unplug,
         ModemFrame, closing, vars
<1> QED BY <1>1, <1>2, <1>3, <1>4, <1>5, <1>6, <1>7 DEF Next, ReaderStep, Quiet

-----------------------------------------------------------------------------
(* The line after +CMT, which the reader does not look at, is no answer    *)

SmsInv ==
    /\ \A i \in 1 .. Len(input) :
          input[i].k = "cmt" => i < Len(input) /\ input[i + 1].k = "urc"
    /\ reader = "pdu" => IF input = <<>> THEN eof ELSE input[1].k = "urc"

LEMMA SmsRead ==
  ASSUME TypeOK, SmsInv, input # <<>>, input' = Tail(input),
         reader' = IF input[1].k = "cmt" THEN "pdu" ELSE "read"
  PROVE  SmsInv'
<1>1. /\ Len(input) \in Nat /\ Len(input) >= 1
      /\ Len(input') = Len(input) - 1
      /\ \A i \in 1 .. Len(input') : i + 1 \in 1 .. Len(input) /\ input'[i] = input[i + 1]
  BY DEF TypeOK, DeviceOK
<1>2. ASSUME NEW i \in 1 .. Len(input'), input'[i].k = "cmt"
      PROVE  i < Len(input') /\ input'[i + 1].k = "urc"
  <2>1. i + 1 \in 1 .. Len(input) /\ input[i + 1].k = "cmt"
    BY <1>1, <1>2
  <2>2. i + 1 < Len(input) /\ input[i + 1 + 1].k = "urc"
    BY <2>1 DEF SmsInv
  <2>3. i + 1 \in 1 .. Len(input')
    BY <1>1, <2>2
  <2> QED BY <1>1, <2>2, <2>3
<1>3. input[1].k = "cmt" => input' # <<>> /\ input'[1].k = "urc"
  <2>1. HAVE input[1].k = "cmt"
  <2>2. 1 < Len(input) /\ input[1 + 1].k = "urc"
    BY <1>1, <2>1 DEF SmsInv
  <2>3. 1 \in 1 .. Len(input')
    BY <1>1, <2>2
  <2> QED BY <1>1, <2>2, <2>3
<1> QED BY <1>2, <1>3 DEF SmsInv

LEMMA SmsSays ==
  ASSUME TypeOK, SmsInv, NEW l \in LineType, NEW m \in LineType, ~eof, UNCHANGED reader,
         \/ l.k # "cmt" /\ input' = Append(input, l)
         \/ m.k = "urc" /\ input' = input \o <<l, m>>
  PROVE  SmsInv'
<1>1. /\ Len(input) \in Nat /\ Len(input') \in Nat /\ Len(input') > Len(input)
      /\ \A i \in 1 .. Len(input) : input'[i] = input[i]
  <2>1. CASE input' = Append(input, l)
    BY <2>1 DEF TypeOK, DeviceOK
  <2>2. CASE input' = input \o <<l, m>>
    <3>1. <<l, m>> \in Seq(LineType) /\ Len(<<l, m>>) = 2 /\ input \in Seq(LineType)
      BY DEF TypeOK, DeviceOK
    <3> QED BY <2>2, <3>1
  <2> QED BY <2>1, <2>2
<1>2. ASSUME NEW i \in 1 .. Len(input), input'[i].k = "cmt"
      PROVE  i < Len(input') /\ input'[i + 1].k = "urc"
  <2>1. i < Len(input) /\ input[i + 1].k = "urc"
    BY <1>1, <1>2 DEF SmsInv
  <2>2. i + 1 \in 1 .. Len(input)
    BY <1>1, <2>1
  <2> QED BY <1>1, <2>1, <2>2
<1>3. ASSUME NEW i \in (Len(input) + 1) .. Len(input'), input'[i].k = "cmt"
      PROVE  i < Len(input') /\ input'[i + 1].k = "urc"
  <2>1. CASE l.k # "cmt" /\ input' = Append(input, l)
    BY <1>3, <2>1 DEF TypeOK, DeviceOK
  <2>2. CASE m.k = "urc" /\ input' = input \o <<l, m>>
    <3>1. Len(input') = Len(input) + 2 /\ input'[Len(input) + 2] = m
      BY <2>2 DEF TypeOK, DeviceOK
    <3>2. i = Len(input) + 1
      BY <1>1, <1>3, <2>2, <3>1
    <3> QED BY <1>1, <2>2, <3>1, <3>2
  <2> QED BY <2>1, <2>2
<1>4. reader = "pdu" => input' # <<>> /\ input'[1].k = "urc"
  <2>1. HAVE reader = "pdu"
  <2>2. input # <<>> /\ input[1].k = "urc"
    BY <2>1 DEF SmsInv
  <2>3. 1 \in 1 .. Len(input)
    BY <2>2 DEF TypeOK, DeviceOK
  <2> QED BY <1>1, <2>2, <2>3
<1> QED BY <1>1, <1>2, <1>3, <1>4 DEF SmsInv

\* A reading step reads the first line; one after +CMT leads to its PDU.
LEMMA ReaderReads ==
  ASSUME TypeOK, SmsInv,
         \/ ReadUnsolicited \/ ReadFinal \/ ReadPrompt \/ ReadIntermediate
         \/ ReadSms \/ ReadPdu
  PROVE  /\ input # <<>> /\ input' = Tail(input) /\ Head(input) = input[1]
         /\ reader' = IF input[1].k = "cmt" THEN "pdu" ELSE "read"
<1>1. input \in Seq(LineType)
  BY DEF TypeOK, DeviceOK
<1>2. CASE ReadUnsolicited \/ ReadFinal \/ ReadPrompt \/ ReadIntermediate
  BY <1>1, <1>2 DEF ReadUnsolicited, ReadFinal, ReadPrompt, ReadIntermediate, TakeLine, closing
<1>3. CASE ReadSms
  BY <1>1, <1>3 DEF ReadSms
<1>4. CASE ReadPdu
  BY <1>1, <1>4 DEF ReadPdu, SmsInv
<1> QED BY <1>2, <1>3, <1>4

\* The modem writes a line, or +CMT and its PDU.
Written ==
    \E l \in LineType, m \in LineType :
       \/ l.k # "cmt" /\ input' = Append(input, l)
       \/ m.k = "urc" /\ input' = input \o <<l, m>>

LEMMA ModemSays ==
  ASSUME TypeOK, ModemAnswer \/ ModemUrc
  PROVE  ~eof /\ UNCHANGED reader /\ Written
<1> DEFINE L(k, n, i, p) == [k |-> k, n |-> n, i |-> i, p |-> p]
<1>1. ASSUME NEW k \in Kinds \ {"cmt"}, NEW n \in Nat, NEW i \in Nat, NEW p \in PrefixKinds,
             Says(k, n, i, p)
      PROVE  Written
  <2>1. L(k, n, i, p) \in LineType /\ L(k, n, i, p).k # "cmt"
    BY DEF LineType
  <2> QED BY <1>1, <2>1 DEF Says, Written
<1>2. Working => Head(toModem) \in CommandType
  BY DEF Working, TypeOK, DeviceOK
<1>3. modem.info \in Nat
  BY DEF TypeOK, DeviceOK
<1>4. CASE ModemInfo
  BY <1>1, <1>2, <1>3, <1>4 DEF ModemInfo, ModemFrame, closing, Working, Kinds, CommandType
<1>5. CASE ModemPrompt
  BY <1>1, <1>2, <1>5 DEF ModemPrompt, ModemFrame, closing, Working, Kinds, PrefixKinds, CommandType
<1>6. CASE ModemFinal
  BY <1>1, <1>2, <1>3, <1>6 DEF ModemFinal, ModemFrame, closing, Working, Kinds, PrefixKinds, CommandType
<1>7. CASE ModemUrc
  <2>1. ~eof /\ UNCHANGED reader
    BY <1>7 DEF ModemUrc, ModemFrame, closing
  <2>2. CASE \E k \in UrcKinds, p \in {"none", "P"} : k # "cmt" /\ Says(k, 0, 0, p)
    BY <1>1, <2>1, <2>2, BoundsAssumption DEF Kinds, PrefixKinds
  <2>3. CASE input' = input \o <<L("cmt", 0, 0, "none"), L("urc", 0, 0, "none")>>
    <3>1. L("cmt", 0, 0, "none") \in LineType /\ L("urc", 0, 0, "none") \in LineType
      BY DEF LineType, Kinds, PrefixKinds
    <3> QED BY <2>1, <2>3, <3>1 DEF Written
  <2> QED BY <1>7, <2>2, <2>3 DEF ModemUrc
<1> QED BY <1>4, <1>5, <1>6, <1>7 DEF ModemAnswer

LEMMA SmsStep ==
  ASSUME TypeOK, ReaderInv, SmsInv, [Next]_vars
  PROVE  SmsInv'
<1>1. CASE \/ ReadUnsolicited \/ ReadFinal \/ ReadPrompt \/ ReadIntermediate
           \/ ReadSms \/ ReadPdu
  BY <1>1, ReaderReads, SmsRead
<1>2. CASE ModemAnswer \/ ModemUrc
  BY <1>2, ModemSays, SmsSays DEF Written
<1>3. CASE ReadEof
  BY <1>3 DEF ReadEof, SmsInv, device
<1>4. CASE Unplug
  BY <1>4 DEF Unplug, ModemFrame, closing, SmsInv
<1>5. CASE UNCHANGED <<input, reader, eof>>
  BY <1>5 DEF SmsInv
<1>6. CASE OnReaderClosed \/ AtClose \/ SetClosed
  BY <1>6 DEF OnReaderClosed, AtClose, SetClosed, SmsInv, device
<1>7. CASE MainStep
  <2>1. reader = "gone"
    BY <1>7 DEF MainStep, AtOpen, AtOpened, ReaderInv
  <2>2. CASE AtOpen
    <3>1. Len(input') = 0 /\ reader' = reader
      BY <2>2 DEF AtOpen
    <3> QED BY <2>1, <3>1 DEF SmsInv
  <2>3. CASE AtOpened
    BY <2>3 DEF AtOpened, SmsInv, device
  <2> QED BY <1>7, <2>2, <2>3 DEF MainStep
<1>8. ASSUME NEW t \in Threads,
             Call(t) \/ Handshake(t) \/ ThreadStep(t) \/ SpuriousWake(t) \/ Timeout(t)
      PROVE  UNCHANGED <<input, reader, eof>>
  BY <1>8 DEF Call, Handshake, ThreadStep, Begin, Write, Check, Resume, Expire, DrainEnd,
              SpuriousWake, Timeout, device, closing
<1>9. ModemDrop \/ UNCHANGED vars => UNCHANGED <<input, reader, eof>>
  BY DEF ModemDrop, ModemFrame, vars, device, closing
<1> QED BY <1>1, <1>2, <1>3, <1>4, <1>5, <1>6, <1>7, <1>8, <1>9 DEF Next, ReaderStep, Quiet

LEMMA SmsPaired == Spec => [](ReaderInv /\ SmsInv)
<1>1. Init => ReaderInv /\ SmsInv
  BY DEF Init, ReaderInv, SmsInv
<1>2. TypeOK /\ ReaderInv /\ SmsInv /\ [Next]_vars => ReaderInv' /\ SmsInv'
  BY ReaderKept, SmsStep
<1> QED BY <1>1, <1>2, TypeCorrect, PTL DEF Spec

-----------------------------------------------------------------------------
(* The refinement of CommandService: while the device is not reopened, for *)
(* one command thread, whatever it calls and however often                 *)

Inside == {"write", "check", "wait", "wake", "expired"}
Answer == IF sp_response = NoResp THEN NoLine ELSE sp_response.final
Told == [t \in Threads |-> [err |-> ret[t].err, final |-> ret[t].final]]

\* What the one thread contributes to the mapping.
LEMMA Mapped ==
  ASSUME TypeOK, NEW t, Threads = {t}
  PROVE  /\ t \in Threads
         /\ pc \in [Threads -> Places] /\ ret \in [Threads -> RetType]
  BY DEF TypeOK, ThreadsOK

\* Only the one thread's result changes.
LEMMA Tells ==
  ASSUME NEW t, Threads = {t}
  PROVE  Told' = [Told EXCEPT ![t] = [err |-> ret'[t].err, final |-> ret'[t].final]]
<1> DEFINE New == [Told EXCEPT ![t] = [err |-> ret'[t].err, final |-> ret'[t].final]]
<1>1. \A u \in Threads : Told'[u] = New[u]
  BY DEF Told
<1> QED BY <1>1 DEF Told

-----------------------------------------------------------------------------
(* The steps of the service, in the terms of the channel                   *)

LEMMA Asks ==
  ASSUME TypeOK, TypeOK', NEW t, Threads = {t}, pc[t] \notin Inside, pc'[t] \notin Inside,
         ret'[t] = NoRet, UNCHANGED <<sp_response, input, s_readerClosed>>
  PROVE  Service!Ask(t)
<1>1. ret'[t].err = "none" /\ ret'[t].final = NoLine
  BY DEF NoRet
<1>2. Told' = [Told EXCEPT ![t] = [err |-> "none", final |-> NoLine]]
  BY <1>1, Tells
<1>3. UNCHANGED [u \in Threads |-> pc[u] \in Inside]
  BY Mapped
<1> QED BY <1>2, <1>3 DEF Service!Ask, Service!NoOutcome, Service!Outcome, Inside, Told

LEMMA Issues ==
  ASSUME TypeOK, TypeOK', NEW t, Threads = {t}, pc[t] \notin Inside, pc'[t] \in Inside,
         Answer = NoLine, Answer' = NoLine, UNCHANGED <<ret, input, s_readerClosed>>
  PROVE  Service!Issue(t)
  BY Mapped DEF Service!Issue, Inside, Answer

Busy == [t \in Threads |-> pc[t] \in Inside]

\* The thread leaves its command with err and final.
LEMMA Returns ==
  ASSUME TypeOK, NEW t, Threads = {t}, pc[t] \in Inside, pc'[t] \notin Inside,
         NEW err, NEW final, ret'[t].err = err, ret'[t].final = final
  PROVE  /\ Busy[t]
         /\ Busy' = [Busy EXCEPT ![t] = FALSE]
         /\ Told' = [Told EXCEPT ![t] = [err |-> err, final |-> final]]
<1>1. Told' = [Told EXCEPT ![t] = [err |-> err, final |-> final]]
  BY Tells
<1>2. [u \in Threads |-> pc'[u] \in Inside] = [u \in Threads |-> FALSE]
  <2>1. ASSUME NEW u \in Threads PROVE (pc'[u] \in Inside) = FALSE
    <3>1. u = t
      OBVIOUS
    <3> QED BY <3>1
  <2> QED BY <2>1, Zenon
<1>3. [[u \in Threads |-> pc[u] \in Inside] EXCEPT ![t] = FALSE] = [u \in Threads |-> FALSE]
  BY Zenon
<1>4. Busy' = [Busy EXCEPT ![t] = FALSE]
  BY <1>2, <1>3 DEF Busy, Inside
<1> QED BY <1>1, <1>4 DEF Busy

LEMMA Reads ==
  ASSUME TypeOK, TypeOK', NEW t, Threads = {t}, input # <<>>, input' = Tail(input),
         pc'[t] \in Inside <=> pc[t] \in Inside,
         Answer' = IF Final(Head(input)) /\ pc[t] \in Inside THEN Head(input) ELSE Answer,
         UNCHANGED <<ret, s_readerClosed>>
  PROVE  Service!Read
<1>1. Head(input) \in LineType
  BY DEF TypeOK, DeviceOK
<1>2. Head(input) \in {l \in LineType : Final(l)} <=> Final(Head(input))
  BY <1>1
<1>3. UNCHANGED [u \in Threads |-> pc[u] \in Inside]
  BY Mapped
<1>4. (\E c \in Threads : [u \in Threads |-> pc[u] \in Inside][c]) <=> pc[t] \in Inside
  OBVIOUS
<1> QED BY <1>2, <1>3, <1>4 DEF Service!Read, Inside, Answer

LEMMA Stutters ==
  ASSUME TypeOK, TypeOK', NEW t, Threads = {t}, pc'[t] \in Inside <=> pc[t] \in Inside,
         Answer' = Answer, UNCHANGED <<ret, input, s_readerClosed>>
  PROVE  UNCHANGED Service!vars
  BY Mapped DEF Service!vars, Inside, Answer
-----------------------------------------------------------------------------
(* Each step of the channel is one of the service, or none                 *)

\* What is known of the one thread in its command.
LEMMA InCommand ==
  ASSUME TypeOK, PendingInv, NEW t, Threads = {t}
  PROVE  /\ sp_response # NoResp <=> pc[t] \in Inside
         /\ pc[t] \notin Inside => Answer = NoLine
         /\ ret[t].err # "PENDING"
  BY DEF PendingInv, Inside, Answer

\* What Return does, in the terms of the service.
LEMMA ReturnTold ==
  ASSUME TypeOK, NEW t \in Threads, NEW err, NEW n, NEW final, NEW inter,
         Return(t, err, n, final, inter)
  PROVE  pc'[t] \notin Inside /\ ret'[t].err = err /\ ret'[t].final = final
  BY DEF TypeOK, ThreadsOK, Return, Inside

LEMMA Issued ==
  ASSUME TypeOK, TypeOK', PendingInv, NEW t, Threads = {t}, Begin(t)
  PROVE  Service!Issue(t)
<1>1. pc[t] = "begin" /\ sp_response = NoResp
  BY InCommand DEF Begin, Inside
<1>2. /\ sp_response' = [n |-> sent + 1, c |-> call[t], final |-> NoLine, inter |-> <<>>]
      /\ pc' = [pc EXCEPT ![t] = "write"] /\ UNCHANGED <<ret, input, s_readerClosed>>
  BY <1>1 DEF Begin, closing, device
<1>3. pc'[t] = "write" /\ Answer = NoLine /\ Answer' = NoLine
  BY <1>1, <1>2, Mapped, FreshResponse, NoRespAssumption DEF Answer
<1> QED BY <1>1, <1>2, <1>3, Issues DEF Inside

LEMMA WrittenOrFailed ==
  ASSUME TypeOK, TypeOK', PendingInv, NEW t, Threads = {t}, Write(t)
  PROVE  Service!Fail(t) \/ Service!GiveUp(t) \/ UNCHANGED Service!vars
<1>1. pc[t] = "write" /\ pc[t] \in Inside
  BY DEF Write, Inside
<1>2. CASE s_readerClosed \/ eof
  <2> DEFINE err == IF s_readerClosed THEN "CLOSED" ELSE "GENERIC"
  <2>1. /\ Abort(t, err) /\ UNCHANGED <<input, s_readerClosed>>
    BY <1>2 DEF Write, closing
  <2>2. /\ pc'[t] \notin Inside /\ ret'[t].err = err /\ ret'[t].final = NoLine
        /\ Answer' = NoLine
    BY <2>1, Mapped, ReturnTold DEF Abort, ClearPendingCommand, Answer
  <2>3. /\ Busy[t] /\ Busy' = [Busy EXCEPT ![t] = FALSE]
        /\ Told' = [Told EXCEPT ![t] = [err |-> err, final |-> NoLine]]
    BY <1>1, <2>2, Returns
  <2> QED BY <2>1, <2>2, <2>3 DEF Service!Fail, Service!GiveUp, Service!Return,
                                  Service!Outcome, Busy, Told, Inside, Answer
<1>3. CASE ~(s_readerClosed \/ eof)
  <2>1. UNCHANGED <<ret, input, s_readerClosed, sp_response>> /\ pc'[t] \in Inside
    BY <1>3, Mapped DEF Write, shared, closing, Inside
  <2>2. Answer' = Answer
    BY <2>1 DEF Answer
  <2> QED BY <1>1, <2>1, <2>2, Stutters
<1> QED BY <1>2, <1>3

LEMMA CheckedOrFinished ==
  ASSUME TypeOK, TypeOK', PendingInv, NEW t, Threads = {t}, Check(t)
  PROVE  Service!Finish(t) \/ Service!Fail(t) \/ UNCHANGED Service!vars
<1>1. pc[t] = "check" /\ pc[t] \in Inside /\ sp_response # NoResp
      /\ UNCHANGED <<input, s_readerClosed>>
  BY InCommand DEF Check, Inside, closing, device
<1>2. CASE sp_response.final = NoLine /\ ~s_readerClosed
  <2>1. UNCHANGED <<ret, sp_response>> /\ pc'[t] \in Inside
    BY <1>1, <1>2, Mapped DEF Check, shared, Inside
  <2> QED BY <1>1, <2>1, Stutters DEF Answer
<1>3. CASE ~(sp_response.final = NoLine /\ ~s_readerClosed)
  <2> DEFINE err == Outcome(t, sp_response)
  <2>1. /\ sp_response' = NoResp
        /\ \E inter : Return(t, err, sp_response.n, sp_response.final, inter)
    BY <1>1, <1>3 DEF Check, ClearPendingCommand
  <2>2. /\ pc'[t] \notin Inside /\ ret'[t].err = err /\ ret'[t].final = Answer
        /\ Answer' = NoLine
    BY <1>1, <2>1, Mapped, ReturnTold DEF Answer
  <2>3. /\ Busy[t] /\ Busy' = [Busy EXCEPT ![t] = FALSE]
        /\ Told' = [Told EXCEPT ![t] = [err |-> err, final |-> Answer]]
    BY <1>1, <2>2, Returns
  <2> USE DEF Service!Return, Service!Outcome, Busy, Told, Inside
  <2>4. CASE s_readerClosed
    BY <1>1, <2>2, <2>3, <2>4 DEF Outcome, Service!Fail, Answer
  <2>5. CASE ~s_readerClosed
    <3>1. err \in {"OK", "INVALID"} /\ Answer # NoLine
      BY <1>1, <1>3, <2>5 DEF Outcome, Answer
    <3> QED BY <1>1, <2>2, <2>3, <2>5, <3>1 DEF Service!Finish, Answer
  <2> QED BY <2>4, <2>5
<1> QED BY <1>2, <1>3

LEMMA Expired ==
  ASSUME TypeOK, TypeOK', NEW t, Threads = {t}, Expire(t)
  PROVE  Service!GiveUp(t)
<1>1. pc[t] \in Inside /\ UNCHANGED <<input, s_readerClosed>> /\ Abort(t, "TIMEOUT")
  BY DEF Expire, Inside, closing, device
<1>2. /\ pc'[t] \notin Inside /\ ret'[t].err = "TIMEOUT" /\ ret'[t].final = NoLine
      /\ Answer' = NoLine
  BY <1>1, Mapped, ReturnTold DEF Abort, ClearPendingCommand, Answer
<1>3. /\ Busy[t] /\ Busy' = [Busy EXCEPT ![t] = FALSE]
      /\ Told' = [Told EXCEPT ![t] = [err |-> "TIMEOUT", final |-> NoLine]]
  BY <1>1, <1>2, Returns
<1> QED BY <1>1, <1>2, <1>3 DEF Service!GiveUp, Service!Return, Service!Outcome, Busy,
                                Told, Inside, Answer

LEMMA LineRead ==
  ASSUME TypeOK, TypeOK', PendingInv, SmsInv, NEW t, Threads = {t},
         \/ ReadUnsolicited \/ ReadFinal \/ ReadPrompt \/ ReadIntermediate
         \/ ReadSms \/ ReadPdu
  PROVE  Service!Read
<1>1. input # <<>> /\ input' = Tail(input) /\ UNCHANGED <<ret, s_readerClosed>>
  BY ReaderReads DEF ReadUnsolicited, ReadFinal, ReadPrompt, ReadIntermediate, ReadSms,
                     ReadPdu, closing
<1>2. CASE ReadFinal
  <2>1. Final(Head(input)) /\ sp_response # NoResp
    BY <1>2 DEF ReadFinal, TakeLine, Disposition
  <2>2. pc[t] \in Inside /\ Answer' = Head(input)
    BY <1>2, <2>1, InCommand, Recorded, NoRespAssumption DEF Answer
  <2>3. pc'[t] \in Inside
    BY <1>2, <2>2, Mapped DEF ReadFinal, Signal, Inside
  <2> QED BY <1>1, <2>1, <2>2, <2>3, Reads
<1>3. CASE ReadUnsolicited \/ ReadPrompt \/ ReadIntermediate \/ ReadSms \/ ReadPdu
  <2>1. UNCHANGED pc /\ Answer' = Answer
    <3>1. CASE ReadIntermediate
      BY <3>1, Recorded, NoRespAssumption DEF ReadIntermediate, thread, Answer
    <3>2. CASE ReadUnsolicited \/ ReadPrompt \/ ReadSms \/ ReadPdu
      BY <3>2 DEF ReadUnsolicited, ReadPrompt, ReadSms, ReadPdu, shared, thread, Answer
    <3> QED BY <1>3, <3>1, <3>2
  <2>2. ~(Final(Head(input)) /\ pc[t] \in Inside)
    <3>1. CASE ReadSms
      BY <3>1 DEF ReadSms, Final
    <3>2. CASE ReadPdu
      BY <1>1, <3>2, ReaderReads DEF ReadPdu, SmsInv, Final
    <3>3. CASE ReadUnsolicited \/ ReadPrompt \/ ReadIntermediate
      BY <3>3, InCommand DEF ReadUnsolicited, ReadPrompt, ReadIntermediate, TakeLine,
                             Disposition
    <3> QED BY <1>3, <3>1, <3>2, <3>3
  <2> QED BY <1>1, <2>1, <2>2, Reads
<1> QED BY <1>2, <1>3

LEMMA ReaderClosing ==
  ASSUME TypeOK, TypeOK', NEW t, Threads = {t}, OnReaderClosed \/ AtClose
  PROVE  Service!Lose \/ UNCHANGED Service!vars
<1>1. /\ pc'[t] \in Inside <=> pc[t] \in Inside
      /\ Answer' = Answer /\ UNCHANGED <<ret, input>>
      /\ s_readerClosed' \/ UNCHANGED s_readerClosed
  BY Mapped DEF OnReaderClosed, AtClose, Signal, Inside, Answer, shared, device
<1>2. UNCHANGED Busy /\ UNCHANGED Told
  BY <1>1, Mapped DEF Busy, Told
<1>3. s_readerClosed' = TRUE \/ UNCHANGED s_readerClosed
  BY <1>1 DEF TypeOK, ClosingOK
<1> QED BY <1>1, <1>2, <1>3 DEF Service!Lose, Service!vars, Busy, Told, Inside, Answer

LEMMA ModemWrites ==
  ASSUME TypeOK, TypeOK', NEW t, Threads = {t}, ModemAnswer \/ ModemUrc \/ Unplug
  PROVE  Service!Say \/ Service!Cut \/ UNCHANGED Service!vars
<1>1. /\ UNCHANGED <<pc, ret, sp_response, s_readerClosed>>
      /\ UNCHANGED Busy /\ UNCHANGED Told /\ UNCHANGED Answer
  BY DEF ModemAnswer, ModemInfo, ModemPrompt, ModemFinal, ModemUrc, Unplug, ModemFrame,
         shared, thread, closing, Busy, Told, Answer
<1>2. CASE ModemAnswer \/ ModemUrc
  <2>1. PICK l \in LineType, m \in LineType :
               input' = Append(input, l) \/ input' = input \o <<l, m>>
    BY <1>2, ModemSays DEF Written
  <2>2. input \in Seq(LineType) /\ <<l, m>> \in Seq(LineType) /\ Len(<<l, m>>) = 2
    BY DEF TypeOK, DeviceOK
  <2>3. /\ Len(input) \in Nat /\ Len(input') >= Len(input)
        /\ \A i \in 1 .. Len(input) : input'[i] = input[i]
    <3>1. CASE input' = Append(input, l)
      BY <2>2, <3>1
    <3>2. CASE input' = input \o <<l, m>>
      BY <2>2, <3>2
    <3> QED BY <2>1, <3>1, <3>2
  <2>4. input' \in Seq(LineType)
    BY DEF TypeOK, DeviceOK
  <2>5. SubSeq(input, 1, Len(input)) = SubSeq(input', 1, Len(input))
    BY <2>2, <2>3, <2>4
  <2>6. Service!IsPrefix(input, input')
    BY <2>2, <2>3, <2>5 DEF Service!IsPrefix
  <2> QED BY <1>1, <2>6 DEF Service!Say, Busy, Told, Inside, Answer
<1>3. CASE Unplug
  <2>1. UNCHANGED input \/ input' = <<>>
    BY <1>3 DEF Unplug
  <2> QED BY <1>1, <2>1 DEF Service!Cut, Service!vars, Busy, Told, Inside, Answer
<1> QED BY <1>2, <1>3

LEMMA StepRefines ==
  ASSUME OneThread, MaxSessions = 1, TypeOK, TypeOK', PendingInv, SmsInv, [Next]_vars
  PROVE  [Service!Next]_(Service!vars)
<1>0. PICK t : Threads = {t}
  BY DEF OneThread
<1> USE <1>0
<1>1. CASE Call(t) \/ Handshake(t)
  <2>1. /\ pc[t] \notin Inside /\ pc'[t] \notin Inside /\ ret'[t] = NoRet
        /\ UNCHANGED <<sp_response, input, s_readerClosed>>
    BY <1>1, Mapped DEF Call, Handshake, Inside, shared, closing, device
  <2> QED BY <2>1, Asks DEF Service!Next
<1>2. CASE Begin(t)
  BY <1>2, Issued DEF Service!Next
<1>3. CASE Write(t)
  BY <1>3, WrittenOrFailed DEF Service!Next
<1>4. CASE Check(t)
  BY <1>4, CheckedOrFinished DEF Service!Next
<1>5. CASE Expire(t)
  BY <1>5, Expired DEF Service!Next
<1>6. CASE Resume(t) \/ SpuriousWake(t) \/ Timeout(t) \/ DrainEnd(t)
  <2>1. /\ pc'[t] \in Inside <=> pc[t] \in Inside
        /\ UNCHANGED <<sp_response, ret, input, s_readerClosed>>
    BY <1>6, Mapped DEF Resume, SpuriousWake, Timeout, DrainEnd, Inside, shared, closing,
                        device
  <2> QED BY <2>1, Stutters DEF Answer
<1>7. CASE \/ ReadUnsolicited \/ ReadFinal \/ ReadPrompt \/ ReadIntermediate
           \/ ReadSms \/ ReadPdu
  BY <1>7, LineRead DEF Service!Next
<1>8. CASE OnReaderClosed \/ AtClose
  BY <1>8, ReaderClosing DEF Service!Next
<1>9. CASE ReadEof \/ SetClosed \/ ModemDrop \/ Quiet \/ UNCHANGED vars
  <2>1. UNCHANGED <<pc, sp_response, ret, input, s_readerClosed>>
    BY <1>9 DEF ReadEof, SetClosed, ModemDrop, Quiet, ModemFrame, vars, thread, shared,
                closing, device
  <2> QED BY <2>1, Stutters DEF Answer
<1>10. CASE ModemAnswer \/ ModemUrc \/ Unplug
  BY <1>10, ModemWrites DEF Service!Next
<1>11. ~MainStep
  BY DEF MainStep, AtOpen, AtOpened, PendingInv
<1> QED BY <1>1, <1>2, <1>3, <1>4, <1>5, <1>6, <1>7, <1>8, <1>9, <1>10, <1>11
        DEF Next, ThreadStep, ReaderStep

\* With one command thread and until the device is reopened, the channel does
\* what CommandService promises: at_send_command_full and processLine hand a
\* command its own answer, no other and none twice, or one of the failures.
THEOREM Refines ==
  ASSUME OneThread, MaxSessions = 1
  PROVE  Spec => ServiceSpec
<1>1. Init => Service!Init
  <2>1. HAVE Init
  <2>2. \A t \in Threads : pc[t] = "idle" /\ ret[t] = NoRet
    BY <2>1 DEF Init
  <2>3. Busy = [t \in Threads |-> FALSE]
    <3>1. \A t \in Threads : (pc[t] \in Inside) = FALSE
      BY <2>2 DEF Inside
    <3> QED BY <3>1, Zenon DEF Busy
  <2>4. Told = [t \in Threads |-> [err |-> "none", final |-> NoLine]]
    BY <2>2 DEF Told, NoRet
  <2>5. input = <<>> /\ Answer = NoLine /\ s_readerClosed = FALSE
    BY <2>1 DEF Init, Answer
  <2> QED BY <2>3, <2>4, <2>5 DEF Service!Init, Service!NoOutcome, Service!Outcome, Busy,
                                  Told, Inside, Answer
<1>2. TypeOK /\ TypeOK' /\ PendingInv /\ SmsInv /\ [Next]_vars => [Service!Next]_(Service!vars)
  BY StepRefines
<1> QED BY <1>1, <1>2, TypeCorrect, Pending, SmsPaired, PTL DEF Spec, ServiceSpec, Service!Spec
=============================================================================
