------------------------------- MODULE Handlers -------------------------------
(***************************************************************************)
(* The request handlers of reference-ril.c, onRequest's dispatch and the   *)
(* functions they share, each as a program: what it does with its          *)
(* ATResponse pointers, in which order it completes its token, and where   *)
(* it goes when a command or the parse of a line fails.  Module Requests   *)
(* executes them.  What a response says is left out, but for what a        *)
(* handler's control depends on: whether there is a response, whether it   *)
(* succeeded, how many lines it has and whether they parse.                *)
(*                                                                         *)
(* A program gives the initial value of p_response and, for each label, a  *)
(* sequence of instructions; the end of a sequence is a return.            *)
(***************************************************************************)
EXTENDS Sequences

p_response  == "p_response"
p_response1 == "p_response1"
nowhere     == "NULL"        \* a command whose response is not asked for

-----------------------------------------------------------------------------
(* The instructions                                                        *)

\* err = at_send_command[_singleline, _numeric, _sms, _multiline](..., &v)
Send(v, type) == [op |-> "send", v |-> v, type |-> type]
\* if (err < 0 || v->success == 0) goto to;   if (err != 0) goto to
Test(v, to)   == [op |-> "test", v |-> v, to |-> to]
TestErr(to)   == [op |-> "testErr", to |-> to]
\* line = v->p_intermediates->line, and its fields; goto to when one is missing
Line(v, to)   == [op |-> "line", v |-> v, to |-> to, may |-> {TRUE, FALSE}]
Read(v)       == [op |-> "line", v |-> v, to |-> "start", may |-> {TRUE}]
\* the same for each of v's lines; and at most three fit
Scan(v, to)       == [op |-> "scan", v |-> v, to |-> to]
ThreeLines(v, to) == [op |-> "threeLines", v |-> v, to |-> to]
IfNoLine(v, to)   == [op |-> "ifNoLine", v |-> v, to |-> to]
\* at_get_cme_error(v) != CME_SUCCESS; at_response_free(v); v = NULL
Cme(v, to) == [op |-> "cme", v |-> v, to |-> to]
Free(v)    == [op |-> "free", v |-> v]
Null(v)    == [op |-> "null", v |-> v]
\* RIL_onRequestComplete(t, e, ...); with a text of v's lines
Done(e)        == [op |-> "done", e |-> e]
DoneWith(v, e) == [op |-> "doneWith", v |-> v, e |-> e]
\* goto one of the labels or go on, by data the model leaves out; goto
Either(labels) == [op |-> "either", labels |-> labels]
Goto(to)       == [op |-> "goto", to |-> to]
\* f(); if (the result is not 1, true) goto to; return one of bs
Call(f)     == [op |-> "call", f |-> f]
Unless(to)  == [op |-> "unless", to |-> to]
Return(bs)  == [op |-> "return", bs |-> bs]
\* if (request == r) goto to; if (sState is one of ss) goto to
When(r, to)        == [op |-> "when", r |-> r, to |-> to]
InState(ss, to)    == [op |-> "inState", ss |-> ss, to |-> to]
SetRadioState(s)   == [op |-> "setRadioState", s |-> s]
\* strcpy(MVersion, ...); memchr(MVersion, 'V', ...) and the digits after it
CopyVersion == [op |-> "copyVersion"]
FindVersion == [op |-> "findVersion"]
\* strrchr(out, ':'), which the text need not have
FindColon   == [op |-> "findColon"]
\* the blocks of a binary file: remain = p3; remain -= length; if (remain > 0)
\* goto to
SetRemain   == [op |-> "setRemain"]
TakeBlock   == [op |-> "takeBlock"]
IfRemain(to) == [op |-> "ifRemain", to |-> to]

Program(init, body) == [init |-> init, body |-> body]

-----------------------------------------------------------------------------
(* Functions of several handlers                                           *)

isRadioOn == Program("null", [
    start |-> <<Send(p_response, "SINGLELINE"), Test(p_response, "error"),
                Line(p_response, "error"), Free(p_response), Return({TRUE, FALSE})>>,
    error |-> <<Free(p_response), Return({FALSE})>>])

\* p_response is not initialized and never freed; success is not looked at
netwrokDataReady == Program("uninit", [
    start |-> <<Send(p_response, "SINGLELINE"), TestErr("error"),
                Line(p_response, "error"), Return({TRUE, FALSE})>>,
    error |-> <<Return({FALSE})>>])

\* every failure ends with the values read so far
airm2m_at_cops == Program("null", [
    start |-> <<Send(p_response, "SINGLELINE"), Test(p_response, "error"),
                Line(p_response, "error"), Goto("error")>>,
    error |-> <<Free(p_response)>>])

\* TRUE is SIM_ABSENT.  One failure is tried again; "PH-NET PIN" returns at once.
getSIMStatus == Program("null", [
    start   |-> <<InState({"OFF", "UNAVAILABLE"}, "done"),
                  Send(p_response, "SINGLELINE"), TestErr("again"), Goto("answered")>>,
    again   |-> <<Send(p_response, "SINGLELINE"), TestErr("done"), Goto("answered")>>,
    answered |-> <<Cme(p_response, "done"), Line(p_response, "done"),
                  Either({"done", "perso"}), Free(p_response), Null(p_response),
                  Goto("done")>>,
    perso   |-> <<Return({FALSE})>>,
    done    |-> <<Free(p_response), Return({TRUE, FALSE})>>])

\* Both pointers are not initialized; only one of them is ever freed.  The
\* firmware before V30 is asked for its DNS in a command of its own.
requestOrSendDataCallList == Program("uninit", [
    start  |-> <<Send(p_response, "MULTILINE"), Test(p_response, "failed"),
                 Scan(p_response, "error"), Free(p_response),
                 Send(p_response, "MULTILINE"), Test(p_response, "failed"),
                 IfNoLine(p_response, "list"), Line(p_response, "error"),
                 FindVersion, Either({"old"}), Line(p_response, "error"),
                 Goto("list")>>,
    old    |-> <<Send(p_response1, "SINGLELINE"), Test(p_response1, "error"),
                 Line(p_response1, "error"), FindColon, Goto("list")>>,
    list   |-> <<Free(p_response), Done("SUCCESS")>>,
    failed |-> <<Done("GENERIC_FAILURE")>>,
    error  |-> <<Done("GENERIC_FAILURE"), Free(p_response)>>])

-----------------------------------------------------------------------------
(* The radio, the SIM and the network                                      *)

\* bandVersion points into the response
requestBaseBandVersion == Program("null", [
    start  |-> <<Send(p_response, "SINGLELINE"), TestErr("failed"), Read(p_response),
                 CopyVersion, DoneWith(p_response, "SUCCESS"), Free(p_response)>>,
    failed |-> <<Done("GENERIC_FAILURE")>>])

\* the connection's first power-off is answered at once; a CFUN=1 that fails
\* may have turned the radio on
requestRadioPower == Program("null", [
    start  |-> <<Either({"done", "on"}), InState({"OFF"}, "done"),
                 Send(p_response, "NO_RESULT"), Test(p_response, "error"),
                 SetRadioState("OFF"), Goto("done")>>,
    on     |-> <<InState({"ON", "UNAVAILABLE"}, "done"),
                 Send(p_response, "NO_RESULT"), Test(p_response, "verify"),
                 SetRadioState("ON"), Goto("done")>>,
    verify |-> <<Call("isRadioOn"), Unless("error"), SetRadioState("ON"),
                 Goto("done")>>,
    done   |-> <<Free(p_response), Done("SUCCESS")>>,
    error  |-> <<Free(p_response), Done("GENERIC_FAILURE")>>])

\* getCardStatusV12 and V6 cannot fail: they describe the SIM as absent or
\* present, in a structure that is freed after the answer
getSimStatusRequest == Program("null", [
    start |-> <<Call("getSIMStatus"), Done("SUCCESS")>>])

\* a refused command is answered as mode 0
requestQueryNetworkSelectionMode == Program("null", [
    start   |-> <<Send(p_response, "SINGLELINE"), Test(p_response, "refused"),
                  Line(p_response, "error"), Done("SUCCESS"), Free(p_response)>>,
    refused |-> <<Done("SUCCESS"), Free(p_response)>>,
    error   |-> <<Free(p_response), Done("GENERIC_FAILURE")>>])

\* Variant: p_response is not reset between the two commands.
requestSignalStrengthKeepsPointer == Program("null", [
    start   |-> <<Send(p_response, "SINGLELINE"), Test(p_response, "refused"),
                  Line(p_response, "error"), Free(p_response),
                  Send(p_response, "SINGLELINE"), Test(p_response, "refused"),
                  Line(p_response, "error"), Done("SUCCESS"), Free(p_response)>>,
    refused |-> <<Done("GENERIC_FAILURE"), Goto("error")>>,
    error   |-> <<Done("GENERIC_FAILURE"), Free(p_response)>>])

\* a refused command is answered twice: "goto error" follows the answer
requestSignalStrength == Program("null", [
    start   |-> <<Send(p_response, "SINGLELINE"), Test(p_response, "refused"),
                  Line(p_response, "error"), Free(p_response), Null(p_response),
                  Send(p_response, "SINGLELINE"), Test(p_response, "refused"),
                  Line(p_response, "error"), Done("SUCCESS"), Free(p_response)>>,
    refused |-> <<Done("GENERIC_FAILURE"), Goto("error")>>,
    error   |-> <<Done("GENERIC_FAILURE"), Free(p_response)>>])

\* VOICE_ and DATA_REGISTRATION_STATE; success is not looked at, and the first
\* response stays in p_response, freed, while the second is asked for
requestRegistrationState == Program("null", [
    start |-> <<When("DATA_REGISTRATION_STATE", "cops"), Goto("state")>>,
    cops  |-> <<Call("airm2m_at_cops"), Free(p_response), Goto("state")>>,
    state |-> <<Send(p_response, "SINGLELINE"), TestErr("error"),
                Line(p_response, "error"), When("DATA_REGISTRATION_STATE", "sysinfo"),
                Goto("done")>>,
    sysinfo |-> <<Free(p_response), Send(p_response, "SINGLELINE"), TestErr("error"),
                Line(p_response, "error"), Goto("done")>>,
    done  |-> <<Done("SUCCESS"), Free(p_response)>>,
    error |-> <<Done("GENERIC_FAILURE"), Free(p_response)>>])

\* success is not looked at, and response[3] has no room for a fourth line
requestOperator == Program("null", [
    start |-> <<Send(p_response, "MULTILINE"), TestErr("error"),
                ThreeLines(p_response, "error"), DoneWith(p_response, "SUCCESS"),
                Free(p_response)>>,
    error |-> <<Done("GENERIC_FAILURE"), Free(p_response)>>])

-----------------------------------------------------------------------------
(* Messages, SIM files and PINs                                            *)

\* Variant: only err is looked at.
requestSendSMSErrOnly == Program("null", [
    start |-> <<Send(p_response, "SINGLELINE"), TestErr("error"), Done("SUCCESS"),
                Free(p_response)>>,
    error |-> <<Done("GENERIC_FAILURE"), Free(p_response)>>])

requestSendSMS == Program("null", [
    start |-> <<Send(p_response, "SINGLELINE"), Test(p_response, "error"),
                Done("SUCCESS"), Free(p_response)>>,
    error |-> <<Done("GENERIC_FAILURE"), Free(p_response)>>])

\* Variant: what succeeds is not freed.
requestWriteSmsToSimKept == Program("null", [
    start |-> <<Send(p_response, "SINGLELINE"), Test(p_response, "error"),
                Done("SUCCESS")>>,
    error |-> <<Done("GENERIC_FAILURE"), Free(p_response)>>])

requestWriteSmsToSim == Program("null", [
    start |-> <<Send(p_response, "SINGLELINE"), Test(p_response, "error"),
                Done("SUCCESS"), Free(p_response)>>,
    error |-> <<Done("GENERIC_FAILURE"), Free(p_response)>>])

\* Variant: the failure goes on into the success.
deleteSmsOnSimBoth == Program("null", [
    start  |-> <<Send(p_response, "NO_RESULT"), Test(p_response, "failed"),
                 Goto("done")>>,
    failed |-> <<Done("GENERIC_FAILURE"), Goto("done")>>,
    done   |-> <<Done("SUCCESS"), Free(p_response)>>])

deleteSmsOnSim == Program("null", [
    start  |-> <<Send(p_response, "NO_RESULT"), Test(p_response, "failed"),
                 Done("SUCCESS"), Goto("done")>>,
    failed |-> <<Done("GENERIC_FAILURE"), Goto("done")>>,
    done   |-> <<Free(p_response)>>])

\* the success goes on into the error label
requestSMSAcknowledge == Program("null", [
    start |-> <<Either({"error"}), Send(nowhere, "NO_RESULT"), Done("SUCCESS"),
                Goto("error")>>,
    error |-> <<Done("GENERIC_FAILURE")>>])

\* each block's response takes the place of the one before, which is not freed
requestReadBinary == Program("null", [
    start |-> <<SetRemain, Goto("block")>>,
    block |-> <<TakeBlock, Send(p_response, "SINGLELINE"), Test(p_response, "error"),
                Line(p_response, "error"), IfRemain("block"), Done("SUCCESS"),
                Free(p_response)>>,
    error |-> <<Done("GENERIC_FAILURE"), Free(p_response)>>])

\* READ BINARY has a function of its own; GET RESPONSE's FCP is converted
requestSIM_IO == Program("null", [
    start  |-> <<Either({"binary"}), Send(p_response, "SINGLELINE"),
                 Test(p_response, "error"), Line(p_response, "error"),
                 DoneWith(p_response, "SUCCESS"), Free(p_response)>>,
    binary |-> <<Call("requestReadBinary")>>,
    error  |-> <<Done("GENERIC_FAILURE"), Free(p_response)>>])

\* a request with another number of strings jumps over the command
requestEnterSimPin == Program("null", [
    start |-> <<Either({"error"}), Send(p_response, "SINGLELINE"),
                Test(p_response, "error"), Done("SUCCESS"), Free(p_response)>>,
    error |-> <<Done("PASSWORD_INCORRECT"), Free(p_response)>>])

\* GET_IMSI, GET_IMEI, DEVICE_IDENTITY, CANCEL_USSD: the answer is the line
numericRequest == Program("null", [
    start  |-> <<Send(p_response, "NUMERIC"), Test(p_response, "failed"),
                 DoneWith(p_response, "SUCCESS"), Goto("done")>>,
    failed |-> <<Done("GENERIC_FAILURE"), Goto("done")>>,
    done   |-> <<Free(p_response)>>])

-----------------------------------------------------------------------------
(* Calls, data calls and the rest                                          *)

\* "success or failure is ignored by the upper layer here."
requestDial       == Program("null", [start |-> <<Send(nowhere, "NO_RESULT"), Done("SUCCESS")>>])
requestHangup     == requestDial
callControl       == requestDial
dtmf              == requestDial
separateConnection == Program("null", [
    start  |-> <<Either({"failed"}), Send(nowhere, "NO_RESULT"), Done("SUCCESS")>>,
    failed |-> <<Done("GENERIC_FAILURE")>>])

\* With pppd_start and the wait for an address (module DataCall) left out:
\* either may end in the error
requestSetupDataCall == Program("null", [
    start |-> <<Send(nowhere, "NO_RESULT"), Call("isRadioOn"), Unless("error"),
                Call("netwrokDataReady"), Unless("error"), Either({"error"}),
                Call("requestOrSendDataCallList"), Free(p_response)>>,
    error |-> <<Done("GENERIC_FAILURE"), Free(p_response)>>])

requestDataCallList == Program("null", [
    start |-> <<Call("requestOrSendDataCallList")>>])

\* answered without a command
alwaysSuccess == Program("null", [start |-> <<Done("SUCCESS")>>])
requestSetPreferredNetworkType == alwaysSuccess
radioCapability                == alwaysSuccess
oemHook                        == alwaysSuccess
notSupported == Program("null", [start |-> <<Done("REQUEST_NOT_SUPPORTED")>>])
requestSendUSSD == notSupported

\* The two dozen commands of initializeCallback; +CREG=2 may be refused
initializeCallback == Program("null", [
    start |-> <<Send(nowhere, "NO_RESULT"), Send(p_response, "NO_RESULT"),
                Test(p_response, "creg"), Goto("free")>>,
    creg  |-> <<Send(nowhere, "NO_RESULT"), Goto("free")>>,
    free  |-> <<Free(p_response), Send(nowhere, "NO_RESULT"), Call("isRadioOn"),
                Unless("off"), SetRadioState("ON")>>,
    off   |-> <<SetRadioState("OFF")>>])

-----------------------------------------------------------------------------
(* onRequest's switch                                                      *)

Programs == [
    isRadioOn |-> isRadioOn,
    netwrokDataReady |-> netwrokDataReady,
    airm2m_at_cops |-> airm2m_at_cops,
    getSIMStatus |-> getSIMStatus,
    requestOrSendDataCallList |-> requestOrSendDataCallList,
    requestBaseBandVersion |-> requestBaseBandVersion,
    requestRadioPower |-> requestRadioPower,
    getSimStatusRequest |-> getSimStatusRequest,
    requestQueryNetworkSelectionMode |-> requestQueryNetworkSelectionMode,
    requestSignalStrength |-> requestSignalStrength,
    requestRegistrationState |-> requestRegistrationState,
    requestOperator |-> requestOperator,
    requestSendSMS |-> requestSendSMS,
    requestWriteSmsToSim |-> requestWriteSmsToSim,
    deleteSmsOnSim |-> deleteSmsOnSim,
    requestSMSAcknowledge |-> requestSMSAcknowledge,
    requestReadBinary |-> requestReadBinary,
    requestSIM_IO |-> requestSIM_IO,
    requestEnterSimPin |-> requestEnterSimPin,
    numericRequest |-> numericRequest,
    requestDial |-> requestDial,
    requestHangup |-> requestHangup,
    callControl |-> callControl,
    dtmf |-> dtmf,
    separateConnection |-> separateConnection,
    requestSetupDataCall |-> requestSetupDataCall,
    requestDataCallList |-> requestDataCallList,
    alwaysSuccess |-> alwaysSuccess,
    requestSetPreferredNetworkType |-> requestSetPreferredNetworkType,
    radioCapability |-> radioCapability,
    oemHook |-> oemHook,
    notSupported |-> notSupported,
    requestSendUSSD |-> requestSendUSSD,
    initializeCallback |-> initializeCallback]

Handler == [
    GET_SIM_STATUS |-> "getSimStatusRequest",
    BASEBAND_VERSION |-> "requestBaseBandVersion",
    RADIO_POWER |-> "requestRadioPower",
    QUERY_NETWORK_SELECTION_MODE |-> "requestQueryNetworkSelectionMode",
    SIGNAL_STRENGTH |-> "requestSignalStrength",
    VOICE_REGISTRATION_STATE |-> "requestRegistrationState",
    DATA_REGISTRATION_STATE |-> "requestRegistrationState",
    OPERATOR |-> "requestOperator",
    SEND_SMS |-> "requestSendSMS",
    WRITE_SMS_TO_SIM |-> "requestWriteSmsToSim",
    DELETE_SMS_ON_SIM |-> "deleteSmsOnSim",
    SMS_ACKNOWLEDGE |-> "requestSMSAcknowledge",
    SIM_IO |-> "requestSIM_IO",
    ENTER_SIM_PIN |-> "requestEnterSimPin",
    GET_IMSI |-> "numericRequest",
    GET_IMEI |-> "numericRequest",
    DEVICE_IDENTITY |-> "numericRequest",
    CANCEL_USSD |-> "numericRequest",
    DIAL |-> "requestDial",
    HANGUP |-> "requestHangup",
    ANSWER |-> "callControl",
    DTMF |-> "dtmf",
    SEPARATE_CONNECTION |-> "separateConnection",
    SETUP_DATA_CALL |-> "requestSetupDataCall",
    DATA_CALL_LIST |-> "requestDataCallList",
    GET_CURRENT_CALLS |-> "alwaysSuccess",
    SET_PREFERRED_NETWORK_TYPE |-> "requestSetPreferredNetworkType",
    GET_RADIO_CAPABILITY |-> "radioCapability",
    OEM_HOOK |-> "oemHook",
    SEND_USSD |-> "requestSendUSSD",
    UNKNOWN |-> "notSupported"]
=============================================================================
