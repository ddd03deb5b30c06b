# A verification project for the reference RIL

The repository is the vendor RIL (radio interface layer) of an Android modem:
a shared library that `rild` loads, that turns Android's telephony requests into
AT commands on a USB serial port and the modem's unsolicited lines into Android's
unsolicited responses, and that starts `pppd` for data calls.

This directory holds TLA+ models of it, TLC configurations that check the models
on small instances, and TLAPS proofs of what matters most. Everything is
translated from the C code; comments and documents of the repository are only
used as claims to be checked.

To run a check: `tlc -workers 2 -config ATChannel.cfg MCATChannel`.
To check the proofs of a module: `tlapm ATChannelProofs.tla`.

## 1. Inventory

### Threads

| thread | runs | started by |
|---|---|---|
| request thread of `rild` | `onRequest`, and every timed callback (`initializeCallback`, `pollSIMState`, `sendCallStateChanged`, ...) | outside |
| main thread | `mainLoop` of `reference-ril.c`: find the device, open it, `at_open`, wait for its loss, again | `RIL_Init` |
| reader thread | `readerLoop` of `atchannel.c`, one per open | `at_open` |
| pppd thread | `pppd_thread_function` of `pppd.c`, one per data call | `pppd_start` |
| log thread | `diagsaver.c` | `start_diagsaver`, which is never called: `diag_need_save` is 0 |

### Components

| component | state | operations | interacts with |
|---|---|---|---|
| AT command channel, `atchannel.c` | `s_commandmutex`, `s_commandcond`, `sp_response`, `s_type`, `s_responsePrefix`, `s_smsPDU`, `s_readerClosed`, `s_fd` | `at_send_command*`, `at_handshake`, `at_open`, `at_close`, `readerLoop`, `processLine`, `onReaderClosed` | called by the request thread and the main thread; the reader thread calls back `onUnsolicited` and `onATReaderClosed` |
| line reader, `atchannel.c` | `s_ATBuffer`, `s_ATBufferCur`, `p_read` | `readline`, `findNextEOL` | called by the reader thread only |
| radio state and main loop, `reference-ril.c` | `s_state_mutex`, `s_state_cond`, `sState`, `s_closed`, `onRequestCount`, timed callbacks | `setRadioState`, `waitForClose`, `mainLoop`, `onATReaderClosed`, `onATTimeout`, `onRadioPowerOn`, `onSIMReady`, `pollSIMState`, `initializeCallback`, `requestRadioPower`, the filter of `onRequest` | all threads |
| request handlers, `reference-ril.c` | the token of the request, the responses of its commands | `request*`, `onRequest` | channel, tokenizer, radio state |
| data call, `reference-ril.c`, `pppd.c` | `pppd`, `pppd_quit`, `pppd_pid`, `pppd_thread`, `s_apn`, `s_pdp_type`, the failure count and `bSetupDataCallCompelete` | `requestSetupDataCall`, `requestDeactivateDataCall`, `pppd_start`, `pppd_stop`, `pppd_thread_function`, `notifyDataCallProcessExit` | channel, processes `pppd` and `chat`, system properties |
| response tokenizer, `at_tok.c` | a cursor into a line | `at_tok_start`, `at_tok_nextint`, `at_tok_nextstr`, `at_tok_nextbool`, `at_tok_hasmore` | handlers |
| USIM FCP decoding, `usim-fcp.c` | offsets into a byte string | the TLV walk and the conversion to the 2G form | `requestSIM_IO` |
| log saver, `diagsaver.c` | the current file and its size | open the log port, copy, rotate | main loop |
| USB lookup, `usb_find.c` | the directories it has left open | `FindUsbDevice` | main loop, pppd thread, the bus |
| helpers, `misc.c` | none | `strStartsWith` | everywhere |
| `chat.c`, `ip-up.c`, `ip-down.c` | separate programs | | run by pppd |

### What is hard, and what makes each part correct

* **Channel.** One command is outstanding and nothing in an answer says which
  command it answers, so everything rests on the mutual exclusion of commands and
  on waking the right thread. Correct means: a thread never sleeps on with its
  answer there; `sp_response` is never gone under the thread that waits; a pending
  command is always cleared; an answer belongs to the command it is handed to,
  except where a command timed out or the modem sent a stray `NO CARRIER`, and
  then by no more than the number of such events; multi-line answers are whole and
  in order; the text of a short message follows its own prompt; every command
  returns and the loss of the device is reported, under the fairness given below.
* **Line reader.** `read()` cuts the stream anywhere, the buffer is finite, the SMS
  prompt has no end of line, and the buffer survives a reopening. Correct means:
  each line once, whole, in order, as soon as it is there; nothing but lines that
  are too long is ditched; the prompt is seen; the position stays inside what was
  read.
* **Radio state and main loop.** `sState` is read by all threads, mostly without its
  mutex, and `s_closed` is written without it; the main loop waits for both.
  Correct means: the loss of the device ends in UNAVAILABLE and a new open; nobody
  puts the radio ON over a closed channel; handlers with commands never run on the
  reader thread; polling ends.
* **Request handlers.** Every command may fail in several ways, which leave the
  response pointer NULL, unchanged or set, and the channel may be lost in between.
  Correct means: each token is completed exactly once on every path, no response is
  used that is not there, none leaks, success is answered for success, every handler
  ends.
* **Data call.** The request thread and the pppd thread share five variables without
  a lock, and processes end when they like. Correct means: one pppd thread at a time;
  a stop ends the process and the thread; an exit that nobody asked for is reported;
  setup ends; nobody signals the RIL itself.
* **Tokenizer, FCP.** Correct means: what the framework is told is what the modem
  meant, however it wrote it; the cursor never leaves the line; nothing is read behind
  the template and the walk over it ends, with offsets of one byte.
* **USB lookup.** sysfs changes between any two steps, and nothing the lookup does is
  checked. Correct means: where nothing changes, the right port is found and opened;
  where something does, the modem is found later, and after every loss again.

`PROJECT.json` lists every hazard at its line, with the properties that cover it or
a note that says why none does.

## 2. Plan

| order | module | content | state |
|---|---|---|---|
| 1 | `ATChannel` | the channel with its threads, the modem and reopening | done |
| 2 | `ATChannelProofs`, `ATChannelAnswers` | its theorems | done |
| 3 | `LineReader`, `LineReaderProofs` | `readline` byte by byte | done |
| 4 | `RilState`, `RilStateProofs` | `setRadioState`, main loop, reader's closing, radio power, polling, `onRequest`'s filter | done |
| 5 | `CommandService` | what the channel promises its callers; `ATChannelProofs` proves that `ATChannel` implements it | done |
| 6 | `DataCall`, `DataCallProofs` | data call, pppd thread and processes, and the theorems | done |
| 7 | `Handlers`, `Requests` | handlers as programs over the results of commands, and the request thread that executes them | done |
| 8 | `AtTok`, `SimFcp`, `Replies` | the tokenizer, the FCP decoders with the widths of their integers, and the handlers that use them | done |
| 9 | `UsbFind`, `UsbFindProofs` | the search for the modem's ports, its callers and the bus, and the theorems | done |
| 10 | `RepliesProofs` | the tokenizer's cursor never leaves the line, for every line; the framework is told what the modem meant, for every reply | done |
| 11 | `RequestsProofs` | that every handler keeps what `Requests` promises, for every number of lines and blocks | done |
| 12 | `Unsolicited` | `onUnsolicited` and the lines of registration, calls and messages it turns into responses | open |

How they compose: `Requests` rests on what `ATChannel` guarantees of a command's
result (`UsableResult`, `EveryCallReturns`) and not on its steps, as `RilState` does;
`Replies` extends `AtTok` and `SimFcp`; `DataCall` has the channel as `s_closed` only;
`ATChannelProofs` proves that the channel is a `CommandService`.

Not planned: `diagsaver.c` (`mainLoop` starts it only if `diag_need_save`, which is 0 and
never set), `chat.c` (vendored unchanged from the pppd distribution, a separate
program), `ip-up.c` and `ip-down.c` (a straight sequence of `property_set`),
`misc.c` and logging (no state), the build files.

## 3. Modules and code

### ATChannel

A line is a record: its kind, the number of the command it answers (0 for none),
how many intermediate lines of that command there are up to it, and the prefix it
starts with. Numbers are what the code does not have; no guard reads them, only
properties do.

| state | code |
|---|---|
| `mutex` | owner of `s_commandmutex` |
| `pc`, `call`, `tries` | where a thread is in `at_send_command_full_nolock`, which `at_send_command*` it came through, the counter of `at_handshake`'s loop |
| `sp_response` | the same, with `s_type` and `s_responsePrefix` |
| `s_smsPDU`, `s_readerClosed`, `s_closed` | the same |
| `reader` | where the reader thread is: in `readline`, in `onReaderClosed`, `at_close`, ... |
| `opening`, `session`, `initQueued` | the main loop in `at_open`; which open; `initializeCallback` is due |
| `toModem`, `modem`, `input`, `eof` | the device: external |
| `ret`, `sent`, `slips`, ... | history and bounded counters |

Atomic steps end where the code gives up `s_commandmutex` or touches something
that is shared without it: `Begin` (up to `writeline`), `Write`, `Check` (the test
of the waiting loop, entered with the mutex, and what follows the loop), `Resume`,
`Timeout` and `Expire` (the timer and getting the mutex back are two steps, so the
answer may come in between), `DrainEnd`. The reader's `Read*` actions are
`readline` and `processLine` on the line, one for each way
the line is disposed of; the teardown is four steps. `AtOpen` and `AtOpened` are
the assignments of `mainLoop` and `at_open` before and after the point where the
other threads see them apart. `SpuriousWake` is what POSIX allows.

Not modelled: the test that the caller is not the reader thread, a `pthread_create`
that fails, the wording of lines (a kind stands for the strings the code
compares with).

`MCATChannel` gives the sets of calls: one of each kind of `at_send_command*`, or the
plain one only.

### LineReader

Bytes are `"nl"` (`\r` or `\n`), `">"`, `" "`, `"nul"` or one of `Text`. `buf`, `cur`
and `p_read` are `s_ATBuffer`, `s_ATBufferCur` and `readline`'s `p_read` as indices.
`EnterEmpty`, `EnterLine` and `EnterPartial` are the three ways `readline` starts,
`Read` is one turn of its loop with any number of bytes that `read()` may return,
`Ditch` is the turn where there is no room, `ReadEof` the end. `AtOpen` starts a new
reader on the same buffer: the code does not reset it, so the end of a line that the
old device left unfinished is what the new one sends first.

After a prompt `s_ATBufferCur` is one past the `\0` (`Deliver` with `e = p_read`), and
the next call looks at a byte that an earlier read left there: the model keeps those
bytes. `prompted` is history: a prompt was returned, and the buffer not used up since; the
modem does not write before it has what it asked for, so the history of lines restarts
there. Where that position is behind the buffer, `Overrun` is what happens and the
model stops, since any byte may follow there.

### RilState

Threads are numbers: 0 is the request thread of `rild`, `n` the reader of the `n`th
open, so that a reader of an earlier open can still be at work when the device has
been opened again. Commands are only what they return: a success needs an open
channel (`Results`), which is what `ATChannel` guarantees with `Outcome`.

| state | code |
|---|---|
| `sState`, `s_closed`, `onRequestCount` | the same (the last counted up to where it matters) |
| `s_readerClosed` | of `atchannel.c`: commands fail |
| `pc`, `arg`, `old` | per thread: its place, `newState` and `oldState` of `setRadioState` |
| `main`, `session` | where `mainLoop` is; which open it is |
| `initDue`, `polls` | timed callbacks queued in `rild` |
| `v12` | the build: `RIL_VERSION` below 12 or not, chosen once |
| `told` | history: RADIO_STATE_CHANGED was sent since the last change |

`SetState` is the critical section of `setRadioState`; `Notify` and `Dispatch` are
the two reads of `sState` after it, each a step, since other threads change it in
between. `s_closed` is written without the mutex; a write that falls into the
critical section has the effect of one before or after it (its writer takes the
mutex next, or is `mainLoop`, which is not waiting then), so the section is one step.
`PollTest`, `StatusTest` and `Cpin` are `pollSIMState` and `getSIMStatus`, on whatever
thread calls them. `GetSimStatus`, `CardStatusTest` and `CardQuery` are
RIL_REQUEST_GET_SIM_STATUS, which asks through `getCardStatus` and `getSIMStatus` in both
builds, whenever the framework wants to know; nothing follows from its answer in the RIL.
`AT+CPIN?` is refused on the reader thread the channel knows of,
which is the last one. `Reopen` (`s_closed = 0`), `AtOpen` and `QueueInit` are `mainLoop`
up to `waitForClose`, which is `WaitForClose` (the test) and the wake-up by `SetState`
or `SpuriousWake`.

Before RIL_VERSION 12 nothing calls `onRadioPowerOn`, so the polling actions are
taken in the other build only. The search for the device is in `UsbFind` (here it is found when
`mainLoop` looks). Not modelled: requests that read `sState` only, `onUnsolicited`'s test of it,
`onATTimeout`, which nothing calls.

### CommandService

What a caller of `at_send_command*` may rely on, without threads, mutex or kinds of
lines: one command is outstanding at a time; lines are read in order; the final
response that is read while a command is outstanding is its answer; a command ends with
its answer, with the loss of the channel or without an answer; no answer is given twice
or kept for a later command. `ATChannel` states `ServiceSpec == Service!Spec` with the
mapping: a command is outstanding while its thread is past `Begin`, the answer is
`sp_response`'s final response, the wire is the reader's input.

### DataCall

| state | code |
|---|---|
| `pc`, `request`, `signo`, `retry` | the request thread in `requestSetupDataCall`, `requestDeactivateDataCall` and `pppd_stop` |
| `sup` | each supervisor: where it is in `pppd_thread_function` |
| `child` | the pppd process it has forked: in its chat script, up (ppp0 has an address), dead, reaped |
| `killers` | children of `pppd_stop` that are to kill a process |
| `pppd_pid`, `pppd_thread`, `pppd_quit`, `bSetupDataCallCompelete`, `nSetupDataCallFailTimes`, `s_closed` | the same |
| `callbacks`, `answer`, `gaveUp`, ... | history and bounds |

A supervisor is known by its number, and so is its process; `Nobody` is 0, of which
`kill` makes the RIL's own process group. Every access to a shared variable that another
thread can see apart from the one before it is a step of its own: `PppdStop` (the first
test), `TestPid` and `ForkKiller` (`pppd_pid` is read twice), `StopWaited` and `StopGaveUp`
(15 s), `Fork`, `SetPid`, `WaitPid` and `ClearPid`, `Notify`. `pppd_sleep` does not sleep
while `pppd_quit` is set, so the 50 polls for `chat` pass at once and the kill helper sends
its second signal right after the first: one step each. `Poll` is a turn of the wait for
an address; its `waitpid` of the RIL's own pid is no way out of it. `ppp_local_ip` is empty
until the first poll and compared with "0.0.0.0" only, so a loop that ends at its first
test goes on as if there were an address. That happens when the channel is lost before the
first poll, or when the old supervisor uses the count up between its reset and
`pppd_stop`: the call is marked complete and the count reset with no address.

`ended` and `missed` are history. `ended` has the supervisors whose pppd has ended of itself, up
to the clearing of `pppd_pid` by them; `missed` is set by such a clearing and reset by each test
of `pppd_pid` in `pppd_stop`. `OwnGroupSpared` may therefore excuse exactly a clearing between
the test and the fork of the same call (the exit itself may be older). `ExitReported` has
two halves: the exit of a complete call ends the completion, and the completion ends only
with a report to the framework or a new setup.

### Handlers and Requests

`Handlers` has each handler, `onRequest`'s switch and the functions they share as a
program: labels, and for each a sequence of instructions (send a command, test its
result, read the line, free the response, complete the token, go to a label). Handlers of
the same shape share one. `Requests` executes them: `stack` is the C stack, with for each
frame its pointers, each `uninit`, `null`, `live` (with its success and its number of
lines) or `freed`. `Answered`, `NotWritten` and `LostWhileWaiting` are the ways a command
may come back, with what each leaves in the pointer; `IllegalUse` is where the C program
has undefined behaviour, which ends the process, and `Restart` is init's.

What a handler's control does not depend on is left out (`Either` where it depends on
data). The faults that are there are named in the properties, so that any other is a
violation: `AnswersTwice` (`requestSMSAcknowledge`, `requestSignalStrength`), `Unchecked`
(a handler that uses a response it did not look at), `Leaky` (functions that lose a
response on some path), `Lenient` (handlers that answer SUCCESS for a refused command,
some on purpose).

### AtTok, SimFcp and Replies

`AtTok` has the functions of `at_tok.c` as operators on a line and a cursor, `SimFcp` the
decoders of `usim-fcp.c` on an offset and the status decoded so far, both with the
code's names. `Replies` is what `isRadioOn`, `requestRegistrationState` and `requestSIM_IO`
do with one reply: the modem *means* something (a radio state, a registration, the
objects of a file), it is written as a line character by character in one of the forms
the code expects, and the handler reads it, a field or an object at a time. So
`AnswerIsReply` compares what the framework is told with what was meant, and no decoder
is compared with itself. `RepliesAssumption` says what a modem may write, as far as it matters
here (`IsSimReply`, `IsRegReply`, `IsRadReply`), and what a card may say of a file (`IsFile`): a
descriptor of two or five bytes, an identifier and a size of two, each at most once, in a
template of at most 255 bytes; TLC evaluates it on the replies of the run.

For GET RESPONSE, `AnswerIsReply` says which bytes of the 2G description the objects of the
template determine (`Told`, `Description`): those that are always the same, the size and
the identifier if the file has them, and the type, structure and record length of an EF
of one of the three structures. For an ICCID file the card refuses to describe, the
objects are those of the answer the code makes up (`IccidObjects`, for builds with
RIL_VERSION above 6, as the conversion is). What it leaves open, since the code says something
else or the modem said nothing:

* an unsolicited registration with a network type at its end, which has as many commas as
  a reply without one and is misread;
* the converted description in builds with a signed `char`, where it is what the stack held;
* the bytes of a description whose object is missing, or not of an EF: also the stack's;
* GET RESPONSE with 9000 and no data, which is answered with a made-up description;
* `+CFUN: 4`, for which it asks only that the radio is not said to be on. `isRadioOn` returns
  -1 there, and its comment (line 3328) has "0 if off, and -1 on error", although the RIL
  itself sends `AT+CFUN=4` (line 401). Its callers (412, 1728, 3470) treat the two alike.

### UsbFind

| state | code |
|---|---|
| `modem`, `tty`, `subdir` | the bus (external): is it plugged, configured, which tty has each interface, in which folder |
| `pc`, `todo`, `ent_t` | each thread in `FindUsbDevice`: the stage, the entries not yet read, the entry found |
| `s_device_path` | `usb_device_name` of `mainLoop`, `serialdevname` of the pppd thread |
| `fd`, `leaked` | what each has open; directories never closed |
| `calm` | history: nothing has disturbed the lookup since it began |

`Examine` is an entry of the first stage, `Second`, `Third` and `Fourth` the later ones,
`Lookup` their beginning. An entry is used after its directory has been closed, and a
local's address is returned: each is a choice between the name, another text
(`"garbled"`) and, with compilers that return NULL for the address of a local, NULL. `Crash` is
`readdir(NULL)`. `Search`, `Open`, `Reopen` are `mainLoop`, `StartPppd`, `Redial`, `Quit` the pppd
thread, `Plug`, `Configure`, `Bind` and `Unplug` the bus.

`calm` requires that the interface had its tty when the lookup began, that a file was to
be had for each `opendir` and that no name was garbled. Not modelled: ids that keep
digits of the entry read before, an `lstat` that fails, devices that appear during the
first scan.

## 4. Runs

| run | instance | what it shows |
|---|---|---|
| `channel` | 1 command thread, 2 calls of any kind and the handshake, 1 unsolicited line of any kind, 1 open | type, no lost wake-up, no NULL in the waiting loop, results usable, answers attributed, whole and in order, the short message's text at its own prompt; the command service implemented |
| `channel_live` | 1 call, fairness | every command returns; the loss of the device is reported |
| `channel_reopen` | 2 opens, commands may go unanswered, `NO CARRIER` | results stay attributed across a reopening |
| `late_ok` (violation) | the pause of the handshake outlasts late answers | see findings |
| `lines` | buffer of 6 bytes, 4 frames of the modem, prompts among them, 2 opens | each line once and whole, nothing but long lines ditched, the prompt seen, the comment on `s_ATBufferCur` until a prompt |
| `radio` | both builds, 2 opens (and the reset of `s_closed` before a third), 2 requests, fairness | a loss is noticed and leads to another open, nothing overrides UNAVAILABLE after it, every change is announced, every open leads out of UNAVAILABLE |
| `reader_power_on` (violation) | 2 opens, RIL_VERSION 12 | see findings |
| `sim_not_polled` (violation) | 1 open, fairness, RIL_VERSION 12 | see findings |
| `data_call` | 3 requests, 2 supervisors, a pppd that ends by itself, 1 loss of the channel, a stop that may give up | one supervisor, deactivated means down, the pid is the child's, the RIL's group spared, failures bounded, exits reported, requests return |
| `requests` | every request, every result of every command, loss and reopening at any moment | tokens completed once, responses used and freed properly, success is true, handlers end |
| `replies` | 3 descriptors, 2 sizes, all orders of up to 4 objects, templates of up to 255 bytes, all forms of the lines, both kinds of `char` | the answer is what the modem meant, but for the cases listed in section 3; nothing is read behind the template, the walk ends |
| `devices` | 3 ttys for 2 interfaces, 5 files, 2 plugs, 1 pppd thread, restarts | an undisturbed search finds and opens the right port; a modem that stays is opened |

### Bounds

* `MaxCalls = 2`, with the handshake's two attempts: up to four commands are written,
  which is enough for an answer to be late by one and by two commands, and for every
  pair of kinds of commands to follow each other.
* `HandshakeRetries = 2` (the code: 8): one attempt that is retried and one that is
  the last.
* `MaxUrc = 1`: an unsolicited line at every point of every command. A second one
  only repeats the step of the first.
* `MaxInfo = 2`: the smallest number for which order and completeness of a multi-line
  answer can go wrong, and for which a second line of a single-line answer is refused.
* `MaxSessions = 2`: one reopening under the feet of a thread of the first open.
* `Size = 6` (the code: 8192) with frames of 3 to 6 bytes: lines that fit, that
  just fit, that do not, that begin and end in every place of the buffer. The code
  never compares with anything but the size. `TypeCorrect` and `CommentHolds` are
  proved for every size.
* `DataCall`: `MaxThreads = 2` gives an old supervisor and a new one, `MaxRequests = 3` a
  setup, another that stops it, and a deactivation, in any order; `MaxPolls = 2` (the code:
  50) and `MaxFails = 1` (the code: 3) let a wait end by each of its ways; the theorems hold
  for all values.
* `Requests`: `LineCounts = {0, 1, 3, 4}` are the numbers the handlers tell apart
  (`requestOperator` has room for three), `MaxBlocks = 2` one repetition of the only loop.
* `Replies`: a template of 255 bytes is the longest a GET RESPONSE can return, and the
  one where the offset, a byte, comes closest to wrapping.
* `UsbFind`: three names for two interfaces, so that a replugged modem may come back
  under old names, new ones or each other's; `MaxFds = 5` is one more than the two threads
  can need, so that one leak is harmless and the second is not.
* Counters occur in guards only: they end the runs and do nothing else.

### Fairness

`FairSpec` assumes of the system: a command thread that can run runs (`WF` of
`ThreadStep`), the timer of `pthread_cond_timedwait` fires (`WF` of `Timeout`), the
request thread dispatches `initializeCallback` (`WF` of `Handshake`), the main loop
runs (`WF`), and the reader thread gets `s_commandmutex` if it is free again and
again (`SF` of `ReaderStep`). The last is more than a POSIX mutex promises. It is what
the code relies on: the mutex is released for as long as a command waits for the
modem, which is long compared with the reader's wish for it, and without it a
handshake that retries could keep the reader out. Of the modem it assumes that it
answers what it has been sent while it is there (`WF` of `ModemAnswer`); it may be
unplugged at any time.

`Quiet` is the stutter of a system in which no thread is in a command, so that an
idle end is not taken for a deadlock; a thread that sleeps for ever is one.
Deadlock is not checked where a modem may leave a command unanswered
(`channel_reopen`) and where `LineReader` stops at its bounds or behind its buffer.

`DataCall` assumes that the request thread, each supervisor and each kill helper run (`WF`
of `RildStep`, `SupStep`, `Kill`) and nothing of requests, pppd's fate and the device: a
`waitpid` may wait for ever. `Requests` assumes that its thread runs and commands return
(`WF` of `Step`; `EveryCallReturns`). `Replies` assumes that its thread runs. `UsbFind`
assumes that `mainLoop` runs and that init starts a crashed rild again, nothing of the
bus or the pppd thread.

`RilState` assumes that every thread runs and every command returns (`EveryCallReturns` of
the channel), that the device comes back, and that callbacks run in the order of their
times (`SF` of `InitializeCallback`): a poll queues itself for a second later, so it
cannot keep `initializeCallback`, queued for now, from its turn. Deadlock is not
checked: the framework and the device may be quiet for ever, and the bounds end.

In `RilState`, `MaxSessions = 2` gives an old and a new reader and, since `Reopen` is not
bounded, the state after the second loss. `EarlyRequests = 2` (the code: 4) and
`MaxRequests = 2` let a power-off be both too early and in time.

## 5. Findings

1. `late_ok`: `at_handshake` sleeps with `s_commandmutex` held "to let the input
   buffer drain any unmatched OK's (they will appear as extraneous unsolicited
   responses)". `processLine` needs that mutex, so nothing is drained during the
   pause, and a late OK of a timed-out attempt answers the first command after it.
2. `reader_power_on`: "onSimReady() and onRadioPowerOn() cannot be called from the AT
   reader thread. Currently, this doesn't happen". `setRadioState` reads `sState` again
   after it has released the mutex. If the old reader gets there when the reopened
   radio has been turned on, it takes that change for its own and runs
   `onRadioPowerOn`.
3. `sim_not_polled`: `onRadioPowerOn` does the "post-AT+CFUN=1 initialization" by calling
   `pollSIMState`, which from RIL_VERSION 12 on returns unless the state is UNAVAILABLE.
   It is called in state ON, so the SIM is never polled and `onSIMReady`, which has SMS
   routed to the host, is never run. (RIL_REQUEST_GET_SIM_STATUS still asks for the SIM's
   state, for the framework; the run counts the polling only.)

Known besides, as limits of what the properties say, each of them met by weakening a run:

* `at_open` assigns variables that "are protected by s_commandmutex" without it: with
  `MaxSessions = 2` a thread of the previous open may find `sp_response` NULL, and
  `NoNullDeref` fails. The run and the theorem have one open.
* No command but the handshake's has a timeout, and `onATTimeout` is called by nobody: with
  `ModemMayDrop = TRUE` `EveryCallReturns` fails. The run's modem answers.
* "this will always be <= p_read, and there will be a \0 at *p_read" does not hold after a
  prompt; `CurWithinRead` excepts that with `prompted`.
* The faults of handlers that `Requests` names (`AnswersTwice`, `Unchecked`, `Leaky`,
  `Lenient`).
* Of a search that is disturbed nothing is promised but `Opens`, and that only while
  `mainLoop` does not hold a name that has become another's (`Misled`) and the files are not
  used up (`Exhausted`). In builds where the address of the local is NULL the
  modem is never opened.
* A setup whose wait for an address ends before its first poll is answered as if it had one
  (see `DataCall`). `FailsBounded` allows for the reset of the count, and `ExitReported` for
  the completion, that come with it.
* `isRadioOn` answers -1, not 0, for `+CFUN: 4`, and an unsolicited registration with a
  network type is misread (see `Replies`).
* The exit of a pppd before `bSetupDataCallCompelete` is set is not reported, and
  `pppd_stop` may give up after 15 s; `OneSupervisor` and its like say `~gaveUp`.

A race that no comment speaks about, and that is therefore a hazard and not a finding:
the reader of an earlier open may set UNAVAILABLE only after the device has been
reopened and initialized, and then nothing takes the state out of it again.
`ComesUp` is about the first change after an open for this reason.

## 6. Proofs

All theorems are checked by TLAPS down to the last leaf and hold for every value of
the constants that satisfies the assumptions named below.

**`ATChannelProofs`.** `TypeCorrect` (`Spec => []TypeOK`), `MutualExclusion` and
`ResultsUsable` assume nothing but the typing of the constants; they hold for any number
of threads, calls and opens. Mutual exclusion is `MutexInv`: the places past the lock
own the mutex, and the owner is at one of them or about to retry the handshake. The
second half is needed since `at_handshake` retries with the mutex held, at the place
where other callers are still waiting for it.

`NoLostAnswer` (`NoLostWakeup`, and that no command finds another pending) and `NeverNull`
(`NoNullDeref`) assume one command
thread (`OneThread`, which is what the program has: every command comes from the request
thread of `rild`) and one open (`MaxSessions = 1`). The second is needed:
`at_open` takes `sp_response` from a thread of the open before.
`PendingInv` strengthens them: `sp_response` is there
exactly while the thread is between `Begin` and its return. From that, `Begin` finds no
command pending, `Check` finds a response, and a signal finds the one thread that waits.

`Refines`: `Spec => ServiceSpec`, under the same two assumptions. Each step
of the channel is one of the service or a stutter; what it needs beyond `PendingInv` and
the types is `SmsInv`: the line after a `+CMT`, which the reader takes without looking,
is no final response, else the service would have an answer the channel has swallowed.

**`ATChannelAnswers`.** `OneThread` is all it assumes: any number of opens, calls, timeouts
and losses. `AnswersMatch`: an answer handed
to a caller answers its own command, or one earlier by at most `slips` commands. The
invariant is about what is still on its way. `InStep`: numbers in the input and in the
modem's queue are ordered, and nothing that answers a command follows its final
response. `LagInv`: what is on its way lags behind the last command by at most `slips`
while an answer is awaited, and by less than that otherwise; so a new command starts
with room for a lag of one more only after a slip. `AnswerInv`: the response being
collected has only lines within that lag. None is inductive without the others: a
final response that is read ends the wait (and so must tighten the bound), which is
right only because what follows it belongs to later commands. `at_open` may take the pending
command away from a thread that waits, but it empties the device at the same time, so nothing
of that command is left to be late; until then `ReaderInv` keeps the lost channel from being
read. `PduAtOwnPrompt` (`PduToOwnPrompt`) follows: with no slip nothing lags, so
the command at the head of the modem's queue, whose prompt it is, is the pending one.
`CompleteAnswers` (`CompleteInOrder`) needs to know of every line of an answer where it is.
`StreamInv`: the lines collected (newest first), those in the input and those the modem
has still to write are numbered without a gap. With it go `HeldInv`, that the pending command,
if there is one, is the thread's own `call`, and `LineInv`, that a line which starts
with the awaited prefix is one of information or unsolicited.

**`LineReaderProofs`.** `TypeCorrect` for every buffer size of at least 3 and every modem:
the buffer stays terminated, reads stay in it. It rests on the lemmas about `First`, the
scan of a terminated buffer, which is shown to exist by the least-element principle,
itself derived from the well-foundedness of the naturals. `CommentHolds`, whatever the modem writes: until a
prompt is returned, and again once the buffer has been used up after it, the comment on
`s_ATBufferCur` holds, and `readline` looks behind the buffer only after a prompt. `WithinInv`
says the same of every place of the reader, not only of `readline`'s beginning: while it waits,
`Read` goes on from there.

`LinesAreRight` (`EveryLineOnce`), `OnlyTooLongDitched` and `PromptNotMissed` (`PromptSeen`) say
what is in the buffer. `UsedUp` is the number of the modem's bytes that are behind
`s_ATBufferCur`. `HeldInv`: the bytes from `s_ATBufferCur` to `HeldEnd` are the ones after
`UsedUp`, byte by byte; none of them ends a line while the reader waits; and the lines
of what is used up are the lines returned. `Split`, the reference that cuts the whole text into
lines, is a recursive function of the text's length, and what the proof needs of it (what one
more byte does, that its lines only grow, that a run without an end of line is
its unfinished part) is proved with `Upward`: what holds at a number, and with
each number at the next, holds above, stated over a set of naturals because an induction
theorem with an operator parameter is out of reach.

**`RilStateProofs`.** `TypeCorrect`; `ChangesAnnounced` (`Announced`): while the framework has
not been told of the last change, some thread is after its unlock with an `oldState` that
differs from `sState`. The thread that changed `sState` last is such a thread, and a
thread that finds no difference is not the last one; this needs `ReadersInv` only for a
new reader, which must not be one that is still to tell. `LossPrevails`
(`ClosedIsUnavailable`) and `LossNoticed` (`CloseNotMissed`). `ReadersInv` says which readers there are: one
that may still find the device gone is that of the last open, and then `s_closed` is
not set and `mainLoop` not reopening; so `s_closed`, once set, stays until `mainLoop`
resets it, and the broadcast of the reader that set it comes while it is set. They
assume nothing but the types of the constants: any number of opens and requests, both
builds.

**`DataCallProofs`.** For any number of supervisors, requests, exits, polls and failures, and
whether or not stops may give up. `TypeCorrect`; `SingleSupervisor`, `PidFollowsChild` and
`DeactivationStops` share `Supervised`: the threads created are the ones numbered up to
`created`; the active one, if any, is `pppd_thread`; `pppd_pid` is that of the one between
`SetPid` and `ClearPid`; and from a stop's end to the next creation there is none (`StopHolds`).
None is inductive alone: a second thread is created only where the stop has seen both
variables 0, which means something only if they say which thread and process there are.
`FailuresBounded` (`Counted`): between the reset of the count by a setup and the start of the
new supervisor the old one may count up to one past the limit, which ends it, and the new
one adds one more at most. A call marked complete only resets the count, with an address or
without. `GroupSpared` (`Spared`): a process that is being killed, or whose supervisor has just reaped
it and not yet cleared `pppd_pid`, is one that the request thread waits for or one in `ended`;
so between the test of `pppd_pid` and the fork, where it does not wait, only the
clearing for a pppd of `ended` can come, and that sets `missed`.

**`UsbFindProofs`.** `TypeCorrect`, and `LookupRight` (`FoundRight`): a lookup that nothing disturbs
finds its interface and opens no other, for any number of names, files, plugs and pppd
threads, whatever is left of the returned name. `BusInv`: a tty belongs to one interface, of a
configured modem. `CalmInv` says for each stage what a calm lookup holds in its hands; with
`FoundRight` it is `Right(t)`, thread by thread, since a thread's step leaves the other's
part alone and every step of the bus ends the calm of the lookups under way.

**`RepliesProofs`.** The tokenizer on any line and the handlers on any set of replies. `Found` and
`Skipped` say where the searches stop, again by the least-element principle; `NextToken`
puts them together for quoted and unquoted tokens: what is returned holds none of one of the two
delimiters, and the cursor left is NULL or in the line and behind the one before, so a loop of
reads ends. `CursorStays` (`CursorInLine`, a part of the checked `TypeOK`) follows each handler
through its calls: every one accepts what the one before it left, NULL included. It
assumes only that the modem's lines are text (`LinesAssumption`).
Under `RepliesAssumption` all three invariants of `Replies` are proved, for every reply and not
only those of the run: `ReplyTypes` (`TypeOK`), `BlockStays` (`BlockNotOverrun`) and
`RightlyAnswered` (`AnswerIsReply`). The proof first says how what is written is laid out. A line
is its fields with commas and gaps between them: `Laid` gives a function `at` of where each field
begins, `LineIs` shows that it exists for what `Joined` makes. A template is its objects in a row
(`TemplateAt`, `ReplyBlock`). Then one lemma for each kind of field says that the tokenizer reads
it back and stops before the next one: `DecimalField` (at most three digits, so that
`strtol`'s values, a recursive function, are found digit by digit), `HexField`, and `SimRead` for
the data, quoted or not, or missing. `CommasAre` counts the commas of a registration, from which the code
concludes which fields there are. `SizeDecoded`, `IdDecoded`, `DescriptorDecoded` and
`CycleDecoded` say what one turn of the decoder learns of one object, for each kind
of it, and that it leaves what was learned of the others; `LengthRead` that the length in one
byte or two is read as it was written.
The inductive invariant is `IInv`. None of the three is inductive alone: that an answer is right means
nothing before it is given, and that the next object lies within the block follows only
if the offset is at the beginning of one. `IInv` says for each point how much has been read and that it
is what was meant: `AtFields` that the cursor is before the field that is next and the fields before it
are in the response; `AtResponse` and `AtClassify` that the status words, then the data, are the reply's;
`AtConvert` that the data block is a template, of the file's objects or of those the code answers for a card
that refuses its ICCID file; `AtDecode` that the offset is where an object ends and the status
holds what the objects before it say; `AtOutput` that it holds what all of them say, which
`DescriptionTold` turns, byte by byte (`EfTold`, `SizeTold`), into what the objects determine of the
fifteen bytes of the 2G description; `TextDescribes` does so for the text that is answered.
`FileOf` is the reply's file or, where the card refused, that of `IccidObjects`. One lemma per action shows that it is
kept. TLC checks what follows from `IInv` and not `IInv` itself, which quantifies over the
functions that lay out a line.

**`RequestsProofs`.** All five invariants of `Requests`, for any number of lines in a response and
any number of blocks: `TypeCorrect`, `AnsweredExactlyOnce`, `UsesChecked`,
`ResponsesAlwaysFreed`, `SuccessAlwaysTrue`. The programs of `Handlers` are finite, but the
responses they run on are not, so the proof is a proof outline, as in Hoare logic.
`Outline` puts a mark before every instruction of every program and at the end of each label: what
is known there of `p_response` (`Is` says what a mark means: "sentLine" that the pointer is
NULL or live, and if the command did not fail live and, if it succeeded, with a line). `Told` says which
instruction of a label completes the token; `Failing` names the labels where a command may have
failed; `Due` where a block is left to be read. `Good(f)` is that each instruction of `f` leads
from its mark to the next one and to those of the labels it may go to, uses the pointer only as the mark
allows or `Unchecked` excuses, loses none unless `f` is `Leaky`, and counts the token right. It
is proved program by program: a rule for each instruction, then one lemma `<f>Good` for each
of the 34 programs (equal ones share it), and `AllGood` joins them.
The generic half never looks at a program. `Inv` says that every frame of the stack is at a point
of its program and what its mark says is true of it (`StackInv`, `Known`), that the frame at the bottom
is the request's handler (`BottomInv`), that the token has been completed as often as the top
frame's point says (`AnswersInv`), that after a refused command a handler that is not lenient is
at a test that will see it or on a failing path (`TruthInv`), and that a block is taken only
where one is due (`BlockInv`). One lemma per action shows that `Good` makes it inductive. None of
the five is inductive alone: a token completed twice, say, is excluded only by where
each path has been. The outline of a handler that calls another rests on the callee's:
`Waiting` says what the caller's point is while it waits. Proved from `BoundsAssumption` alone.

**Model-checked only.** Liveness (`EveryCallReturns`, `LossIsReported`, `LossReopens`, `ComesUp`,
`ExitReported`, `RequestReturns`, `HandlerReturns`, `ReplyAnswered`, `Opens`): fairness is out of the
prover's reach, and so is `ENABLED`. Every safety invariant and every action property that a passing run checks is
stated by a theorem.

## 7. Not modelled

`onUnsolicited` (planned) and `requestGetCurrentCalls`, which nothing calls; the memory of
texts and command strings; builds with RIL_VERSION 4 and below or
AIRM2M_REPORT_SIGNAL_STRENGTH; `diagsaver.c`, which never runs; `chat.c`, `ip-up.c`,
`ip-down.c`, `misc.c`, the build files and the guide, for the reasons in the plan.

Of the hazards in PROJECT.json nine have no property, each with the reason: a final response
between the two lines of a `+CMT`, a lost answer (no command but the handshake's has a
timeout), the old device's bytes before the new one's first line, a radio state set late by an
earlier open, the pointers into a request that was freed, the FCP decoder where `char` is signed,
a registration with a network type in an unsolicited line, directories never closed, and the
name `mainLoop` keeps. Most of these are what the code does; a property that held would have to
leave them out.
