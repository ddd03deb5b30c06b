------------------------------ MODULE LineReader ------------------------------
(***************************************************************************)
(* readline of atchannel.c: how the bytes of the device become lines.  The *)
(* buffer, the position of the next line in it and what is left in it      *)
(* from one call to the next (and from one open of the device to the next: *)
(* at_open does not reset them) are the code's; what a read() returns is   *)
(* any non-empty part of what the modem has written.                       *)
(*                                                                         *)
(* A byte is "nl" (\r or \n), ">", " ", "nul" or one of Text.              *)
(***************************************************************************)
EXTENDS Integers, Sequences, SequencesExt

CONSTANTS
    Size,        \* MAX_AT_RESPONSE
    Text,        \* the bytes that the code does not look at
    Frames,      \* what the modem may write at a time
    MaxFrames,   \* bound: writes of the modem
    MaxSessions  \* bound: opens of the device

Byte == Text \cup {"nl", ">", " ", "nul"}

ASSUME SizeAssumption == Size \in Nat \ {0, 1, 2}
ASSUME TextAssumption == Text \cap {"nl", ">", " ", "nul"} = {}
ASSUME FramesAssumption ==
    /\ Frames \subseteq Seq(Byte \ {"nul"})
    /\ MaxFrames \in Nat /\ MaxSessions \in Nat

VARIABLES
    buf,       \* s_ATBuffer
    cur,       \* s_ATBufferCur - s_ATBuffer
    p_read,    \* readline's p_read - s_ATBuffer: the end of what was read
    place,     \* "call": readline is to be called; "read": it is in read();
               \* "null": it has returned NULL; "overrun": see Overrun
    wire, eof, \* bytes not read yet; the device is gone
    frames, session, \* counters
    prompted,  \* history: a prompt was returned, and the buffer not emptied since
    text,      \* history: the bytes read since the last prompt or ditch
    lines      \* history: the lines returned since then

vars == <<buf, cur, p_read, place, wire, eof, frames, session, prompted, text, lines>>
buffer == <<buf, cur, p_read>>
modem == <<wire, eof, frames, session>>
history == <<prompted, text, lines>>

Init ==
    /\ buf = [j \in 0 .. Size |-> "nul"] /\ cur = 0 /\ p_read = 0
    /\ place = "call"
    /\ wire = <<>> /\ eof = FALSE /\ frames = 0 /\ session = 1
    /\ prompted = FALSE /\ text = <<>> /\ lines = <<>>

-----------------------------------------------------------------------------
\* The first byte of a set S at or after position i
First(b, i, S) ==
    CHOOSE j \in i .. Size : b[j] \in S /\ \A k \in i .. j - 1 : b[k] \notin S

\* skip over leading newlines
Start(b, i) == First(b, i, Byte \ {"nl"})

NoEOL == -1

\* SMS prompt character...not \r terminated
IsPrompt(b, i) == b[i] = ">" /\ b[i + 1] = " " /\ b[i + 2] = "nul"

\* Variants: the prompt is not special; a line goes on to the end of the data.
FindNextEOLPlain(b, i) ==
    LET j == First(b, i, {"nl", "nul"}) IN IF b[j] = "nul" THEN NoEOL ELSE j
FindNextEOLPartial(b, i) == First(b, i, {"nl", "nul"})

\* The end of the next line, the "> " prompt being one without an end of line
FindNextEOL(b, i) ==
    IF IsPrompt(b, i) THEN i + 2
    ELSE LET j == First(b, i, {"nl", "nul"})
         IN  IF b[j] = "nul" THEN NoEOL ELSE j

\* Variant: s_ATBufferCur is left at the end of the line, not behind it.
DeliverAtEOL(b, i, e, bytes) ==
    /\ buf' = [b EXCEPT ![e] = "nul"]
    /\ cur' = e
    /\ place' = "call"
    /\ IF IsPrompt(b, i)
       THEN prompted' = TRUE /\ text' = <<>> /\ lines' = <<>>
       ELSE /\ text' = text \o bytes
            /\ lines' = Append(lines, [k \in 1 .. e - i |-> b[i + k - 1]])
            /\ UNCHANGED prompted

\* readline returns what is between i and e.  A prompt restarts the history.
Deliver(b, i, e, bytes) ==
    /\ buf' = [b EXCEPT ![e] = "nul"]
    /\ cur' = e + 1
    /\ place' = "call"
    /\ IF IsPrompt(b, i)
       THEN prompted' = TRUE /\ text' = <<>> /\ lines' = <<>>
       ELSE /\ text' = text \o bytes
            /\ lines' = Append(lines, [k \in 1 .. e - i |-> b[i + k - 1]])
            /\ UNCHANGED prompted

\* readline with everything in the buffer used up
EnterEmpty ==
    /\ place = "call" /\ cur <= Size
    /\ buf[cur] = "nul"
    /\ cur' = 0 /\ p_read' = 0 /\ buf' = [buf EXCEPT ![0] = "nul"]
    /\ place' = "read"
    /\ prompted' = FALSE
    /\ IF prompted THEN text' = <<>> /\ lines' = <<>> ELSE UNCHANGED <<text, lines>>
    /\ UNCHANGED modem

\* readline with a whole line in the buffer
EnterLine ==
    /\ place = "call" /\ cur <= Size
    /\ buf[cur] # "nul"
    /\ LET i == Start(buf, cur)
           e == FindNextEOL(buf, i)
       IN  e # NoEOL /\ Deliver(buf, i, e, <<>>)
    /\ UNCHANGED <<p_read, modem>>

\* readline with a partial line in the buffer, which is moved up
EnterPartial ==
    /\ place = "call" /\ cur <= Size
    /\ buf[cur] # "nul"
    /\ LET i == Start(buf, cur)
           len == First(buf, i, {"nul"}) - i
       IN  /\ FindNextEOL(buf, i) = NoEOL
           /\ buf' = [j \in 0 .. Size |-> IF j <= len THEN buf[i + j] ELSE buf[j]]
           /\ p_read' = len
    /\ cur' = 0
    /\ place' = "read"
    /\ UNCHANGED <<modem, history>>

\* readline looks at a byte behind s_ATBuffer: anything may follow
Overrun ==
    /\ place = "call" /\ cur > Size
    /\ place' = "overrun"
    /\ UNCHANGED <<buffer, modem, history>>

\* Variants: off by one either way.
RoomOneMore == Size - p_read + 1
RoomOneLess == Size - p_read - 1

\* How much read() may return
Room == Size - p_read

\* "Input line exceeded buffer": ditch it and start over again
Ditch ==
    /\ place = "read" /\ Room = 0
    /\ cur' = 0 /\ p_read' = 0 /\ buf' = [buf EXCEPT ![0] = "nul"]
    /\ prompted' = FALSE /\ text' = <<>> /\ lines' = <<>>
    /\ UNCHANGED <<place, modem>>

\* read() returns n bytes, which go to p_read
Read ==
    /\ place = "read"
    /\ \E n \in 1 .. Len(wire) :
          /\ n <= Room
          /\ LET bytes == SubSeq(wire, 1, n)
                 b == [j \in 0 .. Size |->
                         IF j \in p_read .. p_read + n - 1 THEN bytes[j - p_read + 1]
                         ELSE IF j = p_read + n THEN "nul" ELSE buf[j]]
                 i == Start(b, cur)
                 e == FindNextEOL(b, i)
             IN  IF e = NoEOL
                 THEN /\ buf' = b /\ cur' = i /\ text' = text \o bytes
                      /\ UNCHANGED <<place, prompted, lines>>
                 ELSE Deliver(b, i, e, bytes)
          /\ p_read' = p_read + n
          /\ wire' = SubSeq(wire, n + 1, Len(wire))
    /\ UNCHANGED <<eof, frames, session>>

\* read() returns 0 or an error
ReadEof ==
    /\ place = "read" /\ Room # 0 /\ wire = <<>> /\ eof
    /\ place' = "null"
    /\ UNCHANGED <<buffer, modem, history>>

ReaderStep == \/ EnterEmpty \/ EnterLine \/ EnterPartial \/ Overrun
              \/ Ditch \/ Read \/ ReadEof

\* at_open starts a reader on a new fd; buffer and s_ATBufferCur stay
AtOpen ==
    /\ place = "null" /\ session < MaxSessions
    /\ place' = "call" /\ eof' = FALSE /\ session' = session + 1
    /\ UNCHANGED <<buffer, wire, frames, history>>

\* The modem
Write ==
    /\ ~eof /\ frames < MaxFrames
    /\ frames' = frames + 1
    /\ \E f \in Frames : wire' = wire \o f
    /\ UNCHANGED <<buffer, place, eof, session, history>>

Unplug ==
    /\ ~eof
    /\ eof' = TRUE
    /\ UNCHANGED <<buffer, place, wire, frames, session, history>>

Next == ReaderStep \/ AtOpen \/ Write \/ Unplug
Spec == Init /\ [][Next]_vars

-----------------------------------------------------------------------------
(* Properties *)

\* What bytes say: the lines that are complete, the beginning of one, and how
\* many bytes came since the last end of a line; with one byte more; for each
\* number of bytes of s; and for all of them.
NoLines == [done |-> <<>>, part |-> <<>>, n |-> 0]
Feed(a, c) ==
    IF c # "nl" THEN [a EXCEPT !.part = Append(@, c), !.n = @ + 1]
    ELSE IF a.part = <<>> THEN [a EXCEPT !.n = @ + 1]
    ELSE [done |-> Append(a.done, a.part), part |-> <<>>, n |-> 0]
After(s) ==
    LET after[k \in 0 .. Len(s)] ==
            IF k = 0 THEN NoLines ELSE Feed(after[k - 1], s[k])
    IN  after
Split(s) == After(s)[Len(s)]

\* The values of the state; s_ATBuffer always ends in a \0, so that no scan of
\* it from a position inside leaves it.
TypeOK ==
    /\ buf \in [0 .. Size -> Byte] /\ buf[Size] = "nul"
    /\ cur \in 0 .. Size + 1 /\ p_read \in 0 .. Size
    /\ place = "read" => cur <= Size
    /\ place \in {"call", "read", "null", "overrun"}
    /\ wire \in Seq(Byte \ {"nul"}) /\ eof \in BOOLEAN
    /\ frames \in Nat /\ session \in Nat
    /\ prompted \in BOOLEAN /\ text \in Seq(Byte) /\ lines \in Seq(Seq(Byte))

\* readline returns the modem's lines, each once, whole and in order, however
\* read() cuts them up, and it never waits for more bytes with a line in hand
\* (the last bytes before the device was lost come before those after it); but
\* for what stale bytes make of the lines between a prompt and the next time
\* that everything in the buffer is used up.
EveryLineOnce ==
    ~prompted => /\ IsPrefix(lines, Split(text).done)
                 /\ place = "read" => lines = Split(text).done

\* "Input line exceeded buffer" costs no line that could have been returned,
\* and does not happen before Size bytes have come without the end of a line.
DitchOnlyTooLong ==
    [][ place = "read" /\ p_read' < p_read /\ ~prompted =>
          /\ Split(text).n >= Size
          /\ lines = Split(text).done ]_vars

\* The SMS prompt is returned although no end of line follows it: readline does
\* not wait with a prompt in hand for what the modem will not send.  After a
\* prompt this takes the end of a line, for stale bytes may precede what is read
\* up to there.
PromptSeen ==
    /\ place = "read"
    /\ prompted => \E j \in 1 .. Len(text) : text[j] = "nl"
    => Split(text).part # <<">", " ">>

\* "this will always be <= p_read, and there will be a \0 at *p_read": unless a
\* prompt has been returned and the buffer has not been emptied since.
CurWithinRead ==
    place = "call" /\ ~prompted => cur <= p_read /\ buf[p_read] = "nul"

-----------------------------------------------------------------------------
\* Inductive: without a prompt, s_ATBufferCur is within what was read, whether
\* readline is called or waits.
WithinInv ==
    ~prompted => cur <= p_read /\ buf[p_read] = "nul" /\ place # "overrun"

\* Inductive: what readline holds, from s_ATBufferCur to the next \0, are the
\* last bytes of the text (after a prompt, perhaps with stale ones before); the
\* text before them ends with a line and has become the lines returned.
HeldEnd == First(buf, cur, {"nul"})
UsedUp == Len(text) - (HeldEnd - cur)
HeldInv ==
    /\ place = "read" => /\ HeldEnd = p_read /\ ~IsPrompt(buf, cur)
                         /\ \A j \in cur .. p_read : buf[j] # "nl"
    /\ cur <= Size =>
          /\ \A k \in 1 .. Len(text) : k > UsedUp => text[k] = buf[cur + (k - UsedUp) - 1]
          /\ UsedUp > 0 => text[UsedUp] = "nl"
          /\ ~prompted => /\ UsedUp >= 0
                          /\ After(text)[UsedUp].done = lines
                          /\ place = "read" => After(text)[UsedUp].n >= cur
=============================================================================
