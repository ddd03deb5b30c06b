-------------------------- MODULE ATChannelAnswers ---------------------------
(***************************************************************************)
(* With one command thread, and however often the device is reopened,      *)
(* every answer ATChannel hands to a caller is its own command's, or one   *)
(* that is late by no more commands than were abandoned: AnswerMatches,    *)
(* from the order of what travels between the modem and the reader.  As    *)
(* long as nothing slipped, the text of a short message goes to the prompt *)
(* of its own command (PduToOwnPrompt), and a multi-line answer is whole   *)
(* and in order (CompleteInOrder), from the lines that were read and those *)
(* that are still on their way.                                            *)
(***************************************************************************)
EXTENDS ATChannelProofs

\* The numbers of what travels are numbers.
LEMMA Numbers ==
  ASSUME TypeOK
  PROVE  /\ sent \in Nat /\ slips \in Nat
         /\ input \in Seq(LineType) /\ toModem \in Seq(CommandType)
         /\ \A i \in 1 .. Len(input) : input[i] \in LineType /\ input[i].n \in Nat
         /\ \A i \in 1 .. Len(toModem) : toModem[i] \in CommandType /\ toModem[i].n \in Nat
<1>1. \A l \in LineType : l.n \in Nat
  BY DEF LineType
<1>2. \A c \in CommandType : c.n \in Nat
  BY DEF CommandType
<1> QED BY <1>1, <1>2 DEF TypeOK, DeviceOK, CountersOK

LEMMA NumbersNext ==
  ASSUME TypeOK, [Next]_vars
  PROVE  /\ sent' \in Nat /\ slips' \in Nat
         /\ \A i \in 1 .. Len(input') : input'[i].n \in Nat
         /\ \A i \in 1 .. Len(toModem') : toModem'[i].n \in Nat
<1>1. /\ input' \in Seq(LineType) /\ toModem' \in Seq(CommandType)
      /\ sent' \in Nat /\ slips' \in Nat
  BY TypeStep DEF TypeOK, DeviceOK, CountersOK
<1>2. \A l \in LineType : l.n \in Nat
  BY DEF LineType
<1>3. \A c \in CommandType : c.n \in Nat
  BY DEF CommandType
<1>4. /\ \A i \in 1 .. Len(input') : input'[i] \in LineType
      /\ \A i \in 1 .. Len(toModem') : toModem'[i] \in CommandType
  BY <1>1
<1> QED BY <1>1, <1>2, <1>3, <1>4

LEMMA TailFacts ==
  ASSUME NEW S, NEW s \in Seq(S), s # <<>>
  PROVE  /\ Len(s) \in Nat /\ Len(s) >= 1
         /\ Len(Tail(s)) = Len(s) - 1
         /\ \A i \in 1 .. Len(Tail(s)) : i + 1 \in 1 .. Len(s) /\ Tail(s)[i] = s[i + 1]
  OBVIOUS

-----------------------------------------------------------------------------
(* Order *)

\* Reading a line keeps the order.
LEMMA InStepRead ==
  ASSUME TypeOK, InStep, input # <<>>, input' = Tail(input), UNCHANGED <<toModem, sent>>
  PROVE  InStep'
<1>1. /\ Len(input') = Len(input) - 1 /\ Len(input) \in Nat
      /\ \A i \in 1 .. Len(input') : i + 1 \in 1 .. Len(input) /\ input'[i] = input[i + 1]
  BY Numbers, TailFacts DEF TypeOK, DeviceOK
<1>2. \A i \in 1 .. Len(input') : input'[i].n <= sent'
  BY <1>1 DEF InStep
<1>3. ASSUME NEW i \in 1 .. Len(input'), NEW j \in 1 .. Len(input'), i < j, input'[j].n # 0
      PROVE  Precedes(input'[i], input'[j].n)
  <2>1. i + 1 \in 1 .. Len(input) /\ j + 1 \in 1 .. Len(input) /\ i + 1 < j + 1
    BY <1>1, <1>3
  <2> QED BY <1>1, <1>3, <2>1 DEF InStep
<1>4. \A i \in 1 .. Len(input'), j \in 1 .. Len(toModem') : Precedes(input'[i], toModem'[j].n)
  BY <1>1 DEF InStep
<1>5. /\ \A i \in 1 .. Len(toModem') : toModem'[i].n \in 1 .. sent'
      /\ \A i, j \in 1 .. Len(toModem') : i < j => toModem'[i].n < toModem'[j].n
  BY DEF InStep
<1> QED BY <1>2, <1>3, <1>4, <1>5 DEF InStep

\* A command that gets the next number keeps the order.
LEMMA InStepWrite ==
  ASSUME TypeOK, InStep, NEW c \in CommandType, c.n = sent + 1,
         toModem' = Append(toModem, c), sent' = sent + 1, UNCHANGED input
  PROVE  InStep'
<1>1. /\ Len(toModem') = Len(toModem) + 1 /\ toModem'[Len(toModem) + 1] = c
      /\ \A i \in 1 .. Len(toModem) : toModem'[i] = toModem[i]
  BY Numbers
<1> USE Numbers DEF InStep, Precedes
<1>2. \A i \in 1 .. Len(toModem') : toModem'[i].n \in 1 .. sent'
  BY <1>1
<1>3. \A i \in 1 .. Len(input), j \in 1 .. Len(toModem') : Precedes(input[i], toModem'[j].n)
  BY <1>1
<1>4. \A i, j \in 1 .. Len(toModem') : i < j => toModem'[i].n < toModem'[j].n
  BY <1>1
<1> QED BY <1>2, <1>3, <1>4

\* A line of the modem about its oldest command keeps the order.
LEMMA InStepSays ==
  ASSUME TypeOK, InStep, NEW l \in LineType, input' = Append(input, l),
         \/ l.n = 0 /\ UNCHANGED toModem
         \/ toModem # <<>> /\ l.n = toModem[1].n
            /\ \/ ~Final(l) /\ UNCHANGED toModem
               \/ toModem' = Tail(toModem),
         UNCHANGED sent
  PROVE  InStep'
<1>1. /\ Len(input') = Len(input) + 1 /\ input'[Len(input) + 1] = l
      /\ \A i \in 1 .. Len(input) : input'[i] = input[i]
  BY Numbers
<1> USE Numbers DEF InStep, Precedes
<1>2. l.n \in Nat /\ l.n <= sent
  BY DEF LineType
<1>3. \A i \in 1 .. Len(input') : input'[i].n <= sent'
  BY <1>1, <1>2
<1>4. \A i, j \in 1 .. Len(input') :
         i < j /\ input'[j].n # 0 => Precedes(input'[i], input'[j].n)
  <2>1. \A i \in 1 .. Len(input) : l.n # 0 => Precedes(input[i], l.n)
    BY <1>2
  <2> QED BY <1>1, <2>1
<1>5. CASE UNCHANGED toModem /\ (l.n = 0 \/ (toModem # <<>> /\ l.n = toModem[1].n /\ ~Final(l)))
  <2>1. \A j \in 1 .. Len(toModem) : Precedes(l, toModem[j].n)
    BY <1>2, <1>5
  <2> QED BY <1>1, <1>3, <1>4, <1>5, <2>1
<1>6. CASE toModem # <<>> /\ l.n = toModem[1].n /\ toModem' = Tail(toModem)
  <2>1. /\ Len(toModem') = Len(toModem) - 1 /\ Len(toModem) \in Nat /\ Len(toModem) >= 1
        /\ \A i \in 1 .. Len(toModem') : i + 1 \in 1 .. Len(toModem) /\ toModem'[i] = toModem[i + 1]
    BY <1>6, TailFacts
  <2>2. ASSUME NEW j \in 1 .. Len(toModem') PROVE l.n < toModem'[j].n
    <3>1. j + 1 \in 1 .. Len(toModem) /\ 1 \in 1 .. Len(toModem) /\ 1 < j + 1
      BY <2>1
    <3>2. toModem[1].n < toModem[j + 1].n
      BY <3>1
    <3> QED BY <1>6, <2>1, <3>2
  <2>3. ASSUME NEW j \in 1 .. Len(toModem') PROVE Precedes(l, toModem'[j].n)
    <3>1. toModem'[j].n \in Nat
      BY <2>1
    <3>2. l.n < toModem'[j].n
      BY <2>2
    <3> QED BY <1>2, <3>1, <3>2
  <2>4. \A i \in 1 .. Len(toModem') : toModem'[i].n \in 1 .. sent'
    BY <2>1
  <2>6. ASSUME NEW i \in 1 .. Len(toModem'), NEW j \in 1 .. Len(toModem'), i < j
        PROVE  toModem'[i].n < toModem'[j].n
    <3>1. i + 1 \in 1 .. Len(toModem) /\ j + 1 \in 1 .. Len(toModem) /\ i + 1 < j + 1
      BY <2>1, <2>6
    <3> QED BY <2>1, <3>1
  <2>5. \A i \in 1 .. Len(input), j \in 1 .. Len(toModem') : Precedes(input[i], toModem'[j].n)
    BY <2>1
  <2> QED BY <1>1, <1>3, <1>4, <2>3, <2>4, <2>5, <2>6
<1> QED BY <1>5, <1>6

\* Losing the device, or a command, keeps the order.
LEMMA InStepLose ==
  ASSUME TypeOK, InStep, UNCHANGED sent,
         \/ input' \in {input, <<>>} /\ toModem' = <<>>
         \/ toModem # <<>> /\ toModem' = Tail(toModem) /\ UNCHANGED input
  PROVE  InStep'
<1> USE Numbers DEF InStep, Precedes
<1>1. CASE input' \in {input, <<>>} /\ toModem' = <<>>
  <2>1. Len(toModem') = 0 /\ (input' = input \/ Len(input') = 0)
    BY <1>1
  <2> QED BY <2>1
<1>2. CASE toModem # <<>> /\ toModem' = Tail(toModem) /\ UNCHANGED input
  <2>1. /\ Len(toModem') = Len(toModem) - 1 /\ Len(toModem) \in Nat
        /\ \A i \in 1 .. Len(toModem') : i + 1 \in 1 .. Len(toModem) /\ toModem'[i] = toModem[i + 1]
    BY <1>2, TailFacts
  <2>2. \A i \in 1 .. Len(toModem') : toModem'[i].n \in 1 .. sent'
    BY <2>1
  <2>3. ASSUME NEW i \in 1 .. Len(toModem'), NEW j \in 1 .. Len(toModem'), i < j
        PROVE  toModem'[i].n < toModem'[j].n
    <3>1. i + 1 \in 1 .. Len(toModem) /\ j + 1 \in 1 .. Len(toModem) /\ i + 1 < j + 1
      BY <2>1, <2>3
    <3> QED BY <2>1, <3>1
  <2>4. \A i \in 1 .. Len(input), j \in 1 .. Len(toModem') : Precedes(input[i], toModem'[j].n)
    BY <2>1
  <2> QED BY <1>2, <2>2, <2>3, <2>4
<1> QED BY <1>1, <1>2

\* What each kind of step does to what travels.
LEMMA Travel ==
  ASSUME TypeOK, [Next]_vars
  PROVE  \/ UNCHANGED <<input, toModem, sent>>
         \/ input # <<>> /\ input' = Tail(input) /\ UNCHANGED <<toModem, sent>>
         \/ \E t \in Threads : /\ Write(t) /\ ~s_readerClosed /\ ~eof
                               /\ toModem' = Append(toModem, [n |-> sent + 1, p |-> call[t].prefix,
                                                              sms |-> call[t].sms])
                               /\ sent' = sent + 1 /\ UNCHANGED input
         \/ /\ UNCHANGED sent
            /\ \E l \in LineType :
                  /\ input' = Append(input, l)
                  /\ \/ l.n = 0 /\ UNCHANGED toModem
                     \/ toModem # <<>> /\ l.n = toModem[1].n
                        /\ \/ ~Final(l) /\ UNCHANGED toModem
                           \/ toModem' = Tail(toModem)
         \/ /\ UNCHANGED <<toModem, sent>>
            /\ \E l, m \in LineType : l.n = 0 /\ m.n = 0 /\ input' = input \o <<l, m>>
         \/ /\ UNCHANGED sent
            /\ \/ input' \in {input, <<>>} /\ toModem' = <<>>
               \/ toModem # <<>> /\ toModem' = Tail(toModem) /\ UNCHANGED input
<1>1. CASE \E t \in Threads : Write(t)
  BY <1>1 DEF Write
<1>2. CASE \E t \in Threads : Call(t) \/ Handshake(t) \/ Begin(t) \/ Check(t) \/ Resume(t)
              \/ Expire(t) \/ DrainEnd(t) \/ SpuriousWake(t) \/ Timeout(t)
  BY <1>2 DEF Call, Handshake, Begin, Check, Resume, Expire, DrainEnd, SpuriousWake, Timeout,
              device
<1>3. CASE ReadUnsolicited \/ ReadFinal \/ ReadPrompt \/ ReadIntermediate \/ ReadSms \/ ReadPdu
  BY <1>3 DEF ReadUnsolicited, ReadFinal, ReadPrompt, ReadIntermediate, ReadSms, ReadPdu,
              TakeLine
<1>4. CASE ReadEof \/ OnReaderClosed \/ AtClose \/ SetClosed \/ UNCHANGED vars
  BY <1>4 DEF ReadEof, OnReaderClosed, AtClose, SetClosed, vars, device
<1>5. CASE MainStep
  BY <1>5 DEF MainStep, AtOpen, AtOpened, device
<1>6. CASE ModemAnswer
  <2> DEFINE line(k, i, p) == [k |-> k, n |-> Head(toModem).n, i |-> i, p |-> p]
  <2>1. Working /\ Head(toModem).n \in Nat /\ Head(toModem).p \in PrefixKinds /\ modem.info \in Nat
        /\ toModem # <<>>
    <3>1. Working
      BY <1>6 DEF ModemAnswer, ModemInfo, ModemPrompt, ModemFinal
    <3>2. Head(toModem) \in CommandType
      BY <3>1 DEF Working, TypeOK, DeviceOK
    <3> QED BY <3>1, <3>2 DEF CommandType, TypeOK, DeviceOK, Working
  <2>2. \A k \in Kinds, i \in Nat, p \in PrefixKinds : line(k, i, p) \in LineType
    BY <2>1 DEF LineType
  <2>3. Head(toModem) = toModem[1]
    BY <2>1, Numbers
  <2>4. UNCHANGED sent
    BY <1>6 DEF ModemAnswer, ModemInfo, ModemPrompt, ModemFinal, ModemFrame
  <2>5. CASE ModemInfo
    <3>1. input' = Append(input, line("info", modem.info + 1, Head(toModem).p)) /\ UNCHANGED toModem
      BY <2>5 DEF ModemInfo, Says
    <3>2. line("info", modem.info + 1, Head(toModem).p) \in LineType
      BY <2>1, <2>2 DEF Kinds
    <3>3. ~Final(line("info", modem.info + 1, Head(toModem).p))
      BY DEF Final
    <3> HIDE DEF line
    <3>4. line("info", modem.info + 1, Head(toModem).p).n = toModem[1].n
      BY <2>3 DEF line
    <3> QED BY <2>1, <2>4, <3>1, <3>2, <3>3, <3>4
  <2>6. CASE ModemPrompt
    <3>1. input' = Append(input, line("prompt", 0, "none")) /\ UNCHANGED toModem
      BY <2>6 DEF ModemPrompt, Says
    <3>2. line("prompt", 0, "none") \in LineType
      BY <2>1, <2>2 DEF Kinds, PrefixKinds
    <3>3. ~Final(line("prompt", 0, "none"))
      BY DEF Final
    <3> HIDE DEF line
    <3>4. line("prompt", 0, "none").n = toModem[1].n
      BY <2>3 DEF line
    <3> QED BY <2>1, <2>4, <3>1, <3>2, <3>3, <3>4
  <2>7. CASE ModemFinal
    <3>1. PICK k \in {"ok", "error"} : input' = Append(input, line(k, modem.info, "none"))
      BY <2>7 DEF ModemFinal, Says
    <3>2. line(k, modem.info, "none") \in LineType
      BY <2>1, <2>2 DEF Kinds, PrefixKinds
    <3>3. toModem' = Tail(toModem)
      BY <2>7 DEF ModemFinal
    <3> HIDE DEF line
    <3>4. line(k, modem.info, "none").n = toModem[1].n
      BY <2>3 DEF line
    <3> QED BY <2>1, <2>4, <3>1, <3>2, <3>3, <3>4
  <2> QED BY <1>6, <2>5, <2>6, <2>7 DEF ModemAnswer
<1>7. CASE ModemUrc
  <2> DEFINE line(k, p) == [k |-> k, n |-> 0, i |-> 0, p |-> p]
  <2>1. \A k \in Kinds, p \in PrefixKinds : line(k, p) \in LineType /\ line(k, p).n = 0
    BY DEF LineType
  <2>2. "cmt" \in Kinds /\ "urc" \in Kinds /\ "none" \in PrefixKinds /\ "P" \in PrefixKinds
        /\ UrcKinds \subseteq Kinds
    BY BoundsAssumption DEF Kinds, PrefixKinds
  <2>3. UNCHANGED <<toModem, sent>>
    BY <1>7 DEF ModemUrc, ModemFrame
  <2>4. PICK k \in UrcKinds :
           \/ \E p \in {"none", "P"} : input' = Append(input, line(k, p))
           \/ input' = input \o <<line("cmt", "none"), line("urc", "none")>>
    BY <1>7 DEF ModemUrc, Says
  <2> HIDE DEF line
  <2>5. CASE \E p \in {"none", "P"} : input' = Append(input, line(k, p))
    BY <2>1, <2>2, <2>3, <2>5
  <2>6. CASE input' = input \o <<line("cmt", "none"), line("urc", "none")>>
    <3>1. line("cmt", "none") \in LineType /\ line("urc", "none") \in LineType
          /\ line("cmt", "none").n = 0 /\ line("urc", "none").n = 0
      BY <2>1, <2>2
    <3> QED BY <2>3, <2>6, <3>1
  <2> QED BY <2>4, <2>5, <2>6
<1>8. CASE ModemDrop \/ Unplug
  BY <1>8 DEF ModemDrop, Unplug, ModemFrame, Working
<1> QED BY <1>1, <1>2, <1>3, <1>4, <1>5, <1>6, <1>7, <1>8
        DEF Next, Quiet, ThreadStep, ReaderStep

\* Two lines of no command at the end keep the order.
LEMMA InStepPair ==
  ASSUME TypeOK, InStep, NEW l \in LineType, NEW m \in LineType, l.n = 0, m.n = 0,
         input' = input \o <<l, m>>, UNCHANGED <<toModem, sent>>
  PROVE  InStep'
<1>1. /\ Len(input') = Len(input) + 2
      /\ \A i \in 1 .. Len(input) : input'[i] = input[i]
      /\ input'[Len(input) + 1] = l /\ input'[Len(input) + 2] = m
  BY Numbers
<1>2. \A i \in 1 .. Len(input') : i \in 1 .. Len(input) \/ input'[i].n = 0
  BY <1>1, Numbers
<1> USE Numbers DEF InStep
<1>3. \A i \in 1 .. Len(input') : input'[i].n <= sent'
  BY <1>1, <1>2
<1>4. ASSUME NEW i \in 1 .. Len(input'), NEW j \in 1 .. Len(input'), i < j, input'[j].n # 0
      PROVE  Precedes(input'[i], input'[j].n)
  <2>1. j \in 1 .. Len(input) /\ i \in 1 .. Len(input)
    BY <1>2, <1>4
  <2> QED BY <1>1, <1>4, <2>1
<1>5. ASSUME NEW i \in 1 .. Len(input'), NEW j \in 1 .. Len(toModem')
      PROVE  Precedes(input'[i], toModem'[j].n)
  <2>1. CASE i \in 1 .. Len(input)
    BY <1>1, <2>1
  <2>2. CASE input'[i].n = 0
    BY <2>2 DEF Precedes
  <2> QED BY <1>2, <2>1, <2>2
<1> QED BY <1>3, <1>4, <1>5

LEMMA InStepStep ==
  ASSUME TypeOK, InStep, [Next]_vars
  PROVE  InStep'
<1>1. CASE UNCHANGED <<input, toModem, sent>>
  BY <1>1 DEF InStep
<1>2. CASE input # <<>> /\ input' = Tail(input) /\ UNCHANGED <<toModem, sent>>
  BY <1>2, InStepRead
<1>3. ASSUME NEW t \in Threads,
             toModem' = Append(toModem, [n |-> sent + 1, p |-> call[t].prefix, sms |-> call[t].sms]),
             sent' = sent + 1, UNCHANGED input
      PROVE  InStep'
  <2> DEFINE c == [n |-> sent + 1, p |-> call[t].prefix, sms |-> call[t].sms]
  <2>1. c \in CommandType /\ c.n = sent + 1
    BY DEF TypeOK, ThreadsOK, CountersOK, CallType, CommandType
  <2> HIDE DEF c
  <2>2. toModem' = Append(toModem, c)
    BY <1>3 DEF c
  <2> QED BY <1>3, <2>1, <2>2, InStepWrite
<1>4. ASSUME NEW l \in LineType, input' = Append(input, l), UNCHANGED sent,
             \/ l.n = 0 /\ UNCHANGED toModem
             \/ toModem # <<>> /\ l.n = toModem[1].n
                /\ \/ ~Final(l) /\ UNCHANGED toModem
                   \/ toModem' = Tail(toModem)
      PROVE  InStep'
  BY <1>4, InStepSays
<1>5. ASSUME NEW l \in LineType, NEW m \in LineType, l.n = 0, m.n = 0,
             input' = input \o <<l, m>>, UNCHANGED <<toModem, sent>>
      PROVE  InStep'
  BY <1>5, InStepPair
<1>6. CASE /\ UNCHANGED sent
           /\ \/ input' \in {input, <<>>} /\ toModem' = <<>>
              \/ toModem # <<>> /\ toModem' = Tail(toModem) /\ UNCHANGED input
  BY <1>6, InStepLose
<1> QED BY <1>1, <1>2, <1>3, <1>4, <1>5, <1>6, Travel

-----------------------------------------------------------------------------
(* Lag *)

\* Only a write leaves what travels further behind, and by one.
LEMMA TravelBehind ==
  ASSUME TypeOK, [Next]_vars,
         NEW lag \in Int, Behind(lag), lag + 1 >= 0
  PROVE  /\ (\A t \in Threads : ~Write(t) \/ s_readerClosed \/ eof) => Behind(lag)'
         /\ Behind(lag + 1)'
<1> USE Numbers DEF Behind
<1>1. CASE UNCHANGED <<input, toModem, sent>>
  BY <1>1
<1>2. CASE input # <<>> /\ input' = Tail(input) /\ UNCHANGED <<toModem, sent>>
  <2>1. /\ Len(input') = Len(input) - 1
        /\ \A i \in 1 .. Len(input') : i + 1 \in 1 .. Len(input) /\ input'[i] = input[i + 1]
    BY <1>2, TailFacts
  <2> QED BY <1>2, <2>1
<1>3. ASSUME NEW t \in Threads, Write(t), ~s_readerClosed, ~eof,
             toModem' = Append(toModem, [n |-> sent + 1, p |-> call[t].prefix, sms |-> call[t].sms]),
             sent' = sent + 1, UNCHANGED input
      PROVE  Behind(lag + 1)'
  <2> DEFINE c == [n |-> sent + 1, p |-> call[t].prefix, sms |-> call[t].sms]
  <2>1. c.n = sent + 1
    OBVIOUS
  <2>2. toModem' = Append(toModem, c)
    BY <1>3
  <2> HIDE DEF c
  <2>3. /\ Len(toModem') = Len(toModem) + 1 /\ toModem'[Len(toModem) + 1] = c
        /\ \A i \in 1 .. Len(toModem) : toModem'[i] = toModem[i]
    BY <2>2
  <2>4. \A i \in 1 .. Len(input') : input'[i].n # 0 => sent' - input'[i].n <= lag + 1
    BY <1>3
  <2>5. \A i \in 1 .. Len(toModem') : sent' - toModem'[i].n <= lag + 1
    <3> SUFFICES ASSUME NEW i \in 1 .. Len(toModem')
                 PROVE  sent' - toModem'[i].n <= lag + 1
      OBVIOUS
    <3>0. i \in 1 .. Len(toModem) \/ i = Len(toModem) + 1
      BY <2>3
    <3>1. CASE i \in 1 .. Len(toModem)
      <4>1. toModem'[i] = toModem[i] /\ sent - toModem[i].n <= lag /\ toModem[i].n \in Nat
        BY <2>3, <3>1
      <4> QED BY <1>3, <4>1
    <3>2. CASE i = Len(toModem) + 1
      BY <1>3, <2>1, <2>3, <3>2
    <3> QED BY <3>0, <3>1, <3>2
  <2> QED BY <2>4, <2>5
<1>4. ASSUME NEW l \in LineType, input' = Append(input, l), UNCHANGED sent,
             \/ l.n = 0 /\ UNCHANGED toModem
             \/ toModem # <<>> /\ l.n = toModem[1].n
                /\ \/ ~Final(l) /\ UNCHANGED toModem
                   \/ toModem' = Tail(toModem)
      PROVE  Behind(lag)'
  <2>1. /\ Len(input') = Len(input) + 1 /\ input'[Len(input) + 1] = l
        /\ \A i \in 1 .. Len(input) : input'[i] = input[i]
    BY <1>4
  <2>2. l.n # 0 => sent - l.n <= lag
    BY <1>4
  <2>3. \A i \in 1 .. Len(input') : input'[i].n # 0 => sent' - input'[i].n <= lag
    BY <1>4, <2>1, <2>2
  <2>4. CASE UNCHANGED toModem
    BY <1>4, <2>3, <2>4
  <2>5. CASE toModem # <<>> /\ toModem' = Tail(toModem)
    <3>1. /\ Len(toModem') = Len(toModem) - 1
          /\ \A i \in 1 .. Len(toModem') : i + 1 \in 1 .. Len(toModem) /\ toModem'[i] = toModem[i + 1]
      BY <2>5, TailFacts
    <3> QED BY <1>4, <2>3, <3>1
  <2> QED BY <1>4, <2>4, <2>5
<1>5. ASSUME NEW l \in LineType, NEW m \in LineType, l.n = 0, m.n = 0,
             input' = input \o <<l, m>>, UNCHANGED <<toModem, sent>>
      PROVE  Behind(lag)'
  <2>1. /\ Len(input') = Len(input) + 2
        /\ \A i \in 1 .. Len(input) : input'[i] = input[i]
        /\ input'[Len(input) + 1] = l /\ input'[Len(input) + 2] = m
    BY <1>5
  <2>2. \A i \in 1 .. Len(input') : i \in 1 .. Len(input) \/ input'[i].n = 0
    BY <1>5, <2>1
  <2> QED BY <1>5, <2>1, <2>2
<1>6. CASE UNCHANGED sent /\ input' \in {input, <<>>} /\ toModem' = <<>>
  <2>1. Len(toModem') = 0 /\ (input' = input \/ Len(input') = 0)
    BY <1>6
  <2> QED BY <1>6, <2>1
<1>7. CASE UNCHANGED sent /\ toModem # <<>> /\ toModem' = Tail(toModem) /\ UNCHANGED input
  <2>1. /\ Len(toModem') = Len(toModem) - 1
        /\ \A i \in 1 .. Len(toModem') : i + 1 \in 1 .. Len(toModem) /\ toModem'[i] = toModem[i + 1]
    BY <1>7, TailFacts
  <2> QED BY <1>7, <2>1
<1>8. Behind(lag)' => Behind(lag + 1)'
  <2> SUFFICES ASSUME Behind(lag)' PROVE Behind(lag + 1)'
    OBVIOUS
  <2>1. \A i \in 1 .. Len(input') : input'[i].n # 0 => sent' - input'[i].n <= lag + 1
    BY NumbersNext
  <2>2. \A i \in 1 .. Len(toModem') : sent' - toModem'[i].n <= lag + 1
    BY NumbersNext
  <2> QED BY <2>1, <2>2
<1> QED BY <1>1, <1>2, <1>3, <1>4, <1>5, <1>6, <1>7, <1>8, Travel

\* The channel stays closed until it is reopened, and slips only grow.
LEMMA Monotone ==
  ASSUME TypeOK, [Next]_vars
  PROVE  slips <= slips' /\ (s_readerClosed => s_readerClosed' \/ AtOpen)
<1>1. slips \in Nat
  BY DEF TypeOK, CountersOK
<1>2. CASE \E t \in Threads : \/ Call(t) \/ Handshake(t) \/ ThreadStep(t)
                              \/ SpuriousWake(t) \/ Timeout(t)
  BY <1>1, <1>2 DEF Call, Handshake, ThreadStep, Begin, Write, Check, Resume, Expire, DrainEnd,
                    SpuriousWake, Timeout, closing
<1>3. CASE ReaderStep
  BY <1>1, <1>3 DEF ReaderStep, ReadUnsolicited, ReadFinal, ReadPrompt, ReadIntermediate, ReadSms,
                    ReadPdu, ReadEof, OnReaderClosed, AtClose, SetClosed, closing
<1>4. CASE MainStep
  BY <1>1, <1>4 DEF MainStep, AtOpen, AtOpened
<1>5. CASE ModemAnswer \/ ModemUrc \/ ModemDrop \/ Unplug \/ UNCHANGED vars
  BY <1>1, <1>5 DEF ModemAnswer, ModemInfo, ModemPrompt, ModemFinal, ModemUrc, ModemDrop, Unplug,
                    ModemFrame, vars, closing
<1> QED BY <1>2, <1>3, <1>4, <1>5 DEF Next, Quiet

\* Reopening leaves nothing on its way.
LEMMA OpenBehind == ASSUME AtOpen, NEW lag PROVE Behind(lag)'
<1>1. Len(input') = 0 /\ Len(toModem') = 0
  BY DEF AtOpen
<1> QED BY <1>1 DEF Behind

\* A command stops being awaited by an answer, by a slip or by the close.
LEMMA StillAwaited ==
  ASSUME OneThread, TypeOK, [Next]_vars, Awaited, ~ReadFinal, ~AtOpen
  PROVE  Awaited' \/ s_readerClosed' \/ slips' = slips + 1
<1>0. PICK t : Threads = {t}
  BY DEF OneThread
<1> DEFINE After == {"check", "wait", "wake", "expired"}
<1>1. /\ pc[t] = "crashed" \/ (pc[t] \in After /\ Unanswered)
      /\ pc \in [Threads -> Places]
  BY <1>0 DEF Awaited, TypeOK, ThreadsOK
<1>2. SUFFICES ASSUME ~s_readerClosed', slips' # slips + 1
               PROVE  pc'[t] = "crashed" \/ (pc'[t] \in After /\ Unanswered')
  BY <1>0 DEF Awaited
<1>3. ~s_readerClosed
  BY <1>2, Monotone
<1> USE <1>0, <1>1, <1>2, <1>3
<1>4. CASE Check(t)
  BY <1>4 DEF Check, Unanswered, shared
<1>5. CASE Resume(t) \/ SpuriousWake(t) \/ Timeout(t)
  BY <1>5 DEF Resume, SpuriousWake, Timeout, Unanswered, shared
<1>6. ~(Call(t) \/ Handshake(t) \/ Begin(t) \/ Write(t) \/ DrainEnd(t) \/ Expire(t))
  BY DEF Call, Handshake, Begin, Write, DrainEnd, Expire
<1>7. CASE ReadIntermediate
  BY <1>7, Recorded DEF ReadIntermediate, Unanswered, thread
<1>8. ~(OnReaderClosed \/ AtClose)
  BY DEF OnReaderClosed, AtClose
<1>9. CASE AtOpened
  BY <1>9 DEF AtOpened, Unanswered, thread
<1>10. CASE UNCHANGED <<pc, sp_response>>
  BY <1>10 DEF Unanswered
<1>11. ReadUnsolicited \/ ReadPrompt \/ ReadSms \/ ReadPdu \/ ReadEof \/ SetClosed
       \/ ModemAnswer \/ ModemUrc \/ ModemDrop \/ Unplug \/ UNCHANGED vars
       => UNCHANGED <<pc, sp_response>>
  BY DEF ReadUnsolicited, ReadPrompt, ReadSms, ReadPdu, ReadEof, SetClosed, ModemAnswer,
         ModemInfo, ModemPrompt, ModemFinal, ModemUrc, ModemDrop, Unplug, ModemFrame,
         vars, thread, shared
<1> QED BY <1>4, <1>5, <1>6, <1>7, <1>8, <1>9, <1>10, <1>11
        DEF Next, Quiet, ThreadStep, ReaderStep, MainStep

\* A write makes the thread wait for the answer; before it nothing was awaited.
LEMMA WriteAwaits ==
  ASSUME OneThread, TypeOK, AnswerInv, NEW t \in Threads, Write(t), ~s_readerClosed, ~eof
  PROVE  ~Awaited /\ Awaited' /\ slips' = slips
<1>0. Threads = {t}
  BY DEF OneThread
<1>1. pc[t] = "write" /\ pc \in [Threads -> Places]
  BY <1>0 DEF Write, TypeOK, ThreadsOK
<1>2. Unanswered
  BY <1>1 DEF AnswerInv, Unanswered
<1>3. pc' = [pc EXCEPT ![t] = "check"] /\ sp_response' = sp_response /\ slips' = slips
  BY DEF Write, shared
<1>4. Unanswered'
  BY <1>2, <1>3 DEF Unanswered
<1> QED BY <1>0, <1>1, <1>3, <1>4 DEF Awaited

\* The final response of a command leaves only what answers later commands.
LEMMA FinalBehind ==
  ASSUME TypeOK, InStep, LagInv, ReadFinal, Head(input).n # 0
  PROVE  Behind(slips - 1)' \/ s_readerClosed'
<1> USE Numbers DEF Behind, InStep, Precedes
<1>1. SUFFICES ASSUME ~s_readerClosed PROVE Behind(slips - 1)'
  BY DEF ReadFinal, closing
<1>2. /\ input # <<>> /\ input' = Tail(input) /\ UNCHANGED <<toModem, sent>> /\ slips' = slips
      /\ Final(Head(input)) /\ Head(input) = input[1] /\ 1 \in 1 .. Len(input)
  BY DEF ReadFinal, TakeLine, Disposition
<1>3. sent - input[1].n <= slips
  BY <1>1, <1>2 DEF LagInv, MaxLag
<1>4. /\ Len(input') = Len(input) - 1
      /\ \A i \in 1 .. Len(input') : i + 1 \in 1 .. Len(input) /\ input'[i] = input[i + 1]
  BY <1>2, TailFacts
<1>5. ASSUME NEW i \in 1 .. Len(input'), input'[i].n # 0
      PROVE  sent' - input'[i].n <= slips' - 1
  <2>1. i + 1 \in 1 .. Len(input) /\ input'[i] = input[i + 1] /\ 1 < i + 1
    BY <1>4
  <2>2. input[1].n < input[i + 1].n
    BY <1>2, <1>5, <2>1
  <2> QED BY <1>2, <1>3, <2>1, <2>2
<1>6. ASSUME NEW i \in 1 .. Len(toModem') PROVE sent' - toModem'[i].n <= slips' - 1
  <2>1. input[1].n < toModem[i].n
    BY <1>2
  <2> QED BY <1>2, <1>3, <2>1
<1> QED BY <1>5, <1>6

LEMMA LagStep ==
  ASSUME OneThread, TypeOK, InStep, LagInv, AnswerInv, [Next]_vars
  PROVE  LagInv'
<1>0. slips \in Nat /\ slips' \in Nat
  BY Numbers, NumbersNext
<1>a. PICK lag \in Int : lag = MaxLag /\ lag + 1 >= 0 /\ Behind(lag)
  BY <1>0 DEF LagInv, MaxLag
<1>b. ASSUME lag <= MaxLag', Behind(lag)' PROVE LagInv'
  <2>1. MaxLag' \in Int
    BY <1>0 DEF MaxLag
  <2>2. \A i \in 1 .. Len(input') : input'[i].n # 0 => sent' - input'[i].n <= MaxLag'
    BY <1>b, <2>1, NumbersNext DEF Behind
  <2>3. \A i \in 1 .. Len(toModem') : sent' - toModem'[i].n <= MaxLag'
    BY <1>b, <2>1, NumbersNext DEF Behind
  <2> QED BY <2>2, <2>3 DEF LagInv, Behind
<1>c. slips <= slips' /\ (s_readerClosed => s_readerClosed' \/ AtOpen)
  BY Monotone
<1>d. CASE AtOpen
  BY <1>d, OpenBehind DEF LagInv
<1>1. CASE \E t \in Threads : Write(t) /\ ~s_readerClosed /\ ~eof
  <2>1. ~Awaited /\ Awaited' /\ slips' = slips /\ ~s_readerClosed
    BY <1>1, WriteAwaits
  <2>2. MaxLag' = lag + 1
    BY <1>0, <1>a, <2>1 DEF MaxLag
  <2>3. Behind(lag + 1)'
    BY <1>a, TravelBehind
  <2>4. /\ \A i \in 1 .. Len(input') : input'[i].n # 0 => sent' - input'[i].n <= MaxLag'
        /\ \A i \in 1 .. Len(toModem') : sent' - toModem'[i].n <= MaxLag'
    BY <2>2, <2>3 DEF Behind
  <2> QED BY <2>4 DEF LagInv, Behind
<1>2. CASE ReadFinal /\ Head(input).n # 0
  <2>1. CASE Behind(slips - 1)'
    <3>1. /\ \A i \in 1 .. Len(input') : input'[i].n # 0 => sent' - input'[i].n <= slips' - 1
          /\ \A i \in 1 .. Len(toModem') : sent' - toModem'[i].n <= slips' - 1
      BY <2>1 DEF Behind
    <3>2. MaxLag' = slips' \/ MaxLag' = slips' - 1
      BY DEF MaxLag
    <3>3. /\ \A i \in 1 .. Len(input') : input'[i].n # 0 => sent' - input'[i].n <= MaxLag'
          /\ \A i \in 1 .. Len(toModem') : sent' - toModem'[i].n <= MaxLag'
      BY <1>0, <3>1, <3>2, NumbersNext
    <3> QED BY <3>3 DEF LagInv, Behind
  <2>2. CASE s_readerClosed'
    <3>1. s_readerClosed /\ slips' = slips
      BY <1>2, <2>2 DEF ReadFinal, closing
    <3>2. MaxLag' = lag
      BY <1>a, <2>2, <3>1 DEF MaxLag
    <3>3. Behind(lag)'
      BY <1>a, <3>1, TravelBehind
    <3> QED BY <1>a, <1>b, <3>2, <3>3
  <2> QED BY <1>2, <2>1, <2>2, FinalBehind
<1>3. CASE /\ ~\E t \in Threads : Write(t) /\ ~s_readerClosed /\ ~eof
           /\ ~(ReadFinal /\ Head(input).n # 0) /\ ~AtOpen
  <2>1. Behind(lag)'
    BY <1>a, <1>3, TravelBehind
  <2>2. CASE ReadFinal
    <3>1. slips' = slips + 1
      BY <1>3, <2>2, Numbers DEF ReadFinal
    <3>2. lag <= MaxLag'
      BY <1>0, <1>a, <3>1 DEF MaxLag
    <3> QED BY <1>b, <2>1, <3>2
  <2>3. CASE ~ReadFinal
    <3>1. Awaited => Awaited' \/ s_readerClosed' \/ slips' = slips + 1
      BY <1>3, <2>3, StillAwaited
    <3>2. CASE Awaited \/ s_readerClosed
      <4>1. lag = slips
        BY <1>a, <3>2 DEF MaxLag
      <4>2. MaxLag' = slips' \/ (MaxLag' = slips' - 1 /\ slips' = slips + 1)
        BY <1>3, <1>c, <3>1, <3>2 DEF MaxLag
      <4>3. lag <= MaxLag'
        BY <1>0, <1>c, <4>1, <4>2
      <4> QED BY <1>b, <2>1, <4>3
    <3>3. CASE ~(Awaited \/ s_readerClosed)
      <4>1. lag = slips - 1
        BY <1>a, <3>3 DEF MaxLag
      <4>2. MaxLag' = slips' \/ MaxLag' = slips' - 1
        BY DEF MaxLag
      <4>3. lag <= MaxLag'
        BY <1>0, <1>c, <4>1, <4>2
      <4> QED BY <1>b, <2>1, <4>3
    <3> QED BY <3>2, <3>3
  <2> QED BY <2>2, <2>3
<1> QED BY <1>1, <1>2, <1>3, <1>d

-----------------------------------------------------------------------------
(* Answers *)

\* A line of the input fits the command that was sent last.
LEMMA LineFits ==
  ASSUME TypeOK, InStep, LagInv, input # <<>>, NEW l, l = Head(input), l.n # 0
  PROVE  l.n \in Nat /\ sent - l.n \in 0 .. slips
<1>1. l = input[1] /\ 1 \in 1 .. Len(input) /\ l.n \in Nat
  BY Numbers
<1>2. l.n <= sent
  BY <1>1 DEF InStep
<1>3. sent - l.n <= slips
  BY <1>1, Numbers DEF LagInv, Behind, MaxLag
<1> QED BY <1>1, <1>2, <1>3, Numbers

LEMMA AnswerStep ==
  ASSUME OneThread, TypeOK, MutexInv, InStep, LagInv, AnswerInv, [Next]_vars
  PROVE  AnswerInv'
<1>0. PICK t : Threads = {t}
  BY DEF OneThread
<1>1. /\ t \in Threads /\ pc \in [Threads -> Places] /\ t # NoThread
      /\ sent \in Nat /\ slips \in Nat /\ slips' \in Nat /\ slips <= slips'
  BY <1>0, Numbers, NumbersNext, Monotone, ThreadsAssumption DEF TypeOK, ThreadsOK
<1>2. sp_response # NoResp =>
        /\ sp_response \in Response
        /\ sp_response.final # NoLine => sp_response.final.n \in Nat
        /\ sp_response.inter \in Seq(LineType)
        /\ \A i \in 1 .. Len(sp_response.inter) : sp_response.inter[i].n \in Nat
  <2> SUFFICES ASSUME sp_response # NoResp
               PROVE  /\ sp_response \in Response
                      /\ sp_response.final # NoLine => sp_response.final.n \in Nat
                      /\ sp_response.inter \in Seq(LineType)
                      /\ \A i \in 1 .. Len(sp_response.inter) : sp_response.inter[i].n \in Nat
    OBVIOUS
  <2>1. sp_response \in Response
    BY DEF TypeOK, SharedOK
  <2>2. sp_response.inter \in Seq(LineType) /\ sp_response.final \in LineType \cup {NoLine}
    BY <2>1 DEF Response
  <2>3. \A i \in 1 .. Len(sp_response.inter) : sp_response.inter[i] \in LineType
    BY <2>2
  <2> QED BY <2>1, <2>2, <2>3 DEF LineType
<1> USE <1>0, <1>1
<1>3. CASE \/ sp_response' = NoResp
           \/ /\ UNCHANGED sp_response /\ UNCHANGED sent
              /\ pc'[t] = "write" <=> pc[t] = "write"
  <2>1. CASE sp_response' = NoResp
    BY <2>1 DEF AnswerInv
  <2>2. CASE /\ sp_response # NoResp /\ UNCHANGED sp_response /\ UNCHANGED sent
             /\ pc'[t] = "write" <=> pc[t] = "write"
    <3>1. (\E u \in Threads : pc'[u] = "write") <=> (\E u \in Threads : pc[u] = "write")
      BY <2>2
    <3>2. CASE \E u \in Threads : pc[u] = "write"
      BY <2>2, <3>1, <3>2 DEF AnswerInv
    <3>3. CASE ~\E u \in Threads : pc[u] = "write"
      <4>1. /\ sp_response.n = sent
            /\ sp_response.final # NoLine => Fits(sp_response.final, sent)
            /\ \A i \in 1 .. Len(sp_response.inter) : Fits(sp_response.inter[i], sent)
        BY <2>2, <3>3 DEF AnswerInv
      <4>2. ASSUME NEW l, l.n \in Nat, Fits(l, sent) PROVE Fits(l, sent)'
        BY <2>2, <4>2 DEF Fits
      <4>3. sp_response.final # NoLine => Fits(sp_response.final, sent)'
        BY <1>2, <2>2, <4>1, <4>2
      <4>4. \A i \in 1 .. Len(sp_response.inter) : Fits(sp_response.inter[i], sent)'
        BY <1>2, <2>2, <4>1, <4>2
      <4> QED BY <2>2, <3>1, <3>3, <4>1, <4>3, <4>4 DEF AnswerInv
    <3> QED BY <3>2, <3>3
  <2> QED BY <1>3, <2>1, <2>2
<1>4. CASE Begin(t)
  <2>1. CASE sp_response # NoResp
    BY <1>3, <1>4, <2>1 DEF Begin, Abort, ClearPendingCommand
  <2>2. CASE sp_response = NoResp
    <3>1. sp_response' = [n |-> sent + 1, c |-> call[t], final |-> NoLine, inter |-> <<>>]
          /\ pc' = [pc EXCEPT ![t] = "write"] /\ sent' = sent
      BY <1>4, <2>2 DEF Begin
    <3> QED BY <3>1 DEF AnswerInv
  <2> QED BY <2>1, <2>2
<1>5. CASE Write(t) /\ ~s_readerClosed /\ ~eof
  <2>1. /\ pc' = [pc EXCEPT ![t] = "check"] /\ sent' = sent + 1 /\ sp_response' = sp_response
        /\ pc[t] = "write"
    BY <1>5 DEF Write, shared
  <2>2. sp_response # NoResp => /\ sp_response.n = sent + 1 /\ sp_response.final = NoLine
                                /\ sp_response.inter = <<>>
    BY <2>1 DEF AnswerInv
  <2> QED BY <2>1, <2>2 DEF AnswerInv
<1>6. CASE ReadFinal \/ ReadIntermediate
  <2>1. pc[t] # "write" /\ mutex = NoThread /\ input # <<>>
    BY <1>6 DEF ReadFinal, ReadIntermediate, TakeLine, MutexInv
  <2>2. pc'[t] # "write" /\ sent' = sent
    BY <1>6, <2>1 DEF ReadFinal, ReadIntermediate, Signal, thread
  <2>3. /\ sp_response # NoResp /\ sp_response.n = sent
        /\ sp_response.final # NoLine => Fits(sp_response.final, sent)
        /\ \A i \in 1 .. Len(sp_response.inter) : Fits(sp_response.inter[i], sent)
    BY <1>6, <2>1, Recorded DEF AnswerInv
  <2> DEFINE l == Head(input)
  <2>4. l.n # 0 => l.n \in Nat /\ sent - l.n \in 0 .. slips
    BY <2>1, LineFits
  <2> HIDE DEF l
  <2>5. CASE ReadFinal
    <3>1. /\ sp_response'.n = sent /\ sp_response'.final = l
          /\ sp_response'.inter = sp_response.inter
      BY <2>3, <2>5, Recorded DEF l
    <3>2. l.n # 0 => sent - l.n \in 0 .. slips'
      BY <2>4
    <3>3. \A i \in 1 .. Len(sp_response.inter) :
             sp_response.inter[i].n # 0 => sent - sp_response.inter[i].n \in 0 .. slips'
      BY <1>2, <2>3 DEF Fits
    <3> QED BY <2>2, <3>1, <3>2, <3>3 DEF AnswerInv, Fits
  <2>6. CASE ReadIntermediate
    <3>1. /\ sp_response'.n = sent /\ sp_response'.final = sp_response.final
          /\ sp_response'.inter = <<l>> \o sp_response.inter
      BY <2>3, <2>6, Recorded DEF l
    <3>2. /\ sp_response'.inter[1] = l
          /\ \A i \in 1 .. Len(sp_response'.inter) :
                i # 1 => i - 1 \in 1 .. Len(sp_response.inter)
                         /\ sp_response'.inter[i] = sp_response.inter[i - 1]
      BY <1>2, <2>3, <3>1
    <3>3. l.n # 0 => sent - l.n \in 0 .. slips'
      BY <2>4
    <3>4. sp_response.final # NoLine /\ sp_response.final.n # 0
          => sent - sp_response.final.n \in 0 .. slips'
      BY <1>2, <2>3 DEF Fits
    <3>5. \A i \in 1 .. Len(sp_response.inter) :
             sp_response.inter[i].n # 0 => sent - sp_response.inter[i].n \in 0 .. slips'
      BY <1>2, <2>3 DEF Fits
    <3>6. \A i \in 1 .. Len(sp_response'.inter) :
             sp_response'.inter[i].n # 0 => sent - sp_response'.inter[i].n \in 0 .. slips'
      BY <3>2, <3>3, <3>5
    <3> QED BY <2>2, <3>1, <3>4, <3>6 DEF AnswerInv, Fits
  <2> QED BY <1>6, <2>5, <2>6
<1>7. CASE Write(t) /\ (s_readerClosed \/ eof)
  BY <1>3, <1>7 DEF Write, Abort, ClearPendingCommand
<1>8. CASE Check(t)
  BY <1>3, <1>8 DEF Check, ClearPendingCommand, shared
<1>9. CASE Expire(t)
  BY <1>3, <1>9 DEF Expire, Abort, ClearPendingCommand
<1>10. CASE Call(t) \/ Handshake(t) \/ Resume(t) \/ DrainEnd(t) \/ SpuriousWake(t) \/ Timeout(t)
  BY <1>3, <1>10 DEF Call, Handshake, Resume, DrainEnd, SpuriousWake, Timeout, shared
<1>11. CASE OnReaderClosed \/ AtClose
  BY <1>3, <1>11 DEF OnReaderClosed, AtClose, Signal, shared
<1>12. CASE AtOpened
  BY <1>3, <1>12 DEF AtOpened
<1>13. ReadUnsolicited \/ ReadPrompt \/ ReadSms \/ ReadPdu \/ ReadEof \/ SetClosed
       \/ AtOpen \/ ModemAnswer \/ ModemUrc \/ ModemDrop \/ Unplug \/ UNCHANGED vars
       => UNCHANGED <<pc, sp_response, sent>>
  BY DEF AtOpen, ReadUnsolicited, ReadPrompt, ReadSms, ReadPdu, ReadEof, SetClosed, ModemAnswer,
         ModemInfo, ModemPrompt, ModemFinal, ModemUrc, ModemDrop, Unplug, ModemFrame,
         vars, thread, shared
<1>14. CASE UNCHANGED <<pc, sp_response, sent>>
  BY <1>3, <1>14
<1> QED BY <1>4, <1>5, <1>6, <1>7, <1>8, <1>9, <1>10, <1>11, <1>12, <1>13, <1>14
        DEF Next, Quiet, ThreadStep, ReaderStep, MainStep

\* Turning the list over keeps the lines.
LEMMA ReverseLines ==
  ASSUME NEW S, NEW s \in Seq(S)
  PROVE  ToSet(Reverse(s)) = ToSet(s)
<1>1. DOMAIN Reverse(s) = 1 .. Len(s) /\ DOMAIN s = 1 .. Len(s)
  BY DEF Reverse
<1>2. \A i \in 1 .. Len(s) : /\ Len(s) - i + 1 \in 1 .. Len(s)
                             /\ Reverse(s)[i] = s[Len(s) - i + 1]
                             /\ s[i] = Reverse(s)[Len(s) - i + 1]
  BY DEF Reverse
<1> QED BY <1>1, <1>2 DEF ToSet

LEMMA MatchStep ==
  ASSUME OneThread, TypeOK, AnswerInv, AnswerMatches, [Next]_vars
  PROVE  AnswerMatches'
<1>0. PICK t : Threads = {t}
  BY DEF OneThread
<1> DEFINE Matches(n, final, inter) ==
             \A l \in ToSet(inter) \cup {final} : l # NoLine /\ l.n # 0 => n - l.n \in 0 .. slips'
<1>1. /\ t \in Threads /\ ret \in [Threads -> RetType]
      /\ slips \in Nat /\ slips' \in Nat /\ slips <= slips' /\ sent \in Nat
  BY <1>0, Numbers, NumbersNext, Monotone DEF TypeOK, ThreadsOK
<1>2. SUFFICES Matches(ret'[t].n, ret'[t].final, ret'[t].inter)
  BY <1>0 DEF AnswerMatches
<1>3. ToSet(<<>>) = {}
  BY DEF ToSet
<1>4. Matches(0, NoLine, <<>>)
  BY <1>3
<1>5. Matches(ret[t].n, ret[t].final, ret[t].inter)
  BY <1>1 DEF AnswerMatches
<1> HIDE DEF Matches
<1>6. CASE UNCHANGED ret
  BY <1>5, <1>6
<1>7. CASE Call(t) \/ Handshake(t)
  <2>1. ret'[t].n = 0 /\ ret'[t].final = NoLine /\ ret'[t].inter = <<>>
    BY <1>1, <1>7 DEF Call, Handshake, NoRet
  <2> QED BY <1>4, <2>1
<1>8. ASSUME NEW err, Abort(t, err)
      PROVE  Matches(ret'[t].n, ret'[t].final, ret'[t].inter)
  <2>1. ret'[t].n = 0 /\ ret'[t].final = NoLine /\ ret'[t].inter = <<>>
    BY <1>1, <1>8 DEF Abort, Return
  <2> QED BY <1>4, <2>1
<1>9. CASE Begin(t)
  BY <1>6, <1>8, <1>9 DEF Begin
<1>10. CASE Write(t)
  BY <1>6, <1>8, <1>10 DEF Write
<1>11. CASE Expire(t)
  BY <1>8, <1>11 DEF Expire
<1>12. CASE Check(t)
  <2>1. CASE sp_response = NoResp \/ (sp_response.final = NoLine /\ ~s_readerClosed)
    BY <1>6, <1>12, <2>1 DEF Check
  <2>2. CASE sp_response # NoResp /\ ~(sp_response.final = NoLine /\ ~s_readerClosed)
    <3> DEFINE r == sp_response
               inter == IF call[t].out THEN Reverse(r.inter) ELSE r.inter
    <3>1. /\ ret'[t].n = r.n /\ ret'[t].final = r.final /\ ret'[t].inter = inter
      BY <1>1, <1>12, <2>2 DEF Check, Return
    <3>2. r.inter \in Seq(LineType)
      BY <2>2 DEF TypeOK, SharedOK, Response
    <3>3. ToSet(inter) = ToSet(r.inter)
      BY <3>2, ReverseLines
    <3>4. /\ r.n = sent
          /\ r.final # NoLine => Fits(r.final, sent)
          /\ \A i \in 1 .. Len(r.inter) : Fits(r.inter[i], sent)
      BY <1>0, <1>12, <2>2 DEF Check, AnswerInv
    <3>5. \A l \in ToSet(r.inter) : Fits(l, sent)
      BY <3>2, <3>4 DEF ToSet
    <3>6. slips' = slips
      BY <1>12 DEF Check
    <3>7. Matches(r.n, r.final, inter)
      BY <3>3, <3>4, <3>5, <3>6 DEF Matches, Fits
    <3> QED BY <3>1, <3>7
  <2> QED BY <2>1, <2>2
<1>13. Resume(t) \/ DrainEnd(t) \/ SpuriousWake(t) \/ Timeout(t) \/ ReaderStep \/ MainStep
       \/ ModemAnswer \/ ModemUrc \/ ModemDrop \/ Unplug \/ UNCHANGED vars
       => UNCHANGED ret
  BY DEF Resume, DrainEnd, SpuriousWake, Timeout, ReaderStep, ReadUnsolicited, ReadFinal,
         ReadPrompt, ReadIntermediate, ReadSms, ReadPdu, ReadEof, OnReaderClosed, AtClose,
         SetClosed, MainStep, AtOpen, AtOpened, ModemAnswer, ModemInfo, ModemPrompt, ModemFinal,
         ModemUrc, ModemDrop, Unplug, ModemFrame, vars
<1> QED BY <1>0, <1>6, <1>7, <1>9, <1>10, <1>11, <1>12, <1>13 DEF Next, Quiet, ThreadStep

-----------------------------------------------------------------------------
(* The modem's place                                                       *)

\* A modem that was sent nothing is at the beginning of its next answer.
ModemInv == toModem = <<>> => modem = ModemReady

LEMMA ModemStep == ASSUME TypeOK, ModemInv, [Next]_vars PROVE ModemInv'
<1>1. ASSUME NEW t \in Threads, Write(t) PROVE ModemInv'
  <2>1. CASE s_readerClosed \/ eof
    BY <1>1, <2>1 DEF Write, ModemInv
  <2>2. CASE ~(s_readerClosed \/ eof)
    <3> DEFINE c == [n |-> sent + 1, p |-> call[t].prefix, sms |-> call[t].sms]
    <3>1. toModem' = Append(toModem, c)
      BY <1>1, <2>2 DEF Write
    <3> HIDE DEF c
    <3>2. toModem' # <<>>
      BY <3>1 DEF TypeOK, DeviceOK
    <3> QED BY <3>2 DEF ModemInv
  <2> QED BY <2>1, <2>2
<1>2. CASE ReadPrompt
  <2>1. toModem' = toModem
    BY <1>2 DEF ReadPrompt
  <2>2. modem = ModemReady => modem' = ModemReady
    BY <1>2 DEF ReadPrompt, ModemReady
  <2> QED BY <2>1, <2>2 DEF ModemInv
<1>3. CASE ModemInfo \/ ModemPrompt
  BY <1>3 DEF ModemInfo, ModemPrompt, Working, ModemInv
<1>4. CASE ModemFinal \/ ModemDrop \/ Unplug \/ AtOpen
  BY <1>4 DEF ModemFinal, ModemDrop, Unplug, AtOpen, ModemInv
<1>5. CASE UNCHANGED <<toModem, modem>>
  BY <1>5 DEF ModemInv
<1>6. ASSUME NEW t \in Threads,
             \/ Call(t) \/ Handshake(t) \/ Begin(t) \/ Check(t) \/ Resume(t) \/ Expire(t)
             \/ DrainEnd(t) \/ SpuriousWake(t) \/ Timeout(t)
      PROVE  UNCHANGED <<toModem, modem>>
  BY <1>6 DEF Call, Handshake, Begin, Check, Resume, Expire, DrainEnd, SpuriousWake, Timeout,
              device
<1>7. ReadUnsolicited \/ ReadFinal \/ ReadIntermediate \/ ReadSms \/ ReadPdu \/ ReadEof
      \/ OnReaderClosed \/ AtClose \/ SetClosed \/ AtOpened \/ ModemUrc \/ UNCHANGED vars
      => UNCHANGED <<toModem, modem>>
  BY DEF ReadUnsolicited, ReadFinal, ReadIntermediate, ReadSms, ReadPdu, ReadEof,
         OnReaderClosed, AtClose, SetClosed, AtOpened, ModemUrc, vars, device
<1> QED BY <1>1, <1>2, <1>3, <1>4, <1>5, <1>6, <1>7
        DEF Next, ThreadStep, ReaderStep, MainStep, ModemAnswer, Quiet

\* As long as nothing slipped, what travels is the last command and its answer;
\* nothing follows its final response.
LEMMA InSync ==
  ASSUME TypeOK, InStep, LagInv, slips = 0
  PROVE  /\ \A i \in 1 .. Len(input) : input[i].n # 0 => input[i].n = sent
         /\ \A i \in 1 .. Len(toModem) : i = 1 /\ toModem[i].n = sent
         /\ toModem # <<>> => \A i \in 1 .. Len(input) : input[i].n # 0 => ~Final(input[i])
         /\ \A i, j \in 1 .. Len(input) :
               i < j /\ input[i].n # 0 /\ input[j].n # 0 => ~Final(input[i])
         /\ ~Awaited /\ ~s_readerClosed =>
               toModem = <<>> /\ \A i \in 1 .. Len(input) : input[i].n = 0
<1> USE Numbers
<1>l. MaxLag \in Int /\ MaxLag <= 0
  BY DEF MaxLag
<1>b. /\ \A i \in 1 .. Len(input) : input[i].n # 0 => sent - input[i].n <= MaxLag
      /\ \A i \in 1 .. Len(toModem) : sent - toModem[i].n <= MaxLag
  BY DEF LagInv, Behind
<1>s. /\ \A i \in 1 .. Len(input) : input[i].n <= sent
      /\ \A i \in 1 .. Len(toModem) : toModem[i].n \in 1 .. sent
  BY DEF InStep
<1>1. \A i \in 1 .. Len(input) : input[i].n # 0 => input[i].n = sent
  <2> SUFFICES ASSUME NEW i \in 1 .. Len(input), input[i].n # 0 PROVE input[i].n = sent
    OBVIOUS
  <2>1. input[i].n <= sent /\ sent - input[i].n <= MaxLag /\ input[i].n \in Nat
    BY <1>b, <1>s
  <2> QED BY <1>l, <2>1
<1>2. \A i \in 1 .. Len(toModem) : toModem[i].n = sent
  <2> SUFFICES ASSUME NEW i \in 1 .. Len(toModem) PROVE toModem[i].n = sent
    OBVIOUS
  <2>1. toModem[i].n \in 1 .. sent /\ sent - toModem[i].n <= MaxLag
    BY <1>b, <1>s
  <2> QED BY <1>l, <2>1
<1>3. \A i \in 1 .. Len(toModem) : i = 1
  <2> SUFFICES ASSUME NEW i \in 1 .. Len(toModem), i # 1 PROVE FALSE
    OBVIOUS
  <2>1. 1 \in 1 .. Len(toModem) /\ 1 < i
    OBVIOUS
  <2>2. toModem[1].n < toModem[i].n
    BY <2>1 DEF InStep
  <2> QED BY <1>2, <2>1, <2>2
<1>4. toModem # <<>> => \A i \in 1 .. Len(input) : input[i].n # 0 => ~Final(input[i])
  <2> SUFFICES ASSUME toModem # <<>>, NEW i \in 1 .. Len(input), input[i].n # 0
               PROVE  ~Final(input[i])
    OBVIOUS
  <2>1. 1 \in 1 .. Len(toModem)
    OBVIOUS
  <2>2. Precedes(input[i], toModem[1].n)
    BY <2>1 DEF InStep
  <2> QED BY <1>1, <1>2, <2>1, <2>2 DEF Precedes
<1>5. ASSUME NEW i \in 1 .. Len(input), NEW j \in 1 .. Len(input),
             i < j, input[i].n # 0, input[j].n # 0
      PROVE  ~Final(input[i])
  <2>1. Precedes(input[i], input[j].n)
    BY <1>5 DEF InStep
  <2> QED BY <1>1, <1>5, <2>1 DEF Precedes
<1>6. ASSUME ~Awaited, ~s_readerClosed
      PROVE  toModem = <<>> /\ \A i \in 1 .. Len(input) : input[i].n = 0
  <2>1. MaxLag = 0 - 1
    BY <1>6 DEF MaxLag
  <2>2. \A i \in 1 .. Len(input) : input[i].n = 0
    BY <1>1, <2>1 DEF LagInv, Behind
  <2>3. \A i \in 1 .. Len(toModem) : FALSE
    BY <1>2, <2>1 DEF LagInv, Behind
  <2>4. Len(toModem) = 0
    BY <2>3
  <2> QED BY <2>2, <2>4
<1> QED BY <1>1, <1>2, <1>3, <1>4, <1>5, <1>6

-----------------------------------------------------------------------------
(* Short messages *)

LEMMA PromptIsOwn ==
  ASSUME TypeOK, MutexInv, InStep, LagInv, AnswerInv, ModemInv, [Next]_vars,
         modem.prompt = "sent", modem'.prompt = "done", slips = 0
  PROVE  sp_response.n = Head(toModem).n
<1>1. ReadPrompt
  <2>1. ASSUME NEW t \in Threads,
               Call(t) \/ Handshake(t) \/ ThreadStep(t) \/ SpuriousWake(t) \/ Timeout(t)
        PROVE  modem' = modem
    BY <2>1 DEF Call, Handshake, ThreadStep, Begin, Write, Check, Resume, Expire, DrainEnd,
                SpuriousWake, Timeout, device
  <2>2. \/ ReaderStep /\ ~ReadPrompt
        \/ AtOpened \/ ModemUrc \/ UNCHANGED vars
        => modem' = modem
    BY DEF ReaderStep, ReadUnsolicited, ReadFinal, ReadIntermediate, ReadSms, ReadPdu, ReadEof,
           OnReaderClosed, AtClose, SetClosed, AtOpened, ModemUrc, vars, device
  <2>3. AtOpen \/ ModemFinal \/ ModemDrop \/ Unplug => modem'.prompt = "no"
    BY DEF AtOpen, ModemFinal, ModemDrop, Unplug, ModemReady
  <2>4. ModemInfo \/ ModemPrompt => modem'.prompt # "done"
    BY DEF ModemInfo, ModemPrompt, TypeOK, DeviceOK
  <2> QED BY <2>1, <2>2, <2>3, <2>4 DEF Next, MainStep, ModemAnswer, Quiet
<1>2. mutex = NoThread /\ sp_response # NoResp
  BY <1>1 DEF ReadPrompt, TakeLine, Disposition
<1>3. \A t \in Threads : pc[t] # "write"
  BY <1>2, ThreadsAssumption DEF MutexInv
<1>4. sp_response.n = sent
  BY <1>2, <1>3 DEF AnswerInv
<1>5. toModem # <<>>
  BY DEF ModemInv, ModemReady
<1>6. 1 \in 1 .. Len(toModem) /\ Head(toModem) = toModem[1]
  BY <1>5, Numbers
<1>7. toModem[1].n = sent
  BY <1>6, InSync
<1> QED BY <1>4, <1>6, <1>7

-----------------------------------------------------------------------------
(* Multi-line answers: lists of lines.  The lines that a command with a    *)
(* multi-line answer collects of its own are those of a command that start *)
(* with the prefix.                                                        *)

IsOwn(l) == l.n # 0 /\ l.p = "P"
Own(s) == {j \in 1 .. Len(s) : IsOwn(s[j])}

\* The list's own lines are the ones from a to b, in or against the order in
\* which the modem wrote them.
Counted(s, a, b) == /\ \A j \in Own(s) : s[j].i \in a .. b
                    /\ \A v \in a .. b : \E j \in Own(s) : s[j].i = v
Ascending(s) == \A j, k \in Own(s) : j < k => s[j].i < s[k].i
Descending(s) == \A j, k \in Own(s) : j < k => s[j].i > s[k].i

LEMMA LineNumbers ==
  ASSUME NEW s \in Seq(LineType)
  PROVE  /\ Len(s) \in Nat
         /\ \A j \in 1 .. Len(s) : s[j] \in LineType /\ s[j].i \in Nat /\ s[j].n \in Nat
<1>1. \A l \in LineType : l.i \in Nat /\ l.n \in Nat
  BY DEF LineType
<1>2. \A j \in 1 .. Len(s) : s[j] \in LineType
  OBVIOUS
<1> QED BY <1>1, <1>2

LEMMA NoneCounted ==
  ASSUME NEW s, Own(s) = {}, NEW a \in Nat
  PROVE  Counted(s, a + 1, a) /\ Ascending(s) /\ Descending(s)
  BY DEF Counted, Ascending, Descending

\* A line at the end.
Appended(t, s, l) == /\ Len(t) = Len(s) + 1 /\ t[Len(s) + 1] = l
                     /\ \A j \in 1 .. Len(s) : t[j] = s[j]

LEMMA AppendedEnd ==
  ASSUME NEW s \in Seq(LineType), NEW l \in LineType
  PROVE  Appended(Append(s, l), s, l)
  BY DEF Appended

LEMMA OwnAppend ==
  ASSUME NEW s \in Seq(LineType), NEW l \in LineType, NEW t, Appended(t, s, l)
  PROVE  /\ \A j \in Own(s) : j \in Own(t) /\ t[j] = s[j] /\ j \in 1 .. Len(s)
         /\ \A j \in Own(t) : j \in Own(s) \/ (IsOwn(l) /\ j = Len(s) + 1)
         /\ IsOwn(l) => Len(s) + 1 \in Own(t)
         /\ t[Len(s) + 1] = l /\ Len(s) \in Nat
<1>1. /\ Len(t) = Len(s) + 1 /\ t[Len(s) + 1] = l /\ Len(s) \in Nat
      /\ \A j \in 1 .. Len(s) : t[j] = s[j]
  BY DEF Appended
<1>2. \A j \in 1 .. Len(t) : j \in 1 .. Len(s) \/ j = Len(s) + 1
  BY <1>1
<1> QED BY <1>1, <1>2 DEF Own

LEMMA AppendOther ==
  ASSUME NEW s \in Seq(LineType), NEW l \in LineType, ~IsOwn(l), NEW t, Appended(t, s, l),
         NEW a, NEW b, Counted(s, a, b), Ascending(s)
  PROVE  Counted(t, a, b) /\ Ascending(t)
<1>1. /\ \A j \in Own(t) : j \in Own(s)
      /\ \A j \in Own(s) : j \in Own(t) /\ t[j] = s[j]
  BY OwnAppend
<1> QED BY <1>1 DEF Counted, Ascending

LEMMA AppendOwn ==
  ASSUME NEW s \in Seq(LineType), NEW l \in LineType, IsOwn(l), NEW t, Appended(t, s, l),
         NEW a \in Nat, NEW b \in Nat, l.i = b + 1, a <= b + 1,
         Counted(s, a, b), Ascending(s)
  PROVE  Counted(t, a, b + 1) /\ Ascending(t)
<1>1. /\ \A j \in Own(s) : j \in Own(t) /\ t[j] = s[j] /\ j \in 1 .. Len(s)
      /\ \A j \in Own(t) : j \in Own(s) \/ j = Len(s) + 1
      /\ Len(s) + 1 \in Own(t) /\ t[Len(s) + 1] = l /\ Len(s) \in Nat
  BY OwnAppend
<1>2. \A j \in Own(s) : t[j].i \in a .. b
  BY <1>1 DEF Counted
<1>3. \A j \in Own(t) : t[j].i \in a .. (b + 1)
  BY <1>1, <1>2
<1>4. ASSUME NEW v \in a .. (b + 1) PROVE \E j \in Own(t) : t[j].i = v
  <2>1. CASE v = b + 1
    BY <1>1, <2>1
  <2>2. CASE v \in a .. b
    <3>1. PICK j \in Own(s) : s[j].i = v
      BY <2>2 DEF Counted
    <3> QED BY <1>1, <3>1
  <2> QED BY <2>1, <2>2
<1>5. ASSUME NEW j \in Own(t), NEW k \in Own(t), j < k PROVE t[j].i < t[k].i
  <2>1. j \in Own(s) /\ t[j].i \in a .. b
    BY <1>1, <1>2, <1>5
  <2>2. CASE k \in Own(s)
    BY <1>1, <1>5, <2>1, <2>2 DEF Ascending
  <2>3. CASE k = Len(s) + 1
    <3>1. t[k].i = b + 1
      BY <1>1, <2>3
    <3> QED BY <2>1, <3>1
  <2> QED BY <1>1, <2>2, <2>3
<1> QED BY <1>3, <1>4, <1>5 DEF Counted, Ascending

\* A line off the front.
Dropped(t, s) == /\ Len(s) >= 1 /\ Len(t) = Len(s) - 1
                 /\ \A j \in 1 .. Len(t) : t[j] = s[j + 1]

LEMMA DroppedFront ==
  ASSUME NEW s \in Seq(LineType), s # <<>>
  PROVE  Dropped(Tail(s), s)
  BY DEF Dropped

LEMMA OwnTail ==
  ASSUME NEW s \in Seq(LineType), NEW t, Dropped(t, s)
  PROVE  /\ \A j \in Own(t) : t[j] = s[j + 1] /\ j + 1 \in Own(s) /\ j \in 1 .. Len(t)
         /\ \A j \in Own(s) : j # 1 => j - 1 \in Own(t) /\ t[j - 1] = s[j]
<1>1. /\ Len(s) \in Nat /\ Len(s) >= 1 /\ Len(t) = Len(s) - 1
      /\ \A j \in 1 .. Len(t) : j + 1 \in 1 .. Len(s) /\ t[j] = s[j + 1]
  BY DEF Dropped
<1>2. ASSUME NEW j \in 1 .. Len(s), j # 1
      PROVE  j - 1 \in 1 .. Len(t) /\ t[j - 1] = s[j]
  <2>1. j - 1 \in 1 .. Len(t) /\ (j - 1) + 1 = j
    BY <1>1, <1>2
  <2> QED BY <1>1, <2>1
<1> QED BY <1>1, <1>2 DEF Own

LEMMA TailAscending ==
  ASSUME NEW s \in Seq(LineType), NEW t, Dropped(t, s), Ascending(s)
  PROVE  Ascending(t)
<1> SUFFICES ASSUME NEW j \in Own(t), NEW k \in Own(t), j < k PROVE t[j].i < t[k].i
  BY DEF Ascending
<1>1. /\ j + 1 \in Own(s) /\ k + 1 \in Own(s) /\ t[j] = s[j + 1] /\ t[k] = s[k + 1]
      /\ j \in Nat /\ k \in Nat
  BY OwnTail
<1> QED BY <1>1 DEF Ascending

LEMMA TailOther ==
  ASSUME NEW s \in Seq(LineType), NEW t, Dropped(t, s), ~IsOwn(s[1]),
         NEW a, NEW b, Counted(s, a, b), Ascending(s)
  PROVE  Counted(t, a, b) /\ Ascending(t)
<1>1. \A j \in Own(t) : t[j].i \in a .. b
  BY OwnTail DEF Counted
<1>2. ASSUME NEW v \in a .. b PROVE \E j \in Own(t) : t[j].i = v
  <2>1. PICK j \in Own(s) : s[j].i = v
    BY DEF Counted
  <2>2. j # 1
    BY DEF Own
  <2> QED BY <2>1, <2>2, OwnTail
<1> QED BY <1>1, <1>2, TailAscending DEF Counted

LEMMA TailOwn ==
  ASSUME NEW s \in Seq(LineType), NEW t, Dropped(t, s), IsOwn(s[1]),
         NEW a \in Nat, NEW b \in Nat, Counted(s, a, b), Ascending(s)
  PROVE  s[1].i = a /\ a <= b /\ Counted(t, a + 1, b) /\ Ascending(t)
<1>0. 1 \in 1 .. Len(s)
  BY DEF Dropped
<1>1. 1 \in Own(s) /\ s[1].i \in a .. b /\ a <= b
  BY <1>0 DEF Own, Counted
<1>2. \A j \in Own(s) : j # 1 => s[1].i < s[j].i
  BY <1>1 DEF Ascending, Own
<1>3. s[1].i = a
  <2>1. PICK j \in Own(s) : s[j].i = a
    BY <1>1 DEF Counted
  <2>2. CASE j # 1
    BY <1>1, <1>2, <2>1, <2>2
  <2> QED BY <2>1, <2>2
<1>4. ASSUME NEW j \in Own(t) PROVE t[j].i \in (a + 1) .. b
  <2>1. t[j] = s[j + 1] /\ j + 1 \in Own(s) /\ j + 1 # 1
    BY OwnTail
  <2>2. s[j + 1].i \in a .. b /\ a < s[j + 1].i
    BY <1>2, <1>3, <2>1 DEF Counted
  <2> QED BY <2>1, <2>2
<1>5. ASSUME NEW v \in (a + 1) .. b PROVE \E j \in Own(t) : t[j].i = v
  <2>1. PICK j \in Own(s) : s[j].i = v
    BY DEF Counted
  <2>2. j # 1
    BY <1>3, <2>1
  <2>3. j - 1 \in Own(t) /\ t[j - 1] = s[j]
    BY <2>1, <2>2, OwnTail
  <2> QED BY <2>1, <2>3
<1> QED BY <1>1, <1>3, <1>4, <1>5, TailAscending DEF Counted

\* A line at the front (addIntermediate).
Pushed(t, l, s) == /\ Len(t) = Len(s) + 1 /\ t[1] = l
                   /\ \A j \in 1 .. Len(s) : t[j + 1] = s[j]

LEMMA PushedFront ==
  ASSUME NEW s \in Seq(LineType), NEW l \in LineType
  PROVE  Pushed(<<l>> \o s, l, s)
  BY DEF Pushed

LEMMA OwnCons ==
  ASSUME NEW s \in Seq(LineType), NEW l \in LineType, NEW t, Pushed(t, l, s)
  PROVE  /\ Len(s) \in Nat /\ t[1] = l /\ (1 \in Own(t) <=> IsOwn(l))
         /\ \A j \in Own(s) : j + 1 \in Own(t) /\ t[j + 1] = s[j] /\ j \in 1 .. Len(s)
         /\ \A j \in Own(t) : j \in Nat /\ (j = 1 \/ (j - 1 \in Own(s) /\ t[j] = s[j - 1] /\ j > 1))
<1>1. /\ Len(t) = Len(s) + 1 /\ t[1] = l /\ Len(s) \in Nat
      /\ \A j \in 1 .. Len(s) : j + 1 \in 1 .. Len(t) /\ t[j + 1] = s[j]
  BY DEF Pushed
<1>2. ASSUME NEW j \in 1 .. Len(t), j # 1
      PROVE  j - 1 \in 1 .. Len(s) /\ t[j] = s[j - 1]
  <2>1. j - 1 \in 1 .. Len(s) /\ j = (j - 1) + 1
    BY <1>1, <1>2
  <2> QED BY <1>1, <2>1
<1>3. 1 \in 1 .. Len(t)
  BY <1>1
<1> QED BY <1>1, <1>2, <1>3 DEF Own

LEMMA ConsOther ==
  ASSUME NEW s \in Seq(LineType), NEW l \in LineType, ~IsOwn(l), NEW t, Pushed(t, l, s),
         NEW a, NEW b, Counted(s, a, b), Descending(s)
  PROVE  Counted(t, a, b) /\ Descending(t)
<1>1. \A j \in Own(t) : j - 1 \in Own(s) /\ t[j] = s[j - 1] /\ j \in Nat
  BY OwnCons DEF Pushed
<1>2. \A j \in Own(s) : j + 1 \in Own(t) /\ t[j + 1] = s[j]
  BY OwnCons
<1>3. Descending(t)
  BY <1>1 DEF Descending
<1> QED BY <1>1, <1>2, <1>3 DEF Counted

LEMMA ConsOwn ==
  ASSUME NEW s \in Seq(LineType), NEW l \in LineType, IsOwn(l), NEW t, Pushed(t, l, s),
         NEW b \in Nat, l.i = b + 1, Counted(s, 1, b), Descending(s)
  PROVE  Counted(t, 1, b + 1) /\ Descending(t)
<1>1. /\ \A j \in Own(t) : j \in Nat /\ (j = 1 \/ (j - 1 \in Own(s) /\ t[j] = s[j - 1] /\ j > 1))
      /\ t[1] = l /\ 1 \in Own(t)
      /\ \A j \in Own(s) : j + 1 \in Own(t) /\ t[j + 1] = s[j] /\ j \in 1 .. Len(s)
  BY OwnCons
<1>2. ASSUME NEW j \in Own(t), j # 1 PROVE t[j].i \in 1 .. b /\ j - 1 \in Own(s)
  BY <1>1, <1>2 DEF Counted
<1>3. \A j \in Own(t) : t[j].i \in 1 .. (b + 1)
  BY <1>1, <1>2
<1>4. ASSUME NEW v \in 1 .. (b + 1) PROVE \E j \in Own(t) : t[j].i = v
  <2>1. CASE v = b + 1
    BY <1>1, <2>1
  <2>2. CASE v \in 1 .. b
    <3>1. PICK j \in Own(s) : s[j].i = v
      BY <2>2 DEF Counted
    <3> QED BY <1>1, <3>1
  <2> QED BY <2>1, <2>2
<1>5. ASSUME NEW j \in Own(t), NEW k \in Own(t), j < k PROVE t[j].i > t[k].i
  <2>1. k # 1 /\ k - 1 \in Own(s) /\ t[k] = s[k - 1] /\ j \in Nat /\ k \in Nat
    BY <1>1, <1>5
  <2>2. CASE j = 1
    BY <1>1, <1>2, <2>1, <2>2
  <2>3. CASE j # 1
    <3>1. j - 1 \in Own(s) /\ t[j] = s[j - 1]
      BY <1>1, <2>3
    <3> QED BY <1>5, <2>1, <3>1 DEF Descending
  <2> QED BY <2>2, <2>3
<1> QED BY <1>3, <1>4, <1>5 DEF Counted, Descending

\* The list turned over (reverseIntermediates).
Turned(t, s) == /\ Len(t) = Len(s)
                /\ \A j \in 1 .. Len(s) : t[j] = s[Len(s) - j + 1]

LEMMA TurnedOver ==
  ASSUME NEW s \in Seq(LineType)
  PROVE  Turned(Reverse(s), s)
  BY DEF Turned, Reverse

LEMMA OwnReverse ==
  ASSUME NEW s \in Seq(LineType), NEW t, Turned(t, s), NEW b,
         Counted(s, 1, b), Descending(s)
  PROVE  Counted(t, 1, b) /\ Ascending(t)
<1>1. /\ Len(s) \in Nat /\ Len(t) = Len(s)
      /\ \A j \in 1 .. Len(s) : Len(s) - j + 1 \in 1 .. Len(s) /\ t[j] = s[Len(s) - j + 1]
      /\ \A j \in 1 .. Len(s) : s[j] = t[Len(s) - j + 1]
  BY DEF Turned
<1>2. \A j \in Own(t) : j \in 1 .. Len(s) /\ Len(s) - j + 1 \in Own(s) /\ t[j] = s[Len(s) - j + 1]
  BY <1>1 DEF Own
<1>3. \A j \in Own(s) : Len(s) - j + 1 \in Own(t) /\ t[Len(s) - j + 1] = s[j]
  BY <1>1 DEF Own
<1>4. Counted(t, 1, b)
  BY <1>2, <1>3 DEF Counted
<1>5. ASSUME NEW j \in Own(t), NEW k \in Own(t), j < k PROVE t[j].i < t[k].i
  <2>1. Len(s) - k + 1 < Len(s) - j + 1
    BY <1>1, <1>2, <1>5
  <2>2. s[Len(s) - k + 1].i > s[Len(s) - j + 1].i
    BY <1>2, <2>1 DEF Descending
  <2>3. s[Len(s) - j + 1].i \in Nat /\ s[Len(s) - k + 1].i \in Nat
    BY <1>1, <1>2, LineNumbers
  <2> QED BY <1>2, <2>2, <2>3
<1> QED BY <1>4, <1>5 DEF Ascending

-----------------------------------------------------------------------------
(* Multi-line answers: what is pending and what is on its way              *)

\* Only lines of information start with the awaited prefix, and what is
\* unsolicited answers no command.
LineInv ==
    \A i \in 1 .. Len(input) :
        /\ input[i].p # "none" => input[i].k \in {"info", "urc"}
        /\ input[i].k \in {"urc", "cmt"} => input[i].n = 0

LEMMA LineStep == ASSUME TypeOK, LineInv, [Next]_vars PROVE LineInv'
<1> DEFINE Good(l) == /\ l.p # "none" => l.k \in {"info", "urc"}
                      /\ l.k \in {"urc", "cmt"} => l.n = 0
<1>0. input \in Seq(LineType) /\ \A i \in 1 .. Len(input) : Good(input[i])
  BY DEF LineInv, TypeOK, DeviceOK
<1>1. SUFFICES \A i \in 1 .. Len(input') : Good(input'[i])
  BY DEF LineInv
<1> DEFINE line(k, n, i, p) == [k |-> k, n |-> n, i |-> i, p |-> p]
<1>2. ASSUME NEW k, NEW n, NEW i, NEW p, Says(k, n, i, p), Good(line(k, n, i, p))
      PROVE  \A j \in 1 .. Len(input') : Good(input'[j])
  <2>1. PICK l : l = line(k, n, i, p)
    OBVIOUS
  <2>2. input' = Append(input, l) /\ Good(l)
    BY <1>2, <2>1 DEF Says
  <2> HIDE DEF Good, line
  <2> QED BY <1>0, <2>2
<1>3. CASE ModemInfo
  BY <1>2, <1>3 DEF ModemInfo
<1>4. CASE ModemPrompt
  BY <1>2, <1>4 DEF ModemPrompt
<1>5. CASE ModemFinal
  BY <1>2, <1>5 DEF ModemFinal
<1>6. CASE ModemUrc
  <2>1. PICK k \in UrcKinds :
           \/ \E p \in {"none", "P"} : (p = "P" => k = "urc") /\ k # "cmt" /\ Says(k, 0, 0, p)
           \/ input' = input \o <<line("cmt", 0, 0, "none"), line("urc", 0, 0, "none")>>
    BY <1>6 DEF ModemUrc
  <2>2. CASE \E p \in {"none", "P"} : (p = "P" => k = "urc") /\ Says(k, 0, 0, p)
    BY <1>2, <2>2
  <2>3. CASE input' = input \o <<line("cmt", 0, 0, "none"), line("urc", 0, 0, "none")>>
    <3>1. PICK l, m : l = line("cmt", 0, 0, "none") /\ m = line("urc", 0, 0, "none")
      OBVIOUS
    <3>2. input' = input \o <<l, m>> /\ Good(l) /\ Good(m)
      BY <2>3, <3>1
    <3>3. l \in LineType /\ m \in LineType
      BY <3>1 DEF LineType, Kinds, PrefixKinds
    <3> HIDE DEF Good, line
    <3>4. /\ Len(input') = Len(input) + 2
          /\ \A i \in 1 .. Len(input) : input'[i] = input[i]
          /\ input'[Len(input) + 1] = l /\ input'[Len(input) + 2] = m
      BY <1>0, <3>2, <3>3
    <3> QED BY <1>0, <3>2, <3>4
  <2> QED BY <2>1, <2>2, <2>3
<1>7. CASE input # <<>> /\ input' = Tail(input)
  <2> HIDE DEF Good
  <2>1. \A i \in 1 .. Len(input') : i + 1 \in 1 .. Len(input) /\ input'[i] = input[i + 1]
    BY <1>0, <1>7, TailFacts
  <2> QED BY <1>0, <2>1
<1>8. CASE input' \in {input, <<>>}
  <2>1. input' = input \/ Len(input') = 0
    BY <1>8
  <2> HIDE DEF Good
  <2> QED BY <1>0, <2>1
<1>9. CASE ReadUnsolicited \/ ReadFinal \/ ReadPrompt \/ ReadIntermediate \/ ReadSms \/ ReadPdu
  BY <1>7, <1>9 DEF ReadUnsolicited, ReadFinal, ReadPrompt, ReadIntermediate, ReadSms, ReadPdu,
              TakeLine
<1>10. ASSUME NEW t \in Threads,
              Call(t) \/ Handshake(t) \/ ThreadStep(t) \/ SpuriousWake(t) \/ Timeout(t)
       PROVE  input' = input
  BY <1>10 DEF Call, Handshake, ThreadStep, Begin, Write, Check, Resume, Expire, DrainEnd,
               SpuriousWake, Timeout, device
<1>11. ReadEof \/ OnReaderClosed \/ AtClose \/ SetClosed \/ MainStep \/ ModemDrop \/ Unplug
       \/ UNCHANGED vars
       => input' \in {input, <<>>}
  BY DEF ReadEof, OnReaderClosed, AtClose, SetClosed, MainStep, AtOpen, AtOpened, ModemDrop,
         Unplug, vars, device
<1> QED BY <1>3, <1>4, <1>5, <1>6, <1>8, <1>9, <1>10, <1>11
        DEF Next, ReaderStep, ModemAnswer, Quiet

\* The pending command is the thread's own, whatever is reopened.
LEMMA HeldStep == ASSUME OneThread, TypeOK, HeldInv, [Next]_vars PROVE HeldInv'
<1>0. PICK t : Threads = {t}
  BY DEF OneThread
<1> DEFINE Within == {"write", "check", "wait", "wake", "expired"}
<1>1. /\ t \in Threads /\ pc \in [Threads -> Places] /\ call \in [Threads -> CallType]
      /\ call[t] \in Calls \cup {Handshake0}
      /\ sp_response # NoResp => pc[t] \in Within /\ sp_response.c = call[t]
  BY <1>0 DEF HeldInv, TypeOK, ThreadsOK
<1>2. SUFFICES /\ call'[t] \in Calls \cup {Handshake0}
               /\ sp_response' # NoResp => pc'[t] \in Within /\ sp_response'.c = call'[t]
  BY <1>0 DEF HeldInv
<1> USE <1>0, <1>1
<1>3. CASE Call(t) \/ Handshake(t)
  BY <1>3 DEF Call, Handshake, shared
<1>4. ASSUME NEW err, NEW n, NEW final, NEW inter, Return(t, err, n, final, inter)
      PROVE  call' = call
  BY <1>4 DEF Return
<1>5. ASSUME NEW err, Abort(t, err)
      PROVE  sp_response' = NoResp /\ call' = call
  BY <1>4, <1>5 DEF Abort, ClearPendingCommand
<1>6. CASE Begin(t)
  <2>1. CASE sp_response # NoResp
    BY <1>5, <1>6, <2>1 DEF Begin
  <2>2. CASE sp_response = NoResp
    <3>1. /\ sp_response' = [n |-> sent + 1, c |-> call[t], final |-> NoLine, inter |-> <<>>]
          /\ pc' = [pc EXCEPT ![t] = "write"] /\ call' = call
      BY <1>6, <2>2 DEF Begin
    <3> QED BY <3>1
  <2> QED BY <2>1, <2>2
<1>7. CASE Write(t)
  BY <1>5, <1>7 DEF Write, shared
<1>8. CASE Check(t)
  BY <1>4, <1>8 DEF Check, ClearPendingCommand, shared
<1>9. CASE Expire(t)
  BY <1>5, <1>9 DEF Expire
<1>10. CASE Resume(t) \/ DrainEnd(t) \/ SpuriousWake(t) \/ Timeout(t)
  BY <1>10 DEF Resume, DrainEnd, SpuriousWake, Timeout, shared
<1>11. CASE OnReaderClosed \/ AtClose
  BY <1>11 DEF OnReaderClosed, AtClose, Signal, shared
<1>12. CASE ReadFinal \/ ReadIntermediate
  <2>1. sp_response # NoResp /\ sp_response'.c = sp_response.c
    BY <1>12, Recorded DEF ReadFinal, ReadIntermediate, Response
  <2>2. call' = call /\ (pc'[t] = pc[t] \/ pc'[t] = "wake")
    BY <1>12 DEF ReadFinal, ReadIntermediate, Signal, thread
  <2> QED BY <2>1, <2>2
<1>13. CASE AtOpened
  BY <1>13 DEF AtOpened, thread
<1>14. CASE UNCHANGED <<pc, call, sp_response>>
  BY <1>14
<1>15. ReadUnsolicited \/ ReadPrompt \/ ReadSms \/ ReadPdu \/ ReadEof \/ SetClosed \/ AtOpen
       \/ ModemAnswer \/ ModemUrc \/ ModemDrop \/ Unplug \/ UNCHANGED vars
       => UNCHANGED <<pc, call, sp_response>>
  BY DEF ReadUnsolicited, ReadPrompt, ReadSms, ReadPdu, ReadEof, SetClosed, AtOpen, ModemAnswer,
         ModemInfo, ModemPrompt, ModemFinal, ModemUrc, ModemDrop, Unplug, ModemFrame,
         vars, thread, shared
<1> QED BY <1>3, <1>6, <1>7, <1>8, <1>9, <1>10, <1>11, <1>12, <1>13, <1>14, <1>15
        DEF Next, Quiet, ThreadStep, ReaderStep, MainStep

\* A multi-line answer is being collected, and nothing slipped so far.
Collecting ==
    /\ slips = 0 /\ sp_response # NoResp /\ sp_response.c.type = "MULTILINE"
    /\ \A t \in Threads : pc[t] # "write"

\* With the first g lines of the answer read, those up to h are on their way.
OnWay(g, h) ==
    /\ Ascending(input) /\ Counted(input, g + 1, h) /\ g <= h
    /\ toModem # <<>> => modem.info = h /\ toModem[1].p = "P"
    /\ \A i \in 1 .. Len(input) : input[i].n # 0 /\ Final(input[i]) => input[i].i = h

StreamInv ==
    Collecting =>
        /\ Descending(sp_response.inter)
        /\ \A i \in 1 .. Len(sp_response.inter) : sp_response.inter[i].p = "P"
        /\ IF sp_response.final = NoLine
           THEN \E g, h \in Nat : Counted(sp_response.inter, 1, g) /\ OnWay(g, h)
           ELSE Counted(sp_response.inter, 1, sp_response.final.i)

\* A line written by the modem.
LEMMA OnWaySaid ==
  ASSUME TypeOK, NEW g \in Nat, NEW h \in Nat, OnWay(g, h), NEW l \in LineType, ~IsOwn(l),
         input' = Append(input, l), l.n # 0 /\ Final(l) => l.i = h,
         toModem' # <<>> => modem'.info = h /\ toModem'[1].p = "P"
  PROVE  OnWay(g, h)'
<1>1. Appended(input', input, l) /\ input \in Seq(LineType)
  BY AppendedEnd DEF TypeOK, DeviceOK
<1>2. Ascending(input)' /\ Counted(input', g + 1, h)
  BY <1>1, AppendOther DEF OnWay
<1>3. /\ Len(input') = Len(input) + 1 /\ input'[Len(input) + 1] = l /\ Len(input) \in Nat
      /\ \A i \in 1 .. Len(input) : input'[i] = input[i]
  BY <1>1 DEF Appended
<1>4. \A i \in 1 .. Len(input') : input'[i].n # 0 /\ Final(input'[i]) => input'[i].i = h
  BY <1>3 DEF OnWay
<1> QED BY <1>2, <1>4 DEF OnWay

\* Two lines of no command.
LEMMA OnWayPair ==
  ASSUME TypeOK, NEW g \in Nat, NEW h \in Nat, OnWay(g, h),
         NEW l \in LineType, NEW m \in LineType, ~IsOwn(l), ~IsOwn(m), l.n = 0, m.n = 0,
         input' = input \o <<l, m>>, toModem' = toModem, modem' = modem
  PROVE  OnWay(g, h)'
<1>0. input \in Seq(LineType)
  BY DEF TypeOK, DeviceOK
<1>1. PICK s : s = Append(input, l)
  OBVIOUS
<1>2. Appended(s, input, l) /\ s \in Seq(LineType)
  BY <1>0, <1>1, AppendedEnd
<1>3. /\ Len(input') = Len(input) + 2 /\ Len(input) \in Nat
      /\ input'[Len(input) + 1] = l /\ input'[Len(input) + 2] = m
      /\ \A i \in 1 .. Len(input) : input'[i] = input[i]
  BY <1>0
<1>4. /\ Len(s) = Len(input) + 1 /\ s[Len(input) + 1] = l
      /\ \A i \in 1 .. Len(input) : s[i] = input[i]
  BY <1>2 DEF Appended
<1>5. ASSUME NEW i \in 1 .. Len(s) PROVE input'[i] = s[i]
  <2>1. i \in 1 .. Len(input) \/ i = Len(input) + 1
    BY <1>3, <1>4
  <2> QED BY <1>3, <1>4, <2>1
<1>6. Appended(input', s, m)
  BY <1>3, <1>4, <1>5 DEF Appended
<1>7. Counted(s, g + 1, h) /\ Ascending(s)
  BY <1>0, <1>2, AppendOther DEF OnWay
<1>8. Counted(input', g + 1, h) /\ Ascending(input)'
  BY <1>2, <1>6, <1>7, AppendOther
<1>9. \A i \in 1 .. Len(input') : i \in 1 .. Len(input) \/ input'[i].n = 0
  BY <1>3
<1> QED BY <1>3, <1>8, <1>9 DEF OnWay

\* A line of the answer written by the modem.
LEMMA OnWayInfo ==
  ASSUME TypeOK, InStep, LagInv, slips = 0, NEW g \in Nat, NEW h \in Nat, OnWay(g, h),
         NEW l \in LineType, IsOwn(l), l.i = h + 1, input' = Append(input, l), ~Final(l),
         toModem # <<>>, toModem' = toModem, modem'.info = h + 1
  PROVE  OnWay(g, h + 1)'
<1>1. Appended(input', input, l) /\ input \in Seq(LineType)
  BY AppendedEnd DEF TypeOK, DeviceOK
<1>2. g <= h /\ g + 1 \in Nat /\ g + 1 <= h + 1
  BY DEF OnWay
<1>3. Ascending(input)' /\ Counted(input', g + 1, h + 1)
  BY <1>1, <1>2, AppendOwn DEF OnWay
<1>4. /\ Len(input') = Len(input) + 1 /\ input'[Len(input) + 1] = l /\ Len(input) \in Nat
      /\ \A i \in 1 .. Len(input) : input'[i] = input[i]
  BY <1>1 DEF Appended
<1>5. \A i \in 1 .. Len(input) : input[i].n # 0 => ~Final(input[i])
  BY InSync
<1>6. \A i \in 1 .. Len(input') : input'[i].n # 0 => ~Final(input'[i])
  BY <1>4, <1>5
<1> QED BY <1>2, <1>3, <1>6 DEF OnWay

\* A line that is none of the answer is read.
LEMMA OnWayDrops ==
  ASSUME TypeOK, NEW g \in Nat, NEW h \in Nat, OnWay(g, h), input # <<>>,
         input' = Tail(input), ~IsOwn(input[1]), toModem' = toModem, modem'.info = modem.info
  PROVE  OnWay(g, h)'
<1>1. Dropped(input', input) /\ input \in Seq(LineType)
  BY DroppedFront DEF TypeOK, DeviceOK
<1>2. Ascending(input)' /\ Counted(input', g + 1, h)
  BY <1>1, TailOther DEF OnWay
<1>3. \A i \in 1 .. Len(input') : i + 1 \in 1 .. Len(input) /\ input'[i] = input[i + 1]
  BY <1>1, LineNumbers DEF Dropped
<1> QED BY <1>2, <1>3 DEF OnWay

\* The next line of the answer is read.
LEMMA OnWayTakes ==
  ASSUME TypeOK, NEW g \in Nat, NEW h \in Nat, OnWay(g, h), input # <<>>,
         input' = Tail(input), IsOwn(input[1]), toModem' = toModem, modem'.info = modem.info
  PROVE  input[1].i = g + 1 /\ OnWay(g + 1, h)'
<1>1. Dropped(input', input) /\ input \in Seq(LineType)
  BY DroppedFront DEF TypeOK, DeviceOK
<1>2. /\ input[1].i = g + 1 /\ g + 1 <= h /\ Ascending(input)'
      /\ Counted(input', (g + 1) + 1, h)
  BY <1>1, TailOwn DEF OnWay
<1>3. \A i \in 1 .. Len(input') : i + 1 \in 1 .. Len(input) /\ input'[i] = input[i + 1]
  BY <1>1, LineNumbers DEF Dropped
<1> QED BY <1>2, <1>3 DEF OnWay

\* The modem, or what is on its way, is gone.
LEMMA OnWayLost ==
  ASSUME TypeOK, NEW g \in Nat, NEW h \in Nat, OnWay(g, h), input' \in {input, <<>>},
         toModem' = <<>>
  PROVE  \E k \in Nat : OnWay(g, k)'
<1>1. CASE input' = input
  <2>1. OnWay(g, h)'
    BY <1>1 DEF OnWay
  <2> QED BY <2>1
<1>2. CASE input' = <<>>
  <2>1. Len(input') = 0
    BY <1>2
  <2>2. Own(input') = {}
    BY <2>1 DEF Own
  <2>3. Counted(input', g + 1, g) /\ Ascending(input)'
    BY <2>2, NoneCounted
  <2>4. OnWay(g, g)'
    BY <2>1, <2>3 DEF OnWay
  <2> QED BY <2>4
<1> QED BY <1>1, <1>2

\* Whatever the modem does, and wherever it is lost, the lines on their way
\* continue those that were read.
LEMMA OnWayModem ==
  ASSUME TypeOK, InStep, LagInv, slips = 0, NEW g \in Nat, NEW h \in Nat, OnWay(g, h),
         ModemAnswer \/ ModemUrc \/ ModemDrop \/ Unplug \/ AtOpen
  PROVE  \E k \in Nat : OnWay(g, k)'
<1> DEFINE line(k, n, i, p) == [k |-> k, n |-> n, i |-> i, p |-> p]
<1>1. \A k \in Kinds, n \in Nat, i \in Nat, p \in PrefixKinds : line(k, n, i, p) \in LineType
  BY DEF LineType
<1>2. /\ toModem # <<>> =>
            /\ Head(toModem) = toModem[1] /\ 1 \in 1 .. Len(toModem)
            /\ toModem[1].n \in Nat /\ toModem[1].n # 0
            /\ toModem[1].p = "P" /\ modem.info = h
      /\ modem.info \in Nat
  BY Numbers DEF InStep, OnWay, TypeOK, DeviceOK
<1>3. toModem # <<>> => Tail(toModem) = <<>>
  <2> SUFFICES ASSUME toModem # <<>>, Tail(toModem) # <<>> PROVE FALSE
    OBVIOUS
  <2>1. 2 \in 1 .. Len(toModem)
    BY Numbers
  <2> QED BY <2>1, InSync
<1>4. CASE ModemInfo
  <2>1. PICK l : l = line("info", toModem[1].n, modem.info + 1, toModem[1].p)
    OBVIOUS
  <2>2. toModem # <<>> /\ toModem' = toModem
    BY <1>4 DEF ModemInfo, Working
  <2>3. /\ IsOwn(l) /\ l.i = h + 1 /\ ~Final(l) /\ modem'.info = h + 1
    BY <1>2, <1>4, <2>1, <2>2 DEF ModemInfo, IsOwn, Final, TypeOK, DeviceOK
  <2>4. l \in LineType
    <3>1. /\ "info" \in Kinds /\ modem.info + 1 \in Nat /\ toModem[1].p \in PrefixKinds
          /\ toModem[1].n \in Nat
      BY <1>2, <2>2 DEF Kinds, PrefixKinds
    <3> HIDE DEF line
    <3> QED BY <1>1, <2>1, <3>1
  <2>5. input' = Append(input, l)
    BY <1>2, <1>4, <2>1, <2>2 DEF ModemInfo, Says
  <2>6. OnWay(g, h + 1)'
    BY <2>2, <2>3, <2>4, <2>5, OnWayInfo
  <2> QED BY <2>6
<1>5. CASE ModemPrompt
  <2>1. PICK l : l = line("prompt", toModem[1].n, 0, "none")
    OBVIOUS
  <2>2. toModem # <<>> /\ toModem' = toModem /\ modem'.info = modem.info
    BY <1>5 DEF ModemPrompt, Working, TypeOK, DeviceOK
  <2>3. ~IsOwn(l) /\ ~Final(l)
    BY <2>1 DEF IsOwn, Final
  <2>4. l \in LineType
    BY <1>1, <1>2, <2>1, <2>2 DEF Kinds, PrefixKinds
  <2>5. input' = Append(input, l)
    BY <1>2, <1>5, <2>1, <2>2 DEF ModemPrompt, Says
  <2>6. OnWay(g, h)'
    BY <1>2, <2>2, <2>3, <2>4, <2>5, OnWaySaid
  <2> QED BY <2>6
<1>6. CASE ModemFinal
  <2>0. toModem # <<>> /\ toModem' = <<>>
    BY <1>3, <1>6 DEF ModemFinal, Working
  <2>1. PICK k \in {"ok", "error"} : Says(k, Head(toModem).n, modem.info, "none")
    BY <1>6 DEF ModemFinal
  <2>2. PICK l : l = line(k, toModem[1].n, modem.info, "none")
    OBVIOUS
  <2>3. ~IsOwn(l) /\ l.i = h
    BY <1>2, <2>0, <2>2 DEF IsOwn
  <2>4. l \in LineType
    BY <1>1, <1>2, <2>0, <2>2 DEF Kinds, PrefixKinds
  <2>5. input' = Append(input, l)
    BY <1>2, <2>0, <2>1, <2>2 DEF Says
  <2>6. OnWay(g, h)'
    BY <2>0, <2>3, <2>4, <2>5, OnWaySaid
  <2> QED BY <2>6
<1>7. CASE ModemUrc
  <2> DEFINE Single(k) == \E p \in {"none", "P"} : Says(k, 0, 0, p)
             Pair == input' = input \o <<line("cmt", 0, 0, "none"), line("urc", 0, 0, "none")>>
  <2>0. toModem' = toModem /\ modem' = modem
    BY <1>7 DEF ModemUrc
  <2>1. PICK k \in UrcKinds : Single(k) \/ Pair
    BY <1>7 DEF ModemUrc
  <2>2. k \in Kinds
    BY BoundsAssumption DEF Kinds
  <2>3. ASSUME NEW p \in {"none", "P"}, Says(k, 0, 0, p) PROVE OnWay(g, h)'
    <3>1. PICK l : l = line(k, 0, 0, p)
      OBVIOUS
    <3>2. l \in LineType
      BY <1>1, <2>2, <3>1 DEF PrefixKinds
    <3>3. ~IsOwn(l) /\ l.n = 0
      BY <3>1 DEF IsOwn
    <3>4. input' = Append(input, l)
      BY <2>3, <3>1 DEF Says
    <3> QED BY <1>2, <2>0, <3>2, <3>3, <3>4, OnWaySaid
  <2>4. ASSUME Pair PROVE OnWay(g, h)'
    <3>1. PICK l, m : l = line("cmt", 0, 0, "none") /\ m = line("urc", 0, 0, "none")
      OBVIOUS
    <3>2. l \in LineType /\ m \in LineType
      BY <3>1 DEF LineType, Kinds, PrefixKinds
    <3>3. ~IsOwn(l) /\ ~IsOwn(m) /\ l.n = 0 /\ m.n = 0
      BY <3>1 DEF IsOwn
    <3>4. input' = input \o <<l, m>>
      BY <2>4, <3>1
    <3> QED BY <2>0, <3>2, <3>3, <3>4, OnWayPair
  <2>5. Single(k) => OnWay(g, h)'
    BY <2>3
  <2> HIDE DEF Single, Pair
  <2>6. OnWay(g, h)'
    BY <2>1, <2>4, <2>5
  <2> QED BY <2>6
<1>8. CASE ModemDrop
  <2>1. toModem' = <<>> /\ input' = input
    BY <1>3, <1>8 DEF ModemDrop, Working
  <2> QED BY <2>1, OnWayLost
<1>9. CASE Unplug \/ AtOpen
  <2>1. toModem' = <<>> /\ input' \in {input, <<>>}
    BY <1>9 DEF Unplug, AtOpen
  <2> QED BY <2>1, OnWayLost
<1> QED BY <1>4, <1>5, <1>6, <1>7, <1>8, <1>9 DEF ModemAnswer

\* What is pending stays, and so does what is on its way.
LEMMA StreamSame ==
  ASSUME StreamInv, Collecting, UNCHANGED sp_response,
         \A g \in Nat, h \in Nat : OnWay(g, h) => \E k \in Nat : OnWay(g, k)'
  PROVE  StreamInv'
<1>1. /\ Descending(sp_response.inter)
      /\ \A i \in 1 .. Len(sp_response.inter) : sp_response.inter[i].p = "P"
      /\ IF sp_response.final = NoLine
         THEN \E g, h \in Nat : Counted(sp_response.inter, 1, g) /\ OnWay(g, h)
         ELSE Counted(sp_response.inter, 1, sp_response.final.i)
  BY DEF StreamInv
<1>2. CASE sp_response.final = NoLine
  <2>1. PICK g \in Nat, h \in Nat : Counted(sp_response.inter, 1, g) /\ OnWay(g, h)
    BY <1>1, <1>2
  <2>2. PICK k \in Nat : OnWay(g, k)'
    BY <2>1
  <2>3. \E a, b \in Nat : Counted(sp_response.inter, 1, a)' /\ OnWay(a, b)'
    BY <2>1, <2>2
  <2> QED BY <1>1, <1>2, <2>3 DEF StreamInv
<1>3. CASE sp_response.final # NoLine
  BY <1>1, <1>3 DEF StreamInv
<1> QED BY <1>2, <1>3

\* Once the final response is there, as before the command is written, nothing
\* on its way answers a command.
LEMMA AnsweredQuiet ==
  ASSUME OneThread, TypeOK, HeldInv, ReaderInv, InStep, LagInv, slips = 0, reader = "read",
         sp_response # NoResp, sp_response.final # NoLine
  PROVE  \A i \in 1 .. Len(input) : input[i].n = 0
<1>1. ~Awaited
  BY DEF Awaited, Unanswered, HeldInv
<1>2. ~s_readerClosed
  BY DEF ReaderInv
<1> QED BY <1>1, <1>2, InSync

\* What is collected starts with the awaited prefix.
LEMMA AwaitsP ==
  ASSUME OneThread, HeldInv, Collecting
  PROVE  sp_response.c.prefix = "P"
<1>1. sp_response # NoResp /\ sp_response.c.type = "MULTILINE"
  BY DEF Collecting
<1>2. PICK t \in Threads : TRUE
  BY DEF OneThread
<1>3. sp_response.c = call[t] /\ call[t] \in Calls \cup {Handshake0}
  BY <1>1, <1>2 DEF HeldInv
<1>4. call[t] \in Calls
  BY <1>1, <1>3 DEF Handshake0
<1>5. call[t].prefix \in PrefixKinds /\ call[t].prefix # "none" /\ call[t].prefix # "digit"
  BY <1>1, <1>3, <1>4, CallsAssumption DEF CallType
<1> QED BY <1>3, <1>5 DEF PrefixKinds

\* The command is written: nothing is on its way yet.
LEMMA StreamWrite ==
  ASSUME OneThread, TypeOK, HeldInv, InStep, LagInv, AnswerInv, ModemInv, slips = 0,
         NEW t \in Threads, Write(t), ~s_readerClosed, ~eof, Collecting'
  PROVE  StreamInv'
<1> DEFINE c == [n |-> sent + 1, p |-> call[t].prefix, sms |-> call[t].sms]
<1>1. toModem = <<>> /\ \A i \in 1 .. Len(input) : input[i].n = 0
  BY WriteAwaits, InSync
<1>2. /\ pc[t] = "write" /\ toModem' = Append(toModem, c) /\ input' = input /\ modem' = modem
      /\ sp_response' = sp_response /\ call' = call
  BY DEF Write, shared
<1>3. c.p = call[t].prefix
  OBVIOUS
<1> HIDE DEF c
<1>4. toModem'[1] = c
  BY <1>1, <1>2
<1>5. c.p = "P"
  <2>1. sp_response # NoResp /\ sp_response.c.type = "MULTILINE"
    BY <1>2 DEF Collecting
  <2>2. call[t] \in Calls \cup {Handshake0} /\ call[t].type = "MULTILINE"
    BY <2>1 DEF HeldInv
  <2>3. call[t] \in Calls
    BY <2>2 DEF Handshake0
  <2>4. call[t].prefix \in PrefixKinds /\ call[t].prefix # "none" /\ call[t].prefix # "digit"
    BY <2>2, <2>3, CallsAssumption DEF CallType
  <2> QED BY <1>3, <2>4 DEF PrefixKinds
<1>6. modem'.info = 0
  BY <1>1, <1>2 DEF ModemInv, ModemReady
<1>7. /\ sp_response'.inter = <<>> /\ sp_response'.final = NoLine
  BY <1>2 DEF AnswerInv, Collecting
<1>8. Own(input') = {} /\ Own(sp_response'.inter) = {}
  BY <1>1, <1>2, <1>7 DEF Own, IsOwn
<1>9. /\ Counted(input', 0 + 1, 0) /\ Ascending(input')
      /\ Counted(sp_response'.inter, 0 + 1, 0) /\ Descending(sp_response'.inter)
  BY <1>8, NoneCounted
<1>10. OnWay(0, 0)'
  BY <1>1, <1>2, <1>4, <1>5, <1>6, <1>9 DEF OnWay
<1>11. Counted(sp_response'.inter, 1, 0)
  BY <1>9
<1>12. \E g, h \in Nat : Counted(sp_response.inter, 1, g)' /\ OnWay(g, h)'
  BY <1>10, <1>11
<1> QED BY <1>7, <1>9, <1>12 DEF StreamInv

\* The final response: the whole answer was read before it.
LEMMA StreamFinal ==
  ASSUME OneThread, TypeOK, HeldInv, ReaderInv, InStep, LagInv, LineInv, StreamInv, Collecting,
         slips' = 0, ReadFinal
  PROVE  StreamInv'
<1>1. /\ input # <<>> /\ Final(input[1]) /\ 1 \in 1 .. Len(input) /\ reader = "read"
      /\ Head(input) = input[1] /\ slips = 0
  BY Numbers DEF ReadFinal, TakeLine, Disposition, Collecting
<1>2. input[1].n # 0
  <2> SUFFICES ASSUME input[1].n = 0 PROVE FALSE
    OBVIOUS
  <2>1. slips' = 1
    BY <1>1 DEF ReadFinal
  <2> QED BY <2>1
<1>3. sp_response # NoResp /\ sp_response'.final = input[1] /\ sp_response'.inter = sp_response.inter
  BY <1>1, Recorded
<1>4. sp_response.final = NoLine
  BY <1>1, <1>2, <1>3, AnsweredQuiet
<1>5. /\ Descending(sp_response.inter)
      /\ \A i \in 1 .. Len(sp_response.inter) : sp_response.inter[i].p = "P"
      /\ \E g, h \in Nat : Counted(sp_response.inter, 1, g) /\ OnWay(g, h)
  BY <1>4 DEF StreamInv
<1>6. PICK g \in Nat, h \in Nat : Counted(sp_response.inter, 1, g) /\ OnWay(g, h)
  BY <1>5
<1>7. input[1].i = h
  BY <1>1, <1>2, <1>6 DEF OnWay
<1>8. Own(input) = {}
  <2> SUFFICES ASSUME NEW j \in Own(input) PROVE FALSE
    OBVIOUS
  <2>1. j \in 1 .. Len(input) /\ input[j].n # 0 /\ input[j].p = "P"
    BY DEF Own, IsOwn
  <2>2. ~Final(input[j])
    BY <2>1 DEF LineInv, Final
  <2>3. 1 < j
    BY <1>1, <2>1, <2>2
  <2> QED BY <1>1, <1>2, <2>1, <2>3, InSync
<1>9. g = h
  <2>1. g <= h /\ Counted(input, g + 1, h)
    BY <1>6 DEF OnWay
  <2>2. ~\E v \in (g + 1) .. h : TRUE
    BY <1>8, <2>1 DEF Counted
  <2>3. g < h => g + 1 \in (g + 1) .. h
    OBVIOUS
  <2> QED BY <2>1, <2>2, <2>3
<1>10. Counted(sp_response'.inter, 1, sp_response'.final.i)
  BY <1>3, <1>6, <1>7, <1>9
<1>11. sp_response'.final # NoLine
  BY <1>1, <1>3, Numbers, NoLineAssumption
<1> QED BY <1>3, <1>5, <1>10, <1>11 DEF StreamInv

\* A line is added to those that were read.
LEMMA StreamTakes ==
  ASSUME OneThread, TypeOK, HeldInv, ReaderInv, InStep, LagInv, StreamInv, Collecting,
         ReadIntermediate
  PROVE  StreamInv'
<1> DEFINE l == input[1]
<1>1. /\ input # <<>> /\ 1 \in 1 .. Len(input) /\ reader = "read" /\ Head(input) = l
      /\ l \in LineType /\ slips = 0 /\ Wanted(l)
      /\ input' = Tail(input) /\ toModem' = toModem /\ modem' = modem
  BY Numbers DEF ReadIntermediate, TakeLine, Disposition, Collecting
<1>2. /\ sp_response # NoResp /\ sp_response'.final = sp_response.final
      /\ sp_response'.inter = <<l>> \o sp_response.inter
      /\ sp_response.inter \in Seq(LineType)
  BY <1>1, Recorded DEF Response
<1>3. l.p = "P"
  BY <1>1, AwaitsP DEF Wanted
<1>4. /\ Descending(sp_response.inter)
      /\ \A i \in 1 .. Len(sp_response.inter) : sp_response.inter[i].p = "P"
      /\ IF sp_response.final = NoLine
         THEN \E g, h \in Nat : Counted(sp_response.inter, 1, g) /\ OnWay(g, h)
         ELSE Counted(sp_response.inter, 1, sp_response.final.i)
  BY <1>2 DEF StreamInv
<1>5. sp_response.final # NoLine => ~IsOwn(l)
  BY <1>1, <1>2, AnsweredQuiet DEF IsOwn
<1> HIDE DEF l
<1>6. Pushed(sp_response'.inter, l, sp_response.inter)
  BY <1>1, <1>2, PushedFront
<1>7. \A i \in 1 .. Len(sp_response'.inter) : sp_response'.inter[i].p = "P"
  <2>1. /\ Len(sp_response.inter) \in Nat
        /\ Len(sp_response'.inter) = Len(sp_response.inter) + 1 /\ sp_response'.inter[1] = l
        /\ \A j \in 1 .. Len(sp_response.inter) : sp_response'.inter[j + 1] = sp_response.inter[j]
    BY <1>2, <1>6 DEF Pushed
  <2> SUFFICES ASSUME NEW i \in 1 .. Len(sp_response'.inter), i # 1
               PROVE  sp_response'.inter[i].p = "P"
    BY <1>3, <2>1
  <2>2. i - 1 \in 1 .. Len(sp_response.inter) /\ (i - 1) + 1 = i
    BY <2>1
  <2>3. sp_response'.inter[(i - 1) + 1] = sp_response.inter[i - 1]
    BY <2>1, <2>2
  <2> QED BY <1>4, <2>2, <2>3
<1>8. CASE sp_response.final = NoLine
  <2>1. PICK g \in Nat, h \in Nat : Counted(sp_response.inter, 1, g) /\ OnWay(g, h)
    BY <1>4, <1>8
  <2>2. CASE IsOwn(l)
    <3>1. l.i = g + 1 /\ OnWay(g + 1, h)'
      BY <1>1, <2>1, <2>2, OnWayTakes DEF l
    <3>2. Counted(sp_response'.inter, 1, g + 1) /\ Descending(sp_response'.inter)
      BY <1>1, <1>2, <1>4, <1>6, <2>1, <2>2, <3>1, ConsOwn
    <3>3. \E a, b \in Nat : Counted(sp_response.inter, 1, a)' /\ OnWay(a, b)'
      BY <3>1, <3>2
    <3> QED BY <1>2, <1>7, <1>8, <3>2, <3>3 DEF StreamInv
  <2>3. CASE ~IsOwn(l)
    <3>1. OnWay(g, h)'
      BY <1>1, <2>1, <2>3, OnWayDrops DEF l
    <3>2. Counted(sp_response'.inter, 1, g) /\ Descending(sp_response'.inter)
      BY <1>1, <1>2, <1>4, <1>6, <2>1, <2>3, ConsOther
    <3>3. \E a, b \in Nat : Counted(sp_response.inter, 1, a)' /\ OnWay(a, b)'
      BY <2>1, <3>1, <3>2
    <3> QED BY <1>2, <1>7, <1>8, <3>2, <3>3 DEF StreamInv
  <2> QED BY <2>2, <2>3
<1>9. CASE sp_response.final # NoLine
  <2>1. Counted(sp_response'.inter, 1, sp_response.final.i) /\ Descending(sp_response'.inter)
    BY <1>1, <1>2, <1>4, <1>5, <1>6, <1>9, ConsOther
  <2> QED BY <1>2, <1>7, <1>9, <2>1 DEF StreamInv
<1> QED BY <1>8, <1>9

\* A line that is not the pending command's is read.
LEMMA StreamDrops ==
  ASSUME OneThread, TypeOK, HeldInv, LineInv, SmsInv, StreamInv, Collecting,
         ReadUnsolicited \/ ReadPrompt \/ ReadSms \/ ReadPdu
  PROVE  StreamInv'
<1>1. /\ input # <<>> /\ 1 \in 1 .. Len(input) /\ Head(input) = input[1]
      /\ input' = Tail(input) /\ toModem' = toModem /\ sp_response' = sp_response
  BY Numbers DEF ReadUnsolicited, ReadPrompt, ReadSms, ReadPdu, TakeLine, shared
<1>2. modem'.info = modem.info
  BY DEF ReadUnsolicited, ReadPrompt, ReadSms, ReadPdu, TypeOK, DeviceOK
<1>3. ~IsOwn(input[1])
  <2>1. CASE ReadUnsolicited
    <3>1. ~Wanted(input[1])
      BY <1>1, <2>1 DEF ReadUnsolicited, TakeLine, Disposition, Collecting
    <3>2. input[1].p # sp_response.c.prefix
      BY <3>1 DEF Wanted, Collecting
    <3>3. sp_response.c.prefix = "P"
      BY AwaitsP
    <3> QED BY <3>2, <3>3 DEF IsOwn
  <2>2. CASE ReadPrompt
    <3>1. input[1].k = "prompt"
      BY <1>1, <2>2 DEF ReadPrompt, TakeLine, Disposition
    <3> QED BY <1>1, <3>1 DEF LineInv, IsOwn
  <2>3. CASE ReadSms
    BY <1>1, <2>3 DEF ReadSms, LineInv, IsOwn
  <2>4. CASE ReadPdu
    BY <1>1, <2>4 DEF ReadPdu, SmsInv, LineInv, IsOwn
  <2> QED BY <2>1, <2>2, <2>3, <2>4
<1>4. \A g \in Nat, h \in Nat : OnWay(g, h) => OnWay(g, h)'
  BY <1>1, <1>2, <1>3, OnWayDrops
<1> QED BY <1>1, <1>4, StreamSame

LEMMA StreamStep ==
  ASSUME OneThread, TypeOK, MutexInv, HeldInv, ReaderInv, InStep, LagInv, AnswerInv, ModemInv,
         LineInv, SmsInv, StreamInv, [Next]_vars
  PROVE  StreamInv'
<1>0. PICK t : Threads = {t}
  BY DEF OneThread
<1>1. t \in Threads /\ t # NoThread /\ pc \in [Threads -> Places]
  BY <1>0, ThreadsAssumption DEF TypeOK, ThreadsOK
<1>2. SUFFICES ASSUME Collecting' PROVE StreamInv'
  BY DEF StreamInv
<1>3. /\ slips = 0 /\ slips' = 0 /\ sp_response' # NoResp
      /\ sp_response'.c.type = "MULTILINE" /\ pc'[t] # "write"
  <2>1. slips' = 0 /\ slips \in Nat
    BY <1>2, Numbers DEF Collecting
  <2>2. slips <= slips'
    BY Monotone
  <2> QED BY <1>1, <1>2, <2>1, <2>2 DEF Collecting
<1>4. ASSUME UNCHANGED sp_response, pc[t] # "write" PROVE Collecting
  BY <1>0, <1>3, <1>4 DEF Collecting
<1>5. ASSUME UNCHANGED <<sp_response, toModem, modem, input>>, pc[t] # "write"
      PROVE  StreamInv'
  <2>1. \A g \in Nat, h \in Nat : OnWay(g, h) => OnWay(g, h)'
    BY <1>5 DEF OnWay
  <2> QED BY <1>4, <1>5, <2>1, StreamSame
<1>6. CASE Begin(t)
  BY <1>1, <1>3, <1>6 DEF Begin, Abort, ClearPendingCommand
<1>7. CASE Write(t)
  <2>1. CASE s_readerClosed \/ eof
    BY <1>3, <1>7, <2>1 DEF Write, Abort, ClearPendingCommand
  <2> QED BY <1>1, <1>2, <1>3, <1>7, <2>1, StreamWrite
<1>8. CASE Check(t)
  <2>1. sp_response' = NoResp \/ UNCHANGED sp_response
    BY <1>8 DEF Check, ClearPendingCommand, shared
  <2>2. pc[t] # "write" /\ UNCHANGED <<toModem, modem, input>>
    BY <1>8 DEF Check, device
  <2> QED BY <1>3, <1>5, <2>1, <2>2
<1>9. CASE Expire(t)
  BY <1>3, <1>9 DEF Expire, Abort, ClearPendingCommand
<1>10. CASE Call(t) \/ Handshake(t) \/ Resume(t) \/ DrainEnd(t) \/ SpuriousWake(t) \/ Timeout(t)
  <2>1. pc[t] # "write" /\ UNCHANGED <<sp_response, toModem, modem, input>>
    BY <1>10 DEF Call, Handshake, Resume, DrainEnd, SpuriousWake, Timeout, shared, device
  <2> QED BY <1>5, <2>1
<1>11. CASE ReadFinal \/ ReadIntermediate
  <2>1. mutex = NoThread
    BY <1>11 DEF ReadFinal, ReadIntermediate, TakeLine
  <2>2. pc[t] # "write"
    BY <1>1, <2>1 DEF MutexInv
  <2>3. sp_response # NoResp /\ sp_response'.c = sp_response.c
    BY <1>11, Recorded DEF ReadFinal, ReadIntermediate, Response
  <2>4. Collecting
    BY <1>0, <1>3, <2>2, <2>3 DEF Collecting
  <2> QED BY <1>3, <1>11, <2>4, StreamFinal, StreamTakes
<1>12. CASE ReadUnsolicited \/ ReadPrompt \/ ReadSms \/ ReadPdu
  <2>1. UNCHANGED sp_response /\ pc' = pc
    BY <1>12 DEF ReadUnsolicited, ReadPrompt, ReadSms, ReadPdu, shared, thread
  <2> QED BY <1>3, <1>4, <1>12, <2>1, StreamDrops
<1>13. CASE ModemAnswer \/ ModemUrc \/ ModemDrop \/ Unplug \/ AtOpen
  <2>1. UNCHANGED sp_response /\ pc' = pc
    BY <1>13 DEF ModemAnswer, ModemInfo, ModemPrompt, ModemFinal, ModemUrc, ModemDrop, Unplug,
                 AtOpen, ModemFrame, shared, thread
  <2>2. \A g \in Nat, h \in Nat : OnWay(g, h) => \E k \in Nat : OnWay(g, k)'
    BY <1>3, <1>13, OnWayModem
  <2> QED BY <1>3, <1>4, <2>1, <2>2, StreamSame
<1>14. CASE OnReaderClosed \/ AtClose
  <2>1. pc'[t] = pc[t] \/ pc[t] = "wait"
    BY <1>0, <1>1, <1>14 DEF OnReaderClosed, AtClose, Signal
  <2>2. UNCHANGED <<sp_response, toModem, modem, input>>
    BY <1>14 DEF OnReaderClosed, AtClose, shared, device
  <2> QED BY <1>3, <1>5, <2>1, <2>2
<1>15. CASE AtOpened
  BY <1>3, <1>15 DEF AtOpened
<1>16. CASE ReadEof \/ SetClosed \/ UNCHANGED vars
  <2>1. UNCHANGED <<sp_response, toModem, modem, input, pc>>
    BY <1>16 DEF ReadEof, SetClosed, vars, shared, device, thread
  <2> QED BY <1>3, <1>5, <2>1
<1> QED BY <1>0, <1>6, <1>7, <1>8, <1>9, <1>10, <1>11, <1>12, <1>13, <1>14, <1>15, <1>16
        DEF Next, Quiet, ThreadStep, ReaderStep, MainStep

\* What at_send_command_full_nolock returns is what was collected, turned over.
LEMMA CompleteStep ==
  ASSUME OneThread, TypeOK, MutexInv, StreamInv, HeldInv, CompleteInOrder, [Next]_vars
  PROVE  CompleteInOrder'
<1>0. PICK t : Threads = {t}
  BY DEF OneThread
<1>1. t \in Threads /\ ret \in [Threads -> RetType] /\ call \in [Threads -> CallType]
      /\ slips \in Nat /\ slips' \in Nat /\ slips <= slips'
  BY <1>0, Numbers, NumbersNext, Monotone DEF TypeOK, ThreadsOK
<1> DEFINE Whole(got, last) ==
             LET own == {j \in DOMAIN got : got[j].n # 0}
             IN  /\ {got[j].i : j \in own} = 1 .. last.i
                 /\ \A j, k \in own : j < k => got[j].i < got[k].i
<1>2. SUFFICES ASSUME slips' = 0, ret'[t].err = "OK", ret'[t].final.n # 0,
                      call'[t].type = "MULTILINE", call'[t].out
               PROVE  Whole(ret'[t].inter, ret'[t].final)
  BY <1>0 DEF CompleteInOrder
<1>3. CASE UNCHANGED <<ret, call>>
  BY <1>1, <1>2, <1>3 DEF CompleteInOrder
<1> HIDE DEF Whole
<1>4. ASSUME NEW err, Abort(t, err), err # "OK" PROVE FALSE
  BY <1>1, <1>2, <1>4 DEF Abort, Return
<1>5. CASE Begin(t)
  BY <1>3, <1>4, <1>5 DEF Begin
<1>6. CASE Write(t)
  BY <1>3, <1>4, <1>6 DEF Write
<1>7. CASE Expire(t)
  BY <1>4, <1>7 DEF Expire
<1>8. CASE Call(t) \/ Handshake(t)
  BY <1>1, <1>2, <1>8 DEF Call, Handshake, NoRet
<1>9. CASE Check(t)
  <2>1. CASE sp_response = NoResp \/ (sp_response.final = NoLine /\ ~s_readerClosed)
    BY <1>3, <1>9, <2>1 DEF Check
  <2>2. CASE sp_response # NoResp /\ ~(sp_response.final = NoLine /\ ~s_readerClosed)
    <3>1. /\ ret'[t].err = Outcome(t, sp_response) /\ ret'[t].final = sp_response.final
          /\ ret'[t].inter = IF call[t].out THEN Reverse(sp_response.inter)
                                            ELSE sp_response.inter
          /\ call' = call /\ slips' = slips /\ pc[t] = "check"
      BY <1>1, <1>9, <2>2 DEF Check, Return
    <3>2. ~s_readerClosed /\ sp_response.final # NoLine
      BY <1>2, <2>2, <3>1 DEF Outcome
    <3>3. Collecting
      BY <1>0, <1>1, <1>2, <2>2, <3>1 DEF Collecting, HeldInv
    <3>4. /\ Descending(sp_response.inter)
          /\ \A i \in 1 .. Len(sp_response.inter) : sp_response.inter[i].p = "P"
          /\ Counted(sp_response.inter, 1, sp_response.final.i)
      BY <3>2, <3>3 DEF StreamInv
    <3>5. sp_response.inter \in Seq(LineType)
      BY <2>2 DEF TypeOK, SharedOK, Response
    <3>6. PICK got : got = Reverse(sp_response.inter)
      OBVIOUS
    <3>7. Turned(got, sp_response.inter) /\ got \in Seq(LineType)
      BY <3>5, <3>6, TurnedOver, ReverseType
    <3>8. Counted(got, 1, sp_response.final.i) /\ Ascending(got)
      BY <3>4, <3>5, <3>7, OwnReverse
    <3>9. DOMAIN got = 1 .. Len(got) /\ \A j \in 1 .. Len(got) : got[j].p = "P"
      <4>1. /\ Len(got) = Len(sp_response.inter) /\ Len(got) \in Nat
            /\ \A j \in 1 .. Len(got) : got[j] = sp_response.inter[Len(got) - j + 1]
                                        /\ Len(got) - j + 1 \in 1 .. Len(sp_response.inter)
        BY <3>5, <3>7 DEF Turned
      <4>2. \A j \in 1 .. Len(got) : sp_response.inter[Len(got) - j + 1].p = "P"
        BY <3>4, <4>1
      <4>3. DOMAIN got = 1 .. Len(got)
        BY <3>7
      <4> QED BY <4>1, <4>2, <4>3
    <3>10. \A j : j \in DOMAIN got /\ got[j].n # 0 <=> j \in Own(got)
      BY <3>9 DEF Own, IsOwn
    <3>11. Whole(got, sp_response.final)
      BY <3>8, <3>10 DEF Whole, Counted, Ascending
    <3> QED BY <1>2, <3>1, <3>6, <3>11
  <2> QED BY <2>1, <2>2
<1>10. Resume(t) \/ DrainEnd(t) \/ SpuriousWake(t) \/ Timeout(t) \/ ReaderStep \/ MainStep
       \/ ModemAnswer \/ ModemUrc \/ ModemDrop \/ Unplug \/ UNCHANGED vars
       => UNCHANGED <<ret, call>>
  BY DEF Resume, DrainEnd, SpuriousWake, Timeout, ReaderStep, ReadUnsolicited, ReadFinal,
         ReadPrompt, ReadIntermediate, ReadSms, ReadPdu, ReadEof, OnReaderClosed, AtClose,
         SetClosed, MainStep, AtOpen, AtOpened, ModemAnswer, ModemInfo, ModemPrompt, ModemFinal,
         ModemUrc, ModemDrop, Unplug, ModemFrame, vars, thread
<1> QED BY <1>0, <1>3, <1>5, <1>6, <1>7, <1>8, <1>9, <1>10 DEF Next, Quiet, ThreadStep

-----------------------------------------------------------------------------
AnswersInv == MutexInv /\ InStep /\ LagInv /\ AnswerInv /\ ModemInv

LEMMA AnswersKept == ASSUME OneThread PROVE Spec => []AnswersInv
<1>1. Init => AnswersInv
  <2> SUFFICES ASSUME Init PROVE AnswersInv
    OBVIOUS
  <2>1. MutexInv /\ ModemInv
    BY ThreadsAssumption DEF Init, MutexInv, ModemInv
  <2>2. input = <<>> /\ toModem = <<>> /\ sp_response = NoResp
    BY DEF Init
  <2>3. Len(input) = 0 /\ Len(toModem) = 0
    BY <2>2
  <2>4. InStep /\ LagInv /\ AnswerInv
    BY <2>2, <2>3 DEF InStep, LagInv, Behind, AnswerInv
  <2> QED BY <2>1, <2>4 DEF AnswersInv
<1>2. TypeOK /\ AnswersInv /\ [Next]_vars => AnswersInv'
  <2> SUFFICES ASSUME TypeOK, AnswersInv, [Next]_vars PROVE AnswersInv'
    OBVIOUS
  <2> USE DEF AnswersInv
  <2>1. MutexInv'
    BY MutexStep
  <2>2. InStep'
    BY InStepStep
  <2>3. LagInv'
    BY LagStep
  <2>4. AnswerInv'
    BY AnswerStep
  <2>5. ModemInv'
    BY ModemStep
  <2> QED BY <2>1, <2>2, <2>3, <2>4, <2>5
<1> QED BY <1>1, <1>2, TypeCorrect, PTL DEF Spec

\* However the modem, the reader, the timeouts and mainLoop's reopening of the
\* device (at_open, without the mutex) interleave, an answer handed to the
\* caller is its own command's or one late by no more commands than were
\* abandoned or ended by a stray final response.
THEOREM AnswersMatch ==
  ASSUME OneThread
  PROVE  Spec => []AnswerMatches
<1>1. Init => AnswerMatches
  BY DEF Init, AnswerMatches, NoRet, ToSet
<1>2. TypeOK /\ AnswersInv /\ AnswerMatches /\ [Next]_vars => AnswerMatches'
  BY MatchStep DEF AnswersInv
<1> QED BY <1>1, <1>2, AnswersKept, TypeCorrect, PTL DEF Spec

\* writeCtrlZ gives the modem, at its prompt, the text that came with the very
\* command the prompt belongs to, unless a command was abandoned or ended by a
\* final response that was not its own; whatever is opened and lost meanwhile.
THEOREM PduAtOwnPrompt ==
  ASSUME OneThread
  PROVE  Spec => PduToOwnPrompt
<1>1. TypeOK /\ AnswersInv /\ [Next]_vars =>
        [modem.prompt = "sent" /\ modem'.prompt = "done" /\ slips = 0
         => sp_response.n = Head(toModem).n]_vars
  BY PromptIsOwn DEF AnswersInv
<1> QED BY <1>1, AnswersKept, TypeCorrect, PTL DEF Spec, PduToOwnPrompt

StreamsInv == AnswersInv /\ ReaderInv /\ SmsInv /\ HeldInv /\ LineInv /\ StreamInv

LEMMA StreamsKept == ASSUME OneThread PROVE Spec => []StreamsInv
<1>1. Init => HeldInv /\ LineInv /\ StreamInv
  BY DEF Init, HeldInv, LineInv, StreamInv, Collecting
<1>2. TypeOK /\ AnswersInv /\ (ReaderInv /\ SmsInv) /\ (HeldInv /\ LineInv /\ StreamInv)
      /\ [Next]_vars => (HeldInv /\ LineInv /\ StreamInv)'
  BY HeldStep, LineStep, StreamStep DEF AnswersInv
<1>3. AnswersInv /\ (ReaderInv /\ SmsInv) /\ (HeldInv /\ LineInv /\ StreamInv) => StreamsInv
  BY DEF StreamsInv
<1> QED BY <1>1, <1>2, <1>3, AnswersKept, SmsPaired, TypeCorrect, PTL DEF Spec

\* With one command thread, and whatever is unsolicited, lost or reopened, a
\* multi-line answer that at_send_command_multiline hands over is all that the
\* modem wrote for it, in its order (addIntermediate, reverseIntermediates),
\* unless a command was abandoned or ended by a stray final response.
THEOREM CompleteAnswers ==
  ASSUME OneThread
  PROVE  Spec => []CompleteInOrder
<1>1. Init => CompleteInOrder
  BY DEF Init, CompleteInOrder, NoRet
<1>2. TypeOK /\ StreamsInv /\ CompleteInOrder /\ [Next]_vars => CompleteInOrder'
  BY CompleteStep DEF StreamsInv, AnswersInv
<1> QED BY <1>1, <1>2, StreamsKept, TypeCorrect, PTL DEF Spec
=============================================================================
