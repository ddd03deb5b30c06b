--------------------------- MODULE LineReaderProofs ---------------------------
(***************************************************************************)
(* readline stays inside s_ATBuffer, for every size of it and whatever the *)
(* modem writes; and until it returns an SMS prompt, what its comment says *)
(* of s_ATBufferCur holds, each line is returned once, whole and in order, *)
(* and what is ditched belongs to a line longer than the buffer.  It never *)
(* waits with a prompt in hand.                                            *)
(***************************************************************************)
EXTENDS LineReader, TLAPS, WellFoundedInduction, SequenceTheorems

\* A set of naturals has a least element.
LessThan == {p \in Nat \X Nat : p[1] < p[2]}
LEMMA LessThanWellFounded == IsWellFoundedOn(LessThan, Nat)
  BY NatLessThanWellFounded DEF OpToRel, LessThan

LEMMA Least == ASSUME NEW T \in SUBSET Nat, T # {}
               PROVE  \E x \in T : \A y \in T : x <= y
<1>1. \E x \in T : \A y \in T : ~(<<y, x>> \in LessThan)
  BY LessThanWellFounded, WFMin
<1>2. PICK x \in T : \A y \in T : ~(<<y, x>> \in LessThan)
  BY <1>1
<1>3. ASSUME NEW y \in T PROVE x <= y
  <2>1. <<y, x>> \in Nat \X Nat /\ ~(<<y, x>> \in LessThan)
    BY <1>2
  <2> QED BY <2>1 DEF LessThan
<1> QED BY <1>3

\* The first byte of a set is there if there is one at all.
LEMMA FirstFound ==
  ASSUME NEW b \in [0 .. Size -> Byte], NEW i \in 0 .. Size, NEW S,
         NEW w \in i .. Size, b[w] \in S
  PROVE  /\ First(b, i, S) \in i .. w
         /\ b[First(b, i, S)] \in S
         /\ \A k \in i .. First(b, i, S) - 1 : b[k] \notin S
<1> DEFINE T == {j \in i .. Size : b[j] \in S}
<1>1. T \in SUBSET Nat /\ w \in T
  BY SizeAssumption
<1>2. PICK x \in T : \A y \in T : x <= y
  BY <1>1, Least
<1>3. x \in i .. Size /\ b[x] \in S /\ \A k \in i .. x - 1 : b[k] \notin S
  BY <1>2, SizeAssumption
<1>4. /\ First(b, i, S) \in i .. Size /\ b[First(b, i, S)] \in S
      /\ \A k \in i .. First(b, i, S) - 1 : b[k] \notin S
  BY <1>3 DEF First
<1>5. First(b, i, S) <= w
  BY <1>4, SizeAssumption
<1> QED BY <1>4, <1>5, SizeAssumption

\* With a \0 at w, neither the skipping of newlines nor the search for the end
\* of a line goes beyond w, the prompt's apart, which may end one further.
LEMMA StartFound ==
  ASSUME NEW b \in [0 .. Size -> Byte], NEW i \in 0 .. Size, NEW w \in i .. Size,
         b[w] = "nul"
  PROVE  Start(b, i) \in i .. w
<1>1. b[w] \in Byte \ {"nl"}
  BY DEF Byte
<1> QED BY <1>1, FirstFound DEF Start

LEMMA EOLFound ==
  ASSUME NEW b \in [0 .. Size -> Byte], NEW i \in 0 .. Size, NEW w \in i .. Size,
         b[w] = "nul"
  PROVE  /\ FindNextEOL(b, i) \in {NoEOL} \cup i .. w
         /\ FindNextEOL(b, i) # NoEOL /\ ~IsPrompt(b, i) => FindNextEOL(b, i) < w
<1> DEFINE j == First(b, i, {"nl", "nul"})
<1>1. j \in i .. w /\ b[j] \in {"nl", "nul"}
  BY FirstFound
<1>2. CASE IsPrompt(b, i)
  <2>1. i # w /\ i + 1 # w
    BY <1>2 DEF IsPrompt
  <2>2. i + 2 \in i .. w
    BY <2>1, SizeAssumption
  <2> QED BY <1>2, <2>2 DEF FindNextEOL
<1>3. CASE ~IsPrompt(b, i)
  <2>1. FindNextEOL(b, i) = IF b[j] = "nul" THEN NoEOL ELSE j
    BY <1>3 DEF FindNextEOL
  <2> HIDE DEF j
  <2>2. b[j] # "nul" => j # w
    OBVIOUS
  <2> QED BY <1>1, <2>1, <2>2, SizeAssumption DEF NoEOL
<1> QED BY <1>2, <1>3

-----------------------------------------------------------------------------
(* Type correctness                                                        *)

\* A buffer with n bytes put at p_read and a \0 behind them.
Filled(bytes, n) ==
  [j \in 0 .. Size |-> IF j \in p_read .. p_read + n - 1 THEN bytes[j - p_read + 1]
                       ELSE IF j = p_read + n THEN "nul" ELSE buf[j]]

LEMMA FilledType ==
  ASSUME TypeOK, NEW n \in 1 .. Len(wire), p_read + n <= Size
  PROVE  /\ SubSeq(wire, 1, n) \in Seq(Byte \ {"nul"})
         /\ SubSeq(wire, n + 1, Len(wire)) \in Seq(Byte \ {"nul"})
         /\ Filled(SubSeq(wire, 1, n), n) \in [0 .. Size -> Byte]
         /\ Filled(SubSeq(wire, 1, n), n)[Size] = "nul"
         /\ Filled(SubSeq(wire, 1, n), n)[p_read + n] = "nul"
<1> DEFINE bytes == SubSeq(wire, 1, n)
<1>1. wire \in Seq(Byte \ {"nul"}) /\ p_read \in 0 .. Size /\ Size \in Nat
      /\ buf \in [0 .. Size -> Byte] /\ buf[Size] = "nul"
  BY SizeAssumption DEF TypeOK
<1>2. bytes \in Seq(Byte \ {"nul"}) /\ Len(bytes) = n
      /\ SubSeq(wire, n + 1, Len(wire)) \in Seq(Byte \ {"nul"})
  BY <1>1
<1> HIDE DEF bytes
<1>3. \A k \in 1 .. n : bytes[k] \in Byte
  BY <1>2
<1>4. "nul" \in Byte
  BY DEF Byte
<1>5. Filled(bytes, n) \in [0 .. Size -> Byte]
  BY <1>1, <1>3, <1>4 DEF Filled
<1>6. Filled(bytes, n)[Size] = "nul" /\ Filled(bytes, n)[p_read + n] = "nul"
  BY <1>1 DEF Filled
<1> QED BY <1>2, <1>5, <1>6 DEF bytes

LEMMA FunctionIsSeq == ASSUME NEW S, NEW m \in Nat, NEW f \in [1 .. m -> S]
               PROVE  f \in Seq(S) /\ Len(f) = m
  OBVIOUS

LEMMA DeliverType ==
  ASSUME TypeOK, NEW b \in [0 .. Size -> Byte], b[Size] = "nul", NEW i \in 0 .. Size,
         NEW e \in i .. Size, NEW bytes \in Seq(Byte), Deliver(b, i, e, bytes)
  PROVE  /\ buf' \in [0 .. Size -> Byte] /\ buf'[Size] = "nul"
         /\ cur' \in 0 .. Size + 1 /\ place' = "call"
         /\ prompted' \in BOOLEAN /\ text' \in Seq(Byte) /\ lines' \in Seq(Seq(Byte))
<1>1. prompted \in BOOLEAN /\ text \in Seq(Byte) /\ lines \in Seq(Seq(Byte)) /\ Size \in Nat /\ "nul" \in Byte
  BY SizeAssumption DEF TypeOK, Byte
<1>2. [k \in 1 .. e - i |-> b[i + k - 1]] \in Seq(Byte)
  <2> DEFINE m == e - i
  <2>1. m \in Nat /\ \A k \in 1 .. m : i + k - 1 \in 0 .. Size
    BY <1>1
  <2>2. \A k \in 1 .. m : b[i + k - 1] \in Byte
    BY <2>1
  <2> HIDE DEF m
  <2> DEFINE f == [k \in 1 .. m |-> b[i + k - 1]]
  <2>3. f \in [1 .. m -> Byte]
    BY <2>2
  <2> HIDE DEF f
  <2>4. f \in Seq(Byte)
    BY <2>1, <2>3, FunctionIsSeq
  <2> QED BY <2>4 DEF f, m
<1>3. prompted' \in BOOLEAN /\ text' \in Seq(Byte) /\ lines' \in Seq(Seq(Byte))
  <2>1. CASE IsPrompt(b, i)
    BY <2>1 DEF Deliver
  <2>2. CASE ~IsPrompt(b, i)
    <3> DEFINE l == [k \in 1 .. e - i |-> b[i + k - 1]]
    <3>1. l \in Seq(Byte) /\ text' = text \o bytes /\ lines' = Append(lines, l)
          /\ prompted' = prompted
      BY <1>2, <2>2 DEF Deliver
    <3> HIDE DEF l
    <3> QED BY <1>1, <3>1
  <2> QED BY <2>1, <2>2
<1> QED BY <1>1, <1>3 DEF Deliver

LEMMA TypeStep == TypeOK /\ [Next]_vars => TypeOK'
<1> SUFFICES ASSUME TypeOK, [Next]_vars PROVE TypeOK'
  OBVIOUS
<1>0. /\ buf \in [0 .. Size -> Byte] /\ buf[Size] = "nul"
      /\ cur \in 0 .. Size + 1 /\ p_read \in 0 .. Size /\ Size \in Nat
      /\ place = "read" => cur <= Size
  BY SizeAssumption DEF TypeOK
<1>e. "nul" \in Byte /\ <<>> \in Seq(Byte) /\ <<>> \in Seq(Seq(Byte))
  BY DEF Byte
<1>1. CASE EnterEmpty
  <2>1. cur' = 0 /\ p_read' = 0 /\ buf' = [buf EXCEPT ![0] = "nul"] /\ place' = "read"
    BY <1>1 DEF EnterEmpty
  <2>2. buf' \in [0 .. Size -> Byte] /\ buf'[Size] = "nul" /\ cur' \in 0 .. Size
        /\ p_read' \in 0 .. Size
    BY <1>0, <1>e, <2>1
  <2>3. prompted' \in BOOLEAN
    BY <1>1 DEF EnterEmpty
  <2>4. text' \in Seq(Byte) /\ lines' \in Seq(Seq(Byte))
    BY <1>1, <1>e DEF EnterEmpty, TypeOK
  <2>5. UNCHANGED <<wire, eof, frames, session>>
    BY <1>1 DEF EnterEmpty, modem
  <2>6. cur' \in 0 .. Size + 1
    BY <1>0, <2>2
  <2> QED BY <1>0, <2>1, <2>2, <2>3, <2>4, <2>5, <2>6 DEF TypeOK
<1>2. CASE EnterLine
  <2> DEFINE i == Start(buf, cur)
             e == FindNextEOL(buf, i)
  <2>1. i \in 0 .. Size
    BY <1>0, <1>2, StartFound DEF EnterLine
  <2>2. e \in i .. Size /\ Deliver(buf, i, e, <<>>)
    BY <1>0, <1>2, <2>1, EOLFound DEF EnterLine
  <2> HIDE DEF i, e
  <2>3. /\ buf' \in [0 .. Size -> Byte] /\ buf'[Size] = "nul"
        /\ cur' \in 0 .. Size + 1 /\ place' = "call"
        /\ prompted' \in BOOLEAN /\ text' \in Seq(Byte) /\ lines' \in Seq(Seq(Byte))
    BY <1>0, <1>e, <2>1, <2>2, DeliverType
  <2> QED BY <1>2, <2>3 DEF EnterLine, modem, TypeOK
<1>3. CASE EnterPartial
  <2> DEFINE i == Start(buf, cur)
             len == First(buf, i, {"nul"}) - i
  <2>1. i \in 0 .. Size
    BY <1>0, <1>3, StartFound DEF EnterPartial
  <2>2. len \in 0 .. Size - i
    <3>1. First(buf, i, {"nul"}) \in i .. Size
      <4>1. Size \in i .. Size /\ buf[Size] \in {"nul"}
        BY <1>0, <2>1
      <4> HIDE DEF i
      <4> QED BY <1>0, <2>1, <4>1, FirstFound
    <3> QED BY <1>0, <2>1, <3>1
  <2>3. /\ buf' = [j \in 0 .. Size |-> IF j <= len THEN buf[i + j] ELSE buf[j]]
        /\ p_read' = len
    BY <1>3 DEF EnterPartial
  <2> HIDE DEF i, len
  <2>4. \A j \in 0 .. len : i + j \in 0 .. Size
    BY <1>0, <2>1, <2>2
  <2>5. buf' \in [0 .. Size -> Byte]
    BY <1>0, <2>3, <2>4
  <2>6. buf'[Size] = "nul"
    <3>1. Size <= len => len = Size /\ i = 0
      BY <1>0, <2>1, <2>2
    <3> QED BY <1>0, <2>3, <3>1
  <2>7. p_read' \in 0 .. Size
    BY <1>0, <2>1, <2>2, <2>3
  <2> QED BY <1>0, <1>3, <2>5, <2>6, <2>7 DEF EnterPartial, modem, history, TypeOK
<1>4. CASE Ditch
  <2>1. /\ cur' = 0 /\ p_read' = 0 /\ buf' = [buf EXCEPT ![0] = "nul"]
        /\ place = "read" /\ place' = place
    BY <1>4 DEF Ditch
  <2>2. buf' \in [0 .. Size -> Byte] /\ buf'[Size] = "nul" /\ cur' \in 0 .. Size
        /\ p_read' \in 0 .. Size
    BY <1>0, <1>e, <2>1
  <2>3. prompted' \in BOOLEAN /\ text' \in Seq(Byte) /\ lines' \in Seq(Seq(Byte))
    BY <1>4, <1>e DEF Ditch
  <2>4. UNCHANGED <<wire, eof, frames, session>>
    BY <1>4 DEF Ditch, modem
  <2>5. cur' \in 0 .. Size + 1
    BY <1>0, <2>2
  <2> QED BY <1>0, <2>1, <2>2, <2>3, <2>4, <2>5 DEF TypeOK
<1>5. CASE Read
  <2>1. PICK n \in 1 .. Len(wire) :
          /\ n <= Room
          /\ LET bytes == SubSeq(wire, 1, n)
                 b == Filled(bytes, n)
                 i == Start(b, cur)
                 e == FindNextEOL(b, i)
             IN  IF e = NoEOL
                 THEN /\ buf' = b /\ cur' = i /\ text' = text \o bytes
                      /\ UNCHANGED <<place, prompted, lines>>
                 ELSE Deliver(b, i, e, bytes)
          /\ p_read' = p_read + n
          /\ wire' = SubSeq(wire, n + 1, Len(wire))
    BY <1>5 DEF Read, Filled
  <2> DEFINE bytes == SubSeq(wire, 1, n)
             b == Filled(bytes, n)
             i == Start(b, cur)
             e == FindNextEOL(b, i)
  <2>2. n \in Nat /\ p_read + n <= Size /\ place = "read" /\ wire \in Seq(Byte \ {"nul"})
    <3>1. place = "read"
      BY <1>5 DEF Read
    <3>2. wire \in Seq(Byte \ {"nul"}) /\ Len(wire) \in Nat
      BY DEF TypeOK
    <3> QED BY <1>0, <2>1, <3>1, <3>2 DEF Room
  <2>3. /\ bytes \in Seq(Byte \ {"nul"}) /\ bytes \in Seq(Byte)
        /\ wire' \in Seq(Byte \ {"nul"})
        /\ b \in [0 .. Size -> Byte] /\ b[Size] = "nul"
    BY <2>1, <2>2, FilledType
  <2>4. i \in 0 .. Size
    <3>1. cur \in 0 .. Size /\ Size \in cur .. Size
      BY <1>0, <2>2
    <3> HIDE DEF b
    <3>2. i \in cur .. Size
      BY <2>3, <3>1, StartFound
    <3> QED BY <1>0, <3>2
  <2>5. e # NoEOL => e \in i .. Size
    BY <1>0, <2>3, <2>4, EOLFound
  <2>6. /\ e = NoEOL => /\ buf' = b /\ cur' = i /\ text' = text \o bytes
                        /\ UNCHANGED <<place, prompted, lines>>
        /\ e # NoEOL => Deliver(b, i, e, bytes)
    BY <2>1
  <2> HIDE DEF bytes, b, i, e
  <2>7. /\ buf' \in [0 .. Size -> Byte] /\ buf'[Size] = "nul"
        /\ cur' \in 0 .. Size + 1 /\ place' \in {"call", "read"}
        /\ place' = "read" => cur' <= Size
        /\ prompted' \in BOOLEAN /\ text' \in Seq(Byte) /\ lines' \in Seq(Seq(Byte))
    <3>1. CASE e = NoEOL
      <4>1. prompted \in BOOLEAN /\ text \in Seq(Byte) /\ lines \in Seq(Seq(Byte))
        BY DEF TypeOK
      <4>2. text \o bytes \in Seq(Byte)
        BY <2>3, <4>1
      <4>3. buf' = b /\ cur' = i /\ text' = text \o bytes /\ UNCHANGED <<place, prompted, lines>>
        BY <2>6, <3>1
      <4>4. prompted' \in BOOLEAN /\ text' \in Seq(Byte) /\ lines' \in Seq(Seq(Byte))
        BY <4>1, <4>2, <4>3
      <4>5. buf' \in [0 .. Size -> Byte] /\ buf'[Size] = "nul"
        BY <2>3, <4>3
      <4>6. cur' \in 0 .. Size + 1 /\ cur' <= Size /\ place' = "read"
        BY <1>0, <2>2, <2>4, <4>3
      <4> QED BY <4>4, <4>5, <4>6
    <3>2. CASE e # NoEOL
      BY <2>3, <2>4, <2>5, <2>6, <3>2, DeliverType
    <3> QED BY <3>1, <3>2
  <2>8. p_read' \in 0 .. Size
    BY <1>0, <2>1, <2>2
  <2> QED BY <1>5, <2>3, <2>7, <2>8 DEF Read, TypeOK
<1>6. CASE ReadEof \/ Overrun
  BY <1>6 DEF ReadEof, Overrun, buffer, modem, history, TypeOK
<1>7. CASE AtOpen
  <2>1. session \in Nat /\ session' = session + 1 /\ place' = "call"
    BY <1>7 DEF AtOpen, TypeOK
  <2>2. UNCHANGED <<buf, cur, p_read, wire, frames, prompted, text, lines>> /\ eof' = FALSE
    BY <1>7 DEF AtOpen, buffer, history
  <2>3. session' \in Nat /\ place' \in {"call", "read", "null", "overrun"}
    BY <2>1
  <2> QED BY <1>0, <2>1, <2>2, <2>3 DEF TypeOK
<1>8. CASE Write
  <2>1. PICK f \in Frames : wire' = wire \o f
    BY <1>8 DEF Write
  <2>2. wire' \in Seq(Byte \ {"nul"})
    BY <2>1, FramesAssumption DEF TypeOK
  <2> QED BY <1>8, <2>2 DEF Write, buffer, history, TypeOK
<1>9. CASE Unplug
  BY <1>9 DEF Unplug, buffer, history, TypeOK
<1>10. CASE UNCHANGED vars
  BY <1>10 DEF vars, TypeOK
<1> QED BY <1>1, <1>2, <1>3, <1>4, <1>5, <1>6, <1>7, <1>8, <1>9, <1>10 DEF Next, ReaderStep

\* Whatever the modem writes and however large the buffer is, s_ATBuffer ends in
\* a \0, reads stay inside it, and s_ATBufferCur is at most one behind it.
THEOREM TypeCorrect == Spec => []TypeOK
<1>1. Init => TypeOK
  <2> SUFFICES ASSUME Init PROVE TypeOK
    OBVIOUS
  <2>1. Size \in Nat /\ "nul" \in Byte
    BY SizeAssumption DEF Byte
  <2>2. buf \in [0 .. Size -> Byte] /\ buf[Size] = "nul"
    BY <2>1 DEF Init
  <2>3. /\ <<>> \in Seq(Byte \ {"nul"}) /\ <<>> \in Seq(Byte)
        /\ <<>> \in Seq(Seq(Byte))
    OBVIOUS
  <2> QED BY <2>1, <2>2, <2>3 DEF Init, TypeOK
<1> QED BY <1>1, TypeStep, PTL DEF Spec

-----------------------------------------------------------------------------
(* Until a prompt is returned, the comment on s_ATBufferCur holds          *)

\* A line that is no prompt ends before the data does, and so what is left
\* starts within it.
LEMMA DeliverWithin ==
  ASSUME NEW b \in [0 .. Size -> Byte], NEW i \in 0 .. Size, NEW bytes,
         NEW w \in i .. Size, b[w] = "nul",
         FindNextEOL(b, i) # NoEOL, Deliver(b, i, FindNextEOL(b, i), bytes),
         ~prompted'
  PROVE  ~prompted /\ cur' <= w /\ buf'[w] = "nul" /\ place' = "call"
<1> DEFINE e == FindNextEOL(b, i)
<1>1. ~IsPrompt(b, i) /\ ~prompted
  BY DEF Deliver
<1>2. e \in i .. w /\ e < w
  BY <1>1, EOLFound
<1>3. buf' = [b EXCEPT ![e] = "nul"] /\ cur' = e + 1 /\ place' = "call"
  BY DEF Deliver
<1> HIDE DEF e
<1> QED BY <1>1, <1>2, <1>3, SizeAssumption

LEMMA WithinStep ==
  ASSUME TypeOK, WithinInv, [Next]_vars
  PROVE  WithinInv'
<1> SUFFICES ASSUME ~prompted' PROVE (cur <= p_read /\ buf[p_read] = "nul" /\ place # "overrun")'
  BY DEF WithinInv
<1>0. /\ buf \in [0 .. Size -> Byte] /\ buf[Size] = "nul"
      /\ cur \in 0 .. Size + 1 /\ p_read \in 0 .. Size /\ Size \in Nat
      /\ place = "read" => cur <= Size
  BY SizeAssumption DEF TypeOK
<1>w. ~prompted => cur \in 0 .. p_read /\ buf[p_read] = "nul" /\ place # "overrun"
  BY <1>0 DEF WithinInv
<1>1. CASE EnterEmpty \/ Ditch
  BY <1>0, <1>1 DEF EnterEmpty, Ditch
<1>2. CASE EnterLine
  <2> DEFINE i == Start(buf, cur)
  <2>1. FindNextEOL(buf, i) # NoEOL /\ Deliver(buf, i, FindNextEOL(buf, i), <<>>)
        /\ p_read' = p_read
    BY <1>2 DEF EnterLine
  <2>2. ~prompted
    BY <2>1 DEF Deliver
  <2>3. i \in cur .. p_read
    BY <1>0, <1>w, <2>2, StartFound
  <2> HIDE DEF i
  <2>4. i \in 0 .. Size /\ p_read \in i .. Size
    BY <1>0, <1>w, <2>2, <2>3
  <2> QED BY <1>0, <1>w, <2>1, <2>2, <2>4, DeliverWithin
<1>3. CASE EnterPartial
  <2> DEFINE i == Start(buf, cur)
             last == First(buf, i, {"nul"})
  <2>0. ~prompted
    BY <1>3 DEF EnterPartial, history
  <2>1. i \in 0 .. p_read
    BY <1>0, <1>w, <2>0, StartFound
  <2>2. last \in i .. p_read /\ buf[last] = "nul"
    <3>1. i \in 0 .. Size /\ p_read \in i .. Size /\ buf[p_read] \in {"nul"}
      BY <1>0, <1>w, <2>0, <2>1
    <3> HIDE DEF i
    <3>2. last \in i .. p_read /\ buf[last] \in {"nul"}
      BY <1>0, <3>1, FirstFound
    <3> QED BY <3>2
  <2>3. /\ buf' = [j \in 0 .. Size |-> IF j <= last - i THEN buf[i + j] ELSE buf[j]]
        /\ p_read' = last - i /\ cur' = 0 /\ place' = "read"
    BY <1>3 DEF EnterPartial
  <2> HIDE DEF i, last
  <2>4. buf'[p_read'] = "nul" /\ cur' <= p_read'
    BY <1>0, <2>1, <2>2, <2>3
  <2> QED BY <2>3, <2>4
<1>4. CASE Read
  <2>1. PICK n \in 1 .. Len(wire) :
          /\ n <= Room
          /\ LET bytes == SubSeq(wire, 1, n)
                 b == Filled(bytes, n)
                 i == Start(b, cur)
                 e == FindNextEOL(b, i)
             IN  IF e = NoEOL
                 THEN /\ buf' = b /\ cur' = i /\ text' = text \o bytes
                      /\ UNCHANGED <<place, prompted, lines>>
                 ELSE Deliver(b, i, e, bytes)
          /\ p_read' = p_read + n
          /\ wire' = SubSeq(wire, n + 1, Len(wire))
    BY <1>4 DEF Read, Filled
  <2> DEFINE bytes == SubSeq(wire, 1, n)
             b == Filled(bytes, n)
             i == Start(b, cur)
  <2>2. n \in Nat /\ p_read + n <= Size /\ place = "read" /\ wire \in Seq(Byte \ {"nul"})
    <3>1. place = "read"
      BY <1>4 DEF Read
    <3>2. wire \in Seq(Byte \ {"nul"}) /\ Len(wire) \in Nat
      BY DEF TypeOK
    <3> QED BY <1>0, <2>1, <3>1, <3>2 DEF Room
  <2>3. b \in [0 .. Size -> Byte] /\ b[p_read + n] = "nul"
    BY <2>1, <2>2, FilledType
  <2>4. /\ FindNextEOL(b, i) = NoEOL => buf' = b /\ cur' = i /\ UNCHANGED <<place, prompted>>
        /\ FindNextEOL(b, i) # NoEOL => Deliver(b, i, FindNextEOL(b, i), bytes)
        /\ p_read' = p_read + n
    BY <2>1
  <2>5. ~prompted
    BY <2>4 DEF Deliver
  <2>6. i \in cur .. p_read + n
    <3>1. cur \in 0 .. Size /\ p_read + n \in cur .. Size
      BY <1>0, <1>w, <2>2, <2>5
    <3> HIDE DEF b
    <3> QED BY <2>3, <3>1, StartFound
  <2> HIDE DEF bytes, b, i
  <2>7. CASE FindNextEOL(b, i) = NoEOL
    BY <1>0, <2>2, <2>3, <2>4, <2>6, <2>7
  <2>8. CASE FindNextEOL(b, i) # NoEOL
    <3>1. i \in 0 .. Size /\ p_read + n \in i .. Size
      BY <1>0, <2>2, <2>6
    <3>2. cur' <= p_read + n /\ buf'[p_read + n] = "nul" /\ place' = "call"
      BY <2>3, <2>4, <2>8, <3>1, DeliverWithin
    <3> QED BY <2>4, <3>2
  <2> QED BY <2>7, <2>8
<1>5. CASE Overrun
  BY <1>0, <1>w, <1>5 DEF Overrun, history
<1>6. CASE ReadEof \/ AtOpen \/ Unplug \/ Write
  BY <1>w, <1>6 DEF ReadEof, AtOpen, Unplug, Write, buffer, modem, history
<1>7. CASE UNCHANGED vars
  BY <1>w, <1>7 DEF vars
<1> QED BY <1>1, <1>2, <1>3, <1>4, <1>5, <1>6, <1>7 DEF Next, ReaderStep

\* "this will always be <= p_read, and there will be a \0 at *p_read": true for
\* every size of the buffer and whatever the modem writes, until the prompt for
\* the text of a short message is returned and again from when everything in
\* the buffer is used up; readline then never looks behind s_ATBuffer.
THEOREM CommentHolds == Spec => [](CurWithinRead /\ (~prompted => place # "overrun"))
<1>1. Init => WithinInv
  BY SizeAssumption DEF Init, WithinInv
<1>2. WithinInv => CurWithinRead /\ (~prompted => place # "overrun")
  BY DEF WithinInv, CurWithinRead
<1>3. TypeOK /\ WithinInv /\ [Next]_vars => WithinInv'
  BY WithinStep
<1> QED BY <1>1, <1>2, <1>3, TypeCorrect, PTL DEF Spec

-----------------------------------------------------------------------------
(* What bytes say                                                          *)

\* Induction from a to b, over the set of the numbers that are shown to be good.
LEMMA Upward ==
  ASSUME NEW a \in Nat, NEW b \in Nat, a <= b, NEW G, a \in G,
         \A k \in a .. b - 1 : k \in G => k + 1 \in G
  PROVE  b \in G
<1> SUFFICES ASSUME b \notin G PROVE FALSE
  OBVIOUS
<1> DEFINE T == {k \in a .. b : k \notin G}
<1>1. T \in SUBSET Nat /\ b \in T
  OBVIOUS
<1>2. PICK x \in T : \A y \in T : x <= y
  BY <1>1, Least
<1>3. x # a /\ x \in a .. b
  BY <1>2
<1>4. x - 1 \in a .. b - 1 /\ (x - 1) + 1 = x
  BY <1>3
<1>5. x - 1 \in G
  BY <1>2, <1>4
<1> QED BY <1>2, <1>4, <1>5

SplitType == [done : Seq(Seq(Byte)), part : Seq(Byte), n : Nat]

LEMMA FeedType ==
  ASSUME NEW a \in SplitType, NEW c \in Byte
  PROVE  Feed(a, c) \in SplitType
<1>1. a.done \in Seq(Seq(Byte)) /\ a.part \in Seq(Byte) /\ a.n \in Nat
  BY DEF SplitType
<1>2. Append(a.done, a.part) \in Seq(Seq(Byte)) /\ Append(a.part, c) \in Seq(Byte)
      /\ <<>> \in Seq(Byte)
  BY <1>1
<1>3. CASE c # "nl"
  <2>1. Feed(a, c) = [a EXCEPT !.part = Append(a.part, c), !.n = a.n + 1]
    BY <1>3 DEF Feed
  <2>2. Feed(a, c) = [done |-> a.done, part |-> Append(a.part, c), n |-> a.n + 1]
    BY <2>1 DEF SplitType
  <2>3. a.n + 1 \in Nat
    BY <1>1
  <2> QED BY <1>1, <1>2, <2>2, <2>3 DEF SplitType
<1>4. CASE c = "nl" /\ a.part = <<>>
  <2>1. Feed(a, c) = [a EXCEPT !.n = a.n + 1]
    BY <1>4 DEF Feed
  <2> QED BY <1>1, <2>1 DEF SplitType
<1>5. CASE c = "nl" /\ a.part # <<>>
  <2>1. Feed(a, c) = [done |-> Append(a.done, a.part), part |-> <<>>, n |-> 0]
    BY <1>5 DEF Feed
  <2> QED BY <1>2, <2>1 DEF SplitType
<1> QED BY <1>3, <1>4, <1>5

\* The recursion that After describes: there is a function that follows it.
Follows(f, s, n) ==
    f = [k \in 0 .. n |-> IF k = 0 THEN NoLines ELSE Feed(f[k - 1], s[k])]

LEMMA FollowsExists ==
  ASSUME NEW s \in Seq(Byte)
  PROVE  \E f : Follows(f, s, Len(s))
<1> DEFINE G == {n \in Nat : \E f : Follows(f, s, n)}
<1>0. Len(s) \in Nat
  OBVIOUS
<1>1. 0 \in G
  <2> DEFINE f == [k \in 0 .. 0 |-> NoLines]
  <2>1. Follows(f, s, 0)
    BY DEF Follows
  <2> QED BY <2>1
<1>2. ASSUME NEW n \in 0 .. Len(s) - 1, n \in G PROVE n + 1 \in G
  <2>1. PICK f : Follows(f, s, n)
    BY <1>2
  <2> DEFINE g == [k \in 0 .. n + 1 |-> IF k = n + 1 THEN Feed(f[n], s[k]) ELSE f[k]]
             h == [k \in 0 .. n + 1 |-> IF k = 0 THEN NoLines ELSE Feed(g[k - 1], s[k])]
  <2>2. ASSUME NEW k \in 0 .. n + 1 PROVE g[k] = h[k]
    <3>1. CASE k = n + 1
      BY <1>2, <3>1
    <3>2. CASE k # n + 1
      <4>1. k \in 0 .. n /\ (k # 0 => k - 1 \in 0 .. n + 1 /\ k - 1 # n + 1)
        BY <3>2
      <4>2. f[k] = IF k = 0 THEN NoLines ELSE Feed(f[k - 1], s[k])
        BY <2>1, <4>1 DEF Follows
      <4> QED BY <4>1, <4>2
    <3> QED BY <3>1, <3>2
  <2>3. g = h
    BY <2>2
  <2>4. Follows(g, s, n + 1)
    BY <2>3 DEF Follows
  <2> QED BY <2>4
<1>n. 0 \in Nat /\ Len(s) \in Nat /\ 0 <= Len(s)
  BY <1>0
<1> HIDE DEF G
<1>3. Len(s) \in G
  BY <1>n, <1>1, <1>2, Upward
<1> QED BY <1>3 DEF G

LEMMA AfterDef ==
  ASSUME NEW s \in Seq(Byte)
  PROVE  /\ After(s)[0] = NoLines
         /\ \A k \in 1 .. Len(s) : After(s)[k] = Feed(After(s)[k - 1], s[k])
<1>1. Follows(After(s), s, Len(s))
  <2>1. After(s) = CHOOSE f : Follows(f, s, Len(s))
    BY DEF After, Follows
  <2> QED BY <2>1, FollowsExists
<1>2. ASSUME NEW k \in 0 .. Len(s)
      PROVE  After(s)[k] = IF k = 0 THEN NoLines ELSE Feed(After(s)[k - 1], s[k])
  BY <1>1 DEF Follows
<1>3. 0 \in 0 .. Len(s) /\ \A k \in 1 .. Len(s) : k \in 0 .. Len(s) /\ k # 0
  OBVIOUS
<1> QED BY <1>2, <1>3

LEMMA AfterType ==
  ASSUME NEW s \in Seq(Byte), NEW k \in 0 .. Len(s)
  PROVE  /\ After(s)[k] \in SplitType
         /\ After(s)[k].done \in Seq(Seq(Byte)) /\ After(s)[k].part \in Seq(Byte)
         /\ After(s)[k].n \in Nat
<1> DEFINE G == {j \in 0 .. k : After(s)[j] \in SplitType}
<1>0. 0 \in Nat /\ k \in Nat /\ 0 <= k
  OBVIOUS
<1>1. 0 \in G
  <2>1. <<>> \in Seq(Byte) /\ <<>> \in Seq(Seq(Byte))
    OBVIOUS
  <2>2. NoLines \in SplitType
    BY <2>1 DEF NoLines, SplitType
  <2> QED BY <1>0, <2>2, AfterDef
<1>2. ASSUME NEW j \in 0 .. k - 1, j \in G PROVE j + 1 \in G
  <2>1. j + 1 \in 1 .. Len(s) /\ (j + 1) - 1 = j /\ s[j + 1] \in Byte /\ j + 1 \in 0 .. k
    OBVIOUS
  <2>2. After(s)[j + 1] = Feed(After(s)[j], s[j + 1])
    BY <2>1, AfterDef
  <2> QED BY <1>2, <2>1, <2>2, FeedType
<1> HIDE DEF G
<1>3. k \in G
  BY <1>0, <1>1, <1>2, Upward
<1>4. After(s)[k] \in SplitType
  BY <1>3 DEF G
<1> QED BY <1>4 DEF SplitType

\* What came first says the same, whatever comes after it.
LEMMA AfterSame ==
  ASSUME NEW s \in Seq(Byte), NEW t \in Seq(Byte), NEW m \in 0 .. Len(s), m <= Len(t),
         \A k \in 1 .. m : s[k] = t[k]
  PROVE  After(s)[m] = After(t)[m]
<1> DEFINE G == {j \in 0 .. m : After(s)[j] = After(t)[j]}
<1>1. 0 \in G
  BY AfterDef
<1>2. ASSUME NEW j \in 0 .. m - 1, j \in G PROVE j + 1 \in G
  <2>1. /\ j + 1 \in 1 .. Len(s) /\ j + 1 \in 1 .. Len(t) /\ j + 1 \in 1 .. m
        /\ (j + 1) - 1 = j /\ s[j + 1] = t[j + 1]
    OBVIOUS
  <2>2. /\ After(s)[j + 1] = Feed(After(s)[j], s[j + 1])
        /\ After(t)[j + 1] = Feed(After(t)[j], t[j + 1])
    BY <2>1, AfterDef
  <2> QED BY <1>2, <2>1, <2>2
<1>0. 0 \in Nat /\ m \in Nat /\ 0 <= m
  OBVIOUS
<1> HIDE DEF G
<1>3. m \in G
  BY <1>0, <1>1, <1>2, Upward
<1> QED BY <1>3 DEF G

\* Ends of lines before a line add nothing to it.
LEMMA NlRun ==
  ASSUME NEW s \in Seq(Byte), NEW d \in 0 .. Len(s), NEW e \in d .. Len(s),
         After(s)[d].part = <<>>, \A k \in d + 1 .. e : s[k] = "nl"
  PROVE  /\ After(s)[e].part = <<>> /\ After(s)[e].done = After(s)[d].done
         /\ After(s)[e].n = After(s)[d].n + (e - d)
<1> DEFINE G == {j \in d .. e : /\ After(s)[j].part = <<>>
                                /\ After(s)[j].done = After(s)[d].done
                                /\ After(s)[j].n = After(s)[d].n + (j - d)}
<1>1. d \in G
  BY AfterType
<1>2. ASSUME NEW j \in d .. e - 1, j \in G PROVE j + 1 \in G
  <2>1. j + 1 \in 1 .. Len(s) /\ (j + 1) - 1 = j /\ s[j + 1] = "nl" /\ j \in 0 .. Len(s)
        /\ j + 1 \in d .. e
    OBVIOUS
  <2>2. After(s)[j + 1] = Feed(After(s)[j], "nl")
    BY <2>1, AfterDef
  <2>3. After(s)[j].part = <<>> /\ After(s)[j] \in SplitType
    BY <1>2, <2>1, AfterType
  <2>4. After(s)[j + 1] = [After(s)[j] EXCEPT !.n = @ + 1]
    BY <2>2, <2>3 DEF Feed
  <2>5. /\ After(s)[j + 1].part = <<>> /\ After(s)[j + 1].done = After(s)[j].done
        /\ After(s)[j + 1].n = After(s)[j].n + 1
    BY <2>3, <2>4 DEF SplitType
  <2>6. After(s)[d].n \in Nat
    BY AfterType
  <2> QED BY <1>2, <2>1, <2>5, <2>6
<1>n. d \in Nat /\ e \in Nat /\ d <= e
  OBVIOUS
<1> HIDE DEF G
<1>3. e \in G
  BY <1>n, <1>1, <1>2, Upward
<1> QED BY <1>3 DEF G

\* Bytes without an end of a line are the beginning of the next line.
LEMMA TextRun ==
  ASSUME NEW s \in Seq(Byte), NEW d \in 0 .. Len(s), NEW e \in d .. Len(s),
         After(s)[d].part = <<>>, \A k \in d + 1 .. e : s[k] # "nl"
  PROVE  /\ After(s)[e].done = After(s)[d].done
         /\ After(s)[e].n = After(s)[d].n + (e - d)
         /\ Len(After(s)[e].part) = e - d
         /\ \A k \in 1 .. e - d : After(s)[e].part[k] = s[d + k]
<1> DEFINE G == {j \in d .. e : /\ After(s)[j].done = After(s)[d].done
                                /\ After(s)[j].n = After(s)[d].n + (j - d)
                                /\ Len(After(s)[j].part) = j - d
                                /\ \A k \in 1 .. j - d : After(s)[j].part[k] = s[d + k]}
<1>1. d \in G
  BY AfterType
<1>2. ASSUME NEW j \in d .. e - 1, j \in G PROVE j + 1 \in G
  <2>1. j + 1 \in 1 .. Len(s) /\ (j + 1) - 1 = j /\ s[j + 1] # "nl" /\ j \in 0 .. Len(s)
        /\ j + 1 \in d .. e
    OBVIOUS
  <2>2. After(s)[j + 1] = Feed(After(s)[j], s[j + 1])
    BY <2>1, AfterDef
  <2>3. After(s)[j] \in SplitType /\ After(s)[j].part \in Seq(Byte) /\ s[j + 1] \in Byte
    BY <2>1, AfterType
  <2>4. /\ After(s)[j + 1].part = Append(After(s)[j].part, s[j + 1])
        /\ After(s)[j + 1].done = After(s)[j].done
        /\ After(s)[j + 1].n = After(s)[j].n + 1
    BY <2>1, <2>2, <2>3 DEF Feed, SplitType
  <2> DEFINE p == After(s)[j].part
             q == After(s)[j + 1].part
  <2>5. /\ Len(p) = j - d /\ \A k \in 1 .. j - d : p[k] = s[d + k]
        /\ After(s)[j].n = After(s)[d].n + (j - d) /\ After(s)[j].done = After(s)[d].done
    BY <1>2
  <2>6. p \in Seq(Byte) /\ q = Append(p, s[j + 1])
    BY <2>3, <2>4
  <2> HIDE DEF p, q
  <2>7. /\ Len(q) = Len(p) + 1 /\ q[Len(p) + 1] = s[j + 1]
        /\ \A k \in 1 .. Len(p) : q[k] = p[k]
    BY <2>3, <2>6
  <2>8. Len(q) = (j + 1) - d
    BY <2>5, <2>7
  <2>9. ASSUME NEW k \in 1 .. (j + 1) - d PROVE q[k] = s[d + k]
    <3>1. CASE k = (j + 1) - d
      <4>1. k = Len(p) + 1 /\ d + k = j + 1
        BY <2>5, <3>1
      <4> QED BY <2>7, <4>1
    <3>2. CASE k # (j + 1) - d
      <4>1. k \in 1 .. j - d
        BY <3>2
      <4> QED BY <2>5, <2>7, <4>1
    <3> QED BY <3>1, <3>2
  <2>10. After(s)[d].n \in Nat
    BY AfterType
  <2>11. After(s)[j + 1].n = After(s)[d].n + ((j + 1) - d)
    BY <2>4, <2>5, <2>10
  <2> QED BY <2>1, <2>4, <2>5, <2>8, <2>9, <2>11 DEF q
<1>n. d \in Nat /\ e \in Nat /\ d <= e
  OBVIOUS
<1> HIDE DEF G
<1>3. e \in G
  BY <1>n, <1>1, <1>2, Upward
<1> QED BY <1>3 DEF G

\* Complete lines stay.
LEMMA DoneGrows ==
  ASSUME NEW s \in Seq(Byte), NEW d \in 0 .. Len(s), NEW e \in d .. Len(s)
  PROVE  /\ Len(After(s)[d].done) <= Len(After(s)[e].done)
         /\ \A k \in 1 .. Len(After(s)[d].done) : After(s)[e].done[k] = After(s)[d].done[k]
<1> DEFINE lead == After(s)[d].done
           G == {j \in d .. e : /\ Len(lead) <= Len(After(s)[j].done)
                                /\ \A k \in 1 .. Len(lead) : After(s)[j].done[k] = lead[k]}
<1>0. lead \in Seq(Seq(Byte))
  BY AfterType
<1>1. d \in G
  BY <1>0
<1>2. ASSUME NEW j \in d .. e - 1, j \in G PROVE j + 1 \in G
  <2>1. j + 1 \in 1 .. Len(s) /\ (j + 1) - 1 = j /\ j \in 0 .. Len(s) /\ j + 1 \in d .. e
    OBVIOUS
  <2>2. After(s)[j + 1] = Feed(After(s)[j], s[j + 1])
    BY <2>1, AfterDef
  <2>3. After(s)[j] \in SplitType
    BY <2>1, AfterType
  <2> DEFINE p == After(s)[j].done
             q == After(s)[j + 1].done
  <2>4. q = p \/ q = Append(p, After(s)[j].part)
    BY <2>2, <2>3 DEF Feed, SplitType
  <2>5. p \in Seq(Seq(Byte)) /\ After(s)[j].part \in Seq(Byte)
    BY <2>3 DEF SplitType
  <2>6. Len(lead) <= Len(p) /\ \A k \in 1 .. Len(lead) : p[k] = lead[k]
    BY <1>2
  <2> HIDE DEF p, q, lead
  <2>7. Len(lead) <= Len(q) /\ \A k \in 1 .. Len(lead) : q[k] = lead[k]
    <3>1. CASE q = p
      BY <2>6, <3>1
    <3>2. CASE q = Append(p, After(s)[j].part)
      <4>1. Len(q) = Len(p) + 1 /\ \A k \in 1 .. Len(p) : q[k] = p[k]
        BY <2>5, <3>2
      <4>2. Len(lead) \in Nat /\ Len(p) \in Nat
        BY <1>0, <2>5
      <4>3. \A k \in 1 .. Len(lead) : k \in 1 .. Len(p)
        BY <2>6, <4>2
      <4> QED BY <2>6, <4>1, <4>2, <4>3
    <3> QED BY <2>4, <3>1, <3>2
  <2> QED BY <2>1, <2>7 DEF q, lead
<1>n. d \in Nat /\ e \in Nat /\ d <= e
  OBVIOUS
<1> HIDE DEF G
<1>3. e \in G
  BY <1>n, <1>1, <1>2, Upward
<1> QED BY <1>3 DEF G, lead

-----------------------------------------------------------------------------
(* What readline holds are the last bytes of the text                      *)

LEMMA FirstIs ==
  ASSUME NEW b \in [0 .. Size -> Byte], NEW i \in 0 .. Size, NEW S,
         NEW x \in i .. Size, b[x] \in S, \A k \in i .. x - 1 : b[k] \notin S
  PROVE  First(b, i, S) = x
<1> DEFINE f == First(b, i, S)
<1>1. f \in i .. x /\ b[f] \in S
  BY FirstFound
<1> HIDE DEF f
<1>2. f \notin i .. x - 1
  BY <1>1
<1>3. f = x
  BY <1>1, <1>2, SizeAssumption
<1> QED BY <1>3 DEF f

\* From a position inside, the next \0, and nothing but bytes before it.
LEMMA NulFound ==
  ASSUME NEW b \in [0 .. Size -> Byte], NEW i \in 0 .. Size, b[Size] = "nul"
  PROVE  /\ First(b, i, {"nul"}) \in i .. Size
         /\ b[First(b, i, {"nul"})] = "nul"
         /\ \A k \in i .. First(b, i, {"nul"}) - 1 : b[k] # "nul"
<1>1. Size \in i .. Size /\ b[Size] \in {"nul"}
  BY SizeAssumption
<1> QED BY <1>1, FirstFound

\* Newlines are skipped up to a byte that is none.
LEMMA StartIs ==
  ASSUME NEW b \in [0 .. Size -> Byte], NEW i \in 0 .. Size, b[Size] = "nul"
  PROVE  /\ Start(b, i) \in i .. Size
         /\ b[Start(b, i)] # "nl"
         /\ \A k \in i .. Start(b, i) - 1 : b[k] = "nl"
<1>0. "nul" \in Byte /\ "nul" \notin {"nl"}
  BY DEF Byte
<1>1. Size \in i .. Size /\ b[Size] \in Byte \ {"nl"}
  BY <1>0, SizeAssumption
<1>2. /\ Start(b, i) \in i .. Size /\ b[Start(b, i)] \in Byte \ {"nl"}
      /\ \A k \in i .. Start(b, i) - 1 : b[k] \notin Byte \ {"nl"}
  BY <1>1, FirstFound DEF Start
<1>3. ASSUME NEW k \in i .. Start(b, i) - 1 PROVE b[k] \in Byte
  <2>1. k \in 0 .. Size
    BY <1>2, SizeAssumption
  <2> QED BY <2>1
<1> QED BY <1>2, <1>3

\* No end of a line: neither a prompt nor a newline before the next \0.
LEMMA NoEOLMeans ==
  ASSUME NEW b \in [0 .. Size -> Byte], NEW i \in 0 .. Size, b[Size] = "nul",
         FindNextEOL(b, i) = NoEOL
  PROVE  ~IsPrompt(b, i) /\ \A k \in i .. First(b, i, {"nul"}) : b[k] # "nl"
<1> DEFINE j == First(b, i, {"nl", "nul"})
<1>1. ~IsPrompt(b, i)
  BY SizeAssumption DEF FindNextEOL, NoEOL
<1>2. Size \in i .. Size /\ b[Size] \in {"nl", "nul"}
  BY SizeAssumption
<1>3. j \in i .. Size /\ \A k \in i .. j - 1 : b[k] \notin {"nl", "nul"}
  BY <1>2, FirstFound
<1>4. (IF b[j] = "nul" THEN NoEOL ELSE j) = NoEOL
  BY <1>1 DEF FindNextEOL
<1> HIDE DEF j
<1>5. b[j] = "nul"
  BY <1>3, <1>4, SizeAssumption DEF NoEOL
<1>6. b[j] \in {"nul"} /\ \A k \in i .. j - 1 : b[k] \notin {"nul"}
  BY <1>3, <1>5
<1>7. First(b, i, {"nul"}) = j
  BY <1>3, <1>6, FirstIs
<1> QED BY <1>1, <1>3, <1>5, <1>7, SizeAssumption

\* The end of a line that is no prompt: the first newline, before the next \0.
LEMMA EOLMeans ==
  ASSUME NEW b \in [0 .. Size -> Byte], NEW i \in 0 .. Size, b[Size] = "nul",
         FindNextEOL(b, i) # NoEOL, ~IsPrompt(b, i)
  PROVE  /\ FindNextEOL(b, i) \in i .. First(b, i, {"nul"}) - 1
         /\ b[FindNextEOL(b, i)] = "nl"
         /\ \A k \in i .. FindNextEOL(b, i) - 1 : b[k] # "nl"
<1> DEFINE j == First(b, i, {"nl", "nul"})
           h == First(b, i, {"nul"})
<1>1. Size \in i .. Size /\ b[Size] \in {"nl", "nul"}
  BY SizeAssumption
<1>2. j \in i .. Size /\ b[j] \in {"nl", "nul"} /\ \A k \in i .. j - 1 : b[k] \notin {"nl", "nul"}
  BY <1>1, FirstFound
<1>3. FindNextEOL(b, i) = IF b[j] = "nul" THEN NoEOL ELSE j
  BY DEF FindNextEOL
<1>4. h \in i .. Size /\ b[h] = "nul"
  BY NulFound
<1> HIDE DEF j, h
<1>5. b[j] = "nl" /\ FindNextEOL(b, i) = j
  BY <1>2, <1>3
<1>6. h # j /\ h \notin i .. j - 1
  BY <1>2, <1>4, <1>5
<1>7. j \in i .. h - 1
  BY <1>2, <1>4, <1>6, SizeAssumption
<1> QED BY <1>2, <1>5, <1>7 DEF h

\* The text t behind its first u bytes is in b from position c; what comes
\* before is nothing, or ends with a line.
Matches(b, c, t, u) == \A k \in 1 .. Len(t) : k > u => t[k] = b[c + (k - u) - 1]
Ended(t, u) == u > 0 => t[u] = "nl"
Held(b, c, t, u) ==
    /\ Len(t) - u = First(b, c, {"nul"}) - c
    /\ Matches(b, c, t, u) /\ Ended(t, u)
\* From u to v, n ends of lines that complete none.
Skipped(t, u, v, n) ==
    After(t)[v].done = After(t)[u].done /\ After(t)[v].n = After(t)[u].n + n

LEMMA EndedPart ==
  ASSUME NEW t \in Seq(Byte), NEW u \in 0 .. Len(t), Ended(t, u)
  PROVE  After(t)[u].part = <<>>
<1>1. CASE u = 0
  BY <1>1, AfterDef DEF NoLines
<1>2. CASE u # 0
  <2>1. u \in 1 .. Len(t) /\ t[u] = "nl" /\ u - 1 \in 0 .. Len(t)
    BY <1>2 DEF Ended
  <2>2. After(t)[u] = Feed(After(t)[u - 1], "nl") /\ After(t)[u - 1] \in SplitType
    BY <2>1, AfterDef, AfterType
  <2> QED BY <2>2 DEF Feed, SplitType
<1> QED BY <1>1, <1>2

LEMMA Shift ==
  ASSUME NEW c \in Int, NEW i \in Int, NEW u \in Int, NEW v \in Int, NEW k \in Int,
         v - u = i - c
  PROVE  c + (k - u) - 1 = i + (k - v) - 1
  OBVIOUS

\* Skipping newlines uses them up, and completes no line.
LEMMA SkipHeld ==
  ASSUME NEW b \in [0 .. Size -> Byte], b[Size] = "nul", NEW c \in 0 .. Size,
         NEW t \in Seq(Byte), NEW u \in Int, Held(b, c, t, u),
         NEW i \in c .. Size, Start(b, c) = i, NEW v \in Int, v - u = i - c
  PROVE  /\ v >= u
         /\ First(b, i, {"nul"}) = First(b, c, {"nul"})
         /\ Held(b, i, t, v)
         /\ u >= 0 => Skipped(t, u, v, i - c)
<1> DEFINE h == First(b, c, {"nul"})
<1>h. Len(t) - u = h - c /\ Matches(b, c, t, u) /\ Ended(t, u)
  BY DEF Held
<1>1. i \in c .. Size /\ b[i] # "nl" /\ \A k \in c .. i - 1 : b[k] = "nl"
  BY StartIs
<1>2. h \in c .. Size /\ b[h] = "nul" /\ \A k \in c .. h - 1 : b[k] # "nul"
  BY NulFound
<1>3. h \in i .. Size
  BY <1>1, <1>2, SizeAssumption
<1>4. First(b, i, {"nul"}) = h
  <2> HIDE DEF h
  <2>1. i \in 0 .. Size /\ b[h] \in {"nul"} /\ \A k \in i .. h - 1 : b[k] \notin {"nul"}
    BY <1>1, <1>2, SizeAssumption
  <2> QED BY <1>3, <2>1, FirstIs
<1>5. Len(t) \in Nat /\ Len(t) - u = h - c /\ Size \in Nat
  BY <1>h, SizeAssumption
<1> HIDE DEF h
<1>d. c \in Nat /\ i \in Nat /\ i - c \in Nat /\ v - u = i - c
  BY <1>1, <1>5
<1>6. v \in Int /\ v >= u /\ Len(t) - v = h - i /\ v <= Len(t)
  BY <1>1, <1>2, <1>3, <1>5
<1>7. \A k \in 1 .. Len(t) : k > v => t[k] = b[i + (k - v) - 1]
  <2> SUFFICES ASSUME NEW k \in 1 .. Len(t), k > v PROVE t[k] = b[i + (k - v) - 1]
    OBVIOUS
  <2>0. k \in Int
    BY <1>5
  <2>1. k > u
    BY <2>0, <1>6
  <2>2. c + (k - u) - 1 = i + (k - v) - 1
    BY <2>0, <1>d, Shift
  <2> QED BY <1>h, <2>1, <2>2 DEF Matches
<1>8. \A k \in 1 .. Len(t) : k > u /\ k <= v => t[k] = "nl"
  <2> SUFFICES ASSUME NEW k \in 1 .. Len(t), k > u, k <= v PROVE t[k] = "nl"
    OBVIOUS
  <2>1. c + (k - u) - 1 \in c .. i - 1
    BY <1>1, <1>2, <1>6
  <2> QED BY <1>h, <1>1, <2>1 DEF Matches
<1>9. Ended(t, v)
  <2>1. CASE v = u
    BY <1>h, <2>1
  <2>2. CASE v # u
    <3>1. v > 0 => v \in 1 .. Len(t) /\ v > u /\ v <= v
      BY <1>6, <2>2
    <3> QED BY <1>8, <3>1 DEF Ended
  <2> QED BY <2>1, <2>2
<1>10. ASSUME u >= 0
       PROVE  /\ After(t)[v].done = After(t)[u].done
              /\ After(t)[v].n = After(t)[u].n + (i - c)
  <2>1. u \in 0 .. Len(t) /\ v \in u .. Len(t) /\ v - u = i - c
    BY <1>d, <1>6, <1>10
  <2>2. \A k \in u + 1 .. v : t[k] = "nl"
    <3>1. \A k \in u + 1 .. v : k \in 1 .. Len(t) /\ k > u /\ k <= v
      BY <1>6, <2>1
    <3> QED BY <1>8, <3>1
  <2> QED BY <1>h, <2>1, <2>2, EndedPart, NlRun
<1>11. Held(b, i, t, v)
  BY <1>4, <1>6, <1>7, <1>9 DEF h, Held, Matches
<1> QED BY <1>4, <1>6, <1>10, <1>11 DEF h, Skipped

\* The bytes that read() puts at p_read continue the text.
LEMMA FillHeld ==
  ASSUME TypeOK, HeldInv, place = "read", NEW n \in 1 .. Len(wire), p_read + n <= Size,
         NEW bytes, bytes = SubSeq(wire, 1, n), NEW b, b = Filled(bytes, n),
         NEW t, t = text \o bytes
  PROVE  /\ t \in Seq(Byte) /\ First(b, cur, {"nul"}) = p_read + n
         /\ UsedUp \in Int /\ Held(b, cur, t, UsedUp)
         /\ ~prompted => /\ UsedUp >= 0 /\ After(t)[UsedUp].done = lines
                         /\ After(t)[UsedUp].n >= cur
<1> DEFINE u == UsedUp
<1>0. /\ buf \in [0 .. Size -> Byte] /\ buf[Size] = "nul" /\ cur \in 0 .. Size
      /\ p_read \in 0 .. Size /\ Size \in Nat /\ text \in Seq(Byte) /\ Len(text) \in Nat
      /\ wire \in Seq(Byte \ {"nul"}) /\ n \in Nat
  BY SizeAssumption DEF TypeOK
<1>1. p_read \in cur .. Size /\ (\A k \in cur .. p_read - 1 : buf[k] # "nul") /\ HeldEnd = p_read
  BY <1>0, NulFound DEF HeldInv, HeldEnd
<1>2. u = Len(text) - (p_read - cur) /\ u \in Int /\ u <= Len(text)
  BY <1>0, <1>1 DEF UsedUp
<1>3. /\ \A k \in 1 .. Len(text) : k > u => text[k] = buf[cur + (k - u) - 1]
      /\ u > 0 => text[u] = "nl"
      /\ ~prompted => u >= 0 /\ After(text)[u].done = lines /\ After(text)[u].n >= cur
  BY <1>0 DEF HeldInv
<1>4. /\ bytes \in Seq(Byte \ {"nul"}) /\ Len(bytes) = n
      /\ b \in [0 .. Size -> Byte] /\ b[p_read + n] = "nul"
  BY <1>0, FilledType
<1>5. /\ \A k \in 0 .. p_read - 1 : b[k] = buf[k]
      /\ \A k \in 1 .. n : b[p_read + k - 1] = bytes[k]
  BY <1>0 DEF Filled
<1> HIDE DEF u
<1>6. bytes \in Seq(Byte) /\ \A k \in 1 .. n : bytes[k] # "nul"
  BY <1>4
<1>7. /\ t \in Seq(Byte) /\ Len(t) = Len(text) + n
      /\ \A k \in 1 .. Len(text) : t[k] = text[k]
      /\ \A k \in 1 .. n : t[Len(text) + k] = bytes[k]
  BY <1>0, <1>4, <1>6
<1>8. First(b, cur, {"nul"}) = p_read + n
  <2>1. p_read + n \in cur .. Size /\ b[p_read + n] \in {"nul"}
    BY <1>0, <1>1, <1>4
  <2>2. ASSUME NEW k \in cur .. (p_read + n) - 1 PROVE b[k] \notin {"nul"}
    <3>1. CASE k <= p_read - 1
      <4>1. k \in cur .. p_read - 1 /\ k \in 0 .. p_read - 1
        BY <1>0, <3>1
      <4> QED BY <1>1, <1>5, <4>1
    <3>2. CASE k >= p_read
      <4>1. (k - p_read) + 1 \in 1 .. n /\ p_read + ((k - p_read) + 1) - 1 = k
        BY <1>0, <3>2
      <4> QED BY <1>5, <1>6, <4>1
    <3> QED BY <1>0, <3>1, <3>2
  <2> QED BY <1>0, <1>4, <2>1, <2>2, FirstIs
<1>9. Matches(b, cur, t, u)
  <2> SUFFICES ASSUME NEW k \in 1 .. Len(t), k > u PROVE t[k] = b[cur + (k - u) - 1]
    BY DEF Matches
  <2>0. k \in Nat /\ cur \in Nat /\ p_read \in Nat /\ cur + (k - u) - 1 = p_read + (k - Len(text)) - 1
    BY <1>0, <1>2, <1>7
  <2>1. CASE k <= Len(text)
    <3>0. k \in 1 .. Len(text) /\ k - u - 1 \in Nat
      BY <1>2, <2>0, <2>1
    <3>1. t[k] = text[k] /\ cur + (k - u) - 1 \in 0 .. p_read - 1
      <4>1. (k - Len(text)) <= 0 /\ cur + (k - u) - 1 >= 0
        BY <1>0, <1>2, <2>0, <2>1, <3>0
      <4> QED BY <1>0, <1>2, <1>7, <2>0, <3>0, <4>1
    <3> QED BY <1>3, <1>5, <3>0, <3>1
  <2>2. CASE k > Len(text)
    <3>1. k - Len(text) \in 1 .. n /\ Len(text) + (k - Len(text)) = k
      BY <1>0, <1>7, <2>0, <2>2
    <3>2. t[k] = bytes[k - Len(text)]
      BY <1>7, <3>1
    <3> QED BY <1>5, <2>0, <3>1, <3>2
  <2> QED BY <1>0, <2>0, <2>1, <2>2
<1>10. Ended(t, u)
  <2>1. u > 0 => u \in 1 .. Len(text)
    BY <1>0, <1>2
  <2> QED BY <1>3, <1>7, <2>1 DEF Ended
<1>11. ASSUME ~prompted
       PROVE  u >= 0 /\ After(t)[u].done = lines /\ After(t)[u].n >= cur
  <2>1. u \in 0 .. Len(text) /\ u <= Len(t)
    BY <1>0, <1>2, <1>3, <1>7, <1>11
  <2>2. \A k \in 1 .. u : text[k] = t[k]
    BY <1>0, <1>7, <2>1
  <2>3. After(text)[u] = After(t)[u]
    BY <1>0, <1>7, <2>1, <2>2, AfterSame
  <2> QED BY <1>3, <1>11, <2>1, <2>3
<1>12. Len(t) - u = (p_read + n) - cur
  BY <1>0, <1>2, <1>7
<1>13. Held(b, cur, t, u)
  BY <1>8, <1>9, <1>10, <1>12 DEF Held
<1> QED BY <1>2, <1>7, <1>8, <1>11, <1>13 DEF u

\* One more line is complete when its newline comes.
LEMMA LineDone ==
  ASSUME NEW t \in Seq(Byte), NEW u \in 0 .. Len(t), NEW v \in u + 2 .. Len(t),
         Ended(t, u), t[v] = "nl", \A k \in u + 1 .. v - 1 : t[k] # "nl",
         NEW line \in Seq(Byte), Len(line) = v - 1 - u,
         \A k \in 1 .. v - 1 - u : line[k] = t[u + k]
  PROVE  After(t)[v].done = Append(After(t)[u].done, line)
<1>1. u \in Nat /\ v \in Nat /\ v - 1 \in u .. Len(t) /\ v \in 1 .. Len(t) /\ v - 1 \in 0 .. Len(t)
  OBVIOUS
<1> DEFINE p == After(t)[v - 1].part
<1>2. /\ After(t)[v - 1].done = After(t)[u].done
      /\ Len(p) = v - 1 - u /\ \A k \in 1 .. v - 1 - u : p[k] = t[u + k]
  BY <1>1, EndedPart, TextRun
<1>3. p \in Seq(Byte)
  BY <1>1, AfterType
<1> HIDE DEF p
<1>4. p = line
  <2>1. Len(p) = Len(line) /\ \A k \in 1 .. Len(line) : p[k] = line[k]
    BY <1>2
  <2> QED BY <1>3, <2>1, SeqEqual
<1>5. p # <<>>
  BY <1>1, <1>2
<1>6. After(t)[v] = Feed(After(t)[v - 1], "nl")
  BY <1>1, AfterDef
<1>7. After(t)[v].done = Append(After(t)[v - 1].done, p)
  BY <1>5, <1>6 DEF Feed, p
<1> QED BY <1>2, <1>4, <1>7

LEMMA LineArithmetic ==
  ASSUME NEW n \in Nat, NEW u \in Int, NEW h \in Nat, NEW i \in Nat, NEW e \in Nat, NEW v,
         v = n - (h - (e + 1)), n - u = h - i, e > i, h >= e + 1
  PROVE  v \in Int /\ v - u = (e + 1) - i /\ v <= n /\ v > u + 1
  OBVIOUS

\* What readline returns are the bytes up to the newline; the rest is held.
LEMMA DeliverHeld ==
  ASSUME TypeOK, NEW b \in [0 .. Size -> Byte], b[Size] = "nul",
         NEW i \in 0 .. Size, b[i] # "nl",
         NEW bytes, NEW t \in Seq(Byte), IsPrompt(b, i) \/ text' = t,
         NEW u \in Int, Held(b, i, t, u),
         ~prompted => u >= 0 /\ After(t)[u].done = lines,
         FindNextEOL(b, i) # NoEOL, Deliver(b, i, FindNextEOL(b, i), bytes)
  PROVE  HeldInv'
<1> DEFINE e == FindNextEOL(b, i)
           h == First(b, i, {"nul"})
<1>0. Size \in Nat /\ i \in Nat /\ Len(t) \in Nat
  BY SizeAssumption
<1>n. "nul" \in Byte
  BY DEF Byte
<1>1. buf' = [b EXCEPT ![e] = "nul"] /\ cur' = e + 1 /\ place' = "call"
  BY DEF Deliver
<1>2. h \in i .. Size /\ b[h] = "nul" /\ (\A k \in i .. h - 1 : b[k] # "nul")
      /\ Len(t) - u = h - i
  BY NulFound DEF Held
<1>m. Matches(b, i, t, u) /\ Ended(t, u)
  BY DEF Held
<1>3. CASE IsPrompt(b, i)
  <2>1. prompted' = TRUE /\ text' = <<>>
    BY <1>3 DEF Deliver
  <2>2. e = i + 2
    BY <1>3 DEF FindNextEOL
  <2>3. e \in 0 .. Size
    <3>1. Size \in i .. Size
      BY <1>0
    <3>2. e \in {NoEOL} \cup i .. Size
      BY <3>1, EOLFound
    <3> HIDE DEF e
    <3> QED BY <1>0, <2>2, <3>2 DEF NoEOL
  <2> HIDE DEF e
  <2>4. ASSUME cur' <= Size
        PROVE  HeldEnd' \in cur' .. Size
    <3>1. cur' \in 0 .. Size /\ buf' \in [0 .. Size -> Byte] /\ buf'[Size] = "nul"
      <4>1. cur' \in 0 .. Size /\ buf' = [b EXCEPT ![e] = "nul"] /\ b \in [0 .. Size -> Byte]
            /\ b[Size] = "nul"
        BY <1>0, <1>1, <2>3, <2>4
      <4>2. buf' \in [0 .. Size -> Byte]
        BY <1>n, <4>1
      <4>3. buf'[Size] = "nul"
        BY <1>0, <4>1
      <4> QED BY <4>1, <4>2, <4>3
    <3> QED BY <3>1, NulFound DEF HeldEnd
  <2>5. ASSUME cur' <= Size PROVE ~(UsedUp' > 0)
    <3>1. UsedUp' = 0 - (HeldEnd' - cur') /\ cur' \in Nat
      BY <1>0, <1>1, <2>1, <2>3 DEF UsedUp
    <3> QED BY <1>0, <2>4, <2>5, <3>1
  <2>6. \A k \in 1 .. Len(text') : FALSE
    BY <2>1
  <2> QED BY <1>1, <2>1, <2>5, <2>6 DEF HeldInv
<1>4. CASE ~IsPrompt(b, i)
  <2>1. text' = t /\ prompted' = prompted
        /\ lines' = Append(lines, [k \in 1 .. e - i |-> b[i + k - 1]])
    BY <1>4 DEF Deliver
  <2>2. e \in i .. h - 1 /\ b[e] = "nl" /\ \A k \in i .. e - 1 : b[k] # "nl"
    BY <1>4, EOLMeans
  <2>3. e # i
    BY <2>2
  <2> HIDE DEF e, h
  <2>4. e \in Nat /\ h \in Nat /\ e > i /\ cur' \in 0 .. Size /\ h \in cur' .. Size
    BY <1>0, <1>1, <1>2, <2>2, <2>3
  <2>5. /\ buf' \in [0 .. Size -> Byte] /\ buf'[h] = "nul"
        /\ \A k \in e + 1 .. Size : buf'[k] = b[k]
    <3>1. buf' = [b EXCEPT ![e] = "nul"] /\ b[h] = "nul" /\ e \in 0 .. Size /\ h # e
          /\ h \in 0 .. Size
      BY <1>0, <1>1, <1>2, <2>4
    <3> QED BY <1>0, <1>n, <3>1
  <2>6. HeldEnd' = h
    <3>1. \A k \in e + 1 .. h - 1 : k \in i .. h - 1 /\ k \in e + 1 .. Size
      BY <1>0, <1>2, <2>4
    <3>2. \A k \in cur' .. h - 1 : buf'[k] \notin {"nul"}
      BY <1>1, <1>2, <2>5, <3>1
    <3>3. buf'[h] \in {"nul"}
      BY <2>5
    <3>4. First(buf', cur', {"nul"}) = h
      BY <2>4, <2>5, <3>2, <3>3, FirstIs
    <3> QED BY <3>4 DEF HeldEnd
  <2> DEFINE v == UsedUp'
  <2>7. v = Len(t) - (h - (e + 1))
    BY <1>1, <2>1, <2>6 DEF UsedUp
  <2> HIDE DEF v
  <2>8. v \in Int /\ v - u = (e + 1) - i /\ v <= Len(t) /\ v > u + 1
    <3>1. h >= e + 1
      BY <1>1, <2>4
    <3> QED BY <1>0, <1>2, <2>4, <2>7, <3>1, LineArithmetic
  <2>9. ASSUME NEW k \in 1 .. Len(t), k > v PROVE t[k] = buf'[cur' + (k - v) - 1]
    <3>0. k \in Int /\ e + 1 \in Int /\ k <= Len(t) /\ k > u
      BY <1>0, <2>4, <2>8, <2>9
    <3>1. i + (k - u) - 1 = (e + 1) + (k - v) - 1
      BY <1>0, <2>8, <3>0, Shift
    <3>2. (e + 1) + (k - v) - 1 \in e + 1 .. Size
      BY <1>0, <1>2, <2>4, <2>7, <2>8, <2>9, <3>0
    <3>3. t[k] = b[i + (k - u) - 1]
      BY <1>m, <3>0 DEF Matches
    <3> QED BY <1>1, <2>5, <3>1, <3>2, <3>3
  <2>10. v > 0 => t[v] = "nl"
    <3>1. v > 0 => v \in 1 .. Len(t) /\ v > u /\ i + (v - u) - 1 = e
      BY <1>0, <2>4, <2>8
    <3> QED BY <1>m, <2>2, <3>1 DEF Matches
  <2>11. ASSUME ~prompted
         PROVE  v >= 0 /\ After(t)[v].done = lines'
    <3> DEFINE line == [k \in 1 .. e - i |-> b[i + k - 1]]
    <3>1. u \in 0 .. Len(t) /\ v \in u + 2 .. Len(t) /\ v \in Nat /\ v - 1 - u = e - i
          /\ e - i \in Nat /\ After(t)[u].done = lines
      BY <1>0, <2>4, <2>8, <2>11
    <3>2. ASSUME NEW k \in 1 .. v - 1 - u
          PROVE  t[u + k] = b[i + k - 1] /\ b[i + k - 1] # "nl" /\ b[i + k - 1] \in Byte
      <4>1. /\ u + k \in 1 .. Len(t) /\ u + k > u /\ i + ((u + k) - u) - 1 = i + k - 1
            /\ i + k - 1 \in i .. e - 1 /\ i + k - 1 \in 0 .. Size
        BY <1>0, <1>2, <2>2, <2>4, <2>8, <3>1
      <4> QED BY <1>m, <2>2, <4>1 DEF Matches
    <3>3. line \in Seq(Byte) /\ Len(line) = v - 1 - u /\ \A k \in 1 .. v - 1 - u : line[k] = t[u + k]
      <4>1. line \in [1 .. e - i -> Byte]
        BY <3>1, <3>2
      <4>2. \A k \in 1 .. e - i : line[k] = b[i + k - 1]
        OBVIOUS
      <4> HIDE DEF line
      <4>3. line \in Seq(Byte) /\ Len(line) = e - i
        <5> DEFINE m == e - i
        <5>1. m \in Nat /\ line \in [1 .. m -> Byte]
          BY <3>1, <4>1
        <5> HIDE DEF m
        <5>2. line \in Seq(Byte) /\ Len(line) = m
          BY <5>1, FunctionIsSeq
        <5> QED BY <5>2 DEF m
      <4> QED BY <3>1, <3>2, <4>2, <4>3
    <3>4. \A k \in u + 1 .. v - 1 : t[k] # "nl"
      <4>1. \A k \in u + 1 .. v - 1 : k - u \in 1 .. v - 1 - u /\ u + (k - u) = k
        BY <3>1
      <4> QED BY <3>2, <4>1
    <3>5. t[v] = "nl"
      BY <2>10, <3>1
    <3> HIDE DEF line
    <3>6. After(t)[v].done = Append(After(t)[u].done, line)
      BY <1>m, <3>1, <3>3, <3>4, <3>5, LineDone
    <3> QED BY <2>1, <3>1, <3>6 DEF line
  <2>12. HeldInv'
    <3>1. place' # "read"
      BY <1>1
    <3>2. /\ \A k \in 1 .. Len(text') : k > UsedUp' => text'[k] = buf'[cur' + (k - UsedUp') - 1]
          /\ UsedUp' > 0 => text'[UsedUp'] = "nl"
          /\ ~prompted' => UsedUp' >= 0 /\ After(text')[UsedUp'].done = lines'
      BY <2>1, <2>9, <2>10, <2>11 DEF v
    <3> QED BY <3>1, <3>2 DEF HeldInv
  <2> QED BY <2>12
<1> QED BY <1>3, <1>4

LEMMA NothingSaid ==
  ASSUME NEW s \in Seq(Byte), s = <<>>
  PROVE  Ended(s, Len(s)) /\ After(s)[Len(s)].done = <<>>
<1>1. Len(s) = 0
  OBVIOUS
<1>2. After(s)[0] = NoLines
  BY AfterDef
<1> QED BY <1>1, <1>2 DEF NoLines, Ended

\* A prompt that is held was one before it was moved up.
LEMMA PromptMoved ==
  ASSUME NEW b, NEW c, NEW i \in Nat, NEW len \in Nat, c[len] = "nul",
         \A j \in 0 .. len : c[j] = b[i + j], IsPrompt(c, 0)
  PROVE  IsPrompt(b, i)
<1>1. PICK x, y : /\ x # "nul" /\ y # "nul"
                  /\ c[0] = x /\ c[0 + 1] = y /\ c[0 + 2] = "nul"
                  /\ b[i] = x /\ b[i + 1] = y /\ b[i + 2] = "nul" => IsPrompt(b, i)
  <2>1. ">" # "nul" /\ " " # "nul"
    BY Zenon
  <2> QED BY <2>1, Zenon DEF IsPrompt
<1>2. len # 0 /\ len # 1
  BY <1>1
<1>3. 0 \in 0 .. len /\ 1 \in 0 .. len /\ 2 \in 0 .. len
  BY <1>2
<1>4. b[i + 0] = x /\ b[i + 1] = y /\ b[i + 2] = "nul" /\ i + 0 = i
  BY <1>1, <1>3
<1> QED BY <1>1, <1>4

\* Everything used up: the buffer is empty, and the text ends with a line.
LEMMA EmptyHeld ==
  ASSUME TypeOK, cur' = 0, p_read' = 0, buf' = [buf EXCEPT ![0] = "nul"],
         text' \in Seq(Byte), Ended(text', Len(text')),
         ~prompted' => After(text')[Len(text')].done = lines'
  PROVE  HeldInv'
<1>n. "nul" \in Byte
  BY DEF Byte
<1>0. buf \in [0 .. Size -> Byte] /\ Size \in Nat /\ "nul" \in Byte /\ Len(text') \in Nat
  BY <1>n, SizeAssumption DEF TypeOK
<1>1. buf' \in [0 .. Size -> Byte] /\ buf'[0] \in {"nul"}
  BY <1>0
<1>2. HeldEnd' = 0
  <2>1. 0 \in 0 .. Size /\ \A k \in 0 .. 0 - 1 : buf'[k] \notin {"nul"}
    BY <1>0
  <2>2. First(buf', 0, {"nul"}) = 0
    BY <1>1, <2>1, FirstIs
  <2> QED BY <2>2 DEF HeldEnd
<1>3. UsedUp' = Len(text')
  BY <1>0, <1>2 DEF UsedUp
<1>4. ~IsPrompt(buf', cur') /\ \A j \in cur' .. p_read' : buf'[j] # "nl"
  BY <1>1 DEF IsPrompt
<1>5. After(text')[Len(text')].n >= cur'
  <2>1. Len(text') \in 0 .. Len(text')
    BY <1>0
  <2> QED BY <2>1, AfterType
<1>6. \A k \in 1 .. Len(text') : ~(k > UsedUp')
  BY <1>0, <1>3
<1> QED BY <1>0, <1>2, <1>3, <1>4, <1>5, <1>6 DEF HeldInv, Ended

LEMMA HeldStep ==
  ASSUME TypeOK, HeldInv, [Next]_vars
  PROVE  HeldInv'
<1>0. /\ buf \in [0 .. Size -> Byte] /\ buf[Size] = "nul"
      /\ cur \in 0 .. Size + 1 /\ p_read \in 0 .. Size /\ Size \in Nat
      /\ place = "read" => cur <= Size
      /\ text \in Seq(Byte) /\ Len(text) \in Nat
  BY SizeAssumption DEF TypeOK
<1>e. /\ <<>> \in Seq(Byte)
      /\ text' = <<>> => Ended(text', Len(text')) /\ After(text')[Len(text')].done = <<>>
  <2>1. ASSUME text' = <<>> PROVE text' \in Seq(Byte)
    BY <2>1
  <2> QED BY <2>1, NothingSaid
<1>h. ASSUME cur <= Size
      PROVE  /\ cur \in 0 .. Size /\ HeldEnd \in cur .. Size /\ UsedUp \in Int
             /\ Held(buf, cur, text, UsedUp) /\ Ended(text, UsedUp)
             /\ ~prompted => UsedUp >= 0 /\ After(text)[UsedUp].done = lines
  <2>1. cur \in 0 .. Size
    BY <1>0, <1>h
  <2>2. HeldEnd \in cur .. Size
    BY <1>0, <2>1, NulFound DEF HeldEnd
  <2>3. UsedUp = Len(text) - (HeldEnd - cur)
    BY DEF UsedUp
  <2>4. UsedUp \in Int /\ Len(text) - UsedUp = HeldEnd - cur
    BY <1>0, <2>1, <2>2, <2>3
  <2>5. Matches(buf, cur, text, UsedUp) /\ Ended(text, UsedUp)
    BY <1>h DEF HeldInv, Matches, Ended
  <2>6. Held(buf, cur, text, UsedUp)
    BY <2>4, <2>5 DEF Held, HeldEnd
  <2>7. ~prompted => UsedUp >= 0 /\ After(text)[UsedUp].done = lines
    BY <1>h DEF HeldInv
  <2> QED BY <2>1, <2>2, <2>4, <2>5, <2>6, <2>7
<1>1. CASE EnterEmpty
  <2>1. /\ cur' = 0 /\ p_read' = 0 /\ buf' = [buf EXCEPT ![0] = "nul"]
        /\ cur <= Size /\ buf[cur] = "nul"
        /\ prompted => text' = <<>> /\ lines' = <<>>
        /\ ~prompted => text' = text /\ lines' = lines
    BY <1>1 DEF EnterEmpty
  <2>2. CASE prompted
    BY <1>e, <2>1, <2>2, EmptyHeld
  <2>3. CASE ~prompted
    <3>1. First(buf, cur, {"nul"}) = cur
      <4>1. cur \in cur .. Size /\ cur \in 0 .. Size /\ buf[cur] \in {"nul"}
            /\ \A k \in cur .. cur - 1 : buf[k] \notin {"nul"}
        BY <1>0, <2>1
      <4> QED BY <1>0, <4>1, FirstIs
    <3>2. UsedUp = Len(text)
      BY <1>0, <3>1 DEF UsedUp, HeldEnd
    <3>3. text' \in Seq(Byte) /\ Ended(text', Len(text')) /\ After(text')[Len(text')].done = lines'
      BY <1>0, <1>h, <2>1, <2>3, <3>2
    <3> QED BY <2>1, <3>3, EmptyHeld
  <2> QED BY <2>2, <2>3
<1>2. CASE EnterLine
  <2> DEFINE i == Start(buf, cur)
             v == UsedUp + (i - cur)
  <2>1. /\ cur <= Size /\ FindNextEOL(buf, i) # NoEOL
        /\ Deliver(buf, i, FindNextEOL(buf, i), <<>>)
    BY <1>2 DEF EnterLine
  <2>2. i \in cur .. Size /\ buf[i] # "nl" /\ cur \in 0 .. Size /\ UsedUp \in Int
    BY <1>0, <1>h, <2>1, StartIs
  <2>3. v \in Int /\ v - UsedUp = i - cur /\ i \in 0 .. Size
    <3> HIDE DEF i
    <3> QED BY <1>0, <2>2
  <2>a. Start(buf, cur) = i
    OBVIOUS
  <2> HIDE DEF v, i
  <2>b. cur <= Size
    BY <2>1
  <2>4. /\ v >= UsedUp /\ Held(buf, i, text, v)
        /\ UsedUp >= 0 => Skipped(text, UsedUp, v, i - cur)
    BY <1>0, <1>h, <2>a, <2>b, <2>2, <2>3, SkipHeld
  <2>5. ~prompted => v >= 0 /\ After(text)[v].done = lines
    BY <1>h, <2>b, <2>2, <2>3, <2>4 DEF Skipped
  <2>6. IsPrompt(buf, i) \/ text' = text
    <3>1. text \o <<>> = text
      BY <1>0
    <3> QED BY <2>1, <3>1 DEF Deliver
  <2> QED BY <1>0, <2>1, <2>2, <2>3, <2>4, <2>5, <2>6, DeliverHeld
<1>3. CASE EnterPartial
  <2> DEFINE i == Start(buf, cur)
             v == UsedUp + (i - cur)
             last == First(buf, i, {"nul"})
  <2>1. /\ cur <= Size /\ FindNextEOL(buf, i) = NoEOL
        /\ buf' = [j \in 0 .. Size |-> IF j <= last - i THEN buf[i + j] ELSE buf[j]]
        /\ p_read' = last - i /\ cur' = 0
        /\ UNCHANGED <<prompted, text, lines>>
    BY <1>3 DEF EnterPartial, history
  <2>2. i \in cur .. Size /\ cur \in 0 .. Size /\ UsedUp \in Int
    BY <1>0, <1>h, <2>1, StartIs
  <2>3. v \in Int /\ v - UsedUp = i - cur /\ i \in 0 .. Size
    <3> HIDE DEF i
    <3> QED BY <1>0, <2>2
  <2>a. Start(buf, cur) = i
    OBVIOUS
  <2> HIDE DEF v, last, i
  <2>b. cur <= Size
    BY <2>1
  <2>4. /\ v >= UsedUp /\ Held(buf, i, text, v)
        /\ UsedUp >= 0 => Skipped(text, UsedUp, v, i - cur)
    BY <1>0, <1>h, <2>a, <2>b, <2>2, <2>3, SkipHeld
  <2>5. ~prompted => v >= 0 /\ After(text)[v].done = lines
    BY <1>h, <2>b, <2>2, <2>3, <2>4 DEF Skipped
  <2>6. ~IsPrompt(buf, i) /\ \A k \in i .. last : buf[k] # "nl"
    BY <1>0, <2>1, <2>3, NoEOLMeans DEF last
  <2>7. last \in i .. Size /\ buf[last] = "nul" /\ \A k \in i .. last - 1 : buf[k] # "nul"
    BY <1>0, <2>3, NulFound DEF last
  <2> DEFINE len == last - i
  <2>8. len \in 0 .. Size /\ i + len = last /\ p_read' = len /\ i \in Nat /\ last \in Nat
        /\ len \in Nat
    BY <1>0, <2>1, <2>3, <2>7
  <2>l. Len(text) - v = len
    BY <2>4 DEF last, len, Held
  <2>k. Matches(buf, i, text, v) /\ Ended(text, v)
    BY <2>4 DEF Held
  <2> HIDE DEF len
  <2>9. \A j \in 0 .. len : i + j \in 0 .. Size /\ i + j \in i .. last /\ j \in 0 .. Size
    BY <1>0, <2>3, <2>7, <2>8
  <2>10. buf' \in [0 .. Size -> Byte] /\ \A j \in 0 .. len : buf'[j] = buf[i + j]
    BY <1>0, <2>1, <2>9 DEF len
  <2>c. cur' = 0
    BY <2>1
  <2>11. HeldEnd' = len
    <3>1. buf'[len] = buf[i + len]
      BY <2>8, <2>10
    <3>2. \A k \in 0 .. len - 1 : k \in 0 .. len /\ i + k \in i .. last - 1
      BY <1>0, <2>3, <2>7, <2>8
    <3>3. buf'[len] \in {"nul"} /\ \A k \in 0 .. len - 1 : buf'[k] \notin {"nul"}
      BY <2>7, <2>8, <2>10, <3>1, <3>2
    <3>4. 0 \in 0 .. Size /\ len \in 0 .. Size
      BY <1>0, <2>8
    <3>5. First(buf', 0, {"nul"}) = len
      BY <2>10, <3>3, <3>4, FirstIs
    <3> QED BY <2>c, <3>5 DEF HeldEnd
  <2>12. ~IsPrompt(buf', cur')
    <3>1. buf'[len] = "nul"
      BY <2>7, <2>8, <2>10
    <3> QED BY <2>c, <2>6, <2>8, <2>10, <3>1, PromptMoved
  <2>13. \A j \in cur' .. p_read' : buf'[j] # "nl"
    <3>1. \A j \in cur' .. p_read' : j \in 0 .. len
      BY <2>1, <2>8
    <3> QED BY <2>6, <2>9, <2>10, <3>1
  <2>14. UsedUp' = v
    <3>1. UsedUp' = Len(text) - (len - 0)
      BY <2>1, <2>11 DEF UsedUp
    <3> QED BY <1>0, <2>3, <2>8, <2>l, <3>1
  <2>15. ASSUME NEW k \in 1 .. Len(text), k > v
         PROVE  text[k] = buf'[0 + (k - v) - 1]
    <3>1. /\ (k - v) - 1 \in 0 .. len /\ 0 + (k - v) - 1 = (k - v) - 1
          /\ i + (k - v) - 1 = i + ((k - v) - 1)
      BY <1>0, <2>3, <2>8, <2>l, <2>15
    <3>2. text[k] = buf[i + (k - v) - 1]
      BY <2>k, <2>15 DEF Matches
    <3> QED BY <2>10, <3>1, <3>2
  <2>16. ~prompted => After(text)[v].n >= 0
    <3>1. ~prompted => v \in 0 .. Len(text)
      BY <1>0, <2>3, <2>5, <2>8, <2>l
    <3> QED BY <1>0, <3>1, AfterType
  <2> QED BY <2>1, <2>k, <2>5, <2>8, <2>11, <2>12, <2>13, <2>14, <2>15, <2>16 DEF HeldInv, Ended
<1>4. CASE Ditch
  <2>1. /\ cur' = 0 /\ p_read' = 0 /\ buf' = [buf EXCEPT ![0] = "nul"]
        /\ text' = <<>> /\ lines' = <<>>
    BY <1>4 DEF Ditch
  <2> QED BY <1>e, <2>1, EmptyHeld
<1>5. CASE Read
  <2>1. PICK n \in 1 .. Len(wire) :
          /\ n <= Room
          /\ LET bytes == SubSeq(wire, 1, n)
                 b == Filled(bytes, n)
                 i == Start(b, cur)
                 e == FindNextEOL(b, i)
             IN  IF e = NoEOL
                 THEN /\ buf' = b /\ cur' = i /\ text' = text \o bytes
                      /\ UNCHANGED <<place, prompted, lines>>
                 ELSE Deliver(b, i, e, bytes)
          /\ p_read' = p_read + n
    BY <1>5 DEF Read, Filled
  <2> DEFINE bytes == SubSeq(wire, 1, n)
             b == Filled(bytes, n)
             i == Start(b, cur)
             t == text \o bytes
             v == UsedUp + (i - cur)
  <2>2. /\ n \in Nat /\ p_read + n <= Size /\ place = "read" /\ wire \in Seq(Byte \ {"nul"})
        /\ cur <= Size /\ cur \in 0 .. Size
    <3>1. place = "read"
      BY <1>5 DEF Read
    <3>2. wire \in Seq(Byte \ {"nul"}) /\ Len(wire) \in Nat
      BY DEF TypeOK
    <3> QED BY <1>0, <2>1, <3>1, <3>2 DEF Room
  <2>3. b \in [0 .. Size -> Byte] /\ b[Size] = "nul"
    BY <2>1, <2>2, FilledType
  <2>4. /\ t \in Seq(Byte) /\ First(b, cur, {"nul"}) = p_read + n
        /\ UsedUp \in Int /\ Held(b, cur, t, UsedUp)
        /\ ~prompted => /\ UsedUp >= 0 /\ After(t)[UsedUp].done = lines
                        /\ After(t)[UsedUp].n >= cur
    BY <2>1, <2>2, FillHeld
  <2>5. /\ FindNextEOL(b, i) = NoEOL => buf' = b /\ cur' = i /\ text' = t
                                        /\ UNCHANGED <<place, prompted, lines>>
        /\ FindNextEOL(b, i) # NoEOL => /\ Deliver(b, i, FindNextEOL(b, i), bytes)
                                        /\ IsPrompt(b, i) \/ text' = t
        /\ p_read' = p_read + n
    BY <2>1 DEF Deliver
  <2> HIDE DEF bytes, b, t
  <2>6. i \in cur .. Size /\ b[i] # "nl"
    BY <2>2, <2>3, StartIs
  <2>7. v \in Int /\ v - UsedUp = i - cur /\ i \in 0 .. Size
    <3> HIDE DEF i
    <3> QED BY <1>0, <2>2, <2>4, <2>6
  <2>a. Start(b, cur) = i
    OBVIOUS
  <2> HIDE DEF v, i
  <2>s. /\ v >= UsedUp /\ First(b, i, {"nul"}) = First(b, cur, {"nul"})
        /\ Held(b, i, t, v)
        /\ UsedUp >= 0 => Skipped(t, UsedUp, v, i - cur)
    <3>1. t \in Seq(Byte) /\ UsedUp \in Int /\ Held(b, cur, t, UsedUp)
      BY <2>4
    <3>2. cur \in 0 .. Size /\ i \in cur .. Size
      BY <2>2, <2>6
    <3>3. b \in [0 .. Size -> Byte] /\ b[Size] = "nul"
      BY <2>3
    <3>4. v \in Int /\ v - UsedUp = i - cur
      BY <2>7
    <3>5. Start(b, cur) = i
      BY <2>a
    <3>6. v >= UsedUp
      BY <3>1, <3>2, <3>3, <3>4, <3>5, SkipHeld
    <3>7. Held(b, i, t, v)
      BY <3>1, <3>2, <3>3, <3>4, <3>5, SkipHeld
    <3>8. First(b, i, {"nul"}) = First(b, cur, {"nul"})
      BY <3>1, <3>2, <3>3, <3>4, <3>5, SkipHeld
    <3>9. UsedUp >= 0 => Skipped(t, UsedUp, v, i - cur)
      BY <3>1, <3>2, <3>3, <3>4, <3>5, SkipHeld
    <3> QED BY <3>6, <3>7, <3>8, <3>9
  <2>8. /\ v >= UsedUp /\ First(b, i, {"nul"}) = p_read + n
        /\ Len(t) - v = First(b, i, {"nul"}) - i
        /\ Matches(b, i, t, v) /\ Ended(t, v)
        /\ UsedUp >= 0 => /\ After(t)[v].done = After(t)[UsedUp].done
                          /\ After(t)[v].n = After(t)[UsedUp].n + (i - cur)
    BY <2>4, <2>s DEF Held, Skipped
  <2>9. ~prompted => v >= 0 /\ After(t)[v].done = lines
    BY <2>4, <2>7, <2>8
  <2>10. CASE FindNextEOL(b, i) = NoEOL
    <3>1. buf' = b /\ cur' = i /\ text' = t /\ UNCHANGED <<place, prompted, lines>>
      BY <2>5, <2>10
    <3>2. HeldEnd' = p_read'
      BY <2>5, <2>8, <3>1 DEF HeldEnd
    <3>3. ~IsPrompt(b, i) /\ \A k \in i .. p_read' : b[k] # "nl"
      BY <2>3, <2>5, <2>7, <2>8, <2>10, NoEOLMeans
    <3>4. Len(t) \in Nat /\ p_read + n \in Nat
      BY <1>0, <2>2, <2>4
    <3>l. Len(t) - v = (p_read + n) - i /\ (p_read + n) - i >= 0
      <4>1. First(b, i, {"nul"}) \in i .. Size
        BY <2>3, <2>7, NulFound
      <4> QED BY <1>0, <2>2, <2>7, <2>8, <3>4, <4>1
    <3>5. UsedUp' = v
      <4>1. UsedUp' = Len(t) - ((p_read + n) - i)
        BY <2>5, <3>1, <3>2 DEF UsedUp
      <4> QED BY <2>7, <2>8, <3>4, <4>1
    <3>6. ASSUME ~prompted PROVE After(t)[v].n >= i
      <4>1. After(t)[UsedUp].n \in Nat
        <5>1. UsedUp \in 0 .. Len(t)
          <6>1. v <= Len(t)
            BY <1>0, <2>2, <2>6, <2>7, <3>4, <3>5, <3>l
          <6> QED BY <2>4, <2>7, <2>8, <3>4, <3>6, <6>1
        <5> QED BY <2>4, <5>1, AfterType
      <4> QED BY <2>2, <2>4, <2>7, <2>8, <3>6, <4>1
    <3> QED BY <2>8, <2>9, <3>1, <3>2, <3>3, <3>5, <3>6 DEF HeldInv, Matches, Ended
  <2>11. CASE FindNextEOL(b, i) # NoEOL
    BY <2>3, <2>4, <2>5, <2>6, <2>7, <2>s, <2>9, <2>11, DeliverHeld
  <2> QED BY <2>10, <2>11
<1>6. CASE \/ ReadEof \/ Overrun \/ AtOpen \/ Write \/ Unplug \/ UNCHANGED vars
  <2>1. UNCHANGED <<buf, cur, p_read, prompted, text, lines>> /\ (place' = place \/ place' # "read")
    BY <1>6 DEF ReadEof, Overrun, AtOpen, Write, Unplug, vars, buffer, modem, history
  <2>2. HeldEnd' = HeldEnd /\ UsedUp' = UsedUp
    BY <2>1 DEF HeldEnd, UsedUp
  <2> QED BY <2>1, <2>2 DEF HeldInv
<1> QED BY <1>1, <1>2, <1>3, <1>4, <1>5, <1>6 DEF Next, ReaderStep

LEMMA HeldInit == Init => HeldInv
<1> SUFFICES ASSUME Init PROVE HeldInv
  OBVIOUS
<1>0. /\ Size \in Nat /\ 0 \in 0 .. Size /\ buf = [j \in 0 .. Size |-> "nul"] /\ cur = 0
      /\ place = "call" /\ text = <<>> /\ lines = <<>> /\ ~prompted
  BY SizeAssumption DEF Init
<1>1. buf \in [0 .. Size -> Byte] /\ buf[0] \in {"nul"}
  <2>1. "nul" \in Byte
    BY DEF Byte
  <2> QED BY <1>0, <2>1
<1>2. HeldEnd = 0
  <2>1. \A k \in 0 .. 0 - 1 : buf[k] \notin {"nul"}
    OBVIOUS
  <2>2. First(buf, 0, {"nul"}) = 0
    BY <1>0, <1>1, <2>1, FirstIs
  <2> QED BY <1>0, <2>2 DEF HeldEnd
<1>3. text \in Seq(Byte) /\ Len(text) = 0
  BY <1>0
<1>4. UsedUp = 0
  BY <1>0, <1>2, <1>3 DEF UsedUp
<1>5. After(text)[0].done = lines
  <2>1. After(text)[0] = NoLines
    BY <1>3, AfterDef
  <2> QED BY <1>0, <2>1 DEF NoLines
<1> QED BY <1>0, <1>3, <1>4, <1>5 DEF HeldInv

\* What readline holds and the text, as long as it looks inside the buffer.
LEMMA HeldSays ==
  ASSUME TypeOK, HeldInv, cur <= Size
  PROVE  /\ text \in Seq(Byte) /\ Len(text) \in Nat /\ cur \in Nat
         /\ UsedUp \in Int /\ UsedUp <= Len(text) /\ Ended(text, UsedUp)
         /\ Matches(buf, cur, text, UsedUp)
         /\ place = "read" => /\ UsedUp = Len(text) - (p_read - cur)
                              /\ \A k \in 1 .. Len(text) : k > UsedUp => text[k] # "nl"
<1>0. /\ buf \in [0 .. Size -> Byte] /\ buf[Size] = "nul" /\ cur \in 0 .. Size
      /\ Size \in Nat /\ text \in Seq(Byte) /\ Len(text) \in Nat /\ p_read \in Nat
  BY SizeAssumption DEF TypeOK
<1>1. HeldEnd \in cur .. Size
  BY <1>0, NulFound DEF HeldEnd
<1>2. UsedUp = Len(text) - (HeldEnd - cur) /\ UsedUp \in Int /\ UsedUp <= Len(text)
  BY <1>0, <1>1 DEF UsedUp
<1>3. Matches(buf, cur, text, UsedUp) /\ Ended(text, UsedUp)
  BY DEF HeldInv, Matches, Ended
<1>4. ASSUME place = "read"
      PROVE  /\ UsedUp = Len(text) - (p_read - cur)
             /\ \A k \in 1 .. Len(text) : k > UsedUp => text[k] # "nl"
  <2>1. HeldEnd = p_read /\ \A j \in cur .. p_read : buf[j] # "nl"
    BY <1>4 DEF HeldInv
  <2>2. UsedUp = Len(text) - (p_read - cur)
    BY <1>2, <2>1
  <2>3. ASSUME NEW k \in 1 .. Len(text), k > UsedUp PROVE text[k] # "nl"
    <3>1. cur + (k - UsedUp) - 1 \in cur .. p_read
      <4>1. k \in Nat /\ k <= Len(text) /\ cur \in Nat
        BY <1>0, <2>3
      <4> QED BY <1>0, <1>1, <1>2, <2>1, <2>2, <2>3, <4>1
    <3>2. text[k] = buf[cur + (k - UsedUp) - 1]
      BY <1>3, <2>3 DEF Matches
    <3> QED BY <2>1, <3>1, <3>2
  <2> QED BY <2>2, <2>3
<1> QED BY <1>0, <1>2, <1>3, <1>4

\* Without a prompt, the lines are those that the text before s_ATBufferCur
\* says; while readline waits, those that all of the text says.
LEMMA HeldLines ==
  ASSUME TypeOK, WithinInv, HeldInv, ~prompted
  PROVE  /\ UsedUp \in 0 .. Len(text) /\ After(text)[UsedUp].done = lines
         /\ place = "read" => /\ Split(text).done = lines
                              /\ Split(text).n = After(text)[UsedUp].n + (p_read - cur)
<1>0. cur <= Size
  BY SizeAssumption DEF WithinInv, TypeOK
<1>1. /\ text \in Seq(Byte) /\ Len(text) \in Nat /\ cur \in Nat /\ p_read \in Nat
      /\ UsedUp \in Int /\ UsedUp <= Len(text) /\ Ended(text, UsedUp)
      /\ place = "read" => /\ UsedUp = Len(text) - (p_read - cur)
                           /\ \A k \in 1 .. Len(text) : k > UsedUp => text[k] # "nl"
  BY <1>0, HeldSays, SizeAssumption DEF TypeOK
<1>2. UsedUp >= 0 /\ After(text)[UsedUp].done = lines
  BY <1>0 DEF HeldInv
<1>3. UsedUp \in 0 .. Len(text) /\ Len(text) \in UsedUp .. Len(text)
  BY <1>1, <1>2
<1>4. After(text)[UsedUp].part = <<>>
  BY <1>1, <1>3, EndedPart
<1>5. ASSUME place = "read"
      PROVE  /\ Split(text).done = lines
             /\ Split(text).n = After(text)[UsedUp].n + (p_read - cur)
  <2>1. \A k \in UsedUp + 1 .. Len(text) : text[k] # "nl"
    <3>1. \A k \in UsedUp + 1 .. Len(text) : k \in 1 .. Len(text) /\ k > UsedUp
      BY <1>1, <1>3
    <3> QED BY <1>1, <1>5, <3>1
  <2>2. /\ After(text)[Len(text)].done = After(text)[UsedUp].done
        /\ After(text)[Len(text)].n = After(text)[UsedUp].n + (Len(text) - UsedUp)
    BY <1>1, <1>3, <1>4, <2>1, TextRun
  <2>3. Len(text) - UsedUp = p_read - cur
    BY <1>1, <1>5
  <2> QED BY <1>2, <2>2, <2>3 DEF Split
<1> QED BY <1>2, <1>3, <1>5

LEMMA PrefixIs ==
  ASSUME NEW S, NEW s \in Seq(S), NEW t \in Seq(S), Len(s) <= Len(t),
         \A k \in 1 .. Len(s) : t[k] = s[k]
  PROVE  IsPrefix(s, t)
<1>1. SubSeq(s, 1, Len(s)) \in Seq(S) /\ SubSeq(t, 1, Len(s)) \in Seq(S)
  OBVIOUS
<1>2. Len(SubSeq(s, 1, Len(s))) = Len(s) /\ Len(SubSeq(t, 1, Len(s))) = Len(s)
  OBVIOUS
<1>3. \A k \in 1 .. Len(s) : SubSeq(s, 1, Len(s))[k] = s[k] /\ SubSeq(t, 1, Len(s))[k] = t[k]
  OBVIOUS
<1>4. SubSeq(s, 1, Len(s)) = SubSeq(t, 1, Len(s))
  <2> DEFINE p == SubSeq(s, 1, Len(s))
             q == SubSeq(t, 1, Len(s))
  <2>1. p \in Seq(S) /\ q \in Seq(S) /\ Len(p) = Len(q) /\ \A k \in 1 .. Len(p) : p[k] = q[k]
    BY <1>1, <1>2, <1>3
  <2> HIDE DEF p, q
  <2>2. p = q
    BY <2>1, SeqEqual
  <2> QED BY <2>2 DEF p, q
<1> QED BY <1>4 DEF IsPrefix

LEMMA HeldAlways == Spec => [](TypeOK /\ WithinInv /\ HeldInv)
<1>1. Init => WithinInv
  BY SizeAssumption DEF Init, WithinInv
<1>2. TypeOK /\ WithinInv /\ [Next]_vars => WithinInv'
  BY WithinStep
<1>3. TypeOK /\ HeldInv /\ [Next]_vars => HeldInv'
  BY HeldStep
<1> QED BY <1>1, <1>2, <1>3, HeldInit, TypeCorrect, PTL DEF Spec

\* However the modem's bytes are cut up by read(), and for every size of the
\* buffer, readline returns each of its lines once, whole and in order, and does
\* not wait with a line in hand.
THEOREM LinesAreRight == Spec => []EveryLineOnce
<1>1. TypeOK /\ WithinInv /\ HeldInv => EveryLineOnce
  <2> SUFFICES ASSUME TypeOK, WithinInv, HeldInv, ~prompted
               PROVE  /\ IsPrefix(lines, Split(text).done)
                      /\ place = "read" => lines = Split(text).done
    BY DEF EveryLineOnce
  <2>1. text \in Seq(Byte) /\ Len(text) \in Nat
    BY DEF TypeOK
  <2>2. UsedUp \in 0 .. Len(text) /\ After(text)[UsedUp].done = lines
        /\ (place = "read" => Split(text).done = lines)
    BY HeldLines
  <2>3. Len(text) \in UsedUp .. Len(text) /\ Len(text) \in 0 .. Len(text)
    BY <2>1, <2>2
  <2>4. lines \in Seq(Seq(Byte)) /\ Split(text).done \in Seq(Seq(Byte))
    BY <2>1, <2>3, AfterType DEF Split, TypeOK
  <2>5. /\ Len(lines) <= Len(Split(text).done)
        /\ \A k \in 1 .. Len(lines) : Split(text).done[k] = lines[k]
    BY <2>1, <2>2, <2>3, DoneGrows DEF Split
  <2>6. IsPrefix(lines, Split(text).done)
    BY <2>4, <2>5, PrefixIs
  <2> QED BY <2>2, <2>6
<1> QED BY <1>1, HeldAlways, PTL

\* A line that is ditched is longer than the buffer, whatever came before it in
\* the same read(), and all lines before it have been returned.
THEOREM OnlyTooLongDitched == Spec => DitchOnlyTooLong
<1> DEFINE Loss == place = "read" /\ p_read' < p_read /\ ~prompted =>
                     Split(text).n >= Size /\ lines = Split(text).done
<1>1. ASSUME TypeOK, WithinInv, HeldInv, [Next]_vars PROVE Loss
  <2> SUFFICES ASSUME place = "read", p_read' < p_read, ~prompted
               PROVE  Split(text).n >= Size /\ lines = Split(text).done
    OBVIOUS
  <2>0. cur <= Size /\ cur \in Nat /\ p_read \in Nat /\ Size \in Nat /\ cur <= p_read
    BY <1>1, SizeAssumption DEF TypeOK, WithinInv
  <2>1. Room = 0
    <3>1. CASE Read
      <4>1. PICK n \in 1 .. Len(wire) : p_read' = p_read + n
        BY <3>1 DEF Read
      <4>2. Len(wire) \in Nat
        BY <1>1 DEF TypeOK
      <4> QED BY <2>0, <4>1, <4>2
    <3>2. CASE Ditch
      BY <3>2 DEF Ditch
    <3>3. CASE EnterEmpty \/ EnterLine \/ EnterPartial \/ Overrun \/ AtOpen
      BY <3>3 DEF EnterEmpty, EnterLine, EnterPartial, Overrun, AtOpen
    <3>4. CASE ReadEof \/ Write \/ Unplug \/ UNCHANGED vars
      BY <2>0, <3>4 DEF ReadEof, Write, Unplug, vars, buffer
    <3> QED BY <1>1, <3>1, <3>2, <3>3, <3>4 DEF Next, ReaderStep
  <2>2. p_read = Size
    BY <2>0, <2>1 DEF Room
  <2>3. Split(text).done = lines /\ Split(text).n = After(text)[UsedUp].n + (p_read - cur)
        /\ UsedUp \in 0 .. Len(text)
    BY <1>1, HeldLines
  <2>4. After(text)[UsedUp].n >= cur
    BY <1>1, <2>0 DEF HeldInv
  <2>5. After(text)[UsedUp].n \in Nat
    BY <1>1, <2>3, AfterType DEF TypeOK
  <2> QED BY <2>0, <2>2, <2>3, <2>4, <2>5
<1>2. TypeOK /\ WithinInv /\ HeldInv /\ [Next]_vars => [Loss]_vars
  BY <1>1
<1> QED BY <1>2, HeldAlways, PTL DEF Spec, DitchOnlyTooLong

\* readline never waits in read() with the SMS prompt in hand, for all the bytes
\* that are the beginning of a line are held, and what is held is no prompt.
THEOREM PromptNotMissed == Spec => []PromptSeen
<1>1. ASSUME TypeOK, WithinInv, HeldInv, place = "read",
             prompted => \E j \in 1 .. Len(text) : text[j] = "nl"
      PROVE  ~(Split(text).part = <<">", " ">>)
  <2>0. cur <= Size /\ cur \in 0 .. Size /\ Size \in Nat /\ p_read \in 0 .. Size
    BY <1>1, SizeAssumption DEF TypeOK
  <2>1. /\ text \in Seq(Byte) /\ Len(text) \in Nat
        /\ UsedUp \in Int /\ UsedUp <= Len(text) /\ Ended(text, UsedUp)
        /\ Matches(buf, cur, text, UsedUp)
        /\ UsedUp = Len(text) - (p_read - cur)
        /\ \A k \in 1 .. Len(text) : k > UsedUp => text[k] # "nl"
    BY <1>1, <2>0, HeldSays
  <2>2. UsedUp >= 0
    <3>1. CASE prompted
      <4>1. PICK j \in 1 .. Len(text) : text[j] = "nl"
        BY <1>1, <3>1
      <4>2. j <= UsedUp
        BY <2>1, <4>1
      <4> QED BY <2>1, <4>1, <4>2
    <3>2. CASE ~prompted
      BY <1>1, <2>0, <3>2 DEF HeldInv
    <3> QED BY <3>1, <3>2
  <2>3. UsedUp \in 0 .. Len(text) /\ Len(text) \in UsedUp .. Len(text)
    BY <2>1, <2>2
  <2>4. \A k \in UsedUp + 1 .. Len(text) : text[k] # "nl"
    <3>1. \A k \in UsedUp + 1 .. Len(text) : k \in 1 .. Len(text) /\ k > UsedUp
      BY <2>1, <2>3
    <3> QED BY <2>1, <3>1
  <2> DEFINE p == Split(text).part
             len == Len(text) - UsedUp
  <2>5. Len(p) = len /\ \A k \in 1 .. len : p[k] = text[UsedUp + k]
    BY <2>1, <2>3, <2>4, EndedPart, TextRun DEF Split
  <2>6. len = p_read - cur /\ len \in Nat
    BY <2>0, <2>1, <2>3
  <2>7. ~IsPrompt(buf, cur) /\ buf[p_read] = "nul"
    <3>1. HeldEnd = p_read /\ ~IsPrompt(buf, cur)
      BY <1>1 DEF HeldInv
    <3>2. buf[HeldEnd] = "nul"
      BY <1>1, <2>0, NulFound DEF HeldEnd, TypeOK
    <3> QED BY <3>1, <3>2
  <2>8. \A k \in 1 .. len : p[k] = buf[cur + k - 1]
    <3> SUFFICES ASSUME NEW k \in 1 .. len PROVE p[k] = buf[cur + k - 1]
      OBVIOUS
    <3>1. UsedUp + k \in 1 .. Len(text) /\ UsedUp + k > UsedUp /\ (UsedUp + k) - UsedUp = k
      BY <2>1, <2>3
    <3>2. text[UsedUp + k] = buf[cur + k - 1]
      BY <2>1, <3>1 DEF Matches
    <3> QED BY <2>5, <3>2
  <2> HIDE DEF p, len
  <2>9. PICK x, y : <<">", " ">> = <<x, y>>
                    /\ (buf[cur] = x /\ buf[cur + 1] = y /\ buf[cur + 2] = "nul" => IsPrompt(buf, cur))
    BY Zenon DEF IsPrompt
  <2> SUFFICES ASSUME p = <<x, y>> PROVE FALSE
    BY <2>9 DEF p
  <2>10. Len(p) = 2 /\ p[1] = x /\ p[2] = y
    OBVIOUS
  <2>11. len = 2
    BY <2>5, <2>10
  <2>12. p_read = cur + 2 /\ cur + 1 - 1 = cur /\ cur + 2 - 1 = cur + 1
    BY <2>0, <2>6, <2>11
  <2>13. buf[cur] = x /\ buf[cur + 1] = y /\ buf[cur + 2] = "nul"
    <3>1. p[1] = buf[cur + 1 - 1] /\ p[2] = buf[cur + 2 - 1]
      BY <2>8, <2>11
    <3> QED BY <2>7, <2>10, <2>12, <3>1
  <2> QED BY <2>7, <2>9, <2>13
<1>2. TypeOK /\ WithinInv /\ HeldInv => PromptSeen
  BY <1>1 DEF PromptSeen
<1> QED BY <1>2, HeldAlways, PTL
=============================================================================
