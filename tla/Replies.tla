------------------------------- MODULE Replies -------------------------------
(***************************************************************************)
(* What the RIL reads out of three replies of the modem, character by      *)
(* character, with the tokenizer of module AtTok: the SIM file access of   *)
(* requestSIM_IO, whose GET RESPONSE data the decoders of module SimFcp    *)
(* convert; the registration of requestRegistrationState, which tells four *)
(* forms of a line by their commas; and isRadioOn.  A behaviour is one     *)
(* reply; what the modem meant is kept to compare the answer with.         *)
(***************************************************************************)
EXTENDS AtTok, SimFcp, SequencesExt

CONSTANTS
    SimReplies, \* what the modem answers to AT+CRSM
    RegReplies, \* what it answers to AT+CREG?
    RadReplies  \* what it answers to AT+CFUN?

VARIABLES pc,
    signed,    \* the build
    reply,     \* what the modem means
    line, cur, \* the line it writes, and requestSIM_IO's cursor in it
    todo, response,  \* requestRegistrationState's fields to read, and read
    sw, simResponse, \* sr.sw1 and sw2, sr.simResponse
    dataBlock, \* convertUSimFcp's bytes
    offset, fcpLength, fcpOffset, efStatus, \* UsimDecodeEfStatusData
    answer     \* what the framework is told
world    == <<signed, reply, line>>
creg     == <<todo, response>>
parsing  == <<cur, sw, simResponse>>
decoding == <<dataBlock, offset, fcpLength, fcpOffset, efStatus>>
vars == <<pc, world, creg, parsing, decoding, answer>>

NoText   == <<"none">> \* a NULL pointer
NoAnswer == [ok |-> FALSE, fields |-> <<>>, text |-> NoText]
GetResponse == 192     \* 0xC0

-----------------------------------------------------------------------------
(* The modem's lines                                                       *)

Object(tag, value) == [tag |-> tag, value |-> value]
\* A length of 128 bytes and more takes two
LengthBytes(n) == IF n < 128 THEN <<n>> ELSE <<129, n>>
Template(objects) ==
    LET body == FlattenSeq([i \in DOMAIN objects |->
                  <<objects[i].tag>> \o LengthBytes(Len(objects[i].value))
                     \o objects[i].value])
    IN  <<98>> \o LengthBytes(Len(body)) \o body

Digit(n) == Digits[n + 1]
Decimal(n) == IF n < 10 THEN <<Digit(n)>>
              ELSE IF n < 100 THEN <<Digit(n \div 10), Digit(n % 10)>>
              ELSE <<Digit(n \div 100), Digit((n \div 10) % 10), Digit(n % 10)>>
Quoted(t) == <<"\"">> \o t \o <<"\"">>
\* Fields after the prefix, with a comma and perhaps a space between them
Joined(fields, gap) ==
    <<"+", ":", " ">> \o fields[1]
        \o FlattenSeq([i \in 1 .. Len(fields) - 1 |-> <<",">> \o gap \o fields[i + 1]])

Hex(r) == vgHexDataToString(Template(r.objects))
SimLine(r) ==
    Joined(<<Decimal(r.sw[1]), Decimal(r.sw[2])>>
             \o IF r.data = "none" THEN <<>>
                ELSE <<IF r.data = "quoted" THEN Quoted(Hex(r)) ELSE Hex(r)>>,
           r.gap)
\* +CREG: [n,] stat [, lac, cid [, AcT]]
RegLine(r) ==
    Joined((IF r.n THEN <<<<"2">>>> ELSE <<>>) \o <<Decimal(r.stat)>>
             \o (IF r.cell THEN <<Quoted(vgHexDataToString(r.lac)),
                                  Quoted(vgHexDataToString(r.cid))>> ELSE <<>>)
             \o (IF r.act THEN <<<<"7">>>> ELSE <<>>),
           <<>>)
Line(r) == CASE r.kind = "CRSM" -> SimLine(r)
             [] r.kind = "CREG" -> RegLine(r)
             [] r.kind = "CFUN" -> Joined(<<Decimal(r.fun)>>, <<>>)

ASSUME LinesAssumption ==
    \A r \in SimReplies \cup RegReplies \cup RadReplies : Line(r) \in Seq(STRING)

\* What a card says of a file, so far as usim-fcp.c looks at it: a descriptor of
\* two or five bytes, an identifier and a size of two, each at most once, and a
\* size only with the descriptor of an EF; in what a GET RESPONSE can hold
Bytes == 0 .. UINT8 - 1
IsFile(objects) ==
    /\ objects \in Seq([tag : Bytes, value : Seq(Bytes)])
    /\ Len(Template(objects)) < UINT8
    /\ \A i \in DOMAIN objects : LET length == Len(objects[i].value) IN
         /\ objects[i].tag = 130 => length \in {2, 5}
         /\ objects[i].tag \in {128, 131} => length = 2
         /\ objects[i].tag = 138 => length < 128
    /\ \A i, j \in DOMAIN objects :
         objects[i].tag = objects[j].tag /\ objects[i].tag \in {128, 130, 131} => i = j
    /\ \A i, j \in DOMAIN objects : LET value == objects[i].value IN
         objects[i].tag = 130 /\ objects[j].tag = 128 =>
           value[1] \in {65, 66, 70} /\ (value[1] # 65 => Len(value) = 5)

IsSimReply(r) ==
    /\ r.kind = "CRSM" /\ IsFile(r.objects) /\ r.sw \in Bytes \X Bytes
    /\ r.data \in {"none", "plain", "quoted"} /\ r.gap \in {<<>>, <<" ">>}
IsRegReply(r) ==
    /\ r.kind = "CREG" /\ r.stat \in 0 .. 999 /\ {r.n, r.cell, r.act} \subseteq BOOLEAN
    /\ r.act => r.cell
    /\ r.lac \in Bytes \X Bytes /\ r.cid \in Bytes \X Bytes
IsRadReply(r) == r.kind = "CFUN" /\ r.fun \in 0 .. 999

ASSUME RepliesAssumption ==
    /\ \A r \in SimReplies : IsSimReply(r)
    /\ \A r \in RegReplies : IsRegReply(r)
    /\ \A r \in RadReplies : IsRadReply(r)

-----------------------------------------------------------------------------

Init ==
    /\ pc = "reply" /\ signed \in CharSigned
    /\ reply \in SimReplies \cup RegReplies \cup RadReplies
    /\ line = Line(reply) /\ cur = 1 /\ todo = <<>>
    /\ response = [stat |-> -1, lac |-> -1, cid |-> -1, skip |-> -1]
    /\ sw = <<>> /\ simResponse = NoText
    /\ dataBlock = <<>> /\ offset = 0 /\ fcpLength = 0 /\ fcpOffset = 0 /\ efStatus = NoStatus
    /\ answer = NoAnswer

Answer(ok, fields, text) ==
    /\ pc' = "answered"
    /\ answer' = [ok |-> ok, fields |-> fields, text |-> text]

\* isRadioOn; the result is -1 for what is no boolean
IsRadioOn ==
    /\ pc = "reply" /\ reply.kind = "CFUN"
    /\ \E start \in {at_tok_start(line, 1)} :
         \E b \in {at_tok_nextbool(line, start.cur)} :
           Answer(b.ok, <<IF b.ok THEN b.value ELSE -1>>, NoText)
    /\ UNCHANGED <<world, creg, parsing, decoding>>

\* Variant: a line of two commas is not expected.
FieldsOf3gppOnly(commas) ==
    CASE commas = 0      -> <<"stat">>
      [] commas = 1      -> <<"skip", "stat">>
      [] commas \in {2, 3, 4} -> <<"skip", "stat", "lac", "cid">>
      [] OTHER           -> <<>>

\* The fields a line of so many commas has; none for a line that is refused
FieldsOf(commas) ==
    CASE commas = 0      -> <<"stat">>
      [] commas = 1      -> <<"skip", "stat">>
      [] commas = 2      -> <<"stat", "lac", "cid">>
      [] commas \in {3, 4} -> <<"skip", "stat", "lac", "cid">>
      [] OTHER           -> <<>>

\* requestRegistrationState: at_tok_start, and the commas are counted
CountCommas ==
    /\ pc = "reply" /\ reply.kind = "CREG"
    /\ \E start \in {at_tok_start(line, 1)} :
         LET commas == Cardinality({i \in start.cur .. Len(line) : line[i] = ","})
         IN  /\ cur' = start.cur /\ todo' = FieldsOf(commas)
             /\ IF FieldsOf(commas) # <<>>
                THEN pc' = "fields" /\ UNCHANGED answer
                ELSE Answer(FALSE, <<>>, NoText)
    /\ UNCHANGED <<world, response, sw, simResponse, decoding>>

\* The next field, hexadecimal for lac and cid; after the last one, the answer
ReadField ==
    /\ pc = "fields"
    /\ \E name \in {Head(todo)} :
         \E n \in {IF name \in {"lac", "cid"} THEN at_tok_nexthexint(line, cur)
                                             ELSE at_tok_nextint(line, cur)} :
           /\ cur' = n.cur /\ todo' = Tail(todo)
           /\ response' = [response EXCEPT ![name] = n.value]
           /\ IF ~n.ok THEN Answer(FALSE, <<>>, NoText)
              ELSE IF Len(todo) = 1
              THEN Answer(TRUE, <<response'.stat, response'.lac, response'.cid>>, NoText)
              ELSE UNCHANGED <<pc, answer>>
    /\ UNCHANGED <<world, sw, simResponse, decoding>>

\* requestSIM_IO: sw1 and sw2
ParseStatus ==
    /\ pc = "reply" /\ reply.kind = "CRSM"
    /\ \E start \in {at_tok_start(line, cur)} :
         \E n1 \in {at_tok_nextint(line, start.cur)} :
         \E n2 \in {at_tok_nextint(line, n1.cur)} :
           IF n1.ok /\ n2.ok
           THEN /\ sw' = <<n1.value, n2.value>> /\ cur' = n2.cur
                /\ pc' = "response" /\ UNCHANGED answer
           ELSE Answer(FALSE, <<>>, NoText) /\ UNCHANGED <<sw, cur>>
    /\ UNCHANGED <<world, creg, simResponse, decoding>>

\* the data, which need not be there
ParseResponse ==
    /\ pc = "response"
    /\ simResponse' = IF at_tok_hasmore(line, cur)
                      THEN at_tok_nextstr(line, cur).tok ELSE NoText
    /\ pc' = "classify"
    /\ UNCHANGED <<world, creg, cur, sw, decoding, answer>>

\* From RIL_VERSION 7 on, the build modelled here (2117), a card that refuses to
\* describe its ICCID file (0x2fe2) is answered for: EF, transparent, ten bytes;
\* so is, without a conversion, one that says nothing
IccidObjects == <<Object(130, <<65, 33>>), Object(131, <<47, 226>>),
                  Object(138, <<5>>), Object(139, <<47, 6, 3>>),
                  Object(128, <<0, 10>>), Object(136, <<16>>)>>
IccidFcp == Template(IccidObjects)
DefaultFcp == Template(<<Object(130, <<66, 33, 0, 28, 250>>), Object(131, <<111, 58>>),
                         Object(138, <<5>>), Object(139, <<111, 6, 13>>),
                         Object(128, <<27, 88>>), Object(136, <<>>)>>)
Classify ==
    /\ pc = "classify"
    /\ LET refused == reply.command = GetResponse /\ sw = <<105, 133>> /\ reply.iccid
           text == IF refused THEN vgHexDataToString(IccidFcp) ELSE simResponse
           words == IF refused THEN <<144, 0>> ELSE sw
       IN  /\ sw' = words /\ simResponse' = text
           /\ IF reply.command = GetResponse /\ words = <<144, 0>> /\ text # NoText
              THEN /\ pc' = "convert" /\ dataBlock' = vgStringToHexData(text)
                   /\ UNCHANGED answer
              ELSE /\ Answer(TRUE, words,
                             IF reply.command = GetResponse /\ words = <<144, 0>>
                             THEN vgHexDataToString(DefaultFcp) ELSE text)
                   /\ UNCHANGED dataBlock
    /\ UNCHANGED <<world, creg, cur, offset, fcpLength, fcpOffset, efStatus>>

\* UsimDecodeEfStatusData's beginning: the template's tag and length
DecodeTemplate ==
    /\ pc = "convert"
    /\ LET l == UsimDecodeDataLength(dataBlock, 1) IN
       IF Byte(dataBlock, 0) = 98 /\ l.size # 0
       THEN /\ offset' = 1 + l.size /\ fcpLength' = l.lgth /\ fcpOffset' = l.size
            /\ pc' = "decode"
       ELSE pc' = "output" /\ UNCHANGED <<offset, fcpLength, fcpOffset>>
    /\ UNCHANGED <<world, creg, parsing, dataBlock, efStatus, answer>>

\* Variant: the bound of the loop is one too high.
InTemplateMore == offset <= fcpLength + fcpOffset + 1

InTemplate == offset <= fcpLength + fcpOffset

\* while (offset <= fcpLength + fcpOffset) switch (dataBlock[offset])
Turn ==
    /\ pc = "decode"
    /\ IF InTemplate
       THEN LET d == DecodeObject(signed, offset, dataBlock, efStatus)
            IN  offset' = d.offset /\ efStatus' = d.st /\ UNCHANGED pc
       ELSE pc' = "output" /\ UNCHANGED <<offset, efStatus>>
    /\ UNCHANGED <<world, creg, parsing, dataBlock, fcpLength, fcpOffset, answer>>

\* What is unset is whatever the stack held
Output ==
    /\ pc = "output"
    /\ \E rest \in {0, 255} :
         Answer(TRUE, sw, vgHexDataToString(
                  [i \in 1 .. 15 |-> LET b == To2gSimStatus(efStatus)[i]
                                     IN  IF b = Unset THEN rest ELSE b]))
    /\ UNCHANGED <<world, creg, parsing, decoding>>

Step == IsRadioOn \/ CountCommas \/ ReadField \/ ParseStatus \/ ParseResponse \/ Classify
        \/ DecodeTemplate \/ Turn \/ Output
Next == Step

Spec == Init /\ [][Next]_vars
FairSpec == Spec /\ WF_vars(Step)

-----------------------------------------------------------------------------
(* Properties                                                              *)

\* The cursor is NULL or within the line, its terminating NUL included.
CursorInLine == cur \in {NULL} \cup 1 .. End(line)

\* Every variable has its type; the offset and the lengths are one byte wide.
TypeOK ==
    /\ pc \in {"reply", "fields", "response", "classify", "convert", "decode", "output", "answered"}
    /\ signed \in CharSigned /\ reply.kind \in {"CRSM", "CREG", "CFUN"}
    /\ CursorInLine
    /\ Len(sw) \in {0, 2} /\ \A i \in DOMAIN sw : sw[i] \in Nat
    /\ offset \in 0 .. UINT8 - 1 /\ fcpLength \in 0 .. UINT8 - 1 /\ fcpOffset \in 0 .. 2
    /\ efStatus.fileSize \in {Unset} \cup 0 .. UINT16 - 1
    /\ efStatus.fileId \in {Unset} \cup 0 .. UINT16 - 1
    /\ efStatus.recordLength \in {Unset} \cup 0 .. UINT8 - 1
    /\ efStatus.fileType \in {Unset, 2, 4} /\ efStatus.efStructure \in {Unset, 0, 1, 3}

\* The file described: the card's, or the one that requestSIM_IO makes up for it
Refused == reply.command = GetResponse /\ reply.iccid /\ reply.sw = <<105, 133>>
DescribedFile == IF Refused THEN IccidObjects ELSE reply.objects

\* An object of a file, and its value
Has(objects, tag) == \E i \in DOMAIN objects : objects[i].tag = tag
Val(objects, tag) == objects[CHOOSE i \in DOMAIN objects : objects[i].tag = tag].value

\* The bytes of a 2G description that the objects determine: those that are
\* always the same, the size, the identifier; and, of an EF with one of the three
\* structures, the type, the structure and the length of a record
DescribesEf(objects) == Has(objects, 130) /\ Val(objects, 130)[1] \in {65, 66, 70}
                        /\ (Val(objects, 130)[1] # 65 => Len(Val(objects, 130)) = 5)
Told(objects) ==
    {1, 2} \cup 8 .. 13
    \cup (IF Has(objects, 128) THEN {3, 4} ELSE {})
    \cup (IF Has(objects, 131) THEN {5, 6} ELSE {})
    \cup (IF DescribesEf(objects) THEN {7, 14, 15} ELSE {})
Description(objects) ==
    LET structure == Val(objects, 130)[1] IN
    [i \in Told(objects) |->
        CASE i \in {3, 4} -> Val(objects, 128)[i - 2]
          [] i \in {5, 6} -> Val(objects, 131)[i - 4]
          [] i = 7        -> 4
          [] i = 13       -> 2
          [] i = 14       -> IF structure = 65 THEN 0 ELSE IF structure = 66 THEN 1 ELSE 3
          [] i = 15       -> IF structure = 65 THEN 0 ELSE Val(objects, 130)[4]
          [] OTHER        -> 0]
\* The text of fifteen bytes that say so
Describes(text, objects) ==
    LET bytes == vgStringToHexData(text)
    IN  /\ text = vgHexDataToString(bytes) /\ Len(bytes) = 15
        /\ \A i \in Told(objects) : bytes[i] = Description(objects)[i]

\* A number of two bytes
Number(bytes) == 256 * bytes[1] + bytes[2]

\* The framework is told what the modem meant, however it wrote it.  Of the
\* radio: 1 if it is on and 0 if it is off, but for a function that is neither
\* 0 nor 1 only that it is not on (for +CFUN: 4, airplane mode, isRadioOn
\* returns -1, "on error", where its comment has 0).  Of the registration: state
\* and cell, also from an unsolicited line that snuck in, but for one with a
\* network type, which has as many commas as a reply without and is misread.  Of
\* a SIM file: the status words; the data as they came, but for GET RESPONSE with
\* 9000; there, and for an ICCID file the card refused to describe, each byte of
\* the 2G description that the objects determine, on builds whose char is
\* unsigned.  GET RESPONSE with 9000 and no data has a made-up answer.
RadioMeant == /\ reply.fun < 2 => answer.fields = <<reply.fun>>
              /\ reply.fun > 1 => answer.fields # <<1>>
RegMeant ==
    reply.n \/ ~reply.act =>
      answer.ok /\ answer.fields = <<reply.stat, IF reply.cell THEN Number(reply.lac) ELSE -1,
                                     IF reply.cell THEN Number(reply.cid) ELSE -1>>
SimMeant ==
    LET asIs == reply.command # GetResponse \/ (reply.sw # <<144, 0>> /\ ~Refused)
    IN  /\ answer.ok
        /\ answer.fields = IF Refused THEN <<144, 0>> ELSE reply.sw
        /\ asIs => answer.text = IF reply.data = "none" THEN NoText ELSE Hex(reply)
        /\ ~asIs /\ (Refused \/ reply.data # "none") /\ ~signed =>
             Describes(answer.text, DescribedFile)
AnswerIsReply ==
    pc = "answered" => /\ reply.kind = "CFUN" => RadioMeant
                       /\ reply.kind = "CREG" => RegMeant
                       /\ reply.kind = "CRSM" => SimMeant

\* Whatever objects the template has, in which order, and whether or not its
\* length takes two bytes, each object begun lies within the block of data.
BlockNotOverrun ==
    pc = "decode" /\ InTemplate =>
        LET l == UsimDecodeDataLength(dataBlock, offset + 1)
        IN  offset + 1 + l.size + l.lgth <= Len(dataBlock)

\* The conversion of a template that a GET RESPONSE of 255 bytes can hold ends:
\* the offset, one byte wide, gets past the end before it wraps.
ReplyAnswered == <>(pc = "answered")
=============================================================================
