-------------------------------- MODULE SimFcp --------------------------------
(***************************************************************************)
(* usim-fcp.c: what GET RESPONSE says of a USIM file, a template of        *)
(* tag-length-value objects, is turned into the 15 bytes a 2G SIM would    *)
(* have answered.  The decoders of one object take the offset, one byte    *)
(* wide, and the status decoded so far and return both; the loop over the  *)
(* objects is in module Replies.                                           *)
(***************************************************************************)
EXTENDS Integers, Sequences

CONSTANT CharSigned \* the builds considered: is a plain char signed?

ASSUME CharAssumption == CharSigned \subseteq BOOLEAN

UINT8  == 256
UINT16 == 65536
Unset  == -1 \* a field of efStatus that nothing has been assigned to

\* A block's byte; beyond its end, where BlockNotOverrun has nobody read, any
Byte(data, i) == IF i < Len(data) THEN data[i + 1] ELSE 0
CombineTwoBytes(high, low) == 256 * high + low

HexDigits == <<"0", "1", "2", "3", "4", "5", "6", "7", "8", "9",
               "A", "B", "C", "D", "E", "F">>
SmallHex  == <<"a", "b", "c", "d", "e", "f">>

vgIntToHexChar(i) == HexDigits[i + 1]
vgHexCharToInt(ch) ==
    IF \E i \in 1 .. 16 : HexDigits[i] = ch
    THEN (CHOOSE i \in 1 .. 16 : HexDigits[i] = ch) - 1
    ELSE (CHOOSE i \in 1 .. 6 : SmallHex[i] = ch) + 9

vgStringToHexData(buf) ==
    [i \in 1 .. Len(buf) \div 2 |->
        16 * vgHexCharToInt(buf[2 * i - 1]) + vgHexCharToInt(buf[2 * i])]
vgHexDataToString(data) ==
    [i \in 1 .. 2 * Len(data) |->
        LET byte == data[(i + 1) \div 2]
        IN  vgIntToHexChar(IF i % 2 = 1 THEN byte \div 16 ELSE byte % 16)]

\* The length at byte i, and the number of bytes it takes: none in error
UsimDecodeDataLength(data, i) ==
    IF Byte(data, i) <= 127 THEN [lgth |-> Byte(data, i), size |-> 1]
    ELSE IF Byte(data, i) = 129
    THEN [lgth |-> IF Byte(data, i + 1) >= 128 THEN Byte(data, i + 1) ELSE 0, size |-> 2]
    ELSE [lgth |-> 0, size |-> 0]

\* The structure, the type and the records of a file; others stay as they are
EfStructure(byte, old) ==
    CASE byte % 8 = 1 -> 0
      [] byte % 8 = 2 -> 1
      [] byte % 8 = 6 -> 3
      [] OTHER        -> old
FileType(byte, old) ==
    CASE (byte \div 8) % 8 \in {0, 1} -> 4
      [] (byte \div 8) % 8 = 7        -> 2
      [] OTHER                        -> old
UsimDecEfFileDescriptor(offset, data, st) ==
    LET ptr(i) == Byte(data, offset + i)
    IN  [offset |-> (offset + 2 + ptr(1)) % UINT8,
         st |-> [st EXCEPT
                   !.efStructure = EfStructure(ptr(2), @),
                   !.fileType = FileType(ptr(2), @),
                   !.recordLength =
                      IF ptr(1) = 5 THEN CombineTwoBytes(ptr(4), ptr(5)) % UINT8 ELSE 0,
                   !.numberOfRecords = IF ptr(1) = 5 THEN ptr(6) ELSE 0]]

UsimDecFileSize(offset, data, st) ==
    LET ptr(i) == Byte(data, offset + i)
    IN  [offset |-> (offset + 2 + ptr(1)) % UINT8,
         st |-> [st EXCEPT !.fileSize =
                   IF ptr(1) = 2 THEN CombineTwoBytes(ptr(2), ptr(3)) ELSE 0]]

\* Variant: the offset stays on the object.
UsimDecEfFileIdStays(offset, data, st) ==
    LET ptr(i) == Byte(data, offset + i)
    IN  [offset |-> offset,
         st |-> [st EXCEPT !.fileId =
                   IF ptr(1) = 2 THEN CombineTwoBytes(ptr(2), ptr(3)) ELSE 0]]

UsimDecEfFileId(offset, data, st) ==
    LET ptr(i) == Byte(data, offset + i)
    IN  [offset |-> (offset + 2 + ptr(1)) % UINT8,
         st |-> [st EXCEPT !.fileId =
                   IF ptr(1) = 2 THEN CombineTwoBytes(ptr(2), ptr(3)) ELSE 0]]

\* The life cycle status: only bit 1 may differ from "deactivated" (4)
LifeCycleStatus(offset, data, st) ==
    LET len == Byte(data, offset + 1)
        lcs == Byte(data, offset + 2)
    IN  [offset |-> (offset + 2 + len) % UINT8,
         st |-> [st EXCEPT !.fileIsValidated =
                   IF len = 1 /\ lcs \in {4, 6} THEN 0 ELSE 1]]

\* An object nobody knows is passed over
SkipObject(offset, data, st) ==
    LET l == UsimDecodeDataLength(data, offset + 1)
    IN  [offset |-> (offset + 1 + l.size + l.lgth) % UINT8, st |-> st]

\* The case label that dataBlock[offset], a plain char, is equal to
CaseOf(signed, byte) == IF signed /\ byte > 127 THEN byte - 256 ELSE byte

\* One turn of UsimDecodeEfStatusData's loop
DecodeObject(signed, offset, data, st) ==
    LET tag == CaseOf(signed, Byte(data, offset)) IN
    CASE tag = 130 -> UsimDecEfFileDescriptor(offset, data, st)
      [] tag = 131 -> UsimDecEfFileId(offset, data, st)
      [] tag = 138 -> LifeCycleStatus(offset, data, st)
      [] tag = 128 -> UsimDecFileSize(offset, data, st)
      [] OTHER     -> SkipObject(offset, data, st)

\* efStatus on convertUSimFcp's stack
NoStatus == [fileSize |-> Unset, fileId |-> Unset, fileType |-> Unset,
             efStructure |-> Unset, recordLength |-> Unset, numberOfRecords |-> Unset,
             fileIsValidated |-> Unset]

\* The 15 bytes; an unset field shows up as Unset
High(field) == IF field = Unset THEN Unset ELSE field \div 256
Low(field)  == IF field = Unset THEN Unset ELSE field % 256
To2gSimStatus(st) ==
    <<0, 0, High(st.fileSize), Low(st.fileSize), High(st.fileId), Low(st.fileId),
      st.fileType, 0, 0, 0, 0, 0, 2, st.efStructure,
      IF st.efStructure \in {1, 3} THEN st.recordLength ELSE 0>>
=============================================================================
