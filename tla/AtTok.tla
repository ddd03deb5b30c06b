-------------------------------- MODULE AtTok --------------------------------
(***************************************************************************)
(* at_tok.c: the tokenizer of AT response lines.  A line is a sequence of  *)
(* characters, a cursor a position in it: Len(s) + 1 is its terminating    *)
(* NUL, and NULL what strsep leaves once it has given the last token.  The *)
(* NULs that strsep writes lie before the cursor, where nothing reads      *)
(* again.  Every function returns [ok, cur] and what it reads.  (A value   *)
(* bound by a quantifier over its singleton is one that TLC computes once.)*)
(***************************************************************************)
EXTENDS Integers, Sequences, FiniteSetsExt

NULL   == 0
Spaces == {" "}
Digits == <<"0", "1", "2", "3", "4", "5", "6", "7", "8", "9",
            "A", "B", "C", "D", "E", "F">>
Lower  == <<"a", "b", "c", "d", "e", "f">>

\* The value of a digit, of any base; 16 when it is none
DigitValue(ch) ==
    IF \E i \in 1 .. 16 : Digits[i] = ch THEN (CHOOSE i \in 1 .. 16 : Digits[i] = ch) - 1
    ELSE IF \E i \in 1 .. 6 : Lower[i] = ch THEN (CHOOSE i \in 1 .. 6 : Lower[i] = ch) + 9
    ELSE 16

End(s) == Len(s) + 1
\* The first position from c on whose character is in chars, or the NUL's
Find(s, c, chars) == Min({i \in c .. Len(s) : s[i] \in chars} \cup {End(s)})
\* ... is not in chars
Skip(s, c, chars) == Min({i \in c .. Len(s) : s[i] \notin chars} \cup {End(s)})

at_tok_start(s, c) ==
    IF c = NULL \/ Find(s, c, {":"}) = End(s)
    THEN [ok |-> FALSE, cur |-> NULL]
    ELSE [ok |-> TRUE, cur |-> Find(s, c, {":"}) + 1]

skipWhiteSpace(s, c) == IF c = NULL THEN NULL ELSE Skip(s, c, Spaces)

skipNextComma(s, c) ==
    IF c = NULL THEN NULL
    ELSE LET f == Find(s, c, {","}) IN IF f = End(s) THEN f ELSE f + 1

\* Variant: the cursor is moved past the last token's NUL.
strsepPastEnd(s, c, delim) ==
    LET f == Find(s, c, {delim})
    IN  [tok |-> SubSeq(s, c, f - 1), cur |-> f + 1]

strsep(s, c, delim) ==
    LET f == Find(s, c, {delim})
    IN  [tok |-> SubSeq(s, c, f - 1), cur |-> IF f = End(s) THEN NULL ELSE f + 1]

\* c is not NULL here: both callers have tested it
nextTok(s, c) ==
    LET w == skipWhiteSpace(s, c)
        q == strsep(s, w + 1, "\"")
    IN  IF w <= Len(s) /\ s[w] = "\"" THEN [q EXCEPT !.cur = skipNextComma(s, @)]
        ELSE strsep(s, w, ",")

\* strtol: the leading digits' value, after white space; signs do not occur
NumberEnd(t, from, base) ==
    Min({i \in from .. Len(t) : DigitValue(t[i]) >= base} \cup {End(t)})
strtol(t, base) ==
    LET from == Skip(t, 1, Spaces)
        to   == NumberEnd(t, from, base)
        value[i \in from - 1 .. to - 1] ==
            IF i < from THEN 0 ELSE base * value[i - 1] + DigitValue(t[i])
    IN  [ok |-> to > from, value |-> value[to - 1]]

at_tok_nextint_base(s, c, base) ==
    IF c = NULL THEN [ok |-> FALSE, value |-> 0, cur |-> NULL]
    ELSE CHOOSE r \in {[ok |-> strtol(t.tok, base).ok,
                        value |-> strtol(t.tok, base).value,
                        cur |-> t.cur] : t \in {nextTok(s, c)}} : TRUE
at_tok_nextint(s, c)    == at_tok_nextint_base(s, c, 10)
at_tok_nexthexint(s, c) == at_tok_nextint_base(s, c, 16)

\* booleans should be 0 or 1
at_tok_nextbool(s, c) ==
    LET n == at_tok_nextint(s, c) IN [n EXCEPT !.ok = @ /\ n.value \in {0, 1}]

at_tok_nextstr(s, c) ==
    IF c = NULL THEN [ok |-> FALSE, tok |-> <<>>, cur |-> NULL]
    ELSE LET t == nextTok(s, c) IN [ok |-> TRUE, tok |-> t.tok, cur |-> t.cur]

at_tok_hasmore(s, c) == c # NULL /\ c <= Len(s)
=============================================================================
