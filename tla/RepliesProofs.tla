---------------------------- MODULE RepliesProofs ----------------------------
(***************************************************************************)
(* What Replies promises, for every reply of the form RepliesAssumption    *)
(* states.  First the tokenizer of at_tok.c on any line: its cursor never  *)
(* leaves the line, and a token holds what lies between two delimiters.    *)
(* Then what the modem writes, from the digits up: a line is laid out as   *)
(* its fields (Laid), a template as its objects (TemplateAt), and each is  *)
(* read as what it was written from.  Last the handlers: the inductive     *)
(* invariant IInv says of each point of requestSIM_IO and                  *)
(* requestRegistrationState how much of the reply has been read and that   *)
(* it is what was meant; BlockNotOverrun and AnswerIsReply follow from it. *)
(***************************************************************************)
EXTENDS Replies, TLAPS, WellFoundedInduction, SequenceTheorems, FiniteSetTheorems

\* The order of the naturals, as a set of pairs
LessThan == {p \in Nat \X Nat : p[1] < p[2]}

\* A set of naturals has a least element.
LEMMA LessThanWellFounded == IsWellFoundedOn(LessThan, Nat)
  BY NatLessThanWellFounded DEF OpToRel, LessThan

\* ... which is what Min of it is.
LEMMA MinFound ==
  ASSUME NEW T \in SUBSET Nat, T # {}
  PROVE  Min(T) \in T /\ \A y \in T : Min(T) <= y
<1>1. \E x \in T : \A y \in T : ~(<<y, x>> \in LessThan)
  BY LessThanWellFounded, WFMin
<1>2. PICK x \in T : \A y \in T : ~(<<y, x>> \in LessThan)
  BY <1>1
<1>3. ASSUME NEW y \in T PROVE x <= y
  <2>1. <<y, x>> \in Nat \X Nat /\ ~(<<y, x>> \in LessThan)
    BY <1>2
  <2> QED BY <2>1 DEF LessThan
<1> QED BY <1>3 DEF Min

-----------------------------------------------------------------------------
(* The searches                                                            *)

\* A line, or a part of it
Text == Seq(STRING)
\* A cursor that points into the line; its NUL is the last place.
At(s, c) == c \in Nat \ {0} /\ c <= End(s)
\* ... or is NULL, after a token was taken at c or behind it
Past(s, c, x) == x = NULL \/ (At(s, x) /\ x > c)

\* The first of the characters, or the NUL; none of them comes before it.
LEMMA Found ==
  ASSUME NEW s \in Text, NEW c \in Nat \ {0}, c <= End(s), NEW chars
  PROVE  /\ Find(s, c, chars) \in c .. End(s)
         /\ Find(s, c, chars) <= Len(s) => s[Find(s, c, chars)] \in chars
         /\ \A i \in c .. Find(s, c, chars) - 1 : s[i] \notin chars
<1> DEFINE T == {i \in c .. Len(s) : s[i] \in chars} \cup {End(s)}
<1>1. Len(s) \in Nat /\ End(s) = Len(s) + 1
  BY DEF Text, End
<1>2. T \in SUBSET Nat /\ T # {}
  BY <1>1
<1>3. PICK m : m = Min(T) /\ m \in T /\ \A y \in T : m <= y
  <2> HIDE DEF T
  <2>1. Min(T) \in T /\ \A y \in T : Min(T) <= y
    BY <1>2, MinFound
  <2> QED BY <2>1
<1>4. Find(s, c, chars) = m
  BY <1>3 DEF Find
<1>5. /\ m \in c .. End(s)
      /\ m <= Len(s) => s[m] \in chars
  BY <1>1, <1>3
<1>6. ASSUME NEW i \in c .. m - 1, s[i] \in chars PROVE FALSE
  BY <1>1, <1>3, <1>5, <1>6
<1> QED BY <1>4, <1>5, <1>6

\* What is passed over ends at the first other character, or at the NUL.
LEMMA Skipped ==
  ASSUME NEW s \in Text, NEW c \in Nat \ {0}, c <= End(s), NEW chars
  PROVE  /\ Skip(s, c, chars) \in c .. End(s)
         /\ Skip(s, c, chars) <= Len(s) => s[Skip(s, c, chars)] \notin chars
         /\ \A i \in c .. Skip(s, c, chars) - 1 : s[i] \in chars
<1> DEFINE T == {i \in c .. Len(s) : s[i] \notin chars} \cup {End(s)}
<1>1. Len(s) \in Nat /\ End(s) = Len(s) + 1
  BY DEF Text, End
<1>2. T \in SUBSET Nat /\ T # {}
  BY <1>1
<1>3. PICK m : m = Min(T) /\ m \in T /\ \A y \in T : m <= y
  <2> HIDE DEF T
  <2>1. Min(T) \in T /\ \A y \in T : Min(T) <= y
    BY <1>2, MinFound
  <2> QED BY <2>1
<1>4. Skip(s, c, chars) = m
  BY <1>3 DEF Skip
<1>5. /\ m \in c .. End(s)
      /\ m <= Len(s) => s[m] \notin chars
  BY <1>1, <1>3
<1>6. ASSUME NEW i \in c .. m - 1, s[i] \notin chars PROVE FALSE
  BY <1>1, <1>3, <1>5, <1>6
<1> QED BY <1>4, <1>5, <1>6

\* The NUL is behind the last character.
LEMMA LineEnd ==
  ASSUME NEW s \in Text
  PROVE  Len(s) \in Nat /\ End(s) = Len(s) + 1 /\ End(s) \in Nat \ {0}
  BY DEF Text, End

\* strsep gives what lies before the delimiter, and leaves NULL if there is none.
LEMMA Separated ==
  ASSUME NEW s \in Text, NEW c \in Nat \ {0}, At(s, c), NEW delim, NEW t,
         t = strsep(s, c, delim)
  PROVE  /\ t.tok \in Text
         /\ \A i \in DOMAIN t.tok : t.tok[i] # delim
         /\ Past(s, c, t.cur)
         /\ t.cur # NULL => s[t.cur - 1] = delim
         /\ t.cur = NULL <=> \A i \in c .. Len(s) : s[i] # delim
<1>1. PICK f : f = Find(s, c, {delim})
  OBVIOUS
<1>2. c <= End(s)
  BY DEF At
<1>3. Len(s) \in Nat /\ End(s) = Len(s) + 1 /\ s \in Seq(STRING)
  BY LineEnd DEF Text
<1>4. /\ f \in c .. End(s)
      /\ f <= Len(s) => s[f] = delim
      /\ \A i \in c .. f - 1 : s[i] # delim
  BY <1>1, <1>2, Found
<1>5. t.tok = SubSeq(s, c, f - 1) /\ t.cur = IF f = End(s) THEN NULL ELSE f + 1
  BY <1>1 DEF strsep
<1>6. t.tok \in Text /\ \A i \in DOMAIN t.tok : t.tok[i] # delim
  <2>1. t.tok \in Seq(STRING) /\ Len(t.tok) = f - c
    BY <1>3, <1>4, <1>5
  <2>2. \A i \in 1 .. f - c : t.tok[i] = s[c + i - 1]
    BY <1>3, <1>4, <1>5
  <2>3. ASSUME NEW i \in DOMAIN t.tok PROVE t.tok[i] # delim
    <3>1. i \in 1 .. f - c
      BY <2>1
    <3>2. c + i - 1 \in c .. f - 1
      BY <1>4, <3>1
    <3> QED BY <1>4, <2>2, <3>1, <3>2
  <2> QED BY <2>1, <2>3 DEF Text
<1>7. Past(s, c, t.cur)
  BY <1>3, <1>4, <1>5 DEF Past, At
<1>8. t.cur # NULL => s[t.cur - 1] = delim
  BY <1>3, <1>4, <1>5
<1>9. t.cur = NULL <=> \A i \in c .. Len(s) : s[i] # delim
  <2>1. CASE f = End(s)
    BY <2>1, <1>3, <1>4, <1>5
  <2>2. CASE f # End(s)
    BY <2>2, <1>3, <1>4, <1>5 DEF NULL
  <2> QED BY <2>1, <2>2
<1> QED BY <1>6, <1>7, <1>8, <1>9

\* skipNextComma goes on, at the most to the NUL.
LEMMA CommaSkipped ==
  ASSUME NEW s \in Text, NEW c \in Nat \ {0}, At(s, c)
  PROVE  At(s, skipNextComma(s, c)) /\ skipNextComma(s, c) >= c
<1>1. PICK f : f = Find(s, c, {","})
  OBVIOUS
<1>2. c <= End(s) /\ c # NULL
  BY DEF At, NULL
<1>3. f \in c .. End(s)
  BY <1>1, <1>2, Found
<1>4. skipNextComma(s, c) = IF f = End(s) THEN f ELSE f + 1
  BY <1>1, <1>2 DEF skipNextComma
<1> QED BY <1>2, <1>3, <1>4, LineEnd DEF At

\* An unquoted token ends before the next comma, a quoted one before the next
\* quote; NULL is left where no delimiter follows, and otherwise what comes
\* after it, so the cursor has moved on.
THEOREM NextToken ==
  ASSUME NEW s \in Text, NEW c \in Nat \ {0}, At(s, c), NEW t, t = nextTok(s, c)
  PROVE  /\ t.tok \in Text
         /\ Past(s, c, t.cur)
         /\ \E delim \in {",", "\""} : \A i \in DOMAIN t.tok : t.tok[i] # delim
<1>0. PICK quote, comma : quote = "\"" /\ comma = ","
  OBVIOUS
<1>1. PICK w : w = skipWhiteSpace(s, c)
  OBVIOUS
<1>2. Len(s) \in Nat /\ End(s) = Len(s) + 1 /\ c <= End(s) /\ c # NULL
  BY LineEnd DEF At, NULL
<1>3. w = Skip(s, c, Spaces) /\ w \in c .. End(s)
  BY <1>1, <1>2, Skipped DEF skipWhiteSpace
<1>4. w \in Nat \ {0} /\ c <= w /\ w <= End(s)
  BY <1>2, <1>3
<1>5. CASE w <= Len(s) /\ s[w] = quote
  <2>1. PICK q : q = strsep(s, w + 1, quote)
    OBVIOUS
  <2>2. w + 1 \in Nat \ {0} /\ At(s, w + 1)
    BY <1>2, <1>4, <1>5 DEF At
  <2>3. q.tok \in Text /\ (\A i \in DOMAIN q.tok : q.tok[i] # quote) /\ Past(s, w + 1, q.cur)
    BY <2>1, <2>2, Separated
  <2>4. Past(s, c, skipNextComma(s, q.cur))
    <3>1. CASE q.cur = NULL
      BY <3>1 DEF skipNextComma, Past
    <3>2. CASE q.cur # NULL
      <4>1. q.cur \in Nat \ {0} /\ At(s, q.cur) /\ q.cur > w + 1
        BY <2>3, <3>2 DEF Past, At
      <4>2. At(s, skipNextComma(s, q.cur)) /\ skipNextComma(s, q.cur) >= q.cur
        BY <4>1, CommaSkipped
      <4> QED BY <1>4, <4>1, <4>2 DEF Past, At
    <3> QED BY <3>1, <3>2
  <2>5. t = [q EXCEPT !.cur = skipNextComma(s, q.cur)]
    BY <1>0, <1>1, <1>5, <2>1, Zenon DEF nextTok
  <2>6. t.tok = q.tok /\ t.cur = skipNextComma(s, q.cur)
    BY <2>1, <2>5 DEF strsep
  <2> QED BY <1>0, <2>3, <2>4, <2>6, Zenon
<1>6. CASE ~(w <= Len(s) /\ s[w] = quote)
  <2>1. t = strsep(s, w, comma)
    BY <1>0, <1>1, <1>6, Zenon DEF nextTok
  <2>2. t.tok \in Text /\ (\A i \in DOMAIN t.tok : t.tok[i] # comma) /\ Past(s, w, t.cur)
    <3>1. At(s, w)
      BY <1>4 DEF At
    <3> QED BY <1>4, <2>1, <3>1, Separated
  <2>3. Past(s, c, t.cur)
    BY <1>4, <2>2 DEF Past, At
  <2> QED BY <1>0, <2>2, <2>3, Zenon
<1> QED BY <1>5, <1>6

-----------------------------------------------------------------------------
(* What the handlers call                                                  *)

\* A cursor of a handler: NULL once a token was the last one.
Cursor(s, c) == c = NULL \/ (c \in Nat \ {0} /\ At(s, c))

\* at_tok_start gives the place after the prefix.
LEMMA Started ==
  ASSUME NEW s \in Text, NEW c, Cursor(s, c), NEW t, t = at_tok_start(s, c)
  PROVE  Cursor(s, t.cur) /\ (t.ok => t.cur # NULL)
<1>1. CASE c = NULL
  BY <1>1 DEF at_tok_start, Cursor
<1>2. CASE c # NULL
  <2>1. PICK f, colon : f = Find(s, c, {colon}) /\ colon = ":"
    OBVIOUS
  <2>2. c \in Nat \ {0} /\ c <= End(s)
    BY <1>2 DEF Cursor, At
  <2>3. f \in c .. End(s)
    BY <2>1, <2>2, Found
  <2>4. t = IF f = End(s) THEN [ok |-> FALSE, cur |-> NULL]
                          ELSE [ok |-> TRUE, cur |-> f + 1]
    BY <1>2, <2>1 DEF at_tok_start
  <2>5. CASE f = End(s)
    BY <2>4, <2>5 DEF Cursor
  <2>6. CASE f # End(s)
    BY <2>2, <2>3, <2>4, <2>6, LineEnd DEF Cursor, At, NULL
  <2> QED BY <2>5, <2>6
<1> QED BY <1>1, <1>2

\* Reading a number, ...
LEMMA NumberRead ==
  ASSUME NEW s \in Text, NEW c, Cursor(s, c), NEW base, NEW n,
         n = at_tok_nextint_base(s, c, base)
  PROVE  Cursor(s, n.cur) /\ (c = NULL => ~n.ok) /\ (n.cur = NULL \/ n.cur > c)
<1>1. CASE c = NULL
  BY <1>1 DEF at_tok_nextint_base, Cursor
<1>2. CASE c # NULL
  <2>1. PICK t : t = nextTok(s, c)
    OBVIOUS
  <2>2. n = [ok |-> strtol(t.tok, base).ok, value |-> strtol(t.tok, base).value,
             cur |-> t.cur]
    BY <1>2, <2>1 DEF at_tok_nextint_base
  <2>3. Past(s, c, t.cur)
    BY <1>2, <2>1, NextToken DEF Cursor
  <2>4. n.cur = t.cur
    BY <2>2
  <2> QED BY <1>2, <2>3, <2>4 DEF Cursor, Past, At
<1> QED BY <1>1, <1>2

\* ... and a string; where there is more, a string is read.
LEMMA StringRead ==
  ASSUME NEW s \in Text, NEW c, Cursor(s, c), NEW n, n = at_tok_nextstr(s, c)
  PROVE  /\ Cursor(s, n.cur) /\ (n.cur = NULL \/ n.cur > c)
         /\ n.ok = (c # NULL) /\ n.tok \in Text
         /\ at_tok_hasmore(s, c) => n.ok
<1>1. CASE c = NULL
  <2>1. n = [ok |-> FALSE, tok |-> <<>>, cur |-> NULL]
    BY <1>1 DEF at_tok_nextstr
  <2>2. n.cur = NULL /\ n.tok = <<>> /\ n.ok = FALSE
    BY <2>1
  <2>3. <<>> \in Text
    BY DEF Text
  <2>4. ~at_tok_hasmore(s, c)
    BY <1>1 DEF at_tok_hasmore
  <2> QED BY <1>1, <2>2, <2>3, <2>4 DEF Cursor
<1>2. CASE c # NULL
  <2>1. PICK t : t = nextTok(s, c)
    OBVIOUS
  <2>2. n = [ok |-> TRUE, tok |-> t.tok, cur |-> t.cur]
    BY <1>2, <2>1 DEF at_tok_nextstr
  <2>3. Past(s, c, t.cur) /\ t.tok \in Text
    BY <1>2, <2>1, NextToken DEF Cursor
  <2>4. n.cur = t.cur /\ n.tok = t.tok /\ n.ok = TRUE
    BY <2>2
  <2> QED BY <1>2, <2>3, <2>4 DEF Cursor, Past, At
<1> QED BY <1>1, <1>2

-----------------------------------------------------------------------------
(* The handlers                                                            *)

\* Of any reply: the cursor is in the line the modem wrote.
Inv ==
    /\ reply \in SimReplies \cup RegReplies \cup RadReplies
    /\ line = Line(reply)
    /\ Cursor(line, cur)

\* The line of a reply is a text.
LEMMA LineIsText ==
  ASSUME Inv PROVE line \in Text
  BY LinesAssumption DEF Inv, Text

\* The invariant of the cursor: at first, ...
LEMMA InitInv == Init => Inv
<1> SUFFICES ASSUME Init PROVE Inv
  OBVIOUS
<1>1. reply \in SimReplies \cup RegReplies \cup RadReplies /\ line = Line(reply) /\ cur = 1
  BY DEF Init
<1>2. line \in Text
  BY <1>1, LinesAssumption DEF Text
<1> QED BY <1>1, <1>2, LineEnd DEF Inv, Cursor, At

\* An action that leaves the line and the cursor alone keeps it.
LEMMA CursorKept ==
  ASSUME Inv, UNCHANGED <<reply, line, cur>> PROVE Inv'
  BY DEF Inv, Cursor, At, End

\* An action that moves the cursor to another one of the same line keeps it.
LEMMA CursorMoved ==
  ASSUME Inv, UNCHANGED <<reply, line>>, Cursor(line, cur') PROVE Inv'
  BY DEF Inv, Cursor, At, End

\* ... and after every step.
LEMMA NextInv == Inv /\ [Next]_vars => Inv'
<1> SUFFICES ASSUME Inv, [Next]_vars PROVE Inv'
  OBVIOUS
<1>0. line \in Text /\ Cursor(line, cur)
  BY LineIsText DEF Inv
<1>1. CASE IsRadioOn
  BY <1>1, CursorKept DEF IsRadioOn, world, parsing
<1>2. CASE CountCommas
  <2>1. PICK start : start = at_tok_start(line, 1) /\ cur' = start.cur
    BY <1>2 DEF CountCommas
  <2>2. Cursor(line, 1)
    BY <1>0, LineEnd DEF Cursor, At
  <2>3. Cursor(line, start.cur)
    BY <1>0, <2>1, <2>2, Started
  <2> QED BY <1>2, <2>1, <2>3, CursorMoved DEF CountCommas, world
<1>3. CASE ReadField
  <2>1. PICK n, base : n = at_tok_nextint_base(line, cur, base) /\ cur' = n.cur
    BY <1>3 DEF ReadField, at_tok_nextint, at_tok_nexthexint
  <2>2. Cursor(line, n.cur)
    BY <1>0, <2>1, NumberRead
  <2> QED BY <1>3, <2>1, <2>2, CursorMoved DEF ReadField, world
<1>4. CASE ParseStatus
  <2>1. PICK start, n1, n2 : /\ start = at_tok_start(line, cur)
                             /\ n1 = at_tok_nextint_base(line, start.cur, 10)
                             /\ n2 = at_tok_nextint_base(line, n1.cur, 10)
                             /\ cur' = n2.cur \/ cur' = cur
    BY <1>4 DEF ParseStatus, at_tok_nextint
  <2>2. Cursor(line, start.cur)
    BY <1>0, <2>1, Started
  <2>3. Cursor(line, n1.cur)
    BY <1>0, <2>1, <2>2, NumberRead
  <2>4. Cursor(line, n2.cur)
    BY <1>0, <2>1, <2>3, NumberRead
  <2>5. Cursor(line, cur')
    BY <1>0, <2>1, <2>4
  <2> QED BY <1>4, <2>5, CursorMoved DEF ParseStatus, world
<1>5. CASE ParseResponse
  BY <1>5, CursorKept DEF ParseResponse, world
<1>6. CASE Classify
  BY <1>6, CursorKept DEF Classify, world
<1>7. CASE DecodeTemplate
  BY <1>7, CursorKept DEF DecodeTemplate, world, parsing
<1>8. CASE Turn
  BY <1>8, CursorKept DEF Turn, world, parsing
<1>9. CASE Output
  BY <1>9, CursorKept DEF Output, world, parsing
<1>10. CASE UNCHANGED vars
  BY <1>10, CursorKept DEF vars, world, parsing
<1> QED BY <1>1, <1>2, <1>3, <1>4, <1>5, <1>6, <1>7, <1>8, <1>9, <1>10 DEF Next, Step

\* Whatever the modem writes after the prefix, quotes that are never closed and
\* fields that are missing included, the cursor that the parsing of at_tok.c
\* leaves to requestSIM_IO and requestRegistrationState is NULL or in the line:
\* no token is read from behind the NUL.
THEOREM CursorStays == Spec => []CursorInLine
<1>1. Inv => CursorInLine
  <2> SUFFICES ASSUME Inv PROVE CursorInLine
    OBVIOUS
  <2>1. line \in Text /\ Cursor(line, cur)
    BY LineIsText DEF Inv
  <2> QED BY <2>1, LineEnd DEF CursorInLine, Cursor, At
<1> QED BY <1>1, InitInv, NextInv, PTL DEF Spec

-----------------------------------------------------------------------------
(* Sequences put together                                                  *)

\* Induction from a to b, over the set of the numbers that are shown to be good.
LEMMA Upward ==
  ASSUME NEW a \in Nat, NEW b \in Nat, a <= b, NEW G, a \in G,
         \A k \in a .. b - 1 : k \in G => k + 1 \in G
  PROVE  b \in G
<1> SUFFICES ASSUME b \notin G PROVE FALSE
  OBVIOUS
<1> DEFINE T == {k \in a .. b : k \notin G}
<1>1. T \in SUBSET Nat /\ T # {}
  OBVIOUS
<1>2. PICK x : x = Min(T) /\ x \in T /\ \A y \in T : x <= y
  <2> HIDE DEF T
  <2> QED BY <1>1, MinFound
<1>3. x # a /\ x \in a .. b
  BY <1>2
<1>4. x - 1 \in a .. b - 1 /\ (x - 1) + 1 = x
  BY <1>3
<1>5. x - 1 \in G
  BY <1>2, <1>4
<1> QED BY <1>2, <1>4, <1>5

\* The recursion that FlattenSeq describes: there is a function that follows it.
Flattens(f, s, n) == f = [i \in 1 .. n |-> IF i = 1 THEN s[i] ELSE f[i - 1] \o s[i]]

\* The function that flattens a sequence of sequences from its end exists.
LEMMA FlattensExists ==
  ASSUME NEW s, NEW n \in Nat \ {0}
  PROVE  \E f : Flattens(f, s, n)
<1> DEFINE G == {m \in Nat : \E f : Flattens(f, s, m)}
<1>1. 1 \in G
  <2> DEFINE f == [i \in 1 .. 1 |-> s[i]]
  <2>1. f = [i \in 1 .. 1 |-> IF i = 1 THEN s[i] ELSE f[i - 1] \o s[i]]
    OBVIOUS
  <2> QED BY <2>1 DEF Flattens
<1>2. ASSUME NEW m \in 1 .. n - 1, m \in G PROVE m + 1 \in G
  <2>1. PICK f : Flattens(f, s, m)
    BY <1>2
  <2> DEFINE g == [i \in 1 .. m + 1 |-> IF i = m + 1 THEN f[m] \o s[i] ELSE f[i]]
             h == [i \in 1 .. m + 1 |-> IF i = 1 THEN s[i] ELSE g[i - 1] \o s[i]]
  <2>2. ASSUME NEW i \in 1 .. m + 1 PROVE g[i] = h[i]
    <3>1. CASE i = m + 1
      <4>1. i # 1 /\ i - 1 = m /\ m \in 1 .. m + 1 /\ m # m + 1
        BY <3>1
      <4>2. g[m] = f[m] /\ g[i] = f[m] \o s[i]
        BY <3>1, <4>1
      <4>3. h[i] = g[i - 1] \o s[i]
        BY <4>1
      <4> HIDE DEF g, h
      <4> QED BY <4>1, <4>2, <4>3
    <3>2. CASE i # m + 1
      <4>1. i \in 1 .. m /\ (i # 1 => i - 1 \in 1 .. m + 1 /\ i - 1 # m + 1)
        BY <3>2
      <4>2. f[i] = IF i = 1 THEN s[i] ELSE f[i - 1] \o s[i]
        BY <2>1, <4>1 DEF Flattens
      <4> QED BY <4>1, <4>2
    <3> QED BY <3>1, <3>2
  <2>3. g = h
    BY <2>2
  <2>4. Flattens(g, s, m + 1)
    BY <2>3 DEF Flattens
  <2>5. m + 1 \in Nat
    OBVIOUS
  <2> HIDE DEF g, h
  <2> QED BY <2>4, <2>5
<1> HIDE DEF G
<1>3. n \in G
  BY <1>1, <1>2, Upward
<1> QED BY <1>3 DEF G

\* Where the parts lie in f: from at[i - 1] + 1 to at[i].
Placed(f, s, at, n) ==
    /\ at \in [0 .. n -> Nat] /\ at[0] = 0 /\ at[n] = Len(f)
    /\ \A i \in 1 .. n : /\ at[i] = at[i - 1] + Len(s[i])
                         /\ at[i] <= Len(f)
                         /\ \A j \in 1 .. Len(s[i]) : f[at[i - 1] + j] = s[i][j]

\* One part more, behind those that are there
LEMMA PlacedMore ==
  ASSUME NEW S, NEW s \in Seq(Seq(S)), NEW n \in Nat, n + 1 <= Len(s),
         NEW f \in Seq(S), NEW at, Placed(f, s, at, n)
  PROVE  \E more : Placed(f \o s[n + 1], s, more, n + 1)
<1>1. PICK t \in Seq(S) : t = s[n + 1]
  BY ElementOfSeq
<1>2. Len(t) \in Nat /\ Len(f) \in Nat
  OBVIOUS
<1>3. PICK g \in Seq(S) : g = f \o t
  BY ConcatProperties
<1>4. /\ Len(g) = Len(f) + Len(t)
      /\ \A i \in 1 .. Len(f) : g[i] = f[i]
      /\ \A i \in 1 .. Len(t) : g[Len(f) + i] = t[i]
  <2>1. \A i \in 1 .. Len(f) + Len(t) : g[i] = IF i <= Len(f) THEN f[i] ELSE t[i - Len(f)]
    BY <1>3, ConcatProperties
  <2>2. Len(g) = Len(f) + Len(t)
    BY <1>3, ConcatProperties
  <2>3. ASSUME NEW i \in 1 .. Len(t) PROVE g[Len(f) + i] = t[i]
    <3>1. Len(f) + i \in 1 .. Len(f) + Len(t) /\ ~(Len(f) + i <= Len(f))
          /\ (Len(f) + i) - Len(f) = i
      BY <1>2
    <3> QED BY <2>1, <3>1
  <2> QED BY <1>2, <2>1, <2>2, <2>3
<1>5. /\ at \in [0 .. n -> Nat] /\ at[0] = 0 /\ at[n] = Len(f)
      /\ \A i \in 1 .. n : /\ at[i] = at[i - 1] + Len(s[i])
                           /\ at[i] <= Len(f)
                           /\ \A j \in 1 .. Len(s[i]) : f[at[i - 1] + j] = s[i][j]
  BY DEF Placed
<1> DEFINE more == [k \in 0 .. n + 1 |-> IF k = n + 1 THEN Len(g) ELSE at[k]]
<1>6. more \in [0 .. n + 1 -> Nat] /\ more[0] = 0 /\ more[n + 1] = Len(g)
  BY <1>2, <1>4, <1>5
<1>7. ASSUME NEW i \in 1 .. n + 1
      PROVE  /\ more[i] = more[i - 1] + Len(s[i])
             /\ more[i] <= Len(g)
             /\ \A j \in 1 .. Len(s[i]) : g[more[i - 1] + j] = s[i][j]
  <2>1. CASE i = n + 1
    <3>1. more[i - 1] = Len(f) /\ more[i] = Len(g) /\ s[i] = t
      BY <1>1, <1>5, <2>1
    <3> HIDE DEF more
    <3> QED BY <1>2, <1>4, <3>1
  <2>2. CASE i # n + 1
    <3>1. i \in 1 .. n /\ more[i] = at[i] /\ more[i - 1] = at[i - 1]
      BY <2>2
    <3>2. /\ at[i] = at[i - 1] + Len(s[i]) /\ at[i] <= Len(f)
          /\ \A j \in 1 .. Len(s[i]) : f[at[i - 1] + j] = s[i][j]
      BY <1>5, <3>1
    <3>3. at[i] \in Nat /\ at[i - 1] \in Nat
      BY <1>5, <3>1
    <3>4. s[i] \in Seq(S) /\ Len(s[i]) \in Nat
      <4>1. i \in 1 .. Len(s)
        BY <3>1
      <4>2. s[i] \in Seq(S)
        BY <4>1, ElementOfSeq
      <4> QED BY <4>2
    <3> HIDE DEF more
    <3>5. ASSUME NEW j \in 1 .. Len(s[i]) PROVE g[more[i - 1] + j] = s[i][j]
      <4>0. at[i] = at[i - 1] + Len(s[i]) /\ at[i] <= Len(f) /\ Len(f) \in Nat
        <5>1. at[i] = at[i - 1] + Len(s[i]) /\ at[i] <= Len(f)
          BY <3>2, Zenon
        <5> QED BY <1>2, <5>1
      <4>1. ASSUME NEW x \in Nat, NEW y \in Nat, NEW l \in Nat, NEW m \in Nat, NEW q \in 1 .. l,
                   y = x + l, y <= m
            PROVE  x + q \in 1 .. m
        BY <4>1
      <4>2. at[i - 1] + j \in 1 .. Len(f)
        BY <3>3, <3>4, <4>0, <4>1, Zenon
      <4> QED BY <1>4, <3>1, <3>2, <4>2
    <3>6. more[i] = more[i - 1] + Len(s[i]) /\ more[i] <= Len(g)
      BY <1>2, <1>4, <3>1, <3>2, <3>3
    <3> QED BY <3>5, <3>6
  <2> QED BY <2>1, <2>2
<1>8. Placed(g, s, more, n + 1)
  BY <1>6, <1>7 DEF Placed
<1> QED BY <1>1, <1>3, <1>8

\* What FlattenSeq puts together lies there in order and without a gap.
LEMMA Flattened ==
  ASSUME NEW S, NEW s \in Seq(Seq(S)), NEW f, f = FlattenSeq(s)
  PROVE  f \in Seq(S) /\ \E at : Placed(f, s, at, Len(s))
<1>0. Len(s) \in Nat
  OBVIOUS
<1>1. CASE Len(s) = 0
  <2>1. f = s /\ s = <<>>
    <3>1. s = <<>>
      BY <1>1, EmptySeq
    <3> QED BY <1>1, <3>1 DEF FlattenSeq
  <2>2. f \in Seq(S) /\ Len(f) = 0
    BY <2>1, EmptySeq
  <2> DEFINE at == [k \in 0 .. 0 |-> 0]
  <2>3. Placed(f, s, at, 0)
    <3>1. at \in [0 .. 0 -> Nat] /\ at[0] = 0
      OBVIOUS
    <3>2. at[0] = Len(f)
      BY <2>2
    <3>3. \A i \in 1 .. 0 : FALSE
      OBVIOUS
    <3> HIDE DEF at
    <3> QED BY <3>1, <3>2, <3>3 DEF Placed
  <2> QED BY <1>1, <2>2, <2>3
<1>2. CASE Len(s) # 0
  <2> DEFINE flatten == CHOOSE g : g = [i \in 1 .. Len(s) |-> IF i = 1 THEN s[i] ELSE g[i - 1] \o s[i]]
  <2>1. f = flatten[Len(s)]
    BY <1>2 DEF FlattenSeq
  <2>2. \E g : Flattens(g, s, Len(s))
    BY <1>0, <1>2, FlattensExists
  <2>3. flatten = [i \in 1 .. Len(s) |-> IF i = 1 THEN s[i] ELSE flatten[i - 1] \o s[i]]
    BY <2>2, Zenon DEF Flattens
  <2> HIDE DEF flatten
  <2>3a. \A i \in 1 .. Len(s) : flatten[i] = IF i = 1 THEN s[i] ELSE flatten[i - 1] \o s[i]
    BY <2>3
  <2>4. PICK g : g = flatten /\ \A i \in 1 .. Len(s) : g[i] = IF i = 1 THEN s[i] ELSE g[i - 1] \o s[i]
    <3> WITNESS flatten
    <3> QED BY <2>3a
  <2> DEFINE G == {m \in Nat : g[m] \in Seq(S) /\ \E at : Placed(g[m], s, at, m)}
  <2>5. 1 \in G
    <3>1. 1 \in 1 .. Len(s)
      BY <1>0, <1>2
    <3>2. PICK t \in Seq(S) : t = s[1] /\ t = g[1]
      BY <2>4, <3>1, ElementOfSeq
    <3> DEFINE at == [k \in 0 .. 1 |-> IF k = 0 THEN 0 ELSE Len(t)]
    <3>3. Placed(t, s, at, 1)
      <4>1. at \in [0 .. 1 -> Nat] /\ at[0] = 0 /\ at[1] = Len(t) /\ Len(t) \in Nat
        OBVIOUS
      <4> HIDE DEF at
      <4>2. ASSUME NEW i \in 1 .. 1
            PROVE  /\ at[i] = at[i - 1] + Len(s[i]) /\ at[i] <= Len(t)
                   /\ \A j \in 1 .. Len(s[i]) : t[at[i - 1] + j] = s[i][j]
        <5>0. i = 1 /\ i - 1 = 0
          OBVIOUS
        <5>1. s[i] = t
          BY <3>2, <5>0, Zenon
        <5>2. \A j \in 1 .. Len(t) : 0 + j = j
          OBVIOUS
        <5> QED BY <4>1, <5>0, <5>1, <5>2
      <4> QED BY <4>1, <4>2 DEF Placed
    <3> HIDE DEF at
    <3>4. g[1] \in Seq(S) /\ \E a : Placed(g[1], s, a, 1)
      BY <3>2, <3>3
    <3> QED BY <3>4
  <2>6. ASSUME NEW m \in 1 .. Len(s) - 1, m \in G PROVE m + 1 \in G
    <3>1. PICK at : Placed(g[m], s, at, m)
      BY <2>6
    <3>2. m \in Nat /\ m + 1 <= Len(s) /\ m + 1 \in 1 .. Len(s) /\ m + 1 # 1 /\ (m + 1) - 1 = m
      BY <1>0
    <3>3. g[m + 1] = g[m] \o s[m + 1]
      BY <2>4, <3>2
    <3>4. g[m] \in Seq(S)
      BY <2>6
    <3>5. \E more : Placed(g[m] \o s[m + 1], s, more, m + 1)
      BY <3>1, <3>2, <3>4, PlacedMore
    <3>6. s[m + 1] \in Seq(S)
      BY <3>2, ElementOfSeq
    <3>7. g[m] \o s[m + 1] \in Seq(S)
      BY <3>4, <3>6, ConcatProperties
    <3>8. g[m + 1] \in Seq(S) /\ \E more : Placed(g[m + 1], s, more, m + 1)
      BY <3>3, <3>5, <3>7
    <3>9. m + 1 \in Nat
      BY <3>2
    <3> QED BY <3>8, <3>9, Zenon
  <2> HIDE DEF G
  <2>7. Len(s) \in G
    <3>1. 1 <= Len(s)
      BY <1>0, <1>2
    <3> QED BY <1>0, <2>5, <2>6, <3>1, Upward
  <2> QED BY <2>1, <2>4, <2>7 DEF G
<1> QED BY <1>1, <1>2

-----------------------------------------------------------------------------
(* The modem's lines                                                       *)

\* The line ends with these fields, field k from at[k] on, with a comma and the
\* gap between two of them.
Laid(s, fields, gap, at) ==
    /\ at \in [1 .. Len(fields) -> Nat] /\ at[1] = 4
    /\ \A k \in 1 .. Len(fields) :
         LET past == at[k] + Len(fields[k]) IN
         /\ past <= End(s)
         /\ \A j \in 1 .. Len(fields[k]) : s[at[k] + j - 1] = fields[k][j]
         /\ k = Len(fields) => past = End(s)
         /\ k < Len(fields) => /\ s[past] = ","
                               /\ \A j \in 1 .. Len(gap) : s[past + j] = gap[j]
                               /\ at[k + 1] = past + 1 + Len(gap)

\* The signs that a line has around its fields
Signs == {"+", ":", " ", ","}
Prefixed(s) == s[1] = "+" /\ s[2] = ":" /\ s[3] = " "

\* What follows a sequence is found behind it.
LEMMA Behind ==
  ASSUME NEW S, NEW a \in Seq(S), NEW b \in Seq(S), NEW c, c = a \o b
  PROVE  /\ c \in Seq(S) /\ Len(c) = Len(a) + Len(b)
         /\ \A i \in 1 .. Len(a) : c[i] = a[i]
         /\ \A i \in 1 .. Len(b) : c[Len(a) + i] = b[i]
<1>1. c \in Seq(S) /\ Len(c) = Len(a) + Len(b) /\ Len(a) \in Nat /\ Len(b) \in Nat
  BY ConcatProperties
<1>2. \A i \in 1 .. Len(a) + Len(b) : c[i] = IF i <= Len(a) THEN a[i] ELSE b[i - Len(a)]
  BY ConcatProperties
<1>3. ASSUME NEW i \in 1 .. Len(b) PROVE c[Len(a) + i] = b[i]
  <2>1. Len(a) + i \in 1 .. Len(a) + Len(b) /\ ~(Len(a) + i <= Len(a))
        /\ (Len(a) + i) - Len(a) = i
    BY <1>1
  <2> QED BY <1>2, <2>1
<1> QED BY <1>1, <1>2, <1>3

\* c has the elements of a and behind them those of b.
InTurn(S, c, a, b) ==
    /\ c \in Seq(S) /\ Len(c) = Len(a) + Len(b)
    /\ \A i \in 1 .. Len(a) : c[i] = a[i]
    /\ \A i \in 1 .. Len(b) : c[Len(a) + i] = b[i]

\* ... which is so for the concatenation of a and b.
LEMMA JoinedInTurn ==
  ASSUME NEW S, NEW a \in Seq(S), NEW b \in Seq(S) PROVE InTurn(S, a \o b, a, b)
<1>1. PICK c : c = a \o b
  OBVIOUS
<1>2. /\ c \in Seq(S) /\ Len(c) = Len(a) + Len(b)
      /\ \A i \in 1 .. Len(a) : c[i] = a[i]
      /\ \A i \in 1 .. Len(b) : c[Len(a) + i] = b[i]
  BY <1>1, Behind
<1>3. InTurn(S, c, a, b)
  BY <1>2, Zenon DEF InTurn
<1> QED BY <1>1, <1>3, Zenon

\* Joined puts its fields where Laid says.
LEMMA JoinedLaid ==
  ASSUME NEW C, Signs \subseteq C,
         NEW F \in Seq(Seq(C)), Len(F) # 0, NEW gap \in Seq(C), NEW s, s = Joined(F, gap)
  PROVE  s \in Seq(C) /\ Prefixed(s) /\ \E at : Laid(s, F, gap, at)
<1>0. PICK plus, colon, space, comma :
        plus = "+" /\ colon = ":" /\ space = " " /\ comma = ","
  OBVIOUS
<1>a. plus \in C /\ colon \in C /\ space \in C /\ comma \in C
  BY <1>0, Zenon DEF Signs
<1> DEFINE parts == [i \in 1 .. Len(F) - 1 |-> <<comma>> \o gap \o F[i + 1]]
<1>1. s = (<<plus, colon, space>> \o F[1]) \o FlattenSeq(parts)
  BY <1>0, Zenon DEF Joined
<1>2. Len(F) \in Nat \ {0} /\ Len(gap) \in Nat
  OBVIOUS
<1>3. ASSUME NEW k \in 1 .. Len(F) PROVE F[k] \in Seq(C) /\ Len(F[k]) \in Nat
  <2>1. F[k] \in Seq(C)
    BY ElementOfSeq
  <2> QED BY <2>1
<1>4. ASSUME NEW i \in 1 .. Len(F) - 1
      PROVE  /\ parts[i] \in Seq(C) /\ Len(parts[i]) = 1 + Len(gap) + Len(F[i + 1])
             /\ parts[i][1] = comma
             /\ \A j \in 1 .. Len(gap) : parts[i][1 + j] = gap[j]
             /\ \A j \in 1 .. Len(F[i + 1]) : parts[i][1 + Len(gap) + j] = F[i + 1][j]
  <2>1. i + 1 \in 1 .. Len(F)
    BY <1>2
  <2>2. PICK g, h, one : one = <<comma>> /\ h = one \o gap /\ g = h \o F[i + 1] /\ parts[i] = g
    OBVIOUS
  <2>3. one \in Seq(C) /\ Len(one) = 1 /\ one[1] = comma
    BY <1>a, <2>2
  <2>4. /\ h \in Seq(C) /\ Len(h) = 1 + Len(gap)
        /\ \A j \in 1 .. 1 : h[j] = one[j]
        /\ \A j \in 1 .. Len(gap) : h[1 + j] = gap[j]
    BY <2>2, <2>3, Behind
  <2>5. /\ g \in Seq(C) /\ Len(g) = Len(h) + Len(F[i + 1])
        /\ \A j \in 1 .. Len(h) : g[j] = h[j]
        /\ \A j \in 1 .. Len(F[i + 1]) : g[Len(h) + j] = F[i + 1][j]
    BY <1>3, <2>1, <2>2, <2>4, Behind
  <2> HIDE DEF parts
  <2>6. g[1] = comma
    <3>1. 1 \in 1 .. 1 /\ 1 \in 1 .. Len(h)
      BY <1>2, <2>4
    <3>2. h[1] = one[1]
      BY <2>4, <3>1, Zenon
    <3>3. g[1] = h[1]
      BY <2>5, <3>1, Zenon
    <3> QED BY <2>3, <3>2, <3>3, Zenon
  <2>7. ASSUME NEW j \in 1 .. Len(gap) PROVE g[1 + j] = gap[j]
    <3>1. 1 + j \in 1 .. Len(h)
      BY <1>2, <2>4
    <3> QED BY <2>4, <2>5, <3>1, Zenon
  <2> QED BY <2>2, <2>4, <2>5, <2>6, <2>7
<1>5. PICK m \in Nat : m = Len(F) - 1
  <2>1. Len(F) - 1 \in Nat
    BY <1>2
  <2> QED BY <2>1, Zenon
<1>6. parts \in Seq(Seq(C)) /\ Len(parts) = m
  <2>1. parts \in [1 .. m -> Seq(C)]
    BY <1>4, <1>5
  <2> HIDE DEF parts
  <2> QED BY <2>1
<1>7. PICK flat, pl : flat = FlattenSeq(parts) /\ flat \in Seq(C) /\ Placed(flat, parts, pl, m)
  <2> HIDE DEF parts
  <2> QED BY <1>6, Flattened
<1>8. /\ pl \in [0 .. m -> Nat] /\ pl[0] = 0 /\ pl[m] = Len(flat) /\ Len(flat) \in Nat
      /\ \A i \in 1 .. m : /\ pl[i] = pl[i - 1] + Len(parts[i])
                           /\ pl[i] <= Len(flat)
                           /\ \A j \in 1 .. Len(parts[i]) : flat[pl[i - 1] + j] = parts[i][j]
  <2> HIDE DEF parts
  <2> QED BY <1>7 DEF Placed
<1>9. PICK pre, head : pre = <<plus, colon, space>> /\ head = pre \o F[1] /\ s = head \o flat
  BY <1>1, <1>7
<1>10. pre \in Seq(C) /\ Len(pre) = 3 /\ pre[1] = plus /\ pre[2] = colon /\ pre[3] = space
  BY <1>a, <1>9
<1>11. /\ head \in Seq(C) /\ Len(head) = 3 + Len(F[1])
       /\ \A i \in 1 .. 3 : head[i] = pre[i]
       /\ \A i \in 1 .. Len(F[1]) : head[3 + i] = F[1][i]
  BY <1>2, <1>3, <1>9, <1>10, Behind
<1>12. /\ s \in Seq(C) /\ Len(s) = Len(head) + Len(flat)
       /\ \A i \in 1 .. Len(head) : s[i] = head[i]
       /\ \A i \in 1 .. Len(flat) : s[Len(head) + i] = flat[i]
  <2>1. flat \in Seq(C) /\ head \in Seq(C) /\ s = head \o flat
    BY <1>7, <1>9, <1>11
  <2> QED BY <2>1, Behind
<1>13. PICK L \in Nat : L = Len(F[1]) /\ Len(head) = 3 + L /\ Len(s) = 3 + L + Len(flat)
  <2>1. 1 \in 1 .. Len(F)
    BY <1>2
  <2>2. Len(F[1]) \in Nat
    BY <1>3, <2>1
  <2>3. Len(head) = 3 + Len(F[1])
    BY <1>11
  <2>4. Len(s) = Len(head) + Len(flat)
    BY <1>12
  <2> QED BY <2>2, <2>3, <2>4, Zenon
<1>13a. Len(head) = 3 + L
  BY <1>13, Zenon
<1> HIDE DEF parts
<1>14. s[1] = plus /\ s[2] = colon /\ s[3] = space /\ \A i \in 1 .. L : s[3 + i] = F[1][i]
  <2>1. 1 \in 1 .. 3 /\ 2 \in 1 .. 3 /\ 3 \in 1 .. 3
    OBVIOUS
  <2>2. 1 \in 1 .. Len(head) /\ 2 \in 1 .. Len(head) /\ 3 \in 1 .. Len(head)
    BY <1>13
  <2>3. s[1] = plus /\ s[2] = colon /\ s[3] = space
    BY <1>10, <1>11, <1>12, <2>1, <2>2, Zenon
  <2>4. ASSUME NEW i \in 1 .. L PROVE s[3 + i] = F[1][i]
    <3>1. 3 + i \in 1 .. Len(head)
      BY <1>13
    <3>2. head[3 + i] = F[1][i]
      BY <1>11, <1>13, Zenon
    <3> QED BY <1>12, <3>1, <3>2, Zenon
  <2> QED BY <2>3, <2>4
<1>15. Prefixed(s)
  BY <1>0, <1>14, Zenon DEF Prefixed
<1> DEFINE at == [k \in 1 .. Len(F) |->
                    IF k = 1 THEN 4 ELSE 3 + L + pl[k - 2] + 1 + Len(gap) + 1]
\* where field k ends, and the part behind it begins
<1>16. ASSUME NEW k \in 1 .. Len(F)
       PROVE  /\ at[k] \in Nat /\ pl[k - 1] \in Nat
              /\ at[k] + Len(F[k]) = 3 + L + pl[k - 1] + 1
              /\ \A j \in 1 .. Len(F[k]) : s[at[k] + j - 1] = F[k][j]
  <2>1. CASE k = 1
    <3>1. at[k] = 4 /\ pl[k - 1] = 0 /\ Len(F[k]) = L
      BY <1>8, <1>13, <2>1
    <3> HIDE DEF at
    <3>2. ASSUME NEW j \in 1 .. Len(F[k]) PROVE s[at[k] + j - 1] = F[k][j]
      <4>1. at[k] + j - 1 = 3 + j /\ j \in 1 .. L
        BY <3>1
      <4> QED BY <1>14, <2>1, <4>1
    <3> QED BY <3>1, <3>2
  <2>2. CASE k # 1
    <3>1. k - 1 \in 1 .. m /\ k - 2 \in 0 .. m /\ (k - 1) + 1 = k /\ (k - 1) - 1 = k - 2
          /\ k - 1 \in 1 .. Len(F) - 1
      BY <1>2, <1>5, <2>2
    <3>2. pl[k - 2] \in Nat /\ pl[k - 1] \in Nat
      BY <1>8, <3>1
    <3>3. PICK a \in Nat : a = pl[k - 2] /\ at[k] = 3 + L + a + 1 + Len(gap) + 1
      BY <2>2, <3>2
    <3>4. PICK e \in Nat : e = Len(F[k])
      BY <1>3
    <3> HIDE DEF at
    <3>5. Len(parts[k - 1]) = 1 + Len(gap) + e
      BY <1>4, <3>1, <3>4, Zenon
    <3>6. pl[k - 1] = a + 1 + Len(gap) + e /\ pl[k - 1] <= Len(flat)
          /\ \A j \in 1 .. 1 + Len(gap) + e : flat[a + j] = parts[k - 1][j]
      <4>1. pl[k - 1] = a + Len(parts[k - 1]) /\ pl[k - 1] <= Len(flat)
            /\ \A j \in 1 .. Len(parts[k - 1]) : flat[a + j] = parts[k - 1][j]
        BY <1>8, <3>1, <3>3
      <4> QED BY <1>2, <3>5, <4>1
    <3>7. \A j \in 1 .. e : parts[k - 1][1 + Len(gap) + j] = F[k][j]
      <4>1. \A j \in 1 .. Len(F[(k - 1) + 1]) :
              parts[k - 1][1 + Len(gap) + j] = F[(k - 1) + 1][j]
        BY <1>4, <3>1, Zenon
      <4> QED BY <3>1, <3>4, <4>1
    <3>8. ASSUME NEW j \in 1 .. e PROVE s[at[k] + j - 1] = F[k][j]
      <4>1. PICK i \in 1 .. 1 + Len(gap) + e : i = 1 + Len(gap) + j
        BY <1>2
      <4>2. a + i \in 1 .. Len(flat)
        BY <1>2, <1>8, <3>6
      <4>2a. at[k] + j - 1 = Len(head) + (a + i)
        <5>1. at[k] = 3 + L + a + 1 + Len(gap) + 1
          BY <3>3, Zenon
        <5> QED BY <1>2, <1>13a, <4>1, <5>1
      <4>3. s[at[k] + j - 1] = flat[a + i]
        BY <1>12, <4>2, <4>2a
      <4> QED BY <3>6, <3>7, <4>1, <4>3
    <3>9. at[k] + e = 3 + L + pl[k - 1] + 1 /\ at[k] \in Nat
      <4>1. at[k] = 3 + L + a + 1 + Len(gap) + 1
        BY <3>3
      <4>2. pl[k - 1] = a + 1 + Len(gap) + e
        BY <3>6
      <4> QED BY <1>2, <4>1, <4>2
    <3> QED BY <3>2, <3>4, <3>8, <3>9
  <2> QED BY <2>1, <2>2
\* what comes between two fields
<1>17. ASSUME NEW k \in 1 .. Len(F), k < Len(F)
       PROVE  LET past == 3 + L + pl[k - 1] + 1 IN
              /\ s[past] = comma
              /\ \A j \in 1 .. Len(gap) : s[past + j] = gap[j]
              /\ at[k + 1] = past + 1 + Len(gap)
              /\ past <= End(s)
  <2>1. k \in 1 .. m /\ k - 1 \in 0 .. m /\ k + 1 \in 1 .. Len(F) /\ k + 1 # 1
        /\ (k + 1) - 2 = k - 1 /\ k \in 1 .. Len(F) - 1
    BY <1>2, <1>5, <1>17
  <2>2. PICK b \in Nat : b = pl[k - 1]
    BY <1>16
  <2>3. at[k + 1] = 3 + L + b + 1 + Len(gap) + 1
    BY <2>1, <2>2
  <2> HIDE DEF at
  <2>4. /\ pl[k] = b + Len(parts[k]) /\ pl[k] <= Len(flat)
        /\ \A j \in 1 .. Len(parts[k]) : flat[b + j] = parts[k][j]
    BY <1>8, <2>1, <2>2
  <2>5. PICK e \in Nat : e = Len(F[k + 1])
    BY <1>3, <2>1
  <2>6. /\ Len(parts[k]) = 1 + Len(gap) + e /\ parts[k][1] = comma
        /\ \A j \in 1 .. Len(gap) : parts[k][1 + j] = gap[j]
    BY <1>4, <2>1, <2>5
  <2>7. \A j \in 1 .. 1 + Len(gap) : s[3 + L + b + j] = parts[k][j]
    <3>1. ASSUME NEW j \in 1 .. 1 + Len(gap) PROVE s[3 + L + b + j] = parts[k][j]
      <4>0. Len(parts[k]) = 1 + Len(gap) + e /\ pl[k] = b + Len(parts[k]) /\ pl[k] <= Len(flat)
        BY <2>4, <2>6
      <4>0a. Len(flat) \in Nat
        BY <1>8
      <4>1. j \in 1 .. Len(parts[k]) /\ b + j \in 1 .. Len(flat)
        BY <1>2, <4>0, <4>0a
      <4>2. 3 + L + b + j = Len(head) + (b + j)
        BY <1>2, <1>13a
      <4> QED BY <1>12, <4>1, <4>2, <2>4
    <3> QED BY <3>1
  <2>8. PICK past : past = 3 + L + b + 1
    OBVIOUS
  <2>9. s[past] = comma
    <3>1. 1 \in 1 .. 1 + Len(gap)
      BY <1>2
    <3> QED BY <2>6, <2>7, <2>8, <3>1
  <2>10. ASSUME NEW j \in 1 .. Len(gap) PROVE s[past + j] = gap[j]
    <3>1. 1 + j \in 1 .. 1 + Len(gap) /\ past + j = 3 + L + b + (1 + j)
      BY <1>2, <2>8
    <3> QED BY <2>6, <2>7, <3>1
  <2>11. at[k + 1] = past + 1 + Len(gap) /\ past <= End(s)
    BY <1>2, <1>8, <1>13, <2>3, <2>4, <2>6, <2>8 DEF End
  <2> QED BY <2>2, <2>8, <2>9, <2>10, <2>11
<1>18. pl[Len(F) - 1] = Len(flat)
  BY <1>5, <1>8
<1>19. at \in [1 .. Len(F) -> Nat] /\ at[1] = 4
  <2>1. at[1] = 4
    BY <1>2
  <2>2. at \in [1 .. Len(F) -> Nat]
    BY <1>16
  <2> QED BY <2>1, <2>2
<1> HIDE DEF at
<1>20. ASSUME NEW k \in 1 .. Len(F)
       PROVE  LET past == at[k] + Len(F[k]) IN
              /\ past <= End(s)
              /\ \A j \in 1 .. Len(F[k]) : s[at[k] + j - 1] = F[k][j]
              /\ k = Len(F) => past = End(s)
              /\ k < Len(F) => /\ s[past] = comma
                               /\ \A j \in 1 .. Len(gap) : s[past + j] = gap[j]
                               /\ at[k + 1] = past + 1 + Len(gap)
  <2>1. CASE k < Len(F)
    <3>1. Len(F) \in Nat /\ k # Len(F)
      BY <1>2, <2>1
    <3>2. PICK past : past = 3 + L + pl[k - 1] + 1
      OBVIOUS
    <3>3. at[k] + Len(F[k]) = past
      BY <1>16, <3>2
    <3>4. /\ s[past] = comma /\ \A j \in 1 .. Len(gap) : s[past + j] = gap[j]
          /\ at[k + 1] = past + 1 + Len(gap) /\ past <= End(s)
      BY <1>17, <2>1, <3>2
    <3>5. \A j \in 1 .. Len(F[k]) : s[at[k] + j - 1] = F[k][j]
      BY <1>16
    <3> QED BY <3>1, <3>3, <3>4, <3>5
  <2>2. CASE k = Len(F)
    <3>1. at[k] + Len(F[k]) = End(s)
      BY <1>8, <1>13, <1>16, <1>18, <2>2 DEF End
    <3> QED BY <1>2, <1>8, <1>13, <1>16, <2>2, <3>1 DEF End
  <2> QED BY <1>2, <2>1, <2>2
<1>21. Laid(s, F, gap, at)
  BY <1>0, <1>19, <1>20, Zenon DEF Laid
<1> QED BY <1>12, <1>15, <1>21

-----------------------------------------------------------------------------
(* Tokens                                                                  *)

\* The search stops at the first place that fits.
LEMMA FoundAt ==
  ASSUME NEW s \in Text, NEW c \in Nat \ {0}, NEW chars, NEW f \in c .. Len(s),
         s[f] \in chars, \A i \in c .. f - 1 : s[i] \notin chars
  PROVE  Find(s, c, chars) = f
<1>1. Len(s) \in Nat /\ End(s) = Len(s) + 1 /\ c <= End(s)
  BY LineEnd
<1>2. PICK g : g = Find(s, c, chars)
  OBVIOUS
<1>3. /\ g \in c .. End(s)
      /\ g <= Len(s) => s[g] \in chars
      /\ \A i \in c .. g - 1 : s[i] \notin chars
  BY <1>1, <1>2, Found
<1>4. ~(f < g)
  BY <1>1, <1>3
<1>5. ~(g < f)
  BY <1>1, <1>3
<1> QED BY <1>1, <1>2, <1>3, <1>4, <1>5

\* With none of the characters left, the search ends at the NUL.
LEMMA FoundNone ==
  ASSUME NEW s \in Text, NEW c \in Nat \ {0}, c <= End(s), NEW chars,
         \A i \in c .. Len(s) : s[i] \notin chars
  PROVE  Find(s, c, chars) = End(s)
<1>1. Len(s) \in Nat /\ End(s) = Len(s) + 1
  BY LineEnd
<1>2. PICK g : g = Find(s, c, chars)
  OBVIOUS
<1>3. g \in c .. End(s) /\ (g <= Len(s) => s[g] \in chars)
  BY <1>1, <1>2, Found
<1> QED BY <1>1, <1>2, <1>3

\* What is passed over ends at the first place that is not passed over.
LEMMA SkippedTo ==
  ASSUME NEW s \in Text, NEW c \in Nat \ {0}, NEW chars, NEW a \in c .. Len(s),
         s[a] \notin chars, \A i \in c .. a - 1 : s[i] \in chars
  PROVE  Skip(s, c, chars) = a
<1>1. Len(s) \in Nat /\ End(s) = Len(s) + 1 /\ c <= End(s)
  BY LineEnd
<1>2. PICK g : g = Skip(s, c, chars)
  OBVIOUS
<1>3. /\ g \in c .. End(s)
      /\ g <= Len(s) => s[g] \notin chars
      /\ \A i \in c .. g - 1 : s[i] \in chars
  BY <1>1, <1>2, Skipped
<1>4. ~(a < g)
  BY <1>1, <1>3
<1>5. ~(g < a)
  BY <1>1, <1>3
<1> QED BY <1>1, <1>2, <1>3, <1>4, <1>5

\* From c on the line has spaces, then a field from a to e, then a comma or its end.
Stands(s, c, a, e) ==
    /\ c \in Nat \ {0} /\ a \in Nat /\ e \in Nat /\ c <= a /\ a <= e /\ e <= Len(s)
    /\ \A i \in c .. a - 1 : s[i] \in Spaces
    /\ s[a] \notin Spaces
    /\ e = Len(s) \/ s[e + 1] = ","
\* ... that is not quoted and has no comma
StandsPlain(s, c, a, e) ==
    Stands(s, c, a, e) /\ s[a] # "\"" /\ \A i \in a .. e : s[i] # ","
\* ... or is quoted
StandsQuoted(s, c, a, e) ==
    /\ Stands(s, c, a, e) /\ a # e
    /\ s[a] = "\"" /\ s[e] = "\"" /\ \A i \in a + 1 .. e - 1 : s[i] # "\""

\* The bounds of a field in its line
LEMMA StandsFacts ==
  ASSUME NEW s \in Text, NEW c, NEW a, NEW e, Stands(s, c, a, e)
  PROVE  /\ c \in Nat \ {0} /\ a \in Nat \ {0} /\ e \in Nat /\ c <= a /\ a <= e /\ e <= Len(s)
         /\ c # NULL /\ Len(s) \in Nat /\ End(s) = Len(s) + 1 /\ c <= End(s)
         /\ skipWhiteSpace(s, c) = a
<1>1. Len(s) \in Nat /\ End(s) = Len(s) + 1
  BY LineEnd
<1>2. /\ c \in Nat \ {0} /\ a \in Nat /\ e \in Nat /\ c <= a /\ a <= e /\ e <= Len(s)
      /\ \A i \in c .. a - 1 : s[i] \in Spaces
      /\ s[a] \notin Spaces
  BY Zenon DEF Stands
<1>3. a \in c .. Len(s) /\ a \in Nat \ {0} /\ c # NULL /\ c <= End(s)
  BY <1>1, <1>2 DEF NULL
<1>4. Skip(s, c, Spaces) = a
  BY <1>2, <1>3, SkippedTo
<1> QED BY <1>1, <1>2, <1>3, <1>4 DEF skipWhiteSpace

\* nextTok gives such a field as it stands there, without its quotes.
LEMMA PlainToken ==
  ASSUME NEW s \in Text, NEW c, NEW a, NEW e, StandsPlain(s, c, a, e)
  PROVE  nextTok(s, c) = [tok |-> SubSeq(s, a, e), cur |-> IF e = Len(s) THEN NULL ELSE e + 2]
<1>0. PICK quote, comma : quote = "\"" /\ comma = ","
  OBVIOUS
<1>1. /\ Stands(s, c, a, e) /\ s[a] # quote /\ (\A i \in a .. e : s[i] # comma)
      /\ e = Len(s) \/ s[e + 1] = comma
  BY <1>0, Zenon DEF StandsPlain, Stands
<1>2. /\ c \in Nat \ {0} /\ a \in Nat \ {0} /\ e \in Nat /\ c <= a /\ a <= e /\ e <= Len(s)
      /\ c # NULL /\ Len(s) \in Nat /\ End(s) = Len(s) + 1 /\ c <= End(s)
      /\ skipWhiteSpace(s, c) = a
  BY <1>1, StandsFacts
<1>3. nextTok(s, c) = strsep(s, a, comma)
  BY <1>0, <1>1, <1>2, Zenon DEF nextTok
<1>4. PICK f : f = Find(s, a, {comma})
  OBVIOUS
<1>5. strsep(s, a, comma) = [tok |-> SubSeq(s, a, f - 1), cur |-> IF f = End(s) THEN NULL ELSE f + 1]
  BY <1>4 DEF strsep
<1>6. f = e + 1
  <2>1. CASE e = Len(s)
    <3>1. \A i \in a .. Len(s) : s[i] \notin {comma}
      BY <1>1, <2>1
    <3>2. a <= End(s)
      BY <1>2
    <3>3. f = End(s)
      BY <1>2, <1>4, <3>1, <3>2, FoundNone
    <3> QED BY <1>2, <2>1, <3>3
  <2>2. CASE e # Len(s)
    <3>1. e + 1 \in a .. Len(s) /\ (e + 1) - 1 = e
      BY <1>2, <2>2
    <3>2. s[e + 1] \in {comma} /\ \A i \in a .. (e + 1) - 1 : s[i] \notin {comma}
      BY <1>1, <2>2, <3>1
    <3>3. Find(s, a, {comma}) = e + 1
      BY <1>2, <3>1, <3>2, FoundAt
    <3> QED BY <1>4, <3>3
  <2> QED BY <2>1, <2>2
<1>7. f - 1 = e /\ f + 1 = e + 2 /\ (f = End(s) <=> e = Len(s))
  BY <1>2, <1>6
<1> QED BY <1>3, <1>5, <1>7, Zenon

\* The token of a quoted field is what stands between its quotes.
LEMMA QuotedToken ==
  ASSUME NEW s \in Text, NEW c, NEW a, NEW e, StandsQuoted(s, c, a, e)
  PROVE  nextTok(s, c) = [tok |-> SubSeq(s, a + 1, e - 1),
                          cur |-> IF e = Len(s) THEN End(s) ELSE e + 2]
<1>0. PICK quote, comma : quote = "\"" /\ comma = ","
  OBVIOUS
<1>1. /\ Stands(s, c, a, e) /\ a # e /\ s[a] = quote /\ s[e] = quote
      /\ \A i \in a + 1 .. e - 1 : s[i] # quote
      /\ e = Len(s) \/ s[e + 1] = comma
  BY <1>0, Zenon DEF StandsQuoted, Stands
<1>2. /\ c \in Nat \ {0} /\ a \in Nat \ {0} /\ e \in Nat /\ c <= a /\ a <= e /\ e <= Len(s)
      /\ c # NULL /\ Len(s) \in Nat /\ End(s) = Len(s) + 1 /\ c <= End(s)
      /\ skipWhiteSpace(s, c) = a
  BY <1>1, StandsFacts
<1>3. PICK q : q = strsep(s, a + 1, quote)
  OBVIOUS
<1>4. nextTok(s, c) = [q EXCEPT !.cur = skipNextComma(s, q.cur)]
  <2>1. a <= Len(s)
    BY <1>2
  <2> QED BY <1>0, <1>1, <1>2, <1>3, <2>1, Zenon DEF nextTok
<1>5. Find(s, a + 1, {quote}) = e
  <2>1. a + 1 \in Nat \ {0} /\ e \in a + 1 .. Len(s)
    BY <1>1, <1>2
  <2>2. s[e] \in {quote} /\ \A i \in a + 1 .. e - 1 : s[i] \notin {quote}
    BY <1>1
  <2> QED BY <2>1, <2>2, FoundAt
<1>6. q = [tok |-> SubSeq(s, a + 1, e - 1), cur |-> e + 1]
  <2>1. e # End(s)
    BY <1>2
  <2> QED BY <1>3, <1>5, <2>1 DEF strsep
<1>7. nextTok(s, c) = [tok |-> SubSeq(s, a + 1, e - 1), cur |-> skipNextComma(s, e + 1)]
  BY <1>4, <1>6
<1>8. skipNextComma(s, e + 1) = IF e = Len(s) THEN End(s) ELSE e + 2
  <2>0. e + 1 # NULL /\ e + 1 \in Nat \ {0}
    BY <1>2 DEF NULL
  <2>1. PICK f : f = Find(s, e + 1, {comma})
    OBVIOUS
  <2>2. skipNextComma(s, e + 1) = IF f = End(s) THEN f ELSE f + 1
    BY <1>0, <2>0, <2>1, Zenon DEF skipNextComma
  <2>3. CASE e = Len(s)
    <3>1. \A i \in e + 1 .. Len(s) : s[i] \notin {comma}
      BY <1>2, <2>3
    <3>2. e + 1 <= End(s)
      BY <1>2
    <3>3. f = End(s)
      BY <2>0, <2>1, <3>1, <3>2, FoundNone
    <3> QED BY <2>2, <2>3, <3>3
  <2>4. CASE e # Len(s)
    <3>1. e + 1 \in e + 1 .. Len(s)
      BY <1>2, <2>4
    <3>2. s[e + 1] \in {comma} /\ \A i \in e + 1 .. (e + 1) - 1 : s[i] \notin {comma}
      BY <1>1, <1>2, <2>4
    <3>3. Find(s, e + 1, {comma}) = e + 1
      BY <2>0, <3>1, <3>2, FoundAt
    <3>4. f = e + 1 /\ f # End(s) /\ f + 1 = e + 2
      BY <1>2, <2>1, <2>4, <3>3
    <3> QED BY <2>2, <2>4, <3>4
  <2> QED BY <2>3, <2>4
<1> QED BY <1>7, <1>8

-----------------------------------------------------------------------------
(* The fields of a line, token by token                                    *)

\* The cursor before field k
Ahead(gap, at, k) == IF k = 1 THEN 3 ELSE at[k] - Len(gap)

\* A line with these fields, whose characters are all from C
LineOf(C, s, fields, gap, at) ==
    /\ s \in Text /\ s \in Seq(C) /\ Prefixed(s) /\ Laid(s, fields, gap, at)
    /\ fields \in Seq(Seq(C)) /\ \A k \in 1 .. Len(fields) : Len(fields[k]) # 0
    /\ gap \in Seq(C) /\ \A j \in 1 .. Len(gap) : gap[j] \in Spaces

\* Where field k stands
LEMMA FieldStands ==
  ASSUME NEW C, NEW s, NEW F, NEW gap, NEW at, LineOf(C, s, F, gap, at),
         NEW k \in 1 .. Len(F), F[k][1] \notin Spaces
  PROVE  LET c == Ahead(gap, at, k)
             e == at[k] + Len(F[k]) - 1
         IN  /\ Stands(s, c, at[k], e)
             /\ \A j \in 1 .. Len(F[k]) : s[at[k] + j - 1] = F[k][j]
             /\ Len(F[k]) \in Nat \ {0} /\ F[k] \in Seq(C)
             /\ e = Len(s) <=> k = Len(F)
             /\ k # Len(F) => e + 2 = Ahead(gap, at, k + 1) /\ e + 2 <= Len(s)
<1>1. /\ s \in Text /\ s \in Seq(C) /\ Len(s) \in Nat /\ End(s) = Len(s) + 1
      /\ F \in Seq(Seq(C)) /\ Len(F) \in Nat
      /\ gap \in Seq(C) /\ Len(gap) \in Nat
      /\ \A i \in 1 .. Len(F) : Len(F[i]) # 0
      /\ \A j \in 1 .. Len(gap) : gap[j] \in Spaces
  BY LineEnd DEF LineOf
<1>2. ASSUME NEW i \in 1 .. Len(F) PROVE F[i] \in Seq(C) /\ Len(F[i]) \in Nat \ {0}
  <2>1. F[i] \in Seq(C)
    BY <1>1, ElementOfSeq
  <2> QED BY <1>1, <2>1
<1>3. s[3] \in Spaces
  BY Zenon DEF LineOf, Prefixed, Spaces
<1>4. /\ at \in [1 .. Len(F) -> Nat] /\ at[1] = 4
      /\ \A i \in 1 .. Len(F) :
           LET past == at[i] + Len(F[i]) IN
           /\ past <= End(s)
           /\ \A j \in 1 .. Len(F[i]) : s[at[i] + j - 1] = F[i][j]
           /\ i = Len(F) => past = End(s)
           /\ i < Len(F) => /\ s[past] = ","
                            /\ \A j \in 1 .. Len(gap) : s[past + j] = gap[j]
                            /\ at[i + 1] = past + 1 + Len(gap)
  BY Zenon DEF LineOf, Laid
<1>5. PICK comma : comma = ","
  OBVIOUS
<1>6. /\ at \in [1 .. Len(F) -> Nat] /\ at[1] = 4
      /\ \A i \in 1 .. Len(F) :
           /\ at[i] + Len(F[i]) <= End(s)
           /\ \A j \in 1 .. Len(F[i]) : s[at[i] + j - 1] = F[i][j]
           /\ i = Len(F) => at[i] + Len(F[i]) = End(s)
           /\ i < Len(F) => /\ s[at[i] + Len(F[i])] = comma
                            /\ \A j \in 1 .. Len(gap) : s[at[i] + Len(F[i]) + j] = gap[j]
                            /\ at[i + 1] = at[i] + Len(F[i]) + 1 + Len(gap)
  BY <1>4, <1>5, Zenon
<1>7. PICK n \in Nat \ {0} : n = Len(F[k])
  BY <1>2
<1>8. PICK a \in Nat : a = at[k]
  BY <1>6
<1>9. a + n <= End(s) /\ (\A j \in 1 .. n : s[a + j - 1] = F[k][j])
  BY <1>6, <1>7, <1>8
<1>10. PICK c : c = Ahead(gap, at, k)
  OBVIOUS
<1>11. /\ c \in Nat \ {0} /\ c <= a
       /\ \A i \in c .. a - 1 : s[i] \in Spaces
  <2>1. CASE k = 1
    <3>1. c = 3 /\ a = 4
      BY <1>6, <1>8, <1>10, <2>1 DEF Ahead
    <3> QED BY <1>3, <3>1
  <2>2. CASE k # 1
    <3>1. PICK p : p = k - 1
      OBVIOUS
    <3>2. p \in 1 .. Len(F) /\ p < Len(F) /\ p + 1 = k
      BY <1>1, <2>2, <3>1
    <3>3. PICK b, m : b = at[p] /\ m = Len(F[p]) /\ b \in Nat /\ m \in Nat \ {0}
      BY <1>2, <1>6, <3>2
    <3>4. a = b + m + 1 + Len(gap) /\ \A j \in 1 .. Len(gap) : s[b + m + j] = gap[j]
      BY <1>6, <1>8, <3>2, <3>3
    <3>5. c = a - Len(gap)
      BY <1>8, <1>10, <2>2 DEF Ahead
    <3>5a. b \in Nat /\ m \in Nat /\ Len(gap) \in Nat
      BY <1>1, <3>3
    <3>5b. a = b + m + 1 + Len(gap)
      BY <3>4
    <3>6. c = b + m + 1
      BY <3>5, <3>5a, <3>5b
    <3>7. ASSUME NEW i \in c .. a - 1 PROVE s[i] \in Spaces
      <4>1. PICK j : j = i - (b + m)
        OBVIOUS
      <4>2. j \in 1 .. Len(gap) /\ i = b + m + j
        BY <3>5a, <3>5b, <3>6, <4>1
      <4>3. s[i] = gap[j]
        BY <3>4, <4>2
      <4> QED BY <1>1, <4>2, <4>3
    <3>8. c \in Nat \ {0} /\ c <= a
      BY <3>5a, <3>5b, <3>6
    <3> QED BY <3>7, <3>8
  <2> QED BY <2>1, <2>2
<1>12. PICK e : e = a + n - 1
  OBVIOUS
<1>13. a <= e /\ e <= Len(s) /\ e \in Nat /\ (e = Len(s) <=> a + n = End(s)) /\ e + 1 = a + n
  BY <1>1, <1>9, <1>12
<1>14. s[a] \notin Spaces
  <2>1. s[a + 1 - 1] = F[k][1] /\ a + 1 - 1 = a
    BY <1>9
  <2> QED BY <2>1
<1>15. k # Len(F) => s[a + n] = comma /\ e + 2 = Ahead(gap, at, k + 1) /\ e + 2 <= Len(s)
  <2> SUFFICES ASSUME k # Len(F)
               PROVE  s[a + n] = comma /\ e + 2 = Ahead(gap, at, k + 1) /\ e + 2 <= Len(s)
    OBVIOUS
  <2>1. k < Len(F) /\ k + 1 \in 1 .. Len(F) /\ k + 1 # 1
    BY <1>1
  <2>2. s[a + n] = comma /\ at[k + 1] = a + n + 1 + Len(gap)
    BY <1>6, <1>7, <1>8, <2>1
  <2>3. Ahead(gap, at, k + 1) = a + n + 1
    BY <1>1, <2>1, <2>2 DEF Ahead
  <2>4. at[k + 1] \in Nat /\ at[k + 1] + Len(F[k + 1]) <= End(s) /\ Len(F[k + 1]) \in Nat \ {0}
    BY <1>2, <1>6, <2>1
  <2>5. a + n + 1 + Len(gap) + 1 <= End(s)
    <3>1. ASSUME NEW g \in Nat, NEW q \in Nat, NEW l \in Nat \ {0}, NEW z \in Nat,
                 q = a + n + 1 + g, q + l <= z
          PROVE  a + n + 1 + g + 1 <= z
      BY <3>1
    <3>2. Len(gap) \in Nat /\ End(s) \in Nat
      BY <1>1
    <3> QED BY <2>2, <2>4, <3>1, <3>2, Zenon
  <2> QED BY <1>1, <1>12, <2>2, <2>3, <2>5
<1>16. e = Len(s) <=> k = Len(F)
  <2>1. k = Len(F) => a + n = End(s)
    BY <1>6, <1>7, <1>8
  <2> QED BY <1>1, <1>13, <1>15, <2>1
<1>17. Stands(s, c, a, e)
  <2>1. e = Len(s) \/ s[e + 1] = comma
    BY <1>13, <1>15, <1>16
  <2> QED BY <1>5, <1>11, <1>13, <1>14, <2>1, Zenon DEF Stands
<1> HIDE DEF Ahead
<1> QED BY <1>2, <1>7, <1>8, <1>9, <1>10, <1>12, <1>15, <1>16, <1>17

\* A stretch of a line that holds a text is that text.
LEMMA StretchIs ==
  ASSUME NEW C, NEW s \in Seq(C), NEW t \in Seq(C), NEW a \in Nat \ {0},
         a + Len(t) <= Len(s) + 1, \A j \in 1 .. Len(t) : s[a + j - 1] = t[j]
  PROVE  SubSeq(s, a, a + Len(t) - 1) = t
<1>1. PICK n \in Nat : n = Len(t) /\ Len(s) \in Nat
  OBVIOUS
<1>2. PICK e : e = a + n - 1
  OBVIOUS
<1>3. a \in Int /\ e \in Int /\ e - a + 1 = n /\ (n # 0 <=> a <= e) /\ \A i \in a .. e : i \in 1 .. Len(s)
  BY <1>1, <1>2
<1>4. \A i \in a .. e : s[i] \in C
  BY <1>3, ElementOfSeq
<1>5. PICK u : u = SubSeq(s, a, e)
  OBVIOUS
<1>6. /\ u \in Seq(C) /\ Len(u) = IF a <= e THEN e - a + 1 ELSE 0
      /\ \A i \in 1 .. e - a + 1 : u[i] = s[a + i - 1]
  BY <1>3, <1>4, <1>5, SubSeqProperties
<1>7. Len(u) = n /\ \A i \in 1 .. n : u[i] = t[i]
  <2>1. Len(u) = n
    BY <1>3, <1>6
  <2>2. ASSUME NEW i \in 1 .. n PROVE u[i] = t[i]
    BY <1>1, <1>3, <1>6
  <2> QED BY <2>1, <2>2
<1>8. u = t
  BY <1>1, <1>6, <1>7, SeqEqual
<1> QED BY <1>1, <1>2, <1>5, <1>8

\* t stands in s from a on.
Stretch(s, t, a) == a + Len(t) <= Len(s) + 1 /\ \A j \in 1 .. Len(t) : s[a + j - 1] = t[j]

\* ... and so the part of s there is t.
LEMMA StretchSub ==
  ASSUME NEW C, NEW s \in Seq(C), NEW t \in Seq(C), NEW a \in Nat \ {0}, Stretch(s, t, a)
  PROVE  SubSeq(s, a, a + Len(t) - 1) = t
<1>1. a + Len(t) <= Len(s) + 1 /\ \A j \in 1 .. Len(t) : s[a + j - 1] = t[j]
  BY Zenon DEF Stretch
<1> QED BY <1>1, StretchIs

\* Characters of numbers and of hexadecimal data
PlainText(t) == t[1] \notin Spaces /\ t[1] # "\"" /\ \A j \in 1 .. Len(t) : t[j] # ","
NoQuote(t) == \A j \in 1 .. Len(t) : t[j] # "\""

\* A field of such characters is the next token, ...
LEMMA PlainField ==
  ASSUME NEW C, NEW s, NEW F, NEW gap, NEW at, LineOf(C, s, F, gap, at),
         NEW k \in 1 .. Len(F), PlainText(F[k])
  PROVE  nextTok(s, Ahead(gap, at, k)) =
           [tok |-> F[k], cur |-> IF k = Len(F) THEN NULL ELSE Ahead(gap, at, k + 1)]
<1>0. PICK quote, comma : quote = "\"" /\ comma = ","
  OBVIOUS
<1>1. PICK c, a, n, e, t, m :
         /\ c = Ahead(gap, at, k) /\ a = at[k] /\ n = Len(t) /\ e = a + n - 1 /\ t = F[k]
         /\ m = Ahead(gap, at, k + 1)
  OBVIOUS
<1>2. t[1] \notin Spaces /\ t[1] # quote /\ \A j \in 1 .. n : t[j] # comma
  BY <1>0, <1>1, Zenon DEF PlainText
<1>3. /\ Stands(s, c, a, e)
      /\ \A j \in 1 .. n : s[a + j - 1] = t[j]
      /\ n \in Nat \ {0} /\ t \in Seq(C)
      /\ e = Len(s) <=> k = Len(F)
      /\ k # Len(F) => e + 2 = m
  <2>1. F[k][1] \notin Spaces
    BY <1>1, <1>2, Zenon
  <2>2. LET c0 == Ahead(gap, at, k)
            e0 == at[k] + Len(F[k]) - 1
        IN  /\ Stands(s, c0, at[k], e0)
            /\ \A j \in 1 .. Len(F[k]) : s[at[k] + j - 1] = F[k][j]
            /\ Len(F[k]) \in Nat \ {0} /\ F[k] \in Seq(C)
            /\ e0 = Len(s) <=> k = Len(F)
            /\ k # Len(F) => e0 + 2 = Ahead(gap, at, k + 1) /\ e0 + 2 <= Len(s)
    BY <2>1, FieldStands
  <2> QED BY <1>1, <2>2, Zenon
<1>4. s \in Text /\ s \in Seq(C)
  BY Zenon DEF LineOf
<1>5. a \in Nat \ {0} /\ e \in Nat /\ a <= e /\ e <= Len(s) /\ Len(s) \in Nat
  BY <1>3, <1>4, StandsFacts
<1>6. s[a] # quote /\ \A i \in a .. e : s[i] # comma
  <2>1. ASSUME NEW i \in a .. e PROVE \E j \in 1 .. n : s[i] = t[j] /\ (i = a => j = 1)
    <3>1. PICK j : j = i - a + 1
      OBVIOUS
    <3>2. e = a + n - 1
      BY <1>1, Zenon
    <3>3. j \in 1 .. n /\ i = a + j - 1 /\ (i = a => j = 1)
      BY <1>3, <1>5, <3>1, <3>2
    <3> QED BY <1>3, <3>3
  <2>2. s[a] = t[1]
    BY <1>5, <2>1
  <2> QED BY <1>2, <2>1, <2>2
<1>7. StandsPlain(s, c, a, e)
  BY <1>0, <1>3, <1>6, Zenon DEF StandsPlain
<1>8. nextTok(s, c) = [tok |-> SubSeq(s, a, e), cur |-> IF e = Len(s) THEN NULL ELSE e + 2]
  BY <1>4, <1>7, PlainToken, Zenon
<1>9. SubSeq(s, a, e) = t
  <2>1. e = a + Len(t) - 1 /\ Len(t) = n
    BY <1>1, Zenon
  <2>2. a + Len(t) <= Len(s) + 1
    BY <1>3, <1>5, <2>1
  <2>3. SubSeq(s, a, a + Len(t) - 1) = t
    BY <1>3, <1>4, <1>5, <2>1, <2>2, StretchIs
  <2> QED BY <2>1, <2>3, Zenon
<1>10. (IF e = Len(s) THEN NULL ELSE e + 2) = IF k = Len(F) THEN NULL ELSE m
  BY <1>3, Zenon
<1> QED BY <1>1, <1>8, <1>9, <1>10, Zenon

\* ... and a quoted one without its quotes; the cursor then stays in the line.
LEMMA QuotedField ==
  ASSUME NEW C, NEW s, NEW F, NEW gap, NEW at, LineOf(C, s, F, gap, at),
         NEW k \in 1 .. Len(F), NEW t \in Seq(C), F[k] = Quoted(t), NoQuote(t)
  PROVE  nextTok(s, Ahead(gap, at, k)) =
           [tok |-> t, cur |-> IF k = Len(F) THEN End(s) ELSE Ahead(gap, at, k + 1)]
<1>0. PICK quote : quote = "\""
  OBVIOUS
<1>1. PICK c, a, n, e, f, m :
         /\ c = Ahead(gap, at, k) /\ a = at[k] /\ n = Len(f) /\ e = a + n - 1 /\ f = F[k]
         /\ m = Ahead(gap, at, k + 1)
  OBVIOUS
<1>2. f = (<<quote>> \o t) \o <<quote>>
  BY <1>0, <1>1, Zenon DEF Quoted
<1>3. Len(t) \in Nat /\ n = Len(t) + 2 /\ f[1] = quote /\ f[n] = quote
      /\ \A i \in 1 .. Len(t) : f[1 + i] = t[i]
  <2>1. PICK D : D = C \cup {quote}
    OBVIOUS
  <2>2. t \in Seq(D)
    BY <2>1, SeqMonotonic
  <2>3. PICK q : q = <<quote>> /\ q \in Seq(D) /\ Len(q) = 1 /\ q[1] = quote
    <3>1. quote \in D
      BY <2>1
    <3>2. <<quote>> \in Seq(D) /\ Len(<<quote>>) = 1 /\ <<quote>>[1] = quote
      BY <3>1
    <3> QED BY <3>2, Zenon
  <2>4. PICK h : h = q \o t
    OBVIOUS
  <2>5. /\ h \in Seq(D) /\ Len(h) = 1 + Len(t)
        /\ \A i \in 1 .. 1 : h[i] = q[i]
        /\ \A i \in 1 .. Len(t) : h[1 + i] = t[i]
    BY <2>2, <2>3, <2>4, Behind
  <2>6. f = h \o q
    BY <1>2, <2>3, <2>4, Zenon
  <2>7. /\ Len(f) = Len(h) + 1
        /\ \A i \in 1 .. Len(h) : f[i] = h[i]
        /\ \A i \in 1 .. 1 : f[Len(h) + i] = q[i]
    BY <2>3, <2>5, <2>6, Behind
  <2>8. Len(t) \in Nat
    OBVIOUS
  <2>9. 1 \in 1 .. Len(h) /\ n = Len(t) + 2 /\ Len(h) + 1 = n
    <3>1. n = Len(f)
      BY <1>1, Zenon
    <3> QED BY <2>5, <2>7, <2>8, <3>1
  <2>10. f[1] = quote /\ f[n] = quote
    <3>1. 1 \in 1 .. 1
      OBVIOUS
    <3>2. h[1] = q[1] /\ f[1] = h[1] /\ f[Len(h) + 1] = q[1]
      BY <2>5, <2>7, <2>9, <3>1, Zenon
    <3> QED BY <2>3, <2>9, <3>2, Zenon
  <2>11. ASSUME NEW i \in 1 .. Len(t) PROVE f[1 + i] = t[i]
    <3>1. 1 + i \in 1 .. Len(h)
      BY <2>5, <2>8
    <3> QED BY <2>5, <2>7, <3>1, Zenon
  <2> QED BY <2>8, <2>9, <2>10, <2>11
<1>4. quote \notin Spaces
  BY <1>0, Zenon DEF Spaces
<1>5. /\ Stands(s, c, a, e)
      /\ \A j \in 1 .. n : s[a + j - 1] = f[j]
      /\ e = Len(s) <=> k = Len(F)
      /\ k # Len(F) => e + 2 = m
  <2>1. F[k][1] \notin Spaces
    BY <1>1, <1>3, <1>4, Zenon
  <2>2. LET c0 == Ahead(gap, at, k)
            e0 == at[k] + Len(F[k]) - 1
        IN  /\ Stands(s, c0, at[k], e0)
            /\ \A j \in 1 .. Len(F[k]) : s[at[k] + j - 1] = F[k][j]
            /\ Len(F[k]) \in Nat \ {0} /\ F[k] \in Seq(C)
            /\ e0 = Len(s) <=> k = Len(F)
            /\ k # Len(F) => e0 + 2 = Ahead(gap, at, k + 1) /\ e0 + 2 <= Len(s)
    BY <2>1, FieldStands
  <2> QED BY <1>1, <2>2, Zenon
<1>6. s \in Text /\ s \in Seq(C)
  BY Zenon DEF LineOf
<1>7. a \in Nat \ {0} /\ e \in Nat /\ a <= e /\ e <= Len(s) /\ Len(s) \in Nat
  BY <1>5, <1>6, StandsFacts
<1>8. e = a + Len(t) + 1
  <2>1. e = a + n - 1
    BY <1>1, Zenon
  <2> QED BY <1>3, <1>7, <2>1
<1>9. /\ s[a] = quote /\ s[e] = quote
      /\ \A i \in 1 .. Len(t) : s[(a + 1) + i - 1] = t[i]
  <2>1. 1 \in 1 .. n /\ a + 1 - 1 = a /\ n \in 1 .. n /\ a + n - 1 = e
    BY <1>3, <1>7, <1>8
  <2>2. s[a] = quote /\ s[e] = quote
    <3>1. s[a + 1 - 1] = f[1] /\ s[a + n - 1] = f[n]
      BY <1>5, <2>1, Zenon
    <3> QED BY <1>3, <2>1, <3>1, Zenon
  <2>3. ASSUME NEW i \in 1 .. Len(t) PROVE s[(a + 1) + i - 1] = t[i]
    <3>1. 1 + i \in 1 .. n /\ (a + 1) + i - 1 = a + (1 + i) - 1
      BY <1>3, <1>7
    <3>2. s[a + (1 + i) - 1] = f[1 + i] /\ f[1 + i] = t[i]
      BY <1>3, <1>5, <3>1, Zenon
    <3> QED BY <3>1, <3>2, Zenon
  <2> QED BY <2>2, <2>3
<1>10. \A i \in a + 1 .. e - 1 : s[i] # quote
  <2>1. \A i \in 1 .. Len(t) : t[i] # quote
    BY <1>0, Zenon DEF NoQuote
  <2>2. ASSUME NEW i \in a + 1 .. e - 1 PROVE s[i] # quote
    <3>1. PICK j : j = i - a
      OBVIOUS
    <3>2. j \in 1 .. Len(t) /\ (a + 1) + j - 1 = i
      BY <1>3, <1>7, <1>8, <3>1
    <3>3. s[i] = t[j]
      BY <1>9, <3>2
    <3> QED BY <2>1, <3>2, <3>3, Zenon
  <2> QED BY <2>2
<1>11. StandsQuoted(s, c, a, e)
  <2>1. a # e
    BY <1>3, <1>7, <1>8
  <2> QED BY <1>0, <1>5, <1>9, <1>10, <2>1, Zenon DEF StandsQuoted
<1>12. nextTok(s, c) = [tok |-> SubSeq(s, a + 1, e - 1),
                        cur |-> IF e = Len(s) THEN End(s) ELSE e + 2]
  BY <1>6, <1>11, QuotedToken, Zenon
<1>13. SubSeq(s, a + 1, e - 1) = t
  <2>1. e - 1 = (a + 1) + Len(t) - 1 /\ a + 1 \in Nat \ {0} /\ (a + 1) + Len(t) <= Len(s) + 1
    BY <1>3, <1>7, <1>8
  <2>2. SubSeq(s, a + 1, (a + 1) + Len(t) - 1) = t
    <3>1. PICK b \in Nat \ {0} : b = a + 1
      BY <2>1
    <3>2. b + Len(t) <= Len(s) + 1 /\ \A i \in 1 .. Len(t) : s[b + i - 1] = t[i]
      BY <1>9, <2>1, <3>1, Zenon
    <3>3. SubSeq(s, b, b + Len(t) - 1) = t
      <4>1. s \in Seq(C) /\ t \in Seq(C)
        BY <1>6, Zenon
      <4>2. Stretch(s, t, b)
        BY <3>2, Zenon DEF Stretch
      <4> QED BY <4>1, <4>2, StretchSub, Zenon
    <3> QED BY <3>1, <3>3, Zenon
  <2> QED BY <2>1, <2>2, Zenon
<1>14. (IF e = Len(s) THEN End(s) ELSE e + 2) = IF k = Len(F) THEN End(s) ELSE m
  BY <1>5, Zenon
<1> QED BY <1>1, <1>12, <1>13, <1>14, Zenon

-----------------------------------------------------------------------------
(* Numbers                                                                 *)

\* No two digits are the same.
LEMMA DigitsDiffer ==
  /\ \A i, j \in 1 .. 16 : Digits[i] = Digits[j] => i = j
  /\ \A i \in 1 .. 16 : Digits[i] # " "
  /\ \A i \in 1 .. 16 : Digits[i] # ","
  /\ \A i \in 1 .. 16 : Digits[i] # "\""
<1>1. \A i, j \in 1 .. 16 : Digits[i] = Digits[j] => i = j
  BY DEF Digits
<1>2. ASSUME NEW i \in 1 .. 16 PROVE Digits[i] # " " /\ Digits[i] # "," /\ Digits[i] # "\""
  <2>1. Digits[i] \in {"0", "1", "2", "3", "4", "5", "6", "7", "8", "9", "A", "B", "C", "D", "E", "F"}
    BY DEF Digits
  <2> QED BY <2>1, Zenon
<1> QED BY <1>1, <1>2

\* The digits have their values, and none is a sign of the line.
LEMMA DigitOf ==
  ASSUME NEW n \in 0 .. 15
  PROVE  /\ DigitValue(Digits[n + 1]) = n
         /\ Digits[n + 1] \notin Spaces /\ Digits[n + 1] # "," /\ Digits[n + 1] # "\""
<1>1. n + 1 \in 1 .. 16
  OBVIOUS
<1>2. PICK ch : ch = Digits[n + 1]
  OBVIOUS
<1>3. PICK k : k = CHOOSE i \in 1 .. 16 : Digits[i] = ch
  OBVIOUS
<1>4. \E i \in 1 .. 16 : Digits[i] = ch
  BY <1>1, <1>2
<1>5. k \in 1 .. 16 /\ Digits[k] = ch
  BY <1>3, <1>4
<1>6. k = n + 1
  BY <1>1, <1>2, <1>5, DigitsDiffer
<1>7. DigitValue(ch) = k - 1
  BY <1>3, <1>4, Zenon DEF DigitValue
<1>8. Digits[n + 1] # " " /\ Digits[n + 1] # "," /\ Digits[n + 1] # "\""
  BY <1>1, DigitsDiffer, Zenon
<1>9. DigitValue(ch) = n
  BY <1>6, <1>7
<1> QED BY <1>2, <1>8, <1>9, Zenon DEF Spaces

\* The recursion that strtol describes, on a text of digits only
Values(v, t, n, base) ==
    v = [i \in 0 .. n |-> IF i < 1 THEN 0 ELSE base * v[i - 1] + DigitValue(t[i])]

\* The values of a number's first digits exist, as a function.
LEMMA ValuesExist ==
  ASSUME NEW t, NEW n \in Nat, NEW base
  PROVE  \E v : Values(v, t, n, base)
<1> DEFINE G == {m \in Nat : \E v : Values(v, t, m, base)}
<1>1. 0 \in G
  <2> DEFINE v == [i \in 0 .. 0 |-> 0]
  <2>1. v = [i \in 0 .. 0 |-> IF i < 1 THEN 0 ELSE base * v[i - 1] + DigitValue(t[i])]
    OBVIOUS
  <2> QED BY <2>1 DEF Values
<1>2. ASSUME NEW m \in 0 .. n - 1, m \in G PROVE m + 1 \in G
  <2>1. PICK v : Values(v, t, m, base)
    BY <1>2
  <2> DEFINE g == [i \in 0 .. m + 1 |-> IF i = m + 1 THEN base * v[m] + DigitValue(t[i]) ELSE v[i]]
             h == [i \in 0 .. m + 1 |-> IF i < 1 THEN 0 ELSE base * g[i - 1] + DigitValue(t[i])]
  <2>2. ASSUME NEW i \in 0 .. m + 1 PROVE g[i] = h[i]
    <3>1. CASE i = m + 1
      <4>1. ~(i < 1) /\ i - 1 = m /\ m \in 0 .. m + 1 /\ m # m + 1
        BY <3>1
      <4>2. g[m] = v[m] /\ g[i] = base * v[m] + DigitValue(t[i])
        BY <3>1, <4>1
      <4>3. h[i] = base * g[i - 1] + DigitValue(t[i])
        BY <4>1
      <4> HIDE DEF g, h
      <4> QED BY <4>1, <4>2, <4>3
    <3>2. CASE i # m + 1
      <4>1. i \in 0 .. m /\ (~(i < 1) => i - 1 \in 0 .. m + 1 /\ i - 1 # m + 1)
        BY <3>2
      <4>2. v[i] = IF i < 1 THEN 0 ELSE base * v[i - 1] + DigitValue(t[i])
        BY <2>1, <4>1 DEF Values
      <4>3. g[i] = v[i] /\ (~(i < 1) => g[i - 1] = v[i - 1])
        BY <3>2, <4>1
      <4>4. h[i] = IF i < 1 THEN 0 ELSE base * g[i - 1] + DigitValue(t[i])
        OBVIOUS
      <4> HIDE DEF g, h
      <4> QED BY <4>2, <4>3, <4>4
    <3> QED BY <3>1, <3>2
  <2>3. g = h
    BY <2>2
  <2>4. Values(g, t, m + 1, base)
    BY <2>3 DEF Values
  <2>5. m + 1 \in Nat
    OBVIOUS
  <2> HIDE DEF g, h
  <2> QED BY <2>4, <2>5
<1> HIDE DEF G
<1>3. n \in G
  <2>1. 0 \in Nat /\ 0 <= n
    OBVIOUS
  <2> QED BY <1>1, <1>2, <2>1, Upward
<1> QED BY <1>3 DEF G

\* strtol of a text of digits is defined by that recursion.
LEMMA StrtolFollows ==
  ASSUME NEW t \in Text, NEW base \in Nat, Len(t) # 0,
         \A i \in 1 .. Len(t) : t[i] \notin Spaces /\ DigitValue(t[i]) \in 0 .. base - 1
  PROVE  \E v : /\ strtol(t, base) = [ok |-> TRUE, value |-> v[Len(t)]]
                /\ v[0] = 0
                /\ \A i \in 1 .. Len(t) : v[i] = base * v[i - 1] + DigitValue(t[i])
<1>1. Len(t) \in Nat \ {0} /\ End(t) = Len(t) + 1
  BY LineEnd
<1>2. Skip(t, 1, Spaces) = 1
  <2>1. 1 \in 1 .. Len(t) /\ t[1] \notin Spaces /\ \A i \in 1 .. 1 - 1 : t[i] \in Spaces
    BY <1>1
  <2> QED BY <2>1, SkippedTo
<1>3. NumberEnd(t, 1, base) = End(t)
  <2>1. {i \in 1 .. Len(t) : DigitValue(t[i]) >= base} \cup {End(t)} = {End(t)}
    <3>1. ASSUME NEW i \in 1 .. Len(t) PROVE ~(DigitValue(t[i]) >= base)
      OBVIOUS
    <3> QED BY <3>1
  <2>2. {End(t)} \in SUBSET Nat /\ {End(t)} # {}
    BY <1>1
  <2>3. Min({End(t)}) \in {End(t)}
    BY <2>2, MinFound
  <2> QED BY <2>1, <2>3 DEF NumberEnd
<1> DEFINE from == Skip(t, 1, Spaces)
           to == NumberEnd(t, from, base)
           value == CHOOSE g : g = [i \in from - 1 .. to - 1 |->
                      IF i < from THEN 0 ELSE base * g[i - 1] + DigitValue(t[i])]
<1>4. strtol(t, base) = [ok |-> to > from, value |-> value[to - 1]]
  BY DEF strtol
<1>5. from = 1 /\ to = End(t) /\ from - 1 = 0 /\ to - 1 = Len(t) /\ (to > from) = TRUE
  BY <1>1, <1>2, <1>3
<1> HIDE DEF from, to
<1>6. \E v : Values(v, t, Len(t), base)
  BY <1>1, ValuesExist
<1>7. PICK v : v = [i \in from - 1 .. to - 1 |->
                      IF i < from THEN 0 ELSE base * v[i - 1] + DigitValue(t[i])]
               /\ v = value
  <2>1. \E v : v = [i \in from - 1 .. to - 1 |->
                      IF i < from THEN 0 ELSE base * v[i - 1] + DigitValue(t[i])]
    BY <1>5, <1>6, Zenon DEF Values
  <2> QED BY <2>1, Zenon
<1> HIDE DEF value
<1>8. v = [i \in 0 .. Len(t) |-> IF i < 1 THEN 0 ELSE base * v[i - 1] + DigitValue(t[i])]
  BY <1>5, <1>7, Zenon
<1>9. \A i \in 0 .. Len(t) : v[i] = IF i < 1 THEN 0 ELSE base * v[i - 1] + DigitValue(t[i])
  BY <1>8, Zenon
<1>10. v[0] = 0 /\ \A i \in 1 .. Len(t) : v[i] = base * v[i - 1] + DigitValue(t[i])
  <2>1. v[0] = 0
    BY <1>1, <1>9
  <2>2. ASSUME NEW i \in 1 .. Len(t) PROVE v[i] = base * v[i - 1] + DigitValue(t[i])
    <3>1. i \in 0 .. Len(t) /\ ~(i < 1)
      BY <1>1
    <3> QED BY <1>9, <3>1, Zenon
  <2> QED BY <2>1, <2>2
<1>11. strtol(t, base) = [ok |-> TRUE, value |-> v[Len(t)]]
  BY <1>4, <1>5, <1>7
<1> QED BY <1>10, <1>11

\* The text has these digits.
HasDigits(t, d, k) == Len(t) = k /\ \A i \in 1 .. k : t[i] = Digits[d[i] + 1]

\* Digits below the base are read one by one, and are no signs of the line.
LEMMA DigitsRead ==
  ASSUME NEW t \in Text, NEW base \in {10, 16}, NEW k \in Nat \ {0},
         NEW d \in [1 .. k -> 0 .. base - 1], HasDigits(t, d, k)
  PROVE  /\ PlainText(t) /\ NoQuote(t)
         /\ \E v : /\ strtol(t, base) = [ok |-> TRUE, value |-> v[k]]
                   /\ v[0] = 0 /\ \A i \in 1 .. k : v[i] = base * v[i - 1] + d[i]
<1>0. PICK quote, comma : quote = "\"" /\ comma = ","
  OBVIOUS
<1>1. ASSUME NEW i \in 1 .. k
      PROVE  /\ t[i] \notin Spaces /\ t[i] # comma /\ t[i] # quote
             /\ DigitValue(t[i]) = d[i]
  <2>1. PICK x \in 0 .. 15 : x = d[i]
    <3>1. d[i] \in 0 .. 15
      <4>1. d[i] \in 0 .. base - 1
        OBVIOUS
      <4>2. CASE base = 10
        BY <4>1, <4>2
      <4>3. CASE base = 16
        BY <4>1, <4>3
      <4> QED BY <4>2, <4>3
    <3> QED BY <3>1, Zenon
  <2>2. t[i] = Digits[x + 1]
    BY <2>1, Zenon DEF HasDigits
  <2>3. DigitValue(Digits[x + 1]) = x /\ Digits[x + 1] \notin Spaces
        /\ Digits[x + 1] # comma /\ Digits[x + 1] # quote
    BY <1>0, DigitOf, Zenon
  <2> QED BY <2>1, <2>2, <2>3, Zenon
<1>2. Len(t) = k
  BY Zenon DEF HasDigits
<1>3. PlainText(t) /\ NoQuote(t)
  <2>1. 1 \in 1 .. k
    OBVIOUS
  <2> QED BY <1>0, <1>1, <1>2, <2>1, Zenon DEF PlainText, NoQuote
<1>4. ASSUME NEW i \in 1 .. Len(t)
      PROVE  t[i] \notin Spaces /\ DigitValue(t[i]) \in 0 .. base - 1
  <2>1. i \in 1 .. k
    BY <1>2
  <2>2. d[i] \in 0 .. base - 1
    BY <2>1
  <2> QED BY <1>1, <2>1, <2>2, Zenon
<1>5. PICK v : /\ strtol(t, base) = [ok |-> TRUE, value |-> v[Len(t)]]
               /\ v[0] = 0
               /\ \A i \in 1 .. Len(t) : v[i] = base * v[i - 1] + DigitValue(t[i])
  <2>1. Len(t) # 0 /\ base \in Nat
    BY <1>2
  <2> QED BY <1>4, <2>1, StrtolFollows
<1>6. \A i \in 1 .. k : v[i] = base * v[i - 1] + d[i]
  BY <1>1, <1>2, <1>5, Zenon
<1> QED BY <1>2, <1>3, <1>5, <1>6, Zenon

\* The values of t's first digits
DigitsValued(t, base, k, d) ==
    \E v : /\ strtol(t, base) = [ok |-> TRUE, value |-> v[k]]
           /\ v[0] = 0 /\ \A i \in 1 .. k : v[i] = base * v[i - 1] + d[i]

\* ... exist, and strtol returns the last of them.
LEMMA DigitsValue ==
  ASSUME NEW t \in Text, NEW base \in {10, 16}, NEW k \in Nat \ {0},
         NEW d \in [1 .. k -> 0 .. base - 1], HasDigits(t, d, k)
  PROVE  DigitsValued(t, base, k, d)
  BY DigitsRead, Zenon DEF DigitsValued

\* The decimal digits that the modem writes give the number back, ...
LEMMA DecimalRead ==
  ASSUME NEW n \in 0 .. 999, NEW t \in Text, t = Decimal(n)
  PROVE  strtol(t, 10) = [ok |-> TRUE, value |-> n] /\ PlainText(t) /\ Len(t) # 0
<1>1. CASE n < 10
  <2> DEFINE d == [i \in 1 .. 1 |-> n]
  <2>1. Len(t) = 1 /\ t[1] = Digits[n + 1]
    BY <1>1 DEF Decimal, Digit
  <2>2. d \in [1 .. 1 -> 0 .. 10 - 1] /\ d[1] = n
    BY <1>1
  <2> HIDE DEF d
  <2>3. HasDigits(t, d, 1)
    BY <2>1, <2>2 DEF HasDigits
  <2>4. 10 \in {10, 16} /\ 1 \in Nat \ {0}
    OBVIOUS
  <2>5. PlainText(t)
    BY <2>2, <2>3, <2>4, DigitsRead
  <2>5a. DigitsValued(t, 10, 1, d)
    BY <2>2, <2>3, <2>4, DigitsValue
  <2>6. PICK v : /\ strtol(t, 10) = [ok |-> TRUE, value |-> v[1]]
                 /\ v[0] = 0 /\ \A i \in 1 .. 1 : v[i] = 10 * v[i - 1] + d[i]
    BY <2>5a, Zenon DEF DigitsValued
  <2>7. v[1] = n
    <3>1. v[1] = 10 * v[0] + d[1]
      BY <2>6
    <3>2. v[0] = 0 /\ d[1] = n
      BY <2>2, <2>6
    <3> QED BY <3>1, <3>2
  <2> QED BY <2>1, <2>5, <2>6, <2>7
<1>2. CASE n >= 10 /\ n < 100
  <2> DEFINE d == [i \in 1 .. 2 |-> IF i = 1 THEN n \div 10 ELSE n % 10]
  <2>1. Len(t) = 2 /\ t[1] = Digits[(n \div 10) + 1] /\ t[2] = Digits[(n % 10) + 1]
    BY <1>2 DEF Decimal, Digit
  <2>2. d \in [1 .. 2 -> 0 .. 10 - 1] /\ d[1] = n \div 10 /\ d[2] = n % 10
    BY <1>2
  <2> HIDE DEF d
  <2>3. HasDigits(t, d, 2)
    BY <2>1, <2>2 DEF HasDigits
  <2>4. 10 \in {10, 16} /\ 2 \in Nat \ {0}
    OBVIOUS
  <2>5. PlainText(t)
    BY <2>2, <2>3, <2>4, DigitsRead
  <2>5a. DigitsValued(t, 10, 2, d)
    BY <2>2, <2>3, <2>4, DigitsValue
  <2>6. PICK v : /\ strtol(t, 10) = [ok |-> TRUE, value |-> v[2]]
                 /\ v[0] = 0 /\ \A i \in 1 .. 2 : v[i] = 10 * v[i - 1] + d[i]
    BY <2>5a, Zenon DEF DigitsValued
  <2>7. v[2] = n
    <3>1. v[1] = 10 * v[0] + d[1] /\ v[2] = 10 * v[1] + d[2] /\ v[0] = 0
      BY <2>6
    <3>2. PICK x, y : x = n \div 10 /\ y = n % 10 /\ x \in 0 .. 9 /\ y \in 0 .. 9 /\ n = 10 * x + y
      BY <1>2
    <3>3. v[1] = x /\ v[2] = 10 * x + y
      BY <2>2, <3>1, <3>2
    <3> QED BY <3>2, <3>3
  <2> QED BY <2>1, <2>5, <2>6, <2>7
<1>3. CASE n >= 100
  <2> DEFINE d == [i \in 1 .. 3 |-> IF i = 1 THEN n \div 100
                                    ELSE IF i = 2 THEN (n \div 10) % 10 ELSE n % 10]
  <2>1. /\ Len(t) = 3 /\ t[1] = Digits[(n \div 100) + 1]
        /\ t[2] = Digits[((n \div 10) % 10) + 1] /\ t[3] = Digits[(n % 10) + 1]
    BY <1>3 DEF Decimal, Digit
  <2>2. d \in [1 .. 3 -> 0 .. 10 - 1] /\ d[1] = n \div 100 /\ d[2] = (n \div 10) % 10 /\ d[3] = n % 10
    BY <1>3
  <2> HIDE DEF d
  <2>3. HasDigits(t, d, 3)
    BY <2>1, <2>2 DEF HasDigits
  <2>4. 10 \in {10, 16} /\ 3 \in Nat \ {0}
    OBVIOUS
  <2>5. PlainText(t)
    BY <2>2, <2>3, <2>4, DigitsRead
  <2>5a. DigitsValued(t, 10, 3, d)
    BY <2>2, <2>3, <2>4, DigitsValue
  <2>6. PICK v : /\ strtol(t, 10) = [ok |-> TRUE, value |-> v[3]]
                 /\ v[0] = 0 /\ \A i \in 1 .. 3 : v[i] = 10 * v[i - 1] + d[i]
    BY <2>5a, Zenon DEF DigitsValued
  <2>7. v[3] = n
    <3>1. v[1] = 10 * v[0] + d[1] /\ v[2] = 10 * v[1] + d[2] /\ v[3] = 10 * v[2] + d[3] /\ v[0] = 0
      BY <2>6
    <3>2. PICK x, y, z : /\ x = n \div 100 /\ y = (n \div 10) % 10 /\ z = n % 10
                         /\ x \in 0 .. 9 /\ y \in 0 .. 9 /\ z \in 0 .. 9
                         /\ n = 100 * x + 10 * y + z
      BY <1>3
    <3>3. v[1] = x
      BY <2>2, <3>1, <3>2
    <3>4. v[2] = 10 * x + y
      BY <2>2, <3>1, <3>2, <3>3
    <3>5. v[3] = 10 * (10 * x + y) + z
      BY <2>2, <3>1, <3>2, <3>4
    <3> QED BY <3>2, <3>5
  <2> QED BY <2>1, <2>5, <2>6, <2>7
<1> QED BY <1>1, <1>2, <1>3

\* ... and so do the hexadecimal digits of two bytes.
LEMMA HexRead ==
  ASSUME NEW b \in Bytes \X Bytes, NEW t \in Text, t = vgHexDataToString(b)
  PROVE  strtol(t, 16) = [ok |-> TRUE, value |-> Number(b)] /\ NoQuote(t) /\ Len(t) = 4
<1>1. PICK x, y : x = b[1] /\ y = b[2] /\ x \in 0 .. 255 /\ y \in 0 .. 255 /\ Len(b) = 2
  BY DEF Bytes, UINT8
<1> DEFINE d == [i \in 1 .. 4 |-> IF i = 1 THEN x \div 16 ELSE IF i = 2 THEN x % 16
                                  ELSE IF i = 3 THEN y \div 16 ELSE y % 16]
<1>2. /\ d \in [1 .. 4 -> 0 .. 16 - 1]
      /\ d[1] = x \div 16 /\ d[2] = x % 16 /\ d[3] = y \div 16 /\ d[4] = y % 16
  BY <1>1
<1> HIDE DEF d
<1>3. t = [i \in 1 .. 4 |-> HexDigits[(IF i % 2 = 1 THEN b[(i + 1) \div 2] \div 16
                                                    ELSE b[(i + 1) \div 2] % 16) + 1]]
  <2>1. 2 * Len(b) = 4
    BY <1>1
  <2> QED BY <2>1 DEF vgHexDataToString, vgIntToHexChar
<1>4. Len(t) = 4
  BY <1>3
<1>5. /\ t[1] = Digits[d[1] + 1] /\ t[2] = Digits[d[2] + 1]
      /\ t[3] = Digits[d[3] + 1] /\ t[4] = Digits[d[4] + 1]
  <2>1. HexDigits = Digits
    BY DEF HexDigits, Digits
  <2>2. /\ (1 + 1) \div 2 = 1 /\ (2 + 1) \div 2 = 1 /\ (3 + 1) \div 2 = 2 /\ (4 + 1) \div 2 = 2
        /\ 1 % 2 = 1 /\ 2 % 2 = 0 /\ 3 % 2 = 1 /\ 4 % 2 = 0
    OBVIOUS
  <2>3. /\ t[1] = HexDigits[(b[1] \div 16) + 1] /\ t[2] = HexDigits[(b[1] % 16) + 1]
        /\ t[3] = HexDigits[(b[2] \div 16) + 1] /\ t[4] = HexDigits[(b[2] % 16) + 1]
    BY <1>3, <2>2
  <2> QED BY <1>1, <1>2, <2>1, <2>3
<1>6. HasDigits(t, d, 4)
  BY <1>4, <1>5 DEF HasDigits
<1>7. 16 \in {10, 16} /\ 4 \in Nat \ {0}
  OBVIOUS
<1>8. NoQuote(t)
  BY <1>2, <1>6, <1>7, DigitsRead
<1>9. PICK v : /\ strtol(t, 16) = [ok |-> TRUE, value |-> v[4]]
               /\ v[0] = 0 /\ \A i \in 1 .. 4 : v[i] = 16 * v[i - 1] + d[i]
  BY <1>2, <1>6, <1>7, DigitsRead
<1>10. v[4] = Number(b)
  <2>1. /\ v[1] = 16 * v[0] + d[1] /\ v[2] = 16 * v[1] + d[2] /\ v[3] = 16 * v[2] + d[3]
        /\ v[4] = 16 * v[3] + d[4] /\ v[0] = 0
    BY <1>9
  <2>2. v[2] = x
    <3>1. v[1] = x \div 16
      BY <1>1, <1>2, <2>1
    <3> QED BY <1>1, <1>2, <2>1, <3>1
  <2>3. v[4] = 256 * x + y
    <3>1. v[3] = 16 * x + (y \div 16)
      BY <1>1, <1>2, <2>1, <2>2
    <3> QED BY <1>1, <1>2, <2>1, <3>1
  <2> QED BY <1>1, <2>3 DEF Number
<1> QED BY <1>4, <1>8, <1>9, <1>10

-----------------------------------------------------------------------------
(* Templates                                                               *)

\* An object's bytes, and how many of them precede its value
Encoded(tag, value) == <<tag>> \o LengthBytes(Len(value)) \o value
Header(n) == IF n < 128 THEN 1 ELSE 2
\* An object that takes the bytes from offset a to before offset next
ObjectAt(d, a, o, next) ==
    LET n == Len(o.value) IN
    /\ next = a + 1 + Header(n) + n /\ next <= Len(d)
    /\ Byte(d, a) = o.tag
    /\ UsimDecodeDataLength(d, a + 1) = [lgth |-> n, size |-> Header(n)]
    /\ \A j \in 1 .. n : Byte(d, a + Header(n) + j) = o.value[j]
\* The objects lie one behind the other, from behind the template's length to
\* the end of the block.
TemplateAt(d, objects, at) ==
    /\ at \in [0 .. Len(objects) -> Nat] /\ at[0] \in {2, 3} /\ at[Len(objects)] = Len(d)
    /\ \A i \in 1 .. Len(objects) : ObjectAt(d, at[i - 1], objects[i], at[i])
    /\ Byte(d, 0) = 98
    /\ UsimDecodeDataLength(d, 1) = [lgth |-> Len(d) - at[0], size |-> at[0] - 1]

\* A length is read as it was written.
LEMMA LengthWritten ==
  ASSUME NEW n \in Nat
  PROVE  /\ LengthBytes(n) \in Seq(Nat) /\ Len(LengthBytes(n)) = Header(n)
         /\ n < UINT8 => LengthBytes(n) \in Seq(Bytes)
<1>1. CASE n < 128
  <2>1. LengthBytes(n) = <<n>> /\ Header(n) = 1
    BY <1>1 DEF LengthBytes, Header
  <2>2. n \in Bytes
    BY <1>1 DEF Bytes, UINT8
  <2> QED BY <2>1, <2>2
<1>2. CASE ~(n < 128)
  <2>1. LengthBytes(n) = <<129, n>> /\ Header(n) = 2
    BY <1>2 DEF LengthBytes, Header
  <2>2. 129 \in Bytes /\ (n < UINT8 => n \in Bytes)
    BY DEF Bytes, UINT8
  <2> QED BY <2>1, <2>2
<1> QED BY <1>1, <1>2

\* A length is read back, whatever precedes and follows it.
LEMMA LengthRead ==
  ASSUME NEW n \in 0 .. 255, NEW d, NEW a \in Nat,
         \A j \in 1 .. Header(n) : Byte(d, a + j - 1) = LengthBytes(n)[j]
  PROVE  UsimDecodeDataLength(d, a) = [lgth |-> n, size |-> Header(n)]
<1>1. CASE n < 128
  <2>1. LengthBytes(n)[1] = n /\ Header(n) = 1
    BY <1>1 DEF LengthBytes, Header
  <2>2. Byte(d, a) = n
    <3>1. a + 1 - 1 = a /\ 1 \in 1 .. Header(n)
      BY <2>1
    <3> QED BY <2>1, <3>1
  <2>3. n <= 127
    BY <1>1
  <2> QED BY <2>1, <2>2, <2>3 DEF UsimDecodeDataLength
<1>2. CASE ~(n < 128)
  <2>1. LengthBytes(n)[1] = 129 /\ LengthBytes(n)[2] = n /\ Header(n) = 2
    BY <1>2 DEF LengthBytes, Header
  <2>2. Byte(d, a) = 129 /\ Byte(d, a + 1) = n
    <3>1. a + 1 - 1 = a /\ a + 2 - 1 = a + 1 /\ 1 \in 1 .. Header(n) /\ 2 \in 1 .. Header(n)
      BY <2>1
    <3>2. Byte(d, a + 1 - 1) = LengthBytes(n)[1] /\ Byte(d, a + 2 - 1) = LengthBytes(n)[2]
      BY <3>1
    <3> QED BY <2>1, <3>1, <3>2
  <2>3. n >= 128
    BY <1>2
  <2> QED BY <2>1, <2>2, <2>3 DEF UsimDecodeDataLength
<1> QED BY <1>1, <1>2

\* The bytes of one object, or of the template itself
EncodedIn(S, e, tag, v) ==
    /\ e \in Seq(S) /\ Len(v) \in Nat /\ Len(e) = 1 + Header(Len(v)) + Len(v)
    /\ e[1] = tag
    /\ \A j \in 1 .. Header(Len(v)) : e[1 + j] = LengthBytes(Len(v))[j]
    /\ \A j \in 1 .. Len(v) : e[1 + Header(Len(v)) + j] = v[j]

\* Where the parts of an object are
LEMMA EncodedParts ==
  ASSUME NEW S, S \subseteq Nat, NEW tag \in S, NEW v \in Seq(S), NEW e,
         LengthBytes(Len(v)) \in Seq(S),
         e = Encoded(tag, v)
  PROVE  EncodedIn(S, e, tag, v)
<1>1. PICK n \in Nat : n = Len(v)
  OBVIOUS
<1>2. PICK h \in 1 .. 2 : h = Header(n)
  BY DEF Header
<1>3. PICK b : b = LengthBytes(n) /\ b \in Seq(S) /\ Len(b) = h
  BY <1>1, <1>2, LengthWritten
<1>4. PICK t : t = <<tag>> /\ t \in Seq(S) /\ Len(t) = 1 /\ t[1] = tag
  <2>1. <<tag>> \in Seq(S) /\ Len(<<tag>>) = 1 /\ <<tag>>[1] = tag
    OBVIOUS
  <2> QED BY <2>1, Zenon
<1>5. PICK f : f = t \o b /\ e = f \o v
  BY <1>1, <1>3, <1>4, Zenon DEF Encoded
<1>6. /\ f \in Seq(S) /\ Len(f) = 1 + h
      /\ \A i \in 1 .. 1 : f[i] = t[i]
      /\ \A i \in 1 .. h : f[1 + i] = b[i]
  <2>1. f \in Seq(S) /\ Len(f) = Len(t) + Len(b)
        /\ (\A i \in 1 .. Len(t) : f[i] = t[i]) /\ (\A i \in 1 .. Len(b) : f[Len(t) + i] = b[i])
    BY <1>3, <1>4, <1>5, Behind
  <2> QED BY <1>3, <1>4, <2>1, Zenon
<1>7. /\ e \in Seq(S) /\ Len(e) = Len(f) + Len(v)
      /\ \A i \in 1 .. Len(f) : e[i] = f[i]
      /\ \A i \in 1 .. Len(v) : e[Len(f) + i] = v[i]
  <2>1. f \in Seq(S)
    BY <1>6, Zenon
  <2>2. InTurn(S, f \o v, f, v)
    BY <2>1, JoinedInTurn, Zenon
  <2>3. InTurn(S, e, f, v)
    BY <1>5, <2>2, Zenon
  <2> QED BY <2>3, Zenon DEF InTurn
<1>8. Len(e) = 1 + h + n
  BY <1>1, <1>6, <1>7
<1>9. e[1] = tag
  <2>1. 1 \in 1 .. 1 /\ 1 \in 1 .. Len(f)
    BY <1>6
  <2> QED BY <1>4, <1>6, <1>7, <2>1, Zenon
<1>10. ASSUME NEW j \in 1 .. h PROVE e[1 + j] = b[j]
  <2>1. 1 + j \in 1 .. Len(f)
    BY <1>6
  <2> QED BY <1>6, <1>7, <2>1, Zenon
<1>11. ASSUME NEW j \in 1 .. n PROVE e[1 + h + j] = v[j]
  BY <1>1, <1>6, <1>7, Zenon
<1> QED BY <1>1, <1>2, <1>3, <1>7, <1>8, <1>9, <1>10, <1>11, Zenon DEF EncodedIn

\* What a template is made of
Objects == [tag : Bytes, value : Seq(Bytes)]

\* The objects of a template, one behind the other
PartsLaid(objects, parts, body) ==
    /\ parts \in Seq(Seq(Nat)) /\ Len(parts) = Len(objects)
    /\ \A i \in 1 .. Len(objects) :
         Len(parts[i]) = 1 + Header(Len(objects[i].value)) + Len(objects[i].value)
    /\ body \in Seq(Nat) /\ \E at : Placed(body, parts, at, Len(objects))

\* A function on 1 .. n is a sequence.
LEMMA FunctionIsSeq ==
  ASSUME NEW S, NEW n \in Nat, NEW q \in [1 .. n -> S] PROVE q \in Seq(S) /\ Len(q) = n
OBVIOUS

\* The places of a template's objects exist.
LEMMA PartsAreLaid ==
  ASSUME NEW objects \in Seq(Objects), NEW n \in Nat, n = Len(objects), NEW parts, NEW body,
         parts = [i \in 1 .. n |-> Encoded(objects[i].tag, objects[i].value)],
         body = FlattenSeq(parts)
  PROVE  PartsLaid(objects, parts, body)
<1>1. n = Len(objects) /\ DOMAIN objects = 1 .. n
  OBVIOUS
<1>4. ASSUME NEW i \in 1 .. n
      PROVE  objects[i].tag \in Bytes /\ objects[i].value \in Seq(Bytes) /\ Len(objects[i].value) \in Nat
  <2>1. objects[i] \in Objects
    BY <1>1, ElementOfSeq
  <2>2. objects[i].tag \in Bytes /\ objects[i].value \in Seq(Bytes)
    BY <2>1 DEF Objects
  <2> QED BY <2>2
<1>5. Bytes \subseteq Nat
  BY DEF Bytes, UINT8
<1>6. ASSUME NEW i \in 1 .. n
      PROVE  parts[i] \in Seq(Nat) /\ Len(parts[i]) = 1 + Header(Len(objects[i].value)) + Len(objects[i].value)
  <2>1. PICK v, tag, e : /\ v = objects[i].value /\ tag = objects[i].tag /\ e = parts[i]
                         /\ e = Encoded(tag, v)
    OBVIOUS
  <2>2. tag \in Nat /\ v \in Seq(Nat) /\ Len(v) \in Nat
    <3>1. tag \in Bytes /\ v \in Seq(Bytes)
      BY <1>4, <2>1
    <3>2. v \in Seq(Nat)
      BY <1>5, <3>1, SeqMonotonic, Zenon
    <3>3. tag \in Nat
      BY <1>5, <3>1
    <3>4. Len(v) \in Nat
      BY <3>2
    <3> QED BY <3>2, <3>3, <3>4
  <2>3. LengthBytes(Len(v)) \in Seq(Nat)
    BY <2>2, LengthWritten
  <2>4. e \in Seq(Nat) /\ Len(e) = 1 + Header(Len(v)) + Len(v)
    <3>1. Nat \subseteq Nat
      OBVIOUS
    <3>2. e = Encoded(tag, v)
      BY <2>1, Zenon
    <3>3. EncodedIn(Nat, e, tag, v)
      BY <2>2, <2>3, <3>1, <3>2, EncodedParts
    <3> QED BY <3>3, Zenon DEF EncodedIn
  <2> QED BY <2>1, <2>4, Zenon
<1>7. parts \in Seq(Seq(Nat)) /\ Len(parts) = n
  <2>1. parts \in [1 .. n -> Seq(Nat)]
    BY <1>6
  <2> QED BY <2>1, FunctionIsSeq, Zenon
<1>8. body \in Seq(Nat) /\ Len(body) \in Nat /\ \E at : Placed(body, parts, at, n)
  <2>1. body \in Seq(Nat) /\ \E at : Placed(body, parts, at, n)
    BY <1>7, Flattened
  <2>2. Len(body) \in Nat
    BY <2>1, LenProperties, Zenon
  <2> QED BY <2>1, <2>2
<1> QED BY <1>1, <1>6, <1>7, <1>8, Zenon DEF PartsLaid

\* A template that a GET RESPONSE can hold is such a block.
LEMMA TemplateLaid ==
  ASSUME NEW objects \in Seq(Objects), NEW d, d = Template(objects), Len(d) < UINT8
  PROVE  d \in Seq(Bytes) /\ Len(d) \in Nat \ {0} /\ \E at : TemplateAt(d, objects, at)
<1>1. PICK n \in Nat : n = Len(objects) /\ DOMAIN objects = 1 .. n
  OBVIOUS
<1> DEFINE parts == [i \in 1 .. n |-> Encoded(objects[i].tag, objects[i].value)]
<1>2. PICK body : body = FlattenSeq(parts)
  OBVIOUS
<1>3. d = Encoded(98, body)
  BY <1>1, <1>2, Zenon DEF Template, Encoded
<1>4. ASSUME NEW i \in 1 .. n
      PROVE  objects[i].tag \in Bytes /\ objects[i].value \in Seq(Bytes) /\ Len(objects[i].value) \in Nat
  <2>1. objects[i] \in Objects
    BY <1>1, ElementOfSeq
  <2>2. objects[i].tag \in Bytes /\ objects[i].value \in Seq(Bytes)
    BY <2>1 DEF Objects
  <2> QED BY <2>2
<1>5. Bytes \subseteq Nat
  BY DEF Bytes, UINT8
<1>5a. PartsLaid(objects, parts, body)
  BY <1>1, <1>2, PartsAreLaid
<1>6. /\ parts \in Seq(Seq(Nat)) /\ Len(parts) = n
      /\ \A i \in 1 .. n :
           Len(parts[i]) = 1 + Header(Len(objects[i].value)) + Len(objects[i].value)
      /\ body \in Seq(Nat) /\ \E at : Placed(body, parts, at, n)
  <2> HIDE DEF parts
  <2> QED BY <1>1, <1>5a, Zenon DEF PartsLaid
<1>8. body \in Seq(Nat) /\ Len(body) \in Nat /\ \E at : Placed(body, parts, at, n)
  <2> HIDE DEF parts
  <2>1. body \in Seq(Nat)
    BY <1>6, Zenon
  <2> QED BY <1>6, <2>1
<1>9. PICK m \in Nat : m = Len(body)
  BY <1>8
<1>10. PICK h \in 1 .. 2 : h = Header(m)
  BY DEF Header
<1>11. /\ d \in Seq(Nat) /\ Len(d) = 1 + h + m /\ d[1] = 98
       /\ \A j \in 1 .. h : d[1 + j] = LengthBytes(m)[j]
       /\ \A j \in 1 .. m : d[1 + h + j] = body[j]
  <2>1. 98 \in Nat /\ Nat \subseteq Nat /\ LengthBytes(Len(body)) \in Seq(Nat)
    BY <1>8, LengthWritten
  <2>2. /\ d \in Seq(Nat) /\ Len(d) = 1 + Header(Len(body)) + Len(body) /\ d[1] = 98
        /\ \A j \in 1 .. Header(Len(body)) : d[1 + j] = LengthBytes(Len(body))[j]
        /\ \A j \in 1 .. Len(body) : d[1 + Header(Len(body)) + j] = body[j]
    <3>1. body \in Seq(Nat)
      BY <1>8
    <3>2. EncodedIn(Nat, d, 98, body)
      BY <1>3, <2>1, <3>1, EncodedParts
    <3> QED BY <3>2, Zenon DEF EncodedIn
  <2> QED BY <1>9, <1>10, <2>2, Zenon
<1>12. m \in 0 .. 255 /\ 1 + h + m < 256
  BY <1>11 DEF UINT8
<1>13. ASSUME NEW i \in 1 .. n PROVE Len(objects[i].value) \in 0 .. 255
  <2>1. PICK at : Placed(body, parts, at, n)
    BY <1>8
  <2> HIDE DEF parts
  <2>2. at[i] = at[i - 1] + Len(parts[i]) /\ at[i] <= m /\ at[i - 1] \in Nat
    BY <1>9, <2>1 DEF Placed
  <2>3. PICK l \in Nat : l = Len(objects[i].value)
    BY <1>4
  <2>4. Len(parts[i]) = 1 + Header(l) + l /\ Header(l) \in 1 .. 2
    <3>1. Len(parts[i]) = 1 + Header(l) + l
      BY <1>6, <2>3, Zenon
    <3>2. Header(l) \in 1 .. 2
      BY DEF Header
    <3> QED BY <3>1, <3>2
  <2>5. l <= 255
    BY <1>12, <2>2, <2>4
  <2>6. l \in 0 .. 255
    BY <2>5
  <2> QED BY <2>3, <2>6, Zenon
<1>14. ASSUME NEW i \in 1 .. n
       PROVE  LET v == objects[i].value IN
              /\ parts[i] \in Seq(Bytes)
              /\ Len(parts[i]) = 1 + Header(Len(v)) + Len(v)
              /\ parts[i][1] = objects[i].tag
              /\ \A j \in 1 .. Header(Len(v)) : parts[i][1 + j] = LengthBytes(Len(v))[j]
              /\ \A j \in 1 .. Len(v) : parts[i][1 + Header(Len(v)) + j] = v[j]
  <2>1. PICK v, tag, e : /\ v = objects[i].value /\ tag = objects[i].tag /\ e = parts[i]
                         /\ e = Encoded(tag, v)
    OBVIOUS
  <2>2. tag \in Bytes /\ v \in Seq(Bytes) /\ Len(v) \in 0 .. 255
    BY <1>4, <1>13, <2>1
  <2>3. LengthBytes(Len(v)) \in Seq(Bytes)
    <3>0. \A l \in 0 .. 255 : l \in Nat /\ l < UINT8
      BY DEF UINT8
    <3>1. Len(v) \in Nat /\ Len(v) < UINT8
      BY <2>2, <3>0, Zenon
    <3> QED BY <3>1, LengthWritten, Zenon
  <2>4. /\ e \in Seq(Bytes) /\ Len(e) = 1 + Header(Len(v)) + Len(v) /\ e[1] = tag
        /\ \A j \in 1 .. Header(Len(v)) : e[1 + j] = LengthBytes(Len(v))[j]
        /\ \A j \in 1 .. Len(v) : e[1 + Header(Len(v)) + j] = v[j]
    <3>1. e = Encoded(tag, v)
      BY <2>1, Zenon
    <3>2. tag \in Bytes /\ v \in Seq(Bytes)
      BY <2>2
    <3>3. EncodedIn(Bytes, e, tag, v)
      BY <1>5, <2>3, <3>1, <3>2, EncodedParts
    <3> QED BY <3>3, Zenon DEF EncodedIn
  <2> QED BY <2>1, <2>4, Zenon
<1>15. parts \in Seq(Seq(Bytes)) /\ Len(parts) = n
  <2>1. parts \in [1 .. n -> Seq(Bytes)]
    BY <1>14
  <2> HIDE DEF parts
  <2> QED BY <2>1
<1>16. body \in Seq(Bytes) /\ \E at : Placed(body, parts, at, n)
  <2> HIDE DEF parts
  <2> QED BY <1>2, <1>15, Flattened
<1>17. PICK at : Placed(body, parts, at, n)
  BY <1>16
<1>18. d \in Seq(Bytes)
  <2>1. 98 \in Bytes /\ LengthBytes(Len(body)) \in Seq(Bytes)
    <3>1. 98 \in Bytes
      BY DEF Bytes, UINT8
    <3>2. Len(body) \in Nat /\ Len(body) < UINT8
      BY <1>9, <1>12 DEF UINT8
    <3> QED BY <3>1, <3>2, LengthWritten, Zenon
  <2>2. EncodedIn(Bytes, d, 98, body)
    BY <1>3, <1>5, <1>16, <2>1, EncodedParts
  <2> QED BY <2>2, Zenon DEF EncodedIn
<1> HIDE DEF parts
<1>19. Len(d) = 1 + h + m /\ Len(d) \in Nat \ {0}
  BY <1>11
<1>20. \A j \in 1 .. m : Byte(d, h + j) = body[j]
  <2>1. ASSUME NEW j \in 1 .. m PROVE Byte(d, h + j) = body[j]
    <3>1. h + j < Len(d) /\ (h + j) + 1 = 1 + h + j
      BY <1>19
    <3> QED BY <1>11, <3>1 DEF Byte
  <2> QED BY <2>1
<1>21. Byte(d, 0) = 98
  <2>1. 0 < Len(d) /\ 0 + 1 = 1
    BY <1>19
  <2> QED BY <1>11, <2>1 DEF Byte
<1>22. UsimDecodeDataLength(d, 1) = [lgth |-> m, size |-> h]
  <2>1. ASSUME NEW j \in 1 .. Header(m) PROVE Byte(d, 1 + j - 1) = LengthBytes(m)[j]
    <3>1. j < Len(d) /\ j + 1 = 1 + j /\ 1 + j - 1 = j
      BY <1>10, <1>19
    <3>2. Byte(d, j) = d[1 + j]
      BY <3>1 DEF Byte
    <3> QED BY <1>10, <1>11, <3>1, <3>2
  <2> QED BY <1>10, <1>12, <2>1, LengthRead
<1>23. /\ at \in [0 .. n -> Nat] /\ at[0] = 0 /\ at[n] = m
       /\ \A i \in 1 .. n : /\ at[i] = at[i - 1] + Len(parts[i])
                            /\ at[i] <= m
                            /\ \A j \in 1 .. Len(parts[i]) : body[at[i - 1] + j] = parts[i][j]
  BY <1>9, <1>17 DEF Placed
<1> DEFINE off == [i \in 0 .. n |-> 1 + h + at[i]]
<1>24. /\ off \in [0 .. n -> Nat] /\ off[0] = 1 + h /\ off[n] = Len(d)
       /\ off[0] \in {2, 3} /\ off[0] - 1 = h /\ Len(d) - off[0] = m
  BY <1>19, <1>23
<1>25. ASSUME NEW i \in 1 .. n
       PROVE  ObjectAt(d, off[i - 1], objects[i], off[i])
  <2>1. PICK a \in Nat, b \in Nat, l \in 0 .. 255, k \in 1 .. 2,
          v \in {objects[i].value} :
          /\ a = at[i - 1] /\ b = at[i] /\ v = objects[i].value /\ l = Len(v) /\ k = Header(l)
    <3>1. at[i - 1] \in Nat /\ at[i] \in Nat
      BY <1>23
    <3>2. Len(objects[i].value) \in 0 .. 255
      BY <1>13
    <3>3. Header(Len(objects[i].value)) \in 1 .. 2
      BY DEF Header
    <3> QED BY <3>1, <3>2, <3>3
  <2>2. off[i - 1] = 1 + h + a /\ off[i] = 1 + h + b
    <3>1. off[i - 1] = 1 + h + at[i - 1] /\ off[i] = 1 + h + at[i]
      <4>1. i - 1 \in 0 .. n /\ i \in 0 .. n
        OBVIOUS
      <4> QED BY <4>1, Zenon
    <3> QED BY <2>1, <3>1, Zenon
  <2> HIDE DEF off
  <2>3. /\ Len(parts[i]) = 1 + k + l
        /\ parts[i][1] = objects[i].tag
        /\ \A j \in 1 .. k : parts[i][1 + j] = LengthBytes(l)[j]
        /\ \A j \in 1 .. l : parts[i][1 + k + j] = v[j]
    BY <1>14, <2>1
  <2>4. b = a + 1 + k + l /\ b <= m /\ \A j \in 1 .. 1 + k + l : body[a + j] = parts[i][j]
    <3>1. /\ b = a + Len(parts[i]) /\ b <= m
          /\ \A j \in 1 .. Len(parts[i]) : body[a + j] = parts[i][j]
      BY <1>23, <2>1
    <3>2. b = a + (1 + k + l)
      BY <2>3, <3>1
    <3>3. \A j \in 1 .. 1 + k + l : body[a + j] = parts[i][j]
      BY <2>3, <3>1, Zenon
    <3>4. b = a + 1 + k + l
      BY <3>2
    <3> QED BY <3>1, <3>3, <3>4
  <2>5. ASSUME NEW j \in 1 .. 1 + k + l PROVE Byte(d, h + a + j) = parts[i][j]
    <3>1. a + j \in 1 .. m /\ h + (a + j) = h + a + j
      BY <2>4
    <3>2. Byte(d, h + (a + j)) = body[a + j]
      BY <1>20, <3>1
    <3> QED BY <2>4, <3>1, <3>2
  <2>6. Byte(d, 1 + h + a) = objects[i].tag
    <3>1. 1 \in 1 .. 1 + k + l /\ h + a + 1 = 1 + h + a
      OBVIOUS
    <3> QED BY <2>3, <2>5, <3>1
  <2>7. UsimDecodeDataLength(d, (1 + h + a) + 1) = [lgth |-> l, size |-> Header(l)]
    <3>1. ASSUME NEW j \in 1 .. Header(l)
          PROVE  Byte(d, ((1 + h + a) + 1) + j - 1) = LengthBytes(l)[j]
      <4>1. 1 + j \in 1 .. 1 + k + l /\ h + a + (1 + j) = ((1 + h + a) + 1) + j - 1 /\ j \in 1 .. k
        <5>1. j \in 1 .. k
          BY <2>1, Zenon
        <5> QED BY <5>1
      <4>2. Byte(d, h + a + (1 + j)) = parts[i][1 + j] /\ parts[i][1 + j] = LengthBytes(l)[j]
        BY <2>3, <2>5, <4>1
      <4> QED BY <4>1, <4>2
    <3>2. (1 + h + a) + 1 \in Nat
      OBVIOUS
    <3> QED BY <3>1, <3>2, LengthRead
  <2>8. ASSUME NEW j \in 1 .. l PROVE Byte(d, (1 + h + a) + Header(l) + j) = v[j]
    <3>1. 1 + k + j \in 1 .. 1 + k + l /\ h + a + (1 + k + j) = (1 + h + a) + k + j
      OBVIOUS
    <3>2. Byte(d, h + a + (1 + k + j)) = parts[i][1 + k + j] /\ parts[i][1 + k + j] = v[j]
      BY <2>3, <2>5, <3>1
    <3> QED BY <2>1, <3>1, <3>2
  <2>9. 1 + h + b = (1 + h + a) + 1 + Header(l) + l /\ 1 + h + b <= Len(d)
    <3>1. 1 + h + b = (1 + h + a) + 1 + k + l
      <4>1. b = a + 1 + k + l
        BY <2>4, Zenon
      <4> QED BY <4>1
    <3>2. 1 + h + b <= Len(d)
      BY <1>19, <2>4
    <3>3. k = Header(l)
      BY <2>1, Zenon
    <3> QED BY <3>1, <3>2, <3>3, Zenon
  <2> QED BY <2>1, <2>2, <2>6, <2>7, <2>8, <2>9 DEF ObjectAt
<1> HIDE DEF off
<1>26. TemplateAt(d, objects, off)
  BY <1>1, <1>21, <1>22, <1>24, <1>25 DEF TemplateAt
<1> QED BY <1>18, <1>19, <1>26

-----------------------------------------------------------------------------
(* Hexadecimal data                                                        *)

\* The characters of the modem's lines
Chars == Signs \cup {"\""} \cup {Digits[i] : i \in 1 .. 16}

\* A digit is one of a line's characters.
LEMMA DigitChar ==
  ASSUME NEW n \in 0 .. 15 PROVE Digits[n + 1] \in Chars
<1>1. n + 1 \in 1 .. 16
  OBVIOUS
<1> QED BY <1>1, Zenon DEF Chars

\* A hexadecimal digit is converted and converted back.
LEMMA HexCharBack ==
  ASSUME NEW n \in 0 .. 15
  PROVE  vgHexCharToInt(vgIntToHexChar(n)) = n /\ vgIntToHexChar(n) = Digits[n + 1]
<1>1. HexDigits = Digits
  BY DEF HexDigits, Digits
<1>2. PICK ch : ch = vgIntToHexChar(n) /\ ch = Digits[n + 1]
  BY <1>1 DEF vgIntToHexChar
<1>3. PICK k : k = CHOOSE i \in 1 .. 16 : Digits[i] = ch
  OBVIOUS
<1>4. n + 1 \in 1 .. 16
  OBVIOUS
<1>5. \E i \in 1 .. 16 : Digits[i] = ch
  BY <1>2, <1>4
<1>6. k \in 1 .. 16 /\ Digits[k] = ch
  BY <1>3, <1>5
<1>7. k = n + 1
  BY <1>2, <1>4, <1>6, DigitsDiffer
<1>8. vgHexCharToInt(ch) = k - 1
  BY <1>1, <1>3, <1>5, Zenon DEF vgHexCharToInt
<1>9. vgHexCharToInt(ch) = n
  BY <1>7, <1>8
<1> QED BY <1>2, <1>9, Zenon

\* A byte is its two digits.
LEMMA TwoDigits ==
  ASSUME NEW b \in 0 .. 255 PROVE 16 * (b \div 16) + (b % 16) = b
<1>1. PICK x, y : x = b \div 16 /\ y = b % 16 /\ x \in 0 .. 15 /\ y \in 0 .. 15 /\ b = 16 * x + y
  OBVIOUS
<1>2. 16 * x + y = b
  BY <1>1
<1> QED BY <1>1, <1>2, Zenon

\* The text of data: two digits a byte, no quotes or commas
HexOf(t, data) ==
    /\ t \in Seq(Chars) /\ Len(t) = 2 * Len(data)
    /\ NoQuote(t) /\ (Len(data) # 0 => PlainText(t))

\* What vgHexDataToString writes, vgStringToHexData reads back.
LEMMA HexBack ==
  ASSUME NEW data \in Seq(Bytes), NEW t, t = vgHexDataToString(data)
  PROVE  HexOf(t, data) /\ vgStringToHexData(t) = data
<1>0. PICK quote, comma : quote = "\"" /\ comma = ","
  OBVIOUS
<1>1. PICK n \in Nat : n = Len(data)
  OBVIOUS
<1>2. ASSUME NEW k \in 1 .. n PROVE data[k] \in 0 .. 255
  <2>1. data[k] \in Bytes
    BY <1>1, ElementOfSeq
  <2> QED BY <2>1 DEF Bytes, UINT8
<1> DEFINE x == [i \in 1 .. 2 * n |-> IF i % 2 = 1 THEN data[(i + 1) \div 2] \div 16
                                      ELSE data[(i + 1) \div 2] % 16]
<1>3. t = [i \in 1 .. 2 * n |-> vgIntToHexChar(x[i])]
  BY <1>1 DEF vgHexDataToString
<1>4. ASSUME NEW i \in 1 .. 2 * n PROVE x[i] \in 0 .. 15
  <2>1. (i + 1) \div 2 \in 1 .. n
    OBVIOUS
  <2>2. data[(i + 1) \div 2] \in 0 .. 255
    BY <1>2, <2>1
  <2>3. \A b \in 0 .. 255 : b \div 16 \in 0 .. 15 /\ b % 16 \in 0 .. 15
    OBVIOUS
  <2>4. CASE i % 2 = 1
    BY <2>2, <2>3, <2>4
  <2>5. CASE i % 2 # 1
    BY <2>2, <2>3, <2>5
  <2> QED BY <2>4, <2>5
<1>5. ASSUME NEW k \in 1 .. n
      PROVE  /\ 2 * k - 1 \in 1 .. 2 * n /\ 2 * k \in 1 .. 2 * n
             /\ x[2 * k - 1] = data[k] \div 16 /\ x[2 * k] = data[k] % 16
  <2>1. /\ 2 * k - 1 \in 1 .. 2 * n /\ 2 * k \in 1 .. 2 * n
        /\ (2 * k - 1) % 2 = 1 /\ (2 * k) % 2 # 1
        /\ ((2 * k - 1) + 1) \div 2 = k /\ (2 * k + 1) \div 2 = k
    OBVIOUS
  <2> QED BY <2>1
<1> HIDE DEF x
<1>6. ASSUME NEW i \in 1 .. 2 * n
      PROVE  /\ t[i] \in Chars /\ vgHexCharToInt(t[i]) = x[i]
             /\ t[i] \notin Spaces /\ t[i] # comma /\ t[i] # quote
  <2>1. PICK y \in 0 .. 15 : y = x[i]
    BY <1>4, Zenon
  <2>2. t[i] = vgIntToHexChar(y)
    BY <1>3, <2>1
  <2>3. vgHexCharToInt(vgIntToHexChar(y)) = y /\ vgIntToHexChar(y) = Digits[y + 1]
    BY HexCharBack
  <2>4. Digits[y + 1] \in Chars
    BY DigitChar
  <2>5. Digits[y + 1] \notin Spaces /\ Digits[y + 1] # comma /\ Digits[y + 1] # quote
    BY <1>0, DigitOf, Zenon
  <2> QED BY <2>1, <2>2, <2>3, <2>4, <2>5, Zenon
<1>7. t \in Seq(Chars) /\ Len(t) = 2 * n
  <2>1. t \in [1 .. 2 * n -> Chars]
    <3>1. t = [i \in 1 .. 2 * n |-> t[i]]
      BY <1>3
    <3> QED BY <1>6, <3>1
  <2>2. 2 * n \in Nat
    OBVIOUS
  <2> QED BY <2>1, <2>2
<1>8. HexOf(t, data)
  <2>1. NoQuote(t)
    BY <1>0, <1>6, <1>7, Zenon DEF NoQuote
  <2>2. ASSUME n # 0 PROVE PlainText(t)
    <3>1. 1 \in 1 .. 2 * n
      BY <2>2
    <3> QED BY <1>0, <1>6, <1>7, <3>1, Zenon DEF PlainText
  <2> QED BY <1>1, <1>7, <2>1, <2>2 DEF HexOf
<1>9. vgStringToHexData(t) = data
  <2>1. Len(t) \div 2 = n
    BY <1>7
  <2>2. PICK u : u = vgStringToHexData(t)
    OBVIOUS
  <2>3. u = [i \in 1 .. n |-> 16 * vgHexCharToInt(t[2 * i - 1]) + vgHexCharToInt(t[2 * i])]
    BY <2>1, <2>2 DEF vgStringToHexData
  <2>4. ASSUME NEW k \in 1 .. n PROVE u[k] = data[k]
    <3>1. u[k] = 16 * vgHexCharToInt(t[2 * k - 1]) + vgHexCharToInt(t[2 * k])
      BY <2>3
    <3>2. vgHexCharToInt(t[2 * k - 1]) = x[2 * k - 1] /\ vgHexCharToInt(t[2 * k]) = x[2 * k]
      BY <1>5, <1>6
    <3>3. x[2 * k - 1] = data[k] \div 16 /\ x[2 * k] = data[k] % 16
      BY <1>5
    <3>4. u[k] = 16 * (data[k] \div 16) + (data[k] % 16)
      BY <3>1, <3>2, <3>3, Zenon
    <3>5. data[k] \in 0 .. 255
      BY <1>2
    <3>6. 16 * (data[k] \div 16) + (data[k] % 16) = data[k]
      BY <3>5, TwoDigits, Zenon
    <3> QED BY <3>4, <3>6, Zenon
  <2>5. u \in Seq(Bytes) /\ Len(u) = n
    <3>1. \A k \in 1 .. n : u[k] \in Bytes
      BY <1>1, <2>4, ElementOfSeq
    <3>2. u \in [1 .. n -> Bytes]
      <4>1. u = [i \in 1 .. n |-> u[i]]
        BY <2>3
      <4> QED BY <3>1, <4>1
    <3> QED BY <3>2
  <2>6. u = data
    BY <1>1, <2>4, <2>5, SeqEqual
  <2> QED BY <2>2, <2>6
<1> QED BY <1>8, <1>9

-----------------------------------------------------------------------------
(* The three lines                                                         *)

\* The prefix is passed.
LEMMA StartRead ==
  ASSUME NEW C, NEW s, NEW F, NEW gap, NEW at, LineOf(C, s, F, gap, at), Len(F) # 0
  PROVE  at_tok_start(s, 1) = [ok |-> TRUE, cur |-> 3] /\ Len(s) >= 4
<1>0. PICK colon : colon = ":"
  OBVIOUS
<1>1. s \in Text /\ Len(s) \in Nat /\ End(s) = Len(s) + 1
  BY LineEnd DEF LineOf
<1>2. s[1] # colon /\ s[2] = colon
  BY <1>0, Zenon DEF LineOf, Prefixed
<1>3. Len(s) >= 4
  <2>1. Laid(s, F, gap, at) /\ F \in Seq(Seq(C)) /\ \A k \in 1 .. Len(F) : Len(F[k]) # 0
    BY Zenon DEF LineOf
  <2>2. 1 \in 1 .. Len(F)
    BY <2>1
  <2>3. F[1] \in Seq(C)
    BY <2>1, <2>2, ElementOfSeq
  <2>4. Len(F[1]) \in Nat \ {0}
    BY <2>1, <2>2, <2>3
  <2>5. at[1] = 4 /\ at[1] + Len(F[1]) <= End(s)
    BY <2>1, <2>2, Zenon DEF Laid
  <2> QED BY <1>1, <2>4, <2>5
<1>4. Find(s, 1, {colon}) = 2
  <2>1. 1 \in Nat \ {0} /\ 2 \in 1 .. Len(s)
    BY <1>1, <1>3
  <2>2. s[2] \in {colon} /\ \A i \in 1 .. 2 - 1 : s[i] \notin {colon}
    BY <1>2
  <2> QED BY <1>1, <2>1, <2>2, FoundAt
<1>5. 1 # NULL /\ 2 # End(s)
  BY <1>1, <1>3 DEF NULL
<1>6. at_tok_start(s, 1) = [ok |-> TRUE, cur |-> 2 + 1]
  BY <1>0, <1>4, <1>5, Zenon DEF at_tok_start
<1> QED BY <1>3, <1>6

\* Where the cursor is after field k: at the next one, or past the last.
After(s, fields, gap, at, k, past) == IF k = Len(fields) THEN past ELSE Ahead(gap, at, k + 1)

\* The cursor before a field is in the line.
LEMMA AheadIsAt ==
  ASSUME NEW C, NEW s, NEW F, NEW gap, NEW at, LineOf(C, s, F, gap, at),
         NEW k \in 1 .. Len(F), F[k][1] \notin Spaces
  PROVE  LET c == Ahead(gap, at, k) IN
         c \in Nat \ {0} /\ c # NULL /\ At(s, c) /\ c <= Len(s)
<1>1. PICK c, e : Stands(s, c, at[k], e) /\ c = Ahead(gap, at, k)
  BY FieldStands
<1>2. s \in Text
  BY Zenon DEF LineOf
<1>3. /\ c \in Nat \ {0} /\ at[k] \in Nat /\ e \in Nat /\ c <= at[k] /\ at[k] <= e /\ e <= Len(s)
      /\ c # NULL /\ Len(s) \in Nat /\ c <= End(s)
  BY <1>1, <1>2, StandsFacts
<1>4. c <= Len(s)
  BY <1>3
<1> QED BY <1>1, <1>3, <1>4 DEF At

\* The fields of a line are texts.
LEMMA FieldText ==
  ASSUME NEW C, NEW s, NEW F, NEW gap, NEW at, LineOf(C, s, F, gap, at), NEW k \in 1 .. Len(F)
  PROVE  F[k] \in Text
<1>1. /\ s \in Text /\ F \in Seq(Seq(C)) /\ at \in [1 .. Len(F) -> Nat]
      /\ \A i \in 1 .. Len(F) :
           /\ at[i] + Len(F[i]) <= End(s)
           /\ \A j \in 1 .. Len(F[i]) : s[at[i] + j - 1] = F[i][j]
  BY Zenon DEF LineOf, Laid
<1>2. PICK a, t : a = at[k] /\ t = F[k]
  OBVIOUS
<1>3. /\ a \in Nat /\ t \in Seq(C) /\ a + Len(t) <= End(s)
      /\ \A j \in 1 .. Len(t) : s[a + j - 1] = t[j]
  <2>1. at[k] \in Nat /\ F[k] \in Seq(C)
    BY <1>1, ElementOfSeq
  <2>2. /\ at[k] + Len(F[k]) <= End(s)
        /\ \A j \in 1 .. Len(F[k]) : s[at[k] + j - 1] = F[k][j]
    BY <1>1, Zenon
  <2> QED BY <1>2, <2>1, <2>2, Zenon
<1>4. Len(t) \in Nat /\ Len(s) \in Nat /\ End(s) = Len(s) + 1
  BY <1>1, <1>3, LineEnd
<1>5. 1 <= a
  <2>1. CASE k = 1
    <3>1. at[1] = 4
      BY Zenon DEF LineOf, Laid
    <3> QED BY <1>2, <2>1, <3>1
  <2>2. CASE k # 1
    <3>1. PICK i : i = k - 1
      OBVIOUS
    <3>2. i \in 1 .. Len(F) /\ i < Len(F) /\ i + 1 = k
      BY <1>1, <2>2, <3>1
    <3>3. at[i + 1] = at[i] + Len(F[i]) + 1 + Len(gap)
      BY <3>2, Zenon DEF LineOf, Laid
    <3>4. gap \in Seq(C)
      BY Zenon DEF LineOf
    <3>5. F[i] \in Seq(C) /\ at[i] \in Nat
      BY <1>1, <3>2, ElementOfSeq
    <3>6. Len(F[i]) \in Nat /\ Len(gap) \in Nat
      BY <3>4, <3>5
    <3> QED BY <1>2, <3>2, <3>3, <3>5, <3>6
  <2> QED BY <2>1, <2>2
<1>6. ASSUME NEW j \in 1 .. Len(t) PROVE t[j] \in STRING
  <2>1. a + j - 1 \in 1 .. Len(s)
    BY <1>3, <1>4, <1>5
  <2>2. s[a + j - 1] \in STRING
    BY <1>1, <2>1, ElementOfSeq DEF Text
  <2> QED BY <1>3, <2>2
<1>7. t \in Seq(STRING)
  <2>1. t \in [1 .. Len(t) -> C]
    BY <1>3
  <2>2. t \in [1 .. Len(t) -> STRING]
    BY <1>6, <2>1
  <2> QED BY <1>4, <2>2
<1> QED BY <1>2, <1>7 DEF Text

\* A field that is a number in decimal digits
IsDecimal(t, n) == n \in 0 .. 999 /\ t = Decimal(n)

\* A decimal field is read as its number, ...
LEMMA DecimalField ==
  ASSUME NEW C, NEW s, NEW F, NEW gap, NEW at, LineOf(C, s, F, gap, at),
         NEW k \in 1 .. Len(F), NEW n, IsDecimal(F[k], n)
  PROVE  at_tok_nextint(s, Ahead(gap, at, k)) =
           [ok |-> TRUE, value |-> n, cur |-> After(s, F, gap, at, k, NULL)]
<1>0. n \in 0 .. 999 /\ F[k] = Decimal(n) /\ PlainText(F[k])
  <2>1. F[k] \in Text
    BY FieldText
  <2>2. n \in 0 .. 999 /\ F[k] = Decimal(n)
    BY Zenon DEF IsDecimal
  <2>3. PlainText(F[k])
    BY <2>1, <2>2, DecimalRead, Zenon
  <2> QED BY <2>2, <2>3, Zenon
<1>1. PICK c : c = Ahead(gap, at, k)
  OBVIOUS
<1>2. F[k][1] \notin Spaces
  BY <1>0, Zenon DEF PlainText
<1>3. c \in Nat \ {0} /\ c # NULL /\ At(s, c) /\ s \in Text
  BY <1>1, <1>2, AheadIsAt, Zenon DEF LineOf
<1>4. PICK t : t = nextTok(s, c)
  OBVIOUS
<1>5. t = [tok |-> F[k], cur |-> After(s, F, gap, at, k, NULL)]
  <2>1. nextTok(s, Ahead(gap, at, k)) =
          [tok |-> F[k], cur |-> IF k = Len(F) THEN NULL ELSE Ahead(gap, at, k + 1)]
    <3>1. PlainText(F[k])
      BY <1>0, Zenon
    <3> QED BY <3>1, PlainField
  <2> QED BY <1>1, <1>4, <2>1, Zenon DEF After
<1>6. t.tok \in Text
  BY <1>3, <1>4, NextToken
<1>7. t.tok = F[k] /\ t.cur = After(s, F, gap, at, k, NULL)
  BY <1>5
<1>8. strtol(t.tok, 10) = [ok |-> TRUE, value |-> n]
  BY <1>0, <1>6, <1>7, DecimalRead
<1>9. at_tok_nextint_base(s, c, 10) =
        [ok |-> strtol(t.tok, 10).ok, value |-> strtol(t.tok, 10).value, cur |-> t.cur]
  BY <1>3, <1>4 DEF at_tok_nextint_base
<1>10. at_tok_nextint_base(s, c, 10) = [ok |-> TRUE, value |-> n, cur |-> t.cur]
  BY <1>8, <1>9
<1> QED BY <1>1, <1>7, <1>10 DEF at_tok_nextint

\* A field that is two bytes in quotes, as hexadecimal digits
IsHexNumber(t, b) == b \in Bytes \X Bytes /\ t = Quoted(vgHexDataToString(b))

\* ... a quoted one of two bytes as theirs.
LEMMA HexField ==
  ASSUME NEW s, NEW F, NEW gap, NEW at, LineOf(Chars, s, F, gap, at),
         NEW k \in 1 .. Len(F), NEW b, IsHexNumber(F[k], b)
  PROVE  at_tok_nexthexint(s, Ahead(gap, at, k)) =
           [ok |-> TRUE, value |-> Number(b), cur |-> After(s, F, gap, at, k, End(s))]
<1>0. PICK quote : quote = "\""
  OBVIOUS
<1>1. PICK c, x : c = Ahead(gap, at, k) /\ x = vgHexDataToString(b)
  OBVIOUS
<1>1a. b \in Bytes \X Bytes
  BY Zenon DEF IsHexNumber
<1>2. b \in Seq(Bytes)
  <2>1. b = <<b[1], b[2]>> /\ b[1] \in Bytes /\ b[2] \in Bytes
    BY <1>1a
  <2>2. <<b[1], b[2]>> \in Seq(Bytes)
    BY <2>1
  <2> QED BY <2>1, <2>2, Zenon
<1>3. HexOf(x, b)
  BY <1>1, <1>2, HexBack
<1>4. x \in Seq(Chars) /\ NoQuote(x)
  BY <1>3 DEF HexOf
<1>5. F[k] = Quoted(x)
  BY <1>1, Zenon DEF IsHexNumber
<1>6. F[k][1] \notin Spaces
  <2>1. F[k] = (<<quote>> \o x) \o <<quote>>
    BY <1>0, <1>5, Zenon DEF Quoted
  <2>2. quote \in Chars
    BY <1>0, Zenon DEF Chars
  <2>3. PICK q : q = <<quote>> /\ q \in Seq(Chars) /\ Len(q) = 1 /\ q[1] = quote
    <3>1. <<quote>> \in Seq(Chars) /\ Len(<<quote>>) = 1 /\ <<quote>>[1] = quote
      BY <2>2
    <3> QED BY <3>1, Zenon
  <2>4. PICK h : h = q \o x
    OBVIOUS
  <2>5. /\ h \in Seq(Chars) /\ Len(h) = 1 + Len(x)
        /\ \A i \in 1 .. 1 : h[i] = q[i]
    BY <1>4, <2>3, <2>4, Behind
  <2>6. F[k] = h \o q
    BY <2>1, <2>3, <2>4, Zenon
  <2>7. \A i \in 1 .. Len(h) : F[k][i] = h[i]
    BY <2>3, <2>5, <2>6, Behind
  <2>8. 1 \in 1 .. 1 /\ 1 \in 1 .. Len(h)
    BY <1>4, <2>5
  <2>9. F[k][1] = quote
    BY <2>3, <2>5, <2>7, <2>8, Zenon
  <2>10. quote \notin Spaces
    BY <1>0, Zenon DEF Spaces
  <2> QED BY <2>9, <2>10
<1>7. c \in Nat \ {0} /\ c # NULL /\ At(s, c) /\ s \in Text
  BY <1>1, <1>6, AheadIsAt, Zenon DEF LineOf
<1>8. PICK t : t = nextTok(s, c)
  OBVIOUS
<1>9. t = [tok |-> x, cur |-> After(s, F, gap, at, k, End(s))]
  <2>1. nextTok(s, Ahead(gap, at, k)) =
          [tok |-> x, cur |-> IF k = Len(F) THEN End(s) ELSE Ahead(gap, at, k + 1)]
    BY <1>4, <1>5, QuotedField
  <2> QED BY <1>1, <1>8, <2>1, Zenon DEF After
<1>10. t.tok \in Text
  BY <1>7, <1>8, NextToken
<1>11. t.tok = x /\ t.cur = After(s, F, gap, at, k, End(s))
  BY <1>9
<1>12. strtol(t.tok, 16) = [ok |-> TRUE, value |-> Number(b)]
  BY <1>1, <1>1a, <1>10, <1>11, HexRead
<1>13. at_tok_nextint_base(s, c, 16) =
         [ok |-> strtol(t.tok, 16).ok, value |-> strtol(t.tok, 16).value, cur |-> t.cur]
  BY <1>7, <1>8 DEF at_tok_nextint_base
<1>14. at_tok_nextint_base(s, c, 16) = [ok |-> TRUE, value |-> Number(b), cur |-> t.cur]
  BY <1>12, <1>13
<1> QED BY <1>1, <1>11, <1>14 DEF at_tok_nexthexint

-----------------------------------------------------------------------------
(* What the modem writes is such a line.                                   *)

\* A field that is not empty
Field(t) == t \in Seq(Chars) /\ Len(t) # 0
IsGap(gap) == gap \in Seq(Chars) /\ \A j \in 1 .. Len(gap) : gap[j] \in Spaces

\* A gap of one blank, or of none, is one; ...
LEMMA OneSpace ==
  ASSUME NEW space \in Spaces \cap Chars PROVE IsGap(<<space>>) /\ IsGap(<<>>)
<1>1. <<space>> \in Seq(Chars) /\ Len(<<space>>) = 1 /\ <<space>>[1] = space
  OBVIOUS
<1>2. \A j \in 1 .. Len(<<space>>) : <<space>>[j] = space
  OBVIOUS
<1>3. <<>> \in Seq(Chars) /\ \A j \in 1 .. Len(<<>>) : <<>>[j] \in Spaces
  OBVIOUS
<1> QED BY <1>1, <1>2, <1>3 DEF IsGap

\* ... these are the two that modems write.
LEMMA GapIs ==
  ASSUME NEW gap \in {<<>>, <<" ">>} PROVE IsGap(gap)
<1>1. PICK space : space = " "
  OBVIOUS
<1>2. space \in Spaces \cap Chars
  BY <1>1, Zenon DEF Chars, Signs, Spaces
<1>3. IsGap(<<space>>) /\ IsGap(<<>>)
  BY <1>2, OneSpace, Zenon
<1> QED BY <1>1, <1>3, Zenon

\* Fields that are joined are a line with these fields.
LEMMA LineIs ==
  ASSUME NEW F \in Seq(Seq(Chars)), Len(F) # 0, \A k \in 1 .. Len(F) : Field(F[k]),
         NEW gap, IsGap(gap), NEW s \in Text, s = Joined(F, gap)
  PROVE  \E at : LineOf(Chars, s, F, gap, at)
<1>1. Signs \subseteq Chars
  BY Zenon DEF Chars
<1>2. gap \in Seq(Chars) /\ \A j \in 1 .. Len(gap) : gap[j] \in Spaces
  BY Zenon DEF IsGap
<1>3. s \in Seq(Chars) /\ Prefixed(s) /\ \E at : Laid(s, F, gap, at)
  BY <1>1, <1>2, JoinedLaid
<1>4. \A k \in 1 .. Len(F) : Len(F[k]) # 0
  BY Zenon DEF Field
<1> QED BY <1>2, <1>3, <1>4, Zenon DEF LineOf

-----------------------------------------------------------------------------
(* The fields of each line                                                 *)

\* The parts of a registration's line
LEMMA IfPart ==
  ASSUME NEW S, NEW t \in Seq(S), NEW c \in BOOLEAN
  PROVE  \E a : /\ a = IF c THEN t ELSE <<>>
                /\ a \in Seq(S) /\ Len(a) = (IF c THEN Len(t) ELSE 0) /\ (c => a = t)
<1>1. CASE c
  BY <1>1, Zenon
<1>2. CASE ~c
  <2>1. <<>> \in Seq(S) /\ Len(<<>>) = 0
    OBVIOUS
  <2>2. (IF c THEN t ELSE <<>>) = <<>> /\ (IF c THEN Len(t) ELSE 0) = 0
    BY <1>2
  <2> QED BY <1>2, <2>1, <2>2, Zenon
<1> QED BY <1>1, <1>2

\* The four parts of a registration's line, three of which may be missing
HasParts(F, n, cell, act, x, s, l, c, y) ==
    F = (IF n THEN <<x>> ELSE <<>>) \o <<s>>
          \o (IF cell THEN <<l, c>> ELSE <<>>) \o (IF act THEN <<y>> ELSE <<>>)

\* Which field is which
LEMMA FourParts ==
  ASSUME NEW n \in BOOLEAN, NEW cell \in BOOLEAN, NEW act \in BOOLEAN,
         NEW x, NEW s, NEW l, NEW c, NEW y,
         NEW F, HasParts(F, n, cell, act, x, s, l, c, y)
  PROVE  LET p == IF n THEN 1 ELSE 0 IN
         /\ F \in Seq({x, s, l, c, y})
         /\ Len(F) = 1 + p + (IF cell THEN 2 ELSE 0) + (IF act THEN 1 ELSE 0)
         /\ F[p + 1] = s /\ (n => F[1] = x)
         /\ cell => F[p + 2] = l /\ F[p + 3] = c
<1> DEFINE S == {x, s, l, c, y}
<1>0. /\ <<x>> \in Seq(S) /\ Len(<<x>>) = 1 /\ <<x>>[1] = x
      /\ <<s>> \in Seq(S) /\ Len(<<s>>) = 1 /\ <<s>>[1] = s
      /\ <<l, c>> \in Seq(S) /\ Len(<<l, c>>) = 2 /\ <<l, c>>[1] = l /\ <<l, c>>[2] = c
      /\ <<y>> \in Seq(S) /\ Len(<<y>>) = 1
  OBVIOUS
<1> HIDE DEF S
<1>1a. PICK a : /\ a = IF n THEN <<x>> ELSE <<>>
                /\ a \in Seq(S) /\ Len(a) = (IF n THEN Len(<<x>>) ELSE 0) /\ (n => a = <<x>>)
  BY <1>0, IfPart, Zenon
<1>1. a \in Seq(S) /\ Len(a) = (IF n THEN 1 ELSE 0) /\ (n => a[1] = x)
  BY <1>0, <1>1a, Zenon
<1>2. PICK b : b = <<s>> /\ b \in Seq(S) /\ Len(b) = 1 /\ b[1] = s
  BY <1>0, Zenon
<1>3a. PICK d : /\ d = IF cell THEN <<l, c>> ELSE <<>>
                /\ d \in Seq(S) /\ Len(d) = (IF cell THEN Len(<<l, c>>) ELSE 0)
                /\ (cell => d = <<l, c>>)
  BY <1>0, IfPart, Zenon
<1>3. d \in Seq(S) /\ Len(d) = (IF cell THEN 2 ELSE 0) /\ (cell => d[1] = l /\ d[2] = c)
  BY <1>0, <1>3a, Zenon
<1>4a. PICK e : /\ e = IF act THEN <<y>> ELSE <<>>
                /\ e \in Seq(S) /\ Len(e) = (IF act THEN Len(<<y>>) ELSE 0) /\ (act => e = <<y>>)
  BY <1>0, IfPart, Zenon
<1>4. e \in Seq(S) /\ Len(e) = (IF act THEN 1 ELSE 0)
  BY <1>0, <1>4a, Zenon
<1>5. PICK u : u = a \o b
  OBVIOUS
<1>6. /\ u \in Seq(S) /\ Len(u) = Len(a) + Len(b)
      /\ \A i \in 1 .. Len(a) : u[i] = a[i]
      /\ \A i \in 1 .. Len(b) : u[Len(a) + i] = b[i]
  BY <1>1, <1>2, <1>5, Behind
<1>7. PICK v : v = u \o d
  OBVIOUS
<1>8. /\ v \in Seq(S) /\ Len(v) = Len(u) + Len(d)
      /\ \A i \in 1 .. Len(u) : v[i] = u[i]
      /\ \A i \in 1 .. Len(d) : v[Len(u) + i] = d[i]
  <2>1. d \in Seq(S) /\ u \in Seq(S)
    BY <1>3, <1>6, Zenon
  <2> QED BY <1>7, <2>1, Behind
<1>9. PICK w : w = v \o e
  OBVIOUS
<1>10. w \in Seq(S) /\ Len(w) = Len(v) + Len(e) /\ \A i \in 1 .. Len(v) : w[i] = v[i]
  <2>1. e \in Seq(S) /\ v \in Seq(S)
    BY <1>4, <1>8, Zenon
  <2> QED BY <1>9, <2>1, Behind
<1>11. PICK p \in {0, 1} : p = (IF n THEN 1 ELSE 0) /\ p = Len(a)
  <2>1. CASE n
    BY <1>1, <2>1
  <2>2. CASE ~n
    BY <1>1, <2>2
  <2> QED BY <2>1, <2>2
<1>12. Len(u) = p + 1 /\ u[p + 1] = s /\ (n => u[1] = x)
  BY <1>1, <1>2, <1>6, <1>11
<1>13. Len(v) = p + 1 + (IF cell THEN 2 ELSE 0)
  BY <1>3, <1>8, <1>12
<1>14. v[p + 1] = s /\ (n => v[1] = x) /\ (cell => v[p + 2] = l /\ v[p + 3] = c)
  <2>1. v[p + 1] = s /\ (n => v[1] = x)
    BY <1>8, <1>12
  <2>2. ASSUME cell PROVE v[p + 2] = l /\ v[p + 3] = c
    <3>1. Len(d) = 2 /\ d[1] = l /\ d[2] = c
      BY <1>3, <2>2
    <3>2. 1 \in 1 .. Len(d) /\ 2 \in 1 .. Len(d)
      BY <3>1
    <3>3. v[Len(u) + 1] = d[1] /\ v[Len(u) + 2] = d[2]
      BY <1>8, <3>2
    <3>4. Len(u) + 1 = p + 2 /\ Len(u) + 2 = p + 3
      BY <1>12
    <3> QED BY <3>1, <3>3, <3>4
  <2> QED BY <2>1, <2>2
<1>15. w[p + 1] = s /\ (n => w[1] = x) /\ (cell => w[p + 2] = l /\ w[p + 3] = c)
  BY <1>10, <1>13, <1>14
<1>16. Len(w) = 1 + p + (IF cell THEN 2 ELSE 0) + (IF act THEN 1 ELSE 0)
  BY <1>4, <1>10, <1>13
<1>17. w \in Seq({x, s, l, c, y})
  BY <1>10 DEF S
<1>18. F = w
  BY <1>1a, <1>2, <1>3a, <1>4a, <1>5, <1>7, <1>9, Zenon DEF HasParts
<1> QED BY <1>11, <1>15, <1>16, <1>17, <1>18, Zenon

\* Numbers and quoted texts are fields, with no blank in front and no comma.
NoComma(t) == \A j \in 1 .. Len(t) : t[j] # ","
Written(t) == Field(t) /\ t[1] \notin Spaces /\ NoComma(t)

\* A number is a field, ...
LEMMA DecimalWritten ==
  ASSUME NEW n \in 0 .. 999 PROVE Field(Decimal(n))
<1>1. ASSUME NEW i \in 0 .. 9 PROVE Digit(i) \in Chars
  BY DigitChar DEF Digit
<1>2. /\ n < 10 => n \in 0 .. 9
      /\ n < 100 => n \div 10 \in 0 .. 9
      /\ n % 10 \in 0 .. 9 /\ n \div 100 \in 0 .. 9 /\ (n \div 10) % 10 \in 0 .. 9
  OBVIOUS
<1>3. CASE n < 10
  <2>1. <<Digit(n)>> \in Seq(Chars) /\ Len(<<Digit(n)>>) = 1
    BY <1>1, <1>2, <1>3
  <2>2. Decimal(n) = <<Digit(n)>>
    BY <1>3 DEF Decimal
  <2> QED BY <2>1, <2>2 DEF Field
<1>4. CASE ~(n < 10) /\ n < 100
  <2>1. PICK a, b : a = Digit(n \div 10) /\ b = Digit(n % 10) /\ a \in Chars /\ b \in Chars
    BY <1>1, <1>2, <1>4
  <2>2. <<a, b>> \in Seq(Chars) /\ Len(<<a, b>>) = 2
    BY <2>1
  <2>3. Decimal(n) = <<a, b>>
    BY <1>4, <2>1 DEF Decimal
  <2> QED BY <2>2, <2>3 DEF Field
<1>5. CASE ~(n < 10) /\ ~(n < 100)
  <2>1. PICK a, b, c : /\ a = Digit(n \div 100) /\ b = Digit((n \div 10) % 10)
                       /\ c = Digit(n % 10) /\ a \in Chars /\ b \in Chars /\ c \in Chars
    BY <1>1, <1>2
  <2>2. <<a, b, c>> \in Seq(Chars) /\ Len(<<a, b, c>>) = 3
    BY <2>1
  <2>3. Decimal(n) = <<a, b, c>>
    BY <1>5, <2>1 DEF Decimal
  <2> QED BY <2>2, <2>3 DEF Field
<1> QED BY <1>3, <1>4, <1>5

\* ... and so is a text in quotes.
LEMMA QuotedWritten ==
  ASSUME NEW t \in Seq(Chars), NoComma(t)
  PROVE  Written(Quoted(t))
<1>0. PICK quote, comma : quote = "\"" /\ comma = ","
  OBVIOUS
<1>1. quote \in Chars /\ quote \notin Spaces /\ quote # comma
  BY <1>0, Zenon DEF Chars, Spaces
<1>2. PICK q : q = <<quote>> /\ q \in Seq(Chars) /\ Len(q) = 1 /\ q[1] = quote
  <2>1. <<quote>> \in Seq(Chars) /\ Len(<<quote>>) = 1 /\ <<quote>>[1] = quote
    BY <1>1
  <2> QED BY <2>1, Zenon
<1>3. PICK h : h = q \o t
  OBVIOUS
<1>4. /\ h \in Seq(Chars) /\ Len(h) = 1 + Len(t)
      /\ \A i \in 1 .. 1 : h[i] = q[i]
      /\ \A i \in 1 .. Len(t) : h[1 + i] = t[i]
  BY <1>2, <1>3, Behind
<1>5. PICK f : f = h \o q
  OBVIOUS
<1>6. /\ f \in Seq(Chars) /\ Len(f) = Len(h) + 1
      /\ \A i \in 1 .. Len(h) : f[i] = h[i]
      /\ \A i \in 1 .. 1 : f[Len(h) + i] = q[i]
  BY <1>2, <1>4, <1>5, Behind
<1>7. f = Quoted(t)
  BY <1>0, <1>2, <1>3, <1>5, Zenon DEF Quoted
<1>8. \A j \in 1 .. Len(t) : t[j] # comma
  BY <1>0, Zenon DEF NoComma
<1>9. Len(t) \in Nat
  OBVIOUS
<1>10. f[1] = quote /\ Len(f) # 0
  BY <1>2, <1>4, <1>6, <1>9
<1>11. ASSUME NEW j \in 1 .. Len(f) PROVE f[j] # comma
  <2>1. CASE j = 1
    BY <1>1, <1>10, <2>1
  <2>2. CASE j = Len(h) + 1
    BY <1>1, <1>2, <1>6, <2>2
  <2>3. CASE j # 1 /\ j # Len(h) + 1
    <3>1. PICK i : i = j - 1
      OBVIOUS
    <3>2. i \in 1 .. Len(t) /\ j = 1 + i /\ j \in 1 .. Len(h)
      BY <1>4, <1>6, <1>9, <2>3, <3>1
    <3>3. f[j] = t[i]
      BY <1>4, <1>6, <3>2
    <3> QED BY <1>8, <3>2, <3>3
  <2> QED BY <2>1, <2>2, <2>3
<1>12. f[1] \notin Spaces
  BY <1>1, <1>10
<1> QED BY <1>0, <1>6, <1>7, <1>10, <1>11, <1>12, Zenon DEF Written, Field, NoComma

-----------------------------------------------------------------------------
(* What is read from each line                                             *)

\* The gap of a reply is one.
LEMMA GapOf ==
  ASSUME NEW r \in SimReplies PROVE IsGap(r.gap)
<1>1. IsSimReply(r)
  BY RepliesAssumption, Zenon
<1>2. r.gap \in {<<>>, <<" ">>}
  BY <1>1, Zenon DEF IsSimReply
<1> QED BY <1>2, GapIs, Zenon

\* Every line is a text.
LEMMA LineText ==
  ASSUME NEW r \in SimReplies \cup RegReplies \cup RadReplies PROVE Line(r) \in Text
BY LinesAssumption, Zenon DEF Text

\* No gap is one, too.
LEMMA NoGap == IsGap(<<>>) /\ Len(<<>>) = 0
<1>1. <<>> \in {<<>>, <<" ">>}
  BY Zenon
<1>2. Len(<<>>) = 0
  OBVIOUS
<1> QED BY <1>1, <1>2, GapIs, Zenon

\* The radio's state
LEMMA RadRead ==
  ASSUME NEW r \in RadReplies, NEW start, start = at_tok_start(Line(r), 1),
         NEW b, b = at_tok_nextbool(Line(r), start.cur)
  PROVE  (IF b.ok THEN b.value ELSE -1) = (IF r.fun < 2 THEN r.fun ELSE -1)
<1>1. PICK n : n = r.fun /\ n \in 0 .. 999
  <2>1. r.fun \in 0 .. 999
    BY RepliesAssumption DEF IsRadReply
  <2> QED BY <2>1
<1>2. PICK s : s = Line(r) /\ s \in Text
  BY LineText
<1>3. PICK f : f = Decimal(n) /\ Field(f)
  BY <1>1, DecimalWritten
<1>4a. PICK F : F = <<f>> /\ F \in Seq(Seq(Chars)) /\ Len(F) = 1 /\ F[1] = f
  <2>1. <<f>> \in Seq(Seq(Chars)) /\ Len(<<f>>) = 1 /\ <<f>>[1] = f
    BY <1>3 DEF Field
  <2> QED BY <2>1, Zenon
<1>4. F \in Seq(Seq(Chars)) /\ Len(F) = 1 /\ F[1] = f
  BY <1>4a
<1>0. PICK gap : gap = <<>> /\ IsGap(gap) /\ Len(gap) = 0
  BY NoGap
<1>5. s = Joined(F, gap)
  <2>1. r.kind = "CFUN"
    BY RepliesAssumption DEF IsRadReply
  <2>2. Line(r) = Joined(<<Decimal(r.fun)>>, <<>>)
    BY <2>1 DEF Line
  <2> QED BY <1>1, <1>2, <1>3, <1>4a, <1>0, <2>2, Zenon
<1>6. \A k \in 1 .. Len(F) : Field(F[k])
  BY <1>3, <1>4
<1>7. PICK at : LineOf(Chars, s, F, gap, at)
  BY <1>2, <1>4, <1>5, <1>6, <1>0, LineIs
<1>8. start = [ok |-> TRUE, cur |-> 3]
  <2>0. Len(F) # 0
    BY <1>4
  <2>1. at_tok_start(s, 1) = [ok |-> TRUE, cur |-> 3]
    BY <1>7, <2>0, StartRead, Zenon
  <2> QED BY <1>2, <2>1, Zenon
<1>9. PICK m : m = at_tok_nextint(s, 3)
  OBVIOUS
<1>10. \E past : m = [ok |-> TRUE, value |-> n, cur |-> past]
  <2>1. PICK k : k = 1
    OBVIOUS
  <2>2. k \in 1 .. Len(F)
    BY <1>4, <2>1
  <2>3. IsDecimal(F[k], n)
    BY <1>1, <1>3, <1>4, <2>1, Zenon DEF IsDecimal
  <2>7. at_tok_nextint(s, Ahead(gap, at, k)) =
          [ok |-> TRUE, value |-> n, cur |-> After(s, F, gap, at, k, NULL)]
    BY <1>7, <2>2, <2>3, DecimalField
  <2>8. Ahead(gap, at, k) = 3
    BY <2>1 DEF Ahead
  <2> QED BY <1>9, <2>7, <2>8, Zenon
<1>11. b = [m EXCEPT !.ok = m.ok /\ m.value \in {0, 1}]
  BY <1>2, <1>8, <1>9 DEF at_tok_nextbool

<1>12. b.ok = (n \in {0, 1}) /\ b.value = n
  BY <1>10, <1>11
<1>13. n \in {0, 1} <=> r.fun < 2
  BY <1>1
<1>14. (IF n \in {0, 1} THEN n ELSE -1) = (IF r.fun < 2 THEN r.fun ELSE -1)
  BY <1>1, <1>13, Zenon
<1> QED BY <1>12, <1>14, Zenon

-----------------------------------------------------------------------------
(* The line of a SIM file access                                           *)

\* Its data
LEMMA SimData ==
  ASSUME NEW r \in SimReplies
  PROVE  /\ Template(r.objects) \in Seq(Bytes) /\ Len(Template(r.objects)) \in 1 .. UINT8 - 1
         /\ \E at : TemplateAt(Template(r.objects), r.objects, at)
         /\ HexOf(Hex(r), Template(r.objects)) /\ PlainText(Hex(r)) /\ Len(Hex(r)) # 0
         /\ vgStringToHexData(Hex(r)) = Template(r.objects)
<1>1. IsSimReply(r)
  BY RepliesAssumption, Zenon
<1>2. r.objects \in Seq(Objects) /\ Len(Template(r.objects)) < UINT8
  BY <1>1, Zenon DEF IsSimReply, IsFile, Objects
<1>3. PICK d : d = Template(r.objects)
  OBVIOUS
<1>4. d \in Seq(Bytes) /\ Len(d) \in Nat \ {0} /\ \E at : TemplateAt(d, r.objects, at)
  BY <1>2, <1>3, TemplateLaid
<1>5. Len(d) \in 1 .. UINT8 - 1
  <2>1. Len(d) < UINT8
    BY <1>2, <1>3, Zenon
  <2>2. d \in Seq(Bytes) /\ Len(d) \in Nat \ {0}
    BY <1>4, Zenon
  <2>3. PICK m : m = Len(d)
    OBVIOUS
  <2>4. m < UINT8 /\ m \in Nat \ {0}
    BY <2>1, <2>2, <2>3, Zenon
  <2>5. m \in 1 .. UINT8 - 1
    BY <2>4 DEF UINT8
  <2> QED BY <2>3, <2>5, Zenon
<1>6. PICK h : h = vgHexDataToString(d)
  OBVIOUS
<1>7. HexOf(h, d) /\ vgStringToHexData(h) = d
  BY <1>4, <1>6, HexBack
<1>8. PlainText(h) /\ Len(h) # 0
  BY <1>4, <1>7 DEF HexOf
<1>9. h = Hex(r)
  BY <1>3, <1>6, Zenon DEF Hex
<1> QED BY <1>3, <1>4, <1>5, <1>7, <1>8, <1>9, Zenon

\* Two fields and those of t
Begins(F, a, b, t) == F = <<a, b>> \o t

\* ... which are at their places in F
Ordered(S, F, a, b, t) ==
    /\ F \in Seq(S) /\ Len(F) = 2 + Len(t) /\ F[1] = a /\ F[2] = b
    /\ Len(t) = 1 => F[3] = t[1]
    /\ \A k \in 1 .. Len(F) : F[k] \in {a, b} \/ (Len(t) = 1 /\ F[k] = t[1])

\* Two fields and perhaps a third
LEMMA HasPart ==
  ASSUME NEW S, NEW a \in S, NEW b \in S, NEW t \in Seq(S), Len(t) \in {0, 1},
         NEW F, Begins(F, a, b, t)
  PROVE  Ordered(S, F, a, b, t)
<1>1. PICK u : u = <<a, b>> /\ u \in Seq(S) /\ Len(u) = 2 /\ u[1] = a /\ u[2] = b
  <2>1. <<a, b>> \in Seq(S) /\ Len(<<a, b>>) = 2 /\ <<a, b>>[1] = a /\ <<a, b>>[2] = b
    OBVIOUS
  <2> QED BY <2>1, Zenon
<1>2. PICK v : v = u \o t
  OBVIOUS
<1>3. /\ v \in Seq(S) /\ Len(v) = 2 + Len(t)
      /\ \A i \in 1 .. 2 : v[i] = u[i]
      /\ \A i \in 1 .. Len(t) : v[2 + i] = t[i]
  <2>1. u \in Seq(S) /\ Len(u) = 2
    BY <1>1
  <2>2. /\ v \in Seq(S) /\ Len(v) = Len(u) + Len(t)
        /\ \A i \in 1 .. Len(u) : v[i] = u[i]
        /\ \A i \in 1 .. Len(t) : v[Len(u) + i] = t[i]
    <3>1. u \in Seq(S)
      BY <1>1, Zenon
    <3> QED BY <1>2, <3>1, Behind
  <2> QED BY <2>1, <2>2, Zenon
<1>4. v[1] = a /\ v[2] = b /\ (Len(t) = 1 => v[3] = t[1])
  BY <1>1, <1>3
<1>5. \A k \in 1 .. Len(v) : v[k] \in {a, b} \/ (Len(t) = 1 /\ v[k] = t[1])
  BY <1>3, <1>4
<1>6. F = v
  BY <1>1, <1>2, Zenon DEF Begins
<1> QED BY <1>3, <1>4, <1>5, <1>6, Zenon DEF Ordered

\* A SIM file access, laid out as its fields
SimLaid(r, s, F, at) ==
    /\ LineOf(Chars, s, F, r.gap, at)
    /\ Len(F) = IF r.data = "none" THEN 2 ELSE 3
    /\ IsDecimal(F[1], r.sw[1]) /\ IsDecimal(F[2], r.sw[2])
    /\ r.data = "plain" => F[3] = Hex(r)
    /\ r.data = "quoted" => F[3] = Quoted(Hex(r))

\* Its line is.
LEMMA SimLineIs ==
  ASSUME NEW r \in SimReplies PROVE \E F, at : SimLaid(r, Line(r), F, at)
<1>1. r.kind = "CRSM" /\ r.sw \in Bytes \X Bytes /\ r.data \in {"none", "plain", "quoted"}
  <2>1. IsSimReply(r)
    BY RepliesAssumption, Zenon
  <2> QED BY <2>1, Zenon DEF IsSimReply
<1>1a. r.sw[1] \in 0 .. 999 /\ r.sw[2] \in 0 .. 999
  <2>1. r.sw[1] \in Bytes /\ r.sw[2] \in Bytes
    BY <1>1
  <2> QED BY <2>1 DEF Bytes, UINT8
<1>1b. PICK m : m = r.sw[1]
  OBVIOUS
<1>1c. PICK n : n = r.sw[2]
  OBVIOUS
<1>2. m = r.sw[1] /\ n = r.sw[2] /\ m \in 0 .. 999 /\ n \in 0 .. 999
  BY <1>1a, <1>1b, <1>1c
<1>3. PICK a, b : a = Decimal(m) /\ b = Decimal(n) /\ Field(a) /\ Field(b)
  <2>1. Field(Decimal(m)) /\ Field(Decimal(n))
    <3>1. m \in 0 .. 999 /\ n \in 0 .. 999
      BY <1>2, Zenon
    <3> QED BY <3>1, DecimalWritten, Zenon
  <2> QED BY <2>1, Zenon
<1>4. PICK h : h = Hex(r) /\ Field(h) /\ Field(Quoted(h))
  <2>1. HexOf(Hex(r), Template(r.objects)) /\ PlainText(Hex(r)) /\ Len(Hex(r)) # 0
    BY SimData
  <2>2. Hex(r) \in Seq(Chars) /\ NoComma(Hex(r))
    BY <2>1, Zenon DEF HexOf, PlainText, NoComma
  <2>3. Written(Quoted(Hex(r)))
    BY <2>2, QuotedWritten
  <2>4. Field(Quoted(Hex(r)))
    BY <2>3 DEF Written
  <2>5. Field(Hex(r))
    BY <2>1, <2>2 DEF Field
  <2> QED BY <2>4, <2>5, Zenon
<1>5. PICK x : x = IF r.data = "quoted" THEN Quoted(h) ELSE h
  OBVIOUS
<1>6. Field(x)
  BY <1>4, <1>5
<1>7. a \in Seq(Chars) /\ b \in Seq(Chars) /\ x \in Seq(Chars)
  BY <1>3, <1>6 DEF Field
<1>8. PICK t : t = IF r.data = "none" THEN <<>> ELSE <<x>>
  OBVIOUS
<1>9. t \in Seq(Seq(Chars)) /\ Len(t) = (IF r.data = "none" THEN 0 ELSE 1)
      /\ (r.data # "none" => t[1] = x)
  <2>1. /\ <<x>> \in Seq(Seq(Chars)) /\ Len(<<x>>) = 1 /\ <<x>>[1] = x
        /\ <<>> \in Seq(Seq(Chars)) /\ Len(<<>>) = 0
    BY <1>7
  <2>2. CASE r.data = "none"
    <3>1. t = <<>> /\ (IF r.data = "none" THEN 0 ELSE 1) = 0
      BY <1>8, <2>2
    <3> QED BY <2>1, <2>2, <3>1, Zenon
  <2>3. CASE r.data # "none"
    <3>1. t = <<x>> /\ (IF r.data = "none" THEN 0 ELSE 1) = 1
      BY <1>8, <2>3
    <3> QED BY <2>1, <2>3, <3>1, Zenon
  <2> QED BY <2>2, <2>3
<1>10. PICK F : F = <<a, b>> \o t
  OBVIOUS
<1>11. Len(t) \in {0, 1} /\ t \in Seq(Seq(Chars))
  BY <1>9
<1>12. /\ F \in Seq(Seq(Chars)) /\ Len(F) = 2 + Len(t) /\ F[1] = a /\ F[2] = b
       /\ Len(t) = 1 => F[3] = t[1]
       /\ \A k \in 1 .. Len(F) : F[k] \in {a, b} \/ (Len(t) = 1 /\ F[k] = t[1])
  <2>1. Begins(F, a, b, t)
    BY <1>10, Zenon DEF Begins
  <2>2. t \in Seq(Seq(Chars)) /\ Len(t) \in {0, 1}
    BY <1>11, Zenon
  <2>3. Ordered(Seq(Chars), F, a, b, t)
    BY <1>7, <2>1, <2>2, HasPart, Zenon
  <2> QED BY <2>3, Zenon DEF Ordered
<1>13. PICK s, gap : s = Line(r) /\ gap = r.gap /\ s \in Text /\ IsGap(gap)
  BY LineText, GapOf
<1>14. s = Joined(F, gap)
  <2>1. Line(r) = SimLine(r)
    BY <1>1 DEF Line
  <2>2. SimLine(r) = Joined(<<a, b>> \o t, gap)
    BY <1>2, <1>3, <1>4, <1>5, <1>8, <1>13, Zenon DEF SimLine
  <2> QED BY <1>10, <1>13, <2>1, <2>2, Zenon
<1>15. Len(t) = 1 => t[1] = x
  BY <1>9
<1>16. \A k \in 1 .. Len(F) : Field(F[k])
  BY <1>3, <1>6, <1>12, <1>15
<1>17. F \in Seq(Seq(Chars)) /\ Len(F) # 0 /\ s \in Text /\ IsGap(gap)
  BY <1>11, <1>12, <1>13
<1>18. PICK at : LineOf(Chars, s, F, gap, at)
  BY <1>14, <1>16, <1>17, LineIs, Zenon
<1>19. Len(F) = IF r.data = "none" THEN 2 ELSE 3
  BY <1>9, <1>12
<1>20. IsDecimal(F[1], r.sw[1]) /\ IsDecimal(F[2], r.sw[2])
  <2>1. IsDecimal(Decimal(m), m) /\ IsDecimal(Decimal(n), n)
    BY <1>2, Zenon DEF IsDecimal
  <2>2. F[1] = Decimal(m) /\ F[2] = Decimal(n)
    BY <1>3, <1>12, Zenon
  <2>3. m = r.sw[1] /\ n = r.sw[2]
    BY <1>2, Zenon
  <2> QED BY <2>1, <2>2, <2>3
<1>21. r.data # "none" => F[3] = x
  BY <1>9, <1>12
<1>22. /\ r.data = "plain" => F[3] = Hex(r)
       /\ r.data = "quoted" => F[3] = Quoted(Hex(r))
  BY <1>4, <1>5, <1>21
<1>23. SimLaid(r, s, F, at)
  BY <1>13, <1>18, <1>19, <1>20, <1>22, Zenon DEF SimLaid
<1> QED BY <1>13, <1>23, Zenon

\* The status words are read, and the data, when there are any.
SimReads(r, s, n1, n2) ==
    /\ n1.ok /\ n2.ok /\ <<n1.value, n2.value>> = r.sw
    /\ r.data = "none" => n2.cur = NULL
    /\ r.data # "none" => at_tok_hasmore(s, n2.cur) /\ at_tok_nextstr(s, n2.cur).tok = Hex(r)

\* Two places or three have a second one.
LEMMA SecondOf == ASSUME NEW n, n \in {2, 3} PROVE 2 \in 1 .. n
  OBVIOUS

\* What ParseStatus and ParseResponse get of the line of a SIM file access
LEMMA SimRead ==
  ASSUME NEW r \in SimReplies, NEW s, s = Line(r), NEW start, start = at_tok_start(s, 1),
         NEW n1, n1 = at_tok_nextint(s, start.cur), NEW n2, n2 = at_tok_nextint(s, n1.cur)
  PROVE  SimReads(r, s, n1, n2)
<1>1. PICK F, at : SimLaid(r, s, F, at)
  BY SimLineIs
<1>2. PICK gap : gap = r.gap
  OBVIOUS
<1>3. /\ LineOf(Chars, s, F, gap, at)
      /\ IsDecimal(F[1], r.sw[1]) /\ IsDecimal(F[2], r.sw[2])
  BY <1>1, <1>2, Zenon DEF SimLaid
<1>4. Len(F) = (IF r.data = "none" THEN 2 ELSE 3)
  BY <1>1, Zenon DEF SimLaid
<1>4a. (r.data = "none" => Len(F) = 2) /\ (r.data # "none" => Len(F) = 3) /\ Len(F) # 0
  BY <1>4
<1>5. r.sw \in Bytes \X Bytes /\ r.data \in {"none", "plain", "quoted"}
  <2>1. IsSimReply(r)
    BY RepliesAssumption, Zenon
  <2> QED BY <2>1, Zenon DEF IsSimReply
<1>6. start = [ok |-> TRUE, cur |-> 3]
  BY <1>3, <1>4a, StartRead
<1>7. n1 = [ok |-> TRUE, value |-> r.sw[1], cur |-> Ahead(gap, at, 2)]
  <2>1. PICK k, a : k = 1 /\ a = r.sw[1]
    OBVIOUS
  <2>2. k \in 1 .. Len(F) /\ k # Len(F)
    BY <1>4a, <2>1
  <2>3. IsDecimal(F[k], a)
    BY <1>3, <2>1, Zenon
  <2>4. at_tok_nextint(s, Ahead(gap, at, k)) =
          [ok |-> TRUE, value |-> a, cur |-> After(s, F, gap, at, k, NULL)]
    BY <1>3, <2>2, <2>3, DecimalField
  <2>5. Ahead(gap, at, k) = 3 /\ k + 1 = 2
    BY <2>1 DEF Ahead
  <2>6. After(s, F, gap, at, k, NULL) = Ahead(gap, at, 2)
    BY <2>2, <2>5, Zenon DEF After
  <2>7. start.cur = 3
    BY <1>6
  <2> QED BY <2>1, <2>4, <2>5, <2>6, <2>7, Zenon
<1>8. n2 = [ok |-> TRUE, value |-> r.sw[2], cur |-> After(s, F, gap, at, 2, NULL)]
  <2>1. PICK k, a : k = 2 /\ a = r.sw[2]
    OBVIOUS
  <2>2. k \in 1 .. Len(F)
    <3>1. Len(F) \in {2, 3}
      BY <1>4a, Zenon
    <3>2. 2 \in 1 .. Len(F)
      BY <3>1, SecondOf, Zenon
    <3> QED BY <2>1, <3>2, Zenon
  <2>3. IsDecimal(F[k], a)
    BY <1>3, <2>1, Zenon
  <2>4. at_tok_nextint(s, Ahead(gap, at, k)) =
          [ok |-> TRUE, value |-> a, cur |-> After(s, F, gap, at, k, NULL)]
    BY <1>3, <2>2, <2>3, DecimalField
  <2>5. n1.cur = Ahead(gap, at, 2)
    BY <1>7
  <2> QED BY <2>1, <2>4, <2>5, Zenon
<1>9. n1.ok /\ n2.ok /\ <<n1.value, n2.value>> = r.sw
  <2>1. n1.ok /\ n2.ok /\ n1.value = r.sw[1] /\ n2.value = r.sw[2]
    BY <1>7, <1>8
  <2>2. r.sw = <<r.sw[1], r.sw[2]>>
    BY <1>5
  <2> QED BY <2>1, <2>2, Zenon
<1>10. ASSUME r.data = "none" PROVE n2.cur = NULL
  <2>1. Len(F) = 2
    BY <1>4a, <1>10
  <2>2. After(s, F, gap, at, 2, NULL) = NULL
    BY <2>1, Zenon DEF After
  <2>3. n2.cur = After(s, F, gap, at, 2, NULL)
    BY <1>8
  <2> QED BY <2>2, <2>3, Zenon
<1>11. ASSUME r.data # "none"
       PROVE  at_tok_hasmore(s, n2.cur) /\ at_tok_nextstr(s, n2.cur).tok = Hex(r)
  <2>1. PICK k : k = 3
    OBVIOUS
  <2>2. k = Len(F) /\ k \in 1 .. Len(F) /\ 2 # Len(F) /\ 2 + 1 = k
    BY <1>4a, <1>11, <2>1
  <2>3. PICK c : c = Ahead(gap, at, k)
    OBVIOUS
  <2>4. n2.cur = c
    <3>1. After(s, F, gap, at, 2, NULL) = c
      BY <2>2, <2>3, Zenon DEF After
    <3>2. n2.cur = After(s, F, gap, at, 2, NULL)
      BY <1>8
    <3> QED BY <3>1, <3>2, Zenon
  <2>5. PICK h : h = Hex(r) /\ h \in Seq(Chars) /\ PlainText(h) /\ NoQuote(h)
    <3>1. HexOf(Hex(r), Template(r.objects)) /\ PlainText(Hex(r))
      BY SimData
    <3> QED BY <3>1, Zenon DEF HexOf
  <2>6. F[k][1] \notin Spaces /\ nextTok(s, c).tok = h
    <3>1. CASE r.data = "plain"
      <4>1. F[k] = h
        BY <1>1, <2>1, <2>5, <3>1, Zenon DEF SimLaid
      <4>2. PlainText(F[k])
        BY <2>5, <4>1, Zenon
      <4>3. nextTok(s, Ahead(gap, at, k)) =
              [tok |-> F[k], cur |-> IF k = Len(F) THEN NULL ELSE Ahead(gap, at, k + 1)]
        BY <1>3, <2>2, <4>2, PlainField
      <4>4. nextTok(s, c).tok = F[k]
        BY <2>3, <4>3
      <4> QED BY <4>1, <4>2, <4>4, Zenon DEF PlainText
    <3>2. CASE r.data = "quoted"
      <4>1. F[k] = Quoted(h)
        BY <1>1, <2>1, <2>5, <3>2, Zenon DEF SimLaid
      <4>2. h \in Seq(Chars) /\ NoQuote(h)
        BY <2>5
      <4>3. nextTok(s, Ahead(gap, at, k)) =
              [tok |-> h, cur |-> IF k = Len(F) THEN End(s) ELSE Ahead(gap, at, k + 1)]
        BY <1>3, <2>2, <4>1, <4>2, QuotedField
      <4>4. nextTok(s, c).tok = h
        BY <2>3, <4>3
      <4>5. Written(Quoted(h))
        <5>1. NoComma(h)
          BY <2>5, Zenon DEF PlainText, NoComma
        <5> QED BY <4>2, <5>1, QuotedWritten
      <4> QED BY <4>1, <4>4, <4>5, Zenon DEF Written
    <3> QED BY <1>5, <1>11, <3>1, <3>2
  <2>7. c # NULL /\ c <= Len(s)
    BY <1>3, <2>2, <2>3, <2>6, AheadIsAt
  <2>8. at_tok_hasmore(s, c)
    BY <2>7 DEF at_tok_hasmore
  <2>9. at_tok_nextstr(s, c).tok = nextTok(s, c).tok
    BY <2>7 DEF at_tok_nextstr
  <2> QED BY <2>4, <2>5, <2>6, <2>8, <2>9, Zenon
<1> QED BY <1>9, <1>10, <1>11, Zenon DEF SimReads

-----------------------------------------------------------------------------
(* Decoding one object                                                     *)

\* A status, with the sets of its fields' values
Records(size, id, type, structure, record, number, valid) ==
    [fileSize : size, fileId : id, fileType : type, efStructure : structure,
     recordLength : record, numberOfRecords : number, fileIsValidated : valid]
Words == {Unset} \cup 0 .. UINT16 - 1
Octets == {Unset} \cup 0 .. UINT8 - 1
Types == {Unset, 2, 4}
Structures == {Unset, 0, 1, 3}
Numbers == Int
Statuses == Records(Words, Words, Types, Structures, Octets, Numbers, Numbers)

\* A status with another descriptor
Redescribed(st, new, structure, type, record, number) ==
    new = [st EXCEPT !.efStructure = structure, !.fileType = type, !.recordLength = record,
                     !.numberOfRecords = number]

\* What an assignment to fields of a status changes, and what it keeps: of the
\* descriptor, ...
LEMMA NewDescriptor ==
  ASSUME NEW A, NEW B, NEW C, NEW D, NEW E, NEW F, NEW G,
         NEW st \in Records(A, B, C, D, E, F, G),
         NEW d \in D, NEW c \in C, NEW e \in E, NEW f \in F, NEW new,
         Redescribed(st, new, d, c, e, f)
  PROVE  /\ new \in Records(A, B, C, D, E, F, G)
         /\ new.efStructure = d /\ new.fileType = c /\ new.recordLength = e
         /\ new.fileSize = st.fileSize /\ new.fileId = st.fileId
BY DEF Records, Redescribed

\* ... of the size, ...
LEMMA NewSize ==
  ASSUME NEW A, NEW B, NEW C, NEW D, NEW E, NEW F, NEW G,
         NEW st \in Records(A, B, C, D, E, F, G), NEW a \in A, NEW new,
         new = [st EXCEPT !.fileSize = a]
  PROVE  /\ new \in Records(A, B, C, D, E, F, G)
         /\ new.fileSize = a /\ new.fileId = st.fileId /\ new.efStructure = st.efStructure
         /\ new.fileType = st.fileType /\ new.recordLength = st.recordLength
BY DEF Records

\* ... of the identifier, ...
LEMMA NewId ==
  ASSUME NEW A, NEW B, NEW C, NEW D, NEW E, NEW F, NEW G,
         NEW st \in Records(A, B, C, D, E, F, G), NEW b \in B, NEW new,
         new = [st EXCEPT !.fileId = b]
  PROVE  /\ new \in Records(A, B, C, D, E, F, G)
         /\ new.fileId = b /\ new.fileSize = st.fileSize /\ new.efStructure = st.efStructure
         /\ new.fileType = st.fileType /\ new.recordLength = st.recordLength
BY DEF Records

\* ... and of the life cycle.
LEMMA NewCycle ==
  ASSUME NEW A, NEW B, NEW C, NEW D, NEW E, NEW F, NEW G,
         NEW st \in Records(A, B, C, D, E, F, G), NEW g \in G, NEW new,
         new = [st EXCEPT !.fileIsValidated = g]
  PROVE  /\ new \in Records(A, B, C, D, E, F, G)
         /\ new.fileId = st.fileId /\ new.fileSize = st.fileSize
         /\ new.efStructure = st.efStructure
         /\ new.fileType = st.fileType /\ new.recordLength = st.recordLength
BY DEF Records

\* The status at first is one.
LEMMA NothingDecoded == NoStatus \in Statuses
BY DEF NoStatus, Statuses, Records, Words, Octets, Types, Structures, Numbers, Unset, UINT16, UINT8

\* A byte of a block is one.
LEMMA ByteIs ==
  ASSUME NEW d \in Seq(Bytes), NEW i \in Nat PROVE Byte(d, i) \in 0 .. 255
<1>1. CASE i < Len(d)
  <2>1. i + 1 \in 1 .. Len(d)
    BY <1>1
  <2>2. d[i + 1] \in Bytes
    BY <2>1, ElementOfSeq
  <2> QED BY <1>1, <2>2 DEF Byte, Bytes, UINT8
<1>2. CASE ~(i < Len(d))
  BY <1>2 DEF Byte
<1> QED BY <1>1, <1>2

\* An interval holds what is between its ends; ...
LEMMA Between ==
  ASSUME NEW b \in Int, NEW x \in Int, 0 <= x, x <= b PROVE x \in 0 .. b
OBVIOUS

\* ... here, the numbers of two bytes.
LEMMA WordRange ==
  ASSUME NEW x \in Int, 0 <= x, x <= 65535 PROVE x \in 0 .. UINT16 - 1
<1>1. PICK b : b = UINT16 - 1
  OBVIOUS
<1>2. b \in Int /\ x <= b
  BY <1>1 DEF UINT16
<1>3. x \in 0 .. b
  BY <1>2, Between
<1> QED BY <1>1, <1>3

\* Two bytes make a number of two bytes, whose lower byte is the second.
LEMMA WordIs ==
  ASSUME NEW high \in 0 .. 255, NEW low \in 0 .. 255
  PROVE  /\ CombineTwoBytes(high, low) \in 0 .. UINT16 - 1
         /\ CombineTwoBytes(high, low) % UINT8 = low
         /\ CombineTwoBytes(high, low) = 256 * high + low
<1>1. PICK x \in Int : x = 256 * high + low /\ 0 <= x /\ x <= 65535
  OBVIOUS
<1>2. PICK q, m : q = x \div 256 /\ m = x % 256 /\ q \in Int /\ m \in 0 .. 255 /\ x = 256 * q + m
  OBVIOUS
<1>3. q = high /\ m = low
  BY <1>1, <1>2
<1>4. CombineTwoBytes(high, low) = x
  BY <1>1 DEF CombineTwoBytes
<1>5. x \in 0 .. UINT16 - 1
  <2>1. x \in Int /\ 0 <= x /\ x <= 65535
    BY <1>1
  <2> QED BY <2>1, WordRange
<1>6. x % UINT8 = low
  BY <1>2, <1>3, Zenon DEF UINT8
<1>7. CombineTwoBytes(high, low) = 256 * high + low
  BY DEF CombineTwoBytes
<1> QED BY <1>4, <1>5, <1>6, <1>7, Zenon

\* The length of an object of less than 128 bytes is its second byte.
LEMMA ShortLength ==
  ASSUME NEW d \in Seq(Bytes), NEW a \in Nat, NEW n \in 0 .. 127,
         UsimDecodeDataLength(d, a) = [lgth |-> n, size |-> Header(n)]
  PROVE  Byte(d, a) = n
<1>1. Header(n) = 1
  BY DEF Header
<1>2. Byte(d, a) \in 0 .. 255
  BY ByteIs
<1>3. PICK l : l = UsimDecodeDataLength(d, a)
  OBVIOUS
<1>4. l.lgth = n /\ l.size = 1
  BY <1>1, <1>3
<1>5. CASE Byte(d, a) <= 127
  BY <1>3, <1>4, <1>5 DEF UsimDecodeDataLength
<1>6. CASE ~(Byte(d, a) <= 127)
  <2>1. l.size \in {0, 2}
    BY <1>3, <1>6 DEF UsimDecodeDataLength
  <2> QED BY <1>4, <2>1
<1> QED BY <1>5, <1>6

\* The sizes that RepliesAssumption demands of an object
Sized(o) ==
    LET length == Len(o.value) IN
    /\ o.tag = 130 => length \in {2, 5}
    /\ o.tag \in {128, 131} => length = 2
    /\ o.tag = 138 => length < 128
\* What the status has of an object's value
Knows(st, o) ==
    LET v == o.value IN
    /\ o.tag = 128 => st.fileSize = Number(v)
    /\ o.tag = 131 => st.fileId = Number(v)
    /\ o.tag = 130 /\ v[1] \in {65, 66, 70} =>
         /\ st.efStructure = EfStructure(v[1], Unset) /\ st.fileType = 4
         /\ st.recordLength = IF Len(v) = 5 THEN v[4] ELSE 0
\* An object leaves alone what others have told.
Keeps(st, new, o) ==
    /\ o.tag # 128 => new.fileSize = st.fileSize
    /\ o.tag # 131 => new.fileId = st.fileId
    /\ o.tag # 130 => /\ new.efStructure = st.efStructure /\ new.fileType = st.fileType
                      /\ new.recordLength = st.recordLength
\* What decoding an object gives: the next one's place, and a status that knows it
Decoded(st, o, next, r) ==
    r.offset = next /\ r.st \in Statuses /\ Knows(r.st, o) /\ Keeps(st, r.st, o)

\* The bytes of an object of less than 128 bytes
LEMMA ShortObject ==
  ASSUME NEW d \in Seq(Bytes), Len(d) < UINT8, NEW o \in Objects, NEW a \in Nat, NEW next,
         ObjectAt(d, a, o, next), Len(o.value) < 128
  PROVE  /\ Byte(d, a + 1) = Len(o.value) /\ Len(o.value) \in Nat
         /\ (a + 2 + Byte(d, a + 1)) % UINT8 = next
         /\ \A j \in 1 .. Len(o.value) : Byte(d, a + 1 + j) = o.value[j]
<1>1. o.value \in Seq(Bytes)
  BY DEF Objects
<1>2. PICK n : n = Len(o.value) /\ n \in Nat /\ n < 128
  BY <1>1
<1>3. /\ next = a + 1 + Header(n) + n /\ next <= Len(d)
      /\ UsimDecodeDataLength(d, a + 1) = [lgth |-> n, size |-> Header(n)]
      /\ \A j \in 1 .. n : Byte(d, a + Header(n) + j) = o.value[j]
  BY <1>2, Zenon DEF ObjectAt
<1>4. Header(n) = 1
  BY <1>2 DEF Header
<1>5. Byte(d, a + 1) = n
  <2>1. n \in Nat /\ n < 128
    BY <1>2, Zenon
  <2>2. n \in 0 .. 127
    BY <2>1
  <2>3. a + 1 \in Nat
    OBVIOUS
  <2> QED BY <1>3, <2>2, <2>3, ShortLength
<1>6. (a + 2 + n) % UINT8 = next
  <2>1. PICK m : m = Len(d) /\ m \in Nat /\ m < 256
    BY DEF UINT8
  <2>2. next = a + 2 + n /\ next \in Nat /\ next < 256
    BY <1>2, <1>3, <1>4, <2>1
  <2>3. PICK x : x = a + 2 + n /\ x = next
    BY <2>2
  <2>4. x \in Nat /\ x < 256
    BY <2>2, <2>3
  <2>5. x % 256 = x
    BY <2>4
  <2> QED BY <2>3, <2>5, Zenon DEF UINT8
<1>7. \A j \in 1 .. n : Byte(d, a + 1 + j) = o.value[j]
  BY <1>3, <1>4
<1>8. (a + 2 + Byte(d, a + 1)) % UINT8 = next
  BY <1>5, <1>6, Zenon
<1> QED BY <1>2, <1>5, <1>7, <1>8, Zenon

\* A byte is from 0 to 255.
LEMMA ByteRange ==
  /\ \A x \in Bytes : x \in 0 .. 255
  /\ \A x \in Bytes : x \in Int /\ 0 <= x /\ x <= 255
BY DEF Bytes, UINT8

\* The number in an object of two bytes
LEMMA TwoByteObject ==
  ASSUME NEW d \in Seq(Bytes), Len(d) < UINT8, NEW o \in Objects, NEW a \in Nat, NEW next,
         ObjectAt(d, a, o, next), Len(o.value) = 2
  PROVE  /\ Byte(d, a + 1) = 2 /\ (a + 2 + Byte(d, a + 1)) % UINT8 = next
         /\ CombineTwoBytes(Byte(d, a + 2), Byte(d, a + 3)) = Number(o.value)
         /\ Number(o.value) \in Words
<1>1. o.value \in Seq(Bytes) /\ Len(o.value) < 128
  BY DEF Objects
<1>2. /\ Byte(d, a + 1) = Len(o.value)
      /\ (a + 2 + Byte(d, a + 1)) % UINT8 = next
      /\ \A j \in 1 .. Len(o.value) : Byte(d, a + 1 + j) = o.value[j]
  BY <1>1, ShortObject
<1>3. PICK x, y : x = o.value[1] /\ y = o.value[2] /\ x \in Bytes /\ y \in Bytes
  BY <1>1
<1>4. x \in 0 .. 255 /\ y \in 0 .. 255
  BY <1>3, ByteRange
<1>5. Byte(d, a + 2) = x /\ Byte(d, a + 3) = y
  <2>1. 1 \in 1 .. Len(o.value) /\ 2 \in 1 .. Len(o.value)
    OBVIOUS
  <2>2. Byte(d, a + 1 + 1) = o.value[1] /\ Byte(d, a + 1 + 2) = o.value[2]
    BY <1>2, <2>1, Zenon
  <2>3. a + 1 + 1 = a + 2 /\ a + 1 + 2 = a + 3
    OBVIOUS
  <2> QED BY <1>3, <2>2, <2>3
<1>6. CombineTwoBytes(x, y) \in 0 .. UINT16 - 1 /\ CombineTwoBytes(x, y) = 256 * x + y
  BY <1>4, WordIs
<1>7. CombineTwoBytes(x, y) = Number(o.value)
  BY <1>3, <1>6, Zenon DEF Number
<1>8. Number(o.value) \in Words
  BY <1>6, <1>7, Zenon DEF Words
<1>9. Byte(d, a + 1) = 2
  BY <1>2
<1>10. (a + 2 + Byte(d, a + 1)) % UINT8 = next
  BY <1>2
<1> QED BY <1>5, <1>7, <1>8, <1>9, <1>10, Zenon

\* UsimDecFileSize
LEMMA SizeDecoded ==
  ASSUME NEW d \in Seq(Bytes), Len(d) < UINT8, NEW o \in Objects, NEW a \in Nat, NEW next,
         ObjectAt(d, a, o, next), Sized(o), NEW st \in Statuses, o.tag = 128
  PROVE  Decoded(st, o, next, UsimDecFileSize(a, d, st))
<1>1. Len(o.value) = 2
  BY DEF Sized
<1>2. /\ Byte(d, a + 1) = 2 /\ (a + 2 + Byte(d, a + 1)) % UINT8 = next
      /\ CombineTwoBytes(Byte(d, a + 2), Byte(d, a + 3)) = Number(o.value)
      /\ Number(o.value) \in Words
  BY <1>1, TwoByteObject
<1>3. PICK w : w = Number(o.value) /\ w \in Words
  BY <1>2
<1>6. PICK new : new = [st EXCEPT !.fileSize = w]
  OBVIOUS
<1>8. /\ new \in Statuses
      /\ new.fileSize = w /\ new.fileId = st.fileId /\ new.efStructure = st.efStructure
      /\ new.fileType = st.fileType /\ new.recordLength = st.recordLength
  BY <1>3, <1>6, NewSize DEF Statuses
<1>9. UsimDecFileSize(a, d, st) = [offset |-> next, st |-> new]
  BY <1>2, <1>3, <1>6, Zenon DEF UsimDecFileSize
<1>10. Knows(new, o) /\ Keeps(st, new, o)
  BY <1>3, <1>8 DEF Knows, Keeps
<1>11. PICK r : r = UsimDecFileSize(a, d, st)
  OBVIOUS
<1>12. r.offset = next /\ r.st = new
  BY <1>9, <1>11
<1> QED BY <1>8, <1>10, <1>11, <1>12, Zenon DEF Decoded

\* UsimDecEfFileId
LEMMA IdDecoded ==
  ASSUME NEW d \in Seq(Bytes), Len(d) < UINT8, NEW o \in Objects, NEW a \in Nat, NEW next,
         ObjectAt(d, a, o, next), Sized(o), NEW st \in Statuses, o.tag = 131
  PROVE  Decoded(st, o, next, UsimDecEfFileId(a, d, st))
<1>1. Len(o.value) = 2
  BY DEF Sized
<1>2. /\ Byte(d, a + 1) = 2 /\ (a + 2 + Byte(d, a + 1)) % UINT8 = next
      /\ CombineTwoBytes(Byte(d, a + 2), Byte(d, a + 3)) = Number(o.value)
      /\ Number(o.value) \in Words
  BY <1>1, TwoByteObject
<1>3. PICK w : w = Number(o.value) /\ w \in Words
  BY <1>2
<1>6. PICK new : new = [st EXCEPT !.fileId = w]
  OBVIOUS
<1>8. /\ new \in Statuses
      /\ new.fileId = w /\ new.fileSize = st.fileSize /\ new.efStructure = st.efStructure
      /\ new.fileType = st.fileType /\ new.recordLength = st.recordLength
  BY <1>3, <1>6, NewId DEF Statuses
<1>9. UsimDecEfFileId(a, d, st) = [offset |-> next, st |-> new]
  BY <1>2, <1>3, <1>6, Zenon DEF UsimDecEfFileId
<1>10. Knows(new, o) /\ Keeps(st, new, o)
  BY <1>3, <1>8 DEF Knows, Keeps
<1>11. PICK r : r = UsimDecEfFileId(a, d, st)
  OBVIOUS
<1>12. r.offset = next /\ r.st = new
  BY <1>9, <1>11
<1> QED BY <1>8, <1>10, <1>11, <1>12, Zenon DEF Decoded

\* The life cycle's decoder
LEMMA CycleDecoded ==
  ASSUME NEW d \in Seq(Bytes), Len(d) < UINT8, NEW o \in Objects, NEW a \in Nat, NEW next,
         ObjectAt(d, a, o, next), Sized(o), NEW st \in Statuses, o.tag = 138
  PROVE  Decoded(st, o, next, LifeCycleStatus(a, d, st))
<1>1. Len(o.value) < 128 /\ o.value \in Seq(Bytes)
  BY DEF Sized, Objects
<1>2. (a + 2 + Byte(d, a + 1)) % UINT8 = next
  <2>1. Len(o.value) < 128
    BY <1>1, Zenon
  <2> QED BY <2>1, ShortObject
<1>3. PICK g \in Numbers : g = IF Byte(d, a + 1) = 1 /\ Byte(d, a + 2) \in {4, 6} THEN 0 ELSE 1
  BY DEF Numbers
<1>4. PICK new : new = [st EXCEPT !.fileIsValidated = g]
  OBVIOUS
<1>5. /\ new \in Statuses
      /\ new.fileId = st.fileId /\ new.fileSize = st.fileSize
      /\ new.efStructure = st.efStructure
      /\ new.fileType = st.fileType /\ new.recordLength = st.recordLength
  BY <1>4, NewCycle DEF Statuses
<1>6. PICK r : r = LifeCycleStatus(a, d, st)
  OBVIOUS
<1>7. r = [offset |-> next, st |-> new]
  BY <1>2, <1>3, <1>4, <1>6, Zenon DEF LifeCycleStatus
<1>8. r.offset = next /\ r.st = new
  BY <1>7
<1>9. Knows(new, o) /\ Keeps(st, new, o)
  BY <1>5 DEF Knows, Keeps
<1> QED BY <1>5, <1>6, <1>8, <1>9, Zenon DEF Decoded

\* UsimDecEfFileDescriptor
LEMMA DescriptorDecoded ==
  ASSUME NEW d \in Seq(Bytes), Len(d) < UINT8, NEW o \in Objects, NEW a \in Nat, NEW next,
         ObjectAt(d, a, o, next), Sized(o), NEW st \in Statuses, o.tag = 130
  PROVE  Decoded(st, o, next, UsimDecEfFileDescriptor(a, d, st))
<1>1. Len(o.value) \in {2, 5} /\ o.value \in Seq(Bytes)
  BY DEF Sized, Objects
<1>2. /\ Byte(d, a + 1) = Len(o.value) /\ Len(o.value) \in Nat
      /\ (a + 2 + Byte(d, a + 1)) % UINT8 = next
      /\ \A j \in 1 .. Len(o.value) : Byte(d, a + 1 + j) = o.value[j]
  <2>1. PICK m : m = Len(o.value) /\ m \in {2, 5}
    BY <1>1, Zenon
  <2>2. m < 128
    <3>1. m \in {2, 5}
      BY <2>1, Zenon
    <3> QED BY <3>1
  <2>3. Len(o.value) < 128
    BY <2>1, <2>2, Zenon
  <2> QED BY <2>3, ShortObject
<1>3. PICK p1, p2, p4, p5, p6 :
        /\ p1 = Byte(d, a + 1) /\ p2 = Byte(d, a + 2) /\ p4 = Byte(d, a + 4)
        /\ p5 = Byte(d, a + 5) /\ p6 = Byte(d, a + 6)
  OBVIOUS
<1>4. p2 \in 0 .. 255 /\ p4 \in 0 .. 255 /\ p5 \in 0 .. 255 /\ p6 \in 0 .. 255
  <2>1. a + 2 \in Nat /\ a + 4 \in Nat /\ a + 5 \in Nat /\ a + 6 \in Nat
    OBVIOUS
  <2> QED BY <1>3, <2>1, ByteIs, Zenon
<1>5. p1 = Len(o.value) /\ p2 = o.value[1]
  <2>1. PICK m : m = Len(o.value) /\ m \in {2, 5}
    BY <1>1, Zenon
  <2>2. 1 \in 1 .. m /\ a + 1 + 1 = a + 2
    <3>1. m \in {2, 5}
      BY <2>1, Zenon
    <3> QED BY <3>1
  <2>3. Byte(d, a + 1 + 1) = o.value[1]
    BY <1>2, <2>1, <2>2, Zenon
  <2> QED BY <1>2, <1>3, <2>2, <2>3, Zenon
<1>6. Len(o.value) = 5 => p5 = o.value[4]
  <2>1. ASSUME Len(o.value) = 5 PROVE 4 \in 1 .. Len(o.value) /\ a + 1 + 4 = a + 5
    BY <2>1
  <2> QED BY <1>2, <1>3, <2>1, Zenon
<1>6a. PICK x : x = EfStructure(p2, st.efStructure)
  OBVIOUS
<1>6b. PICK y : y = FileType(p2, st.fileType)
  OBVIOUS
<1>6c. PICK z : z = (IF p1 = 5 THEN CombineTwoBytes(p4, p5) % UINT8 ELSE 0)
  OBVIOUS
<1>6d. PICK n : n = (IF p1 = 5 THEN p6 ELSE 0)
  OBVIOUS
<1>7. /\ x = EfStructure(p2, st.efStructure) /\ y = FileType(p2, st.fileType)
      /\ z = (IF p1 = 5 THEN CombineTwoBytes(p4, p5) % UINT8 ELSE 0)
      /\ n = (IF p1 = 5 THEN p6 ELSE 0)
  BY <1>6a, <1>6b, <1>6c, <1>6d, Zenon
<1>8. st.efStructure \in Structures /\ st.fileType \in Types
  BY DEF Statuses, Records
<1>9. x \in Structures /\ y \in Types
  <2>1. EfStructure(p2, st.efStructure) \in {st.efStructure, 0, 1, 3}
    BY DEF EfStructure
  <2>2. FileType(p2, st.fileType) \in {st.fileType, 2, 4}
    BY DEF FileType
  <2> QED BY <1>7, <1>8, <2>1, <2>2 DEF Structures, Types
<1>10. z = (IF p1 = 5 THEN p5 ELSE 0)
  <2>1. CombineTwoBytes(p4, p5) % UINT8 = p5
    BY <1>4, WordIs
  <2> QED BY <1>7, <2>1, Zenon
<1>11. z \in Octets /\ n \in Numbers
  <2>1. z \in 0 .. 255
    <3>1. CASE p1 = 5
      BY <1>4, <1>10, <3>1
    <3>2. CASE p1 # 5
      BY <1>10, <3>2
    <3> QED BY <3>1, <3>2
  <2>2. 0 .. 255 \subseteq Octets
    BY DEF Octets, UINT8
  <2>3. n \in Numbers
    <3>1. CASE p1 = 5
      BY <1>4, <1>7, <3>1 DEF Numbers
    <3>2. CASE p1 # 5
      BY <1>7, <3>2 DEF Numbers
    <3> QED BY <3>1, <3>2
  <2> QED BY <2>1, <2>2, <2>3
<1>12. PICK new : new = [st EXCEPT !.efStructure = x, !.fileType = y, !.recordLength = z,
                                   !.numberOfRecords = n]
  OBVIOUS
<1>13. /\ new \in Statuses
       /\ new.efStructure = x /\ new.fileType = y /\ new.recordLength = z
       /\ new.fileSize = st.fileSize /\ new.fileId = st.fileId
  <2>1. st \in Records(Words, Words, Types, Structures, Octets, Numbers, Numbers)
    BY DEF Statuses
  <2>2. x \in Structures /\ y \in Types /\ z \in Octets /\ n \in Numbers
    BY <1>9, <1>11
  <2>3. /\ new \in Records(Words, Words, Types, Structures, Octets, Numbers, Numbers)
        /\ new.efStructure = x /\ new.fileType = y /\ new.recordLength = z
        /\ new.fileSize = st.fileSize /\ new.fileId = st.fileId
    <3>1. Redescribed(st, new, x, y, z, n)
      BY <1>12, Zenon DEF Redescribed
    <3> QED BY <2>1, <2>2, <3>1, NewDescriptor
  <2> QED BY <2>3, Zenon DEF Statuses
<1>14. PICK r : r = UsimDecEfFileDescriptor(a, d, st)
  OBVIOUS
<1>15. r.offset = next /\ r.st = new
  <2>1. r = [offset |-> next, st |-> new]
    BY <1>2, <1>3, <1>7, <1>12, <1>14, Zenon DEF UsimDecEfFileDescriptor
  <2> QED BY <2>1
<1>16. Knows(new, o)
  <2>1. ASSUME p2 \in {65, 66, 70} PROVE x = EfStructure(p2, Unset) /\ y = 4
    <3>1. x = EfStructure(p2, st.efStructure) /\ y = FileType(p2, st.fileType)
      BY <1>7
    <3>2. p2 % 8 \in {1, 2, 6}
      BY <2>1
    <3>3. EfStructure(p2, st.efStructure) = EfStructure(p2, Unset)
      BY <3>2 DEF EfStructure
    <3>4. (p2 \div 8) % 8 = 0
      BY <2>1
    <3>5. FileType(p2, st.fileType) = 4
      BY <3>4 DEF FileType
    <3> QED BY <3>1, <3>3, <3>5
  <2>2. z = (IF Len(o.value) = 5 THEN o.value[4] ELSE 0)
    BY <1>5, <1>6, <1>10, Zenon
  <2>3. o.tag = 130 /\ o.tag # 128 /\ o.tag # 131
    OBVIOUS
  <2>4. ASSUME o.value[1] \in {65, 66, 70}
        PROVE  /\ new.efStructure = EfStructure(o.value[1], Unset) /\ new.fileType = 4
               /\ new.recordLength = IF Len(o.value) = 5 THEN o.value[4] ELSE 0
    BY <1>5, <1>13, <2>1, <2>2, <2>4, Zenon
  <2> QED BY <2>3, <2>4, Zenon DEF Knows
<1>17. Keeps(st, new, o)
  BY <1>13, Zenon DEF Keeps
<1> QED BY <1>13, <1>14, <1>15, <1>16, <1>17, Zenon DEF Decoded

\* An object nobody knows is passed over.
LEMMA Passed ==
  ASSUME NEW d \in Seq(Bytes), Len(d) < UINT8, NEW o \in Objects, NEW a \in Nat, NEW next,
         ObjectAt(d, a, o, next), NEW st \in Statuses
  PROVE  /\ SkipObject(a, d, st).offset = next /\ SkipObject(a, d, st).st = st
         /\ next \in Nat /\ a < next /\ next <= Len(d)
         /\ LET l == UsimDecodeDataLength(d, a + 1) IN a + 1 + l.size + l.lgth = next
<1>1. o.value \in Seq(Bytes)
  BY DEF Objects
<1>2. PICK n : n = Len(o.value) /\ n \in Nat
  BY <1>1
<1>3. /\ next = a + 1 + Header(n) + n /\ next <= Len(d)
      /\ UsimDecodeDataLength(d, a + 1) = [lgth |-> n, size |-> Header(n)]
  BY <1>2, Zenon DEF ObjectAt
<1>4. PICK h : h = Header(n) /\ h \in {1, 2}
  BY DEF Header
<1>5. PICK l : l = UsimDecodeDataLength(d, a + 1)
  OBVIOUS
<1>6. l.size = h /\ l.lgth = n
  BY <1>3, <1>4, <1>5
<1>7. next = a + 1 + h + n /\ next \in Nat /\ a < next
  BY <1>2, <1>3, <1>4
<1>8. next % UINT8 = next
  <2>1. PICK m : m = Len(d) /\ m \in Nat /\ m < 256
    BY DEF UINT8
  <2>2. next \in Nat /\ next < 256
    BY <1>3, <1>7, <2>1
  <2>3. next % 256 = next
    BY <2>2
  <2> QED BY <2>3, Zenon DEF UINT8
<1>9. (a + 1 + l.size + l.lgth) % UINT8 = next
  BY <1>6, <1>7, <1>8, Zenon
<1>10. PICK r : r = SkipObject(a, d, st)
  OBVIOUS
<1>11. r = [offset |-> next, st |-> st]
  BY <1>5, <1>9, <1>10, Zenon DEF SkipObject
<1>12. r.offset = next /\ r.st = st
  BY <1>11
<1>13. a + 1 + l.size + l.lgth = next
  BY <1>6, <1>7, Zenon
<1> QED BY <1>3, <1>5, <1>7, <1>10, <1>12, <1>13, Zenon

\* What one turn of the loop computes
Turned(char, a, d, st, r) == r = DecodeObject(char, a, d, st)

\* One turn of the loop takes one object: the next one is next, and, where a char
\* is unsigned, its value is known.
LEMMA ObjectDecoded ==
  ASSUME NEW d \in Seq(Bytes), Len(d) < UINT8, NEW o \in Objects, NEW a \in Nat, NEW next,
         ObjectAt(d, a, o, next), Sized(o), NEW st \in Statuses, NEW char \in BOOLEAN,
         NEW r, Turned(char, a, d, st, r)
  PROVE  r.offset = next /\ r.st \in Statuses /\ (~char => Decoded(st, o, next, r))
<1>1. Byte(d, a) = o.tag
  BY Zenon DEF ObjectAt
<1>2. PICK tag : tag = CaseOf(char, o.tag)
  OBVIOUS
<1>3. o.tag \in 0 .. 255
  BY DEF Objects, Bytes, UINT8
<1>4. char => tag \notin {128, 130, 131, 138}
  <2>1. PICK b : b = o.tag /\ b \in 0 .. 255
    BY <1>3
  <2>2. ASSUME char, b > 127 PROVE tag < 0
    <3>1. tag = b - 256
      BY <1>2, <2>1, <2>2 DEF CaseOf
    <3>2. b \in 0 .. 255
      BY <2>1, Zenon
    <3> QED BY <3>1, <3>2
  <2>3. ASSUME char, ~(b > 127) PROVE tag < 128
    <3>1. tag = b
      BY <1>2, <2>1, <2>3 DEF CaseOf
    <3>2. b \in 0 .. 255
      BY <2>1, Zenon
    <3> QED BY <2>3, <3>1, <3>2
  <2>4. ASSUME char PROVE tag \notin {128, 130, 131, 138}
    <3>1. tag \in Int
      <4>1. b \in 0 .. 255
        BY <2>1, Zenon
      <4>2. tag = b - 256 \/ tag = b
        BY <1>2, <2>1 DEF CaseOf
      <4> QED BY <4>1, <4>2
    <3>2. tag < 0 \/ tag < 128
      BY <2>2, <2>3, <2>4
    <3> QED BY <3>1, <3>2
  <2> QED BY <2>4
<1>5. ~char => tag = o.tag
  BY <1>2 DEF CaseOf
<1>6. tag \notin {128, 130, 131, 138} => r = SkipObject(a, d, st)
  BY <1>1, <1>2 DEF DecodeObject, Turned
<1>7. /\ tag = 130 => r = UsimDecEfFileDescriptor(a, d, st)
      /\ tag = 131 => r = UsimDecEfFileId(a, d, st)
      /\ tag = 138 => r = LifeCycleStatus(a, d, st)
      /\ tag = 128 => r = UsimDecFileSize(a, d, st)
  BY <1>1, <1>2 DEF DecodeObject, Turned
<1>8. CASE tag \notin {128, 130, 131, 138}
  <2>1. r.offset = next /\ r.st = st
    BY <1>6, <1>8, Passed
  <2>2. ASSUME ~char PROVE Knows(st, o) /\ Keeps(st, st, o)
    <3>1. o.tag \notin {128, 130, 131, 138}
      BY <1>5, <1>8, <2>2
    <3> QED BY <3>1 DEF Knows, Keeps
  <2> QED BY <2>1, <2>2, Zenon DEF Decoded
<1>9. CASE tag \in {128, 130, 131, 138}
  <2>1. ~char /\ tag = o.tag
    BY <1>4, <1>5, <1>9
  <2>2. Decoded(st, o, next, r)
    BY <1>7, <1>9, <2>1, DescriptorDecoded, IdDecoded, CycleDecoded, SizeDecoded
  <2> QED BY <2>1, <2>2, Zenon DEF Decoded
<1> QED BY <1>8, <1>9

-----------------------------------------------------------------------------
(* The blocks of data that are converted                                   *)

\* A template of known sizes that fits the block
Block(d, objects) ==
    /\ objects \in Seq(Objects) /\ d \in Seq(Bytes) /\ Len(d) \in 1 .. UINT8 - 1
    /\ \A i \in 1 .. Len(objects) : Sized(objects[i])
    /\ \E at : TemplateAt(d, objects, at)

\* The objects of the ICCID's file are short ones.
ShortObjects == {o \in Objects : Len(o.value) <= 3 /\ Sized(o)}

\* The size of a short object
Fits(tag, n) == tag \in Bytes /\ n \in 0 .. 3 /\ (tag \in {128, 131, 130} => n = 2)

\* A short object is one.
LEMMA ShortOne ==
  ASSUME NEW tag, NEW v \in Seq(Bytes), Fits(tag, Len(v))
  PROVE  Object(tag, v) \in ShortObjects
<1>0. PICK n : n = Len(v)
  OBVIOUS
<1>0a. tag \in Bytes /\ n \in 0 .. 3 /\ (tag \in {128, 131, 130} => n = 2)
  BY <1>0, Zenon DEF Fits
<1>1. PICK o : o = Object(tag, v) /\ o.tag = tag /\ o.value = v /\ o \in Objects
  <2>1. PICK o : o = [tag |-> tag, value |-> v]
    OBVIOUS
  <2>2. o.tag = tag /\ o.value = v /\ o \in Objects
    BY <1>0a, <2>1 DEF Objects
  <2> QED BY <2>1, <2>2, Zenon DEF Object
<1>2. Sized(o)
  <2>1. Len(o.value) = n /\ o.tag = tag
    BY <1>0, <1>1
  <2>2. n < 128
    BY <1>0a
  <2>3. /\ o.tag = 130 => Len(o.value) \in {2, 5}
        /\ o.tag \in {128, 131} => Len(o.value) = 2
        /\ o.tag = 138 => Len(o.value) < 128
    BY <1>0a, <2>1, <2>2
  <2> QED BY <2>3, Zenon DEF Sized
<1>3. Len(o.value) <= 3
  <2>1. n <= 3
    BY <1>0a
  <2> QED BY <1>0, <1>1, <2>1, Zenon
<1> QED BY <1>1, <1>2, <1>3 DEF ShortObjects

\* The ICCID's file has six of them.
LEMMA IccidIsShort ==
  IccidObjects \in Seq(ShortObjects) /\ Len(IccidObjects) = 6
<1>1. \A b \in 0 .. 255 : b \in Bytes
  BY DEF Bytes, UINT8
<1>2. PICK a, b, c, d, e, f :
        /\ a = Object(130, <<65, 33>>) /\ b = Object(131, <<47, 226>>)
        /\ c = Object(138, <<5>>) /\ d = Object(139, <<47, 6, 3>>)
        /\ e = Object(128, <<0, 10>>) /\ f = Object(136, <<16>>)
  OBVIOUS
<1>3. /\ <<65, 33>> \in Seq(Bytes) /\ Len(<<65, 33>>) = 2
      /\ <<47, 226>> \in Seq(Bytes) /\ Len(<<47, 226>>) = 2
      /\ <<5>> \in Seq(Bytes) /\ Len(<<5>>) = 1
  BY <1>1
<1>4. /\ <<47, 6, 3>> \in Seq(Bytes) /\ Len(<<47, 6, 3>>) = 3
      /\ <<0, 10>> \in Seq(Bytes) /\ Len(<<0, 10>>) = 2
      /\ <<16>> \in Seq(Bytes) /\ Len(<<16>>) = 1
  BY <1>1
<1>5. /\ Fits(130, 2) /\ Fits(131, 2) /\ Fits(138, 1)
      /\ Fits(139, 3) /\ Fits(128, 2) /\ Fits(136, 1)
  BY <1>1 DEF Fits
<1>6. a \in ShortObjects /\ b \in ShortObjects
  BY <1>2, <1>3, <1>5, ShortOne
<1>7. c \in ShortObjects
  <2>1. Fits(138, Len(<<5>>))
    BY <1>3, <1>5, Zenon
  <2> QED BY <1>2, <1>3, <2>1, ShortOne, Zenon
<1>8. d \in ShortObjects /\ e \in ShortObjects /\ f \in ShortObjects
  <2>1. Fits(139, Len(<<47, 6, 3>>)) /\ Fits(128, Len(<<0, 10>>)) /\ Fits(136, Len(<<16>>))
    BY <1>4, <1>5, Zenon
  <2>2. Object(139, <<47, 6, 3>>) \in ShortObjects
    BY <1>4, <2>1, ShortOne, Zenon
  <2>3. Object(128, <<0, 10>>) \in ShortObjects
    BY <1>4, <2>1, ShortOne, Zenon
  <2>4. Object(136, <<16>>) \in ShortObjects
    BY <1>4, <2>1, ShortOne, Zenon
  <2> QED BY <1>2, <2>2, <2>3, <2>4, Zenon
<1>9. PICK s : s = <<a, b, c, d, e, f>> /\ s \in Seq(ShortObjects) /\ Len(s) = 6
  <2>1. /\ <<a, b, c, d, e, f>> \in Seq(ShortObjects)
        /\ Len(<<a, b, c, d, e, f>>) = 6
    BY <1>6, <1>7, <1>8
  <2> QED BY <2>1, Zenon
<1>10. IccidObjects = s
  BY <1>2, <1>9, Zenon DEF IccidObjects
<1> QED BY <1>9, <1>10, Zenon

\* Six short objects fit.
LEMMA ShortBlock ==
  ASSUME NEW objects \in Seq(ShortObjects), Len(objects) = 6, NEW d, d = Template(objects)
  PROVE  Block(d, objects)
<1>1. objects \in Seq(Objects)
  <2>1. ShortObjects \subseteq Objects
    BY DEF ShortObjects
  <2> QED BY <2>1, SeqMonotonic, Zenon
<1>2. PICK n \in Nat : n = 6 /\ n = Len(objects) /\ DOMAIN objects = 1 .. n
  OBVIOUS
<1>3. PICK parts, body : /\ parts = [i \in 1 .. n |-> Encoded(objects[i].tag, objects[i].value)]
                         /\ body = FlattenSeq(parts)
  OBVIOUS
<1>4. PartsLaid(objects, parts, body)
  BY <1>1, <1>2, <1>3, PartsAreLaid
<1>5. d = Encoded(98, body)
  BY <1>2, <1>3, Zenon DEF Template, Encoded
<1>6. /\ \A i \in 1 .. n :
           Len(parts[i]) = 1 + Header(Len(objects[i].value)) + Len(objects[i].value)
      /\ body \in Seq(Nat) /\ \E at : Placed(body, parts, at, n)
  BY <1>2, <1>4, Zenon DEF PartsLaid
<1>7. ASSUME NEW i \in 1 .. n PROVE Len(parts[i]) <= 5 /\ Len(parts[i]) \in Nat
  <2>1. objects[i] \in ShortObjects
    BY <1>2, ElementOfSeq
  <2>2. objects[i].value \in Seq(Bytes) /\ Len(objects[i].value) <= 3
    BY <2>1 DEF ShortObjects, Objects
  <2>3. PICK l \in Nat : l = Len(objects[i].value) /\ l <= 3
    BY <2>2
  <2>4. Header(l) = 1
    BY <2>3 DEF Header
  <2> QED BY <1>6, <2>3, <2>4
<1>8. PICK at : Placed(body, parts, at, n)
  BY <1>6
<1>9. /\ at \in [0 .. n -> Nat] /\ at[0] = 0 /\ at[n] = Len(body)
      /\ \A i \in 1 .. n : at[i] = at[i - 1] + Len(parts[i])
  BY <1>8, Zenon DEF Placed
<1>10. \A i \in 1 .. n : at[i] <= at[i - 1] + 5 /\ at[i - 1] \in Nat
  <2>1. ASSUME NEW i \in 1 .. n PROVE at[i] <= at[i - 1] + 5 /\ at[i - 1] \in Nat
    <3>1. i - 1 \in 0 .. n
      OBVIOUS
    <3>2. at[i - 1] \in Nat
      BY <1>9, <3>1
    <3>3. at[i] = at[i - 1] + Len(parts[i])
      BY <1>9, Zenon
    <3> QED BY <1>7, <3>2, <3>3
  <2> QED BY <2>1
<1>11. at[6] <= 30
  <2>1. \A i \in 1 .. 6 : at[i] <= at[i - 1] + 5 /\ at[i - 1] \in Nat
    BY <1>2, <1>10, Zenon
  <2>2. at[0] = 0 /\ at[6] \in Nat
    BY <1>2, <1>9
  <2>3. /\ at[1] <= at[0] + 5 /\ at[2] <= at[1] + 5 /\ at[3] <= at[2] + 5
        /\ at[4] <= at[3] + 5 /\ at[5] <= at[4] + 5 /\ at[6] <= at[5] + 5
        /\ at[1] \in Nat /\ at[2] \in Nat /\ at[3] \in Nat /\ at[4] \in Nat /\ at[5] \in Nat
    BY <2>1
  <2>4. PICK a1, a2, a3, a4, a5, a6 :
          /\ a1 = at[1] /\ a2 = at[2] /\ a3 = at[3] /\ a4 = at[4] /\ a5 = at[5] /\ a6 = at[6]
    OBVIOUS
  <2>5. /\ a1 \in Nat /\ a2 \in Nat /\ a3 \in Nat /\ a4 \in Nat /\ a5 \in Nat /\ a6 \in Nat
        /\ a1 <= 0 + 5 /\ a2 <= a1 + 5 /\ a3 <= a2 + 5
        /\ a4 <= a3 + 5 /\ a5 <= a4 + 5 /\ a6 <= a5 + 5
    BY <2>2, <2>3, <2>4, Zenon
  <2>6. a6 <= 30
    BY <2>5
  <2> QED BY <2>4, <2>6, Zenon
<1>12. PICK m : m = Len(body) /\ m \in Nat /\ m <= 30
  BY <1>2, <1>6, <1>9, <1>11
<1>13. Len(d) <= 32
  <2>1. Header(m) = 1
    BY <1>12 DEF Header
  <2>2. LengthBytes(m) \in Seq(Nat)
    BY <1>12, LengthWritten
  <2>3. EncodedIn(Nat, d, 98, body)
    <3>1. Nat \subseteq Nat /\ 98 \in Nat
      OBVIOUS
    <3> QED BY <1>5, <1>6, <1>12, <2>2, <3>1, EncodedParts
  <2>4. Len(d) = 1 + Header(m) + m
    BY <1>12, <2>3, Zenon DEF EncodedIn
  <2> QED BY <1>12, <2>1, <2>4
<1>14. Len(d) < UINT8
  BY <1>13 DEF UINT8
<1>15. d \in Seq(Bytes) /\ Len(d) \in Nat \ {0} /\ \E pos : TemplateAt(d, objects, pos)
  BY <1>1, <1>14, TemplateLaid
<1>16. Len(d) \in 1 .. UINT8 - 1
  <2>1. PICK x : x = Len(d)
    OBVIOUS
  <2>2. x < UINT8 /\ x \in Nat \ {0}
    BY <1>14, <1>15, <2>1, Zenon
  <2>3. x \in 1 .. UINT8 - 1
    BY <2>2 DEF UINT8
  <2> QED BY <2>1, <2>3, Zenon
<1>17. ASSUME NEW i \in 1 .. Len(objects) PROVE Sized(objects[i])
  <2>1. objects[i] \in ShortObjects
    BY ElementOfSeq
  <2> QED BY <2>1 DEF ShortObjects
<1> QED BY <1>1, <1>15, <1>16, <1>17, Zenon DEF Block

\* What is converted is a block, whatever the card answered.
LEMMA IccidBlock == Block(vgStringToHexData(vgHexDataToString(IccidFcp)), IccidObjects)
<1>1. IccidFcp = Template(IccidObjects)
  BY Zenon DEF IccidFcp
<1>2. Block(IccidFcp, IccidObjects)
  BY <1>1, IccidIsShort, ShortBlock, Zenon
<1>3. IccidFcp \in Seq(Bytes)
  BY <1>2, Zenon DEF Block
<1>4. vgStringToHexData(vgHexDataToString(IccidFcp)) = IccidFcp
  BY <1>3, HexBack, Zenon
<1> QED BY <1>2, <1>4, Zenon

\* ... also when the card has described the file.
LEMMA ReplyBlock ==
  ASSUME NEW r \in SimReplies PROVE Block(vgStringToHexData(Hex(r)), r.objects)
<1>1. IsFile(r.objects)
  BY RepliesAssumption, Zenon DEF IsSimReply
<1>2. r.objects \in Seq(Objects)
  BY <1>1, Zenon DEF IsFile, Objects
<1>3. ASSUME NEW i \in 1 .. Len(r.objects) PROVE Sized(r.objects[i])
  <2>1. i \in DOMAIN r.objects
    BY <1>2
  <2> QED BY <1>1, <2>1, Zenon DEF IsFile, Sized
<1>4. PICK d : d = Template(r.objects)
  OBVIOUS
<1>5. /\ d \in Seq(Bytes) /\ Len(d) \in 1 .. UINT8 - 1
      /\ \E at : TemplateAt(d, r.objects, at) /\ vgStringToHexData(Hex(r)) = d
  BY <1>4, SimData, Zenon
<1> QED BY <1>2, <1>3, <1>5, Zenon DEF Block

-----------------------------------------------------------------------------
(* The loop over the objects, and what it tells                            *)

\* Where the loop is before each object, and after the last
LEMMA LoopPlace ==
  ASSUME NEW d, NEW objects, Block(d, objects), NEW at, TemplateAt(d, objects, at),
         NEW j \in 0 .. Len(objects)
  PROVE  /\ at[j] \in 0 .. UINT8 - 1 /\ at[j] <= Len(d) /\ Len(d) < UINT8
         /\ j = Len(objects) <=> at[j] = Len(d)
         /\ j < Len(objects) =>
              /\ ObjectAt(d, at[j], objects[j + 1], at[j + 1])
              /\ objects[j + 1] \in Objects /\ Sized(objects[j + 1])
              /\ j + 1 \in 0 .. Len(objects) /\ j + 1 \in 1 .. Len(objects)
<1>1. PICK n, m : n = Len(objects) /\ m = Len(d)
  OBVIOUS
<1>2. objects \in Seq(Objects) /\ d \in Seq(Bytes) /\ m \in 1 .. UINT8 - 1
      /\ \A i \in 1 .. n : Sized(objects[i])
  BY <1>1, Zenon DEF Block
<1>3. n \in Nat /\ m \in Nat /\ m < 256
  <2>1. m \in Nat /\ m < 256
    <3>1. m \in 1 .. UINT8 - 1
      BY <1>2, Zenon
    <3> QED BY <3>1 DEF UINT8
  <2>2. n \in Nat
    BY <1>1, <1>2, LenProperties, Zenon
  <2> QED BY <2>1, <2>2
<1>4. /\ at \in [0 .. n -> Nat] /\ at[n] = m
      /\ \A i \in 1 .. n : ObjectAt(d, at[i - 1], objects[i], at[i])
  BY <1>1, Zenon DEF TemplateAt
<1>5. PICK a : a = at[j] /\ a \in Nat
  BY <1>1, <1>4
<1>6. ASSUME j < n
      PROVE  /\ ObjectAt(d, a, objects[j + 1], at[j + 1])
             /\ objects[j + 1] \in Objects /\ Sized(objects[j + 1])
             /\ j + 1 \in 0 .. n /\ j + 1 \in 1 .. n /\ a < m
  <2>1. PICK i : i = j + 1
    OBVIOUS
  <2>2. i \in 1 .. n /\ i - 1 = j /\ i \in 0 .. n
    BY <1>1, <1>3, <1>6, <2>1
  <2>3. ObjectAt(d, at[i - 1], objects[i], at[i])
    BY <1>4, <2>2, Zenon
  <2>4. ObjectAt(d, a, objects[i], at[i])
    BY <1>5, <2>2, <2>3, Zenon
  <2>5. objects[i] \in Objects /\ Sized(objects[i])
    BY <1>1, <1>2, <2>2, ElementOfSeq, Zenon
  <2>6. a < at[i] /\ at[i] <= Len(d) /\ at[i] \in Nat
    <3>1. objects[i].value \in Seq(Bytes)
      BY <2>5 DEF Objects
    <3>2. PICK l : l = Len(objects[i].value) /\ l \in Nat
      BY <3>1, LenProperties, Zenon
    <3>3. at[i] = a + 1 + Header(l) + l /\ at[i] <= Len(d)
      BY <2>4, <3>2, Zenon DEF ObjectAt
    <3>4. Header(l) \in {1, 2}
      BY DEF Header
    <3>5. l \in Nat
      BY <3>2, Zenon
    <3>6. ASSUME NEW x \in Nat, NEW h \in {1, 2}, NEW k \in Nat
          PROVE  x < x + 1 + h + k /\ x + 1 + h + k \in Nat
      OBVIOUS
    <3> QED BY <1>5, <3>3, <3>4, <3>5, <3>6, Zenon
  <2>7. a < m
    BY <1>1, <1>3, <1>5, <2>6
  <2> QED BY <2>1, <2>2, <2>4, <2>5, <2>7, Zenon
<1>7. j \in 0 .. n
  BY <1>1, Zenon
<1>8. j = n <=> a = m
  <2>1. j = n => a = m
    BY <1>4, <1>5, Zenon
  <2>2. j # n => j < n
    BY <1>3, <1>7
  <2>3. a < m => a # m
    BY <1>3, <1>5
  <2> QED BY <1>6, <2>1, <2>2, <2>3, Zenon
<1>9. a <= m
  <2>1. j = n \/ j < n
    BY <1>3, <1>7
  <2> QED BY <1>3, <1>5, <1>6, <1>8, <2>1
<1>10. a \in 0 .. UINT8 - 1
  <2>1. a \in Nat /\ a < 256
    <3>1. a \in Nat
      BY <1>5, Zenon
    <3> QED BY <1>3, <1>9, <3>1
  <2>2. \A x : x \in Nat /\ x < 256 => x \in 0 .. UINT8 - 1
    BY DEF UINT8
  <2> QED BY <2>1, <2>2, Zenon
<1>11. m < UINT8
  BY <1>3 DEF UINT8
<1> QED BY <1>1, <1>5, <1>6, <1>8, <1>9, <1>10, <1>11, Zenon

\* The bytes of a description
TwoOf(S, v) == v \in Seq(S) /\ Len(v) = 2

\* A sequence of two is its two elements.
LEMMA TwoAre ==
  ASSUME NEW S, NEW v, TwoOf(S, v) PROVE v[1] \in S /\ v[2] \in S /\ v = <<v[1], v[2]>>
<1>1. v \in Seq(S) /\ Len(v) = 2
  BY Zenon DEF TwoOf
<1> QED BY <1>1

\* A number of two bytes is taken apart again.
LEMMA NumberParts ==
  ASSUME NEW v, TwoOf(Bytes, v)
  PROVE  High(Number(v)) = v[1] /\ Low(Number(v)) = v[2] /\ v[1] \in 0 .. 255 /\ v[2] \in 0 .. 255
<1>1. PICK x, y : x = v[1] /\ y = v[2] /\ x \in Bytes /\ y \in Bytes
  BY TwoAre
<1>2. x \in Int /\ 0 <= x /\ x <= 255 /\ y \in Int /\ 0 <= y /\ y <= 255
  BY <1>1, ByteRange, Zenon
<1>3. PICK z \in Int : z = 256 * x + y
  BY <1>2
<1>4. PICK q, m : q = z \div 256 /\ m = z % 256 /\ q \in Int /\ m \in 0 .. 255 /\ z = 256 * q + m
  OBVIOUS
<1>5. q = x /\ m = y
  BY <1>2, <1>3, <1>4
<1>6. z # Unset
  BY <1>2, <1>3 DEF Unset
<1>7. z = Number(v)
  BY <1>1, <1>3, Zenon DEF Number
<1>8. High(z) = x /\ Low(z) = y
  <2>1. z \div 256 = x /\ z % 256 = y
    BY <1>4, <1>5, Zenon
  <2> QED BY <1>6, <2>1, Zenon DEF High, Low
<1> QED BY <1>1, <1>7, <1>8, ByteRange, Zenon

\* The status that the loop leaves, as the fifteen bytes of a description
FifteenOf(st, rest) ==
    [i \in 1 .. 15 |-> LET b == To2gSimStatus(st)[i] IN IF b = Unset THEN rest ELSE b]
\* A field as a byte of it
Shown(rest, field, byte) == byte = IF field = Unset THEN rest ELSE field

\* Which field is which byte
LEMMA FifteenAre ==
  ASSUME NEW st, NEW rest, NEW f, f = FifteenOf(st, rest)
  PROVE  /\ \A i \in {1, 2} \cup 8 .. 12 : f[i] = 0
         /\ f[13] = 2
         /\ Shown(rest, High(st.fileSize), f[3]) /\ Shown(rest, Low(st.fileSize), f[4])
         /\ Shown(rest, High(st.fileId), f[5]) /\ Shown(rest, Low(st.fileId), f[6])
         /\ Shown(rest, st.fileType, f[7]) /\ Shown(rest, st.efStructure, f[14])
         /\ Shown(rest, IF st.efStructure \in {1, 3} THEN st.recordLength ELSE 0, f[15])
         /\ f = [i \in 1 .. 15 |-> f[i]]
<1>1. PICK x1 : x1 = High(st.fileSize)
  OBVIOUS
<1>2. PICK x2 : x2 = Low(st.fileSize)
  OBVIOUS
<1>3. PICK x3 : x3 = High(st.fileId)
  OBVIOUS
<1>4. PICK x4 : x4 = Low(st.fileId)
  OBVIOUS
<1>5. PICK x5 : x5 = st.fileType
  OBVIOUS
<1>6. PICK x6 : x6 = st.efStructure
  OBVIOUS
<1>7. PICK x7 : x7 = IF st.efStructure \in {1, 3} THEN st.recordLength ELSE 0
  OBVIOUS
<1>8. PICK k : k = <<0, 0, x1, x2, x3, x4, x5, 0, 0, 0, 0, 0, 2, x6, x7>>
  OBVIOUS
<1>9. To2gSimStatus(st) = k
  BY <1>1, <1>2, <1>3, <1>4, <1>5, <1>6, <1>7, <1>8, Zenon DEF To2gSimStatus
<1>10. \A i \in 1 .. 15 : Shown(rest, k[i], f[i])
  BY <1>9, Zenon DEF FifteenOf, Shown
<1>11. /\ k[1] = 0 /\ k[2] = 0 /\ k[3] = x1 /\ k[4] = x2 /\ k[5] = x3 /\ k[6] = x4 /\ k[7] = x5
       /\ k[8] = 0 /\ k[9] = 0 /\ k[10] = 0 /\ k[11] = 0 /\ k[12] = 0 /\ k[13] = 2
       /\ k[14] = x6 /\ k[15] = x7
  BY <1>8
<1>12. /\ Shown(rest, x1, f[3]) /\ Shown(rest, x2, f[4]) /\ Shown(rest, x3, f[5])
       /\ Shown(rest, x4, f[6]) /\ Shown(rest, x5, f[7]) /\ Shown(rest, x6, f[14])
       /\ Shown(rest, x7, f[15]) /\ Shown(rest, 2, f[13])
  BY <1>10, <1>11
<1>13. \A i \in {1, 2} \cup 8 .. 12 : Shown(rest, 0, f[i])
  BY <1>10, <1>11
<1>14. 0 # Unset /\ 2 # Unset
  BY DEF Unset
<1>15. f[13] = 2 /\ \A i \in {1, 2} \cup 8 .. 12 : f[i] = 0
  BY <1>12, <1>13, <1>14, Zenon DEF Shown
<1>16. f = [i \in 1 .. 15 |-> f[i]]
  BY Zenon DEF FifteenOf
<1> QED BY <1>1, <1>2, <1>3, <1>4, <1>5, <1>6, <1>7, <1>12, <1>15, <1>16, Zenon

\* What a field or the stack holds is a byte.
LEMMA ShownIsByte ==
  ASSUME NEW rest \in {0, 255}, NEW field \in Octets, NEW b, Shown(rest, field, b)
  PROVE  b \in Bytes
BY DEF Shown, Unset, Octets, Bytes, UINT8

\* ... also a half of a field of two bytes.
LEMMA HalfIsByte ==
  ASSUME NEW field \in Words
  PROVE  High(field) \in Octets /\ Low(field) \in Octets
<1>1. CASE field = Unset
  <2>1. Unset \in Octets
    BY DEF Octets
  <2> QED BY <1>1, <2>1, Zenon DEF High, Low
<1>2. CASE field # Unset
  <2>1. PICK b : b = UINT16 - 1
    OBVIOUS
  <2>2. field \in 0 .. b
    BY <1>2, <2>1, Zenon DEF Words
  <2>3. b \in Int /\ b <= 65535
    BY <2>1 DEF UINT16
  <2>4. PICK x \in Int : x = field /\ 0 <= x /\ x <= b
    BY <2>2, <2>3
  <2>5. PICK q, m : q = x \div 256 /\ m = x % 256 /\ q \in Int /\ m \in 0 .. 255 /\ x = 256 * q + m
    OBVIOUS
  <2>6. q \in 0 .. 255
    BY <2>3, <2>4, <2>5
  <2>7. q \in Octets /\ m \in Octets
    BY <2>5, <2>6 DEF Octets, UINT8
  <2>8. High(field) = q /\ Low(field) = m
    BY <1>2, <2>4, <2>5, Zenon DEF High, Low
  <2> QED BY <2>7, <2>8, Zenon
<1> QED BY <1>1, <1>2

\* So they are fifteen bytes, whatever has been decoded.
LEMMA FifteenBytes ==
  ASSUME NEW st \in Statuses, NEW rest \in {0, 255}
  PROVE  FifteenOf(st, rest) \in Seq(Bytes) /\ Len(FifteenOf(st, rest)) = 15
<1>1. PICK f : f = FifteenOf(st, rest)
  OBVIOUS
<1>2. /\ \A i \in {1, 2} \cup 8 .. 12 : f[i] = 0
      /\ f[13] = 2
      /\ Shown(rest, High(st.fileSize), f[3]) /\ Shown(rest, Low(st.fileSize), f[4])
      /\ Shown(rest, High(st.fileId), f[5]) /\ Shown(rest, Low(st.fileId), f[6])
      /\ Shown(rest, st.fileType, f[7]) /\ Shown(rest, st.efStructure, f[14])
      /\ Shown(rest, IF st.efStructure \in {1, 3} THEN st.recordLength ELSE 0, f[15])
      /\ f = [i \in 1 .. 15 |-> f[i]]
  BY <1>1, FifteenAre
<1>3. /\ st.fileSize \in Words /\ st.fileId \in Words /\ st.recordLength \in Octets
      /\ st.fileType \in Types /\ st.efStructure \in Structures
  <2>1. st \in Records(Words, Words, Types, Structures, Octets, Numbers, Numbers)
    BY Zenon DEF Statuses
  <2> QED BY <2>1 DEF Records
<1>4. f[3] \in Bytes /\ f[4] \in Bytes /\ f[5] \in Bytes /\ f[6] \in Bytes
  <2>1. High(st.fileSize) \in Octets /\ Low(st.fileSize) \in Octets
    BY <1>3, HalfIsByte
  <2>2. High(st.fileId) \in Octets /\ Low(st.fileId) \in Octets
    BY <1>3, HalfIsByte
  <2> QED BY <1>2, <2>1, <2>2, ShownIsByte
<1>5. f[7] \in Bytes /\ f[14] \in Bytes
  <2>1. st.fileType \in Octets /\ st.efStructure \in Octets
    BY <1>3 DEF Types, Structures, Octets, UINT8
  <2> QED BY <1>2, <2>1, ShownIsByte
<1>6. f[15] \in Bytes
  <2>1. PICK record : record = IF st.efStructure \in {1, 3} THEN st.recordLength ELSE 0
    OBVIOUS
  <2>2. record \in Octets
    BY <1>3, <2>1 DEF Octets, UINT8
  <2>3. Shown(rest, record, f[15])
    BY <1>2, <2>1, Zenon
  <2> QED BY <2>2, <2>3, ShownIsByte
<1>7. 0 \in Bytes /\ 2 \in Bytes
  BY DEF Bytes, UINT8
<1>8. \A i \in 1 .. 15 : f[i] \in Bytes
  BY <1>2, <1>4, <1>5, <1>6, <1>7
<1>9. f \in Seq(Bytes) /\ Len(f) = 15
  <2>1. [i \in 1 .. 15 |-> f[i]] \in Seq(Bytes) /\ Len([i \in 1 .. 15 |-> f[i]]) = 15
    BY <1>8
  <2> QED BY <1>2, <2>1, Zenon
<1> QED BY <1>1, <1>9, Zenon

\* The value of an object that is there
LEMMA ValueOf ==
  ASSUME NEW d, NEW os, Block(d, os), NEW tag, Has(os, tag)
  PROVE  \E i \in 1 .. Len(os) :
           os[i].tag = tag /\ Val(os, tag) = os[i].value /\ Sized(os[i]) /\ os[i] \in Objects
<1>1. os \in Seq(Objects) /\ \A i \in 1 .. Len(os) : Sized(os[i])
  BY Zenon DEF Block
<1>2. PICK i : i = CHOOSE j \in DOMAIN os : os[j].tag = tag
  OBVIOUS
<1>3. i \in DOMAIN os /\ os[i].tag = tag
  BY <1>2, Zenon DEF Has
<1>4. i \in 1 .. Len(os)
  <2>1. DOMAIN os = 1 .. Len(os)
    BY <1>1, LenProperties, Zenon
  <2> QED BY <1>3, <2>1, Zenon
<1>5. Val(os, tag) = os[i].value
  BY <1>2, Zenon DEF Val
<1>6. os[i] \in Objects
  BY <1>1, <1>4, ElementOfSeq
<1> QED BY <1>1, <1>3, <1>4, <1>5, <1>6, Zenon

\* The value of a size or an identifier has two bytes.
LEMMA TwoByteValue ==
  ASSUME NEW o \in Objects, Sized(o), o.tag \in {128, 131} PROVE TwoOf(Bytes, o.value)
<1>1. o.value \in Seq(Bytes)
  BY DEF Objects
<1>2. Len(o.value) = 2
  BY Zenon DEF Sized
<1> QED BY <1>1, <1>2, Zenon DEF TwoOf

\* What the bytes show where the status has learned a number of two bytes, ...
LEMMA NumberShown ==
  ASSUME NEW v, TwoOf(Bytes, v), NEW rest, NEW x, NEW y,
         Shown(rest, High(Number(v)), x), Shown(rest, Low(Number(v)), y)
  PROVE  x = v[1] /\ y = v[2]
<1>1. High(Number(v)) = v[1] /\ Low(Number(v)) = v[2] /\ v[1] \in 0 .. 255 /\ v[2] \in 0 .. 255
  BY NumberParts
<1>2. \A b \in 0 .. 255 : b # Unset
  BY DEF Unset
<1> QED BY <1>1, <1>2, Zenon DEF Shown

\* ... and the descriptor of an EF.
StructureOf(t) == IF t = 65 THEN 0 ELSE IF t = 66 THEN 1 ELSE 3
LEMMA StructureShown ==
  ASSUME NEW t \in {65, 66, 70}, NEW rest, NEW x, Shown(rest, EfStructure(t, Unset), x)
  PROVE  EfStructure(t, Unset) = StructureOf(t) /\ x = StructureOf(t)
<1>1. EfStructure(t, Unset) = StructureOf(t)
  BY DEF EfStructure, StructureOf
<1>2. StructureOf(t) # Unset
  BY DEF StructureOf, Unset
<1> QED BY <1>1, <1>2, Zenon DEF Shown

\* What the descriptor v of an EF tells of the bytes
EfShown(v, f) == /\ f[7] = 4 /\ f[14] = StructureOf(v[1])
                 /\ f[15] = IF v[1] = 65 THEN 0 ELSE v[4]
LEMMA EfTold ==
  ASSUME NEW d, NEW os, Block(d, os), NEW st, NEW rest,
         \A i \in 1 .. Len(os) : Knows(st, os[i]), DescribesEf(os)
  PROVE  EfShown(Val(os, 130), FifteenOf(st, rest))
<1>1. /\ Has(os, 130) /\ Val(os, 130)[1] \in {65, 66, 70}
      /\ Val(os, 130)[1] # 65 => Len(Val(os, 130)) = 5
  BY Zenon DEF DescribesEf
<1>2. PICK i \in 1 .. Len(os) :
        os[i].tag = 130 /\ Val(os, 130) = os[i].value /\ Sized(os[i]) /\ os[i] \in Objects
  BY <1>1, ValueOf
<1>3. PICK v : v = Val(os, 130)
  OBVIOUS
<1>4. v[1] \in {65, 66, 70} /\ (v[1] # 65 => Len(v) = 5)
  BY <1>1, <1>3, Zenon
<1>5. /\ st.efStructure = EfStructure(v[1], Unset) /\ st.fileType = 4
      /\ st.recordLength = IF Len(v) = 5 THEN v[4] ELSE 0
  <2>1. Knows(st, os[i])
    BY Zenon
  <2> QED BY <1>2, <1>3, <1>4, <2>1, Zenon DEF Knows
<1>6. v \in Seq(Bytes)
  <2>1. PICK o : o = os[i] /\ o \in Objects
    BY <1>2, Zenon
  <2>2. o.value \in Seq(Bytes)
    BY <2>1, Zenon DEF Objects
  <2> QED BY <1>2, <1>3, <2>1, <2>2, Zenon
<1>7. PICK f : f = FifteenOf(st, rest)
  OBVIOUS
<1>8. /\ Shown(rest, st.fileType, f[7]) /\ Shown(rest, st.efStructure, f[14])
      /\ Shown(rest, IF st.efStructure \in {1, 3} THEN st.recordLength ELSE 0, f[15])
  BY <1>7, FifteenAre
<1>9. f[7] = 4
  <2>1. 4 # Unset
    BY DEF Unset
  <2> QED BY <1>5, <1>8, <2>1, Zenon DEF Shown
<1>10. st.efStructure = StructureOf(v[1]) /\ f[14] = StructureOf(v[1])
  <2>1. PICK t : t = v[1]
    OBVIOUS
  <2>2. t \in {65, 66, 70} /\ st.efStructure = EfStructure(t, Unset)
    BY <1>4, <1>5, <2>1, Zenon
  <2>3. Shown(rest, EfStructure(t, Unset), f[14])
    BY <1>8, <2>2, Zenon
  <2>4. EfStructure(t, Unset) = StructureOf(t) /\ f[14] = StructureOf(t)
    BY <2>2, <2>3, StructureShown
  <2> QED BY <2>1, <2>2, <2>4, Zenon
<1>11. f[15] = IF v[1] = 65 THEN 0 ELSE v[4]
  <2>1. CASE v[1] = 65
    <3>1. StructureOf(v[1]) \notin {1, 3}
      BY <2>1 DEF StructureOf
    <3>2. Shown(rest, 0, f[15])
      BY <1>8, <1>10, <3>1, Zenon
    <3>3. 0 # Unset
      BY DEF Unset
    <3> QED BY <2>1, <3>2, <3>3, Zenon DEF Shown
  <2>2. CASE v[1] # 65
    <3>1. StructureOf(v[1]) \in {1, 3}
      BY <2>2 DEF StructureOf
    <3>2. Len(v) = 5 /\ st.recordLength = v[4]
      BY <1>4, <1>5, <2>2, Zenon
    <3>3. Shown(rest, v[4], f[15])
      BY <1>8, <1>10, <3>1, <3>2, Zenon
    <3>4. v[4] \in Bytes
      <4>1. 4 \in 1 .. Len(v)
        BY <3>2
      <4> QED BY <1>6, <4>1, ElementOfSeq
    <3>5. v[4] # Unset
      <4>1. \A b \in Bytes : b # Unset
        BY DEF Bytes, UINT8, Unset
      <4> QED BY <3>4, <4>1, Zenon
    <3> QED BY <2>2, <3>3, <3>5, Zenon DEF Shown
  <2> QED BY <2>1, <2>2
<1> QED BY <1>3, <1>7, <1>9, <1>10, <1>11, Zenon DEF EfShown

\* The size and the identifier
LEMMA SizeTold ==
  ASSUME NEW d, NEW os, Block(d, os), NEW st, NEW rest,
         \A i \in 1 .. Len(os) : Knows(st, os[i])
  PROVE  /\ Has(os, 128) => /\ FifteenOf(st, rest)[3] = Val(os, 128)[1]
                            /\ FifteenOf(st, rest)[4] = Val(os, 128)[2]
         /\ Has(os, 131) => /\ FifteenOf(st, rest)[5] = Val(os, 131)[1]
                            /\ FifteenOf(st, rest)[6] = Val(os, 131)[2]
<1>1. PICK f : f = FifteenOf(st, rest)
  OBVIOUS
<1>2. /\ Shown(rest, High(st.fileSize), f[3]) /\ Shown(rest, Low(st.fileSize), f[4])
      /\ Shown(rest, High(st.fileId), f[5]) /\ Shown(rest, Low(st.fileId), f[6])
  BY <1>1, FifteenAre
<1>3. ASSUME Has(os, 128) PROVE f[3] = Val(os, 128)[1] /\ f[4] = Val(os, 128)[2]
  <2>1. PICK i \in 1 .. Len(os) :
          os[i].tag = 128 /\ Val(os, 128) = os[i].value /\ Sized(os[i]) /\ os[i] \in Objects
    BY <1>3, ValueOf
  <2>2. TwoOf(Bytes, Val(os, 128))
    <3>1. os[i].tag \in {128, 131}
      BY <2>1
    <3> QED BY <2>1, <3>1, TwoByteValue, Zenon
  <2>3. st.fileSize = Number(Val(os, 128))
    <3>1. Knows(st, os[i])
      BY Zenon
    <3> QED BY <2>1, <3>1, Zenon DEF Knows
  <2>4. PICK v : v = Val(os, 128)
    OBVIOUS
  <2>5. Shown(rest, High(Number(v)), f[3]) /\ Shown(rest, Low(Number(v)), f[4])
    BY <1>2, <2>3, <2>4, Zenon
  <2>6. TwoOf(Bytes, v)
    BY <2>2, <2>4, Zenon
  <2>7. f[3] = v[1] /\ f[4] = v[2]
    BY <2>5, <2>6, NumberShown
  <2> QED BY <2>4, <2>7, Zenon
<1>4. ASSUME Has(os, 131) PROVE f[5] = Val(os, 131)[1] /\ f[6] = Val(os, 131)[2]
  <2>1. PICK i \in 1 .. Len(os) :
          os[i].tag = 131 /\ Val(os, 131) = os[i].value /\ Sized(os[i]) /\ os[i] \in Objects
    BY <1>4, ValueOf
  <2>2. TwoOf(Bytes, Val(os, 131))
    <3>1. os[i].tag \in {128, 131}
      BY <2>1
    <3> QED BY <2>1, <3>1, TwoByteValue, Zenon
  <2>3. st.fileId = Number(Val(os, 131))
    <3>1. Knows(st, os[i])
      BY Zenon
    <3> QED BY <2>1, <3>1, Zenon DEF Knows
  <2>4. PICK v : v = Val(os, 131)
    OBVIOUS
  <2>5. Shown(rest, High(Number(v)), f[5]) /\ Shown(rest, Low(Number(v)), f[6])
    BY <1>2, <2>3, <2>4, Zenon
  <2>6. TwoOf(Bytes, v)
    BY <2>2, <2>4, Zenon
  <2>7. f[5] = v[1] /\ f[6] = v[2]
    BY <2>5, <2>6, NumberShown
  <2> QED BY <2>4, <2>7, Zenon
<1> QED BY <1>1, <1>3, <1>4, Zenon

\* One byte of what a file is to be described as
ByteOf(os, i) ==
    CASE i \in {3, 4} -> Val(os, 128)[i - 2]
      [] i \in {5, 6} -> Val(os, 131)[i - 4]
      [] i = 7        -> 4
      [] i = 13       -> 2
      [] i = 14       -> IF Val(os, 130)[1] = 65 THEN 0 ELSE IF Val(os, 130)[1] = 66 THEN 1 ELSE 3
      [] i = 15       -> IF Val(os, 130)[1] = 65 THEN 0 ELSE Val(os, 130)[4]
      [] OTHER        -> 0

\* The description of a file holds what its objects have told.
LEMMA DescriptionTold ==
  ASSUME NEW d, NEW os, Block(d, os), NEW st, NEW rest,
         \A i \in 1 .. Len(os) : Knows(st, os[i]), NEW i \in Told(os)
  PROVE  FifteenOf(st, rest)[i] = Description(os)[i]
<1>1. Description(os)[i] = ByteOf(os, i)
  BY Zenon DEF Description, ByteOf
<1>2. PICK f : f = FifteenOf(st, rest)
  OBVIOUS
<1>3. f[13] = 2 /\ \A k \in {1, 2} \cup 8 .. 12 : f[k] = 0
  BY <1>2, FifteenAre
<1>4. \/ i \in {1, 2} \cup 8 .. 13 \/ (i \in {3, 4} /\ Has(os, 128))
      \/ (i \in {5, 6} /\ Has(os, 131)) \/ (i \in {7, 14, 15} /\ DescribesEf(os))
  BY DEF Told
<1>5. CASE i \in {1, 2} \cup 8 .. 12
  <2>1. ByteOf(os, i) = 0
    BY <1>5 DEF ByteOf
  <2> QED BY <1>1, <1>2, <1>3, <1>5, <2>1, Zenon
<1>6. CASE i = 13
  <2>1. ByteOf(os, 13) = 2
    BY DEF ByteOf
  <2> QED BY <1>1, <1>2, <1>3, <1>6, <2>1, Zenon
<1>7. CASE i \in {3, 4} /\ Has(os, 128)
  <2>1. ByteOf(os, 3) = Val(os, 128)[1] /\ ByteOf(os, 4) = Val(os, 128)[2]
    BY DEF ByteOf
  <2>2. f[3] = Val(os, 128)[1] /\ f[4] = Val(os, 128)[2]
    BY <1>2, <1>7, SizeTold
  <2>3. i = 3 \/ i = 4
    BY <1>7
  <2> QED BY <1>1, <1>2, <2>1, <2>2, <2>3, Zenon
<1>8. CASE i \in {5, 6} /\ Has(os, 131)
  <2>1. ByteOf(os, 5) = Val(os, 131)[1] /\ ByteOf(os, 6) = Val(os, 131)[2]
    BY DEF ByteOf
  <2>2. f[5] = Val(os, 131)[1] /\ f[6] = Val(os, 131)[2]
    BY <1>2, <1>8, SizeTold
  <2>3. i = 5 \/ i = 6
    BY <1>8
  <2> QED BY <1>1, <1>2, <2>1, <2>2, <2>3, Zenon
<1>9. CASE i \in {7, 14, 15} /\ DescribesEf(os)
  <2>1. PICK v : v = Val(os, 130)
    OBVIOUS
  <2>2. /\ ByteOf(os, 7) = 4 /\ ByteOf(os, 14) = StructureOf(v[1])
        /\ ByteOf(os, 15) = IF v[1] = 65 THEN 0 ELSE v[4]
    BY <2>1 DEF ByteOf, StructureOf
  <2>3. f[7] = 4 /\ f[14] = StructureOf(v[1]) /\ f[15] = IF v[1] = 65 THEN 0 ELSE v[4]
    <3>1. EfShown(Val(os, 130), FifteenOf(st, rest))
      BY <1>9, EfTold
    <3>2. EfShown(v, f)
      BY <1>2, <2>1, <3>1, Zenon
    <3> QED BY <3>2, Zenon DEF EfShown
  <2>4. i = 7 \/ i = 14 \/ i = 15
    BY <1>9
  <2> QED BY <1>1, <1>2, <2>2, <2>3, <2>4, Zenon
<1>10. i = 13 \/ i \in {1, 2} \cup 8 .. 12 \/ i \notin {1, 2} \cup 8 .. 13
  OBVIOUS
<1> QED BY <1>4, <1>5, <1>6, <1>7, <1>8, <1>9, <1>10, Zenon

\* ... and so does its text.
LEMMA TextDescribes ==
  ASSUME NEW d, NEW os, Block(d, os), NEW st \in Statuses, NEW rest \in {0, 255},
         \A i \in 1 .. Len(os) : Knows(st, os[i])
  PROVE  Describes(vgHexDataToString(FifteenOf(st, rest)), os)
<1>1. PICK f : f = FifteenOf(st, rest)
  OBVIOUS
<1>2. f \in Seq(Bytes) /\ Len(f) = 15
  BY <1>1, FifteenBytes
<1>3. PICK t : t = vgHexDataToString(f)
  OBVIOUS
<1>4. vgStringToHexData(t) = f
  BY <1>2, <1>3, HexBack, Zenon
<1>5. \A i \in Told(os) : f[i] = Description(os)[i]
  BY <1>1, DescriptionTold
<1>6. /\ t = vgHexDataToString(vgStringToHexData(t)) /\ Len(vgStringToHexData(t)) = 15
      /\ \A i \in Told(os) : vgStringToHexData(t)[i] = Description(os)[i]
  <2>1. t = vgHexDataToString(vgStringToHexData(t))
    BY <1>3, <1>4, Zenon
  <2>2. Len(vgStringToHexData(t)) = 15
    BY <1>2, <1>4, Zenon
  <2>3. \A i \in Told(os) : vgStringToHexData(t)[i] = Description(os)[i]
    BY <1>4, <1>5, Zenon
  <2> QED BY <2>1, <2>2, <2>3, Zenon
<1>7. Describes(t, os)
  BY <1>6, Zenon DEF Describes
<1> QED BY <1>1, <1>3, <1>7, Zenon

-----------------------------------------------------------------------------
(* The line of a registration                                              *)

\* Its fields, of which number p is the one before the registration's state
Before(r) == IF r.n THEN 1 ELSE 0
FieldsIn(r) == 1 + Before(r) + (IF r.cell THEN 2 ELSE 0) + (IF r.act THEN 1 ELSE 0)
\* A registration, laid out as its fields
RegLaid(r, s, F, at) ==
    /\ LineOf(Chars, s, F, <<>>, at) /\ Len(F) = FieldsIn(r)
    /\ \A k \in 1 .. Len(F) : NoComma(F[k])
    /\ r.n => IsDecimal(F[1], 2)
    /\ IsDecimal(F[Before(r) + 1], r.stat)
    /\ r.cell => /\ IsHexNumber(F[Before(r) + 2], r.lac)
                 /\ IsHexNumber(F[Before(r) + 3], r.cid)

\* The fields whose value the model writes out are decimal.
LEMMA OneDigit ==
  <<"2">> = Decimal(2) /\ <<"7">> = Decimal(7)
<1>1. Digit(2) = "2" /\ Digit(7) = "7"
  BY DEF Digit, Digits
<1>2. Decimal(2) = <<Digit(2)>> /\ Decimal(7) = <<Digit(7)>>
  BY DEF Decimal
<1> QED BY <1>1, <1>2, Zenon

\* A quoted number of two bytes is a field without a comma, ...
LEMMA HexWritten ==
  ASSUME NEW b \in Bytes \X Bytes
  PROVE  Written(Quoted(vgHexDataToString(b)))
<1>1. b \in Seq(Bytes) /\ Len(b) = 2
  <2>1. b = <<b[1], b[2]>> /\ b[1] \in Bytes /\ b[2] \in Bytes
    OBVIOUS
  <2>2. <<b[1], b[2]>> \in Seq(Bytes) /\ Len(<<b[1], b[2]>>) = 2
    BY <2>1
  <2> QED BY <2>1, <2>2, Zenon
<1>2. PICK h : h = vgHexDataToString(b)
  OBVIOUS
<1>3. HexOf(h, b)
  BY <1>1, <1>2, HexBack
<1>4. h \in Seq(Chars) /\ PlainText(h)
  BY <1>1, <1>3 DEF HexOf
<1>5. NoComma(h)
  BY <1>4, Zenon DEF PlainText, NoComma
<1>6. Written(Quoted(h))
  BY <1>4, <1>5, QuotedWritten
<1> QED BY <1>2, <1>6, Zenon

\* ... and so is a decimal one.
LEMMA DecimalHasNoComma ==
  ASSUME NEW t \in Text, NEW n, IsDecimal(t, n) PROVE NoComma(t)
<1>1. n \in 0 .. 999 /\ t = Decimal(n)
  BY Zenon DEF IsDecimal
<1>2. PlainText(t)
  BY <1>1, DecimalRead, Zenon
<1> QED BY <1>2, Zenon DEF PlainText, NoComma

\* The line of a registration is laid out so.
LEMMA RegLineIs ==
  ASSUME NEW r \in RegReplies PROVE \E F, at : RegLaid(r, Line(r), F, at)
<1>1. IsRegReply(r)
  BY RepliesAssumption, Zenon
<1>2. /\ r.kind = "CREG" /\ r.stat \in 0 .. 999 /\ {r.n, r.cell, r.act} \subseteq BOOLEAN
      /\ r.lac \in Bytes \X Bytes /\ r.cid \in Bytes \X Bytes
  BY <1>1, Zenon DEF IsRegReply
<1>3. PICK n, cell, act : n = r.n /\ cell = r.cell /\ act = r.act
  OBVIOUS
<1>4. n \in BOOLEAN /\ cell \in BOOLEAN /\ act \in BOOLEAN
  BY <1>2, <1>3, Zenon
<1>5. PICK x, y, t, l, c :
        /\ x = <<"2">> /\ y = <<"7">> /\ t = Decimal(r.stat)
        /\ l = Quoted(vgHexDataToString(r.lac)) /\ c = Quoted(vgHexDataToString(r.cid))
  OBVIOUS
<1>6. IsDecimal(x, 2) /\ IsDecimal(y, 7) /\ IsDecimal(t, r.stat)
  <2>1. 2 \in 0 .. 999 /\ 7 \in 0 .. 999
    OBVIOUS
  <2>2. x = Decimal(2) /\ y = Decimal(7)
    BY <1>5, OneDigit, Zenon
  <2>3. IsDecimal(x, 2) /\ IsDecimal(y, 7)
    BY <2>1, <2>2, Zenon DEF IsDecimal
  <2>4. IsDecimal(t, r.stat)
    BY <1>2, <1>5, Zenon DEF IsDecimal
  <2> QED BY <2>3, <2>4, Zenon
<1>7. IsHexNumber(l, r.lac) /\ IsHexNumber(c, r.cid)
  BY <1>2, <1>5, Zenon DEF IsHexNumber
<1>8. Field(x) /\ Field(y) /\ Field(t) /\ Field(l) /\ Field(c) /\ NoComma(l) /\ NoComma(c)
  <2>1. Field(x) /\ Field(y) /\ Field(t)
    BY <1>6, DecimalWritten, ZenonT(60) DEF IsDecimal
  <2>2. Written(l) /\ Written(c)
    BY <1>2, <1>5, HexWritten, Zenon
  <2> QED BY <2>1, <2>2, Zenon DEF Written
<1>9. PICK F : HasParts(F, n, cell, act, x, t, l, c, y)
  BY Zenon DEF HasParts
<1>10. LET p == IF n THEN 1 ELSE 0 IN
       /\ F \in Seq({x, t, l, c, y})
       /\ Len(F) = 1 + p + (IF cell THEN 2 ELSE 0) + (IF act THEN 1 ELSE 0)
       /\ F[p + 1] = t /\ (n => F[1] = x)
       /\ cell => F[p + 2] = l /\ F[p + 3] = c
  BY <1>4, <1>9, FourParts
<1>11. /\ F \in Seq({x, t, l, c, y}) /\ Len(F) = FieldsIn(r)
       /\ F[Before(r) + 1] = t /\ (r.n => F[1] = x)
       /\ r.cell => F[Before(r) + 2] = l /\ F[Before(r) + 3] = c
  BY <1>3, <1>10, Zenon DEF Before, FieldsIn
<1>12. Len(F) # 0
  <2>1. Len(F) = 1 + (IF n THEN 1 ELSE 0) + (IF cell THEN 2 ELSE 0) + (IF act THEN 1 ELSE 0)
    BY <1>10, Zenon
  <2> QED BY <2>1
<1>13. \A k \in 1 .. Len(F) : F[k] \in {x, t, l, c, y}
  BY <1>11, ElementOfSeq
<1>14. F \in Seq(Seq(Chars)) /\ \A k \in 1 .. Len(F) : Field(F[k])
  <2>1. \A k \in 1 .. Len(F) : Field(F[k])
    BY <1>8, <1>13, Zenon
  <2>2. {x, t, l, c, y} \subseteq Seq(Chars)
    BY <1>8, Zenon DEF Field
  <2>3. F \in Seq(Seq(Chars))
    BY <1>11, <2>2, SeqMonotonic, Zenon
  <2> QED BY <2>1, <2>3, Zenon
<1>15. PICK s : s = Line(r) /\ s \in Text
  BY LineText
<1>16. PICK gap : gap = <<>> /\ IsGap(gap)
  BY NoGap
<1>17. s = Joined(F, gap)
  <2>1. Line(r) = RegLine(r)
    BY <1>2 DEF Line
  <2>2. RegLine(r) = Joined((IF n THEN <<x>> ELSE <<>>) \o <<t>>
                     \o (IF cell THEN <<l, c>> ELSE <<>>) \o (IF act THEN <<y>> ELSE <<>>), <<>>)
    BY <1>3, <1>5, Zenon DEF RegLine
  <2> QED BY <1>9, <1>15, <1>16, <2>1, <2>2, Zenon DEF HasParts
<1>18. PICK at : LineOf(Chars, s, F, gap, at)
  BY <1>12, <1>14, <1>15, <1>16, <1>17, LineIs, Zenon
<1>19. ASSUME NEW k \in 1 .. Len(F) PROVE NoComma(F[k])
  <2>1. F[k] \in Text
    BY <1>18, FieldText
  <2> QED BY <1>6, <1>8, <1>13, <2>1, DecimalHasNoComma, Zenon
<1>20. RegLaid(r, s, F, at)
  BY <1>6, <1>7, <1>11, <1>16, <1>18, <1>19, Zenon DEF RegLaid
<1> QED BY <1>15, <1>20, Zenon

\* Fields in a row: one begins behind the end of the one before it.
InRow(m, at, past, e) ==
    /\ m \in Nat \ {0} /\ e \in Nat /\ at \in [1 .. m -> Nat] /\ past \in [1 .. m -> Nat]
    /\ at[1] = 4 /\ past[m] = e + 1
    /\ \A k \in 1 .. m : at[k] <= past[k] /\ past[k] <= e + 1
    /\ \A k \in 1 .. m - 1 : at[k + 1] = past[k] + 1

\* Every place from the first field on is in a field or at its end.
LEMMA RowCovers ==
  ASSUME NEW m, NEW at, NEW past, NEW e, InRow(m, at, past, e), NEW i \in 4 .. e
  PROVE  \E k \in 1 .. m : at[k] <= i /\ i <= past[k]
<1>1. /\ m \in Nat \ {0} /\ e \in Nat /\ at \in [1 .. m -> Nat] /\ past \in [1 .. m -> Nat]
      /\ at[1] = 4 /\ past[m] = e + 1
      /\ \A k \in 1 .. m : at[k] <= past[k] /\ past[k] <= e + 1
      /\ \A k \in 1 .. m - 1 : at[k + 1] = past[k] + 1
  BY Zenon DEF InRow
<1> DEFINE G == {j \in 4 .. e : \E k \in 1 .. m : at[k] <= j /\ j <= past[k]}
<1>2. 4 \in G
  <2>1. 1 \in 1 .. m /\ 4 \in 4 .. e
    BY <1>1
  <2>2. at[1] <= 4 /\ 4 <= past[1]
    BY <1>1, <2>1
  <2> QED BY <2>1, <2>2
<1>3. ASSUME NEW j \in 4 .. i - 1, j \in G PROVE j + 1 \in G
  <2>1. PICK k \in 1 .. m : at[k] <= j /\ j <= past[k]
    BY <1>3
  <2>2. at[k] \in Nat /\ past[k] \in Nat /\ j + 1 \in 4 .. e
    BY <1>1
  <2>3. CASE j < past[k]
    <3>1. at[k] <= j + 1 /\ j + 1 <= past[k]
      BY <2>1, <2>2, <2>3
    <3> QED BY <2>2, <3>1
  <2>4. CASE ~(j < past[k])
    <3>1. j = past[k]
      BY <2>1, <2>2, <2>4
    <3>2. k # m
      BY <1>1, <2>2, <3>1
    <3>3. k \in 1 .. m - 1 /\ k + 1 \in 1 .. m
      BY <1>1, <3>2
    <3>4. at[k + 1] = j + 1
      BY <1>1, <3>1, <3>3
    <3>5. at[k + 1] <= past[k + 1]
      BY <1>1, <3>3
    <3>6. at[k + 1] <= j + 1 /\ j + 1 <= past[k + 1]
      BY <2>2, <3>4, <3>5
    <3> QED BY <2>2, <3>3, <3>6
  <2> QED BY <2>3, <2>4
<1>4. i \in G
  <2> HIDE DEF G
  <2>1. 4 \in Nat /\ i \in Nat /\ 4 <= i
    BY <1>1
  <2> QED BY <1>2, <1>3, <2>1, Upward
<1> QED BY <1>4

\* The ends of the fields come in their order.
LEMMA RowClimbs ==
  ASSUME NEW m, NEW at, NEW past, NEW e, InRow(m, at, past, e),
         NEW j \in 1 .. m, NEW k \in 1 .. m, j < k
  PROVE  past[j] < past[k]
<1>1. /\ m \in Nat \ {0} /\ at \in [1 .. m -> Nat] /\ past \in [1 .. m -> Nat]
      /\ \A i \in 1 .. m : at[i] <= past[i]
      /\ \A i \in 1 .. m - 1 : at[i + 1] = past[i] + 1
  BY Zenon DEF InRow
<1>2. ASSUME NEW i \in 1 .. m - 1 PROVE past[i] < past[i + 1]
  <2>1. at[i + 1] = past[i] + 1 /\ i \in 1 .. m /\ i + 1 \in 1 .. m
    BY <1>1
  <2>2. at[i + 1] <= past[i + 1] /\ past[i] \in Nat /\ past[i + 1] \in Nat
    BY <1>1, <2>1
  <2> QED BY <2>1, <2>2
<1> DEFINE G == {i \in j + 1 .. m : past[j] < past[i]}
<1>3. j + 1 \in G
  BY <1>1, <1>2
<1>4. ASSUME NEW i \in j + 1 .. k - 1, i \in G PROVE i + 1 \in G
  <2>1. i \in 1 .. m - 1 /\ i + 1 \in j + 1 .. m /\ i \in 1 .. m /\ i + 1 \in 1 .. m
    BY <1>1
  <2>2. past[i] < past[i + 1] /\ past[j] < past[i]
    BY <1>2, <1>4, <2>1
  <2>3. past[j] \in Nat /\ past[i] \in Nat /\ past[i + 1] \in Nat
    BY <1>1, <2>1
  <2>4. past[j] < past[i + 1]
    BY <2>2, <2>3
  <2> QED BY <2>1, <2>4
<1>5. k \in G
  <2> HIDE DEF G
  <2>1. j + 1 \in Nat /\ k \in Nat /\ j + 1 <= k
    BY <1>1
  <2> QED BY <1>3, <1>4, <2>1, Upward
<1> QED BY <1>5

\* All but the last end are one fewer than the fields.
LEMMA RowCounted ==
  ASSUME NEW m, NEW at, NEW past, NEW e, InRow(m, at, past, e), NEW S,
         \A i : i \in S <=> \E k \in 1 .. m - 1 : i = past[k]
  PROVE  Cardinality(S) = m - 1
<1>1. m \in Nat \ {0} /\ past \in [1 .. m -> Nat]
  BY Zenon DEF InRow
<1>2. PICK n \in Nat : n = m - 1
  BY <1>1
<1> DEFINE f == [k \in 1 .. n |-> past[k]]
<1>3. f \in [1 .. n -> S]
  BY <1>2
<1>4. \A x \in S : \E k \in 1 .. n : f[k] = x
  BY <1>2
<1>5. ASSUME NEW j \in 1 .. n, NEW k \in 1 .. n, f[j] = f[k] PROVE j = k
  <2>1. j \in 1 .. m /\ k \in 1 .. m /\ past[j] \in Nat /\ past[k] \in Nat /\ past[j] = past[k]
    BY <1>1, <1>2, <1>5
  <2>2. ~(j < k)
    <3> SUFFICES ASSUME j < k PROVE FALSE
      OBVIOUS
    <3>1. past[j] < past[k]
      BY <2>1, RowClimbs
    <3> QED BY <2>1, <3>1
  <2>3. ~(k < j)
    <3> SUFFICES ASSUME k < j PROVE FALSE
      OBVIOUS
    <3>1. past[k] < past[j]
      BY <2>1, RowClimbs
    <3> QED BY <2>1, <3>1
  <2> QED BY <2>2, <2>3
<1> HIDE DEF f
<1>6. f \in Bijection(1 .. n, S)
  BY <1>3, <1>4, <1>5, Zenon DEF Bijection, Injection, Surjection, IsInjective
<1>7. ExistsBijection(1 .. n, S)
  BY <1>6, Zenon DEF ExistsBijection
<1>8. Cardinality(S) = n
  BY <1>7, FS_CountingElements
<1> QED BY <1>2, <1>8

\* A registration's line has a comma less than fields.
LEMMA CommasAre ==
  ASSUME NEW r, NEW s, NEW F, NEW at, RegLaid(r, s, F, at), Len(F) \in Nat \ {0}
  PROVE  Cardinality({i \in 3 .. Len(s) : s[i] = ","}) = Len(F) - 1
<1>0. PICK comma, space : comma = "," /\ space = " "
  OBVIOUS
<1>1. LineOf(Chars, s, F, <<>>, at) /\ \A k \in 1 .. Len(F) : NoComma(F[k])
  BY Zenon DEF RegLaid
<1>2. s \in Text /\ Laid(s, F, <<>>, at) /\ F \in Seq(Seq(Chars)) /\ s[3] = space
  BY <1>0, <1>1, Zenon DEF LineOf, Prefixed
<1>3. PICK e \in Nat : e = Len(s) /\ End(s) = e + 1
  BY <1>2, LineEnd
<1>4. PICK m : m = Len(F) /\ m \in Nat \ {0}
  OBVIOUS
<1>5. /\ at \in [1 .. m -> Nat] /\ at[1] = 4
      /\ \A k \in 1 .. m :
           /\ at[k] + Len(F[k]) <= End(s)
           /\ \A j \in 1 .. Len(F[k]) : s[at[k] + j - 1] = F[k][j]
           /\ k = m => at[k] + Len(F[k]) = End(s)
           /\ k < m => /\ s[at[k] + Len(F[k])] = comma
                       /\ at[k + 1] = at[k] + Len(F[k]) + 1 + Len(<<>>)
  BY <1>0, <1>2, <1>4, Zenon DEF Laid
<1>6. ASSUME NEW k \in 1 .. m PROVE Len(F[k]) \in Nat /\ at[k] \in Nat
  <2>1. F[k] \in Seq(Chars)
    BY <1>2, <1>4, ElementOfSeq
  <2> QED BY <1>5, <2>1, LenProperties
<1> DEFINE past == [k \in 1 .. m |-> at[k] + Len(F[k])]
<1>7. InRow(m, at, past, e)
  <2>1. past \in [1 .. m -> Nat]
    BY <1>6
  <2>2. \A k \in 1 .. m : past[k] = at[k] + Len(F[k])
    OBVIOUS
  <2> HIDE DEF past
  <2>3. m \in 1 .. m
    BY <1>4
  <2>4. past[m] = e + 1
    BY <1>3, <1>5, <2>2, <2>3
  <2>5. \A k \in 1 .. m : at[k] <= past[k] /\ past[k] <= e + 1
    BY <1>3, <1>5, <1>6, <2>2
  <2>6. \A k \in 1 .. m - 1 : at[k + 1] = past[k] + 1
    <3>1. Len(<<>>) = 0
      OBVIOUS
    <3>2. ASSUME NEW k \in 1 .. m - 1 PROVE at[k + 1] = past[k] + 1
      <4>1. k \in 1 .. m /\ k < m
        BY <1>4
      <4>2. at[k + 1] = at[k] + Len(F[k]) + 1 + Len(<<>>) /\ past[k] = at[k] + Len(F[k])
        BY <1>5, <2>2, <4>1
      <4>3. at[k] \in Nat /\ Len(F[k]) \in Nat
        BY <1>6, <4>1
      <4> QED BY <3>1, <4>2, <4>3
    <3> QED BY <3>2
  <2> QED BY <1>3, <1>4, <1>5, <2>1, <2>4, <2>5, <2>6 DEF InRow
<1>8. PICK S : S = {i \in 3 .. e : s[i] = comma}
  OBVIOUS
<1>9. ASSUME NEW i \in S PROVE \E k \in 1 .. m - 1 : i = past[k]
  <2>1. i \in 3 .. e /\ s[i] = comma
    BY <1>8, <1>9
  <2>2. comma # space
    BY <1>0, Zenon
  <2>3. i \in 4 .. e
    BY <1>2, <2>1, <2>2
  <2>4. PICK k \in 1 .. m : at[k] <= i /\ i <= past[k]
    <3> HIDE DEF past
    <3> QED BY <1>7, <2>3, RowCovers
  <2>5. PICK l \in Nat : l = Len(F[k]) /\ past[k] = at[k] + l
    BY <1>6
  <2>6. i = past[k]
    <3> SUFFICES ASSUME i # past[k] PROVE FALSE
      OBVIOUS
    <3>1. PICK j : j = i - at[k] + 1
      OBVIOUS
    <3>2. at[k] \in Nat
      BY <1>6
    <3>3. j \in 1 .. l /\ at[k] + j - 1 = i
      <4> HIDE DEF past
      <4>1. i \in Nat /\ at[k] <= i /\ i <= at[k] + l /\ i # at[k] + l
        BY <2>3, <2>4, <2>5
      <4> QED BY <3>1, <3>2, <4>1
    <3>4. s[i] = F[k][j]
      BY <1>5, <2>5, <3>3
    <3>5. \A q \in 1 .. Len(F[k]) : F[k][q] # comma
      BY <1>0, <1>1, <1>4, Zenon DEF NoComma
    <3> QED BY <2>1, <2>5, <3>3, <3>4, <3>5
  <2>7. k # m
    <3>1. m \in 1 .. m
      BY <1>4
    <3>2. at[m] + Len(F[m]) = End(s)
      BY <1>5, <3>1
    <3> QED BY <1>3, <2>3, <2>6, <3>1, <3>2
  <2>8. k \in 1 .. m - 1
    BY <1>4, <2>7
  <2> QED BY <2>6, <2>8
<1>10. ASSUME NEW k \in 1 .. m - 1 PROVE past[k] \in S
  <2>1. k \in 1 .. m /\ k < m
    BY <1>4
  <2>2. s[at[k] + Len(F[k])] = comma /\ past[k] = at[k] + Len(F[k])
    BY <1>5, <2>1
  <2>3. past[k] \in 3 .. e
    <3> HIDE DEF past
    <3>1. /\ past \in [1 .. m -> Nat] /\ at \in [1 .. m -> Nat] /\ at[1] = 4
          /\ \A q \in 1 .. m : at[q] <= past[q] /\ past[q] <= e + 1
          /\ \A q \in 1 .. m - 1 : at[q + 1] = past[q] + 1
          /\ past[m] = e + 1
      BY <1>7, Zenon DEF InRow
    <3>2. m \in 1 .. m /\ 1 \in 1 .. m
      BY <1>4
    <3>3. past[k] < past[m]
      BY <1>7, <2>1, <3>2, RowClimbs
    <3>4. 1 # k => past[1] < past[k]
      <4> SUFFICES ASSUME 1 # k PROVE past[1] < past[k]
        OBVIOUS
      <4>1. 1 < k
        BY <2>1
      <4> QED BY <1>7, <2>1, <3>2, <4>1, RowClimbs
    <3>5. 4 <= past[1]
      BY <3>1, <3>2
    <3>6. past[k] \in Nat /\ past[1] \in Nat
      BY <2>1, <3>1, <3>2
    <3>7. 4 <= past[k]
      BY <3>4, <3>5, <3>6
    <3> QED BY <3>1, <3>3, <3>6, <3>7
  <2> QED BY <1>8, <2>2, <2>3
<1>11. Cardinality(S) = m - 1
  <2> HIDE DEF past
  <2>1. \A i : i \in S <=> \E k \in 1 .. m - 1 : i = past[k]
    BY <1>9, <1>10, Zenon
  <2> QED BY <1>7, <2>1, RowCounted
<1> QED BY <1>0, <1>3, <1>4, <1>8, <1>11, Zenon

-----------------------------------------------------------------------------
(* The fields of a registration are read one after the other.              *)

\* The fields that are left to read, from this one on, and which of the line's it is
Left(r, name) ==
    CASE name = "skip" -> IF r.cell THEN <<"skip", "stat", "lac", "cid">> ELSE <<"skip", "stat">>
      [] name = "stat" -> IF r.cell THEN <<"stat", "lac", "cid">> ELSE <<"stat">>
      [] name = "lac"  -> <<"lac", "cid">>
      [] name = "cid"  -> <<"cid">>
Rank(r, name) ==
    CASE name = "skip" -> 1
      [] name = "stat" -> Before(r) + 1
      [] name = "lac"  -> Before(r) + 2
      [] name = "cid"  -> Before(r) + 3
First(r) == IF r.n THEN "skip" ELSE "stat"
Clear(r) == r.n \/ ~r.act

\* What has been read of a registration
Responses == [stat : Int, lac : Int, cid : Int, skip : Int]
\* Before the field name is read at c, with t left to read
Reading(r, s, name, c, t, resp) ==
    /\ name \in {"skip", "stat", "lac", "cid"} /\ t = Left(r, name)
    /\ name = "skip" => r.n
    /\ name \in {"lac", "cid"} => r.cell /\ resp.stat = r.stat
    /\ name = "cid" => resp.lac = Number(r.lac)
    /\ ~r.cell => resp.lac = -1 /\ resp.cid = -1
    /\ resp \in Responses
    /\ \E F, at : RegLaid(r, s, F, at) /\ c = Ahead(<<>>, at, Rank(r, name))
\* What a registration's answer is to be
Registration(r) ==
    <<r.stat, IF r.cell THEN Number(r.lac) ELSE -1, IF r.cell THEN Number(r.cid) ELSE -1>>

\* What is assumed of a registration, so far as it is used
LEMMA RegFacts ==
  ASSUME NEW r \in RegReplies
  PROVE  /\ r.n \in BOOLEAN /\ r.cell \in BOOLEAN /\ r.act \in BOOLEAN /\ (r.act => r.cell)
         /\ r.stat \in 0 .. 999 /\ Before(r) \in {0, 1} /\ FieldsIn(r) \in Nat \ {0}
         /\ Number(r.lac) \in Int /\ Number(r.cid) \in Int /\ r.kind = "CREG"
<1>1. IsRegReply(r)
  BY RepliesAssumption, Zenon
<1>2. /\ r.n \in BOOLEAN /\ r.cell \in BOOLEAN /\ r.act \in BOOLEAN /\ (r.act => r.cell)
      /\ r.stat \in 0 .. 999 /\ r.lac \in Bytes \X Bytes /\ r.cid \in Bytes \X Bytes
      /\ r.kind = "CREG"
  BY <1>1, Zenon DEF IsRegReply
<1>3. Before(r) \in {0, 1}
  BY DEF Before
<1>4. FieldsIn(r) \in Nat \ {0}
  BY <1>3 DEF FieldsIn
<1>5. ASSUME NEW b \in Bytes \X Bytes PROVE Number(b) \in Int
  <2>1. b[1] \in Bytes /\ b[2] \in Bytes
    OBVIOUS
  <2>2. b[1] \in Int /\ b[2] \in Int
    BY <2>1, ByteRange, Zenon
  <2> QED BY <2>2 DEF Number
<1> QED BY <1>2, <1>3, <1>4, <1>5, Zenon

\* The number of commas tells which fields the line has, but for a line with a
\* network type that has no <n> in front: CREG's four forms.
LEMMA FieldsAreLeft ==
  ASSUME NEW r \in RegReplies, Clear(r)
  PROVE  FieldsOf(FieldsIn(r) - 1) = Left(r, First(r)) /\ FieldsOf(FieldsIn(r) - 1) # <<>>
<1>1. /\ r.n \in BOOLEAN /\ r.cell \in BOOLEAN /\ r.act \in BOOLEAN /\ (r.act => r.cell)
      /\ (r.n \/ ~r.act)
  BY RegFacts DEF Clear
<1>2. CASE r.n /\ r.cell
  <2>1. FieldsIn(r) - 1 \in {3, 4}
    BY <1>1, <1>2 DEF FieldsIn, Before
  <2>2. FieldsOf(FieldsIn(r) - 1) = <<"skip", "stat", "lac", "cid">>
    BY <2>1 DEF FieldsOf
  <2>3. Left(r, First(r)) = <<"skip", "stat", "lac", "cid">>
    BY <1>2 DEF Left, First
  <2> QED BY <2>2, <2>3
<1>3. CASE r.n /\ ~r.cell
  <2>1. FieldsIn(r) - 1 = 1
    BY <1>1, <1>3 DEF FieldsIn, Before
  <2>2. FieldsOf(FieldsIn(r) - 1) = <<"skip", "stat">>
    BY <2>1 DEF FieldsOf
  <2>3. Left(r, First(r)) = <<"skip", "stat">>
    BY <1>3 DEF Left, First
  <2> QED BY <2>2, <2>3
<1>4. CASE ~r.n /\ r.cell
  <2>1. FieldsIn(r) - 1 = 2
    BY <1>1, <1>4 DEF FieldsIn, Before
  <2>2. FieldsOf(FieldsIn(r) - 1) = <<"stat", "lac", "cid">>
    BY <2>1 DEF FieldsOf
  <2>3. Left(r, First(r)) = <<"stat", "lac", "cid">>
    BY <1>4 DEF Left, First
  <2> QED BY <2>2, <2>3
<1>5. CASE ~r.n /\ ~r.cell
  <2>1. FieldsIn(r) - 1 = 0
    BY <1>1, <1>5 DEF FieldsIn, Before
  <2>2. FieldsOf(FieldsIn(r) - 1) = <<"stat">>
    BY <2>1 DEF FieldsOf
  <2>3. Left(r, First(r)) = <<"stat">>
    BY <1>5 DEF Left, First
  <2> QED BY <2>2, <2>3
<1> QED BY <1>1, <1>2, <1>3, <1>4, <1>5

\* What a field of the line is read as
ReadAs(s, F, at, k, n, v) ==
    n.ok /\ n.value = v /\ (k # Len(F) => n.cur = Ahead(<<>>, at, k + 1))

\* A decimal field of a registration, ...
LEMMA RegDecimal ==
  ASSUME NEW s, NEW F, NEW at, LineOf(Chars, s, F, <<>>, at), NEW k \in 1 .. Len(F),
         NEW v, IsDecimal(F[k], v)
  PROVE  ReadAs(s, F, at, k, at_tok_nextint(s, Ahead(<<>>, at, k)), v)
<1>1. PICK gap : gap = <<>>
  OBVIOUS
<1>2. LineOf(Chars, s, F, gap, at)
  BY <1>1
<1>3. PICK n : n = at_tok_nextint(s, Ahead(gap, at, k))
  OBVIOUS
<1>4. n = [ok |-> TRUE, value |-> v, cur |-> After(s, F, gap, at, k, NULL)]
  BY <1>2, <1>3, DecimalField, Zenon
<1>5. n.ok /\ n.value = v /\ n.cur = After(s, F, gap, at, k, NULL)
  BY <1>4
<1>6. ReadAs(s, F, at, k, n, v)
  BY <1>1, <1>5, Zenon DEF ReadAs, After
<1> QED BY <1>1, <1>3, <1>6, Zenon

\* ... and a hexadecimal one
LEMMA RegHex ==
  ASSUME NEW s, NEW F, NEW at, LineOf(Chars, s, F, <<>>, at), NEW k \in 1 .. Len(F),
         NEW b, IsHexNumber(F[k], b)
  PROVE  ReadAs(s, F, at, k, at_tok_nexthexint(s, Ahead(<<>>, at, k)), Number(b))
<1>1. PICK gap : gap = <<>>
  OBVIOUS
<1>2. LineOf(Chars, s, F, gap, at)
  BY <1>1
<1>3. PICK n : n = at_tok_nexthexint(s, Ahead(gap, at, k))
  OBVIOUS
<1>4. n = [ok |-> TRUE, value |-> Number(b), cur |-> After(s, F, gap, at, k, End(s))]
  BY <1>2, <1>3, HexField, Zenon
<1>5. n.ok /\ n.value = Number(b) /\ n.cur = After(s, F, gap, at, k, End(s))
  BY <1>4
<1>6. ReadAs(s, F, at, k, n, Number(b))
  BY <1>1, <1>5, Zenon DEF ReadAs, After
<1> QED BY <1>1, <1>3, <1>6, Zenon

\* What is read by name
Meant(r, name) ==
    CASE name = "skip" -> 2
      [] name = "stat" -> r.stat
      [] name = "lac"  -> Number(r.lac)
      [] name = "cid"  -> Number(r.cid)
\* Reading the field of this name
NextField(s, name, c) ==
    IF name \in {"lac", "cid"} THEN at_tok_nexthexint(s, c) ELSE at_tok_nextint(s, c)

\* Each field is read as what is meant by it.
LEMMA NamedRead ==
  ASSUME NEW r \in RegReplies, NEW s, NEW F, NEW at, RegLaid(r, s, F, at),
         NEW name \in {"skip", "stat", "lac", "cid"}, name = "skip" => r.n,
         name \in {"lac", "cid"} => r.cell
  PROVE  /\ Rank(r, name) \in 1 .. Len(F)
         /\ ReadAs(s, F, at, Rank(r, name),
                   NextField(s, name, Ahead(<<>>, at, Rank(r, name))), Meant(r, name))
<1>0. PICK k : k = Rank(r, name)
  OBVIOUS
<1>1. /\ LineOf(Chars, s, F, <<>>, at) /\ Len(F) = FieldsIn(r)
      /\ r.n => IsDecimal(F[1], 2)
      /\ IsDecimal(F[Before(r) + 1], r.stat)
      /\ r.cell => /\ IsHexNumber(F[Before(r) + 2], r.lac)
                   /\ IsHexNumber(F[Before(r) + 3], r.cid)
  BY Zenon DEF RegLaid
<1>2. /\ Before(r) \in {0, 1} /\ (r.n => Before(r) = 1)
      /\ Len(F) = 1 + Before(r) + (IF r.cell THEN 2 ELSE 0) + (IF r.act THEN 1 ELSE 0)
  BY <1>1, RegFacts DEF FieldsIn, Before
<1>3. CASE name = "skip"
  <2>1. k = 1 /\ k \in 1 .. Len(F) /\ Meant(r, name) = 2
    BY <1>0, <1>2, <1>3 DEF Rank, Meant
  <2>2. IsDecimal(F[k], 2)
    BY <1>1, <1>3, <2>1
  <2>3. ReadAs(s, F, at, k, at_tok_nextint(s, Ahead(<<>>, at, k)), 2)
    BY <1>1, <2>1, <2>2, RegDecimal, Zenon
  <2>4. name \notin {"lac", "cid"}
    BY <1>3
  <2> QED BY <1>0, <2>1, <2>3, <2>4, Zenon DEF NextField
<1>4. CASE name = "stat"
  <2>1. k = Before(r) + 1 /\ k \in 1 .. Len(F) /\ Meant(r, name) = r.stat
    BY <1>0, <1>2, <1>4 DEF Rank, Meant
  <2>2. IsDecimal(F[k], r.stat)
    BY <1>1, <2>1, Zenon
  <2>3. ReadAs(s, F, at, k, at_tok_nextint(s, Ahead(<<>>, at, k)), r.stat)
    BY <1>1, <2>1, <2>2, RegDecimal, Zenon
  <2>4. name \notin {"lac", "cid"}
    BY <1>4
  <2> QED BY <1>0, <2>1, <2>3, <2>4, Zenon DEF NextField
<1>5. CASE name = "lac"
  <2>1. k = Before(r) + 2 /\ k \in 1 .. Len(F) /\ Meant(r, name) = Number(r.lac)
    BY <1>0, <1>2, <1>5 DEF Rank, Meant
  <2>2. IsHexNumber(F[k], r.lac)
    BY <1>1, <1>5, <2>1, Zenon
  <2>3. ReadAs(s, F, at, k, at_tok_nexthexint(s, Ahead(<<>>, at, k)), Number(r.lac))
    BY <1>1, <2>1, <2>2, RegHex, Zenon
  <2> QED BY <1>0, <1>5, <2>1, <2>3, Zenon DEF NextField
<1>6. CASE name = "cid"
  <2>1. k = Before(r) + 3 /\ k \in 1 .. Len(F) /\ Meant(r, name) = Number(r.cid)
    BY <1>0, <1>2, <1>6 DEF Rank, Meant
  <2>2. IsHexNumber(F[k], r.cid)
    BY <1>1, <1>6, <2>1, Zenon
  <2>3. ReadAs(s, F, at, k, at_tok_nexthexint(s, Ahead(<<>>, at, k)), Number(r.cid))
    BY <1>1, <2>1, <2>2, RegHex, Zenon
  <2> QED BY <1>0, <1>6, <2>1, <2>3, Zenon DEF NextField
<1> QED BY <1>3, <1>4, <1>5, <1>6

\* What comes after a field: the answer, or the next one
Following(r, name) ==
    CASE name = "skip" -> "stat"
      [] name = "stat" -> "lac"
      [] name = "lac"  -> "cid"
IsLast(r, name) == name = "cid" \/ (name = "stat" /\ ~r.cell)

\* Tuples of two, three and four
LEMMA Tails ==
  ASSUME NEW a, NEW b, NEW c, NEW d
  PROVE  /\ Head(<<a, b>>) = a /\ Len(<<a, b>>) # 1 /\ Tail(<<a, b>>) = <<b>>
         /\ Head(<<a, b, c>>) = a /\ Len(<<a, b, c>>) # 1 /\ Tail(<<a, b, c>>) = <<b, c>>
         /\ Head(<<a, b, c, d>>) = a /\ Len(<<a, b, c, d>>) # 1
         /\ Tail(<<a, b, c, d>>) = <<b, c, d>>
OBVIOUS

\* The list of fields left is used up one by one.
LEMMA FollowingIs ==
  ASSUME NEW r \in RegReplies, NEW name \in {"skip", "stat", "lac", "cid"},
         name = "skip" => r.n, name \in {"lac", "cid"} => r.cell
  PROVE  /\ Head(Left(r, name)) = name
         /\ IsLast(r, name) => Len(Left(r, name)) = 1
         /\ ~IsLast(r, name) =>
              /\ Len(Left(r, name)) # 1
              /\ Tail(Left(r, name)) = Left(r, Following(r, name))
              /\ Rank(r, Following(r, name)) = Rank(r, name) + 1
              /\ Rank(r, Following(r, name)) \in 1 .. FieldsIn(r)
              /\ Following(r, name) \in {"skip", "stat", "lac", "cid"}
              /\ Following(r, name) # "skip"
              /\ Following(r, name) \in {"lac", "cid"} => r.cell
<1>1. /\ Before(r) \in {0, 1} /\ (r.n => Before(r) = 1)
      /\ FieldsIn(r) = 1 + Before(r) + (IF r.cell THEN 2 ELSE 0) + (IF r.act THEN 1 ELSE 0)
      /\ r.n \in BOOLEAN /\ r.cell \in BOOLEAN
  BY RegFacts DEF FieldsIn, Before
<1>2. CASE name = "skip"
  <2>1. r.n /\ Following(r, name) = "stat" /\ ~IsLast(r, name)
    BY <1>2 DEF Following, IsLast
  <2>2. Rank(r, name) = 1 /\ Rank(r, "stat") = 2 /\ 2 \in 1 .. FieldsIn(r)
    BY <1>1, <1>2, <2>1 DEF Rank
  <2>5. LET next == Following(r, name) IN
        /\ Rank(r, next) = Rank(r, name) + 1 /\ Rank(r, next) \in 1 .. FieldsIn(r)
        /\ next \in {"skip", "stat", "lac", "cid"} /\ next # "skip"
        /\ next \in {"lac", "cid"} => r.cell
    BY <2>1, <2>2
  <2>3. CASE r.cell
    <3>1. Left(r, name) = <<"skip", "stat", "lac", "cid">> /\ Left(r, "stat") = <<"stat", "lac", "cid">>
      BY <1>2, <2>3 DEF Left
    <3>2. Head(Left(r, name)) = name /\ Len(Left(r, name)) # 1 /\ Tail(Left(r, name)) = Left(r, "stat")
      <4>1. Head(<<"skip", "stat", "lac", "cid">>) = "skip" /\ Len(<<"skip", "stat", "lac", "cid">>) # 1
            /\ Tail(<<"skip", "stat", "lac", "cid">>) = <<"stat", "lac", "cid">>
        BY Tails
      <4> QED BY <1>2, <3>1, <4>1, Zenon
    <3> QED BY <2>1, <2>5, <3>2
  <2>4. CASE ~r.cell
    <3>1. Left(r, name) = <<"skip", "stat">> /\ Left(r, "stat") = <<"stat">>
      BY <1>2, <2>4 DEF Left
    <3>2. Head(Left(r, name)) = name /\ Len(Left(r, name)) # 1 /\ Tail(Left(r, name)) = Left(r, "stat")
      <4>1. Head(<<"skip", "stat">>) = "skip" /\ Len(<<"skip", "stat">>) # 1
            /\ Tail(<<"skip", "stat">>) = <<"stat">>
        BY Tails
      <4> QED BY <1>2, <3>1, <4>1, Zenon
    <3> QED BY <2>1, <2>5, <3>2
  <2> QED BY <2>3, <2>4
<1>3. CASE name = "stat"
  <2>1. CASE r.cell
    <3>1. Following(r, name) = "lac" /\ ~IsLast(r, name)
      BY <1>3, <2>1 DEF Following, IsLast
    <3>2. /\ Rank(r, name) = Before(r) + 1 /\ Rank(r, "lac") = Before(r) + 2
          /\ Before(r) + 2 \in 1 .. FieldsIn(r)
      BY <1>1, <1>3, <2>1 DEF Rank
    <3>3. Left(r, name) = <<"stat", "lac", "cid">> /\ Left(r, "lac") = <<"lac", "cid">>
      BY <1>3, <2>1 DEF Left
    <3>4. Head(Left(r, name)) = name /\ Len(Left(r, name)) # 1 /\ Tail(Left(r, name)) = Left(r, "lac")
      <4>1. Head(<<"stat", "lac", "cid">>) = "stat" /\ Len(<<"stat", "lac", "cid">>) # 1
            /\ Tail(<<"stat", "lac", "cid">>) = <<"lac", "cid">>
        BY Tails
      <4> QED BY <1>3, <3>3, <4>1, Zenon
    <3>5. LET next == Following(r, name) IN
          /\ Rank(r, next) = Rank(r, name) + 1 /\ Rank(r, next) \in 1 .. FieldsIn(r)
          /\ next \in {"skip", "stat", "lac", "cid"} /\ next # "skip"
          /\ next \in {"lac", "cid"} => r.cell
      BY <1>1, <2>1, <3>1, <3>2
    <3> QED BY <3>1, <3>4, <3>5
  <2>2. CASE ~r.cell
    <3>1. IsLast(r, name) /\ Left(r, name) = <<"stat">>
      BY <1>3, <2>2 DEF Left, IsLast
    <3> QED BY <1>3, <3>1
  <2> QED BY <2>1, <2>2
<1>4. CASE name = "lac"
  <2>1. r.cell /\ Following(r, name) = "cid" /\ ~IsLast(r, name)
    BY <1>4 DEF Following, IsLast
  <2>2. /\ Rank(r, name) = Before(r) + 2 /\ Rank(r, "cid") = Before(r) + 3
        /\ Before(r) + 3 \in 1 .. FieldsIn(r)
    BY <1>1, <1>4, <2>1 DEF Rank
  <2>3. Left(r, name) = <<"lac", "cid">> /\ Left(r, "cid") = <<"cid">>
    BY <1>4 DEF Left
  <2>4. Head(Left(r, name)) = name /\ Len(Left(r, name)) # 1 /\ Tail(Left(r, name)) = Left(r, "cid")
    <3>1. Head(<<"lac", "cid">>) = "lac" /\ Len(<<"lac", "cid">>) # 1
          /\ Tail(<<"lac", "cid">>) = <<"cid">>
      BY Tails
    <3> QED BY <1>4, <2>3, <3>1, Zenon
  <2>5. LET next == Following(r, name) IN
        /\ Rank(r, next) = Rank(r, name) + 1 /\ Rank(r, next) \in 1 .. FieldsIn(r)
        /\ next \in {"skip", "stat", "lac", "cid"} /\ next # "skip"
        /\ next \in {"lac", "cid"} => r.cell
    BY <1>1, <2>1, <2>2
  <2> QED BY <2>1, <2>4, <2>5
<1>5. CASE name = "cid"
  <2>1. IsLast(r, name) /\ Left(r, name) = <<"cid">>
    BY <1>5 DEF Left, IsLast
  <2> QED BY <1>5, <2>1
<1> QED BY <1>2, <1>3, <1>4, <1>5

\* A field that is read is kept.
Notes(resp, name, v, new) == new = [resp EXCEPT ![name] = v]

\* What ReadField reads, and what it makes of the response
Reads(s, t, c, n) == n = NextField(s, Head(t), c)

\* What is kept of a field is that field, and the others are as they were.
LEMMA Noted ==
  ASSUME NEW resp \in Responses, NEW name \in {"skip", "stat", "lac", "cid"}, NEW v \in Int,
         NEW new, Notes(resp, name, v, new)
  PROVE  /\ new \in Responses
         /\ name = "stat" => new.stat = v /\ new.lac = resp.lac /\ new.cid = resp.cid
         /\ name = "lac" => new.lac = v /\ new.stat = resp.stat /\ new.cid = resp.cid
         /\ name = "cid" => new.cid = v /\ new.stat = resp.stat /\ new.lac = resp.lac
         /\ name = "skip" => new.stat = resp.stat /\ new.lac = resp.lac /\ new.cid = resp.cid
BY DEF Responses, Notes

\* ReadField, from one field to the next or to the answer
LEMMA ReadOne ==
  ASSUME NEW r \in RegReplies, NEW s, NEW name, NEW c, NEW t, NEW resp,
         Reading(r, s, name, c, t, resp), NEW n, NEW new,
         Reads(s, t, c, n), Notes(resp, Head(t), n.value, new)
  PROVE  /\ n.ok
         /\ Len(t) = 1 => <<new.stat, new.lac, new.cid>> = Registration(r)
         /\ Len(t) # 1 => \E next : Reading(r, s, next, n.cur, Tail(t), new)
<1>1. /\ name \in {"skip", "stat", "lac", "cid"} /\ t = Left(r, name)
      /\ name = "skip" => r.n
      /\ name \in {"lac", "cid"} => r.cell /\ resp.stat = r.stat
      /\ name = "cid" => resp.lac = Number(r.lac)
      /\ ~r.cell => resp.lac = -1 /\ resp.cid = -1
      /\ resp \in Responses
  BY Zenon DEF Reading
<1>2. PICK F, at : RegLaid(r, s, F, at) /\ c = Ahead(<<>>, at, Rank(r, name))
  BY Zenon DEF Reading
<1>3. Head(t) = name
  BY <1>1, FollowingIs, Zenon
<1>4. PICK k, v : k = Rank(r, name) /\ v = Meant(r, name)
  OBVIOUS
<1>5. k \in 1 .. Len(F) /\ ReadAs(s, F, at, k, n, v)
  <2>1. /\ Rank(r, name) \in 1 .. Len(F)
        /\ ReadAs(s, F, at, Rank(r, name),
                  NextField(s, name, Ahead(<<>>, at, Rank(r, name))), Meant(r, name))
    BY <1>1, <1>2, NamedRead, Zenon
  <2> QED BY <1>2, <1>3, <1>4, <2>1, Zenon DEF Reads
<1>6. n.ok /\ n.value = v /\ (k # Len(F) => n.cur = Ahead(<<>>, at, k + 1))
  BY <1>5, Zenon DEF ReadAs
<1>7. v \in Int
  <2>1. r.stat \in Int /\ Number(r.lac) \in Int /\ Number(r.cid) \in Int
    <3>1. r.stat \in 0 .. 999 /\ Number(r.lac) \in Int /\ Number(r.cid) \in Int
      BY RegFacts, ZenonT(60)
    <3> QED BY <3>1
  <2> QED BY <1>1, <1>4, <2>1 DEF Meant
<1>8. Notes(resp, name, v, new)
  BY <1>3, <1>6, Zenon DEF Notes
<1>9. /\ new \in Responses
      /\ name = "stat" => new.stat = v /\ new.lac = resp.lac /\ new.cid = resp.cid
      /\ name = "lac" => new.lac = v /\ new.stat = resp.stat /\ new.cid = resp.cid
      /\ name = "cid" => new.cid = v /\ new.stat = resp.stat /\ new.lac = resp.lac
      /\ name = "skip" => new.stat = resp.stat /\ new.lac = resp.lac /\ new.cid = resp.cid
  <2>1. resp \in Responses
    BY <1>1, Zenon
  <2>2. name \in {"skip", "stat", "lac", "cid"}
    BY <1>1, Zenon
  <2> QED BY <1>7, <1>8, <2>1, <2>2, Noted
<1>10. /\ name = "stat" => v = r.stat
       /\ name = "lac" => v = Number(r.lac)
       /\ name = "cid" => v = Number(r.cid)
  BY <1>4 DEF Meant
<1>11. CASE IsLast(r, name)
  <2>1. Len(t) = 1
    BY <1>1, <1>11, FollowingIs, Zenon
  <2>2. name = "cid" \/ (name = "stat" /\ ~r.cell)
    BY <1>11 DEF IsLast
  <2>3. new.stat = r.stat
    BY <1>1, <1>9, <1>10, <2>2
  <2>4. new.lac = IF r.cell THEN Number(r.lac) ELSE -1
    BY <1>1, <1>9, <1>10, <2>2
  <2>5. new.cid = IF r.cell THEN Number(r.cid) ELSE -1
    BY <1>1, <1>9, <1>10, <2>2
  <2>6. <<new.stat, new.lac, new.cid>> = Registration(r)
    BY <2>3, <2>4, <2>5, Zenon DEF Registration
  <2> QED BY <1>6, <2>1, <2>6
<1>12. CASE ~IsLast(r, name)
  <2>1. PICK next : next = Following(r, name)
    OBVIOUS
  <2>2. /\ Len(t) # 1 /\ Tail(t) = Left(r, next) /\ Rank(r, next) = k + 1
        /\ Rank(r, next) \in 1 .. FieldsIn(r) /\ next \in {"skip", "stat", "lac", "cid"}
        /\ next # "skip" /\ (next \in {"lac", "cid"} => r.cell)
    BY <1>1, <1>4, <1>12, <2>1, FollowingIs, Zenon
  <2>3. n.cur = Ahead(<<>>, at, Rank(r, next))
    <3>1. Len(F) = FieldsIn(r)
      BY <1>2, Zenon DEF RegLaid
    <3>2. k # Len(F)
      BY <1>5, <2>2, <3>1
    <3> QED BY <1>6, <2>2, <3>2
  <2>4. /\ name = "skip" => next = "stat"
        /\ name = "stat" => next = "lac"
        /\ name = "lac" => next = "cid"
        /\ name # "cid" /\ (name = "stat" => r.cell)
    BY <1>1, <1>12, <2>1 DEF Following, IsLast
  <2>5. next \in {"lac", "cid"} => r.cell /\ new.stat = r.stat
    BY <1>1, <1>9, <1>10, <2>2, <2>4
  <2>6. next = "cid" => new.lac = Number(r.lac)
    BY <1>1, <1>9, <1>10, <2>2, <2>4
  <2>7. ~r.cell => new.lac = -1 /\ new.cid = -1
    BY <1>1, <1>9, <2>4
  <2>8. Reading(r, s, next, n.cur, Tail(t), new)
    BY <1>2, <1>9, <2>2, <2>3, <2>5, <2>6, <2>7, Zenon DEF Reading
  <2> QED BY <1>6, <2>2, <2>8
<1> QED BY <1>11, <1>12

-----------------------------------------------------------------------------
(* The inductive invariant: what is known of a reply at each step          *)

\* What kind a reply is tells where it is from.
LEMMA KindIs ==
  ASSUME NEW r \in SimReplies \cup RegReplies \cup RadReplies
  PROVE  /\ r.kind = "CRSM" => r \in SimReplies
         /\ r.kind = "CREG" => r \in RegReplies
         /\ r.kind = "CFUN" => r \in RadReplies
         /\ r.kind \in {"CRSM", "CREG", "CFUN"}
<1>1. ASSUME r \in SimReplies PROVE r.kind = "CRSM"
  <2>1. IsSimReply(r)
    BY <1>1, RepliesAssumption, Zenon
  <2> QED BY <2>1, Zenon DEF IsSimReply
<1>2. ASSUME r \in RegReplies PROVE r.kind = "CREG"
  <2>1. IsRegReply(r)
    BY <1>2, RepliesAssumption, Zenon
  <2> QED BY <2>1, Zenon DEF IsRegReply
<1>3. ASSUME r \in RadReplies PROVE r.kind = "CFUN"
  <2>1. IsRadReply(r)
    BY <1>3, RepliesAssumption, Zenon
  <2> QED BY <2>1, Zenon DEF IsRadReply
<1> QED BY <1>1, <1>2, <1>3

\* Where requestSIM_IO's cursor is when it looks for data
DataAhead(r, s, c) ==
    /\ r.data = "none" => c = NULL
    /\ r.data # "none" => at_tok_hasmore(s, c) /\ at_tok_nextstr(s, c).tok = Hex(r)
\* The data that the modem means
Data(r) == IF r.data = "none" THEN NoText ELSE Hex(r)

\* Whether the card refuses to describe its ICCID file, and the file described
Refuses(r) == r.command = GetResponse /\ r.iccid /\ r.sw = <<105, 133>>
FileOf(r) == IF Refuses(r) THEN IccidObjects ELSE r.objects

\* A GET RESPONSE whose data are converted
Converting ==
    /\ reply.kind = "CRSM" /\ reply.command = GetResponse /\ sw = <<144, 0>>
    /\ Refuses(reply) \/ reply.sw = <<144, 0>>
\* The objects that are decoded are the file's.
Source(os) == Block(dataBlock, os) /\ os = FileOf(reply)
\* The loop is before object j + 1 ...
Place(os, at, j) ==
    /\ TemplateAt(dataBlock, os, at) /\ j \in 0 .. Len(os) /\ offset = at[j]
    /\ fcpLength + fcpOffset = Len(dataBlock) - 1
\* ... and has learned what the first j say.
Known(os, j) == ~signed => \A i \in 1 .. j : Knows(efStatus, os[i])

\* At each step: nothing has been read, ...
AtReply == pc = "reply" => cur = 1 /\ response = [stat |-> -1, lac |-> -1, cid |-> -1, skip |-> -1]
\* ... the field that is next has been found, ...
AtFields ==
    pc = "fields" =>
        /\ reply.kind = "CREG"
        /\ Clear(reply) => \E name : Reading(reply, line, name, cur, todo, response)
\* ... the status words have been read, ...
AtResponse == pc = "response" => reply.kind = "CRSM" /\ sw = reply.sw /\ DataAhead(reply, line, cur)
\* ... the data, too, ...
AtClassify == pc = "classify" => reply.kind = "CRSM" /\ sw = reply.sw /\ simResponse = Data(reply)
\* ... they are a template, ...
AtConvert == pc = "convert" => Converting /\ \E os : Source(os)
\* ... whose first objects are known, ...
AtDecode ==
    pc = "decode" => Converting /\ \E os, at, j : Source(os) /\ Place(os, at, j) /\ Known(os, j)
\* ... all of them are.
AtOutput == pc = "output" => Converting /\ \E os : Source(os) /\ Known(os, Len(os))

\* The types of the variables
Typed ==
    /\ pc \in {"reply", "fields", "response", "classify", "convert", "decode", "output", "answered"}
    /\ signed \in CharSigned /\ (sw = <<>> \/ sw \in Bytes \X Bytes)
    /\ offset \in 0 .. UINT8 - 1 /\ fcpLength \in 0 .. UINT8 - 1 /\ fcpOffset \in 0 .. 2
    /\ efStatus \in Statuses

\* What an answer about a file is to be, and about the radio
AsIs(r) == r.command # GetResponse \/ (r.sw # <<144, 0>> /\ ~Refuses(r))
SimTold(r, char, a) ==
    /\ a.ok
    /\ a.fields = IF Refuses(r) THEN <<144, 0>> ELSE r.sw
    /\ AsIs(r) => a.text = IF r.data = "none" THEN NoText ELSE Hex(r)
    /\ ~AsIs(r) /\ (Refuses(r) \/ r.data # "none") /\ ~char => Describes(a.text, FileOf(r))
RadioTold(r, a) == /\ r.fun < 2 => a.fields = <<r.fun>>
                   /\ r.fun > 1 => a.fields # <<1>>
RegTold(r, a) == Clear(r) => a.ok /\ a.fields = Registration(r)
AnswerTold(r, char, a) ==
    /\ r.kind = "CFUN" => RadioTold(r, a)
    /\ r.kind = "CREG" => RegTold(r, a)
    /\ r.kind = "CRSM" => SimTold(r, char, a)

\* The inductive invariant
IInv ==
    /\ Inv /\ Typed
    /\ AtReply /\ AtFields /\ AtResponse /\ AtClassify /\ AtConvert /\ AtDecode /\ AtOutput
    /\ AnswerIsReply

\* That is what AnswerIsReply says.
LEMMA ToldIs ==
  /\ AnswerIsReply <=> (pc = "answered" => AnswerTold(reply, signed, answer))
  /\ AnswerIsReply' <=> (pc' = "answered" => AnswerTold(reply', signed', answer'))
<1>1. /\ RadioMeant <=> RadioTold(reply, answer)
      /\ RadioMeant' <=> RadioTold(reply', answer')
  BY Zenon DEF RadioMeant, RadioTold
<1>2. /\ RegMeant <=> RegTold(reply, answer)
      /\ RegMeant' <=> RegTold(reply', answer')
  BY Zenon DEF RegMeant, RegTold, Clear, Registration
<1>3. /\ Refused <=> Refuses(reply)
      /\ Refused' <=> Refuses(reply')
      /\ DescribedFile = FileOf(reply)
      /\ DescribedFile' = FileOf(reply')
  BY Zenon DEF Refused, Refuses, DescribedFile, FileOf
<1>4. /\ SimMeant <=> SimTold(reply, signed, answer)
      /\ SimMeant' <=> SimTold(reply', signed', answer')
  BY <1>3, Zenon DEF SimMeant, SimTold, AsIs
<1> QED BY <1>1, <1>2, <1>4, Zenon DEF AnswerIsReply, AnswerTold

\* So a right answer about a file is right after the step.
LEMMA SimAnswered ==
  ASSUME reply' = reply, signed' = signed, reply.kind = "CRSM", SimTold(reply, signed, answer')
  PROVE  AnswerIsReply'
<1>1. reply.kind # "CFUN" /\ reply.kind # "CREG"
  OBVIOUS
<1>2. AnswerTold(reply, signed, answer')
  BY <1>1, Zenon DEF AnswerTold
<1> QED BY <1>2, ToldIs, Zenon

\* What UsimDecodeDataLength makes of the bytes from i on
LengthAt(d, i, l) == l = UsimDecodeDataLength(d, i)

\* The beginning of a template is what it is taken for.
LEMMA TemplateBegun ==
  ASSUME NEW d, NEW os, Block(d, os), NEW at, TemplateAt(d, os, at),
         NEW l, LengthAt(d, 1, l)
  PROVE  /\ Byte(d, 0) = 98 /\ l.size # 0 /\ 1 + l.size = at[0] /\ l.lgth + l.size = Len(d) - 1
         /\ l.size \in 0 .. 2 /\ l.lgth \in 0 .. UINT8 - 1 /\ 1 + l.size \in 0 .. UINT8 - 1
<1>1. Byte(d, 0) = 98 /\ l = [lgth |-> Len(d) - at[0], size |-> at[0] - 1] /\ at[0] \in {2, 3}
  BY Zenon DEF TemplateAt, LengthAt
<1>2. os \in Seq(Objects) /\ d \in Seq(Bytes)
  BY Zenon DEF Block
<1>3. 0 \in 0 .. Len(os)
  BY <1>2
<1>4. at[0] <= Len(d) /\ Len(d) < UINT8
  BY <1>3, LoopPlace, Zenon
<1>5. Len(d) \in Nat
  BY <1>2, LenProperties, Zenon
<1>6. PICK n \in Nat : n = Len(d)
  BY <1>5
<1>7. PICK a \in {2, 3} : a = at[0]
  BY <1>1
<1>8. a <= n /\ n < 256
  BY <1>4, <1>6, <1>7 DEF UINT8
<1>9. l.size = a - 1 /\ l.lgth = n - a
  <2>1. l = [lgth |-> n - a, size |-> a - 1]
    BY <1>1, <1>6, <1>7, Zenon
  <2> QED BY <2>1
<1>10. l.lgth \in 0 .. 255 /\ l.size \in 1 .. 2 /\ 1 + l.size = a /\ l.lgth + l.size = n - 1
  BY <1>8, <1>9
<1>11. l.lgth \in 0 .. UINT8 - 1 /\ 1 + l.size \in 0 .. UINT8 - 1
  BY <1>10 DEF UINT8
<1>12. l.size # 0 /\ l.size \in 0 .. 2
  BY <1>10
<1>13. 1 + l.size = at[0] /\ l.lgth + l.size = Len(d) - 1
  BY <1>6, <1>7, <1>10, Zenon
<1> QED BY <1>1, <1>11, <1>12, <1>13, Zenon

\* What an object has told stays known when another one is decoded.
LEMMA KnownStays ==
  ASSUME NEW st, NEW new, NEW o, NEW q, Knows(st, o), Keeps(st, new, q),
         o.tag \in {128, 130, 131} => o.tag # q.tag
  PROVE  Knows(new, o)
<1>1. o.tag = 128 => new.fileSize = st.fileSize
  BY DEF Keeps
<1>2. o.tag = 131 => new.fileId = st.fileId
  BY DEF Keeps
<1>3. o.tag = 130 => /\ new.efStructure = st.efStructure /\ new.fileType = st.fileType
                     /\ new.recordLength = st.recordLength
  BY DEF Keeps
<1> QED BY <1>1, <1>2, <1>3, Zenon DEF Knows

\* One turn of the loop
LEMMA TurnTaken ==
  ASSUME NEW d, NEW os, Block(d, os), NEW at, TemplateAt(d, os, at),
         NEW j \in 0 .. Len(os), j < Len(os), NEW st \in Statuses, NEW char \in BOOLEAN,
         NEW r, Turned(char, at[j], d, st, r)
  PROVE  /\ r.offset = at[j + 1] /\ at[j + 1] \in 0 .. UINT8 - 1 /\ j + 1 \in 0 .. Len(os)
         /\ r.st \in Statuses
         /\ ~char => Knows(r.st, os[j + 1]) /\ Keeps(st, r.st, os[j + 1])
<1>1. /\ at[j] \in 0 .. UINT8 - 1 /\ Len(d) < UINT8
      /\ ObjectAt(d, at[j], os[j + 1], at[j + 1])
      /\ os[j + 1] \in Objects /\ Sized(os[j + 1])
      /\ j + 1 \in 0 .. Len(os)
  BY LoopPlace, Zenon
<1>2. at[j + 1] \in 0 .. UINT8 - 1
  BY <1>1, LoopPlace, Zenon
<1>3. d \in Seq(Bytes)
  BY Zenon DEF Block
<1>4. PICK a, o, next : a = at[j] /\ o = os[j + 1] /\ next = at[j + 1]
  OBVIOUS
<1>5. ObjectAt(d, a, o, next) /\ o \in Objects /\ Sized(o)
  BY <1>1, <1>4, Zenon
<1>6. a \in Nat
  <2>1. at[j] \in 0 .. UINT8 - 1
    BY <1>1, Zenon
  <2>2. \A x \in 0 .. UINT8 - 1 : x \in Nat
    BY DEF UINT8
  <2> QED BY <1>4, <2>1, <2>2, Zenon
<1>7. Turned(char, a, d, st, r)
  BY <1>4, Zenon
<1>8. Len(d) < UINT8
  BY <1>1, Zenon
<1>9. r.offset = next /\ r.st \in Statuses /\ (~char => Decoded(st, o, next, r))
  BY <1>3, <1>5, <1>6, <1>7, <1>8, ObjectDecoded
<1>10. ~char => Knows(r.st, o) /\ Keeps(st, r.st, o)
  BY <1>9, Zenon DEF Decoded
<1> QED BY <1>1, <1>2, <1>4, <1>9, <1>10, Zenon

\* The ICCID file's objects are told apart by their tags.
LEMMA IccidTags ==
  ASSUME NEW i \in 1 .. 6, NEW j \in 1 .. 6, IccidObjects[i].tag = IccidObjects[j].tag
  PROVE  i = j
<1>1. /\ IccidObjects[1].tag = 130 /\ IccidObjects[2].tag = 131 /\ IccidObjects[3].tag = 138
      /\ IccidObjects[4].tag = 139 /\ IccidObjects[5].tag = 128 /\ IccidObjects[6].tag = 136
  <2>1. \A t, v : Object(t, v).tag = t
    BY DEF Object
  <2>2. PICK a : a = Object(130, <<65, 33>>) /\ a.tag = 130
    BY <2>1
  <2>3. PICK b : b = Object(131, <<47, 226>>) /\ b.tag = 131
    BY <2>1
  <2>4. PICK c : c = Object(138, <<5>>) /\ c.tag = 138
    BY <2>1
  <2>5. PICK d : d = Object(139, <<47, 6, 3>>) /\ d.tag = 139
    BY <2>1
  <2>6. PICK e : e = Object(128, <<0, 10>>) /\ e.tag = 128
    BY <2>1
  <2>7. PICK f : f = Object(136, <<16>>) /\ f.tag = 136
    BY <2>1
  <2>8. PICK s : s = <<a, b, c, d, e, f>>
    OBVIOUS
  <2>9. s[1] = a /\ s[2] = b /\ s[3] = c /\ s[4] = d /\ s[5] = e /\ s[6] = f
    BY <2>8
  <2>10. s = IccidObjects
    BY <2>2, <2>3, <2>4, <2>5, <2>6, <2>7, <2>8, Zenon DEF IccidObjects
  <2>11. /\ s[1].tag = 130 /\ s[2].tag = 131 /\ s[3].tag = 138
         /\ s[4].tag = 139 /\ s[5].tag = 128 /\ s[6].tag = 136
    BY <2>2, <2>3, <2>4, <2>5, <2>6, <2>7, <2>9
  <2> QED BY <2>10, <2>11, Zenon
<1> QED BY <1>1

\* The objects of a file that has been meant are told apart.
LEMMA FileObjects ==
  ASSUME NEW r \in SimReplies, NEW i \in 1 .. Len(FileOf(r)), NEW j \in 1 .. Len(FileOf(r)),
         FileOf(r)[i].tag \in {128, 130, 131}, FileOf(r)[i].tag = FileOf(r)[j].tag
  PROVE  i = j
<1>1. CASE Refuses(r)
  <2>1. FileOf(r) = IccidObjects /\ Len(IccidObjects) = 6
    BY <1>1, IccidIsShort, Zenon DEF FileOf
  <2> QED BY <2>1, IccidTags, Zenon
<1>2. CASE ~Refuses(r)
  <2>0. FileOf(r) = r.objects
    BY <1>2, Zenon DEF FileOf
  <2>1. IsFile(r.objects)
    BY RepliesAssumption, Zenon DEF IsSimReply
  <2>2. r.objects \in Seq(Objects)
    BY <2>1, Zenon DEF IsFile, Objects
  <2>3. DOMAIN r.objects = 1 .. Len(r.objects)
    BY <2>2, LenProperties, Zenon
  <2>4. \A k, l \in DOMAIN r.objects :
          r.objects[k].tag = r.objects[l].tag /\ r.objects[k].tag \in {128, 130, 131} => k = l
    BY <2>1, Zenon DEF IsFile
  <2>5. i \in DOMAIN r.objects /\ j \in DOMAIN r.objects
    BY <2>0, <2>3, Zenon
  <2>6. r.objects[i].tag \in {128, 130, 131} /\ r.objects[i].tag = r.objects[j].tag
    BY <2>0
  <2> QED BY <2>4, <2>5, <2>6
<1> QED BY <1>1, <1>2

\* The invariant holds of the first state.
LEMMA InitIInv == Init => IInv
<1> SUFFICES ASSUME Init PROVE IInv
  OBVIOUS
<1>1. Inv
  BY InitInv
<1>2. /\ pc = "reply" /\ signed \in CharSigned /\ cur = 1 /\ sw = <<>>
      /\ response = [stat |-> -1, lac |-> -1, cid |-> -1, skip |-> -1]
      /\ offset = 0 /\ fcpLength = 0 /\ fcpOffset = 0 /\ efStatus = NoStatus
  BY DEF Init
<1>3. Typed
  <2>1. efStatus \in Statuses
    BY <1>2, NothingDecoded
  <2> QED BY <1>2, <2>1 DEF Typed, UINT8
<1>4. AtReply
  BY <1>2 DEF AtReply
<1> QED BY <1>1, <1>2, <1>3, <1>4 DEF IInv, AtFields, AtResponse, AtClassify, AtConvert,
                                       AtDecode, AtOutput, AnswerIsReply

\* An answer is all there is to know after the last step.
LEMMA Answered ==
  ASSUME Inv', Typed', pc' = "answered", AnswerIsReply' PROVE IInv'
BY DEF IInv, AtReply, AtFields, AtResponse, AtClassify, AtConvert, AtDecode, AtOutput

\* Each action keeps the invariant: IsRadioOn, ...
LEMMA RadioAnswered ==
  ASSUME IInv, Inv', IsRadioOn PROVE IInv'
<1>1. PICK start, b :
        /\ start = at_tok_start(line, 1) /\ b = at_tok_nextbool(line, start.cur)
        /\ pc' = "answered"
        /\ answer' = [ok |-> b.ok, fields |-> <<IF b.ok THEN b.value ELSE -1>>, text |-> NoText]
  BY Zenon DEF IsRadioOn, Answer
<1>2. reply.kind = "CFUN" /\ reply' = reply
  BY DEF IsRadioOn, world
<1>3. Typed'
  BY <1>1 DEF IInv, Typed, IsRadioOn, world, creg, parsing, decoding
<1>4. reply \in RadReplies /\ line = Line(reply)
  BY <1>2, KindIs DEF IInv, Inv
<1>5. (IF b.ok THEN b.value ELSE -1) = (IF reply.fun < 2 THEN reply.fun ELSE -1)
  BY <1>1, <1>4, RadRead, Zenon
<1>6. reply.fun \in 0 .. 999
  BY <1>4, RepliesAssumption, Zenon DEF IsRadReply
<1>7. PICK n : n = IF reply.fun < 2 THEN reply.fun ELSE -1
  OBVIOUS
<1>8. answer'.fields = <<n>>
  BY <1>1, <1>5, <1>7
<1>9. (reply.fun < 2 => n = reply.fun) /\ (reply.fun > 1 => n # 1)
  BY <1>6, <1>7
<1>10. n # 1 => <<n>> # <<1>>
  OBVIOUS
<1>11. RadioTold(reply, answer')
  BY <1>8, <1>9, <1>10, Zenon DEF RadioTold
<1>12. AnswerIsReply'
  BY <1>2, <1>11, ToldIs, Zenon DEF AnswerTold
<1> QED BY <1>1, <1>3, <1>12, Answered

\* A registration that is not meant to be understood may be answered in any way.
LEMMA RegAnswered ==
  ASSUME reply' = reply, reply.kind = "CREG",
         Clear(reply) => answer'.ok /\ answer'.fields = Registration(reply)
  PROVE  AnswerIsReply'
<1>1. reply'.kind = "CREG" /\ reply'.kind # "CFUN"
  OBVIOUS
<1>2. RegTold(reply', answer')
  BY Zenon DEF RegTold
<1>3. AnswerTold(reply', signed', answer')
  BY <1>1, <1>2, Zenon DEF AnswerTold
<1> QED BY <1>3, ToldIs, Zenon

\* ... CountCommas, ...
LEMMA CommasCounted ==
  ASSUME IInv, Inv', CountCommas PROVE IInv'
<1>1. PICK start :
        /\ start = at_tok_start(line, 1) /\ cur' = start.cur
        /\ todo' = FieldsOf(Cardinality({i \in start.cur .. Len(line) : line[i] = ","}))
        /\ \/ todo' # <<>> /\ pc' = "fields"
           \/ todo' = <<>> /\ pc' = "answered"
  BY Zenon DEF CountCommas, Answer
<1>2. /\ pc = "reply" /\ reply.kind = "CREG" /\ reply' = reply /\ line' = line
      /\ response' = response
  BY DEF CountCommas, world
<1>3. Typed'
  BY <1>1 DEF IInv, Typed, CountCommas, world, decoding
<1>4. reply \in RegReplies /\ line = Line(reply)
  BY <1>2, KindIs DEF IInv, Inv
<1>5. PICK F, at : RegLaid(reply, line, F, at)
  BY <1>4, RegLineIs
<1>6. Len(F) = FieldsIn(reply) /\ LineOf(Chars, line, F, <<>>, at)
  BY <1>5, Zenon DEF RegLaid
<1>7. Len(F) \in Nat \ {0}
  <2>1. FieldsIn(reply) \in Nat \ {0}
    BY <1>4, RegFacts, Zenon
  <2> QED BY <1>6, <2>1, Zenon
<1>8. start.cur = 3
  <2>1. Len(F) # 0
    BY <1>7
  <2>2. at_tok_start(line, 1) = [ok |-> TRUE, cur |-> 3]
    BY <1>6, <2>1, StartRead, Zenon
  <2>3. start = [ok |-> TRUE, cur |-> 3]
    BY <1>1, <2>2, Zenon
  <2> QED BY <2>3
<1>9. todo' = FieldsOf(FieldsIn(reply) - 1)
  <2>1. Cardinality({i \in 3 .. Len(line) : line[i] = ","}) = Len(F) - 1
    BY <1>5, <1>7, CommasAre, Zenon
  <2> QED BY <1>1, <1>6, <1>8, <2>1, Zenon
<1>10. ASSUME Clear(reply)
       PROVE  /\ todo' # <<>>
              /\ Reading(reply, line, First(reply), cur', todo', response)
  <2>1. todo' = Left(reply, First(reply)) /\ todo' # <<>>
    BY <1>4, <1>9, <1>10, FieldsAreLeft, Zenon
  <2>2. response = [stat |-> -1, lac |-> -1, cid |-> -1, skip |-> -1]
    BY <1>2 DEF IInv, AtReply
  <2>3. response \in Responses /\ response.lac = -1 /\ response.cid = -1
    BY <2>2 DEF Responses
  <2>4. /\ First(reply) \in {"skip", "stat", "lac", "cid"} /\ First(reply) \notin {"lac", "cid"}
        /\ First(reply) # "cid" /\ (First(reply) = "skip" => reply.n)
    BY DEF First
  <2>5. Rank(reply, First(reply)) = 1
    <3>1. reply.n \in BOOLEAN
      BY <1>4, RegFacts, Zenon
    <3>2. CASE reply.n
      BY <3>2 DEF Rank, First
    <3>3. CASE ~reply.n
      BY <3>3 DEF Rank, First, Before
    <3> QED BY <3>2, <3>3
  <2>6. cur' = Ahead(<<>>, at, Rank(reply, First(reply)))
    BY <1>1, <1>8, <2>5 DEF Ahead
  <2> QED BY <1>5, <2>1, <2>3, <2>4, <2>6, Zenon DEF Reading
<1>11. CASE pc' = "fields"
  <2>1. AtFields'
    BY <1>2, <1>10, Zenon DEF AtFields
  <2> QED BY <1>3, <1>11, <2>1 DEF IInv, AtReply, AtResponse, AtClassify, AtConvert, AtDecode,
                                   AtOutput, AnswerIsReply
<1>12. CASE pc' = "answered"
  <2>1. ~Clear(reply)
    BY <1>1, <1>10, <1>12
  <2>2. AnswerIsReply'
    BY <1>2, <2>1, RegAnswered
  <2> QED BY <1>3, <1>12, <2>2, Answered
<1> QED BY <1>1, <1>11, <1>12

\* ... ReadField, ...
LEMMA FieldKept ==
  ASSUME IInv, Inv', ReadField PROVE IInv'
<1>1. /\ pc = "fields" /\ reply' = reply /\ line' = line /\ UNCHANGED <<world, sw, decoding>>
  BY DEF ReadField, world
<1>2. PICK n :
        /\ n = NextField(line, Head(todo), cur) /\ cur' = n.cur /\ todo' = Tail(todo)
        /\ response' = [response EXCEPT ![Head(todo)] = n.value]
        /\ \/ ~n.ok /\ pc' = "answered" /\ answer' = [ok |-> FALSE, fields |-> <<>>, text |-> NoText]
           \/ /\ n.ok /\ Len(todo) = 1 /\ pc' = "answered"
              /\ answer' = [ok |-> TRUE, text |-> NoText,
                            fields |-> <<response'.stat, response'.lac, response'.cid>>]
           \/ n.ok /\ Len(todo) # 1 /\ pc' = pc
  BY Zenon DEF ReadField, Answer, NextField
<1>3. Typed'
  BY <1>1, <1>2 DEF IInv, Typed, world, decoding
<1>4. reply.kind = "CREG" /\ reply \in RegReplies
  BY <1>1, KindIs DEF IInv, Inv, AtFields
<1>5. ASSUME Clear(reply)
      PROVE  /\ n.ok
             /\ Len(todo) = 1 =>
                  <<response'.stat, response'.lac, response'.cid>> = Registration(reply)
             /\ Len(todo) # 1 => \E name : Reading(reply, line, name, cur', todo', response')
  <2>1. PICK name : Reading(reply, line, name, cur, todo, response)
    BY <1>1, <1>5 DEF IInv, AtFields
  <2>2. Reads(line, todo, cur, n) /\ Notes(response, Head(todo), n.value, response')
    BY <1>2, Zenon DEF Reads, Notes
  <2>3. /\ n.ok
        /\ Len(todo) = 1 =>
             <<response'.stat, response'.lac, response'.cid>> = Registration(reply)
        /\ Len(todo) # 1 => \E next : Reading(reply, line, next, n.cur, Tail(todo), response')
    BY <1>4, <2>1, <2>2, ReadOne, Zenon
  <2> QED BY <1>2, <2>3, Zenon
<1>6. CASE pc' = "answered"
  <2>1. Clear(reply) => answer'.ok /\ answer'.fields = Registration(reply)
    <3> SUFFICES ASSUME Clear(reply) PROVE answer'.ok /\ answer'.fields = Registration(reply)
      OBVIOUS
    <3>1. n.ok /\ Len(todo) = 1
      BY <1>1, <1>2, <1>5, <1>6
    <3>2. <<response'.stat, response'.lac, response'.cid>> = Registration(reply)
      BY <1>5, <3>1
    <3>3. answer' = [ok |-> TRUE, text |-> NoText, fields |-> Registration(reply)]
      BY <1>1, <1>2, <1>6, <3>1, <3>2, Zenon
    <3> QED BY <3>3
  <2>2. AnswerIsReply'
    BY <1>1, <1>4, <2>1, RegAnswered
  <2> QED BY <1>3, <1>6, <2>2, Answered
<1>7. CASE pc' # "answered"
  <2>1. n.ok /\ Len(todo) # 1 /\ pc' = "fields"
    BY <1>1, <1>2, <1>7
  <2>2. AtFields'
    BY <1>1, <1>4, <1>5, <2>1, Zenon DEF AtFields
  <2> QED BY <1>3, <2>1, <2>2 DEF IInv, AtReply, AtResponse, AtClassify, AtConvert, AtDecode,
                                  AtOutput, AnswerIsReply
<1> QED BY <1>6, <1>7

\* ... ParseStatus, ...
LEMMA StatusParsed ==
  ASSUME IInv, Inv', ParseStatus PROVE IInv'
<1>1. /\ pc = "reply" /\ reply.kind = "CRSM" /\ reply' = reply /\ line' = line
      /\ UNCHANGED <<world, decoding>>
  BY DEF ParseStatus, world
<1>2. PICK start, n1, n2 :
        /\ start = at_tok_start(line, cur) /\ n1 = at_tok_nextint(line, start.cur)
        /\ n2 = at_tok_nextint(line, n1.cur)
        /\ n1.ok /\ n2.ok => sw' = <<n1.value, n2.value>> /\ cur' = n2.cur /\ pc' = "response"
  BY Zenon DEF ParseStatus
<1>3. reply \in SimReplies /\ line = Line(reply) /\ cur = 1
  BY <1>1, KindIs DEF IInv, Inv, AtReply
<1>4. SimReads(reply, line, n1, n2)
  BY <1>2, <1>3, SimRead, Zenon
<1>5. /\ sw' = reply.sw /\ cur' = n2.cur /\ pc' = "response" /\ DataAhead(reply, line, cur')
  BY <1>2, <1>4, Zenon DEF SimReads, DataAhead
<1>6. reply.sw \in Bytes \X Bytes
  BY <1>3, RepliesAssumption, Zenon DEF IsSimReply
<1>7. Typed'
  <2>1. sw' \in Bytes \X Bytes /\ pc' = "response"
    BY <1>5, <1>6, Zenon
  <2> QED BY <1>1, <2>1 DEF IInv, Typed, world, decoding
<1>8. AtResponse'
  BY <1>1, <1>5, Zenon DEF AtResponse
<1> QED BY <1>5, <1>7, <1>8 DEF IInv, AtReply, AtFields, AtClassify, AtConvert, AtDecode,
                                AtOutput, AnswerIsReply

\* ... ParseResponse, ...
LEMMA ResponseParsed ==
  ASSUME IInv, Inv', ParseResponse PROVE IInv'
<1>1. /\ pc = "response" /\ reply' = reply /\ line' = line /\ pc' = "classify" /\ sw' = sw
      /\ UNCHANGED <<world, decoding>>
      /\ simResponse' = IF at_tok_hasmore(line, cur) THEN at_tok_nextstr(line, cur).tok ELSE NoText
  BY DEF ParseResponse, world
<1>2. reply.kind = "CRSM" /\ sw = reply.sw /\ DataAhead(reply, line, cur)
  BY <1>1 DEF IInv, AtResponse
<1>3. simResponse' = Data(reply)
  <2>1. CASE reply.data = "none"
    <3>1. cur = NULL
      BY <1>2, <2>1, Zenon DEF DataAhead
    <3>2. ~at_tok_hasmore(line, cur)
      BY <3>1 DEF at_tok_hasmore
    <3> QED BY <1>1, <2>1, <3>2, Zenon DEF Data
  <2>2. CASE reply.data # "none"
    <3>1. at_tok_hasmore(line, cur) /\ at_tok_nextstr(line, cur).tok = Hex(reply)
      BY <1>2, <2>2, Zenon DEF DataAhead
    <3> QED BY <1>1, <2>2, <3>1, Zenon DEF Data
  <2> QED BY <2>1, <2>2
<1>4. Typed'
  BY <1>1 DEF IInv, Typed, world, decoding
<1>5. AtClassify'
  BY <1>1, <1>2, <1>3, Zenon DEF AtClassify
<1> QED BY <1>1, <1>4, <1>5 DEF IInv, AtReply, AtFields, AtResponse, AtConvert, AtDecode,
                                AtOutput, AnswerIsReply

\* No data are mistaken for none.
LEMMA DataIsText ==
  /\ vgHexDataToString(IccidFcp) # NoText
  /\ \A r \in SimReplies : Hex(r) # NoText
<1>1. ASSUME NEW d PROVE Len(d) \in Nat => vgHexDataToString(d) # NoText
  <2> SUFFICES ASSUME Len(d) \in Nat, vgHexDataToString(d) = NoText PROVE FALSE
    OBVIOUS
  <2>1. PICK n \in Nat : n = Len(d)
    OBVIOUS
  <2>2. DOMAIN vgHexDataToString(d) = 1 .. 2 * n
    BY <2>1 DEF vgHexDataToString
  <2>3. DOMAIN NoText = 1 .. 1
    BY DEF NoText
  <2>4. 1 .. 2 * n = 1 .. 1
    BY <2>2, <2>3, Zenon
  <2>5. 1 \in 1 .. 2 * n /\ 2 \notin 1 .. 2 * n
    BY <2>4
  <2> QED BY <2>5
<1>2. Len(IccidFcp) \in Nat
  <2>1. IccidFcp = Template(IccidObjects)
    BY Zenon DEF IccidFcp
  <2>2. Block(IccidFcp, IccidObjects)
    BY <2>1, IccidIsShort, ShortBlock, Zenon
  <2>3. IccidFcp \in Seq(Bytes)
    BY <2>2, Zenon DEF Block
  <2> QED BY <2>3, LenProperties, Zenon
<1>3. ASSUME NEW r \in SimReplies PROVE Len(Template(r.objects)) \in Nat
  <2>1. Template(r.objects) \in Seq(Bytes)
    BY SimData, Zenon
  <2> QED BY <2>1, LenProperties, Zenon
<1> QED BY <1>1, <1>2, <1>3, Zenon DEF Hex

\* ... Classify, ...
LEMMA Classified ==
  ASSUME IInv, Inv', Classify PROVE IInv'
<1>1. PICK refused, text, words :
        /\ refused = (reply.command = GetResponse /\ sw = <<105, 133>> /\ reply.iccid)
        /\ text = (IF refused THEN vgHexDataToString(IccidFcp) ELSE simResponse)
        /\ words = (IF refused THEN <<144, 0>> ELSE sw)
        /\ sw' = words
        /\ \/ /\ reply.command = GetResponse /\ words = <<144, 0>> /\ text # NoText
              /\ pc' = "convert" /\ dataBlock' = vgStringToHexData(text)
           \/ /\ ~(reply.command = GetResponse /\ words = <<144, 0>> /\ text # NoText)
              /\ pc' = "answered"
              /\ answer' = [ok |-> TRUE, fields |-> words,
                            text |-> IF reply.command = GetResponse /\ words = <<144, 0>>
                                     THEN vgHexDataToString(DefaultFcp) ELSE text]
  BY Zenon DEF Classify, Answer
<1>2. /\ pc = "classify" /\ reply' = reply /\ line' = line /\ signed' = signed
      /\ UNCHANGED <<world, offset, fcpLength, fcpOffset, efStatus>>
  BY DEF Classify, world
<1>3. reply.kind = "CRSM" /\ sw = reply.sw /\ simResponse = Data(reply) /\ reply \in SimReplies
  BY <1>2, KindIs DEF IInv, Inv, AtClassify
<1>4. reply.sw \in Bytes \X Bytes
  BY <1>3, RepliesAssumption, Zenon DEF IsSimReply
<1>5. Typed'
  <2>1. <<144, 0>> \in Bytes \X Bytes
    BY DEF Bytes, UINT8
  <2>2. sw' \in Bytes \X Bytes
    BY <1>1, <1>3, <1>4, <2>1, Zenon
  <2>3. pc' \in {"convert", "answered"}
    BY <1>1, Zenon
  <2> QED BY <1>2, <2>2, <2>3 DEF IInv, Typed, world
<1>6. text # NoText \/ reply.data = "none"
  BY <1>1, <1>3, DataIsText, Zenon DEF Data
<1>7. CASE refused
  <2>1. /\ reply.command = GetResponse /\ reply.iccid /\ reply.sw = <<105, 133>>
        /\ text = vgHexDataToString(IccidFcp) /\ words = <<144, 0>>
    BY <1>1, <1>3, <1>7, Zenon
  <2>2. text # NoText
    BY <2>1, DataIsText, Zenon
  <2>3. pc' = "convert" /\ dataBlock' = vgStringToHexData(text) /\ sw' = <<144, 0>>
    BY <1>1, <2>1, <2>2, Zenon
  <2>4. Block(dataBlock', IccidObjects)
    BY <2>1, <2>3, IccidBlock, Zenon
  <2>5. Refuses(reply) /\ FileOf(reply) = IccidObjects
    BY <2>1, Zenon DEF Refuses, FileOf
  <2>6. Converting' /\ Source(IccidObjects)'
    BY <1>2, <1>3, <2>1, <2>3, <2>4, <2>5, Zenon DEF Converting, Source
  <2>7. AtConvert'
    BY <2>6, Zenon DEF AtConvert
  <2> QED BY <1>5, <2>3, <2>7 DEF IInv, AtReply, AtFields, AtResponse, AtClassify, AtDecode,
                                  AtOutput, AnswerIsReply
<1>8. CASE ~refused /\ pc' = "convert"
  <2>1. /\ reply.command = GetResponse /\ words = <<144, 0>> /\ words = sw /\ text # NoText
        /\ text = simResponse /\ dataBlock' = vgStringToHexData(text)
    <3>1. "convert" # "answered"
      OBVIOUS
    <3> QED BY <1>1, <1>8, <3>1, Zenon
  <2>2. text = Hex(reply)
    BY <1>3, <2>1, Zenon DEF Data
  <2>3. Block(dataBlock', reply.objects)
    BY <1>3, <2>1, <2>2, ReplyBlock, Zenon
  <2>4. ~Refuses(reply) /\ FileOf(reply) = reply.objects
    BY <1>1, <1>3, <1>8, Zenon DEF Refuses, FileOf
  <2>5. Converting' /\ Source(reply.objects)'
    BY <1>1, <1>2, <1>3, <2>1, <2>3, <2>4, Zenon DEF Converting, Source
  <2>6. AtConvert'
    BY <2>5, Zenon DEF AtConvert
  <2> QED BY <1>5, <1>8, <2>6 DEF IInv, AtReply, AtFields, AtResponse, AtClassify, AtDecode,
                                  AtOutput, AnswerIsReply
<1>9. CASE ~refused /\ pc' = "answered"
  <2>1. /\ text = Data(reply) /\ words = reply.sw
        /\ ~(reply.command = GetResponse /\ words = <<144, 0>> /\ text # NoText)
    <3>1. "convert" # "answered"
      OBVIOUS
    <3> QED BY <1>1, <1>3, <1>9, <3>1, Zenon
  <2>2. /\ answer'.ok /\ answer'.fields = reply.sw
        /\ reply.command # GetResponse \/ reply.sw # <<144, 0>> => answer'.text = Data(reply)
    <3>1. "convert" # "answered"
      OBVIOUS
    <3>2. answer' = [ok |-> TRUE, fields |-> words,
                     text |-> IF reply.command = GetResponse /\ words = <<144, 0>>
                              THEN vgHexDataToString(DefaultFcp) ELSE text]
      BY <1>1, <1>9, <3>1, Zenon
    <3>3. PICK t : t = IF reply.command = GetResponse /\ words = <<144, 0>>
                       THEN vgHexDataToString(DefaultFcp) ELSE text
      OBVIOUS
    <3>4. answer'.ok /\ answer'.fields = words /\ answer'.text = t
      BY <3>2, <3>3
    <3>5. reply.command # GetResponse \/ reply.sw # <<144, 0>> => t = text
      BY <2>1, <3>3
    <3> QED BY <2>1, <3>4, <3>5, Zenon
  <2>3. ~Refuses(reply)
    BY <1>1, <1>3, <1>9, Zenon DEF Refuses
  <2>4. SimTold(reply, signed, answer')
    <3>1. AsIs(reply) => answer'.text = Data(reply)
      BY <2>2, Zenon DEF AsIs
    <3>2. ~AsIs(reply) => reply.data = "none"
      BY <1>6, <2>1, <2>3, Zenon DEF AsIs
    <3> QED BY <2>2, <2>3, <3>1, <3>2, Zenon DEF SimTold, Data
  <2>5. AnswerIsReply'
    BY <1>2, <1>3, <2>4, SimAnswered
  <2> QED BY <1>5, <1>9, <2>5, Answered
<1> QED BY <1>1, <1>7, <1>8, <1>9, Zenon

\* ... DecodeTemplate, ...
LEMMA TemplateDecoded ==
  ASSUME IInv, Inv', DecodeTemplate PROVE IInv'
<1>1. PICK l :
        /\ LengthAt(dataBlock, 1, l)
        /\ IF Byte(dataBlock, 0) = 98 /\ l.size # 0
           THEN offset' = 1 + l.size /\ fcpLength' = l.lgth /\ fcpOffset' = l.size /\ pc' = "decode"
           ELSE pc' = "output" /\ UNCHANGED <<offset, fcpLength, fcpOffset>>
  BY Zenon DEF DecodeTemplate, LengthAt
<1>2. /\ pc = "convert" /\ reply' = reply /\ line' = line /\ signed' = signed /\ sw' = sw
      /\ dataBlock' = dataBlock /\ efStatus' = efStatus
  BY DEF DecodeTemplate, world, parsing
<1>3. Converting /\ \E os : Source(os)
  BY <1>2 DEF IInv, AtConvert
<1>4. PICK os : Source(os)
  BY <1>3
<1>5. Block(dataBlock, os)
  BY <1>4, Zenon DEF Source
<1>6. PICK at : TemplateAt(dataBlock, os, at)
  BY <1>5, Zenon DEF Block
<1>7. /\ Byte(dataBlock, 0) = 98 /\ l.size # 0 /\ 1 + l.size = at[0]
      /\ l.lgth + l.size = Len(dataBlock) - 1
      /\ l.size \in 0 .. 2 /\ l.lgth \in 0 .. UINT8 - 1 /\ 1 + l.size \in 0 .. UINT8 - 1
  BY <1>1, <1>5, <1>6, TemplateBegun
<1>8. offset' = 1 + l.size /\ fcpLength' = l.lgth /\ fcpOffset' = l.size /\ pc' = "decode"
  BY <1>1, <1>7, Zenon
<1>9. Typed'
  <2>1. /\ offset' \in 0 .. UINT8 - 1 /\ fcpLength' \in 0 .. UINT8 - 1 /\ fcpOffset' \in 0 .. 2
    BY <1>7, <1>8, Zenon
  <2> QED BY <1>2, <1>8, <2>1 DEF IInv, Typed
<1>10. 0 \in 0 .. Len(os)
  <2>1. os \in Seq(Objects)
    BY <1>5, Zenon DEF Block
  <2> QED BY <2>1
<1>11. Place(os, at, 0)'
  <2>1. offset' = at[0] /\ fcpLength' + fcpOffset' = Len(dataBlock') - 1
    BY <1>2, <1>7, <1>8, Zenon
  <2> QED BY <1>2, <1>6, <1>10, <2>1, Zenon DEF Place
<1>12. Known(os, 0)'
  <2>1. \A i \in 1 .. 0 : Knows(efStatus', os[i])
    OBVIOUS
  <2> QED BY <2>1, Zenon DEF Known
<1>13. Converting' /\ Source(os)'
  BY <1>2, <1>3, <1>4, Zenon DEF Converting, Source
<1>14. AtDecode'
  BY <1>11, <1>12, <1>13, Zenon DEF AtDecode
<1> QED BY <1>8, <1>9, <1>14 DEF IInv, AtReply, AtFields, AtResponse, AtClassify, AtConvert,
                                 AtOutput, AnswerIsReply

\* The loop goes on just as long as there are objects.
LEMMA LoopGoesOn ==
  ASSUME NEW os, NEW at, NEW j, Source(os), Place(os, at, j)
  PROVE  /\ InTemplate <=> j < Len(os)
         /\ Block(dataBlock, os) /\ TemplateAt(dataBlock, os, at) /\ j \in 0 .. Len(os)
         /\ offset = at[j] /\ Len(os) \in Nat
<1>1. /\ TemplateAt(dataBlock, os, at) /\ j \in 0 .. Len(os) /\ offset = at[j]
      /\ fcpLength + fcpOffset = Len(dataBlock) - 1
  BY Zenon DEF Place
<1>2. Block(dataBlock, os)
  BY Zenon DEF Source
<1>3. at[j] \in 0 .. UINT8 - 1 /\ at[j] <= Len(dataBlock) /\ (j = Len(os) <=> at[j] = Len(dataBlock))
  BY <1>1, <1>2, LoopPlace
<1>4. dataBlock \in Seq(Bytes) /\ os \in Seq(Objects)
  BY <1>2, Zenon DEF Block
<1>5. Len(dataBlock) \in Nat /\ Len(os) \in Nat
  BY <1>4, LenProperties, Zenon
<1>6. PICK n, m, a, e : n = Len(dataBlock) /\ m = Len(os) /\ a = offset /\ e = fcpLength + fcpOffset
  OBVIOUS
<1>7. /\ n \in Nat /\ m \in Nat /\ a \in 0 .. UINT8 - 1 /\ a <= n /\ (j = m <=> a = n)
      /\ j \in 0 .. m /\ e = n - 1
  BY <1>1, <1>3, <1>5, <1>6, Zenon
<1>8. a <= e <=> j < m
  BY <1>7 DEF UINT8
<1> QED BY <1>1, <1>2, <1>5, <1>6, <1>8, Zenon DEF InTemplate

\* ... Turn, ...
LEMMA TurnKept ==
  ASSUME IInv, Inv', Turn PROVE IInv'
<1>1. PICK r :
        /\ Turned(signed, offset, dataBlock, efStatus, r)
        /\ IF InTemplate THEN offset' = r.offset /\ efStatus' = r.st /\ pc' = pc
                         ELSE pc' = "output" /\ UNCHANGED <<offset, efStatus>>
  BY Zenon DEF Turn, Turned
<1>2. /\ pc = "decode" /\ reply' = reply /\ line' = line /\ signed' = signed /\ sw' = sw
      /\ dataBlock' = dataBlock /\ fcpLength' = fcpLength /\ fcpOffset' = fcpOffset
  BY DEF Turn, world, parsing
<1>3. Converting /\ \E os, at, j : Source(os) /\ Place(os, at, j) /\ Known(os, j)
  BY <1>2 DEF IInv, AtDecode
<1>4. PICK os, at, j : Source(os) /\ Place(os, at, j) /\ Known(os, j)
  BY <1>3
<1>5. /\ InTemplate <=> j < Len(os)
      /\ Block(dataBlock, os) /\ TemplateAt(dataBlock, os, at) /\ j \in 0 .. Len(os)
      /\ offset = at[j] /\ Len(os) \in Nat
  BY <1>4, LoopGoesOn, Zenon
<1>6. signed \in BOOLEAN /\ efStatus \in Statuses
  BY CharAssumption DEF IInv, Typed
<1>7. Converting' /\ Source(os)'
  BY <1>2, <1>3, <1>4, Zenon DEF Converting, Source
<1>8. CASE InTemplate
  <2>1. Turned(signed, at[j], dataBlock, efStatus, r)
    BY <1>1, <1>5, Zenon
  <2>2. /\ r.offset = at[j + 1] /\ at[j + 1] \in 0 .. UINT8 - 1 /\ j + 1 \in 0 .. Len(os)
        /\ r.st \in Statuses
        /\ ~signed => Knows(r.st, os[j + 1]) /\ Keeps(efStatus, r.st, os[j + 1])
    <3>1. j < Len(os)
      BY <1>5, <1>8, Zenon
    <3> QED BY <1>5, <1>6, <2>1, <3>1, TurnTaken
  <2>3. offset' = r.offset /\ efStatus' = r.st /\ pc' = "decode"
    BY <1>1, <1>2, <1>8, Zenon
  <2>4. Typed'
    <3>1. offset' \in 0 .. UINT8 - 1 /\ efStatus' \in Statuses
      BY <2>2, <2>3, Zenon
    <3> QED BY <1>2, <2>3, <3>1 DEF IInv, Typed
  <2>5. Place(os, at, j + 1)'
    BY <1>2, <1>4, <1>5, <2>2, <2>3, Zenon DEF Place
  <2>6. Known(os, j + 1)'
    <3>1. ASSUME ~signed, NEW i \in 1 .. j + 1
          PROVE  Knows(r.st, os[i])
      <4>1. CASE i = j + 1
        BY <2>2, <3>1, <4>1, Zenon
      <4>2. CASE i # j + 1
        <5>1. i \in 1 .. j
          BY <1>5, <4>2
        <5>2. Knows(efStatus, os[i])
          BY <1>4, <3>1, <5>1, Zenon DEF Known
        <5>3. Keeps(efStatus, r.st, os[j + 1])
          BY <2>2, <3>1, Zenon
        <5>4. os = FileOf(reply) /\ reply \in SimReplies
          <6>1. reply.kind = "CRSM" /\ reply \in SimReplies \cup RegReplies \cup RadReplies
            BY <1>3 DEF IInv, Inv, Converting
          <6>2. reply \in SimReplies
            BY <6>1, KindIs, Zenon
          <6> QED BY <1>4, <3>1, <6>2, Zenon DEF Source
        <5>5. i \in 1 .. Len(os) /\ j + 1 \in 1 .. Len(os)
          BY <1>5, <2>2, <5>1
        <5>6. os[i].tag \in {128, 130, 131} => os[i].tag # os[j + 1].tag
          BY <4>2, <5>4, <5>5, FileObjects, Zenon
        <5> QED BY <5>2, <5>3, <5>6, KnownStays, Zenon
      <4> QED BY <4>1, <4>2
    <3> QED BY <1>2, <2>3, <3>1, Zenon DEF Known
  <2>7. AtDecode'
    BY <1>7, <2>5, <2>6, Zenon DEF AtDecode
  <2> QED BY <2>3, <2>4, <2>7 DEF IInv, AtReply, AtFields, AtResponse, AtClassify, AtConvert,
                                  AtOutput, AnswerIsReply
<1>9. CASE ~InTemplate
  <2>1. pc' = "output" /\ offset' = offset /\ efStatus' = efStatus
    BY <1>1, <1>9
  <2>2. Typed'
    BY <1>2, <2>1 DEF IInv, Typed
  <2>3. j = Len(os)
    BY <1>5, <1>9
  <2>4. Known(os, Len(os))'
    BY <1>2, <1>4, <2>1, <2>3, Zenon DEF Known
  <2>5. AtOutput'
    BY <1>7, <2>4, Zenon DEF AtOutput
  <2> QED BY <2>1, <2>2, <2>5 DEF IInv, AtReply, AtFields, AtResponse, AtClassify, AtConvert,
                                  AtDecode, AnswerIsReply
<1> QED BY <1>8, <1>9

\* ... Output, ...
LEMMA DescriptionAnswered ==
  ASSUME IInv, Inv', Output PROVE IInv'
<1>0. PICK rest \in {0, 255} :
        Answer(TRUE, sw, vgHexDataToString(
                 [i \in 1 .. 15 |-> LET b == To2gSimStatus(efStatus)[i]
                                    IN  IF b = Unset THEN rest ELSE b]))
  BY Zenon DEF Output
<1>1. pc' = "answered"
      /\ answer' = [ok |-> TRUE, fields |-> sw,
                    text |-> vgHexDataToString(FifteenOf(efStatus, rest))]
  <2>1. Answer(TRUE, sw, vgHexDataToString(FifteenOf(efStatus, rest)))
    BY <1>0 DEF FifteenOf
  <2>2. PICK t : t = vgHexDataToString(FifteenOf(efStatus, rest))
    OBVIOUS
  <2>3. pc' = "answered" /\ answer' = [ok |-> TRUE, fields |-> sw, text |-> t]
    BY <2>1, <2>2 DEF Answer
  <2> QED BY <2>2, <2>3, Zenon
<1>2. pc = "output" /\ reply' = reply /\ signed' = signed
  BY DEF Output, world
<1>3. Typed'
  BY <1>1 DEF IInv, Typed, Output, world, parsing, decoding
<1>4. Converting
  BY <1>2 DEF IInv, AtOutput
<1>5. PICK os : Source(os) /\ Known(os, Len(os))
  BY <1>2 DEF IInv, AtOutput
<1>6. /\ reply.kind = "CRSM" /\ reply.command = GetResponse /\ sw = <<144, 0>>
      /\ Refuses(reply) \/ reply.sw = <<144, 0>>
  BY <1>4, Zenon DEF Converting
<1>7. efStatus \in Statuses
  BY DEF IInv, Typed
<1>8. answer'.ok /\ answer'.fields = sw
      /\ answer'.text = vgHexDataToString(FifteenOf(efStatus, rest))
  BY <1>1
<1>9. ASSUME ~signed PROVE Describes(answer'.text, FileOf(reply))
  <2>1. os = FileOf(reply) /\ Block(dataBlock, os)
    BY <1>5, Zenon DEF Source
  <2>2. \A i \in 1 .. Len(os) : Knows(efStatus, os[i])
    BY <1>5, <1>9, Zenon DEF Known
  <2>3. Describes(vgHexDataToString(FifteenOf(efStatus, rest)), os)
    BY <1>7, <2>1, <2>2, TextDescribes
  <2> QED BY <1>8, <2>1, <2>3, Zenon
<1>10. SimTold(reply, signed, answer')
  <2>1. ~AsIs(reply)
    BY <1>6, Zenon DEF AsIs
  <2>2. sw = IF Refuses(reply) THEN <<144, 0>> ELSE reply.sw
    BY <1>6, Zenon
  <2> QED BY <1>8, <1>9, <2>1, <2>2, Zenon DEF SimTold
<1>11. AnswerIsReply'
  BY <1>2, <1>6, <1>10, SimAnswered
<1> QED BY <1>1, <1>3, <1>11, Answered

\* ... and a step of nobody.
LEMMA Stutters ==
  ASSUME IInv, Inv', UNCHANGED vars PROVE IInv'
<1>1. /\ pc' = pc /\ signed' = signed /\ reply' = reply /\ line' = line /\ cur' = cur
      /\ todo' = todo /\ response' = response /\ sw' = sw /\ simResponse' = simResponse
      /\ dataBlock' = dataBlock /\ offset' = offset /\ fcpLength' = fcpLength
      /\ fcpOffset' = fcpOffset /\ efStatus' = efStatus /\ answer' = answer
  BY DEF vars, world, creg, parsing, decoding
<1>2. Typed' /\ AtReply' /\ AtResponse' /\ AtClassify'
  BY <1>1 DEF IInv, Typed, AtReply, AtResponse, AtClassify
<1>3. AtFields' /\ AtConvert' /\ AtDecode' /\ AtOutput'
  <2>1. AtFields'
    BY <1>1, Zenon DEF IInv, AtFields
  <2>2. AtConvert'
    BY <1>1, Zenon DEF IInv, AtConvert, Converting, Source
  <2>3. AtDecode'
    BY <1>1, Zenon DEF IInv, AtDecode, Converting, Source, Place, Known
  <2>4. AtOutput'
    BY <1>1, Zenon DEF IInv, AtOutput, Converting, Source, Known
  <2> QED BY <2>1, <2>2, <2>3, <2>4
<1>4. AnswerIsReply'
  <2>1. AnswerIsReply
    BY DEF IInv
  <2> QED BY <1>1, <2>1, ToldIs, Zenon
<1> QED BY <1>2, <1>3, <1>4 DEF IInv

\* So every step does, ...
LEMMA NextIInv == IInv /\ [Next]_vars => IInv'
<1> SUFFICES ASSUME IInv, [Next]_vars PROVE IInv'
  OBVIOUS
<1>1. Inv'
  BY NextInv DEF IInv
<1> QED BY <1>1, RadioAnswered, CommasCounted, FieldKept, StatusParsed, ResponseParsed, Classified,
           TemplateDecoded, TurnKept, DescriptionAnswered, Stutters DEF Next, Step

\* ... and it always holds.
LEMMA IInvHolds == Spec => []IInv
BY InitIInv, NextIInv, PTL DEF Spec

\* Whatever a reply says, the variables of requestSIM_IO, requestRegistrationState
\* and the decoders of usim-fcp.c have their types: the offset and the lengths fit a
\* byte, and every field of the status the integer that the C structure has for it.
THEOREM ReplyTypes == Spec => []TypeOK
<1>1. IInv => TypeOK
  <2> SUFFICES ASSUME IInv PROVE TypeOK
    OBVIOUS
  <2>1. CursorInLine
    <3>1. Inv
      BY DEF IInv
    <3>2. line \in Text /\ Cursor(line, cur)
      BY <3>1, LineIsText DEF Inv
    <3> QED BY <3>2, LineEnd DEF CursorInLine, Cursor, At
  <2>2. Len(sw) \in {0, 2} /\ \A i \in DOMAIN sw : sw[i] \in Nat
    <3>1. CASE sw = <<>>
      BY <3>1
    <3>2. CASE sw \in Bytes \X Bytes
      <4>1. PICK x \in Bytes, y \in Bytes : sw = <<x, y>>
        BY <3>2
      <4>2. x \in Nat /\ y \in Nat
        BY DEF Bytes, UINT8
      <4> QED BY <4>1, <4>2
    <3> QED BY <3>1, <3>2 DEF IInv, Typed
  <2>3. reply.kind \in {"CRSM", "CREG", "CFUN"}
    BY KindIs DEF IInv, Inv
  <2>4. efStatus \in Records(Words, Words, Types, Structures, Octets, Numbers, Numbers)
    BY Zenon DEF IInv, Typed, Statuses
  <2>5. /\ efStatus.fileSize \in Words /\ efStatus.fileId \in Words
        /\ efStatus.recordLength \in Octets /\ efStatus.fileType \in Types
        /\ efStatus.efStructure \in Structures
    BY <2>4 DEF Records
  <2> QED BY <2>1, <2>2, <2>3, <2>5 DEF IInv, Typed, TypeOK, Words, Octets, Types, Structures
<1> QED BY <1>1, IInvHolds, PTL

\* Every object that UsimDecodeEfStatusData begins lies within the block of data,
\* whatever objects a template of less than 256 bytes has and in which order, on
\* builds of either char: no byte is read from behind the block, and the offset
\* does not wrap.
THEOREM BlockStays == Spec => []BlockNotOverrun
<1>1. IInv => BlockNotOverrun
  <2> SUFFICES ASSUME IInv, pc = "decode", InTemplate
               PROVE  LET l == UsimDecodeDataLength(dataBlock, offset + 1)
                      IN  offset + 1 + l.size + l.lgth <= Len(dataBlock)
    BY Zenon DEF BlockNotOverrun
  <2>1. PICK os, at, j : Source(os) /\ Place(os, at, j)
    BY DEF IInv, AtDecode
  <2>2. /\ j < Len(os) /\ Block(dataBlock, os) /\ TemplateAt(dataBlock, os, at)
        /\ j \in 0 .. Len(os) /\ offset = at[j]
    BY <2>1, LoopGoesOn, Zenon
  <2>3. /\ Len(dataBlock) < UINT8 /\ ObjectAt(dataBlock, at[j], os[j + 1], at[j + 1])
        /\ os[j + 1] \in Objects
    BY <2>2, LoopPlace, Zenon
  <2>4. dataBlock \in Seq(Bytes)
    BY <2>2, Zenon DEF Block
  <2>5. PICK next, o : next = at[j + 1] /\ o = os[j + 1]
    OBVIOUS
  <2>6. ObjectAt(dataBlock, offset, o, next) /\ o \in Objects /\ Len(dataBlock) < UINT8
    BY <2>2, <2>3, <2>5, Zenon
  <2>7. offset \in Nat /\ efStatus \in Statuses
    BY DEF IInv, Typed, UINT8
  <2>8. /\ next <= Len(dataBlock)
        /\ LET l == UsimDecodeDataLength(dataBlock, offset + 1)
           IN  offset + 1 + l.size + l.lgth = next
    BY <2>4, <2>6, <2>7, Passed
  <2> QED BY <2>8, Zenon
<1> QED BY <1>1, IInvHolds, PTL

\* The framework is told what the modem meant, for every status word, number,
\* identifier and template of the form RepliesAssumption states: what the modem
\* writes is read back through the tokenizer, strtol, the hexadecimal digits and the
\* decoders of the objects, but for what AnswerIsReply leaves open.
THEOREM RightlyAnswered == Spec => []AnswerIsReply
<1>1. IInv => AnswerIsReply
  BY Zenon DEF IInv
<1> QED BY <1>1, IInvHolds, PTL
=============================================================================
