---------------------------- MODULE TextsProofs ----------------------------
(***************************************************************************)
(* Proofs about Texts.                                                     *)
(***************************************************************************)
EXTENDS Texts, SequenceTheorems, TLAPS

-----------------------------------------------------------------------------
(* Texts as sequences with a first symbol.                                 *)

\* The first symbol and the rest of a text, and of one put before another.
LEMMA HeadAndTail ==
  ASSUME NEW S, NEW s \in Seq(S), s # << >>
  PROVE  /\ Head(s) \in S /\ Tail(s) \in Seq(S) /\ Len(Tail(s)) = Len(s) - 1
         /\ s = <<Head(s)>> \o Tail(s)
         /\ \A t \in Seq(S) : /\ s \o t # << >>
                              /\ Head(s \o t) = Head(s) /\ Tail(s \o t) = Tail(s) \o t
OBVIOUS

LEMMA PutBefore ==
  ASSUME NEW S, NEW c \in S, NEW s \in Seq(S)
  PROVE  /\ <<c>> \o s \in Seq(S) /\ Len(<<c>> \o s) = Len(s) + 1 /\ <<c>> \o s # << >>
         /\ Head(<<c>> \o s) = c /\ Tail(<<c>> \o s) = s
<1>1. <<c>> \in Seq(S) /\ Len(<<c>>) = 1 /\ <<c>>[1] = c
  OBVIOUS
<1>2. /\ <<c>> \o s \in Seq(S) /\ Len(<<c>> \o s) = Len(s) + 1
      /\ \A i \in 1 .. Len(s) + 1 : (<<c>> \o s)[i] = IF i = 1 THEN c ELSE s[i - 1]
  BY <1>1, ConcatProperties
<1>3. Head(<<c>> \o s) = c /\ <<c>> \o s # << >>
  BY <1>2
<1>4. Tail(<<c>> \o s) = s
  <2>1. Tail(<<c>> \o s) \in Seq(S) /\ Len(Tail(<<c>> \o s)) = Len(s)
    BY <1>2, <1>3, HeadTailProperties
  <2>2. \A i \in 1 .. Len(s) : Tail(<<c>> \o s)[i] = s[i]
    BY <1>2, <1>3, HeadTailProperties
  <2> QED
    BY <2>1, <2>2, SeqEqual
<1> QED
  BY <1>2, <1>3, <1>4

\* A text of two symbols.
LEMMA TwoSymbols ==
  ASSUME NEW S, NEW a \in S, NEW b \in S
  PROVE  /\ <<a, b>> = <<a>> \o <<b>> /\ <<a, b>> \in Seq(S) /\ <<b>> \in Seq(S)
<1>1. <<b>> \in Seq(S) /\ Len(<<b>>) = 1 /\ <<b>>[1] = b
  OBVIOUS
<1>2. <<a, b>> \in Seq(S) /\ Len(<<a, b>>) = 2 /\ <<a, b>>[1] = a /\ <<a, b>>[2] = b
  OBVIOUS
<1>3. Tail(<<a, b>>) = <<b>> /\ Head(<<a, b>>) = a /\ <<a, b>> # << >>
  BY <1>1, <1>2, SeqEqual
<1> QED
  BY <1>1, <1>2, <1>3, HeadAndTail

\* Texts one behind the other.
LEMMA Joining ==
  ASSUME NEW S
  PROVE  /\ << >> \in Seq(S)
         /\ \A c \in S : <<c>> \in Seq(S)
         /\ \A u, v \in Seq(S) : u \o v \in Seq(S)
         /\ \A u, v, w \in Seq(S) : (u \o v) \o w = u \o (v \o w)
         /\ \A u \in Seq(S) : u \o << >> = u /\ << >> \o u = u
<1>1. << >> \in Seq(S) /\ \A c \in S : <<c>> \in Seq(S)
  OBVIOUS
<1>2. \A u, v \in Seq(S) : u \o v \in Seq(S)
  OBVIOUS
<1>3. \A u, v, w \in Seq(S) : (u \o v) \o w = u \o (v \o w)
  OBVIOUS
<1>4. \A u \in Seq(S) : u \o << >> = u /\ << >> \o u = u
  OBVIOUS
<1> QED
  BY <1>1, <1>2, <1>3, <1>4

\* Behind a text of known symbols one more.
LEMMA PutBehind ==
  ASSUME NEW S, NEW u \in Seq(S), NEW c \in S
  PROVE  /\ u \o <<c>> \in Seq(S) /\ Len(u \o <<c>>) = Len(u) + 1
         /\ (u \o <<c>>)[Len(u) + 1] = c
         /\ \A i \in 1 .. Len(u) : (u \o <<c>>)[i] = u[i]
<1>1. PICK v \in Seq(S) : v = <<c>> /\ Len(v) = 1 /\ v[1] = c
  <2>1. <<c>> \in Seq(S) /\ Len(<<c>>) = 1 /\ <<c>>[1] = c
    OBVIOUS
  <2> QED
    BY <2>1
<1>2. /\ u \o v \in Seq(S) /\ Len(u \o v) = Len(u) + Len(v)
      /\ \A i \in 1 .. Len(u) + Len(v) : (u \o v)[i] = IF i <= Len(u) THEN u[i] ELSE v[i - Len(u)]
  BY ConcatProperties
<1>3. Len(u) \in Nat /\ (Len(u) + 1) - Len(u) = 1 /\ Len(u) + 1 \in 1 .. Len(u) + 1
  OBVIOUS
<1>4. (u \o v)[Len(u) + 1] = c
  BY <1>1, <1>2, <1>3
<1>5. \A i \in 1 .. Len(u) : (u \o v)[i] = u[i]
  BY <1>1, <1>2, <1>3
<1> QED
  BY <1>1, <1>2, <1>4, <1>5

LEMMA OneSymbol ==
  ASSUME NEW S, NEW c \in S
  PROVE  <<c>> \in Seq(S) /\ Len(<<c>>) = 1 /\ << >> \o <<c>> = <<c>>
OBVIOUS

\* The texts that four symbols make from the first and from the last.
PartsOfFour(S, a, b, c, d) ==
  \E x1, x2, x3, x4, y1, y2, y3 \in Seq(S) :
    /\ x1 = << >> \o <<a>> /\ x2 = x1 \o <<b>> /\ x3 = x2 \o <<c>> /\ x4 = x3 \o <<d>>
    /\ Len(x1) = 1 /\ Len(x2) = 2 /\ Len(x3) = 3 /\ Len(x4) = 4
    /\ y1 = <<d>> /\ y2 = <<c>> \o y1 /\ y3 = <<b>> \o y2 /\ x4 = <<a>> \o y3
    /\ x4 = <<a, b, c, d>>

\* A text of four symbols, from its first and from its last.
LEMMA FourSymbols ==
  ASSUME NEW S, NEW a \in S, NEW b \in S, NEW c \in S, NEW d \in S
  PROVE  PartsOfFour(S, a, b, c, d)
<1>1. /\ <<a, b, c, d>> \in Seq(S) /\ <<b, c, d>> \in Seq(S) /\ <<c, d>> \in Seq(S)
  OBVIOUS
<1>2. <<a, b, c, d>> = <<a>> \o <<b, c, d>>
  <2>1. Head(<<a, b, c, d>>) = a /\ Tail(<<a, b, c, d>>) = <<b, c, d>> /\ <<a, b, c, d>> # << >>
    BY <1>1, SeqEqual
  <2> QED
    BY <1>1, <2>1, HeadAndTail
<1>3. <<b, c, d>> = <<b>> \o <<c, d>>
  <2>1. Head(<<b, c, d>>) = b /\ Tail(<<b, c, d>>) = <<c, d>> /\ <<b, c, d>> # << >>
    BY <1>1, SeqEqual
  <2> QED
    BY <1>1, <2>1, HeadAndTail
<1>4. <<c, d>> = <<c>> \o <<d>>
  BY TwoSymbols
<1>5. PICK u, v, w, x \in Seq(S) :
        /\ u = <<a>> /\ v = <<b>> /\ w = <<c>> /\ x = <<d>> /\ u = << >> \o <<a>>
        /\ Len(u) = 1 /\ Len(v) = 1 /\ Len(w) = 1 /\ Len(x) = 1
  BY OneSymbol
<1>6. \A p, q \in Seq(S) : p \o q \in Seq(S) /\ Len(p \o q) = Len(p) + Len(q)
  BY ConcatProperties
<1>7. ((u \o v) \o w) \o x = u \o (v \o (w \o x))
  <2> DEFINE J(p, q) == p \o q
  <2>1. \A p, q \in Seq(S) : J(p, q) \in Seq(S)
    BY <1>6
  <2>2. \A p, q, o \in Seq(S) : J(J(p, q), o) = J(p, J(q, o))
    BY Joining
  <2> HIDE DEF J
  <2>3. J(J(J(u, v), w), x) = J(u, J(v, J(w, x)))
    BY <2>1, <2>2
  <2> QED
    BY <2>3 DEF J
<1>8. PICK x2 \in Seq(S) : x2 = u \o v /\ Len(x2) = 2
  <2>1. u \o v \in Seq(S) /\ Len(u \o v) = Len(u) + Len(v)
    BY <1>6, Zenon
  <2>2. Len(u) + Len(v) = 2
    BY <1>5
  <2> QED
    BY <2>1, <2>2, Zenon
<1>9. PICK x3 \in Seq(S) : x3 = x2 \o w /\ Len(x3) = 3
  <2>1. x2 \o w \in Seq(S) /\ Len(x2 \o w) = Len(x2) + Len(w)
    BY <1>6, Zenon
  <2>2. Len(x2) + Len(w) = 3
    BY <1>5, <1>8
  <2> QED
    BY <2>1, <2>2, Zenon
<1>10. PICK x4 \in Seq(S) : x4 = x3 \o x /\ Len(x4) = 4
  <2>1. x3 \o x \in Seq(S) /\ Len(x3 \o x) = Len(x3) + Len(x)
    BY <1>6, Zenon
  <2>2. Len(x3) + Len(x) = 4
    BY <1>5, <1>9
  <2> QED
    BY <2>1, <2>2, Zenon
<1>11. PICK y2 \in Seq(S) : y2 = w \o x
  BY <1>6
<1>12. PICK y3 \in Seq(S) : y3 = v \o y2
  BY <1>6
<1>13. x4 = u \o y3
  BY <1>7, <1>8, <1>9, <1>10, <1>11, <1>12, Zenon
<1>14. x4 = <<a, b, c, d>>
  BY <1>2, <1>3, <1>4, <1>5, <1>11, <1>12, <1>13
<1>15. /\ u = << >> \o <<a>> /\ x2 = u \o <<b>> /\ x3 = x2 \o <<c>> /\ x4 = x3 \o <<d>>
       /\ x = <<d>> /\ y2 = <<c>> \o x /\ y3 = <<b>> \o y2 /\ x4 = <<a>> \o y3
  BY <1>5, <1>8, <1>9, <1>10, <1>11, <1>12, <1>13
<1> QED
  BY <1>5, <1>8, <1>9, <1>10, <1>14, <1>15 DEF PartsOfFour

\* A text cut before and after one of its symbols.
LEMMA Cut ==
  ASSUME NEW S, NEW s \in Seq(S), NEW i \in 1 .. Len(s)
  PROVE  /\ SubSeq(s, 1, i - 1) \in Seq(S) /\ Len(SubSeq(s, 1, i - 1)) = i - 1
         /\ SubSeq(s, i, Len(s)) \in Seq(S) /\ SubSeq(s, i + 1, Len(s)) \in Seq(S)
         /\ SubSeq(s, i, Len(s)) = <<s[i]>> \o SubSeq(s, i + 1, Len(s))
         /\ s = SubSeq(s, 1, i - 1) \o SubSeq(s, i, Len(s))
OBVIOUS

LEMMA CutBehind ==
  ASSUME NEW S, NEW s \in Seq(S), NEW i \in 0 .. Len(s)
  PROVE  /\ SubSeq(s, 1, i) \in Seq(S) /\ SubSeq(s, i + 1, Len(s)) \in Seq(S)
         /\ s = SubSeq(s, 1, i) \o SubSeq(s, i + 1, Len(s))
<1>1. /\ SubSeq(s, 1, i) \in Seq(S) /\ Len(SubSeq(s, 1, i)) = i
      /\ \A j \in 1 .. i : SubSeq(s, 1, i)[j] = s[j]
  OBVIOUS
<1>2. /\ SubSeq(s, i + 1, Len(s)) \in Seq(S) /\ Len(SubSeq(s, i + 1, Len(s))) = Len(s) - i
      /\ \A j \in 1 .. Len(s) - i : SubSeq(s, i + 1, Len(s))[j] = s[i + j]
  OBVIOUS
<1>3. PICK u, v \in Seq(S) : u = SubSeq(s, 1, i) /\ v = SubSeq(s, i + 1, Len(s))
  BY <1>1, <1>2
<1>4. /\ u \o v \in Seq(S) /\ Len(u \o v) = Len(u) + Len(v)
      /\ \A j \in 1 .. Len(u) + Len(v) : (u \o v)[j] = IF j <= Len(u) THEN u[j] ELSE v[j - Len(u)]
  <2>1. \A p, q \in Seq(S) :
          /\ p \o q \in Seq(S) /\ Len(p \o q) = Len(p) + Len(q)
          /\ \A j \in 1 .. Len(p) + Len(q) : (p \o q)[j] = IF j <= Len(p) THEN p[j] ELSE q[j - Len(p)]
    BY ConcatProperties
  <2> QED
    BY <2>1, Zenon
<1>5. Len(u) = i /\ Len(v) = Len(s) - i /\ Len(u) + Len(v) = Len(s) /\ i \in Nat /\ Len(s) \in Nat
  <2>1. i \in Nat /\ Len(s) \in Nat /\ i + (Len(s) - i) = Len(s)
    OBVIOUS
  <2> QED
    BY <1>1, <1>2, <1>3, <2>1
<1>6. ASSUME NEW j \in 1 .. Len(s) PROVE (u \o v)[j] = s[j]
  <2>1. CASE j <= i
    <3>1. j \in 1 .. i
      BY <1>5, <2>1
    <3> QED
      BY <1>1, <1>3, <1>4, <1>5, <2>1, <3>1
  <2>2. CASE ~ (j <= i)
    <3>1. j - i \in 1 .. Len(s) - i /\ i + (j - i) = j
      BY <1>5, <2>2
    <3> QED
      BY <1>2, <1>3, <1>4, <1>5, <2>2, <3>1
  <2> QED
    BY <2>1, <2>2
<1>7. u \o v = s
  BY <1>4, <1>5, <1>6, SeqEqual
<1> QED
  BY <1>1, <1>2, <1>3, <1>7

LEMMA PutBeforeJoined ==
  ASSUME NEW S, NEW c \in S, NEW u \in Seq(S), NEW v \in Seq(S)
  PROVE  (<<c>> \o u) \o v = <<c>> \o (u \o v)
<1>1. PICK p \in Seq(S) : p = <<c>>
  BY <<c>> \in Seq(S)
<1>2. (p \o u) \o v = p \o (u \o v)
  BY ConcatAssociative, SMTT(20)
<1> QED
  BY <1>1, <1>2

-----------------------------------------------------------------------------
(* The letters that are left of a typed key.                               *)

StripBody(f, raw) ==
  IF raw = << >> THEN << >>
  ELSE (IF Head(raw) \in Alphanumeric THEN <<Head(raw)>> ELSE << >>) \o f[Tail(raw)]

Length(text) == Len(text)

IsTyping(raw, kept) == kept \in Typing

Stripping == INSTANCE Recursion WITH
  Domain <- Typing, Size <- Length, Body <- StripBody, Good <- IsTyping

LEMMA TypingLength == \A text \in Typing : Length(text) \in Nat
BY DEF Typing, Length

LEMMA StripDefined ==
  ASSUME NEW raw \in Typing
  PROVE  Strip[raw] = StripBody(Strip, raw) /\ Strip[raw] \in Typing
<1>2. Stripping!Descends
  <2> SUFFICES ASSUME NEW text \in Typing, NEW g, NEW h,
                      \A t \in Typing : Length(t) < Length(text) => g[t] = h[t] /\ IsTyping(t, g[t])
               PROVE  StripBody(g, text) = StripBody(h, text) /\ IsTyping(text, StripBody(g, text))
    BY DEF Stripping!Descends
  <2>1. CASE text = << >>
    BY <2>1 DEF StripBody, IsTyping, Typing
  <2>2. CASE text # << >>
    <3>1. /\ Tail(text) \in Typing /\ Length(Tail(text)) < Length(text)
          /\ Head(text) \in Runes /\ <<Head(text)>> \in Typing /\ << >> \in Typing
      BY <2>2 DEF Length, Typing
    <3>2. g[Tail(text)] = h[Tail(text)] /\ g[Tail(text)] \in Typing
      BY <3>1 DEF IsTyping
    <3> DEFINE first == IF Head(text) \in Alphanumeric THEN <<Head(text)>> ELSE << >>
    <3>3. first \in Typing
      BY <3>1
    <3>4. StripBody(g, text) = first \o g[Tail(text)] /\ StripBody(h, text) = first \o h[Tail(text)]
      BY <2>2 DEF StripBody
    <3> HIDE DEF first
    <3> QED
      BY <3>2, <3>3, <3>4 DEF IsTyping, Typing
  <2> QED
    BY <2>1, <2>2
<1>3. Strip = CHOOSE f : f = [text \in Typing |-> StripBody(f, text)]
  BY DEF Strip, StripBody, Typing
<1>4. /\ Strip = [text \in Typing |-> StripBody(Strip, text)]
      /\ \A text \in Typing : IsTyping(text, Strip[text])
  BY <1>2, <1>3, TypingLength, Stripping!Defined
<1> QED
  BY <1>4 DEF IsTyping

\* A symbol more before a text.
LEMMA StripCons ==
  ASSUME NEW c \in Runes, NEW raw \in Typing
  PROVE  Strip[<<c>> \o raw] = IF c \in Alphanumeric THEN <<c>> \o Strip[raw] ELSE Strip[raw]
<1>1. /\ <<c>> \o raw \in Typing /\ <<c>> \o raw # << >>
      /\ Head(<<c>> \o raw) = c /\ Tail(<<c>> \o raw) = raw
  BY PutBefore DEF Typing
<1>2. Strip[<<c>> \o raw] = (IF c \in Alphanumeric THEN <<c>> ELSE << >>) \o Strip[raw]
  BY <1>1, StripDefined DEF StripBody
<1>3. Strip[raw] \in Typing
  BY StripDefined
<1> QED
  BY <1>2, <1>3, Joining DEF Typing

\* What is left of two texts, one behind the other.
LEMMA StripConcat ==
  \A raw, more \in Typing : Strip[raw \o more] = Strip[raw] \o Strip[more]
<1> DEFINE S == {raw \in Typing : \A more \in Typing : Strip[raw \o more] = Strip[raw] \o Strip[more]}
<1>1. ASSUME NEW raw \in Typing, \A t \in Typing : Length(t) < Length(raw) => t \in S
      PROVE  raw \in S
  <2> SUFFICES ASSUME NEW more \in Typing
               PROVE  Strip[raw \o more] = Strip[raw] \o Strip[more]
    OBVIOUS
  <2>0. Strip[more] \in Typing
    BY StripDefined
  <2>1. CASE raw = << >>
    <3>1. Strip[<< >>] = << >>
      BY StripDefined, << >> \in Typing DEF StripBody, Typing
    <3> QED
      BY <2>0, <2>1, <3>1 DEF Typing
  <2>2. CASE raw # << >>
    <3> DEFINE c == Head(raw)
               t == Tail(raw)
    <3>1. c \in Runes /\ t \in Typing /\ Length(t) < Length(raw) /\ raw = <<c>> \o t
      BY <2>2, HeadAndTail DEF Length, Typing
    <3> HIDE DEF c, t
    <3>2. t \o more \in Typing /\ raw \o more = <<c>> \o (t \o more)
      BY <3>1 DEF Typing
    <3>3. Strip[t \o more] = Strip[t] \o Strip[more]
      BY <1>1, <3>1
    <3>4. Strip[t] \in Typing
      BY <3>1, StripDefined
    <3>5. Strip[raw] = (IF c \in Alphanumeric THEN <<c>> \o Strip[t] ELSE Strip[t])
      BY <3>1, StripCons
    <3>6. Strip[raw \o more] =
            (IF c \in Alphanumeric THEN <<c>> \o (Strip[t] \o Strip[more]) ELSE Strip[t] \o Strip[more])
      BY <3>1, <3>2, <3>3, StripCons
    <3> QED
      <4>1. CASE c \in Alphanumeric
        <5>1. (<<c>> \o Strip[t]) \o Strip[more] = <<c>> \o (Strip[t] \o Strip[more])
          <6>1. Strip[t] \in Seq(Runes) /\ Strip[more] \in Seq(Runes)
            BY <2>0, <3>4 DEF Typing
          <6>2. \A v, w \in Seq(Runes) : (<<c>> \o v) \o w = <<c>> \o (v \o w)
            BY <3>1, PutBeforeJoined
          <6> QED
            BY <6>1, <6>2
        <5> QED
          BY <3>5, <3>6, <4>1, <5>1
      <4>2. CASE c \notin Alphanumeric
        BY <3>5, <3>6, <4>2
      <4> QED
        BY <4>1, <4>2
  <2> QED
    BY <2>1, <2>2
<1> HIDE DEF S
<1>2. \A raw \in Typing : raw \in S
  BY <1>1, TypingLength, Stripping!OnSmaller
<1> QED
  BY <1>2 DEF S

\* A symbol that is no capital and no digit leaves no trace, wherever it is.
LEMMA StripWithout ==
  ASSUME NEW u \in Typing, NEW c \in Runes \ Alphanumeric, NEW t \in Typing
  PROVE  Strip[u \o (<<c>> \o t)] = Strip[u \o t]
<1>1. <<c>> \o t \in Typing
  BY Joining DEF Typing
<1>2. Strip[<<c>> \o t] = Strip[t]
  BY StripCons
<1>3. Strip[u \o (<<c>> \o t)] = Strip[u] \o Strip[<<c>> \o t] /\ Strip[u \o t] = Strip[u] \o Strip[t]
  BY <1>1, StripConcat
<1> QED
  BY <1>2, <1>3

-----------------------------------------------------------------------------
(* Capitals.                                                               *)

\* The letters in lower case are the lower case of one letter each.
LEMMA ToUpperFacts ==
  /\ \A c \in Runes : ToUpper(c) \in Runes
  /\ \A c \in DOMAIN Lower : c \in Runes /\ Lower[c] \in Runes /\ ToUpper(Lower[c]) = ToUpper(c)
  /\ \A c \in {"A", "V", "1", "D", "K", "7"} : ToUpper(c) = c /\ c \in Alphanumeric
  /\ \A c \in {"-", " "} : ToUpper(c) = c /\ c \in Runes \ Alphanumeric
<1>1. /\ DOMAIN Lower = {"A", "V", "D", "K"}
      /\ Lower["A"] = "a" /\ Lower["V"] = "v" /\ Lower["D"] = "d" /\ Lower["K"] = "k"
  BY DEF Lower
<1>2. \A c \in DOMAIN Lower : ToUpper(Lower[c]) = c /\ ToUpper(c) = c
  BY <1>1 DEF ToUpper
<1>3. \A c \in {"1", "7", "-", " "} : ToUpper(c) = c
  BY <1>1 DEF ToUpper
<1>4. \A c \in Runes : ToUpper(c) \in Runes
  <2>1. \A c \in DOMAIN Lower : c \in Runes
    BY <1>1, RunesAssumption
  <2> QED
    BY <2>1 DEF ToUpper
<1>5. \A c \in DOMAIN Lower : c \in Runes /\ Lower[c] \in Runes
  BY <1>1, RunesAssumption
<1>6. \A c \in {"A", "V", "1", "D", "K", "7"} : c \in Alphanumeric
  BY <1>1 DEF Alphanumeric
<1>7. \A c \in {"-", " "} : c \in Runes \ Alphanumeric
  BY <1>1, RunesAssumption DEF Alphanumeric
<1>8. \A c \in {"A", "V", "1", "D", "K", "7"} : ToUpper(c) = c
  BY <1>1, <1>2, <1>3
<1> QED
  BY <1>2, <1>3, <1>4, <1>5, <1>6, <1>7, <1>8

LEMMA DashFacts == "-" \in Runes \ Alphanumeric /\ "-" \in Runes /\ ToUpper("-") = "-"
<1>1. \A c \in {"-", " "} : ToUpper(c) = c /\ c \in Runes \ Alphanumeric
  BY ToUpperFacts
<1>2. "-" \in {"-", " "}
  OBVIOUS
<1> HIDE DEF Alphanumeric, ToUpper
<1> QED
  BY <1>1, <1>2

LEMMA UpperFacts ==
  ASSUME NEW u \in Typing
  PROVE  /\ Upper(u) \in Typing /\ Len(Upper(u)) = Len(u)
         /\ \A i \in 1 .. Len(u) : Upper(u)[i] = ToUpper(u[i])
<1>1. DOMAIN u = 1 .. Len(u) /\ Len(u) \in Nat /\ \A i \in 1 .. Len(u) : u[i] \in Runes
  BY DEF Typing
<1>2. Upper(u) = [i \in 1 .. Len(u) |-> ToUpper(u[i])]
  BY <1>1 DEF Upper
<1>3. \A i \in 1 .. Len(u) : ToUpper(u[i]) \in Runes
  BY <1>1, ToUpperFacts
<1> QED
  BY <1>1, <1>2, <1>3, IsASeq DEF Typing

LEMMA UpperOne ==
  ASSUME NEW c \in Runes, ToUpper(c) = c
  PROVE  <<c>> \in Typing /\ Upper(<<c>>) = <<c>>
<1>1. PICK u \in Typing : u = <<c>>
  <2>1. <<c>> \in Typing
    BY Joining DEF Typing
  <2> QED
    BY <2>1
<1>2. Len(u) = 1 /\ u[1] = c /\ u \in Seq(Runes)
  BY <1>1 DEF Typing
<1>3. Upper(u) \in Seq(Runes) /\ Len(Upper(u)) = 1 /\ Upper(u)[1] = c
  BY <1>2, UpperFacts DEF Typing
<1>4. Upper(u) = u
  <2>1. \A i \in 1 .. 1 : Upper(u)[i] = u[i]
    BY <1>2, <1>3
  <2> QED
    BY <1>2, <1>3, <2>1, SeqEqual
<1> QED
  BY <1>1, <1>4

LEMMA UpperConcat ==
  ASSUME NEW u \in Typing, NEW t \in Typing
  PROVE  Upper(u \o t) = Upper(u) \o Upper(t)
<1>1. u \o t \in Typing
  BY Joining DEF Typing
<1> DEFINE U(i) == IF i <= Len(u) THEN u[i] ELSE t[i - Len(u)]
<1>2. /\ u \in Seq(Runes) /\ t \in Seq(Runes) /\ Len(u) \in Nat /\ Len(t) \in Nat
      /\ Len(u \o t) = Len(u) + Len(t)
      /\ \A i \in 1 .. Len(u) + Len(t) : (u \o t)[i] = U(i)
  BY ConcatProperties DEF Typing
<1>3. /\ Upper(u \o t) \in Seq(Runes) /\ Len(Upper(u \o t)) = Len(u) + Len(t)
      /\ \A i \in 1 .. Len(u) + Len(t) : Upper(u \o t)[i] = ToUpper(U(i))
  <2>1. /\ Upper(u \o t) \in Typing /\ Len(Upper(u \o t)) = Len(u \o t)
        /\ \A i \in 1 .. Len(u \o t) : Upper(u \o t)[i] = ToUpper((u \o t)[i])
    BY <1>1, UpperFacts
  <2> HIDE DEF U
  <2> QED
    BY <1>2, <2>1 DEF Typing
<1>4. /\ Upper(u) \in Seq(Runes) /\ Len(Upper(u)) = Len(u)
      /\ Upper(t) \in Seq(Runes) /\ Len(Upper(t)) = Len(t)
      /\ \A i \in 1 .. Len(u) : Upper(u)[i] = ToUpper(u[i])
      /\ \A i \in 1 .. Len(t) : Upper(t)[i] = ToUpper(t[i])
  BY UpperFacts DEF Typing
<1>5. ASSUME NEW v \in Seq(Runes), NEW w \in Seq(Runes)
      PROVE  /\ v \o w \in Seq(Runes) /\ Len(v \o w) = Len(v) + Len(w)
             /\ \A i \in 1 .. Len(v) + Len(w) : (v \o w)[i] = IF i <= Len(v) THEN v[i] ELSE w[i - Len(v)]
  BY ConcatProperties
<1>6. /\ Upper(u) \o Upper(t) \in Seq(Runes) /\ Len(Upper(u) \o Upper(t)) = Len(u) + Len(t)
      /\ \A i \in 1 .. Len(u) + Len(t) :
           (Upper(u) \o Upper(t))[i] = IF i <= Len(u) THEN Upper(u)[i] ELSE Upper(t)[i - Len(u)]
  <2>1. PICK v \in Seq(Runes) : v = Upper(u)
    BY <1>4
  <2>2. PICK w \in Seq(Runes) : w = Upper(t)
    BY <1>4
  <2>3. /\ v \o w \in Seq(Runes) /\ Len(v \o w) = Len(v) + Len(w)
        /\ \A i \in 1 .. Len(v) + Len(w) : (v \o w)[i] = IF i <= Len(v) THEN v[i] ELSE w[i - Len(v)]
    BY <1>5
  <2>4. Len(v) = Len(u) /\ Len(w) = Len(t)
    BY <1>4, <2>1, <2>2
  <2> QED
    BY <2>1, <2>2, <2>3, <2>4
<1>7. ASSUME NEW i \in 1 .. Len(u) + Len(t)
      PROVE  (Upper(u) \o Upper(t))[i] = ToUpper(U(i))
  <2>1. CASE i <= Len(u)
    BY <1>2, <1>4, <1>6, <2>1
  <2>2. CASE ~ (i <= Len(u))
    BY <1>2, <1>4, <1>6, <2>2, i - Len(u) \in 1 .. Len(t)
  <2> QED
    BY <2>1, <2>2
<1> HIDE DEF U
<1> QED
  BY <1>3, <1>6, <1>7, SeqEqual

-----------------------------------------------------------------------------
(* Texts of a sequence, one behind the other.                              *)

FlatBody(seqs, f, i) == IF i = 1 THEN seqs[i] ELSE f[i - 1] \o seqs[i]

\* The texts up to the i-th, one behind the other.
Flat(seqs) == CHOOSE f : f = [i \in 1 .. Len(seqs) |-> FlatBody(seqs, f, i)]

LEMMA FlatDefined ==
  ASSUME NEW S, NEW seqs \in Seq(Seq(S))
  PROVE  /\ seqs # << >> => Flat(seqs)[1] = seqs[1]
         /\ \A n \in Nat : n + 2 \in 1 .. Len(seqs) => Flat(seqs)[n + 2] = Flat(seqs)[n + 1] \o seqs[n + 2]
         /\ \A n \in Nat : n + 1 \in 1 .. Len(seqs) => Flat(seqs)[n + 1] \in Seq(S)
<1> DEFINE Upto == {n \in Nat : \E f : f = [i \in 1 .. n |-> FlatBody(seqs, f, i)]}
<1>1. 0 \in Upto
  <2> DEFINE f == [i \in 1 .. 0 |-> << >>]
  <2>1. f = [i \in 1 .. 0 |-> FlatBody(seqs, f, i)]
    OBVIOUS
  <2> QED
    BY <2>1
<1>2. ASSUME NEW n \in Upto PROVE n + 1 \in Upto
  <2>1. PICK f : f = [i \in 1 .. n |-> FlatBody(seqs, f, i)]
    OBVIOUS
  <2> DEFINE g == [i \in 1 .. n + 1 |-> IF i <= n THEN f[i] ELSE FlatBody(seqs, f, i)]
  <2>2. ASSUME NEW i \in 1 .. n + 1 PROVE g[i] = FlatBody(seqs, g, i)
    <3>1. i # 1 => g[i - 1] = f[i - 1]
      OBVIOUS
    <3>2. i <= n => f[i] = FlatBody(seqs, f, i)
      <4>1. n \in Nat
        OBVIOUS
      <4>2. i <= n => i \in 1 .. n
        BY <4>1
      <4> QED
        BY <2>1, <4>2, Zenon
    <3>3. FlatBody(seqs, g, i) = FlatBody(seqs, f, i)
      BY <3>1 DEF FlatBody
    <3> QED
      BY <3>2, <3>3
  <2>3. g = [i \in 1 .. n + 1 |-> FlatBody(seqs, g, i)]
    BY <2>2
  <2>4. \E h : h = [i \in 1 .. n + 1 |-> FlatBody(seqs, h, i)]
    <3> HIDE DEF g
    <3> QED
      BY <2>3
  <2> QED
    BY <2>4
<1>3. Upto = Nat
  <2> HIDE DEF Upto
  <2>1. Upto \in SUBSET Nat
    BY DEF Upto
  <2> QED
    BY <1>1, <1>2, <2>1, Stripping!OnNaturals
<1>4. Flat(seqs) = [i \in 1 .. Len(seqs) |-> FlatBody(seqs, Flat(seqs), i)]
  <2>1. Len(seqs) \in Upto
    <3> HIDE DEF Upto
    <3> QED
      BY <1>3
  <2>2. \E f : f = [i \in 1 .. Len(seqs) |-> FlatBody(seqs, f, i)]
    BY <2>1
  <2> QED
    BY <2>2 DEF Flat
<1>5. \A i \in 1 .. Len(seqs) : Flat(seqs)[i] = FlatBody(seqs, Flat(seqs), i)
  BY <1>4
<1>6. seqs # << >> => Flat(seqs)[1] = seqs[1]
  BY <1>5 DEF FlatBody
<1>7. ASSUME NEW n \in Nat, n + 2 \in 1 .. Len(seqs)
      PROVE  Flat(seqs)[n + 2] = Flat(seqs)[n + 1] \o seqs[n + 2]
  <2>1. Flat(seqs)[n + 2] = FlatBody(seqs, Flat(seqs), n + 2)
    BY <1>5, <1>7
  <2>2. n + 2 # 1 /\ (n + 2) - 1 = n + 1
    OBVIOUS
  <2> QED
    BY <2>1, <2>2 DEF FlatBody
<1> DEFINE Known == {n \in Nat : n + 1 \in 1 .. Len(seqs) => Flat(seqs)[n + 1] \in Seq(S)}
<1>8. 0 \in Known
  BY <1>6
<1>9. ASSUME NEW n \in Known PROVE n + 1 \in Known
  <2> SUFFICES ASSUME n + 2 \in 1 .. Len(seqs) PROVE Flat(seqs)[n + 2] \in Seq(S)
    OBVIOUS
  <2>1. n + 1 \in 1 .. Len(seqs) /\ Flat(seqs)[n + 1] \in Seq(S) /\ seqs[n + 2] \in Seq(S)
    OBVIOUS
  <2>2. Flat(seqs)[n + 2] = Flat(seqs)[n + 1] \o seqs[n + 2]
    <3>1. n \in Nat
      OBVIOUS
    <3> HIDE DEF Known
    <3> QED
      BY <1>7, <3>1
  <2>3. PICK v \in Seq(S), w \in Seq(S) : v = Flat(seqs)[n + 1] /\ w = seqs[n + 2]
    BY <2>1
  <2> QED
    BY <2>2, <2>3
<1>10. Known = Nat
  <2> HIDE DEF Known
  <2>1. Known \in SUBSET Nat
    BY DEF Known
  <2> QED
    BY <1>8, <1>9, <2>1, Stripping!OnNaturals
<1>11. \A n \in Nat : n + 1 \in 1 .. Len(seqs) => Flat(seqs)[n + 1] \in Seq(S)
  BY <1>10
<1> QED
  BY <1>6, <1>7, <1>11

LEMMA FlattenIsFlat ==
  ASSUME NEW seqs, Len(seqs) # 0
  PROVE  FlattenSeq(seqs) = Flat(seqs)[Len(seqs)]
BY DEF FlattenSeq, Flat, FlatBody

LEMMA FlattenNone == FlattenSeq(<< >>) = << >>
BY DEF FlattenSeq

LEMMA FlattenType ==
  ASSUME NEW S, NEW seqs \in Seq(Seq(S))
  PROVE  FlattenSeq(seqs) \in Seq(S)
<1>1. CASE seqs = << >>
  <2>1. << >> \in Seq(S)
    OBVIOUS
  <2> QED
    BY <1>1, <2>1, FlattenNone
<1>2. CASE seqs # << >>
  <2>1. Len(seqs) - 1 \in Nat /\ Len(seqs) # 0 /\ (Len(seqs) - 1) + 1 = Len(seqs) /\ Len(seqs) \in 1 .. Len(seqs)
    BY <1>2
  <2> QED
    BY <2>1, FlatDefined, FlattenIsFlat
<1> QED
  BY <1>1, <1>2

\* The first text, and the others one behind the other.
LEMMA FlattenFirst ==
  ASSUME NEW S, NEW seqs \in Seq(Seq(S)), seqs # << >>
  PROVE  FlattenSeq(seqs) = Head(seqs) \o FlattenSeq(Tail(seqs))
<1> DEFINE rest == Tail(seqs)
           first == Head(seqs)
<1>1. /\ rest \in Seq(Seq(S)) /\ Len(rest) = Len(seqs) - 1 /\ first = seqs[1] /\ first \in Seq(S)
      /\ \A i \in 1 .. Len(rest) : rest[i] = seqs[i + 1] /\ seqs[i + 1] \in Seq(S)
      /\ Len(rest) \in Nat /\ Len(seqs) \in Nat
  OBVIOUS
<1> HIDE DEF rest, first
<1>2. /\ Flat(seqs)[1] = seqs[1]
      /\ \A n \in Nat : n + 2 \in 1 .. Len(seqs) => Flat(seqs)[n + 2] = Flat(seqs)[n + 1] \o seqs[n + 2]
  BY FlatDefined
<1>3. /\ rest # << >> => Flat(rest)[1] = rest[1]
      /\ \A n \in Nat : n + 2 \in 1 .. Len(rest) => Flat(rest)[n + 2] = Flat(rest)[n + 1] \o rest[n + 2]
      /\ \A n \in Nat : n + 1 \in 1 .. Len(rest) => Flat(rest)[n + 1] \in Seq(S)
  BY <1>1, FlatDefined
<1> DEFINE Shifted == {n \in Nat : n + 1 \in 1 .. Len(rest) => Flat(seqs)[n + 2] = first \o Flat(rest)[n + 1]}
<1>4. 0 \in Shifted
  <2> SUFFICES ASSUME 1 \in 1 .. Len(rest) PROVE Flat(seqs)[2] = first \o Flat(rest)[1]
    OBVIOUS
  <2>1. rest # << >> /\ 0 + 2 \in 1 .. Len(seqs)
    BY <1>1
  <2>2. Flat(seqs)[1] = first /\ Flat(rest)[1] = seqs[2]
    BY <1>1, <1>2, <1>3, <2>1
  <2>3. Flat(seqs)[2] = Flat(seqs)[1] \o seqs[2]
    <3>1. 0 + 2 = 2 /\ 0 + 1 = 1 /\ 0 \in Nat
      OBVIOUS
    <3> HIDE DEF Shifted
    <3> QED
      BY <1>2, <2>1, <3>1
  <2> HIDE DEF Shifted
  <2> QED
    BY <2>2, <2>3
<1>5. ASSUME NEW n \in Shifted PROVE n + 1 \in Shifted
  <2> SUFFICES ASSUME n + 2 \in 1 .. Len(rest)
               PROVE  Flat(seqs)[n + 3] = first \o Flat(rest)[n + 2]
    OBVIOUS
  <2>0. n \in Nat /\ n + 1 \in Nat /\ n + 1 \in 1 .. Len(rest) /\ n + 3 \in 1 .. Len(seqs)
    BY <1>1
  <2>1. Flat(seqs)[n + 2] = first \o Flat(rest)[n + 1]
    BY <2>0
  <2>2. Flat(rest)[n + 2] = Flat(rest)[n + 1] \o rest[n + 2]
    BY <1>3, <2>0
  <2>3. rest[n + 2] = seqs[n + 3] /\ seqs[n + 3] \in Seq(S) /\ Flat(rest)[n + 1] \in Seq(S)
    <3>1. (n + 2) + 1 = n + 3 /\ n + 2 \in 1 .. Len(rest)
      BY <2>0
    <3>2. rest[n + 2] = seqs[(n + 2) + 1] /\ seqs[(n + 2) + 1] \in Seq(S)
      BY <1>1, <3>1, Zenon
    <3>3. Flat(rest)[n + 1] \in Seq(S)
      BY <1>3, <2>0, Zenon
    <3> QED
      BY <3>1, <3>2, <3>3, Zenon
  <2>4. Flat(seqs)[n + 3] = Flat(seqs)[n + 2] \o seqs[n + 3]
    <3>1. (n + 1) + 2 = n + 3 /\ (n + 1) + 1 = n + 2
      BY <2>0
    <3> QED
      BY <1>2, <2>0, <3>1
  <2>5. PICK v \in Seq(S) : v = Flat(rest)[n + 1]
    BY <2>3
  <2>6. PICK w \in Seq(S) : w = seqs[n + 3]
    BY <2>3
  <2>7. (first \o v) \o w = first \o (v \o w)
    <3>1. PICK u \in Seq(S) : u = first
      BY <1>1
    <3>2. (u \o v) \o w = u \o (v \o w)
      <4> HIDE DEF Shifted
      <4>1. \A x, y, z \in Seq(S) : (x \o y) \o z = x \o (y \o z)
        BY Joining
      <4> QED
        BY <4>1
    <3> QED
      BY <3>1, <3>2
  <2> QED
    BY <2>1, <2>2, <2>3, <2>4, <2>5, <2>6, <2>7
<1>6. Shifted = Nat
  <2> HIDE DEF Shifted
  <2>1. Shifted \in SUBSET Nat
    BY DEF Shifted
  <2> QED
    BY <1>4, <1>5, <2>1, Stripping!OnNaturals
<1>7. CASE rest = << >>
  <2>1. Len(seqs) = 1 /\ FlattenSeq(rest) = << >>
    BY <1>1, <1>7, FlattenNone
  <2>2. FlattenSeq(seqs) = first
    <3>1. Len(seqs) # 0
      BY <2>1
    <3>2. FlattenSeq(seqs) = Flat(seqs)[Len(seqs)]
      BY <3>1, FlattenIsFlat
    <3> QED
      BY <1>1, <1>2, <2>1, <3>2
  <2> QED
    BY <1>1, <2>1, <2>2 DEF rest, first
<1>8. CASE rest # << >>
  <2>1. Len(rest) # 0 /\ Len(rest) - 1 \in Nat /\ Len(seqs) # 0
    <3>1. Len(rest) # 0
      BY <1>1, <1>8, EmptySeq
    <3> QED
      BY <1>1, <3>1
  <2>2. Len(rest) - 1 \in Shifted
    <3> HIDE DEF Shifted
    <3> QED
      BY <1>6, <2>1
  <2>3. (Len(rest) - 1) + 1 = Len(rest) /\ (Len(rest) - 1) + 2 = Len(seqs) /\ Len(rest) \in 1 .. Len(rest)
    BY <1>1, <2>1
  <2>4. Flat(seqs)[Len(seqs)] = first \o Flat(rest)[Len(rest)]
    BY <2>2, <2>3
  <2>5. FlattenSeq(seqs) = Flat(seqs)[Len(seqs)] /\ FlattenSeq(rest) = Flat(rest)[Len(rest)]
    BY <2>1, FlattenIsFlat
  <2> QED
    BY <2>4, <2>5 DEF rest, first
<1> QED
  BY <1>7, <1>8

-----------------------------------------------------------------------------
(* A key, as it is shown and as it is typed.                               *)

Kept == {c \in Runes \cap Alphanumeric : ToUpper(c) = c}

\* A text of capitals and digits is its own reading.
LEMMA KeptIsRead ==
  \A text \in Seq(Kept) : text \in Typing /\ Upper(text) = text /\ Strip[text] = text
<1>1. ASSUME NEW text \in Seq(Kept) PROVE text \in Typing /\ Upper(text) = text
  <2>1. text \in Typing
    BY DEF Kept, Typing
  <2>2. \A i \in 1 .. Len(text) : ToUpper(text[i]) = text[i]
    BY DEF Kept
  <2>3. Upper(text) \in Seq(Runes) /\ text \in Seq(Runes) /\ Len(Upper(text)) = Len(text)
    BY <2>1, UpperFacts DEF Typing
  <2> QED
    BY <2>1, <2>2, <2>3, UpperFacts, SeqEqual
<1> DEFINE S == {text \in Typing : text \in Seq(Kept) => Strip[text] = text}
<1>2. ASSUME NEW text \in Typing, \A t \in Typing : Length(t) < Length(text) => t \in S
      PROVE  text \in S
  <2> SUFFICES ASSUME text \in Seq(Kept) PROVE Strip[text] = text
    OBVIOUS
  <2>1. CASE text = << >>
    BY <2>1, StripDefined DEF StripBody
  <2>2. CASE text # << >>
    <3> DEFINE c == Head(text)
               t == Tail(text)
    <3>1. /\ c \in Kept /\ t \in Seq(Kept) /\ text = <<c>> \o t
          /\ t \in Typing /\ Length(t) < Length(text)
      BY <2>2, HeadAndTail DEF Kept, Length, Typing
    <3> HIDE DEF c, t
    <3>2. Strip[t] = t
      BY <1>2, <3>1
    <3> QED
      BY <3>1, <3>2, StripCons DEF Kept
  <2> QED
    BY <2>1, <2>2
<1>3. \A text \in Typing : text \in S
  <2> HIDE DEF S
  <2> QED
    BY <1>2, TypingLength, Stripping!OnSmaller
<1> QED
  BY <1>1, <1>3

LEMMA KeptFacts ==
  /\ Prefix \in Seq(Kept) /\ Len(Prefix) = 4
  /\ {"K", "7"} \subseteq Kept
  /\ Seq({"K", "7"}) \subseteq Seq(Kept)
<1>1. {"A", "V", "1", "D", "K", "7"} \subseteq Kept
  <2> SUFFICES ASSUME NEW c \in {"A", "V", "1", "D", "K", "7"} PROVE c \in Kept
    OBVIOUS
  <2>1. c \in Runes
    BY RunesAssumption
  <2>2. ToUpper(c) = c /\ c \in Alphanumeric
    BY ToUpperFacts
  <2> QED
    BY <2>1, <2>2 DEF Kept
<1>2. "A" \in Kept /\ "V" \in Kept /\ "1" \in Kept /\ "D" \in Kept
  BY <1>1
<1>3. Prefix \in Seq(Kept) /\ Len(Prefix) = 4
  BY <1>2 DEF Prefix
<1>4. {"K", "7"} \subseteq Kept
  BY <1>1
<1>5. ASSUME NEW s \in Seq({"K", "7"}) PROVE s \in Seq(Kept)
  BY <1>4
<1> QED
  BY <1>3, <1>4, <1>5

\* Letters that are shown with a dash before some of them are read without.
LEMMA GroupsAreRead ==
  \A letters \in Seq({"K", "7"}) : \A seqs \in Seq(Seq(Runes)) :
    /\ Len(seqs) = Len(letters)
    /\ \A i \in 1 .. Len(letters) : seqs[i] = <<letters[i]>> \/ seqs[i] = <<"-">> \o <<letters[i]>>
    => Strip[Upper(FlattenSeq(seqs))] = letters
<1> DEFINE Shows(seqs, s) ==
             /\ Len(seqs) = Len(s)
             /\ \A i \in 1 .. Len(s) : seqs[i] = <<s[i]>> \/ seqs[i] = <<"-">> \o <<s[i]>>
           S == {s \in Typing : s \in Seq({"K", "7"}) =>
                   \A seqs \in Seq(Seq(Runes)) : Shows(seqs, s) => Strip[Upper(FlattenSeq(seqs))] = s}
<1>1. ASSUME NEW s \in Typing, \A t \in Typing : Length(t) < Length(s) => t \in S
      PROVE  s \in S
  <2> SUFFICES ASSUME s \in Seq({"K", "7"}), NEW seqs \in Seq(Seq(Runes)), Shows(seqs, s)
               PROVE  Strip[Upper(FlattenSeq(seqs))] = s
    OBVIOUS
  <2>1. CASE s = << >>
    <3>1. seqs = << >>
      BY <2>1
    <3>2. Upper(<< >>) = << >> /\ Strip[<< >>] = << >>
      <4>1. << >> \in Seq(Kept)
        OBVIOUS
      <4> QED
        BY <4>1, KeptIsRead
    <3> QED
      BY <2>1, <3>1, <3>2, FlattenNone
  <2>2. CASE s # << >>
    <3> DEFINE c == Head(s)
               t == Tail(s)
               first == Head(seqs)
               rest == Tail(seqs)
    <3>1. /\ c \in {"K", "7"} /\ t \in Seq({"K", "7"}) /\ s = <<c>> \o t
          /\ t \in Typing /\ Length(t) < Length(s)
      BY <2>2, HeadAndTail DEF Length, Typing
    <3>2. seqs # << >> /\ first \in Seq(Runes) /\ rest \in Seq(Seq(Runes))
      BY <2>2
    <3>3. first = <<c>> \/ first = <<"-">> \o <<c>>
      BY <2>2, <3>2
    <3>4. Shows(rest, t)
      BY <2>2, <3>2
    <3>5. FlattenSeq(seqs) = first \o FlattenSeq(rest)
      BY <3>2, FlattenFirst
    <3>6. FlattenSeq(rest) \in Typing
      BY <3>2, FlattenType DEF Typing
    <3>7. Strip[Upper(FlattenSeq(rest))] = t
      BY <1>1, <3>1, <3>2, <3>4
    <3> HIDE DEF c, t, first, rest, Shows, S
    <3>8. <<c>> \in Typing /\ Upper(<<c>>) = <<c>> /\ Strip[<<c>>] = <<c>>
      <4>1. <<c>> \in Seq(Kept)
        BY <3>1, KeptFacts
      <4> QED
        BY <4>1, KeptIsRead
    <3>9. <<"-">> \in Typing /\ Upper(<<"-">>) = <<"-">>
      BY DashFacts, UpperOne
    <3>10. Upper(first) \in Typing /\ Strip[Upper(first)] = <<c>>
      <4>1. CASE first = <<c>>
        BY <3>8, <4>1
      <4>2. CASE first = <<"-">> \o <<c>>
        <5>1. Upper(first) = <<"-">> \o <<c>>
          BY <3>8, <3>9, <4>2, UpperConcat
        <5>2. "-" \in Runes \ Alphanumeric
          BY DashFacts
        <5> QED
          BY <3>2, <3>8, <4>2, <5>1, <5>2, StripCons DEF Typing
      <4> QED
        BY <3>3, <4>1, <4>2
    <3>11. Upper(FlattenSeq(rest)) \in Typing
      BY <3>6, UpperFacts
    <3>12. Upper(FlattenSeq(seqs)) = Upper(first) \o Upper(FlattenSeq(rest))
      BY <3>2, <3>5, <3>6, UpperConcat DEF Typing
    <3>13. Strip[Upper(FlattenSeq(seqs))] = Strip[Upper(first)] \o Strip[Upper(FlattenSeq(rest))]
      BY <3>10, <3>11, <3>12, StripConcat
    <3> QED
      BY <3>1, <3>7, <3>10, <3>13
  <2> QED
    BY <2>1, <2>2
<1>2. \A s \in Typing : s \in S
  <2> HIDE DEF S
  <2> QED
    BY <1>1, TypingLength, Stripping!OnSmaller
<1>3. ASSUME NEW s \in Seq({"K", "7"}) PROVE s \in Typing
  BY KeptFacts, KeptIsRead
<1> QED
  BY <1>2, <1>3

LEMMA SecretFacts ==
  ASSUME NEW letters \in Secrets
  PROVE  /\ letters \in Seq({"K", "7"}) /\ Len(letters) = Groups * GroupLength
         /\ Prefix \o letters \in Seq(Kept)
         /\ Len(Prefix \o letters) = Len(Prefix) + Groups * GroupLength
<1>1. Groups * GroupLength \in Nat
  BY GroupsAssumption
<1>2. letters \in Seq({"K", "7"}) /\ Len(letters) = Groups * GroupLength
  <2>1. PICK n \in Nat : n = Groups * GroupLength
    BY <1>1
  <2>2. letters \in [1 .. n -> {"K", "7"}]
    BY <2>1 DEF Secrets
  <2> QED
    BY <2>1, <2>2
<1>3. PICK s \in Seq(Kept) : s = letters
  BY <1>2, KeptFacts
<1>4. Prefix \o s \in Seq(Kept) /\ Len(Prefix \o s) = Len(Prefix) + Len(s)
  BY KeptFacts, ConcatProperties
<1> QED
  BY <1>2, <1>3, <1>4

\* A key as it is shown is read as its letters behind the prefix.
LEMMA ShownIsRead ==
  ASSUME NEW letters \in Secrets
  PROVE  Display(letters) \in Typing /\ Strip[Upper(Display(letters))] = Prefix \o letters
<1> DEFINE seqs == [i \in DOMAIN letters |->
              IF (i - 1) % GroupLength = 0 THEN <<"-", letters[i]>> ELSE <<letters[i]>>]
<1>1. letters \in Seq({"K", "7"}) /\ DOMAIN letters = 1 .. Len(letters) /\ Len(letters) \in Nat
  BY SecretFacts
<1>2. ASSUME NEW i \in 1 .. Len(letters)
      PROVE  /\ <<letters[i]>> \in Seq(Runes) /\ <<"-", letters[i]>> \in Seq(Runes)
             /\ <<"-", letters[i]>> = <<"-">> \o <<letters[i]>>
  <2>1. letters[i] \in {"K", "7"}
    BY <1>1
  <2>2. letters[i] \in Runes
    BY <2>1, KeptFacts DEF Kept
  <2> QED
    BY <2>2, DashFacts, TwoSymbols
<1>3. \A i \in 1 .. Len(letters) :
        seqs[i] \in Seq(Runes) /\ (seqs[i] = <<letters[i]>> \/ seqs[i] = <<"-">> \o <<letters[i]>>)
  BY <1>1, <1>2
<1>4. seqs \in Seq(Seq(Runes)) /\ Len(seqs) = Len(letters)
  <2>1. seqs \in [1 .. Len(letters) -> Seq(Runes)]
    BY <1>1, <1>3
  <2> HIDE DEF seqs
  <2> QED
    BY <1>1, <2>1
<1>5. Display(letters) = Prefix \o FlattenSeq(seqs)
  BY DEF Display
<1> HIDE DEF seqs
<1>6. FlattenSeq(seqs) \in Typing
  BY <1>4, FlattenType DEF Typing
<1>7. Strip[Upper(FlattenSeq(seqs))] = letters
  BY <1>1, <1>3, <1>4, GroupsAreRead
<1>8. Prefix \in Typing /\ Upper(Prefix) = Prefix /\ Strip[Prefix] = Prefix
  BY KeptFacts, KeptIsRead
<1>9. Upper(Display(letters)) = Prefix \o Upper(FlattenSeq(seqs))
  BY <1>5, <1>6, <1>8, UpperConcat
<1>10. Upper(FlattenSeq(seqs)) \in Typing
  BY <1>6, UpperFacts
<1>11. Strip[Upper(Display(letters))] = Prefix \o letters
  BY <1>7, <1>8, <1>9, <1>10, StripConcat
<1>12. Display(letters) \in Typing
  BY <1>5, <1>6, <1>8, Joining DEF Typing
<1> QED
  BY <1>11, <1>12

\* What is typed for a key is read as its letters behind the prefix: of the
\* texts that are typed only their reading stays the same from one to the next.
TypedIsRead ==
  /\ typed \in Typing /\ secret \in Secrets
  /\ Strip[Upper(typed)] = Prefix \o secret

\* A letter in lower case counts as the capital.
LEMMA LowerIsRead ==
  ASSUME NEW text \in Typing, NEW i \in DOMAIN text, text[i] \in DOMAIN Lower
  PROVE  /\ [text EXCEPT ![i] = Lower[@]] \in Typing
         /\ Upper([text EXCEPT ![i] = Lower[@]]) = Upper(text)
<1> DEFINE lower == [text EXCEPT ![i] = Lower[text[i]]]
<1>1. text \in Seq(Runes) /\ i \in 1 .. Len(text) /\ Len(text) \in Nat
  BY DEF Typing
<1>2. Lower[text[i]] \in Runes /\ ToUpper(Lower[text[i]]) = ToUpper(text[i])
  BY ToUpperFacts
<1>3. /\ lower \in Seq(Runes) /\ Len(lower) = Len(text)
      /\ \A j \in 1 .. Len(text) : lower[j] = IF j = i THEN Lower[text[i]] ELSE text[j]
  BY <1>1, <1>2
<1> HIDE DEF lower
<1>4. /\ Upper(lower) \in Seq(Runes) /\ Len(Upper(lower)) = Len(text)
      /\ \A j \in 1 .. Len(text) : Upper(lower)[j] = ToUpper(lower[j])
  BY <1>3, UpperFacts DEF Typing
<1>5. /\ Upper(text) \in Seq(Runes) /\ Len(Upper(text)) = Len(text)
      /\ \A j \in 1 .. Len(text) : Upper(text)[j] = ToUpper(text[j])
  BY UpperFacts DEF Typing
<1>6. \A j \in 1 .. Len(text) : Upper(lower)[j] = Upper(text)[j]
  BY <1>2, <1>3, <1>4, <1>5
<1>7. Upper(lower) = Upper(text)
  BY <1>4, <1>5, <1>6, SeqEqual
<1> QED
  BY <1>3, <1>7 DEF lower, Typing

\* A separator leaves no trace in what is read, put in or left out.
LEMMA SeparatorIsNotRead ==
  ASSUME NEW u \in Typing, NEW c \in {"-", " "}, NEW t \in Typing
  PROVE  /\ u \o (<<c>> \o t) \in Typing
         /\ Strip[Upper(u \o (<<c>> \o t))] = Strip[Upper(u \o t)]
<1>1. c \in Runes \ Alphanumeric /\ ToUpper(c) = c
  BY ToUpperFacts
<1>2. <<c>> \in Typing /\ Upper(<<c>>) = <<c>>
  BY <1>1, UpperOne
<1>3. <<c>> \o t \in Typing /\ u \o (<<c>> \o t) \in Typing
  BY <1>2, Joining DEF Typing
<1>4. Upper(u \o (<<c>> \o t)) = Upper(u) \o (<<c>> \o Upper(t)) /\ Upper(u \o t) = Upper(u) \o Upper(t)
  <2>1. Upper(<<c>> \o t) = <<c>> \o Upper(t)
    BY <1>2, UpperConcat
  <2>2. Upper(u \o (<<c>> \o t)) = Upper(u) \o Upper(<<c>> \o t)
    BY <1>3, UpperConcat
  <2> QED
    BY <2>1, <2>2, UpperConcat
<1>5. Upper(u) \in Typing /\ Upper(t) \in Typing
  BY UpperFacts
<1>6. Strip[Upper(u) \o (<<c>> \o Upper(t))] = Strip[Upper(u) \o Upper(t)]
  BY <1>1, <1>5, StripWithout, ZenonT(40)
<1> QED
  BY <1>3, <1>4, <1>6

\* What is typed, cut at a place, and joined anew with a symbol there.
LEMMA CutTyped ==
  ASSUME NEW text \in Typing, NEW i \in DOMAIN text
  PROVE  \E u, t, rest \in Typing :
           /\ u = SubSeq(text, 1, i - 1) /\ t = SubSeq(text, i, Len(text))
           /\ rest = SubSeq(text, i + 1, Len(text))
           /\ text = u \o t /\ text = u \o (<<text[i]>> \o rest)
           /\ \A c \in Runes : InsertAt(text, i, c) = u \o (<<c>> \o t)
           /\ RemoveAt(text, i) = u \o rest
<1>1. text \in Seq(Runes) /\ i \in 1 .. Len(text)
  BY DEF Typing
<1> DEFINE u == SubSeq(text, 1, i - 1)
           t == SubSeq(text, i, Len(text))
           rest == SubSeq(text, i + 1, Len(text))
<1>2. /\ u \in Typing /\ t \in Typing /\ rest \in Typing
      /\ t = <<text[i]>> \o rest /\ text = u \o t
  BY <1>1, Cut DEF Typing
<1>3. \A c \in Runes : InsertAt(text, i, c) = (u \o <<c>>) \o t
  BY DEF InsertAt
<1>4. RemoveAt(text, i) = u \o rest
  BY DEF RemoveAt
<1> HIDE DEF u, t, rest
<1>5. ASSUME NEW c \in Runes PROVE (u \o <<c>>) \o t = u \o (<<c>> \o t)
  <2>1. u \in Seq(Runes) /\ <<c>> \in Seq(Runes) /\ t \in Seq(Runes)
    BY <1>2, Joining DEF Typing
  <2>2. \A x, y, z \in Seq(Runes) : (x \o y) \o z = x \o (y \o z)
    BY Joining
  <2> QED
    BY <2>1, <2>2
<1> QED
  BY <1>2, <1>3, <1>4, <1>5 DEF u, t, rest

LEMMA InitTypedIsRead == Init => TypedIsRead
BY ShownIsRead DEF Init, TypedIsRead

LEMMA NextTypedIsRead == TypedIsRead /\ [Next]_vars => TypedIsRead'
<1> SUFFICES ASSUME TypedIsRead, [Next]_vars PROVE TypedIsRead'
  OBVIOUS
<1> USE DEF TypedIsRead
<1>2. CASE UNCHANGED key
  BY <1>2 DEF key
<1>3. ASSUME NEW i \in DOMAIN typed, TypeLower(i) PROVE TypedIsRead'
  BY <1>3, LowerIsRead DEF TypeLower
<1>4. ASSUME NEW i \in DOMAIN typed, NEW c \in {"-", " "}, InsertSeparator(i, c)
      PROVE  TypedIsRead'
  <2>1. c \in Runes
    BY ToUpperFacts
  <2>2. PICK u \in Typing, t \in Typing :
          typed = u \o t /\ InsertAt(typed, i, c) = u \o (<<c>> \o t)
    BY <2>1, CutTyped
  <2>3. typed' = u \o (<<c>> \o t) /\ secret' = secret
    BY <1>4, <2>2 DEF InsertSeparator
  <2>4. typed' \in Typing /\ Strip[Upper(typed')] = Strip[Upper(typed)]
    BY <2>2, <2>3, SeparatorIsNotRead
  <2> QED
    BY <2>3, <2>4
<1>5. ASSUME NEW i \in DOMAIN typed, LeaveOutDash(i) PROVE TypedIsRead'
  <2>1. PICK u \in Typing, rest \in Typing :
          typed = u \o (<<typed[i]>> \o rest) /\ RemoveAt(typed, i) = u \o rest
    BY CutTyped
  <2>2. typed = u \o (<<"-">> \o rest) /\ typed' = u \o rest /\ secret' = secret
    BY <1>5, <2>1 DEF LeaveOutDash
  <2>3. typed' \in Typing
    BY <2>2, Joining DEF Typing
  <2>4. Strip[Upper(typed')] = Strip[Upper(typed)]
    BY <2>2, SeparatorIsNotRead
  <2> QED
    BY <2>2, <2>3, <2>4
<1> QED
  <2>1. CASE Reorder
    BY <2>1, <1>2 DEF Reorder
  <2>2. ASSUME NEW i \in DOMAIN wire, InsertBlank(i) \/ EscapeNeedlessly(i) PROVE TypedIsRead'
    BY <2>2, <1>2 DEF InsertBlank, EscapeNeedlessly
  <2>3. CASE UNCHANGED vars
    BY <2>3, <1>2 DEF vars, key
  <2> HIDE DEF TypedIsRead
  <2> QED
    BY <1>3, <1>4, <1>5, <2>1, <2>2, <2>3 DEF Next

\* A key is activated with what people make of it: whatever is typed for it, in
\* lower case, with dashes and blanks put in and dashes left out, NormalizeKey
\* makes of it the key that GenerateKey showed.
THEOREM TypedKeyIsTheShown == Spec => []OneKeyHoweverTyped
<1>1. TypedIsRead => OneKeyHoweverTyped
  <2> SUFFICES ASSUME TypedIsRead PROVE NormalizeKey(typed) = Prefix \o secret
    BY DEF OneKeyHoweverTyped
  <2>1. /\ Prefix \o secret \in Seq(Kept) /\ secret \in Seq({"K", "7"})
        /\ Len(Prefix \o secret) = Len(Prefix) + Groups * GroupLength
    BY SecretFacts DEF TypedIsRead
  <2>2. IsPrefix(Prefix, Prefix \o secret)
    <3>1. PICK u \in Seq(Kept), s \in Seq(Kept) : u = Prefix /\ s = secret
      BY <2>1, KeptFacts
    <3>2. Len(u) <= Len(u \o s) /\ SubSeq(u, 1, Len(u)) = SubSeq(u \o s, 1, Len(u))
      OBVIOUS
    <3> QED
      BY <3>1, <3>2 DEF IsPrefix
  <2> QED
    BY <2>1, <2>2 DEF TypedIsRead, NormalizeKey, Shaped
<1> QED
  BY InitTypedIsRead, NextTypedIsRead, <1>1, PTL DEF Spec

LEMMA JoiningBytes == \A u, v, w \in Bytes : (u \o v) \o w = u \o (v \o w)
BY Joining DEF Bytes

\* \o under a name of its own: how texts are joined again, without all that is
\* known of \o.
Cat(u, v) == u \o v

LEMMA CatBytes ==
  /\ \A u, v \in Bytes : Cat(u, v) \in Bytes
  /\ \A u, v, w \in Bytes : Cat(Cat(u, v), w) = Cat(u, Cat(v, w))
<1>1. \A u, v \in Bytes : u \o v \in Bytes
  BY Joining DEF Bytes
<1> QED
  BY <1>1, JoiningBytes, Zenon DEF Cat

-----------------------------------------------------------------------------
(* Tokens.  Two spellings of a certificate have the same tokens: the       *)
(* symbols outside strings without the blanks, and the strings by what     *)
(* they say.  A reader of tokens goes over a text symbol by symbol and     *)
(* compares it with the tokens that are expected.                          *)

Mark(c) == [type |-> "mark", text |-> <<c>>]

Quoted(s) == [type |-> "string", text |-> s]

Tokens == Seq([type : {"mark", "string"}, text : Bytes])

\* What is expected of the rest of a text: outside strings some tokens, inside
\* one the rest of what it says before them; behind a backslash, or behind some
\* digits of a code.
Reader == [mode : {"out", "in", "escaped", "hex", "bad"}, text : Bytes, toks : Tokens, code : Bytes]

Out(toks) == [mode |-> "out", text |-> << >>, toks |-> toks, code |-> << >>]

In(text, toks) == [mode |-> "in", text |-> text, toks |-> toks, code |-> << >>]

Behind(text, toks) == [mode |-> "escaped", text |-> text, toks |-> toks, code |-> << >>]

Hex(text, toks, code) == [mode |-> "hex", text |-> text, toks |-> toks, code |-> code]

Unexpected == [mode |-> "bad", text |-> << >>, toks |-> << >>, code |-> << >>]

\* Digits of the codes that a certificate may hold.
Digits == {"0", "1", "2", "5", "6", "c", "f"}

Saying(k, c) ==
  IF k.text # << >> /\ Head(k.text) = c THEN In(Tail(k.text), k.toks) ELSE Unexpected

StepOut(k, c) ==
  IF c \in Blank THEN k
  ELSE IF k.toks = << >> THEN Unexpected
  ELSE IF c = "\"" THEN
         IF Head(k.toks).type = "string" THEN In(Head(k.toks).text, Tail(k.toks)) ELSE Unexpected
  ELSE IF Head(k.toks) = Mark(c) THEN Out(Tail(k.toks)) ELSE Unexpected

StepIn(k, c) ==
  IF c = "\"" THEN IF k.text = << >> THEN Out(k.toks) ELSE Unexpected
  ELSE IF c = "\\" THEN Behind(k.text, k.toks)
  ELSE Saying(k, c)

StepBehind(k, c) ==
  IF c = "u" THEN Hex(k.text, k.toks, << >>)
  ELSE IF c \in DOMAIN Unshort THEN Saying(k, Unshort[c])
  ELSE Unexpected

StepHex(k, c) ==
  LET code == k.code \o <<c>>
  IN  IF c \notin Digits THEN Unexpected
      ELSE IF Len(code) < 4 THEN Hex(k.text, k.toks, code)
      ELSE IF code \in DOMAIN Symbol THEN Saying(k, Symbol[code])
      ELSE Unexpected

StepOver(k, c) ==
  CASE k.mode = "out"     -> StepOut(k, c)
    [] k.mode = "in"      -> StepIn(k, c)
    [] k.mode = "escaped" -> StepBehind(k, c)
    [] k.mode = "hex"     -> StepHex(k, c)
    [] OTHER              -> Unexpected

\* The reader behind a text.
ReadingBody(f, what) ==
  IF what[2] = << >> THEN what[1] ELSE f[<<StepOver(what[1], Head(what[2])), Tail(what[2])>>]

Reading == CHOOSE f : f = [what \in Reader \X Bytes |-> ReadingBody(f, what)]

Run(k, text) == Reading[<<k, text>>]

\* The text has these tokens.
Accepts(toks, text) == Run(Out(toks), text) = Out(<< >>)

ReadingLength(what) == Len(what[2])

IsReader(what, k) == k \in Reader

Readings == INSTANCE Recursion WITH
  Domain <- Reader \X Bytes, Size <- ReadingLength, Body <- ReadingBody, Good <- IsReader

LEMMA ReaderTypes ==
  /\ \A toks \in Tokens : Out(toks) \in Reader
  /\ \A toks \in Tokens, text \in Bytes : In(text, toks) \in Reader /\ Behind(text, toks) \in Reader
  /\ \A toks \in Tokens, text, code \in Bytes : Hex(text, toks, code) \in Reader
  /\ Unexpected \in Reader
<1>1. << >> \in Bytes /\ << >> \in Tokens
  BY DEF Bytes, Tokens
<1> QED
  BY <1>1 DEF Out, In, Behind, Hex, Unexpected, Reader

LEMMA SymbolFacts ==
  /\ DOMAIN Symbol = {<<"0", "0", "0", "1">>, <<"0", "0", "1", "f">>, <<"0", "0", "0", "a">>,
                      <<"0", "0", "2", "2">>, <<"0", "0", "5", "c">>, <<"0", "0", "6", "1">>}
  /\ Symbol[<<"0", "0", "0", "1">>] = "SOH" /\ Symbol[<<"0", "0", "1", "f">>] = "US"
  /\ Symbol[<<"0", "0", "5", "c">>] = "\\" /\ Symbol[<<"0", "0", "6", "1">>] = "a"
  /\ \A code \in DOMAIN Symbol : Symbol[code] \in Symbols
BY SymbolsAssumption DEF Symbol, Named

LEMMA UnshortFacts ==
  /\ DOMAIN Unshort = {"\"", "\\", "/", "b", "f", "n", "r", "t"}
  /\ Unshort["\\"] = "\\"
  /\ \A c \in DOMAIN Unshort : Unshort[c] \in Symbols
BY SymbolsAssumption DEF Unshort, Named

LEMMA TokensFacts ==
  /\ << >> \in Tokens
  /\ \A s \in Tokens : s # << >> => Head(s).text \in Bytes /\ Tail(s) \in Tokens
  /\ \A c \in Symbols : Mark(c) \in [type : {"mark", "string"}, text : Bytes]
  /\ \A s \in Bytes : Quoted(s) \in [type : {"mark", "string"}, text : Bytes]
<1>1. PICK T : T = [type : {"mark", "string"}, text : Bytes]
  OBVIOUS
<1>2. \A s \in Seq(T) : s # << >> => Head(s) \in T /\ Tail(s) \in Seq(T)
  BY HeadAndTail
<1>3. \A x \in T : x.text \in Bytes
  BY <1>1
<1>4. \A c \in Symbols : <<c>> \in Bytes
  BY Joining DEF Bytes
<1>5. << >> \in Tokens
  BY Joining DEF Tokens
<1> QED
  BY <1>1, <1>2, <1>3, <1>4, <1>5 DEF Tokens, Mark, Quoted

LEMMA StepOverTypes == \A k \in Reader, c \in Symbols : StepOver(k, c) \in Reader
<1> SUFFICES ASSUME NEW k \in Reader, NEW c \in Symbols PROVE StepOver(k, c) \in Reader
  OBVIOUS
<1>1. /\ k.text \in Bytes /\ k.toks \in Tokens /\ k.code \in Bytes
      /\ k.mode \in {"out", "in", "escaped", "hex", "bad"}
  BY DEF Reader
<1>2. \A s \in Bytes : s # << >> => Tail(s) \in Bytes
  BY DEF Bytes
<1>3. \A s \in Tokens : s # << >> => Head(s).text \in Bytes /\ Tail(s) \in Tokens
  BY TokensFacts
<1>4. \A d : Saying(k, d) \in Reader
  BY <1>1, <1>2, ReaderTypes DEF Saying
<1>5. StepOut(k, c) \in Reader
  BY <1>1, <1>2, <1>3, ReaderTypes DEF StepOut
<1>6. StepIn(k, c) \in Reader
  BY <1>1, <1>4, ReaderTypes DEF StepIn
<1>7. StepBehind(k, c) \in Reader
  <2>1. << >> \in Bytes
    BY DEF Bytes
  <2> QED
    BY <1>1, <1>4, <2>1, ReaderTypes DEF StepBehind
<1>8. StepHex(k, c) \in Reader
  <2>1. k.code \o <<c>> \in Bytes
    BY <1>1, Joining DEF Bytes
  <2> QED
    BY <1>1, <1>4, <2>1, ReaderTypes DEF StepHex
<1> QED
  BY <1>1, <1>5, <1>6, <1>7, <1>8, ReaderTypes DEF StepOver

LEMMA RunDefined ==
  \A k \in Reader, text \in Bytes :
    /\ Run(k, text) \in Reader
    /\ Run(k, text) = IF text = << >> THEN k ELSE Run(StepOver(k, Head(text)), Tail(text))
<1>1. \A what \in Reader \X Bytes : ReadingLength(what) \in Nat
  BY DEF ReadingLength, Bytes
<1>2. Readings!Descends
  <2> SUFFICES ASSUME NEW k \in Reader, NEW text \in Bytes, NEW g, NEW h,
                      \A y \in Reader \X Bytes : ReadingLength(y) < Len(text) =>
                        g[y] = h[y] /\ IsReader(y, g[y])
               PROVE  /\ ReadingBody(g, <<k, text>>) = ReadingBody(h, <<k, text>>)
                      /\ IsReader(<<k, text>>, ReadingBody(g, <<k, text>>))
    BY DEF Readings!Descends, ReadingLength
  <2>1. CASE text = << >>
    BY <2>1 DEF ReadingBody, IsReader
  <2>2. CASE text # << >>
    <3> DEFINE y == <<StepOver(k, Head(text)), Tail(text)>>
    <3>1. Head(text) \in Symbols /\ Tail(text) \in Bytes /\ Len(Tail(text)) < Len(text)
      BY <2>2 DEF Bytes
    <3>2. y \in Reader \X Bytes /\ ReadingLength(y) < Len(text)
      BY <3>1, StepOverTypes DEF ReadingLength
    <3>3. ReadingBody(g, <<k, text>>) = g[y] /\ ReadingBody(h, <<k, text>>) = h[y]
      BY <2>2 DEF ReadingBody
    <3> HIDE DEF y
    <3> QED
      BY <3>2, <3>3 DEF IsReader
  <2> QED
    BY <2>1, <2>2
<1>3. /\ Reading = [what \in Reader \X Bytes |-> ReadingBody(Reading, what)]
      /\ \A what \in Reader \X Bytes : IsReader(what, Reading[what])
  BY <1>1, <1>2, Readings!Defined DEF Reading
<1>4. ASSUME NEW k \in Reader, NEW text \in Bytes
      PROVE  /\ Run(k, text) \in Reader
             /\ Run(k, text) = IF text = << >> THEN k ELSE Run(StepOver(k, Head(text)), Tail(text))
  <2>1. Reading[<<k, text>>] = ReadingBody(Reading, <<k, text>>)
    BY <1>3
  <2> QED
    BY <1>3, <2>1 DEF Run, ReadingBody, IsReader
<1> QED
  BY <1>4

LEMMA RunNone == \A k \in Reader : Run(k, << >>) = k
BY RunDefined, << >> \in Bytes DEF Bytes

\* One symbol more before a text.
LEMMA RunPutBefore ==
  \A k \in Reader, c \in Symbols, text \in Bytes :
    <<c>> \o text \in Bytes /\ Run(k, <<c>> \o text) = Run(StepOver(k, c), text)
<1> SUFFICES ASSUME NEW k \in Reader, NEW c \in Symbols, NEW text \in Bytes
             PROVE  <<c>> \o text \in Bytes /\ Run(k, <<c>> \o text) = Run(StepOver(k, c), text)
  OBVIOUS
<1>1. /\ <<c>> \o text \in Bytes /\ <<c>> \o text # << >>
      /\ Head(<<c>> \o text) = c /\ Tail(<<c>> \o text) = text
  BY PutBefore DEF Bytes
<1>2. PICK w \in Bytes : w = <<c>> \o text
  BY <1>1
<1>3. Run(k, w) = Run(StepOver(k, Head(w)), Tail(w))
  BY <1>1, <1>2, RunDefined
<1> QED
  BY <1>1, <1>2, <1>3

LEMMA RunOne == \A k \in Reader, c \in Symbols : <<c>> \in Bytes /\ Run(k, <<c>>) = StepOver(k, c)
<1> SUFFICES ASSUME NEW k \in Reader, NEW c \in Symbols
             PROVE  <<c>> \in Bytes /\ Run(k, <<c>>) = StepOver(k, c)
  OBVIOUS
<1>1. << >> \in Bytes /\ <<c>> \in Bytes /\ <<c>> \o << >> = <<c>>
  BY Joining DEF Bytes
<1>2. Run(k, <<c>> \o << >>) = Run(StepOver(k, c), << >>)
  BY <1>1, RunPutBefore
<1> QED
  BY <1>1, <1>2, RunNone, StepOverTypes

BytesLength(text) == Len(text)

AnyValue(x, y) == TRUE

NoBody(f, x) == f

\* Induction over the length of a text.
OverBytes == INSTANCE Recursion WITH
  Domain <- Bytes, Size <- BytesLength, Body <- NoBody, Good <- AnyValue

LEMMA BytesMeasured == \A text \in Bytes : BytesLength(text) \in Nat
BY DEF Bytes, BytesLength

\* A set of texts with the empty one, and with a text whenever its tail is in it.
LEMMA BytesInduction ==
  ASSUME NEW S, << >> \in S,
         \A c \in Symbols, t \in Bytes : t \in S => <<c>> \o t \in S
  PROVE  \A text \in Bytes : text \in S
<1>1. ASSUME NEW text \in Bytes, \A t \in Bytes : BytesLength(t) < BytesLength(text) => t \in S
      PROVE  text \in S
  <2>1. CASE text # << >>
    <3>1. /\ Head(text) \in Symbols /\ Tail(text) \in Bytes
          /\ BytesLength(Tail(text)) < BytesLength(text) /\ text = <<Head(text)>> \o Tail(text)
      BY <2>1, HeadAndTail DEF Bytes, BytesLength
    <3> QED
      BY <1>1, <3>1
  <2> QED
    BY <2>1
<1> QED
  BY <1>1, BytesMeasured, OverBytes!OnSmaller

\* The reader goes over the first text and then over the second.
LEMMA RunConcat ==
  \A u \in Bytes : \A t \in Bytes : \A k \in Reader :
    u \o t \in Bytes /\ Run(k, u \o t) = Run(Run(k, u), t)
<1> DEFINE S == {u \in Bytes : \A t \in Bytes : \A k \in Reader :
                   u \o t \in Bytes /\ Run(k, u \o t) = Run(Run(k, u), t)}
<1>1. << >> \in S
  <2>1. << >> \in Bytes /\ \A t \in Bytes : << >> \o t = t
    BY Joining DEF Bytes
  <2> QED
    BY <2>1, RunNone
<1>2. ASSUME NEW c \in Symbols, NEW u \in Bytes, u \in S PROVE <<c>> \o u \in S
  <2>1. <<c>> \o u \in Bytes
    BY RunPutBefore, PutBefore DEF Bytes
  <2> SUFFICES ASSUME NEW t \in Bytes, NEW k \in Reader
               PROVE  /\ (<<c>> \o u) \o t \in Bytes
                      /\ Run(k, (<<c>> \o u) \o t) = Run(Run(k, <<c>> \o u), t)
    BY <2>1
  <2>2. (<<c>> \o u) \o t = <<c>> \o (u \o t)
    BY PutBeforeJoined DEF Bytes
  <2>3. StepOver(k, c) \in Reader
    BY StepOverTypes
  <2>4. u \o t \in Bytes /\ Run(StepOver(k, c), u \o t) = Run(Run(StepOver(k, c), u), t)
    BY <1>2, <2>3
  <2> HIDE DEF S
  <2>5. Run(k, <<c>> \o u) = Run(StepOver(k, c), u)
    BY RunPutBefore
  <2>6. <<c>> \o (u \o t) \in Bytes /\ Run(k, <<c>> \o (u \o t)) = Run(StepOver(k, c), u \o t)
    BY <2>4, RunPutBefore
  <2> QED
    BY <2>2, <2>4, <2>5, <2>6, Zenon
<1>3. \A u \in Bytes : u \in S
  <2> HIDE DEF S
  <2> QED
    BY <1>1, <1>2, BytesInduction
<1> QED
  BY <1>3

\* From the unexpected there is no way back.
LEMMA RunUnexpected == \A text \in Bytes : Run(Unexpected, text) = Unexpected
<1> DEFINE S == {text \in Bytes : Run(Unexpected, text) = Unexpected}
<1>1. << >> \in S
  BY RunNone, ReaderTypes, << >> \in Bytes DEF Bytes
<1>2. ASSUME NEW c \in Symbols, NEW t \in Bytes, t \in S PROVE <<c>> \o t \in S
  <2>1. StepOver(Unexpected, c) = Unexpected
    BY DEF StepOver, Unexpected
  <2> QED
    BY <1>2, <2>1, RunPutBefore, ReaderTypes
<1>3. \A text \in Bytes : text \in S
  <2> HIDE DEF S
  <2> QED
    BY <1>1, <1>2, BytesInduction
<1> QED
  BY <1>3

-----------------------------------------------------------------------------
(* Blanks and strings, read and passed by the reader of tokens.            *)

SkipBody(f, data) == IF data # << >> /\ Head(data) \in Blank THEN f[Tail(data)] ELSE data

Skipped(data, r) == r \in Bytes /\ Len(r) <= Len(data) /\ (r = << >> \/ Head(r) \notin Blank)

Skipping == INSTANCE Recursion WITH
  Domain <- Bytes, Size <- BytesLength, Body <- SkipBody, Good <- Skipped

LEMMA SkipDefined ==
  \A data \in Bytes : skipWS[data] = SkipBody(skipWS, data) /\ Skipped(data, skipWS[data])
<1>1. Skipping!Descends
  <2> SUFFICES ASSUME NEW data \in Bytes, NEW g, NEW h,
                      \A y \in Bytes : BytesLength(y) < BytesLength(data) => g[y] = h[y] /\ Skipped(y, g[y])
               PROVE  SkipBody(g, data) = SkipBody(h, data) /\ Skipped(data, SkipBody(g, data))
    BY DEF Skipping!Descends
  <2>1. CASE data # << >> /\ Head(data) \in Blank
    <3>1. /\ Tail(data) \in Bytes /\ Len(Tail(data)) < Len(data)
          /\ Len(Tail(data)) \in Nat /\ Len(data) \in Nat
      BY <2>1 DEF Bytes
    <3>2. g[Tail(data)] = h[Tail(data)] /\ Skipped(Tail(data), g[Tail(data)])
      <4>1. BytesLength(Tail(data)) < BytesLength(data)
        BY <3>1 DEF BytesLength
      <4> QED
        BY <3>1, <4>1
    <3>3. \A r \in Bytes : Len(r) \in Nat
      BY DEF Bytes
    <3> QED
      BY <2>1, <3>1, <3>2, <3>3 DEF SkipBody, Skipped
  <2>2. CASE ~ (data # << >> /\ Head(data) \in Blank)
    BY <2>2 DEF SkipBody, Skipped, Bytes
  <2> QED
    BY <2>1, <2>2
<1>2. skipWS = CHOOSE f : f = [data \in Bytes |-> SkipBody(f, data)]
  BY DEF skipWS, SkipBody
<1>3. /\ skipWS = [data \in Bytes |-> SkipBody(skipWS, data)]
      /\ \A data \in Bytes : Skipped(data, skipWS[data])
  BY <1>1, <1>2, BytesMeasured, Skipping!Defined
<1> QED
  BY <1>3

\* The reader passes the blanks that skipWS skips.
LEMMA SkipRun ==
  \A toks \in Tokens : \A data \in Bytes : Run(Out(toks), data) = Run(Out(toks), skipWS[data])
<1> SUFFICES ASSUME NEW toks \in Tokens
             PROVE  \A data \in Bytes : Run(Out(toks), data) = Run(Out(toks), skipWS[data])
  OBVIOUS
<1> DEFINE S == {data \in Bytes : Run(Out(toks), data) = Run(Out(toks), skipWS[data])}
<1>1. << >> \in S
  <2>1. << >> \in Bytes
    BY DEF Bytes
  <2> QED
    BY <2>1, SkipDefined DEF SkipBody
<1>2. ASSUME NEW c \in Symbols, NEW t \in Bytes, t \in S PROVE <<c>> \o t \in S
  <2>1. PICK data \in Bytes : data = <<c>> \o t
    BY RunPutBefore, ReaderTypes
  <2>2. data # << >> /\ Head(data) = c /\ Tail(data) = t
    BY <2>1, PutBefore DEF Bytes
  <2>3. CASE c \in Blank
    <3>1. skipWS[data] = skipWS[t]
      BY <2>2, <2>3, SkipDefined DEF SkipBody
    <3>2. StepOver(Out(toks), c) = Out(toks)
      BY <2>3 DEF StepOver, StepOut, Out
    <3>3. Run(Out(toks), data) = Run(Out(toks), t)
      BY <2>1, <3>2, RunPutBefore, ReaderTypes
    <3> QED
      BY <1>2, <2>1, <3>1, <3>3
  <2>4. CASE c \notin Blank
    <3>1. skipWS[data] = data
      BY <2>2, <2>4, SkipDefined DEF SkipBody
    <3> QED
      BY <2>1, <3>1
  <2> QED
    BY <2>3, <2>4
<1>3. \A data \in Bytes : data \in S
  <2> HIDE DEF S
  <2> QED
    BY <1>1, <1>2, BytesInduction
<1> QED
  BY <1>3

\* A text of no tokens is blank.
LEMMA AcceptsNone == \A data \in Bytes : Accepts(<< >>, data) => skipWS[data] = << >>
<1> SUFFICES ASSUME NEW data \in Bytes, Accepts(<< >>, data), skipWS[data] # << >> PROVE FALSE
  OBVIOUS
<1> DEFINE d == skipWS[data]
<1>1. d \in Bytes /\ d # << >> /\ Head(d) \notin Blank /\ Head(d) \in Symbols /\ Tail(d) \in Bytes
  BY SkipDefined, HeadAndTail DEF Skipped, Bytes
<1>2. << >> \in Tokens /\ Out(<< >>) \in Reader
  BY ReaderTypes, TokensFacts
<1>3. Run(Out(<< >>), d) = Out(<< >>)
  BY <1>2, SkipRun DEF Accepts
<1> HIDE DEF d
<1>4. StepOver(Out(<< >>), Head(d)) = Unexpected
  BY <1>1 DEF StepOver, StepOut, Out
<1>5. Run(Out(<< >>), d) = Run(Unexpected, Tail(d))
  BY <1>1, <1>2, <1>4, RunDefined
<1> QED
  BY <1>1, <1>3, <1>5, RunUnexpected DEF Out, Unexpected

\* Where a token is expected, there is a symbol behind the blanks.
LEMMA AcceptsSome ==
  ASSUME NEW toks \in Tokens, toks # << >>, NEW data \in Bytes, Accepts(toks, data)
  PROVE  LET d == skipWS[data]
         IN  /\ d \in Bytes /\ d # << >> /\ Head(d) \in Symbols \ Blank /\ Tail(d) \in Bytes
             /\ Len(Tail(d)) < Len(data)
             /\ StepOver(Out(toks), Head(d)) = StepOut(Out(toks), Head(d))
             /\ Run(StepOut(Out(toks), Head(d)), Tail(d)) = Out(<< >>)
<1> DEFINE d == skipWS[data]
<1>1. d \in Bytes /\ (d = << >> \/ Head(d) \notin Blank) /\ Len(d) <= Len(data)
  BY SkipDefined DEF Skipped
<1>2. Run(Out(toks), d) = Out(<< >>)
  BY SkipRun DEF Accepts
<1> HIDE DEF d
<1>3. d # << >>
  BY <1>1, <1>2, RunNone, ReaderTypes DEF Out
<1>4. Head(d) \in Symbols /\ Tail(d) \in Bytes /\ Len(Tail(d)) = Len(d) - 1 /\ Len(d) \in Nat /\ Len(data) \in Nat
  BY <1>1, <1>3, HeadAndTail DEF Bytes
<1>5. Run(Out(toks), d) = Run(StepOver(Out(toks), Head(d)), Tail(d))
  BY <1>1, <1>3, RunDefined, ReaderTypes
<1>6. StepOver(Out(toks), Head(d)) = StepOut(Out(toks), Head(d))
  BY DEF StepOver, Out
<1> QED
  BY <1>1, <1>2, <1>3, <1>4, <1>5, <1>6 DEF d

\* A symbol where it is expected.
LEMMA AcceptsMark ==
  ASSUME NEW c \in Symbols, NEW toks \in Tokens, NEW data \in Bytes,
         Accepts(<<Mark(c)>> \o toks, data)
  PROVE  LET d == skipWS[data]
         IN  /\ d \in Bytes /\ d # << >> /\ Head(d) = c /\ Tail(d) \in Bytes
             /\ Len(Tail(d)) < Len(data) /\ Accepts(toks, Tail(d))
<1> DEFINE d == skipWS[data]
<1>1. PICK k \in Tokens : k = <<Mark(c)>> \o toks /\ k # << >> /\ Head(k) = Mark(c) /\ Tail(k) = toks
  BY TokensFacts, PutBefore DEF Tokens
<1>2. /\ d \in Bytes /\ d # << >> /\ Head(d) \in Symbols \ Blank /\ Tail(d) \in Bytes
      /\ Len(Tail(d)) < Len(data)
      /\ Run(StepOut(Out(k), Head(d)), Tail(d)) = Out(<< >>)
  BY <1>1, AcceptsSome
<1> HIDE DEF d
<1>3. StepOut(Out(k), Head(d)) # Unexpected
  BY <1>2, RunUnexpected DEF Out, Unexpected
<1>4. Head(d) # "\"" /\ Mark(Head(d)) = Mark(c) /\ StepOut(Out(k), Head(d)) = Out(toks)
  <2>1. Out(k).toks = k /\ Mark(c).type # "string"
    BY DEF Out, Mark
  <2> QED
    BY <1>1, <1>2, <1>3, <2>1 DEF StepOut
<1>5. Head(d) = c
  <2>1. <<Head(d)>> = <<c>>
    BY <1>4 DEF Mark
  <2> QED
    BY <2>1
<1> QED
  BY <1>2, <1>4, <1>5 DEF d, Accepts

-----------------------------------------------------------------------------
(* Strings: parseString finds what the reader of tokens was told of.       *)

StringBody(f, data) ==
  IF data = << >> THEN Failed
  ELSE IF Head(data) = "\"" THEN Read("string", << >>, Tail(data))
  ELSE IF Head(data) # "\\" THEN Before(Head(data), f[Tail(data)])
  ELSE IF Len(data) < 2 THEN Failed
  ELSE IF data[2] \in DOMAIN Unshort THEN Before(Unshort[data[2]], f[Drop(data, 2)])
  ELSE IF data[2] = "u" /\ Len(data) >= 6 /\ SubSeq(data, 3, 6) \in DOMAIN Symbol
       THEN Before(Symbol[SubSeq(data, 3, 6)], f[Drop(data, 6)])
       ELSE Failed

Found(data, r) ==
  \/ r = Failed
  \/ r \in [type : {"string"}, value : Bytes, rest : Bytes] /\ Len(r.rest) < Len(data)

Strings == INSTANCE Recursion WITH
  Domain <- Bytes, Size <- BytesLength, Body <- StringBody, Good <- Found

\* What is left of a text without its first symbols.
LEMMA DropFacts ==
  ASSUME NEW data \in Bytes, NEW n \in 0 .. Len(data)
  PROVE  /\ Drop(data, n) \in Bytes /\ Len(Drop(data, n)) = Len(data) - n
         /\ (n = Len(data)) <=> (Drop(data, n) = << >>)
         /\ n < Len(data) => /\ Head(Drop(data, n)) = data[n + 1] /\ data[n + 1] \in Symbols
                             /\ Tail(Drop(data, n)) = Drop(data, n + 1)
         /\ Drop(data, 0) = data
<1>1. data \in Seq(Symbols) /\ Len(data) \in Nat /\ n \in Nat
  BY DEF Bytes
<1>2. /\ Drop(data, n) \in Seq(Symbols) /\ Len(Drop(data, n)) = Len(data) - n
      /\ \A i \in 1 .. Len(data) - n : Drop(data, n)[i] = data[n + i]
  BY <1>1 DEF Drop
<1>3. (n = Len(data)) <=> (Drop(data, n) = << >>)
  BY <1>1, <1>2
<1>4. ASSUME n < Len(data)
      PROVE  /\ Head(Drop(data, n)) = data[n + 1] /\ data[n + 1] \in Symbols
             /\ Tail(Drop(data, n)) = Drop(data, n + 1)
  <2>1. /\ Drop(data, n + 1) \in Seq(Symbols) /\ Len(Drop(data, n + 1)) = Len(data) - (n + 1)
        /\ \A i \in 1 .. Len(data) - (n + 1) : Drop(data, n + 1)[i] = data[n + 1 + i]
    BY <1>1, <1>4 DEF Drop
  <2>2. PICK d \in Seq(Symbols) : d = Drop(data, n)
    BY <1>2
  <2>3. d # << >> /\ Len(d) = Len(data) - n /\ \A i \in 1 .. Len(data) - n : d[i] = data[n + i]
    BY <1>1, <1>2, <1>3, <1>4, <2>2
  <2>4. /\ Tail(d) \in Seq(Symbols) /\ Len(Tail(d)) = Len(data) - (n + 1) /\ Head(d) = d[1]
        /\ \A i \in 1 .. Len(data) - (n + 1) : Tail(d)[i] = d[i + 1]
    BY <1>1, <1>4, <2>3
  <2>5. \A i \in 1 .. Len(data) - (n + 1) : Tail(d)[i] = Drop(data, n + 1)[i]
    <3> SUFFICES ASSUME NEW i \in 1 .. Len(data) - (n + 1) PROVE Tail(d)[i] = Drop(data, n + 1)[i]
      OBVIOUS
    <3>1. Tail(d)[i] = d[i + 1] /\ Drop(data, n + 1)[i] = data[n + 1 + i]
      BY <2>1, <2>4, Zenon
    <3>2. i + 1 \in 1 .. Len(data) - n /\ n + (i + 1) = n + 1 + i
      BY <1>1, <1>4
    <3>3. d[i + 1] = data[n + (i + 1)]
      BY <2>3, <3>2, Zenon
    <3> QED
      BY <3>1, <3>2, <3>3, Zenon
  <2>6. Tail(d) = Drop(data, n + 1)
    BY <2>1, <2>4, <2>5, SeqEqual
  <2>7. d[1] = data[n + 1] /\ data[n + 1] \in Symbols
    BY <1>1, <1>4, <2>3
  <2> QED
    BY <2>2, <2>4, <2>6, <2>7
<1>5. Drop(data, 0) = data
  BY <1>1 DEF Drop
<1> QED
  BY <1>2, <1>3, <1>4, <1>5 DEF Bytes

\* A reader that is not through yet goes over one symbol more.
LEMMA RunOver ==
  ASSUME NEW k \in Reader, k # Out(<< >>), NEW data \in Bytes, NEW n \in 0 .. Len(data),
         Run(k, Drop(data, n)) = Out(<< >>)
  PROVE  /\ n < Len(data) /\ data[n + 1] \in Symbols /\ n + 1 \in 0 .. Len(data)
         /\ StepOver(k, data[n + 1]) \in Reader /\ StepOver(k, data[n + 1]) # Unexpected
         /\ Run(StepOver(k, data[n + 1]), Drop(data, n + 1)) = Out(<< >>)
<1>1. Drop(data, n) \in Bytes /\ Drop(data, n) # << >>
  BY DropFacts, RunNone
<1>2. n < Len(data) /\ n + 1 \in 0 .. Len(data)
  <2>1. n # Len(data)
    BY <1>1, DropFacts
  <2> QED
    BY <2>1 DEF Bytes
<1>3. /\ Head(Drop(data, n)) = data[n + 1] /\ data[n + 1] \in Symbols
      /\ Tail(Drop(data, n)) = Drop(data, n + 1) /\ Drop(data, n + 1) \in Bytes
  BY <1>2, DropFacts
<1>4. Run(StepOver(k, data[n + 1]), Drop(data, n + 1)) = Out(<< >>)
  BY <1>1, <1>3, RunDefined
<1>5. StepOver(k, data[n + 1]) # Unexpected
  BY <1>3, <1>4, RunUnexpected DEF Out, Unexpected
<1> QED
  BY <1>2, <1>3, <1>4, <1>5, StepOverTypes

LEMMA BeforeFacts ==
  ASSUME NEW c \in Symbols, NEW t \in Bytes, NEW data \in Bytes, Len(t) < Len(data), NEW r, Found(t, r)
  PROVE  /\ Found(data, Before(c, r))
         /\ \A s \in Bytes, rest \in Bytes :
              r = Read("string", s, rest) => Before(c, r) = Read("string", <<c>> \o s, rest)
<1>1. CASE r = Failed
  BY <1>1 DEF Before, Found, Failed, Read
<1>2. CASE r \in [type : {"string"}, value : Bytes, rest : Bytes] /\ Len(r.rest) < Len(t)
  <2>1. r # Failed
    BY <1>2 DEF Failed, Read
  <2>2. <<c>> \o r.value \in Bytes
    BY <1>2, PutBefore DEF Bytes
  <2>3. Before(c, r) = [type |-> "string", value |-> <<c>> \o r.value, rest |-> r.rest]
    BY <1>2, <2>1 DEF Before
  <2>4. Len(r.rest) < Len(data)
    <3>1. Len(r.rest) \in Nat /\ Len(t) \in Nat /\ Len(data) \in Nat
      BY <1>2 DEF Bytes
    <3> QED
      BY <1>2, <3>1
  <2>5. Before(c, r) \in [type : {"string"}, value : Bytes, rest : Bytes] /\ Before(c, r).rest = r.rest
    BY <1>2, <2>2, <2>3
  <2>6. Found(data, Before(c, r))
    BY <2>4, <2>5 DEF Found
  <2>7. ASSUME NEW s \in Bytes, NEW rest \in Bytes, r = Read("string", s, rest)
        PROVE  Before(c, r) = Read("string", <<c>> \o s, rest)
    <3>1. r.value = s /\ r.rest = rest
      BY <2>7 DEF Read
    <3> QED
      BY <2>3, <3>1 DEF Read
  <2> QED
    BY <2>6, <2>7
<1> QED
  BY <1>1, <1>2 DEF Found

LEMMA StringDefined ==
  \A data \in Bytes : StringTail[data] = StringBody(StringTail, data) /\ Found(data, StringTail[data])
<1>1. Strings!Descends
  <2> SUFFICES ASSUME NEW data \in Bytes, NEW g, NEW h,
                      \A y \in Bytes : BytesLength(y) < BytesLength(data) => g[y] = h[y] /\ Found(y, g[y])
               PROVE  StringBody(g, data) = StringBody(h, data) /\ Found(data, StringBody(g, data))
    BY DEF Strings!Descends
  <2>1. Len(data) \in Nat
    BY DEF Bytes
  <2>2. ASSUME NEW n \in 1 .. Len(data), NEW c \in Symbols
        PROVE  g[Drop(data, n)] = h[Drop(data, n)] /\ Found(data, Before(c, g[Drop(data, n)]))
    <3>1. Drop(data, n) \in Bytes /\ Len(Drop(data, n)) < Len(data)
      BY <2>1, <2>2, DropFacts
    <3>2. g[Drop(data, n)] = h[Drop(data, n)] /\ Found(Drop(data, n), g[Drop(data, n)])
      BY <3>1 DEF BytesLength
    <3> QED
      BY <3>1, <3>2, BeforeFacts
  <2>3. ASSUME data # << >>
        PROVE  /\ Head(data) \in Symbols /\ Tail(data) = Drop(data, 1) /\ 1 \in 1 .. Len(data)
               /\ Tail(data) \in Bytes /\ Len(Tail(data)) < Len(data)
    <3>1. Len(data) # 0 /\ 0 \in 0 .. Len(data) /\ 1 \in 0 .. Len(data)
      BY <2>1, <2>3 DEF Bytes
    <3>2. 0 < Len(data) /\ 0 + 1 = 1 /\ 1 \in 1 .. Len(data)
      BY <2>1, <3>1
    <3>3. /\ Drop(data, 0) = data /\ Head(Drop(data, 0)) = data[0 + 1] /\ data[0 + 1] \in Symbols
          /\ Tail(Drop(data, 0)) = Drop(data, 0 + 1)
      BY <3>1, <3>2, DropFacts
    <3>4. Drop(data, 1) \in Bytes /\ Len(Drop(data, 1)) < Len(data)
      BY <2>1, <3>1, DropFacts
    <3> QED
      BY <3>2, <3>3, <3>4
  <2>4. CASE data = << >>
    BY <2>4 DEF StringBody, Found
  <2>5. CASE data # << >> /\ Head(data) = "\""
    <3>1. << >> \in Bytes
      BY DEF Bytes
    <3> QED
      BY <2>3, <2>5, <3>1 DEF StringBody, Found, Read
  <2>6. CASE data # << >> /\ Head(data) # "\"" /\ Head(data) # "\\"
    BY <2>2, <2>3, <2>6 DEF StringBody
  <2>7. CASE data # << >> /\ Head(data) = "\\" /\ Len(data) < 2
    BY <2>7 DEF StringBody, Found
  <2>8. CASE data # << >> /\ Head(data) = "\\" /\ ~ (Len(data) < 2) /\ data[2] \in DOMAIN Unshort
    <3>1. 2 \in 1 .. Len(data) /\ Unshort[data[2]] \in Symbols
      <4>1. ~ (Len(data) < 2) /\ Unshort[data[2]] \in Symbols
        BY <2>8, UnshortFacts, Zenon
      <4> QED
        BY <2>1, <4>1
    <3> QED
      BY <2>2, <2>8, <3>1 DEF StringBody
  <2>9. CASE /\ data # << >> /\ Head(data) = "\\" /\ ~ (Len(data) < 2) /\ data[2] \notin DOMAIN Unshort
             /\ data[2] = "u" /\ Len(data) >= 6 /\ SubSeq(data, 3, 6) \in DOMAIN Symbol
    <3>1. 6 \in 1 .. Len(data) /\ Symbol[SubSeq(data, 3, 6)] \in Symbols
      <4>1. Len(data) >= 6 /\ Symbol[SubSeq(data, 3, 6)] \in Symbols
        BY <2>9, SymbolFacts, Zenon
      <4> QED
        BY <2>1, <4>1
    <3> QED
      BY <2>2, <2>9, <3>1 DEF StringBody
  <2>10. CASE /\ data # << >> /\ Head(data) = "\\" /\ ~ (Len(data) < 2) /\ data[2] \notin DOMAIN Unshort
              /\ ~ (data[2] = "u" /\ Len(data) >= 6 /\ SubSeq(data, 3, 6) \in DOMAIN Symbol)
    BY <2>10 DEF StringBody, Found
  <2> QED
    BY <2>4, <2>5, <2>6, <2>7, <2>8, <2>9, <2>10
<1>2. StringTail = CHOOSE f : f = [data \in Bytes |-> StringBody(f, data)]
  BY DEF StringTail, StringBody
<1>3. /\ StringTail = [data \in Bytes |-> StringBody(StringTail, data)]
      /\ \A data \in Bytes : Found(data, StringTail[data])
  BY <1>1, <1>2, BytesMeasured, Strings!Defined
<1> QED
  BY <1>3

LEMMA SayingFacts ==
  ASSUME NEW s \in Bytes, NEW toks \in Tokens, NEW c,
         NEW k, k.text = s, k.toks = toks, Saying(k, c) # Unexpected
  PROVE  /\ s # << >> /\ Head(s) = c /\ Tail(s) \in Bytes /\ s = <<c>> \o Tail(s)
         /\ Saying(k, c) = In(Tail(s), toks)
<1>1. s # << >> /\ Head(s) = c /\ Saying(k, c) = In(Tail(s), toks)
  BY DEF Saying
<1>2. Tail(s) \in Bytes /\ s = <<Head(s)>> \o Tail(s)
  BY <1>1, HeadAndTail DEF Bytes
<1> QED
  BY <1>1, <1>2

LEMMA OverIn ==
  ASSUME NEW s, NEW toks, NEW c
  PROVE  StepOver(In(s, toks), c) =
           IF c = "\"" THEN IF s = << >> THEN Out(toks) ELSE Unexpected
           ELSE IF c = "\\" THEN Behind(s, toks)
           ELSE Saying(In(s, toks), c)
BY DEF StepOver, StepIn, In

LEMMA OverBehind ==
  ASSUME NEW s, NEW toks, NEW c
  PROVE  StepOver(Behind(s, toks), c) =
           IF c = "u" THEN Hex(s, toks, << >>)
           ELSE IF c \in DOMAIN Unshort THEN Saying(Behind(s, toks), Unshort[c])
           ELSE Unexpected
BY DEF StepOver, StepBehind, Behind

LEMMA OverHex ==
  ASSUME NEW s, NEW toks, NEW c, NEW code
  PROVE  StepOver(Hex(s, toks, code), c) =
           IF c \notin Digits THEN Unexpected
           ELSE IF Len(code \o <<c>>) < 4 THEN Hex(s, toks, code \o <<c>>)
           ELSE IF code \o <<c>> \in DOMAIN Symbol THEN Saying(Hex(s, toks, code), Symbol[code \o <<c>>])
           ELSE Unexpected
BY DEF StepOver, StepHex, Hex

LEMMA NotThrough ==
  ASSUME NEW s, NEW toks, NEW code
  PROVE  /\ In(s, toks) # Out(<< >>) /\ Behind(s, toks) # Out(<< >>)
         /\ Hex(s, toks, code) # Out(<< >>)
BY DEF In, Behind, Hex, Out

\* Behind a digit of a code that starts at n + 1: there are more, or it is complete.
DigitRead(s, toks, data, n, j, next) ==
  LET code == SubSeq(data, n + 1, next)
  IN  /\ next \in 0 .. Len(data)
      /\ j < n + 3 => Run(Hex(s, toks, code), Drop(data, next)) = Out(<< >>)
      /\ j = n + 3 => /\ code \in DOMAIN Symbol
                      /\ s # << >> /\ Head(s) = Symbol[code] /\ Tail(s) \in Bytes
                      /\ s = <<Symbol[code]>> \o Tail(s)
                      /\ Run(In(Tail(s), toks), Drop(data, next)) = Out(<< >>)

LEMMA ReadsDigit ==
  ASSUME NEW s \in Bytes, NEW toks \in Tokens, NEW data \in Bytes, NEW n \in Nat, NEW j \in n .. n + 3,
         NEW next \in Nat, next = j + 1, j \in 0 .. Len(data),
         Run(Hex(s, toks, SubSeq(data, n + 1, j)), Drop(data, j)) = Out(<< >>)
  PROVE  DigitRead(s, toks, data, n, j, next)
<1> DEFINE code == SubSeq(data, n + 1, j)
           k == Hex(s, toks, code)
           c == data[j + 1]
           more == SubSeq(data, n + 1, j + 1)
<1>1. data \in Seq(Symbols) /\ Len(data) \in Nat /\ j \in Nat /\ j - n \in Nat
  BY DEF Bytes
<1>2. code \in Bytes /\ Len(code) = j - n
  BY <1>1 DEF Bytes
<1>3. k \in Reader /\ k # Out(<< >>)
  BY <1>2, ReaderTypes, NotThrough
<1>4. /\ j < Len(data) /\ j + 1 \in 0 .. Len(data) /\ c \in Symbols
      /\ StepOver(k, c) # Unexpected /\ Run(StepOver(k, c), Drop(data, j + 1)) = Out(<< >>)
  <2>1. Run(k, Drop(data, j)) = Out(<< >>)
    OBVIOUS
  <2> HIDE DEF k
  <2> QED
    BY <1>3, <2>1, RunOver
<1>5. more = code \o <<c>> /\ Len(code \o <<c>>) = j - n + 1
  <2>1. /\ code \in Seq(Symbols) /\ Len(code) = j - n /\ \A i \in 1 .. j - n : code[i] = data[n + i]
    BY <1>1
  <2>2. /\ more \in Seq(Symbols) /\ Len(more) = j - n + 1
        /\ \A i \in 1 .. j - n + 1 : more[i] = data[n + i]
    BY <1>1, <1>4
  <2> HIDE DEF code, more, c, k
  <2>3. PICK v \in Seq(Symbols) : v = <<c>> /\ Len(v) = 1 /\ v[1] = c
    <3>1. <<c>> \in Seq(Symbols) /\ Len(<<c>>) = 1 /\ <<c>>[1] = c
      BY <1>4
    <3> QED
      BY <3>1
  <2>4. PICK u \in Seq(Symbols) : u = code
    BY <2>1
  <2>5. /\ u \o v \in Seq(Symbols) /\ Len(u \o v) = j - n + 1
        /\ \A i \in 1 .. j - n + 1 : (u \o v)[i] = IF i <= j - n THEN u[i] ELSE v[i - (j - n)]
    <3>1. /\ u \o v \in Seq(Symbols) /\ Len(u \o v) = Len(u) + Len(v)
          /\ \A i \in 1 .. Len(u) + Len(v) : (u \o v)[i] = IF i <= Len(u) THEN u[i] ELSE v[i - Len(u)]
      BY ConcatProperties
    <3>2. Len(u) = j - n /\ Len(v) = 1
      BY <2>1, <2>3, <2>4
    <3> QED
      BY <3>1, <3>2
  <2>6. ASSUME NEW i \in 1 .. j - n + 1 PROVE (u \o v)[i] = more[i]
    <3>1. CASE i <= j - n
      <4>1. i \in 1 .. j - n
        BY <1>1, <3>1
      <4> QED
        BY <2>1, <2>2, <2>4, <2>5, <3>1, <4>1
    <3>2. CASE ~ (i <= j - n)
      <4>1. i - (j - n) = 1 /\ n + i = j + 1
        BY <1>1, <3>2
      <4>2. more[i] = c
        BY <2>2, <4>1 DEF c
      <4>3. (u \o v)[i] = c
        BY <2>3, <2>5, <3>2, <4>1
      <4> QED
        BY <4>2, <4>3
    <3> QED
      BY <3>1, <3>2
  <2>7. u \o v = more
    BY <2>2, <2>5, <2>6, SeqEqual
  <2> QED
    BY <2>3, <2>4, <2>5, <2>7
<1>6. StepOver(k, c) = IF c \notin Digits THEN Unexpected
           ELSE IF Len(code \o <<c>>) < 4 THEN Hex(s, toks, code \o <<c>>)
           ELSE IF code \o <<c>> \in DOMAIN Symbol THEN Saying(Hex(s, toks, code), Symbol[code \o <<c>>])
           ELSE Unexpected
  BY OverHex
<1>7. k.text = s /\ k.toks = toks
  BY DEF Hex
<1> HIDE DEF code, k, c, more
<1>8. ASSUME j < n + 3 PROVE Run(Hex(s, toks, more), Drop(data, j + 1)) = Out(<< >>)
  <2>1. Len(code \o <<c>>) < 4
    BY <1>1, <1>5, <1>8
  <2> QED
    BY <1>4, <1>5, <1>6, <2>1
<1>9. ASSUME j = n + 3
      PROVE  /\ more \in DOMAIN Symbol
             /\ s # << >> /\ Head(s) = Symbol[more] /\ Tail(s) \in Bytes
             /\ s = <<Symbol[more]>> \o Tail(s)
             /\ Run(In(Tail(s), toks), Drop(data, j + 1)) = Out(<< >>)
  <2>1. ~ (Len(code \o <<c>>) < 4)
    BY <1>1, <1>5, <1>9
  <2>2. more \in DOMAIN Symbol /\ StepOver(k, c) = Saying(k, Symbol[more])
    BY <1>4, <1>5, <1>6, <2>1 DEF k
  <2>3. /\ s # << >> /\ Head(s) = Symbol[more] /\ Tail(s) \in Bytes
        /\ s = <<Symbol[more]>> \o Tail(s)
        /\ Saying(k, Symbol[more]) = In(Tail(s), toks)
    BY <1>4, <1>7, <2>2, SayingFacts
  <2> QED
    BY <1>4, <2>2, <2>3
<1> QED
  BY <1>4, <1>8, <1>9 DEF more, DigitRead

\* The four digits of a code say one symbol.
LEMMA ReadsCode ==
  ASSUME NEW s \in Bytes, NEW toks \in Tokens, NEW data \in Bytes, NEW n \in 0 .. Len(data),
         Run(Hex(s, toks, << >>), Drop(data, n)) = Out(<< >>)
  PROVE  LET code == SubSeq(data, n + 1, n + 4)
         IN  /\ n + 4 \in 0 .. Len(data) /\ code \in DOMAIN Symbol
             /\ s # << >> /\ Head(s) = Symbol[code] /\ Tail(s) \in Bytes
             /\ s = <<Symbol[code]>> \o Tail(s)
             /\ Run(In(Tail(s), toks), Drop(data, n + 4)) = Out(<< >>)
<1> DEFINE Has(j) == /\ j \in 0 .. Len(data)
                     /\ Run(Hex(s, toks, SubSeq(data, n + 1, j)), Drop(data, j)) = Out(<< >>)
<1>1. n \in Nat /\ Has(n)
  <2>1. data \in Seq(Symbols) /\ Len(data) \in Nat
    BY DEF Bytes
  <2>2. SubSeq(data, n + 1, n) = << >>
    BY <2>1
  <2>3. n \in Nat
    BY <2>1
  <2>4. Run(Hex(s, toks, SubSeq(data, n + 1, n)), Drop(data, n)) = Out(<< >>)
    BY <2>2, Zenon
  <2> QED
    BY <2>3, <2>4, Zenon
<1>2. ASSUME NEW j \in n .. n + 2, NEW next \in Nat, next = j + 1, Has(j) PROVE Has(next)
  <2>1. j \in n .. n + 3 /\ j < n + 3
    BY <1>1
  <2>2. /\ j \in 0 .. Len(data)
        /\ Run(Hex(s, toks, SubSeq(data, n + 1, j)), Drop(data, j)) = Out(<< >>)
    BY <1>2, Zenon
  <2>3. DigitRead(s, toks, data, n, j, next)
    BY <1>1, <1>2, <2>1, <2>2, ReadsDigit
  <2> QED
    BY <2>1, <2>3 DEF DigitRead
<1> HIDE DEF Has
<1>3. PICK i1 \in Nat, i2 \in Nat, i3 \in Nat, i4 \in Nat :
        /\ i1 = n + 1 /\ i2 = i1 + 1 /\ i3 = i2 + 1 /\ i4 = i3 + 1
        /\ n \in n .. n + 2 /\ i1 \in n .. n + 2 /\ i2 \in n .. n + 2 /\ i3 \in n .. n + 3
        /\ i3 = n + 3 /\ i4 = n + 4
  <2>1. n + 1 + 1 = n + 2 /\ n + 1 + 1 + 1 = n + 3 /\ n + 1 + 1 + 1 + 1 = n + 4
    BY <1>1
  <2>2. /\ n \in n .. n + 2 /\ n + 1 \in n .. n + 2 /\ n + 1 + 1 \in n .. n + 2
        /\ n + 1 + 1 + 1 \in n .. n + 3
    BY <1>1
  <2> QED
    BY <1>1, <2>1, <2>2
<1>4. Has(i3)
  <2>1. Has(i1)
    BY <1>1, <1>2, <1>3
  <2>2. Has(i2)
    BY <1>2, <1>3, <2>1
  <2> QED
    BY <1>2, <1>3, <2>2
<1>5. i3 \in 0 .. Len(data) /\ Run(Hex(s, toks, SubSeq(data, n + 1, i3)), Drop(data, i3)) = Out(<< >>)
  BY <1>4 DEF Has
<1>6. DigitRead(s, toks, data, n, i3, i4)
  BY <1>1, <1>3, <1>5, ReadsDigit
<1> QED
  BY <1>3, <1>6 DEF DigitRead

\* The rest of a string is read as the reader of tokens was told, and what
\* follows it are the other tokens.
LEMMA ReadsString ==
  \A data \in Bytes : \A s \in Bytes, toks \in Tokens :
    Run(In(s, toks), data) = Out(<< >>) =>
      \E rest \in Bytes : /\ StringTail[data] = Read("string", s, rest)
                          /\ Len(rest) < Len(data) /\ Accepts(toks, rest)
<1> DEFINE Reads(data, s, toks) ==
             \E rest \in Bytes : /\ StringTail[data] = Read("string", s, rest)
                                 /\ Len(rest) < Len(data) /\ Accepts(toks, rest)
           S == {data \in Bytes : \A s \in Bytes, toks \in Tokens :
                   Run(In(s, toks), data) = Out(<< >>) => Reads(data, s, toks)}
<1>1. ASSUME NEW data \in Bytes, \A t \in Bytes : BytesLength(t) < BytesLength(data) => t \in S
      PROVE  data \in S
  <2> SUFFICES ASSUME NEW s \in Bytes, NEW toks \in Tokens, Run(In(s, toks), data) = Out(<< >>)
               PROVE  Reads(data, s, toks)
    OBVIOUS
  <2>1. Len(data) \in Nat /\ 0 \in 0 .. Len(data) /\ 0 + 1 = 1 /\ 1 + 1 = 2 /\ 2 + 4 = 6 /\ 2 + 1 = 3
    BY DEF Bytes
  <2>2. ASSUME NEW n \in 1 .. Len(data), NEW c \in Symbols, NEW left \in Bytes, s = <<c>> \o left,
               Run(In(left, toks), Drop(data, n)) = Out(<< >>),
               StringTail[data] = Before(c, StringTail[Drop(data, n)])
        PROVE  Reads(data, s, toks)
    <3>1. PICK t \in Bytes : t = Drop(data, n) /\ Len(t) < Len(data) /\ Len(t) \in Nat
      BY <2>1, DropFacts
    <3>2. t \in S
      BY <1>1, <3>1 DEF BytesLength
    <3>3. PICK rest \in Bytes : /\ StringTail[t] = Read("string", left, rest)
                                /\ Len(rest) < Len(t) /\ Accepts(toks, rest)
      BY <2>2, <3>1, <3>2
    <3>4. Found(t, StringTail[t])
      BY StringDefined
    <3>5. Before(c, StringTail[t]) = Read("string", <<c>> \o left, rest)
      BY <3>1, <3>3, <3>4, BeforeFacts
    <3>6. Len(rest) < Len(data)
      <4>1. Len(rest) \in Nat
        BY DEF Bytes
      <4> QED
        BY <2>1, <3>1, <3>3, <4>1
    <3> QED
      BY <2>2, <3>1, <3>3, <3>5, <3>6
  <2> DEFINE c == data[1]
  <2>3. /\ 0 < Len(data) /\ c \in Symbols /\ 1 \in 1 .. Len(data)
        /\ StepOver(In(s, toks), c) # Unexpected /\ StepOver(In(s, toks), c) \in Reader
        /\ Run(StepOver(In(s, toks), c), Drop(data, 1)) = Out(<< >>)
    <3>1. Run(In(s, toks), Drop(data, 0)) = Out(<< >>)
      BY <2>1, DropFacts
    <3>2. In(s, toks) \in Reader /\ In(s, toks) # Out(<< >>)
      BY ReaderTypes, NotThrough
    <3>3. /\ 0 < Len(data) /\ data[0 + 1] \in Symbols /\ 0 + 1 \in 0 .. Len(data)
          /\ StepOver(In(s, toks), data[0 + 1]) \in Reader
          /\ StepOver(In(s, toks), data[0 + 1]) # Unexpected
          /\ Run(StepOver(In(s, toks), data[0 + 1]), Drop(data, 0 + 1)) = Out(<< >>)
      BY <2>1, <3>1, <3>2, RunOver
    <3> QED
      BY <2>1, <3>3
  <2>4. data # << >> /\ Head(data) = c /\ Tail(data) = Drop(data, 1)
    BY <2>1, <2>3, DropFacts
  <2>5. StringTail[data] = StringBody(StringTail, data)
    BY StringDefined
  <2> HIDE DEF S, Reads, c
  <2>6. CASE c = "\""
    <3>1. s = << >> /\ StepOver(In(s, toks), c) = Out(toks)
      BY <2>3, <2>6, OverIn
    <3>2. StringTail[data] = Read("string", s, Drop(data, 1))
      BY <2>4, <2>5, <2>6, <3>1 DEF StringBody
    <3>3. Drop(data, 1) \in Bytes /\ Len(Drop(data, 1)) < Len(data)
      BY <2>1, <2>3, DropFacts
    <3> QED
      BY <2>3, <3>1, <3>2, <3>3 DEF Reads, Accepts
  <2>7. CASE c # "\"" /\ c # "\\"
    <3>1. StepOver(In(s, toks), c) = Saying(In(s, toks), c)
      BY <2>7, OverIn
    <3>2. In(s, toks).text = s /\ In(s, toks).toks = toks
      BY DEF In
    <3>3. Tail(s) \in Bytes /\ s = <<c>> \o Tail(s) /\ Saying(In(s, toks), c) = In(Tail(s), toks)
      BY <2>3, <3>1, <3>2, SayingFacts
    <3>4. StringTail[data] = Before(c, StringTail[Drop(data, 1)])
      BY <2>4, <2>5, <2>7 DEF StringBody
    <3> QED
      BY <2>2, <2>3, <3>1, <3>3, <3>4
  <2>8. CASE c = "\\"
    <3> DEFINE d == data[2]
               k == Behind(s, toks)
    <3>1. StepOver(In(s, toks), c) = k
      BY <2>8, OverIn
    <3>2. /\ 1 < Len(data) /\ d \in Symbols /\ 2 \in 1 .. Len(data) /\ 2 \in 0 .. Len(data)
          /\ StepOver(k, d) # Unexpected /\ Run(StepOver(k, d), Drop(data, 2)) = Out(<< >>)
      <4>1. k \in Reader /\ k # Out(<< >>) /\ Run(k, Drop(data, 1)) = Out(<< >>) /\ 1 \in 0 .. Len(data)
        BY <2>1, <2>3, <3>1, ReaderTypes, NotThrough
      <4> HIDE DEF k
      <4>2. /\ 1 < Len(data) /\ data[1 + 1] \in Symbols /\ 1 + 1 \in 0 .. Len(data)
            /\ StepOver(k, data[1 + 1]) # Unexpected
            /\ Run(StepOver(k, data[1 + 1]), Drop(data, 1 + 1)) = Out(<< >>)
        BY <2>1, <4>1, RunOver
      <4> QED
        BY <2>1, <4>2
    <3>3. ~ (Len(data) < 2)
      BY <2>1, <3>2
    <3>4. StepOver(k, d) = IF d = "u" THEN Hex(s, toks, << >>)
                           ELSE IF d \in DOMAIN Unshort THEN Saying(k, Unshort[d]) ELSE Unexpected
      BY OverBehind
    <3>5. k.text = s /\ k.toks = toks
      BY DEF Behind
    <3> HIDE DEF d, k
    <3>6. CASE d = "u"
      <4> DEFINE code == SubSeq(data, 3, 6)
      <4>1. Run(Hex(s, toks, << >>), Drop(data, 2)) = Out(<< >>)
        BY <3>2, <3>4, <3>6
      <4>2. /\ 6 \in 0 .. Len(data) /\ code \in DOMAIN Symbol /\ Tail(s) \in Bytes
            /\ s = <<Symbol[code]>> \o Tail(s) /\ Run(In(Tail(s), toks), Drop(data, 6)) = Out(<< >>)
        BY <2>1, <3>2, <4>1, ReadsCode
      <4> HIDE DEF code
      <4>3. Len(data) >= 6 /\ 6 \in 1 .. Len(data)
        BY <2>1, <4>2
      <4>4. d \notin DOMAIN Unshort
        BY <3>6, UnshortFacts
      <4>5. StringTail[data] = Before(Symbol[code], StringTail[Drop(data, 6)])
        BY <2>4, <2>5, <2>8, <3>3, <3>6, <4>2, <4>3, <4>4 DEF StringBody, d, code
      <4>6. Symbol[code] \in Symbols
        BY <4>2, SymbolFacts
      <4> QED
        BY <2>2, <4>2, <4>3, <4>5, <4>6
    <3>7. CASE d # "u"
      <4>1. d \in DOMAIN Unshort /\ StepOver(k, d) = Saying(k, Unshort[d])
        BY <3>2, <3>4, <3>7
      <4>2. /\ Tail(s) \in Bytes /\ s = <<Unshort[d]>> \o Tail(s)
            /\ Saying(k, Unshort[d]) = In(Tail(s), toks)
        BY <3>2, <3>5, <4>1, SayingFacts
      <4>3. StringTail[data] = Before(Unshort[d], StringTail[Drop(data, 2)])
        BY <2>4, <2>5, <2>8, <3>3, <4>1 DEF StringBody, d
      <4>4. Unshort[d] \in Symbols
        BY <4>1, UnshortFacts
      <4> QED
        BY <2>2, <3>2, <4>1, <4>2, <4>3, <4>4
    <3> QED
      BY <3>6, <3>7
  <2> QED
    BY <2>6, <2>7, <2>8
<1>2. \A data \in Bytes : data \in S
  <2> HIDE DEF S
  <2> QED
    BY <1>1, BytesMeasured, OverBytes!OnSmaller
<1> QED
  BY <1>2

-----------------------------------------------------------------------------
(* Other spellings of a text have the same tokens.                         *)

AfterStep(at, c) ==
  CASE at = "escaped"               -> "in"
    [] at = "in" /\ c = "\\"        -> "escaped"
    [] at # "escaped" /\ c = "\""   -> IF at = "in" THEN "out" ELSE "in"
    [] OTHER                        -> at

AfterBody(text, f, i) == IF i = 0 THEN "out" ELSE AfterStep(f[i - 1], text[i])

\* After of a text.
AfterIn(text) == CHOOSE f : f = [i \in 0 .. Len(text) |-> AfterBody(text, f, i)]

LEMMA AfterIsAfterIn == After = AfterIn(wire)
BY DEF After, AfterIn, AfterBody, AfterStep

LEMMA AfterDefined ==
  ASSUME NEW text \in Bytes
  PROVE  /\ AfterIn(text)[0] = "out"
         /\ \A i \in 0 .. Len(text) - 1 : AfterIn(text)[i + 1] = AfterStep(AfterIn(text)[i], text[i + 1])
<1> DEFINE Upto == {n \in Nat : \E f : f = [i \in 0 .. n |-> AfterBody(text, f, i)]}
<1>1. 0 \in Upto
  <2> DEFINE f == [i \in 0 .. 0 |-> "out"]
  <2>1. f = [i \in 0 .. 0 |-> AfterBody(text, f, i)]
    BY DEF AfterBody
  <2> HIDE DEF f
  <2> QED
    BY <2>1
<1>2. ASSUME NEW n \in Upto PROVE n + 1 \in Upto
  <2>1. PICK f : f = [i \in 0 .. n |-> AfterBody(text, f, i)]
    OBVIOUS
  <2> DEFINE g == [i \in 0 .. n + 1 |-> IF i <= n THEN f[i] ELSE AfterBody(text, f, i)]
  <2>2. ASSUME NEW i \in 0 .. n + 1 PROVE g[i] = AfterBody(text, g, i)
    <3>1. i # 0 => g[i - 1] = f[i - 1]
      OBVIOUS
    <3>2. i <= n => f[i] = AfterBody(text, f, i)
      <4>1. n \in Nat
        OBVIOUS
      <4>2. i <= n => i \in 0 .. n
        BY <4>1
      <4> QED
        BY <2>1, <4>2, Zenon
    <3>3. AfterBody(text, g, i) = AfterBody(text, f, i)
      BY <3>1 DEF AfterBody
    <3> QED
      BY <3>2, <3>3
  <2>3. g = [i \in 0 .. n + 1 |-> AfterBody(text, g, i)]
    BY <2>2
  <2>4. \E h : h = [i \in 0 .. n + 1 |-> AfterBody(text, h, i)]
    <3> HIDE DEF g
    <3> QED
      BY <2>3
  <2> QED
    BY <2>4
<1>3. Upto = Nat
  <2> HIDE DEF Upto
  <2>1. Upto \in SUBSET Nat
    BY DEF Upto
  <2> QED
    BY <1>1, <1>2, <2>1, Stripping!OnNaturals
<1>4. AfterIn(text) = [i \in 0 .. Len(text) |-> AfterBody(text, AfterIn(text), i)]
  <2>1. Len(text) \in Upto
    <3> HIDE DEF Upto
    <3> QED
      BY <1>3 DEF Bytes
  <2>2. \E f : f = [i \in 0 .. Len(text) |-> AfterBody(text, f, i)]
    BY <2>1
  <2> QED
    BY <2>2 DEF AfterIn
<1>5. \A i \in 0 .. Len(text) : AfterIn(text)[i] = AfterBody(text, AfterIn(text), i)
  BY <1>4
<1> HIDE DEF Upto
<1>6. Len(text) \in Nat
  BY DEF Bytes
<1>7. ASSUME NEW i \in 0 .. Len(text) - 1
      PROVE  AfterIn(text)[i + 1] = AfterStep(AfterIn(text)[i], text[i + 1])
  <2>1. i + 1 \in 0 .. Len(text) /\ i + 1 # 0 /\ (i + 1) - 1 = i
    BY <1>6
  <2>2. AfterIn(text)[i + 1] = AfterBody(text, AfterIn(text), i + 1)
    BY <1>5, <2>1
  <2> QED
    BY <2>1, <2>2 DEF AfterBody
<1>8. AfterIn(text)[0] = "out"
  BY <1>5, <1>6 DEF AfterBody
<1> QED
  BY <1>7, <1>8

\* After does not tell the digits of a code from the other symbols of a string.
Shown(mode) == IF mode = "hex" THEN "in" ELSE mode

LEMMA StepShown ==
  ASSUME NEW k \in Reader, NEW c \in Symbols, StepOver(k, c).mode # "bad"
  PROVE  k.mode # "bad" /\ Shown(StepOver(k, c).mode) = AfterStep(Shown(k.mode), c)
<1>1. k.mode \in {"out", "in", "escaped", "hex", "bad"}
  BY DEF Reader
<1>2. Unexpected.mode = "bad"
  BY DEF Unexpected
<1>3. \A d : Saying(k, d).mode # "bad" => Saying(k, d).mode = "in"
  BY <1>2 DEF Saying, In
<1>4. CASE k.mode = "bad"
  BY <1>2, <1>4 DEF StepOver
<1>5. CASE k.mode = "out"
  <2>1. StepOver(k, c) = StepOut(k, c)
    BY <1>5 DEF StepOver
  <2>2. StepOut(k, c).mode = IF c \notin Blank /\ c = "\"" THEN "in" ELSE "out"
    BY <1>2, <1>5, <2>1 DEF StepOut, In, Out
  <2>3. "\"" \notin Blank
    BY DEF Blank
  <2> QED
    BY <1>5, <2>1, <2>2, <2>3 DEF Shown, AfterStep
<1>6. CASE k.mode = "in"
  <2>1. StepOver(k, c) = StepIn(k, c)
    BY <1>6 DEF StepOver
  <2>2. StepIn(k, c).mode = IF c = "\"" THEN "out" ELSE IF c = "\\" THEN "escaped" ELSE "in"
    BY <1>2, <1>3, <2>1 DEF StepIn, Out, Behind
  <2> QED
    BY <1>6, <2>1, <2>2 DEF Shown, AfterStep
<1>7. CASE k.mode = "escaped"
  <2>1. StepOver(k, c) = StepBehind(k, c)
    BY <1>7 DEF StepOver
  <2>2. StepBehind(k, c).mode \in {"in", "hex"}
    BY <1>2, <1>3, <2>1 DEF StepBehind, Hex
  <2> QED
    BY <1>7, <2>1, <2>2 DEF Shown, AfterStep
<1>8. CASE k.mode = "hex"
  <2>1. StepOver(k, c) = StepHex(k, c)
    BY <1>8 DEF StepOver
  <2>2. StepHex(k, c).mode \in {"in", "hex"} /\ c \in Digits
    BY <1>2, <1>3, <2>1 DEF StepHex, Hex
  <2>3. c # "\\" /\ c # "\""
    BY <2>2 DEF Digits
  <2> QED
    BY <1>8, <2>1, <2>2, <2>3 DEF Shown, AfterStep
<1> QED
  BY <1>1, <1>4, <1>5, <1>6, <1>7, <1>8

\* A reader that is lost stays so.
LEMMA RunBad ==
  ASSUME NEW k \in Reader, k.mode = "bad", NEW text \in Bytes
  PROVE  Run(k, text).mode = "bad"
<1>1. CASE text = << >>
  BY <1>1, RunDefined
<1>2. CASE text # << >>
  <2>1. Head(text) \in Symbols /\ Tail(text) \in Bytes
    BY <1>2, HeadAndTail DEF Bytes
  <2>2. StepOver(k, Head(text)) = Unexpected
    BY DEF StepOver
  <2> QED
    BY <1>2, <2>1, <2>2, RunDefined, RunUnexpected DEF Unexpected
<1> QED
  BY <1>1, <1>2

\* Where After says so, the reader of the tokens of the text is outside a string,
\* in one, or behind a backslash.
LEMMA AfterIsMode ==
  ASSUME NEW toks \in Tokens, NEW text \in Bytes, Accepts(toks, text), NEW j \in 0 .. Len(text)
  PROVE  LET k == Run(Out(toks), SubSeq(text, 1, j))
         IN  k \in Reader /\ k.mode # "bad" /\ AfterIn(text)[j] = Shown(k.mode)
<1> DEFINE Pre(i) == SubSeq(text, 1, i)
           At(i) == Run(Out(toks), Pre(i))
<1>1. text \in Seq(Symbols) /\ Len(text) \in Nat /\ Out(toks) \in Reader
  BY ReaderTypes DEF Bytes
<1>2. ASSUME NEW i \in 0 .. Len(text)
      PROVE  Pre(i) \in Bytes /\ At(i) \in Reader /\ At(i).mode # "bad"
  <2>1. Pre(i) \in Bytes
    BY <1>1 DEF Bytes
  <2>2. PICK t \in Bytes : text = Pre(i) \o t
    <3>1. SubSeq(text, i + 1, Len(text)) \in Bytes /\ text = Pre(i) \o SubSeq(text, i + 1, Len(text))
      BY <1>1, CutBehind DEF Bytes
    <3> QED
      BY <3>1
  <2> HIDE DEF Pre
  <2>3. At(i) \in Reader /\ Run(At(i), t) = Out(<< >>)
    BY <1>1, <2>1, <2>2, RunConcat, RunDefined DEF Accepts
  <2>4. Out(<< >>).mode # "bad"
    BY DEF Out
  <2> HIDE DEF At
  <2> QED
    BY <2>1, <2>3, <2>4, RunBad
<1>3. ASSUME NEW i \in 0 .. Len(text) - 1
      PROVE  text[i + 1] \in Symbols /\ At(i + 1) = StepOver(At(i), text[i + 1])
  <2>1. Pre(i + 1) = Pre(i) \o <<text[i + 1]>> /\ text[i + 1] \in Symbols
    BY <1>1
  <2>2. i \in 0 .. Len(text) /\ i + 1 \in 0 .. Len(text)
    BY <1>1
  <2> HIDE DEF Pre
  <2>3. Run(Out(toks), Pre(i) \o <<text[i + 1]>>) = Run(At(i), <<text[i + 1]>>)
    BY <1>1, <1>2, <2>1, <2>2, RunConcat, RunOne
  <2>4. Run(At(i), <<text[i + 1]>>) = StepOver(At(i), text[i + 1])
    BY <1>2, <2>1, <2>2, RunOne
  <2> QED
    BY <2>1, <2>3, <2>4
<1> HIDE DEF Pre, At
<1> DEFINE S == {i \in Nat : i \in 0 .. Len(text) => AfterIn(text)[i] = Shown(At(i).mode)}
<1>4. 0 \in S
  <2>1. Pre(0) = << >> /\ At(0) = Out(toks)
    <3>1. Pre(0) = << >>
      BY <1>1 DEF Pre
    <3> QED
      BY <1>1, <3>1, RunNone DEF At
  <2>2. Shown(Out(toks).mode) = "out"
    BY DEF Shown, Out
  <2> QED
    BY <2>1, <2>2, AfterDefined
<1>5. ASSUME NEW i \in S PROVE i + 1 \in S
  <2> SUFFICES ASSUME i + 1 \in 0 .. Len(text) PROVE AfterIn(text)[i + 1] = Shown(At(i + 1).mode)
    OBVIOUS
  <2>1. i \in 0 .. Len(text) - 1 /\ i \in 0 .. Len(text)
    BY <1>1
  <2>2. AfterIn(text)[i] = Shown(At(i).mode)
    BY <2>1
  <2> HIDE DEF S
  <2>3. AfterIn(text)[i + 1] = AfterStep(AfterIn(text)[i], text[i + 1])
    BY <2>1, AfterDefined
  <2>4. At(i) \in Reader /\ StepOver(At(i), text[i + 1]).mode # "bad" /\ text[i + 1] \in Symbols
    BY <1>2, <1>3, <2>1
  <2>5. Shown(StepOver(At(i), text[i + 1]).mode) = AfterStep(Shown(At(i).mode), text[i + 1])
    BY <2>4, StepShown
  <2> QED
    BY <1>3, <2>1, <2>2, <2>3, <2>5
<1>6. S = Nat
  <2> HIDE DEF S
  <2>1. S \in SUBSET Nat
    BY DEF S
  <2> QED
    BY <1>4, <1>5, <2>1, Stripping!OnNaturals
<1>7. AfterIn(text)[j] = Shown(At(j).mode)
  BY <1>1, <1>6
<1> QED
  BY <1>2, <1>7 DEF At, Pre

\* A part of a text may be another one that the reader goes over in the same way.
LEMMA OtherPart ==
  ASSUME NEW toks \in Tokens, NEW u \in Bytes, NEW v \in Bytes, NEW w \in Bytes, NEW t \in Bytes,
         Accepts(toks, u \o (v \o t)), Run(Run(Out(toks), u), v) = Run(Run(Out(toks), u), w)
  PROVE  u \o (w \o t) \in Bytes /\ Accepts(toks, u \o (w \o t))
<1>1. Out(toks) \in Reader /\ Run(Out(toks), u) \in Reader
  BY ReaderTypes, RunDefined
<1>2. v \o t \in Bytes /\ w \o t \in Bytes
  BY RunConcat, <1>1
<1>3. Run(Out(toks), u \o (v \o t)) = Run(Run(Run(Out(toks), u), v), t)
  BY <1>1, <1>2, RunConcat
<1>4. /\ u \o (w \o t) \in Bytes
      /\ Run(Out(toks), u \o (w \o t)) = Run(Run(Run(Out(toks), u), w), t)
  BY <1>1, <1>2, RunConcat
<1> QED
  BY <1>3, <1>4 DEF Accepts

\* A text, cut at a symbol, and what the reader of its tokens does at the cut.
LEMMA CutAccepted ==
  ASSUME NEW toks \in Tokens, NEW text \in Bytes, Accepts(toks, text), NEW i \in 1 .. Len(text)
  PROVE  \E u, t \in Bytes :
           /\ u = SubSeq(text, 1, i - 1) /\ t = Drop(text, i) /\ SubSeq(text, i, Len(text)) = <<text[i]>> \o t
           /\ text[i] \in Symbols /\ <<text[i]>> \o t \in Bytes
           /\ text = u \o (<<text[i]>> \o t)
           /\ LET k == Run(Out(toks), u)
              IN  /\ k \in Reader /\ AfterIn(text)[i - 1] = Shown(k.mode) /\ k.mode # "bad"
                  /\ StepOver(k, text[i]).mode # "bad"
<1>1. text \in Seq(Symbols) /\ Len(text) \in Nat /\ i - 1 \in 0 .. Len(text) /\ text[i] \in Symbols
  BY DEF Bytes
<1>2. PICK u, t \in Bytes :
        /\ u = SubSeq(text, 1, i - 1) /\ t = Drop(text, i) /\ SubSeq(text, i, Len(text)) = <<text[i]>> \o t
        /\ text = u \o SubSeq(text, i, Len(text))
  BY <1>1, Cut DEF Bytes, Drop
<1>3. <<text[i]>> \o t \in Bytes
  BY <1>1, PutBefore DEF Bytes
<1>4. PICK k \in Reader : k = Run(Out(toks), u) /\ AfterIn(text)[i - 1] = Shown(k.mode) /\ k.mode # "bad"
  BY <1>1, <1>2, AfterIsMode
<1>5. Run(k, <<text[i]>> \o t) = Out(<< >>)
  <2>1. PICK v \in Bytes : v = <<text[i]>> \o t /\ text = u \o v
    BY <1>2, <1>3
  <2>2. Run(Out(toks), u \o v) = Run(k, v)
    BY <1>4, RunConcat, ReaderTypes
  <2> QED
    BY <2>1, <2>2 DEF Accepts
<1>6. StepOver(k, text[i]) \in Reader /\ Run(StepOver(k, text[i]), t) = Out(<< >>)
  BY <1>1, <1>5, RunPutBefore, StepOverTypes
<1>7. StepOver(k, text[i]).mode # "bad"
  BY <1>6, RunBad DEF Out
<1> QED
  BY <1>1, <1>2, <1>3, <1>4, <1>7

LEMMA NamedSymbols ==
  /\ {"LF", "\\", "u", "0", "6", "1", "5", "c", "a", "f", "\""} \subseteq Symbols
  /\ {"{", "}", ":", ",", "null", "1"} \subseteq Symbols
BY SymbolsAssumption DEF Named

\* A blank outside strings is passed over.
LEMMA BlankInserted ==
  ASSUME NEW toks \in Tokens, NEW text \in Bytes, Accepts(toks, text), NEW i \in 1 .. Len(text),
         AfterIn(text)[i - 1] = "out"
  PROVE  InsertAt(text, i, "LF") \in Bytes /\ Accepts(toks, InsertAt(text, i, "LF"))
<1>1. PICK u, t \in Bytes :
        /\ u = SubSeq(text, 1, i - 1) /\ SubSeq(text, i, Len(text)) = <<text[i]>> \o t
        /\ text[i] \in Symbols /\ <<text[i]>> \o t \in Bytes
        /\ text = u \o (<<text[i]>> \o t)
        /\ Run(Out(toks), u) \in Reader /\ AfterIn(text)[i - 1] = Shown(Run(Out(toks), u).mode)
  BY CutAccepted
<1> DEFINE k == Run(Out(toks), u)
           rest == <<text[i]>> \o t
<1>2. k.mode = "out"
  BY <1>1 DEF Shown
<1>3. "LF" \in Symbols /\ "LF" \in Blank
  BY NamedSymbols DEF Blank
<1>4. <<"LF">> \in Bytes /\ Run(k, <<"LF">>) = k
  <2>1. StepOver(k, "LF") = k
    BY <1>2, <1>3 DEF StepOver, StepOut
  <2> QED
    BY <1>1, <1>3, <2>1, RunOne
<1>5. << >> \in Bytes /\ Run(k, << >>) = k /\ << >> \o rest = rest
  BY <1>1, RunNone, Joining DEF Bytes
<1>6. InsertAt(text, i, "LF") = (u \o <<"LF">>) \o rest
  BY <1>1 DEF InsertAt
<1>7. PICK w \in Bytes, v \in Bytes : w = <<"LF">> /\ v = rest
  BY <1>1, <1>4
<1>8. (u \o w) \o v = u \o (w \o v)
  <2>1. Cat(Cat(u, w), v) = Cat(u, Cat(w, v))
    BY CatBytes
  <2> QED
    BY <2>1 DEF Cat
<1>9. Accepts(toks, u \o (<< >> \o v)) /\ Run(k, << >>) = Run(k, w)
  BY <1>1, <1>4, <1>5, <1>7
<1> HIDE DEF rest
<1>10. u \o (w \o v) \in Bytes /\ Accepts(toks, u \o (w \o v))
  BY <1>5, <1>9, OtherPart
<1> QED
  BY <1>6, <1>7, <1>8, <1>10

\* What the reader does over the four digits of a code.
LEMMA RunCode ==
  ASSUME NEW s \in Bytes, NEW toks \in Tokens,
         NEW a \in Digits, NEW b \in Digits, NEW c \in Digits, NEW d \in Digits,
         <<a, b, c, d>> \in DOMAIN Symbol
  PROVE  /\ <<a, b, c, d>> \in Bytes
         /\ Run(Hex(s, toks, << >>), <<a, b, c, d>>) = Saying(In(s, toks), Symbol[<<a, b, c, d>>])
<1>1. a \in Symbols /\ b \in Symbols /\ c \in Symbols /\ d \in Symbols
  <2>1. Digits \subseteq Symbols
    BY SymbolsAssumption DEF Digits, Named
  <2> QED
    BY <2>1, Zenon
<1>2. PICK x1, x2, x3, x4, y1, y2, y3 \in Bytes :
        /\ x1 = << >> \o <<a>> /\ x2 = x1 \o <<b>> /\ x3 = x2 \o <<c>> /\ x4 = x3 \o <<d>>
        /\ Len(x1) = 1 /\ Len(x2) = 2 /\ Len(x3) = 3 /\ Len(x4) = 4
        /\ y1 = <<d>> /\ y2 = <<c>> \o y1 /\ y3 = <<b>> \o y2 /\ x4 = <<a>> \o y3
        /\ x4 = <<a, b, c, d>>
  <2>1. PartsOfFour(Symbols, a, b, c, d)
    BY <1>1, FourSymbols
  <2> QED
    BY <2>1, Zenon DEF PartsOfFour, Bytes
<1>3. << >> \in Bytes
  BY DEF Bytes
<1>4. /\ Hex(s, toks, << >>) \in Reader /\ Hex(s, toks, x1) \in Reader
      /\ Hex(s, toks, x2) \in Reader /\ Hex(s, toks, x3) \in Reader
  BY <1>3, ReaderTypes
<1>5. 1 < 4 /\ 2 < 4 /\ 3 < 4 /\ ~ (4 < 4)
  OBVIOUS
<1>6. StepOver(Hex(s, toks, << >>), a) = Hex(s, toks, x1)
  BY <1>2, <1>5, OverHex, Zenon
<1>7. StepOver(Hex(s, toks, x1), b) = Hex(s, toks, x2)
  BY <1>2, <1>5, OverHex, Zenon
<1>8. StepOver(Hex(s, toks, x2), c) = Hex(s, toks, x3)
  BY <1>2, <1>5, OverHex, Zenon
<1>9. StepOver(Hex(s, toks, x3), d) = Saying(Hex(s, toks, x3), Symbol[x4])
  BY <1>2, <1>5, OverHex, Zenon
<1>10. Saying(Hex(s, toks, x3), Symbol[x4]) = Saying(In(s, toks), Symbol[x4])
  BY DEF Saying, Hex, In
<1>11. Run(Hex(s, toks, << >>), x4) = Run(Hex(s, toks, x1), y3)
  <2>1. x4 = <<a>> \o y3
    BY <1>2
  <2> QED
    BY <1>1, <1>4, <1>6, <2>1, RunPutBefore
<1>12. Run(Hex(s, toks, x1), y3) = Run(Hex(s, toks, x2), y2)
  <2>1. y3 = <<b>> \o y2
    BY <1>2
  <2> QED
    BY <1>1, <1>4, <1>7, <2>1, RunPutBefore
<1>13. Run(Hex(s, toks, x2), y2) = Run(Hex(s, toks, x3), y1)
  <2>1. y2 = <<c>> \o y1
    BY <1>2
  <2> QED
    BY <1>1, <1>4, <1>8, <2>1, RunPutBefore
<1>14. Run(Hex(s, toks, x3), y1) = StepOver(Hex(s, toks, x3), d)
  BY <1>1, <1>2, <1>4, RunOne, Zenon
<1> QED
  BY <1>2, <1>9, <1>10, <1>11, <1>12, <1>13, <1>14, Zenon

\* The codes that are written for a symbol.
Codes == {<<"0", "0", "6", "1">>, <<"0", "0", "5", "c">>, <<"0", "0", "0", "1">>, <<"0", "0", "1", "f">>}

\* A symbol by its code, behind a backslash.
LEMMA RunUnicode ==
  ASSUME NEW s \in Bytes, NEW toks \in Tokens, NEW code \in Codes
  PROVE  /\ code \in Bytes /\ <<"u">> \o code \in Bytes
         /\ Run(Behind(s, toks), <<"u">> \o code) = Saying(In(s, toks), Symbol[code])
<1>1. code \in DOMAIN Symbol
  BY SymbolFacts DEF Codes
<1>2. \A x \in {"0", "6", "1", "5", "c", "f"} : x \in Digits
  BY DEF Digits
<1>3. code \in Bytes /\ Run(Hex(s, toks, << >>), code) = Saying(In(s, toks), Symbol[code])
  <2>1. "0" \in Digits /\ "1" \in Digits /\ "5" \in Digits /\ "6" \in Digits /\ "c" \in Digits /\ "f" \in Digits
    BY <1>2
  <2>2. CASE code = <<"0", "0", "6", "1">>
    <3>1. <<"0", "0", "6", "1">> \in DOMAIN Symbol
      BY <1>1, <2>2
    <3>2. /\ <<"0", "0", "6", "1">> \in Bytes
          /\ Run(Hex(s, toks, << >>), <<"0", "0", "6", "1">>)
               = Saying(In(s, toks), Symbol[<<"0", "0", "6", "1">>])
      BY <2>1, <3>1, RunCode
    <3> QED
      BY <2>2, <3>2, Zenon
  <2>3. CASE code = <<"0", "0", "5", "c">>
    <3>1. <<"0", "0", "5", "c">> \in DOMAIN Symbol
      BY <1>1, <2>3
    <3>2. /\ <<"0", "0", "5", "c">> \in Bytes
          /\ Run(Hex(s, toks, << >>), <<"0", "0", "5", "c">>)
               = Saying(In(s, toks), Symbol[<<"0", "0", "5", "c">>])
      BY <2>1, <3>1, RunCode
    <3> QED
      BY <2>3, <3>2, Zenon
  <2>4. CASE code = <<"0", "0", "0", "1">>
    <3>1. <<"0", "0", "0", "1">> \in DOMAIN Symbol
      BY <1>1, <2>4
    <3>2. /\ <<"0", "0", "0", "1">> \in Bytes
          /\ Run(Hex(s, toks, << >>), <<"0", "0", "0", "1">>)
               = Saying(In(s, toks), Symbol[<<"0", "0", "0", "1">>])
      BY <2>1, <3>1, RunCode
    <3> QED
      BY <2>4, <3>2, Zenon
  <2>5. CASE code = <<"0", "0", "1", "f">>
    <3>1. <<"0", "0", "1", "f">> \in DOMAIN Symbol
      BY <1>1, <2>5
    <3>2. /\ <<"0", "0", "1", "f">> \in Bytes
          /\ Run(Hex(s, toks, << >>), <<"0", "0", "1", "f">>)
               = Saying(In(s, toks), Symbol[<<"0", "0", "1", "f">>])
      BY <2>1, <3>1, RunCode
    <3> QED
      BY <2>5, <3>2, Zenon
  <2> QED
    BY <2>2, <2>3, <2>4, <2>5, Zenon DEF Codes
<1>4. "u" \in Symbols /\ Behind(s, toks) \in Reader
  BY NamedSymbols, ReaderTypes
<1>5. StepOver(Behind(s, toks), "u") = Hex(s, toks, << >>)
  BY OverBehind
<1>6. <<"u">> \o code \in Bytes /\ Run(Behind(s, toks), <<"u">> \o code) = Run(Hex(s, toks, << >>), code)
  BY <1>3, <1>4, <1>5, RunPutBefore
<1> QED
  BY <1>3, <1>6

\* The text around an escape may be joined in either order.
EscapeBetween(u, code, t) ==
  /\ u \o <<"\\", "u">> \o code \o t = u \o ((<<"\\">> \o (<<"u">> \o code)) \o t)
  /\ u \o <<"u">> \o code \o t = u \o ((<<"u">> \o code) \o t)

LEMMA EscapeJoined ==
  ASSUME NEW u \in Bytes, NEW code \in Bytes, NEW t \in Bytes
  PROVE  EscapeBetween(u, code, t)
<1>1. PICK p, q \in Seq(Symbols) : p = <<"\\">> /\ q = <<"u">>
  <2>1. "\\" \in Symbols /\ "u" \in Symbols
    BY NamedSymbols
  <2> QED
    BY <2>1, Joining
<1>2. <<"\\", "u">> = p \o q
  <2>1. <<"\\", "u">> = <<"\\">> \o <<"u">>
    BY TwoSymbols
  <2> QED
    BY <1>1, <2>1, Zenon
<1>3. p \in Bytes /\ q \in Bytes
  BY DEF Bytes
<1>4. ((u \o q) \o code) \o t = u \o ((q \o code) \o t)
  <2>1. Cat(Cat(Cat(u, q), code), t) = Cat(u, Cat(Cat(q, code), t))
    BY <1>3, CatBytes
  <2> QED
    BY <2>1 DEF Cat
<1>5. ((u \o (p \o q)) \o code) \o t = u \o ((p \o (q \o code)) \o t)
  <2>1. Cat(Cat(Cat(u, Cat(p, q)), code), t) = Cat(u, Cat(Cat(p, Cat(q, code)), t))
    BY <1>3, CatBytes
  <2> QED
    BY <2>1 DEF Cat
<1> QED
  BY <1>1, <1>2, <1>4, <1>5, Zenon DEF EscapeBetween

\* An a in a string may be written by its code.
LEMMA LetterEscaped ==
  ASSUME NEW toks \in Tokens, NEW text \in Bytes, Accepts(toks, text), NEW i \in 1 .. Len(text),
         text[i] = "a", AfterIn(text)[i - 1] = "in"
  PROVE  LET new == SubSeq(text, 1, i - 1) \o <<"\\", "u">> \o Code["a"] \o Drop(text, i)
         IN  new \in Bytes /\ Accepts(toks, new)
<1>1. PICK u, t \in Bytes :
        /\ u = SubSeq(text, 1, i - 1) /\ t = Drop(text, i) /\ SubSeq(text, i, Len(text)) = <<text[i]>> \o t
        /\ text[i] \in Symbols /\ <<text[i]>> \o t \in Bytes
        /\ text = u \o (<<text[i]>> \o t)
        /\ LET k == Run(Out(toks), u)
           IN  /\ k \in Reader /\ AfterIn(text)[i - 1] = Shown(k.mode) /\ k.mode # "bad"
               /\ StepOver(k, text[i]).mode # "bad"
  BY CutAccepted
<1>2. PICK k \in Reader : k = Run(Out(toks), u) /\ Shown(k.mode) = "in" /\ StepOver(k, "a").mode # "bad"
  BY <1>1
<1>3. "a" \notin Digits /\ "a" # "\\" /\ "a" # "\"" /\ "\\" # "\""
  BY DEF Digits
<1>4. k.mode = "in"
  <2>1. CASE k.mode = "hex"
    <3>1. StepOver(k, "a") = Unexpected
      BY <1>3, <2>1 DEF StepOver, StepHex
    <3> QED
      BY <1>2, <3>1 DEF Unexpected
  <2> QED
    BY <1>2, <2>1 DEF Shown
<1>5. k.text \in Bytes /\ k.toks \in Tokens
  BY DEF Reader
<1>6. StepOver(k, "a") = Saying(k, "a") /\ StepOver(k, "\\") = Behind(k.text, k.toks)
  BY <1>3, <1>4 DEF StepOver, StepIn
<1>7. Saying(k, "a") = Saying(In(k.text, k.toks), "a")
  BY DEF Saying, In
<1>8. PICK code \in Codes : code = Code["a"] /\ Symbol[code] = "a"
  BY SymbolFacts DEF Code, Codes
<1>9. PICK x \in Bytes : /\ x = <<"u">> \o code /\ code \in Bytes
                         /\ Run(Behind(k.text, k.toks), x) = Saying(In(k.text, k.toks), "a")
  <2>1. /\ code \in Bytes /\ <<"u">> \o code \in Bytes
        /\ Run(Behind(k.text, k.toks), <<"u">> \o code) = Saying(In(k.text, k.toks), Symbol[code])
    BY <1>5, RunUnicode
  <2> QED
    BY <1>8, <2>1, Zenon
<1>10. PICK y \in Bytes : y = <<"\\">> \o x /\ Run(k, y) = Saying(k, "a")
  <2>1. "\\" \in Symbols
    BY NamedSymbols
  <2>2. <<"\\">> \o x \in Bytes /\ Run(k, <<"\\">> \o x) = Run(Behind(k.text, k.toks), x)
    BY <1>6, <2>1, RunPutBefore
  <2> QED
    BY <1>7, <1>9, <2>2
<1>11. PICK v \in Bytes : v = <<"a">> /\ Run(k, v) = Saying(k, "a")
  <2>1. <<"a">> \in Bytes /\ Run(k, <<"a">>) = StepOver(k, "a")
    BY <1>1, RunOne
  <2> QED
    BY <1>6, <2>1
<1>12. u \o (y \o t) \in Bytes /\ Accepts(toks, u \o (y \o t))
  <2>1. Accepts(toks, u \o (v \o t))
    BY <1>1, <1>11
  <2> QED
    BY <1>2, <1>10, <1>11, <2>1, OtherPart
<1>13. SubSeq(text, 1, i - 1) \o <<"\\", "u">> \o Code["a"] \o Drop(text, i) = u \o (y \o t)
  <2>1. u \o <<"\\", "u">> \o code \o t = u \o ((<<"\\">> \o (<<"u">> \o code)) \o t)
    <3>1. EscapeBetween(u, code, t)
      BY <1>9, EscapeJoined, Zenon
    <3> QED
      BY <3>1, Zenon DEF EscapeBetween
  <2> QED
    BY <1>1, <1>8, <1>9, <1>10, <2>1, Zenon
<1> QED
  BY <1>12, <1>13

\* The second backslash of an escaped one may be written by its code.
LEMMA BackslashEscaped ==
  ASSUME NEW toks \in Tokens, NEW text \in Bytes, Accepts(toks, text), NEW i \in 1 .. Len(text),
         text[i] = "\\", AfterIn(text)[i - 1] = "escaped"
  PROVE  LET new == SubSeq(text, 1, i - 1) \o <<"u">> \o Code["\\"] \o Drop(text, i)
         IN  new \in Bytes /\ Accepts(toks, new)
<1>1. PICK u, t \in Bytes :
        /\ u = SubSeq(text, 1, i - 1) /\ t = Drop(text, i) /\ SubSeq(text, i, Len(text)) = <<text[i]>> \o t
        /\ text[i] \in Symbols /\ <<text[i]>> \o t \in Bytes
        /\ text = u \o (<<text[i]>> \o t)
        /\ LET k == Run(Out(toks), u)
           IN  /\ k \in Reader /\ AfterIn(text)[i - 1] = Shown(k.mode) /\ k.mode # "bad"
               /\ StepOver(k, text[i]).mode # "bad"
  BY CutAccepted
<1>2. PICK k \in Reader : k = Run(Out(toks), u) /\ Shown(k.mode) = "escaped"
  BY <1>1
<1>3. k.mode = "escaped"
  BY <1>2 DEF Shown
<1>4. k.text \in Bytes /\ k.toks \in Tokens
  BY DEF Reader
<1>5. StepOver(k, "\\") = Saying(k, "\\") /\ StepOver(k, "u") = Hex(k.text, k.toks, << >>)
  <2>1. "\\" \in DOMAIN Unshort /\ Unshort["\\"] = "\\" /\ "\\" # "u"
    BY UnshortFacts
  <2> QED
    BY <1>3, <2>1 DEF StepOver, StepBehind
<1>6. Saying(k, "\\") = Saying(In(k.text, k.toks), "\\")
  BY DEF Saying, In
<1>7. PICK code \in Codes : code = Code["\\"] /\ Symbol[code] = "\\"
  BY SymbolFacts DEF Code, Codes
<1>8. PICK y \in Bytes : /\ y = <<"u">> \o code /\ code \in Bytes
                         /\ Run(Behind(k.text, k.toks), y) = Saying(In(k.text, k.toks), "\\")
  <2>1. /\ code \in Bytes /\ <<"u">> \o code \in Bytes
        /\ Run(Behind(k.text, k.toks), <<"u">> \o code) = Saying(In(k.text, k.toks), Symbol[code])
    BY <1>4, RunUnicode
  <2> QED
    BY <1>7, <2>1, Zenon
<1>9. Run(k, y) = Saying(k, "\\")
  <2>1. "u" \in Symbols /\ Behind(k.text, k.toks) \in Reader
    BY <1>4, NamedSymbols, ReaderTypes
  <2>2. StepOver(Behind(k.text, k.toks), "u") = StepOver(k, "u")
    BY <1>5, OverBehind
  <2> QED
    BY <1>6, <1>8, <2>1, <2>2, RunPutBefore
<1>10. PICK v \in Bytes : v = <<"\\">> /\ Run(k, v) = Saying(k, "\\")
  <2>1. <<"\\">> \in Bytes /\ Run(k, <<"\\">>) = StepOver(k, "\\")
    BY <1>1, RunOne
  <2> QED
    BY <1>5, <2>1
<1>11. u \o (y \o t) \in Bytes /\ Accepts(toks, u \o (y \o t))
  <2>1. Accepts(toks, u \o (v \o t))
    BY <1>1, <1>10
  <2> QED
    BY <1>2, <1>9, <1>10, <2>1, OtherPart
<1>12. SubSeq(text, 1, i - 1) \o <<"u">> \o Code["\\"] \o Drop(text, i) = u \o (y \o t)
  <2>1. u \o <<"u">> \o code \o t = u \o ((<<"u">> \o code) \o t)
    <3>1. EscapeBetween(u, code, t)
      BY <1>8, EscapeJoined, Zenon
    <3> QED
      BY <3>1, Zenon DEF EscapeBetween
  <2> QED
    BY <1>1, <1>7, <1>8, <2>1, Zenon
<1> QED
  BY <1>11, <1>12

-----------------------------------------------------------------------------
(* The tokens that a text is written with.                                 *)

\* Whatever tokens follow, the reader is through with these behind the text.
Writes(text, toks) ==
  /\ text \in Bytes /\ toks \in Tokens
  /\ \A more \in Tokens : Run(Out(toks \o more), text) = Out(more)

LEMMA JoiningTokens ==
  /\ << >> \in Tokens
  /\ \A t \in Tokens : t \o << >> = t /\ << >> \o t = t
  /\ \A t, u \in Tokens : t \o u \in Tokens
  /\ \A t, u, w \in Tokens : (t \o u) \o w = t \o (u \o w)
BY Joining DEF Tokens

\* A token before others.
LEMMA TokenFirst ==
  ASSUME NEW t \in [type : {"mark", "string"}, text : Bytes], NEW toks \in Tokens
  PROVE  /\ <<t>> \in Tokens /\ <<t>> \o toks \in Tokens /\ <<t>> \o toks # << >>
         /\ Head(<<t>> \o toks) = t /\ Tail(<<t>> \o toks) = toks
BY PutBefore, Joining DEF Tokens

LEMMA WritesNone == Writes(<< >>, << >>)
<1>1. << >> \in Bytes /\ << >> \in Tokens
  BY JoiningTokens DEF Bytes
<1>2. ASSUME NEW more \in Tokens PROVE Run(Out(<< >> \o more), << >>) = Out(more)
  <2>1. << >> \o more = more
    BY JoiningTokens
  <2> QED
    BY <2>1, RunNone, ReaderTypes
<1> QED
  BY <1>1, <1>2 DEF Writes

LEMMA WritesMark ==
  ASSUME NEW c \in Symbols, c \notin Blank, c # "\""
  PROVE  Writes(<<c>>, <<Mark(c)>>)
<1>1. <<c>> \in Bytes /\ <<Mark(c)>> \in Tokens
  BY TokensFacts, Joining DEF Bytes, Tokens
<1>2. ASSUME NEW more \in Tokens PROVE Run(Out(<<Mark(c)>> \o more), <<c>>) = Out(more)
  <2>1. PICK k \in Tokens : k = <<Mark(c)>> \o more /\ k # << >> /\ Head(k) = Mark(c) /\ Tail(k) = more
    BY TokensFacts, TokenFirst
  <2>2. StepOver(Out(k), c) = Out(more)
    BY <2>1 DEF StepOver, StepOut, Out
  <2>3. Run(Out(k), <<c>>) = StepOver(Out(k), c)
    BY RunOne, ReaderTypes
  <2> QED
    BY <2>1, <2>2, <2>3
<1> QED
  BY <1>1, <1>2 DEF Writes

LEMMA WritesConcat ==
  ASSUME NEW u, NEW t, NEW v, NEW w, Writes(u, t), Writes(v, w)
  PROVE  Writes(u \o v, t \o w)
<1>1. u \in Bytes /\ v \in Bytes /\ t \in Tokens /\ w \in Tokens
  BY DEF Writes
<1>2. u \o v \in Bytes /\ t \o w \in Tokens
  BY <1>1, JoiningTokens, Joining DEF Bytes
<1>3. ASSUME NEW more \in Tokens PROVE Run(Out((t \o w) \o more), u \o v) = Out(more)
  <2>1. (t \o w) \o more = t \o (w \o more) /\ w \o more \in Tokens
    BY <1>1, JoiningTokens
  <2>2. PICK rest \in Tokens : rest = w \o more
    BY <2>1
  <2>3. t \o rest \in Tokens
    BY <1>1, JoiningTokens
  <2>4. Run(Out(t \o rest), u \o v) = Run(Run(Out(t \o rest), u), v)
    BY <1>1, <2>3, RunConcat, ReaderTypes
  <2>5. Run(Out(t \o rest), u) = Out(rest)
    BY DEF Writes
  <2>6. Run(Out(rest), v) = Out(more)
    BY <2>2 DEF Writes
  <2> QED
    BY <2>1, <2>2, <2>4, <2>5, <2>6
<1> QED
  BY <1>2, <1>3 DEF Writes

\* A text is accepted as the tokens that it is written with.
LEMMA WrittenIsAccepted ==
  ASSUME NEW text, NEW toks, Writes(text, toks)
  PROVE  text \in Bytes /\ toks \in Tokens /\ Accepts(toks, text)
<1>1. text \in Bytes /\ toks \in Tokens /\ << >> \in Tokens /\ toks \o << >> = toks
  BY JoiningTokens DEF Writes
<1>2. Run(Out(toks \o << >>), text) = Out(<< >>)
  BY <1>1 DEF Writes
<1> QED
  BY <1>1, <1>2 DEF Accepts

LEMMA ShortFacts ==
  \A c \in DOMAIN Short : /\ Short[c] \in Symbols /\ Short[c] \in DOMAIN Unshort
                          /\ Unshort[Short[c]] = c /\ Short[c] # "u"
BY SymbolsAssumption, ZenonT(40) DEF Short, Unshort, Named

LEMMA ControlFacts ==
  /\ DOMAIN Control = {"SOH", "US"}
  /\ Control["SOH"] = <<"0", "1">> /\ Control["US"] = <<"1", "f">>
BY DEF Control

LEMMA SayingFirst ==
  ASSUME NEW c \in Symbols, NEW s \in Bytes, NEW toks, NEW k, k.text = <<c>> \o s, k.toks = toks
  PROVE  Saying(k, c) = In(s, toks)
<1>1. <<c>> \o s # << >> /\ Head(<<c>> \o s) = c /\ Tail(<<c>> \o s) = s
  BY PutBefore DEF Bytes
<1> QED
  BY <1>1 DEF Saying

\* What is written for a control byte: a backslash, a u and the code.
LEMMA ControlEscaped ==
  ASSUME NEW c \in DOMAIN Control
  PROVE  \E code \in Codes : Symbol[code] = c /\ Escaped(c) = <<"\\">> \o (<<"u">> \o code)
<1>1. Escaped(c) = <<"\\", "u", "0", "0">> \o Control[c]
  <2>1. c \notin DOMAIN Short
    BY ControlFacts DEF Short
  <2> QED
    BY <2>1, Zenon DEF Escaped
<1>2. \A x, y \in Symbols : <<"\\", "u", "0", "0">> \o <<x, y>> = <<"\\">> \o (<<"u">> \o <<"0", "0", x, y>>)
  <2> SUFFICES ASSUME NEW x \in Symbols, NEW y \in Symbols
               PROVE  <<"\\", "u", "0", "0">> \o <<x, y>> = <<"\\">> \o (<<"u">> \o <<"0", "0", x, y>>)
    OBVIOUS
  <2>1. PICK a, b, o \in Symbols : a = "\\" /\ b = "u" /\ o = "0"
    BY NamedSymbols
  <2>2. <<a, b, o, o>> \o <<x, y>> = <<a>> \o (<<b>> \o <<o, o, x, y>>)
    <3>1. /\ <<a, b, o, o>> \in Seq(Symbols) /\ <<x, y>> \in Seq(Symbols) /\ <<a>> \in Seq(Symbols)
          /\ <<b>> \in Seq(Symbols) /\ <<o, o, x, y>> \in Seq(Symbols)
      OBVIOUS
    <3>2. PICK l \in Seq(Symbols) : l = <<a, b, o, o>> \o <<x, y>>
      <4>1. <<a, b, o, o>> \o <<x, y>> \in Seq(Symbols)
        BY <3>1
      <4> QED
        BY <4>1, Zenon
    <3>3. PICK q \in Seq(Symbols) : q = <<b>> \o <<o, o, x, y>>
      <4>1. <<b>> \o <<o, o, x, y>> \in Seq(Symbols)
        BY <3>1
      <4> QED
        BY <4>1, Zenon
    <3>4. PICK r \in Seq(Symbols) : r = <<a>> \o q
      <4>1. <<a>> \o q \in Seq(Symbols)
        BY <3>1
      <4> QED
        BY <4>1, Zenon
    <3>5. Len(l) = 6 /\ l[1] = a /\ l[2] = b /\ l[3] = o /\ l[4] = o /\ l[5] = x /\ l[6] = y
      BY <3>1, <3>2
    <3>6. Len(q) = 5 /\ q[1] = b /\ q[2] = o /\ q[3] = o /\ q[4] = x /\ q[5] = y
      BY <3>1, <3>3
    <3>7. Len(r) = 6 /\ r[1] = a /\ r[2] = b /\ r[3] = o /\ r[4] = o /\ r[5] = x /\ r[6] = y
      <4>1. PICK h \in Seq(Symbols) : h = <<a>> /\ Len(h) = 1 /\ h[1] = a
        BY <3>1
      <4>2. /\ Len(h \o q) = Len(h) + Len(q)
            /\ \A n \in 1 .. Len(h) + Len(q) : (h \o q)[n] = IF n <= Len(h) THEN h[n] ELSE q[n - Len(h)]
        BY ConcatProperties
      <4>3. Len(r) = 6 /\ \A n \in 1 .. 6 : r[n] = IF n <= 1 THEN h[n] ELSE q[n - 1]
        BY <3>4, <3>6, <4>1, <4>2
      <4>4. r[1] = h[1] /\ r[2] = q[1] /\ r[3] = q[2] /\ r[4] = q[3] /\ r[5] = q[4] /\ r[6] = q[5]
        BY <4>3
      <4> QED
        BY <3>6, <4>1, <4>3, <4>4
    <3>8. l = r
      <4>1. \A n \in 1 .. 6 : n = 1 \/ n = 2 \/ n = 3 \/ n = 4 \/ n = 5 \/ n = 6
        OBVIOUS
      <4>2. \A n \in 1 .. 6 : l[n] = r[n]
        BY <3>5, <3>7, <4>1, Zenon
      <4> QED
        BY <3>5, <3>7, <4>2, SeqEqual
    <3> QED
      BY <3>2, <3>3, <3>4, <3>8
  <2> QED
    BY <2>1, <2>2, Zenon
<1>3. CASE c = "SOH"
  <2>1. <<"\\", "u", "0", "0">> \o <<"0", "1">> = <<"\\">> \o (<<"u">> \o <<"0", "0", "0", "1">>)
    BY <1>2, NamedSymbols, Zenon
  <2>2. <<"0", "0", "0", "1">> \in Codes /\ Symbol[<<"0", "0", "0", "1">>] = "SOH"
    BY SymbolFacts, Zenon DEF Codes
  <2> QED
    BY <1>1, <1>3, <2>1, <2>2, ControlFacts, Zenon
<1>4. CASE c = "US"
  <2>1. <<"\\", "u", "0", "0">> \o <<"1", "f">> = <<"\\">> \o (<<"u">> \o <<"0", "0", "1", "f">>)
    BY <1>2, NamedSymbols, Zenon
  <2>2. <<"0", "0", "1", "f">> \in Codes /\ Symbol[<<"0", "0", "1", "f">>] = "US"
    BY SymbolFacts, Zenon DEF Codes
  <2> QED
    BY <1>1, <1>4, <2>1, <2>2, ControlFacts, Zenon
<1> QED
  BY <1>3, <1>4, ControlFacts

\* The reader goes over what is written for a byte as over the byte it is told of.
LEMMA RunEscaped ==
  ASSUME NEW c \in Symbols, NEW s \in Bytes, NEW toks \in Tokens
  PROVE  Escaped(c) \in Bytes /\ Run(In(<<c>> \o s, toks), Escaped(c)) = In(s, toks)
<1>1. PICK x \in Bytes : x = <<c>> \o s
  BY PutBefore DEF Bytes
<1>2. In(x, toks) \in Reader /\ Behind(x, toks) \in Reader
  BY ReaderTypes
<1>3. /\ Saying(In(x, toks), c) = In(s, toks)
      /\ Saying(Behind(x, toks), c) = In(s, toks)
  <2>1. /\ In(x, toks).text = x /\ In(x, toks).toks = toks
        /\ Behind(x, toks).text = x /\ Behind(x, toks).toks = toks
    BY DEF In, Behind
  <2>2. PICK k : k = In(x, toks)
    OBVIOUS
  <2>3. PICK l : l = Behind(x, toks)
    OBVIOUS
  <2>4. Saying(k, c) = In(s, toks)
    <3>1. k.text = <<c>> \o s /\ k.toks = toks
      BY <1>1, <2>1, <2>2, Zenon
    <3> QED
      BY <3>1, SayingFirst
  <2>5. Saying(l, c) = In(s, toks)
    <3>1. l.text = <<c>> \o s /\ l.toks = toks
      BY <1>1, <2>1, <2>3, Zenon
    <3> QED
      BY <3>1, SayingFirst
  <2> QED
    BY <2>2, <2>3, <2>4, <2>5
<1>4. StepOver(In(x, toks), "\\") = Behind(x, toks) /\ "\\" \in Symbols
  BY OverIn, NamedSymbols
<1>5. CASE c \in DOMAIN Short
  <2>1. PICK l \in Symbols : l = Short[c] /\ l \in DOMAIN Unshort /\ Unshort[l] = c /\ l # "u"
    BY <1>5, ShortFacts
  <2>2. StepOver(Behind(x, toks), l) = In(s, toks)
    BY <1>3, <2>1, OverBehind
  <2>3. PICK b \in Symbols : b = "\\"
    BY <1>4
  <2>4. <<b, l>> = <<b>> \o <<l>>
    BY TwoSymbols
  <2>5. <<l>> \in Bytes /\ Run(Behind(x, toks), <<l>>) = In(s, toks)
    BY <1>2, <2>2, RunOne
  <2>6. <<b>> \o <<l>> \in Bytes /\ Run(In(x, toks), <<b>> \o <<l>>) = In(s, toks)
    <3>1. StepOver(In(x, toks), b) = Behind(x, toks)
      BY <1>4, <2>3, Zenon
    <3> QED
      BY <1>2, <2>5, <3>1, RunPutBefore
  <2>7. Escaped(c) = <<b, l>>
    BY <1>5, <2>1, <2>3, Zenon DEF Escaped
  <2> QED
    BY <1>1, <2>4, <2>6, <2>7, Zenon
<1>6. CASE c \in DOMAIN Control
  <2>1. PICK code \in Codes : Symbol[code] = c /\ Escaped(c) = <<"\\">> \o (<<"u">> \o code)
    BY <1>6, ControlEscaped
  <2>2. PICK y \in Bytes : y = <<"u">> \o code /\ Run(Behind(x, toks), y) = Saying(In(x, toks), c)
    BY <2>1, RunUnicode
  <2>3. <<"\\">> \o y \in Bytes /\ Run(In(x, toks), <<"\\">> \o y) = Run(Behind(x, toks), y)
    BY <1>2, <1>4, RunPutBefore
  <2> QED
    BY <1>1, <1>3, <2>1, <2>2, <2>3, Zenon
<1>7. CASE c \notin DOMAIN Short /\ c \notin DOMAIN Control
  <2>1. Escaped(c) = <<c>>
    BY <1>7, Zenon DEF Escaped
  <2>2. c # "\"" /\ c # "\\"
    BY <1>7 DEF Short
  <2>3. StepOver(In(x, toks), c) = In(s, toks)
    BY <1>3, <2>2, OverIn
  <2> QED
    BY <1>1, <1>2, <2>1, <2>3, RunOne
<1> QED
  BY <1>5, <1>6, <1>7

\* What a string holds, escaped byte by byte.
Spelled(s) == [i \in DOMAIN s |-> Escaped(s[i])]

LEMMA EscapedIsBytes == \A c \in Symbols : Escaped(c) \in Bytes
BY RunEscaped, JoiningTokens, << >> \in Bytes DEF Bytes

LEMMA SpelledFirst ==
  ASSUME NEW c \in Symbols, NEW t \in Bytes
  PROVE  /\ Spelled(t) \in Seq(Bytes) /\ Spelled(<<c>> \o t) \in Seq(Bytes) /\ Spelled(<<c>> \o t) # << >>
         /\ Head(Spelled(<<c>> \o t)) = Escaped(c) /\ Tail(Spelled(<<c>> \o t)) = Spelled(t)
<1>1. ASSUME NEW s \in Bytes
      PROVE  /\ Spelled(s) \in Seq(Bytes) /\ Len(Spelled(s)) = Len(s)
             /\ \A i \in 1 .. Len(s) : Spelled(s)[i] = Escaped(s[i])
  <2>1. s \in Seq(Symbols) /\ Len(s) \in Nat /\ DOMAIN s = 1 .. Len(s) /\ \A i \in 1 .. Len(s) : s[i] \in Symbols
    BY DEF Bytes
  <2>2. \A i \in 1 .. Len(s) : Escaped(s[i]) \in Bytes
    BY <2>1, EscapedIsBytes
  <2>3. Spelled(s) = [i \in 1 .. Len(s) |-> Escaped(s[i])]
    BY <2>1 DEF Spelled
  <2> QED
    BY <2>1, <2>2, <2>3
<1>2. PICK s \in Bytes :
        /\ s = <<c>> \o t /\ Len(s) = Len(t) + 1 /\ Len(t) \in Nat
        /\ s[1] = c /\ \A i \in 1 .. Len(t) : s[i + 1] = t[i]
  <2>1. <<c>> \in Seq(Symbols) /\ Len(<<c>>) = 1 /\ <<c>>[1] = c /\ t \in Seq(Symbols)
    BY DEF Bytes
  <2>2. PICK h \in Seq(Symbols) : h = <<c>> /\ Len(h) = 1 /\ h[1] = c
    BY <2>1
  <2>3. /\ h \o t \in Seq(Symbols) /\ Len(h \o t) = Len(h) + Len(t) /\ Len(t) \in Nat
        /\ \A n \in 1 .. Len(h) + Len(t) : (h \o t)[n] = IF n <= Len(h) THEN h[n] ELSE t[n - Len(h)]
    BY <2>1, ConcatProperties
  <2>4. PICK s \in Seq(Symbols) : s = h \o t
    BY <2>3
  <2>5. Len(s) = Len(t) + 1 /\ s[1] = c /\ \A i \in 1 .. Len(t) : s[i + 1] = t[i]
    BY <2>2, <2>3, <2>4
  <2> QED
    BY <2>2, <2>3, <2>4, <2>5 DEF Bytes
<1>3. PICK p \in Seq(Bytes) : p = Spelled(s) /\ Len(p) = Len(s) /\ \A i \in 1 .. Len(s) : p[i] = Escaped(s[i])
  BY <1>1
<1>4. PICK q \in Seq(Bytes) : q = Spelled(t) /\ Len(q) = Len(t) /\ \A i \in 1 .. Len(t) : q[i] = Escaped(t[i])
  BY <1>1
<1>5. /\ p # << >> /\ Head(p) = p[1] /\ Tail(p) \in Seq(Bytes) /\ Len(Tail(p)) = Len(t)
      /\ \A i \in 1 .. Len(t) : Tail(p)[i] = p[i + 1]
  BY <1>2, <1>3
<1>6. Head(p) = Escaped(c)
  <2>1. 1 \in 1 .. Len(s)
    BY <1>2
  <2> QED
    BY <1>2, <1>3, <1>5, <2>1, Zenon
<1>7. \A i \in 1 .. Len(t) : Tail(p)[i] = q[i]
  <2> SUFFICES ASSUME NEW i \in 1 .. Len(t) PROVE Tail(p)[i] = q[i]
    OBVIOUS
  <2>1. i + 1 \in 1 .. Len(s)
    BY <1>2
  <2>2. Tail(p)[i] = p[i + 1] /\ p[i + 1] = Escaped(s[i + 1]) /\ s[i + 1] = t[i] /\ q[i] = Escaped(t[i])
    BY <1>2, <1>3, <1>4, <1>5, <2>1, Zenon
  <2> QED
    BY <2>2, Zenon
<1>8. Tail(p) = q
  BY <1>4, <1>5, <1>7, SeqEqual
<1> QED
  BY <1>2, <1>3, <1>4, <1>5, <1>6, <1>8

LEMMA RunSpelled ==
  \A s \in Bytes : /\ FlattenSeq(Spelled(s)) \in Bytes
                   /\ \A toks \in Tokens : Run(In(s, toks), FlattenSeq(Spelled(s))) = In(<< >>, toks)
<1> DEFINE S == {s \in Bytes : /\ FlattenSeq(Spelled(s)) \in Bytes
                               /\ \A toks \in Tokens :
                                    Run(In(s, toks), FlattenSeq(Spelled(s))) = In(<< >>, toks)}
<1>1. << >> \in S
  <2>1. Spelled(<< >>) = << >> /\ << >> \in Bytes
    BY DEF Spelled, Bytes
  <2>2. FlattenSeq(Spelled(<< >>)) = << >>
    BY <2>1, FlattenNone
  <2> QED
    BY <2>1, <2>2, RunNone, ReaderTypes
<1>2. ASSUME NEW c \in Symbols, NEW t \in Bytes, t \in S PROVE <<c>> \o t \in S
  <2>1. PICK s \in Bytes : s = <<c>> \o t
    BY PutBefore DEF Bytes
  <2>2. PICK p \in Seq(Bytes) : p = Spelled(s) /\ p # << >> /\ Head(p) = Escaped(c) /\ Tail(p) = Spelled(t)
    BY <2>1, SpelledFirst
  <2>3. PICK u \in Bytes : u = Escaped(c)
    BY EscapedIsBytes
  <2>4. PICK v \in Bytes : v = FlattenSeq(Spelled(t)) /\ \A toks \in Tokens : Run(In(t, toks), v) = In(<< >>, toks)
    BY <1>2
  <2>5. FlattenSeq(p) = u \o v
    BY <2>2, <2>3, <2>4, FlattenFirst DEF Bytes
  <2>6. ASSUME NEW toks \in Tokens PROVE u \o v \in Bytes /\ Run(In(s, toks), u \o v) = In(<< >>, toks)
    <3>1. In(s, toks) \in Reader
      BY ReaderTypes
    <3>2. Run(In(s, toks), u) = In(t, toks)
      BY <2>1, <2>3, RunEscaped
    <3> QED
      BY <2>4, <3>1, <3>2, RunConcat
  <2>7. u \o v \in Bytes
    BY <2>6, JoiningTokens
  <2> HIDE DEF S
  <2>8. /\ FlattenSeq(Spelled(s)) \in Bytes
        /\ \A toks \in Tokens : Run(In(s, toks), FlattenSeq(Spelled(s))) = In(<< >>, toks)
    BY <2>2, <2>5, <2>6, <2>7
  <2> QED
    BY <2>1, <2>8 DEF S
<1>3. \A s \in Bytes : s \in S
  <2> HIDE DEF S
  <2> QED
    BY <1>1, <1>2, BytesInduction
<1> QED
  BY <1>3

\* A string is written with one token.
LEMMA WritesString == \A s \in Bytes : Writes(str(s), <<Quoted(s)>>)
<1> SUFFICES ASSUME NEW s \in Bytes PROVE Writes(str(s), <<Quoted(s)>>)
  OBVIOUS
<1>1. PICK v \in Bytes : v = FlattenSeq(Spelled(s)) /\ \A toks \in Tokens : Run(In(s, toks), v) = In(<< >>, toks)
  BY RunSpelled
<1>2. PICK q \in Bytes, c \in Symbols : c = "\"" /\ q = <<c>> /\ \A k \in Reader : Run(k, q) = StepOver(k, c)
  <2>1. PICK c \in Symbols : c = "\""
    BY NamedSymbols
  <2>2. <<c>> \in Bytes
    BY Joining DEF Bytes
  <2>3. \A k \in Reader : Run(k, <<c>>) = StepOver(k, c)
    BY RunOne
  <2> QED
    BY <2>1, <2>2, <2>3, Zenon
<1>3. str(s) = (q \o v) \o q
  BY <1>1, <1>2, Zenon DEF str, Spelled
<1>4. q \o v \in Bytes /\ (q \o v) \o q \in Bytes
  BY RunConcat, ReaderTypes
<1>5. ASSUME NEW more \in Tokens PROVE Run(Out(<<Quoted(s)>> \o more), (q \o v) \o q) = Out(more)
  <2>1. PICK k \in Tokens : k = <<Quoted(s)>> \o more /\ k # << >> /\ Head(k) = Quoted(s) /\ Tail(k) = more
    BY TokensFacts, TokenFirst
  <2>2. StepOver(Out(k), c) = In(s, more)
    <3>1. c = "\"" /\ c \notin Blank
      BY <1>2 DEF Blank
    <3>2. /\ Out(k).mode = "out" /\ Out(k).toks = k /\ Quoted(s).type = "string" /\ Quoted(s).text = s
      BY DEF Out, Quoted
    <3>3. StepOut(Out(k), c) = In(s, more)
      BY <2>1, <3>1, <3>2, Zenon DEF StepOut
    <3> QED
      BY <3>2, <3>3, Zenon DEF StepOver
  <2>3. StepOver(In(<< >>, more), c) = Out(more)
    BY <1>2, OverIn
  <2>4. Out(k) \in Reader /\ In(s, more) \in Reader /\ In(<< >>, more) \in Reader
    BY ReaderTypes, << >> \in Bytes DEF Bytes
  <2>5. Run(Out(k), (q \o v) \o q) = Run(Run(Run(Out(k), q), v), q)
    BY <1>4, <2>4, RunConcat
  <2>6. Run(Out(k), q) = In(s, more)
    BY <1>2, <2>2, <2>4, Zenon
  <2>7. Run(In(s, more), v) = In(<< >>, more)
    BY <1>1, Zenon
  <2>8. Run(In(<< >>, more), q) = Out(more)
    BY <1>2, <2>3, <2>4, Zenon
  <2> QED
    BY <2>1, <2>5, <2>6, <2>7, <2>8, Zenon
<1>6. <<Quoted(s)>> \in Tokens
  BY TokensFacts, Joining DEF Tokens
<1> QED
  BY <1>3, <1>4, <1>5, <1>6 DEF Writes

-----------------------------------------------------------------------------
(* parse, by its equation.                                                 *)

ParseBody(f, what) == IF what[1] = "members" THEN ObjectTail(f, what[2]) ELSE Value(f, what[2])

ParseDomain == {"value", "members"} \X Bytes

ParseLength(what) == Len(what[2])

Rests(what, r) == r.rest \in Bytes /\ Len(r.rest) <= Len(what[2])

Parsing == INSTANCE Recursion WITH
  Domain <- ParseDomain, Size <- ParseLength, Body <- ParseBody, Good <- Rests

\* What skipWS leaves of a text, and what is behind its first symbol.
LEMMA SkipFacts ==
  \A data \in Bytes :
    /\ skipWS[data] \in Bytes /\ Len(skipWS[data]) <= Len(data)
    /\ skipWS[skipWS[data]] = skipWS[data]
    /\ skipWS[data] # << >> => /\ Tail(skipWS[data]) \in Bytes
                               /\ Len(Tail(skipWS[data])) < Len(data)
<1> SUFFICES ASSUME NEW data \in Bytes
             PROVE  /\ skipWS[data] \in Bytes /\ Len(skipWS[data]) <= Len(data)
                    /\ skipWS[skipWS[data]] = skipWS[data]
                    /\ skipWS[data] # << >> => /\ Tail(skipWS[data]) \in Bytes
                                               /\ Len(Tail(skipWS[data])) < Len(data)
  OBVIOUS
<1>1. PICK d \in Bytes : d = skipWS[data] /\ Len(d) <= Len(data) /\ (d = << >> \/ Head(d) \notin Blank)
  BY SkipDefined DEF Skipped
<1>2. skipWS[d] = d
  BY <1>1, SkipDefined DEF SkipBody
<1>3. d # << >> => Tail(d) \in Bytes /\ Len(Tail(d)) < Len(data)
  BY <1>1 DEF Bytes
<1> QED
  BY <1>1, <1>2, <1>3

LEMMA ParseStringRests ==
  ASSUME NEW data \in Bytes
  PROVE  parseString(data).rest \in Bytes /\ Len(parseString(data).rest) <= Len(data)
<1>1. << >> \in Bytes /\ Len(<< >>) <= Len(data) /\ Len(data) \in Nat
  BY DEF Bytes
<1>2. Failed.rest = << >>
  BY DEF Failed, Read
<1>3. CASE Starts(skipWS[data], "\"")
  <2>1. PICK t \in Bytes : t = Tail(skipWS[data]) /\ Len(t) < Len(data)
    BY <1>3, SkipFacts DEF Starts
  <2>2. Found(t, StringTail[t])
    BY StringDefined
  <2>3. PICK r : r = StringTail[t]
    OBVIOUS
  <2>4. parseString(data) = r
    BY <1>3, <2>1, <2>3, Zenon DEF parseString
  <2>5. CASE r = Failed
    BY <1>1, <1>2, <2>4, <2>5
  <2>6. CASE r \in [type : {"string"}, value : Bytes, rest : Bytes] /\ Len(r.rest) < Len(t)
    <3>1. r.rest \in Bytes
      BY <2>6
    <3>2. Len(r.rest) <= Len(data)
      <4>1. Len(r.rest) \in Nat /\ Len(t) \in Nat
        BY <3>1 DEF Bytes
      <4> QED
        BY <1>1, <2>1, <2>6, <4>1
    <3> QED
      BY <2>4, <3>1, <3>2
  <2> QED
    BY <2>2, <2>3, <2>5, <2>6 DEF Found
<1>4. CASE ~ Starts(skipWS[data], "\"")
  <2>1. parseString(data) = Failed
    BY <1>4, ZenonT(40) DEF parseString
  <2> QED
    BY <1>1, <1>2, <2>1
<1> QED
  BY <1>3, <1>4

\* ObjectTail from its parts.
ColonIn(data) == skipWS[parseString(data).rest]

ValueIn(f, data) == f[<<"value", Tail(ColonIn(data))>>]

NextIn(f, data) == skipWS[ValueIn(f, data).rest]

OthersIn(f, data) == f[<<"members", skipWS[Tail(NextIn(f, data))]>>]

TailOf(named, colon, val, next, others) ==
  IF named = Failed \/ ~Starts(colon, ":") \/ val = Failed THEN Failed
  ELSE IF Starts(next, ",")
       THEN IF others = Failed THEN Failed
            ELSE Read("object", Joined(named.value, val, others.value), others.rest)
  ELSE IF Starts(next, "}") THEN Read("object", Joined(named.value, val, << >>), Tail(next))
       ELSE Failed

LEMMA ObjectTailIs ==
  ASSUME NEW f, NEW data
  PROVE  ObjectTail(f, data) =
           TailOf(parseString(data), ColonIn(data), ValueIn(f, data), NextIn(f, data), OthersIn(f, data))
BY DEF ObjectTail, TailOf, ColonIn, ValueIn, NextIn, OthersIn

LEMMA ObjectTailDescends ==
  ASSUME NEW data \in Bytes, NEW g, NEW h,
         \A y \in ParseDomain : ParseLength(y) < Len(data) => g[y] = h[y] /\ Rests(y, g[y])
  PROVE  /\ ObjectTail(g, data) = ObjectTail(h, data)
         /\ ObjectTail(g, data).rest \in Bytes /\ Len(ObjectTail(g, data).rest) <= Len(data)
<1>1. << >> \in Bytes /\ Len(<< >>) <= Len(data) /\ Len(data) \in Nat /\ \A t \in Bytes : Len(t) \in Nat
  BY DEF Bytes
<1>2. Failed.rest = << >> /\ \A a, b, c : Read(a, b, c).rest = c
  BY DEF Failed, Read
<1>3. PICK named : named = parseString(data) /\ named.rest \in Bytes /\ Len(named.rest) <= Len(data)
  BY ParseStringRests
<1>4. PICK colon \in Bytes :
        colon = ColonIn(data) /\ (colon # << >> => Tail(colon) \in Bytes /\ Len(Tail(colon)) < Len(named.rest))
  BY <1>3, SkipFacts DEF ColonIn
<1>5. PICK val : val = ValueIn(g, data) /\ val = g[<<"value", Tail(colon)>>]
  BY <1>4 DEF ValueIn
<1>6. PICK next : next = NextIn(g, data) /\ next = skipWS[val.rest]
  BY <1>5 DEF NextIn
<1>7. PICK others : others = OthersIn(g, data) /\ others = g[<<"members", skipWS[Tail(next)]>>]
  BY <1>6 DEF OthersIn
<1>8. PICK val2 : val2 = ValueIn(h, data) /\ val2 = h[<<"value", Tail(colon)>>]
  BY <1>4 DEF ValueIn
<1>9. PICK next2 : next2 = NextIn(h, data) /\ next2 = skipWS[val2.rest]
  BY <1>8 DEF NextIn
<1>10. PICK others2 : others2 = OthersIn(h, data) /\ others2 = h[<<"members", skipWS[Tail(next2)]>>]
  BY <1>9 DEF OthersIn
<1>11. ObjectTail(g, data) = TailOf(named, colon, val, next, others)
  BY <1>3, <1>4, <1>5, <1>6, <1>7, ObjectTailIs, Zenon
<1>12. ObjectTail(h, data) = TailOf(named, colon, val2, next2, others2)
  BY <1>3, <1>4, <1>8, <1>9, <1>10, ObjectTailIs, Zenon
<1>13. CASE named = Failed \/ ~Starts(colon, ":")
  BY <1>1, <1>2, <1>11, <1>12, <1>13 DEF TailOf
<1>14. CASE ~ (named = Failed \/ ~Starts(colon, ":"))
  <2>1. colon # << >> /\ Tail(colon) \in Bytes /\ Len(Tail(colon)) < Len(data)
    <3>1. colon # << >> /\ Tail(colon) \in Bytes /\ Len(Tail(colon)) < Len(named.rest)
      BY <1>4, <1>14 DEF Starts
    <3> QED
      BY <1>1, <1>3, <3>1
  <2>2. PICK y \in ParseDomain : y = <<"value", Tail(colon)>> /\ ParseLength(y) = Len(Tail(colon)) /\ y[2] = Tail(colon)
    <3>1. <<"value", Tail(colon)>> \in ParseDomain
      BY <2>1 DEF ParseDomain
    <3> QED
      BY <3>1 DEF ParseLength
  <2>3. g[y] = h[y] /\ Rests(y, g[y])
    BY <2>1, <2>2
  <2>4. val2 = val /\ next2 = next /\ val.rest \in Bytes /\ Len(val.rest) <= Len(Tail(colon))
    BY <1>5, <1>6, <1>8, <1>9, <2>2, <2>3 DEF Rests
  <2>5. /\ next \in Bytes
        /\ next # << >> => Tail(next) \in Bytes /\ Len(Tail(next)) < Len(data)
    <3>1. /\ next \in Bytes
          /\ next # << >> => Tail(next) \in Bytes /\ Len(Tail(next)) < Len(val.rest)
      BY <1>6, <2>4, SkipFacts
    <3> QED
      BY <1>1, <2>1, <2>4, <3>1
  <2>6. CASE Starts(next, ",")
    <3>1. PICK t \in Bytes : t = skipWS[Tail(next)] /\ Len(t) < Len(data)
      <4>1. next # << >> /\ Tail(next) \in Bytes /\ Len(Tail(next)) < Len(data)
        BY <2>5, <2>6 DEF Starts
      <4>2. skipWS[Tail(next)] \in Bytes /\ Len(skipWS[Tail(next)]) <= Len(Tail(next))
        BY <4>1, SkipFacts
      <4> QED
        BY <1>1, <4>1, <4>2
    <3>2. PICK z \in ParseDomain : z = <<"members", t>> /\ ParseLength(z) = Len(t) /\ z[2] = t
      <4>1. <<"members", t>> \in ParseDomain
        BY <3>1 DEF ParseDomain
      <4> QED
        BY <4>1 DEF ParseLength
    <3>3. g[z] = h[z] /\ Rests(z, g[z])
      BY <3>1, <3>2
    <3>4. others2 = others /\ others.rest \in Bytes /\ Len(others.rest) <= Len(data)
      <4>1. others2 = others /\ others.rest \in Bytes /\ Len(others.rest) <= Len(t)
        BY <1>7, <1>10, <2>4, <3>1, <3>2, <3>3 DEF Rests
      <4> QED
        BY <1>1, <3>1, <4>1
    <3>5. CASE others = Failed \/ val = Failed
      <4>1. ObjectTail(g, data) = Failed /\ ObjectTail(h, data) = Failed
        BY <1>11, <1>12, <1>14, <2>4, <2>6, <3>4, <3>5, Zenon DEF TailOf
      <4> QED
        BY <1>1, <1>2, <4>1
    <3>6. CASE ~ (others = Failed \/ val = Failed)
      <4>1. /\ ObjectTail(g, data) = Read("object", Joined(named.value, val, others.value), others.rest)
            /\ ObjectTail(h, data) = Read("object", Joined(named.value, val, others.value), others.rest)
        BY <1>11, <1>12, <1>14, <2>4, <2>6, <3>4, <3>6, Zenon DEF TailOf
      <4> QED
        BY <1>2, <3>4, <4>1
    <3> QED
      BY <3>5, <3>6
  <2>7. CASE ~ Starts(next, ",") /\ Starts(next, "}")
    <3>1. Tail(next) \in Bytes /\ Len(Tail(next)) <= Len(data)
      <4>1. Tail(next) \in Bytes /\ Len(Tail(next)) < Len(data)
        BY <2>5, <2>7 DEF Starts
      <4> QED
        BY <1>1, <4>1
    <3>2. CASE val = Failed
      <4>1. ObjectTail(g, data) = Failed /\ ObjectTail(h, data) = Failed
        BY <1>11, <1>12, <1>14, <2>4, <2>7, <3>2, Zenon DEF TailOf
      <4> QED
        BY <1>1, <1>2, <4>1
    <3>3. CASE val # Failed
      <4>1. /\ ObjectTail(g, data) = Read("object", Joined(named.value, val, << >>), Tail(next))
            /\ ObjectTail(h, data) = Read("object", Joined(named.value, val, << >>), Tail(next))
        BY <1>11, <1>12, <1>14, <2>4, <2>7, <3>3, Zenon DEF TailOf
      <4>2. PICK r : r = Read("object", Joined(named.value, val, << >>), Tail(next)) /\ r.rest = Tail(next)
        <5>1. PICK obj : obj = Joined(named.value, val, << >>)
          OBVIOUS
        <5>2. PICK rest : rest = Tail(next)
          OBVIOUS
        <5>3. Read("object", obj, rest).rest = rest
          BY DEF Read
        <5> QED
          BY <5>1, <5>2, <5>3, Zenon
      <4>3. ObjectTail(g, data) = r /\ ObjectTail(h, data) = r
        BY <4>1, <4>2, Zenon
      <4> QED
        BY <3>1, <4>2, <4>3
    <3> QED
      BY <3>2, <3>3
  <2>8. CASE ~ Starts(next, ",") /\ ~ Starts(next, "}")
    <3>1. ObjectTail(g, data) = Failed /\ ObjectTail(h, data) = Failed
      BY <1>11, <1>12, <1>14, <2>4, <2>8, Zenon DEF TailOf
    <3> QED
      BY <1>1, <1>2, <3>1
  <2> QED
    BY <2>6, <2>7, <2>8
<1> QED
  BY <1>13, <1>14

\* Value from its parts.
MembersIn(f, inside) == f[<<"members", inside>>]

ValueOf(f, d, inside) ==
  IF d = << >> THEN Failed
  ELSE CASE Head(d) = "{"    -> IF Starts(inside, "}") THEN Read("object", << >>, Tail(inside))
                                ELSE MembersIn(f, inside)
         [] Head(d) = "\""   -> parseString(d)
         [] Head(d) = "null" -> Read("null", Nil, Tail(d))
         [] Head(d) = "1"    -> Read("number", "1", Tail(d))
         [] OTHER            -> Failed

LEMMA ValueIs ==
  ASSUME NEW f, NEW data
  PROVE  Value(f, data) = ValueOf(f, skipWS[data], skipWS[Tail(skipWS[data])])
BY DEF Value, ValueOf, MembersIn

LEMMA ValueDescends ==
  ASSUME NEW data \in Bytes, NEW g, NEW h,
         \A y \in ParseDomain : ParseLength(y) < Len(data) => g[y] = h[y] /\ Rests(y, g[y])
  PROVE  /\ Value(g, data) = Value(h, data)
         /\ Value(g, data).rest \in Bytes /\ Len(Value(g, data).rest) <= Len(data)
<1>1. << >> \in Bytes /\ Len(<< >>) <= Len(data) /\ Len(data) \in Nat /\ \A t \in Bytes : Len(t) \in Nat
  BY DEF Bytes
<1>2. Failed.rest = << >> /\ \A a, b, c : Read(a, b, c).rest = c
  BY DEF Failed, Read
<1>3. PICK d \in Bytes : d = skipWS[data] /\ Len(d) <= Len(data) /\ (d # << >> => Tail(d) \in Bytes /\ Len(Tail(d)) < Len(data))
  BY SkipFacts
<1>4. PICK inside : inside = skipWS[Tail(d)]
  OBVIOUS
<1>5. Value(g, data) = ValueOf(g, d, inside) /\ Value(h, data) = ValueOf(h, d, inside)
  BY <1>3, <1>4, ValueIs, Zenon
<1>6. CASE d = << >>
  <2>1. Value(g, data) = Failed /\ Value(h, data) = Failed
    BY <1>5, <1>6, Zenon DEF ValueOf
  <2> QED
    BY <1>1, <1>2, <2>1
<1>7. CASE d # << >> /\ Head(d) = "{"
  <2>1. /\ inside \in Bytes /\ Len(inside) < Len(data)
        /\ inside # << >> => Tail(inside) \in Bytes /\ Len(Tail(inside)) <= Len(data)
    <3>1. Tail(d) \in Bytes /\ Len(Tail(d)) < Len(data)
      BY <1>3, <1>7
    <3>2. /\ inside \in Bytes /\ Len(inside) <= Len(Tail(d))
          /\ inside # << >> => Tail(inside) \in Bytes /\ Len(Tail(inside)) <= Len(inside)
      <4>1. inside \in Bytes /\ Len(inside) <= Len(Tail(d))
        BY <1>4, <3>1, SkipFacts
      <4> QED
        BY <4>1 DEF Bytes
    <3> QED
      BY <1>1, <3>1, <3>2
  <2>2. CASE Starts(inside, "}")
    <3>1. Tail(inside) \in Bytes /\ Len(Tail(inside)) <= Len(data)
      BY <2>1, <2>2 DEF Starts
    <3>2. PICK r : r = Read("object", << >>, Tail(inside)) /\ r.rest = Tail(inside)
      <4>1. PICK t : t = Tail(inside)
        OBVIOUS
      <4>2. PICK r : r = Read("object", << >>, t)
        OBVIOUS
      <4>3. r.rest = t
        BY <4>2 DEF Read
      <4> QED
        BY <4>1, <4>2, <4>3, Zenon
    <3>3. Value(g, data) = r /\ Value(h, data) = r
      BY <1>5, <1>7, <2>2, <3>2 DEF ValueOf
    <3> QED
      BY <3>1, <3>2, <3>3
  <2>3. CASE ~ Starts(inside, "}")
    <3>1. PICK y \in ParseDomain : y = <<"members", inside>> /\ ParseLength(y) = Len(inside) /\ y[2] = inside
      <4>1. <<"members", inside>> \in ParseDomain
        BY <2>1 DEF ParseDomain
      <4> QED
        BY <4>1 DEF ParseLength
    <3>2. g[y] = h[y] /\ Rests(y, g[y])
      BY <2>1, <3>1
    <3>3. MembersIn(g, inside) = g[y] /\ MembersIn(h, inside) = h[y]
      BY <3>1 DEF MembersIn
    <3>4. Value(g, data) = g[y] /\ Value(h, data) = h[y]
      BY <1>5, <1>7, <2>3, <3>3 DEF ValueOf
    <3>5. g[y].rest \in Bytes /\ Len(g[y].rest) <= Len(data)
      <4>1. g[y].rest \in Bytes /\ Len(g[y].rest) <= Len(inside)
        BY <3>1, <3>2 DEF Rests
      <4> QED
        BY <1>1, <2>1, <4>1
    <3> QED
      BY <3>2, <3>4, <3>5
  <2> QED
    BY <2>2, <2>3
<1>8. CASE d # << >> /\ Head(d) = "\""
  <2>1. Value(g, data) = parseString(d) /\ Value(h, data) = parseString(d)
    BY <1>5, <1>8 DEF ValueOf
  <2>2. parseString(d).rest \in Bytes /\ Len(parseString(d).rest) <= Len(d)
    BY ParseStringRests
  <2>3. Len(parseString(d).rest) <= Len(data)
    BY <1>1, <1>3, <2>2
  <2> QED
    BY <2>1, <2>2, <2>3
<1>9. CASE d # << >> /\ Head(d) = "null"
  <2>1. PICK r : r = Read("null", Nil, Tail(d)) /\ r.rest = Tail(d)
    <3>1. PICK t : t = Tail(d)
      OBVIOUS
    <3>2. PICK r : r = Read("null", Nil, t)
      OBVIOUS
    <3>3. r.rest = t
      BY <3>2 DEF Read
    <3> QED
      BY <3>1, <3>2, <3>3, Zenon
  <2>2. Value(g, data) = r /\ Value(h, data) = r
    BY <1>5, <1>9, <2>1 DEF ValueOf
  <2>3. Tail(d) \in Bytes /\ Len(Tail(d)) <= Len(data)
    BY <1>1, <1>3, <1>9
  <2> QED
    BY <2>1, <2>2, <2>3
<1>10. CASE d # << >> /\ Head(d) = "1"
  <2>1. PICK r : r = Read("number", "1", Tail(d)) /\ r.rest = Tail(d)
    <3>1. PICK t : t = Tail(d)
      OBVIOUS
    <3>2. PICK r : r = Read("number", "1", t)
      OBVIOUS
    <3>3. r.rest = t
      BY <3>2 DEF Read
    <3> QED
      BY <3>1, <3>2, <3>3, Zenon
  <2>2. Value(g, data) = r /\ Value(h, data) = r
    BY <1>5, <1>10, <2>1 DEF ValueOf
  <2>3. Tail(d) \in Bytes /\ Len(Tail(d)) <= Len(data)
    BY <1>1, <1>3, <1>10
  <2> QED
    BY <2>1, <2>2, <2>3
<1>11. CASE d # << >> /\ Head(d) \notin {"{", "\"", "null", "1"}
  <2>1. Value(g, data) = Failed /\ Value(h, data) = Failed
    BY <1>5, <1>11 DEF ValueOf
  <2> QED
    BY <1>1, <1>2, <2>1
<1> QED
  BY <1>6, <1>7, <1>8, <1>9, <1>10, <1>11

LEMMA ParseDefined ==
  \A what \in ParseDomain : parse[what] = ParseBody(parse, what) /\ Rests(what, parse[what])
<1>1. \A what \in ParseDomain : ParseLength(what) \in Nat
  BY DEF ParseDomain, ParseLength, Bytes
<1>2. Parsing!Descends
  <2> SUFFICES ASSUME NEW what \in ParseDomain, NEW g, NEW h,
                      \A y \in ParseDomain : ParseLength(y) < ParseLength(what) => g[y] = h[y] /\ Rests(y, g[y])
               PROVE  ParseBody(g, what) = ParseBody(h, what) /\ Rests(what, ParseBody(g, what))
    BY DEF Parsing!Descends
  <2>1. PICK data \in Bytes : data = what[2] /\ ParseLength(what) = Len(data)
    BY DEF ParseDomain, ParseLength
  <2>2. \A y \in ParseDomain : ParseLength(y) < Len(data) => g[y] = h[y] /\ Rests(y, g[y])
    BY <2>1
  <2>3. /\ ObjectTail(g, data) = ObjectTail(h, data)
        /\ ObjectTail(g, data).rest \in Bytes /\ Len(ObjectTail(g, data).rest) <= Len(data)
    BY <2>2, ObjectTailDescends
  <2>4. /\ Value(g, data) = Value(h, data)
        /\ Value(g, data).rest \in Bytes /\ Len(Value(g, data).rest) <= Len(data)
    BY <2>2, ValueDescends
  <2> QED
    BY <2>1, <2>3, <2>4 DEF ParseBody, Rests
<1>3. parse = CHOOSE f : f = [what \in ParseDomain |-> ParseBody(f, what)]
  BY DEF parse, ParseBody, ParseDomain
<1>4. /\ parse = [what \in ParseDomain |-> ParseBody(parse, what)]
      /\ \A what \in ParseDomain : Rests(what, parse[what])
  BY <1>1, <1>2, <1>3, Parsing!Defined
<1> QED
  BY <1>4

\* parse at a text.
LEMMA ParseIs ==
  ASSUME NEW data \in Bytes
  PROVE  /\ parse[<<"value", data>>] = Value(parse, data)
         /\ parse[<<"members", data>>] = ObjectTail(parse, data)
<1>1. <<"value", data>> \in ParseDomain /\ <<"members", data>> \in ParseDomain
  BY DEF ParseDomain
<1>2. /\ ParseBody(parse, <<"value", data>>) = Value(parse, data)
      /\ ParseBody(parse, <<"members", data>>) = ObjectTail(parse, data)
  BY DEF ParseBody
<1> QED
  BY <1>1, <1>2, ParseDefined

-----------------------------------------------------------------------------
(* What parse returns for the tokens of a value.                           *)

\* From a text with these tokens in front, the value is read and what is left
\* has the other tokens.
Parses(val, toks) ==
  /\ toks \in Tokens /\ val.type # "error"
  /\ \A data \in Bytes, more \in Tokens :
       Accepts(toks \o more, data) =>
         \E rest \in Bytes : /\ Accepts(more, rest)
                             /\ parse[<<"value", data>>] = Read(val.type, val.value, rest)

\* A text is written with the tokens from which the value is read.
Denotes(text, val) == \E toks \in Tokens : Writes(text, toks) /\ Parses(val, toks)

LEMMA ReadFacts ==
  ASSUME NEW a, NEW b, NEW c
  PROVE  /\ Read(a, b, c).type = a /\ Read(a, b, c).value = b /\ Read(a, b, c).rest = c
         /\ JSON(a, b).type = a /\ JSON(a, b).value = b
         /\ a # "error" => Read(a, b, c) # Failed
BY DEF Read, JSON, Failed

LEMMA AcceptsString ==
  ASSUME NEW s \in Bytes, NEW more \in Tokens, NEW data \in Bytes, Accepts(<<Quoted(s)>> \o more, data)
  PROVE  /\ skipWS[data] # << >> /\ Head(skipWS[data]) = "\""
         /\ \E rest \in Bytes : Accepts(more, rest) /\ parseString(data) = Read("string", s, rest)
<1>1. PICK k \in Tokens : k = <<Quoted(s)>> \o more /\ k # << >> /\ Head(k) = Quoted(s) /\ Tail(k) = more
  BY TokensFacts, TokenFirst
<1>2. PICK d \in Bytes :
        /\ d = skipWS[data] /\ d # << >> /\ Head(d) \in Symbols \ Blank /\ Tail(d) \in Bytes
        /\ Run(StepOut(Out(k), Head(d)), Tail(d)) = Out(<< >>)
  BY <1>1, AcceptsSome
<1>3. StepOut(Out(k), Head(d)) # Unexpected
  BY <1>2, RunUnexpected DEF Out, Unexpected
<1>4. Head(d) = "\"" /\ StepOut(Out(k), Head(d)) = In(s, more)
  <2>1. /\ Out(k).toks = k /\ Quoted(s).type = "string" /\ Quoted(s).text = s
        /\ Mark(Head(d)).type # "string"
    BY DEF Out, Quoted, Mark
  <2> QED
    BY <1>1, <1>2, <1>3, <2>1, Zenon DEF StepOut
<1>5. PICK rest \in Bytes : StringTail[Tail(d)] = Read("string", s, rest) /\ Accepts(more, rest)
  <2>1. PICK t \in Bytes : t = Tail(d) /\ Run(In(s, more), t) = Out(<< >>)
    BY <1>2, <1>4
  <2>2. \E rest \in Bytes : StringTail[t] = Read("string", s, rest) /\ Accepts(more, rest)
    BY <2>1, ReadsString
  <2> QED
    BY <2>1, <2>2
<1>6. parseString(data) = StringTail[Tail(d)]
  BY <1>2, <1>4, Zenon DEF parseString, Starts
<1> QED
  BY <1>2, <1>4, <1>5, <1>6, Zenon

LEMMA ParsesString ==
  ASSUME NEW s \in Bytes
  PROVE  Parses(JSON("string", s), <<Quoted(s)>>)
<1>1. <<Quoted(s)>> \in Tokens
  BY TokensFacts, TokenFirst, JoiningTokens
<1>2. ASSUME NEW data \in Bytes, NEW more \in Tokens, Accepts(<<Quoted(s)>> \o more, data)
      PROVE  \E rest \in Bytes : Accepts(more, rest) /\ parse[<<"value", data>>] = Read("string", s, rest)
  <2>1. PICK d \in Bytes : d = skipWS[data] /\ skipWS[d] = d /\ d # << >> /\ Head(d) = "\""
    <3>1. skipWS[data] # << >> /\ Head(skipWS[data]) = "\""
      BY <1>2, AcceptsString
    <3>2. skipWS[data] \in Bytes /\ skipWS[skipWS[data]] = skipWS[data]
      BY SkipFacts
    <3> QED
      BY <3>1, <3>2
  <2>2. PICK rest \in Bytes : Accepts(more, rest) /\ parseString(data) = Read("string", s, rest)
    BY <1>2, AcceptsString
  <2>3. parseString(d) = parseString(data)
    BY <2>1, Zenon DEF parseString
  <2>4. Value(parse, data) = parseString(d)
    <3>1. ValueOf(parse, d, skipWS[Tail(d)]) = parseString(d)
      BY <2>1 DEF ValueOf
    <3> QED
      BY <2>1, <3>1, ValueIs, Zenon
  <2> QED
    BY <2>2, <2>3, <2>4, ParseIs, Zenon
<1>3. JSON("string", s).type = "string" /\ JSON("string", s).value = s
  BY DEF JSON
<1> QED
  BY <1>1, <1>2, <1>3 DEF Parses

\* A literal is a value of its own.
LEMMA ParsesLiteral ==
  ASSUME NEW c \in {"null", "1"}, NEW val, val = IF c = "null" THEN JSON("null", Nil) ELSE JSON("number", "1")
  PROVE  Parses(val, <<Mark(c)>>)
<1>1. c \in Symbols
  BY NamedSymbols
<1>2. <<Mark(c)>> \in Tokens
  BY <1>1, TokensFacts, TokenFirst, JoiningTokens
<1>3. ASSUME NEW data \in Bytes, NEW more \in Tokens, Accepts(<<Mark(c)>> \o more, data)
      PROVE  \E rest \in Bytes : Accepts(more, rest) /\ parse[<<"value", data>>] = Read(val.type, val.value, rest)
  <2>1. PICK d \in Bytes : d = skipWS[data] /\ d # << >> /\ Head(d) = c /\ Tail(d) \in Bytes /\ Accepts(more, Tail(d))
    BY <1>1, <1>3, AcceptsMark
  <2>2. PICK rest \in Bytes : rest = Tail(d)
    BY <2>1
  <2>3. Value(parse, data) = Read(val.type, val.value, rest)
    <3>1. CASE c = "null"
      <4>1. ValueOf(parse, d, skipWS[Tail(d)]) = Read("null", Nil, rest)
        BY <2>1, <2>2, <3>1 DEF ValueOf
      <4>2. val.type = "null" /\ val.value = Nil
        BY <3>1 DEF JSON
      <4> QED
        BY <2>1, <4>1, <4>2, ValueIs, Zenon
    <3>2. CASE c = "1"
      <4>1. ValueOf(parse, d, skipWS[Tail(d)]) = Read("number", "1", rest)
        BY <2>1, <2>2, <3>2 DEF ValueOf
      <4>2. val.type = "number" /\ val.value = "1"
        BY <3>2 DEF JSON
      <4> QED
        BY <2>1, <4>1, <4>2, ValueIs, Zenon
    <3> QED
      BY <3>1, <3>2
  <2> QED
    BY <2>1, <2>2, <2>3, ParseIs, Zenon
<1>4. val.type # "error"
  BY DEF JSON
<1> QED
  BY <1>2, <1>3, <1>4 DEF Parses

LEMMA DenotesString == \A s \in Bytes : Denotes(str(s), JSON("string", s))
<1> SUFFICES ASSUME NEW s \in Bytes PROVE Denotes(str(s), JSON("string", s))
  OBVIOUS
<1>1. PICK toks \in Tokens : toks = <<Quoted(s)>>
  BY TokensFacts, TokenFirst, JoiningTokens
<1>2. Writes(str(s), toks)
  BY <1>1, WritesString
<1>3. Parses(JSON("string", s), toks)
  BY <1>1, ParsesString
<1> QED
  BY <1>2, <1>3 DEF Denotes

LEMMA DenotesLiteral ==
  Denotes(<<"null">>, JSON("null", Nil)) /\ Denotes(<<"1">>, JSON("number", "1"))
<1>1. ASSUME NEW c \in {"null", "1"}, NEW val, val = IF c = "null" THEN JSON("null", Nil) ELSE JSON("number", "1")
      PROVE  Denotes(<<c>>, val)
  <2>1. PICK toks \in Tokens : toks = <<Mark(c)>>
    BY NamedSymbols, TokensFacts, TokenFirst, JoiningTokens
  <2>2. Writes(<<c>>, toks)
    <3>1. c \in Symbols /\ c \notin Blank /\ c # "\""
      BY NamedSymbols DEF Blank
    <3> QED
      BY <2>1, <3>1, WritesMark
  <2>3. Parses(val, toks)
    BY <1>1, <2>1, ParsesLiteral
  <2> QED
    BY <2>2, <2>3 DEF Denotes
<1> QED
  BY <1>1

-----------------------------------------------------------------------------
(* Objects.                                                                *)

\* The rest of an object behind a value: the other members, and the brace.
Closes(obj, toks) ==
  /\ toks \in Tokens
  /\ \A data \in Bytes, more \in Tokens :
       Accepts(toks \o more, data) =>
         \E rest \in Bytes :
           /\ Accepts(more, rest)
           /\ \/ DOMAIN obj = {} /\ Starts(skipWS[data], "}") /\ rest = Tail(skipWS[data])
              \/ /\ Starts(skipWS[data], ",")
                 /\ parse[<<"members", skipWS[Tail(skipWS[data])]>>] = Read("object", obj, rest)

JoinsTokens(t, u, w) == t \o u \in Tokens /\ (t \o u) \o w = t \o (u \o w)

LEMMA ConcatTokens ==
  ASSUME NEW t \in Tokens, NEW u \in Tokens, NEW w \in Tokens
  PROVE  JoinsTokens(t, u, w)
BY JoiningTokens DEF JoinsTokens

\* The tokens of a member and of what closes the object behind it.
MemberTokens(name, value, close) == <<Quoted(name)>> \o (<<Mark(":")>> \o (value \o close))

MemberBefore(name, value, close, more, c) ==
  (<<Mark(c)>> \o MemberTokens(name, value, close)) \o more
    = <<Mark(c)>> \o MemberTokens(name, value, close \o more)

LEMMA MemberTokensFacts ==
  ASSUME NEW name \in Bytes, NEW value \in Tokens, NEW close \in Tokens, NEW more \in Tokens, NEW c \in Symbols
  PROVE  /\ MemberTokens(name, value, close) \in Tokens
         /\ <<Mark(c)>> \o MemberTokens(name, value, close) \in Tokens
         /\ MemberBefore(name, value, close, more, c)
<1>1. PICK q, l, m \in Tokens : q = <<Quoted(name)>> /\ l = <<Mark(":")>> /\ m = <<Mark(c)>>
  <2>1. <<Quoted(name)>> \in Tokens /\ <<Mark(c)>> \in Tokens
    BY TokensFacts, TokenFirst, JoiningTokens
  <2>2. <<Mark(":")>> \in Tokens
    BY NamedSymbols, TokensFacts, TokenFirst, JoiningTokens
  <2> QED
    BY <2>1, <2>2
<1>2. PICK u \in Tokens : u = value \o close /\ u \o more = value \o (close \o more)
  <2>1. JoinsTokens(value, close, more)
    BY ConcatTokens
  <2> QED
    BY <2>1, Zenon DEF JoinsTokens
<1>3. PICK v \in Tokens : v = l \o u /\ v \o more = l \o (value \o (close \o more))
  <2>1. JoinsTokens(l, u, more)
    BY ConcatTokens
  <2> QED
    BY <1>2, <2>1, Zenon DEF JoinsTokens
<1>4. PICK w \in Tokens : w = q \o v /\ w \o more = q \o (l \o (value \o (close \o more)))
  <2>1. JoinsTokens(q, v, more)
    BY ConcatTokens
  <2> QED
    BY <1>3, <2>1, Zenon DEF JoinsTokens
<1>5. PICK x \in Tokens : x = m \o w /\ x \o more = m \o (q \o (l \o (value \o (close \o more))))
  <2>1. JoinsTokens(m, w, more)
    BY ConcatTokens
  <2> QED
    BY <1>4, <2>1, Zenon DEF JoinsTokens
<1>6. w = MemberTokens(name, value, close)
  BY <1>1, <1>2, <1>3, <1>4, Zenon DEF MemberTokens
<1> QED
  BY <1>1, <1>5, <1>6, Zenon DEF MemberTokens, MemberBefore

LEMMA JoinedSame ==
  ASSUME NEW n, NEW val, NEW w, val.type = w.type, val.value = w.value, NEW f, NEW g,
         f = g \/ (DOMAIN f = {} /\ DOMAIN g = {})
  PROVE  Joined(n, val, f) = Joined(n, w, g)
BY DEF Joined

\* The members of an object are read.
MembersRead(name, val, obj, more, data) ==
  \E rest \in Bytes :
    /\ Accepts(more, rest)
    /\ parse[<<"members", data>>] = Read("object", Joined(name, val, obj), rest)

LEMMA ReadsMembers ==
  ASSUME NEW name \in Bytes, NEW val, NEW value, Parses(val, value), NEW obj, NEW close, Closes(obj, close),
         NEW more \in Tokens, NEW data \in Bytes, Accepts(MemberTokens(name, value, close \o more), data)
  PROVE  MembersRead(name, val, obj, more, data)
<1>1. value \in Tokens /\ close \in Tokens /\ val.type # "error"
  BY DEF Parses, Closes
<1>2. PICK u, v, w \in Tokens : /\ u = close \o more /\ v = value \o u /\ w = <<Mark(":")>> \o v
                                /\ MemberTokens(name, value, close \o more) = <<Quoted(name)>> \o w
  <2>1. PICK u \in Tokens : u = close \o more
    BY <1>1, JoiningTokens
  <2>2. PICK v \in Tokens : v = value \o u
    BY <1>1, JoiningTokens
  <2>3. PICK w \in Tokens : w = <<Mark(":")>> \o v
    BY NamedSymbols, TokensFacts, TokenFirst
  <2> QED
    BY <2>1, <2>2, <2>3, Zenon DEF MemberTokens
<1>3. PICK left \in Bytes : Accepts(w, left) /\ parseString(data) = Read("string", name, left)
  <2>1. Accepts(<<Quoted(name)>> \o w, data)
    BY <1>2, Zenon
  <2> QED
    BY <2>1, AcceptsString
<1>4. PICK named : named = parseString(data) /\ named.rest = left /\ named.value = name /\ named # Failed
  BY <1>3, ReadFacts
<1>5. PICK colon \in Bytes : /\ colon = ColonIn(data) /\ colon # << >> /\ Head(colon) = ":"
                             /\ Tail(colon) \in Bytes /\ Accepts(v, Tail(colon))
  <2>1. ":" \in Symbols /\ Accepts(<<Mark(":")>> \o v, left)
    BY <1>2, <1>3, NamedSymbols
  <2>2. /\ skipWS[left] \in Bytes /\ skipWS[left] # << >> /\ Head(skipWS[left]) = ":"
        /\ Tail(skipWS[left]) \in Bytes /\ Accepts(v, Tail(skipWS[left]))
    BY <2>1, AcceptsMark
  <2> QED
    BY <1>4, <2>2 DEF ColonIn
<1>6. PICK behind \in Bytes : /\ Accepts(u, behind)
                              /\ parse[<<"value", Tail(colon)>>] = Read(val.type, val.value, behind)
  <2>1. PICK t \in Bytes : t = Tail(colon)
    BY <1>5
  <2>2. Accepts(value \o u, t)
    BY <1>2, <1>5, <2>1
  <2> QED
    BY <2>1, <2>2 DEF Parses
<1>7. PICK r : /\ r = ValueIn(parse, data) /\ r # Failed
               /\ r.type = val.type /\ r.value = val.value /\ r.rest = behind
  <2>1. ValueIn(parse, data) = Read(val.type, val.value, behind)
    BY <1>5, <1>6, Zenon DEF ValueIn
  <2> QED
    BY <1>1, <2>1, ReadFacts
<1>8. PICK next : next = NextIn(parse, data) /\ next = skipWS[behind]
  BY <1>7 DEF NextIn
<1>9. PICK rest \in Bytes :
        /\ Accepts(more, rest)
        /\ \/ DOMAIN obj = {} /\ Starts(next, "}") /\ rest = Tail(next)
           \/ Starts(next, ",") /\ parse[<<"members", skipWS[Tail(next)]>>] = Read("object", obj, rest)
  <2>1. Accepts(close \o more, behind)
    BY <1>2, <1>6
  <2> QED
    BY <1>8, <2>1 DEF Closes
<1>10. PICK others : others = OthersIn(parse, data) /\ others = parse[<<"members", skipWS[Tail(next)]>>]
  BY <1>8, Zenon DEF OthersIn
<1>11. ObjectTail(parse, data) = TailOf(named, colon, r, next, others)
  BY <1>4, <1>5, <1>7, <1>8, <1>10, ObjectTailIs, Zenon
<1>12. TailOf(named, colon, r, next, others) = Read("object", Joined(name, val, obj), rest)
  <2>1. ~ (named = Failed \/ ~ Starts(colon, ":") \/ r = Failed)
    BY <1>4, <1>5, <1>7 DEF Starts
  <2>2. CASE DOMAIN obj = {} /\ Starts(next, "}") /\ rest = Tail(next)
    <3>1. ~ Starts(next, ",")
      BY <2>2 DEF Starts
    <3>2. DOMAIN << >> = {}
      OBVIOUS
    <3>3. Joined(name, r, << >>) = Joined(name, val, obj)
      <4>1. PICK f : f = << >> /\ DOMAIN f = {}
        BY <3>2
      <4>2. Joined(name, r, f) = Joined(name, val, obj)
        <5>1. r.type = val.type /\ r.value = val.value
          BY <1>7
        <5>2. DOMAIN f = {} /\ DOMAIN obj = {}
          BY <2>2, <4>1
        <5> QED
          BY <5>1, <5>2, JoinedSame
      <4> QED
        BY <4>1, <4>2, Zenon
    <3> QED
      BY <1>4, <2>1, <2>2, <3>1, <3>3, Zenon DEF TailOf
  <2>3. CASE Starts(next, ",") /\ parse[<<"members", skipWS[Tail(next)]>>] = Read("object", obj, rest)
    <3>1. others # Failed /\ others.value = obj /\ others.rest = rest
      <4>1. others = Read("object", obj, rest)
        BY <1>10, <2>3
      <4> QED
        BY <4>1, ReadFacts
    <3>2. Joined(named.value, r, others.value) = Joined(name, val, obj)
      BY <1>4, <1>7, <3>1, JoinedSame
    <3> QED
      BY <2>1, <2>3, <3>1, <3>2, Zenon DEF TailOf
  <2> QED
    BY <1>9, <2>2, <2>3
<1> QED
  BY <1>9, <1>11, <1>12, ParseIs, Zenon DEF MembersRead

LEMMA MarksAreWritten ==
  \A c \in {"{", "}", ":", ","} :
    /\ c \in Symbols /\ <<c>> \in Bytes /\ <<Mark(c)>> \in Tokens /\ Writes(<<c>>, <<Mark(c)>>)
<1> SUFFICES ASSUME NEW c \in {"{", "}", ":", ","}
             PROVE  /\ c \in Symbols /\ <<c>> \in Bytes /\ <<Mark(c)>> \in Tokens
                    /\ Writes(<<c>>, <<Mark(c)>>)
  OBVIOUS
<1>1. c \in Symbols /\ c \notin Blank /\ c # "\""
  BY NamedSymbols DEF Blank
<1>2. Writes(<<c>>, <<Mark(c)>>)
  BY <1>1, WritesMark
<1> QED
  BY <1>1, <1>2 DEF Writes

\* Behind the last member there is the brace.
LEMMA ClosesNone ==
  ASSUME NEW obj, DOMAIN obj = {}
  PROVE  Closes(obj, <<Mark("}")>>)
<1>1. "}" \in Symbols /\ <<Mark("}")>> \in Tokens
  BY MarksAreWritten
<1>2. ASSUME NEW data \in Bytes, NEW more \in Tokens, Accepts(<<Mark("}")>> \o more, data)
      PROVE  \E rest \in Bytes :
               Accepts(more, rest) /\ Starts(skipWS[data], "}") /\ rest = Tail(skipWS[data])
  <2>1. /\ skipWS[data] # << >> /\ Head(skipWS[data]) = "}"
        /\ Tail(skipWS[data]) \in Bytes /\ Accepts(more, Tail(skipWS[data]))
    BY <1>1, <1>2, AcceptsMark
  <2> QED
    BY <2>1 DEF Starts
<1> QED
  BY <1>1, <1>2, Zenon DEF Closes

\* Behind another one there is a comma.
LEMMA ClosesMore ==
  ASSUME NEW name \in Bytes, NEW val, NEW value, Parses(val, value), NEW obj, NEW close, Closes(obj, close)
  PROVE  Closes(Joined(name, val, obj), <<Mark(",")>> \o MemberTokens(name, value, close))
<1>1. value \in Tokens /\ close \in Tokens
  BY DEF Parses, Closes
<1> DEFINE toks == <<Mark(",")>> \o MemberTokens(name, value, close)
<1>2. "," \in Symbols /\ toks \in Tokens
  <2>1. "," \in Symbols
    BY MarksAreWritten
  <2> QED
    BY <1>1, <2>1, MemberTokensFacts, JoiningTokens
<1>3. ASSUME NEW data \in Bytes, NEW more \in Tokens, Accepts(toks \o more, data)
      PROVE  \E rest \in Bytes :
               /\ Accepts(more, rest)
               /\ Starts(skipWS[data], ",")
               /\ parse[<<"members", skipWS[Tail(skipWS[data])]>>] = Read("object", Joined(name, val, obj), rest)
  <2>1. PICK k \in Tokens : /\ k = MemberTokens(name, value, close \o more)
                            /\ toks \o more = <<Mark(",")>> \o k
    <3>1. close \o more \in Tokens
      BY <1>1, JoiningTokens
    <3>2. MemberTokens(name, value, close \o more) \in Tokens
      BY <1>1, <1>2, <3>1, MemberTokensFacts
    <3>3. toks \o more = <<Mark(",")>> \o MemberTokens(name, value, close \o more)
      <4>1. MemberBefore(name, value, close, more, ",")
        BY <1>1, <1>2, MemberTokensFacts
      <4> QED
        BY <4>1, Zenon DEF MemberBefore
    <3> QED
      BY <3>2, <3>3
  <2> HIDE DEF toks
  <2>2. /\ skipWS[data] # << >> /\ Head(skipWS[data]) = ","
        /\ Tail(skipWS[data]) \in Bytes /\ Accepts(k, Tail(skipWS[data]))
    <3>1. Accepts(<<Mark(",")>> \o k, data)
      BY <1>3, <2>1
    <3> QED
      BY <1>2, <3>1, AcceptsMark
  <2>3. PICK d \in Bytes : d = skipWS[Tail(skipWS[data])] /\ Accepts(k, d)
    <3>1. PICK t \in Bytes : t = Tail(skipWS[data]) /\ Accepts(k, t)
      BY <2>2
    <3>2. skipWS[t] \in Bytes /\ Accepts(k, skipWS[t])
      BY <3>1, SkipFacts, SkipRun DEF Accepts
    <3> QED
      BY <3>1, <3>2
  <2>4. \E rest \in Bytes : /\ Accepts(more, rest)
                            /\ parse[<<"members", d>>] = Read("object", Joined(name, val, obj), rest)
    <3>1. Accepts(MemberTokens(name, value, close \o more), d)
      BY <2>1, <2>3
    <3>2. MembersRead(name, val, obj, more, d)
      BY <3>1, ReadsMembers
    <3> QED
      BY <3>2, Zenon DEF MembersRead
  <2>5. Starts(skipWS[data], ",")
    BY <2>2 DEF Starts
  <2> QED
    BY <2>3, <2>4, <2>5, Zenon
<1> HIDE DEF toks
<1>4. Closes(Joined(name, val, obj), toks)
  BY <1>2, <1>3, Zenon DEF Closes
<1> QED
  BY <1>4 DEF toks

LEMMA ParsesObject ==
  ASSUME NEW name \in Bytes, NEW val, NEW value, Parses(val, value), NEW obj, NEW close, Closes(obj, close)
  PROVE  Parses(JSON("object", Joined(name, val, obj)), <<Mark("{")>> \o MemberTokens(name, value, close))
<1>1. value \in Tokens /\ close \in Tokens
  BY DEF Parses, Closes
<1> DEFINE toks == <<Mark("{")>> \o MemberTokens(name, value, close)
<1>2. "{" \in Symbols /\ toks \in Tokens
  <2>1. "{" \in Symbols
    BY MarksAreWritten
  <2> QED
    BY <1>1, <2>1, MemberTokensFacts, JoiningTokens
<1>3. ASSUME NEW data \in Bytes, NEW more \in Tokens, Accepts(toks \o more, data)
      PROVE  \E rest \in Bytes :
               /\ Accepts(more, rest)
               /\ parse[<<"value", data>>] = Read("object", Joined(name, val, obj), rest)
  <2>1. PICK k \in Tokens : /\ k = MemberTokens(name, value, close \o more)
                            /\ toks \o more = <<Mark("{")>> \o k
    <3>1. close \o more \in Tokens
      BY <1>1, JoiningTokens
    <3>2. MemberTokens(name, value, close \o more) \in Tokens
      BY <1>1, <1>2, <3>1, MemberTokensFacts
    <3>3. toks \o more = <<Mark("{")>> \o MemberTokens(name, value, close \o more)
      <4>1. MemberBefore(name, value, close, more, "{")
        BY <1>1, <1>2, MemberTokensFacts
      <4> QED
        BY <4>1, Zenon DEF MemberBefore
    <3> QED
      BY <3>2, <3>3
  <2> HIDE DEF toks
  <2>2. PICK d \in Bytes : /\ d = skipWS[data] /\ d # << >> /\ Head(d) = "{"
                           /\ Tail(d) \in Bytes /\ Accepts(k, Tail(d))
    <3>1. Accepts(<<Mark("{")>> \o k, data)
      BY <1>3, <2>1
    <3> QED
      BY <1>2, <3>1, AcceptsMark
  <2>3. PICK inside \in Bytes : inside = skipWS[Tail(d)] /\ Accepts(k, inside)
    <3>1. PICK t \in Bytes : t = Tail(d) /\ Accepts(k, t)
      BY <2>2
    <3>2. skipWS[t] \in Bytes /\ Accepts(k, skipWS[t])
      BY <3>1, SkipFacts, SkipRun DEF Accepts
    <3> QED
      BY <3>1, <3>2
  <2>4. PICK rest \in Bytes : /\ Accepts(more, rest)
                              /\ parse[<<"members", inside>>] = Read("object", Joined(name, val, obj), rest)
    <3>1. Accepts(MemberTokens(name, value, close \o more), inside)
      BY <2>1, <2>3
    <3>2. MembersRead(name, val, obj, more, inside)
      BY <3>1, ReadsMembers
    <3> QED
      BY <3>2, Zenon DEF MembersRead
  <2>5. ~ Starts(inside, "}")
    <3>1. PICK l \in Tokens : k = <<Quoted(name)>> \o l
      <4>1. PICK u \in Tokens : u = value \o (close \o more)
        BY <1>1, JoiningTokens
      <4>2. <<Mark(":")>> \o u \in Tokens
        BY MarksAreWritten, JoiningTokens
      <4> QED
        BY <2>1, <4>1, <4>2, Zenon DEF MemberTokens
    <3>2. Head(skipWS[inside]) = "\"" /\ skipWS[inside] = inside
      <4>1. Accepts(<<Quoted(name)>> \o l, inside)
        BY <2>3, <3>1
      <4>2. Head(skipWS[inside]) = "\""
        BY <4>1, AcceptsString
      <4>3. skipWS[inside] = inside
        BY <2>2, <2>3, SkipFacts
      <4> QED
        BY <4>2, <4>3
    <3> QED
      BY <3>2 DEF Starts
  <2>6. Value(parse, data) = parse[<<"members", inside>>]
    <3>1. ValueOf(parse, d, inside) = MembersIn(parse, inside)
      BY <2>2, <2>5 DEF ValueOf
    <3> QED
      BY <2>2, <2>3, <3>1, ValueIs, Zenon DEF MembersIn
  <2> QED
    BY <2>4, <2>6, ParseIs, Zenon
<1> HIDE DEF toks
<1>4. PICK v : v = JSON("object", Joined(name, val, obj)) /\ v.type = "object" /\ v.value = Joined(name, val, obj)
  <2>1. PICK o : o = Joined(name, val, obj)
    OBVIOUS
  <2>2. PICK v : v = JSON("object", o)
    OBVIOUS
  <2>3. v.type = "object" /\ v.value = o
    BY <2>2 DEF JSON
  <2> QED
    BY <2>1, <2>2, <2>3, Zenon
<1>5. Parses(v, toks)
  <2>1. v.type # "error"
    BY <1>4
  <2>2. ASSUME NEW data \in Bytes, NEW more \in Tokens, Accepts(toks \o more, data)
        PROVE  \E rest \in Bytes :
                 Accepts(more, rest) /\ parse[<<"value", data>>] = Read(v.type, v.value, rest)
    BY <1>3, <1>4, <2>2, Zenon
  <2> QED
    BY <1>2, <2>1, <2>2, Zenon DEF Parses
<1> QED
  BY <1>4, <1>5 DEF toks

LEMMA ParsesEmpty == Parses(JSON("object", << >>), <<Mark("{")>> \o <<Mark("}")>>)
<1>1. PICK l, m \in Tokens : l = <<Mark("{")>> /\ m = <<Mark("}")>> /\ l \o m \in Tokens
  <2>1. <<Mark("{")>> \in Tokens /\ <<Mark("}")>> \in Tokens
    BY MarksAreWritten
  <2> QED
    BY <2>1, JoiningTokens
<1>2. ASSUME NEW data \in Bytes, NEW more \in Tokens, Accepts((l \o m) \o more, data)
      PROVE  \E rest \in Bytes :
               Accepts(more, rest) /\ parse[<<"value", data>>] = Read("object", << >>, rest)
  <2>1. PICK k \in Tokens : k = m \o more /\ (l \o m) \o more = l \o k
    <3>1. m \o more \in Tokens /\ (l \o m) \o more = l \o (m \o more)
      BY JoiningTokens, Zenon
    <3> QED
      BY <3>1, Zenon
  <2>2. PICK d \in Bytes : /\ d = skipWS[data] /\ d # << >> /\ Head(d) = "{"
                           /\ Tail(d) \in Bytes /\ Accepts(k, Tail(d))
    <3>1. Accepts(<<Mark("{")>> \o k, data)
      BY <1>1, <1>2, <2>1
    <3> QED
      BY <3>1, MarksAreWritten, AcceptsMark
  <2>3. PICK inside \in Bytes : /\ inside = skipWS[Tail(d)] /\ inside # << >> /\ Head(inside) = "}"
                                /\ Tail(inside) \in Bytes /\ Accepts(more, Tail(inside))
    <3>1. PICK t \in Bytes : t = Tail(d) /\ Accepts(k, t)
      BY <2>2
    <3>2. Accepts(<<Mark("}")>> \o more, t)
      BY <1>1, <2>1, <3>1
    <3> QED
      BY <3>1, <3>2, MarksAreWritten, AcceptsMark
  <2>4. PICK rest \in Bytes : rest = Tail(inside)
    BY <2>3
  <2>5. Value(parse, data) = Read("object", << >>, rest)
    <3>1. Starts(inside, "}")
      BY <2>3 DEF Starts
    <3>2. ValueOf(parse, d, inside) = Read("object", << >>, rest)
      BY <2>2, <2>4, <3>1 DEF ValueOf
    <3> QED
      BY <2>2, <2>3, <3>2, ValueIs, Zenon
  <2> QED
    BY <2>3, <2>4, <2>5, ParseIs, Zenon
<1>3. PICK v : v = JSON("object", << >>) /\ v.type = "object" /\ v.value = << >>
  BY ReadFacts
<1>4. Parses(v, l \o m)
  <2>1. v.type # "error"
    BY <1>3
  <2> QED
    BY <1>1, <1>2, <1>3, <2>1, ZenonT(40) DEF Parses
<1> QED
  BY <1>1, <1>3, <1>4

-----------------------------------------------------------------------------
(* The text of an object and the function that is read from it.            *)

Pairs == Seq(Bytes \X Bytes)

LEMMA TailFacts ==
  ASSUME NEW S, NEW l \in Seq(S), l # << >>
  PROVE  /\ Len(l) \in Nat /\ Len(l) # 0 /\ 1 \in 1 .. Len(l) /\ l[1] \in S
         /\ Head(l) = l[1] /\ Tail(l) \in Seq(S) /\ Len(Tail(l)) = Len(l) - 1 /\ Len(Tail(l)) \in Nat
         /\ \A i \in 1 .. Len(l) - 1 : i + 1 \in 1 .. Len(l) /\ Tail(l)[i] = l[i + 1]
OBVIOUS

LEMMA NotEmpty ==
  ASSUME NEW S, NEW l \in Seq(S), Len(l) # 0
  PROVE  l # << >>
OBVIOUS

LEMMA FunctionIsSeq ==
  ASSUME NEW S, NEW n \in Nat, NEW f \in [1 .. n -> S]
  PROVE  f \in Seq(S) /\ Len(f) = n
OBVIOUS

\* A member as Object writes it.
Entry(sep, m) == sep \o str(m[1]) \o <<":">> \o m[2]

\* Members that stand behind others.
Listed(ms) == [i \in DOMAIN ms |-> Entry(<<",">>, ms[i])]

\* Members from the first one on.
Begun(ms) == [i \in DOMAIN ms |-> Entry(IF i = 1 THEN << >> ELSE <<",">>, ms[i])]

LEMMA EntryIsBytes ==
  ASSUME NEW sep \in Bytes, NEW m \in Bytes \X Bytes
  PROVE  Entry(sep, m) \in Bytes
<1>1. PICK s \in Bytes : s = str(m[1])
  BY WritesString DEF Writes
<1>2. PICK c \in Bytes : c = <<":">>
  BY MarksAreWritten
<1>3. PICK v \in Bytes : v = m[2]
  OBVIOUS
<1>4. ((sep \o s) \o c) \o v \in Bytes
  <2>1. PICK u \in Bytes : u = sep \o s
    BY Joining DEF Bytes
  <2>2. PICK w \in Bytes : w = u \o c
    BY Joining DEF Bytes
  <2>3. w \o v \in Bytes
    BY Joining DEF Bytes
  <2> QED
    BY <2>1, <2>2, <2>3
<1> QED
  BY <1>1, <1>2, <1>3, <1>4, Zenon DEF Entry

LEMMA ListedTypes ==
  ASSUME NEW ms \in Pairs
  PROVE  /\ Len(ms) \in Nat /\ \A i \in 1 .. Len(ms) : ms[i] \in Bytes \X Bytes
         /\ Listed(ms) \in Seq(Bytes) /\ Len(Listed(ms)) = Len(ms)
         /\ \A i \in 1 .. Len(ms) : Listed(ms)[i] = Entry(<<",">>, ms[i])
         /\ Begun(ms) \in Seq(Bytes) /\ Len(Begun(ms)) = Len(ms)
         /\ \A i \in 1 .. Len(ms) : Begun(ms)[i] = Entry(IF i = 1 THEN << >> ELSE <<",">>, ms[i])
<1>1. Len(ms) \in Nat /\ DOMAIN ms = 1 .. Len(ms) /\ \A i \in 1 .. Len(ms) : ms[i] \in Bytes \X Bytes
  BY DEF Pairs
<1>2. <<",">> \in Bytes /\ << >> \in Bytes
  <2>1. << >> \in Bytes
    BY DEF Bytes
  <2> QED
    BY <2>1, MarksAreWritten
<1>3. \A i \in 1 .. Len(ms) : Entry(<<",">>, ms[i]) \in Bytes
  BY <1>1, <1>2, EntryIsBytes
<1>4. \A i \in 1 .. Len(ms) : Entry(IF i = 1 THEN << >> ELSE <<",">>, ms[i]) \in Bytes
  BY <1>1, <1>2, EntryIsBytes
<1>5. Listed(ms) = [i \in 1 .. Len(ms) |-> Entry(<<",">>, ms[i])]
  BY <1>1 DEF Listed
<1>6. Begun(ms) = [i \in 1 .. Len(ms) |-> Entry(IF i = 1 THEN << >> ELSE <<",">>, ms[i])]
  BY <1>1 DEF Begun
<1>7. Listed(ms) \in Seq(Bytes) /\ Len(Listed(ms)) = Len(ms)
  <2>1. Listed(ms) \in [1 .. Len(ms) -> Bytes]
    BY <1>3, <1>5
  <2> QED
    BY <1>1, <2>1, FunctionIsSeq
<1>8. Begun(ms) \in Seq(Bytes) /\ Len(Begun(ms)) = Len(ms)
  <2>1. Begun(ms) \in [1 .. Len(ms) -> Bytes]
    BY <1>4, <1>6
  <2> QED
    BY <1>1, <2>1, FunctionIsSeq
<1> QED
  BY <1>1, <1>5, <1>6, <1>7, <1>8

\* The first member and the others.
LEMMA ListedFirst ==
  ASSUME NEW ms \in Pairs, ms # << >>
  PROVE  /\ ms[1] \in Bytes \X Bytes /\ Tail(ms) \in Pairs /\ Len(Tail(ms)) < Len(ms)
         /\ Len(Tail(ms)) \in Nat /\ Len(Tail(ms)) = Len(ms) - 1
         /\ \A i \in 1 .. Len(Tail(ms)) : i + 1 \in 1 .. Len(ms) /\ Tail(ms)[i] = ms[i + 1]
         /\ Listed(ms) # << >> /\ Head(Listed(ms)) = Entry(<<",">>, ms[1])
         /\ Tail(Listed(ms)) = Listed(Tail(ms))
         /\ Begun(ms) # << >> /\ Head(Begun(ms)) = Entry(<< >>, ms[1])
         /\ Tail(Begun(ms)) = Listed(Tail(ms))
<1>1. PICK t \in Pairs : /\ t = Tail(ms) /\ Len(t) = Len(ms) - 1 /\ Len(t) \in Nat /\ Len(ms) \in Nat
                         /\ 1 \in 1 .. Len(ms) /\ ms[1] \in Bytes \X Bytes
                         /\ \A i \in 1 .. Len(t) : i + 1 \in 1 .. Len(ms) /\ t[i] = ms[i + 1]
  <2>1. ms \in Seq(Bytes \X Bytes)
    BY DEF Pairs
  <2>2. /\ Len(ms) \in Nat /\ 1 \in 1 .. Len(ms) /\ ms[1] \in Bytes \X Bytes
        /\ Tail(ms) \in Seq(Bytes \X Bytes) /\ Len(Tail(ms)) = Len(ms) - 1 /\ Len(Tail(ms)) \in Nat
        /\ \A i \in 1 .. Len(ms) - 1 : i + 1 \in 1 .. Len(ms) /\ Tail(ms)[i] = ms[i + 1]
    BY <2>1, TailFacts
  <2>3. PICK t : t = Tail(ms)
    OBVIOUS
  <2>4. /\ t \in Pairs /\ Len(t) = Len(ms) - 1 /\ Len(t) \in Nat
        /\ \A i \in 1 .. Len(t) : i + 1 \in 1 .. Len(ms) /\ t[i] = ms[i + 1]
    BY <2>2, <2>3 DEF Pairs
  <2> QED
    BY <2>2, <2>3, <2>4, Zenon
<1>2. PICK l \in Seq(Bytes) : /\ l = Listed(ms) /\ Len(l) = Len(ms)
                              /\ \A i \in 1 .. Len(ms) : l[i] = Entry(<<",">>, ms[i])
  BY ListedTypes
<1>3. PICK b \in Seq(Bytes) : /\ b = Begun(ms) /\ Len(b) = Len(ms)
                              /\ \A i \in 1 .. Len(ms) : b[i] = Entry(IF i = 1 THEN << >> ELSE <<",">>, ms[i])
  BY ListedTypes
<1>4. PICK r \in Seq(Bytes) : /\ r = Listed(t) /\ Len(r) = Len(t)
                              /\ \A i \in 1 .. Len(t) : r[i] = Entry(<<",">>, t[i])
  BY ListedTypes
<1>5. \A i \in 1 .. Len(t) : i + 1 # 1 /\ i + 1 \in 1 .. Len(ms)
  BY <1>1
<1>6. \A i \in 1 .. Len(t) : l[i + 1] = r[i] /\ b[i + 1] = r[i]
  <2> SUFFICES ASSUME NEW i \in 1 .. Len(t) PROVE l[i + 1] = r[i] /\ b[i + 1] = r[i]
    OBVIOUS
  <2>1. PICK j : j = i + 1 /\ j # 1 /\ j \in 1 .. Len(ms) /\ t[i] = ms[j]
    BY <1>1, <1>5
  <2>2. l[j] = Entry(<<",">>, ms[j]) /\ b[j] = Entry(<<",">>, ms[j])
    BY <1>2, <1>3, <2>1
  <2>3. r[i] = Entry(<<",">>, ms[j])
    BY <1>4, <2>1
  <2> QED
    BY <2>1, <2>2, <2>3
<1>7. /\ l # << >> /\ Head(l) = l[1] /\ Tail(l) \in Seq(Bytes) /\ Len(Tail(l)) = Len(t)
      /\ \A i \in 1 .. Len(t) : Tail(l)[i] = l[i + 1]
  <2>1. l # << >>
    <3>1. Len(ms) \in Nat /\ 1 \in 1 .. Len(ms) /\ Len(l) = Len(ms)
      BY <1>1, <1>2, Zenon
    <3>2. Len(l) # 0
      BY <3>1
    <3> QED
      BY <3>2, NotEmpty
  <2>2. Len(l) - 1 = Len(t)
    BY <1>1, <1>2
  <2> QED
    BY <2>1, <2>2, TailFacts
<1>8. /\ b # << >> /\ Head(b) = b[1] /\ Tail(b) \in Seq(Bytes) /\ Len(Tail(b)) = Len(t)
      /\ \A i \in 1 .. Len(t) : Tail(b)[i] = b[i + 1]
  <2>1. b # << >>
    <3>1. Len(ms) \in Nat /\ 1 \in 1 .. Len(ms) /\ Len(b) = Len(ms)
      BY <1>1, <1>3, Zenon
    <3>2. Len(b) # 0
      BY <3>1
    <3> QED
      BY <3>2, NotEmpty
  <2>2. Len(b) - 1 = Len(t)
    BY <1>1, <1>3
  <2> QED
    BY <2>1, <2>2, TailFacts
<1>9. Tail(l) = r
  <2>1. \A i \in 1 .. Len(t) : Tail(l)[i] = r[i]
    BY <1>6, <1>7
  <2> QED
    BY <1>4, <1>7, <2>1, SeqEqual
<1>10. Tail(b) = r
  <2>1. \A i \in 1 .. Len(t) : Tail(b)[i] = r[i]
    BY <1>6, <1>8
  <2> QED
    BY <1>4, <1>8, <2>1, SeqEqual
<1>11. l[1] = Entry(<<",">>, ms[1]) /\ b[1] = Entry(<< >>, ms[1])
  BY <1>1, <1>2, <1>3
<1>12. Len(t) < Len(ms)
  BY <1>1
<1> QED
  BY <1>1, <1>2, <1>3, <1>4, <1>7, <1>8, <1>9, <1>10, <1>11, <1>12, Zenon

JoinsFive(m, q, l, v, c) ==
  /\ m \o (((q \o l) \o v) \o c) = m \o (q \o (l \o (v \o c)))
  /\ (((m \o q) \o l) \o v) \o c = m \o (q \o (l \o (v \o c)))

LEMMA FiveTokens ==
  ASSUME NEW m \in Tokens, NEW q \in Tokens, NEW l \in Tokens, NEW v \in Tokens, NEW c \in Tokens
  PROVE  JoinsFive(m, q, l, v, c)
<1>1. PICK ql, vc, mq \in Tokens : ql = q \o l /\ vc = v \o c /\ mq = m \o q
  BY JoiningTokens
<1>2. PICK qlv, lvc, mql \in Tokens : qlv = ql \o v /\ lvc = l \o vc /\ mql = mq \o l
  BY JoiningTokens
<1>3. PICK mqlv \in Tokens : mqlv = mql \o v
  BY JoiningTokens
<1>4. qlv \o c = ql \o vc
  <2>1. JoinsTokens(ql, v, c)
    BY ConcatTokens
  <2> QED
    BY <1>1, <1>2, <2>1, Zenon DEF JoinsTokens
<1>5. ql \o vc = q \o lvc
  <2>1. JoinsTokens(q, l, vc)
    BY ConcatTokens
  <2> QED
    BY <1>1, <1>2, <2>1, Zenon DEF JoinsTokens
<1>6. mqlv \o c = mql \o vc
  <2>1. JoinsTokens(mql, v, c)
    BY ConcatTokens
  <2> QED
    BY <1>1, <1>3, <2>1, Zenon DEF JoinsTokens
<1>7. mql \o vc = mq \o lvc
  <2>1. JoinsTokens(mq, l, vc)
    BY ConcatTokens
  <2> QED
    BY <1>2, <2>1, Zenon DEF JoinsTokens
<1>8. mq \o lvc = m \o (q \o lvc)
  <2>1. JoinsTokens(m, q, lvc)
    BY ConcatTokens
  <2> QED
    BY <1>1, <2>1, Zenon DEF JoinsTokens
<1> QED
  BY <1>1, <1>2, <1>3, <1>4, <1>5, <1>6, <1>7, <1>8, Zenon DEF JoinsFive

\* A member behind another one, and what closes the object.
LEMMA MemberWritten ==
  ASSUME NEW m \in Bytes \X Bytes, NEW value, Writes(m[2], value), NEW text, NEW close, Writes(text, close)
  PROVE  /\ Writes(Entry(<<",">>, m) \o text, <<Mark(",")>> \o MemberTokens(m[1], value, close))
         /\ Writes(<<"{">> \o (Entry(<< >>, m) \o text), <<Mark("{")>> \o MemberTokens(m[1], value, close))
<1>1. value \in Tokens /\ close \in Tokens /\ m[1] \in Bytes
  BY DEF Writes
<1>2. PICK q \in Tokens, s \in Bytes : q = <<Quoted(m[1])>> /\ s = str(m[1]) /\ Writes(s, q)
  <2>1. Writes(str(m[1]), <<Quoted(m[1])>>)
    BY <1>1, WritesString
  <2> QED
    BY <2>1 DEF Writes
<1>3. PICK l \in Tokens, c \in Bytes : l = <<Mark(":")>> /\ c = <<":">> /\ Writes(c, l)
  BY MarksAreWritten
<1>4. PICK g \in Tokens, b \in Bytes : g = <<Mark(",")>> /\ b = <<",">> /\ Writes(b, g)
  BY MarksAreWritten
<1>5. PICK o \in Tokens, d \in Bytes : o = <<Mark("{")>> /\ d = <<"{">> /\ Writes(d, o)
  BY MarksAreWritten
<1>6. Writes(((b \o s) \o c) \o m[2], ((g \o q) \o l) \o value)
  BY <1>2, <1>3, <1>4, WritesConcat
<1>7. Writes((s \o c) \o m[2], (q \o l) \o value)
  BY <1>2, <1>3, WritesConcat
<1>8. Entry(<<",">>, m) = ((b \o s) \o c) \o m[2]
  BY <1>2, <1>3, <1>4, Zenon DEF Entry
<1>9. Entry(<< >>, m) = (s \o c) \o m[2]
  <2>1. << >> \o s = s
    BY Joining DEF Bytes
  <2> QED
    BY <1>2, <1>3, <2>1, Zenon DEF Entry
<1>10. Writes((((b \o s) \o c) \o m[2]) \o text, (((g \o q) \o l) \o value) \o close)
  BY <1>6, WritesConcat
<1>11. Writes(d \o (((s \o c) \o m[2]) \o text), o \o (((q \o l) \o value) \o close))
  <2>1. Writes(((s \o c) \o m[2]) \o text, ((q \o l) \o value) \o close)
    BY <1>7, WritesConcat
  <2> QED
    BY <1>5, <2>1, WritesConcat
<1>12. (((g \o q) \o l) \o value) \o close = g \o (q \o (l \o (value \o close)))
  <2>1. JoinsFive(g, q, l, value, close)
    BY <1>1, FiveTokens
  <2> QED
    BY <2>1, Zenon DEF JoinsFive
<1>13. o \o (((q \o l) \o value) \o close) = o \o (q \o (l \o (value \o close)))
  <2>1. JoinsFive(o, q, l, value, close)
    BY <1>1, FiveTokens
  <2> QED
    BY <2>1, Zenon DEF JoinsFive
<1>14. MemberTokens(m[1], value, close) = q \o (l \o (value \o close))
  BY <1>2, <1>3, Zenon DEF MemberTokens
<1>15. Writes(Entry(<<",">>, m) \o text, <<Mark(",")>> \o MemberTokens(m[1], value, close))
  BY <1>4, <1>8, <1>10, <1>12, <1>14, Zenon
<1>16. Writes(<<"{">> \o (Entry(<< >>, m) \o text), <<Mark("{")>> \o MemberTokens(m[1], value, close))
  BY <1>5, <1>9, <1>11, <1>13, <1>14, Zenon
<1> QED
  BY <1>15, <1>16

\* A value for the name of every member.
Valued(vals, ms) == \A i \in 1 .. Len(ms) : Denotes(ms[i][2], vals[ms[i][1]])

Names(ms) == {ms[i][1] : i \in 1 .. Len(ms)}

Collected(vals, ms) == [n \in Names(ms) |-> JSON(vals[n].type, vals[n].value)]

CloseText(ms) == FlattenSeq(Listed(ms)) \o <<"}">>

LEMMA CollectedFirst ==
  ASSUME NEW ms \in Pairs, ms # << >>, NEW vals
  PROVE  /\ Collected(vals, ms) = Joined(ms[1][1], vals[ms[1][1]], Collected(vals, Tail(ms)))
         /\ Valued(vals, ms) => Denotes(ms[1][2], vals[ms[1][1]]) /\ Valued(vals, Tail(ms))
<1>1. PICK t \in Pairs : /\ t = Tail(ms) /\ Len(t) \in Nat /\ Len(ms) \in Nat /\ Len(t) = Len(ms) - 1
                         /\ \A i \in 1 .. Len(t) : i + 1 \in 1 .. Len(ms) /\ t[i] = ms[i + 1]
  BY ListedFirst, ListedTypes
<1>2. 1 \in 1 .. Len(ms) /\ \A i \in 1 .. Len(ms) : i = 1 \/ (i - 1 \in 1 .. Len(t) /\ (i - 1) + 1 = i)
  BY <1>1
<1>3. Names(ms) = {ms[1][1]} \cup Names(t)
  <2>1. ASSUME NEW n \in Names(ms) PROVE n \in {ms[1][1]} \cup Names(t)
    <3>1. PICK i \in 1 .. Len(ms) : n = ms[i][1]
      BY <2>1 DEF Names
    <3>2. CASE i = 1
      BY <3>1, <3>2
    <3>3. CASE i # 1
      <4>1. PICK j \in 1 .. Len(t) : j + 1 = i
        BY <1>2, <3>3
      <4>2. t[j] = ms[i]
        BY <1>1, <4>1
      <4> QED
        BY <3>1, <4>2 DEF Names
    <3> QED
      BY <3>2, <3>3
  <2>2. ASSUME NEW n \in {ms[1][1]} \cup Names(t) PROVE n \in Names(ms)
    <3>1. CASE n = ms[1][1]
      BY <1>2, <3>1 DEF Names
    <3>2. CASE n \in Names(t)
      <4>1. PICK i \in 1 .. Len(t) : n = t[i][1]
        BY <3>2 DEF Names
      <4>2. PICK j \in 1 .. Len(ms) : t[i] = ms[j]
        BY <1>1
      <4> QED
        BY <4>1, <4>2 DEF Names
    <3> QED
      BY <2>2, <3>1, <3>2
  <2> QED
    BY <2>1, <2>2
<1>4. Collected(vals, ms) = Joined(ms[1][1], vals[ms[1][1]], Collected(vals, t))
  BY <1>3 DEF Collected, Joined
<1>5. ASSUME Valued(vals, ms) PROVE Denotes(ms[1][2], vals[ms[1][1]]) /\ Valued(vals, t)
  <2>1. Denotes(ms[1][2], vals[ms[1][1]])
    BY <1>2, <1>5 DEF Valued
  <2>2. ASSUME NEW i \in 1 .. Len(t) PROVE Denotes(t[i][2], vals[t[i][1]])
    <3>1. PICK j \in 1 .. Len(ms) : t[i] = ms[j]
      BY <1>1
    <3> QED
      BY <1>5, <3>1 DEF Valued
  <2> QED
    BY <2>1, <2>2 DEF Valued
<1> QED
  BY <1>1, <1>4, <1>5

IsClosing(text, obj) == \E toks \in Tokens : Writes(text, toks) /\ Closes(obj, toks)

\* Induction over the number of members.
OverPairs == INSTANCE Recursion WITH
  Domain <- Pairs, Size <- BytesLength, Body <- NoBody, Good <- AnyValue

LEMMA ClosingDenotes ==
  ASSUME NEW vals
  PROVE  \A ms \in Pairs : Valued(vals, ms) => IsClosing(CloseText(ms), Collected(vals, ms))
<1> DEFINE S == {ms \in Pairs : Valued(vals, ms) => IsClosing(CloseText(ms), Collected(vals, ms))}
<1>1. ASSUME NEW ms \in Pairs, \A t \in Pairs : BytesLength(t) < BytesLength(ms) => t \in S
      PROVE  ms \in S
  <2> SUFFICES ASSUME Valued(vals, ms) PROVE IsClosing(CloseText(ms), Collected(vals, ms))
    OBVIOUS
  <2>1. PICK b \in Bytes, m \in Tokens : b = <<"}">> /\ m = <<Mark("}")>> /\ Writes(b, m)
    BY MarksAreWritten
  <2>2. CASE ms = << >>
    <3>1. Len(ms) = 0 /\ Names(ms) = {}
      BY <2>2 DEF Names
    <3>2. Listed(ms) = << >>
      <4>1. Listed(ms) \in Seq(Bytes) /\ Len(Listed(ms)) = 0
        BY <3>1, ListedTypes
      <4> QED
        BY <4>1, NotEmpty, EmptySeq
    <3>3. CloseText(ms) = b
      <4>1. CloseText(ms) = << >> \o b
        BY <2>1, <3>2, FlattenNone, Zenon DEF CloseText
      <4> QED
        BY <4>1, Joining DEF Bytes
    <3>4. Closes(Collected(vals, ms), m)
      <4>1. PICK obj : obj = Collected(vals, ms) /\ DOMAIN obj = {}
        BY <3>1 DEF Collected
      <4> QED
        BY <2>1, <4>1, ClosesNone
    <3> QED
      BY <2>1, <3>3, <3>4 DEF IsClosing
  <2>3. CASE ms # << >>
    <3> HIDE DEF S
    <3>1. PICK t \in Pairs : t = Tail(ms) /\ t \in S
      BY <1>1, <2>3, ListedFirst DEF BytesLength
    <3>2. PICK first \in Bytes \X Bytes : first = ms[1]
      BY <2>3, ListedFirst
    <3>3. Denotes(first[2], vals[first[1]]) /\ IsClosing(CloseText(t), Collected(vals, t))
      BY <2>3, <3>1, <3>2, CollectedFirst DEF S
    <3>4. PICK value \in Tokens : Writes(first[2], value) /\ Parses(vals[first[1]], value)
      BY <3>3 DEF Denotes
    <3>5. PICK close \in Tokens : Writes(CloseText(t), close) /\ Closes(Collected(vals, t), close)
      BY <3>3 DEF IsClosing
    <3>6. PICK k : /\ k = <<Mark(",")>> \o MemberTokens(first[1], value, close)
                   /\ Writes(Entry(<<",">>, first) \o CloseText(t), k)
                   /\ Closes(Joined(first[1], vals[first[1]], Collected(vals, t)), k)
      <4>1. first[1] \in Bytes
        OBVIOUS
      <4>2. Writes(Entry(<<",">>, first) \o CloseText(t), <<Mark(",")>> \o MemberTokens(first[1], value, close))
        BY <3>4, <3>5, MemberWritten
      <4>3. Closes(Joined(first[1], vals[first[1]], Collected(vals, t)),
                   <<Mark(",")>> \o MemberTokens(first[1], value, close))
        BY <3>4, <3>5, <4>1, ClosesMore
      <4> QED
        BY <4>2, <4>3
    <3>7. CloseText(ms) = Entry(<<",">>, first) \o CloseText(t)
      <4>1. PICK l \in Seq(Bytes) : l = Listed(ms) /\ l # << >> /\ Head(l) = Entry(<<",">>, first) /\ Tail(l) = Listed(t)
        BY <2>3, <3>1, <3>2, ListedFirst, ListedTypes
      <4>2. FlattenSeq(l) = Head(l) \o FlattenSeq(Tail(l))
        BY <4>1, FlattenFirst DEF Bytes
      <4>3. PICK e \in Bytes : e = Entry(<<",">>, first)
        BY MarksAreWritten, EntryIsBytes
      <4>4. PICK f \in Bytes : f = FlattenSeq(Listed(t))
        BY ListedTypes, FlattenType DEF Bytes
      <4>5. (e \o f) \o b = e \o (f \o b)
        <5>1. Cat(Cat(e, f), b) = Cat(e, Cat(f, b))
          BY CatBytes
        <5> QED
          BY <5>1 DEF Cat
      <4> QED
        BY <2>1, <4>1, <4>2, <4>3, <4>4, <4>5, Zenon DEF CloseText
    <3>8. Collected(vals, ms) = Joined(first[1], vals[first[1]], Collected(vals, t))
      BY <2>3, <3>1, <3>2, CollectedFirst
    <3>9. k \in Tokens
      BY <3>6 DEF Closes
    <3> QED
      BY <3>6, <3>7, <3>8, <3>9, Zenon DEF IsClosing
  <2> QED
    BY <2>2, <2>3
<1>2. \A ms \in Pairs : ms \in S
  <2>1. \A ms \in Pairs : BytesLength(ms) \in Nat
    BY DEF BytesLength, Pairs
  <2> HIDE DEF S
  <2> QED
    BY <1>1, <2>1, OverPairs!OnSmaller
<1> QED
  BY <1>2

\* What Object writes is read as the function from the names to the values.
LEMMA ObjectDenotes ==
  ASSUME NEW vals, NEW ms \in Pairs, ms # << >>, Valued(vals, ms)
  PROVE  Denotes(Object(ms), JSON("object", Collected(vals, ms)))
<1>1. PICK t \in Pairs : t = Tail(ms)
  BY ListedFirst
<1>2. PICK first \in Bytes \X Bytes : first = ms[1] /\ first[1] \in Bytes
  BY ListedFirst
<1>3. Denotes(first[2], vals[first[1]]) /\ IsClosing(CloseText(t), Collected(vals, t))
  BY <1>1, <1>2, CollectedFirst, ClosingDenotes
<1>4. PICK value \in Tokens : Writes(first[2], value) /\ Parses(vals[first[1]], value)
  BY <1>3 DEF Denotes
<1>5. PICK close \in Tokens : Writes(CloseText(t), close) /\ Closes(Collected(vals, t), close)
  BY <1>3 DEF IsClosing
<1>6. Writes(<<"{">> \o (Entry(<< >>, first) \o CloseText(t)), <<Mark("{")>> \o MemberTokens(first[1], value, close))
  BY <1>4, <1>5, MemberWritten
<1>7. Parses(JSON("object", Joined(first[1], vals[first[1]], Collected(vals, t))),
             <<Mark("{")>> \o MemberTokens(first[1], value, close))
  BY <1>2, <1>4, <1>5, ParsesObject
<1>8. Collected(vals, ms) = Joined(first[1], vals[first[1]], Collected(vals, t))
  BY <1>1, <1>2, CollectedFirst
<1>9. Object(ms) = <<"{">> \o (Entry(<< >>, first) \o CloseText(t))
  <2>1. PICK l \in Seq(Bytes) : l = Begun(ms) /\ l # << >> /\ Head(l) = Entry(<< >>, first) /\ Tail(l) = Listed(t)
    BY <1>1, <1>2, ListedFirst, ListedTypes
  <2>2. FlattenSeq(l) = Head(l) \o FlattenSeq(Tail(l))
    BY <2>1, FlattenFirst DEF Bytes
  <2>3. PICK e \in Bytes : e = Entry(<< >>, first)
    BY EntryIsBytes, << >> \in Bytes DEF Bytes
  <2>4. PICK f \in Bytes : f = FlattenSeq(Listed(t))
    BY ListedTypes, FlattenType DEF Bytes
  <2>5. PICK o, b \in Bytes : o = <<"{">> /\ b = <<"}">>
    BY MarksAreWritten
  <2>6. (o \o (e \o f)) \o b = o \o (e \o (f \o b))
    <3>1. Cat(Cat(o, Cat(e, f)), b) = Cat(o, Cat(e, Cat(f, b)))
      BY CatBytes
    <3> QED
      BY <3>1 DEF Cat
  <2>7. Object(ms) = <<"{">> \o FlattenSeq(l) \o <<"}">>
    BY <2>1, Zenon DEF Object, Begun, Entry
  <2> QED
    BY <2>1, <2>2, <2>3, <2>4, <2>5, <2>6, <2>7, Zenon DEF CloseText
<1>10. <<Mark("{")>> \o MemberTokens(first[1], value, close) \in Tokens
  BY <1>7 DEF Parses
<1> QED
  BY <1>6, <1>7, <1>8, <1>9, <1>10, Zenon DEF Denotes

LEMMA ObjectNone == Denotes(Object(<< >>), JSON("object", << >>))
<1>1. PICK o, b \in Bytes, l, m \in Tokens :
        /\ o = <<"{">> /\ b = <<"}">> /\ l = <<Mark("{")>> /\ m = <<Mark("}")>>
        /\ Writes(o, l) /\ Writes(b, m)
  BY MarksAreWritten
<1>2. Writes(o \o b, l \o m) /\ l \o m \in Tokens
  BY <1>1, WritesConcat, JoiningTokens
<1>3. Object(<< >>) = o \o b
  <2>1. [i \in DOMAIN << >> |-> Entry(IF i = 1 THEN << >> ELSE <<",">>, << >>[i])] = << >>
    <3>1. << >> \in Pairs
      BY DEF Pairs
    <3>2. Begun(<< >>) \in Seq(Bytes) /\ Len(Begun(<< >>)) = 0
      BY <3>1, ListedTypes
    <3>3. Begun(<< >>) = << >>
      BY <3>2, NotEmpty
    <3> QED
      BY <3>3 DEF Begun
  <2>2. Object(<< >>) = <<"{">> \o << >> \o <<"}">>
    BY <2>1, FlattenNone, Zenon DEF Object, Entry
  <2>3. o \o << >> = o
    BY Joining DEF Bytes
  <2> QED
    BY <1>1, <2>2, <2>3, Zenon
<1>4. Parses(JSON("object", << >>), l \o m)
  BY <1>1, ParsesEmpty
<1> QED
  BY <1>2, <1>3, <1>4 DEF Denotes

-----------------------------------------------------------------------------
(* Objects by the names of their members, in some order.                   *)

Listing(order, texts) == [i \in 1 .. Len(order) |-> <<<<order[i]>>, texts[order[i]]>>]

\* The object of these names, whatever their order.
Fields(names, vals) == [n \in {<<c>> : c \in names} |-> vals[n[1]]]

FieldsAre(names, vals) ==
  /\ \A c \in names : <<c>> \in DOMAIN Fields(names, vals) /\ Fields(names, vals)[<<c>>] = vals[c]
  /\ \A n \in DOMAIN Fields(names, vals) : \E c \in names : n = <<c>>

LEMMA FieldsFacts ==
  ASSUME NEW names, NEW vals
  PROVE  FieldsAre(names, vals)
<1>1. \A c : <<c>>[1] = c
  OBVIOUS
<1>2. DOMAIN Fields(names, vals) = {<<c>> : c \in names}
  BY DEF Fields
<1>3. \A n \in {<<c>> : c \in names} : Fields(names, vals)[n] = vals[n[1]]
  BY DEF Fields
<1> QED
  BY <1>1, <1>2, <1>3 DEF FieldsAre

\* What is written with these members is read as this object.
LEMMA ListingDenotes ==
  ASSUME NEW order \in Seq(Symbols), NEW names, names = {order[i] : i \in 1 .. Len(order)},
         NEW texts, NEW vals,
         \A c \in names : Denotes(texts[c], vals[c]) /\ JSON(vals[c].type, vals[c].value) = vals[c]
  PROVE  Denotes(Object(Listing(order, texts)), JSON("object", Fields(names, vals)))
<1> DEFINE ms == Listing(order, texts)
           obj == Fields(names, vals)
<1>1. Len(order) \in Nat /\ \A i \in 1 .. Len(order) : order[i] \in Symbols /\ order[i] \in names
  OBVIOUS
<1>2. \A i \in 1 .. Len(order) : <<order[i]>> \in Bytes /\ texts[order[i]] \in Bytes
  BY <1>1, Joining DEF Bytes, Denotes, Writes
<1>3. ms \in Pairs /\ Len(ms) = Len(order)
  <2>1. ms \in [1 .. Len(order) -> Bytes \X Bytes]
    BY <1>2 DEF Listing
  <2> HIDE DEF ms
  <2> QED
    BY <1>1, <2>1, FunctionIsSeq DEF Pairs
<1>4. \A i \in 1 .. Len(order) : ms[i] = <<<<order[i]>>, texts[order[i]]>>
  BY DEF Listing
<1>5. \A i \in 1 .. Len(order) : ms[i][1] = <<order[i]>> /\ ms[i][2] = texts[order[i]] /\ obj[ms[i][1]] = vals[order[i]]
  <2> HIDE DEF ms, obj
  <2>1. \A c \in names : obj[<<c>>] = vals[c]
    <3>1. FieldsAre(names, vals)
      BY FieldsFacts
    <3> QED
      BY <3>1, Zenon DEF FieldsAre, obj
  <2> QED
    BY <1>1, <1>4, <2>1
<1> HIDE DEF ms, obj
<1>6. Valued(obj, ms)
  BY <1>1, <1>3, <1>5 DEF Valued
<1>7. Collected(obj, ms) = obj
  <2>1. Names(ms) = {<<c>> : c \in names}
    <3>1. Names(ms) = {ms[i][1] : i \in 1 .. Len(order)}
      BY <1>3 DEF Names
    <3>2. \A n \in Names(ms) : n \in {<<c>> : c \in names}
      <4>1. ASSUME NEW n \in Names(ms) PROVE n \in {<<c>> : c \in names}
        <5>1. PICK i \in 1 .. Len(order) : n = ms[i][1]
          BY <3>1, <4>1
        <5>2. PICK c \in names : n = <<c>>
          BY <1>1, <1>5, <5>1, Zenon
        <5> QED
          BY <5>2
      <4> QED
        BY <4>1
    <3>3. \A n \in {<<c>> : c \in names} : n \in Names(ms)
      <4>1. ASSUME NEW n \in {<<c>> : c \in names} PROVE n \in Names(ms)
        <5>1. PICK c \in names : n = <<c>>
          BY <4>1
        <5>2. PICK i \in 1 .. Len(order) : c = order[i]
          BY <5>1
        <5> QED
          BY <1>5, <3>1, <5>1, <5>2
      <4> QED
        BY <4>1
    <3> QED
      BY <3>2, <3>3
  <2>2. obj = [n \in {<<c>> : c \in names} |-> obj[n]]
    BY DEF obj, Fields
  <2>3. \A n \in {<<c>> : c \in names} : JSON(obj[n].type, obj[n].value) = obj[n]
    <3>1. FieldsAre(names, vals)
      BY FieldsFacts
    <3>2. \A c \in names : obj[<<c>>] = vals[c]
      BY <3>1, Zenon DEF FieldsAre, obj
    <3> QED
      BY <3>2
  <2> QED
    BY <2>1, <2>2, <2>3 DEF Collected
<1>8. CASE ms # << >>
  BY <1>3, <1>6, <1>7, <1>8, ObjectDenotes DEF ms, obj
<1>9. CASE ms = << >>
  <2>1. Len(order) = 0
    BY <1>3, <1>9
  <2>2. names = {}
    BY <2>1
  <2>3. obj = << >>
    <3>1. obj \in [1 .. 0 -> Bytes]
      <4>1. 1 .. 0 = {}
        OBVIOUS
      <4>2. {<<c>> : c \in names} = {}
        BY <2>2
      <4>3. obj \in [{} -> Bytes]
        BY <4>2 DEF obj, Fields
      <4> QED
        BY <4>1, <4>3
    <3>2. obj \in Seq(Bytes) /\ Len(obj) = 0
      BY <3>1, FunctionIsSeq
    <3> QED
      BY <3>2, NotEmpty
  <2> QED
    BY <1>9, <2>3, ObjectNone DEF ms, obj
<1> QED
  BY <1>8, <1>9

Entitlements == [kind : Bytes, expiresAt : {Nil} \cup Instants]

TimeText(t) == IF t = Nil THEN <<"null">> ELSE formatTime(t)

TimeValue(t) == IF t = Nil THEN JSON("null", Nil) ELSE JSON("string", <<t.second>>)

LEMMA JSONAgain ==
  ASSUME NEW type, NEW value
  PROVE  JSON(JSON(type, value).type, JSON(type, value).value) = JSON(type, value)
BY DEF JSON

LEMMA TimeDenotes ==
  ASSUME NEW t \in {Nil} \cup Instants
  PROVE  /\ Denotes(TimeText(t), TimeValue(t)) /\ JSON(TimeValue(t).type, TimeValue(t).value) = TimeValue(t)
         /\ t # Nil => <<t.second>> \in Bytes
<1>1. CASE t = Nil
  BY <1>1, DenotesLiteral, JSONAgain, Zenon DEF TimeText, TimeValue
<1>2. CASE t # Nil
  <2>1. t.second \in Symbols
    BY <1>2 DEF Instants
  <2>2. PICK s \in Bytes : s = <<t.second>>
    BY <2>1, Joining DEF Bytes
  <2>3. Denotes(str(s), JSON("string", s))
    BY DenotesString
  <2> QED
    BY <1>2, <2>2, <2>3, JSONAgain, Zenon DEF TimeText, TimeValue, formatTime
<1> QED
  BY <1>1, <1>2

EntitlementNames == {"expiresAt", "kind"}

EntitlementTexts(e) == [expiresAt |-> TimeText(e.expiresAt), kind |-> str(e.kind)]

EntitlementValues(e) == [expiresAt |-> TimeValue(e.expiresAt), kind |-> JSON("string", e.kind)]

EntitlementObject(e) == Fields(EntitlementNames, EntitlementValues(e))

\* A pair of symbols.
LEMMA OrderOfTwo ==
  ASSUME NEW a \in Symbols, NEW b \in Symbols
  PROVE  <<a, b>> \in Seq(Symbols) /\ Len(<<a, b>>) = 2 /\ {<<a, b>>[i] : i \in 1 .. 2} = {a, b}
OBVIOUS

LEMMA EntitlementDenotes ==
  ASSUME NEW e \in Entitlements
  PROVE  Denotes(Object(canonicalEntitlement(e)), JSON("object", EntitlementObject(e)))
<1>1. PICK order \in Seq(Symbols) : order = <<"expiresAt", "kind">> /\ Len(order) = 2
                                    /\ EntitlementNames = {order[i] : i \in 1 .. Len(order)}
  <2>1. "expiresAt" \in Symbols /\ "kind" \in Symbols
    BY SymbolsAssumption DEF Named
  <2> QED
    BY <2>1, OrderOfTwo DEF EntitlementNames
<1>2. e.kind \in Bytes /\ e.expiresAt \in {Nil} \cup Instants
  BY DEF Entitlements
<1> DEFINE texts == EntitlementTexts(e)
           vals == EntitlementValues(e)
<1>3. \A c \in EntitlementNames : Denotes(texts[c], vals[c]) /\ JSON(vals[c].type, vals[c].value) = vals[c]
  <2>1. /\ texts["expiresAt"] = TimeText(e.expiresAt) /\ texts["kind"] = str(e.kind)
        /\ vals["expiresAt"] = TimeValue(e.expiresAt) /\ vals["kind"] = JSON("string", e.kind)
    BY DEF EntitlementTexts, EntitlementValues
  <2>2. Denotes(str(e.kind), JSON("string", e.kind))
    BY <1>2, DenotesString
  <2> HIDE DEF texts, vals
  <2>3. /\ Denotes(texts["kind"], vals["kind"])
        /\ JSON(vals["kind"].type, vals["kind"].value) = vals["kind"]
    BY <2>1, <2>2, JSONAgain, Zenon
  <2>4. /\ Denotes(texts["expiresAt"], vals["expiresAt"])
        /\ JSON(vals["expiresAt"].type, vals["expiresAt"].value) = vals["expiresAt"]
    BY <1>2, <2>1, TimeDenotes, Zenon
  <2> QED
    BY <2>3, <2>4, Zenon DEF EntitlementNames
<1>4. canonicalEntitlement(e) = Listing(order, texts)
  <2>1. Listing(order, texts) = << <<<<order[1]>>, texts[order[1]]>>, <<<<order[2]>>, texts[order[2]]>> >>
    BY <1>1 DEF Listing
  <2>2. order[1] = "expiresAt" /\ order[2] = "kind"
    BY <1>1
  <2>3. texts["expiresAt"] = TimeText(e.expiresAt) /\ texts["kind"] = str(e.kind)
    BY DEF EntitlementTexts
  <2> HIDE DEF texts
  <2> QED
    BY <2>1, <2>2, <2>3, Zenon DEF canonicalEntitlement, TimeText
<1> HIDE DEF texts, vals
<1>5. Denotes(Object(Listing(order, texts)), JSON("object", Fields(EntitlementNames, vals)))
  BY <1>1, <1>3, ListingDenotes
<1> QED
  BY <1>4, <1>5, Zenon DEF EntitlementObject, vals

LEMMA FlattenTwo ==
  ASSUME NEW S, NEW a \in Seq(S), NEW b \in Seq(S)
  PROVE  FlattenSeq(<<a, b>>) = a \o b
<1>1. <<a, b>> \in Seq(Seq(S)) /\ <<b>> \in Seq(Seq(S)) /\ <<a, b>> = <<a>> \o <<b>>
  BY TwoSymbols
<1>2. <<a, b>> # << >> /\ Head(<<a, b>>) = a /\ Tail(<<a, b>>) = <<b>> /\ << >> \in Seq(Seq(S))
  BY <1>1, PutBefore
<1>3. <<b>> # << >> /\ Head(<<b>>) = b /\ Tail(<<b>>) = << >>
  OBVIOUS
<1>4. FlattenSeq(<<b>>) = b
  <2>1. FlattenSeq(<<b>>) = b \o << >>
    BY <1>1, <1>3, FlattenFirst, FlattenNone
  <2> QED
    BY <2>1, Joining
<1>5. FlattenSeq(<<a, b>>) = Head(<<a, b>>) \o FlattenSeq(Tail(<<a, b>>))
  BY <1>1, <1>2, FlattenFirst
<1> QED
  BY <1>2, <1>4, <1>5

\* The modules that a certificate names.
ModuleNames(ents) == {c \in {"downloads", "tools"} : <<c>> \in DOMAIN ents}

LEMMA ModulesAreNamed ==
  ASSUME NEW ents
  PROVE  /\ Modules(ents) \in Seq(Symbols)
         /\ ModuleNames(ents) = {Modules(ents)[i] : i \in 1 .. Len(Modules(ents))}
<1> DEFINE a == IF <<"downloads">> \in DOMAIN ents THEN <<"downloads">> ELSE << >>
           b == IF <<"tools">> \in DOMAIN ents THEN <<"tools">> ELSE << >>
<1>1. "downloads" \in Symbols /\ "tools" \in Symbols
  BY SymbolsAssumption DEF Named
<1>2. a \in Seq(Symbols) /\ b \in Seq(Symbols)
  BY <1>1, Joining
<1>3. Modules(ents) = a \o b
  <2>1. [i \in DOMAIN ModuleOrder |-> IF <<ModuleOrder[i]>> \in DOMAIN ents THEN <<ModuleOrder[i]>> ELSE << >>]
          = <<a, b>>
    BY DEF ModuleOrder
  <2> HIDE DEF a, b
  <2>2. FlattenSeq(<<a, b>>) = a \o b
    BY <1>2, FlattenTwo
  <2> QED
    BY <2>1, <2>2, Zenon DEF Modules
<1>4. CASE <<"downloads">> \in DOMAIN ents /\ <<"tools">> \in DOMAIN ents
  <2>1. Modules(ents) = <<"downloads", "tools">>
    BY <1>1, <1>3, <1>4, TwoSymbols
  <2>2. ModuleNames(ents) = {"downloads", "tools"}
    BY <1>4 DEF ModuleNames
  <2> QED
    BY <1>1, <2>1, <2>2, OrderOfTwo
<1>5. CASE <<"downloads">> \in DOMAIN ents /\ <<"tools">> \notin DOMAIN ents
  <2>1. Modules(ents) = <<"downloads">>
    BY <1>1, <1>2, <1>3, <1>5, Joining
  <2>2. ModuleNames(ents) = {"downloads"}
    BY <1>5 DEF ModuleNames
  <2> QED
    BY <1>1, <2>1, <2>2
<1>6. CASE <<"downloads">> \notin DOMAIN ents /\ <<"tools">> \in DOMAIN ents
  <2>1. Modules(ents) = <<"tools">>
    BY <1>1, <1>2, <1>3, <1>6, Joining
  <2>2. ModuleNames(ents) = {"tools"}
    BY <1>6 DEF ModuleNames
  <2> QED
    BY <1>1, <2>1, <2>2
<1>7. CASE <<"downloads">> \notin DOMAIN ents /\ <<"tools">> \notin DOMAIN ents
  <2>1. Modules(ents) = << >>
    BY <1>1, <1>2, <1>3, <1>7, Joining
  <2>2. ModuleNames(ents) = {}
    BY <1>7 DEF ModuleNames
  <2>3. Len(Modules(ents)) = 0 /\ << >> \in Seq(Symbols)
    BY <2>1
  <2> QED
    BY <2>1, <2>2, <2>3
<1> QED
  BY <1>4, <1>5, <1>6, <1>7

ModuleTexts(ents) == [c \in ModuleNames(ents) |-> Object(canonicalEntitlement(ents[<<c>>]))]

ModuleValues(ents) == [c \in ModuleNames(ents) |-> JSON("object", EntitlementObject(ents[<<c>>]))]

ModulesObject(ents) == Fields(ModuleNames(ents), ModuleValues(ents))

LEMMA ModulesDenote ==
  ASSUME NEW ents, ents \in [DOMAIN ents -> Entitlements]
  PROVE  Denotes(Object(Listing(Modules(ents), ModuleTexts(ents))), JSON("object", ModulesObject(ents)))
<1>1. ASSUME NEW c \in ModuleNames(ents)
      PROVE  /\ Denotes(ModuleTexts(ents)[c], ModuleValues(ents)[c])
             /\ JSON(ModuleValues(ents)[c].type, ModuleValues(ents)[c].value) = ModuleValues(ents)[c]
  <2>1. PICK e \in Entitlements : e = ents[<<c>>]
    BY DEF ModuleNames
  <2>2. Denotes(Object(canonicalEntitlement(e)), JSON("object", EntitlementObject(e)))
    BY EntitlementDenotes
  <2>3. ModuleTexts(ents)[c] = Object(canonicalEntitlement(e)) /\ ModuleValues(ents)[c] = JSON("object", EntitlementObject(e))
    BY <2>1 DEF ModuleTexts, ModuleValues
  <2> QED
    BY <2>2, <2>3, JSONAgain, Zenon
<1>2. PICK order \in Seq(Symbols) : order = Modules(ents) /\ ModuleNames(ents) = {order[i] : i \in 1 .. Len(order)}
  BY ModulesAreNamed
<1>3. Denotes(Object(Listing(order, ModuleTexts(ents))), JSON("object", Fields(ModuleNames(ents), ModuleValues(ents))))
  BY <1>1, <1>2, ListingDenotes
<1> QED
  BY <1>2, <1>3, Zenon DEF ModulesObject

-----------------------------------------------------------------------------
(* The text of a certificate.                                              *)

MemberNames == {"certId", "deviceToken", "entitlements", "fingerprintId", "issuedAt", "licenseId",
                "signingKeyId", "v"}

MemberOrder == <<"certId", "deviceToken", "entitlements", "fingerprintId", "issuedAt", "licenseId",
                 "signingKeyId", "v">>

LicenseText(l) == IF l = Nil THEN <<"null">> ELSE str(l)

LicenseValue(l) == IF l = Nil THEN JSON("null", Nil) ELSE JSON("string", l)

ModuleListing(ents) == Listing(Modules(ents), ModuleTexts(ents))

MemberTexts(p) ==
  [certId |-> str(p.certId), deviceToken |-> str(p.deviceToken),
   entitlements |-> Object(ModuleListing(p.entitlements)), fingerprintId |-> str(p.fingerprintId),
   issuedAt |-> formatTime(p.issuedAt), licenseId |-> LicenseText(p.licenseId),
   signingKeyId |-> str(p.signingKeyId), v |-> <<p.v>>]

MemberValues(p) ==
  [certId |-> JSON("string", p.certId), deviceToken |-> JSON("string", p.deviceToken),
   entitlements |-> JSON("object", ModulesObject(p.entitlements)),
   fingerprintId |-> JSON("string", p.fingerprintId),
   issuedAt |-> JSON("string", <<p.issuedAt.second>>), licenseId |-> LicenseValue(p.licenseId),
   signingKeyId |-> JSON("string", p.signingKeyId), v |-> JSON("number", "1")]

PayloadObject(p) == Fields(MemberNames, MemberValues(p))

LEMMA OrderOfMembers ==
  /\ MemberOrder \in Seq(Symbols) /\ Len(MemberOrder) = 8
  /\ MemberNames = {MemberOrder[i] : i \in 1 .. 8}
<1>1. /\ "certId" \in Symbols /\ "deviceToken" \in Symbols /\ "entitlements" \in Symbols
      /\ "fingerprintId" \in Symbols /\ "issuedAt" \in Symbols /\ "licenseId" \in Symbols
      /\ "signingKeyId" \in Symbols /\ "v" \in Symbols
  BY SymbolsAssumption DEF Named
<1>2. MemberOrder \in Seq(Symbols) /\ Len(MemberOrder) = 8
  BY <1>1 DEF MemberOrder
<1>3. \A i \in 1 .. 8 : i = 1 \/ i = 2 \/ i = 3 \/ i = 4 \/ i = 5 \/ i = 6 \/ i = 7 \/ i = 8
  OBVIOUS
<1>4. /\ MemberOrder[1] = "certId" /\ MemberOrder[2] = "deviceToken" /\ MemberOrder[3] = "entitlements"
      /\ MemberOrder[4] = "fingerprintId" /\ MemberOrder[5] = "issuedAt" /\ MemberOrder[6] = "licenseId"
      /\ MemberOrder[7] = "signingKeyId" /\ MemberOrder[8] = "v"
  BY DEF MemberOrder
<1>5. 1 \in 1 .. 8 /\ 2 \in 1 .. 8 /\ 3 \in 1 .. 8 /\ 4 \in 1 .. 8 /\ 5 \in 1 .. 8 /\ 6 \in 1 .. 8 /\ 7 \in 1 .. 8 /\ 8 \in 1 .. 8
  OBVIOUS
<1>6. \A i \in 1 .. 8 : MemberOrder[i] \in MemberNames
  BY <1>3, <1>4 DEF MemberNames
<1>7. \A c \in MemberNames : \E i \in 1 .. 8 : MemberOrder[i] = c
  <2>1. ASSUME NEW c \in MemberNames PROVE \E i \in 1 .. 8 : MemberOrder[i] = c
    <3>1. \/ c = "certId" \/ c = "deviceToken" \/ c = "entitlements" \/ c = "fingerprintId"
          \/ c = "issuedAt" \/ c = "licenseId" \/ c = "signingKeyId" \/ c = "v"
      BY DEF MemberNames
    <3> QED
      BY <1>4, <1>5, <3>1, Zenon
  <2> QED
    BY <2>1
<1> QED
  BY <1>2, <1>6, <1>7

LEMMA ModuleListingIs ==
  ASSUME NEW ents
  PROVE  [i \in DOMAIN Modules(ents) |->
            LET m == <<Modules(ents)[i]>> IN <<m, Object(canonicalEntitlement(ents[m]))>>] = ModuleListing(ents)
<1>1. PICK order \in Seq(Symbols) : order = Modules(ents) /\ ModuleNames(ents) = {order[i] : i \in 1 .. Len(order)}
  BY ModulesAreNamed
<1>2. DOMAIN order = 1 .. Len(order)
  OBVIOUS
<1>3. \A i \in 1 .. Len(order) : ModuleTexts(ents)[order[i]] = Object(canonicalEntitlement(ents[<<order[i]>>]))
  BY <1>1 DEF ModuleTexts
<1>4. [i \in DOMAIN order |-> LET m == <<order[i]>> IN <<m, Object(canonicalEntitlement(ents[m]))>>]
        = Listing(order, ModuleTexts(ents))
  BY <1>2, <1>3 DEF Listing
<1> QED
  BY <1>1, <1>4, Zenon DEF ModuleListing

LEMMA MembersAreListed ==
  ASSUME NEW p
  PROVE  /\ Members(p) = Listing(MemberOrder, MemberTexts(p))
         /\ Reverse(Members(p)) = Listing(Reverse(MemberOrder), MemberTexts(p))
<1> DEFINE texts == MemberTexts(p)
<1>1. /\ texts["certId"] = str(p.certId) /\ texts["deviceToken"] = str(p.deviceToken)
      /\ texts["entitlements"] = Object(ModuleListing(p.entitlements))
      /\ texts["fingerprintId"] = str(p.fingerprintId) /\ texts["issuedAt"] = formatTime(p.issuedAt)
      /\ texts["licenseId"] = LicenseText(p.licenseId)
      /\ texts["signingKeyId"] = str(p.signingKeyId) /\ texts["v"] = <<p.v>>
  BY DEF MemberTexts
<1> HIDE DEF texts
<1>2. Members(p) = <<<<<<"certId">>, texts["certId"]>>, <<<<"deviceToken">>, texts["deviceToken"]>>,
                     <<<<"entitlements">>, texts["entitlements"]>>,
                     <<<<"fingerprintId">>, texts["fingerprintId"]>>,
                     <<<<"issuedAt">>, texts["issuedAt"]>>, <<<<"licenseId">>, texts["licenseId"]>>,
                     <<<<"signingKeyId">>, texts["signingKeyId"]>>, <<<<"v">>, texts["v"]>>>>
  BY <1>1, ModuleListingIs, Zenon DEF Members, LicenseText
<1>3. /\ MemberOrder[1] = "certId" /\ MemberOrder[2] = "deviceToken" /\ MemberOrder[3] = "entitlements"
      /\ MemberOrder[4] = "fingerprintId" /\ MemberOrder[5] = "issuedAt" /\ MemberOrder[6] = "licenseId"
      /\ MemberOrder[7] = "signingKeyId" /\ MemberOrder[8] = "v"
  BY DEF MemberOrder
<1>4. Len(MemberOrder) = 8
  BY OrderOfMembers
<1>5. Members(p) = Listing(MemberOrder, texts)
  <2>1. Listing(MemberOrder, texts) = [i \in 1 .. 8 |-> <<<<MemberOrder[i]>>, texts[MemberOrder[i]]>>]
    BY <1>4 DEF Listing
  <2> QED
    BY <1>2, <1>3, <2>1
<1>6. Reverse(Members(p)) = Listing(Reverse(MemberOrder), texts)
  <2>1. PICK order \in Seq(Symbols) : /\ order = MemberOrder /\ Len(order) = 8
                                      /\ \A i \in 1 .. 8 : order[i] \in Symbols
    <3>1. \A l \in Seq(Symbols) : \A i \in 1 .. Len(l) : l[i] \in Symbols
      OBVIOUS
    <3>2. MemberOrder \in Seq(Symbols) /\ Len(MemberOrder) = 8
      BY OrderOfMembers
    <3>3. \A i \in 1 .. Len(MemberOrder) : MemberOrder[i] \in Symbols
      BY <3>1, <3>2, Zenon
    <3> QED
      BY <3>2, <3>3
  <2>2. PICK l : l = Listing(order, texts) /\ l = Members(p)
    BY <1>5, <2>1
  <2>3. l \in Seq(Bytes \X {texts[order[i]] : i \in 1 .. 8}) /\ Len(l) = 8
    <3> DEFINE T == {texts[order[i]] : i \in 1 .. 8}
               S == Bytes \X T
    <3>1. l \in [1 .. 8 -> S]
      <4>1. \A i \in 1 .. 8 : order[i] \in Symbols /\ texts[order[i]] \in T
        BY <2>1
      <4>2. \A i \in 1 .. 8 : <<order[i]>> \in Bytes
        BY <4>1, Joining DEF Bytes
      <4>3. l = [i \in 1 .. 8 |-> <<<<order[i]>>, texts[order[i]]>>]
        BY <2>1, <2>2 DEF Listing
      <4> HIDE DEF T
      <4> QED
        BY <4>1, <4>2, <4>3
    <3> HIDE DEF S
    <3>2. 8 \in Nat
      OBVIOUS
    <3>3. l \in Seq(S) /\ Len(l) = 8
      BY <3>1, <3>2, FunctionIsSeq, ZenonT(40)
    <3> QED
      BY <3>3 DEF S
  <2>4. Reverse(l) = [i \in 1 .. 8 |-> l[(8 - i) + 1]]
    BY <2>3 DEF Reverse
  <2>5. PICK r \in Seq(Symbols) : r = Reverse(order) /\ Len(r) = 8 /\ \A i \in 1 .. 8 : r[i] = order[(8 - i) + 1]
    <3>1. Reverse(order) = [i \in 1 .. 8 |-> order[(8 - i) + 1]]
      BY <2>1 DEF Reverse
    <3>2. \A i \in 1 .. 8 : (8 - i) + 1 \in 1 .. 8
      OBVIOUS
    <3>3. Reverse(order) \in [1 .. 8 -> Symbols]
      BY <2>1, <3>1, <3>2
    <3>4. Reverse(order) \in Seq(Symbols) /\ Len(Reverse(order)) = 8
      BY <3>3, FunctionIsSeq
    <3> QED
      BY <3>1, <3>4
  <2>6. \A i \in 1 .. 8 : (8 - i) + 1 \in 1 .. 8
    OBVIOUS
  <2>7. \A j \in 1 .. 8 : l[j] = <<<<order[j]>>, texts[order[j]]>>
    BY <2>1, <2>2 DEF Listing
  <2>8. Listing(r, texts) = [i \in 1 .. 8 |-> <<<<r[i]>>, texts[r[i]]>>]
    BY <2>5 DEF Listing
  <2>9. \A i \in 1 .. 8 : l[(8 - i) + 1] = <<<<r[i]>>, texts[r[i]]>>
    <3> SUFFICES ASSUME NEW i \in 1 .. 8 PROVE l[(8 - i) + 1] = <<<<r[i]>>, texts[r[i]]>>
      OBVIOUS
    <3>1. PICK j \in 1 .. 8 : j = (8 - i) + 1
      BY <2>6
    <3>2. l[j] = <<<<order[j]>>, texts[order[j]]>> /\ r[i] = order[j]
      BY <2>5, <2>7, <3>1, Zenon
    <3> QED
      BY <3>1, <3>2, Zenon
  <2>10. Reverse(l) = Listing(r, texts)
    BY <2>4, <2>8, <2>9, Zenon
  <2> QED
    BY <2>1, <2>2, <2>5, <2>10, Zenon
<1> QED
  BY <1>5, <1>6 DEF texts

LEMMA CertificateFacts ==
  ASSUME NEW p, IsCertificate(p)
  PROVE  /\ p.certId \in Bytes /\ p.deviceToken \in Bytes /\ p.fingerprintId \in Bytes
         /\ p.signingKeyId \in Bytes /\ p.issuedAt \in Instants /\ p.licenseId \in {Nil} \cup Bytes
         /\ p.v = "1" /\ p.entitlements \in [DOMAIN p.entitlements -> Entitlements]
         /\ DOMAIN p.entitlements \subseteq {<<"downloads">>, <<"tools">>}
BY DEF IsCertificate, Entitlements

LEMMA MembersDenote ==
  ASSUME NEW p, IsCertificate(p), NEW c \in MemberNames
  PROVE  /\ Denotes(MemberTexts(p)[c], MemberValues(p)[c])
         /\ JSON(MemberValues(p)[c].type, MemberValues(p)[c].value) = MemberValues(p)[c]
<1> DEFINE texts == MemberTexts(p)
           vals == MemberValues(p)
           Good(n) == Denotes(texts[n], vals[n]) /\ JSON(vals[n].type, vals[n].value) = vals[n]
<1>1. /\ texts["certId"] = str(p.certId) /\ texts["deviceToken"] = str(p.deviceToken)
      /\ texts["entitlements"] = Object(ModuleListing(p.entitlements))
      /\ texts["fingerprintId"] = str(p.fingerprintId) /\ texts["issuedAt"] = formatTime(p.issuedAt)
      /\ texts["licenseId"] = LicenseText(p.licenseId)
      /\ texts["signingKeyId"] = str(p.signingKeyId) /\ texts["v"] = <<p.v>>
  BY DEF MemberTexts
<1>2. /\ vals["certId"] = JSON("string", p.certId) /\ vals["deviceToken"] = JSON("string", p.deviceToken)
      /\ vals["entitlements"] = JSON("object", ModulesObject(p.entitlements))
      /\ vals["fingerprintId"] = JSON("string", p.fingerprintId)
      /\ vals["issuedAt"] = JSON("string", <<p.issuedAt.second>>)
      /\ vals["licenseId"] = LicenseValue(p.licenseId)
      /\ vals["signingKeyId"] = JSON("string", p.signingKeyId) /\ vals["v"] = JSON("number", "1")
  BY DEF MemberValues
<1> HIDE DEF texts, vals
<1>3. /\ p.certId \in Bytes /\ p.deviceToken \in Bytes /\ p.fingerprintId \in Bytes
      /\ p.signingKeyId \in Bytes /\ p.issuedAt \in Instants /\ p.licenseId \in {Nil} \cup Bytes
      /\ p.v = "1" /\ p.entitlements \in [DOMAIN p.entitlements -> Entitlements]
  BY CertificateFacts
<1>a. ASSUME NEW n, NEW type, NEW v, vals[n] = JSON(type, v), Denotes(texts[n], JSON(type, v)) PROVE Good(n)
  <2>1. JSON(vals[n].type, vals[n].value) = vals[n]
    BY <1>a DEF JSON
  <2>2. Denotes(texts[n], vals[n])
    BY <1>a, Zenon
  <2> QED
    BY <2>1, <2>2
<1>b. ASSUME NEW n, NEW s \in Bytes, vals[n] = JSON("string", s), texts[n] = str(s) PROVE Good(n)
  <2>1. Denotes(texts[n], JSON("string", s))
    BY <1>b, DenotesString, Zenon
  <2> HIDE DEF Good
  <2> QED
    BY <1>a, <1>b, <2>1, Zenon
<1> HIDE DEF Good
<1>4. Good("certId") /\ Good("deviceToken") /\ Good("fingerprintId") /\ Good("signingKeyId")
  BY <1>1, <1>2, <1>3, <1>b, Zenon
<1>5. Good("entitlements")
  <2>1. PICK ents : ents = p.entitlements /\ ents \in [DOMAIN ents -> Entitlements]
    BY <1>3
  <2>2. Denotes(Object(ModuleListing(ents)), JSON("object", ModulesObject(ents)))
    BY <2>1, ModulesDenote, Zenon DEF ModuleListing
  <2> QED
    BY <1>1, <1>2, <1>a, <2>1, <2>2, Zenon
<1>6. Good("issuedAt")
  <2>1. PICK s \in Bytes : s = <<p.issuedAt.second>>
    <3>1. p.issuedAt.second \in Symbols
      BY <1>3 DEF Instants
    <3> QED
      BY <3>1, Joining DEF Bytes
  <2>2. Denotes(str(s), JSON("string", s))
    BY DenotesString
  <2> QED
    BY <1>1, <1>2, <1>b, <2>1, <2>2, Zenon DEF formatTime
<1>7. Good("licenseId")
  <2>1. CASE p.licenseId = Nil
    <3>1. texts["licenseId"] = <<"null">> /\ vals["licenseId"] = JSON("null", Nil)
      BY <1>1, <1>2, <2>1, Zenon DEF LicenseText, LicenseValue
    <3> QED
      BY <1>a, <3>1, DenotesLiteral, Zenon
  <2>2. CASE p.licenseId # Nil
    <3>1. p.licenseId \in Bytes
      BY <1>3, <2>2
    <3>2. texts["licenseId"] = str(p.licenseId) /\ vals["licenseId"] = JSON("string", p.licenseId)
      BY <1>1, <1>2, <2>2, Zenon DEF LicenseText, LicenseValue
    <3> QED
      BY <1>b, <3>1, <3>2, Zenon
  <2> QED
    BY <2>1, <2>2
<1>8. Good("v")
  <2>1. texts["v"] = <<"1">> /\ vals["v"] = JSON("number", "1")
    BY <1>1, <1>2, <1>3, Zenon
  <2> QED
    BY <1>a, <2>1, DenotesLiteral, Zenon
<1>9. Good(c)
  <2>1. \/ c = "certId" \/ c = "deviceToken" \/ c = "entitlements" \/ c = "fingerprintId"
        \/ c = "issuedAt" \/ c = "licenseId" \/ c = "signingKeyId" \/ c = "v"
    BY DEF MemberNames
  <2> HIDE DEF Good
  <2> QED
    BY <1>4, <1>5, <1>6, <1>7, <1>8, <2>1, Zenon
<1> QED
  BY <1>9 DEF Good, texts, vals

\* What is signed, in the order of the names and in the opposite one, is read as the same object.
LEMMA CertificateDenotes ==
  ASSUME NEW p, IsCertificate(p)
  PROVE  /\ Denotes(MarshalCanonical(p), JSON("object", PayloadObject(p)))
         /\ Denotes(Object(Reverse(Members(p))), JSON("object", PayloadObject(p)))
<1>1. \A c \in MemberNames : /\ Denotes(MemberTexts(p)[c], MemberValues(p)[c])
                             /\ JSON(MemberValues(p)[c].type, MemberValues(p)[c].value) = MemberValues(p)[c]
  BY MembersDenote
<1>2. ASSUME NEW order \in Seq(Symbols), MemberNames = {order[i] : i \in 1 .. Len(order)}
      PROVE  Denotes(Object(Listing(order, MemberTexts(p))), JSON("object", PayloadObject(p)))
  <2>1. Denotes(Object(Listing(order, MemberTexts(p))), JSON("object", Fields(MemberNames, MemberValues(p))))
    BY <1>1, <1>2, ListingDenotes
  <2> QED
    BY <2>1, Zenon DEF PayloadObject
<1>3. MemberOrder \in Seq(Symbols) /\ Len(MemberOrder) = 8 /\ MemberNames = {MemberOrder[i] : i \in 1 .. 8}
  BY OrderOfMembers
<1>4. Denotes(Object(Listing(MemberOrder, MemberTexts(p))), JSON("object", PayloadObject(p)))
  BY <1>2, <1>3
<1>5. Denotes(Object(Listing(Reverse(MemberOrder), MemberTexts(p))), JSON("object", PayloadObject(p)))
  <2>1. Reverse(MemberOrder) = [i \in 1 .. 8 |-> MemberOrder[(8 - i) + 1]]
    BY <1>3 DEF Reverse
  <2>2. \A i \in 1 .. 8 : (8 - i) + 1 \in 1 .. 8 /\ (8 - ((8 - i) + 1)) + 1 = i
    OBVIOUS
  <2>3. \A l \in Seq(Symbols) : \A i \in 1 .. Len(l) : l[i] \in Symbols
    OBVIOUS
  <2>4. \A i \in 1 .. 8 : MemberOrder[i] \in Symbols
    <3>1. \A i \in 1 .. Len(MemberOrder) : MemberOrder[i] \in Symbols
      BY <1>3, <2>3, Zenon
    <3> QED
      BY <1>3, <3>1
  <2>5. Reverse(MemberOrder) \in [1 .. 8 -> Symbols]
    BY <2>1, <2>2, <2>4
  <2>6. PICK r \in Seq(Symbols) : r = Reverse(MemberOrder) /\ Len(r) = 8
    <3>1. 8 \in Nat
      OBVIOUS
    <3>2. PICK f \in [1 .. 8 -> Symbols] : f = Reverse(MemberOrder)
      BY <2>5, Zenon
    <3>3. f \in Seq(Symbols) /\ Len(f) = 8
      BY <3>1, FunctionIsSeq
    <3> QED
      BY <3>2, <3>3, Zenon
  <2>7. \A i \in 1 .. 8 : r[i] = MemberOrder[(8 - i) + 1]
    BY <2>1, <2>6
  <2>8. {MemberOrder[i] : i \in 1 .. 8} = {r[i] : i \in 1 .. 8}
    BY <2>2, <2>7
  <2> QED
    BY <1>2, <1>3, <2>6, <2>8
<1> QED
  BY <1>4, <1>5, MembersAreListed, Zenon DEF MarshalCanonical

-----------------------------------------------------------------------------
(* What UnmarshalCanonical makes of the object.                            *)

LEMMA MemberIs ==
  ASSUME NEW names, NEW vals, NEW c \in names, NEW default
  PROVE  Member(Fields(names, vals), c, default) = vals[c]
<1>1. FieldsAre(names, vals)
  BY FieldsFacts
<1>2. <<c>> \in DOMAIN Fields(names, vals) /\ Fields(names, vals)[<<c>>] = vals[c]
  BY <1>1, Zenon DEF FieldsAre
<1> QED
  BY <1>2, Zenon DEF Member

InSeconds(e) == [e EXCEPT !.expiresAt = ToTheSecond(@)]

LEMMA TimeRead ==
  ASSUME NEW t \in Instants
  PROVE  /\ t # Nil /\ ToTheSecond(t) \in Instants /\ ToTheSecond(t) # Nil
         /\ ToTheSecond(t).second = t.second
         /\ parseTime(JSON("string", <<t.second>>)) = ToTheSecond(t) /\ IsTime(JSON("string", <<t.second>>))
<1>1. t # Nil
  BY PayloadsAssumption
<1>2. ToTheSecond(t) = [second |-> t.second, below |-> 0] /\ t.second \in Symbols
  BY <1>1 DEF ToTheSecond, Instants
<1>3. ToTheSecond(t) \in Instants
  BY <1>2 DEF Instants
<1>4. <<t.second>>[1] = t.second /\ Len(<<t.second>>) = 1
  OBVIOUS
<1>5. JSON("string", <<t.second>>).value = <<t.second>> /\ JSON("string", <<t.second>>).type = "string"
  BY DEF JSON
<1>6. parseTime(JSON("string", <<t.second>>)) = ToTheSecond(t)
  BY <1>2, <1>4, <1>5 DEF parseTime
<1>7. IsTime(JSON("string", <<t.second>>))
  BY <1>4, <1>5 DEF IsTime
<1> QED
  BY <1>1, <1>2, <1>3, <1>6, <1>7, PayloadsAssumption

LEMMA EntitlementRead ==
  ASSUME NEW e \in Entitlements
  PROVE  /\ IsEntitlement(JSON("object", EntitlementObject(e)))
         /\ Entitlement(JSON("object", EntitlementObject(e))) = InSeconds(e)
<1> DEFINE v == JSON("object", EntitlementObject(e))
           exp == Member(v.value, "expiresAt", Absent)
           vals == EntitlementValues(e)
<1>1. v.type = "object" /\ v.value = EntitlementObject(e)
  BY DEF JSON
<1>2. "kind" \in EntitlementNames /\ "expiresAt" \in EntitlementNames
  BY DEF EntitlementNames
<1>3. vals["kind"] = JSON("string", e.kind) /\ vals["expiresAt"] = TimeValue(e.expiresAt)
  BY DEF EntitlementValues
<1> HIDE DEF v, vals
<1>4. Member(v.value, "kind", Absent) = JSON("string", e.kind) /\ exp = TimeValue(e.expiresAt)
  <2>1. PICK f : f = EntitlementValues(e)
    OBVIOUS
  <2>2. Member(Fields(EntitlementNames, f), "kind", Absent) = f["kind"]
    BY <1>2, MemberIs
  <2>3. Member(Fields(EntitlementNames, f), "expiresAt", Absent) = f["expiresAt"]
    BY <1>2, MemberIs
  <2> QED
    BY <1>1, <1>3, <2>1, <2>2, <2>3, Zenon DEF EntitlementObject, vals
<1>5. v.value[<<"kind">>] = JSON("string", e.kind)
  <2>1. FieldsAre(EntitlementNames, EntitlementValues(e))
    BY FieldsFacts
  <2> QED
    BY <1>1, <1>2, <1>3, <2>1, Zenon DEF EntitlementObject, vals, FieldsAre
<1>6. JSON("string", e.kind).type = "string" /\ JSON("string", e.kind).value = e.kind
  BY DEF JSON
<1>7. e \in [kind : Bytes, expiresAt : {Nil} \cup Instants]
  BY DEF Entitlements
<1>8. InSeconds(e) = [kind |-> e.kind, expiresAt |-> ToTheSecond(e.expiresAt)]
  BY <1>7 DEF InSeconds
<1> HIDE DEF exp
<1>9. CASE e.expiresAt = Nil
  <2>1. exp.type = "null"
    BY <1>4, <1>9 DEF TimeValue, JSON
  <2>2. ToTheSecond(e.expiresAt) = Nil
    BY <1>9 DEF ToTheSecond
  <2>3. IsEntitlement(v)
    BY <1>1, <1>4, <1>6, <2>1, Zenon DEF IsEntitlement, exp
  <2>4. Entitlement(v) = [kind |-> e.kind, expiresAt |-> Nil]
    BY <1>5, <1>6, <2>1, Zenon DEF Entitlement, exp
  <2> QED
    BY <1>8, <2>2, <2>3, <2>4, Zenon DEF v
<1>10. CASE e.expiresAt # Nil
  <2>1. PICK t \in Instants : t = e.expiresAt
    BY <1>7, <1>10
  <2>2. exp = JSON("string", <<t.second>>)
    BY <1>4, <1>10, <2>1, Zenon DEF TimeValue
  <2>3. exp.type # "null"
    BY <2>2 DEF JSON
  <2>4. IsTime(exp) /\ parseTime(exp) = ToTheSecond(t)
    BY <2>2, TimeRead, Zenon
  <2>5. IsEntitlement(v)
    BY <1>1, <1>4, <1>6, <2>4, Zenon DEF IsEntitlement, exp
  <2>6. Entitlement(v) = [kind |-> e.kind, expiresAt |-> ToTheSecond(t)]
    BY <1>5, <1>6, <2>3, <2>4, Zenon DEF Entitlement, exp
  <2> QED
    BY <1>8, <2>1, <2>5, <2>6, Zenon DEF v
<1> QED
  BY <1>9, <1>10

LEMMA ModulesRead ==
  ASSUME NEW ents, ents \in [DOMAIN ents -> Entitlements],
         DOMAIN ents \subseteq {<<"downloads">>, <<"tools">>}
  PROVE  /\ DOMAIN ModulesObject(ents) = DOMAIN ents
         /\ \A m \in DOMAIN ents : /\ IsEntitlement(ModulesObject(ents)[m])
                                   /\ Entitlement(ModulesObject(ents)[m]) = InSeconds(ents[m])
<1>1. \A m \in DOMAIN ents : \E c \in ModuleNames(ents) : m = <<c>>
  BY DEF ModuleNames
<1>2. \A c \in ModuleNames(ents) : <<c>> \in DOMAIN ents
  BY DEF ModuleNames
<1>3. DOMAIN ModulesObject(ents) = {<<c>> : c \in ModuleNames(ents)}
  BY DEF ModulesObject, Fields
<1>4. DOMAIN ModulesObject(ents) = DOMAIN ents
  BY <1>1, <1>2, <1>3
<1>5. ASSUME NEW m \in DOMAIN ents
      PROVE  /\ IsEntitlement(ModulesObject(ents)[m])
             /\ Entitlement(ModulesObject(ents)[m]) = InSeconds(ents[m])
  <2>1. PICK c \in ModuleNames(ents) : m = <<c>>
    BY <1>1
  <2>2. FieldsAre(ModuleNames(ents), ModuleValues(ents))
    BY FieldsFacts
  <2>3. ModulesObject(ents)[m] = ModuleValues(ents)[c]
    BY <2>1, <2>2, Zenon DEF FieldsAre, ModulesObject
  <2>4. PICK e \in Entitlements : e = ents[m]
    OBVIOUS
  <2>5. ModuleValues(ents)[c] = JSON("object", EntitlementObject(e))
    BY <2>1, <2>4, Zenon DEF ModuleValues
  <2> QED
    BY <2>3, <2>4, <2>5, EntitlementRead, Zenon
<1> QED
  BY <1>4, <1>5

\* What skipWS leaves nothing of is white space.
LEMMA SkippedIsSpace == \A data \in Bytes : skipWS[data] = << >> => ToSet(data) \subseteq Space
<1> DEFINE S == {data \in Bytes : skipWS[data] = << >> => ToSet(data) \subseteq Space}
<1>1. << >> \in S
  <2>1. << >> \in Bytes /\ DOMAIN << >> = {}
    BY DEF Bytes
  <2> QED
    BY <2>1 DEF ToSet
<1>2. ASSUME NEW c \in Symbols, NEW t \in Bytes, t \in S PROVE <<c>> \o t \in S
  <2>1. PICK w \in Bytes : w = <<c>> \o t /\ w # << >> /\ Head(w) = c /\ Tail(w) = t
    BY PutBefore DEF Bytes
  <2>2. ASSUME skipWS[w] = << >> PROVE ToSet(w) \subseteq Space
    <3>1. skipWS[w] = IF c \in Blank THEN skipWS[t] ELSE w
      BY <2>1, SkipDefined DEF SkipBody
    <3>2. c \in Blank /\ ToSet(t) \subseteq Space
      BY <1>2, <2>1, <2>2, <3>1
    <3>3. \A i \in DOMAIN w : w[i] = c \/ (i - 1 \in DOMAIN t /\ w[i] = t[i - 1])
      <4>1. w[1] = c /\ Len(w) = Len(t) + 1 /\ \A i \in 1 .. Len(t) : t[i] = w[i + 1]
        BY <2>1, TailFacts DEF Bytes
      <4>2. DOMAIN w = 1 .. Len(w) /\ DOMAIN t = 1 .. Len(t) /\ Len(t) \in Nat
        BY DEF Bytes
      <4>3. \A i \in 1 .. Len(w) : i = 1 \/ (i - 1 \in 1 .. Len(t) /\ (i - 1) + 1 = i)
        BY <4>1, <4>2
      <4>4. ASSUME NEW i \in DOMAIN w PROVE w[i] = c \/ (i - 1 \in DOMAIN t /\ w[i] = t[i - 1])
        <5>1. CASE i = 1
          BY <4>1, <5>1
        <5>2. CASE i # 1
          <6>1. PICK j : j = i - 1 /\ j \in 1 .. Len(t) /\ j + 1 = i
            BY <4>2, <4>3, <5>2
          <6>2. t[j] = w[j + 1]
            BY <4>1, <6>1
          <6> QED
            BY <4>2, <6>1, <6>2
        <5> QED
          BY <5>1, <5>2
      <4> QED
        BY <4>4
    <3>4. c \in Space
      BY <3>2 DEF Space
    <3> QED
      BY <3>2, <3>3, <3>4 DEF ToSet
  <2> QED
    BY <2>1, <2>2
<1>3. \A data \in Bytes : data \in S
  <2> HIDE DEF S
  <2> QED
    BY <1>1, <1>2, BytesInduction
<1> QED
  BY <1>3

\* The object of a certificate is read as the certificate to the second.
LEMMA CertificateRead ==
  ASSUME NEW p, IsCertificate(p), NEW data \in Bytes, NEW toks \in Tokens,
         Accepts(toks, data), Parses(JSON("object", PayloadObject(p)), toks)
  PROVE  UnmarshalCanonical(data) = AsRead(p)
<1> DEFINE obj == PayloadObject(p)
           val == parseValue(data)
           F(name, default) == Member(val.value, name, default)
           texts == {"certId", "deviceToken", "fingerprintId", "signingKeyId"}
           ents    == F("entitlements", JSON("object", << >>))
           license == F("licenseId", Absent)
           issued  == F("issuedAt", ZeroTime)
           number  == F("v", JSON("number", "0"))
           vals == MemberValues(p)
<1>1. PICK rest \in Bytes : ToSet(rest) \subseteq Space /\ val = Read("object", obj, rest)
  <2>1. toks \o << >> = toks /\ << >> \in Tokens
    BY JoiningTokens
  <2>2. PICK o : o = obj
    OBVIOUS
  <2>3. JSON("object", o).type = "object" /\ JSON("object", o).value = o
    BY DEF JSON
  <2>4. PICK rest \in Bytes : Accepts(<< >>, rest) /\ parse[<<"value", data>>] = Read("object", o, rest)
    BY <2>1, <2>2, <2>3 DEF Parses
  <2> QED
    BY <2>2, <2>4, AcceptsNone, SkippedIsSpace DEF parseValue
<1>2. val.value = obj /\ val.type = "object" /\ val.rest = rest /\ val # Failed
  <2>1. PICK o : o = obj
    OBVIOUS
  <2>2. /\ Read("object", o, rest).value = o /\ Read("object", o, rest).type = "object"
        /\ Read("object", o, rest).rest = rest /\ Read("object", o, rest) # Failed
    BY DEF Read, Failed
  <2> QED
    BY <1>1, <2>1, <2>2, Zenon
<1>3. \A c \in MemberNames : \A d : F(c, d) = vals[c]
  <2> SUFFICES ASSUME NEW c \in MemberNames, NEW d PROVE F(c, d) = vals[c]
    OBVIOUS
  <2>1. PICK f : f = MemberValues(p)
    OBVIOUS
  <2>2. Member(Fields(MemberNames, f), c, d) = f[c]
    BY MemberIs
  <2> QED
    BY <1>2, <2>1, <2>2, Zenon DEF PayloadObject
<1>4. /\ "certId" \in MemberNames /\ "deviceToken" \in MemberNames /\ "entitlements" \in MemberNames
      /\ "fingerprintId" \in MemberNames /\ "issuedAt" \in MemberNames /\ "licenseId" \in MemberNames
      /\ "signingKeyId" \in MemberNames /\ "v" \in MemberNames
  BY DEF MemberNames
<1>5. /\ vals["certId"] = JSON("string", p.certId) /\ vals["deviceToken"] = JSON("string", p.deviceToken)
      /\ vals["entitlements"] = JSON("object", ModulesObject(p.entitlements))
      /\ vals["fingerprintId"] = JSON("string", p.fingerprintId)
      /\ vals["issuedAt"] = JSON("string", <<p.issuedAt.second>>)
      /\ vals["licenseId"] = LicenseValue(p.licenseId)
      /\ vals["signingKeyId"] = JSON("string", p.signingKeyId) /\ vals["v"] = JSON("number", "1")
  BY DEF MemberValues
<1>6. \A type, v : JSON(type, v).type = type /\ JSON(type, v).value = v
  BY DEF JSON
<1>a. \A x, type, v : x = JSON(type, v) => x.value = v
  BY DEF JSON
<1> HIDE DEF val, vals, F
<1>7. /\ F("certId", Text) = JSON("string", p.certId) /\ F("deviceToken", Text) = JSON("string", p.deviceToken)
      /\ F("fingerprintId", Text) = JSON("string", p.fingerprintId)
      /\ F("signingKeyId", Text) = JSON("string", p.signingKeyId)
      /\ ents = JSON("object", ModulesObject(p.entitlements)) /\ license = LicenseValue(p.licenseId)
      /\ issued = JSON("string", <<p.issuedAt.second>>) /\ number = JSON("number", "1")
  BY <1>3, <1>4, <1>5, Zenon
<1> HIDE DEF ents, license, issued, number
<1>8. \A n \in texts : F(n, Text).type = "string"
  BY <1>6, <1>7, Zenon
<1>9. ents.type = "object" /\ ents.value = ModulesObject(p.entitlements) /\ number.type = "number" /\ number.value = "1"
  BY <1>6, <1>7, Zenon
<1>10. license.type \in {"null", "string"} /\ license.value = p.licenseId
  <2>1. CASE p.licenseId = Nil
    BY <1>6, <1>7, <2>1, Zenon DEF LicenseValue
  <2>2. CASE p.licenseId # Nil
    BY <1>6, <1>7, <2>2, Zenon DEF LicenseValue
  <2> QED
    BY <2>1, <2>2
<1>11. /\ p.issuedAt \in Instants /\ p.v = "1" /\ p.entitlements \in [DOMAIN p.entitlements -> Entitlements]
       /\ DOMAIN p.entitlements \subseteq {<<"downloads">>, <<"tools">>}
  BY CertificateFacts
<1>12. IsTime(issued) /\ parseTime(issued) = ToTheSecond(p.issuedAt)
  BY <1>7, <1>11, TimeRead, Zenon
<1>13. /\ DOMAIN ents.value = DOMAIN p.entitlements
       /\ \A m \in DOMAIN p.entitlements : /\ IsEntitlement(ents.value[m])
                                           /\ Entitlement(ents.value[m]) = InSeconds(p.entitlements[m])
  <2>1. PICK e : e = p.entitlements
    OBVIOUS
  <2> QED
    BY <1>9, <1>11, <2>1, ModulesRead, Zenon
<1> DEFINE result ==
             [certId |-> F("certId", Text).value, deviceToken |-> F("deviceToken", Text).value,
              fingerprintId |-> F("fingerprintId", Text).value,
              signingKeyId |-> F("signingKeyId", Text).value,
              issuedAt |-> parseTime(issued), licenseId |-> license.value, v |-> number.value,
              entitlements |-> [m \in DOMAIN ents.value |-> Entitlement(ents.value[m])]]
           bad == \/ val = Failed \/ ~ToSet(val.rest) \subseteq Space \/ val.type # "object"
                  \/ \E n \in texts : F(n, Text).type # "string"
                  \/ ents.type # "object" \/ \E m \in DOMAIN ents.value : ~IsEntitlement(ents.value[m])
                  \/ license.type \notin {"null", "string"} \/ ~IsTime(issued) \/ number.type # "number"
<1>14. UnmarshalCanonical(data) = IF bad THEN Failed ELSE result
  BY Zenon DEF UnmarshalCanonical, val, F, ents, license, issued, number
<1>15. ~bad
  BY <1>1, <1>2, <1>8, <1>9, <1>10, <1>12, <1>13, Zenon
<1>16. /\ F("certId", Text).value = p.certId /\ F("deviceToken", Text).value = p.deviceToken
       /\ F("fingerprintId", Text).value = p.fingerprintId /\ F("signingKeyId", Text).value = p.signingKeyId
  BY <1>a, <1>7, Zenon
<1>17. PICK e : e = EntitlementsAsRead(p.entitlements)
  OBVIOUS
<1>18. [m \in DOMAIN ents.value |-> Entitlement(ents.value[m])] = e
  BY <1>13, <1>17, Zenon DEF EntitlementsAsRead, InSeconds
<1>19. result = [certId |-> p.certId, deviceToken |-> p.deviceToken, fingerprintId |-> p.fingerprintId,
                 signingKeyId |-> p.signingKeyId, issuedAt |-> ToTheSecond(p.issuedAt),
                 licenseId |-> p.licenseId, v |-> "1", entitlements |-> e]
  BY <1>9, <1>10, <1>12, <1>16, <1>18, Zenon
<1>20. AsRead(p) = [certId |-> p.certId, deviceToken |-> p.deviceToken, fingerprintId |-> p.fingerprintId,
                   signingKeyId |-> p.signingKeyId, issuedAt |-> ToTheSecond(p.issuedAt),
                   licenseId |-> p.licenseId, v |-> "1", entitlements |-> e]
  <2>1. PICK t : t = ToTheSecond(p.issuedAt)
    OBVIOUS
  <2>2. p = [certId |-> p.certId, deviceToken |-> p.deviceToken, fingerprintId |-> p.fingerprintId,
             signingKeyId |-> p.signingKeyId, issuedAt |-> p.issuedAt,
             licenseId |-> p.licenseId, v |-> "1", entitlements |-> p.entitlements]
    BY DEF IsCertificate
  <2>3. AsRead(p) = [p EXCEPT !.issuedAt = t, !.entitlements = EntitlementsAsRead(p.entitlements)]
    BY <2>1, <2>2 DEF AsRead
  <2>4. [p EXCEPT !.issuedAt = t, !.entitlements = e] = [[p EXCEPT !.issuedAt = t] EXCEPT !.entitlements = e]
    OBVIOUS
  <2>5. [p EXCEPT !.issuedAt = t, !.entitlements = e]
          = [certId |-> p.certId, deviceToken |-> p.deviceToken, fingerprintId |-> p.fingerprintId,
             signingKeyId |-> p.signingKeyId, issuedAt |-> t,
             licenseId |-> p.licenseId, v |-> "1", entitlements |-> e]
    <3>1. PICK q : q = [p EXCEPT !.issuedAt = t]
      OBVIOUS
    <3>2. q = [certId |-> p.certId, deviceToken |-> p.deviceToken, fingerprintId |-> p.fingerprintId,
               signingKeyId |-> p.signingKeyId, issuedAt |-> t,
               licenseId |-> p.licenseId, v |-> "1", entitlements |-> p.entitlements]
      BY <2>2, <3>1
    <3>3. [q EXCEPT !.entitlements = e]
            = [certId |-> p.certId, deviceToken |-> p.deviceToken, fingerprintId |-> p.fingerprintId,
               signingKeyId |-> p.signingKeyId, issuedAt |-> t,
               licenseId |-> p.licenseId, v |-> "1", entitlements |-> e]
      BY <3>2
    <3> QED
      BY <2>4, <3>1, <3>3
  <2> QED
    BY <1>17, <2>1, <2>3, <2>5, Zenon
<1> QED
  BY <1>14, <1>15, <1>19, <1>20, Zenon

\* What the client writes for what it read is what was signed.
LEMMA CertificateRewritten ==
  ASSUME NEW p, IsCertificate(p)
  PROVE  MarshalCanonical(AsRead(p)) = MarshalCanonical(p)
<1>1. PICK ents : /\ ents = p.entitlements /\ ents \in [DOMAIN ents -> Entitlements]
                  /\ DOMAIN ents \subseteq {<<"downloads">>, <<"tools">>}
  BY CertificateFacts
<1>2. PICK e : e = EntitlementsAsRead(ents)
  OBVIOUS
<1>3. PICK r : r = AsRead(p)
  OBVIOUS
<1>4. /\ r.certId = p.certId /\ r.deviceToken = p.deviceToken /\ r.fingerprintId = p.fingerprintId
      /\ r.signingKeyId = p.signingKeyId /\ r.licenseId = p.licenseId /\ r.v = p.v
      /\ r.issuedAt = ToTheSecond(p.issuedAt) /\ r.entitlements = e
  <2>1. PICK t : t = ToTheSecond(p.issuedAt)
    OBVIOUS
  <2>2. p = [certId |-> p.certId, deviceToken |-> p.deviceToken, fingerprintId |-> p.fingerprintId,
             signingKeyId |-> p.signingKeyId, issuedAt |-> p.issuedAt,
             licenseId |-> p.licenseId, v |-> p.v, entitlements |-> p.entitlements]
    BY DEF IsCertificate
  <2>3. r = [p EXCEPT !.issuedAt = t, !.entitlements = e]
    BY <1>1, <1>2, <1>3, <2>1, <2>2 DEF AsRead
  <2>4. [p EXCEPT !.issuedAt = t, !.entitlements = e] = [[p EXCEPT !.issuedAt = t] EXCEPT !.entitlements = e]
    OBVIOUS
  <2>5. PICK q : q = [p EXCEPT !.issuedAt = t]
    OBVIOUS
  <2>6. q = [certId |-> p.certId, deviceToken |-> p.deviceToken, fingerprintId |-> p.fingerprintId,
             signingKeyId |-> p.signingKeyId, issuedAt |-> t,
             licenseId |-> p.licenseId, v |-> p.v, entitlements |-> p.entitlements]
    BY <2>2, <2>5
  <2>7. r = [q EXCEPT !.entitlements = e]
    BY <2>3, <2>4, <2>5
  <2> QED
    BY <2>1, <2>6, <2>7
<1>5. formatTime(r.issuedAt) = formatTime(p.issuedAt)
  <2>1. PICK t \in Instants : t = p.issuedAt
    BY CertificateFacts
  <2>2. PICK u : u = ToTheSecond(t) /\ u.second = t.second
    BY TimeRead
  <2> QED
    BY <1>4, <2>1, <2>2, Zenon DEF formatTime
<1>6. DOMAIN e = DOMAIN ents /\ \A m \in DOMAIN ents : canonicalEntitlement(e[m]) = canonicalEntitlement(ents[m])
  <2>1. DOMAIN e = DOMAIN ents
    BY <1>2 DEF EntitlementsAsRead
  <2>2. ASSUME NEW m \in DOMAIN ents PROVE canonicalEntitlement(e[m]) = canonicalEntitlement(ents[m])
    <3>1. PICK g \in Entitlements : g = ents[m]
      BY <1>1
    <3>2. PICK u : u = ToTheSecond(g.expiresAt)
      OBVIOUS
    <3>3. PICK f : f = e[m]
      OBVIOUS
    <3>4. f = [g EXCEPT !.expiresAt = u]
      BY <1>2, <3>1, <3>2, <3>3 DEF EntitlementsAsRead
    <3>5. f.kind = g.kind /\ f.expiresAt = u
      BY <3>4 DEF Entitlements
    <3>6. CASE g.expiresAt = Nil
      <4>1. u = Nil
        BY <3>2, <3>6 DEF ToTheSecond
      <4> QED
        BY <3>1, <3>3, <3>5, <3>6, <4>1, Zenon DEF canonicalEntitlement
    <3>7. CASE g.expiresAt # Nil
      <4>1. PICK t \in Instants : t = g.expiresAt
        BY <3>7 DEF Entitlements
      <4>2. u # Nil /\ u.second = t.second
        BY <3>2, <4>1, TimeRead
      <4>3. formatTime(f.expiresAt) = formatTime(g.expiresAt)
        BY <3>5, <4>1, <4>2, Zenon DEF formatTime
      <4> QED
        BY <3>1, <3>3, <3>5, <3>7, <4>2, <4>3, Zenon DEF canonicalEntitlement
    <3> QED
      BY <3>6, <3>7
  <2> QED
    BY <2>1, <2>2
<1>7. ModuleListing(e) = ModuleListing(ents)
  <2>1. Modules(e) = Modules(ents)
    BY <1>6, Zenon DEF Modules
  <2>2. ModuleNames(e) = ModuleNames(ents)
    BY <1>6, Zenon DEF ModuleNames
  <2>3. \A c \in ModuleNames(ents) : canonicalEntitlement(e[<<c>>]) = canonicalEntitlement(ents[<<c>>])
    BY <1>6 DEF ModuleNames
  <2>4. ModuleTexts(e) = ModuleTexts(ents)
    BY <2>2, <2>3 DEF ModuleTexts
  <2> QED
    BY <2>1, <2>4, Zenon DEF ModuleListing
<1>8. MemberTexts(r) = MemberTexts(p)
  BY <1>1, <1>4, <1>5, <1>7, Zenon DEF MemberTexts
<1>9. Members(r) = Members(p)
  <2>1. Members(r) = Listing(MemberOrder, MemberTexts(r))
    BY MembersAreListed
  <2>2. Members(p) = Listing(MemberOrder, MemberTexts(p))
    BY MembersAreListed
  <2> QED
    BY <1>8, <2>1, <2>2, Zenon
<1> QED
  BY <1>3, <1>9, Zenon DEF MarshalCanonical

-----------------------------------------------------------------------------
(* The wire has the tokens of what was signed.                             *)

\* Every spelling that the actions reach has the same tokens: those that
\* MarshalCanonical wrote, or those of the members in the opposite order.
CertIsRead ==
  /\ IsCertificate(payload) /\ wire \in Bytes
  /\ \E toks \in Tokens : Accepts(toks, wire) /\ Parses(JSON("object", PayloadObject(payload)), toks)

LEMMA DenotedIsRead ==
  ASSUME NEW text, NEW val, Denotes(text, val)
  PROVE  text \in Bytes /\ \E toks \in Tokens : Accepts(toks, text) /\ Parses(val, toks)
BY WrittenIsAccepted DEF Denotes

LEMMA InitCertIsRead == Init => CertIsRead
<1> SUFFICES ASSUME Init PROVE CertIsRead
  OBVIOUS
<1>1. IsCertificate(payload)
  BY PayloadsAssumption DEF Init
<1>2. Denotes(wire, JSON("object", PayloadObject(payload)))
  BY <1>1, CertificateDenotes DEF Init
<1> QED
  BY <1>1, <1>2, DenotedIsRead DEF CertIsRead

LEMMA NextCertIsRead == CertIsRead /\ [Next]_vars => CertIsRead'
<1> SUFFICES ASSUME CertIsRead, [Next]_vars PROVE CertIsRead'
  OBVIOUS
<1>1. PICK toks \in Tokens : Accepts(toks, wire) /\ Parses(JSON("object", PayloadObject(payload)), toks)
  BY DEF CertIsRead
<1>2. IsCertificate(payload) /\ wire \in Bytes
  BY DEF CertIsRead
<1>3. ASSUME payload' = payload, wire' \in Bytes, Accepts(toks, wire') PROVE CertIsRead'
  BY <1>1, <1>2, <1>3 DEF CertIsRead
<1>4. CASE UNCHANGED cert
  BY <1>1, <1>2, <1>3, <1>4 DEF cert
<1>5. CASE Reorder
  <2>1. payload' = payload /\ wire' = Object(Reverse(Members(payload)))
    BY <1>5 DEF Reorder
  <2>2. Denotes(wire', JSON("object", PayloadObject(payload)))
    BY <1>2, <2>1, CertificateDenotes
  <2> QED
    BY <1>2, <2>1, <2>2, DenotedIsRead DEF CertIsRead
<1>6. ASSUME NEW i \in DOMAIN wire, InsertBlank(i) PROVE CertIsRead'
  <2>1. i \in 1 .. Len(wire) /\ AfterIn(wire)[i - 1] = "out"
    BY <1>2, <1>6, AfterIsAfterIn DEF InsertBlank, Bytes
  <2>2. payload' = payload /\ wire' = InsertAt(wire, i, "LF")
    BY <1>6 DEF InsertBlank
  <2> QED
    BY <1>1, <1>2, <1>3, <2>1, <2>2, BlankInserted
<1>7. ASSUME NEW i \in DOMAIN wire, EscapeNeedlessly(i) PROVE CertIsRead'
  <2>1. i \in 1 .. Len(wire) /\ payload' = payload
    BY <1>2, <1>7 DEF EscapeNeedlessly, Bytes
  <2>2. CASE /\ wire[i] = "a" /\ AfterIn(wire)[i - 1] = "in"
             /\ wire' = SubSeq(wire, 1, i - 1) \o <<"\\", "u">> \o Code["a"] \o Drop(wire, i)
    <3>1. wire' \in Bytes /\ Accepts(toks, wire')
      BY <1>1, <1>2, <2>1, <2>2, LetterEscaped
    <3> QED
      BY <1>3, <2>1, <3>1
  <2>3. CASE /\ wire[i] = "\\" /\ AfterIn(wire)[i - 1] = "escaped"
             /\ wire' = SubSeq(wire, 1, i - 1) \o <<"u">> \o Code["\\"] \o Drop(wire, i)
    <3>1. wire' \in Bytes /\ Accepts(toks, wire')
      BY <1>1, <1>2, <2>1, <2>3, BackslashEscaped
    <3> QED
      BY <1>3, <2>1, <3>1
  <2> QED
    BY <1>7, <2>2, <2>3, AfterIsAfterIn, Zenon DEF EscapeNeedlessly
<1>8. ASSUME NEW i \in DOMAIN typed,
             TypeLower(i) \/ LeaveOutDash(i) \/ \E c \in {"-", " "} : InsertSeparator(i, c)
      PROVE  CertIsRead'
  BY <1>4, <1>8 DEF TypeLower, LeaveOutDash, InsertSeparator
<1>9. CASE UNCHANGED vars
  BY <1>4, <1>9 DEF vars, cert
<1> QED
  BY <1>5, <1>6, <1>7, <1>8, <1>9, Zenon DEF Next

\* Whatever blanks, orders of members and needless escapes a certificate picks up
\* on its way, the client reads what was signed, to the second, and writes again
\* byte for byte what the signature covers.
THEOREM CertificateIsReadAsSigned == Spec => []ReadsAndRewritesAsSigned
<1>1. CertIsRead => ReadsAndRewritesAsSigned
  <2> SUFFICES ASSUME CertIsRead PROVE ReadsAndRewritesAsSigned
    OBVIOUS
  <2>1. UnmarshalCanonical(wire) = AsRead(payload)
    BY CertificateRead DEF CertIsRead
  <2>2. MarshalCanonical(AsRead(payload)) = MarshalCanonical(payload)
    BY CertificateRewritten DEF CertIsRead
  <2> QED
    BY <2>1, <2>2 DEF ReadsAndRewritesAsSigned
<1> QED
  BY InitCertIsRead, NextCertIsRead, <1>1, PTL DEF Spec

=============================================================================
