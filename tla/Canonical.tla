----------------------------- MODULE Canonical -----------------------------
(***************************************************************************)
(* The text of a certificate: MarshalCanonical writes the bytes that are   *)
(* signed, UnmarshalCanonical reads them.                                  *)
(*                                                                         *)
(* A text is a sequence of symbols: the bytes that the grammar and the     *)
(* escapes tell apart, and one symbol each for a name, a literal and a     *)
(* time stamp.                                                             *)
(***************************************************************************)
EXTENDS Naturals, SequencesExt

CONSTANTS
  Nil,            \* a nil pointer; JSON null
  Symbols         \* what texts are made of

\* The symbols that the module names.
Named ==
  {"\"", "\\", "/", "{", "}", ":", ",", "null", "0", "1", "2", "5", "6", "a", "b", "c", "f",
   "n", "r", "t", "u", " ", "BS", "FF", "LF", "CR", "TAB", "SOH", "US", "certId",
   "deviceToken", "entitlements", "fingerprintId", "issuedAt", "licenseId", "signingKeyId",
   "v", "kind", "expiresAt", "downloads", "tools"}

ASSUME SymbolsAssumption == Named \subseteq Symbols

Bytes == Seq(Symbols)

\* Bytes with a short escape and the letter of it, and other control bytes.
Short == [c \in {"\"", "\\", "BS", "FF", "LF", "CR", "TAB"} |->
            CASE c = "BS" -> "b" [] c = "FF" -> "f" [] c = "LF" -> "n" [] c = "CR" -> "r"
              [] c = "TAB" -> "t" [] OTHER -> c]

Control == [SOH |-> <<"0", "1">>, US |-> <<"1", "f">>]

\* Bug: the backslash passes through.
EscapedButBackslash(c) ==
  IF c \in DOMAIN Short \ {"\\"} THEN <<"\\", Short[c]>>
  ELSE IF c \in DOMAIN Control THEN <<"\\", "u", "0", "0">> \o Control[c] ELSE <<c>>

Escaped(c) ==
  IF c \in DOMAIN Short THEN <<"\\", Short[c]>>
  ELSE IF c \in DOMAIN Control THEN <<"\\", "u", "0", "0">> \o Control[c] ELSE <<c>>

str(s) == <<"\"">> \o FlattenSeq([i \in DOMAIN s |-> Escaped(s[i])]) \o <<"\"">>

\* An object of <<name, text of the value>> pairs, in the order given.
Object(members) ==
  <<"{">> \o FlattenSeq([i \in DOMAIN members |->
                (IF i = 1 THEN << >> ELSE <<",">>)
                  \o str(members[i][1]) \o <<":">> \o members[i][2]]) \o <<"}">>

\* A time is a stamp of whole seconds and what is below the second.
formatTime(t) == str(<<t.second>>)

canonicalEntitlement(e) ==
  << <<<<"expiresAt">>, IF e.expiresAt = Nil THEN <<"null">> ELSE formatTime(e.expiresAt)>>,
     <<<<"kind">>, str(e.kind)>> >>

\* Names of modules in byte order.
ModuleOrder == <<"downloads", "tools">>

Modules(ents) ==
  FlattenSeq([i \in DOMAIN ModuleOrder |->
    IF <<ModuleOrder[i]>> \in DOMAIN ents THEN <<ModuleOrder[i]>> ELSE << >>])

\* The members of a payload, in canonical order at every level.
Members(p) ==
  LET ents == [i \in DOMAIN Modules(p.entitlements) |->
                 LET m == <<Modules(p.entitlements)[i]>>
                 IN  <<m, Object(canonicalEntitlement(p.entitlements[m]))>>]
  IN  << <<<<"certId">>, str(p.certId)>>,
         <<<<"deviceToken">>, str(p.deviceToken)>>,
         <<<<"entitlements">>, Object(ents)>>,
         <<<<"fingerprintId">>, str(p.fingerprintId)>>,
         <<<<"issuedAt">>, formatTime(p.issuedAt)>>,
         <<<<"licenseId">>, IF p.licenseId = Nil THEN <<"null">> ELSE str(p.licenseId)>>,
         <<<<"signingKeyId">>, str(p.signingKeyId)>>,
         <<<<"v">>, <<p.v>>>> >>

MarshalCanonical(p) == Object(Members(p))

-----------------------------------------------------------------------------
(* A parser returns the value, with its JSON type, and the rest, or Failed. *)

JSON(type, value) == [type |-> type, value |-> value]

Read(type, value, rest) == [type |-> type, value |-> value, rest |-> rest]

Failed == Read("error", << >>, << >>)

Drop(data, n) == SubSeq(data, n + 1, Len(data))

Starts(data, c) == data # << >> /\ Head(data) = c

Blank == {" ", "TAB", "LF", "CR"}

skipWS[data \in Bytes] ==
  IF data # << >> /\ Head(data) \in Blank THEN skipWS[Tail(data)] ELSE data

\* The byte of a short escape; the slash may be escaped as well.
Unshort == [l \in {"\"", "\\", "/", "b", "f", "n", "r", "t"} |->
              CASE l = "b" -> "BS" [] l = "f" -> "FF" [] l = "n" -> "LF" [] l = "r" -> "CR"
                [] l = "t" -> "TAB" [] OTHER -> l]

\* The symbols of this model by their code.  Codes of surrogate halves, of which
\* WriteRune makes U+FFFD, and codes of fewer than four digits are left out.
Symbol == [h \in {<<"0", "0", "0", "1">>, <<"0", "0", "1", "f">>, <<"0", "0", "0", "a">>,
                  <<"0", "0", "2", "2">>, <<"0", "0", "5", "c">>, <<"0", "0", "6", "1">>} |->
             CASE h = <<"0", "0", "0", "1">> -> "SOH" [] h = <<"0", "0", "1", "f">> -> "US"
               [] h = <<"0", "0", "0", "a">> -> "LF"  [] h = <<"0", "0", "2", "2">> -> "\""
               [] h = <<"0", "0", "5", "c">> -> "\\" [] h = <<"0", "0", "6", "1">> -> "a"]

\* What is read with a byte before it.
Before(c, r) == IF r = Failed THEN Failed ELSE [r EXCEPT !.value = <<c>> \o @]

\* The rest of a string after its first quote.
StringTail[data \in Bytes] ==
  IF data = << >> THEN Failed
  ELSE IF Head(data) = "\"" THEN Read("string", << >>, Tail(data))
  ELSE IF Head(data) # "\\" THEN Before(Head(data), StringTail[Tail(data)])
  ELSE IF Len(data) < 2 THEN Failed
  ELSE IF data[2] \in DOMAIN Unshort THEN Before(Unshort[data[2]], StringTail[Drop(data, 2)])
  ELSE IF data[2] = "u" /\ Len(data) >= 6 /\ SubSeq(data, 3, 6) \in DOMAIN Symbol
       THEN Before(Symbol[SubSeq(data, 3, 6)], StringTail[Drop(data, 6)])
       ELSE Failed

parseString(data) ==
  IF Starts(skipWS[data], "\"") THEN StringTail[Tail(skipWS[data])] ELSE Failed

\* An object with one member more before the others; a name that comes again
\* among those replaces the value.
Joined(name, val, others) ==
  [n \in {name} \cup DOMAIN others |->
     IF n \in DOMAIN others THEN others[n] ELSE JSON(val.type, val.value)]

\* The rest of an object after its first brace or a comma.
ObjectTail(parse, data) ==
  LET key    == parseString(data)
      colon  == skipWS[key.rest]
      val    == parse[<<"value", Tail(colon)>>]
      next   == skipWS[val.rest]
      others == parse[<<"members", skipWS[Tail(next)]>>]
  IN  IF key = Failed THEN Failed
      ELSE IF ~Starts(colon, ":") THEN Failed
      ELSE IF val = Failed THEN Failed
      ELSE IF Starts(next, ",")
           THEN IF others = Failed THEN Failed
                ELSE Read("object", Joined(key.value, val, others.value), others.rest)
      ELSE IF Starts(next, "}") THEN Read("object", Joined(key.value, val, << >>), Tail(next))
           ELSE Failed

Value(parse, data) ==
  LET d == skipWS[data]
      inside == skipWS[Tail(d)]
  IN  IF d = << >> THEN Failed
      ELSE CASE Head(d) = "{"    -> IF Starts(inside, "}") THEN Read("object", << >>, Tail(inside))
                                    ELSE parse[<<"members", inside>>]
             [] Head(d) = "\""   -> parseString(d)
             [] Head(d) = "null" -> Read("null", Nil, Tail(d))
             [] Head(d) = "1"    -> Read("number", "1", Tail(d))
             [] OTHER            -> Failed

\* A value, or the members of an object, read from a text.
parse[what \in {"value", "members"} \X Bytes] ==
  IF what[1] = "members" THEN ObjectTail(parse, what[2]) ELSE Value(parse, what[2])

parseValue(data) == parse[<<"value", data>>]

-----------------------------------------------------------------------------

\* The named member if it is there, or what the field of the struct is without.
Member(obj, name, default) == IF <<name>> \in DOMAIN obj THEN obj[<<name>>] ELSE default

\* What strings.TrimSpace takes off: the form feed too.
Space == Blank \cup {"FF"}

Absent == JSON("null", Nil)

Text == JSON("string", << >>)

ZeroTime == JSON("string", <<"0001">>)

parseTime(v) == [second |-> v.value[1], below |-> 0]

IsTime(v) == v.type = "string" /\ Len(v.value) = 1

IsEntitlement(v) ==
  /\ v.type = "object"
  /\ Member(v.value, "kind", Absent).type = "string"
  /\ LET exp == Member(v.value, "expiresAt", Absent)
     IN  exp.type = "null" \/ IsTime(exp)

Entitlement(v) ==
  LET exp == Member(v.value, "expiresAt", Absent)
  IN  [kind |-> v.value[<<"kind">>].value,
       expiresAt |-> IF exp.type = "null" THEN Nil ELSE parseTime(exp)]

UnmarshalCanonical(data) ==
  LET val     == parseValue(data)
      F(name, default) == Member(val.value, name, default)
      texts   == {"certId", "deviceToken", "fingerprintId", "signingKeyId"}
      ents    == F("entitlements", JSON("object", << >>))
      license == F("licenseId", Absent)
      issued  == F("issuedAt", ZeroTime)
      number  == F("v", JSON("number", "0"))
  IN  IF \/ val = Failed \/ ~ToSet(val.rest) \subseteq Space \/ val.type # "object"
         \/ \E n \in texts : F(n, Text).type # "string"
         \/ ents.type # "object" \/ \E m \in DOMAIN ents.value : ~IsEntitlement(ents.value[m])
         \/ license.type \notin {"null", "string"} \/ ~IsTime(issued) \/ number.type # "number"
      THEN Failed
      ELSE [certId |-> F("certId", Text).value, deviceToken |-> F("deviceToken", Text).value,
            fingerprintId |-> F("fingerprintId", Text).value,
            signingKeyId |-> F("signingKeyId", Text).value,
            issuedAt |-> parseTime(issued), licenseId |-> license.value, v |-> number.value,
            entitlements |-> [m \in DOMAIN ents.value |-> Entitlement(ents.value[m])]]

=============================================================================
