------------------------------- MODULE Texts -------------------------------
(***************************************************************************)
(* The two texts that leave the service and come back: a certificate, that *)
(* the client parses and writes again to compare the bytes, and a license  *)
(* key, that people type.  On their way others spell them anew: proxies    *)
(* and stores with blanks, another order of the members and escapes that   *)
(* are not needed, people with lower case, dashes and blanks.              *)
(***************************************************************************)
EXTENDS Canonical, KeyText

CONSTANTS
  Payloads,       \* what signCert can assemble
  MaxEdits        \* bound on the changes of spelling

VARIABLES
  payload, wire,  \* a certificate and the text that arrives
  secret, typed,  \* a key and what is typed
  edits

Instants == [second : Symbols, below : Nat]

\* What a certificate can hold: bytes, times, and one or both modules or none.
IsCertificate(p) ==
  LET mods == DOMAIN p.entitlements
  IN  /\ mods \subseteq {<<"downloads">>, <<"tools">>}
      /\ p \in [certId : Bytes, deviceToken : Bytes, fingerprintId : Bytes, signingKeyId : Bytes,
                issuedAt : Instants, licenseId : {Nil} \cup Bytes, v : {"1"},
                entitlements : [mods -> [kind : Bytes, expiresAt : {Nil} \cup Instants]]]

ASSUME PayloadsAssumption == (\A p \in Payloads : IsCertificate(p)) /\ Nil \notin Instants

vars == <<payload, wire, secret, typed, edits>>

cert == <<payload, wire>>

key == <<secret, typed>>

Init ==
  /\ payload \in Payloads /\ wire = MarshalCanonical(payload)
  /\ secret \in Secrets /\ typed = Display(secret)
  /\ edits = 0

Edit == edits < MaxEdits /\ edits' = edits + 1

-----------------------------------------------------------------------------
(* Other spellings of a certificate.                                       *)

\* What follows position i of the wire: text outside strings, inside one, or
\* the second half of an escape.
After[i \in 0 .. Len(wire)] ==
  IF i = 0 THEN "out" ELSE
  LET at == After[i - 1]
      c  == wire[i]
  IN  CASE at = "escaped"               -> "in"
        [] at = "in" /\ c = "\\"        -> "escaped"
        [] at # "escaped" /\ c = "\""   -> IF at = "in" THEN "out" ELSE "in"
        [] OTHER                        -> at

Reorder ==
  /\ Edit
  /\ wire = MarshalCanonical(payload)
  /\ wire' = Object(Reverse(Members(payload)))
  /\ UNCHANGED <<payload, key>>

InsertBlank(i) ==
  /\ Edit
  /\ After[i - 1] = "out"
  /\ wire' = InsertAt(wire, i, "LF")
  /\ UNCHANGED <<payload, key>>

\* The code of the symbols of this model that people see.
Code == [c \in {"\\", "a"} |->
           IF c = "a" THEN <<"0", "0", "6", "1">> ELSE <<"0", "0", "5", "c">>]

\* \u005c for the two bytes of an escaped backslash, \u0061 for an a.
EscapeNeedlessly(i) ==
  /\ Edit
  /\ \/ /\ wire[i] = "a" /\ After[i - 1] = "in"
        /\ wire' = SubSeq(wire, 1, i - 1) \o <<"\\", "u">> \o Code["a"] \o Drop(wire, i)
     \/ /\ wire[i] = "\\" /\ After[i - 1] = "escaped"
        /\ wire' = SubSeq(wire, 1, i - 1) \o <<"u">> \o Code["\\"] \o Drop(wire, i)
  /\ UNCHANGED <<payload, key>>

-----------------------------------------------------------------------------
(* Other spellings of a key.                                               *)

TypeLower(i) ==
  /\ Edit
  /\ typed[i] \in DOMAIN Lower
  /\ typed' = [typed EXCEPT ![i] = Lower[@]]
  /\ UNCHANGED <<secret, cert>>

InsertSeparator(i, c) ==
  /\ Edit
  /\ typed' = InsertAt(typed, i, c)
  /\ UNCHANGED <<secret, cert>>

LeaveOutDash(i) ==
  /\ Edit
  /\ typed[i] = "-"
  /\ typed' = RemoveAt(typed, i)
  /\ UNCHANGED <<secret, cert>>

Next ==
  \/ Reorder
  \/ \E i \in DOMAIN wire : InsertBlank(i) \/ EscapeNeedlessly(i)
  \/ \E i \in DOMAIN typed : TypeLower(i) \/ LeaveOutDash(i) \/ \E c \in {"-", " "} : InsertSeparator(i, c)

Spec == Init /\ [][Next]_vars

-----------------------------------------------------------------------------
(* Properties.                                                             *)

ToTheSecond(t) == IF t = Nil THEN Nil ELSE [t EXCEPT !.below = 0]

EntitlementsAsRead(ents) == [m \in DOMAIN ents |-> [ents[m] EXCEPT !.expiresAt = ToTheSecond(@)]]

\* A certificate without what is below the seconds.
AsRead(p) == [p EXCEPT !.issuedAt = ToTheSecond(@), !.entitlements = EntitlementsAsRead(@)]

\* With its members in another order, blanks between them and unneeded escapes, a
\* certificate reads as what was signed, to the second, and what the client writes
\* again is byte for byte what was signed.
ReadsAndRewritesAsSigned ==
  /\ UnmarshalCanonical(wire) = AsRead(payload)
  /\ MarshalCanonical(UnmarshalCanonical(wire)) = MarshalCanonical(payload)

\* However a key is typed, it is the one that was shown.
OneKeyHoweverTyped == NormalizeKey(typed) = Prefix \o secret

=============================================================================
