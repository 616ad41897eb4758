------------------------------- MODULE Signer -------------------------------
(***************************************************************************)
(* The certificate signer: which key material the configuration gives it,  *)
(* which key signs new payloads, what a signature is and who accepts it.   *)
(*                                                                         *)
(* Ed25519 is ideal here: a public key is named by the seed it is derived  *)
(* from, a signature by the key that made it and the kid its payload       *)
(* claims.  Nobody signs with a seed that is not configured.               *)
(***************************************************************************)
EXTENDS Naturals, Sequences

CONSTANTS
  Kids,           \* key ids
  Seeds,          \* well-formed seeds of 64 hex digits
  Malformed,      \* any other value of a seed
  Empty,          \* the empty string, as a key_id or a sign_key_id
  Nil,            \* a nil entry of signing.keys
  None            \* no signer, no key, no certificate

ASSUME SignerMarks == /\ None \notin Kids \cup Seeds \cup {Empty, Malformed}
                      /\ Malformed \notin Seeds /\ Empty \notin Kids

SigningKey == [kid : Kids \cup {Empty}, seed : Seeds \cup {Malformed}]

ASSUME NilIsNoKey == Nil \notin SigningKey

SigningConfig == [keys : Seq(SigningKey \cup {Nil}), signKeyID : Kids \cup {Empty}]

Listed(sc) == {i \in DOMAIN sc.keys : sc.keys[i] # Nil}

Duplicate(sc) == \E i, j \in Listed(sc) : i # j /\ sc.keys[i].kid = sc.keys[j].kid

\* The map kid -> seed that resolveSigner fills: the last entry of a kid stays.
KeyMap(sc) ==
  LET Of(k) == {i \in Listed(sc) : sc.keys[i].kid = k}
  IN  [k \in {sc.keys[i].kid : i \in Listed(sc)} |->
         sc.keys[CHOOSE i \in Of(k) : \A j \in Of(k) : j <= i].seed]

\* Bug: several keys and no selection, and one is picked.
ActiveOfAny(keys, signKeyID) ==
  IF signKeyID # Empty THEN signKeyID ELSE CHOOSE k \in DOMAIN keys : keys[k] # Malformed

\* The key that signs new payloads: the one selected, or the only one.
ActiveOf(keys, signKeyID) ==
  IF signKeyID # Empty THEN signKeyID
  ELSE IF \E k \in DOMAIN keys : DOMAIN keys = {k}
       THEN CHOOSE k \in DOMAIN keys : TRUE
       ELSE None

\* Any flaw of the key material is an error, never a fallback.
NewSigner(keys, signKeyID) ==
  IF /\ DOMAIN keys # {}
     /\ Empty \notin DOMAIN keys
     /\ \A k \in DOMAIN keys : keys[k] # Malformed
     /\ ActiveOf(keys, signKeyID) \in DOMAIN keys
  THEN [keys |-> keys, active |-> ActiveOf(keys, signKeyID)]
  ELSE None

\* Bug: a second entry of one kid overwrites the first.
ResolveSignerOverwrites(sc) ==
  IF sc.keys = << >> THEN None ELSE NewSigner(KeyMap(sc), sc.signKeyID)

ResolveSigner(sc) ==
  IF sc.keys = << >> \/ Duplicate(sc) THEN None ELSE NewSigner(KeyMap(sc), sc.signKeyID)

PublicKeys(s) == [k \in Kids |-> IF k \in DOMAIN s.keys THEN s.keys[k] ELSE None]

Ready(s) == s.active \in DOMAIN s.keys

\* Sign takes the kid of the payload literally: no key of that name, no signature.
Sign(s, kid) == IF kid \in DOMAIN s.keys THEN [kid |-> kid, sig |-> s.keys[kid]] ELSE None

\* signCert: every new certificate claims the active key.
SignCert(s) == Sign(s, s.active)

Verify(pub, cert) == cert.sig = pub

\* A client looks the claimed kid up in its table, and refuses an unknown one.
Accepts(table, cert) ==
  /\ cert.kid \in Kids /\ table[cert.kid] # None
  /\ Verify(table[cert.kid], cert)

=============================================================================
