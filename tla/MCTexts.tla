------------------------------ MODULE MCTexts ------------------------------
(* Certificates whose texts meet every escape, null and both orders of the *)
(* modules; the tokens come from requests and are bytes of any kind.       *)
EXTENDS Texts

At(second, below) == [second |-> second, below |-> below]

Perpetual == [kind |-> <<"perpetual">>, expiresAt |-> Nil]

Until(t) == [kind |-> <<"subscription">>, expiresAt |-> t]

Cert(token, fingerprint, license, ents) ==
  [certId |-> <<"id">>, deviceToken |-> token, fingerprintId |-> fingerprint,
   issuedAt |-> At("T1", 1), licenseId |-> license, signingKeyId |-> <<"kid">>,
   v |-> "1", entitlements |-> ents]

Certs == {
  Cert(<<"a", "\\", "\"", "u">>, <<"SOH", "US">>, <<"lk">>,
       (<<"downloads">> :> Perpetual) @@ (<<"tools">> :> Until(At("T2", 1)))),
  Cert(<<"BS", "FF", "LF", "CR", "TAB">>, <<"\\", "n", "}", ",">>, Nil,
       <<"tools">> :> Until(At("T2", 0))),
  Cert(<< >>, <<"\\", "\\", "a", "é">>, Nil, << >>) }

MCRunes == {"A", "V", "1", "D", "K", "7", "a", "v", "d", "k", "-", " "}

MCSymbols == Named \cup {"perpetual", "subscription", "T1", "T2", "id", "lk", "kid", "é"}

=============================================================================
