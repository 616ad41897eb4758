------------------------------ MODULE KeyText ------------------------------
(***************************************************************************)
(* The spelling of a license key: GenerateKey shows it in groups behind    *)
(* dashes, NormalizeKey reads whatever people make of that.                *)
(***************************************************************************)
EXTENDS Naturals, SequencesExt

CONSTANTS
  Groups, GroupLength,    \* 4 and 5 in the program
  Runes,                  \* what people type
  BadFormat               \* BAD_KEY_FORMAT

ASSUME GroupsAssumption == Groups \in Nat \ {0} /\ GroupLength \in Nat \ {0}

ASSUME RunesAssumption ==
  {"A", "V", "1", "D", "K", "7", "a", "v", "d", "k", "-", " "} \subseteq Runes

Typing == Seq(Runes)

Prefix == <<"A", "V", "1", "D">>

\* Letters of this model, and the lower case of those that have one.
Lower == [A |-> "a", V |-> "v", D |-> "d", K |-> "k"]

Alphanumeric == DOMAIN Lower \cup {"1", "7"}

\* The letters of a key, as GenerateKey draws them.
Secrets == [1 .. Groups * GroupLength -> {"K", "7"}]

\* GenerateKey: a dash before each group.
Display(secret) ==
  Prefix \o FlattenSeq([i \in DOMAIN secret |->
              IF (i - 1) % GroupLength = 0 THEN <<"-", secret[i]>> ELSE <<secret[i]>>])

ToUpper(c) == IF \E u \in DOMAIN Lower : Lower[u] = c
              THEN CHOOSE u \in DOMAIN Lower : Lower[u] = c ELSE c

Shaped(kept) ==
  IF Len(kept) = Len(Prefix) + Groups * GroupLength /\ IsPrefix(Prefix, kept)
  THEN kept ELSE BadFormat

Upper(raw) == [i \in DOMAIN raw |-> ToUpper(raw[i])]

\* What is left of a text without the symbols that are no capital and no digit.
Strip[raw \in Typing] ==
  IF raw = << >> THEN << >>
  ELSE (IF Head(raw) \in Alphanumeric THEN <<Head(raw)>> ELSE << >>) \o Strip[Tail(raw)]

\* Bug: what is not a capital or a digit goes before the rest is put in capitals.
NormalizeKeyStripFirst(raw) == Shaped(Upper(Strip[raw]))

NormalizeKey(raw) == Shaped(Strip[Upper(raw)])

=============================================================================
