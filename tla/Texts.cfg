\* Three certificates and the keys of one group, with up to two changes of spelling.
SPECIFICATION Spec
CONSTANTS
  Nil = Nil
  Symbols <- MCSymbols
  Runes <- MCRunes
  BadFormat = BadFormat
  Groups = 2
  GroupLength = 2
  Payloads <- Certs
  MaxEdits = 2
CHECK_DEADLOCK FALSE
INVARIANTS ReadsAndRewritesAsSigned OneKeyHoweverTyped
