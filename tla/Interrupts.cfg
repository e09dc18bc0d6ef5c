SPECIFICATION FairSpec
CONSTANT
  LinkFlaps = FALSE
INVARIANTS OneServer MaskedWithReason WorkAnnounced
PROPERTY WorkServed
