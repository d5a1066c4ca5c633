SPECIFICATION Spec
CONSTANTS
  Labels = {inbox, archive}
  Msgs = {m1, m2}
  MaxUid = 3
  MaxEpoch = 1
  PageSize = 2
  Nil = Nil
SYMMETRY Symmetry
PROPERTIES
  KeepsAnnouncedUids
