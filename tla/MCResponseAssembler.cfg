\* Two responses, two links and a dedup key.
CONSTANTS
  Requests = {r1, r2}
  Links = {l1, l2}
  Keys = {k1}
  NoKey = NoKey
  NoLink = NoLink
  MaxLoads = 3
  MaxSkip = 1
SPECIFICATION Spec
INVARIANTS TraversalsAreKept NothingIsLeft WithheldIsSentOrClaimed
SYMMETRY MCSymmetry
CHECK_DEADLOCK FALSE
