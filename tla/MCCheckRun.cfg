SPECIFICATION FairSpec
CONSTANTS
  Reviews = {r1, r2}
  MaxHead = 2
  Disabled = {TRUE, FALSE}
  Neutral = FALSE
  Faults = TRUE
INVARIANTS
  TypeOK
  GreenIsEarned
  BlockStands
PROPERTY
  PendingHeals
