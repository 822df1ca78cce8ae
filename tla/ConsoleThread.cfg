\* A module with its thread, released at any time.
SPECIFICATION Spec
CONSTANTS
  ls = ls
  lso = lso
  ls_l = ls_l
  e1 = e1
  e2 = e2
  Texts <- ThreeTexts
  Entries <- TwoEntries
  Found <- FoundOf
  Kept <- KeptOf
  Extends <- ExtendsOf
  CacheSupport = {TRUE, FALSE}
  Leftovers = {"null", "garbage"}
  MaxIssue = 3
  None = none
CHECK_DEADLOCK FALSE
INVARIANTS NoLostWakeUp AnswersCover ExecOnce
PROPERTIES CommandPickedUp ReleaseEnds
