SPECIFICATION FairSpec
CONSTANTS
  Statuses = {"done", "blocked"}
  Notes = {n1}
  Cap = 2
  Tellers = {t1, t2}
INVARIANTS TypeOK EndIsUnderway
PROPERTIES DoneIsSeenForGood EndsAreTold StreamCloses
