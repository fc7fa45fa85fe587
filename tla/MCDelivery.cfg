CONSTANTS
  n1 = n1
  Notif = {n1}
  MaxAttempts = 2
  JobAttempts = 2
  MaxStalls = 1
  MaxClaims = 2
  MaxMoves = 1
  MaxTrouble = 1
SPECIFICATION Spec
INVARIANTS TypeOK OneSender RepeatsExplained StaleWasTried
PROPERTIES NoStepBack NoticeStands EveryRowSettles
