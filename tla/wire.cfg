SPECIFICATION Spec
CONSTANTS
  None = None
  MaxRequests = 3
  Repeated <- RepeatedTypes
  MaxDamages = 2
INVARIANTS
  MessagesUnderstood
  FailsForAReason
  DamageNeverDelivered
  AnswersThisCall
  NoPartIsWhole
  ImageUnderstood
  NobodyWaitsForNothing
CHECK_DEADLOCK FALSE
