SPECIFICATION FairSpec
CONSTANTS
  Size = 2
  Queue = 1
  Modulus = 2
  Twice = {1}
  MaxCalls = 3
  MaxLogins = 1
INVARIANTS
  TypeOK
  AnswersOwnCall
  LostToLateAnswers
PROPERTIES
  PoolLives
CHECK_DEADLOCK FALSE
