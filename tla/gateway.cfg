CONSTANTS
  Keys = {k1, k2}
  NoKey = NoKey
  Caps = {1, 3}
  MaxChanges = 1
  MaxChunks = 4
  MaxWork = 3
  MaxBody = 4
  MaxRestarts = 1
  MaxBytes = 8
  MaxSent = 3
  MaxFrame = 6
  MaxFrames = 5
  MaxTurns = 2
  MaxGood = 2
  MaxIds = 2
  Window = 3
  MinSamples = 2
  Confirmations = 2
  MinCompleted = 2
  MaxFirstByte = 2
  Names = {n1, n2, n3}
  MaxTracked = 2
  TTL = 0
  MaxTime = 1
  MaxEvents = 5
SPECIFICATION FairSpec
INVARIANTS TypeOK AnswerIsClean KeyIsJudgedFairly ListsAreHonest ChildKeepsItsWord
INVARIANTS KeysAreGuarded StreamsAreHonest ConversationIsFaithful SettingsAreHonest
PROPERTY RequestsSettle
CHECK_DEADLOCK FALSE
