SPECIFICATION Spec
CONSTANTS
  ProfitTarget = 2
  SessionLimit = 2
  DailyLimit = 3
  MaxMoney = 3
  MaxDay = 2
  Environments <- Combinations
VIEW View
INVARIANT TypeOK
PROPERTIES
  ExitIsOwnUnlessUnread
  ExitIsTaken
  RecordIsTheBank
  HaltHolds
  NoFreshSessionOnBreachedDay
