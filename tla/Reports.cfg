SPECIFICATION FairSpec
CONSTANTS
  u1 = u1
  u2 = u2
  k1 = k1
  k2 = k2
  Accounts = {u1, u2}
  NoAccount = NoAccount
  NoReport = NoReport
  Uploads = {k1, k2}
  Idle = Idle
INVARIANTS
  TypeOK
  OwnReports
  HistoryCurrent
  NothingAfterBad
PROPERTIES
  HistoryConverges
  ImplementsLog
