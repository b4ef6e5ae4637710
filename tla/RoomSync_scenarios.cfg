SPECIFICATION MCSpec
CONSTANTS
  Messages <- AllMessages
  Actors <- MCActors
  Owner = owner
  Sender <- MCSender
  Stream <- MCStream
  Root <- MCRoot
  Quote <- MCQuote
  Operations = {"send", "publish", "update", "remove", "purge", "join", "leave", "ban", "block", "delete_account"}
  HistoryPolicy = "SINCE_JOIN"
  MaxOrder = 6
  MaxRevision = 2
  PageSize = 1
  None = None
  source = source
  copy = copy
  post = post
  news = news
  inbox = inbox
  owner = owner
  fan = fan
INVARIANTS SentOnce ScreenFresh NothingMissing NeverResurrected
PROPERTIES EventsInCommitOrder DeletedForGood
