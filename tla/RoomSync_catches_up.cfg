SPECIFICATION FairSyncSpec
CONSTANTS
  Messages <- CopyRoom
  Actors <- MCActors
  Owner = owner
  Sender <- CopySender
  Stream <- CopyStream
  Root <- CopyRoot
  Quote <- CopyQuote
  Operations = {"send", "publish", "update", "remove", "leave", "join"}
  HistoryPolicy = "SINCE_JOIN"
  MaxOrder = 4
  MaxRevision = 2
  PageSize = 1
  None = None
  source = source
  copy = copy
  post = post
  news = news
  inbox = inbox
  owner = owner
  fan = fan
PROPERTIES CatchesUp
