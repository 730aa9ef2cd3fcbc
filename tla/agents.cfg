CHECK_DEADLOCK FALSE
SPECIFICATION Spec
CONSTANTS
  Feeds <- FeedsDef
  Contents <- ContentsDef
  MaxArticles = 2
  Streams = {s1, s2}
  Plains = {p}
  MaxCalls = 2
  MaxLines = 5
  MaxChars = 6
  MaxMarked = 5
INVARIANTS ScoutsSettleFirst BestEntriesReported OutcomeIsOwn CallbackRestored ReplyIsRead
PROPERTIES AgentsEnd
