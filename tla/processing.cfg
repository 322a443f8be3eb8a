CONSTANTS
  Tolerance = 1
  Unknown = 99
  Marks = {"think", "reasoning"}
  NoMark = NoMark
  Kinds = {"full", "analysis", "translation", "daily_summary"}
  Lengths <- TheLengths
  Transcriptions <- TheTranscriptions
  Diarizations <- TheDiarizations
  Models <- TheModels
  DraftSizes <- TheSizes
  Quotes <- TheQuotes
  Said <- TheSaid
  Budget = 6
  Prefix = 2
  GroupCap = 3
  MaxPasses = 2
SPECIFICATION Spec
INVARIANTS TypeOK PromptsTileTheInput ReplyIsTheAnswer QuotesAreGrounded MergeIsFaithful
PROPERTIES EveryRunEnds
CHECK_DEADLOCK FALSE
