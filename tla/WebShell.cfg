SPECIFICATION Spec
CONSTANTS
  Text <- Names
  ServerDomain <- OfServer
  Message = {1, 2, 3}
  WithFiles = {2}
  WithLinks = {1}
  Lists <- ThreeOrLess
  Inboxes <- SomeInboxes
  Hits <- LettersHit
  ReadMax = 2
  ReadKeep = 1
  MaxActs = 4
  MaxChanges = 1
INVARIANTS TypeOK OpensWhatItShows KeysMissNothing
PROPERTIES HighlightNeverSlips
CHECK_DEADLOCK FALSE
