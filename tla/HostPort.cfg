SPECIFICATION FairSpec
CONSTANTS
  LoadFiles <- MCLoadFiles
  MaxRegular = 2
  MaxRequest = 2
  MaxBackoff = 1
  Delays = {1}
  HoldLimit = 1
INVARIANTS
  TypeOK
  AcceptedInOrder
  AnswersMatchReads
  AnswersAhead
  SignOffReadsBack
  WritesLoggedOnce
PROPERTIES ImplementsChannel ReadsAnswered
