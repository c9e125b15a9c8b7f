SPECIFICATION Spec
CONSTANTS
  IntLimit = 16
  None = None
  Characters <- MCCharacters
  Subs <- MCSubs
  Offsets <- MCOffsets
  Families <- MCFamilies
  Fragments <- MCFragments
  Bound <- MCBound
INVARIANTS
  TokensAsLayout
  LiteralsExact
  ParsesGrammar
  FormatsAsWritten
  SearchesExact
  SplitsExact
  WordsExact
  ReprReads
  TranslatesAll
  FormsRecognised
CHECK_DEADLOCK FALSE
