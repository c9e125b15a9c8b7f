SPECIFICATION Spec
CONSTANTS
  Keys <- MCKeys
  Values = {v1, v2}
  NoValue = NoValue
  Hash <- MCHash
  FirstSize = 2
  MaxSize = 8
INVARIANTS TypeOK EntriesFound CountCovers NeverFull
PROPERTY ActsAsMap
