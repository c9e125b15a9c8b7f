SPECIFICATION Spec
CONSTANTS
  Keys <- MCKeys
  Values = {v1}
  NoValue = NoValue
  Hash <- MCHash
  FirstSize = 2
  MaxSize = 8
PROPERTY DictActsAsMap
CHECK_DEADLOCK FALSE
