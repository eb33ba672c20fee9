SPECIFICATION OperatorSpec
CONSTANTS
  MaxActions = 2
  Texts = {same, other}
  Workers = {w1, w2}
  NoText = NoText
  w1 = w1
  w2 = w2
  same = same
  other = other
  Apis = {a1}
  Supporters = {c1}
  Questions = {q1}
  MaxAsides = 2
  Detectors = {d1, d2}
  Hold = 2
  Gap = 1
  MaxTime = 3
INVARIANTS
  NeverResent
PROPERTIES
  EveryReplySettles
  QuestionsSettle
  AttentionIsSustained
CHECK_DEADLOCK FALSE
