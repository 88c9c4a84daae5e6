\* An intermediary answers with JSON that is not an object.
SPECIFICATION Spec
CONSTANTS
  m1 = m1
  m2 = m2
  NoPayload = NoPayload
  CustomCode <- MCCustomCode
  MetaItem <- MCMetaItem
  ForeignResponse <- MCForeignResponse
  MaxHops = 3
INVARIANT
  MakeRequestReturns
\* The chain ends at its last client.
CHECK_DEADLOCK FALSE
