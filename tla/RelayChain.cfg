\* An error crosses three servers; intermediaries may answer for any of them.
SPECIFICATION Spec
CONSTANTS
  m1 = m1
  m2 = m2
  NoPayload = NoPayload
  CustomCode <- MCCustomCode
  MetaItem <- MCMetaItem
  ForeignResponse <- MCForeignResponse
  MaxHops = 3
INVARIANTS
  TypeOK
  CodeSurvives
  MetaSurvives
  WireConsistent
  WireSettles
  CarriedUnchanged
\* The chain ends at its last client.
CHECK_DEADLOCK FALSE
