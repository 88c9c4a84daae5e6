\* An error crosses three services, each in C++ or in Go.
SPECIFICATION Spec
CONSTANTS
  m1 = m1
  NoPayload = NoPayload
  CustomCode <- MCCustomCode
  MetaItem <- MCMetaItem
  GoErrorCode <- MCGoErrorCode
  GoHttpStatus <- MCGoHttpStatus
  CppError <- MCCppError
  GoMethodError <- MCGoMethodError
  ForeignResponse <- MCForeignResponse
  MaxHops = 3
INVARIANTS
  TypeOK
  Readable
  MeaningSurvives
  NeverAThirdThing
\* The chain ends at its last client.
CHECK_DEADLOCK FALSE
