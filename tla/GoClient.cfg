\* One call, tried up to three times, with its context ending at any time.
SPECIFICATION Spec
CONSTANTS
  m1 = m1
  NoPayload = NoPayload
  None = None
  CustomCode <- MCCustomCode
  MetaItem <- MCMetaItem
  GoErrorCode <- TwirpErrorCode
  GoHttpStatus <- MCGoHttpStatus
  MaxAttempts = 3
  HookError <- MCHookError
  Answer <- MCAnswer
INVARIANTS
  TypeOK
  AttemptsConclude
PROPERTIES
  NothingSentInVain
  DoneMeansReturned
\* A call that has returned is over.
CHECK_DEADLOCK FALSE
