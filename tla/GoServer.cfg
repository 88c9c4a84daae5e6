\* One request to the Go server, with its context ending at any time.
SPECIFICATION Spec
CONSTANTS
  m1 = m1
  NoPayload = NoPayload
  None = None
  Blank = "-"
  CustomCode <- MCCustomCode
  MetaItem <- MCMetaItem
  GoErrorCode <- TwirpErrorCode
  GoHttpStatus <- MCGoHttpStatus
  ServerConfig <- MCServerConfig
  Caller <- MCCaller
  MaxCalls = 2
  HookError <- MCHookError
  HandlerError <- MCHandlerError
  Input <- MCInput
INVARIANTS
  TypeOK
  HooksPairUp
  PanicAnswered
  InterruptedIsNotMalformed
  ServiceCalledFor
  MeetIffClean
PROPERTIES
  EveryRequestEnds
  KeepsPromise
\* A request that has ended has nothing more to do.
CHECK_DEADLOCK FALSE
