\* Two calls, with everything that can happen on the way.
SPECIFICATION FairRpcSpec
CONSTANTS
  NoPayload = NoPayload
  AnyMethod = AnyMethod
  Default = Default
  None = None
  r1 = r1
  r2 = r2
  ab = ab
  Find = Find
  auth = auth
  m1 = m1
  Key = {}
  Credential = {"alice"}
  CustomCode <- MCCustomCode
  MetaItem <- MCMetaItem
  Method = {Find}
  Middleware = {auth}
  Request <- MCRequest
  Host = {ab}
  PathService = {ab}
  NameMatches <- MCMatches
  GetMethods <- MCGetMethods
  Chain <- MCChain
  Input <- MCInput
  MiddlewareError <- MCRejections
  MethodError <- MCFailures
  StubCall <- MCInput
  ClientMiddlewares = 1
  ClientMiddlewareError <- MCRejections
  ForeignResponse <- MCForeignResponse
INVARIANTS
  RpcTypeOK
  OkMeansExecuted
  MethodErrorArrives
PROPERTIES
  EveryCallReturns
  KeepsRemoteCall
\* Every call may have returned and every request been answered.
CHECK_DEADLOCK FALSE
