\* One call without intermediaries, whose result the client cannot decode.
SPECIFICATION RpcSpec
CONSTANTS
  NoPayload = NoPayload
  AnyMethod = AnyMethod
  Default = Default
  None = None
  r1 = r1
  r2 = r2
  ab = ab
  Find = Find
  auth = auth
  m1 = m1
  Key = {}
  Credential = {"alice"}
  CustomCode <- MCCustomCode
  MetaItem <- MCMetaItem
  Method = {Find}
  Middleware = {auth}
  Request <- OneRequest
  Host = {ab}
  PathService = {ab}
  NameMatches <- MCMatches
  GetMethods <- MCGetMethods
  Chain <- MCChain
  Input <- MCInput
  MiddlewareError <- MCRejections
  MethodError <- MCFailures
  StubCall <- MCInput
  ClientMiddlewares = 1
  ClientMiddlewareError <- MCRejections
  ForeignResponse <- NoResponse
INVARIANT MalformedMeansUndecoded
CHECK_DEADLOCK FALSE
