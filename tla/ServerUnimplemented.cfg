\* A method that returns kUnimplemented.
SPECIFICATION Spec
CONSTANTS
  NoPayload = NoPayload
  AnyMethod = AnyMethod
  Default = Default
  None = None
  r1 = r1
  r2 = r2
  ab = ab
  axb = axb
  lost = lost
  Find = Find
  Store = Store
  Zap = Zap
  auth = auth
  audit = audit
  m1 = m1
  Key = {k1}
  Credential = {"alice", "bob"}
  CustomCode <- MCCustomCode
  MetaItem <- MCMetaItem
  Method <- MCMethod
  Middleware <- MCMiddleware
  Request <- OneRequest
  Host <- RoutingHost
  PathService <- RoutingPaths
  NameMatches <- RoutingMatches
  GetMethods <- RoutingMethods
  Chain <- PipelineChain
  Input <- PipelineInput
  MiddlewareError <- Rejections
  MethodError <- NotImplemented
INVARIANTS
  BadRouteIsNotFromMethods
\* Every request may have been answered.
CHECK_DEADLOCK FALSE
