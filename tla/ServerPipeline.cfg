\* Two services, registered in either order; two handlers interleave; every
\* path, and every way a handler can end.
SPECIFICATION FairSpec
CONSTANTS
  NoPayload = NoPayload
  AnyMethod = AnyMethod
  Default = Default
  None = None
  r1 = r1
  r2 = r2
  ab = ab
  axb = axb
  lost = lost
  Find = Find
  Store = Store
  Zap = Zap
  auth = auth
  audit = audit
  m1 = m1
  Key = {k1}
  Credential = {"alice", "bob"}
  CustomCode <- MCCustomCode
  MetaItem <- MCMetaItem
  Method <- MCMethod
  Middleware <- MCMiddleware
  Request <- TwoRequests
  Host <- RoutingHost
  PathService <- RoutingPaths
  NameMatches <- RoutingMatches
  GetMethods <- RoutingMethods
  Chain <- PipelineChain
  Input <- PipelineInput
  MiddlewareError <- Rejections
  MethodError <- Failures
INVARIANTS
  TypeOK
  ChainBeforeMethod
  ContextIsOwn
  SuccessIsTrue
  CalledAsNamed
  FirstMethodReachable
  HandlerInv
  RoutingInv
PROPERTIES
  EveryRequestAnswered
  KeepsPromise
\* Every request may have been answered.
CHECK_DEADLOCK FALSE
