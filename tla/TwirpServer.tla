---------------------------- MODULE TwirpServer ----------------------------
(***************************************************************************)
(* The server side of twirp-cpp: RegisterTwirpHandlers of                  *)
(* include/twirp/httplib/server-helper.h, which hangs the handlers of a    *)
(* service host into an httplib server, and the handler it registers for   *)
(* each method, together with the Invoke that src/twirpcpp/templates.go    *)
(* generates for the host.                                                 *)
(*                                                                         *)
(* httplib calls a handler on one of its worker threads, so the handlers   *)
(* of several requests run interleaved.  A step of the model is the code   *)
(* between two calls into code the library does not own: the middlewares   *)
(* and the service method.                                                 *)
(***************************************************************************)
EXTENDS ErrorCodec

CONSTANTS
  Request,          \* HTTP requests the server may receive
  Host,             \* services that have a ServiceHost
  PathService,      \* services a URL may name
  Method,           \* methods a URL may name
  AnyMethod,        \* the ".*" of the catch-all pattern
  GetMethods,       \* the methods of each host, in the order of its std::set
  NameMatches,      \* <<h, s>>: the regex made of h's name matches the text s
  Middleware,       \* middleware objects
  Chain,            \* the middlewares given with each host
  Key,              \* RequestContext keys
  Credential,       \* what a request carries that middlewares put in a context
  Default,          \* what GetOrDef returns for a key without data
  MiddlewareError,  \* statuses a middleware may return
  MethodError,      \* statuses a method may return
  Input,            \* requests the environment may send
  None              \* "not yet"

InputType == [service     : PathService,
              method      : Method,
              contentType : ContentType,
              body        : {"valid", "malformed", "huge"},
              credential  : Credential]

ASSUME ServerAssumption ==
  /\ Host \subseteq PathService
  /\ AnyMethod \notin Method
  /\ GetMethods \in [Host -> Seq(Method)]
  /\ NameMatches \subseteq Host \X PathService
  /\ \A h \in Host : <<h, h>> \in NameMatches
  /\ Chain \in [Host -> Seq(Middleware)]
  /\ MiddlewareError \subseteq Status
  /\ MethodError \subseteq Status
  /\ Input \subseteq InputType
  /\ None \notin PathService \cup Credential
  /\ Default \notin Credential

VARIABLES
  postHandlers,  \* the server's POST handlers, in the order of registration
  listening,     \* has srv.listen been called
  pc,            \* where the handler of each request is
  request,       \* the HTTP request
  target,        \* the handler httplib chose: its host and method
  context,       \* the RequestContext local to the handler
  position,      \* the middleware the loop has come to
  approved,      \* history: the middlewares that returned OK, in order
  called,        \* history: the service method that was called
  seen,          \* history: the context data the method saw
  outcome,       \* what the method returned
  reply          \* the HTTP response

setupVars   == <<postHandlers, listening>>
handlerVars == <<request, target, context, position, approved>>
methodVars  == <<called, seen, outcome>>
vars == <<setupVars, pc, handlerVars, methodVars, reply>>

PC == {"idle", "routing", "encoding", "middleware", "method", "encode", "done"}

\* A registered pattern: the host's name, and a method or the catch-all.
Pattern == [service : Host, method : Method \cup {AnyMethod}]

\* absl::OkStatus().
OkStatus == [code |-> "Ok", twirpStatus |-> NoPayload, meta |-> {}]

EmptyContext == [k \in Key |-> None]

\* RequestContext::Set of the same data under each key of a set.
Stored(ctx, K, data) == [k \in Key |-> IF k \in K THEN data ELSE ctx[k]]

\* GetOrDef for every key.
Visible(ctx) == [k \in Key |-> IF ctx[k] = None THEN Default ELSE ctx[k]]

\* httplib's own answer when no handler matches: 404 without a body.
HttplibNotFound ==
  [status |-> 404, contentType |-> "other",
   body   |-> [root |-> "none", code |-> NoPayload, msg |-> "absent", meta |-> {},
               twirpStatus |-> NoPayload, metaStrings |-> TRUE, extra |-> FALSE]]

SuccessReply == [status : {200}, contentType : ContentType, result : Pattern]

ASSUME NoneAssumption ==
  None \notin Pattern \cup Status \cup {OkStatus} \cup ErrorResponse \cup SuccessReply

Init ==
  /\ postHandlers = <<>>
  /\ listening = FALSE
  /\ pc       = [r \in Request |-> "idle"]
  /\ request  = [r \in Request |-> None]
  /\ target   = [r \in Request |-> None]
  /\ context  = [r \in Request |-> EmptyContext]
  /\ position = [r \in Request |-> 1]
  /\ approved = [r \in Request |-> <<>>]
  /\ called   = [r \in Request |-> None]
  /\ seen     = [r \in Request |-> EmptyContext]
  /\ outcome  = [r \in Request |-> None]
  /\ reply    = [r \in Request |-> None]

-----------------------------------------------------------------------------
\* Seeded fault: the catch-all is registered before the method it follows.
CatchAllFirst(h) ==
  [i \in 1..(2 * Len(GetMethods[h])) |->
     [service |-> h,
      method  |-> IF i % 2 = 0 THEN GetMethods[h][i \div 2] ELSE AnyMethod]]

(***************************************************************************)
(* Registration.  The loop over the methods registers, for each of them,   *)
(* the exact pattern and then the catch-all of the whole service.          *)
(***************************************************************************)
HandlersOf(h) ==
  [i \in 1..(2 * Len(GetMethods[h])) |->
     [service |-> h,
      method  |-> IF i % 2 = 1 THEN GetMethods[h][(i + 1) \div 2] ELSE AnyMethod]]

Registered(h) == \E i \in DOMAIN postHandlers : postHandlers[i].service = h

\* Registration precedes listening, as in the examples; the bound is that a
\* host is registered once.
RegisterTwirpHandlers(h) ==
  /\ ~listening
  /\ ~Registered(h)
  /\ postHandlers' = postHandlers \o HandlersOf(h)
  /\ UNCHANGED <<listening, pc, handlerVars, methodVars, reply>>

Listen ==
  /\ ~listening
  /\ listening' = TRUE
  /\ UNCHANGED <<postHandlers, pc, handlerVars, methodVars, reply>>

-----------------------------------------------------------------------------
(***************************************************************************)
(* Routing: httplib tries the POST handlers in the order of registration   *)
(* and runs the first whose pattern matches the path.                      *)
(***************************************************************************)
Matches(p, req) ==
  /\ <<p.service, req.service>> \in NameMatches
  /\ p.method \in {req.method, AnyMethod}

Fitting(req) == {i \in DOMAIN postHandlers : Matches(postHandlers[i], req)}

Chosen(req) == postHandlers[FirstOf(Fitting(req))]

Goto(r, from, to) ==
  /\ pc[r] = from
  /\ pc' = [pc EXCEPT ![r] = to]

\* The handler fills the response and returns.
Answer(r, from, resp) ==
  /\ Goto(r, from, "done")
  /\ reply' = [reply EXCEPT ![r] = resp]

\* The environment sends a request and a worker thread takes it.
Receive(r) ==
  /\ listening
  /\ Goto(r, "idle", "routing")
  /\ \E in \in Input : request' = [request EXCEPT ![r] = in]
  /\ UNCHANGED <<setupVars, target, context, position, approved, methodVars, reply>>

RouteNowhere(r) ==
  /\ Answer(r, "routing", HttplibNotFound)
  /\ Fitting(request[r]) = {}
  /\ UNCHANGED <<setupVars, handlerVars, methodVars>>

RouteToCatchAll(r) ==
  /\ Answer(r, "routing", SendErrorPair(BadRouteError))
  /\ Fitting(request[r]) # {}
  /\ Chosen(request[r]).method = AnyMethod
  /\ UNCHANGED <<setupVars, handlerVars, methodVars>>

\* Seeded fault: the handler captures the loop variable by reference, so every
\* handler of a host calls the last method of its set.
RouteToLastMethod(r) ==
  /\ Goto(r, "routing", "encoding")
  /\ Fitting(request[r]) # {}
  /\ Chosen(request[r]).method # AnyMethod
  /\ LET h == Chosen(request[r]).service
     IN  target' = [target EXCEPT ![r] =
                      [service |-> h, method |-> GetMethods[h][Len(GetMethods[h])]]]
  /\ UNCHANGED <<setupVars, request, context, position, approved, methodVars, reply>>

RouteToMethod(r) ==
  /\ Goto(r, "routing", "encoding")
  /\ Fitting(request[r]) # {}
  /\ Chosen(request[r]).method # AnyMethod
  /\ target' = [target EXCEPT ![r] = Chosen(request[r])]
  /\ UNCHANGED <<setupVars, request, context, position, approved, methodVars, reply>>

-----------------------------------------------------------------------------
(***************************************************************************)
(* The handler of a method.                                                *)
(***************************************************************************)
\* An unknown content type ends the request before any middleware runs.
RefuseEncoding(r) ==
  /\ Answer(r, "encoding", SendErrorPair(MalformedError))
  /\ request[r].contentType = "other"
  /\ UNCHANGED <<setupVars, handlerVars, methodVars>>

\* The arena and the RequestContext of the request come into being.
AcceptEncoding(r) ==
  /\ Goto(r, "encoding", "middleware")
  /\ request[r].contentType # "other"
  /\ context' = [context EXCEPT ![r] = EmptyContext]
  /\ UNCHANGED <<setupVars, request, target, position, approved, methodVars, reply>>

MoreMiddlewares(r) == position[r] <= Len(Chain[target[r].service])

\* Seeded fault: one RequestContext serves all the requests of a handler.
SharedContext(r) ==
  /\ Goto(r, "middleware", "middleware")
  /\ MoreMiddlewares(r)
  /\ \E K \in SUBSET Key :
       context' = [q \in Request |-> Stored(context[q], K, request[r].credential)]
  /\ approved' = [approved EXCEPT ![r] = Append(@, Chain[target[r].service][position[r]])]
  /\ position' = [position EXCEPT ![r] = @ + 1]
  /\ UNCHANGED <<setupVars, request, target, methodVars, reply>>

\* A middleware returns OK after storing the request's credential under some keys.
MiddlewareAccepts(r) ==
  /\ Goto(r, "middleware", "middleware")
  /\ MoreMiddlewares(r)
  /\ \E K \in SUBSET Key :
       context' = [context EXCEPT ![r] = Stored(@, K, request[r].credential)]
  /\ approved' = [approved EXCEPT ![r] = Append(@, Chain[target[r].service][position[r]])]
  /\ position' = [position EXCEPT ![r] = @ + 1]
  /\ UNCHANGED <<setupVars, request, target, methodVars, reply>>

\* Seeded fault: the error is sent, but the loop goes on.
RejectAndContinue(r) ==
  /\ Goto(r, "middleware", "middleware")
  /\ MoreMiddlewares(r)
  /\ \E st \in MiddlewareError : reply' = [reply EXCEPT ![r] = SendErrorStatus(st)]
  /\ position' = [position EXCEPT ![r] = @ + 1]
  /\ UNCHANGED <<setupVars, request, target, context, approved, methodVars>>

\* Seeded fault: the handler returns without sending the error.
RejectSilently(r) ==
  /\ Goto(r, "middleware", "done")
  /\ MoreMiddlewares(r)
  /\ MiddlewareError # {}
  /\ UNCHANGED <<setupVars, handlerVars, methodVars, reply>>

\* A middleware returns an error: it is the answer, and the loop ends.
MiddlewareRejects(r) ==
  /\ \E st \in MiddlewareError : Answer(r, "middleware", SendErrorStatus(st))
  /\ MoreMiddlewares(r)
  /\ UNCHANGED <<setupVars, handlerVars, methodVars>>

\* The statuses Invoke returns when it has no request object to call with.
ArgumentError(body) ==
  IF body = "huge" THEN ErrorStatus("OutOfRange")
  ELSE [ErrorStatus("InvalidArgument") EXCEPT !.twirpStatus = "malformed"]

\* After the last middleware Invoke decodes the body, in vain.
RefuseArgument(r) ==
  /\ Answer(r, "middleware", SendErrorStatus(ArgumentError(request[r].body)))
  /\ ~MoreMiddlewares(r)
  /\ request[r].body # "valid"
  /\ UNCHANGED <<setupVars, handlerVars, methodVars>>

\* Invoke decodes the body and calls the method, which reads its context.
CallMethod(r) ==
  /\ Goto(r, "middleware", "method")
  /\ ~MoreMiddlewares(r)
  /\ request[r].body = "valid"
  /\ called' = [called EXCEPT ![r] = target[r]]
  /\ seen' = [seen EXCEPT ![r] = Visible(context[r])]
  /\ UNCHANGED <<setupVars, handlerVars, outcome, reply>>

MethodSucceeds(r) ==
  /\ Goto(r, "method", "encode")
  /\ outcome' = [outcome EXCEPT ![r] = OkStatus]
  /\ UNCHANGED <<setupVars, handlerVars, called, seen, reply>>

\* Seeded fault: the result of the method is written without asking if it is OK.
IgnoreMethodError(r) ==
  /\ Goto(r, "method", "encode")
  /\ \E st \in MethodError : outcome' = [outcome EXCEPT ![r] = st]
  /\ UNCHANGED <<setupVars, handlerVars, called, seen, reply>>

MethodFails(r) ==
  /\ \E st \in MethodError :
       /\ Answer(r, "method", SendErrorStatus(st))
       /\ outcome' = [outcome EXCEPT ![r] = st]
  /\ UNCHANGED <<setupVars, handlerVars, called, seen>>

\* SerializeMessage writes the result in the encoding of the request ...
EncodeResult(r) ==
  /\ Answer(r, "encode", [status      |-> 200,
                          contentType |-> request[r].contentType,
                          result      |-> called[r]])
  /\ UNCHANGED <<setupVars, handlerVars, methodVars>>

\* ... or cannot, and its kInvalidArgument is the answer.
EncodeFails(r) ==
  /\ Answer(r, "encode", SendErrorStatus(ErrorStatus("InvalidArgument")))
  /\ UNCHANGED <<setupVars, handlerVars, methodVars>>

-----------------------------------------------------------------------------
Route(r) == RouteNowhere(r) \/ RouteToCatchAll(r) \/ RouteToMethod(r)

Handle(r) ==
  \/ RefuseEncoding(r) \/ AcceptEncoding(r)
  \/ MiddlewareAccepts(r) \/ MiddlewareRejects(r)
  \/ RefuseArgument(r) \/ CallMethod(r)
  \/ MethodSucceeds(r) \/ MethodFails(r)
  \/ EncodeResult(r) \/ EncodeFails(r)

Next ==
  \/ \E h \in Host : RegisterTwirpHandlers(h)
  \/ Listen
  \/ \E r \in Request : Receive(r) \/ Route(r) \/ Handle(r)

\* A worker thread that has a request keeps running, and middlewares and
\* methods return; nothing makes a client send one.
Fairness == \A r \in Request : WF_vars(Route(r) \/ Handle(r))

Spec == Init /\ [][Next]_vars
FairSpec == Spec /\ Fairness

-----------------------------------------------------------------------------
Context == [Key -> Credential \cup {None, Default}]

TypeOK ==
  /\ postHandlers \in Seq(Pattern)
  /\ listening \in BOOLEAN
  /\ pc       \in [Request -> PC]
  /\ request  \in [Request -> InputType \cup {None}]
  /\ target   \in [Request -> Pattern \cup {None}]
  /\ context  \in [Request -> Context]
  /\ position \in [Request -> Nat \ {0}]
  /\ approved \in [Request -> Seq(Middleware)]
  /\ called   \in [Request -> Pattern \cup {None}]
  /\ seen     \in [Request -> Context]
  /\ outcome  \in [Request -> Status \cup {OkStatus, None}]
  /\ reply    \in [Request -> ErrorResponse \cup SuccessReply \cup {None}]

(***************************************************************************)
(* No service method runs on a request that any middleware of its service  *)
(* has not let pass: the middlewares given to RegisterTwirpHandlers with   *)
(* the host whose method is called have all returned OK for this request,  *)
(* each once and in their order.                                           *)
(***************************************************************************)
ChainBeforeMethod ==
  \A r \in Request : called[r] # None => approved[r] = Chain[called[r].service]

(***************************************************************************)
(* What a method finds in its RequestContext was put there for the request *)
(* it serves, however the handlers of other requests interleave: it sees   *)
(* the default or its own request's credential, never another's.           *)
(***************************************************************************)
ContextIsOwn ==
  \A r \in Request : called[r] # None =>
    \A k \in Key : seen[r][k] \in {Default, request[r].credential}

(***************************************************************************)
(* A method runs only on a request whose path names it: the method is the  *)
(* one of the path, and the service is the one of the path, or one whose   *)
(* name, read as a regular expression, also matches it and whose handlers  *)
(* were registered before those of the service named.                      *)
(***************************************************************************)
RegisteredBefore(h, s) ==
  \E i \in DOMAIN postHandlers :
    /\ postHandlers[i].service = h
    /\ \A j \in 1..i : postHandlers[j].service # s

Named(p, req) ==
  /\ p.method = req.method
  /\ \/ p.service = req.service
     \/ /\ <<p.service, req.service>> \in NameMatches
        /\ RegisteredBefore(p.service, req.service)

CalledAsNamed ==
  \A r \in Request : called[r] # None => Named(called[r], request[r])

(***************************************************************************)
(* Which method of a registered host can be reached: a request for the     *)
(* first in the order of its set gets to it unless a look-alike service    *)
(* was registered earlier.  (Of the others see BadRouteOnlyIfUnmatched.)   *)
(***************************************************************************)
FirstMethodReachable ==
  \A r \in Request :
    LET s == request[r].service
    IN  /\ pc[r] = "done"
        /\ s \in Host /\ Registered(s)
        /\ request[r].method = GetMethods[s][1]
        /\ \A h \in Host : <<h, s>> \in NameMatches /\ h # s => ~RegisteredBefore(h, s)
        => target[r] \in Pattern

\* Success is reported only for a request whose method succeeded; the answer is
\* that method's result, in the encoding the request came in.
SuccessIsTrue ==
  \A r \in Request : pc[r] = "done" /\ reply[r].status = 200 =>
    /\ outcome[r] = OkStatus
    /\ reply[r].result = called[r]
    /\ reply[r].contentType = request[r].contentType

(***************************************************************************)
(* Why these hold.  Each place of a handler goes with what the handler has *)
(* established by then: a chosen method, the middlewares approved so far,  *)
(* a context filled for this request only, the method that was called.     *)
(***************************************************************************)
HandlerPlaces(r) ==
  /\ pc[r] # "idle" => request[r] \in InputType
  /\ pc[r] \in {"encoding", "middleware", "method", "encode"} => target[r] \in Pattern
  /\ pc[r] \in {"idle", "routing", "encoding", "middleware"} => called[r] = None
  /\ pc[r] \in {"method", "encode"} => called[r] = target[r]
  /\ pc[r] = "encode" => outcome[r] = OkStatus

ChainSoFar(r) ==
  /\ pc[r] \in {"idle", "routing", "encoding"} =>
       position[r] = 1 /\ approved[r] = <<>>
  /\ pc[r] = "middleware" =>
       /\ position[r] \in 1..(Len(Chain[target[r].service]) + 1)
       /\ Len(approved[r]) = position[r] - 1
       /\ \A i \in 1..Len(approved[r]) : approved[r][i] = Chain[target[r].service][i]

ContextSoFar(r) ==
  pc[r] = "middleware" =>
    \A k \in Key : context[r][k] \in {None, request[r].credential}

HandlerInv == \A r \in Request : HandlerPlaces(r) /\ ChainSoFar(r) /\ ContextSoFar(r)

\* Every exact pattern is followed by its service's catch-all, the first
\* handler of a service is that of its first method, requests come when
\* registration is over, and a chosen method is named by the path.
RoutingInv ==
  /\ \A i \in DOMAIN postHandlers : postHandlers[i].method # AnyMethod =>
       /\ i + 1 \in DOMAIN postHandlers
       /\ postHandlers[i + 1] = [service |-> postHandlers[i].service, method |-> AnyMethod]
  /\ \A s \in Host : Registered(s) =>
       \E i \in DOMAIN postHandlers :
         /\ postHandlers[i] = [service |-> s, method |-> GetMethods[s][1]]
         /\ \A j \in 1..(i - 1) : postHandlers[j].service # s
  /\ \A r \in Request : pc[r] # "idle" => listening
  /\ \A r \in Request : pc[r] \in {"encoding", "middleware"} => Named(target[r], request[r])

\* Every request a worker has taken is answered.
EveryRequestAnswered ==
  \A r \in Request : pc[r] = "routing" ~> reply[r] # None

-----------------------------------------------------------------------------
(***************************************************************************)
(* For each of its requests the server keeps the promise of Handling,      *)
(* however the handlers interleave: what Handling!Promise says, for every  *)
(* request at once.                                                        *)
(***************************************************************************)
RunOf(r) ==
  IF pc[r] = "method" THEN "running"
  ELSE IF outcome[r] = None THEN "none"
  ELSE IF outcome[r] = OkStatus THEN "succeeded" ELSE "failed"

AnswerOf(r) ==
  IF pc[r] = "idle" THEN "none"
  ELSE IF reply[r] = None THEN "pending"
  ELSE IF reply[r].status = 200 THEN "success" ELSE "error"

Promised(r) == INSTANCE Handling WITH run <- RunOf(r), answer <- AnswerOf(r)

KeepsPromise ==
  /\ \A r \in Request : Promised(r)!Init
  /\ [][\A r \in Request : [Promised(r)!Next]_<<RunOf(r), AnswerOf(r)>>]_vars

-----------------------------------------------------------------------------
(* What the repository says of the program and the code does not do. *)

\* "An error returned if the request can't be matched with a service method":
\* bad_route is not the answer to a request that names a registered method.
BadRouteOnlyIfUnmatched ==
  \A r \in Request :
    pc[r] = "done" /\ reply[r] = SendErrorPair(BadRouteError) /\ called[r] = None =>
      \A i \in DOMAIN postHandlers :
        [service |-> request[r].service, method |-> request[r].method] # postHandlers[i]

\* bad_route "is returned by generated server code and should not be returned
\* by application code": a method that says kUnimplemented does not cause it.
BadRouteIsNotFromMethods ==
  \A r \in Request :
    pc[r] = "done" /\ called[r] # None /\ outcome[r] # OkStatus /\ outcome[r].twirpStatus = NoPayload
      => reply[r].body.code # "bad_route"

\* "wire and serialization problems are also reported as internal errors":
\* a result that cannot be written is not blamed on the request.
EncodingProblemIsInternal ==
  \A r \in Request :
    pc[r] = "done" /\ outcome[r] = OkStatus /\ reply[r].status # 200
      => reply[r].body.code = "internal"
=============================================================================
