--------------------------- MODULE TwirpRpcProofs --------------------------
(***************************************************************************)
(* Proofs about TwirpServer and TwirpRpc, for every set of hosts, methods, *)
(* middlewares and requests: first the invariants of the server and its    *)
(* promise; then, of TwirpRpc, that a call that returns OK was executed,   *)
(* an error arrives with its meaning, and every call keeps the promise of  *)
(* RemoteCall.                                                             *)
(***************************************************************************)
EXTENDS TwirpRpc, ErrorCodecProofs, SequenceTheorems

\* The handlers one call of RegisterTwirpHandlers adds.
LEMMA HandlersOfType ==
  ASSUME NEW h \in Host
  PROVE  HandlersOf(h) \in Seq(Pattern)
<1> DEFINE n == Len(GetMethods[h])
<1>1. GetMethods[h] \in Seq(Method)
  BY ServerAssumption
<1>2. n \in Nat /\ \A i \in 1..n : GetMethods[h][i] \in Method
  BY <1>1, LenProperties, ElementOfSeq
<1>3. ASSUME NEW i \in 1..(2 * n), i % 2 = 1 PROVE (i + 1) \div 2 \in 1..n
  BY <1>2, <1>3
<1>4. HandlersOf(h) \in [1..(2 * n) -> Pattern]
  BY <1>2, <1>3 DEF HandlersOf, Pattern
<1>5. 2 * n \in Nat
  BY <1>2
<1> QED
  BY <1>4, <1>5, SeqDef

\* The two fixed errors of server-helper.h, and httplib's own answer.
LEMMA FixedReplies ==
  /\ SendErrorPair(MalformedError) \in ErrorResponse
  /\ SendErrorPair(BadRouteError)  \in ErrorResponse
  /\ HttplibNotFound \in ErrorResponse
<1>1. /\ 4 \in DOMAIN CodeMap /\ CodeMap[4].errCode = "malformed"
      /\ 7 \in DOMAIN CodeMap /\ CodeMap[7].errCode = "bad_route"
  BY CodeMapDomain DEF CodeMap, ErrCodeEntry
<1>2. "malformed" \in WireCode /\ "bad_route" \in WireCode
  BY <1>1 DEF WireCode, TwirpErrorCode
<1>3. /\ SendErrorPair(MalformedError) \in ErrorResponse
      /\ SendErrorPair(BadRouteError)  \in ErrorResponse
  BY <1>2, ErrorReplyDecodable DEF SendErrorPair, MalformedError, BadRouteError
<1>4. HttplibNotFound \in ErrorResponse
  BY DEF HttplibNotFound, ErrorResponse, ErrorBody, ContentType
<1> QED
  BY <1>3, <1>4

\* The statuses Invoke and SerializeMessage return of themselves.
LEMMA OwnErrors ==
  /\ \A body : ArgumentError(body) \in Status
  /\ ErrorStatus("InvalidArgument") \in Status
<1>1. \A code \in ErrorStatusCode : ErrorStatus(code) \in Status
  BY DEF ErrorStatus, Status
<1>2. "InvalidArgument" \in ErrorStatusCode /\ "OutOfRange" \in ErrorStatusCode
  BY DEF ErrorStatusCode
<1>3. 4 \in DOMAIN CodeMap /\ CodeMap[4].errCode = "malformed"
  BY CodeMapDomain DEF CodeMap, ErrCodeEntry
<1>4. "malformed" \in WireCode
  BY <1>3 DEF WireCode, TwirpErrorCode
<1>5. [ErrorStatus("InvalidArgument") EXCEPT !.twirpStatus = "malformed"] \in Status
  BY <1>1, <1>2, <1>4 DEF Status
<1> QED
  BY <1>1, <1>2, <1>5 DEF ArgumentError

\* A status sent as an error is an error response, and not with 200.
LEMMA SentStatus ==
  ASSUME NEW st \in Status
  PROVE  SendErrorStatus(st) \in ErrorResponse /\ SendErrorStatus(st).status # 200
BY SendErrorWrites, LookupsOfNames

\* The handler httplib chooses fits the path, and no earlier one does.
LEMMA ChosenFits ==
  ASSUME postHandlers \in Seq(Pattern), NEW req, Fitting(req) # {}
  PROVE  \E i \in DOMAIN postHandlers :
           /\ Chosen(req) = postHandlers[i]
           /\ Chosen(req) \in Pattern
           /\ Matches(Chosen(req), req)
           /\ \A j \in DOMAIN postHandlers : Matches(postHandlers[j], req) => i <= j
<1> DEFINE i == FirstOf(Fitting(req))
<1>1. DOMAIN postHandlers = 1..Len(postHandlers) /\ Len(postHandlers) \in Nat
  BY LenProperties
<1>2. Fitting(req) \in SUBSET Nat
  BY <1>1 DEF Fitting
<1>3. i \in Fitting(req) /\ \A j \in Fitting(req) : i <= j
  BY <1>2, FirstOfIn
<1>4. i \in DOMAIN postHandlers /\ Matches(postHandlers[i], req)
  BY <1>3 DEF Fitting
<1>5. postHandlers[i] \in Pattern
  BY <1>1, <1>4, ElementOfSeq
<1>6. \A j \in DOMAIN postHandlers : Matches(postHandlers[j], req) => i <= j
  BY <1>3 DEF Fitting
<1>7. Chosen(req) = postHandlers[i]
  BY DEF Chosen
<1> QED
  BY <1>4, <1>5, <1>6, <1>7

\* While the loop over the middlewares goes on, there is a next one.
LEMMA NextMiddleware ==
  ASSUME NEW r \in Request, target[r] \in Pattern, position[r] \in Nat \ {0}, MoreMiddlewares(r)
  PROVE  /\ Chain[target[r].service] \in Seq(Middleware)
         /\ position[r] \in 1..Len(Chain[target[r].service])
         /\ Chain[target[r].service][position[r]] \in Middleware
<1>1. Chain[target[r].service] \in Seq(Middleware)
  BY ServerAssumption DEF Pattern
<1>2. Len(Chain[target[r].service]) \in Nat
  BY <1>1, LenProperties
<1>3. position[r] \in 1..Len(Chain[target[r].service])
  BY <1>2 DEF MoreMiddlewares
<1> QED
  BY <1>1, <1>3, ElementOfSeq

-----------------------------------------------------------------------------
\* Every variable keeps to its type, together with the place invariant that
\* says what a handler has got hold of by the time it uses it.
Typed == TypeOK /\ \A r \in Request : HandlerPlaces(r)

LEMMA TypedInit == Init => Typed
<1> SUFFICES ASSUME Init PROVE Typed
  OBVIOUS
<1>1. \A r \in Request : HandlerPlaces(r)
  BY DEF Init, HandlerPlaces
<1>2. EmptyContext \in Context
  BY DEF EmptyContext, Context
<1>3. \A S : <<>> \in Seq(S)
  BY EmptySeq
<1>4. /\ postHandlers \in Seq(Pattern)
      /\ listening \in BOOLEAN
      /\ pc       \in [Request -> PC]
      /\ request  \in [Request -> InputType \cup {None}]
      /\ target   \in [Request -> Pattern \cup {None}]
      /\ context  \in [Request -> Context]
  BY <1>2, <1>3 DEF Init, PC
<1>5. /\ position \in [Request -> Nat \ {0}]
      /\ approved \in [Request -> Seq(Middleware)]
      /\ called   \in [Request -> Pattern \cup {None}]
      /\ seen     \in [Request -> Context]
      /\ outcome  \in [Request -> Status \cup {OkStatus, None}]
      /\ reply    \in [Request -> ErrorResponse \cup SuccessReply \cup {None}]
  BY <1>2, <1>3 DEF Init
<1>6. TypeOK
  BY <1>4, <1>5 DEF TypeOK
<1> QED
  BY <1>1, <1>6 DEF Typed

\* What an answer does to the types: it ends the handler with a reply.
LEMMA TypedAnswer ==
  ASSUME Typed, NEW r \in Request, NEW from, NEW resp \in ErrorResponse \cup SuccessReply,
         Answer(r, from, resp), from # "idle", UNCHANGED <<setupVars, handlerVars>>,
         UNCHANGED <<called, seen>>,
         outcome' \in [Request -> Status \cup {OkStatus, None}],
         \A q \in Request \ {r} : outcome'[q] = outcome[q]
  PROVE  Typed'
<1> USE DEF Typed, TypeOK, Answer, Goto, setupVars, handlerVars
<1>1. TypeOK'
  BY DEF PC
<1>2. \A q \in Request : HandlerPlaces(q)'
  BY DEF HandlerPlaces
<1> QED
  BY <1>1, <1>2

LEMMA TypedNext == Typed /\ [Next]_vars => Typed'
<1> SUFFICES ASSUME Typed, [Next]_vars PROVE Typed'
  OBVIOUS
<1> USE DEF setupVars, handlerVars, methodVars
<1>1. ASSUME NEW h \in Host, RegisterTwirpHandlers(h) PROVE Typed'
  <2>1. postHandlers' \in Seq(Pattern)
    BY <1>1, HandlersOfType, ConcatProperties DEF RegisterTwirpHandlers, Typed, TypeOK
  <2> QED
    BY <1>1, <2>1 DEF RegisterTwirpHandlers, Typed, TypeOK, HandlerPlaces
<1>2. CASE Listen
  BY <1>2 DEF Listen, Typed, TypeOK, HandlerPlaces
<1>3. ASSUME NEW r \in Request, Receive(r) PROVE Typed'
  <2>1. PICK in \in Input : request' = [request EXCEPT ![r] = in]
    BY <1>3 DEF Receive
  <2>2. in \in InputType
    BY ServerAssumption
  <2>3. TypeOK'
    BY <1>3, <2>1, <2>2 DEF Receive, Goto, Typed, TypeOK, PC
  <2>4. \A q \in Request : HandlerPlaces(q)'
    BY <1>3, <2>1, <2>2 DEF Receive, Goto, Typed, TypeOK, HandlerPlaces
  <2> QED
    BY <2>3, <2>4 DEF Typed
<1>4. ASSUME NEW r \in Request, RouteNowhere(r) PROVE Typed'
  BY <1>4, FixedReplies, TypedAnswer DEF RouteNowhere, Typed, TypeOK
<1>5. ASSUME NEW r \in Request, RouteToCatchAll(r) PROVE Typed'
  BY <1>5, FixedReplies, TypedAnswer DEF RouteToCatchAll, Typed, TypeOK
<1>6. ASSUME NEW r \in Request, RouteToMethod(r) PROVE Typed'
  <2>1. Chosen(request[r]) \in Pattern
    BY <1>6, ChosenFits DEF RouteToMethod, Typed, TypeOK
  <2>2. TypeOK'
    BY <1>6, <2>1 DEF RouteToMethod, Goto, Typed, TypeOK, PC
  <2>3. \A q \in Request : HandlerPlaces(q)'
    BY <1>6, <2>1 DEF RouteToMethod, Goto, Typed, TypeOK, HandlerPlaces
  <2> QED
    BY <2>2, <2>3 DEF Typed
<1>7. ASSUME NEW r \in Request, RefuseEncoding(r) PROVE Typed'
  BY <1>7, FixedReplies, TypedAnswer DEF RefuseEncoding, Typed, TypeOK
<1>8. ASSUME NEW r \in Request, AcceptEncoding(r) PROVE Typed'
  <2>1. EmptyContext \in Context
    BY DEF EmptyContext, Context
  <2>2. TypeOK'
    BY <1>8, <2>1 DEF AcceptEncoding, Goto, Typed, TypeOK, PC
  <2>3. \A q \in Request : HandlerPlaces(q)'
    BY <1>8 DEF AcceptEncoding, Goto, Typed, TypeOK, HandlerPlaces
  <2> QED
    BY <2>2, <2>3 DEF Typed
<1>9. ASSUME NEW r \in Request, MiddlewareAccepts(r) PROVE Typed'
  <2>1. PICK K \in SUBSET Key : context' = [context EXCEPT ![r] = Stored(@, K, request[r].credential)]
    BY <1>9 DEF MiddlewareAccepts
  <2>2. pc[r] = "middleware" /\ request[r] \in InputType /\ target[r] \in Pattern
    BY <1>9 DEF MiddlewareAccepts, Goto, Typed, HandlerPlaces
  <2>3. context'[r] \in Context /\ context' \in [Request -> Context]
    BY <2>1, <2>2 DEF Typed, TypeOK, Context, InputType, Stored
  <2>4. Append(approved[r], Chain[target[r].service][position[r]]) \in Seq(Middleware)
    BY <1>9, <2>2, NextMiddleware, AppendProperties DEF MiddlewareAccepts, Typed, TypeOK
  <2>5. TypeOK'
    BY <1>9, <2>3, <2>4 DEF MiddlewareAccepts, Goto, Typed, TypeOK, PC
  <2>6. \A q \in Request : HandlerPlaces(q)'
    BY <1>9 DEF MiddlewareAccepts, Goto, Typed, TypeOK, HandlerPlaces
  <2> QED
    BY <2>5, <2>6 DEF Typed
<1>10. ASSUME NEW r \in Request, MiddlewareRejects(r) PROVE Typed'
  <2>1. PICK st \in MiddlewareError : Answer(r, "middleware", SendErrorStatus(st))
    BY <1>10 DEF MiddlewareRejects
  <2> QED
    BY <1>10, <2>1, ServerAssumption, SentStatus, TypedAnswer
    DEF MiddlewareRejects, Typed, TypeOK
<1>11. ASSUME NEW r \in Request, RefuseArgument(r) PROVE Typed'
  BY <1>11, OwnErrors, SentStatus, TypedAnswer DEF RefuseArgument, Typed, TypeOK
<1>12. ASSUME NEW r \in Request, CallMethod(r) PROVE Typed'
  <2>1. pc[r] = "middleware" /\ target[r] \in Pattern
    BY <1>12 DEF CallMethod, Goto, Typed, HandlerPlaces
  <2>2. Visible(context[r]) \in Context
    BY DEF Typed, TypeOK, Visible, Context
  <2>3. TypeOK'
    BY <1>12, <2>1, <2>2 DEF CallMethod, Goto, Typed, TypeOK, PC
  <2>4. \A q \in Request : HandlerPlaces(q)'
    BY <1>12, <2>1 DEF CallMethod, Goto, Typed, TypeOK, HandlerPlaces
  <2> QED
    BY <2>3, <2>4 DEF Typed
<1>13. ASSUME NEW r \in Request, MethodSucceeds(r) PROVE Typed'
  <2>1. TypeOK'
    BY <1>13 DEF MethodSucceeds, Goto, Typed, TypeOK, PC
  <2>2. \A q \in Request : HandlerPlaces(q)'
    BY <1>13 DEF MethodSucceeds, Goto, Typed, TypeOK, HandlerPlaces
  <2> QED
    BY <2>1, <2>2 DEF Typed
<1>14. ASSUME NEW r \in Request, MethodFails(r) PROVE Typed'
  <2>1. PICK st \in MethodError :
          Answer(r, "method", SendErrorStatus(st)) /\ outcome' = [outcome EXCEPT ![r] = st]
    BY <1>14 DEF MethodFails
  <2>2. /\ outcome' \in [Request -> Status \cup {OkStatus, None}]
        /\ \A q \in Request \ {r} : outcome'[q] = outcome[q]
    BY <2>1, ServerAssumption DEF Typed, TypeOK
  <2> QED
    BY <1>14, <2>1, <2>2, ServerAssumption, SentStatus, TypedAnswer DEF MethodFails
<1>15. ASSUME NEW r \in Request, EncodeResult(r) PROVE Typed'
  <2> DEFINE resp == [status |-> 200, contentType |-> request[r].contentType, result |-> called[r]]
  <2>1. pc[r] = "encode"
    BY <1>15 DEF EncodeResult, Answer, Goto
  <2>2. request[r] \in InputType /\ called[r] \in Pattern
    BY <2>1 DEF Typed, HandlerPlaces
  <2>3. resp \in SuccessReply
    BY <2>2 DEF SuccessReply, InputType
  <2> QED
    BY <1>15, <2>3, TypedAnswer DEF EncodeResult, Typed, TypeOK
<1>16. ASSUME NEW r \in Request, EncodeFails(r) PROVE Typed'
  BY <1>16, OwnErrors, SentStatus, TypedAnswer DEF EncodeFails, Typed, TypeOK
<1>17. CASE UNCHANGED vars
  BY <1>17 DEF vars, Typed, TypeOK, HandlerPlaces
<1> QED
  BY <1>1, <1>2, <1>3, <1>4, <1>5, <1>6, <1>7, <1>8, <1>9, <1>10, <1>11, <1>12,
     <1>13, <1>14, <1>15, <1>16, <1>17 DEF Next, Route, Handle

\* Every variable of the server keeps to its type.
THEOREM ServerTypeOK == Spec => []TypeOK
<1>1. Typed => TypeOK
  BY DEF Typed
<1> QED
  BY <1>1, TypedInit, TypedNext, PTL DEF Spec

-----------------------------------------------------------------------------
(***************************************************************************)
(* The middlewares, the context and the outcome.  Of the sixteen steps     *)
(* only a few touch these; the others end the handler or move it past the  *)
(* middlewares, and one lemma disposes of them.                            *)
(***************************************************************************)
Established ==
  /\ \A r \in Request : ChainSoFar(r) /\ ContextSoFar(r)
  /\ ChainBeforeMethod
  /\ ContextIsOwn
  /\ SuccessIsTrue

\* A reply that reports success only as SuccessIsTrue allows.
Truthful(r, resp) ==
  resp.status = 200 =>
    /\ outcome'[r] = OkStatus
    /\ resp.result = called[r]
    /\ resp.contentType = request[r].contentType

\* The handler answers and leaves everything else as it is.
LEMMA EstablishedAnswer ==
  ASSUME Typed, Established, NEW r \in Request, NEW from, NEW resp, Answer(r, from, resp),
         UNCHANGED <<setupVars, handlerVars, called, seen>>,
         \A q \in Request \ {r} : outcome'[q] = outcome[q], Truthful(r, resp)
  PROVE  Established'
<1> USE DEF Established, Typed, TypeOK, Answer, Goto, setupVars, handlerVars
<1>1. \A q \in Request : ChainSoFar(q)' /\ ContextSoFar(q)'
  BY DEF ChainSoFar, ContextSoFar
<1>2. ChainBeforeMethod' /\ ContextIsOwn'
  BY DEF ChainBeforeMethod, ContextIsOwn
<1>3. SuccessIsTrue'
  BY DEF SuccessIsTrue, Truthful
<1> QED
  BY <1>1, <1>2, <1>3

LEMMA EstablishedInit == Init => Established
<1> SUFFICES ASSUME Init PROVE Established
  OBVIOUS
<1> QED
  BY DEF Init, Established, ChainSoFar, ContextSoFar, ChainBeforeMethod, ContextIsOwn, SuccessIsTrue

\* A middleware returned OK: the list of approvals is one longer, and still
\* the beginning of the chain.
LEMMA ApprovalExtendsChain ==
  ASSUME Typed, NEW r \in Request, ChainSoFar(r), MiddlewareAccepts(r)
  PROVE  ChainSoFar(r)'
<1> DEFINE chain == Chain[target[r].service]
           next  == chain[position[r]]
<1>1. pc[r] = "middleware" /\ target[r] \in Pattern
  BY DEF MiddlewareAccepts, Goto, Typed, HandlerPlaces
<1>2. /\ chain \in Seq(Middleware) /\ Len(chain) \in Nat
      /\ position[r] \in 1..Len(chain) /\ next \in Middleware
  BY <1>1, NextMiddleware, LenProperties DEF MiddlewareAccepts, Typed, TypeOK
<1>3. /\ approved'[r] = Append(approved[r], next)
      /\ position'[r] = position[r] + 1
      /\ target' = target /\ pc'[r] = "middleware"
  BY DEF MiddlewareAccepts, Goto, Typed, TypeOK
<1>4. /\ approved[r] \in Seq(Middleware)
      /\ Len(approved[r]) = position[r] - 1
      /\ \A i \in 1..Len(approved[r]) : approved[r][i] = chain[i]
  BY <1>1 DEF Typed, TypeOK, ChainSoFar
<1>5. /\ Len(approved'[r]) = position[r]
      /\ \A i \in 1..Len(approved[r]) : approved'[r][i] = approved[r][i]
      /\ approved'[r][position[r]] = next
  BY <1>2, <1>3, <1>4, AppendProperties
<1>6. \A i \in 1..Len(approved'[r]) : approved'[r][i] = chain[i]
  BY <1>2, <1>4, <1>5
<1>7. position'[r] \in 1..(Len(chain) + 1) /\ Len(approved'[r]) = position'[r] - 1
  BY <1>2, <1>3, <1>5
<1> QED
  BY <1>3, <1>6, <1>7 DEF ChainSoFar

\* When the loop is over, the approvals are the chain.
LEMMA ApprovalsAreChain ==
  ASSUME Typed, NEW r \in Request, ChainSoFar(r), CallMethod(r)
  PROVE  approved[r] = Chain[target[r].service]
<1> DEFINE chain == Chain[target[r].service]
<1>1. pc[r] = "middleware" /\ target[r] \in Pattern
  BY DEF CallMethod, Goto, Typed, HandlerPlaces
<1>2. chain \in Seq(Middleware) /\ Len(chain) \in Nat
  BY <1>1, ServerAssumption, LenProperties DEF Pattern
<1>3. /\ approved[r] \in Seq(Middleware)
      /\ position[r] \in 1..(Len(chain) + 1)
      /\ Len(approved[r]) = position[r] - 1
      /\ \A i \in 1..Len(approved[r]) : approved[r][i] = chain[i]
  BY <1>1 DEF Typed, TypeOK, ChainSoFar
<1>4. ~(position[r] <= Len(chain))
  BY DEF CallMethod, MoreMiddlewares
<1>5. Len(approved[r]) = Len(chain)
  BY <1>2, <1>3, <1>4
<1> HIDE DEF chain
<1>6. approved[r] = chain
  BY <1>2, <1>3, <1>5, SeqEqual
<1> QED
  BY <1>6 DEF chain

LEMMA EstablishedNext == Typed /\ Established /\ [Next]_vars => Established'
<1> SUFFICES ASSUME Typed, Established, [Next]_vars PROVE Established'
  OBVIOUS
<1> USE DEF setupVars, handlerVars, methodVars
<1>1. ASSUME NEW h \in Host, RegisterTwirpHandlers(h) PROVE Established'
  BY <1>1 DEF RegisterTwirpHandlers, Established, ChainSoFar, ContextSoFar,
              ChainBeforeMethod, ContextIsOwn, SuccessIsTrue
<1>2. CASE Listen
  BY <1>2 DEF Listen, Established, ChainSoFar, ContextSoFar,
              ChainBeforeMethod, ContextIsOwn, SuccessIsTrue
<1>3. ASSUME NEW r \in Request, Receive(r) PROVE Established'
  <2>1. /\ pc[r] = "idle" /\ called[r] = None /\ called' = called
        /\ \A q \in Request \ {r} : request'[q] = request[q] /\ pc'[q] = pc[q]
    BY <1>3 DEF Receive, Goto, Typed, TypeOK, HandlerPlaces
  <2>2. \A q \in Request : ChainSoFar(q)' /\ ContextSoFar(q)'
    BY <1>3, <2>1 DEF Receive, Goto, Typed, TypeOK, Established, ChainSoFar, ContextSoFar
  <2>3. ChainBeforeMethod' /\ ContextIsOwn' /\ SuccessIsTrue'
    BY <1>3, <2>1 DEF Receive, Goto, Typed, TypeOK, Established,
                      ChainBeforeMethod, ContextIsOwn, SuccessIsTrue
  <2> QED
    BY <2>2, <2>3 DEF Established
<1>4. ASSUME NEW r \in Request, RouteNowhere(r) PROVE Established'
  <2>1. Truthful(r, HttplibNotFound)
    BY DEF Truthful, HttplibNotFound
  <2> QED
    BY <1>4, <2>1, EstablishedAnswer DEF RouteNowhere
<1>5. ASSUME NEW r \in Request, RouteToCatchAll(r) PROVE Established'
  <2>1. Truthful(r, SendErrorPair(BadRouteError))
    BY DEF Truthful, SendErrorPair, BadRouteError, ErrorReply
  <2> QED
    BY <1>5, <2>1, EstablishedAnswer DEF RouteToCatchAll
<1>6. ASSUME NEW r \in Request, RouteToMethod(r) PROVE Established'
  <2>1. /\ pc[r] = "routing" /\ called[r] = None /\ called' = called
        /\ \A q \in Request \ {r} : target'[q] = target[q] /\ pc'[q] = pc[q]
    BY <1>6 DEF RouteToMethod, Goto, Typed, TypeOK, HandlerPlaces
  <2>2. \A q \in Request : ChainSoFar(q)' /\ ContextSoFar(q)'
    BY <1>6, <2>1 DEF RouteToMethod, Goto, Typed, TypeOK, Established, ChainSoFar, ContextSoFar
  <2>3. ChainBeforeMethod' /\ ContextIsOwn' /\ SuccessIsTrue'
    BY <1>6, <2>1 DEF RouteToMethod, Goto, Typed, TypeOK, Established,
                      ChainBeforeMethod, ContextIsOwn, SuccessIsTrue
  <2> QED
    BY <2>2, <2>3 DEF Established
<1>7. ASSUME NEW r \in Request, RefuseEncoding(r) PROVE Established'
  <2>1. Truthful(r, SendErrorPair(MalformedError))
    BY DEF Truthful, SendErrorPair, MalformedError, ErrorReply
  <2> QED
    BY <1>7, <2>1, EstablishedAnswer DEF RefuseEncoding
<1>8. ASSUME NEW r \in Request, AcceptEncoding(r) PROVE Established'
  <2>1. ChainSoFar(r)' /\ ContextSoFar(r)'
    <3>1. position[r] = 1 /\ approved[r] = <<>> /\ target[r] \in Pattern
      BY <1>8 DEF AcceptEncoding, Goto, Typed, HandlerPlaces, Established, ChainSoFar
    <3>2. Chain[target[r].service] \in Seq(Middleware)
      BY <3>1, ServerAssumption DEF Pattern
    <3>3. Len(Chain[target[r].service]) \in Nat /\ Len(<<>>) = 0
      BY <3>2, LenProperties
    <3> QED
      BY <1>8, <3>1, <3>3 DEF AcceptEncoding, Goto, Typed, TypeOK, ChainSoFar, ContextSoFar, EmptyContext
  <2>2. \A q \in Request \ {r} : ChainSoFar(q)' /\ ContextSoFar(q)'
    BY <1>8 DEF AcceptEncoding, Goto, Typed, TypeOK, Established, ChainSoFar, ContextSoFar
  <2>3. ChainBeforeMethod' /\ ContextIsOwn' /\ SuccessIsTrue'
    BY <1>8 DEF AcceptEncoding, Goto, Typed, TypeOK, Established,
                ChainBeforeMethod, ContextIsOwn, SuccessIsTrue
  <2> QED
    BY <2>1, <2>2, <2>3 DEF Established
<1>9. ASSUME NEW r \in Request, MiddlewareAccepts(r) PROVE Established'
  <2>1. ChainSoFar(r)'
    BY <1>9, ApprovalExtendsChain DEF Established
  <2>2. ContextSoFar(r)'
    BY <1>9 DEF MiddlewareAccepts, Stored, Goto, Typed, TypeOK, Established, ContextSoFar
  <2>3. \A q \in Request \ {r} : ChainSoFar(q)' /\ ContextSoFar(q)'
    BY <1>9 DEF MiddlewareAccepts, Goto, Typed, TypeOK, Established, ChainSoFar, ContextSoFar
  <2>4. called[r] = None
    BY <1>9 DEF MiddlewareAccepts, Goto, Typed, HandlerPlaces
  <2>5. ChainBeforeMethod' /\ ContextIsOwn' /\ SuccessIsTrue'
    BY <1>9, <2>4 DEF MiddlewareAccepts, Goto, Typed, TypeOK, Established,
                      ChainBeforeMethod, ContextIsOwn, SuccessIsTrue
  <2> QED
    BY <2>1, <2>2, <2>3, <2>5 DEF Established
<1>10. ASSUME NEW r \in Request, MiddlewareRejects(r) PROVE Established'
  <2>1. PICK st \in MiddlewareError : Answer(r, "middleware", SendErrorStatus(st))
    BY <1>10 DEF MiddlewareRejects
  <2>2. Truthful(r, SendErrorStatus(st))
    BY ServerAssumption, SentStatus DEF Truthful
  <2> QED
    BY <1>10, <2>1, <2>2, EstablishedAnswer DEF MiddlewareRejects
<1>11. ASSUME NEW r \in Request, RefuseArgument(r) PROVE Established'
  <2>1. Truthful(r, SendErrorStatus(ArgumentError(request[r].body)))
    BY OwnErrors, SentStatus DEF Truthful
  <2> QED
    BY <1>11, <2>1, EstablishedAnswer DEF RefuseArgument
<1>12. ASSUME NEW r \in Request, CallMethod(r) PROVE Established'
  <2>1. /\ pc[r] = "middleware" /\ pc'[r] = "method"
        /\ called'[r] = target[r] /\ seen'[r] = Visible(context[r])
        /\ \A q \in Request \ {r} : called'[q] = called[q] /\ seen'[q] = seen[q] /\ pc'[q] = pc[q]
    BY <1>12 DEF CallMethod, Goto, Typed, TypeOK
  <2>2. \A q \in Request : ChainSoFar(q)' /\ ContextSoFar(q)'
    BY <1>12, <2>1 DEF CallMethod, Established, ChainSoFar, ContextSoFar
  <2>3. ChainBeforeMethod'
    BY <1>12, <2>1, ApprovalsAreChain DEF CallMethod, Established, ChainBeforeMethod
  <2>4. ContextIsOwn'
    BY <1>12, <2>1 DEF CallMethod, Established, ContextIsOwn, ContextSoFar, Visible
  <2>5. SuccessIsTrue'
    BY <1>12, <2>1 DEF CallMethod, Established, SuccessIsTrue
  <2> QED
    BY <2>2, <2>3, <2>4, <2>5 DEF Established
<1>13. ASSUME NEW r \in Request, MethodSucceeds(r) PROVE Established'
  <2>1. \A q \in Request : ChainSoFar(q)' /\ ContextSoFar(q)'
    BY <1>13 DEF MethodSucceeds, Goto, Typed, TypeOK, Established, ChainSoFar, ContextSoFar
  <2>2. ChainBeforeMethod' /\ ContextIsOwn' /\ SuccessIsTrue'
    BY <1>13 DEF MethodSucceeds, Goto, Typed, TypeOK, Established,
                 ChainBeforeMethod, ContextIsOwn, SuccessIsTrue
  <2> QED
    BY <2>1, <2>2 DEF Established
<1>14. ASSUME NEW r \in Request, MethodFails(r) PROVE Established'
  <2>1. PICK st \in MethodError :
          Answer(r, "method", SendErrorStatus(st)) /\ outcome' = [outcome EXCEPT ![r] = st]
    BY <1>14 DEF MethodFails
  <2>2. Truthful(r, SendErrorStatus(st))
    BY ServerAssumption, SentStatus DEF Truthful
  <2>3. \A q \in Request \ {r} : outcome'[q] = outcome[q]
    BY <2>1 DEF Typed, TypeOK
  <2> QED
    BY <1>14, <2>1, <2>2, <2>3, EstablishedAnswer DEF MethodFails
<1>15. ASSUME NEW r \in Request, EncodeResult(r) PROVE Established'
  <2> DEFINE resp == [status |-> 200, contentType |-> request[r].contentType, result |-> called[r]]
  <2>1. Answer(r, "encode", resp) /\ outcome[r] = OkStatus
    BY <1>15 DEF EncodeResult, Answer, Goto, Typed, HandlerPlaces
  <2>2. Truthful(r, resp)
    BY <1>15, <2>1 DEF Truthful, EncodeResult
  <2> HIDE DEF resp
  <2> QED
    BY <1>15, <2>1, <2>2, EstablishedAnswer DEF EncodeResult
<1>16. ASSUME NEW r \in Request, EncodeFails(r) PROVE Established'
  <2>1. Truthful(r, SendErrorStatus(ErrorStatus("InvalidArgument")))
    BY OwnErrors, SentStatus DEF Truthful
  <2> QED
    BY <1>16, <2>1, EstablishedAnswer DEF EncodeFails
<1>17. CASE UNCHANGED vars
  BY <1>17 DEF vars, Established, ChainSoFar, ContextSoFar,
               ChainBeforeMethod, ContextIsOwn, SuccessIsTrue
<1> QED
  BY <1>1, <1>2, <1>3, <1>4, <1>5, <1>6, <1>7, <1>8, <1>9, <1>10, <1>11, <1>12,
     <1>13, <1>14, <1>15, <1>16, <1>17 DEF Next, Route, Handle

\* What a handler has established at each of its places.
THEOREM ServerHandlerInv == Spec => []HandlerInv
<1>1. Typed /\ Established => HandlerInv
  BY DEF Typed, Established, HandlerInv
<1> QED
  BY <1>1, TypedInit, TypedNext, EstablishedInit, EstablishedNext, PTL DEF Spec

\* No method is called before every middleware of its service has approved.
THEOREM ServerChainBeforeMethod == Spec => []ChainBeforeMethod
<1>1. Established => ChainBeforeMethod
  BY DEF Established
<1> QED
  BY <1>1, TypedInit, TypedNext, EstablishedInit, EstablishedNext, PTL DEF Spec

\* However many handlers interleave, none sees the context of another.
THEOREM ServerContextIsOwn == Spec => []ContextIsOwn
<1>1. Established => ContextIsOwn
  BY DEF Established
<1> QED
  BY <1>1, TypedInit, TypedNext, EstablishedInit, EstablishedNext, PTL DEF Spec

\* A reply with status 200 is the result of a method that succeeded.
THEOREM ServerSuccessIsTrue == Spec => []SuccessIsTrue
<1>1. Established => SuccessIsTrue
  BY DEF Established
<1> QED
  BY <1>1, TypedInit, TypedNext, EstablishedInit, EstablishedNext, PTL DEF Spec

-----------------------------------------------------------------------------
(***************************************************************************)
(* Routing.                                                                *)
(***************************************************************************)
\* The handlers of one host come in pairs, the first of the first method.
LEMMA HandlersOfPairs ==
  ASSUME NEW h \in Host
  PROVE  /\ Len(GetMethods[h]) \in Nat
         /\ HandlersOf(h) \in Seq(Pattern)
         /\ Len(HandlersOf(h)) = 2 * Len(GetMethods[h])
         /\ \A i \in 1..Len(HandlersOf(h)) :
              /\ HandlersOf(h)[i].service = h
              /\ HandlersOf(h)[i].method # AnyMethod =>
                   /\ i + 1 \in 1..Len(HandlersOf(h))
                   /\ HandlersOf(h)[i + 1] = [service |-> h, method |-> AnyMethod]
         /\ Len(GetMethods[h]) > 0 =>
              HandlersOf(h)[1] = [service |-> h, method |-> GetMethods[h][1]]
<1> DEFINE n == Len(GetMethods[h])
<1>1. n \in Nat
  BY ServerAssumption, LenProperties
<1>2. /\ HandlersOf(h) \in Seq(Pattern)
      /\ DOMAIN HandlersOf(h) = 1..(2 * n)
  BY HandlersOfType DEF HandlersOf
<1>3. Len(HandlersOf(h)) = 2 * n
  BY <1>1, <1>2, LenProperties
<1>4. ASSUME NEW i \in 1..(2 * n), HandlersOf(h)[i].method # AnyMethod
      PROVE  /\ i + 1 \in 1..(2 * n)
             /\ HandlersOf(h)[i + 1] = [service |-> h, method |-> AnyMethod]
  <2>1. i % 2 = 1
    BY <1>4 DEF HandlersOf
  <2>2. i + 1 \in 1..(2 * n) /\ (i + 1) % 2 = 0
    BY <1>1, <2>1
  <2> QED
    BY <2>2 DEF HandlersOf
<1>5. \A i \in 1..(2 * n) : HandlersOf(h)[i].service = h
  BY DEF HandlersOf
<1>6. n > 0 => HandlersOf(h)[1] = [service |-> h, method |-> GetMethods[h][1]]
  BY <1>1 DEF HandlersOf
<1> QED
  BY <1>1, <1>2, <1>3, <1>4, <1>5, <1>6

\* The method httplib's choice leads to is one the path names.
LEMMA ChosenIsNamed ==
  ASSUME Typed, RoutingInv, NEW req, Fitting(req) # {}, Chosen(req).method # AnyMethod
  PROVE  Named(Chosen(req), req)
<1>1. PICK i \in DOMAIN postHandlers :
        /\ Chosen(req) = postHandlers[i]
        /\ Chosen(req) \in Pattern
        /\ Matches(Chosen(req), req)
        /\ \A j \in DOMAIN postHandlers : Matches(postHandlers[j], req) => i <= j
  BY ChosenFits DEF Typed, TypeOK
<1>2. /\ Chosen(req).method = req.method
      /\ <<Chosen(req).service, req.service>> \in NameMatches
  BY <1>1 DEF Matches
<1>3. DOMAIN postHandlers = 1..Len(postHandlers) /\ Len(postHandlers) \in Nat
  BY LenProperties DEF Typed, TypeOK
<1>4. ASSUME NEW j \in 1..i, postHandlers[j].service = req.service,
             Chosen(req).service # req.service
      PROVE  FALSE
  <2>1. i \in 1..Len(postHandlers) /\ j \in DOMAIN postHandlers /\ j # i
    BY <1>1, <1>3, <1>4
  <2>2. postHandlers[j] \in Pattern
    BY <2>1, <1>3, ElementOfSeq DEF Typed, TypeOK
  <2>3. <<req.service, req.service>> \in NameMatches
    BY <2>2, <1>4, ServerAssumption DEF Pattern
  <2>4. CASE postHandlers[j].method = AnyMethod
    <3>1. Matches(postHandlers[j], req)
      BY <2>3, <2>4, <1>4 DEF Matches
    <3> QED
      BY <3>1, <2>1, <1>1
  <2>5. CASE postHandlers[j].method # AnyMethod
    <3>1. /\ j + 1 \in DOMAIN postHandlers
          /\ postHandlers[j + 1] = [service |-> req.service, method |-> AnyMethod]
      BY <2>1, <2>5, <1>4 DEF RoutingInv
    <3>2. Matches(postHandlers[j + 1], req)
      BY <3>1, <2>3 DEF Matches
    <3>3. i <= j + 1
      BY <3>1, <3>2, <1>1
    <3>4. i = j + 1
      BY <3>3, <2>1, <1>3
    <3> QED
      BY <3>1, <3>4, <1>1, <1>4
  <2> QED
    BY <2>4, <2>5
<1>5. CASE Chosen(req).service = req.service
  BY <1>2, <1>5 DEF Named
<1>6. CASE Chosen(req).service # req.service
  <2>1. RegisteredBefore(Chosen(req).service, req.service)
    BY <1>1, <1>4, <1>6 DEF RegisteredBefore
  <2> QED
    BY <1>2, <2>1 DEF Named
<1> QED
  BY <1>5, <1>6

\* A request for the first method of a registered service, with no look-alike
\* registered before it, is routed to a method.
LEMMA FirstMethodIsChosen ==
  ASSUME Typed, RoutingInv, NEW req, req.service \in Host, Registered(req.service),
         req.method = GetMethods[req.service][1], req.method \in Method,
         \A h \in Host : <<h, req.service>> \in NameMatches /\ h # req.service
                           => ~RegisteredBefore(h, req.service)
  PROVE  Fitting(req) # {} /\ Chosen(req).method # AnyMethod
<1>1. PICK f \in DOMAIN postHandlers :
        /\ postHandlers[f] = [service |-> req.service, method |-> req.method]
        /\ \A j \in 1..(f - 1) : postHandlers[j].service # req.service
  BY DEF RoutingInv
<1>2. Matches(postHandlers[f], req)
  BY <1>1, ServerAssumption DEF Matches
<1>3. Fitting(req) # {}
  BY <1>2 DEF Fitting
<1>4. PICK i \in DOMAIN postHandlers :
        /\ Chosen(req) = postHandlers[i]
        /\ Chosen(req) \in Pattern
        /\ Matches(Chosen(req), req)
        /\ \A j \in DOMAIN postHandlers : Matches(postHandlers[j], req) => i <= j
  BY <1>3, ChosenFits DEF Typed, TypeOK
<1>5. DOMAIN postHandlers = 1..Len(postHandlers) /\ Len(postHandlers) \in Nat
  BY LenProperties DEF Typed, TypeOK
<1>6. i \in Nat /\ f \in Nat /\ i <= f
  BY <1>2, <1>4, <1>5
<1>7. i = f
  <2>1. SUFFICES ASSUME i < f PROVE FALSE
    BY <1>6
  <2>2. \A j \in 1..i : postHandlers[j].service # req.service
    BY <1>1, <1>6, <2>1
  <2>3. Chosen(req).service \in Host /\ Chosen(req).service # req.service
    BY <1>4, <1>5, <2>2 DEF Pattern
  <2>4. RegisteredBefore(Chosen(req).service, req.service)
    BY <1>4, <2>2 DEF RegisteredBefore
  <2> QED
    BY <1>4, <2>3, <2>4 DEF Matches
<1>8. Chosen(req).method # AnyMethod
  BY <1>1, <1>4, <1>7, ServerAssumption
<1> QED
  BY <1>3, <1>8

Routed == RoutingInv /\ CalledAsNamed /\ FirstMethodReachable

LEMMA RoutedInit == Init => Routed
<1> SUFFICES ASSUME Init PROVE Routed
  OBVIOUS
<1>1. DOMAIN postHandlers = {}
  BY DEF Init
<1>2. RoutingInv
  BY <1>1 DEF Init, RoutingInv, Registered
<1>3. CalledAsNamed /\ FirstMethodReachable
  BY DEF Init, CalledAsNamed, FirstMethodReachable
<1> QED
  BY <1>2, <1>3 DEF Routed

\* A handler moves on from a method that was chosen for it.
LEMMA RoutedMove ==
  ASSUME Typed, Routed, NEW r \in Request, pc[r] \notin {"idle", "routing"},
         NEW to \in PC, pc' = [pc EXCEPT ![r] = to],
         to = "middleware" => pc[r] \in {"encoding", "middleware"},
         to # "encoding", pc[r] # "done",
         UNCHANGED <<setupVars, request, target, called>>
  PROVE  Routed'
<1> USE DEF Typed, TypeOK, setupVars
<1>1. RoutingInv'
  BY DEF Routed, RoutingInv, Named, RegisteredBefore, Registered
<1>2. CalledAsNamed'
  BY DEF Routed, CalledAsNamed, Named, RegisteredBefore
<1>3. target[r] \in Pattern
  BY DEF HandlerPlaces, PC
<1>4. FirstMethodReachable'
  BY <1>3 DEF Routed, FirstMethodReachable, Registered, RegisteredBefore
<1> QED
  BY <1>1, <1>2, <1>4 DEF Routed

\* A request no method handler was chosen for is answered.
LEMMA RoutedAway ==
  ASSUME Typed, Routed, NEW r \in Request, NEW resp, Answer(r, "routing", resp),
         Fitting(request[r]) = {} \/ Chosen(request[r]).method = AnyMethod,
         UNCHANGED <<setupVars, request, target, called>>
  PROVE  Routed'
<1> USE DEF Typed, TypeOK, setupVars, Answer, Goto
<1>1. RoutingInv'
  BY DEF Routed, RoutingInv, Named, RegisteredBefore, Registered
<1>2. CalledAsNamed'
  BY DEF Routed, CalledAsNamed, Named, RegisteredBefore
<1>3. request[r].method \in Method
  BY DEF HandlerPlaces, InputType
<1>4. FirstMethodReachable'
  <2> DEFINE s == request[r].service
  <2>1. ~(/\ s \in Host /\ Registered(s)
          /\ request[r].method = GetMethods[s][1]
          /\ \A h \in Host : <<h, s>> \in NameMatches /\ h # s => ~RegisteredBefore(h, s))
    BY <1>3, FirstMethodIsChosen DEF Routed
  <2>2. postHandlers' = postHandlers /\ request' = request /\ target' = target
    OBVIOUS
  <2>3. \A q \in Request \ {r} : pc'[q] = pc[q]
    OBVIOUS
  <2>4. \A u \in Host : Registered(u)' <=> Registered(u)
    BY <2>2 DEF Registered
  <2>5. \A u \in Host : RegisteredBefore(u, s)' <=> RegisteredBefore(u, s)
    BY <2>2 DEF RegisteredBefore
  <2>6. ASSUME NEW q \in Request, q # r
        PROVE  \A u \in Host : RegisteredBefore(u, request[q].service)'
                                <=> RegisteredBefore(u, request[q].service)
    BY <2>2 DEF RegisteredBefore
  <2> QED
    BY <2>1, <2>2, <2>3, <2>4, <2>5, <2>6 DEF Routed, FirstMethodReachable
<1> QED
  BY <1>1, <1>2, <1>4 DEF Routed

\* Registration appends the pairs of one host that has none yet.
LEMMA RoutedRegistration ==
  ASSUME Typed, Routed, NEW h \in Host, RegisterTwirpHandlers(h)
  PROVE  Routed'
<1> DEFINE new == HandlersOf(h)
           n   == Len(new)
           old == Len(postHandlers)
<1>1. /\ n \in Nat /\ old \in Nat /\ new \in Seq(Pattern)
      /\ postHandlers \in Seq(Pattern) /\ DOMAIN postHandlers = 1..old
  BY HandlersOfPairs, LenProperties DEF Typed, TypeOK
<1>2. postHandlers' = postHandlers \o new
  BY DEF RegisterTwirpHandlers
<1>3. /\ DOMAIN postHandlers' = 1..(old + n)
      /\ \A i \in 1..old : postHandlers'[i] = postHandlers[i]
      /\ \A i \in (old + 1)..(old + n) : postHandlers'[i] = new[i - old]
  <2>1. /\ postHandlers' \in Seq(Pattern) /\ Len(postHandlers') = old + n
        /\ \A i \in 1..(old + n) : postHandlers'[i] =
             IF i <= old THEN postHandlers[i] ELSE new[i - old]
    BY <1>1, <1>2, ConcatProperties
  <2>2. DOMAIN postHandlers' = 1..(old + n)
    BY <2>1, LenProperties
  <2>3. \A i \in 1..old : i \in 1..(old + n) /\ i <= old
    BY <1>1
  <2>4. \A i \in (old + 1)..(old + n) : i \in 1..(old + n) /\ ~(i <= old)
    BY <1>1
  <2> QED
    BY <2>1, <2>2, <2>3, <2>4
<1>new. /\ \A i \in 1..n :
             /\ new[i].service = h
             /\ new[i].method # AnyMethod =>
                  /\ i + 1 \in 1..n
                  /\ new[i + 1] = [service |-> h, method |-> AnyMethod]
        /\ n > 0 => new[1] = [service |-> h, method |-> GetMethods[h][1]]
  BY HandlersOfPairs
<1> HIDE DEF new, n, old
<1>4. ASSUME NEW i \in DOMAIN postHandlers', postHandlers'[i].method # AnyMethod
      PROVE  /\ i + 1 \in DOMAIN postHandlers'
             /\ postHandlers'[i + 1] = [service |-> postHandlers'[i].service, method |-> AnyMethod]
  <2>1. CASE i \in 1..old
    BY <1>1, <1>3, <1>4, <2>1 DEF Routed, RoutingInv
  <2>2. CASE i \in (old + 1)..(old + n)
    <3>1. i - old \in 1..n /\ postHandlers'[i] = new[i - old]
      BY <1>1, <1>3, <2>2
    <3>2. /\ (i - old) + 1 \in 1..n
          /\ new[(i - old) + 1] = [service |-> h, method |-> AnyMethod]
          /\ new[i - old].service = h
      BY <1>4, <3>1, <1>new
    <3>3. i + 1 \in (old + 1)..(old + n) /\ (i + 1) - old = (i - old) + 1
      BY <1>1, <2>2, <3>2
    <3> QED
      BY <1>3, <3>1, <3>2, <3>3
  <2> QED
    BY <1>1, <1>3, <2>1, <2>2
<1>5. ASSUME NEW s \in Host, Registered(s)'
      PROVE  \E i \in DOMAIN postHandlers' :
               /\ postHandlers'[i] = [service |-> s, method |-> GetMethods[s][1]]
               /\ \A j \in 1..(i - 1) : postHandlers'[j].service # s
  <2>1. CASE Registered(s)
    <3>1. PICK i \in DOMAIN postHandlers :
            /\ postHandlers[i] = [service |-> s, method |-> GetMethods[s][1]]
            /\ \A j \in 1..(i - 1) : postHandlers[j].service # s
      BY <2>1 DEF Routed, RoutingInv
    <3>2. i \in DOMAIN postHandlers' /\ \A j \in 1..(i - 1) : j \in 1..old
      BY <1>1, <1>3
    <3> QED
      BY <1>1, <1>3, <3>1, <3>2
  <2>2. CASE ~Registered(s)
    <3>1. PICK i \in DOMAIN postHandlers' : postHandlers'[i].service = s
      BY <1>5 DEF Registered
    <3>2. i \in (old + 1)..(old + n)
      BY <1>1, <1>3, <2>2, <3>1 DEF Registered
    <3>3. s = h /\ n > 0 /\ old + 1 \in DOMAIN postHandlers'
      <4>1. i - old \in 1..n
        BY <1>1, <3>2
      <4>2. new[i - old].service = h
        BY <4>1, <1>new
      <4> QED
        BY <1>1, <1>3, <3>1, <3>2, <4>1, <4>2
    <3>4. postHandlers'[old + 1] = new[1]
      BY <1>1, <1>3, <3>3
    <3>5. \A j \in 1..((old + 1) - 1) : postHandlers'[j].service # s
      BY <1>1, <1>3, <2>2 DEF Registered
    <3> QED
      BY <3>3, <3>4, <3>5, <1>new
  <2> QED
    BY <2>1, <2>2
<1>6. pc' = pc /\ called' = called /\ \A r \in Request : pc[r] = "idle" /\ called[r] = None
  BY DEF RegisterTwirpHandlers, methodVars, Routed, RoutingInv, Typed, TypeOK, HandlerPlaces
<1>7. RoutingInv'
  BY <1>4, <1>5, <1>6 DEF RoutingInv
<1>8. CalledAsNamed' /\ FirstMethodReachable'
  BY <1>6 DEF CalledAsNamed, FirstMethodReachable
<1> QED
  BY <1>7, <1>8 DEF Routed

LEMMA RoutedNext == Typed /\ Routed /\ [Next]_vars => Routed'
<1> SUFFICES ASSUME Typed, Routed, [Next]_vars PROVE Routed'
  OBVIOUS
<1> USE DEF setupVars, handlerVars, methodVars
<1>1. ASSUME NEW h \in Host, RegisterTwirpHandlers(h) PROVE Routed'
  BY <1>1, RoutedRegistration
<1>2. CASE Listen
  BY <1>2 DEF Listen, Routed, RoutingInv, CalledAsNamed, FirstMethodReachable,
              Named, RegisteredBefore, Registered
<1>3. ASSUME NEW r \in Request, Receive(r) PROVE Routed'
  <2>1. /\ pc[r] = "idle" /\ called[r] = None /\ called' = called
        /\ pc'[r] = "routing" /\ postHandlers' = postHandlers /\ target' = target
        /\ \A q \in Request \ {r} : request'[q] = request[q] /\ pc'[q] = pc[q]
    BY <1>3 DEF Receive, Goto, Typed, TypeOK, HandlerPlaces
  <2>2. RoutingInv'
    BY <1>3, <2>1 DEF Receive, Routed, RoutingInv, Named, RegisteredBefore, Registered
  <2>3. CalledAsNamed' /\ FirstMethodReachable'
    BY <2>1 DEF Routed, CalledAsNamed, FirstMethodReachable, Named, RegisteredBefore, Registered
  <2> QED
    BY <2>2, <2>3 DEF Routed
<1>4. ASSUME NEW r \in Request, RouteNowhere(r) PROVE Routed'
  BY <1>4, RoutedAway DEF RouteNowhere
<1>5. ASSUME NEW r \in Request, RouteToCatchAll(r) PROVE Routed'
  BY <1>5, RoutedAway DEF RouteToCatchAll
<1>6. ASSUME NEW r \in Request, RouteToMethod(r) PROVE Routed'
  <2>1. /\ pc[r] = "routing" /\ pc'[r] = "encoding" /\ called[r] = None /\ called' = called
        /\ postHandlers' = postHandlers /\ request' = request
        /\ target'[r] = Chosen(request[r])
        /\ \A q \in Request \ {r} : target'[q] = target[q] /\ pc'[q] = pc[q]
    BY <1>6 DEF RouteToMethod, Goto, Typed, TypeOK, HandlerPlaces
  <2>2. Named(target'[r], request[r])
    BY <1>6, <2>1, ChosenIsNamed DEF RouteToMethod, Routed
  <2>3. RoutingInv'
    BY <1>6, <2>1, <2>2 DEF RouteToMethod, Routed, RoutingInv, Named, RegisteredBefore, Registered
  <2>4. CalledAsNamed' /\ FirstMethodReachable'
    BY <2>1 DEF Routed, CalledAsNamed, FirstMethodReachable, Named, RegisteredBefore, Registered
  <2> QED
    BY <2>3, <2>4 DEF Routed
<1>7. ASSUME NEW r \in Request, RefuseEncoding(r) PROVE Routed'
  BY <1>7, RoutedMove DEF RefuseEncoding, Answer, Goto, PC
<1>8. ASSUME NEW r \in Request, AcceptEncoding(r) PROVE Routed'
  BY <1>8, RoutedMove DEF AcceptEncoding, Goto, PC
<1>9. ASSUME NEW r \in Request, MiddlewareAccepts(r) PROVE Routed'
  BY <1>9, RoutedMove DEF MiddlewareAccepts, Goto, PC
<1>10. ASSUME NEW r \in Request, MiddlewareRejects(r) PROVE Routed'
  BY <1>10, RoutedMove DEF MiddlewareRejects, Answer, Goto, PC
<1>11. ASSUME NEW r \in Request, RefuseArgument(r) PROVE Routed'
  BY <1>11, RoutedMove DEF RefuseArgument, Answer, Goto, PC
<1>12. ASSUME NEW r \in Request, CallMethod(r) PROVE Routed'
  <2>1. /\ pc[r] = "middleware" /\ pc'[r] = "method" /\ called'[r] = target[r]
        /\ postHandlers' = postHandlers /\ request' = request /\ target' = target
        /\ \A q \in Request \ {r} : called'[q] = called[q] /\ pc'[q] = pc[q]
    BY <1>12 DEF CallMethod, Goto, Typed, TypeOK
  <2>2. RoutingInv'
    BY <1>12, <2>1 DEF CallMethod, Routed, RoutingInv, Named, RegisteredBefore, Registered
  <2>3. CalledAsNamed' /\ FirstMethodReachable'
    BY <2>1 DEF Routed, RoutingInv, CalledAsNamed, FirstMethodReachable, Named, RegisteredBefore, Registered
  <2> QED
    BY <2>2, <2>3 DEF Routed
<1>13. ASSUME NEW r \in Request, MethodSucceeds(r) PROVE Routed'
  BY <1>13, RoutedMove DEF MethodSucceeds, Goto, PC
<1>14. ASSUME NEW r \in Request, MethodFails(r) PROVE Routed'
  BY <1>14, RoutedMove DEF MethodFails, Answer, Goto, PC
<1>15. ASSUME NEW r \in Request, EncodeResult(r) PROVE Routed'
  BY <1>15, RoutedMove DEF EncodeResult, Answer, Goto, PC
<1>16. ASSUME NEW r \in Request, EncodeFails(r) PROVE Routed'
  BY <1>16, RoutedMove DEF EncodeFails, Answer, Goto, PC
<1>17. CASE UNCHANGED vars
  BY <1>17 DEF vars, Routed, RoutingInv, CalledAsNamed, FirstMethodReachable,
               Named, RegisteredBefore, Registered
<1> QED
  BY <1>1, <1>2, <1>3, <1>4, <1>5, <1>6, <1>7, <1>8, <1>9, <1>10, <1>11, <1>12,
     <1>13, <1>14, <1>15, <1>16, <1>17 DEF Next, Route, Handle

\* What registration leaves behind, and what routing makes of it.
THEOREM ServerRoutingInv == Spec => []RoutingInv
<1>1. Routed => RoutingInv
  BY DEF Routed
<1> QED
  BY <1>1, TypedInit, TypedNext, RoutedInit, RoutedNext, PTL DEF Spec

\* A method is called for a path that names it, or for a look-alike of it.
THEOREM ServerCalledAsNamed == Spec => []CalledAsNamed
<1>1. Routed => CalledAsNamed
  BY DEF Routed
<1> QED
  BY <1>1, TypedInit, TypedNext, RoutedInit, RoutedNext, PTL DEF Spec

\* The first method of a registered host is always reached.
THEOREM ServerFirstMethodReachable == Spec => []FirstMethodReachable
<1>1. Routed => FirstMethodReachable
  BY DEF Routed
<1> QED
  BY <1>1, TypedInit, TypedNext, RoutedInit, RoutedNext, PTL DEF Spec

-----------------------------------------------------------------------------
(***************************************************************************)
(* The server implements Handling.  Of the promise, a step of one request  *)
(* concerns that request only, and is seen by whether the method runs, has *)
(* run, and whether there is a reply.                                      *)
(***************************************************************************)
PromiseSoFar ==
  \A r \in Request :
    /\ outcome[r] = None <=> pc[r] \notin {"encode", "done"} \/ called[r] = None
    /\ reply[r] = None <=> pc[r] # "done"

\* What may be in an outcome or a reply is not "not yet".
LEMMA NotYet ==
  /\ OkStatus # None /\ \A st \in Status : st # None /\ st # OkStatus
  /\ \A resp \in ErrorResponse \cup SuccessReply : resp # None
<1>1. \A st \in Status : st.code # "Ok"
  BY DEF Status, ErrorStatusCode
<1>2. OkStatus.code = "Ok"
  BY DEF OkStatus
<1> QED
  BY <1>1, <1>2, NoneAssumption

\* A pattern is not "not yet" either.
LEMMA NotYetCalled ==
  ASSUME Typed, NEW r \in Request, pc[r] \in {"method", "encode"}
  PROVE  called[r] # None /\ called[r] \in Pattern
BY NoneAssumption DEF Typed, HandlerPlaces

\* The projection of a step that moves only r: every other request stutters.
LEMMA OnlyOneMoves ==
  ASSUME NEW r \in Request, [Promised(r)!Next]_<<RunOf(r), AnswerOf(r)>>,
         \A q \in Request \ {r} :
           pc'[q] = pc[q] /\ outcome'[q] = outcome[q] /\ reply'[q] = reply[q]
  PROVE  \A q \in Request : [Promised(q)!Next]_<<RunOf(q), AnswerOf(q)>>
<1>1. ASSUME NEW q \in Request \ {r} PROVE RunOf(q)' = RunOf(q) /\ AnswerOf(q)' = AnswerOf(q)
  BY DEF RunOf, AnswerOf
<1> QED
  BY <1>1

\* The steps that end a handler with an error without the method's doing.
Refuse(r) ==
  \/ RouteNowhere(r) \/ RouteToCatchAll(r) \/ RefuseEncoding(r)
  \/ MiddlewareRejects(r) \/ RefuseArgument(r) \/ EncodeFails(r)

LEMMA Refusal ==
  ASSUME Typed, NEW r \in Request, Refuse(r)
  PROVE  \E resp \in ErrorResponse, from \in {"routing", "encoding", "middleware", "encode"} :
           resp.status # 200 /\ Answer(r, from, resp) /\ UNCHANGED <<called, outcome>>
<1> USE DEF methodVars
<1>1. /\ SendErrorPair(MalformedError).status # 200 /\ SendErrorPair(BadRouteError).status # 200
      /\ HttplibNotFound.status # 200
  BY DEF SendErrorPair, MalformedError, BadRouteError, ErrorReply, HttplibNotFound
<1>2. CASE RouteNowhere(r)
  BY <1>1, <1>2, FixedReplies DEF RouteNowhere
<1>3. CASE RouteToCatchAll(r)
  BY <1>1, <1>3, FixedReplies DEF RouteToCatchAll
<1>4. CASE RefuseEncoding(r)
  BY <1>1, <1>4, FixedReplies DEF RefuseEncoding
<1>5. CASE MiddlewareRejects(r)
  BY <1>5, SentStatus, ServerAssumption DEF MiddlewareRejects
<1>6. CASE RefuseArgument(r)
  BY <1>6, SentStatus, OwnErrors DEF RefuseArgument
<1>7. CASE EncodeFails(r)
  BY <1>7, SentStatus, OwnErrors DEF EncodeFails
<1> QED
  BY <1>2, <1>3, <1>4, <1>5, <1>6, <1>7 DEF Refuse

LEMMA PromiseNext == Typed /\ PromiseSoFar /\ [Next]_vars => PromiseSoFar'
<1> SUFFICES ASSUME Typed, PromiseSoFar, [Next]_vars PROVE PromiseSoFar'
  OBVIOUS
<1> USE DEF setupVars, handlerVars, methodVars, PromiseSoFar
<1>1. ASSUME NEW h \in Host, RegisterTwirpHandlers(h) PROVE PromiseSoFar'
  BY <1>1 DEF RegisterTwirpHandlers
<1>2. CASE Listen
  BY <1>2 DEF Listen
<1>3. ASSUME NEW r \in Request,
             Receive(r) \/ RouteToMethod(r) \/ AcceptEncoding(r) \/ MiddlewareAccepts(r)
      PROVE  PromiseSoFar'
  BY <1>3 DEF Receive, RouteToMethod, AcceptEncoding, MiddlewareAccepts, Goto, Typed, TypeOK
<1>4. ASSUME NEW r \in Request, Refuse(r) PROVE PromiseSoFar'
  <2>1. PICK resp \in ErrorResponse, from \in {"routing", "encoding", "middleware", "encode"} :
          Answer(r, from, resp) /\ UNCHANGED <<called, outcome>>
    BY <1>4, Refusal
  <2> QED
    BY <2>1, NotYet DEF Answer, Goto, Typed, TypeOK, HandlerPlaces
<1>5. ASSUME NEW r \in Request, CallMethod(r) PROVE PromiseSoFar'
  BY <1>5 DEF CallMethod, Goto, Typed, TypeOK
<1>6. ASSUME NEW r \in Request, MethodSucceeds(r) PROVE PromiseSoFar'
  <2>1. called[r] # None
    BY <1>6, NotYetCalled DEF MethodSucceeds, Goto
  <2> QED
    BY <1>6, <2>1, NotYet DEF MethodSucceeds, Goto, Typed, TypeOK
<1>7. ASSUME NEW r \in Request, MethodFails(r) PROVE PromiseSoFar'
  <2>1. called[r] # None
    BY <1>7, NotYetCalled DEF MethodFails, Answer, Goto
  <2>2. PICK st \in MethodError :
          Answer(r, "method", SendErrorStatus(st)) /\ outcome' = [outcome EXCEPT ![r] = st]
    BY <1>7 DEF MethodFails
  <2>3. st \in Status /\ SendErrorStatus(st) \in ErrorResponse
    BY ServerAssumption, SentStatus
  <2> QED
    BY <1>7, <2>1, <2>2, <2>3, NotYet DEF MethodFails, Answer, Goto, Typed, TypeOK
<1>8. ASSUME NEW r \in Request, EncodeResult(r) PROVE PromiseSoFar'
  <2>1. reply'[r] \in SuccessReply
    BY <1>8, NotYetCalled DEF EncodeResult, Answer, Goto, Typed, TypeOK, HandlerPlaces,
       InputType, SuccessReply
  <2> QED
    BY <1>8, <2>1, NotYet DEF EncodeResult, Answer, Goto, Typed, TypeOK
<1>9. CASE UNCHANGED vars
  BY <1>9 DEF vars
<1> QED
  BY <1>1, <1>2, <1>3, <1>4, <1>5, <1>6, <1>7, <1>8, <1>9 DEF Next, Route, Handle, Refuse

\* The projection of each request's behaviour to what the promise is about.
Projected == \A r \in Request : [Promised(r)!Next]_<<RunOf(r), AnswerOf(r)>>

LEMMA PromiseSteps ==
  ASSUME Typed, PromiseSoFar, PromiseSoFar', [Next]_vars
  PROVE  Projected
<1> USE DEF setupVars, handlerVars, methodVars, Projected
<1>1. ASSUME NEW h \in Host, RegisterTwirpHandlers(h) PROVE Projected
  BY <1>1 DEF RegisterTwirpHandlers, RunOf, AnswerOf
<1>2. CASE Listen
  BY <1>2 DEF Listen, RunOf, AnswerOf
<1>3. ASSUME NEW r \in Request, Receive(r) PROVE Projected
  <2>1. Promised(r)!Take
    BY <1>3 DEF Promised!Take, Receive, Goto, RunOf, AnswerOf, PromiseSoFar, Typed, TypeOK
  <2>2. \A q \in Request \ {r} :
          pc'[q] = pc[q] /\ outcome'[q] = outcome[q] /\ reply'[q] = reply[q]
    BY <1>3 DEF Receive, Goto, Typed, TypeOK
  <2> QED
    BY <2>1, <2>2, OnlyOneMoves DEF Promised!Next
<1>4. ASSUME NEW r \in Request,
             RouteToMethod(r) \/ AcceptEncoding(r) \/ MiddlewareAccepts(r)
      PROVE  Projected
  BY <1>4 DEF RouteToMethod, AcceptEncoding, MiddlewareAccepts, Goto, Typed, TypeOK,
     RunOf, AnswerOf
<1>5. ASSUME NEW r \in Request, Refuse(r) PROVE Projected
  <2>1. PICK resp \in ErrorResponse, from \in {"routing", "encoding", "middleware", "encode"} :
          resp.status # 200 /\ Answer(r, from, resp) /\ UNCHANGED <<called, outcome>>
    BY <1>5, Refusal
  <2>2. Promised(r)!Fail
    BY <2>1, NotYet DEF Promised!Fail, Answer, Goto, RunOf, AnswerOf, PromiseSoFar, Typed, TypeOK
  <2>3. \A q \in Request \ {r} :
          pc'[q] = pc[q] /\ outcome'[q] = outcome[q] /\ reply'[q] = reply[q]
    BY <2>1 DEF Answer, Goto, Typed, TypeOK
  <2> QED
    BY <2>2, <2>3, OnlyOneMoves DEF Promised!Next
<1>6. ASSUME NEW r \in Request, CallMethod(r) PROVE Projected
  <2>1. Promised(r)!Start
    BY <1>6 DEF Promised!Start, CallMethod, Goto, RunOf, AnswerOf, PromiseSoFar, Typed, TypeOK
  <2>2. \A q \in Request \ {r} :
          pc'[q] = pc[q] /\ outcome'[q] = outcome[q] /\ reply'[q] = reply[q]
    BY <1>6 DEF CallMethod, Goto, Typed, TypeOK
  <2> QED
    BY <2>1, <2>2, OnlyOneMoves DEF Promised!Next
<1>7. ASSUME NEW r \in Request, MethodSucceeds(r) PROVE Projected
  <2>1. Promised(r)!End
    BY <1>7, NotYet DEF Promised!End, MethodSucceeds, Goto, RunOf, AnswerOf, PromiseSoFar,
       Typed, TypeOK
  <2>2. \A q \in Request \ {r} :
          pc'[q] = pc[q] /\ outcome'[q] = outcome[q] /\ reply'[q] = reply[q]
    BY <1>7 DEF MethodSucceeds, Goto, Typed, TypeOK
  <2> QED
    BY <2>1, <2>2, OnlyOneMoves DEF Promised!Next
<1>8. ASSUME NEW r \in Request, MethodFails(r) PROVE Projected
  <2>1. PICK st \in MethodError :
          Answer(r, "method", SendErrorStatus(st)) /\ outcome' = [outcome EXCEPT ![r] = st]
    BY <1>8 DEF MethodFails
  <2>2. /\ st \in Status /\ SendErrorStatus(st) \in ErrorResponse
        /\ SendErrorStatus(st).status # 200
    BY ServerAssumption, SentStatus
  <2>3. Promised(r)!Fail
    BY <2>1, <2>2, NotYet DEF Promised!Fail, Answer, Goto, RunOf, AnswerOf, PromiseSoFar,
       Typed, TypeOK
  <2>4. \A q \in Request \ {r} :
          pc'[q] = pc[q] /\ outcome'[q] = outcome[q] /\ reply'[q] = reply[q]
    BY <2>1 DEF Answer, Goto, Typed, TypeOK
  <2> QED
    BY <2>3, <2>4, OnlyOneMoves DEF Promised!Next
<1>9. ASSUME NEW r \in Request, EncodeResult(r) PROVE Projected
  <2>1. /\ pc[r] = "encode" /\ pc' = [pc EXCEPT ![r] = "done"] /\ outcome' = outcome
        /\ reply'[r].status = 200 /\ \A q \in Request \ {r} : reply'[q] = reply[q]
    BY <1>9 DEF EncodeResult, Answer, Goto, Typed, TypeOK
  <2>2. outcome[r] = OkStatus /\ reply[r] = None /\ reply'[r] # None
    BY <2>1 DEF PromiseSoFar, Typed, TypeOK, HandlerPlaces
  <2>3. Promised(r)!Succeed
    BY <2>1, <2>2, NotYet DEF Promised!Succeed, RunOf, AnswerOf, Typed, TypeOK
  <2>4. \A q \in Request \ {r} :
          pc'[q] = pc[q] /\ outcome'[q] = outcome[q] /\ reply'[q] = reply[q]
    BY <2>1 DEF Typed, TypeOK
  <2> QED
    BY <2>3, <2>4, OnlyOneMoves DEF Promised!Next
<1>10. CASE UNCHANGED vars
  BY <1>10 DEF vars, RunOf, AnswerOf
<1> QED
  BY <1>1, <1>2, <1>3, <1>4, <1>5, <1>6, <1>7, <1>8, <1>9, <1>10
  DEF Next, Route, Handle, Refuse

\* Every request keeps the promise of Handling, however many are handled at
\* once: the server implements it.
THEOREM ServerKeepsPromise == Spec => KeepsPromise
<1>1. Init => PromiseSoFar /\ \A r \in Request : Promised(r)!Init
  BY DEF Init, PromiseSoFar, Promised!Init, RunOf, AnswerOf
<1>2. Typed /\ PromiseSoFar /\ PromiseSoFar' /\ [Next]_vars => Projected
  BY PromiseSteps
<1>3. [Next]_vars /\ Projected
      => [\A r \in Request : [Promised(r)!Next]_<<RunOf(r), AnswerOf(r)>>]_vars
  BY DEF Projected
<1> QED
  BY <1>1, <1>2, <1>3, TypedInit, TypedNext, PromiseNext, PTL DEF Spec, KeepsPromise

-----------------------------------------------------------------------------
(***************************************************************************)
(* The remote call.                                                        *)
(***************************************************************************)

\* The codec the stubs use is the server's.
LEMMA SameCodec ==
  /\ \A resp : /\ Client!DecodeError(resp) = DecodeError(resp)
               /\ Client!RaisesLogicError(resp) = RaisesLogicError(resp)
  /\ \A code : Client!ErrorStatus(code) = ErrorStatus(code)
  /\ Client!OkResult = OkStatus
  /\ Client!Status = Status
<1>1. \A code : Client!ErrorStatus(code) = ErrorStatus(code)
  BY DEF Client!ErrorStatus, ErrorStatus
<1>2. \A resp : Client!RaisesLogicError(resp) = RaisesLogicError(resp)
  BY DEF Client!RaisesLogicError, RaisesLogicError
<1>3. Client!OkResult = OkStatus
  BY DEF Client!OkResult, OkStatus
<1>4. Client!CodeMap = CodeMap
  BY DEF Client!CodeMap, CodeMap, Client!ErrCodeEntry, ErrCodeEntry
<1>5. Client!Status = Status
  BY <1>4 DEF Client!Status, Status, Client!ErrorStatusCode, ErrorStatusCode, Client!WireCode,
     WireCode, Client!TwirpErrorCode, TwirpErrorCode
<1>6. \A c : Client!EntriesNamed(c) = EntriesNamed(c)
  BY <1>4 DEF Client!EntriesNamed, EntriesNamed
<1>7. \A S : Client!FirstOf(S) = FirstOf(S)
  BY DEF Client!FirstOf, FirstOf
<1>8. \A c : Client!ErrorCodeToStatus(c) = ErrorCodeToStatus(c)
  BY <1>4, <1>6, <1>7 DEF Client!ErrorCodeToStatus, ErrorCodeToStatus
<1>9. \A resp : Client!DecodeError(resp) = DecodeError(resp)
  BY <1>1, <1>8 DEF Client!DecodeError, DecodeError, Client!Decodable, Decodable
<1> QED
  BY <1>1, <1>2, <1>3, <1>5, <1>9

-----------------------------------------------------------------------------
\* What a step of the system is to the server: one of its own, or none.
LEMMA ServerSteps ==
  ASSUME [RpcNext]_rpcVars
  PROVE  [Next]_vars
<1>1. ASSUME ServerStep PROVE Next
  BY <1>1 DEF ServerStep, Next
<1>2. ASSUME NEW r \in Request, Deliver(r) PROVE Next
  BY <1>2 DEF Deliver, Next
<1>3. ASSUME NEW r \in Request,
             CallStub(r) \/ StubProceeds(r) \/ Send(r) \/ LoseRequest(r) \/ Respond(r)
             \/ Substitute(r) \/ GiveUp(r)
      PROVE  UNCHANGED vars
  BY <1>3 DEF CallStub, StubProceeds, Send, LoseRequest, Respond, Substitute, GiveUp
<1> QED
  BY <1>1, <1>2, <1>3 DEF RpcNext, rpcVars

-----------------------------------------------------------------------------
(***************************************************************************)
(* The server's side of a call: its invariants, and that the error of a    *)
(* method is what was answered.                                            *)
(***************************************************************************)
TellsOutcome ==
  \A r \in Request :
    IsError(outcome[r]) => pc[r] = "done" /\ reply[r] = SendErrorStatus(outcome[r])

ServerInv == Typed /\ Established /\ Routed /\ PromiseSoFar /\ TellsOutcome

\* A request that has been answered is not touched again.
LEMMA DoneIsFinal ==
  ASSUME Typed, [Next]_vars, NEW r \in Request, pc[r] = "done"
  PROVE  /\ pc'[r] = "done" /\ request'[r] = request[r] /\ called'[r] = called[r]
         /\ outcome'[r] = outcome[r] /\ reply'[r] = reply[r]
<1> USE DEF setupVars, handlerVars, methodVars, Typed, TypeOK, Goto, Answer
<1>1. ASSUME NEW h \in Host, RegisterTwirpHandlers(h) PROVE UNCHANGED <<pc, request, called, outcome, reply>>
  BY <1>1 DEF RegisterTwirpHandlers
<1>2. CASE Listen
  BY <1>2 DEF Listen
<1>3. ASSUME NEW q \in Request, Receive(q) \/ Route(q)
      PROVE  /\ pc'[r] = "done" /\ request'[r] = request[r] /\ called'[r] = called[r]
             /\ outcome'[r] = outcome[r] /\ reply'[r] = reply[r]
  BY <1>3 DEF Receive, Route, RouteNowhere, RouteToCatchAll, RouteToMethod
<1>4. ASSUME NEW q \in Request,
             RefuseEncoding(q) \/ AcceptEncoding(q) \/ MiddlewareAccepts(q) \/ MiddlewareRejects(q)
             \/ RefuseArgument(q) \/ CallMethod(q)
      PROVE  /\ pc'[r] = "done" /\ request'[r] = request[r] /\ called'[r] = called[r]
             /\ outcome'[r] = outcome[r] /\ reply'[r] = reply[r]
  BY <1>4 DEF RefuseEncoding, AcceptEncoding, MiddlewareAccepts, MiddlewareRejects, RefuseArgument,
     CallMethod
<1>5. ASSUME NEW q \in Request,
             MethodSucceeds(q) \/ MethodFails(q) \/ EncodeResult(q) \/ EncodeFails(q)
      PROVE  /\ pc'[r] = "done" /\ request'[r] = request[r] /\ called'[r] = called[r]
             /\ outcome'[r] = outcome[r] /\ reply'[r] = reply[r]
  BY <1>5 DEF MethodSucceeds, MethodFails, EncodeResult, EncodeFails
<1>6. CASE UNCHANGED vars
  BY <1>6 DEF vars
<1> QED
  BY <1>1, <1>2, <1>3, <1>4, <1>5, <1>6 DEF Next, Handle

\* An outcome changes when its method ends.
LEMMA OutcomeChanges ==
  ASSUME Typed, [Next]_vars, NEW r \in Request, outcome'[r] # outcome[r]
  PROVE  \/ MethodSucceeds(r) /\ outcome'[r] = OkStatus
         \/ MethodFails(r) /\ pc'[r] = "done" /\ reply'[r] = SendErrorStatus(outcome'[r])
<1> USE DEF setupVars, handlerVars, methodVars, Typed, TypeOK, Goto, Answer
<1>1. ASSUME NEW q \in Request, MethodSucceeds(q) \/ MethodFails(q)
      PROVE  \/ MethodSucceeds(r) /\ outcome'[r] = OkStatus
             \/ MethodFails(r) /\ pc'[r] = "done" /\ reply'[r] = SendErrorStatus(outcome'[r])
  BY <1>1 DEF MethodSucceeds, MethodFails
<1> QED
  BY <1>1 DEF Next, vars, Route, Handle, RegisterTwirpHandlers, Listen, Receive, RouteNowhere,
     RouteToCatchAll, RouteToMethod, RefuseEncoding, AcceptEncoding, MiddlewareAccepts,
     MiddlewareRejects, RefuseArgument, CallMethod, EncodeResult, EncodeFails

LEMMA ServerInvInit == Init => ServerInv
<1>1. Init => PromiseSoFar /\ TellsOutcome
  BY DEF Init, PromiseSoFar, TellsOutcome, IsError
<1> QED
  BY <1>1, TypedInit, EstablishedInit, RoutedInit DEF ServerInv

LEMMA ServerInvNext == ServerInv /\ [Next]_vars => ServerInv'
<1> SUFFICES ASSUME ServerInv, [Next]_vars PROVE ServerInv'
  OBVIOUS
<1>1. Typed' /\ Established' /\ Routed' /\ PromiseSoFar'
  BY TypedNext, EstablishedNext, RoutedNext, PromiseNext DEF ServerInv
<1>2. ASSUME NEW r \in Request, IsError(outcome'[r])
      PROVE  pc'[r] = "done" /\ reply'[r] = SendErrorStatus(outcome'[r])
  <2>1. CASE outcome'[r] = outcome[r]
    BY <1>2, <2>1, DoneIsFinal DEF ServerInv, TellsOutcome
  <2>2. CASE outcome'[r] # outcome[r]
    BY <1>2, <2>2, OutcomeChanges DEF ServerInv, IsError, OkStatus
  <2> QED
    BY <2>1, <2>2
<1> QED
  BY <1>1, <1>2 DEF ServerInv, TellsOutcome

-----------------------------------------------------------------------------
(***************************************************************************)
(* The client's side.  A request is at the server exactly if it has been   *)
(* received; a stub that has returned either sent nothing, or got no       *)
(* answer, or told what the server had answered.                           *)
(***************************************************************************)
Settled(r) ==
  \/ travel[r] = "none" /\ returned[r].code # "Ok"
  \/ returned[r] = ErrorStatus("Unavailable")
  \/ /\ pc[r] = "done"
     /\ returned[r].code = "Ok" => reply[r].status = 200
     /\ IsError(outcome[r]) =>
          returned[r].code = Meaning(outcome[r]) /\ returned[r].meta = outcome[r].meta

CallInv(r) ==
  /\ stub[r] # "idle" => message[r] \in StubCall
  /\ stub[r] \in {"idle", "serialize", "middleware"} => travel[r] = "none"
  /\ travel[r] = "received" <=> pc[r] # "idle"
  /\ returned[r] # None <=> stub[r] = "returned"
  /\ foreign[r] => stub[r] \in {"returned", "thrown"}
  /\ travel[r] = "received" => request[r] = message[r]
  /\ stub[r] = "returned" /\ ~foreign[r] => Settled(r)

RpcInv == RpcTypeOK /\ \A r \in Request : CallInv(r)

RpcTypes ==
  /\ stub     \in [Request -> Client!StubPC]
  /\ message  \in [Request -> StubCall \cup {None}]
  /\ passed   \in [Request -> 0..ClientMiddlewares]
  /\ returned \in [Request -> Status \cup {OkStatus, None}]
  /\ travel   \in [Request -> Travel]
  /\ foreign  \in [Request -> BOOLEAN]

LEMMA RpcTypesAre == (RpcTypeOK <=> RpcTypes) /\ (RpcTypeOK' <=> RpcTypes')
BY SameCodec DEF RpcTypeOK, RpcTypes, Client!ClientTypeOK

\* What a stub makes of a response.
Reading(resp, st) ==
  \/ resp.status = 200 /\ st = OkStatus
  \/ resp.status = 200 /\ st \in Status
  \/ resp.status # 200 /\ st = DecodeError(resp)

\* DeserializeMessage's errors are statuses.
LEMMA OwnReadingErrors == Client!DeserializationError \subseteq Status
<1>1. 4 \in DOMAIN CodeMap /\ CodeMap[4].errCode = "malformed"
  BY CodeMapDomain DEF CodeMap, ErrCodeEntry
<1>2. "malformed" \in WireCode
  BY <1>1 DEF WireCode, TwirpErrorCode
<1>3. ErrorStatus("OutOfRange") \in Status
  BY DEF ErrorStatus, Status, ErrorStatusCode
<1>4. [code |-> "InvalidArgument", twirpStatus |-> "malformed", meta |-> {}] \in Status
  BY <1>2 DEF Status, ErrorStatusCode
<1> QED
  BY <1>3, <1>4, SameCodec DEF Client!DeserializationError

LEMMA ReadingOf ==
  ASSUME NEW r \in Request, NEW resp, Client!ReadResponse(r, resp)
  PROVE  /\ stub[r] = "post" /\ UNCHANGED <<message, passed>>
         /\ \/ /\ stub' = [stub EXCEPT ![r] = "returned"]
               /\ \E st : returned' = [returned EXCEPT ![r] = st] /\ Reading(resp, st)
            \/ stub' = [stub EXCEPT ![r] = "thrown"] /\ returned' = returned
<1> USE DEF Client!StubReturns, Client!StubGoes, Reading
<1>1. CASE Client!ReturnResult(r, resp)
  BY <1>1, SameCodec DEF Client!ReturnResult
<1>2. CASE Client!ReturnUndecodable(r, resp)
  <2>1. PICK st \in Client!DeserializationError : Client!StubReturns(r, "post", st)
    BY <1>2 DEF Client!ReturnUndecodable
  <2>2. resp.status = 200 /\ st \in Status /\ UNCHANGED <<message, passed>>
    BY <1>2, OwnReadingErrors DEF Client!ReturnUndecodable
  <2> QED
    BY <2>1, <2>2
<1>3. CASE Client!ReturnError(r, resp)
  BY <1>3, SameCodec DEF Client!ReturnError
<1>4. CASE Client!RaiseFromStub(r, resp)
  BY <1>4 DEF Client!RaiseFromStub
<1> QED
  BY <1>1, <1>2, <1>3, <1>4 DEF Client!ReadResponse

\* The server's own steps take no request and lose none, and leave alone what
\* they have answered.
LEMMA ServerStepKeeps ==
  ASSUME Typed, ServerStep
  PROVE  /\ request' = request
         /\ \A r \in Request : pc'[r] = "idle" <=> pc[r] = "idle"
         /\ \A r \in Request : pc[r] = "idle" => outcome'[r] = outcome[r] /\ RunOf(r)' = RunOf(r)
<1> USE DEF setupVars, handlerVars, methodVars, Typed, TypeOK, Goto, Answer, RunOf
<1>1. ASSUME NEW h \in Host, RegisterTwirpHandlers(h) PROVE UNCHANGED <<pc, request, outcome>>
  BY <1>1 DEF RegisterTwirpHandlers
<1>2. CASE Listen
  BY <1>2 DEF Listen
<1>3. ASSUME NEW q \in Request, Route(q)
      PROVE  /\ request' = request
             /\ \A r \in Request : pc'[r] = "idle" <=> pc[r] = "idle"
             /\ \A r \in Request : pc[r] = "idle" => pc'[r] = pc[r] /\ outcome'[r] = outcome[r]
  BY <1>3 DEF Route, RouteNowhere, RouteToCatchAll, RouteToMethod
<1>4. ASSUME NEW q \in Request,
             RefuseEncoding(q) \/ AcceptEncoding(q) \/ MiddlewareAccepts(q) \/ MiddlewareRejects(q)
             \/ RefuseArgument(q) \/ CallMethod(q)
      PROVE  /\ request' = request
             /\ \A r \in Request : pc'[r] = "idle" <=> pc[r] = "idle"
             /\ \A r \in Request : pc[r] = "idle" => pc'[r] = pc[r] /\ outcome'[r] = outcome[r]
  BY <1>4 DEF RefuseEncoding, AcceptEncoding, MiddlewareAccepts, MiddlewareRejects, RefuseArgument,
     CallMethod
<1>5. ASSUME NEW q \in Request,
             MethodSucceeds(q) \/ MethodFails(q) \/ EncodeResult(q) \/ EncodeFails(q)
      PROVE  /\ request' = request
             /\ \A r \in Request : pc'[r] = "idle" <=> pc[r] = "idle"
             /\ \A r \in Request : pc[r] = "idle" => pc'[r] = pc[r] /\ outcome'[r] = outcome[r]
  BY <1>5 DEF MethodSucceeds, MethodFails, EncodeResult, EncodeFails
<1> QED
  BY <1>1, <1>2, <1>3, <1>4, <1>5 DEF ServerStep, Handle

\* The calls a step does not concern.
LEMMA OtherCalls ==
  ASSUME RpcInv, NEW r \in Request,
         /\ stub'[r] = stub[r] /\ message'[r] = message[r] /\ returned'[r] = returned[r]
         /\ travel'[r] = travel[r] /\ foreign'[r] = foreign[r]
         /\ pc'[r] = pc[r] /\ request'[r] = request[r] /\ outcome'[r] = outcome[r]
         /\ reply'[r] = reply[r]
  PROVE  CallInv(r)'
BY DEF RpcInv, CallInv, Settled

LEMMA RpcInvInit == RpcInit => RpcInv
<1> SUFFICES ASSUME RpcInit PROVE RpcInv
  OBVIOUS
<1>1. RpcTypes
  BY RpcAssumption DEF RpcInit, Client!ClientInit, RpcTypes, Client!StubPC, Travel
<1>2. ASSUME NEW r \in Request PROVE CallInv(r)
  BY DEF RpcInit, Init, Client!ClientInit, CallInv
<1> QED
  BY <1>1, <1>2, RpcTypesAre DEF RpcInv

\* A stub that returns keeps its call's part of the invariant if what it
\* returns settles the call.
LEMMA ReturnKeeps ==
  ASSUME RpcInv, NEW r \in Request, NEW st \in Status \cup {OkStatus},
         stub[r] \in {"serialize", "middleware", "post"},
         stub' = [stub EXCEPT ![r] = "returned"],
         returned' = [returned EXCEPT ![r] = st],
         UNCHANGED <<pc, request, outcome, reply, message, passed, travel>>,
         foreign' = foreign \/ foreign' = [foreign EXCEPT ![r] = TRUE],
         ~foreign'[r] => Settled(r)'
  PROVE  RpcInv'
<1>1. RpcTypes /\ \A q \in Request : CallInv(q)
  BY RpcTypesAre DEF RpcInv
<1>2. RpcTypes'
  BY <1>1 DEF RpcTypes, Client!StubPC
<1>3. st # None
  BY NotYet
<1>4. CallInv(r)'
  BY <1>1, <1>3 DEF RpcTypes, CallInv
<1>5. \A q \in Request \ {r} : CallInv(q)'
  BY <1>1, OtherCalls DEF RpcTypes
<1> QED
  BY <1>2, <1>4, <1>5, RpcTypesAre DEF RpcInv

\* What a stub returns before it has sent anything is an error.
LEMMA ReturnsUnsent ==
  ASSUME NEW r \in Request, Client!SerializeFails(r) \/ Client!ClientMiddlewareRejects(r)
  PROVE  \E st \in Status :
           /\ stub[r] \in {"serialize", "middleware"}
           /\ stub' = [stub EXCEPT ![r] = "returned"]
           /\ returned' = [returned EXCEPT ![r] = st]
           /\ UNCHANGED <<message, passed>>
<1> USE DEF Client!StubReturns, Client!StubGoes
<1>1. CASE Client!SerializeFails(r)
  BY <1>1, SameCodec, OwnErrors DEF Client!SerializeFails
<1>2. CASE Client!ClientMiddlewareRejects(r)
  BY <1>2, RpcAssumption DEF Client!ClientMiddlewareRejects
<1> QED
  BY <1>1, <1>2

\* A step of a stub that needs no answer.
LEMMA StubWithoutAnswer ==
  ASSUME RpcInv, NEW r \in Request,
         CallStub(r) \/ StubProceeds(r) \/ Send(r) \/ LoseRequest(r)
  PROVE  RpcInv'
<1> USE DEF Client!StubGoes, Client!StubReturns
<1>1. RpcTypes /\ \A q \in Request : CallInv(q)
  BY RpcTypesAre DEF RpcInv
<1>2. UNCHANGED <<pc, request, outcome, reply, foreign>>
  BY DEF CallStub, StubProceeds, Send, LoseRequest, vars, handlerVars, methodVars, networkVars
<1>3. CASE CallStub(r)
  <2>1. PICK call \in StubCall : message' = [message EXCEPT ![r] = call]
    BY <1>3 DEF CallStub, Client!CallStub
  <2>2. /\ stub[r] = "idle" /\ stub' = [stub EXCEPT ![r] = "serialize"]
        /\ UNCHANGED <<passed, returned, travel>>
    BY <1>3 DEF CallStub, Client!CallStub, networkVars
  <2>3. RpcTypes'
    BY <1>1, <1>2, <2>1, <2>2 DEF RpcTypes, Client!StubPC
  <2>4. CallInv(r)'
    BY <1>1, <1>2, <2>1, <2>2 DEF RpcTypes, CallInv
  <2>5. \A q \in Request \ {r} : CallInv(q)'
    BY <1>1, <1>2, <2>1, <2>2, OtherCalls DEF RpcTypes
  <2> QED
    BY <2>3, <2>4, <2>5, RpcTypesAre DEF RpcInv
<1>4. CASE StubProceeds(r)
  <2> travel' = travel
    BY <1>4 DEF StubProceeds, networkVars
  <2>1. CASE Client!Serialize(r) \/ Client!ClientMiddlewareAccepts(r)
    <3>1. /\ stub[r] \in {"serialize", "middleware"} /\ stub' = [stub EXCEPT ![r] = "middleware"]
          /\ UNCHANGED <<message, returned>>
          /\ \/ passed' = passed
             \/ passed[r] < ClientMiddlewares /\ passed' = [passed EXCEPT ![r] = @ + 1]
      BY <2>1 DEF Client!Serialize, Client!ClientMiddlewareAccepts
    <3>2. RpcTypes'
      BY <1>1, <1>2, <3>1, RpcAssumption DEF RpcTypes, Client!StubPC
    <3>3. CallInv(r)'
      BY <1>1, <1>2, <3>1 DEF RpcTypes, CallInv
    <3>4. \A q \in Request \ {r} : CallInv(q)'
      BY <1>1, <1>2, <3>1, OtherCalls DEF RpcTypes
    <3> QED
      BY <3>2, <3>3, <3>4, RpcTypesAre DEF RpcInv
  <2>2. CASE Client!SerializeFails(r) \/ Client!ClientMiddlewareRejects(r)
    <3>1. PICK st \in Status :
            /\ stub[r] \in {"serialize", "middleware"}
            /\ stub' = [stub EXCEPT ![r] = "returned"]
            /\ returned' = [returned EXCEPT ![r] = st]
            /\ UNCHANGED <<message, passed>>
      BY <2>2, ReturnsUnsent
    <3>2. st.code # "Ok"
      BY DEF Status, ErrorStatusCode
    <3>3. Settled(r)'
      BY <1>1, <3>1, <3>2 DEF RpcTypes, CallInv, Settled
    <3> QED
      BY <1>2, <3>1, <3>3, ReturnKeeps
  <2> QED
    BY <1>4, <2>1, <2>2 DEF StubProceeds, Client!StubProceeds
<1>5. CASE Send(r)
  <2>1. /\ stub[r] = "middleware" /\ stub' = [stub EXCEPT ![r] = "post"]
        /\ travel[r] = "none" /\ travel' = [travel EXCEPT ![r] = "sent"]
        /\ UNCHANGED <<message, passed, returned>>
    BY <1>5 DEF Send, Client!Post, Moves
  <2>2. RpcTypes'
    BY <1>1, <1>2, <2>1 DEF RpcTypes, Client!StubPC, Travel
  <2>3. CallInv(r)'
    BY <1>1, <1>2, <2>1 DEF RpcTypes, CallInv
  <2>4. \A q \in Request \ {r} : CallInv(q)'
    BY <1>1, <1>2, <2>1, OtherCalls DEF RpcTypes
  <2> QED
    BY <2>2, <2>3, <2>4, RpcTypesAre DEF RpcInv
<1>6. CASE LoseRequest(r)
  <2>1. /\ travel[r] = "sent" /\ travel' = [travel EXCEPT ![r] = "lost"]
        /\ UNCHANGED <<stub, message, passed, returned>>
    BY <1>6 DEF LoseRequest, Moves, stubVars
  <2>2. RpcTypes'
    BY <1>1, <1>2, <2>1 DEF RpcTypes, Travel
  <2>3. CallInv(r)'
    BY <1>1, <1>2, <2>1 DEF RpcTypes, CallInv, Settled
  <2>4. \A q \in Request \ {r} : CallInv(q)'
    BY <1>1, <1>2, <2>1, OtherCalls DEF RpcTypes
  <2> QED
    BY <2>2, <2>3, <2>4, RpcTypesAre DEF RpcInv
<1> QED
  BY <1>3, <1>4, <1>5, <1>6

\* The server takes what the call has sent.
LEMMA DeliverKeeps ==
  ASSUME RpcInv, ServerInv, NEW r \in Request, Deliver(r)
  PROVE  RpcInv'
<1>1. RpcTypes /\ \A q \in Request : CallInv(q)
  BY RpcTypesAre DEF RpcInv
<1>2. /\ travel[r] = "sent" /\ travel' = [travel EXCEPT ![r] = "received"]
      /\ UNCHANGED <<stub, message, passed, returned, foreign>>
  BY DEF Deliver, Moves, stubVars
<1>3. /\ pc[r] = "idle" /\ pc' = [pc EXCEPT ![r] = "routing"]
      /\ UNCHANGED <<outcome, reply>>
      /\ \A q \in Request \ {r} : request'[q] = request[q]
      /\ request'[r] = message[r]
  BY DEF Deliver, Receive, Goto, methodVars, ServerInv, Typed, TypeOK
<1>4. RpcTypes'
  BY <1>1, <1>2 DEF RpcTypes, Travel
<1>5. CallInv(r)'
  <2>1. pc'[r] = "routing" /\ travel'[r] = "received"
    BY <1>1, <1>2, <1>3 DEF RpcTypes, ServerInv, Typed, TypeOK
  <2>2. Settled(r) /\ travel[r] = "sent" /\ pc[r] = "idle" => Settled(r)'
    BY <1>2 DEF Settled
  <2> QED
    BY <1>1, <1>2, <1>3, <2>1, <2>2 DEF CallInv
<1>6. \A q \in Request \ {r} : CallInv(q)'
  BY <1>1, <1>2, <1>3, OtherCalls DEF RpcTypes, ServerInv, Typed, TypeOK
<1> QED
  BY <1>4, <1>5, <1>6, RpcTypesAre DEF RpcInv

\* A step of the server leaves every stub alone and what was answered.
LEMMA ServerStepKeepsCalls ==
  ASSUME RpcInv, ServerInv, ServerStep
  PROVE  RpcInv'
<1>1. RpcTypes /\ \A q \in Request : CallInv(q)
  BY RpcTypesAre DEF RpcInv
<1>2. UNCHANGED <<stub, message, passed, returned, travel, foreign>>
  BY DEF ServerStep, stubVars, networkVars
<1>3. [Next]_vars /\ Typed
  BY DEF ServerStep, Next, ServerInv
<1>4. RpcTypes'
  BY <1>1, <1>2 DEF RpcTypes
<1>5. ASSUME NEW q \in Request PROVE CallInv(q)'
  <2>1. request'[q] = request[q] /\ (pc'[q] = "idle" <=> pc[q] = "idle")
    BY <1>3, ServerStepKeeps
  <2>2. pc[q] = "done" => pc'[q] = "done" /\ outcome'[q] = outcome[q] /\ reply'[q] = reply[q]
    BY <1>3, DoneIsFinal
  <2>3. Settled(q) => Settled(q)'
    BY <1>2, <2>2 DEF Settled
  <2> QED
    BY <1>1, <1>2, <2>1, <2>3 DEF CallInv
<1> QED
  BY <1>4, <1>5, RpcTypesAre DEF RpcInv

\* An answer, whoever gives it, or none.
LEMMA AnswersKeep ==
  ASSUME RpcInv, ServerInv, NEW r \in Request,
         Respond(r) \/ Substitute(r) \/ GiveUp(r)
  PROVE  RpcInv'
<1> DEFINE Thrown == /\ stub[r] = "post" /\ stub' = [stub EXCEPT ![r] = "thrown"]
                     /\ UNCHANGED <<message, passed, returned>>
<1>1. RpcTypes /\ \A q \in Request : CallInv(q)
  BY RpcTypesAre DEF RpcInv
<1>2. /\ UNCHANGED <<pc, request, outcome, reply, travel>>
      /\ foreign' = foreign \/ foreign' = [foreign EXCEPT ![r] = TRUE]
  BY DEF Respond, Substitute, GiveUp, vars, handlerVars, methodVars, networkVars
<1>3. ASSUME Thrown PROVE RpcInv'
  <2>1. RpcTypes'
    BY <1>1, <1>2, <1>3 DEF RpcTypes, Client!StubPC
  <2>2. CallInv(r)'
    BY <1>1, <1>2, <1>3 DEF RpcTypes, CallInv
  <2>3. \A q \in Request \ {r} : CallInv(q)'
    BY <1>1, <1>2, <1>3, OtherCalls DEF RpcTypes
  <2> QED
    BY <2>1, <2>2, <2>3, RpcTypesAre DEF RpcInv
<1>4. ASSUME Respond(r) PROVE RpcInv'
  <2>1. /\ stub[r] = "post" /\ UNCHANGED <<message, passed>>
        /\ \/ /\ stub' = [stub EXCEPT ![r] = "returned"]
              /\ \E st : returned' = [returned EXCEPT ![r] = st] /\ Reading(reply[r], st)
           \/ stub' = [stub EXCEPT ![r] = "thrown"] /\ returned' = returned
    BY <1>4, ReadingOf DEF Respond
  <2>2. CASE stub' = [stub EXCEPT ![r] = "thrown"] /\ returned' = returned
    BY <1>3, <2>1, <2>2
  <2>3. CASE stub' = [stub EXCEPT ![r] = "returned"]
    <3>1. PICK st : returned' = [returned EXCEPT ![r] = st] /\ Reading(reply[r], st)
      BY <2>1, <2>3, <1>1 DEF RpcTypes
    <3>2. pc[r] = "done" /\ reply[r] \in ErrorResponse \cup SuccessReply
      BY <1>4 DEF Respond, ServerInv, PromiseSoFar, Typed, TypeOK
    <3>3. reply[r].status # 200 => reply[r] \in ErrorResponse
      BY <3>2 DEF SuccessReply
    <3>4. st \in Status \cup {OkStatus} /\ (st.code = "Ok" => reply[r].status = 200)
      <4>1. CASE reply[r].status = 200
        BY <3>1, <4>1 DEF Reading
      <4>2. CASE reply[r].status # 200
        BY <3>1, <3>3, <4>2, DecodeErrorType DEF Reading, Status, ErrorStatusCode
      <4> QED
        BY <4>1, <4>2
    <3>5. ASSUME IsError(outcome[r]) PROVE st.code = Meaning(outcome[r]) /\ st.meta = outcome[r].meta
      <4>1. outcome[r] \in Status /\ reply[r] = SendErrorStatus(outcome[r])
        BY <3>5 DEF IsError, OkStatus, ServerInv, TellsOutcome, Typed, TypeOK
      <4>2. st = DecodeError(reply[r])
        BY <3>1, <4>1, SentStatus DEF Reading
      <4> QED
        BY <4>1, <4>2, SendErrorWrites DEF DecodeError
    <3>6. Settled(r)'
      BY <1>1, <1>2, <3>1, <3>2, <3>4, <3>5 DEF RpcTypes, Settled, IsError
    <3> QED
      BY <1>2, <2>1, <2>3, <3>1, <3>4, <3>6, ReturnKeeps
  <2> QED
    BY <2>1, <2>2, <2>3
<1>5. ASSUME Substitute(r) PROVE RpcInv'
  <2>1. PICK resp \in ForeignResponse : Client!ReadResponse(r, resp)
    BY <1>5 DEF Substitute
  <2>2. /\ stub[r] = "post" /\ UNCHANGED <<message, passed>>
        /\ \/ /\ stub' = [stub EXCEPT ![r] = "returned"]
              /\ \E st : returned' = [returned EXCEPT ![r] = st] /\ Reading(resp, st)
           \/ stub' = [stub EXCEPT ![r] = "thrown"] /\ returned' = returned
    BY <2>1, ReadingOf
  <2>3. CASE stub' = [stub EXCEPT ![r] = "thrown"] /\ returned' = returned
    BY <1>3, <2>2, <2>3
  <2>4. CASE stub' = [stub EXCEPT ![r] = "returned"]
    <3>1. PICK st : returned' = [returned EXCEPT ![r] = st] /\ Reading(resp, st)
      BY <2>2, <2>4, <1>1 DEF RpcTypes
    <3>2. st \in Status \cup {OkStatus}
      BY <2>1, <3>1, RpcAssumption, DecodeErrorType DEF Reading
    <3>3. foreign'[r]
      BY <1>1, <1>5 DEF Substitute, RpcTypes
    <3> QED
      BY <1>2, <2>2, <2>4, <3>1, <3>2, <3>3, ReturnKeeps
  <2> QED
    BY <2>2, <2>3, <2>4
<1>6. ASSUME GiveUp(r) PROVE RpcInv'
  <2>1. /\ stub[r] = "post" /\ stub' = [stub EXCEPT ![r] = "returned"]
        /\ returned' = [returned EXCEPT ![r] = ErrorStatus("Unavailable")]
        /\ UNCHANGED <<message, passed>>
    BY <1>6, SameCodec DEF GiveUp, Client!PostFails, Client!StubReturns, Client!StubGoes
  <2>2. ErrorStatus("Unavailable") \in Status
    BY DEF ErrorStatus, Status, ErrorStatusCode
  <2>3. Settled(r)'
    BY <1>1, <2>1 DEF RpcTypes, Settled
  <2> QED
    BY <1>2, <2>1, <2>2, <2>3, ReturnKeeps
<1> QED
  BY <1>4, <1>5, <1>6

LEMMA RpcInvNext == ServerInv /\ RpcInv /\ [RpcNext]_rpcVars => RpcInv'
<1> SUFFICES ASSUME ServerInv, RpcInv, [RpcNext]_rpcVars PROVE RpcInv'
  OBVIOUS
<1>1. CASE ServerStep
  BY <1>1, ServerStepKeepsCalls
<1>2. ASSUME NEW r \in Request, Deliver(r) PROVE RpcInv'
  BY <1>2, DeliverKeeps
<1>3. ASSUME NEW r \in Request, CallStub(r) \/ StubProceeds(r) \/ Send(r) \/ LoseRequest(r)
      PROVE  RpcInv'
  BY <1>3, StubWithoutAnswer
<1>4. ASSUME NEW r \in Request, Respond(r) \/ Substitute(r) \/ GiveUp(r) PROVE RpcInv'
  BY <1>4, AnswersKeep
<1>5. CASE UNCHANGED rpcVars
  <2>1. RpcTypes /\ \A q \in Request : CallInv(q)
    BY RpcTypesAre DEF RpcInv
  <2>2. RpcTypes' /\ \A q \in Request : CallInv(q)'
    BY <1>5, <2>1, OtherCalls DEF RpcTypes, rpcVars, stubVars, networkVars, vars, handlerVars,
       methodVars
  <2> QED
    BY <2>2, RpcTypesAre DEF RpcInv
<1> QED
  BY <1>1, <1>2, <1>3, <1>4, <1>5 DEF RpcNext

LEMMA RpcServerInvNext == ServerInv /\ [RpcNext]_rpcVars => ServerInv'
BY ServerSteps, ServerInvNext

LEMMA RpcServerInvInit == RpcInit => ServerInv
BY ServerInvInit DEF RpcInit

-----------------------------------------------------------------------------
\* Type correctness of the client's side and the network.
THEOREM RpcTypeCorrect == RpcSpec => []RpcTypeOK
<1>1. RpcInv => RpcTypeOK
  BY DEF RpcInv
<1> QED
  BY <1>1, RpcServerInvInit, RpcServerInvNext, RpcInvInit, RpcInvNext, PTL DEF RpcSpec

\* A stub that returns OK has run the method it was called for, which
\* succeeded, unless an intermediary made up the success.
THEOREM RpcOkMeansExecuted == RpcSpec => []OkMeansExecuted
<1>1. ASSUME ServerInv, RpcInv PROVE OkMeansExecuted
  <2> SUFFICES ASSUME NEW r \in Request, IsOk(returned[r]), ~foreign[r]
               PROVE  /\ outcome[r] = OkStatus
                      /\ called[r].method = message[r].method
                      /\ request[r] = message[r]
    BY DEF OkMeansExecuted
  <2>1. CallInv(r) /\ Settled(r)
    BY <1>1 DEF RpcInv, CallInv, IsOk
  <2>2. pc[r] = "done" /\ reply[r].status = 200
    BY <2>1 DEF Settled, IsOk, ErrorStatus
  <2>3. outcome[r] = OkStatus
    BY <1>1, <2>2 DEF ServerInv, Established, SuccessIsTrue
  <2>4. called[r] # None
    BY <1>1, <2>3, NotYet DEF ServerInv, PromiseSoFar
  <2>5. request[r] = message[r]
    BY <2>1, <2>2 DEF CallInv
  <2> QED
    BY <1>1, <2>3, <2>4, <2>5 DEF ServerInv, Routed, CalledAsNamed, Named
<1> QED
  BY <1>1, RpcServerInvInit, RpcServerInvNext, RpcInvInit, RpcInvNext, PTL DEF RpcSpec

\* The error of a method gets to the caller with its meaning and all its
\* metadata, or the caller is told that the service is unavailable.
THEOREM RpcMethodErrorArrives == RpcSpec => []MethodErrorArrives
<1>1. ASSUME ServerInv, RpcInv PROVE MethodErrorArrives
  <2> SUFFICES ASSUME NEW r \in Request, IsError(outcome[r]), returned[r] # None, ~foreign[r]
               PROVE  \/ /\ returned[r].code = Meaning(outcome[r])
                         /\ returned[r].meta = outcome[r].meta
                      \/ returned[r] = ErrorStatus("Unavailable")
    BY DEF MethodErrorArrives
  <2>1. CallInv(r) /\ Settled(r)
    BY <1>1 DEF RpcInv, CallInv
  <2>2. pc[r] = "done"
    BY <1>1 DEF ServerInv, TellsOutcome
  <2> QED
    BY <2>1, <2>2 DEF Settled, CallInv
<1> QED
  BY <1>1, RpcServerInvInit, RpcServerInvNext, RpcInvInit, RpcInvNext, PTL DEF RpcSpec

-----------------------------------------------------------------------------
(***************************************************************************)
(* Every call keeps the promise of RemoteCall: a step of the system is, to *)
(* each call, one that the promise allows, or none.                        *)
(***************************************************************************)
Kept(r) == [Remote(r)!Next]_<<RunOf(r), ResultOf(r)>>

\* A call nothing happens to.
LEMMA CallStutters ==
  ASSUME NEW r \in Request,
         stub'[r] = stub[r], returned'[r] = returned[r], foreign'[r] = foreign[r],
         pc'[r] = pc[r], outcome'[r] = outcome[r]
  PROVE  Kept(r)
BY DEF Kept, RunOf, ResultOf

\* As long as the method may start or runs, the caller has been promised nothing.
LEMMA StillOpen ==
  ASSUME RpcInv, NEW r \in Request, pc[r] \notin {"idle", "done"}
  PROVE  ResultOf(r) \in {"pending", "unknown"}
<1>1. RpcTypes /\ CallInv(r)
  BY RpcTypesAre DEF RpcInv
<1>2. travel[r] = "received" /\ stub[r] # "idle"
  BY <1>1 DEF CallInv
<1>3. Settled(r) => returned[r].code = "Unavailable"
  BY <1>2 DEF Settled, ErrorStatus
<1> QED
  BY <1>1, <1>2, <1>3 DEF CallInv, ResultOf, RpcTypes, Client!StubPC

\* The server's step is one of the promise of Handling, which for what it
\* does to the method is one of the promise of RemoteCall.
LEMMA ServerKeepsCall ==
  ASSUME RpcInv, ServerInv, PromiseSoFar', [Next]_vars, NEW r \in Request,
         stub'[r] = stub[r], returned'[r] = returned[r], foreign'[r] = foreign[r]
  PROVE  Kept(r)
<1>1. ResultOf(r)' = ResultOf(r)
  BY DEF ResultOf
<1>2. CASE RunOf(r)' = RunOf(r)
  BY <1>1, <1>2 DEF Kept
<1>3. CASE RunOf(r)' # RunOf(r)
  <2>1. Promised(r)!Next
    BY <1>3, PromiseSteps DEF ServerInv, Projected
  <2>2. \/ RunOf(r) = "none" /\ RunOf(r)' = "running"
        \/ RunOf(r) = "running" /\ RunOf(r)' \in {"succeeded", "failed"}
    BY <1>3, <2>1 DEF Promised!Next, Promised!Take, Promised!Start, Promised!End,
       Promised!Succeed, Promised!Fail
  <2>3. AnswerOf(r) # "none" \/ RunOf(r) = "running"
    BY <1>3, <2>1 DEF Promised!Next, Promised!Take, Promised!Start, Promised!End,
       Promised!Succeed, Promised!Fail
  <2>4. pc[r] # "idle"
    BY <2>3 DEF AnswerOf, RunOf, ServerInv, PromiseSoFar
  <2>5. pc[r] # "done"
    BY <1>3, DoneIsFinal DEF RunOf, ServerInv
  <2>6. ResultOf(r) \in {"pending", "unknown"}
    BY <2>4, <2>5, StillOpen
  <2> QED
    BY <1>1, <2>2, <2>6 DEF Kept, Remote!Next, Remote!Start, Remote!End
<1> QED
  BY <1>2, <1>3

\* What a call that returns may be taken to tell.
LEMMA ReturnIsKept ==
  ASSUME RpcInv', ServerInv, NEW r \in Request, ResultOf(r) = "pending",
         UNCHANGED <<vars, travel>>, stub'[r] \in {"returned", "thrown"}
  PROVE  Kept(r)
<1>1. RpcTypes' /\ CallInv(r)'
  BY RpcTypesAre DEF RpcInv
<1>2. UNCHANGED <<pc, request, outcome, reply>> /\ RunOf(r)' = RunOf(r)
  BY DEF vars, handlerVars, methodVars, RunOf
<1>3. CASE ResultOf(r)' = "unknown"
  BY <1>2, <1>3 DEF Kept, Remote!Next, Remote!ReturnUnknown
<1>4. CASE ResultOf(r)' # "unknown"
  <2>1. /\ stub'[r] = "returned" /\ ~foreign'[r] /\ returned'[r] # None
        /\ returned'[r].code # "Unavailable"
    BY <1>1, <1>4 DEF ResultOf, CallInv
  <2>2. Settled(r)'
    BY <1>1, <2>1 DEF CallInv
  <2>3. CASE travel[r] = "none" /\ returned'[r].code # "Ok"
    <3>1. ResultOf(r)' = "failed"
      BY <2>1, <2>3 DEF ResultOf
    <3>2. pc[r] = "idle"
      BY <1>1, <1>2, <2>3 DEF CallInv
    <3>3. RunOf(r) # "running"
      BY <3>2 DEF RunOf, ServerInv, PromiseSoFar
    <3> QED
      BY <1>2, <3>1, <3>3 DEF Kept, Remote!Next, Remote!ReturnFailure
  <2>4. CASE pc[r] = "done" /\ (returned'[r].code = "Ok" => reply[r].status = 200)
    <3>1. RunOf(r) # "running"
      BY <2>4 DEF RunOf
    <3>2. CASE returned'[r].code = "Ok"
      <4>1. ResultOf(r)' = "ok"
        BY <2>1, <3>2 DEF ResultOf
      <4>2. outcome[r] = OkStatus
        BY <2>4, <3>2 DEF ServerInv, Established, SuccessIsTrue
      <4>3. RunOf(r) = "succeeded"
        BY <2>4, <4>2, NotYet DEF RunOf
      <4> QED
        BY <1>2, <4>1, <4>3 DEF Kept, Remote!Next, Remote!ReturnOk
    <3>3. CASE returned'[r].code # "Ok"
      <4>1. ResultOf(r)' = "failed"
        BY <2>1, <3>3 DEF ResultOf
      <4> QED
        BY <1>2, <3>1, <4>1 DEF Kept, Remote!Next, Remote!ReturnFailure
    <3> QED
      BY <3>2, <3>3
  <2> QED
    BY <1>2, <2>1, <2>2, <2>3, <2>4 DEF Settled, ErrorStatus
<1> QED
  BY <1>3, <1>4

LEMMA StepsKeepCalls ==
  ASSUME RpcInv, RpcInv', ServerInv, ServerInv', [RpcNext]_rpcVars
  PROVE  \A q \in Request : Kept(q)
<1>1. RpcTypes /\ \A q \in Request : CallInv(q)
  BY RpcTypesAre DEF RpcInv
<1>2. ASSUME NEW r \in Request, Deliver(r) \/ LoseRequest(r)
      PROVE  \A q \in Request : Kept(q)
  <2>1. UNCHANGED <<stub, returned, foreign>>
    BY <1>2 DEF Deliver, LoseRequest, stubVars
  <2> QED
    BY <2>1, ServerSteps, ServerKeepsCall DEF ServerInv
<1>3. CASE ServerStep
  <2>1. UNCHANGED <<stub, returned, foreign>>
    BY <1>3 DEF ServerStep, stubVars, networkVars
  <2> QED
    BY <2>1, ServerSteps, ServerKeepsCall DEF ServerInv
<1>4. ASSUME NEW r \in Request, CallStub(r) PROVE \A q \in Request : Kept(q)
  <2>1. /\ stub[r] = "idle" /\ stub' = [stub EXCEPT ![r] = "serialize"]
        /\ UNCHANGED <<returned, foreign, pc, outcome>>
    BY <1>4 DEF CallStub, Client!CallStub, Client!StubGoes, networkVars, vars, methodVars
  <2>2. returned[r] = None /\ stub'[r] = "serialize"
    BY <1>1, <2>1 DEF CallInv, RpcTypes
  <2>3. ResultOf(r) = "none" /\ ResultOf(r)' = "pending" /\ RunOf(r)' = RunOf(r)
    BY <2>1, <2>2 DEF ResultOf, RunOf
  <2>4. Kept(r)
    BY <2>3 DEF Kept, Remote!Next, Remote!Call
  <2>5. \A q \in Request \ {r} : Kept(q)
    BY <1>1, <2>1, CallStutters DEF RpcTypes
  <2> QED
    BY <2>4, <2>5
<1>5. ASSUME NEW r \in Request,
             Send(r) \/ Client!Serialize(r) \/ Client!ClientMiddlewareAccepts(r),
             UNCHANGED <<vars, foreign>>
      PROVE  \A q \in Request : Kept(q)
  <2>1. /\ stub[r] \in {"serialize", "middleware"}
        /\ stub' = [stub EXCEPT ![r] = "middleware"] \/ stub' = [stub EXCEPT ![r] = "post"]
        /\ UNCHANGED <<returned, foreign, pc, outcome>>
    BY <1>5 DEF Send, Client!Post, Client!Serialize, Client!ClientMiddlewareAccepts,
       Client!StubGoes, vars, methodVars
  <2>2. RunOf(r)' = RunOf(r) /\ ResultOf(r)' = ResultOf(r)
    BY <1>1, <2>1 DEF RunOf, ResultOf, RpcTypes
  <2>3. Kept(r)
    BY <2>2 DEF Kept
  <2>4. \A q \in Request \ {r} : Kept(q)
    BY <1>1, <2>1, CallStutters DEF RpcTypes
  <2> QED
    BY <2>3, <2>4
<1>6. ASSUME NEW r \in Request,
             \/ StubProceeds(r) /\ (Client!SerializeFails(r) \/ Client!ClientMiddlewareRejects(r))
             \/ Respond(r) \/ Substitute(r) \/ GiveUp(r)
      PROVE  \A q \in Request : Kept(q)
  <2>1. /\ stub[r] \in {"serialize", "middleware", "post"}
        /\ \/ /\ stub' = [stub EXCEPT ![r] = "returned"]
              /\ \E st : returned' = [returned EXCEPT ![r] = st]
           \/ stub' = [stub EXCEPT ![r] = "thrown"] /\ returned' = returned
    <3>1. CASE Client!SerializeFails(r) \/ Client!ClientMiddlewareRejects(r)
      BY <3>1, ReturnsUnsent
    <3>2. ASSUME NEW resp, Client!ReadResponse(r, resp)
          PROVE  /\ stub[r] = "post"
                 /\ \/ /\ stub' = [stub EXCEPT ![r] = "returned"]
                       /\ \E st : returned' = [returned EXCEPT ![r] = st]
                    \/ stub' = [stub EXCEPT ![r] = "thrown"] /\ returned' = returned
      BY <3>2, ReadingOf
    <3>3. CASE GiveUp(r)
      BY <3>3 DEF GiveUp, Client!PostFails, Client!StubReturns, Client!StubGoes
    <3> QED
      BY <1>6, <3>1, <3>2, <3>3 DEF Respond, Substitute
  <2>2. UNCHANGED <<vars, travel>> /\ \A q \in Request \ {r} : foreign'[q] = foreign[q]
    BY <1>1, <1>6 DEF StubProceeds, Respond, Substitute, GiveUp, networkVars, RpcTypes
  <2>3. returned[r] = None /\ stub'[r] \in {"returned", "thrown"}
    BY <1>1, <2>1 DEF CallInv, RpcTypes
  <2>4. ResultOf(r) = "pending"
    BY <2>1, <2>3 DEF ResultOf
  <2>5. Kept(r)
    BY <2>2, <2>3, <2>4, ReturnIsKept
  <2>6. UNCHANGED <<pc, outcome>>
    BY <2>2 DEF vars, methodVars
  <2>7. ASSUME NEW q \in Request \ {r} PROVE stub'[q] = stub[q] /\ returned'[q] = returned[q]
    BY <1>1, <2>1 DEF RpcTypes
  <2>8. \A q \in Request \ {r} : Kept(q)
    BY <2>2, <2>6, <2>7, CallStutters
  <2> QED
    BY <2>5, <2>8
<1>7. CASE UNCHANGED rpcVars
  BY <1>7, CallStutters DEF rpcVars, vars, stubVars, networkVars, methodVars
<1>8. ASSUME NEW r \in Request, StubProceeds(r) \/ Send(r) PROVE \A q \in Request : Kept(q)
  BY <1>5, <1>6, <1>8 DEF StubProceeds, Send, Client!StubProceeds, networkVars
<1> QED
  BY <1>2, <1>3, <1>4, <1>6, <1>7, <1>8 DEF RpcNext

\* Every remote call keeps the promise of RemoteCall: its method starts at
\* most once, and not after the caller was told a result.
THEOREM RpcKeepsRemoteCall == RpcSpec => KeepsRemoteCall
<1>1. RpcInit => \A r \in Request : Remote(r)!Init
  BY DEF RpcInit, Init, Client!ClientInit, Remote!Init, RunOf, ResultOf
<1>2. RpcInv /\ RpcInv' /\ ServerInv /\ ServerInv' /\ [RpcNext]_rpcVars
      => [\A r \in Request : [Remote(r)!Next]_<<RunOf(r), ResultOf(r)>>]_rpcVars
  BY StepsKeepCalls DEF Kept
<1> QED
  BY <1>1, <1>2, RpcServerInvInit, RpcServerInvNext, RpcInvInit, RpcInvNext, PTL
  DEF RpcSpec, KeepsRemoteCall
=============================================================================
