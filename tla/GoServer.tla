------------------------------ MODULE GoServer -----------------------------
(***************************************************************************)
(* The Go peer's server for one request: ServeHTTP of the generated        *)
(* example/golang/example/service.twirp.go with all it calls.  Requests    *)
(* share nothing in the generated code, so one is enough.                  *)
(*                                                                         *)
(* A step is the code between two calls into code that is not generated:   *)
(* the hooks, the interceptor, the service, the reading of the body and    *)
(* the writing of the response.  The request's context may be canceled or  *)
(* run out between any two of them, the client may be slow to send or to   *)
(* take, and what is the application's may return or panic.                *)
(***************************************************************************)
EXTENDS GoErrors, Routes

CONSTANTS
  ServerConfig,    \* servers: pathPrefix, package, service and methods
  Caller,          \* clients of either language, and what they call
  MaxCalls,        \* how often an interceptor calls the service
  HookError,       \* what RequestReceived and RequestRouted may return
  HandlerError,    \* what the service or the interceptor may return
  Input,           \* requests the environment may send
  None             \* "not yet"

InputType == [verb        : {"POST", "other"},
              path        : Seq(Segment),
              contentType : ContentType,
              body        : {"valid", "malformed"}]

ServerType == [prefix : Seq(Segment), pkg : STRING, service : STRING,
               methods : SUBSET STRING]

CallerType == [language : {"cpp", "go"}, base : Seq(Segment), prefix : Seq(Segment),
               pkg : STRING, service : STRING, method : STRING]

\* A C++ client has neither a prefix nor a base path to choose.
PathOf(c) ==
  IF c.language = "cpp" THEN CppPath(c.pkg, c.service, c.method)
  ELSE GoPath(c.base, c.prefix, c.pkg, c.service, c.method)

SuccessResponse == [status : {200}, contentType : ContentType, calls : Nat]

ASSUME GoServerAssumption ==
  /\ ServerConfig \subseteq ServerType
  /\ Caller \subseteq CallerType
  /\ \A c \in Caller : c.language = "cpp" => c.prefix = DefaultPrefix /\ c.base = <<Slash>>
  /\ MaxCalls \in Nat \ {0}
  /\ HookError \cup HandlerError \subseteq GoError \cup {PlainError}
  /\ Input \subseteq InputType
  /\ None \notin GoError \cup ErrorResponse \cup SuccessResponse

VARIABLES
  server,      \* the haberdasherServer
  interceptor, \* is s.interceptor set
  pc,          \* where the handler is
  request,     \* the HTTP request
  ctxErr,      \* what ctx.Err() returns
  doneAtRead,  \* history: ctx.Err() when reading the body failed
  calls,       \* history: how often the service has been called
  handled,     \* history: what the handler (interceptor and service) came to
  err,         \* the error being written
  ctxStatus,   \* the status code in ctx, as the hooks see it
  panicking,   \* is the panic of the handler to be raised again
  headers,     \* how often the header of the response was written
  hooks,       \* the hooks called, in order
  response,    \* what was written to the http.ResponseWriter
  stalled      \* may the client make reads and writes wait for ever

requestVars == <<server, interceptor, request, doneAtRead, calls, handled>>
answerVars  == <<err, ctxStatus, panicking, headers, response>>
outerVars   == <<ctxErr, stalled>>
vars == <<pc, hooks, outerVars, requestVars, answerVars>>

PC == {"idle", "received", "routing", "encoding", "reading", "unreadable", "handler",
       "service", "encode", "failing", "writing", "sent", "panicked", "aborted"}

Hook == {"RequestReceived", "RequestRouted", "ResponsePrepared", "Error", "ResponseSent"}

Handled == {"none", "result", "nil", "error", "panic"}

Init ==
  /\ server \in ServerConfig
  /\ interceptor \in BOOLEAN
  /\ pc = "idle"
  /\ request = None
  /\ ctxErr = "none"
  /\ doneAtRead = "none"
  /\ calls = 0
  /\ handled = "none"
  /\ err = None
  /\ ctxStatus = None
  /\ panicking = FALSE
  /\ headers = 0
  /\ hooks = <<>>
  /\ response = None
  /\ stalled = TRUE

-----------------------------------------------------------------------------
Goto(from, to) == pc = from /\ pc' = to

\* The hooks called in a step.
Calls(called) == hooks' = hooks \o called

\* writeError up to and with the Error hook.  The header goes out afterwards.
Fails(from, goErr, called) ==
  /\ Goto(from, "failing")
  /\ err' = AsTwirpError(goErr)
  /\ ctxStatus' = GoHttpStatus[AsTwirpError(goErr).code]
  /\ Calls(called \o <<"Error">>)
  /\ UNCHANGED <<headers, response>>

Receive ==
  /\ Goto("idle", "received")
  /\ \E in \in Input : request' = in
  /\ UNCHANGED <<server, interceptor, outerVars, hooks, doneAtRead, calls, handled, answerVars>>

\* The client goes away, or the deadline passes.
ContextDone ==
  /\ pc \notin {"idle", "sent", "panicked", "aborted"}
  /\ ctxErr = "none"
  /\ ctxErr' \in {"canceled", "deadline"}
  /\ UNCHANGED <<pc, hooks, stalled, requestVars, answerVars>>

\* The client has sent its body and takes what it is sent, or its connection
\* is closed: from now on reads and writes return.
ClientDone ==
  /\ pc # "idle"
  /\ stalled
  /\ stalled' = FALSE
  /\ UNCHANGED <<pc, hooks, ctxErr, requestVars, answerVars>>

RequestReceivedOk ==
  /\ Goto("received", "routing")
  /\ Calls(<<"RequestReceived">>)
  /\ UNCHANGED <<outerVars, requestVars, answerVars>>

RequestReceivedFails ==
  /\ \E e \in HookError : Fails("received", e, <<"RequestReceived">>)
  /\ UNCHANGED <<outerVars, requestVars, panicking>>

\* The checks of ServeHTTP, in their order: the verb, the service, the prefix
\* and the method.  They all lead to the same error.
Routed(req) ==
  LET parsed == ParseTwirpPath(req.path)
  IN  /\ req.verb = "POST"
      /\ parsed.service = GoServiceName(server.pkg, server.service)
      /\ parsed.prefix = server.prefix
      /\ \E m \in server.methods : parsed.method = <<m>>

\* Seeded fault: the switch over the methods has no default.
RouteNoDefault ==
  /\ Fails("routing", GoBadRouteError, <<>>)
  /\ request.verb = "POST" =>
       LET parsed == ParseTwirpPath(request.path)
       IN  \/ parsed.service # GoServiceName(server.pkg, server.service)
           \/ parsed.prefix # server.prefix
  /\ UNCHANGED <<outerVars, requestVars, panicking>>

RouteNowhere ==
  /\ Fails("routing", GoBadRouteError, <<>>)
  /\ ~Routed(request)
  /\ UNCHANGED <<outerVars, requestVars, panicking>>

Route ==
  /\ Goto("routing", "encoding")
  /\ Routed(request)
  /\ UNCHANGED <<outerVars, hooks, requestVars, answerVars>>

RefuseEncoding ==
  /\ Fails("encoding", GoBadRouteError, <<>>)
  /\ request.contentType = "other"
  /\ UNCHANGED <<outerVars, requestVars, panicking>>

RequestRoutedOk ==
  /\ Goto("encoding", "reading")
  /\ request.contentType # "other"
  /\ Calls(<<"RequestRouted">>)
  /\ UNCHANGED <<outerVars, requestVars, answerVars>>

RequestRoutedFails ==
  /\ \E e \in HookError : Fails("encoding", e, <<"RequestRouted">>)
  /\ request.contentType # "other"
  /\ UNCHANGED <<outerVars, requestVars, panicking>>

\* Reading the body fails, as it does when the client has gone away, or, in
\* JSON only, what has been read is not a message.
ReadFails ==
  /\ Goto("reading", "unreadable")
  /\ doneAtRead' = ctxErr
  /\ UNCHANGED <<server, interceptor, outerVars, hooks, request, calls, handled, answerVars>>

\* Seeded fault: every body that cannot be read is the client's fault.
BlameRequest ==
  /\ Fails("unreadable", MalformedRequestError, <<>>)
  /\ UNCHANGED <<outerVars, requestVars, panicking>>

\* handleRequestBodyError
HandleRequestBodyError ==
  /\ Fails("unreadable",
           CASE ctxErr = "canceled" -> NewGoError("canceled", {})
             [] ctxErr = "deadline" -> NewGoError("deadline_exceeded", {})
             [] OTHER               -> MalformedRequestError,
           <<>>)
  /\ UNCHANGED <<outerVars, requestVars, panicking>>

RefuseProtobuf ==
  /\ Fails("reading", MalformedRequestError, <<>>)
  /\ request.body = "malformed"
  /\ request.contentType = "application/protobuf"
  /\ UNCHANGED <<outerVars, requestVars, panicking>>

\* Seeded fault: the error of Unmarshal is not looked at.
DecodeAnyway ==
  /\ Goto("reading", "handler")
  /\ UNCHANGED <<outerVars, hooks, requestVars, answerVars>>

Decode ==
  /\ Goto("reading", "handler")
  /\ request.body = "valid"
  /\ UNCHANGED <<outerVars, hooks, requestVars, answerVars>>

-----------------------------------------------------------------------------
\* The handler is the service's method, or the interceptor around it, which
\* calls it when and as often as it likes.
CallService ==
  /\ Goto("handler", "service")
  /\ calls < (IF interceptor THEN MaxCalls ELSE 1)
  /\ calls' = calls + 1
  /\ UNCHANGED <<server, interceptor, outerVars, hooks, request, doneAtRead, handled, answerVars>>

\* Where the handler may come to an end: in the service, unless an interceptor
\* stands around it; a panic passes through the interceptor.
HandlerEnds == IF interceptor THEN "handler" ELSE "service"

ServiceReturns ==
  /\ interceptor
  /\ Goto("service", "handler")
  /\ UNCHANGED <<outerVars, hooks, requestVars, answerVars>>

Ends(how) ==
  /\ handled' = how
  /\ UNCHANGED <<server, interceptor, outerVars, request, doneAtRead, calls>>

HandlerSucceeds ==
  /\ Goto(HandlerEnds, "encode")
  /\ Ends("result")
  /\ Calls(<<"ResponsePrepared">>)
  /\ UNCHANGED answerVars

\* Seeded fault: the handler's err is another variable than the one tested.
IgnoreHandlerError ==
  /\ Goto(HandlerEnds, "encode")
  /\ Ends("error")
  /\ Calls(<<"ResponsePrepared">>)
  /\ UNCHANGED answerVars

HandlerFails ==
  /\ \E e \in HandlerError : Fails(HandlerEnds, e, <<>>)
  /\ Ends("error")
  /\ UNCHANGED panicking

\* A result of another type than the method's, from an interceptor only.
HandlerMistyped ==
  /\ interceptor
  /\ Fails("handler", NewGoError("internal", {}), <<>>)
  /\ Ends("error")
  /\ UNCHANGED panicking

\* Neither a result nor an error.
HandlerReturnsNil ==
  /\ Fails(HandlerEnds, NewGoError("internal", {}), <<>>)
  /\ Ends("nil")
  /\ UNCHANGED panicking

\* Seeded fault: a panic is raised again before the error is written.
PanicUnanswered ==
  /\ Goto("service", "panicked")
  /\ Ends("panic")
  /\ UNCHANGED <<hooks, answerVars>>

\* ensurePanicResponses: the deferred function writes the error first.
HandlerPanics ==
  /\ \E from \in {"service", HandlerEnds} : Fails(from, InternalServicePanic, <<>>)
  /\ Ends("panic")
  /\ panicking' = TRUE

-----------------------------------------------------------------------------
\* Seeded fault: the header of a success is written before marshalling.
MarshalFailsLate ==
  /\ Goto("encode", "failing")
  /\ err' = InternalErrorWith
  /\ ctxStatus' = GoHttpStatus[InternalErrorWith.code]
  /\ Calls(<<"Error">>)
  /\ headers' = headers + 1
  /\ UNCHANGED <<outerVars, requestVars, panicking, response>>

MarshalFails ==
  /\ Fails("encode", InternalErrorWith, <<>>)
  /\ UNCHANGED <<outerVars, requestVars, panicking>>

WriteHeader ==
  /\ Goto("encode", "writing")
  /\ ctxStatus' = 200
  /\ headers' = headers + 1
  /\ response' = [status |-> 200, contentType |-> request.contentType, calls |-> calls]
  /\ UNCHANGED <<outerVars, hooks, requestVars, err, panicking>>

\* The body goes out, or part of it: then the Error hook is called although
\* the status was 200.
WriteBody ==
  /\ Goto("writing", "sent")
  /\ \E failed \in BOOLEAN :
       Calls(IF failed THEN <<"Error", "ResponseSent">> ELSE <<"ResponseSent">>)
  /\ UNCHANGED <<outerVars, requestVars, answerVars>>

\* Seeded fault: a failed write of the error calls the Error hook again.
ErrorHookTwice ==
  /\ Goto("failing", IF panicking THEN "panicked" ELSE "sent")
  /\ headers' = headers + 1
  /\ response' = WriteError(err)
  /\ \E failed \in BOOLEAN :
       Calls(IF failed THEN <<"Error", "ResponseSent">> ELSE <<"ResponseSent">>)
  /\ UNCHANGED <<outerVars, requestVars, err, ctxStatus, panicking>>

\* The rest of writeError.  Whether the body could be written is ignored.
\* After a panic the deferred function flushes and panics again.
SendError ==
  /\ Goto("failing", IF panicking THEN "panicked" ELSE "sent")
  /\ headers' = headers + 1
  /\ response' = WriteError(err)
  /\ Calls(<<"ResponseSent">>)
  /\ UNCHANGED <<outerVars, requestVars, err, ctxStatus, panicking>>

-----------------------------------------------------------------------------
\* Outside the handler nothing recovers: a hook that panics ends the request
\* where it was called, before anything was written.
HookPanics ==
  /\ \E from \in {"routing", "reading", "encode", "failing"} : Goto(from, "aborted")
  /\ UNCHANGED <<outerVars, hooks, requestVars, answerVars>>

\* So do the hooks called after the answer: here one of a success, the Error
\* hook, after which ResponseSent is not called, or ResponseSent.
HookPanicsAfterResult ==
  /\ Goto("writing", "aborted")
  /\ \E called \in {<<"Error">>, <<"ResponseSent">>, <<"Error", "ResponseSent">>} :
       Calls(called)
  /\ UNCHANGED <<outerVars, requestVars, answerVars>>

\* Here the ResponseSent hook of an error; a panic of the handler is lost.
HookPanicsAfterError ==
  /\ Goto("failing", "aborted")
  /\ headers' = headers + 1
  /\ response' = WriteError(err)
  /\ Calls(<<"ResponseSent">>)
  /\ UNCHANGED <<outerVars, requestVars, err, ctxStatus, panicking>>

HookPanic == HookPanics \/ HookPanicsAfterResult \/ HookPanicsAfterError

Handle ==
  \/ RequestReceivedOk \/ RequestReceivedFails \/ RouteNowhere \/ Route
  \/ RefuseEncoding \/ RequestRoutedOk \/ RequestRoutedFails
  \/ ReadFails \/ HandleRequestBodyError \/ RefuseProtobuf \/ Decode
  \/ CallService \/ ServiceReturns \/ HandlerSucceeds \/ HandlerFails
  \/ HandlerMistyped \/ HandlerReturnsNil \/ HandlerPanics
  \/ MarshalFails \/ WriteHeader \/ WriteBody \/ SendError

Next == Receive \/ ContextDone \/ ClientDone \/ Handle \/ HookPanic

\* Where the handler reads from the client or writes to it.
Waiting == {"reading", "failing", "writing"}

\* net/http runs ServeHTTP, hooks, interceptor and service end, one way or the
\* other.  Reads and writes have no deadline in this code: they are fair only
\* once the client does not stall.
Spec == Init /\ [][Next]_vars /\ WF_vars(Handle /\ (pc \in Waiting => ~stalled))

-----------------------------------------------------------------------------
Ended == pc \in {"sent", "panicked", "aborted"}

TypeOK ==
  /\ server \in ServerConfig
  /\ interceptor \in BOOLEAN
  /\ pc \in PC
  /\ request \in InputType \cup {None}
  /\ ctxErr \in {"none", "canceled", "deadline"}
  /\ doneAtRead \in {"none", "canceled", "deadline"}
  /\ calls \in 0..MaxCalls
  /\ handled \in Handled
  /\ err \in GoError \cup {None}
  /\ ctxStatus \in Nat \cup {None}
  /\ panicking \in BOOLEAN
  /\ headers \in 0..1
  /\ hooks \in Seq(Hook)
  /\ response \in ErrorResponse \cup SuccessResponse \cup {None}
  /\ stalled \in BOOLEAN

\* The ways through the hooks: an error before or after routing, a success
\* whose body may fail to go out, a result that cannot be marshalled.
Trail ==
  { <<"RequestReceived", "Error", "ResponseSent">>,
    <<"RequestReceived", "RequestRouted", "Error", "ResponseSent">>,
    <<"RequestReceived", "RequestRouted", "ResponsePrepared", "ResponseSent">>,
    <<"RequestReceived", "RequestRouted", "ResponsePrepared", "Error", "ResponseSent">> }

\* What is called of them before a hook panics that stands before ResponseSent.
Cut ==
  { <<"RequestReceived">>,
    <<"RequestReceived", "Error">>,
    <<"RequestReceived", "RequestRouted">>,
    <<"RequestReceived", "RequestRouted", "Error">>,
    <<"RequestReceived", "RequestRouted", "ResponsePrepared">>,
    <<"RequestReceived", "RequestRouted", "ResponsePrepared", "Error">> }

(***************************************************************************)
(* Whichever way a request ends that no hook's panic has ended, the hooks  *)
(* have been called in an order that pairs up: RequestReceived first,      *)
(* ResponseSent once and last, and the Error hook once at most, as the     *)
(* comment in writeError wants it, and always if the answer is an error;   *)
(* and the status code they saw in their context is the one written.       *)
(* After a hook's panic no hook is called: what it cut off stays cut off.  *)
(***************************************************************************)
HooksPairUp ==
  /\ pc \in {"sent", "panicked"} =>
       /\ hooks \in Trail
       /\ response.status # 200 => \E i \in DOMAIN hooks : hooks[i] = "Error"
       /\ response.status = 200 => \E i \in DOMAIN hooks : hooks[i] = "ResponsePrepared"
       /\ ctxStatus = response.status
  /\ pc = "aborted" => hooks \in Trail \cup Cut

(***************************************************************************)
(* A service or an interceptor that panics is answered before its panic    *)
(* goes on, with an internal error that says nothing of its cause; and     *)
(* its request does not end as if nothing had happened.  No request ends   *)
(* unanswered but by a hook's panic, before or in the Error hook; one that *)
(* got as far as ResponseSent has been answered.                           *)
(***************************************************************************)
PanicAnswered ==
  /\ pc = "panicked" => handled = "panic" /\ response = WriteError(InternalServicePanic)
  /\ Ended /\ handled = "panic" => pc \in {"panicked", "aborted"}
  /\ Ended /\ response = None => pc = "aborted" /\ hooks \notin Trail

(***************************************************************************)
(* A client whose body could not be read after it had gone away, or its    *)
(* deadline had passed, is not told that its message was malformed,        *)
(* whatever happens between the failure and the answer.                    *)
(***************************************************************************)
InterruptedIsNotMalformed ==
  response # None /\ doneAtRead # "none" =>
    response.body.code = (IF doneAtRead = "canceled" THEN "canceled" ELSE "deadline_exceeded")

(***************************************************************************)
(* The service runs only on a request that was routed to it and decoded,   *)
(* after both hooks have let it pass; and it is the one the caller named,  *)
(* in its package, whatever the prefixes and base URLs.                    *)
(***************************************************************************)
ServiceCalledFor ==
  calls > 0 =>
    /\ request.verb = "POST"
    /\ request.contentType # "other"
    /\ request.body = "valid"
    /\ SubSeq(hooks, 1, 2) = <<"RequestReceived", "RequestRouted">>
    /\ \A c \in Caller : request.path = PathOf(c) =>
         c.pkg = server.pkg /\ c.service = server.service /\ c.method \in server.methods

(***************************************************************************)
(* A caller whose prefix, package and service are the server's gets to it  *)
(* if, and only if, the prefix is written with one leading slash and no    *)
(* empty segment, the base URL having no path, and, for a caller in C++,   *)
(* the schema has a package: the client's path is cleaned and the server's *)
(* comparison is not, and only Go leaves out the dot of an empty package.  *)
(* What is refused is answered bad_route, which application code should    *)
(* not return; of an application that does, nothing is said.               *)
(***************************************************************************)
Alike(c) ==
  /\ c.base = <<Slash>> /\ c.prefix = server.prefix
  /\ c.pkg = server.pkg /\ c.service = server.service /\ c.method \in server.methods

Clean(c) ==
  /\ Joined(<<Slash>> \o Cleaned(c.prefix)) = c.prefix
  /\ c.language = "cpp" => c.pkg # Blank

MeetIffClean ==
  \A c \in Caller :
    /\ Alike(c)
    /\ request # None /\ request.verb = "POST" /\ request.contentType # "other"
    /\ request.path = PathOf(c)
    => /\ err = GoBadRouteError /\ GoBadRouteError \notin HookError \cup HandlerError
            => ~Clean(c)
       /\ Len(hooks) > 1 /\ hooks[2] = "RequestRouted" => Clean(c)

(***************************************************************************)
(* Every request the server has taken ends, whatever is returned, refused  *)
(* or raised on its way, but where it waits for a client that stalls: for  *)
(* its body, or for room to write the response.  The context's end does    *)
(* not help it there.                                                      *)
(***************************************************************************)
EveryRequestEnds == <>[](pc = "idle" \/ Ended \/ (stalled /\ pc \in Waiting))

-----------------------------------------------------------------------------
(***************************************************************************)
(* The server keeps the promise of Handling: the handler of the promise is *)
(* the service with its interceptor, the answer is given with the header,  *)
(* and a request is dropped by a hook's panic before that.                 *)
(***************************************************************************)
RunOf ==
  IF pc \in {"handler", "service"} THEN "running"
  ELSE IF handled = "none" THEN "none"
  ELSE IF handled = "result" THEN "succeeded" ELSE "failed"

AnswerOf ==
  IF pc = "idle" THEN "none"
  ELSE IF response = None THEN IF pc = "aborted" THEN "dropped" ELSE "pending"
  ELSE IF response.status = 200 THEN "success" ELSE "error"

Promised == INSTANCE Handling WITH run <- RunOf, answer <- AnswerOf

KeepsPromise == Promised!DroppingPromise
=============================================================================
