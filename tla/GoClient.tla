------------------------------ MODULE GoClient -----------------------------
(***************************************************************************)
(* The Go peer's client for one call: the stub's MakeHat of the generated  *)
(* example/golang/example/service.twirp.go, the interceptor around it,     *)
(* which may try the call several times, and doProtobufRequest and         *)
(* doJSONRequest for each attempt.                                         *)
(*                                                                         *)
(* A step is the code between two calls into code that is not generated.   *)
(* The caller's context may end between any two of them, and only that is  *)
(* certain to end a request that gets no answer.                           *)
(***************************************************************************)
EXTENDS GoErrors, Sequences

CONSTANTS
  MaxAttempts,  \* how often an interceptor makes the call
  HookError,    \* what RequestPrepared may return
  Answer,       \* what the HTTP client may get
  None          \* "not yet"

ASSUME GoClientAssumption ==
  /\ MaxAttempts \in Nat \ {0}
  /\ HookError \subseteq GoError \cup {PlainError}
  /\ Answer \subseteq [reply : ErrorResponse, result : {"message", "garbage"}]
  /\ None \notin Answer \cup GoError \cup {PlainError} /\ None # "result"

VARIABLES
  pc,           \* where the call is
  json,         \* is it the JSON client's
  interceptor,  \* is c.interceptor set
  ctxErr,       \* is ctx.Err() other than nil
  attempt,      \* how many attempts have begun
  doneAtStart,  \* history: ctxErr when the attempt began
  doneAtAnswer, \* history: ctxErr when its response came
  sent,         \* history: how many requests have been sent
  answer,       \* the response of the attempt
  body,         \* its body, as a resource
  err,          \* the error the attempt is returning, None for nil
  hooks,        \* the hooks called in the attempt
  returned      \* what the call returned to the application

historyVars == <<doneAtStart, doneAtAnswer, sent>>
callVars    == <<json, interceptor, attempt, returned>>
vars == <<pc, ctxErr, answer, body, err, hooks, historyVars, callVars>>

PC == {"idle", "interceptor", "marshal", "prepare", "do", "answered", "read",
       "unmarshal", "check", "close", "conclude", "returned"}

Hook == {"RequestPrepared", "ResponseReceived", "Error"}

\* wrapInternal; the code is all that is told apart.
WrapInternal == InternalErrorWith

Init ==
  /\ pc = "idle"
  /\ json \in BOOLEAN
  /\ interceptor \in BOOLEAN
  /\ ctxErr \in BOOLEAN
  /\ attempt = 0
  /\ doneAtStart = FALSE
  /\ doneAtAnswer = FALSE
  /\ sent = 0
  /\ answer = None
  /\ body = "none"
  /\ err = None
  /\ hooks = <<>>
  /\ returned = None

-----------------------------------------------------------------------------
Goto(from, to) == pc = from /\ pc' = to

\* An attempt fails before it has a response, ...
FailsEarly(from, goErr) == Goto(from, "conclude") /\ err' = goErr

\* ... or after, when the deferred function has a body to close.
Fails(from, goErr) == Goto(from, "close") /\ err' = goErr

ContextDone ==
  /\ pc # "returned"
  /\ ~ctxErr
  /\ ctxErr' = TRUE
  /\ UNCHANGED <<pc, answer, body, err, hooks, historyVars, callVars>>

\* The application calls the stub: without an interceptor, one attempt.
Call ==
  /\ Goto("idle", "interceptor")
  /\ UNCHANGED <<ctxErr, answer, body, err, hooks, historyVars, callVars>>

BeginAttempt ==
  /\ Goto("interceptor", "marshal")
  /\ attempt < (IF interceptor THEN MaxAttempts ELSE 1)
  /\ attempt' = attempt + 1
  /\ doneAtStart' = ctxErr
  /\ doneAtAnswer' = FALSE
  /\ answer' = None
  /\ body' = "none"
  /\ err' = None
  /\ hooks' = <<>>
  /\ UNCHANGED <<json, interceptor, returned, ctxErr, sent>>

\* proto.Marshal or protojson fails.
MarshalFails ==
  /\ FailsEarly("marshal", WrapInternal)
  /\ UNCHANGED <<ctxErr, answer, body, hooks, historyVars, callVars>>

\* Seeded fault: the context is not looked at before the request is made.
PrepareAlways ==
  /\ Goto("marshal", "prepare")
  /\ UNCHANGED <<ctxErr, answer, body, err, hooks, historyVars, callVars>>

\* The first look at the context.
Prepare ==
  /\ Goto("marshal", "prepare")
  /\ ~ctxErr
  /\ UNCHANGED <<ctxErr, answer, body, err, hooks, historyVars, callVars>>

AbortBeforeRequest ==
  /\ FailsEarly("marshal", WrapInternal)
  /\ ctxErr
  /\ UNCHANGED <<ctxErr, answer, body, hooks, historyVars, callVars>>

\* newRequest fails, on a base URL that is none.
NewRequestFails ==
  /\ FailsEarly("prepare", WrapInternal)
  /\ UNCHANGED <<ctxErr, answer, body, hooks, historyVars, callVars>>

\* The hook's error is returned as it is, a twirp.Error or not.
RequestPreparedFails ==
  /\ \E e \in HookError : FailsEarly("prepare", e)
  /\ hooks' = Append(hooks, "RequestPrepared")
  /\ UNCHANGED <<ctxErr, answer, body, historyVars, callVars>>

\* The hook passes and client.Do sends the request.
RequestPreparedOk ==
  /\ Goto("prepare", "do")
  /\ hooks' = Append(hooks, "RequestPrepared")
  /\ sent' = sent + 1
  /\ UNCHANGED <<ctxErr, answer, body, err, doneAtStart, doneAtAnswer, callVars>>

\* Seeded fault: the HTTP client follows a redirect, with a second request.
FollowRedirect ==
  /\ Goto("do", "answered")
  /\ \E first \in Answer, a \in Answer :
       /\ answer' = a
       /\ sent' = IF Redirect(first.reply.status) THEN sent + 1 ELSE sent
  /\ body' = "open"
  /\ doneAtAnswer' = ctxErr
  /\ UNCHANGED <<ctxErr, err, hooks, doneAtStart, callVars>>

\* A response comes; withoutRedirects keeps a redirect from being followed.
DoAnswers ==
  /\ Goto("do", "answered")
  /\ \E a \in Answer : answer' = a
  /\ body' = "open"
  /\ doneAtAnswer' = ctxErr
  /\ UNCHANGED <<ctxErr, err, hooks, doneAtStart, sent, callVars>>

\* Seeded fault: the request is made without the context.
DoFailsWithoutContext ==
  /\ FailsEarly("do", WrapInternal)
  /\ ~ctxErr
  /\ UNCHANGED <<ctxErr, answer, body, hooks, historyVars, callVars>>

\* The transport fails, as it does in the end when the context is done.
DoFails ==
  /\ FailsEarly("do", WrapInternal)
  /\ UNCHANGED <<ctxErr, answer, body, hooks, historyVars, callVars>>

-----------------------------------------------------------------------------
Accept ==
  /\ Goto("answered", "read")
  /\ ~ctxErr
  /\ answer.reply.status = 200
  /\ UNCHANGED <<ctxErr, answer, body, err, hooks, historyVars, callVars>>

AbortAfterAnswer ==
  /\ Fails("answered", WrapInternal)
  /\ ctxErr
  /\ UNCHANGED <<ctxErr, answer, body, hooks, historyVars, callVars>>

\* errorFromResponse; reading the body of an error may fail as well.
ErrorAnswer ==
  /\ ~ctxErr
  /\ \/ Fails("answered", ErrorFromResponse(answer.reply))
     \/ Fails("answered", WrapInternal) /\ ~Redirect(answer.reply.status)
  /\ answer.reply.status # 200
  /\ UNCHANGED <<ctxErr, answer, body, hooks, historyVars, callVars>>

\* ioutil.ReadAll, or d.Decode of the JSON client, which reads as it decodes.
Read ==
  /\ Goto("read", IF json THEN "unmarshal" ELSE "check")
  /\ UNCHANGED <<ctxErr, answer, body, err, hooks, historyVars, callVars>>

ReadFails ==
  /\ Fails("read", WrapInternal)
  /\ UNCHANGED <<ctxErr, answer, body, hooks, historyVars, callVars>>

\* The third look at the context: before proto.Unmarshal, after protojson.
CheckContext ==
  /\ ~ctxErr
  /\ IF json THEN Fails("check", None) ELSE Goto("check", "unmarshal") /\ UNCHANGED err
  /\ UNCHANGED <<ctxErr, answer, body, hooks, historyVars, callVars>>

AbortAfterRead ==
  /\ Fails("check", WrapInternal)
  /\ ctxErr
  /\ UNCHANGED <<ctxErr, answer, body, hooks, historyVars, callVars>>

Unmarshal ==
  /\ IF json THEN Goto("unmarshal", "check") /\ UNCHANGED err ELSE Fails("unmarshal", None)
  /\ answer.result = "message"
  /\ UNCHANGED <<ctxErr, answer, body, hooks, historyVars, callVars>>

UnmarshalFails ==
  /\ Fails("unmarshal", WrapInternal)
  /\ answer.result = "garbage"
  /\ UNCHANGED <<ctxErr, answer, body, hooks, historyVars, callVars>>

-----------------------------------------------------------------------------
\* Seeded fault: the body is closed on success only.
CloseOnSuccess ==
  /\ Goto("close", "conclude")
  /\ body' = IF err = None THEN "closed" ELSE body
  /\ UNCHANGED <<ctxErr, answer, err, hooks, historyVars, callVars>>

\* The deferred function: an error of Close counts if there is no other.
CloseBody ==
  /\ Goto("close", "conclude")
  /\ body' = "closed"
  /\ err' \in (IF err = None THEN {None, WrapInternal} ELSE {err})
  /\ UNCHANGED <<ctxErr, answer, hooks, historyVars, callVars>>

\* callMakeHat: the one hook or the other.
Conclude ==
  /\ Goto("conclude", "interceptor")
  /\ hooks' = Append(hooks, IF err = None THEN "ResponseReceived" ELSE "Error")
  /\ UNCHANGED <<ctxErr, answer, body, err, historyVars, callVars>>

\* The last attempt's outcome is the call's.  An interceptor may also return
\* without an attempt, with an error of its own.
Return ==
  /\ Goto("interceptor", "returned")
  /\ \/ /\ attempt > 0
        /\ returned' = IF err = None THEN "result" ELSE "error"
     \/ interceptor /\ returned' = "error"
  /\ UNCHANGED <<json, interceptor, attempt, ctxErr, answer, body, err, hooks, historyVars>>

\* What runs by itself, and what waits for the network.
Proceed ==
  \/ BeginAttempt \/ MarshalFails \/ Prepare \/ AbortBeforeRequest
  \/ NewRequestFails \/ RequestPreparedFails \/ RequestPreparedOk
  \/ Accept \/ AbortAfterAnswer \/ ErrorAnswer \/ CheckContext \/ AbortAfterRead
  \/ Unmarshal \/ UnmarshalFails \/ CloseBody \/ Conclude \/ Return

Network == DoAnswers \/ DoFails \/ Read \/ ReadFails

Next == Call \/ ContextDone \/ Proceed \/ Network

\* Nothing makes a server answer; a context that is done ends the waiting.
Spec == /\ Init /\ [][Next]_vars
        /\ WF_vars(Proceed)
        /\ WF_vars(ctxErr /\ (DoFails \/ ReadFails))

-----------------------------------------------------------------------------
TypeOK ==
  /\ pc \in PC
  /\ json \in BOOLEAN /\ interceptor \in BOOLEAN /\ ctxErr \in BOOLEAN
  /\ attempt \in 0..MaxAttempts
  /\ doneAtStart \in BOOLEAN /\ doneAtAnswer \in BOOLEAN
  /\ sent \in 0..attempt
  /\ answer \in Answer \cup {None}
  /\ body \in {"none", "open", "closed"}
  /\ err \in GoError \cup {PlainError, None}
  /\ hooks \in Seq(Hook)
  /\ returned \in {"result", "error", None}

(***************************************************************************)
(* However an attempt ends, it leaves the client ready for the next.  The  *)
(* hooks were told one verdict, never both or none, and the one of the     *)
(* outcome; the body of its response is closed, so that a client that      *)
(* tries again does not lose a connection each time; and a result is one   *)
(* that came with status 200, could be decoded, and came while the caller  *)
(* still waited.                                                           *)
(***************************************************************************)
OneVerdict ==
  hooks \in IF err = None THEN {<<"RequestPrepared", "ResponseReceived">>}
            ELSE {<<"Error">>, <<"RequestPrepared", "Error">>}

NoBodyLeft == body = (IF answer = None THEN "none" ELSE "closed")

ResultIsFresh ==
  err = None =>
    /\ answer # None
    /\ answer.reply.status = 200 /\ answer.result = "message"
    /\ ~doneAtAnswer

AttemptsConclude ==
  attempt > 0 /\ pc \in {"interceptor", "returned"} =>
    /\ OneVerdict /\ NoBodyLeft /\ ResultIsFresh
    /\ returned = "result" => err = None

(***************************************************************************)
(* An attempt that begins when its context is done sends nothing: trying   *)
(* again after the deadline does not run the method again.                 *)
(***************************************************************************)
NothingSentInVain ==
  [][sent' # sent => ~doneAtStart /\ sent' = sent + 1 /\ sent' <= attempt]_vars

\* Once its context is done the call comes back, whatever the network does.
DoneMeansReturned == pc # "idle" /\ ctxErr ~> pc = "returned"
=============================================================================
