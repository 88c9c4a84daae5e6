--------------------------- MODULE GoServerProofs --------------------------
(***************************************************************************)
(* Proofs about GoServer for every server, interceptor, hook, handler and  *)
(* request: its type invariant; the invariants about hooks, panics and     *)
(* interrupted requests; the promise of Handling; and which requests find  *)
(* the service, for paths of any length.                                   *)
(***************************************************************************)
EXTENDS GoServer, SequenceLemmas

\* The errors the generated code makes itself have codes the library knows.
LEMMA OwnGoErrors ==
  /\ InternalErrorWith \in GoError /\ InternalServicePanic \in GoError
  /\ MalformedRequestError \in GoError /\ GoBadRouteError \in GoError
  /\ \A code \in {"canceled", "deadline_exceeded", "internal"} : NewGoError(code, {}) \in GoError
BY GoErrorsAssumption DEF InternalErrorWith, InternalServicePanic, MalformedRequestError,
   GoBadRouteError, NewGoError, GoError, GoMark

\* No code of the library is the absent one, so that a plain error is not a
\* twirp.Error, ...
LEMMA PlainIsNoTwirpError ==
  /\ NoPayload \notin GoErrorCode
  /\ \A goErr \in GoError : goErr.code \in GoErrorCode /\ goErr # PlainError
BY GoErrorsAssumption, CodecAssumption DEF GoError, PlainError, NewGoError, WireCode

\* ... and becomes one before it is written.
LEMMA AsTwirpErrorType ==
  ASSUME NEW goErr \in GoError \cup {PlainError}
  PROVE  AsTwirpError(goErr) \in GoError
BY OwnGoErrors, PlainIsNoTwirpError DEF AsTwirpError, PlainError, NewGoError

\* A twirp.Error is written with its code and that code's HTTP status.
LEMMA WriteErrorWrites ==
  ASSUME NEW goErr \in GoError
  PROVE  /\ AsTwirpError(goErr) = goErr
         /\ WriteError(goErr) \in ErrorResponse
         /\ WriteError(goErr).status = GoHttpStatus[goErr.code]
         /\ GoHttpStatus[goErr.code] \in Nat \ {200}
         /\ WriteError(goErr).body.code = goErr.code
<1>1. AsTwirpError(goErr) = goErr /\ GoHttpStatus[goErr.code] \in Nat \ {200}
  BY PlainIsNoTwirpError, GoErrorsAssumption DEF AsTwirpError
<1>2. goErr.code \in WireCode
  BY GoErrorsAssumption DEF GoError
<1> QED
  BY <1>1, <1>2 DEF WriteError, GoError, ErrorResponse, ErrorBody, ContentType

\* The type invariant with what the steps need besides it: there is a request,
\* an error that is being written is a twirp.Error, and the header is written
\* once.
Typed ==
  /\ TypeOK
  /\ pc # "idle" => request \in InputType
  /\ pc = "failing" => err \in GoError
  /\ pc # "aborted" => headers = (IF pc \in {"writing", "sent", "panicked"} THEN 1 ELSE 0)

\* The errors of the application are errors, and the hooks are hooks.
LEMMA ApplicationErrors ==
  /\ \A e \in HookError : e \in GoError \cup {PlainError}
  /\ \A e \in HandlerError : e \in GoError \cup {PlainError}
BY GoServerAssumption

LEMMA HookSequences ==
  /\ <<>> \in Seq(Hook) /\ <<"RequestReceived">> \in Seq(Hook)
  /\ <<"RequestRouted">> \in Seq(Hook) /\ <<"ResponsePrepared">> \in Seq(Hook)
  /\ <<"Error">> \in Seq(Hook) /\ <<"ResponseSent">> \in Seq(Hook)
  /\ <<"Error", "ResponseSent">> \in Seq(Hook)
BY DEF Hook

\* So are those called when one panics after the result was written.
LEMMA LateHookSequences ==
  ASSUME HookPanicsAfterResult
  PROVE  \E called \in Seq(Hook) : hooks' = hooks \o called
BY HookSequences DEF HookPanicsAfterResult, Calls

\* writeError up to the Error hook.
LEMMA TypedFails ==
  ASSUME Typed, NEW from \in PC \ {"idle", "writing", "sent", "panicked", "aborted"},
         NEW e \in GoError \cup {PlainError},
         NEW called \in Seq(Hook), Fails(from, e, called),
         UNCHANGED <<server, interceptor, request, doneAtRead, calls, ctxErr, stalled>>,
         handled' \in Handled, panicking' \in BOOLEAN
  PROVE  Typed'
<1>1. /\ pc = from /\ pc' = "failing" /\ err' = AsTwirpError(e)
      /\ ctxStatus' = GoHttpStatus[AsTwirpError(e).code]
      /\ hooks' = hooks \o (called \o <<"Error">>)
      /\ headers' = headers /\ response' = response
  BY DEF Fails, Goto, Calls
<1>2. err' \in GoError
  BY <1>1, AsTwirpErrorType
<1>3. ctxStatus' \in Nat
  <2>1. AsTwirpError(e).code \in GoErrorCode
    BY AsTwirpErrorType, PlainIsNoTwirpError
  <2> QED
    BY <1>1, <2>1, GoErrorsAssumption
<1>4. hooks' \in Seq(Hook)
  <2>1. called \o <<"Error">> \in Seq(Hook)
    BY HookSequences, ConcatProperties
  <2> QED
    BY <1>1, <2>1, ConcatProperties DEF Typed, TypeOK
<1>5. pc' \in PC
  BY <1>1 DEF PC
<1> QED
  BY <1>1, <1>2, <1>3, <1>4, <1>5 DEF Typed, TypeOK

LEMMA TypedInit == Init => Typed
<1> SUFFICES ASSUME Init PROVE Typed
  OBVIOUS
<1>1. 0 \in 0..MaxCalls /\ 0 \in 0..1
  BY GoServerAssumption
<1>2. TypeOK
  BY <1>1, HookSequences, Zenon DEF Init, TypeOK, PC, Handled
<1> QED
  BY <1>2 DEF Init, Typed

LEMMA TypedNext == Typed /\ [Next]_vars => Typed'
<1> SUFFICES ASSUME Typed, [Next]_vars PROVE Typed'
  OBVIOUS
<1> USE DEF requestVars, answerVars, outerVars
<1>1. CASE Receive
  BY <1>1, GoServerAssumption DEF Receive, Goto, Typed, TypeOK, PC
<1>2. CASE ContextDone
  BY <1>2 DEF ContextDone, Typed, TypeOK
<1>3. CASE RequestReceivedOk
  <2>1. hooks' \in Seq(Hook)
    BY <1>3, HookSequences, ConcatProperties DEF RequestReceivedOk, Calls, Typed, TypeOK
  <2> QED
    BY <1>3, <2>1 DEF RequestReceivedOk, Goto, Typed, TypeOK, PC
<1>4. CASE RequestReceivedFails
  BY <1>4, TypedFails, ApplicationErrors, HookSequences
  DEF RequestReceivedFails, PC, Typed, TypeOK
<1>5. CASE RouteNowhere
  BY <1>5, TypedFails, OwnGoErrors, HookSequences DEF RouteNowhere, PC, Typed, TypeOK
<1>6. CASE Route
  BY <1>6 DEF Route, Goto, Typed, TypeOK, PC
<1>7. CASE RefuseEncoding
  BY <1>7, TypedFails, OwnGoErrors, HookSequences DEF RefuseEncoding, PC, Typed, TypeOK
<1>8. CASE RequestRoutedOk
  <2>1. hooks' \in Seq(Hook)
    BY <1>8, HookSequences, ConcatProperties DEF RequestRoutedOk, Calls, Typed, TypeOK
  <2> QED
    BY <1>8, <2>1 DEF RequestRoutedOk, Goto, Typed, TypeOK, PC
<1>9. CASE RequestRoutedFails
  BY <1>9, TypedFails, ApplicationErrors, HookSequences
  DEF RequestRoutedFails, PC, Typed, TypeOK
<1>10. CASE ReadFails
  BY <1>10 DEF ReadFails, Goto, Typed, TypeOK, PC
<1>11. CASE HandleRequestBodyError
  <2>1. PICK e \in GoError : Fails("unreadable", e, <<>>)
    BY <1>11, OwnGoErrors, Zenon DEF HandleRequestBodyError
  <2> QED
    BY <1>11, <2>1, TypedFails, HookSequences DEF HandleRequestBodyError, PC, Typed, TypeOK
<1>12. CASE RefuseProtobuf
  BY <1>12, TypedFails, OwnGoErrors, HookSequences DEF RefuseProtobuf, PC, Typed, TypeOK
<1>13. CASE Decode
  BY <1>13 DEF Decode, Goto, Typed, TypeOK, PC
<1>14. CASE CallService
  BY <1>14, GoServerAssumption DEF CallService, Goto, Typed, TypeOK, PC
<1>15. CASE ServiceReturns
  BY <1>15 DEF ServiceReturns, Goto, Typed, TypeOK, PC
<1>16. CASE HandlerSucceeds
  <2>1. hooks' \in Seq(Hook)
    BY <1>16, HookSequences, ConcatProperties DEF HandlerSucceeds, Calls, Typed, TypeOK
  <2> QED
    BY <1>16, <2>1 DEF HandlerSucceeds, HandlerEnds, Ends, Goto, Typed, TypeOK, PC, Handled
<1>17. CASE HandlerFails
  <2>1. PICK e \in HandlerError : Fails(HandlerEnds, e, <<>>)
    BY <1>17 DEF HandlerFails
  <2> QED
    BY <1>17, <2>1, TypedFails, ApplicationErrors, HookSequences
    DEF HandlerFails, HandlerEnds, Ends, PC, Handled, Typed, TypeOK
<1>18. CASE HandlerMistyped
  BY <1>18, TypedFails, OwnGoErrors, HookSequences
  DEF HandlerMistyped, Ends, PC, Handled, Typed, TypeOK
<1>19. CASE HandlerReturnsNil
  BY <1>19, TypedFails, OwnGoErrors, HookSequences
  DEF HandlerReturnsNil, HandlerEnds, Ends, PC, Handled, Typed, TypeOK
<1>20. CASE HandlerPanics
  <2>1. PICK from \in {"service", HandlerEnds} : Fails(from, InternalServicePanic, <<>>)
    BY <1>20 DEF HandlerPanics
  <2> QED
    BY <1>20, <2>1, TypedFails, OwnGoErrors, HookSequences
    DEF HandlerPanics, HandlerEnds, Ends, PC, Handled, Typed, TypeOK
<1>21. CASE MarshalFails
  BY <1>21, TypedFails, OwnGoErrors, HookSequences DEF MarshalFails, PC, Typed, TypeOK
<1>22. CASE WriteHeader
  <2>1. response' \in SuccessResponse
    BY <1>22 DEF WriteHeader, Goto, Typed, TypeOK, InputType, SuccessResponse
  <2>2. headers' = 1
    BY <1>22 DEF WriteHeader, Goto, Typed
  <2> QED
    BY <1>22, <2>1, <2>2 DEF WriteHeader, Goto, Typed, TypeOK, PC
<1>23. CASE WriteBody
  <2>1. hooks' \in Seq(Hook)
    BY <1>23, HookSequences, ConcatProperties DEF WriteBody, Calls, Typed, TypeOK
  <2> QED
    BY <1>23, <2>1 DEF WriteBody, Goto, Typed, TypeOK, PC
<1>24. CASE SendError
  <2>1. hooks' \in Seq(Hook)
    BY <1>24, HookSequences, ConcatProperties DEF SendError, Calls, Typed, TypeOK
  <2>2. response' \in ErrorResponse
    BY <1>24, WriteErrorWrites DEF SendError, Goto, Typed
  <2>3. headers' = 1
    BY <1>24 DEF SendError, Goto, Typed
  <2> QED
    BY <1>24, <2>1, <2>2, <2>3 DEF SendError, Goto, Typed, TypeOK, PC
<1>25. CASE UNCHANGED vars
  BY <1>25 DEF vars, Typed, TypeOK
<1>26. CASE ClientDone
  BY <1>26 DEF ClientDone, Typed, TypeOK
<1>27. CASE HookPanics
  BY <1>27 DEF HookPanics, Goto, Typed, TypeOK, PC
<1>28. CASE HookPanicsAfterResult
  <2>1. hooks' \in Seq(Hook)
    BY <1>28, LateHookSequences, ConcatProperties DEF Typed, TypeOK
  <2> QED
    BY <1>28, <2>1 DEF HookPanicsAfterResult, Goto, Typed, TypeOK, PC
<1>29. CASE HookPanicsAfterError
  <2>1. hooks' \in Seq(Hook)
    BY <1>29, HookSequences, ConcatProperties DEF HookPanicsAfterError, Calls, Typed, TypeOK
  <2>2. response' \in ErrorResponse
    BY <1>29, WriteErrorWrites DEF HookPanicsAfterError, Goto, Typed
  <2>3. headers' = 1
    BY <1>29 DEF HookPanicsAfterError, Goto, Typed
  <2> QED
    BY <1>29, <2>1, <2>2, <2>3 DEF HookPanicsAfterError, Goto, Typed, TypeOK, PC
<1> QED
  BY <1>1, <1>2, <1>3, <1>4, <1>5, <1>6, <1>7, <1>8, <1>9, <1>10, <1>11, <1>12, <1>13,
     <1>14, <1>15, <1>16, <1>17, <1>18, <1>19, <1>20, <1>21, <1>22, <1>23, <1>24, <1>25,
     <1>26, <1>27, <1>28, <1>29
  DEF Next, Handle, HookPanic

\* Every variable keeps to its type: what is sent as an error is a response
\* with a code of the library, and no response has its header written twice.
THEOREM GoServerTypeOK == Spec => []TypeOK
<1>1. Typed => TypeOK
  BY DEF Typed
<1> QED
  BY <1>1, TypedInit, TypedNext, PTL DEF Spec

-----------------------------------------------------------------------------
\* The trails of requests whose error has yet to be sent.
FailTrail ==
  { <<"RequestReceived", "Error">>,
    <<"RequestReceived", "RequestRouted", "Error">>,
    <<"RequestReceived", "RequestRouted", "ResponsePrepared", "Error">> }

\* A trail that is cut off has not come to its end.
LEMMA CutIsNoTrail ==
  /\ Cut \cap Trail = {} /\ FailTrail \subseteq Cut
<1>1. \A h \in Trail : h[Len(h)] = "ResponseSent"
  BY DEF Trail
<1>2. \A h \in Cut : h[Len(h)] # "ResponseSent"
  BY DEF Cut
<1>3. FailTrail \subseteq Cut
  BY DEF FailTrail, Cut
<1> QED
  BY <1>1, <1>2, <1>3

\* The hooks called on the way to each place, and what they were told.
HooksSoFar ==
  /\ pc \in {"idle", "received"} => hooks = <<>>
  /\ pc \in {"routing", "encoding"} => hooks = <<"RequestReceived">>
  /\ pc \in {"reading", "unreadable", "handler", "service"} =>
       hooks = <<"RequestReceived", "RequestRouted">>
  /\ pc \in {"encode", "writing"} =>
       hooks = <<"RequestReceived", "RequestRouted", "ResponsePrepared">>
  /\ pc = "failing" => hooks \in FailTrail /\ ctxStatus = GoHttpStatus[err.code]
  /\ pc = "writing" => response.status = 200 /\ ctxStatus = 200
  /\ HooksPairUp

\* writeError is given the hook that fails, or none.
FailsWith(from, called) ==
  \/ from = "received" /\ called = <<"RequestReceived">>
  \/ from \in {"routing", "encoding", "reading", "unreadable", "handler", "service",
              "encode"} /\ called = <<>>
  \/ from = "encoding" /\ called = <<"RequestRouted">>

\* Concatenations of short sequences, such as the steps put together.
LEMMA ShortConcats ==
  /\ \A s \in Seq(Hook) : <<>> \o s = s /\ s \o <<>> = s
  /\ \A a, b \in Hook : <<a>> \o <<b>> = <<a, b>>
  /\ \A a, b, c \in Hook : <<a, b>> \o <<c>> = <<a, b, c>>
  /\ \A a, b, c \in Hook : <<a>> \o <<b, c>> = <<a, b, c>>
  /\ \A a, b, c, d \in Hook : <<a, b, c>> \o <<d>> = <<a, b, c, d>>
  /\ \A a, b, c, d, e \in Hook : <<a, b, c>> \o <<d, e>> = <<a, b, c, d, e>>
  /\ \A a, b, c, d, e \in Hook : <<a, b, c, d>> \o <<e>> = <<a, b, c, d, e>>
<1>1. \A s \in Seq(Hook) : <<>> \o s = s /\ s \o <<>> = s
  BY ConcatEmptySeq
<1>2. ASSUME NEW a \in Hook, NEW b \in Hook PROVE <<a>> \o <<b>> = <<a, b>>
  <2> DEFINE s == <<a>> \o <<b>>
             t == <<a, b>>
  <2>1. s \in Seq(Hook) /\ t \in Seq(Hook)
    OBVIOUS
  <2>2. Len(s) = 2 /\ Len(t) = 2 /\ \A i \in 1..2 : s[i] = t[i]
    OBVIOUS
  <2> HIDE DEF s, t
  <2>3. s = t
    BY <2>1, <2>2, SeqEqual
  <2> QED
    BY <2>3 DEF s, t
<1>3. ASSUME NEW a \in Hook, NEW b \in Hook, NEW c \in Hook PROVE <<a, b>> \o <<c>> = <<a, b, c>>
  <2> DEFINE s == <<a, b>> \o <<c>>
             t == <<a, b, c>>
  <2>1. s \in Seq(Hook) /\ t \in Seq(Hook)
    OBVIOUS
  <2>2. Len(s) = 3 /\ Len(t) = 3 /\ \A i \in 1..3 : s[i] = t[i]
    OBVIOUS
  <2> HIDE DEF s, t
  <2>3. s = t
    BY <2>1, <2>2, SeqEqual
  <2> QED
    BY <2>3 DEF s, t
<1>4. ASSUME NEW a \in Hook, NEW b \in Hook, NEW c \in Hook, NEW d \in Hook PROVE <<a, b, c>> \o <<d>> = <<a, b, c, d>>
  <2> DEFINE s == <<a, b, c>> \o <<d>>
             t == <<a, b, c, d>>
  <2>1. s \in Seq(Hook) /\ t \in Seq(Hook)
    OBVIOUS
  <2>2. Len(s) = 4 /\ Len(t) = 4 /\ \A i \in 1..4 : s[i] = t[i]
    OBVIOUS
  <2> HIDE DEF s, t
  <2>3. s = t
    BY <2>1, <2>2, SeqEqual
  <2> QED
    BY <2>3 DEF s, t
<1>5. ASSUME NEW a \in Hook, NEW b \in Hook, NEW c \in Hook, NEW d \in Hook, NEW e \in Hook PROVE <<a, b, c>> \o <<d, e>> = <<a, b, c, d, e>>
  <2> DEFINE s == <<a, b, c>> \o <<d, e>>
             t == <<a, b, c, d, e>>
  <2>1. s \in Seq(Hook) /\ t \in Seq(Hook)
    OBVIOUS
  <2>2. Len(s) = 5 /\ Len(t) = 5 /\ \A i \in 1..5 : s[i] = t[i]
    OBVIOUS
  <2> HIDE DEF s, t
  <2>3. s = t
    BY <2>1, <2>2, SeqEqual
  <2> QED
    BY <2>3 DEF s, t
<1>6. ASSUME NEW a \in Hook, NEW b \in Hook, NEW c \in Hook, NEW d \in Hook, NEW e \in Hook PROVE <<a, b, c, d>> \o <<e>> = <<a, b, c, d, e>>
  <2> DEFINE s == <<a, b, c, d>> \o <<e>>
             t == <<a, b, c, d, e>>
  <2>1. s \in Seq(Hook) /\ t \in Seq(Hook)
    OBVIOUS
  <2>2. Len(s) = 5 /\ Len(t) = 5 /\ \A i \in 1..5 : s[i] = t[i]
    OBVIOUS
  <2> HIDE DEF s, t
  <2>3. s = t
    BY <2>1, <2>2, SeqEqual
  <2> QED
    BY <2>3 DEF s, t
<1>7. ASSUME NEW a \in Hook, NEW b \in Hook, NEW c \in Hook PROVE <<a>> \o <<b, c>> = <<a, b, c>>
  <2> DEFINE s == <<a>> \o <<b, c>>
             t == <<a, b, c>>
  <2>1. s \in Seq(Hook) /\ t \in Seq(Hook)
    OBVIOUS
  <2>2. Len(s) = 3 /\ Len(t) = 3 /\ \A i \in 1..3 : s[i] = t[i]
    OBVIOUS
  <2> HIDE DEF s, t
  <2>3. s = t
    BY <2>1, <2>2, SeqEqual
  <2> QED
    BY <2>3 DEF s, t
<1> QED
  BY <1>1, <1>2, <1>3, <1>4, <1>5, <1>6, <1>7

\* The ways through the hooks, step by step.
LEMMA Trails ==
  LET RR == "RequestReceived"
      RO == "RequestRouted"
      RP == "ResponsePrepared"
      ER == "Error"
      RS == "ResponseSent"
  IN  /\ \A h \in Hook : <<>> \o <<h>> = <<h>>
      /\ <<RR>> \o <<RO>> = <<RR, RO>>
      /\ <<RR, RO>> \o <<RP>> = <<RR, RO, RP>>
      /\ <<>> \o (<<RR>> \o <<ER>>) = <<RR, ER>>
      /\ <<RR>> \o (<<>> \o <<ER>>) = <<RR, ER>>
      /\ <<RR>> \o (<<RO>> \o <<ER>>) = <<RR, RO, ER>>
      /\ <<RR, RO>> \o (<<>> \o <<ER>>) = <<RR, RO, ER>>
      /\ <<RR, RO, RP>> \o (<<>> \o <<ER>>) = <<RR, RO, RP, ER>>
      /\ <<RR, RO, RP>> \o <<RS>> = <<RR, RO, RP, RS>>
      /\ <<RR, RO, RP>> \o <<ER, RS>> = <<RR, RO, RP, ER, RS>>
      /\ <<RR, ER>> \o <<RS>> = <<RR, ER, RS>>
      /\ <<RR, RO, ER>> \o <<RS>> = <<RR, RO, ER, RS>>
      /\ <<RR, RO, RP, ER>> \o <<RS>> = <<RR, RO, RP, ER, RS>>
<1> DEFINE RR == "RequestReceived"
           RO == "RequestRouted"
           RP == "ResponsePrepared"
           ER == "Error"
           RS == "ResponseSent"
<1>1. RR \in Hook /\ RO \in Hook /\ RP \in Hook /\ ER \in Hook /\ RS \in Hook
  BY DEF Hook
<1>2. \A h \in Hook : <<h>> \in Seq(Hook) /\ <<>> \o <<h>> = <<h>>
  BY ShortConcats
<1> HIDE DEF RR, RO, RP, ER, RS
<1>3. <<RR>> \o <<RO>> = <<RR, RO>> /\ <<RR>> \o <<ER>> = <<RR, ER>>
      /\ <<RO>> \o <<ER>> = <<RO, ER>>
  BY <1>1, ShortConcats
<1>4. <<RR, RO>> \o <<RP>> = <<RR, RO, RP>> /\ <<RR, RO>> \o <<ER>> = <<RR, RO, ER>>
      /\ <<RR, ER>> \o <<RS>> = <<RR, ER, RS>>
  BY <1>1, ShortConcats
<1>5. <<>> \o <<RR, ER>> = <<RR, ER>>
  <2>1. <<RR, ER>> \in Seq(Hook)
    BY <1>1
  <2> QED
    BY <2>1, ShortConcats
<1>6. <<RR>> \o <<RO, ER>> = <<RR, RO, ER>>
  BY <1>1, ShortConcats
<1>7. <<RR, RO, RP>> \o <<RS>> = <<RR, RO, RP, RS>>
      /\ <<RR, RO, RP>> \o <<ER>> = <<RR, RO, RP, ER>>
      /\ <<RR, RO, ER>> \o <<RS>> = <<RR, RO, ER, RS>>
  BY <1>1, ShortConcats
<1>8. <<RR, RO, RP>> \o <<ER, RS>> = <<RR, RO, RP, ER, RS>>
      /\ <<RR, RO, RP, ER>> \o <<RS>> = <<RR, RO, RP, ER, RS>>
  BY <1>1, ShortConcats
<1> QED
  BY <1>1, <1>2, <1>3, <1>4, <1>5, <1>6, <1>7, <1>8 DEF RR, RO, RP, ER, RS

\* writeError up to the Error hook leaves a trail that has it.
LEMMA HooksFail ==
  ASSUME Typed, HooksSoFar, NEW from, NEW e \in GoError \cup {PlainError}, NEW called,
         FailsWith(from, called), Fails(from, e, called)
  PROVE  HooksSoFar'
<1>1. /\ pc = from /\ pc' = "failing"
      /\ ctxStatus' = GoHttpStatus[err'.code]
      /\ hooks' = hooks \o (called \o <<"Error">>)
  BY DEF Fails, Goto, Calls
<1>2. CASE from = "received"
  <2>1. hooks = <<>> /\ called = <<"RequestReceived">>
    BY <1>1, <1>2 DEF HooksSoFar, FailsWith
  <2>2. hooks' = <<"RequestReceived", "Error">>
    BY <1>1, <2>1, Trails
  <2> QED
    BY <1>1, <2>2 DEF HooksSoFar, FailTrail, HooksPairUp, Ended
<1>3. CASE from \in {"routing", "encoding"} /\ called = <<>>
  <2>1. hooks = <<"RequestReceived">>
    BY <1>1, <1>3 DEF HooksSoFar
  <2>2. hooks' = <<"RequestReceived", "Error">>
    BY <1>1, <1>3, <2>1, Trails
  <2> QED
    BY <1>1, <2>2 DEF HooksSoFar, FailTrail, HooksPairUp, Ended
<1>4. CASE from = "encoding" /\ called = <<"RequestRouted">>
  <2>1. hooks = <<"RequestReceived">>
    BY <1>1, <1>4 DEF HooksSoFar
  <2>2. hooks' = <<"RequestReceived", "RequestRouted", "Error">>
    BY <1>1, <1>4, <2>1, Trails
  <2> QED
    BY <1>1, <2>2 DEF HooksSoFar, FailTrail, HooksPairUp, Ended
<1>5. CASE from \in {"reading", "unreadable", "handler", "service"}
  <2>1. hooks = <<"RequestReceived", "RequestRouted">> /\ called = <<>>
    BY <1>1, <1>5 DEF HooksSoFar, FailsWith
  <2>2. hooks' = <<"RequestReceived", "RequestRouted", "Error">>
    BY <1>1, <2>1, Trails
  <2> QED
    BY <1>1, <2>2 DEF HooksSoFar, FailTrail, HooksPairUp, Ended
<1>6. CASE from = "encode"
  <2>1. hooks = <<"RequestReceived", "RequestRouted", "ResponsePrepared">> /\ called = <<>>
    BY <1>1, <1>6 DEF HooksSoFar, FailsWith
  <2>2. hooks' = <<"RequestReceived", "RequestRouted", "ResponsePrepared", "Error">>
    BY <1>1, <2>1, Trails
  <2> QED
    BY <1>1, <2>2 DEF HooksSoFar, FailTrail, HooksPairUp, Ended
<1> QED
  BY <1>2, <1>3, <1>4, <1>5, <1>6 DEF FailsWith

\* The end of writeError: the trail is complete, and the hooks were told the
\* status of the response.
LEMMA HooksAnswered ==
  ASSUME Typed, HooksSoFar, SendError \/ HookPanicsAfterError
  PROVE  HooksSoFar'
<1>1. /\ pc = "failing" /\ pc' \in {"sent", "panicked", "aborted"} /\ ctxStatus' = ctxStatus
      /\ response' = WriteError(err) /\ hooks' = hooks \o <<"ResponseSent">>
  BY DEF SendError, HookPanicsAfterError, Goto, Calls
<1>2. /\ response'.status # 200 /\ response'.status = ctxStatus'
  BY <1>1, WriteErrorWrites DEF Typed, HooksSoFar
<1>3. hooks \in FailTrail
  BY <1>1 DEF HooksSoFar
<1>4. hooks' \in Trail /\ \E i \in DOMAIN hooks' : hooks'[i] = "Error"
  <2>1. CASE hooks = <<"RequestReceived", "Error">>
    <3>1. hooks' = <<"RequestReceived", "Error", "ResponseSent">>
      BY <1>1, <2>1, Trails
    <3> QED
      BY <3>1 DEF Trail
  <2>2. CASE hooks = <<"RequestReceived", "RequestRouted", "Error">>
    <3>1. hooks' = <<"RequestReceived", "RequestRouted", "Error", "ResponseSent">>
      BY <1>1, <2>2, Trails
    <3> QED
      BY <3>1 DEF Trail
  <2>3. CASE hooks = <<"RequestReceived", "RequestRouted", "ResponsePrepared", "Error">>
    <3>1. hooks' = <<"RequestReceived", "RequestRouted", "ResponsePrepared", "Error",
                     "ResponseSent">>
      BY <1>1, <2>3, Trails
    <3> QED
      BY <3>1 DEF Trail
  <2> QED
    BY <1>3, <2>1, <2>2, <2>3 DEF FailTrail
<1> QED
  BY <1>1, <1>2, <1>4 DEF HooksSoFar, HooksPairUp, Ended

LEMMA HooksNext == Typed /\ HooksSoFar /\ [Next]_vars => HooksSoFar'
<1> SUFFICES ASSUME Typed, HooksSoFar, [Next]_vars PROVE HooksSoFar'
  OBVIOUS
<1> USE DEF requestVars, answerVars, outerVars
<1>1. CASE Receive
  BY <1>1 DEF Receive, Goto, HooksSoFar, HooksPairUp, Ended
<1>2. CASE ContextDone
  BY <1>2 DEF ContextDone, HooksSoFar, HooksPairUp, Ended
<1>3. CASE RequestReceivedOk
  <2>1. hooks' = <<"RequestReceived">>
    BY <1>3, Trails DEF RequestReceivedOk, Goto, Calls, HooksSoFar, Hook
  <2> QED
    BY <1>3, <2>1 DEF RequestReceivedOk, Goto, HooksSoFar, HooksPairUp, Ended
<1>4. CASE RequestReceivedFails
  BY <1>4, HooksFail, ApplicationErrors DEF RequestReceivedFails, FailsWith
<1>5. CASE RouteNowhere
  BY <1>5, HooksFail, OwnGoErrors DEF RouteNowhere, FailsWith
<1>6. CASE Route
  BY <1>6 DEF Route, Goto, HooksSoFar, HooksPairUp, Ended
<1>7. CASE RefuseEncoding
  BY <1>7, HooksFail, OwnGoErrors DEF RefuseEncoding, FailsWith
<1>8. CASE RequestRoutedOk
  <2>1. hooks' = <<"RequestReceived", "RequestRouted">>
    BY <1>8, Trails DEF RequestRoutedOk, Goto, Calls, HooksSoFar
  <2> QED
    BY <1>8, <2>1 DEF RequestRoutedOk, Goto, HooksSoFar, HooksPairUp, Ended
<1>9. CASE RequestRoutedFails
  BY <1>9, HooksFail, ApplicationErrors DEF RequestRoutedFails, FailsWith
<1>10. CASE ReadFails
  BY <1>10 DEF ReadFails, Goto, HooksSoFar, HooksPairUp, Ended
<1>11. CASE HandleRequestBodyError
  <2>1. PICK e \in GoError : Fails("unreadable", e, <<>>)
    BY <1>11, OwnGoErrors, Zenon DEF HandleRequestBodyError
  <2> QED
    BY <2>1, HooksFail DEF FailsWith
<1>12. CASE RefuseProtobuf
  BY <1>12, HooksFail, OwnGoErrors DEF RefuseProtobuf, FailsWith
<1>13. CASE Decode
  BY <1>13 DEF Decode, Goto, HooksSoFar, HooksPairUp, Ended
<1>14. CASE CallService
  BY <1>14 DEF CallService, Goto, HooksSoFar, HooksPairUp, Ended
<1>15. CASE ServiceReturns
  BY <1>15 DEF ServiceReturns, Goto, HooksSoFar, HooksPairUp, Ended
<1>16. CASE HandlerSucceeds
  <2>1. hooks' = <<"RequestReceived", "RequestRouted", "ResponsePrepared">>
    BY <1>16, Trails DEF HandlerSucceeds, HandlerEnds, Goto, Calls, HooksSoFar
  <2> QED
    BY <1>16, <2>1 DEF HandlerSucceeds, Goto, HooksSoFar, HooksPairUp, Ended
<1>17. CASE HandlerFails
  <2>1. PICK e \in HandlerError : Fails(HandlerEnds, e, <<>>)
    BY <1>17 DEF HandlerFails
  <2> QED
    BY <2>1, HooksFail, ApplicationErrors DEF HandlerEnds, FailsWith
<1>18. CASE HandlerMistyped
  BY <1>18, HooksFail, OwnGoErrors DEF HandlerMistyped, FailsWith
<1>19. CASE HandlerReturnsNil
  BY <1>19, HooksFail, OwnGoErrors DEF HandlerReturnsNil, HandlerEnds, FailsWith
<1>20. CASE HandlerPanics
  <2>1. PICK from \in {"service", HandlerEnds} : Fails(from, InternalServicePanic, <<>>)
    BY <1>20 DEF HandlerPanics
  <2> QED
    BY <2>1, HooksFail, OwnGoErrors DEF HandlerEnds, FailsWith
<1>21. CASE MarshalFails
  BY <1>21, HooksFail, OwnGoErrors DEF MarshalFails, FailsWith
<1>22. CASE WriteHeader
  BY <1>22 DEF WriteHeader, Goto, HooksSoFar, HooksPairUp, Ended
<1>23. CASE WriteBody
  <2>1. /\ pc = "writing" /\ pc' = "sent" /\ response' = response /\ ctxStatus' = ctxStatus
        /\ hooks = <<"RequestReceived", "RequestRouted", "ResponsePrepared">>
        /\ response.status = 200 /\ ctxStatus = 200
    BY <1>23 DEF WriteBody, Goto, HooksSoFar
  <2>2. hooks' \in {hooks \o <<"Error", "ResponseSent">>, hooks \o <<"ResponseSent">>}
    BY <1>23 DEF WriteBody, Calls
  <2>3. hooks' \in
          {<<"RequestReceived", "RequestRouted", "ResponsePrepared", "ResponseSent">>,
           <<"RequestReceived", "RequestRouted", "ResponsePrepared", "Error", "ResponseSent">>}
    BY <2>1, <2>2, Trails
  <2>4. hooks' \in Trail /\ \E i \in DOMAIN hooks' : hooks'[i] = "ResponsePrepared"
    BY <2>3 DEF Trail
  <2> QED
    BY <2>1, <2>4 DEF HooksSoFar, HooksPairUp, Ended
<1>24. CASE SendError
  BY <1>24, HooksAnswered
<1>25. CASE UNCHANGED vars
  BY <1>25 DEF vars, HooksSoFar, HooksPairUp, Ended
<1>26. CASE ClientDone
  BY <1>26 DEF ClientDone, HooksSoFar, HooksPairUp
<1>27. CASE HookPanics
  <2>1. pc \in {"routing", "reading", "encode", "failing"} /\ pc' = "aborted" /\ hooks' = hooks
    BY <1>27 DEF HookPanics, Goto
  <2>2. hooks \in FailTrail \cup
                  {<<"RequestReceived">>, <<"RequestReceived", "RequestRouted">>,
                   <<"RequestReceived", "RequestRouted", "ResponsePrepared">>}
    BY <2>1 DEF HooksSoFar
  <2>3. hooks' \in Cut
    BY <2>1, <2>2, CutIsNoTrail DEF Cut
  <2> QED
    BY <2>1, <2>3 DEF HooksSoFar, HooksPairUp
<1>28. CASE HookPanicsAfterResult
  <2>1. /\ pc = "writing" /\ pc' = "aborted"
        /\ hooks = <<"RequestReceived", "RequestRouted", "ResponsePrepared">>
    BY <1>28 DEF HookPanicsAfterResult, Goto, HooksSoFar
  <2>2. hooks' \in {hooks \o <<"Error">>, hooks \o <<"Error", "ResponseSent">>,
                    hooks \o <<"ResponseSent">>}
    BY <1>28 DEF HookPanicsAfterResult, Calls
  <2>3. hooks \o <<"Error">> = <<"RequestReceived", "RequestRouted", "ResponsePrepared", "Error">>
    BY <2>1, ShortConcats DEF Hook
  <2>4. hooks' \in
          {<<"RequestReceived", "RequestRouted", "ResponsePrepared", "ResponseSent">>,
           <<"RequestReceived", "RequestRouted", "ResponsePrepared", "Error">>,
           <<"RequestReceived", "RequestRouted", "ResponsePrepared", "Error", "ResponseSent">>}
    BY <2>1, <2>2, <2>3, Trails
  <2>5. hooks' \in Trail \cup Cut
    BY <2>4 DEF Trail, Cut
  <2> QED
    BY <2>1, <2>5 DEF HooksSoFar, HooksPairUp
<1>29. CASE HookPanicsAfterError
  BY <1>29, HooksAnswered
<1> QED
  BY <1>1, <1>2, <1>3, <1>4, <1>5, <1>6, <1>7, <1>8, <1>9, <1>10, <1>11, <1>12, <1>13,
     <1>14, <1>15, <1>16, <1>17, <1>18, <1>19, <1>20, <1>21, <1>22, <1>23, <1>24, <1>25,
     <1>26, <1>27, <1>28, <1>29
  DEF Next, Handle, HookPanic

\* Every request that no hook's panic ends has its hooks called in pairs, the
\* Error hook once at most, and always for an error; the hooks saw the status that
\* was written.  A hook's panic cuts the trail off, and nothing is called after it.
THEOREM GoServerHooksPairUp == Spec => []HooksPairUp
<1>1. Init => HooksSoFar
  BY DEF Init, HooksSoFar, HooksPairUp, Ended
<1>2. HooksSoFar => HooksPairUp
  BY DEF HooksSoFar
<1> QED
  BY <1>1, <1>2, TypedInit, TypedNext, HooksNext, PTL DEF Spec

-----------------------------------------------------------------------------
\* What the handler has come to and whether there is a response, by place.
PromiseSoFar ==
  /\ pc \in {"idle", "received", "routing", "encoding", "reading", "unreadable",
            "handler", "service"} => handled = "none"
  /\ pc \in {"encode", "writing"} => handled = "result"
  /\ pc \notin {"writing", "sent", "panicked", "aborted"} => response = None
  /\ pc \in {"writing", "sent", "panicked"} => response # None
  /\ pc = "aborted" /\ hooks \in Trail => response # None

LEMMA PromiseNext == Typed /\ HooksSoFar /\ PromiseSoFar /\ [Next]_vars => PromiseSoFar'
<1> SUFFICES ASSUME Typed, HooksSoFar, PromiseSoFar, [Next]_vars PROVE PromiseSoFar'
  OBVIOUS
<1> USE DEF requestVars, answerVars, outerVars, Goto, PromiseSoFar
<1>1. CASE Receive \/ ContextDone \/ RequestReceivedOk \/ Route \/ RequestRoutedOk
           \/ ReadFails \/ Decode \/ CallService \/ ServiceReturns
  BY <1>1 DEF Receive, ContextDone, RequestReceivedOk, Route, RequestRoutedOk, ReadFails,
     Decode, CallService, ServiceReturns
<1>2. CASE RequestReceivedFails \/ RouteNowhere \/ RefuseEncoding \/ RequestRoutedFails
           \/ RefuseProtobuf \/ MarshalFails
  BY <1>2 DEF RequestReceivedFails, RouteNowhere, RefuseEncoding, RequestRoutedFails,
     RefuseProtobuf, MarshalFails, Fails
<1>3. CASE HandleRequestBodyError
  <2>1. PICK e \in GoError : Fails("unreadable", e, <<>>)
    BY <1>3, OwnGoErrors, Zenon DEF HandleRequestBodyError
  <2> QED
    BY <1>3, <2>1 DEF HandleRequestBodyError, Fails
<1>4. CASE HandlerSucceeds \/ HandlerFails \/ HandlerMistyped \/ HandlerReturnsNil
           \/ HandlerPanics
  BY <1>4 DEF HandlerSucceeds, HandlerFails, HandlerMistyped, HandlerReturnsNil,
     HandlerPanics, HandlerEnds, Ends, Fails
<1>5. CASE WriteHeader
  <2>1. response' \in SuccessResponse
    BY <1>5 DEF WriteHeader, Typed, TypeOK, InputType, SuccessResponse
  <2> QED
    BY <1>5, <2>1, GoServerAssumption DEF WriteHeader
<1>6. CASE WriteBody
  BY <1>6 DEF WriteBody
<1>7. CASE SendError
  <2>1. response' \in ErrorResponse
    BY <1>7, WriteErrorWrites DEF SendError, Typed
  <2> QED
    BY <1>7, <2>1, GoServerAssumption DEF SendError
<1>8. CASE UNCHANGED vars
  BY <1>8 DEF vars
<1>9. CASE ClientDone
  BY <1>9 DEF ClientDone
<1>10. CASE HookPanics
  <2>1. pc \in {"routing", "reading", "encode", "failing"} /\ pc' = "aborted" /\ hooks' = hooks
    BY <1>10 DEF HookPanics
  <2>2. hooks \in Cut
    BY <2>1, CutIsNoTrail DEF HooksSoFar, Cut
  <2>3. hooks' \notin Trail
    BY <2>1, <2>2, CutIsNoTrail
  <2> QED
    BY <2>1, <2>3
<1>11. CASE HookPanicsAfterResult
  BY <1>11 DEF HookPanicsAfterResult
<1>12. CASE HookPanicsAfterError
  <2>1. response' \in ErrorResponse
    BY <1>12, WriteErrorWrites DEF HookPanicsAfterError, Typed
  <2> QED
    BY <1>12, <2>1, GoServerAssumption DEF HookPanicsAfterError
<1> QED
  BY <1>1, <1>2, <1>3, <1>4, <1>5, <1>6, <1>7, <1>8, <1>9, <1>10, <1>11, <1>12
  DEF Next, Handle, HookPanic

-----------------------------------------------------------------------------
\* While a handler's panic is held back, its error is being written, and nothing
\* else is, unless a hook panics in its turn; once it goes on, that error has been
\* sent.
PanicSoFar ==
  /\ handled = "panic" <=> panicking = TRUE
  /\ panicking = TRUE => pc \in {"failing", "panicked", "aborted"} /\ err = InternalServicePanic
  /\ pc = "panicked" => panicking = TRUE /\ response = WriteError(InternalServicePanic)

LEMMA PanicNext == Typed /\ PanicSoFar /\ [Next]_vars => PanicSoFar'
<1> SUFFICES ASSUME Typed, PanicSoFar, [Next]_vars PROVE PanicSoFar'
  OBVIOUS
<1> USE DEF requestVars, answerVars, outerVars, Goto, PanicSoFar
<1>1. CASE Receive \/ ContextDone \/ ClientDone \/ RequestReceivedOk \/ Route \/ RequestRoutedOk
           \/ ReadFails \/ Decode \/ CallService \/ ServiceReturns
  BY <1>1 DEF Receive, ContextDone, ClientDone, RequestReceivedOk, Route, RequestRoutedOk, ReadFails,
     Decode, CallService, ServiceReturns
<1>2. CASE RequestReceivedFails \/ RouteNowhere \/ RefuseEncoding \/ RequestRoutedFails
           \/ RefuseProtobuf \/ MarshalFails
  BY <1>2 DEF RequestReceivedFails, RouteNowhere, RefuseEncoding, RequestRoutedFails,
     RefuseProtobuf, MarshalFails, Fails
<1>3. CASE HandleRequestBodyError
  <2>1. PICK e \in GoError : Fails("unreadable", e, <<>>)
    BY <1>3, OwnGoErrors, Zenon DEF HandleRequestBodyError
  <2> QED
    BY <1>3, <2>1 DEF HandleRequestBodyError, Fails
<1>4. CASE HandlerSucceeds \/ HandlerFails \/ HandlerMistyped \/ HandlerReturnsNil
  BY <1>4 DEF HandlerSucceeds, HandlerFails, HandlerMistyped, HandlerReturnsNil,
     HandlerEnds, Ends, Fails
<1>5. CASE HandlerPanics
  <2>1. AsTwirpError(InternalServicePanic) = InternalServicePanic
    BY OwnGoErrors, WriteErrorWrites
  <2> QED
    BY <1>5, <2>1 DEF HandlerPanics, Ends, Fails
<1>6. CASE WriteHeader \/ WriteBody
  BY <1>6 DEF WriteHeader, WriteBody
<1>7. CASE SendError
  BY <1>7 DEF SendError, Typed, TypeOK
<1>8. CASE UNCHANGED vars
  BY <1>8 DEF vars
<1>9. CASE HookPanic
  BY <1>9 DEF HookPanic, HookPanics, HookPanicsAfterResult, HookPanicsAfterError
<1> QED
  BY <1>1, <1>2, <1>3, <1>4, <1>5, <1>6, <1>7, <1>8, <1>9 DEF Next, Handle

\* A panic of the service or the interceptor goes on only when its internal error
\* has been written, and does, unless a hook panics in its turn; and nothing but a
\* hook's panic ends a request without an answer, and not in ResponseSent.
THEOREM GoServerPanicAnswered == Spec => []PanicAnswered
<1>1. Init => HooksSoFar /\ PromiseSoFar /\ PanicSoFar
  BY DEF Init, HooksSoFar, HooksPairUp, PromiseSoFar, PanicSoFar
<1>2. PromiseSoFar /\ PanicSoFar => PanicAnswered
  BY DEF PromiseSoFar, PanicSoFar, PanicAnswered, Ended
<1> QED
  BY <1>1, <1>2, TypedInit, TypedNext, HooksNext, PromiseNext, PanicNext, PTL DEF Spec

-----------------------------------------------------------------------------
\* What a request is answered with whose body could not be read in time.
Interruption(how) == IF how = "canceled" THEN "canceled" ELSE "deadline_exceeded"

\* The context stays done, so the answer is about what interrupted the reading.
InterruptedSoFar ==
  doneAtRead # "none" =>
    /\ pc \in {"unreadable", "failing", "sent", "aborted"}
    /\ panicking = FALSE
    /\ pc = "unreadable" => ctxErr = doneAtRead
    /\ pc = "failing" => err.code = Interruption(doneAtRead)
    /\ response # None => response.body.code = Interruption(doneAtRead)

LEMMA InterruptedNext ==
  Typed /\ PromiseSoFar /\ PanicSoFar /\ InterruptedSoFar /\ [Next]_vars => InterruptedSoFar'
<1> SUFFICES ASSUME Typed, PromiseSoFar, PanicSoFar, InterruptedSoFar, [Next]_vars
             PROVE  InterruptedSoFar'
  OBVIOUS
<1> USE DEF requestVars, answerVars, outerVars, Goto, InterruptedSoFar
<1>1. CASE Receive \/ ContextDone \/ ClientDone \/ RequestReceivedOk \/ Route \/ RequestRoutedOk
           \/ Decode \/ CallService \/ ServiceReturns
  BY <1>1 DEF Receive, ContextDone, ClientDone, RequestReceivedOk, Route, RequestRoutedOk,
     Decode, CallService, ServiceReturns, Typed, TypeOK
<1>2. CASE RequestReceivedFails \/ RouteNowhere \/ RefuseEncoding \/ RequestRoutedFails
           \/ RefuseProtobuf \/ MarshalFails
  BY <1>2 DEF RequestReceivedFails, RouteNowhere, RefuseEncoding, RequestRoutedFails,
     RefuseProtobuf, MarshalFails, Fails
<1>3. CASE ReadFails
  BY <1>3 DEF ReadFails, PromiseSoFar, PanicSoFar, Typed, TypeOK
<1>4. CASE HandleRequestBodyError
  <2> SUFFICES ASSUME doneAtRead # "none" PROVE InterruptedSoFar'
    BY <1>4 DEF HandleRequestBodyError
  <2>1. /\ pc = "unreadable" /\ ctxErr = doneAtRead /\ doneAtRead' = doneAtRead
        /\ doneAtRead \in {"canceled", "deadline"} /\ panicking' = FALSE
        /\ response' = None
    BY <1>4 DEF HandleRequestBodyError, Fails, PromiseSoFar, Typed, TypeOK
  <2>2. CASE ctxErr = "canceled"
    <3>1. Fails("unreadable", NewGoError("canceled", {}), <<>>)
      BY <1>4, <2>2, Zenon DEF HandleRequestBodyError
    <3>2. err' = NewGoError("canceled", {})
      BY <3>1, OwnGoErrors, WriteErrorWrites DEF Fails
    <3> QED
      BY <2>1, <2>2, <3>1, <3>2 DEF Fails, NewGoError, Interruption
  <2>3. CASE ctxErr = "deadline"
    <3>1. Fails("unreadable", NewGoError("deadline_exceeded", {}), <<>>)
      BY <1>4, <2>3 DEF HandleRequestBodyError
    <3>2. err' = NewGoError("deadline_exceeded", {})
      BY <3>1, OwnGoErrors, WriteErrorWrites DEF Fails
    <3> QED
      BY <2>1, <2>3, <3>1, <3>2 DEF Fails, NewGoError, Interruption
  <2> QED
    BY <2>1, <2>2, <2>3
<1>5. CASE HandlerSucceeds \/ HandlerFails \/ HandlerMistyped \/ HandlerReturnsNil
           \/ HandlerPanics
  BY <1>5 DEF HandlerSucceeds, HandlerFails, HandlerMistyped, HandlerReturnsNil,
     HandlerPanics, HandlerEnds, Ends, Fails
<1>6. CASE WriteHeader \/ WriteBody
  BY <1>6 DEF WriteHeader, WriteBody
<1>7. CASE SendError
  <2>1. pc = "failing" /\ response' = WriteError(err) /\ doneAtRead' = doneAtRead
        /\ panicking' = panicking /\ pc' = (IF panicking THEN "panicked" ELSE "sent")
    BY <1>7 DEF SendError
  <2>2. response'.body.code = err.code
    BY <2>1, WriteErrorWrites DEF Typed
  <2> QED
    BY <2>1, <2>2
<1>8. CASE UNCHANGED vars
  BY <1>8 DEF vars
<1>9. CASE HookPanics \/ HookPanicsAfterResult
  BY <1>9 DEF HookPanics, HookPanicsAfterResult
<1>10. CASE HookPanicsAfterError
  <2>1. pc = "failing" /\ response' = WriteError(err) /\ doneAtRead' = doneAtRead
        /\ panicking' = panicking /\ pc' = "aborted"
    BY <1>10 DEF HookPanicsAfterError
  <2>2. response'.body.code = err.code
    BY <2>1, WriteErrorWrites DEF Typed
  <2> QED
    BY <2>1, <2>2
<1> QED
  BY <1>1, <1>2, <1>3, <1>4, <1>5, <1>6, <1>7, <1>8, <1>9, <1>10 DEF Next, Handle, HookPanic

\* A client whose body could not be read after it had gone, or had run out of time,
\* is told that, and not that its message was malformed.
THEOREM GoServerInterrupted == Spec => []InterruptedIsNotMalformed
<1>1. Init => HooksSoFar /\ PromiseSoFar /\ PanicSoFar /\ InterruptedSoFar
  BY DEF Init, HooksSoFar, HooksPairUp, PromiseSoFar, PanicSoFar, InterruptedSoFar
<1>2. InterruptedSoFar => InterruptedIsNotMalformed
  BY DEF InterruptedSoFar, InterruptedIsNotMalformed, Interruption
<1> QED
  BY <1>1, <1>2, TypedInit, TypedNext, HooksNext, PromiseNext, PanicNext, InterruptedNext, PTL
  DEF Spec

-----------------------------------------------------------------------------
\* Each step of the server is a step of the promise, or does not concern it.
LEMMA PromiseSteps ==
  ASSUME Typed, HooksSoFar, PromiseSoFar, PromiseSoFar', [Next]_vars
  PROVE  [Promised!Next \/ Promised!Drop]_(Promised!vars)
<1> USE DEF requestVars, answerVars, outerVars, Goto, PromiseSoFar, RunOf, AnswerOf
<1>1. CASE Receive
  <2>1. Promised!Take
    BY <1>1 DEF Receive, Promised!Take
  <2> QED
    BY <2>1 DEF Promised!Next
<1>2. CASE ContextDone \/ ClientDone \/ RequestReceivedOk \/ Route \/ RequestRoutedOk \/ ReadFails
           \/ CallService \/ ServiceReturns
  BY <1>2 DEF ContextDone, ClientDone, RequestReceivedOk, Route, RequestRoutedOk, ReadFails,
     CallService, ServiceReturns, Promised!vars
<1>3. CASE RequestReceivedFails \/ RouteNowhere \/ RefuseEncoding \/ RequestRoutedFails
           \/ RefuseProtobuf \/ MarshalFails
  BY <1>3 DEF RequestReceivedFails, RouteNowhere, RefuseEncoding, RequestRoutedFails,
     RefuseProtobuf, MarshalFails, Fails, Promised!vars
<1>4. CASE HandleRequestBodyError
  <2>1. PICK e \in GoError : Fails("unreadable", e, <<>>)
    BY <1>4, OwnGoErrors, Zenon DEF HandleRequestBodyError
  <2> QED
    BY <1>4, <2>1 DEF HandleRequestBodyError, Fails, Promised!vars
<1>5. CASE Decode
  <2>1. Promised!Start
    BY <1>5 DEF Decode, Promised!Start
  <2> QED
    BY <2>1 DEF Promised!Next
<1>6. CASE HandlerSucceeds \/ HandlerFails \/ HandlerMistyped \/ HandlerReturnsNil
           \/ HandlerPanics
  <2>1. Promised!End
    BY <1>6 DEF HandlerSucceeds, HandlerFails, HandlerMistyped, HandlerReturnsNil,
       HandlerPanics, HandlerEnds, Ends, Fails, Promised!End
  <2> QED
    BY <2>1 DEF Promised!Next
<1>7. CASE WriteHeader
  <2>1. Promised!Succeed
    BY <1>7 DEF WriteHeader, Promised!Succeed
  <2> QED
    BY <2>1 DEF Promised!Next
<1>8. CASE WriteBody
  BY <1>8 DEF WriteBody, Promised!vars
<1>9. CASE SendError
  <2>1. response'.status # 200
    BY <1>9, WriteErrorWrites DEF SendError, Typed
  <2>2. Promised!Fail
    BY <1>9, <2>1 DEF SendError, Promised!Fail
  <2> QED
    BY <2>2 DEF Promised!Next
<1>10. CASE UNCHANGED vars
  BY <1>10 DEF vars, Promised!vars
<1>11. CASE HookPanics
  BY <1>11 DEF HookPanics, Promised!Drop
<1>12. CASE HookPanicsAfterResult
  BY <1>12 DEF HookPanicsAfterResult, Promised!vars
<1>13. CASE HookPanicsAfterError
  <2>1. response'.status # 200 /\ response' # None
    BY <1>13, WriteErrorWrites, GoServerAssumption DEF HookPanicsAfterError, Typed
  <2>2. Promised!Fail
    BY <1>13, <2>1 DEF HookPanicsAfterError, Promised!Fail
  <2> QED
    BY <2>2 DEF Promised!Next
<1> QED
  BY <1>1, <1>2, <1>3, <1>4, <1>5, <1>6, <1>7, <1>8, <1>9, <1>10, <1>11, <1>12, <1>13
  DEF Next, Handle, HookPanic

\* The Go server keeps the promise of Handling, whatever its hooks, interceptor and
\* service do, up to the requests a hook's panic drops.
THEOREM GoServerImplementsHandling == Spec => KeepsPromise
<1>1. Init => Promised!Init /\ HooksSoFar /\ PromiseSoFar
  BY DEF Init, Promised!Init, RunOf, AnswerOf, HooksSoFar, HooksPairUp, PromiseSoFar
<1>2. Typed /\ HooksSoFar /\ PromiseSoFar /\ PromiseSoFar' /\ [Next]_vars
      => [Promised!Next \/ Promised!Drop]_(Promised!vars)
  BY PromiseSteps
<1> QED
  BY <1>1, <1>2, TypedInit, TypedNext, HooksNext, PromiseNext, PTL
  DEF Spec, KeepsPromise, Promised!DroppingPromise

-----------------------------------------------------------------------------
(***************************************************************************)
(* Which requests are routed.  What the paths are made of:                 *)
(***************************************************************************)
AnyName    == STRING \cup {"twirp"}
AnySegment == Seq(AnyName)
AnyPath    == Seq(AnySegment)

LEMMA PathTypes ==
  /\ Segment \subseteq AnySegment /\ Seq(Segment) \subseteq AnyPath
  /\ Slash \in AnySegment /\ <<"twirp">> \in AnySegment
  /\ DefaultPrefix \in AnyPath /\ <<Slash>> \in AnyPath
<1>1. Segment \subseteq AnySegment
  BY SeqWider DEF Segment, AnySegment, AnyName
<1>2. Seq(Segment) \subseteq AnyPath
  BY <1>1, SeqWider DEF AnyPath
<1>3. Slash \in AnySegment /\ <<"twirp">> \in AnySegment
  <2>1. "twirp" \in AnyName
    BY DEF AnyName
  <2> QED
    BY <2>1, EmptySeq, OneElement DEF Slash, AnySegment
<1>4. DefaultPrefix \in AnyPath /\ <<Slash>> \in AnyPath
  BY <1>3 DEF DefaultPrefix, AnyPath
<1> QED
  BY <1>1, <1>2, <1>3, <1>4

\* What path.Join makes of a segment.
SegmentJoined == [x \in AnySegment |-> IF x = Slash THEN <<>> ELSE <<x>>]

LEMMA CleanedType ==
  ASSUME NEW path \in AnyPath
  PROVE  Cleaned(path) \in AnyPath
<1>1. Turns(SegmentJoined, AnySegment, AnyPath)
  <2>1. \A x \in AnySegment : <<x>> \in AnyPath /\ <<>> \in AnyPath
    BY EmptySeq DEF AnyPath
  <2> QED
    BY <2>1 DEF Turns, SegmentJoined
<1>2. /\ DOMAIN path = 1..Len(path)
      /\ \A i \in DOMAIN path : path[i] \in AnySegment
  BY LenProperties, ElementOfSeq DEF AnyPath
<1>3. Cleaned(path) = FlattenSeq(Each(SegmentJoined, path))
  BY <1>2 DEF Cleaned, Each, SegmentJoined
<1>4. Each(SegmentJoined, path) \in Seq(Seq(AnySegment))
  <2>1. path \in Seq(AnySegment) /\ Turns(SegmentJoined, AnySegment, Seq(AnySegment))
    BY <1>1 DEF AnyPath
  <2> QED
    BY <2>1, EachType
<1> QED
  BY <1>3, <1>4, FlattenAppend, EmptySeq DEF AnyPath

LEMMA CleanedDefault == Cleaned(DefaultPrefix) = <<<<"twirp">>>>
<1> DEFINE x     == <<"twirp">>
           parts == [i \in DOMAIN DefaultPrefix |->
                       IF DefaultPrefix[i] = Slash THEN <<>> ELSE <<DefaultPrefix[i]>>]
<1>1. x \in AnySegment /\ x # Slash
  BY PathTypes DEF Slash
<1>2. DefaultPrefix = <<Slash, x>>
  BY DEF DefaultPrefix
<1>3. Cleaned(DefaultPrefix) = FlattenSeq(parts)
  BY DEF Cleaned
<1> HIDE DEF x
<1>4. parts = <<<<>>, <<x>>>>
  BY <1>1, <1>2
<1>5. <<x>> \in Seq(AnySegment) /\ <<>> \in Seq(AnySegment)
  BY <1>1, EmptySeq
<1> HIDE DEF parts
<1> DEFINE none == <<>>
           one  == <<x>>
<1>6. parts = Append(<<none>>, one)
  BY <1>4
<1>7. <<none>> \in Seq(Seq(AnySegment)) /\ FlattenSeq(<<none>>) = none
  <2>1. none \in Seq(AnySegment)
    BY <1>5
  <2> HIDE DEF none
  <2> QED
    BY <2>1, FlattenOne, OneElement
<1>8. none \o one = one
  BY <1>5, ConcatEmptySeq
<1> HIDE DEF one, none
<1>9. FlattenSeq(parts) = none \o one
  BY <1>5, <1>6, <1>7, FlattenAppend DEF one
<1> QED
  BY <1>3, <1>8, <1>9 DEF one, x

\* parseTwirpPath takes the last two segments off.
LEMMA ParsedPath ==
  ASSUME NEW p \in AnyPath, NEW a \in AnySegment, NEW b \in AnySegment
  PROVE  ParseTwirpPath((p \o <<a>>) \o <<b>>) =
           [prefix |-> Joined(p), service |-> a, method |-> b]
<1> DEFINE path == (p \o <<a>>) \o <<b>>
           n    == Len(p)
           q    == Append(p, a)
           x    == SubSeq(path, 1, n)
<1>1. p \in Seq(AnySegment) /\ n \in Nat
  BY LenProperties DEF AnyPath
<1>2. q \in Seq(AnySegment) /\ Len(q) = n + 1 /\ q[n + 1] = a /\ \A i \in 1..n : q[i] = p[i]
  BY <1>1, AppendProperties
<1>3. path = Append(q, b)
  <2>1. q = p \o <<a>>
    BY <1>1, AppendIsConcat
  <2> HIDE DEF q
  <2>2. Append(q, b) = q \o <<b>>
    BY <1>2, AppendIsConcat
  <2> QED
    BY <2>1, <2>2
<1> HIDE DEF path, q
<1>4. /\ path \in Seq(AnySegment) /\ Len(path) = Len(q) + 1 /\ path[Len(q) + 1] = b
      /\ \A i \in 1..Len(q) : path[i] = q[i]
  BY <1>2, <1>3, AppendProperties
<1>5. /\ Len(path) = n + 2 /\ path[n + 2] = b /\ path[n + 1] = a
      /\ \A i \in 1..n : path[i] = p[i] /\ path[i] \in AnySegment
  <2>1. Len(q) + 1 = n + 2 /\ n + 1 \in 1..Len(q) /\ \A i \in 1..n : i \in 1..Len(q)
    BY <1>1, <1>2
  <2>2. \A i \in 1..n : p[i] \in AnySegment
    BY <1>1, ElementOfSeq
  <2> QED
    BY <1>2, <1>4, <2>1, <2>2
<1> HIDE DEF n
<1>6. x = p
  <2>1. /\ x \in Seq(AnySegment)
        /\ Len(x) = IF 1 <= n THEN n - 1 + 1 ELSE 0
        /\ \A i \in 1 .. n - 1 + 1 : x[i] = path[1 + i - 1]
    <3>1. 1 \in Int /\ n \in Int /\ \A i \in 1..n : path[i] \in AnySegment
      BY <1>1, <1>5
    <3> QED
      BY <1>4, <3>1, SubSeqProperties
  <2>2. Len(x) = n /\ \A i \in 1..n : x[i] = path[i]
    <3>1. n - 1 + 1 = n /\ \A i \in 1..n : 1 + i - 1 = i
      BY <1>1
    <3> QED
      BY <1>1, <2>1, <3>1
  <2> HIDE DEF x
  <2> QED
    BY <1>1, <1>5, <2>1, <2>2, SeqEqual DEF n
<1>7. ~(Len(path) < 2) /\ Len(path) - 2 = n /\ Len(path) - 1 = n + 1
  BY <1>1, <1>5
<1>8. ParseTwirpPath(path) =
        IF Len(path) < 2 THEN [prefix |-> <<Slash>>, service |-> Slash, method |-> Slash]
        ELSE [prefix  |-> Joined(SubSeq(path, 1, Len(path) - 2)),
              service |-> path[Len(path) - 1],
              method  |-> path[Len(path)]]
  BY DEF ParseTwirpPath
<1>9. ParseTwirpPath(path) = [prefix |-> Joined(x), service |-> path[n + 1], method |-> path[n + 2]]
  BY <1>5, <1>7, <1>8
<1> QED
  BY <1>5, <1>6, <1>9 DEF path

\* What stands before the service's name in the path of a caller, and the name.
Before(c) == IF c.language = "cpp" THEN DefaultPrefix ELSE c.base \o Cleaned(c.prefix)

NameIn(c) ==
  IF c.language = "cpp" THEN CppServiceName(c.pkg, c.service) ELSE GoServiceName(c.pkg, c.service)

LEMMA CallerTypes ==
  ASSUME NEW c \in Caller
  PROVE  /\ c.language \in {"cpp", "go"}
         /\ c.base \in AnyPath /\ c.prefix \in AnyPath
         /\ c.pkg \in STRING /\ c.service \in STRING /\ c.method \in STRING
         /\ c.language = "cpp" => c.prefix = DefaultPrefix /\ c.base = <<Slash>>
         /\ Before(c) \in AnyPath /\ NameIn(c) \in AnySegment /\ <<c.method>> \in AnySegment
<1>1. c \in CallerType /\ (c.language = "cpp" => c.prefix = DefaultPrefix /\ c.base = <<Slash>>)
  BY GoServerAssumption
<1>2. /\ c.language \in {"cpp", "go"} /\ c.base \in Seq(Segment) /\ c.prefix \in Seq(Segment)
      /\ c.pkg \in STRING /\ c.service \in STRING /\ c.method \in STRING
  BY <1>1 DEF CallerType
<1>3. c.base \in AnyPath /\ c.prefix \in AnyPath
  BY <1>2, PathTypes
<1>4. Cleaned(c.prefix) \in AnyPath
  BY <1>3, CleanedType
<1>5. c.base \o Cleaned(c.prefix) \in AnyPath
  BY <1>3, <1>4, ConcatProperties DEF AnyPath
<1>6. NameIn(c) \in AnySegment /\ <<c.method>> \in AnySegment
  <2>1. NameIn(c) \in Segment /\ <<c.method>> \in Segment
    <3> DEFINE short == <<c.service>>
               long  == <<c.pkg, c.service>>
    <3>1. short \in Segment /\ long \in Segment /\ <<c.method>> \in Segment
      BY <1>2 DEF Segment
    <3>2. NameIn(c) = short \/ NameIn(c) = long
      BY DEF NameIn, GoServiceName, CppServiceName
    <3> HIDE DEF short, long
    <3> QED
      BY <3>1, <3>2
  <2> QED
    BY <2>1, PathTypes
<1> QED
  BY <1>1, <1>2, <1>3, <1>5, <1>6, PathTypes DEF Before

LEMMA PathParts ==
  ASSUME NEW c \in Caller
  PROVE  PathOf(c) = (Before(c) \o <<NameIn(c)>>) \o <<<<c.method>>>>
<1>1. CASE c.language = "cpp"
  BY <1>1 DEF PathOf, CppPath, Before, NameIn
<1>2. CASE c.language # "cpp"
  <2> DEFINE base    == c.base
             cleaned == Cleaned(c.prefix)
             name    == NameIn(c)
             rest    == cleaned \o <<name>>
  <2>1. NameIn(c) = GoServiceName(c.pkg, c.service)
    BY <1>2 DEF NameIn
  <2>2. PathOf(c) = (base \o Tail((<<Slash>> \o cleaned) \o <<name>>)) \o <<<<c.method>>>>
    BY <1>2, <2>1 DEF PathOf, GoPath, BaseServicePath
  <2>3. base \in Seq(AnySegment) /\ cleaned \in Seq(AnySegment) /\ name \in AnySegment
    BY CallerTypes, CleanedType DEF AnyPath
  <2>4. Before(c) = base \o cleaned
    BY <1>2 DEF Before
  <2> HIDE DEF base, cleaned, name
  <2> DEFINE first == <<Slash>>
             last  == <<name>>
             all   == first \o rest
  <2>5. first \in Seq(AnySegment) /\ last \in Seq(AnySegment) /\ Len(first) = 1
    BY <2>3, PathTypes
  <2>6. rest \in Seq(AnySegment) /\ Len(rest) \in Nat
    BY <2>3, <2>5, ConcatProperties, LenProperties
  <2>7. all = (first \o cleaned) \o last
    <3> HIDE DEF first, last
    <3> QED
      BY <2>3, <2>5, ConcatAssociative DEF last
  <2>8. base \o rest = (base \o cleaned) \o last
    <3> HIDE DEF last
    <3> QED
      BY <2>3, <2>5, ConcatAssociative DEF last
  <2> HIDE DEF first, rest
  <2>9. Tail(all) = rest
    <3>1. /\ all \in Seq(AnySegment) /\ Len(all) = Len(first) + Len(rest)
          /\ \A i \in 1..(Len(first) + Len(rest)) :
               all[i] = IF i <= Len(first) THEN first[i] ELSE rest[i - Len(first)]
      BY <2>5, <2>6, ConcatProperties
    <3> HIDE DEF all
    <3>2. /\ Len(all) = 1 + Len(rest)
          /\ \A i \in 1..(1 + Len(rest)) : all[i] = IF i <= 1 THEN first[i] ELSE rest[i - 1]
      BY <2>5, <3>1
    <3>3. all # <<>>
      BY <2>6, <3>1, <3>2, EmptySeq
    <3>4. /\ Tail(all) \in Seq(AnySegment) /\ Len(Tail(all)) = Len(all) - 1
          /\ \A i \in 1..Len(Tail(all)) : Tail(all)[i] = all[i + 1]
      BY <3>1, <3>3, HeadTailProperties
    <3>5. Len(Tail(all)) = Len(rest)
      BY <2>6, <3>2, <3>4
    <3>6. ASSUME NEW i \in 1..Len(rest) PROVE Tail(all)[i] = rest[i]
      <4>1. i + 1 \in 1..(1 + Len(rest)) /\ ~(i + 1 <= 1) /\ (i + 1) - 1 = i
        BY <2>6
      <4>2. Tail(all)[i] = all[i + 1]
        BY <3>4, <3>5
      <4> QED
        BY <3>2, <4>1, <4>2
    <3> QED
      BY <2>6, <3>4, <3>5, <3>6, SeqEqual
  <2> QED
    BY <2>2, <2>4, <2>7, <2>8, <2>9 DEF first, name
<1> QED
  BY <1>1, <1>2

\* The names of two services differ, a C++ name of a schema without a package
\* being none of Go's.
LEMMA NamesDiffer ==
  ASSUME NEW c \in Caller, NEW pkg, NEW service
  PROVE  NameIn(c) = GoServiceName(pkg, service)
           <=> /\ c.pkg = pkg /\ c.service = service
               /\ c.language = "cpp" => pkg # Blank
BY DEF NameIn, GoServiceName, CppServiceName

\* A caller's request is routed if the service is the one it names and what
\* stands before the name is the server's prefix.
LEMMA RoutedOfCaller ==
  ASSUME NEW c \in Caller, request.path = PathOf(c)
  PROVE  Routed(request)
           <=> /\ request.verb = "POST"
               /\ c.pkg = server.pkg /\ c.service = server.service
               /\ c.language = "cpp" => server.pkg # Blank
               /\ Joined(Before(c)) = server.prefix
               /\ c.method \in server.methods
<1> DEFINE parsed == ParseTwirpPath(request.path)
<1>1. parsed = [prefix |-> Joined(Before(c)), service |-> NameIn(c), method |-> <<c.method>>]
  <2> DEFINE method == <<c.method>>
  <2>1. Before(c) \in AnyPath /\ NameIn(c) \in AnySegment /\ method \in AnySegment
    BY CallerTypes
  <2>2. request.path = (Before(c) \o <<NameIn(c)>>) \o <<method>>
    BY PathParts
  <2> HIDE DEF method
  <2>3. parsed = [prefix |-> Joined(Before(c)), service |-> NameIn(c), method |-> method]
    BY <2>1, <2>2, ParsedPath
  <2> QED
    BY <2>3 DEF method
<1>2. Routed(request)
        <=> /\ request.verb = "POST"
            /\ parsed.service = GoServiceName(server.pkg, server.service)
            /\ parsed.prefix = server.prefix
            /\ \E m \in server.methods : parsed.method = <<m>>
  BY DEF Routed
<1> HIDE DEF parsed
<1>3. parsed.prefix = Joined(Before(c)) /\ parsed.service = NameIn(c) /\ parsed.method = <<c.method>>
  BY <1>1
<1>4. (\E m \in server.methods : parsed.method = <<m>>) <=> c.method \in server.methods
  BY <1>3
<1>5. parsed.service = GoServiceName(server.pkg, server.service)
        <=> /\ c.pkg = server.pkg /\ c.service = server.service
            /\ c.language = "cpp" => server.pkg # Blank
  BY <1>3, NamesDiffer
<1> QED
  BY <1>2, <1>3, <1>4, <1>5

\* Of callers like the server those are routed whose prefix is clean.
LEMMA RoutedIffClean ==
  ASSUME NEW c \in Caller, request.path = PathOf(c), request.verb = "POST", Alike(c)
  PROVE  Routed(request) <=> Clean(c)
<1>1. /\ c.base = <<Slash>> /\ c.prefix = server.prefix
      /\ c.pkg = server.pkg /\ c.service = server.service /\ c.method \in server.methods
  BY DEF Alike
<1>2. Routed(request) <=> (c.language = "cpp" => c.pkg # Blank) /\ Joined(Before(c)) = c.prefix
  BY <1>1, RoutedOfCaller
<1>3. Joined(Before(c)) = Joined(<<Slash>> \o Cleaned(c.prefix))
  <2>1. CASE c.language = "cpp"
    <3> DEFINE x == <<"twirp">>
    <3>1. c.prefix = DefaultPrefix /\ Before(c) = DefaultPrefix
      BY <2>1, CallerTypes DEF Before
    <3>2. Cleaned(c.prefix) = <<x>>
      BY <3>1, CleanedDefault
    <3>3. DefaultPrefix = <<Slash, x>> /\ x \in AnySegment /\ Slash \in AnySegment
      BY PathTypes DEF DefaultPrefix
    <3> HIDE DEF x
    <3>4. <<Slash>> \o <<x>> = <<Slash, x>>
      <4> DEFINE y == Slash
      <4>1. y \in AnySegment /\ x \in AnySegment
        BY <3>3
      <4> HIDE DEF y
      <4> DEFINE both == <<y>> \o <<x>>
                 pair == <<y, x>>
      <4>2. both \in Seq(AnySegment) /\ pair \in Seq(AnySegment)
        BY <4>1
      <4>3. Len(both) = 2 /\ Len(pair) = 2 /\ \A i \in 1..2 : both[i] = pair[i]
        BY <4>1
      <4> HIDE DEF both, pair
      <4>4. both = pair
        BY <4>2, <4>3, SeqEqual
      <4> QED
        BY <4>4 DEF both, pair, y
    <3> QED
      BY <3>1, <3>2, <3>3, <3>4
  <2>2. CASE c.language # "cpp"
    BY <1>1, <2>2 DEF Before
  <2> QED
    BY <2>1, <2>2
<1> QED
  BY <1>1, <1>2, <1>3 DEF Clean

-----------------------------------------------------------------------------
\* Every step calls hooks, or none, after those that have been called.
LEMMA HooksGrow ==
  ASSUME Typed, [Next]_vars
  PROVE  \E called \in Seq(Hook) : hooks' = hooks \o called
<1> USE DEF requestVars, answerVars, outerVars
<1>1. CASE UNCHANGED hooks
  <2>1. hooks' = hooks \o <<>> /\ <<>> \in Seq(Hook)
    BY <1>1, ConcatEmptySeq, HookSequences DEF Typed, TypeOK
  <2> QED
    BY <2>1
<1>2. ASSUME NEW from, NEW goErr, NEW called \in Seq(Hook), Fails(from, goErr, called)
      PROVE  \E all \in Seq(Hook) : hooks' = hooks \o all
  <2>1. called \o <<"Error">> \in Seq(Hook) /\ hooks' = hooks \o (called \o <<"Error">>)
    BY <1>2, HookSequences, ConcatProperties DEF Fails, Calls
  <2> QED
    BY <2>1
<1>3. CASE Receive \/ ContextDone \/ ClientDone \/ Route \/ ReadFails \/ Decode
           \/ CallService \/ ServiceReturns \/ WriteHeader \/ HookPanics
  BY <1>1, <1>3 DEF Receive, ContextDone, ClientDone, Route, ReadFails, Decode, CallService,
     ServiceReturns, WriteHeader, HookPanics
<1>4. CASE RequestReceivedFails \/ RouteNowhere \/ RefuseEncoding \/ RequestRoutedFails
           \/ RefuseProtobuf \/ MarshalFails \/ HandleRequestBodyError
  BY <1>2, <1>4, HookSequences
  DEF RequestReceivedFails, RouteNowhere, RefuseEncoding, RequestRoutedFails,
      RefuseProtobuf, MarshalFails, HandleRequestBodyError
<1>5. CASE HandlerFails \/ HandlerMistyped \/ HandlerReturnsNil \/ HandlerPanics
  BY <1>2, <1>5, HookSequences
  DEF HandlerFails, HandlerMistyped, HandlerReturnsNil, HandlerPanics
<1>6. CASE RequestReceivedOk \/ RequestRoutedOk \/ HandlerSucceeds \/ SendError
           \/ HookPanicsAfterError
  BY <1>6, HookSequences DEF RequestReceivedOk, RequestRoutedOk, HandlerSucceeds, SendError,
     HookPanicsAfterError, Calls
<1>7. CASE WriteBody
  BY <1>7, HookSequences DEF WriteBody, Calls
<1>8. CASE UNCHANGED vars
  BY <1>1, <1>8 DEF vars
<1> QED
  BY <1>3, <1>4, <1>5, <1>6, <1>7, <1>8, LateHookSequences DEF Next, Handle, HookPanic

\* The RequestRouted hook has been called, as it is when routing is done.
Invited == Len(hooks) > 1 /\ hooks[1] = "RequestReceived" /\ hooks[2] = "RequestRouted"

LEMMA FirstHooksStay ==
  ASSUME Typed, [Next]_vars, Len(hooks) > 1
  PROVE  Len(hooks') > 1 /\ hooks'[1] = hooks[1] /\ hooks'[2] = hooks[2]
<1>1. PICK called \in Seq(Hook) : hooks' = hooks \o called
  BY HooksGrow
<1>2. hooks \in Seq(Hook) /\ Len(hooks) \in Nat /\ Len(called) \in Nat
  BY LenProperties DEF Typed, TypeOK
<1>3. /\ Len(hooks') = Len(hooks) + Len(called)
      /\ \A i \in 1..(Len(hooks) + Len(called)) :
           hooks'[i] = IF i <= Len(hooks) THEN hooks[i] ELSE called[i - Len(hooks)]
  BY <1>1, <1>2, ConcatProperties
<1>4. 1 \in 1..(Len(hooks) + Len(called)) /\ 2 \in 1..(Len(hooks) + Len(called))
  BY <1>2
<1> QED
  BY <1>2, <1>3, <1>4

-----------------------------------------------------------------------------
\* What is known of the request at each place.
PlacesSoFar ==
  /\ pc \in {"encoding", "reading", "unreadable", "handler", "service", "encode", "writing"}
       => Routed(request)
  /\ pc \in {"reading", "unreadable", "handler", "service", "encode", "writing"}
       => request.contentType # "other"
  /\ pc \in {"handler", "service", "encode", "writing"} => request.body = "valid"

\* ... and, wherever the request has got to, from its hooks and the calls.
Deserved ==
  Routed(request) /\ request.contentType # "other" /\ request.body = "valid"

CallsSoFar ==
  /\ Len(hooks) > 1 /\ hooks[2] = "RequestRouted" => Routed(request)
  /\ calls > 0 => Deserved /\ Invited

\* Neither the request nor the server changes while the request is handled.
LEMMA SameRequest ==
  ASSUME [Next]_vars, pc # "idle"
  PROVE  /\ request' = request /\ server' = server
         /\ Routed(request)' <=> Routed(request)
         /\ Deserved' <=> Deserved
<1>1. request' = request /\ server' = server
  BY DEF Next, Handle, HookPanic, HookPanics, HookPanicsAfterResult,
     HookPanicsAfterError, ClientDone, outerVars, requestVars, vars, Receive, ContextDone, RequestReceivedOk,
     RequestReceivedFails, RouteNowhere, Route, RefuseEncoding, RequestRoutedOk,
     RequestRoutedFails, ReadFails, HandleRequestBodyError, RefuseProtobuf, Decode,
     CallService, ServiceReturns, HandlerSucceeds, HandlerFails, HandlerMistyped,
     HandlerReturnsNil, HandlerPanics, MarshalFails, WriteHeader, WriteBody, SendError,
     Goto, Ends
<1>2. Routed(request)' <=> Routed(request)
  BY <1>1 DEF Routed
<1> QED
  BY <1>1, <1>2 DEF Deserved

LEMMA PlacesNext == Typed /\ PlacesSoFar /\ [Next]_vars => PlacesSoFar'
<1> SUFFICES ASSUME Typed, PlacesSoFar, [Next]_vars PROVE PlacesSoFar'
  OBVIOUS
<1> DEFINE Passed == Routed(request)
<1>1. pc # "idle" => request' = request /\ (Passed' <=> Passed)
  BY SameRequest
<1>2. /\ pc \in {"encoding", "reading", "unreadable", "handler", "service", "encode", "writing"}
           => Passed
      /\ pc \in {"reading", "unreadable", "handler", "service", "encode", "writing"}
           => request.contentType # "other"
      /\ pc \in {"handler", "service", "encode", "writing"} => request.body = "valid"
  BY DEF PlacesSoFar
<1> SUFFICES
      /\ pc' \in {"encoding", "reading", "unreadable", "handler", "service", "encode", "writing"}
           => Passed'
      /\ pc' \in {"reading", "unreadable", "handler", "service", "encode", "writing"}
           => request'.contentType # "other"
      /\ pc' \in {"handler", "service", "encode", "writing"} => request'.body = "valid"
  BY DEF PlacesSoFar
<1>3. pc = "routing" /\ Route => Passed
  BY DEF Route
<1> HIDE DEF Passed
<1>4. CASE pc' = pc
  <2>1. CASE pc = "idle"
    BY <1>4, <2>1
  <2>2. CASE pc # "idle"
    BY <1>1, <1>2, <1>4, <2>2
  <2> QED
    BY <2>1, <2>2
<1>5. CASE pc' \in {"received", "routing", "failing", "sent", "panicked", "aborted"}
  BY <1>5
<1>6. CASE Route
  BY <1>1, <1>3, <1>6 DEF Route, Goto
<1>7. CASE RequestRoutedOk
  BY <1>1, <1>2, <1>7 DEF RequestRoutedOk, Goto
<1>8. CASE ReadFails
  BY <1>1, <1>2, <1>8 DEF ReadFails, Goto
<1>9. CASE Decode
  BY <1>1, <1>2, <1>9 DEF Decode, Goto
<1>10. CASE CallService \/ ServiceReturns \/ HandlerSucceeds \/ WriteHeader
  BY <1>1, <1>2, <1>10 DEF CallService, ServiceReturns, HandlerSucceeds, HandlerEnds,
     WriteHeader, Goto
<1>11. ASSUME Receive \/ RequestReceivedOk \/ RequestReceivedFails \/ RouteNowhere
              \/ RefuseEncoding \/ RequestRoutedFails \/ HandleRequestBodyError
              \/ RefuseProtobuf \/ HandlerFails \/ HandlerMistyped \/ HandlerReturnsNil
              \/ HandlerPanics \/ MarshalFails \/ WriteBody \/ SendError \/ HookPanic
       PROVE  pc' \in {"received", "routing", "failing", "sent", "panicked", "aborted"}
  BY <1>11 DEF Receive, RequestReceivedOk, RequestReceivedFails, RouteNowhere, RefuseEncoding,
     RequestRoutedFails, HandleRequestBodyError, RefuseProtobuf, HandlerFails, HandlerMistyped,
     HandlerReturnsNil, HandlerPanics, MarshalFails, WriteBody, SendError, HookPanic, HookPanics,
     HookPanicsAfterResult, HookPanicsAfterError, Fails, Goto
<1>12. ContextDone \/ ClientDone \/ UNCHANGED vars => pc' = pc
  BY DEF ContextDone, ClientDone, vars
<1> QED
  BY <1>4, <1>5, <1>6, <1>7, <1>8, <1>9, <1>10, <1>11, <1>12 DEF Next, Handle

\* Until a request is routed, its first error is its second hook.
LEMMA UnroutedFails ==
  ASSUME Typed, HooksSoFar, HooksSoFar', [Next]_vars, ~(Len(hooks) > 1),
         Len(hooks') > 1, hooks'[2] = "RequestRouted"
  PROVE  pc = "encoding"
<1> DEFINE fails == <<"RequestReceived", "Error">>
<1>1. Len(<<>>) = 0 /\ Len(<<"RequestReceived">>) = 1
  OBVIOUS
<1>2. pc \in {"idle", "received", "routing", "encoding", "aborted"}
  <2>1. \A h \in FailTrail \cup Trail : Len(h) > 1
    BY DEF FailTrail, Trail
  <2>2. /\ Len(<<"RequestReceived", "RequestRouted">>) = 2
        /\ Len(<<"RequestReceived", "RequestRouted", "ResponsePrepared">>) = 3
    OBVIOUS
  <2>3. hooks \notin FailTrail \cup Trail
    BY <2>1
  <2>4. pc \notin {"sent", "panicked", "failing"}
    BY <2>3 DEF HooksSoFar, HooksPairUp
  <2>5. pc \notin {"reading", "unreadable", "handler", "service", "encode", "writing"}
    BY <2>2 DEF HooksSoFar
  <2>6. pc \in PC
    BY DEF Typed, TypeOK
  <2> QED
    BY <2>4, <2>5, <2>6 DEF PC
<1> DEFINE Grown == hooks' # hooks
<1>3. Grown
  OBVIOUS
<1> HIDE DEF Grown
<1>4. pc # "aborted"
  BY <1>3 DEF Grown, Next, Handle, HookPanic, HookPanics, HookPanicsAfterResult,
     HookPanicsAfterError, ClientDone, vars, Receive, ContextDone, RequestReceivedOk,
     RequestReceivedFails, RouteNowhere, Route, RefuseEncoding, RequestRoutedOk,
     RequestRoutedFails, ReadFails, HandleRequestBodyError, RefuseProtobuf, Decode,
     CallService, ServiceReturns, HandlerSucceeds, HandlerFails, HandlerMistyped,
     HandlerReturnsNil, HandlerPanics, MarshalFails, WriteHeader, WriteBody, SendError,
     Goto, Fails, HandlerEnds
<1>5. pc' \notin {"idle", "received", "routing", "encoding"}
  BY <1>1 DEF HooksSoFar
<1>6. CASE pc \in {"idle", "received", "routing"}
  <2>1. RequestReceivedFails \/ RouteNowhere
    BY <1>3, <1>5, <1>6 DEF Grown, Next, Handle, HookPanic, HookPanics, HookPanicsAfterResult,
       HookPanicsAfterError, ClientDone, outerVars, vars, Receive, ContextDone, RequestReceivedOk,
       Route, RefuseEncoding, RequestRoutedOk,
       RequestRoutedFails, ReadFails, HandleRequestBodyError, RefuseProtobuf, Decode,
       CallService, ServiceReturns, HandlerSucceeds, HandlerFails, HandlerMistyped,
       HandlerReturnsNil, HandlerPanics, MarshalFails, WriteHeader, WriteBody, SendError,
       Goto, Fails, HandlerEnds
  <2>2. CASE RequestReceivedFails
    <3>1. hooks = <<>> /\ hooks' = hooks \o (<<"RequestReceived">> \o <<"Error">>)
      BY <2>2 DEF RequestReceivedFails, Fails, Goto, Calls, HooksSoFar
    <3>2. hooks' = fails
      BY <3>1, Trails
    <3> QED
      BY <3>2
  <2>3. CASE RouteNowhere
    <3>1. hooks = <<"RequestReceived">> /\ hooks' = hooks \o (<<>> \o <<"Error">>)
      BY <2>3 DEF RouteNowhere, Fails, Goto, Calls, HooksSoFar
    <3>2. hooks' = fails
      BY <3>1, Trails
    <3> QED
      BY <3>2
  <2> QED
    BY <2>1, <2>2, <2>3
<1> QED
  BY <1>2, <1>4, <1>6

LEMMA CallsNext ==
  Typed /\ HooksSoFar /\ HooksSoFar' /\ PlacesSoFar /\ CallsSoFar /\ [Next]_vars => CallsSoFar'
<1> SUFFICES ASSUME Typed, HooksSoFar, HooksSoFar', PlacesSoFar, CallsSoFar, [Next]_vars
             PROVE  CallsSoFar'
  OBVIOUS
<1>1. ASSUME Len(hooks') > 1, hooks'[2] = "RequestRouted" PROVE Routed(request)'
  <2>1. CASE Len(hooks) > 1
    <3>1. hooks'[2] = hooks[2]
      BY <2>1, FirstHooksStay
    <3>2. Routed(request)
      BY <1>1, <2>1, <3>1 DEF CallsSoFar
    <3>3. pc # "idle"
      BY <2>1 DEF HooksSoFar
    <3> QED
      BY <3>2, <3>3, SameRequest
  <2>2. CASE ~(Len(hooks) > 1)
    <3>1. pc = "encoding"
      BY <1>1, <2>2, UnroutedFails
    <3> QED
      BY <3>1, SameRequest DEF PlacesSoFar
  <2> QED
    BY <2>1, <2>2
<1>2. ASSUME calls' > 0 PROVE Deserved' /\ Invited'
  <2>1. CASE calls > 0
    <3>1. Deserved /\ Invited
      BY <2>1 DEF CallsSoFar
    <3>2. pc # "idle"
      BY <3>1 DEF HooksSoFar, Invited
    <3>3. Invited'
      BY <3>1, FirstHooksStay DEF Invited
    <3> QED
      BY <3>1, <3>2, <3>3, SameRequest
  <2>2. CASE ~(calls > 0)
    <3>1. calls' # calls
      BY <1>2, <2>2
    <3>2. CallService
      BY <3>1 DEF Next, Handle, HookPanic, HookPanics, HookPanicsAfterResult,
         HookPanicsAfterError, ClientDone, outerVars, requestVars, vars, Receive, ContextDone, RequestReceivedOk,
         RequestReceivedFails, RouteNowhere, Route, RefuseEncoding, RequestRoutedOk,
         RequestRoutedFails, ReadFails, HandleRequestBodyError, RefuseProtobuf, Decode,
         ServiceReturns, HandlerSucceeds, HandlerFails, HandlerMistyped,
         HandlerReturnsNil, HandlerPanics, MarshalFails, WriteHeader, WriteBody, SendError, Ends
    <3>3. pc = "handler" /\ hooks' = hooks
      BY <3>2 DEF CallService, Goto
    <3>4. hooks' = <<"RequestReceived", "RequestRouted">> /\ Deserved
      BY <3>3 DEF HooksSoFar, PlacesSoFar, Deserved
    <3> QED
      BY <3>3, <3>4, SameRequest DEF Invited
  <2> QED
    BY <2>1, <2>2
<1> QED
  BY <1>1, <1>2 DEF CallsSoFar

\* The service runs only on a request routed to it and decoded, which both
\* hooks let pass, and it is the one the caller named.
THEOREM GoServerServiceCalledFor == Spec => []ServiceCalledFor
<1>1. Init => HooksSoFar /\ PlacesSoFar /\ CallsSoFar
  BY DEF Init, HooksSoFar, HooksPairUp, PlacesSoFar, CallsSoFar
<1>2. Typed /\ CallsSoFar => ServiceCalledFor
  <2> SUFFICES ASSUME Typed, CallsSoFar, calls > 0 PROVE ServiceCalledFor
    BY DEF ServiceCalledFor
  <2>1. Deserved /\ Invited
    BY DEF CallsSoFar
  <2>2. request.verb = "POST" /\ request.contentType # "other" /\ request.body = "valid"
    BY <2>1 DEF Deserved, Routed
  <2>3. SubSeq(hooks, 1, 2) = <<"RequestReceived", "RequestRouted">>
    <3> DEFINE x == SubSeq(hooks, 1, 2)
               y == <<"RequestReceived", "RequestRouted">>
    <3>1. hooks \in Seq(Hook) /\ Len(hooks) > 1 /\ Len(hooks) \in Nat
          /\ hooks[1] = y[1] /\ hooks[2] = y[2]
      BY <2>1, LenProperties DEF Invited, Typed, TypeOK
    <3>2. y \in Seq(Hook) /\ Len(y) = 2
      BY DEF Hook
    <3>3. \A i \in 1..2 : hooks[i] \in Hook
      BY <3>1, ElementOfSeq
    <3>4. /\ x \in Seq(Hook)
          /\ Len(x) = IF 1 <= 2 THEN 2 - 1 + 1 ELSE 0
          /\ \A i \in 1 .. 2 - 1 + 1 : x[i] = hooks[1 + i - 1]
      BY <3>1, <3>3, SubSeqProperties
    <3>5. Len(x) = 2 /\ x[1] = hooks[1] /\ x[2] = hooks[2]
      BY <3>4
    <3> HIDE DEF x, y
    <3>6. \A i \in 1..2 : x[i] = y[i]
      BY <3>1, <3>5
    <3>7. x = y
      BY <3>2, <3>4, <3>5, <3>6, SeqEqual
    <3> QED
      BY <3>7 DEF x, y
  <2>4. ASSUME NEW c \in Caller, request.path = PathOf(c)
        PROVE  c.pkg = server.pkg /\ c.service = server.service /\ c.method \in server.methods
    BY <2>1, <2>4, RoutedOfCaller DEF Deserved
  <2> QED
    BY <2>2, <2>3, <2>4 DEF ServiceCalledFor
<1> QED
  BY <1>1, <1>2, TypedInit, TypedNext, HooksNext, PlacesNext, CallsNext, PTL DEF Spec

-----------------------------------------------------------------------------
\* An error that says bad_route was made where a request was refused, if the
\* application does not make such errors.
Refused == ~Routed(request) \/ request.contentType = "other"

RefusalSoFar ==
  /\ pc = "idle" => err = None
  /\ err = GoBadRouteError /\ GoBadRouteError \notin HookError \cup HandlerError => Refused

LEMMA OnlyBadRoute ==
  /\ \A goErr \in GoError \cup {PlainError} :
       AsTwirpError(goErr) = GoBadRouteError => goErr = GoBadRouteError
  /\ MalformedRequestError # GoBadRouteError /\ InternalErrorWith # GoBadRouteError
  /\ InternalServicePanic # GoBadRouteError
  /\ \A code \in {"canceled", "deadline_exceeded", "internal"} :
       NewGoError(code, {}) # GoBadRouteError
<1>1. /\ MalformedRequestError # GoBadRouteError /\ InternalErrorWith # GoBadRouteError
      /\ InternalServicePanic # GoBadRouteError
      /\ \A code \in {"canceled", "deadline_exceeded", "internal"} :
           NewGoError(code, {}) # GoBadRouteError
  BY DEF MalformedRequestError, InternalErrorWith, InternalServicePanic, GoBadRouteError,
     NewGoError
<1>2. \A goErr \in GoError \cup {PlainError} :
        AsTwirpError(goErr) = GoBadRouteError => goErr = GoBadRouteError
  BY <1>1 DEF AsTwirpError
<1> QED
  BY <1>1, <1>2

LEMMA RefusalNext == Typed /\ PlacesSoFar /\ RefusalSoFar /\ [Next]_vars => RefusalSoFar'
<1> SUFFICES ASSUME Typed, PlacesSoFar, RefusalSoFar, [Next]_vars PROVE RefusalSoFar'
  OBVIOUS
<1>1. (pc = "idle" => err = None)'
  BY DEF Next, Handle, HookPanic, HookPanics, HookPanicsAfterResult,
     HookPanicsAfterError, ClientDone, outerVars, requestVars, answerVars, vars, RefusalSoFar, Receive, ContextDone,
     RequestReceivedOk, RequestReceivedFails, RouteNowhere, Route, RefuseEncoding,
     RequestRoutedOk, RequestRoutedFails, ReadFails, HandleRequestBodyError, RefuseProtobuf,
     Decode, CallService, ServiceReturns, HandlerSucceeds, HandlerFails, HandlerMistyped,
     HandlerReturnsNil, HandlerPanics, MarshalFails, WriteHeader, WriteBody, SendError,
     Goto, Fails
<1> SUFFICES ASSUME err' = GoBadRouteError,
                    GoBadRouteError \notin HookError \cup HandlerError
             PROVE  Refused'
  BY <1>1 DEF RefusalSoFar
<1> USE DEF requestVars, answerVars, outerVars
<1>2. ASSUME NEW from, NEW goErr \in GoError \cup {PlainError}, NEW called,
             Fails(from, goErr, called)
      PROVE  goErr = GoBadRouteError
  BY <1>2, OnlyBadRoute DEF Fails
<1>3. pc # "idle" => (Refused' <=> Refused)
  BY SameRequest DEF Refused
<1>4. CASE err' = err
  <2>1. err # None
    BY <1>4, OwnGoErrors, GoServerAssumption
  <2> QED
    BY <1>3, <1>4, <2>1 DEF RefusalSoFar
<1>5. CASE Receive \/ ContextDone \/ ClientDone \/ HookPanic \/ RequestReceivedOk \/ Route
           \/ RequestRoutedOk \/ ReadFails
           \/ Decode \/ CallService \/ ServiceReturns \/ HandlerSucceeds \/ WriteHeader
           \/ WriteBody \/ SendError \/ UNCHANGED vars
  <2>1. err' = err
    BY <1>5 DEF vars, Receive, ContextDone, ClientDone, HookPanic, HookPanics,
       HookPanicsAfterResult, HookPanicsAfterError, RequestReceivedOk, Route, RequestRoutedOk,
       ReadFails, Decode,
       CallService, ServiceReturns, HandlerSucceeds, HandlerEnds, WriteHeader, WriteBody,
       SendError, Goto
  <2> QED
    BY <1>4, <2>1
<1>6. CASE RequestReceivedFails \/ RequestRoutedFails
  <2>1. PICK goErr \in HookError : \E from, called : Fails(from, goErr, called)
    BY <1>6 DEF RequestReceivedFails, RequestRoutedFails
  <2> QED
    BY <1>2, <2>1, ApplicationErrors
<1>7. CASE RouteNowhere
  <2>1. pc = "routing" /\ ~Routed(request)
    BY <1>7 DEF RouteNowhere, Fails, Goto
  <2> QED
    BY <1>3, <2>1 DEF Refused
<1>8. CASE RefuseEncoding
  <2>1. pc = "encoding" /\ request.contentType = "other"
    BY <1>8 DEF RefuseEncoding, Fails, Goto
  <2> QED
    BY <1>3, <2>1 DEF Refused
<1>9. CASE HandleRequestBodyError
  <2>1. PICK goErr \in {NewGoError("canceled", {}), NewGoError("deadline_exceeded", {}),
                        MalformedRequestError} : Fails("unreadable", goErr, <<>>)
    BY <1>9, Zenon DEF HandleRequestBodyError
  <2> QED
    BY <1>2, <2>1, OwnGoErrors, OnlyBadRoute
<1>10. CASE RefuseProtobuf \/ HandlerMistyped \/ HandlerReturnsNil \/ HandlerPanics \/ MarshalFails
  <2>1. PICK goErr \in {MalformedRequestError, NewGoError("internal", {}), InternalServicePanic,
                        InternalErrorWith} : \E from : Fails(from, goErr, <<>>)
    BY <1>10 DEF RefuseProtobuf, HandlerMistyped, HandlerReturnsNil, HandlerPanics, MarshalFails
  <2> QED
    BY <1>2, <2>1, OwnGoErrors, OnlyBadRoute
<1>11. CASE HandlerFails
  <2>1. PICK goErr \in HandlerError : Fails(HandlerEnds, goErr, <<>>)
    BY <1>11 DEF HandlerFails
  <2> QED
    BY <1>2, <2>1, ApplicationErrors
<1> QED
  BY <1>5, <1>6, <1>7, <1>8, <1>9, <1>10, <1>11 DEF Next, Handle

\* A caller like the server is routed to it exactly if its prefix is clean and,
\* for C++, the schema has a package; what is refused is answered bad_route.
THEOREM GoServerMeetIffClean == Spec => []MeetIffClean
<1>1. Init => HooksSoFar /\ PlacesSoFar /\ CallsSoFar /\ RefusalSoFar
  <2>1. None # GoBadRouteError
    BY OwnGoErrors, GoServerAssumption
  <2> QED
    BY <2>1 DEF Init, HooksSoFar, HooksPairUp, PlacesSoFar, CallsSoFar, RefusalSoFar
<1>2. CallsSoFar /\ RefusalSoFar => MeetIffClean
  <2> SUFFICES ASSUME CallsSoFar, RefusalSoFar, NEW c \in Caller, Alike(c),
                      request.verb = "POST", request.contentType # "other",
                      request.path = PathOf(c)
               PROVE  /\ err = GoBadRouteError
                         /\ GoBadRouteError \notin HookError \cup HandlerError => ~Clean(c)
                      /\ Len(hooks) > 1 /\ hooks[2] = "RequestRouted" => Clean(c)
    BY DEF MeetIffClean
  <2>1. Routed(request) <=> Clean(c)
    BY RoutedIffClean
  <2> QED
    BY <2>1 DEF CallsSoFar, RefusalSoFar, Refused
<1> QED
  BY <1>1, <1>2, TypedInit, TypedNext, HooksNext, PlacesNext, CallsNext, RefusalNext, PTL
  DEF Spec

=============================================================================
