--------------------------- MODULE GoClientProofs --------------------------
(***************************************************************************)
(* Proofs about GoClient for every number of attempts, every interceptor   *)
(* and hook, and every answer: its type invariant, how an attempt ends,    *)
(* and when a request is sent.                                             *)
(***************************************************************************)
EXTENDS GoClient, SequenceTheorems, TLAPS

\* The errors the generated code makes itself have codes the library knows.
LEMMA OwnGoErrors ==
  /\ InternalErrorWith \in GoError
  /\ \A code \in {"canceled", "deadline_exceeded", "internal"} : NewGoError(code, {}) \in GoError
BY GoErrorsAssumption DEF InternalErrorWith, NewGoError, GoError, GoMark

\* A Go client makes a twirp.Error with a code the library knows of any answer.
LEMMA ErrorFromResponseType ==
  ASSUME NEW resp \in ErrorResponse
  PROVE  ErrorFromResponse(resp) \in GoError
<1>1. IntermediaryCode(resp.status) \in GoErrorCode
  BY GoErrorsAssumption DEF IntermediaryCode
<1>2. ErrorFromIntermediary(resp.status) \in GoError
  BY <1>1, GoErrorsAssumption DEF ErrorFromIntermediary, NewGoError, GoError, GoMark
<1>3. NewGoError("internal", {"body"}) \in GoError
  BY GoErrorsAssumption DEF NewGoError, GoError, GoMark
<1>4. resp.body.twirpStatus \in WireCode \cup {NoPayload} /\ resp.body.meta \in SUBSET MetaItem
  BY DEF ErrorResponse, ErrorBody
<1> QED
  BY <1>2, <1>3, <1>4 DEF ErrorFromResponse, GoError

\* What the code looks at is there to be looked at.
Began == pc \notin {"idle", "interceptor", "returned"}

Fresh == answer.reply.status = 200 /\ answer.result = "message" /\ ~doneAtAnswer

\* What an attempt has and has not done at each of its places.
Places ==
  /\ pc = "idle" => attempt = 0
  /\ Began => attempt > 0
  /\ pc \in {"marshal", "prepare"} =>
       answer = None /\ body = "none" /\ err = None /\ hooks = <<>> /\ sent < attempt
  /\ pc = "prepare" => ~doneAtStart
  /\ pc = "do" =>
       answer = None /\ body = "none" /\ err = None /\ hooks = <<"RequestPrepared">>
  /\ pc \in {"answered", "read", "unmarshal", "check"} =>
       answer \in Answer /\ body = "open" /\ err = None /\ hooks = <<"RequestPrepared">>
  /\ pc \in {"read", "unmarshal", "check"} => answer.reply.status = 200 /\ ~doneAtAnswer
  /\ pc = "check" /\ json => answer.result = "message"
  /\ pc = "close" =>
       /\ answer \in Answer /\ body = "open" /\ hooks = <<"RequestPrepared">>
       /\ err = None => Fresh
  /\ pc = "conclude" =>
       /\ NoBodyLeft
       /\ err = None => answer # None /\ Fresh /\ hooks = <<"RequestPrepared">>
       /\ err # None => hooks \in {<<>>, <<"RequestPrepared">>}

\* A context once done stays done.
StaysDone == (doneAtStart => ctxErr) /\ (doneAtAnswer => ctxErr)

ClientInv ==
  /\ TypeOK /\ Places /\ StaysDone /\ AttemptsConclude
  /\ pc # "returned" => returned = None

LEMMA NotYet ==
  /\ \A a \in Answer : a # None /\ a.reply \in ErrorResponse
  /\ \A e \in GoError \cup {PlainError} : e # None
BY GoClientAssumption

LEMMA HookAppends ==
  /\ <<>> \in Seq(Hook) /\ <<"RequestPrepared">> \in Seq(Hook)
  /\ \A h \in Hook : Append(<<>>, h) = <<h>> /\ Append(<<>>, h) \in Seq(Hook)
  /\ \A h \in Hook : /\ Append(<<"RequestPrepared">>, h) = <<"RequestPrepared", h>>
                       /\ Append(<<"RequestPrepared">>, h) \in Seq(Hook)
<1>1. <<>> \in Seq(Hook) /\ <<"RequestPrepared">> \in Seq(Hook)
  BY DEF Hook
<1>2. ASSUME NEW h \in Hook PROVE Append(<<>>, h) = <<h>> /\ Append(<<>>, h) \in Seq(Hook)
  OBVIOUS
<1>3. ASSUME NEW h \in Hook
      PROVE  /\ Append(<<"RequestPrepared">>, h) = <<"RequestPrepared", h>>
             /\ Append(<<"RequestPrepared">>, h) \in Seq(Hook)
  <2> DEFINE s == Append(<<"RequestPrepared">>, h)
             t == <<"RequestPrepared", h>>
  <2>1. s \in Seq(Hook) /\ t \in Seq(Hook)
    BY <1>1 DEF Hook
  <2>2. Len(s) = 2 /\ Len(t) = 2 /\ \A i \in 1..2 : s[i] = t[i]
    OBVIOUS
  <2> HIDE DEF s, t
  <2>3. s = t
    BY <2>1, <2>2, SeqEqual
  <2> QED
    BY <2>1, <2>3 DEF s, t
<1> QED
  BY <1>1, <1>2, <1>3

LEMMA ClientInit == Init => ClientInv
<1> SUFFICES ASSUME Init PROVE ClientInv
  OBVIOUS
<1>1. 0 \in 0..MaxAttempts /\ 0 \in 0..0
  BY GoClientAssumption
<1>2. TypeOK
  BY <1>1, HookAppends, Zenon DEF Init, TypeOK, PC
<1> QED
  BY <1>2 DEF Init, ClientInv, Places, Began, StaysDone, AttemptsConclude

LEMMA ClientNext == ClientInv /\ [Next]_vars => ClientInv'
<1> SUFFICES ASSUME ClientInv, [Next]_vars PROVE ClientInv'
  OBVIOUS
<1> USE DEF historyVars, callVars, Goto, FailsEarly, Fails, Places, Began, Fresh, StaysDone,
        AttemptsConclude, OneVerdict, NoBodyLeft, ResultIsFresh, ClientInv
<1>1. CASE Call
  BY <1>1 DEF Call, TypeOK, PC
<1>2. CASE ContextDone
  BY <1>2 DEF ContextDone, TypeOK
<1>3. CASE BeginAttempt
  <2>1. attempt' = attempt + 1 /\ attempt' \in 0..MaxAttempts /\ sent' = sent /\ sent < attempt'
        /\ sent' \in 0..attempt'
    BY <1>3, GoClientAssumption DEF BeginAttempt, TypeOK
  <2>2. TypeOK'
    BY <1>3, <2>1, HookAppends DEF BeginAttempt, TypeOK, PC
  <2>3. Places' /\ StaysDone' /\ AttemptsConclude'
    BY <1>3, <2>1, GoClientAssumption DEF BeginAttempt, TypeOK
  <2> QED
    BY <1>3, <2>2, <2>3 DEF BeginAttempt
<1>4. CASE MarshalFails \/ Prepare \/ AbortBeforeRequest \/ NewRequestFails
  <2>1. TypeOK'
    BY <1>4, OwnGoErrors
    DEF MarshalFails, Prepare, AbortBeforeRequest, NewRequestFails, WrapInternal, TypeOK, PC
  <2>2. CASE Prepare
    BY <2>1, <2>2 DEF Prepare
  <2>3. CASE ~Prepare
    BY <1>4, <2>1, <2>3, OwnGoErrors, NotYet
    DEF MarshalFails, AbortBeforeRequest, NewRequestFails, WrapInternal
  <2> QED
    BY <2>2, <2>3
<1>5. CASE RequestPreparedFails
  BY <1>5, HookAppends, NotYet, GoClientAssumption DEF RequestPreparedFails, TypeOK, PC, Hook
<1>6. CASE RequestPreparedOk
  BY <1>6, HookAppends DEF RequestPreparedOk, TypeOK, PC, Hook
<1>7. CASE DoAnswers
  BY <1>7 DEF DoAnswers, TypeOK, PC
<1>8. CASE DoFails
  BY <1>8, OwnGoErrors, NotYet DEF DoFails, WrapInternal, TypeOK, PC
<1>9. CASE Accept \/ AbortAfterAnswer
  BY <1>9, OwnGoErrors, NotYet DEF Accept, AbortAfterAnswer, WrapInternal, TypeOK, PC
<1>10. CASE ErrorAnswer
  BY <1>10, OwnGoErrors, NotYet, ErrorFromResponseType DEF ErrorAnswer, WrapInternal, TypeOK, PC
<1>11. CASE Read \/ ReadFails
  BY <1>11, OwnGoErrors, NotYet DEF Read, ReadFails, WrapInternal, TypeOK, PC
<1>12. CASE CheckContext \/ AbortAfterRead
  BY <1>12, OwnGoErrors, NotYet DEF CheckContext, AbortAfterRead, WrapInternal, TypeOK, PC
<1>13. CASE Unmarshal \/ UnmarshalFails
  BY <1>13, OwnGoErrors, NotYet DEF Unmarshal, UnmarshalFails, WrapInternal, TypeOK, PC
<1>14. CASE CloseBody
  BY <1>14, OwnGoErrors, NotYet DEF CloseBody, WrapInternal, TypeOK, PC
<1>15. CASE Conclude
  <2>1. hooks' \in Seq(Hook) /\ OneVerdict'
    <3>1. CASE err = None
      <4>1. hooks' = <<"RequestPrepared", "ResponseReceived">> /\ hooks' \in Seq(Hook)
        BY <1>15, <3>1, HookAppends DEF Conclude, Hook
      <4> QED
        BY <1>15, <3>1, <4>1 DEF Conclude
    <3>2. CASE err # None
      <4>1. hooks' \in {<<"Error">>, <<"RequestPrepared", "Error">>} /\ hooks' \in Seq(Hook)
        BY <1>15, <3>2, HookAppends DEF Conclude, Hook
      <4> QED
        BY <1>15, <3>2, <4>1 DEF Conclude
    <3> QED
      BY <3>1, <3>2
  <2>2. TypeOK'
    BY <1>15, <2>1 DEF Conclude, TypeOK, PC
  <2>3. NoBodyLeft' /\ ResultIsFresh'
    BY <1>15 DEF Conclude
  <2> QED
    BY <1>15, <2>1, <2>2, <2>3, GoClientAssumption DEF Conclude
<1>16. CASE Return
  BY <1>16, GoClientAssumption DEF Return, TypeOK, PC
<1>17. CASE UNCHANGED vars
  BY <1>17 DEF vars, TypeOK
<1> QED
  BY <1>1, <1>2, <1>3, <1>4, <1>5, <1>6, <1>7, <1>8, <1>9, <1>10, <1>11, <1>12, <1>13,
     <1>14, <1>15, <1>16, <1>17 DEF Next, Proceed, Network

\* Every variable keeps to its type: what a call fails with is a twirp.Error, or
\* the hook's own, and no more requests are sent than attempts were made.
THEOREM GoClientTypeOK == Spec => []TypeOK
<1>1. ClientInv => TypeOK
  BY DEF ClientInv
<1> QED
  BY <1>1, ClientInit, ClientNext, PTL DEF Spec

\* Every attempt ends with one verdict for its hooks, with the body of its
\* response closed, and succeeds only with a fresh and decoded result.
THEOREM GoClientAttemptsConclude == Spec => []AttemptsConclude
<1>1. ClientInv => AttemptsConclude
  BY DEF ClientInv
<1> QED
  BY <1>1, ClientInit, ClientNext, PTL DEF Spec

\* An attempt sends one request at most, and none if its context was done when
\* it began.
THEOREM GoClientNothingSentInVain == Spec => NothingSentInVain
<1>1. ClientInv /\ [Next]_vars
      => [sent' # sent => ~doneAtStart /\ sent' = sent + 1 /\ sent' <= attempt]_vars
  <2> SUFFICES ASSUME ClientInv, [Next]_vars, sent' # sent
               PROVE  ~doneAtStart /\ sent' = sent + 1 /\ sent' <= attempt
    OBVIOUS
  <2>1. RequestPreparedOk
    BY DEF vars, historyVars, callVars, Next, Proceed, Network, Call, ContextDone, BeginAttempt,
       MarshalFails, Prepare, AbortBeforeRequest, NewRequestFails, RequestPreparedFails,
       DoAnswers, DoFails, Accept, AbortAfterAnswer, ErrorAnswer, Read, ReadFails, CheckContext,
       AbortAfterRead, Unmarshal, UnmarshalFails, CloseBody, Conclude, Return
  <2> QED
    BY <2>1 DEF RequestPreparedOk, Goto, ClientInv, Places, TypeOK
<1> QED
  BY <1>1, ClientInit, ClientNext, PTL DEF Spec, NothingSentInVain
=============================================================================
