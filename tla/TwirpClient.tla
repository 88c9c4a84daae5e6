----------------------------- MODULE TwirpClient ---------------------------
(***************************************************************************)
(* The client side of twirp-cpp: the stub method that                      *)
(* src/twirpcpp/templates.go generates and HttplibRequester::MakeRequest   *)
(* of include/twirp/httplib/client-helper.h, which it calls.               *)
(*                                                                         *)
(* The stub blocks its thread; several threads may be in it at once and    *)
(* share nothing but the requester, which they do not change.  A step is   *)
(* the code between two calls into code the library does not own: the      *)
(* client middlewares and httplib's Post.                                  *)
(***************************************************************************)
EXTENDS ErrorCodec, Sequences

CONSTANTS
  Request,                \* calls of stubs
  StubCall,               \* what the application may call with
  ClientMiddlewares,      \* how many middlewares the requester has
  ClientMiddlewareError,  \* statuses they may return
  None                    \* "not yet"

VARIABLES
  stub,      \* where the stub of each call is
  message,   \* what the call is to send
  passed,    \* the client middlewares that have returned OK
  returned   \* what the stub returned

clientVars == <<stub, message, passed, returned>>

StubPC == {"idle", "serialize", "middleware", "post", "returned", "thrown"}

\* absl::StatusOr holding the decoded message.
OkResult == [code |-> "Ok", twirpStatus |-> NoPayload, meta |-> {}]

ClientInit ==
  /\ stub     = [r \in Request |-> "idle"]
  /\ message  = [r \in Request |-> None]
  /\ passed   = [r \in Request |-> 0]
  /\ returned = [r \in Request |-> None]

-----------------------------------------------------------------------------
StubGoes(r, from, to) ==
  /\ stub[r] = from
  /\ stub' = [stub EXCEPT ![r] = to]

StubReturns(r, from, st) ==
  /\ StubGoes(r, from, "returned")
  /\ returned' = [returned EXCEPT ![r] = st]

CallStub(r) ==
  /\ StubGoes(r, "idle", "serialize")
  /\ \E call \in StubCall : message' = [message EXCEPT ![r] = call]
  /\ UNCHANGED <<passed, returned>>

\* SerializeMessage, of the argument.
SerializeFails(r) ==
  /\ StubReturns(r, "serialize", ErrorStatus("InvalidArgument"))
  /\ UNCHANGED <<message, passed>>

Serialize(r) ==
  /\ StubGoes(r, "serialize", "middleware")
  /\ UNCHANGED <<message, passed, returned>>

\* Seeded fault: the loop over the middlewares goes one too far.
PastTheLastMiddleware(r) ==
  /\ StubGoes(r, "middleware", "middleware")
  /\ passed[r] <= ClientMiddlewares
  /\ passed' = [passed EXCEPT ![r] = @ + 1]
  /\ UNCHANGED <<message, returned>>

ClientMiddlewareAccepts(r) ==
  /\ StubGoes(r, "middleware", "middleware")
  /\ passed[r] < ClientMiddlewares
  /\ passed' = [passed EXCEPT ![r] = @ + 1]
  /\ UNCHANGED <<message, returned>>

\* Seeded fault: a middleware's error is returned after the request is sent.
RejectAfterPost(r) ==
  /\ \E st \in ClientMiddlewareError : StubReturns(r, "post", st)
  /\ UNCHANGED <<message, passed>>

\* The error of a middleware is returned, and nothing is sent.
ClientMiddlewareRejects(r) ==
  /\ \E st \in ClientMiddlewareError : StubReturns(r, "middleware", st)
  /\ passed[r] < ClientMiddlewares
  /\ UNCHANGED <<message, passed>>

Post(r) ==
  /\ StubGoes(r, "middleware", "post")
  /\ passed[r] = ClientMiddlewares
  /\ UNCHANGED <<message, passed, returned>>

\* Post gives no response: httplib could not connect, send or read in time.
PostFails(r) ==
  /\ StubReturns(r, "post", ErrorStatus("Unavailable"))
  /\ UNCHANGED <<message, passed>>

\* Seeded fault: DecodeError is not asked, any response is the result.
ReturnAnything(r, resp) ==
  /\ StubReturns(r, "post", OkResult)
  /\ UNCHANGED <<message, passed>>

\* The response is a success, and its body is the encoding of a message, as
\* an empty page is in protobuf.
ReturnResult(r, resp) ==
  /\ StubReturns(r, "post", OkResult)
  /\ resp.status = 200
  /\ UNCHANGED <<message, passed>>

\* DeserializeMessage fails, on a page sent with status 200, on the message of
\* another schema, or on one that is too large.
DeserializationError ==
  { [code |-> "InvalidArgument", twirpStatus |-> "malformed", meta |-> {}],
    ErrorStatus("OutOfRange") }

ReturnUndecodable(r, resp) ==
  /\ \E st \in DeserializationError : StubReturns(r, "post", st)
  /\ resp.status = 200
  /\ UNCHANGED <<message, passed>>

ReturnError(r, resp) ==
  /\ resp.status # 200
  /\ ~RaisesLogicError(resp)
  /\ StubReturns(r, "post", DecodeError(resp))
  /\ UNCHANGED <<message, passed>>

\* DecodeError is left by an exception of the JSON library, and so is the stub.
RaiseFromStub(r, resp) ==
  /\ StubGoes(r, "post", "thrown")
  /\ resp.status # 200
  /\ RaisesLogicError(resp)
  /\ UNCHANGED <<message, passed, returned>>

-----------------------------------------------------------------------------
\* What the stub does without waiting for the network.
StubProceeds(r) ==
  \/ SerializeFails(r) \/ Serialize(r)
  \/ ClientMiddlewareAccepts(r) \/ ClientMiddlewareRejects(r)

\* What it does with the response Post has returned.
ReadResponse(r, resp) ==
  \/ ReturnResult(r, resp) \/ ReturnUndecodable(r, resp)
  \/ ReturnError(r, resp) \/ RaiseFromStub(r, resp)

ClientTypeOK ==
  /\ stub     \in [Request -> StubPC]
  /\ message  \in [Request -> StubCall \cup {None}]
  /\ passed   \in [Request -> 0..ClientMiddlewares]
  /\ returned \in [Request -> Status \cup {OkResult, None}]
=============================================================================
