------------------------------ MODULE TwirpRpc -----------------------------
(***************************************************************************)
(* Remote calls from C++ client to C++ server: TwirpServer, the stubs of   *)
(* TwirpClient as its only clients, and what is between them.  A request   *)
(* may get lost or arrive when its client has given up; a response may get *)
(* lost (the client gives up) or be replaced by an intermediary's.  HTTP   *)
(* delivers a POST at most once.                                           *)
(***************************************************************************)
EXTENDS TwirpServer

CONSTANTS
  StubCall,               \* what the application may call with
  ClientMiddlewares,      \* how many middlewares the requester has
  ClientMiddlewareError,  \* statuses they may return
  ForeignResponse         \* the answers an intermediary may give

ASSUME RpcAssumption ==
  /\ StubCall \subseteq {call \in Input : call.contentType # "other"}
  /\ ClientMiddlewares \in Nat
  /\ ClientMiddlewareError \subseteq Status
  /\ ForeignResponse \subseteq ErrorResponse

VARIABLES
  stub, message, passed, returned,  \* TwirpClient's
  travel,                           \* where the request of each call is
  foreign                           \* has an intermediary answered the call

Client == INSTANCE TwirpClient

stubVars    == <<stub, message, passed, returned>>
networkVars == <<travel, foreign>>
rpcVars == <<vars, stubVars, networkVars>>

Travel == {"none", "sent", "lost", "received"}

RpcInit ==
  /\ Init
  /\ Client!ClientInit
  /\ travel  = [r \in Request |-> "none"]
  /\ foreign = [r \in Request |-> FALSE]

-----------------------------------------------------------------------------
CallStub(r) == Client!CallStub(r) /\ UNCHANGED <<vars, networkVars>>

StubProceeds(r) == Client!StubProceeds(r) /\ UNCHANGED <<vars, networkVars>>

Moves(r, from, to) ==
  /\ travel[r] = from
  /\ travel' = [travel EXCEPT ![r] = to]

Send(r) ==
  /\ Client!Post(r)
  /\ Moves(r, "none", "sent")
  /\ UNCHANGED <<vars, foreign>>

LoseRequest(r) ==
  /\ Moves(r, "sent", "lost")
  /\ UNCHANGED <<vars, stubVars, foreign>>

\* The request gets to the server, whether or not its client still waits.
Deliver(r) ==
  /\ Moves(r, "sent", "received")
  /\ Receive(r)
  /\ request'[r] = message[r]
  /\ UNCHANGED <<stubVars, foreign>>

\* The server's response gets to its client.
Respond(r) ==
  /\ travel[r] = "received"
  /\ pc[r] = "done"
  /\ Client!ReadResponse(r, reply[r])
  /\ UNCHANGED <<vars, networkVars>>

\* An intermediary answers in place of the server, which may have the request
\* or may yet get it.
Substitute(r) ==
  /\ \E resp \in ForeignResponse : Client!ReadResponse(r, resp)
  /\ foreign' = [foreign EXCEPT ![r] = TRUE]
  /\ UNCHANGED <<vars, travel>>

\* Seeded fault: only a connection that is refused ends the waiting.
GiveUpIfRefused(r) ==
  /\ ~listening
  /\ Client!PostFails(r)
  /\ UNCHANGED <<vars, networkVars>>

\* Connecting, sending or reading fails or takes too long.
GiveUp(r) == Client!PostFails(r) /\ UNCHANGED <<vars, networkVars>>

ServerStep ==
  /\ \/ \E h \in Host : RegisterTwirpHandlers(h)
     \/ Listen
     \/ \E r \in Request : Route(r) \/ Handle(r)
  /\ UNCHANGED <<stubVars, networkVars>>

RpcNext ==
  \/ ServerStep
  \/ \E r \in Request :
       \/ CallStub(r) \/ StubProceeds(r) \/ Send(r)
       \/ LoseRequest(r) \/ Deliver(r)
       \/ Respond(r) \/ Substitute(r) \/ GiveUp(r)

RpcSpec == RpcInit /\ [][RpcNext]_rpcVars

\* The stub's thread runs, and httplib's timeouts end the waiting.
RpcFairness ==
  \A r \in Request :
    /\ WF_rpcVars(StubProceeds(r) \/ Send(r))
    /\ WF_rpcVars(Respond(r) \/ GiveUp(r))

FairRpcSpec == RpcSpec /\ RpcFairness

-----------------------------------------------------------------------------
RpcTypeOK ==
  /\ Client!ClientTypeOK
  /\ travel \in [Request -> Travel]
  /\ foreign \in [Request -> BOOLEAN]

IsOk(st) == st # None /\ st.code = "Ok"

(***************************************************************************)
(* A stub that returns OK has run the method: the one it was called for,   *)
(* which succeeded.  Unless an intermediary made up the success.           *)
(***************************************************************************)
OkMeansExecuted ==
  \A r \in Request : IsOk(returned[r]) /\ ~foreign[r] =>
    /\ outcome[r] = OkStatus
    /\ called[r].method = message[r].method
    /\ request[r] = message[r]

(***************************************************************************)
(* The error of a method gets to the caller with its meaning and all its   *)
(* metadata, or the caller is told nothing but that the service is         *)
(* unavailable.                                                            *)
(***************************************************************************)
IsError(st) == st # None /\ st.code # "Ok"

MethodErrorArrives ==
  \A r \in Request :
    IsError(outcome[r]) /\ returned[r] # None /\ ~foreign[r] =>
      \/ /\ returned[r].code = Meaning(outcome[r])
         /\ returned[r].meta = outcome[r].meta
      \/ returned[r] = ErrorStatus("Unavailable")

\* Every call comes back, by returning or by the exception of DecodeError.
EveryCallReturns ==
  \A r \in Request : stub[r] = "serialize" ~> stub[r] \in {"returned", "thrown"}

(***************************************************************************)
(* Every call keeps the promise of RemoteCall.  What the caller learns is  *)
(* "unknown" if it is kUnavailable or comes from an intermediary; told     *)
(* anything else, it can rely on its method not to start afterwards.       *)
(***************************************************************************)
ResultOf(r) ==
  IF stub[r] = "idle" THEN "none"
  ELSE IF stub[r] = "thrown" THEN "unknown"
  ELSE IF returned[r] = None THEN "pending"
  ELSE IF foreign[r] \/ returned[r].code = "Unavailable" THEN "unknown"
  ELSE IF returned[r].code = "Ok" THEN "ok" ELSE "failed"

Remote(r) == INSTANCE RemoteCall WITH effect <- RunOf(r), result <- ResultOf(r)

KeepsRemoteCall ==
  /\ \A r \in Request : Remote(r)!Init
  /\ [][\A r \in Request : [Remote(r)!Next]_<<RunOf(r), ResultOf(r)>>]_rpcVars

-----------------------------------------------------------------------------
(* What the repository says of the program and the code does not do. *)

\* malformed means "The client sent a message which could not be decoded":
\* a call that ends with it has not run the method.
MalformedMeansUndecoded ==
  \A r \in Request :
    IsError(returned[r]) /\ returned[r].twirpStatus = "malformed" => called[r] = None
=============================================================================
