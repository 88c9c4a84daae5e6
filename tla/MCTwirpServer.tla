---------------------------- MODULE MCTwirpServer --------------------------
(***************************************************************************)
(* Instances of TwirpServer for TLC.                                       *)
(*                                                                         *)
(* Pipeline: two services, the regular expression of one of which matches  *)
(* the other's name too, with two methods and middlewares of their own;    *)
(* two requests, whose handlers interleave: for each of three services and *)
(* three methods, and for one method every content type and body and       *)
(* another credential.                                                     *)
(*                                                                         *)
(* Routing, for the runs that show a violation: the same services without  *)
(* middlewares, and one request.                                           *)
(***************************************************************************)
EXTENDS TwirpServer, TLC

CONSTANTS r1, r2,                 \* requests
          ab, axb, lost,          \* services: "a.b", "a_b", one without a host
          Find, Store, Zap,       \* methods
          auth, audit,            \* middlewares
          m1                      \* a metadata item

OneRequest  == {r1}
TwoRequests == {r1, r2}

MCMethod      == {Find, Store, Zap}
MCCustomCode  == {"quota"}
MCMetaItem    == {m1}
MCMiddleware  == {auth, audit}

\* Routing.
RoutingHost     == {ab, axb}
RoutingPaths    == {ab, axb, lost}
RoutingMatches  == {<<ab, ab>>, <<axb, axb>>, <<ab, axb>>}
RoutingMethods  == ab :> <<Find, Store>> @@ axb :> <<Find, Zap>>
RoutingChain    == ab :> <<>> @@ axb :> <<>>
RoutingInput    == [service : RoutingPaths, method : MCMethod,
                    contentType : {"application/json"}, body : {"valid"},
                    credential : {"alice"}]
NoErrors        == {}

\* Pipeline.
PipelineChain   == ab :> <<auth, audit>> @@ axb :> <<audit>>
PipelineInput   ==
  RoutingInput \cup
  { [service |-> ab, method |-> Find, contentType |-> ct, body |-> b, credential |-> "bob"] :
      ct \in ContentType, b \in {"valid", "malformed", "huge"} }
Rejections      == {ErrorStatus("Unauthenticated")}
Failures        ==
  { [code |-> "DataLoss", twirpStatus |-> NoPayload, meta |-> {m1}],
    [code |-> "Internal", twirpStatus |-> "quota",   meta |-> {}] }
NotImplemented  == {ErrorStatus("Unimplemented")}
=============================================================================
