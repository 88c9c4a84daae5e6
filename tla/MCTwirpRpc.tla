----------------------------- MODULE MCTwirpRpc ----------------------------
(***************************************************************************)
(* Instance of TwirpRpc for TLC: two calls of one method through one       *)
(* client and one server middleware, with a body the server can and one it *)
(* cannot decode, and an intermediary that answers with a gateway's page,  *)
(* an empty page with status 200, a Twirp error of its own, or an array.   *)
(***************************************************************************)
EXTENDS TwirpRpc, TLC

CONSTANTS r1, r2, ab, Find, auth, m1

MCRequest     == {r1, r2}
OneRequest    == {r1}
MCMetaItem    == {m1}
MCCustomCode  == {"quota"}
MCMatches     == {<<ab, ab>>}
MCGetMethods  == ab :> <<Find>>
MCChain       == ab :> <<auth>>
MCInput       == [service : {ab}, method : {Find}, contentType : {"application/protobuf"},
                  body : {"valid", "malformed"}, credential : {"alice"}]
MCRejections  == {ErrorStatus("Unauthenticated")}
MCFailures    == {[code |-> "Internal", twirpStatus |-> "quota", meta |-> {m1}]}
NoResponse    == {}

Foreign(status, contentType, root) ==
  [status |-> status, contentType |-> contentType,
   body   |-> [root |-> root, code |-> "permission_denied", msg |-> "text", meta |-> {},
               twirpStatus |-> NoPayload, metaStrings |-> TRUE, extra |-> FALSE]]

MCForeignResponse ==
  { Foreign(503, "other", "none"), Foreign(200, "other", "none"),
    Foreign(403, "application/json", "object"), Foreign(500, "application/json", "other") }
=============================================================================
