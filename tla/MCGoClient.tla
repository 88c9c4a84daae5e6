----------------------------- MODULE MCGoClient ----------------------------
(***************************************************************************)
(* Small instance of GoClient for TLC: both encodings, with and without an *)
(* interceptor that tries up to three times; answers that are a result,    *)
(* garbage with status 200, a Twirp error, an error the decoder refuses, a *)
(* gateway's page and a redirect.                                          *)
(***************************************************************************)
EXTENDS GoClient

CONSTANT m1

MCCustomCode   == {"quota"}
MCMetaItem     == GoMark \cup {m1}
MCGoHttpStatus == [c \in TwirpErrorCode |-> ErrorCodeToHttpStatus(c)]

Reply(status, root, code) ==
  [status |-> status, contentType |-> "application/json",
   body   |-> [root |-> root, code |-> code, msg |-> "text", meta |-> {m1},
               twirpStatus |-> NoPayload, metaStrings |-> TRUE, extra |-> FALSE]]

MCAnswer ==
  { [reply |-> Reply(200, "none", NoPayload), result |-> "message"],
    [reply |-> Reply(200, "none", NoPayload), result |-> "garbage"],
    [reply |-> Reply(404, "object", "not_found"), result |-> "garbage"],
    [reply |-> Reply(500, "object", "quota"), result |-> "garbage"],
    [reply |-> Reply(503, "none", NoPayload), result |-> "garbage"],
    [reply |-> Reply(302, "none", NoPayload), result |-> "message"] }

MCHookError == {PlainError, NewGoError("unauthenticated", {})}
=============================================================================
