----------------------------- MODULE ErrorCodec ----------------------------
(***************************************************************************)
(* How an absl::Status travels as a Twirp error: the two SendError of      *)
(* include/twirp/httplib/server-helper.h write it to an HTTP response and  *)
(* DecodeError of include/twirp/httplib/client-helper.h reads it back.     *)
(*                                                                         *)
(* A status is its code and its payloads.  The payload "twirp_status" is   *)
(* kept apart, because the server reads it; every other payload is a       *)
(* member of MetaItem (a key with its text).  The message is carried by    *)
(* both directions unread, so only its presence on the wire is modelled.   *)
(***************************************************************************)
EXTENDS ErrorDefs

CONSTANTS
  CustomCode,  \* text codes outside the table a service may put in twirp_status
  MetaItem,    \* payloads other than twirp_status
  NoPayload    \* "this key is absent"

ASSUME CodecAssumption ==
  /\ CustomCode \cap TwirpErrorCode = {}
  /\ NoPayload \notin CustomCode \cup TwirpErrorCode

WireCode == TwirpErrorCode \cup CustomCode

\* An absl::Status that is not OK.
Status == [code        : ErrorStatusCode,
           twirpStatus : WireCode \cup {NoPayload},
           meta        : SUBSET MetaItem]

ErrorStatus(code) == [code |-> code, twirpStatus |-> NoPayload, meta |-> {}]

\* The code a status means to the one who reads it: the override if it carries one.
Meaning(st) ==
  IF st.twirpStatus = NoPayload THEN st.code ELSE ErrorCodeToStatus(st.twirpStatus)

(***************************************************************************)
(* The body of an error response as the client's JSON reader sees it: its  *)
(* root ("none" does not parse, "other" is JSON but neither an object nor  *)
(* null), the text under "code", what "msg" is, the members of "meta", the *)
(* key "twirp_status" again kept apart, and whether there are others.      *)
(***************************************************************************)
ErrorBody == [root        : {"object", "other", "none"},
              code        : WireCode \cup {NoPayload},
              msg         : {"text", "absent", "other"},
              meta        : SUBSET MetaItem,
              twirpStatus : WireCode \cup {NoPayload},
              metaStrings : BOOLEAN,
              extra       : BOOLEAN]

ContentType == {"application/json", "application/protobuf", "other"}

ErrorResponse == [status : Nat, contentType : ContentType, body : ErrorBody]

\* Seeded fault: the HTTP status is repeated as a further member of the body.
ErrorReplyWithStatus(errCode, httpCode, meta) ==
  [status      |-> httpCode,
   contentType |-> "application/json",
   body        |-> [root |-> "object", code |-> errCode, msg |-> "text",
                    meta |-> meta, twirpStatus |-> NoPayload,
                    metaStrings |-> TRUE, extra |-> TRUE]]

\* What both SendError write: code, msg and meta as a JSON object.
ErrorReply(errCode, httpCode, meta) ==
  [status      |-> httpCode,
   contentType |-> "application/json",
   body        |-> [root |-> "object", code |-> errCode, msg |-> "text",
                    meta |-> meta, twirpStatus |-> NoPayload,
                    metaStrings |-> TRUE, extra |-> FALSE]]

MalformedError == [errCode |-> "malformed", httpCode |-> 400]
BadRouteError  == [errCode |-> "bad_route", httpCode |-> 404]

\* SendError for a pair (text code, HTTP status).
SendErrorPair(err) == ErrorReply(err.errCode, err.httpCode, {})

-----------------------------------------------------------------------------
\* Seeded fault: the overriding code is sent with the status code's HTTP status.
SendErrorKeepsHttp(status) ==
  LET translated == StatusToErrorCode(status.code)
  IN  ErrorReply(IF status.twirpStatus # NoPayload THEN status.twirpStatus
                 ELSE translated.errCode,
                 translated.httpCode, status.meta)

\* Seeded fault: an overriding code is sent without the other payloads.
SendErrorDropsMeta(status) ==
  LET translated == StatusToErrorCode(status.code)
  IN  IF status.twirpStatus # NoPayload
      THEN ErrorReply(status.twirpStatus, ErrorCodeToHttpStatus(status.twirpStatus), {})
      ELSE ErrorReply(translated.errCode, translated.httpCode, status.meta)

\* Seeded fault: absl's name of the code is sent instead of Twirp's.
SendErrorUntranslated(status) ==
  ErrorReply(status.code, StatusToErrorCode(status.code).httpCode, status.meta)

-----------------------------------------------------------------------------
\* SendError for a status: a twirp_status payload overrides the text code and
\* with it the HTTP status, every other payload goes to "meta".
SendErrorStatus(status) ==
  IF status.twirpStatus # NoPayload
  THEN ErrorReply(status.twirpStatus,
                  ErrorCodeToHttpStatus(status.twirpStatus), status.meta)
  ELSE LET translated == StatusToErrorCode(status.code)
       IN  ErrorReply(translated.errCode, translated.httpCode, status.meta)

\* The checks DecodeError makes before it trusts the body.
Decodable(resp) ==
  /\ resp.contentType = "application/json"
  /\ resp.body.root = "object"
  /\ resp.body.code # NoPayload
  /\ resp.body.msg = "text"
  /\ resp.body.metaStrings

\* DecodeError indexes root["code"] without asking whether root is an object;
\* the JSON library raises a logic error for an array, a number or a text.
RaisesLogicError(resp) ==
  /\ resp.contentType = "application/json"
  /\ resp.body.root = "other"

\* Seeded fault: the code is taken from the HTTP status of the response.
DecodeFromHttp(resp) ==
  LET hits == {i \in DOMAIN CodeMap : CodeMap[i].httpCode = resp.status}
  IN  IF Decodable(resp) /\ hits # {}
      THEN [code        |-> CodeMap[FirstOf(hits)].code,
            twirpStatus |-> resp.body.twirpStatus,
            meta        |-> resp.body.meta]
      ELSE ErrorStatus("Unavailable")

\* Seeded fault: the text code is kept as the payload that overrides the code.
DecodeKeepsOverride(resp) ==
  IF Decodable(resp)
  THEN [code        |-> ErrorCodeToStatus(resp.body.code),
        twirpStatus |-> resp.body.code,
        meta        |-> resp.body.meta]
  ELSE ErrorStatus("Unavailable")

\* The status DecodeError returns; it does not return if RaisesLogicError.
DecodeError(resp) ==
  IF Decodable(resp)
  THEN [code        |-> ErrorCodeToStatus(resp.body.code),
        twirpStatus |-> resp.body.twirpStatus,
        meta        |-> resp.body.meta]
  ELSE ErrorStatus("Unavailable")
=============================================================================
