------------------------------ MODULE GoErrors -----------------------------
(***************************************************************************)
(* The Go peer's side of a Twirp error, as the generated                   *)
(* example/golang/example/service.twirp.go writes it to a response and     *)
(* reads it back.  Responses are those of ErrorCodec, so that either       *)
(* language can read what the other has written.                           *)
(***************************************************************************)
EXTENDS ErrorCodec

CONSTANTS
  GoErrorCode,   \* the text codes twirp.IsValidErrorCode accepts
  GoHttpStatus   \* twirp.ServerHTTPStatusFromErrorCode

\* What the generated code itself puts into an error's metadata.
GoMark == {"http_error_from_intermediary", "status_code", "body", "location",
           "cause", "twirp_invalid_route"}

Redirect(httpStatus) == httpStatus \in 300..399

ASSUME GoErrorsAssumption ==
  /\ GoErrorCode \subseteq WireCode
  /\ {"internal", "unauthenticated", "permission_denied", "bad_route", "malformed",
      "resource_exhausted", "unavailable", "unknown", "canceled",
      "deadline_exceeded"} \subseteq GoErrorCode
  /\ GoHttpStatus \in [GoErrorCode -> Nat \ {200}]
  /\ \A c \in GoErrorCode : ~Redirect(GoHttpStatus[c])
  /\ GoMark \subseteq MetaItem

\* A twirp.Error.  Its metadata may hold the key "twirp_status", kept apart
\* as in Status; in Go it is a key like any other.
GoError == [code : GoErrorCode, twirpStatus : WireCode \cup {NoPayload},
            meta : SUBSET MetaItem]

NewGoError(code, meta) == [code |-> code, twirpStatus |-> NoPayload, meta |-> meta]

\* Any Go error that is not a twirp.Error: it has no code.
PlainError == NewGoError(NoPayload, {})

\* twirp.InternalErrorWith, for a plain error or a wrappedError.
InternalErrorWith == NewGoError("internal", {"cause"})

MalformedRequestError == NewGoError("malformed", {})
GoBadRouteError       == NewGoError("bad_route", {"twirp_invalid_route"})

\* internalWithCause: the metadata is always empty.
InternalServicePanic  == NewGoError("internal", {})

AsTwirpError(err) == IF err.code = NoPayload THEN InternalErrorWith ELSE err

\* Seeded fault: the metadata is left out of the response.
WriteErrorDropsMeta(err) ==
  ErrorReply(AsTwirpError(err).code, GoHttpStatus[AsTwirpError(err).code], {})

\* writeError and marshalErrorToJSON: the response of an error.
WriteError(err) ==
  LET twerr == AsTwirpError(err)
  IN  [status      |-> GoHttpStatus[twerr.code],
       contentType |-> "application/json",
       body        |-> [root |-> "object", code |-> twerr.code, msg |-> "text",
                        meta |-> twerr.meta, twirpStatus |-> twerr.twirpStatus,
                        metaStrings |-> TRUE, extra |-> FALSE]]

-----------------------------------------------------------------------------
\* An answer that is not a Twirp error is an intermediary's: the code is made
\* from the HTTP status, redirects are told apart.
IntermediaryCode(httpStatus) ==
  CASE Redirect(httpStatus)            -> "internal"
    [] httpStatus = 400                -> "internal"
    [] httpStatus = 401                -> "unauthenticated"
    [] httpStatus = 403                -> "permission_denied"
    [] httpStatus = 404                -> "bad_route"
    [] httpStatus = 429                -> "resource_exhausted"
    [] httpStatus \in {502, 503, 504}  -> "unavailable"
    [] OTHER                           -> "unknown"

ErrorFromIntermediary(httpStatus) ==
  NewGoError(IntermediaryCode(httpStatus),
             {"http_error_from_intermediary", "status_code",
              IF Redirect(httpStatus) THEN "location" ELSE "body"})

\* The strict JSON decoder fills the struct: only known members, each a text.
\* The content type is not looked at, "msg" may be absent, and an empty "code"
\* counts as none.
GoReadable(resp) ==
  /\ ~Redirect(resp.status)
  /\ resp.body.root = "object"
  /\ resp.body.code # NoPayload
  /\ resp.body.msg # "other"
  /\ resp.body.metaStrings
  /\ ~resp.body.extra

\* Seeded fault: a code the library does not know is made from the HTTP status.
GuessUnknownCode(resp) ==
  IF ~GoReadable(resp) \/ resp.body.code \notin GoErrorCode
  THEN ErrorFromIntermediary(resp.status)
  ELSE [code |-> resp.body.code, twirpStatus |-> resp.body.twirpStatus,
        meta |-> resp.body.meta]

\* Seeded fault: a code the library does not know is taken as it is.
TrustUnknownCode(resp) ==
  IF ~GoReadable(resp) THEN ErrorFromIntermediary(resp.status)
  ELSE [code |-> resp.body.code, twirpStatus |-> resp.body.twirpStatus,
        meta |-> resp.body.meta]

\* The error a client makes of a response whose status is not 200.
ErrorFromResponse(resp) ==
  IF ~GoReadable(resp) THEN ErrorFromIntermediary(resp.status)
  ELSE IF resp.body.code \notin GoErrorCode THEN NewGoError("internal", {"body"})
  ELSE [code |-> resp.body.code, twirpStatus |-> resp.body.twirpStatus,
        meta |-> resp.body.meta]
=============================================================================
