---------------------------- MODULE MCMixedRelay ---------------------------
(***************************************************************************)
(* Small instance of MixedRelay for TLC: every status code and text code,  *)
(* one text code outside the table and one ("dataloss") that Go's library  *)
(* is taken not to know, so that errors both survive and are lost; chains  *)
(* of three services in every mixture of the two languages.                *)
(***************************************************************************)
EXTENDS MixedRelay

CONSTANT m1

MCCustomCode   == {"quota"}
MCMetaItem     == GoMark \cup {m1}
MCGoErrorCode  == TwirpErrorCode \ {"dataloss"}
MCGoHttpStatus == [c \in MCGoErrorCode |-> ErrorCodeToHttpStatus(c)]

MCCppError      == [code : ErrorStatusCode, twirpStatus : WireCode \cup {NoPayload},
                    meta : {{}, {m1}}]
MCGoMethodError == {NewGoError(c, meta) : c \in MCGoErrorCode, meta \in {{}, {m1}}}
                     \cup {InternalErrorWith}

Answer(status, root, code, twirpStatus, extra) ==
  [status |-> status, contentType |-> "application/json",
   body   |-> [root |-> root, code |-> code, msg |-> "text", meta |-> {m1},
               twirpStatus |-> twirpStatus, metaStrings |-> TRUE, extra |-> extra]]

\* A redirect, a gateway's timeout, a page that is not an object, an error
\* with a member the Go decoder does not know, and a Twirp error of another
\* server whose metadata has a twirp_status key.
MCForeignResponse ==
  { Answer(302, "object", "aborted", NoPayload, FALSE),
    Answer(504, "none", NoPayload, NoPayload, FALSE),
    Answer(404, "other", NoPayload, NoPayload, FALSE),
    Answer(409, "object", "aborted", NoPayload, TRUE),
    Answer(409, "object", "aborted", "malformed", FALSE) }
=============================================================================
