----------------------------- MODULE ErrorDefs -----------------------------
(***************************************************************************)
(* The mapping of Twirp errors to absl::Status, include/twirp/error-defs.h *)
(*                                                                         *)
(* The table is kept in the order of the source, because each of the three *)
(* lookups scans it from the top and stops at the first entry that fits.   *)
(***************************************************************************)
EXTENDS Naturals, Sequences

\* absl::StatusCode without kOk: the codes an error status can carry.
ErrorStatusCode ==
  {"Cancelled", "Unknown", "InvalidArgument", "DeadlineExceeded", "NotFound",
   "AlreadyExists", "PermissionDenied", "Unauthenticated",
   "ResourceExhausted", "FailedPrecondition", "Aborted", "OutOfRange",
   "Unimplemented", "Internal", "Unavailable", "DataLoss"}

StatusCode == ErrorStatusCode \cup {"Ok"}

ErrCodeEntry(errCode, httpCode, code) ==
  [errCode |-> errCode, httpCode |-> httpCode, code |-> code]

CodeMap ==
  << ErrCodeEntry("canceled",            408, "Cancelled"),
     ErrCodeEntry("unknown",             500, "Unknown"),
     ErrCodeEntry("invalid_argument",    400, "InvalidArgument"),
     ErrCodeEntry("malformed",           400, "InvalidArgument"),
     ErrCodeEntry("deadline_exceeded",   408, "DeadlineExceeded"),
     ErrCodeEntry("not_found",           404, "NotFound"),
     ErrCodeEntry("bad_route",           404, "Unimplemented"),
     ErrCodeEntry("already_exists",      409, "AlreadyExists"),
     ErrCodeEntry("permission_denied",   403, "PermissionDenied"),
     ErrCodeEntry("unauthenticated",     401, "Unauthenticated"),
     ErrCodeEntry("resource_exhausted",  429, "ResourceExhausted"),
     ErrCodeEntry("failed_precondition", 412, "FailedPrecondition"),
     ErrCodeEntry("aborted",             409, "Aborted"),
     ErrCodeEntry("out_of_range",        400, "OutOfRange"),
     ErrCodeEntry("unimplemented",       501, "Unimplemented"),
     ErrCodeEntry("internal",            500, "Internal"),
     ErrCodeEntry("unavailable",         503, "Unavailable"),
     ErrCodeEntry("dataloss",            500, "DataLoss") >>

\* The first of a set of table positions.
FirstOf(S) == CHOOSE i \in S : \A j \in S : i <= j

EntriesNamed(errCode) == {i \in DOMAIN CodeMap : CodeMap[i].errCode = errCode}
EntriesFor(code)      == {i \in DOMAIN CodeMap : CodeMap[i].code = code}

\* Text error code to absl::StatusCode; the client's direction.
ErrorCodeToStatus(errCode) ==
  IF EntriesNamed(errCode) = {} THEN "Unknown"
  ELSE CodeMap[FirstOf(EntriesNamed(errCode))].code

\* absl::StatusCode to the pair (text error code, HTTP status); the server's.
StatusToErrorCode(code) ==
  IF EntriesFor(code) = {} THEN [errCode |-> "unknown", httpCode |-> 500]
  ELSE LET ent == CodeMap[FirstOf(EntriesFor(code))]
       IN  [errCode |-> ent.errCode, httpCode |-> ent.httpCode]

\* Text error code to HTTP status, for a code taken from a status payload.
ErrorCodeToHttpStatus(errCode) ==
  IF EntriesNamed(errCode) = {} THEN 500
  ELSE CodeMap[FirstOf(EntriesNamed(errCode))].httpCode

\* The text error codes of the table.
TwirpErrorCode == {CodeMap[i].errCode : i \in DOMAIN CodeMap}
=============================================================================
