----------------------------- MODULE ErrorRelay ----------------------------
(***************************************************************************)
(* An error crossing a chain of Twirp services.  The method of the first   *)
(* server fails with some status; its server writes the status to the      *)
(* wire, the client of the next service decodes it, and that service,      *)
(* which was itself serving a call, returns the status it got as its own.  *)
(* Between a server and a client an intermediary (a proxy, a balancer, a   *)
(* Twirp server in another language) may answer in the server's place.     *)
(***************************************************************************)
EXTENDS ErrorCodec

CONSTANTS
  MaxHops,         \* length of the chain
  ForeignResponse  \* the answers an intermediary may substitute

ASSUME RelayAssumption ==
  /\ MaxHops \in Nat \ {0}
  /\ ForeignResponse \subseteq ErrorResponse

VARIABLES
  place,    \* where the error is
  hop,      \* how many servers have sent it, the current one included
  status,   \* the absl::Status held by the service or the client
  wire,     \* the HTTP response last written
  origin,   \* the status the first method returned
  foreign   \* has an intermediary answered at some hop

vars == <<place, hop, status, wire, origin, foreign>>

Place == {"service", "wire", "client", "thrown"}

Init ==
  /\ place = "service"
  /\ hop = 1
  /\ origin \in Status
  /\ status = origin
  /\ wire = ErrorReply("unknown", 500, {})
  /\ foreign = FALSE

\* The server's handler answers with SendError(status).
Send ==
  /\ place = "service"
  /\ wire' = SendErrorStatus(status)
  /\ place' = "wire"
  /\ UNCHANGED <<hop, status, origin, foreign>>

\* An intermediary answers instead.
Substitute ==
  /\ place = "wire"
  /\ wire' \in ForeignResponse
  /\ foreign' = TRUE
  /\ UNCHANGED <<place, hop, status, origin>>

\* MakeRequest sees a status other than 200 and returns DecodeError's status.
Decode ==
  /\ place = "wire"
  /\ ~RaisesLogicError(wire)
  /\ status' = DecodeError(wire)
  /\ place' = "client"
  /\ UNCHANGED <<hop, wire, origin, foreign>>

\* DecodeError does not return: the JSON library's exception leaves MakeRequest.
Raise ==
  /\ place = "wire"
  /\ RaisesLogicError(wire)
  /\ place' = "thrown"
  /\ UNCHANGED <<hop, status, wire, origin, foreign>>

\* The calling service returns the status of the call it made.
Forward ==
  /\ place = "client"
  /\ hop < MaxHops
  /\ hop' = hop + 1
  /\ place' = "service"
  /\ UNCHANGED <<status, wire, origin, foreign>>

Next == Send \/ Substitute \/ Decode \/ Raise \/ Forward

Spec == Init /\ [][Next]_vars

-----------------------------------------------------------------------------
TypeOK ==
  /\ place \in Place
  /\ hop \in 1..MaxHops
  /\ status \in Status
  /\ wire \in ErrorResponse
  /\ origin \in Status
  /\ foreign \in BOOLEAN

(***************************************************************************)
(* However long the chain, every client sees the code the first method     *)
(* meant: writing a status and reading it back is the identity on codes,   *)
(* although the two lookups scan a table with two entries for              *)
(* kInvalidArgument and two for kUnimplemented.                            *)
(***************************************************************************)
CodeSurvives ==
  place = "client" /\ ~foreign => status.code = Meaning(origin)

\* Every payload but twirp_status reaches every client of the chain, and only
\* those: SendError's "meta" and DecodeError's SetPayload lose and add nothing.
MetaSurvives ==
  place = "client" /\ ~foreign => status.meta = origin.meta

\* The text code and the HTTP status a server sends are of the same table
\* entry, whichever of the two lookups chose them, and 200 is never sent.
WireConsistent ==
  place = "wire" /\ ~foreign =>
    /\ wire.status = ErrorCodeToHttpStatus(wire.body.code)
    /\ wire.status # 200

\* From the second hop on the text code on the wire has settled: it no longer
\* depends on how the first method chose it, only on what it meant.
WireSettles ==
  place = "wire" /\ ~foreign /\ hop > 1 =>
    wire.body.code = StatusToErrorCode(Meaning(origin)).errCode

(***************************************************************************)
(* Why those four hold: what the error amounts to at each place of the     *)
(* chain while no intermediary has answered.  Only the first method's own  *)
(* status can carry an override, so the text code that SendError takes     *)
(* from it is gone once a client has decoded it.                           *)
(***************************************************************************)
AtService ==
  /\ Meaning(status) = Meaning(origin)
  /\ status.meta = origin.meta
  /\ hop > 1 => status.twirpStatus = NoPayload

OnWire ==
  /\ Decodable(wire)
  /\ ErrorCodeToStatus(wire.body.code) = Meaning(origin)
  /\ wire.status = ErrorCodeToHttpStatus(wire.body.code)
  /\ wire.body.meta = origin.meta
  /\ wire.body.twirpStatus = NoPayload
  /\ hop > 1 => wire.body.code = StatusToErrorCode(Meaning(origin)).errCode

AtClient ==
  status = [code |-> Meaning(origin), twirpStatus |-> NoPayload, meta |-> origin.meta]

CarriedUnchanged ==
  ~foreign => /\ place = "service" => AtService
              /\ place = "wire"    => OnWire
              /\ place = "client"  => AtClient

\* A call through MakeRequest returns a status or a body, as the comment of
\* Requester::MakeRequest says; it is not left by an exception.
MakeRequestReturns == place # "thrown"
=============================================================================
