----------------------------- MODULE MixedRelay ----------------------------
(***************************************************************************)
(* An error crossing a chain of services some of which are written in C++  *)
(* with this library and the others in Go with the generated peer of       *)
(* example/golang.  ErrorRelay is the chain of C++ services only.  Each    *)
(* service reads the error with its own client and returns it from its own *)
(* server, so an error changes its form wherever the language does.        *)
(***************************************************************************)
EXTENDS GoErrors

CONSTANTS
  MaxHops,         \* length of the chain
  CppError,        \* what a C++ method at the start may return
  GoMethodError,   \* what a Go method at the start may return
  ForeignResponse  \* the answers an intermediary may substitute

ASSUME MixedRelayAssumption ==
  /\ MaxHops \in Nat \ {0}
  /\ CppError \subseteq Status
  /\ GoMethodError \subseteq {e \in GoError : e.twirpStatus = NoPayload}
  /\ ForeignResponse \subseteq ErrorResponse

VARIABLES
  place,     \* where the error is
  language,  \* of the service or client that holds it
  hop,       \* how many servers have sent it, the current one included
  held,      \* the absl::Status or the twirp.Error held there
  wire,      \* the HTTP response last written
  first,     \* the text code the first server sent
  origin,    \* the metadata of the first method's error
  foreign    \* has an intermediary answered at some hop

vars == <<place, language, hop, held, wire, first, origin, foreign>>

Language == {"cpp", "go"}
Place    == {"service", "wire", "client", "thrown"}

\* The response of a server, and the error a client makes of one.
Written(lang, err) == IF lang = "cpp" THEN SendErrorStatus(err) ELSE WriteError(err)
Read(lang, resp)   == IF lang = "cpp" THEN DecodeError(resp) ELSE ErrorFromResponse(resp)

Init ==
  /\ place = "service"
  /\ language \in Language
  /\ hop = 1
  /\ held \in (IF language = "cpp" THEN CppError ELSE GoMethodError)
  /\ wire = ErrorReply("unknown", 500, {})
  /\ first = Written(language, held).body.code
  /\ origin = held.meta
  /\ foreign = FALSE

Send ==
  /\ place = "service"
  /\ wire' = Written(language, held)
  /\ place' = "wire"
  /\ UNCHANGED <<language, hop, held, first, origin, foreign>>

Substitute ==
  /\ place = "wire"
  /\ wire' \in ForeignResponse
  /\ foreign' = TRUE
  /\ UNCHANGED <<place, language, hop, held, first, origin>>

\* The client of the next service, in whichever language that is written.
Decode ==
  /\ place = "wire"
  /\ language' \in Language
  /\ ~(language' = "cpp" /\ RaisesLogicError(wire))
  /\ held' = Read(language', wire)
  /\ place' = "client"
  /\ UNCHANGED <<hop, wire, first, origin, foreign>>

\* A C++ client is left by the exception of its JSON library.
Raise ==
  /\ place = "wire"
  /\ RaisesLogicError(wire)
  /\ place' = "thrown"
  /\ UNCHANGED <<language, hop, held, wire, first, origin, foreign>>

\* A service returns the error of the call it made.
Forward ==
  /\ place = "client"
  /\ hop < MaxHops
  /\ hop' = hop + 1
  /\ place' = "service"
  /\ UNCHANGED <<language, held, wire, first, origin, foreign>>

Next == Send \/ Substitute \/ Decode \/ Raise \/ Forward

Spec == Init /\ [][Next]_vars

-----------------------------------------------------------------------------
\* What the error means, in absl's codes, to the one who holds it.
HeldMeaning ==
  IF language = "cpp" THEN Meaning(held) ELSE ErrorCodeToStatus(held.code)

FirstMeaning == ErrorCodeToStatus(first)

\* Go's library knows the text code the first server chose and the one that
\* a C++ server would choose for what it means.
Carriable ==
  /\ first \in GoErrorCode
  /\ StatusToErrorCode(FirstMeaning).errCode \in GoErrorCode

TypeOK ==
  /\ place \in Place
  /\ language \in Language
  /\ hop \in 1..MaxHops
  /\ held \in (IF language = "cpp" THEN Status ELSE GoError)
  /\ wire \in ErrorResponse
  /\ first \in WireCode
  /\ origin \in SUBSET MetaItem
  /\ foreign \in BOOLEAN

(***************************************************************************)
(* Each language reads what the other writes: a response of either server  *)
(* passes the checks of both clients, which are not the same checks, and   *)
(* is never taken for a success or for an intermediary's redirect.         *)
(***************************************************************************)
Readable ==
  place = "wire" /\ ~foreign =>
    /\ Decodable(wire) /\ GoReadable(wire)
    /\ wire.status # 200

(***************************************************************************)
(* Whatever the languages along the chain, the error keeps its meaning and *)
(* its metadata, as long as Go's library knows the text codes involved.    *)
(***************************************************************************)
MeaningSurvives ==
  place \in {"service", "client"} /\ ~foreign /\ Carriable =>
    HeldMeaning = FirstMeaning /\ held.meta = origin

(***************************************************************************)
(* A text code Go does not know (one a C++ service put in twirp_status) is *)
(* an internal error from the first Go client on; it never becomes a third *)
(* thing, one that a caller would act upon.                                *)
(***************************************************************************)
NeverAThirdThing ==
  place \in {"service", "client"} /\ ~foreign =>
    HeldMeaning \in {FirstMeaning, "Internal"}

(***************************************************************************)
(* The inductive form: an error that has been lost to "internal" stays so, *)
(* any other means what the first meant, and what is on the wire can be    *)
(* read by both clients.                                                   *)
(***************************************************************************)
Faithful(meaning, meta) ==
  \/ meaning = FirstMeaning /\ meta = origin
  \/ meaning = "Internal" /\ meta = {"body"} /\ ~Carriable

AtHolder ==
  /\ Faithful(HeldMeaning, held.meta)
  /\ hop > 1 \/ place = "client" \/ language = "go" => held.twirpStatus = NoPayload
  /\ hop = 1 /\ place = "service" => Written(language, held).body.code = first

OnWire ==
  /\ Decodable(wire) /\ GoReadable(wire) /\ wire.status # 200
  /\ wire.body.twirpStatus = NoPayload
  /\ Faithful(ErrorCodeToStatus(wire.body.code), wire.body.meta)
  /\ Carriable => wire.body.code \in GoErrorCode

MixedInv ==
  ~foreign => /\ place \in {"service", "client"} => AtHolder
              /\ place = "wire" => OnWire
=============================================================================
