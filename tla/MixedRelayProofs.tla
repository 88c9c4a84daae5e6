-------------------------- MODULE MixedRelayProofs -------------------------
(***************************************************************************)
(* What a chain of C++ and Go services, of any length and in any mixture,  *)
(* does to an error: proofs of the invariants of MixedRelay.  What the     *)
(* C++ side writes and reads is proved in ErrorCodecProofs.                *)
(***************************************************************************)
EXTENDS MixedRelay, ErrorCodecProofs

-----------------------------------------------------------------------------
\* No entry of the table has a redirect's HTTP status, so Go does not take a
\* C++ server's error for one.
LEMMA NoRedirectInTable ==
  ASSUME NEW errCode
  PROVE  ~Redirect(ErrorCodeToHttpStatus(errCode))
<1>1. ASSUME NEW i \in DOMAIN CodeMap PROVE ~Redirect(CodeMap[i].httpCode)
  BY CodeMapDomain DEF CodeMap, ErrCodeEntry, Redirect
<1>2. CASE errCode \in TwirpErrorCode
  <2>1. PICK i \in DOMAIN CodeMap : CodeMap[i].errCode = errCode
    BY <1>2 DEF TwirpErrorCode
  <2> QED
    BY <2>1, <1>1, EntryOfName
<1>3. CASE errCode \notin TwirpErrorCode
  BY <1>3, EntryOfNoName DEF Redirect
<1> QED
  BY <1>2, <1>3

\* "internal" means kInternal to a C++ client.
LEMMA InternalMeansInternal == ErrorCodeToStatus("internal") = "Internal"
<1>1. 16 \in DOMAIN CodeMap /\ CodeMap[16].errCode = "internal" /\ CodeMap[16].code = "Internal"
  BY CodeMapDomain DEF CodeMap, ErrCodeEntry
<1> QED
  BY <1>1, EntryOfName

\* What a C++ server writes can be read by a Go client.
LEMMA SendErrorGoReadable ==
  ASSUME NEW st \in Status
  PROVE  GoReadable(SendErrorStatus(st)) /\ SendErrorStatus(st).status # 200
<1> DEFINE resp == SendErrorStatus(st)
<1>1. resp.body.root = "object" /\ resp.body.msg = "text" /\ resp.body.metaStrings /\ ~resp.body.extra
  BY DEF SendErrorStatus, ErrorReply
<1>2. resp.body.code # NoPayload
  <2>1. resp \in ErrorResponse /\ Decodable(resp)
    BY SendErrorWrites
  <2> QED
    BY <2>1 DEF Decodable
<1>3. resp.status = ErrorCodeToHttpStatus(resp.body.code)
  BY SendErrorWrites
<1>4. ~Redirect(resp.status) /\ resp.status # 200
  BY <1>3, NoRedirectInTable, LookupsOfNames
<1> QED
  BY <1>1, <1>2, <1>4 DEF GoReadable

\* What a Go server writes for a twirp.Error.
LEMMA WriteErrorWrites ==
  ASSUME NEW err \in GoError
  PROVE  /\ WriteError(err) \in ErrorResponse
         /\ Decodable(WriteError(err)) /\ GoReadable(WriteError(err))
         /\ WriteError(err).status # 200
         /\ WriteError(err).body.code = err.code
         /\ WriteError(err).body.meta = err.meta
         /\ WriteError(err).body.twirpStatus = err.twirpStatus
<1>1. err.code \in GoErrorCode /\ err.code \in WireCode /\ err.code # NoPayload
  BY GoErrorsAssumption, CodecAssumption DEF GoError, WireCode
<1>2. AsTwirpError(err) = err
  BY <1>1 DEF AsTwirpError
<1>3. GoHttpStatus[err.code] \in Nat \ {200} /\ ~Redirect(GoHttpStatus[err.code])
  BY <1>1, GoErrorsAssumption
<1>4. err.meta \in SUBSET MetaItem /\ err.twirpStatus \in WireCode \cup {NoPayload}
  BY DEF GoError
<1>5. WriteError(err) =
        [status      |-> GoHttpStatus[err.code],
         contentType |-> "application/json",
         body        |-> [root |-> "object", code |-> err.code, msg |-> "text",
                          meta |-> err.meta, twirpStatus |-> err.twirpStatus,
                          metaStrings |-> TRUE, extra |-> FALSE]]
  BY <1>2 DEF WriteError
<1>6. WriteError(err) \in ErrorResponse
  BY <1>1, <1>3, <1>4, <1>5 DEF ErrorResponse, ErrorBody, ContentType
<1> QED
  BY <1>1, <1>3, <1>5, <1>6 DEF Decodable, GoReadable

\* A Go client makes a twirp.Error with a code the library knows of any answer.
LEMMA ErrorFromResponseType ==
  ASSUME NEW resp \in ErrorResponse
  PROVE  ErrorFromResponse(resp) \in GoError
<1>1. IntermediaryCode(resp.status) \in GoErrorCode
  BY GoErrorsAssumption DEF IntermediaryCode
<1>2. ErrorFromIntermediary(resp.status) \in GoError
  BY <1>1, GoErrorsAssumption DEF ErrorFromIntermediary, NewGoError, GoError, GoMark
<1>3. NewGoError("internal", {"body"}) \in GoError
  BY GoErrorsAssumption DEF NewGoError, GoError, GoMark
<1>4. resp.body.twirpStatus \in WireCode \cup {NoPayload} /\ resp.body.meta \in SUBSET MetaItem
  BY DEF ErrorResponse, ErrorBody
<1> QED
  BY <1>2, <1>3, <1>4 DEF ErrorFromResponse, GoError

\* What either server writes for an error it holds.
LEMMA WrittenType ==
  ASSUME NEW lang \in Language, NEW err \in (IF lang = "cpp" THEN Status ELSE GoError)
  PROVE  /\ Written(lang, err) \in ErrorResponse
         /\ Decodable(Written(lang, err)) /\ GoReadable(Written(lang, err))
         /\ Written(lang, err).status # 200
         /\ Written(lang, err).body.code \in WireCode
         /\ Written(lang, err).body.meta = err.meta
<1>1. CASE lang = "cpp"
  <2>1. Written(lang, err) = SendErrorStatus(err) /\ err \in Status
    BY <1>1 DEF Written
  <2>2. SendErrorStatus(err) \in ErrorResponse /\ Decodable(SendErrorStatus(err))
    BY <2>1, SendErrorWrites
  <2>3. SendErrorStatus(err).body.code \in WireCode
    BY <2>2 DEF ErrorResponse, ErrorBody, Decodable
  <2> QED
    BY <2>1, <2>2, <2>3, SendErrorWrites, SendErrorGoReadable
<1>2. CASE lang = "go"
  <2>1. Written(lang, err) = WriteError(err) /\ err \in GoError
    BY <1>2 DEF Written
  <2>2. err.code \in WireCode
    BY <2>1, GoErrorsAssumption DEF GoError
  <2> QED
    BY <2>1, <2>2, WriteErrorWrites
<1> QED
  BY <1>1, <1>2 DEF Language

\* Every variable keeps to its type: in particular a Go service never holds an
\* error whose code its library does not know, whatever was on the wire.
THEOREM MixedTypeOK == Spec => []TypeOK
<1>1. Init => TypeOK
  <2> SUFFICES ASSUME Init PROVE TypeOK
    OBVIOUS
  <2>1. language \in Language /\ held \in (IF language = "cpp" THEN Status ELSE GoError)
    BY MixedRelayAssumption DEF Init, Language
  <2>2. first \in WireCode
    BY <2>1, WrittenType DEF Init
  <2>3. held.meta \in SUBSET MetaItem
    BY <2>1 DEF Status, GoError, Language
  <2>4. ErrorReply("unknown", 500, {}) \in ErrorResponse
    <3>1. "unknown" \in WireCode
      BY GoErrorsAssumption
    <3> QED
      BY <3>1, ErrorReplyDecodable
  <2>5. 1 \in 1..MaxHops
    BY MixedRelayAssumption
  <2> QED
    BY <2>1, <2>2, <2>3, <2>4, <2>5 DEF Init, TypeOK, Place
<1>2. TypeOK /\ [Next]_vars => TypeOK'
  <2> SUFFICES ASSUME TypeOK, [Next]_vars PROVE TypeOK'
    OBVIOUS
  <2> USE DEF TypeOK, Place
  <2>1. CASE Send
    BY <2>1, WrittenType DEF Send
  <2>2. CASE Substitute
    BY <2>2, MixedRelayAssumption DEF Substitute
  <2>3. CASE Decode
    <3>1. DecodeError(wire) \in Status /\ ErrorFromResponse(wire) \in GoError
      BY DecodeErrorType, ErrorFromResponseType
    <3>2. held' \in (IF language' = "cpp" THEN Status ELSE GoError)
      BY <2>3, <3>1 DEF Decode, Read
    <3> QED
      BY <2>3, <3>2 DEF Decode
  <2>4. CASE Raise
    BY <2>4 DEF Raise
  <2>5. CASE Forward
    BY <2>5, MixedRelayAssumption DEF Forward
  <2>6. CASE UNCHANGED vars
    BY <2>6 DEF vars
  <2> QED
    BY <2>1, <2>2, <2>3, <2>4, <2>5, <2>6 DEF Next
<1> QED
  BY <1>1, <1>2, PTL DEF Spec

-----------------------------------------------------------------------------
\* The first server's text code means what the error it sends means.
LEMMA WrittenMeaning ==
  ASSUME NEW lang \in Language, NEW err \in (IF lang = "cpp" THEN Status ELSE GoError),
         lang = "go" => err.twirpStatus = NoPayload
  PROVE  /\ ErrorCodeToStatus(Written(lang, err).body.code)
              = (IF lang = "cpp" THEN Meaning(err) ELSE ErrorCodeToStatus(err.code))
         /\ Written(lang, err).body.twirpStatus = NoPayload
<1>1. CASE lang = "cpp"
  BY <1>1, SendErrorWrites DEF Written
<1>2. CASE lang = "go"
  BY <1>2, WriteErrorWrites DEF Written
<1> QED
  BY <1>1, <1>2 DEF Language

\* What either client makes of a response both can read.
LEMMA ReadFaithfully ==
  ASSUME TypeOK, OnWire, NEW lang \in Language
  PROVE  LET err     == Read(lang, wire)
             meaning == IF lang = "cpp" THEN Meaning(err) ELSE ErrorCodeToStatus(err.code)
         IN  Faithful(meaning, err.meta) /\ err.twirpStatus = NoPayload
<1>1. CASE lang = "cpp"
  <2>1. Read(lang, wire) = [code        |-> ErrorCodeToStatus(wire.body.code),
                            twirpStatus |-> NoPayload,
                            meta        |-> wire.body.meta]
    BY <1>1 DEF Read, DecodeError, OnWire
  <2> QED
    BY <1>1, <2>1 DEF Meaning, OnWire
<1>2. CASE lang = "go" /\ wire.body.code \in GoErrorCode
  <2>1. Read(lang, wire) = [code |-> wire.body.code, twirpStatus |-> NoPayload,
                            meta |-> wire.body.meta]
    BY <1>2 DEF Read, ErrorFromResponse, OnWire
  <2> QED
    BY <1>2, <2>1 DEF OnWire
<1>3. CASE lang = "go" /\ wire.body.code \notin GoErrorCode
  <2>1. Read(lang, wire) = NewGoError("internal", {"body"}) /\ ~Carriable
    BY <1>3 DEF Read, ErrorFromResponse, OnWire
  <2> QED
    BY <1>3, <2>1, InternalMeansInternal DEF Faithful, NewGoError
<1> QED
  BY <1>1, <1>2, <1>3 DEF Language

\* What a faithful holder sends is what OnWire says.
LEMMA SendFaithfully ==
  ASSUME TypeOK, AtHolder, place = "service"
  PROVE  LET resp == Written(language, held)
         IN  /\ Decodable(resp) /\ GoReadable(resp) /\ resp.status # 200
             /\ resp.body.twirpStatus = NoPayload
             /\ Faithful(ErrorCodeToStatus(resp.body.code), resp.body.meta)
             /\ Carriable => resp.body.code \in GoErrorCode
<1> DEFINE resp == Written(language, held)
<1>1. /\ language \in Language /\ held \in (IF language = "cpp" THEN Status ELSE GoError)
      /\ language = "go" => held.twirpStatus = NoPayload
  BY DEF TypeOK, AtHolder
<1>2. Decodable(resp) /\ GoReadable(resp) /\ resp.status # 200 /\ resp.body.meta = held.meta
  BY <1>1, WrittenType
<1>3. ErrorCodeToStatus(resp.body.code) = HeldMeaning /\ resp.body.twirpStatus = NoPayload
  BY <1>1, WrittenMeaning DEF HeldMeaning
<1>4. ASSUME Carriable PROVE resp.body.code \in GoErrorCode
  <2>1. CASE hop = 1
    BY <1>4, <2>1 DEF AtHolder, Carriable
  <2>2. CASE hop # 1 /\ language = "cpp"
    <3>1. hop > 1
      BY <2>2 DEF TypeOK
    <3>2. held.twirpStatus = NoPayload /\ Meaning(held) = FirstMeaning
      BY <1>4, <2>2, <3>1 DEF AtHolder, Faithful, HeldMeaning
    <3>3. resp.body.code = StatusToErrorCode(FirstMeaning).errCode
      BY <1>1, <2>2, <3>2, SendErrorWrites DEF Written
    <3> QED
      BY <1>4, <3>3 DEF Carriable
  <2>3. CASE language = "go"
    BY <1>1, <2>3, WriteErrorWrites DEF Written, GoError
  <2> QED
    BY <1>1, <2>1, <2>2, <2>3 DEF Language
<1> QED
  BY <1>2, <1>3, <1>4 DEF AtHolder

\* While no intermediary answers, every holder of the error has the first
\* method's meaning and metadata, or has lost it to "internal" because Go's
\* library does not know a text code on the way.
THEOREM MixedFaithful == Spec => []MixedInv
<1>1. TypeOK /\ Init => MixedInv
  <2> SUFFICES ASSUME TypeOK, Init PROVE AtHolder
    BY DEF MixedInv, Init
  <2>1. /\ language \in Language /\ held \in (IF language = "cpp" THEN Status ELSE GoError)
        /\ language = "go" => held.twirpStatus = NoPayload
    BY MixedRelayAssumption DEF TypeOK, Init
  <2>2. FirstMeaning = HeldMeaning /\ held.meta = origin
    BY <2>1, WrittenMeaning DEF Init, FirstMeaning, HeldMeaning
  <2> QED
    BY <2>1, <2>2 DEF AtHolder, Faithful, Init
<1>2. TypeOK /\ MixedInv /\ [Next]_vars => MixedInv'
  <2> SUFFICES ASSUME TypeOK, MixedInv, [Next]_vars, ~foreign'
               PROVE  /\ place' \in {"service", "client"} => AtHolder'
                      /\ place' = "wire" => OnWire'
    BY DEF MixedInv
  <2> USE DEF Carriable, FirstMeaning, Faithful
  <2>1. CASE Send
    <3>1. AtHolder /\ place = "service" /\ wire' = Written(language, held)
          /\ first' = first /\ origin' = origin
      BY <2>1 DEF Send, MixedInv
    <3>2. OnWire'
      BY <3>1, SendFaithfully DEF OnWire
    <3> QED
      BY <2>1, <3>2 DEF Send
  <2>2. CASE Substitute
    BY <2>2 DEF Substitute
  <2>3. CASE Decode
    <3>1. /\ OnWire /\ language' \in Language /\ held' = Read(language', wire)
          /\ place' = "client" /\ first' = first /\ origin' = origin
      BY <2>3 DEF Decode, MixedInv
    <3>2. Faithful(HeldMeaning, held.meta)' /\ held'.twirpStatus = NoPayload
      BY <3>1, ReadFaithfully DEF HeldMeaning
    <3> QED
      BY <3>1, <3>2 DEF AtHolder
  <2>4. CASE Raise
    BY <2>4 DEF Raise
  <2>5. CASE Forward
    <3>1. /\ AtHolder /\ place = "client" /\ held' = held /\ language' = language
          /\ first' = first /\ origin' = origin /\ place' = "service"
          /\ hop' = hop + 1 /\ hop \in 1..MaxHops
      BY <2>5 DEF Forward, MixedInv, TypeOK
    <3>2. hop' # 1
      BY <3>1, MixedRelayAssumption
    <3> QED
      BY <3>1, <3>2 DEF AtHolder, HeldMeaning
  <2>6. CASE UNCHANGED vars
    BY <2>6 DEF vars, MixedInv, AtHolder, OnWire, HeldMeaning
  <2> QED
    BY <2>1, <2>2, <2>3, <2>4, <2>5, <2>6 DEF Next
<1>3. Spec => []TypeOK
  BY MixedTypeOK
<1> QED
  BY <1>1, <1>2, <1>3, PTL DEF Spec

-----------------------------------------------------------------------------
\* Each language's client accepts what the other's server writes.
THEOREM MixedReadable == Spec => []Readable
<1>1. MixedInv => Readable
  BY DEF MixedInv, OnWire, Readable
<1> QED
  BY <1>1, MixedFaithful, PTL

\* The error keeps its meaning and metadata across any mixture of languages
\* whose libraries know its text codes.
THEOREM MixedMeaningSurvives == Spec => []MeaningSurvives
<1>1. MixedInv => MeaningSurvives
  BY DEF MixedInv, AtHolder, Faithful, MeaningSurvives
<1> QED
  BY <1>1, MixedFaithful, PTL

\* An error Go cannot carry becomes an internal error and nothing else.
THEOREM MixedNeverAThirdThing == Spec => []NeverAThirdThing
<1>1. MixedInv => NeverAThirdThing
  BY DEF MixedInv, AtHolder, Faithful, NeverAThirdThing
<1> QED
  BY <1>1, MixedFaithful, PTL
=============================================================================
