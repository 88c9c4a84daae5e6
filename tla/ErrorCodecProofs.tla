-------------------------- MODULE ErrorCodecProofs -------------------------
(***************************************************************************)
(* What the lookups of include/twirp/error-defs.h compute for every code,  *)
(* and what the two SendError and DecodeError make of every status and     *)
(* every response.                                                         *)
(***************************************************************************)
EXTENDS ErrorCodec, WellFoundedInduction, TLAPS

\* The first of a non-empty set of positions is one of them.
LEMMA FirstOfIn ==
  ASSUME NEW S \in SUBSET Nat, S # {}
  PROVE  FirstOf(S) \in S /\ \A j \in S : FirstOf(S) <= j
<1> DEFINE Below == {p \in Nat \X Nat : p[1] < p[2]}
<1>1. IsWellFoundedOn(Below, Nat)
  BY NatLessThanWellFounded DEF OpToRel
<1>2. PICK i \in S : \A j \in S : <<j, i>> \notin Below
  BY <1>1, WFMin
<1>3. ASSUME NEW j \in S PROVE i <= j
  <2>1. i \in Nat /\ j \in Nat
    OBVIOUS
  <2>2. <<j, i>> \notin Below
    BY <1>2
  <2>3. ~(j < i)
    BY <2>1, <2>2
  <2> QED
    BY <2>1, <2>3
<1> QED
  BY <1>3 DEF FirstOf

\* A position that is in the set and not above any other is the first.
LEMMA FirstOfIs ==
  ASSUME NEW S \in SUBSET Nat, NEW i \in S, \A j \in S : i <= j
  PROVE  FirstOf(S) = i
<1>1. FirstOf(S) \in S /\ FirstOf(S) <= i
  BY FirstOfIn
<1>2. i <= FirstOf(S)
  BY <1>1
<1>3. i \in Nat /\ FirstOf(S) \in Nat
  BY <1>1
<1> QED
  BY <1>1, <1>2, <1>3

LEMMA FirstOfOne ==
  ASSUME NEW i \in Nat
  PROVE  FirstOf({i}) = i
BY FirstOfIs

\* The text codes of the table are all different, so that a text code has at
\* most one entry and the lookups by text code do not depend on the order.
LEMMA CodeMapDomain == DOMAIN CodeMap = 1..18
BY DEF CodeMap

LEMMA NamesDiffer ==
  ASSUME NEW i \in DOMAIN CodeMap, NEW j \in DOMAIN CodeMap,
         CodeMap[i].errCode = CodeMap[j].errCode
  PROVE  i = j
BY CodeMapDomain DEF CodeMap, ErrCodeEntry

LEMMA EntryOfName ==
  ASSUME NEW i \in DOMAIN CodeMap
  PROVE  /\ ErrorCodeToStatus(CodeMap[i].errCode) = CodeMap[i].code
         /\ ErrorCodeToHttpStatus(CodeMap[i].errCode) = CodeMap[i].httpCode
<1>1. EntriesNamed(CodeMap[i].errCode) = {i}
  BY NamesDiffer DEF EntriesNamed
<1>2. FirstOf({i}) = i
  BY FirstOfOne, CodeMapDomain
<1> QED
  BY <1>1, <1>2 DEF ErrorCodeToStatus, ErrorCodeToHttpStatus

\* Every position holds an error code and a status other than 200.
LEMMA CodeMapEntries ==
  ASSUME NEW i \in DOMAIN CodeMap
  PROVE  /\ CodeMap[i].code \in ErrorStatusCode
         /\ CodeMap[i].httpCode \in Nat \ {200}
         /\ CodeMap[i].errCode \in TwirpErrorCode
<1>1. CodeMap[i].code \in ErrorStatusCode /\ CodeMap[i].httpCode \in Nat \ {200}
  BY CodeMapDomain DEF CodeMap, ErrCodeEntry, ErrorStatusCode
<1> QED
  BY <1>1 DEF TwirpErrorCode

\* A code outside the table is read as kUnknown and sent with 500, as the
\* comment of StatusToErrorCode has it for status codes.
LEMMA EntryOfNoName ==
  ASSUME NEW errCode, errCode \notin TwirpErrorCode
  PROVE  ErrorCodeToStatus(errCode) = "Unknown" /\ ErrorCodeToHttpStatus(errCode) = 500
<1>1. EntriesNamed(errCode) = {}
  BY DEF EntriesNamed, TwirpErrorCode
<1> QED
  BY <1>1 DEF ErrorCodeToStatus, ErrorCodeToHttpStatus

\* Whatever text a server sends, the client's status is an error and the HTTP
\* status that goes with the text is not 200.
LEMMA LookupsOfNames ==
  ASSUME NEW errCode
  PROVE  /\ ErrorCodeToStatus(errCode) \in ErrorStatusCode
         /\ ErrorCodeToHttpStatus(errCode) \in Nat \ {200}
<1>1. CASE errCode \in TwirpErrorCode
  <2>1. PICK i \in DOMAIN CodeMap : CodeMap[i].errCode = errCode
    BY <1>1 DEF TwirpErrorCode
  <2> QED
    BY <2>1, EntryOfName, CodeMapEntries
<1>2. CASE errCode \notin TwirpErrorCode
  BY <1>2, EntryOfNoName DEF ErrorStatusCode
<1> QED
  BY <1>1, <1>2

-----------------------------------------------------------------------------
\* Every status code has an entry, the comment of StatusToErrorCode says so.
LEMMA EveryCodeHasEntry ==
  ASSUME NEW code \in ErrorStatusCode
  PROVE  \E i \in DOMAIN CodeMap : CodeMap[i].code = code
<1>1. \A n \in 1..18 : n \in DOMAIN CodeMap
  BY CodeMapDomain
<1>2. /\ CodeMap[1].code = "Cancelled"          /\ CodeMap[2].code = "Unknown"
      /\ CodeMap[3].code = "InvalidArgument"    /\ CodeMap[5].code = "DeadlineExceeded"
      /\ CodeMap[6].code = "NotFound"           /\ CodeMap[7].code = "Unimplemented"
      /\ CodeMap[8].code = "AlreadyExists"      /\ CodeMap[9].code = "PermissionDenied"
      /\ CodeMap[10].code = "Unauthenticated"   /\ CodeMap[11].code = "ResourceExhausted"
      /\ CodeMap[12].code = "FailedPrecondition" /\ CodeMap[13].code = "Aborted"
      /\ CodeMap[14].code = "OutOfRange"        /\ CodeMap[16].code = "Internal"
      /\ CodeMap[17].code = "Unavailable"       /\ CodeMap[18].code = "DataLoss"
  BY DEF CodeMap, ErrCodeEntry
<1> QED
  BY <1>1, <1>2 DEF ErrorStatusCode

(***************************************************************************)
(* The table round trip: the text code a server chooses for a status code  *)
(* is read back as that status code, and the HTTP status it chooses with   *)
(* it is the one it would choose for the text.  That the table has two     *)
(* entries for kInvalidArgument and for kUnimplemented does not matter.    *)
(***************************************************************************)
THEOREM TableRoundTrip ==
  \A code \in ErrorStatusCode :
    /\ StatusToErrorCode(code).errCode \in TwirpErrorCode
    /\ ErrorCodeToStatus(StatusToErrorCode(code).errCode) = code
    /\ ErrorCodeToHttpStatus(StatusToErrorCode(code).errCode)
         = StatusToErrorCode(code).httpCode
<1> TAKE code \in ErrorStatusCode
<1> DEFINE i == FirstOf(EntriesFor(code))
<1>1. EntriesFor(code) # {} /\ EntriesFor(code) \in SUBSET Nat
  BY EveryCodeHasEntry, CodeMapDomain DEF EntriesFor
<1>2. i \in EntriesFor(code)
  BY <1>1, FirstOfIn
<1>3. i \in DOMAIN CodeMap /\ CodeMap[i].code = code
  BY <1>2 DEF EntriesFor
<1>4. /\ StatusToErrorCode(code).errCode  = CodeMap[i].errCode
      /\ StatusToErrorCode(code).httpCode = CodeMap[i].httpCode
  BY <1>1 DEF StatusToErrorCode
<1> HIDE DEF i
<1> QED
  BY <1>3, <1>4, EntryOfName, CodeMapEntries

-----------------------------------------------------------------------------
\* What both SendError write is an error response, and it can be decoded.
LEMMA ErrorReplyDecodable ==
  ASSUME NEW errCode \in WireCode, NEW httpCode \in Nat, NEW meta \in SUBSET MetaItem
  PROVE  /\ ErrorReply(errCode, httpCode, meta) \in ErrorResponse
         /\ Decodable(ErrorReply(errCode, httpCode, meta))
<1>1. errCode # NoPayload
  BY CodecAssumption DEF WireCode
<1> QED
  BY <1>1 DEF ErrorReply, ErrorResponse, ErrorBody, ContentType, Decodable

\* What SendError writes for a status.
LEMMA SendErrorWrites ==
  ASSUME NEW st \in Status
  PROVE  /\ SendErrorStatus(st) \in ErrorResponse
         /\ Decodable(SendErrorStatus(st))
         /\ ErrorCodeToStatus(SendErrorStatus(st).body.code) = Meaning(st)
         /\ SendErrorStatus(st).status = ErrorCodeToHttpStatus(SendErrorStatus(st).body.code)
         /\ SendErrorStatus(st).body.meta = st.meta
         /\ SendErrorStatus(st).body.twirpStatus = NoPayload
         /\ st.twirpStatus = NoPayload =>
              SendErrorStatus(st).body.code = StatusToErrorCode(Meaning(st)).errCode
<1> DEFINE errCode == IF st.twirpStatus # NoPayload THEN st.twirpStatus
                      ELSE StatusToErrorCode(st.code).errCode
           httpCode == ErrorCodeToHttpStatus(errCode)
<1>1. /\ st.code \in ErrorStatusCode
      /\ st.twirpStatus \in WireCode \cup {NoPayload}
      /\ st.meta \in SUBSET MetaItem
  BY DEF Status
<1>2. errCode \in WireCode /\ httpCode \in Nat
  BY <1>1, TableRoundTrip, LookupsOfNames DEF WireCode
<1>3. SendErrorStatus(st) = ErrorReply(errCode, httpCode, st.meta)
  BY <1>1, TableRoundTrip DEF SendErrorStatus
<1>4. ErrorCodeToStatus(errCode) = Meaning(st)
  BY <1>1, TableRoundTrip DEF Meaning
<1>5. st.twirpStatus = NoPayload => errCode = StatusToErrorCode(Meaning(st)).errCode
  BY DEF Meaning
<1> HIDE DEF errCode, httpCode
<1>6. /\ ErrorReply(errCode, httpCode, st.meta).body.code = errCode
      /\ ErrorReply(errCode, httpCode, st.meta).status = httpCode
      /\ ErrorReply(errCode, httpCode, st.meta).body.meta = st.meta
      /\ ErrorReply(errCode, httpCode, st.meta).body.twirpStatus = NoPayload
  BY DEF ErrorReply
<1>7. httpCode = ErrorCodeToHttpStatus(errCode)
  BY DEF httpCode
<1> QED
  BY <1>1, <1>2, <1>3, <1>4, <1>5, <1>6, <1>7, ErrorReplyDecodable

\* DecodeError returns a status that is not OK, whatever the response was.
LEMMA DecodeErrorType ==
  ASSUME NEW resp \in ErrorResponse
  PROVE  DecodeError(resp) \in Status
<1>1. CASE Decodable(resp)
  <2>1. ErrorCodeToStatus(resp.body.code) \in ErrorStatusCode
    BY LookupsOfNames
  <2> QED
    BY <1>1, <2>1 DEF DecodeError, Status, ErrorResponse, ErrorBody
<1>2. CASE ~Decodable(resp)
  BY <1>2 DEF DecodeError, Status, ErrorStatus, ErrorStatusCode
<1> QED
  BY <1>1, <1>2

LEMMA MeaningType ==
  ASSUME NEW st \in Status
  PROVE  Meaning(st) \in ErrorStatusCode
BY LookupsOfNames DEF Meaning, Status
=============================================================================
