-------------------------- MODULE ErrorRelayProofs -------------------------
(***************************************************************************)
(* What a chain of services, of any length, does to an error: proofs of    *)
(* the invariants of ErrorRelay.                                           *)
(***************************************************************************)
EXTENDS ErrorRelay, ErrorCodecProofs

-----------------------------------------------------------------------------
\* Every variable keeps to its type: what a server writes is an error
\* response, what a client decodes is a status that is not OK.
THEOREM RelayTypeOK == Spec => []TypeOK
<1>1. Init => TypeOK
  <2> SUFFICES ASSUME Init PROVE TypeOK
    OBVIOUS
  <2>1. ErrorReply("unknown", 500, {}) \in ErrorResponse
    <3>1. CodeMap[2].errCode = "unknown" /\ 2 \in DOMAIN CodeMap
      BY CodeMapDomain DEF CodeMap, ErrCodeEntry
    <3>2. "unknown" \in WireCode
      BY <3>1 DEF WireCode, TwirpErrorCode
    <3> QED
      BY <3>2, ErrorReplyDecodable
  <2>2. 1 \in 1..MaxHops
    BY RelayAssumption
  <2>3. place \in Place /\ hop \in 1..MaxHops
    BY <2>2 DEF Init, Place
  <2>4. status \in Status /\ origin \in Status /\ foreign \in BOOLEAN
    BY DEF Init
  <2>5. wire \in ErrorResponse
    BY <2>1 DEF Init
  <2> QED
    BY <2>3, <2>4, <2>5 DEF TypeOK
<1>2. TypeOK /\ [Next]_vars => TypeOK'
  <2> SUFFICES ASSUME TypeOK, [Next]_vars PROVE TypeOK'
    OBVIOUS
  <2> USE DEF TypeOK, Place
  <2>1. CASE Send
    BY <2>1, SendErrorWrites DEF Send
  <2>2. CASE Substitute
    BY <2>2, RelayAssumption DEF Substitute
  <2>3. CASE Decode
    BY <2>3, DecodeErrorType DEF Decode
  <2>4. CASE Raise
    BY <2>4 DEF Raise
  <2>5. CASE Forward
    BY <2>5, RelayAssumption DEF Forward
  <2>6. CASE UNCHANGED vars
    BY <2>6 DEF vars
  <2> QED
    BY <2>1, <2>2, <2>3, <2>4, <2>5, <2>6 DEF Next
<1> QED
  BY <1>1, <1>2, PTL DEF Spec

\* While no intermediary answers, the error at each place of the chain is the
\* first method's: at a service, on the wire and at a client.
THEOREM RelayCarriedUnchanged == Spec => []CarriedUnchanged
<1>1. Init => CarriedUnchanged
  BY DEF Init, CarriedUnchanged, AtService
<1>2. TypeOK /\ CarriedUnchanged /\ [Next]_vars => CarriedUnchanged'
  <2> SUFFICES ASSUME TypeOK, CarriedUnchanged, [Next]_vars, ~foreign'
               PROVE  /\ place' = "service" => AtService'
                      /\ place' = "wire"    => OnWire'
                      /\ place' = "client"  => AtClient'
    BY DEF CarriedUnchanged
  <2>1. CASE Send
    <3>1. AtService /\ status \in Status /\ wire' = SendErrorStatus(status) /\ origin' = origin /\ hop' = hop
      BY <2>1 DEF Send, CarriedUnchanged, TypeOK
    <3>2. OnWire'
      BY <3>1, SendErrorWrites DEF AtService, OnWire
    <3> QED
      BY <2>1, <3>2 DEF Send
  <2>2. CASE Substitute
    BY <2>2 DEF Substitute
  <2>3. CASE Decode
    <3>1. OnWire
      BY <2>3 DEF Decode, CarriedUnchanged
    <3>2. AtClient'
      BY <2>3, <3>1 DEF Decode, OnWire, AtClient, DecodeError
    <3> QED
      BY <2>3, <3>2 DEF Decode
  <2>4. CASE Raise
    BY <2>4 DEF Raise
  <2>5. CASE Forward
    <3>1. AtClient /\ status' = status /\ origin' = origin /\ place' = "service"
      BY <2>5 DEF Forward, CarriedUnchanged
    <3>2. AtService'
      BY <3>1 DEF AtClient, AtService, Meaning
    <3> QED
      BY <3>1, <3>2
  <2>6. CASE UNCHANGED vars
    BY <2>6 DEF vars, CarriedUnchanged, AtService, OnWire, AtClient
  <2> QED
    BY <2>1, <2>2, <2>3, <2>4, <2>5, <2>6 DEF Next
<1> QED
  BY <1>1, <1>2, RelayTypeOK, PTL DEF Spec

-----------------------------------------------------------------------------
\* Every client of the chain reads the code the first method meant.
THEOREM RelayCodeSurvives == Spec => []CodeSurvives
<1>1. CarriedUnchanged => CodeSurvives
  BY DEF CarriedUnchanged, AtClient, CodeSurvives
<1> QED
  BY <1>1, RelayCarriedUnchanged, PTL

\* Every client of the chain reads exactly the first method's metadata.
THEOREM RelayMetaSurvives == Spec => []MetaSurvives
<1>1. CarriedUnchanged => MetaSurvives
  BY DEF CarriedUnchanged, AtClient, MetaSurvives
<1> QED
  BY <1>1, RelayCarriedUnchanged, PTL

\* The text code and the HTTP status of an answer agree, and it is never 200.
THEOREM RelayWireConsistent == Spec => []WireConsistent
<1>1. CarriedUnchanged => WireConsistent
  BY LookupsOfNames DEF CarriedUnchanged, OnWire, WireConsistent
<1> QED
  BY <1>1, RelayCarriedUnchanged, PTL

\* From the second hop on the text code depends on the meaning alone.
THEOREM RelayWireSettles == Spec => []WireSettles
<1>1. CarriedUnchanged => WireSettles
  BY DEF CarriedUnchanged, OnWire, WireSettles
<1> QED
  BY <1>1, RelayCarriedUnchanged, PTL
=============================================================================
