----------------------------- MODULE MCGoServer ----------------------------
(***************************************************************************)
(* Small instance of GoServer for TLC: the Haberdasher of the example with *)
(* its one method, its schema with and without a package, prefixes clean   *)
(* and not; callers in Go and C++; hooks and handlers that fail with and   *)
(* without a code, or panic; an interceptor that calls the service up to   *)
(* twice, or not at all; a client that may stall.                          *)
(***************************************************************************)
EXTENDS GoServer

CONSTANT m1

MCCustomCode   == {"quota"}
MCMetaItem     == GoMark \cup {m1}
MCGoHttpStatus == [c \in TwirpErrorCode |-> ErrorCodeToHttpStatus(c)]

\* The prefixes "/twirp", "/api/v1", "", "twirp" and "/twirp/".
Prefix == {DefaultPrefix, <<Slash, <<"api">>, <<"v1">>>>, <<Slash>>, <<<<"twirp">>>>,
           <<Slash, <<"twirp">>, Slash>>}

MCServerConfig == [prefix : Prefix, pkg : {"example", Blank}, service : {"Haberdasher"},
                   methods : {{"MakeHat"}}]

\* With a prefix or a base URL's path of their own, or another callee.
MCCaller ==
  [language : {"go"}, base : {<<Slash>>, <<Slash, Slash>>, <<Slash, <<"api">>>>},
   prefix : Prefix, pkg : {"example", Blank}, service : {"Haberdasher"}, method : {"MakeHat"}]
  \cup
  [language : {"cpp", "go"}, base : {<<Slash>>}, prefix : {DefaultPrefix},
   pkg : {"example", "other", Blank}, service : {"Haberdasher", "Hatter"},
   method : {"MakeHat", "SellHat"}]

Example == [language |-> "go", base |-> <<Slash>>, prefix |-> DefaultPrefix,
            pkg |-> "example", service |-> "Haberdasher", method |-> "MakeHat"]

\* Every path, one of them too short to have a service, and for one of them
\* every verb, encoding and body.
MCInput ==
  [verb : {"POST"}, path : {PathOf(c) : c \in MCCaller} \cup {<<<<"MakeHat">>>>},
   contentType : {"application/json"}, body : {"valid"}]
  \cup
  [verb : {"POST", "other"}, path : {PathOf(Example)}, contentType : ContentType,
   body : {"valid", "malformed"}]

MCHookError    == {PlainError, NewGoError("unauthenticated", {m1})}
MCHandlerError == {PlainError, NewGoError("not_found", {m1}), NewGoError("malformed", {})}
=============================================================================
