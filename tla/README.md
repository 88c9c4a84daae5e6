# A verification model of twirp-cpp

TLA+ modules that model twirp-cpp, TLC configurations that check them on small
instances, and proofs, checked by TLAPS, that hold for every value of the
constants.  Paths are relative to the repository.

1. [The system](#the-system)
2. [The modules](#the-modules)
3. [The runs](#the-runs)
4. [What is proved](#what-is-proved)
5. [Where the code disagrees with what is said of it](#where-the-code-disagrees-with-what-is-said-of-it)
6. [What is abstracted, and what is not modelled](#what-is-abstracted-and-what-is-not-modelled)
7. [The plan](#the-plan)

## The system

twirp-cpp is a header-only C++ library for clients and servers of the Twirp
protocol (version 7) and a Go program that generates, from a protobuf schema,
the client stubs and service hosts that use it.  HTTP is done by cpp-httplib,
JSON by jsoncpp, messages by protobuf, statuses by abseil.  The example comes with
a peer in Go, whose client and server twirp's own generator has made of the same
schema: what the library has to understand on the wire, and be understood by.

| Part | State | Operations | Where |
|---|---|---|---|
| Error table | a constant table of 18 entries | three lookups, each taking the first entry that fits | `include/twirp/error-defs.h` |
| Error codec | none | the two `SendError`, `DecodeError` | `httplib/server-helper.h`, `httplib/client-helper.h` |
| Server | httplib's list of POST handlers; per request a context, an arena, the response | `RegisterTwirpHandlers`, the method handler, the catch-all | `httplib/server-helper.h` |
| Service host | the set of method names, a pointer to the service | `GetServiceName`, `GetMethods`, `Invoke` (generated) | `src/twirpcpp/templates.go:88-185` |
| RequestContext | a map from key names to values | `Set`, `GetOrDef`, `GetOrNull`, `ForEachItem` | `include/twirp/rpc-defs.h:82-131` |
| Client stub | requester, encoding | one method per remote method (generated) | `src/twirpcpp/templates.go:3-86` |
| HttplibRequester | HTTP client, client middlewares | `MakeRequest` | `httplib/client-helper.h:99-153` |
| Message ownership | who frees a message: arena or caller | `ArenaDeleter`, `OwnedPtr`, `release` | `include/twirp/rpc-defs.h:19-36` |
| Code generator | the artifacts of the run | `Execute`, `computeFilename`, `makeComment`, `cppName` | `src/twirpcpp/gencpp.go` |
| Plugin driver, dumper | none | read stdin, write files | `src/twirpcpp/main`, `src/dumper` |
| Go peer, server | per request a context, hooks called, the response | `ServeHTTP` and the serve methods, `writeError`, hooks | `example/golang/example/service.twirp.go:226-650, 841-897, 1035-1072` |
| Go peer, client | per call a context, the response and its body | `MakeHat`, `callMakeHat`, `doProtobufRequest`, `doJSONRequest` | `service.twirp.go:41-224, 899-1033, 1074-1107` |
| Go peer, errors | none | `marshalErrorToJSON`, `errorFromResponse`, `twirpErrorFromIntermediary` | `service.twirp.go:711-839` |
| Example and tests | | Haberdasher service and client, `DirectRequester` | `example/cpp`, `test_package/tests` |

How they interact.  A stub serializes its argument and calls the requester,
which runs the client middlewares, posts to `/twirp/<service>/<method>` and
returns the body or the decoded error.  On the other side httplib, on one of its
worker threads, tries the registered patterns in order and runs the first that
matches.  The handler checks the content type, creates an arena and a context,
runs the server middlewares, calls the host's `Invoke`, which decodes the
argument and calls the service, and writes the result or the error.  Handlers of
several requests run at once and share the host, the service and the middleware
objects.  A service often is a client itself, in either language, and returns the
status it got.

What is hard:

- **Concurrency.**  The identity a middleware establishes travels in the context;
  the context of one request must never be seen by another.  Calls their stub has
  given up still run on the server.  In Go the request's context ends at any moment.
- **Order.**  What a request reaches depends on the order in which patterns were
  registered, and the patterns are regular expressions.  The generator walks over a
  map, in another order on each run.
- **Partial failure.**  The C++ handler has seven ways to end early, the Go server
  over a dozen with five hooks to call, four of them or more around code
  the library does not own.  Each has to leave exactly one answer, and no
  method may run past a middleware that refused.  A panic in Go is answered if it is
  the service's or an interceptor's; a hook's ends the request where it stands.
- **A translation that has to be undone elsewhere.**  A status becomes a text
  code and an HTTP status by one lookup and comes back by another, over a table
  that is not one-to-one, with a payload that overrides the code on the way out
  only, across any number of services in two languages, with proxies that answer
  in between.
- **Waiting.**  The Go server reads a body and writes a response without a deadline;
  a client that stalls holds its request.
- **Timeouts and retries.**  The C++ client calls every transport failure
  `kUnavailable`, "transient", whether or not the method has run; the Go client
  looks at its context three times in each attempt.

What makes each part correct: the error codec, that code and metadata survive
the wire; the server, that every request is answered (in Go: unless a hook panics or the client
stalls), by the method its path
names, after all of its service's middlewares, with its own context, and that
success is reported only for a method that succeeded; the client, that every call
returns, and tells what is true of the method; client and server together, that a
method runs at most once per call and never after its caller was told a result; the
generator, that what it makes of a file depends on that file alone and fits together.

## The modules

| Module | Models | Depends on |
|---|---|---|
| `ErrorDefs` | the table and its lookups | |
| `ErrorCodec` | statuses, error responses, `SendError`, `DecodeError` | `ErrorDefs` |
| `ErrorRelay` | an error crossing a chain of C++ services | `ErrorCodec` |
| `GoErrors` | `twirp.Error`, and its way to a response and back in Go | `ErrorCodec` |
| `MixedRelay` | an error crossing a chain of services in both languages | `GoErrors` |
| `Handling` | what a server promises for one request (abstract) | |
| `TwirpServer` | registration, routing, request handlers of the C++ server | `ErrorCodec`; implements `Handling` |
| `GoServer` | the Go server | `GoErrors`, `Routes`; implements `Handling` |
| `Routes` | the paths both languages' clients make and the Go server takes apart | |
| `GoClient` | the Go client | `GoErrors` |
| `TwirpClient` | the stub and `HttplibRequester` | `ErrorCodec` |
| `RemoteCall` | what a remote call promises its caller (abstract) | |
| `TwirpRpc` | stubs, the network and the C++ server | `TwirpServer`, `TwirpClient`; implements `RemoteCall` |
| `CodeComments` | comments in the generated headers | |
| `CodeGen` | `Execute`: files, names, includes, classes | `CodeComments` |
| `MC...` | instances for TLC | |
| `SequenceLemmas` | lemmas on sequences and `FlattenSeq`; induction | |
| `...Proofs` | lemmas and theorems on the module they are named after; `TwirpRpcProofs` those on `TwirpServer`, too | that module, `ErrorCodecProofs` or `SequenceLemmas` |

**ErrorDefs.**  `CodeMap` is the table in the order of the source.  The loops of
`ErrorCodeToStatus`, `StatusToErrorCode` and `ErrorCodeToHttpStatus` return at
the first entry that fits, which is `FirstOf` of the fitting positions; the order
matters, because `kInvalidArgument` and `kUnimplemented` have two entries each.

**ErrorCodec.**  A status is a record of its code, its `twirp_status` payload and
the set of its other payloads.  An error response is its HTTP status, its content
type and what the JSON reader makes of the body.  `SendErrorStatus` and
`DecodeError` are the two functions of the code; `Decodable` collects the checks
`DecodeError` makes, `RaisesLogicError` is the shape it does not check for.

**ErrorRelay.**  `Send` is a server's answer, `Decode` the client's reading of it,
`Forward` the service that made the call returning the status as its own,
`Substitute` an intermediary answering instead, `Raise` the exception of the JSON
library.  `MaxHops` bounds the chain in the runs; the proofs hold for any value.

**GoErrors** and **MixedRelay.**  The Go library's table is external and given by
`GoErrorCode` and `GoHttpStatus`, of which only what the generated code relies on is
assumed.  `WriteError` is `writeError` with `marshalErrorToJSON`,
`ErrorFromResponse` the reading, by way of `ErrorFromIntermediary` for a redirect,
a body that is not of a Twirp error, or an unknown code.  `MixedRelay` is
`ErrorRelay` with a choice of the language at each hop.  A Go error keeps a
`twirp_status` key as metadata like any other, where C++ reads it as a payload
that overrides the code.

**TwirpServer.**  State and code:

| Variable | Code |
|---|---|
| `postHandlers` | httplib's list of (pattern, handler), appended to by `srv->Post` |
| `listening` | `srv.listen` has been called |
| `pc` | where the lambda of `server-helper.h:95-133` is |
| `request`, `reply` | `req` and `res` |
| `target` | the host and method captured by the lambda |
| `context` | the local `ctx` |
| `position` | the iteration of the loop over `middleware` |
| `approved`, `called`, `seen`, `outcome` | history: the middlewares that returned OK, the method called, what it found in its context, what it returned |

One action per step of a handler between two calls into code the library does
not own:

| Action | Lines of `server-helper.h` unless named |
|---|---|
| `RegisterTwirpHandlers` | 86-142 |
| `Receive`, `RouteNowhere` | httplib |
| `RouteToCatchAll` | 135-140 |
| `RouteToMethod` | 90-96 |
| `RefuseEncoding`, `AcceptEncoding` | 98-109 |
| `MiddlewareAccepts`, `MiddlewareRejects` | 111-117 |
| `RefuseArgument`, `CallMethod` | 119-122, `templates.go:157-173`, `rpc-defs.h:166-197` |
| `MethodSucceeds`, `MethodFails` | 119-123, `templates.go:172-179` |
| `EncodeResult`, `EncodeFails` | 125-133, `rpc-defs.h:147-164` |

A middleware may store its request's credential under any keys and may return OK
or any of `MiddlewareError`; a method may return OK or any of `MethodError`.
Services are names; `NameMatches` says which host's name, read as a regular
expression, matches which name in a path, so that a look-alike ("a.b" and "a_b")
is a pair of it.

**GoServer.**  One request, because requests share nothing in the generated code.
A step is what lies between two calls into code that is not generated: hooks,
interceptor, service, the reading of the body and the writing of the response.
`ContextDone` may come between any two.  `hooks` is the history of hooks called,
`headers` counts `WriteHeader`, `response` is what was written to the
`http.ResponseWriter`.

Service, interceptor and hooks may panic.  `ensurePanicResponses` (line 844) is
deferred around the handler only (lines 397-400): `HandlerPanics` is that function at
work, with `panicking` its panic to be raised again, so that such a request ends
`panicked`, after the error has been sent.  A panic of a hook is caught by nothing in
this code: `HookPanics` (the hooks called before anything is written),
`HookPanicsAfterResult` and `HookPanicsAfterError` (the hooks called behind the answer)
end the request as `aborted`, with what was written until then.  What net/http makes
of the connection after that is its own affair.

`stalled` says that the client may make reads and writes wait for ever; `ClientDone`
is the moment from which it does not, because all has been sent and is taken, or the
connection is closed.  It is a matter of fairness only: no step's guard asks for it.

The two serve methods, for JSON and
for protobuf, are one set of actions; where they differ, on a body that cannot be
read or decoded, a guard asks for the content type.

**Routes.**  A path is the sequence of the segments between its slashes.  Clients
clean and join prefix, package, service and method (`path.Join`), the Go server
splits the path from its end and compares the rest with its prefix as it is.

**GoClient.**  One call of the stub, with the interceptor that may make several
attempts; `json` tells the two clients apart.  `hooks`, `body`, `answer` and `err`
are those of the current attempt; `sent`, `doneAtStart` and `doneAtAnswer` are
history.

**TwirpClient** and **TwirpRpc.**  A call is at `stub`: `serialize`, `middleware`
(the loop of `client-helper.h:131-137`), `post` (blocked in httplib), `returned`
or `thrown`.  `TwirpRpc` takes `TwirpServer` as it is and makes the stubs the only
clients: `Deliver` is `Receive` of the message of that call.  `travel` is where the
request is: not sent, on its way, lost, or taken by the server; a request may be
taken when its stub has given up.  The response arrives (`Respond`), or is lost (the
stub can only `GiveUp`), or an intermediary answers (`Substitute`), whether the
server has the request, is going to get it or never will.  It is assumed that HTTP
delivers a POST at most once.

**Handling** and **RemoteCall.**  Two small state machines.  `Handling`: the
handler of the application runs at most once and while there is no answer, success
is answered only after it has succeeded, and one answer is given at most.  Both
servers implement it, by `RunOf` and `AnswerOf`: the C++ server the `Promise`, the Go
server the `DroppingPromise`, in which a request may also be left without an answer,
as it is by a hook's panic, and by nothing else (`PanicAnswered`).  That the answer
comes at all is a property of each server, `EveryRequestAnswered` and
`EveryRequestEnds`.  `RemoteCall`: the method runs at
most once; the call ends `ok` only after it has succeeded, `failed` only when it has
ended or will never start, and `unknown` at any time.  `TwirpRpc` implements it for
each call by `ResultOf`, in which `kUnavailable`, an exception and whatever an
intermediary has said are `unknown`: what an application has to treat so.

**CodeGen** and **CodeComments.**  `Generate` is one turn of the loop in `Execute`
over the map of files, in any order; `Render` is the framework evaluating the
templates, after the loop.  A rendered file is its path, its include, its
namespace, the classes declared or defined with their methods, and the lines a header
has for each service.  `CodeComments` models `makeComment`, where the templates put its
lines, and what a compiler makes of a line that ends in a backslash.  The comments
before a service are printed before its class as those before a method are before the
method's declaration, so that both are turns of `MethodLines`; a method's trailing
comment is printed behind it, a service's is not printed at all (`Heading`).

The operators under "Seeded fault" stand for plausible mistakes in the operator
they precede (an override that keeps the HTTP status, a captured loop variable, a
loop that goes on after an error).  The specification does not use them; putting
one in the place of its operator shows that a property can fail.

## The runs

| Configuration | Module | Distinct states | Shows |
|---|---|---|---|
| `RelayChain.cfg` | `MCErrorRelay` | 173,272 | `TypeOK`, `CodeSurvives`, `MetaSurvives`, `WireConsistent`, `WireSettles`, `CarriedUnchanged` |
| `MixedRelay.cfg` | `MCMixedRelay` | 16,891 | `TypeOK`, `Readable`, `MeaningSurvives`, `NeverAThirdThing` |
| `ServerPipeline.cfg` | `MCTwirpServer` | 79,719 | `TypeOK`, `ChainBeforeMethod`, `ContextIsOwn`, `SuccessIsTrue`, `CalledAsNamed`, `FirstMethodReachable`, `HandlerInv`, `RoutingInv`, `EveryRequestAnswered`, `KeepsPromise` |
| `GoServer.cfg` | `MCGoServer` | 87,362 | `TypeOK`, `HooksPairUp`, `PanicAnswered`, `InterruptedIsNotMalformed`, `ServiceCalledFor`, `MeetIffClean`, `EveryRequestEnds`, `KeepsPromise` |
| `GoClient.cfg` | `MCGoClient` | 2,438 | `TypeOK`, `AttemptsConclude`, `NothingSentInVain`, `DoneMeansReturned` |
| `RemoteCalls.cfg` | `MCTwirpRpc` | 41,364 | `RpcTypeOK`, `OkMeansExecuted`, `MethodErrorArrives`, `EveryCallReturns`, `KeepsRemoteCall` |
| `CodeGen.cfg` | `MCCodeGen` | 33,442 | `OrderDoesNotMatter`, `UsableIffPlain`, `TextKept` |
| `RelayException.cfg` | `MCErrorRelay` | | violates `MakeRequestReturns` |
| `ServerShadowedMethods.cfg` | `MCTwirpServer` | | violates `BadRouteOnlyIfUnmatched` |
| `ServerUnimplemented.cfg` | `MCTwirpServer` | | violates `BadRouteIsNotFromMethods` |
| `ServerEncodingProblem.cfg` | `MCTwirpServer` | | violates `EncodingProblemIsInternal` |
| `RemoteMalformed.cfg` | `MCTwirpRpc` | | violates `MalformedMeansUndecoded` |

Run one with `tlc -config RelayChain.cfg MCErrorRelay.tla`.

**RelayChain.**  All 16 status codes, with no override, with each of the 18 text
codes of the table and with one outside it, and every set of two metadata items,
over three servers; at each of them an intermediary may answer with a page that
is not JSON, JSON of each wrong shape, a proper Twirp error, or one whose metadata
has a `twirp_status` key.  Three hops are enough because the third repeats the
second: after the first decoding no status has an override of its own
(`CarriedUnchanged`), and the proofs cover any length.

**MixedRelay.**  The same errors, and every `twirp.Error`, over three services in
each mixture of the languages, so that every change of language, and back, happens.
Go's library is taken not to know one text code of the table ("dataloss") and not
the one outside it, so that errors are also lost: they become `internal`, and
nothing that a caller would act upon (`NeverAThirdThing`).  Intermediaries answer
with what the two readers treat differently: a redirect, a page, a member Go does
not know.

**ServerPipeline.**  Two services with two methods each, one of which is a
look-alike of the other; hosts are registered in either order, or one, or none.
One has two middlewares, so that the second can refuse what the first let pass, and
the other a chain of its own, so that chains can be confused.  Two requests, so
that handlers interleave: for each of three services and three methods, and for
one method every content type, valid, malformed and oversized bodies and another
credential, so that a context can be confused; a method that succeeds, fails with
metadata or fails with an overriding code; a result that cannot be written.

**GoServer.**  Both encodings, servers with and without a package, five prefixes
(the default, a longer one, none, one without its leading slash, one with a last
slash), Go callers with those prefixes and three base URLs and C++ callers; a
hook, interceptor or service that fails with and without a code, returns nothing, or
panics; an interceptor that calls the service not at all, once or twice; a context
that is canceled or times out between any two steps; a client that stalls until any
moment, or for ever.  `MeetIffClean` states which of
the pairs of client and server find each other.  One request is enough, because
requests share nothing.

**GoClient.**  Both clients, with and without an interceptor of up to three
attempts (two would do to tell a retry; the third shows that nothing accumulates);
results, garbage with status 200, errors with known and unknown codes, a page, a
redirect; the context ends at any moment.

**RemoteCalls.**  Two calls of a method through one client and one server
middleware, so that calls of different stubs, and a given-up call and a new one, are
on the server at once; arguments the server can and cannot decode; a method that
fails with metadata and an overriding code; an intermediary answering with a page,
an empty page with status 200, an error of its own or JSON that is not an object.

**CodeGen.**  Every subset of six schema files in every order of the map: two differ in
case only, one has a dot, one is called like a suffix, one has no package, one
no service; and one file with comments of all kinds of lines (empty, blank, text, and
text that ends in a backslash, with and without a blank behind), either before its
service, detached and leading of up to two lines, or around its two methods, leading
ones of up to three.  A line is continued in the next only, so that three lines around
two declarations show every neighbourhood.

*Fairness.*  `EveryRequestAnswered` assumes weak fairness of a request's steps once the
C++ server has taken it, with its body read: httplib runs the handler on a thread of
its own to its end, and nothing in it waits for another handler.  `EveryRequestEnds`
assumes the same of net/http's goroutine, except where the Go handler reads the body
or writes the response (`Waiting`): there it assumes it only when the client does not
stall.  It does not assume that a client ever stops stalling, nor that the context's
end helps, which is looked at only after a read has failed; so the property
says that a request ends *or* waits for its client.  That middlewares and methods
return, and in Go that hooks, interceptors and methods return or panic, is an
assumption on the embedding program.  `EveryCallReturns` assumes that the stub's thread
runs, and that waiting ends: either with the response or by the timeouts httplib
sets for connecting, sending and reading; of the server and the network it assumes
nothing.  `DoneMeansReturned` assumes of the Go client that its goroutine runs and
that a context that is done ends the waiting of net/http, and nothing else: without
a deadline the call may wait for ever.  Nothing is assumed of `Receive`,
registration, listening, or that a context ever ends.

*Deadlock* is not checked: a chain ends at its last client, a call when it has
returned, and a server whose requests have all been answered has nothing to do.

## What is proved

TLAPS checks the theorems of the seven `*Proofs` modules and the lemmas of
`SequenceLemmas`, for every set of hosts, methods, middlewares, calls, metadata,
custom codes and schema files, every Go library and every length of a chain, a path,
a name or a comment.  They use only the named assumptions of the modules:

- `CodecAssumption`: custom codes are not in the table; the marker for an absent key
  is neither.
- `GoErrorsAssumption`: Go's library knows the codes the generated code uses and sends
  none with 200 or a redirect.
- The types of the constants: `RelayAssumption`, `MixedRelayAssumption`,
  `ServerAssumption`, `GoServerAssumption`, `GoClientAssumption`, `RpcAssumption`.
- `CodeGenAssumption`: names of schema files end in `.proto`, no two files of a run have
  one name, nor two services of a file, and parts of a package are not empty, as protoc
  sees to; making lower case leaves a dot and `proto` alone.
- The marker for "not yet" is none of the things awaited (`NoneAssumption`, and part
  of `GoServerAssumption`).

The theorems on the C++ server alone stand with those on the whole call, whose
`RpcAssumption` is about the constants of the client side only: with no calls, no
middlewares and no intermediaries there, it holds for every server.

*Induction.*  What `FlattenSeq` makes of a sequence of any length is defined by
recursion, and an induction theorem with a predicate for parameter is out of the
provers' reach.  `SequenceLemmas` does it with a set in the place of the predicate:
a set that has the empty sequence, and with every sequence all that extend it by one
element, has them all (`SeqSetInduction`), because otherwise there would be a least
length of a missing one (`WFMin`).  The set is defined where it is needed
(`Good` in the proof of `DeclaredInParts`).  `FlattenAddsUp` and `FlattenAppend`
take `FlattenSeq` step by step; `Each` is a function applied to all elements, and
`FlattenEach` says that flattening commutes with it.

**The table** (`ErrorCodecProofs`).  `TableRoundTrip`: for every status code the
text code chosen for it is read back as the same status code, and the HTTP status
chosen with it is the one of the text code.  The argument: text codes are all
different, so a text code has exactly one entry (`NamesDiffer`, `EntryOfName`),
every status code has one (`EveryCodeHasEntry`), and the first entry of a
non-empty set of positions is one of them (`FirstOfIn`, by well-foundedness of <).
`LookupsOfNames`: no text decodes to OK and none goes with HTTP 200.

**Chains** (`ErrorRelayProofs`, `MixedRelayProofs`).  The invariants of the runs are
not inductive: `CodeSurvives` speaks of clients only and says nothing of what is on
the wire.  `CarriedUnchanged` adds what holds at the other two places, that the
status at a service means what the first one meant and has no override after the
first hop, and that the response on the wire decodes to that meaning.  Each of its
three parts follows from the one before by `SendErrorWrites` (what `SendError`
writes for any status) and the definition of `DecodeError`.  `MixedInv` is the same
for two languages, with "or has become internal" wherever Go does not know a code;
`MixedFaithful` proves it, from lemmas on what each language writes and reads
that stand before it, and the other three follow.

**The C++ server** (`TwirpRpcProofs`, first half).  Four inductions.

- `Typed`: types together with `HandlerPlaces`, what a handler has got hold of by
  the place where it uses it (a request by routing, a target by its content type
  check, a called method by encoding).  Gives `ServerTypeOK`.
- `Established`, relative to `Typed`: `ChainSoFar` (at iteration n of the loop the
  approvals are the first n - 1 middlewares of the chain), `ContextSoFar` (a context
  holds nothing but its own request's credential), and the properties
  themselves.  When the loop ends, the approvals are as many as the chain and agree
  with it everywhere, so they are the chain.  Most steps only end the handler with
  an answer; `EstablishedAnswer` disposes of those.  Gives
  `ServerChainBeforeMethod`, `ServerContextIsOwn`, `ServerSuccessIsTrue`.
- `Routed`, relative to `Typed`: `RoutingInv`, the shape of the handler table.  A
  service's exact pattern is followed by its catch-all, so that if a look-alike's
  handler is the first that fits, none of the service's own can stand before it
  (`ChosenIsNamed`); and the first handler of a service is that of its first
  method, so that this one is never behind the catch-all (`FirstMethodIsChosen`).
  Gives `ServerCalledAsNamed` and `ServerFirstMethodReachable`.
- `PromiseSoFar`: a method's outcome and a reply are there exactly from the places
  on where they should be.  With it every step of the server is, for the request it
  moves, a step of `Handling`, and a stutter for every other (`PromiseSteps`).  Gives
  `ServerKeepsPromise`.

**The Go server** (`GoServerProofs`).  `Typed` again has what each place has got hold
of; `HooksSoFar` lists the hooks called by then, and for a request that a hook's panic
has ended those that `Cut` and `Trail` allow; `PanicSoFar` says where a panic of the
handler can be and what it will be answered with, `InterruptedSoFar` what happens between a read
that failed and the answer, and `PromiseSoFar` relates the place to what the handler
came to.  Give `GoServerTypeOK`, `GoServerHooksPairUp`, `GoServerPanicAnswered`,
`GoServerInterrupted`, and `GoServerImplementsHandling`: every step is one that
`Handling` allows, a hook's panic before the answer its `Drop`, or a stutter.

Which requests reach the service takes three more.  `PlacesSoFar`: by its place, a
request has been routed, has a known content type and has been decoded.
`CallsSoFar` says it from the history, the hooks and the calls, where the place no
longer tells; it needs that hooks are only ever added behind the first two
(`FirstHooksStay`).  `RefusalSoFar`: an error that says `bad_route` comes from where a
request was refused, unless the application makes such errors itself.  The rest is about
paths.  `ParsedPath` is what the server splits a path of any length into, `RoutedOfCaller`
what this means for the path a client makes: its service's name, compared text by text,
gives package and service (`NamesDiffer`), and the server's prefix is the cleaned one
behind the base URL (`RoutedIffClean`).  Give `GoServerServiceCalledFor` and
`GoServerMeetIffClean`.

**The Go client** (`GoClientProofs`).  `ClientInv`: by its place, whether an attempt has
a response, an open body, an error and which hooks, and that a context once done stays
done.  Gives `GoClientTypeOK`, `GoClientAttemptsConclude`, and the action
property `GoClientNothingSentInVain`.

**Remote calls** (`TwirpRpcProofs`).  `TwirpRpc` is made of `TwirpServer`'s own actions,
so that each step of the system is a step of the server or leaves it alone
(`ServerSteps`, a lemma that says nothing of the code); `ServerInv`, all of the above
and that a method's error is what was answered, therefore holds in the system.  The client's side is
`RpcInv`: a request is at the server exactly if it has been taken, and taken as it was
sent; and `Settled`, the heart of it: a stub that has returned without an
intermediary's doing either sent nothing and returns an error, or says
`kUnavailable`, or the server has answered and the stub tells what.  It is needed
because what a stub returned must agree with what the server does *later*: `Settled`
is kept by every server step, since what is answered is final (`DoneIsFinal`) and a
request that was not sent is never taken.  Gives `RpcTypeCorrect`,
`RpcOkMeansExecuted`, `RpcMethodErrorArrives`.  `RpcKeepsRemoteCall` uses `ServerInv`, `RpcInv`
and the steps of `Handling`: as long as a method may start or runs, its caller has
been told nothing, or "unknown" (`StillOpen`); and what a stub tells when it returns, the
promise allows (`ReturnIsKept`).

**The generator** (`CodeGenProofs`).  `GenInv`: the artifacts are those of the files
visited, finitely many, and the files are rendered from all of them.  With it each of the
properties is about what is made of one schema file.

- `GeneratedInAnyOrder`: a path tells the name it was made from and the
  template (`PathsDiffer`), so that four paths belong to each file.
- `GeneratedTextKept`: the comments of lines, as those of a text, add up over
  concatenation (`CommentsOfConcat`, `CommentsOfParts`), so that it is enough to look at
  one comment, then at a method's lines, then at a class; the comments before the class
  are those of one more declaration (`TextOfDeclarations`).
- `GeneratedUsableIffPlain`: an include fits exactly if the name of the file is
  written the same in snake case, position by position (`PlainStem`); a qualified name
  loses exactly its empty parts (`CppNameOf`); and a class or a method is seen by the
  compiler exactly if the lines before it are not `Open`, that is, do not end in a
  backslash.  Each turn of the loop leaves `ClosedLines` behind
  (`ClosedDeclaration`), so that whether a declaration is seen depends on the comments
  before it alone (`TurnDeclares`), of which the last that is written decides
  (`OpenBefore`).

**Only model-checked.**  `EveryRequestAnswered`, `EveryRequestEnds`, `EveryCallReturns` and
`DoneMeansReturned`, because liveness under fairness is beyond the prover; and the
violations below, each of which is one counterexample.

## Where the code disagrees with what is said of it

1. *All methods but the first are unreachable* (`ServerShadowedMethods`).  The
   catch-all is registered inside the loop over the methods
   (`server-helper.h:135-140`), so the exact patterns of all but the first method
   stand behind it and httplib never gets to them: they are answered `bad_route`,
   "returned if the request can't be matched with a service method"
   (`server-helper.h:15`).  The example service has one method, and the tests
   bypass HTTP.
2. *An unimplemented method looks unroutable* (`ServerUnimplemented`).  The first
   entry of `kUnimplemented` is `bad_route` (`error-defs.h:39`), which "should not be
   returned by application code" (`error-defs.h:36-38`); `unimplemented` (line 68) is
   never sent for a plain status.
3. *A result that cannot be written is the caller's fault*
   (`ServerEncodingProblem`).  `SerializeMessage` says `kInvalidArgument` also for a
   response (`rpc-defs.h:155`, `160`), where "serialization problems are also
   reported as internal errors" (`error-defs.h:71-72`).
4. *A call may end in an exception* (`RelayException`).  `DecodeError` indexes the
   parsed JSON as an object (`client-helper.h:33`) without asking whether it is one;
   `MakeRequest` "returns: error status or response body" (`rpc-defs.h:51`).
5. *"malformed" may mean that the method has run* (`RemoteMalformed`).  The stub reads
   the response with the function the server reads the argument with, which marks
   what it cannot decode as `malformed` (`rpc-defs.h:183`); of that code
   `error-defs.h:27-29` says "The client sent a message which could not be decoded".
   A service that returns the stub's status as its own passes the claim on.

`UsableIffPlain` of `CodeGen` states for which names, packages and comments the
generated files fit together (each source finds its header, each class and method is
declared where it is needed, in a namespace with a name), `FirstMethodReachable` which
methods can be called, and `PanicAnswered` whose panics are answered: all hold and
all say less than one would wish.  What else a compiler may object to in the generated
code, the names and types of messages for instance, is not in the model.

## What is abstracted, and what is not modelled

Messages, texts and payload values are opaque: a body is valid, malformed or
too large, metadata is a set of (key, text) items.  The text "msg" of an error is
not modelled beyond its presence.  A middleware
may also write to the response; what it writes is overwritten or ignored here.
Each host is registered at most once and registration precedes listening, as in
`example/cpp/tw-server.cpp:96-102`.  The last exit of `Invoke` ("incorrect method
invoked") is unreachable through `RegisterTwirpHandlers` and has no action.
httplib, jsoncpp, protobuf, abseil, Go's net/http, the twirp library and the
framework of the generator are modelled from how the code uses them.  An
application's own retry is a further call of a stub: it is for the application to
know that an "unknown" one may have run, and `RemoteCall` says when that is.

In the C++ server's model a path is a service and a method, in the Go server's a
sequence of segments; a C++ client's call to a Go server is in `GoServer`, a Go
client's to a C++ server is not, except for its errors: it would show only that the
C++ side has no prefix to choose.

Not modelled:

- *Message ownership.*  Whether a message is freed by the arena or by its owner is
  decided by destructors at each return of straight-line code; nothing interleaves
  in it, and a model would repeat the returns that `TwirpServer` and
  `TwirpClient` have already.
- *RequestContext's types and references.*  Two keys of one name and different types,
  and references that survive mutations of other keys, are matters of C++ objects;
  the context's contents and their isolation are in `TwirpServer`.
- *Exceptions and null results of a C++ method*: httplib's page and undefined behaviour.
- *The lifetime of host and server*, which is the embedding program's.
- *Example, Go program*: an instance of the library, and one call printed.
- *service.pb.go*: accessors and a descriptor made by protoc-gen-go.
- *The plugin driver and the dumper*: pure I/O.  *Build files, tests*: no behaviour of
  the program; the tests were read as documentation.

## The plan

Done, in this order: the errors (`ErrorDefs`, `ErrorCodec`, `ErrorRelay`), the server
(`TwirpServer`), the peer's errors (`GoErrors`, `MixedRelay`), the peer (`Routes`,
`GoServer`, `GoClient`), the client and the whole call (`TwirpClient`, `RemoteCall`,
`TwirpRpc`), the generator (`CodeComments`, `CodeGen`), and the proofs of all safety
properties.  Left:

1. A Go client's paths through the patterns of the C++ server.
2. A chain of calls, in which a method is itself a caller: `TwirpRpc` composed with
   itself, towards what "unavailable" and "malformed" mean two services away.
