------------------------------- MODULE Routes ------------------------------
(***************************************************************************)
(* The paths of Twirp URLs: how the clients of both languages make them    *)
(* and how the Go server takes them apart.  A path is the sequence of the  *)
(* segments between its slashes ("/a/b" has the segments "", "a", "b"),    *)
(* and a segment the sequence of the texts between its dots, so that the   *)
(* empty segment is <<>> and ".Svc" begins with Blank.                     *)
(***************************************************************************)
EXTENDS SequencesExt

CONSTANT Blank  \* the empty text; also the package of a schema that has none

Segment == Seq(STRING)

Slash == <<>>  \* the empty segment, what stands before a leading "/"

\* "/twirp", the default prefix and the only one of the C++ side.
DefaultPrefix == <<Slash, <<"twirp">>>>

\* Go leaves out the dot if there is no package; the C++ templates do not.
GoServiceName(pkg, service)  == IF pkg = Blank THEN <<service>> ELSE <<pkg, service>>
CppServiceName(pkg, service) == <<pkg, service>>

\* What path.Join does to its parts: no segment is empty.
Cleaned(path) ==
  FlattenSeq([i \in DOMAIN path |-> IF path[i] = Slash THEN <<>> ELSE <<path[i]>>])

\* Seeded fault: the prefix is put into the path as it is.
BaseServicePathUncleaned(prefix, serviceName) == prefix \o <<serviceName>>

\* baseServicePath without its last slash.
BaseServicePath(prefix, serviceName) ==
  <<Slash>> \o Cleaned(prefix) \o <<serviceName>>

\* The path of a Go client's URL.  base is the path of the base URL, <<Slash>>
\* for a base URL without one; what follows begins with a slash.
GoPath(base, prefix, pkg, service, method) ==
  base \o Tail(BaseServicePath(prefix, GoServiceName(pkg, service))) \o <<<<method>>>>

\* The path of a C++ client's URL.
CppPath(pkg, service, method) ==
  DefaultPrefix \o <<CppServiceName(pkg, service)>> \o <<<<method>>>>

\* Joining no segments and joining the empty one both give the empty text.
Joined(segments) == IF segments = <<>> THEN <<Slash>> ELSE segments

\* parseTwirpPath
ParseTwirpPath(path) ==
  LET n == Len(path)
  IN  IF n < 2 THEN [prefix |-> <<Slash>>, service |-> Slash, method |-> Slash]
      ELSE [prefix  |-> Joined(SubSeq(path, 1, n - 2)),
            service |-> path[n - 1],
            method  |-> path[n]]
=============================================================================
