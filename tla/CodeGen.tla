------------------------------- MODULE CodeGen -----------------------------
(***************************************************************************)
(* The code generator of src/twirpcpp: Execute of gencpp.go, which is      *)
(* called with the schema files of one protoc run and makes four files of  *)
(* each from the templates of templates.go.  Execute walks over a map, so  *)
(* the order of the files is any; the templates are rendered when it has   *)
(* returned.                                                               *)
(*                                                                         *)
(* Names of files are sequences of texts with the dots between them as     *)
(* texts of their own, "v1.hat.proto" is <<"v1", ".", "hat", ".",          *)
(* "proto">>, and qualified names are sequences of their parts.            *)
(***************************************************************************)
EXTENDS CodeComments

CONSTANTS
  Targets,  \* what protoc may be run on: sets of schema files
  Lower     \* strings.ToLower on the texts of their names

Identifier == STRING \ {""}

ServiceType == [name : Identifier, detached : Seq(Comment), leading : Comment,
                methods : Seq(MethodType)]

FileType == [name : Seq(STRING), package : Seq(Identifier), services : SUBSET ServiceType]

IsProto(name) ==
  LET n == Len(name) IN n > 2 /\ name[n - 1] = "." /\ name[n] = "proto"

ASSUME CodeGenAssumption ==
  /\ Targets \subseteq SUBSET FileType
  /\ \A T \in Targets : \A f, g \in T : IsProto(f.name) /\ (f.name = g.name => f = g)
  /\ \A T \in Targets : \A f \in T : \A s, t \in f.services : s.name = t.name => s = t
  /\ \A T \in Targets : \A f \in T : \A i \in DOMAIN f.name : f.name[i] \in DOMAIN Lower
  /\ Lower \in [DOMAIN Lower -> STRING]
  /\ Lower["."] = "." /\ Lower["proto"] = "proto"

VARIABLES
  targets,    \* the schema files of this run
  todo,       \* the entries of targets still to be visited
  artifacts,  \* what has been handed to the framework
  files       \* what protoc is given to write

vars == <<targets, todo, artifacts, files>>

DropLast(s, n) == SubSeq(s, 1, Len(s) - n)

\* Name.LowerSnakeCase of the framework: a name with dots is split at these.
LowerSnakeCase(name) == [i \in DOMAIN name |-> IF name[i] = "." THEN "_" ELSE Lower[name[i]]]

\* computeFilename: the name the templates know the file by.
ComputeFilename(f) ==
  LET snake == LowerSnakeCase(f.name)
      n     == Len(snake)
  IN  IF n > 1 /\ snake[n - 1] = "_" /\ snake[n] = "proto" THEN DropLast(snake, 2) ELSE snake

\* FilePathFor: the extension of the input path is replaced by the suffix.
FilePathFor(f, suffix) == DropLast(f.name, 2) \o <<suffix>>

\* What the framework calls a file or a service; it begins with a dot, unless
\* it is a file without a package.
FullyQualifiedName(package, rest) == <<"">> \o package \o rest

\* cppName: the qualified name of a schema as that of C++, without empty parts.
CppName(qualified) ==
  FlattenSeq([i \in DOMAIN qualified |-> IF qualified[i] = "" THEN <<>> ELSE <<qualified[i]>>])

TemplateData(f) ==
  [file |-> f,
   namespace |-> CppName(FullyQualifiedName(f.package, <<>>)),
   fileName |-> ComputeFilename(f)]

Artifact(f, template) ==
  [path |-> FilePathFor(f, template), template |-> template, data |-> TemplateData(f)]

ArtifactsOf(f) ==
  << Artifact(f, "_client.hpp"), Artifact(f, "_client.cpp"),
     Artifact(f, "_server.hpp"), Artifact(f, "_server.cpp") >>

Init ==
  /\ targets \in Targets
  /\ todo = targets
  /\ artifacts = <<>>
  /\ files = {}

\* Seeded fault: the templates share the variable of the loop.
GenerateAliased ==
  /\ \E f \in todo :
       /\ todo' = todo \ {f}
       /\ artifacts' = [i \in DOMAIN artifacts |->
                          [artifacts[i] EXCEPT !.data = TemplateData(f)]] \o ArtifactsOf(f)
  /\ UNCHANGED <<targets, files>>

\* One turn of the loop in Execute.
Generate ==
  /\ \E f \in todo :
       /\ todo' = todo \ {f}
       /\ artifacts' = artifacts \o ArtifactsOf(f)
  /\ UNCHANGED <<targets, files>>

-----------------------------------------------------------------------------
\* The header a rendered file includes: a source that of its own side, and a
\* header the messages protoc generates.
Include(a) ==
  a.data.fileName \o
    << CASE a.template = "_client.cpp" -> "_client.hpp"
         [] a.template = "_server.cpp" -> "_server.hpp"
         [] OTHER                      -> ".pb.h" >>

\* The classes in a rendered file, with what a compiler finds declared of them:
\* a header declares them in the namespace of the file, a source needs class and
\* methods and defines these by the services' qualified names.
IsHeader(a) == a.template \in {"_client.hpp", "_server.hpp"}

Classes(a) ==
  LET f == a.data.file
  IN  IF IsHeader(a)
      THEN {[name    |-> a.data.namespace \o <<s.name>>,
             members |-> Declared(ClassLines(Declarations(s)))] : s \in f.services}
      ELSE {[name    |-> CppName(FullyQualifiedName(f.package, <<s.name>>)),
             members |-> DOMAIN Declarations(s)] : s \in f.services}

\* What stands in a header for each service.
Bodies(a) ==
  IF IsHeader(a) THEN {[name |-> s.name, lines |-> ClassLines(Declarations(s))] :
                         s \in a.data.file.services}
  ELSE {}

Rendered(a) == [path |-> a.path, template |-> a.template, include |-> Include(a),
                namespace |-> a.data.namespace, classes |-> Classes(a), bodies |-> Bodies(a)]

\* The framework renders the artifacts.
Render ==
  /\ todo = {}
  /\ artifacts # <<>>
  /\ files = {}
  /\ files' = {Rendered(artifacts[i]) : i \in DOMAIN artifacts}
  /\ UNCHANGED <<targets, todo, artifacts>>

Next == Generate \/ Render

Spec == Init /\ [][Next]_vars

-----------------------------------------------------------------------------
(***************************************************************************)
(* What is generated of a schema file depends on that file alone, on       *)
(* neither the order of the map nor the other files of the run; and no two *)
(* files have one path, which protoc refuses, not even if the names of     *)
(* their schema files differ in case only.                                 *)
(***************************************************************************)
Expected(f) == {Rendered(ArtifactsOf(f)[i]) : i \in DOMAIN ArtifactsOf(f)}

OrderDoesNotMatter ==
  files # {} =>
    /\ files = UNION {Expected(f) : f \in targets}
    /\ Cardinality({a.path : a \in files}) = 4 * Cardinality(targets)

(***************************************************************************)
(* The generated files of a schema file fit together if, and only if, the  *)
(* file's name has no upper-case letter and no dot but the last, it has a  *)
(* package, and no service and no method stands behind a comment that ends *)
(* in a backslash (blanks and one line feed may follow).  They do if each  *)
(* source includes the header of its own side, the classes and methods it  *)
(* is written for are those declared there, in a namespace that has a      *)
(* name, and the headers include the messages of the file.                 *)
(***************************************************************************)
PlainName(f) ==
  LET stem == DropLast(f.name, 2)
  IN  \A i \in DOMAIN stem : stem[i] # "." /\ Lower[stem[i]] = stem[i]

CommentBefore(declaration) ==
  LET before  == Append(declaration.detached, declaration.leading)
      written == {i \in DOMAIN before : MakeComment(before[i]) # <<>>}
  IN  IF written = {} THEN NoComment ELSE before[Max(written)]

SwallowsNext(comment) ==
  LET n == Len(comment)
      last == IF n > 1 /\ TrimRight(comment[n]) = <<>> THEN n - 1 ELSE n
  IN  EndsInBackslash(TrimRight(comment[last]))

Tame(f) ==
  \A s \in f.services :
    /\ ~SwallowsNext(CommentBefore(s))
    /\ \A i \in DOMAIN s.methods : ~SwallowsNext(CommentBefore(s.methods[i]))

HeaderSuffix(template) ==
  CASE template = "_client.cpp" -> "_client.hpp"
    [] template = "_server.cpp" -> "_server.hpp"
    [] OTHER                    -> ".pb.h"

FitsTogether(f, a) ==
  /\ a.include = FilePathFor(f, HeaderSuffix(a.template))
  /\ a.namespace # <<>>
  /\ \A b \in files :
       b.path = FilePathFor(f, HeaderSuffix(a.template)) => a.classes = b.classes

UsableIffPlain ==
  files # {} =>
    \A f \in targets :
      (\A a \in files : a.path = FilePathFor(f, a.template) => FitsTogether(f, a))
        <=> PlainName(f) /\ f.package # <<>> /\ Tame(f)

(***************************************************************************)
(* Every line of text in the comments before a service, and in those of    *)
(* its methods, before and behind, is in a comment of what a header has    *)
(* for the service, in its order and without the blanks at its end, and    *)
(* there are no other comments there.                                      *)
(***************************************************************************)
Text(ln) == IF ln = <<>> THEN <<>> ELSE <<ln>>

CommentsOf(lines) == FlattenSeq([i \in DOMAIN lines |-> Text(lines[i].comment)])

TextOf(comment) == FlattenSeq([i \in DOMAIN comment |-> Text(TrimRight(comment[i]))])

TextOfMethod(meth) ==
  FlattenSeq([i \in DOMAIN meth.detached |-> TextOf(meth.detached[i])])
    \o TextOf(meth.leading) \o TextOf(meth.trailing)

TextBefore(s) ==
  FlattenSeq([i \in DOMAIN s.detached |-> TextOf(s.detached[i])]) \o TextOf(s.leading)

TextKept ==
  \A f \in targets : \A a \in files : \A b \in a.bodies : \A s \in f.services :
    a.path = FilePathFor(f, a.template) /\ b.name = s.name =>
      CommentsOf(b.lines) = TextBefore(s) \o
        FlattenSeq([m \in DOMAIN s.methods |-> TextOfMethod(s.methods[m])])
=============================================================================
