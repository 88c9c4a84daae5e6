---------------------------- MODULE CodeComments ---------------------------
(***************************************************************************)
(* The comments of a schema in the generated headers: makeComment of       *)
(* gencpp.go, and where the templates of templates.go put what it returns  *)
(* around the declarations of a service: the class, then its methods.  The *)
(* question is what a C++ compiler makes of the header: a line that ends   *)
(* in a backslash is continued in the next, a comment too.                 *)
(*                                                                         *)
(* A line is a sequence of characters, a comment the sequence of the lines *)
(* between its line feeds, so that one that ends in a line feed has an     *)
(* empty last line.                                                        *)
(***************************************************************************)
EXTENDS SequencesExt

Char == {"x", " ", "\\"}

Comment == Seq(Seq(Char))

\* A method of a schema is its comments.
MethodType == [detached : Seq(Comment), leading : Comment, trailing : Comment]

NoComment == <<<<>>>>  \* the empty text is one empty line

\* strings.TrimRight with line feeds, blanks and the like.
TrimRight(ln) ==
  LET kept == {i \in DOMAIN ln : ln[i] # " "}
  IN  IF kept = {} THEN <<>>
      ELSE SubSeq(ln, 1, CHOOSE i \in kept : \A j \in kept : j <= i)

EndsInBackslash(ln) == ln # <<>> /\ ln[Len(ln)] = "\\"

\* A line of the output: what it declares, 0 for nothing, and its comment after
\* "//".
Line(method, comment) == [method |-> method, comment |-> comment]
Blank == Line(0, <<>>)

\* Seeded fault: what follows the last line feed is taken to be empty.
UpToLineFeed(comment) ==
  LET Out(i) == LET ln == TrimRight(comment[i])
                IN  IF i = Len(comment) THEN <<>>
                    ELSE IF ln # <<>> THEN <<Line(0, ln)>> ELSE <<Blank>>
  IN  FlattenSeq([i \in DOMAIN comment |-> Out(i)])

\* makeComment of one text: a comment for every line with text, an empty line
\* for every other but the last.
MakeComment(comment) ==
  LET Out(i) == LET ln == TrimRight(comment[i])
                IN  IF ln # <<>> THEN <<Line(0, ln)>>
                    ELSE IF i # Len(comment) THEN <<Blank>> ELSE <<>>
  IN  FlattenSeq([i \in DOMAIN comment |-> Out(i)])

\* makeComment of several.
MakeComments(comments) == FlattenSeq([i \in DOMAIN comments |-> MakeComment(comments[i])])

\* Seeded fault: the next method follows its predecessor's comment directly.
MethodLinesTight(m, meth) ==
  LET trailing == MakeComment(meth.trailing)
      declared == IF trailing = <<>> THEN <<Line(m, <<>>)>>
                  ELSE <<Line(m, trailing[1].comment)>> \o Tail(trailing)
  IN  MakeComments(meth.detached) \o MakeComment(meth.leading) \o declared

\* The turn of a method in the loops of the headers' templates.  A trailing
\* comment begins in the line of the declaration; behind it an empty line is
\* left, because each turn begins with a line feed.
MethodLines(m, meth) ==
  LET trailing == MakeComment(meth.trailing)
      declared == IF trailing = <<>> THEN <<Line(m, <<>>)>>
                  ELSE <<Line(m, trailing[1].comment)>> \o Tail(trailing) \o <<Blank>>
  IN  MakeComments(meth.detached) \o MakeComment(meth.leading) \o declared

\* A class in a header.  Its own line follows the comments of the service as a
\* method does its own; but no trailing comment of a service is printed.
Heading(service) == [detached |-> service.detached, leading |-> service.leading,
                     trailing |-> NoComment]

\* What a service declares in a header: the class, then the methods.
Declarations(service) == <<Heading(service)>> \o service.methods

ClassLines(declarations) ==
  FlattenSeq([m \in DOMAIN declarations |-> MethodLines(m, declarations[m])])

-----------------------------------------------------------------------------
\* The compiler takes a line for part of the comment in the line before.
Continued(lines, i) == i > 1 /\ EndsInBackslash(lines[i - 1].comment)

\* The declarations the compiler sees.
Declared(lines) == {lines[i].method : i \in {j \in DOMAIN lines : ~Continued(lines, j)}} \ {0}

=============================================================================
