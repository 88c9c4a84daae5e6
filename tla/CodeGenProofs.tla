--------------------------- MODULE CodeGenProofs ---------------------------
(***************************************************************************)
(* Proofs about CodeGen for every set of schema files: that the order of   *)
(* the files does not matter, which schemas make files that fit together,  *)
(* and that no text of a comment is lost.                                  *)
(***************************************************************************)
EXTENDS CodeGen, SequenceLemmas, FiniteSetTheorems

-----------------------------------------------------------------------------
(***************************************************************************)
(* The files of a schema file.                                             *)
(***************************************************************************)
Suffix == {"_client.hpp", "_client.cpp", "_server.hpp", "_server.cpp"}

\* What the run is called with.
LEMMA TargetFiles ==
  ASSUME NEW T \in Targets, NEW f \in T
  PROVE  /\ f \in FileType
         /\ IsProto(f.name)
         /\ \A g \in T : f.name = g.name => f = g
BY CodeGenAssumption

LEMMA DropLastOf ==
  ASSUME NEW T, NEW s \in Seq(T), Len(s) > 2
  PROVE  /\ DropLast(s, 2) \in Seq(T)
         /\ Len(DropLast(s, 2)) = Len(s) - 2
         /\ DOMAIN DropLast(s, 2) = 1..(Len(s) - 2)
         /\ \A i \in 1..(Len(s) - 2) : DropLast(s, 2)[i] = s[i]
<1> DEFINE n == Len(s) - 2
           x == SubSeq(s, 1, n)
<1>1. Len(s) \in Nat /\ \A i \in 1..Len(s) : s[i] \in T
  BY LenProperties, ElementOfSeq
<1>2. 1 \in Int /\ n \in Int /\ \A i \in 1..n : s[i] \in T
  BY <1>1
<1>3. /\ x \in Seq(T)
      /\ Len(x) = IF 1 <= n THEN n - 1 + 1 ELSE 0
      /\ \A i \in 1 .. n - 1 + 1 : x[i] = s[1 + i - 1]
  BY <1>2, SubSeqProperties
<1>4. DOMAIN x = 1..Len(x)
  BY <1>3, LenProperties
<1> HIDE DEF x
<1> QED
  BY <1>1, <1>3, <1>4 DEF x, DropLast

\* A name is its stem with the suffix ".proto".
LEMMA StemOfName ==
  ASSUME NEW f \in FileType, IsProto(f.name)
  PROVE  /\ DropLast(f.name, 2) \in Seq(STRING)
         /\ Len(f.name) \in Nat
         /\ Len(DropLast(f.name, 2)) = Len(f.name) - 2
         /\ Len(f.name) > 2
         /\ \A i \in 1..(Len(f.name) - 2) : DropLast(f.name, 2)[i] = f.name[i]
<1>1. f.name \in Seq(STRING)
  BY DEF FileType
<1>2. Len(f.name) \in Nat /\ Len(f.name) > 2
  BY <1>1, LenProperties DEF IsProto
<1> QED
  BY <1>1, <1>2, DropLastOf

\* Every generated file belongs to one schema file, with one suffix.
LEMMA PathsDiffer ==
  ASSUME NEW T \in Targets, NEW f \in T, NEW g \in T, NEW t, NEW u,
         FilePathFor(f, t) = FilePathFor(g, u)
  PROVE  f = g /\ t = u
<1> DEFINE s == DropLast(f.name, 2)
           r == DropLast(g.name, 2)
<1>1. /\ f \in FileType /\ g \in FileType /\ IsProto(f.name) /\ IsProto(g.name)
      /\ f.name \in Seq(STRING) /\ g.name \in Seq(STRING)
  BY TargetFiles DEF FileType
<1>2. /\ s \in Seq(STRING) /\ r \in Seq(STRING)
      /\ Len(s) = Len(f.name) - 2 /\ Len(r) = Len(g.name) - 2
      /\ Len(f.name) \in Nat /\ Len(f.name) > 2 /\ Len(g.name) \in Nat /\ Len(g.name) > 2
      /\ \A i \in 1..(Len(f.name) - 2) : s[i] = f.name[i]
      /\ \A i \in 1..(Len(g.name) - 2) : r[i] = g.name[i]
  BY <1>1, StemOfName
<1> DEFINE S == STRING \cup {t, u}
<1>3. s \in Seq(S) /\ r \in Seq(S) /\ t \in S /\ u \in S
  BY <1>2, SeqMonotonic
<1>4. s = r /\ t = u
  <2>1. s \o <<t>> = r \o <<u>>
    BY DEF FilePathFor
  <2> HIDE DEF s, r, S
  <2>2. Append(s, t) = Append(r, u)
    BY <1>3, <2>1, AppendIsConcat
  <2> QED
    BY <1>3, <2>2, AppendInjective
<1>5. f.name = g.name
  <2>1. Len(f.name) = Len(g.name)
    BY <1>2, <1>4
  <2>2. ASSUME NEW i \in 1..Len(f.name) PROVE f.name[i] = g.name[i]
    <3>1. CASE i \in 1..(Len(f.name) - 2)
      BY <1>2, <1>4, <2>1, <3>1
    <3>2. CASE i = Len(f.name) - 1 \/ i = Len(f.name)
      BY <1>1, <2>1, <3>2 DEF IsProto
    <3> QED
      BY <1>2, <3>1, <3>2
  <2> QED
    BY <1>1, <2>1, <2>2, SeqEqual
<1> QED
  BY <1>4, <1>5, TargetFiles

LEMMA ArtifactsOfFile ==
  ASSUME NEW f
  PROVE  /\ Len(ArtifactsOf(f)) = 4 /\ DOMAIN ArtifactsOf(f) = 1..4
         /\ Range(ArtifactsOf(f)) = {Artifact(f, t) : t \in Suffix}
         /\ Expected(f) = {Rendered(Artifact(f, t)) : t \in Suffix}
<1> DEFINE a == ArtifactsOf(f)
<1>1. Len(a) = 4 /\ DOMAIN a = 1..4
  BY DEF ArtifactsOf
<1>2. /\ a[1] = Artifact(f, "_client.hpp") /\ a[2] = Artifact(f, "_client.cpp")
      /\ a[3] = Artifact(f, "_server.hpp") /\ a[4] = Artifact(f, "_server.cpp")
  BY DEF ArtifactsOf
<1> HIDE DEF a
<1>3. 1..4 = {1, 2, 3, 4}
  OBVIOUS
<1>4. Range(a) = {Artifact(f, t) : t \in Suffix}
  BY <1>1, <1>2, <1>3 DEF Range, Suffix
<1>5. {Rendered(a[i]) : i \in DOMAIN a} = {Rendered(Artifact(f, t)) : t \in Suffix}
  BY <1>1, <1>2, <1>3 DEF Suffix
<1> QED
  BY <1>1, <1>4, <1>5 DEF a, Expected

-----------------------------------------------------------------------------
\* The entries of the map that have been visited, of which there are finitely
\* many, have given the artifacts; and all of these have given the files.
Made(F) == {Artifact(f, t) : f \in F, t \in Suffix}

GenInv ==
  /\ targets \in Targets
  /\ todo \subseteq targets
  /\ IsFiniteSet(targets \ todo)
  /\ artifacts \in Seq(Made(targets))
  /\ Range(artifacts) = Made(targets \ todo)
  /\ files # {} => todo = {} /\ files = {Rendered(a) : a \in Made(targets)}

LEMMA GenInvInit == Init => GenInv
<1> SUFFICES ASSUME Init PROVE GenInv
  OBVIOUS
<1>1. targets \ todo = {}
  BY DEF Init
<1>2. IsFiniteSet({})
  BY FS_EmptySet
<1>3. Made({}) = {}
  BY DEF Made
<1>4. Range(<<>>) = {} /\ <<>> \in Seq(Made(targets))
  BY EmptySeq DEF Range
<1> QED
  BY <1>1, <1>2, <1>3, <1>4 DEF Init, GenInv

LEMMA GenInvNext == GenInv /\ [Next]_vars => GenInv'
<1> SUFFICES ASSUME GenInv, [Next]_vars PROVE GenInv'
  OBVIOUS
<1>1. CASE Generate
  <2>1. PICK f \in todo : todo' = todo \ {f} /\ artifacts' = artifacts \o ArtifactsOf(f)
    BY <1>1 DEF Generate
  <2>2. targets' = targets /\ files' = files /\ f \in targets
    BY <1>1, <2>1 DEF Generate, GenInv
  <2>3. files = {}
    BY <2>1 DEF GenInv
  <2>4. targets' \ todo' = (targets \ todo) \cup {f}
    BY <2>1, <2>2
  <2>5. IsFiniteSet((targets \ todo) \cup {f})
    BY FS_AddElement DEF GenInv
  <2>6. ArtifactsOf(f) \in Seq(Made(targets))
    BY <2>2 DEF ArtifactsOf, Made, Suffix
  <2>7. artifacts' \in Seq(Made(targets))
    BY <2>1, <2>6, ConcatProperties DEF GenInv
  <2>8. Range(artifacts') = Made((targets \ todo) \cup {f})
    <3>1. Range(artifacts \o ArtifactsOf(f)) = Range(artifacts) \cup Range(ArtifactsOf(f))
      BY <2>6, RangeConcatenation DEF GenInv
    <3>2. Range(ArtifactsOf(f)) = {Artifact(f, t) : t \in Suffix}
      BY ArtifactsOfFile
    <3>3. Made((targets \ todo) \cup {f})
            = Made(targets \ todo) \cup {Artifact(f, t) : t \in Suffix}
      BY DEF Made
    <3> QED
      BY <2>1, <3>1, <3>2, <3>3 DEF GenInv
  <2> QED
    BY <2>1, <2>2, <2>3, <2>4, <2>5, <2>7, <2>8 DEF GenInv
<1>2. CASE Render
  <2>1. /\ todo = {} /\ UNCHANGED <<targets, todo, artifacts>>
        /\ files' = {Rendered(artifacts[i]) : i \in DOMAIN artifacts}
    BY <1>2 DEF Render
  <2>2. {Rendered(artifacts[i]) : i \in DOMAIN artifacts} = {Rendered(a) : a \in Range(artifacts)}
    BY DEF Range
  <2>3. targets \ todo = targets
    BY <2>1
  <2> QED
    BY <2>1, <2>2, <2>3 DEF GenInv
<1>3. CASE UNCHANGED vars
  BY <1>3 DEF vars, GenInv
<1> QED
  BY <1>1, <1>2, <1>3 DEF Next

\* The files of the run, by schema file, and each of them by its path.
LEMMA FilesOfRun ==
  ASSUME GenInv, files # {}
  PROVE  /\ files = UNION {Expected(f) : f \in targets}
         /\ {a.path : a \in files} = {FilePathFor(p[1], p[2]) : p \in targets \X Suffix}
         /\ IsFiniteSet(targets)
<1>1. /\ todo = {} /\ files = {Rendered(a) : a \in Made(targets)}
      /\ IsFiniteSet(targets)
  BY DEF GenInv
<1>2. \A f : Expected(f) = {Rendered(Artifact(f, t)) : t \in Suffix}
  BY ArtifactsOfFile
<1>3. files = UNION {Expected(f) : f \in targets}
  BY <1>1, <1>2 DEF Made
<1>4. \A f, t : Rendered(Artifact(f, t)).path = FilePathFor(f, t)
  BY DEF Rendered, Artifact
<1>5. {a.path : a \in files} = {FilePathFor(p[1], p[2]) : p \in targets \X Suffix}
  <2>1. ASSUME NEW f \in targets, NEW t \in Suffix
        PROVE  \E a \in files : a.path = FilePathFor(f, t)
    BY <1>1, <1>4 DEF Made
  <2>2. ASSUME NEW a \in files
        PROVE  \E p \in targets \X Suffix : a.path = FilePathFor(p[1], p[2])
    <3>1. PICK f \in targets, t \in Suffix : a = Rendered(Artifact(f, t))
      BY <1>1 DEF Made
    <3>2. <<f, t>> \in targets \X Suffix /\ a.path = FilePathFor(<<f, t>>[1], <<f, t>>[2])
      BY <1>4, <3>1
    <3> QED
      BY <3>2
  <2>3. \A p \in targets \X Suffix : \E a \in files : a.path = FilePathFor(p[1], p[2])
    BY <2>1
  <2> QED
    BY <2>2, <2>3
<1> QED
  BY <1>1, <1>3, <1>5

LEMMA FourSuffixes == IsFiniteSet(Suffix) /\ Cardinality(Suffix) = 4
<1>1. IsFiniteSet({"_client.hpp"}) /\ Cardinality({"_client.hpp"}) = 1
  BY FS_Singleton
<1> DEFINE two   == {"_client.hpp"} \cup {"_client.cpp"}
           three == two \cup {"_server.hpp"}
           four  == three \cup {"_server.cpp"}
<1>2. IsFiniteSet(two) /\ Cardinality(two) = 2
  BY <1>1, FS_AddElement
<1>3. "_server.hpp" \notin two
  OBVIOUS
<1> HIDE DEF two
<1>4. IsFiniteSet(three) /\ Cardinality(three) = 3
  BY <1>2, <1>3, FS_AddElement
<1>5. "_server.cpp" \notin three
  BY DEF two
<1> HIDE DEF three
<1>6. IsFiniteSet(four) /\ Cardinality(four) = 4
  BY <1>4, <1>5, FS_AddElement
<1>7. Suffix = four
  BY DEF Suffix, two, three
<1> QED
  BY <1>6, <1>7

\* As many paths as schema files and suffixes.
LEMMA PathsOfRun ==
  ASSUME GenInv, files # {}
  PROVE  Cardinality({a.path : a \in files}) = 4 * Cardinality(targets)
<1> DEFINE pairs == targets \X Suffix
           paths == {FilePathFor(p[1], p[2]) : p \in pairs}
           path  == [p \in pairs |-> FilePathFor(p[1], p[2])]
<1>1. {a.path : a \in files} = paths /\ IsFiniteSet(targets)
  BY FilesOfRun
<1>2. /\ IsFiniteSet(pairs)
      /\ Cardinality(pairs) = Cardinality(targets) * 4
      /\ Cardinality(targets) \in Nat
  BY <1>1, FourSuffixes, FS_Product, FS_CardinalityType
<1>3. \A p, q \in pairs : path[p] = path[q] => p = q
  <2> SUFFICES ASSUME NEW p \in pairs, NEW q \in pairs, path[p] = path[q] PROVE p = q
    OBVIOUS
  <2>1. FilePathFor(p[1], p[2]) = FilePathFor(q[1], q[2])
    OBVIOUS
  <2>2. p \in targets \X Suffix /\ q \in targets \X Suffix
    OBVIOUS
  <2> HIDE DEF pairs, path, paths
  <2>3. /\ p[1] \in targets /\ q[1] \in targets /\ p[2] \in Suffix /\ q[2] \in Suffix
        /\ p = <<p[1], p[2]>> /\ q = <<q[1], q[2]>>
    BY <2>2
  <2>4. targets \in Targets
    BY DEF GenInv
  <2>5. p[1] = q[1] /\ p[2] = q[2]
    BY <2>1, <2>3, <2>4, PathsDiffer
  <2> QED
    BY <2>3, <2>5
<1>4. path \in [pairs -> paths] /\ \A x \in paths : \E p \in pairs : path[p] = x
  OBVIOUS
<1> HIDE DEF pairs, paths, path
<1>5. path \in Bijection(pairs, paths)
  BY <1>3, <1>4 DEF Bijection, Injection, Surjection, IsInjective
<1>6. Cardinality(paths) = Cardinality(pairs)
  BY <1>2, <1>5, FS_Bijection DEF ExistsBijection
<1>7. Cardinality(targets) * 4 = 4 * Cardinality(targets)
  BY <1>2
<1> QED
  BY <1>1, <1>2, <1>6, <1>7

\* Whatever the order of the map and the other files of the run, a schema file
\* gives its own four files, and no two files have one path.
THEOREM GeneratedInAnyOrder == Spec => []OrderDoesNotMatter
<1>1. GenInv => OrderDoesNotMatter
  BY FilesOfRun, PathsOfRun DEF OrderDoesNotMatter
<1> QED
  BY <1>1, GenInvInit, GenInvNext, PTL DEF Spec

-----------------------------------------------------------------------------
(***************************************************************************)
(* The text of comments.                                                   *)
(***************************************************************************)
CharSeq == Seq(Char)

LineType == [method : Nat, comment : CharSeq]

\* A line that declares no method.
NoMethod == {ln \in LineType : ln.method = 0}

LEMMA LineTypes ==
  /\ \A m \in Nat, c \in CharSeq : Line(m, c) \in LineType
  /\ Blank \in LineType
  /\ <<>> \in CharSeq
BY EmptySeq DEF Line, Blank, LineType, CharSeq

LEMMA TrimRightType ==
  ASSUME NEW ln \in CharSeq
  PROVE  TrimRight(ln) \in CharSeq
<1> DEFINE kept == {i \in DOMAIN ln : ln[i] # " "}
           last == CHOOSE i \in kept : \A j \in kept : j <= i
<1>1. ln \in Seq(Char) /\ Len(ln) \in Nat /\ DOMAIN ln = 1..Len(ln)
  BY LenProperties DEF CharSeq
<1>2. CASE kept = {}
  <2>1. TrimRight(ln) = <<>>
    BY <1>2 DEF TrimRight
  <2> QED
    BY <2>1, LineTypes
<1>3. CASE kept # {}
  <2>1. \E i \in kept : \A j \in kept : j <= i
    BY <1>1, <1>3, LastPosition
  <2>2. last \in kept
    BY <2>1
  <2>3. last \in 1..Len(ln)
    BY <1>1, <2>2
  <2>9. last \in Int /\ \A i \in 1..last : ln[i] \in Char
    <3> HIDE DEF last, kept
    <3> QED
      BY <1>1, <2>3, ElementOfSeq
  <2>4. TrimRight(ln) = SubSeq(ln, 1, last)
    BY <1>3 DEF TrimRight
  <2> HIDE DEF last, kept
  <2>5. SubSeq(ln, 1, last) \in Seq(Char)
    BY <2>9, SubSeqProperties
  <2> QED
    BY <2>4, <2>5 DEF CharSeq
<1> QED
  BY <1>2, <1>3

\* The lines of a comment, one by one.
OutOf(comment, i) ==
  IF TrimRight(comment[i]) # <<>> THEN <<Line(0, TrimRight(comment[i]))>>
  ELSE IF i # Len(comment) THEN <<Blank>> ELSE <<>>

Outs(comment) == [i \in DOMAIN comment |-> OutOf(comment, i)]

LEMMA CommentLines ==
  ASSUME NEW comment \in Comment
  PROVE  /\ MakeComment(comment) = FlattenSeq(Outs(comment))
         /\ Outs(comment) \in Seq(Seq(LineType))
         /\ MakeComment(comment) \in Seq(LineType)
         /\ Len(comment) \in Nat /\ DOMAIN comment = 1..Len(comment)
         /\ Len(Outs(comment)) = Len(comment)
         /\ \A i \in DOMAIN comment : TrimRight(comment[i]) \in CharSeq
<1>1. /\ Len(comment) \in Nat /\ DOMAIN comment = 1..Len(comment)
      /\ \A i \in DOMAIN comment : comment[i] \in CharSeq
  BY LenProperties, ElementOfSeq DEF Comment, CharSeq
<1>2. \A i \in DOMAIN comment : TrimRight(comment[i]) \in CharSeq
  BY <1>1, TrimRightType
<1>3. \A i \in DOMAIN comment : OutOf(comment, i) \in Seq(LineType)
  <2> SUFFICES ASSUME NEW i \in DOMAIN comment PROVE OutOf(comment, i) \in Seq(LineType)
    OBVIOUS
  <2>1. Line(0, TrimRight(comment[i])) \in LineType /\ Blank \in LineType
    BY <1>2, LineTypes
  <2> QED
    BY <2>1, EmptySeq DEF OutOf
<1>4. Outs(comment) \in Seq(Seq(LineType)) /\ Len(Outs(comment)) = Len(comment)
  BY <1>1, <1>3 DEF Outs
<1>5. MakeComment(comment) = FlattenSeq(Outs(comment))
  BY DEF MakeComment, Outs, OutOf
<1> QED
  BY <1>1, <1>2, <1>4, <1>5, FlattenAppend

-----------------------------------------------------------------------------
\* The comments in some lines, ...
TextOfLine == [ln \in LineType |-> Text(ln.comment)]

LEMMA CommentsOfLines ==
  /\ Turns(TextOfLine, LineType, Seq(CharSeq))
  /\ \A lines \in Seq(LineType) :
       /\ CommentsOf(lines) = FlattenSeq(Each(TextOfLine, lines))
       /\ CommentsOf(lines) \in Seq(CharSeq)
<1>1. Turns(TextOfLine, LineType, Seq(CharSeq))
  BY EmptySeq DEF Turns, TextOfLine, Text, LineType
<1>2. ASSUME NEW lines \in Seq(LineType)
      PROVE  /\ CommentsOf(lines) = FlattenSeq(Each(TextOfLine, lines))
             /\ CommentsOf(lines) \in Seq(CharSeq)
  <2> DEFINE x == Each(TextOfLine, lines)
  <2>1. DOMAIN lines = 1..Len(lines) /\ \A i \in 1..Len(lines) : lines[i] \in LineType
    BY LenProperties, ElementOfSeq
  <2>2. x = [i \in DOMAIN lines |-> Text(lines[i].comment)]
    BY <2>1 DEF Each, TextOfLine
  <2>3. x \in Seq(Seq(CharSeq))
    BY <1>1, EachType
  <2> HIDE DEF x
  <2>4. FlattenSeq(x) \in Seq(CharSeq)
    BY <2>3, FlattenAppend, EmptySeq
  <2> QED
    BY <2>2, <2>4 DEF x, CommentsOf
<1> QED
  BY <1>1, <1>2

\* ... in one, in none, ...
LEMMA CommentsOfOne ==
  /\ CommentsOf(<<>>) = <<>>
  /\ \A ln \in LineType : CommentsOf(<<ln>>) = Text(ln.comment)
<1>1. CommentsOf(<<>>) = <<>>
  BY EmptySeq, CommentsOfLines, EachOne, FlattenEmpty
<1>2. ASSUME NEW ln \in LineType PROVE CommentsOf(<<ln>>) = Text(ln.comment)
  <2>1. Text(ln.comment) \in Seq(CharSeq) /\ TextOfLine[ln] = Text(ln.comment)
    BY EmptySeq DEF Text, LineType, TextOfLine
  <2>2. <<ln>> \in Seq(LineType)
    OBVIOUS
  <2>3. CommentsOf(<<ln>>) = FlattenSeq(<<Text(ln.comment)>>)
    BY <2>1, <2>2, CommentsOfLines, EachOne
  <2> QED
    BY <2>1, <2>3, FlattenOne
<1> QED
  BY <1>1, <1>2

\* ... and in one part after another.
LEMMA CommentsOfConcat ==
  ASSUME NEW s \in Seq(LineType), NEW t \in Seq(LineType)
  PROVE  s \o t \in Seq(LineType) /\ CommentsOf(s \o t) = CommentsOf(s) \o CommentsOf(t)
<1>1. s \o t \in Seq(LineType)
  BY ConcatProperties
<1>2. FlattenSeq(Each(TextOfLine, s \o t))
        = FlattenSeq(Each(TextOfLine, s)) \o FlattenSeq(Each(TextOfLine, t))
  BY CommentsOfLines, FlattenEach
<1> QED
  BY <1>1, <1>2, CommentsOfLines

\* Parts put together.
LEMMA CommentsOfParts ==
  ASSUME NEW parts \in Seq(Seq(LineType))
  PROVE  CommentsOf(FlattenSeq(parts)) = FlattenSeq([i \in DOMAIN parts |-> CommentsOf(parts[i])])
<1> DEFINE h == [s \in Seq(LineType) |-> CommentsOf(s)]
<1>1. Turns(h, Seq(LineType), Seq(CharSeq))
  BY CommentsOfLines DEF Turns
<1>2. h[<<>>] = <<>>
  BY CommentsOfOne, EmptySeq
<1>3. \A s, t \in Seq(LineType) : h[s \o t] = h[s] \o h[t]
  BY CommentsOfConcat
<1>4. Respects(h, LineType, CharSeq)
  BY <1>1, <1>2, <1>3 DEF Respects
<1>5. Each(h, parts) = [i \in DOMAIN parts |-> CommentsOf(parts[i])]
  BY ElementOfSeq, LenProperties DEF Each
<1>6. FlattenSeq(parts) \in Seq(LineType)
  BY FlattenAppend, EmptySeq
<1>7. h[FlattenSeq(parts)] = CommentsOf(FlattenSeq(parts))
  BY <1>6
<1> HIDE DEF h
<1>8. h[FlattenSeq(parts)] = FlattenSeq(Each(h, parts))
  BY <1>4, FlattenMapped
<1> QED
  BY <1>5, <1>7, <1>8

\* What makeComment returns has the text of the comment.
LEMMA TextOfComment ==
  ASSUME NEW comment \in Comment
  PROVE  CommentsOf(MakeComment(comment)) = TextOf(comment)
<1>1. ASSUME NEW i \in DOMAIN comment
      PROVE  CommentsOf(OutOf(comment, i)) = Text(TrimRight(comment[i]))
  <2>1. TrimRight(comment[i]) \in CharSeq
    BY CommentLines
  <2>2. /\ Line(0, TrimRight(comment[i])) \in LineType /\ Blank \in LineType
        /\ Line(0, TrimRight(comment[i])).comment = TrimRight(comment[i])
        /\ Blank.comment = <<>>
    BY <2>1, LineTypes DEF Line, Blank
  <2>3. /\ CommentsOf(<<Line(0, TrimRight(comment[i]))>>) = Text(TrimRight(comment[i]))
        /\ CommentsOf(<<Blank>>) = Text(<<>>) /\ CommentsOf(<<>>) = Text(<<>>)
    BY <2>2, CommentsOfOne DEF Text
  <2> QED
    BY <2>3 DEF OutOf
<1>2. [i \in DOMAIN Outs(comment) |-> CommentsOf(Outs(comment)[i])]
        = [i \in DOMAIN comment |-> Text(TrimRight(comment[i]))]
  BY <1>1 DEF Outs
<1>3. CommentsOf(FlattenSeq(Outs(comment)))
        = FlattenSeq([i \in DOMAIN Outs(comment) |-> CommentsOf(Outs(comment)[i])])
  BY CommentLines, CommentsOfParts
<1> QED
  BY <1>2, <1>3, CommentLines DEF TextOf

LEMMA CommentType ==
  ASSUME NEW comments \in Seq(Comment)
  PROVE  /\ [i \in DOMAIN comments |-> MakeComment(comments[i])] \in Seq(Seq(LineType))
         /\ MakeComments(comments) \in Seq(LineType)
         /\ CommentsOf(MakeComments(comments))
              = FlattenSeq([i \in DOMAIN comments |-> TextOf(comments[i])])
<1> DEFINE made == [i \in DOMAIN comments |-> MakeComment(comments[i])]
<1>1. /\ DOMAIN comments = 1..Len(comments) /\ Len(comments) \in Nat
      /\ \A i \in DOMAIN comments : comments[i] \in Comment
  BY LenProperties, ElementOfSeq
<1>2. \A i \in DOMAIN comments : MakeComment(comments[i]) \in Seq(LineType)
  BY <1>1, CommentLines
<1>3. made \in Seq(Seq(LineType)) /\ DOMAIN made = DOMAIN comments
  BY <1>1, <1>2
<1>4. [i \in DOMAIN made |-> CommentsOf(made[i])] = [i \in DOMAIN comments |-> TextOf(comments[i])]
  BY <1>1, TextOfComment
<1> HIDE DEF made
<1>5. FlattenSeq(made) \in Seq(LineType)
  BY <1>3, FlattenAppend, EmptySeq
<1>6. CommentsOf(FlattenSeq(made)) = FlattenSeq([i \in DOMAIN made |-> CommentsOf(made[i])])
  BY <1>3, CommentsOfParts
<1> QED
  BY <1>3, <1>4, <1>5, <1>6 DEF made, MakeComments

\* The lines of a declaration, with the comment behind it.
DeclaredIn(m, trailing) ==
  IF trailing = <<>> THEN <<Line(m, <<>>)>>
  ELSE <<Line(m, trailing[1].comment)>> \o Tail(trailing) \o <<Blank>>

LEMMA TextOfDeclaration ==
  ASSUME NEW m \in Nat, NEW trailing \in Seq(LineType)
  PROVE  /\ DeclaredIn(m, trailing) \in Seq(LineType)
         /\ CommentsOf(DeclaredIn(m, trailing)) = CommentsOf(trailing)
<1>1. CASE trailing = <<>>
  <2>1. Line(m, <<>>) \in LineType /\ Line(m, <<>>).comment = <<>>
    BY LineTypes DEF Line
  <2>2. CommentsOf(<<Line(m, <<>>)>>) = <<>> /\ CommentsOf(trailing) = <<>>
    BY <1>1, <2>1, CommentsOfOne DEF Text
  <2>3. DeclaredIn(m, trailing) = <<Line(m, <<>>)>>
    BY <1>1 DEF DeclaredIn
  <2> QED
    BY <2>1, <2>2, <2>3
<1>2. CASE trailing # <<>>
  <2> DEFINE first == trailing[1]
             rest  == Tail(trailing)
             line  == Line(m, first.comment)
  <2>1. first \in LineType /\ rest \in Seq(LineType) /\ trailing = <<first>> \o rest
    BY <1>2, FirstAndRest
  <2>2. line \in LineType /\ line.comment = first.comment
    BY <2>1, LineTypes DEF LineType, Line
  <2>3. Blank \in LineType /\ Blank.comment = <<>>
    BY LineTypes DEF Blank, Line
  <2>4. DeclaredIn(m, trailing) = <<line>> \o rest \o <<Blank>>
    BY <1>2 DEF DeclaredIn
  <2> HIDE DEF first, rest, line
  <2>5. <<line>> \in Seq(LineType) /\ <<first>> \in Seq(LineType) /\ <<Blank>> \in Seq(LineType)
    BY <2>1, <2>2, <2>3
  <2>6. <<line>> \o rest \in Seq(LineType)
    BY <2>1, <2>5, ConcatProperties
  <2>7. /\ CommentsOf(<<line>> \o rest \o <<Blank>>) = CommentsOf(<<line>> \o rest) \o <<>>
        /\ <<line>> \o rest \o <<Blank>> \in Seq(LineType)
    BY <2>3, <2>5, <2>6, CommentsOfConcat, CommentsOfOne DEF Text
  <2>8. CommentsOf(<<line>> \o rest) = CommentsOf(trailing)
    <3>1. CommentsOf(<<line>> \o rest) = CommentsOf(<<line>>) \o CommentsOf(rest)
      BY <2>1, <2>5, CommentsOfConcat
    <3>2. CommentsOf(<<first>> \o rest) = CommentsOf(<<first>>) \o CommentsOf(rest)
      BY <2>1, <2>5, CommentsOfConcat
    <3>3. CommentsOf(<<line>>) = CommentsOf(<<first>>)
      BY <2>1, <2>2, CommentsOfOne
    <3> QED
      BY <2>1, <3>1, <3>2, <3>3
  <2>9. CommentsOf(trailing) \o <<>> = CommentsOf(trailing)
    BY CommentsOfLines, ConcatEmptySeq
  <2> QED
    BY <2>4, <2>7, <2>8, <2>9
<1> QED
  BY <1>1, <1>2

\* The turn of a method keeps the text of its comments, ...
LEMMA TextOfMethodLines ==
  ASSUME NEW m \in Nat, NEW meth \in MethodType
  PROVE  /\ MethodLines(m, meth) \in Seq(LineType)
         /\ CommentsOf(MethodLines(m, meth)) = TextOfMethod(meth)
<1> DEFINE detached == MakeComments(meth.detached)
           leading  == MakeComment(meth.leading)
           trailing == MakeComment(meth.trailing)
<1>1. meth.detached \in Seq(Comment) /\ meth.leading \in Comment /\ meth.trailing \in Comment
  BY DEF MethodType
<1>2. MethodLines(m, meth) = detached \o leading \o DeclaredIn(m, trailing)
  BY DEF MethodLines, DeclaredIn
<1>3. /\ detached \in Seq(LineType)
      /\ CommentsOf(detached)
           = FlattenSeq([i \in DOMAIN meth.detached |-> TextOf(meth.detached[i])])
  BY <1>1, CommentType
<1>4. leading \in Seq(LineType) /\ CommentsOf(leading) = TextOf(meth.leading)
  BY <1>1, CommentLines, TextOfComment
<1>5. trailing \in Seq(LineType) /\ CommentsOf(trailing) = TextOf(meth.trailing)
  BY <1>1, CommentLines, TextOfComment
<1> HIDE DEF detached, leading, trailing
<1>6. /\ detached \o leading \in Seq(LineType)
      /\ CommentsOf(detached \o leading) = CommentsOf(detached) \o CommentsOf(leading)
  BY <1>3, <1>4, CommentsOfConcat
<1>7. /\ DeclaredIn(m, trailing) \in Seq(LineType)
      /\ CommentsOf(DeclaredIn(m, trailing)) = CommentsOf(trailing)
  BY <1>5, TextOfDeclaration
<1> DEFINE before   == detached \o leading
           declared == DeclaredIn(m, trailing)
<1>8. before \in Seq(LineType) /\ declared \in Seq(LineType)
  BY <1>6, <1>7
<1>9. MethodLines(m, meth) = before \o declared
  BY <1>2
<1>10. CommentsOf(before) \o CommentsOf(declared) = TextOfMethod(meth)
  BY <1>3, <1>4, <1>5, <1>6, <1>7 DEF TextOfMethod
<1> HIDE DEF before, declared
<1> QED
  BY <1>8, <1>9, <1>10, CommentsOfConcat

\* ... and so does what a header declares.
LEMMA TextOfClassLines ==
  ASSUME NEW methods \in Seq(MethodType)
  PROVE  CommentsOf(ClassLines(methods))
           = FlattenSeq([m \in DOMAIN methods |-> TextOfMethod(methods[m])])
<1> DEFINE parts == [m \in DOMAIN methods |-> MethodLines(m, methods[m])]
<1>1. /\ DOMAIN methods = 1..Len(methods) /\ Len(methods) \in Nat
      /\ \A m \in DOMAIN methods : m \in Nat /\ methods[m] \in MethodType
  BY LenProperties, ElementOfSeq
<1>2. \A m \in DOMAIN methods : /\ MethodLines(m, methods[m]) \in Seq(LineType)
                                /\ CommentsOf(MethodLines(m, methods[m])) = TextOfMethod(methods[m])
  BY <1>1, TextOfMethodLines
<1>3. parts \in Seq(Seq(LineType)) /\ DOMAIN parts = DOMAIN methods
  BY <1>1, <1>2
<1>4. [m \in DOMAIN parts |-> CommentsOf(parts[m])] = [m \in DOMAIN methods |-> TextOfMethod(methods[m])]
  BY <1>2
<1> HIDE DEF parts
<1>5. CommentsOf(FlattenSeq(parts)) = FlattenSeq([m \in DOMAIN parts |-> CommentsOf(parts[m])])
  BY <1>3, CommentsOfParts
<1> QED
  BY <1>4, <1>5 DEF parts, ClassLines

\* What a service declares: the class, then its methods.
LEMMA NoCommentLines ==
  /\ NoComment \in Comment /\ DOMAIN NoComment = {1} /\ NoComment = << <<>> >>
  /\ TextOf(NoComment) = <<>>
<1>1. <<>> \in CharSeq /\ NoComment = << <<>> >> /\ DOMAIN NoComment = {1}
  BY EmptySeq DEF NoComment, CharSeq
<1>2. NoComment \in Comment
  BY <1>1 DEF Comment, CharSeq
<1>3. TrimRight(<<>>) = <<>>
  BY DEF TrimRight
<1>4. [i \in DOMAIN NoComment |-> Text(TrimRight(NoComment[i]))] = << <<>> >>
  BY <1>1, <1>3 DEF Text
<1>5. <<>> \in Seq(CharSeq)
  BY EmptySeq
<1>6. FlattenSeq(<< <<>> >>) = <<>>
  BY <1>5, FlattenOne
<1> QED
  BY <1>1, <1>2, <1>4, <1>6 DEF TextOf

LEMMA DeclarationsOfService ==
  ASSUME NEW s \in ServiceType
  PROVE  LET all == Declarations(s)
             n   == Len(s.methods)
         IN  /\ s.methods \in Seq(MethodType) /\ n \in Nat /\ DOMAIN s.methods = 1..n
             /\ Heading(s) \in MethodType
             /\ all \in Seq(MethodType) /\ DOMAIN all = 1..(n + 1)
             /\ all[1] = Heading(s)
             /\ \A i \in 1..n : all[i + 1] = s.methods[i]
<1> DEFINE one  == <<Heading(s)>>
           rest == s.methods
           all  == one \o rest
           n    == Len(rest)
<1>1. rest \in Seq(MethodType) /\ n \in Nat /\ DOMAIN rest = 1..n
  BY LenProperties DEF ServiceType
<1>2. Heading(s) \in MethodType
  BY NoCommentLines DEF Heading, MethodType, ServiceType
<1>3. one \in Seq(MethodType) /\ Len(one) = 1 /\ one[1] = Heading(s)
  BY <1>2
<1>4. Declarations(s) = all
  BY DEF Declarations
<1> HIDE DEF one, rest
<1>5. /\ all \in Seq(MethodType) /\ Len(all) = Len(one) + Len(rest)
      /\ \A i \in 1..(Len(one) + Len(rest)) :
           all[i] = IF i <= Len(one) THEN one[i] ELSE rest[i - Len(one)]
  BY <1>1, <1>3, ConcatProperties
<1> HIDE DEF all
<1>6. Len(all) = n + 1 /\ DOMAIN all = 1..(n + 1)
  BY <1>1, <1>3, <1>5, LenProperties
<1>7. all[1] = Heading(s)
  BY <1>1, <1>3, <1>5
<1>8. ASSUME NEW i \in 1..n PROVE all[i + 1] = rest[i]
  <2>1. i + 1 \in 1..(Len(one) + Len(rest)) /\ ~(i + 1 <= Len(one)) /\ (i + 1) - Len(one) = i
    BY <1>1, <1>3
  <2> QED
    BY <1>5, <2>1
<1> QED
  BY <1>1, <1>2, <1>4, <1>5, <1>6, <1>7, <1>8 DEF rest

\* Their text is that before the service, and then that of the methods.
LEMMA TextOfDeclarations ==
  ASSUME NEW s \in ServiceType
  PROVE  FlattenSeq([m \in DOMAIN Declarations(s) |-> TextOfMethod(Declarations(s)[m])])
           = TextBefore(s) \o FlattenSeq([m \in DOMAIN s.methods |-> TextOfMethod(s.methods[m])])
<1> DEFINE h == [meth \in MethodType |-> TextOfMethod(meth)]
           H == Heading(s)
           one == <<H>>
           all == Declarations(s)
<1>1. /\ s.methods \in Seq(MethodType) /\ H \in MethodType /\ all \in Seq(MethodType)
      /\ all = one \o s.methods
  BY DeclarationsOfService DEF Declarations
<1>2. \A meth \in MethodType : TextOfMethod(meth) \in Seq(CharSeq)
  <2> SUFFICES ASSUME NEW meth \in MethodType PROVE TextOfMethod(meth) \in Seq(CharSeq)
    OBVIOUS
  <2>1. 1 \in Nat
    OBVIOUS
  <2>2. MethodLines(1, meth) \in Seq(LineType) /\ CommentsOf(MethodLines(1, meth)) = TextOfMethod(meth)
    BY <2>1, TextOfMethodLines
  <2> QED
    BY <2>2, CommentsOfLines
<1>3. Turns(h, MethodType, Seq(CharSeq))
  BY <1>2 DEF Turns
<1>4. \A t \in Seq(MethodType) : Each(h, t) = [m \in DOMAIN t |-> TextOfMethod(t[m])]
  BY ElementOfSeq, LenProperties DEF Each
<1>5. one \in Seq(MethodType) /\ h[H] = TextOfMethod(H)
  BY <1>1
<1>6. TextOfMethod(H) = TextBefore(s)
  <2> DEFINE d == FlattenSeq([i \in DOMAIN s.detached |-> TextOf(s.detached[i])])
  <2>1. s.detached \in Seq(Comment) /\ s.leading \in Comment
    BY DEF ServiceType
  <2>2. d \in Seq(CharSeq) /\ TextOf(s.leading) \in Seq(CharSeq)
    BY <2>1, CommentType, CommentLines, TextOfComment, CommentsOfLines
  <2>3. TextOfMethod(H) = d \o TextOf(s.leading) \o TextOf(NoComment)
    BY DEF TextOfMethod, Heading
  <2> HIDE DEF d
  <2>4. d \o TextOf(s.leading) \in Seq(CharSeq)
    BY <2>2, ConcatProperties
  <2>5. TextOfMethod(H) = d \o TextOf(s.leading)
    BY <2>3, <2>4, NoCommentLines, ConcatEmptySeq
  <2> QED
    BY <2>5 DEF d, TextBefore
<1> HIDE DEF h, H, one, all
<1>7. FlattenSeq(Each(h, one \o s.methods)) = FlattenSeq(Each(h, one)) \o FlattenSeq(Each(h, s.methods))
  BY <1>1, <1>3, <1>5, FlattenEach
<1>8. FlattenSeq(Each(h, one)) = TextOfMethod(H)
  <2>1. TextOfMethod(H) \in Seq(CharSeq)
    BY <1>1, <1>2
  <2> QED
    BY <1>5, <2>1, EachOne, FlattenOne DEF one
<1> QED
  BY <1>1, <1>4, <1>6, <1>7, <1>8 DEF all

\* No text of the comments before a service, and of its methods', is lost,
\* whatever the schema.
THEOREM GeneratedTextKept == Spec => []TextKept
<1>1. GenInv => TextKept
  <2> SUFFICES ASSUME GenInv, NEW f \in targets, NEW a \in files, NEW b \in a.bodies,
                      NEW s \in f.services, a.path = FilePathFor(f, a.template), b.name = s.name
               PROVE  CommentsOf(b.lines) = TextBefore(s) \o
                        FlattenSeq([m \in DOMAIN s.methods |-> TextOfMethod(s.methods[m])])
    BY DEF TextKept
  <2>1. targets \in Targets /\ files = {Rendered(x) : x \in Made(targets)}
    BY DEF GenInv
  <2>2. PICK g \in targets, t \in Suffix : a = Rendered(Artifact(g, t))
    BY <2>1 DEF Made
  <2>3. a.path = FilePathFor(g, t) /\ a.bodies = Bodies(Artifact(g, t))
    BY <2>2 DEF Rendered, Artifact
  <2>4. g = f
    <3> DEFINE u == a.template
    <3>1. FilePathFor(g, t) = FilePathFor(f, u)
      BY <2>3
    <3> HIDE DEF u
    <3> QED
      BY <2>1, <3>1, PathsDiffer
  <2>5. PICK r \in f.services : b = [name |-> r.name, lines |-> ClassLines(Declarations(r))]
    BY <2>3, <2>4 DEF Bodies, Artifact, TemplateData
  <2>6. r = s
    BY <2>1, <2>5, CodeGenAssumption
  <2>7. s \in ServiceType
    BY <2>1, TargetFiles DEF FileType
  <2>8. Declarations(s) \in Seq(MethodType)
    BY <2>7, DeclarationsOfService
  <2>9. CommentsOf(ClassLines(Declarations(s)))
          = FlattenSeq([m \in DOMAIN Declarations(s) |-> TextOfMethod(Declarations(s)[m])])
    BY <2>8, TextOfClassLines
  <2> QED
    BY <2>5, <2>6, <2>7, <2>9, TextOfDeclarations
<1> QED
  BY <1>1, GenInvInit, GenInvNext, PTL DEF Spec

-----------------------------------------------------------------------------
(***************************************************************************)
(* Which schemas make files that fit together: the names, ...              *)
(***************************************************************************)
\* The texts of names.  (The provers do not know a string for one of STRING.)
AnyText == STRING \cup {"", "_", ".pb.h", "_client.hpp", "_server.hpp"}

LEMMA AnyTexts ==
  /\ STRING \subseteq AnyText /\ Identifier \subseteq AnyText
  /\ "" \in AnyText /\ "_" \in AnyText /\ ".pb.h" \in AnyText
  /\ "_client.hpp" \in AnyText /\ "_server.hpp" \in AnyText
BY DEF AnyText, Identifier

\* What LowerSnakeCase leaves of a name.
LEMMA SnakeOfName ==
  ASSUME NEW name \in Seq(STRING), IsProto(name), \A i \in DOMAIN name : name[i] \in DOMAIN Lower
  PROVE  /\ LowerSnakeCase(name) \in Seq(AnyText)
         /\ Len(LowerSnakeCase(name)) = Len(name)
         /\ \A i \in 1..Len(name) :
              LowerSnakeCase(name)[i] = IF name[i] = "." THEN "_" ELSE Lower[name[i]]
         /\ LowerSnakeCase(name)[Len(name) - 1] = "_"
         /\ LowerSnakeCase(name)[Len(name)] = "proto"
<1> DEFINE n == Len(name)
           Snake(i) == IF name[i] = "." THEN "_" ELSE Lower[name[i]]
<1>1. n \in Nat /\ DOMAIN name = 1..n /\ n > 2 /\ name[n - 1] = "." /\ name[n] = "proto"
  BY LenProperties DEF IsProto
<1>2. \A i \in 1..n : Snake(i) \in AnyText
  BY <1>1, CodeGenAssumption, AnyTexts
<1>3. LowerSnakeCase(name) = [i \in 1..n |-> Snake(i)]
  BY <1>1 DEF LowerSnakeCase
<1>4. Snake(n - 1) = "_" /\ Snake(n) = "proto"
  BY <1>1, CodeGenAssumption
<1> HIDE DEF n, Snake
<1>5. /\ [i \in 1..n |-> Snake(i)] \in Seq(AnyText) /\ Len([i \in 1..n |-> Snake(i)]) = n
      /\ n \in 1..n /\ n - 1 \in 1..n
  BY <1>1, <1>2
<1> QED
  BY <1>3, <1>4, <1>5 DEF n, Snake

\* The name in the includes is the stem of the path exactly if that is plain.
LEMMA PlainStem ==
  ASSUME NEW T \in Targets, NEW f \in T
  PROVE  /\ ComputeFilename(f) \in Seq(AnyText)
         /\ DropLast(f.name, 2) \in Seq(AnyText)
         /\ ComputeFilename(f) = DropLast(f.name, 2) <=> PlainName(f)
<1> DEFINE name  == f.name
           n     == Len(name)
           snake == LowerSnakeCase(name)
           stem  == DropLast(name, 2)
           made  == DropLast(snake, 2)
<1>1. /\ IsProto(name) /\ name \in Seq(STRING) /\ n \in Nat /\ n > 2
      /\ \A i \in DOMAIN name : name[i] \in DOMAIN Lower
  <2>1. f \in FileType /\ IsProto(name)
    BY TargetFiles
  <2>2. name \in Seq(STRING)
    BY <2>1 DEF FileType
  <2>3. n \in Nat
    BY <2>2, LenProperties
  <2>4. \A i \in DOMAIN name : name[i] \in DOMAIN Lower
    BY CodeGenAssumption
  <2> QED
    BY <2>1, <2>2, <2>3, <2>4 DEF IsProto
<1>2. PlainName(f) <=> \A i \in DOMAIN stem : stem[i] # "." /\ Lower[stem[i]] = stem[i]
  BY DEF PlainName
<1>3. ComputeFilename(f) = IF Len(snake) > 1 /\ snake[Len(snake) - 1] = "_" /\ snake[Len(snake)] = "proto"
                           THEN made ELSE snake
  BY DEF ComputeFilename
<1> HIDE DEF name
<1>4. /\ snake \in Seq(AnyText) /\ Len(snake) = n
      /\ \A i \in 1..n : snake[i] = IF name[i] = "." THEN "_" ELSE Lower[name[i]]
      /\ snake[n - 1] = "_" /\ snake[n] = "proto"
  BY <1>1, SnakeOfName
<1>5. /\ stem \in Seq(AnyText) /\ Len(stem) = n - 2 /\ DOMAIN stem = 1..(n - 2)
      /\ \A i \in 1..(n - 2) : stem[i] = name[i]
  <2>1. name \in Seq(AnyText)
    BY <1>1, AnyTexts, SeqMonotonic
  <2> QED
    BY <1>1, <2>1, DropLastOf
<1> HIDE DEF snake, stem
<1>6. /\ made \in Seq(AnyText) /\ Len(made) = n - 2
      /\ \A i \in 1..(n - 2) : made[i] = snake[i]
  BY <1>1, <1>4, DropLastOf
<1> HIDE DEF n, made
<1>7. ComputeFilename(f) = made
  <2>1. Len(snake) = n /\ n > 1 /\ snake[Len(snake) - 1] = "_" /\ snake[Len(snake)] = "proto"
    <3>1. n > 1
      BY <1>1
    <3>2. Len(snake) = n /\ snake[n - 1] = "_" /\ snake[n] = "proto"
      BY <1>4, Zenon
    <3> QED
      BY <3>1, <3>2, Zenon
  <2> QED
    BY <1>3, <2>1
<1>8. ASSUME NEW i \in 1..(n - 2)
      PROVE  made[i] = stem[i] <=> stem[i] # "." /\ Lower[stem[i]] = stem[i]
  <2>1. i \in 1..n
    BY <1>1
  <2>2. made[i] = IF name[i] = "." THEN "_" ELSE Lower[name[i]]
    BY <1>4, <1>6, <2>1
  <2> QED
    BY <1>5, <2>2
<1>9. made = stem <=> \A i \in 1..(n - 2) : made[i] = stem[i]
  BY <1>5, <1>6, SeqEqual
<1> QED
  BY <1>2, <1>5, <1>6, <1>7, <1>8, <1>9 DEF stem, name

\* The header a file includes is found exactly then.
LEMMA IncludeIffPlain ==
  ASSUME NEW T \in Targets, NEW f \in T, NEW t \in Suffix
  PROVE  Include(Artifact(f, t)) = FilePathFor(f, HeaderSuffix(t)) <=> PlainName(f)
<1> DEFINE u == HeaderSuffix(t)
           made == ComputeFilename(f)
           stem == DropLast(f.name, 2)
<1>1. Include(Artifact(f, t)) = made \o <<u>>
  BY DEF Include, Artifact, TemplateData, HeaderSuffix
<1>2. FilePathFor(f, u) = stem \o <<u>>
  BY DEF FilePathFor
<1>3. u \in AnyText
  <2>1. u = "_client.hpp" \/ u = "_server.hpp" \/ u = ".pb.h"
    BY DEF HeaderSuffix, Suffix
  <2> QED
    BY <2>1, AnyTexts
<1>4. made \in Seq(AnyText) /\ stem \in Seq(AnyText) /\ (made = stem <=> PlainName(f))
  BY PlainStem
<1> HIDE DEF u, made, stem
<1>5. Append(made, u) = made \o <<u>> /\ Append(stem, u) = stem \o <<u>>
  BY <1>3, <1>4, AppendIsConcat
<1>6. Append(made, u) = Append(stem, u) <=> made = stem
  <2>1. made \in Seq(AnyText) /\ stem \in Seq(AnyText)
    BY <1>4
  <2> QED
    BY <1>3, <2>1, AppendInjective
<1> QED
  BY <1>1, <1>2, <1>4, <1>5, <1>6 DEF u

\* A qualified name has its parts, and those of the package are no empty ones.
PartOfName == [x \in AnyText |-> IF x = "" THEN <<>> ELSE <<x>>]

LEMMA CppNameOf ==
  ASSUME NEW p \in Seq(Identifier), NEW r \in Seq(Identifier)
  PROVE  CppName(FullyQualifiedName(p, r)) = p \o r
<1> DEFINE q == p \o r
           e == <<"">>
<1>1. /\ q \in Seq(Identifier) /\ q \in Seq(AnyText) /\ e \in Seq(AnyText)
      /\ p \in Seq(AnyText) /\ r \in Seq(AnyText)
  <2>1. Identifier \subseteq AnyText
    BY AnyTexts
  <2>2. q \in Seq(Identifier)
    BY ConcatProperties
  <2>3. e \in Seq(AnyText)
    BY AnyTexts, OneElement
  <2> HIDE DEF q, e
  <2>4. \A x \in Seq(Identifier) : x \in Seq(AnyText)
    BY <2>1, SeqWider
  <2> QED
    BY <2>2, <2>3, <2>4
<1>2. FullyQualifiedName(p, r) = e \o q
  <2>1. (e \o p) \o r = e \o (p \o r)
    <3>1. e \in Seq(AnyText) /\ p \in Seq(AnyText) /\ r \in Seq(AnyText)
      BY <1>1
    <3> HIDE DEF e
    <3> QED
      BY <3>1, ConcatAssociative
  <2> QED
    BY <2>1 DEF FullyQualifiedName
<1> HIDE DEF q
<1>3. Turns(PartOfName, AnyText, Seq(AnyText))
  <2>1. \A x \in AnyText : <<x>> \in Seq(AnyText) /\ <<>> \in Seq(AnyText)
    BY EmptySeq
  <2> QED
    BY <2>1 DEF Turns, PartOfName
<1>4. CppName(e \o q) = FlattenSeq(Each(PartOfName, e \o q))
  <2>1. e \o q \in Seq(AnyText)
    BY <1>1, ConcatProperties
  <2>2. \A i \in DOMAIN (e \o q) : (e \o q)[i] \in AnyText
    BY <2>1, ElementOfSeq, LenProperties
  <2> QED
    BY <2>2 DEF CppName, Each, PartOfName
<1>5. FlattenSeq(Each(PartOfName, e \o q))
        = FlattenSeq(Each(PartOfName, e)) \o FlattenSeq(Each(PartOfName, q))
  <2> HIDE DEF e
  <2> QED
    BY <1>1, <1>3, FlattenEach
<1>6. FlattenSeq(Each(PartOfName, e)) = <<>>
  <2>1. PartOfName[""] = <<>>
    BY AnyTexts DEF PartOfName
  <2>2. Each(PartOfName, e) = <<<<>>>>
    BY <2>1, EachOne
  <2> QED
    BY <2>2, FlattenOne, EmptySeq
<1>7. FlattenSeq(Each(PartOfName, q)) = q
  <2> DEFINE h == [x \in Identifier |-> PartOfName[x]]
  <2>1. \A x \in Identifier : h[x] = <<x>>
    BY AnyTexts DEF PartOfName, Identifier
  <2>9. Turns(h, Identifier, Seq(Identifier))
    <3>1. \A x \in Identifier : <<x>> \in Seq(Identifier)
      OBVIOUS
    <3>2. h = [x \in Identifier |-> h[x]]
      OBVIOUS
    <3> HIDE DEF h
    <3> QED
      BY <2>1, <3>1, <3>2 DEF Turns
  <2>2. Each(PartOfName, q) = Each(h, q)
    <3>1. \A i \in DOMAIN q : q[i] \in Identifier
      BY <1>1, ElementOfSeq, LenProperties
    <3> QED
      BY <3>1 DEF Each
  <2> HIDE DEF h
  <2> QED
    BY <1>1, <2>1, <2>2, <2>9, FlattenSame
<1> QED
  BY <1>1, <1>2, <1>4, <1>5, <1>6, <1>7, ConcatEmptySeq DEF q

\* The namespace and the classes' names of a schema file.
LEMMA NamesOfFile ==
  ASSUME NEW T \in Targets, NEW f \in T
  PROVE  /\ CppName(FullyQualifiedName(f.package, <<>>)) = f.package
         /\ \A s \in f.services :
              CppName(FullyQualifiedName(f.package, <<s.name>>)) = f.package \o <<s.name>>
         /\ \A s, r \in f.services :
              f.package \o <<s.name>> = f.package \o <<r.name>> => s = r
<1> DEFINE p == f.package
<1>1. p \in Seq(Identifier) /\ \A s \in f.services : s.name \in Identifier
  BY TargetFiles DEF FileType, ServiceType
<1> HIDE DEF p
<1>2. CppName(FullyQualifiedName(p, <<>>)) = p
  BY <1>1, CppNameOf, EmptySeq, ConcatEmptySeq
<1>3. ASSUME NEW s \in f.services
      PROVE  CppName(FullyQualifiedName(p, <<s.name>>)) = p \o <<s.name>>
  <2> DEFINE r == <<s.name>>
  <2>1. r \in Seq(Identifier)
    BY <1>1
  <2> HIDE DEF r
  <2>2. CppName(FullyQualifiedName(p, r)) = p \o r
    BY <1>1, <2>1, CppNameOf
  <2> QED
    BY <2>2 DEF r
<1>4. ASSUME NEW s \in f.services, NEW r \in f.services,
             p \o <<s.name>> = p \o <<r.name>>
      PROVE  s = r
  <2> DEFINE x == s.name
             y == r.name
  <2>1. x \in Identifier /\ y \in Identifier
    BY <1>1
  <2> HIDE DEF x, y
  <2>2. Append(p, x) = p \o <<x>> /\ Append(p, y) = p \o <<y>>
    BY <1>1, <2>1, AppendIsConcat
  <2>3. Append(p, x) = Append(p, y)
    BY <1>4, <2>2 DEF x, y
  <2>4. x = y
    BY <1>1, <2>1, <2>3, AppendInjective
  <2> QED
    BY <2>4, CodeGenAssumption DEF x, y
<1> QED
  BY <1>2, <1>3, <1>4 DEF p

-----------------------------------------------------------------------------
(***************************************************************************)
(* ... and the comments.  Lines are open if they continue in the next.     *)
(***************************************************************************)
Open(lines) == lines # <<>> /\ EndsInBackslash(Last(lines).comment)

\* Behind lines that are not open a compiler begins anew.
LEMMA DeclaredConcat ==
  ASSUME NEW s \in Seq(LineType), NEW t \in Seq(LineType), ~Open(s)
  PROVE  Declared(s \o t) = Declared(s) \cup Declared(t)
<1> DEFINE all == s \o t
           n == Len(s)
           Seen(lines) == {j \in DOMAIN lines : ~Continued(lines, j)}
<1>1. /\ all \in Seq(LineType) /\ n \in Nat /\ Len(t) \in Nat
      /\ DOMAIN all = 1..(n + Len(t)) /\ DOMAIN s = 1..n /\ DOMAIN t = 1..Len(t)
      /\ \A i \in 1..(n + Len(t)) : all[i] = IF i <= n THEN s[i] ELSE t[i - n]
  BY ConcatProperties, LenProperties
<1>2. n > 0 => ~EndsInBackslash(s[n].comment)
  BY EmptySeq DEF Open, Last
<1> HIDE DEF all, n
<1>3. ASSUME NEW i \in 1..n
      PROVE  i \in DOMAIN all /\ all[i] = s[i] /\ (Continued(all, i) <=> Continued(s, i))
  <2>1. i \in DOMAIN all /\ all[i] = s[i]
    BY <1>1
  <2>2. i > 1 => all[i - 1] = s[i - 1]
    BY <1>1
  <2> QED
    BY <2>1, <2>2 DEF Continued
<1>4. ASSUME NEW i \in 1..Len(t)
      PROVE  n + i \in DOMAIN all /\ all[n + i] = t[i] /\ (Continued(all, n + i) <=> Continued(t, i))
  <2>1. n + i \in 1..(n + Len(t)) /\ ~(n + i <= n) /\ (n + i) - n = i
    BY <1>1
  <2>2. n + i \in DOMAIN all /\ all[n + i] = t[i]
    BY <1>1, <2>1
  <2>3. CASE i > 1
    <3>1. /\ (n + i) - 1 \in 1..(n + Len(t)) /\ ~((n + i) - 1 <= n)
          /\ ((n + i) - 1) - n = i - 1 /\ n + i > 1
      BY <1>1, <2>3
    <3>2. all[(n + i) - 1] = t[i - 1]
      BY <1>1, <3>1
    <3> QED
      BY <2>2, <2>3, <3>1, <3>2 DEF Continued
  <2>4. CASE i = 1
    <3>1. ~Continued(t, i)
      BY <2>4 DEF Continued
    <3>2. CASE n = 0
      BY <2>2, <2>4, <3>1, <3>2 DEF Continued
    <3>3. CASE n > 0
      <4>1. (n + i) - 1 = n /\ n \in 1..(n + Len(t)) /\ n <= n
        BY <1>1, <2>4, <3>3
      <4>2. all[(n + i) - 1] = s[n]
        BY <1>1, <4>1
      <4> QED
        BY <1>2, <2>2, <3>1, <3>3, <4>2 DEF Continued
    <3> QED
      BY <1>1, <3>2, <3>3
  <2> QED
    BY <2>3, <2>4
<1>5. ASSUME NEW m \in Declared(all) PROVE m \in Declared(s) \cup Declared(t)
  <2>1. PICK i \in 1..(n + Len(t)) : m = all[i].method /\ ~Continued(all, i) /\ m # 0
    BY <1>1 DEF Declared
  <2>2. CASE i <= n
    <3>1. i \in DOMAIN s
      BY <1>1, <2>2
    <3> QED
      BY <1>1, <1>3, <2>1, <3>1 DEF Declared
  <2>3. CASE ~(i <= n)
    <3>1. i - n \in 1..Len(t) /\ n + (i - n) = i
      BY <1>1, <2>3
    <3>2. all[i] = t[i - n] /\ (Continued(all, i) <=> Continued(t, i - n))
      BY <1>4, <3>1
    <3> QED
      BY <1>1, <2>1, <3>1, <3>2 DEF Declared
  <2> QED
    BY <2>2, <2>3
<1>6. ASSUME NEW m \in Declared(s) PROVE m \in Declared(all)
  <2>1. PICK i \in DOMAIN s : m = s[i].method /\ ~Continued(s, i) /\ m # 0
    BY DEF Declared
  <2> QED
    BY <1>1, <1>3, <2>1 DEF Declared
<1>7. ASSUME NEW m \in Declared(t) PROVE m \in Declared(all)
  <2>1. PICK i \in DOMAIN t : m = t[i].method /\ ~Continued(t, i) /\ m # 0
    BY DEF Declared
  <2>2. n + i \in DOMAIN all /\ all[n + i] = t[i] /\ ~Continued(all, n + i)
    BY <1>1, <1>4, <2>1
  <2> QED
    BY <2>1, <2>2 DEF Declared
<1> QED
  BY <1>5, <1>6, <1>7 DEF all

\* In parts none of which is open each declares what it does alone.
ClosedLines == {lines \in Seq(LineType) : ~Open(lines)}

LEMMA DeclaredInParts ==
  ASSUME NEW parts \in Seq(ClosedLines)
  PROVE  Declared(FlattenSeq(parts)) = UNION {Declared(parts[i]) : i \in DOMAIN parts}
<1> DEFINE Each1(s) == UNION {Declared(s[i]) : i \in DOMAIN s}
           Good == {s \in Seq(ClosedLines) :
                      FlattenSeq(s) \in ClosedLines /\ Declared(FlattenSeq(s)) = Each1(s)}
<1>1. <<>> \in Good
  <2>1. Declared(<<>>) = {} /\ <<>> \in ClosedLines
    BY EmptySeq DEF Declared, ClosedLines, Open
  <2> QED
    BY <2>1, FlattenEmpty, EmptySeq
<1>2. ASSUME NEW s \in Seq(ClosedLines), NEW e \in ClosedLines, s \in Good
      PROVE  Append(s, e) \in Good
  <2> DEFINE all == Append(s, e)
  <2>1. /\ all \in Seq(ClosedLines) /\ DOMAIN all = 1..(Len(s) + 1)
        /\ \A k \in 1..Len(s) : all[k] = s[k]
        /\ all[Len(s) + 1] = e
        /\ Len(s) \in Nat /\ DOMAIN s = 1..Len(s)
    BY AppendProperties, LenProperties
  <2>2. FlattenSeq(all) = FlattenSeq(s) \o e
    <3>1. s \in Seq(Seq(LineType)) /\ e \in Seq(LineType)
      BY SeqWider DEF ClosedLines
    <3> QED
      BY <3>1, FlattenAppend
  <2> HIDE DEF all
  <2>3. /\ FlattenSeq(s) \in Seq(LineType) /\ ~Open(FlattenSeq(s))
        /\ e \in Seq(LineType) /\ ~Open(e)
        /\ Declared(FlattenSeq(s)) = Each1(s)
    BY <1>2 DEF ClosedLines
  <2>4. Declared(FlattenSeq(all)) = Each1(s) \cup Declared(e)
    BY <2>2, <2>3, DeclaredConcat
  <2>5. Each1(all) = Each1(s) \cup Declared(e)
    <3>1. DOMAIN all = DOMAIN s \cup {Len(s) + 1}
      BY <2>1
    <3> QED
      BY <2>1, <3>1
  <2>6. FlattenSeq(all) \in ClosedLines
    <3> DEFINE x == FlattenSeq(s)
    <3>1. x \in Seq(LineType) /\ ~Open(x)
      BY <2>3
    <3> HIDE DEF x
    <3>2. /\ x \o e \in Seq(LineType) /\ (e = <<>> => x \o e = x)
          /\ (e # <<>> => Last(x \o e) = Last(e))
      BY <2>3, <3>1, LastOfConcat, ConcatProperties
    <3>3. ~Open(x \o e)
      BY <2>3, <3>1, <3>2 DEF Open
    <3> QED
      BY <2>2, <3>2, <3>3 DEF x, ClosedLines
  <2> QED
    BY <2>1, <2>4, <2>5, <2>6 DEF all
<1> HIDE DEF Good
<1>3. Seq(ClosedLines) \subseteq Good
  BY <1>1, <1>2, SeqSetInduction
<1> QED
  BY <1>3 DEF Good

\* The comments declare no method.
LEMMA CommentsDeclareNothing ==
  /\ \A comment \in Comment : MakeComment(comment) \in Seq(NoMethod)
  /\ \A comments \in Seq(Comment) : MakeComments(comments) \in Seq(NoMethod)
<1>1. ASSUME NEW comment \in Comment PROVE MakeComment(comment) \in Seq(NoMethod)
  <2>1. DOMAIN comment = 1..Len(comment) /\ Len(comment) \in Nat
    BY CommentLines
  <2>2. ASSUME NEW i \in DOMAIN comment PROVE OutOf(comment, i) \in Seq(NoMethod)
    <3>1. TrimRight(comment[i]) \in CharSeq
      BY CommentLines
    <3>2. Line(0, TrimRight(comment[i])) \in NoMethod /\ Blank \in NoMethod
      BY <3>1, LineTypes DEF NoMethod, Line, Blank
    <3> QED
      BY <3>2, EmptySeq, OneElement DEF OutOf
  <2>3. Outs(comment) \in Seq(Seq(NoMethod))
    BY <2>1, <2>2 DEF Outs
  <2> QED
    BY <2>3, CommentLines, FlattenAppend, EmptySeq
<1>2. ASSUME NEW comments \in Seq(Comment) PROVE MakeComments(comments) \in Seq(NoMethod)
  <2> DEFINE made == [i \in DOMAIN comments |-> MakeComment(comments[i])]
  <2>1. /\ DOMAIN comments = 1..Len(comments) /\ Len(comments) \in Nat
        /\ \A i \in DOMAIN comments : MakeComment(comments[i]) \in Seq(NoMethod)
    BY <1>1, LenProperties, ElementOfSeq
  <2>2. made \in Seq(Seq(NoMethod))
    BY <2>1
  <2> HIDE DEF made
  <2>3. FlattenSeq(made) \in Seq(NoMethod)
    BY <2>2, FlattenAppend, EmptySeq
  <2> QED
    BY <2>3 DEF made, MakeComments
<1> QED
  BY <1>1, <1>2

\* A comment is open if it swallows what follows.
LEMMA OpenComment ==
  ASSUME NEW comment \in Comment, MakeComment(comment) # <<>>
  PROVE  Open(MakeComment(comment)) <=> SwallowsNext(comment)
<1> DEFINE n    == Len(comment)
           outs == Outs(comment)
           last == IF n > 1 /\ TrimRight(comment[n]) = <<>> THEN n - 1 ELSE n
<1>1. /\ MakeComment(comment) = FlattenSeq(outs) /\ outs \in Seq(Seq(LineType))
      /\ n \in Nat /\ DOMAIN comment = 1..n /\ DOMAIN outs = 1..n
      /\ \A i \in 1..n : outs[i] = OutOf(comment, i)
  BY CommentLines DEF Outs
<1> HIDE DEF outs
<1>2. ~(\A i \in DOMAIN outs : outs[i] = <<>>)
  BY <1>1, FlattenNothing
<1>3. n > 0
  BY <1>1, <1>2
<1>4. n = 1 => TrimRight(comment[n]) # <<>>
  <2>1. CASE n = 1 /\ TrimRight(comment[1]) = <<>>
    <3>1. outs[1] = <<>>
      BY <1>1, <2>1 DEF OutOf
    <3>2. DOMAIN outs = {1}
      BY <1>1, <2>1
    <3> QED
      BY <1>2, <3>1, <3>2
  <2> QED
    BY <2>1
<1>5. last \in 1..n /\ (last # n => last = n - 1 /\ TrimRight(comment[n]) = <<>>)
      /\ (last = n => TrimRight(comment[n]) # <<>>)
  <2> DEFINE none == TrimRight(comment[n]) = <<>>
  <2>1. n \in Nat /\ n > 0 /\ (n = 1 => ~none) /\ last = IF n > 1 /\ none THEN n - 1 ELSE n
    BY <1>1, <1>3, <1>4
  <2> HIDE DEF none, n, last
  <2>2. CASE none
    <3>1. n > 1 /\ last = n - 1
      BY <2>1, <2>2
    <3> QED
      BY <2>1, <2>2, <3>1 DEF none
  <2>3. CASE ~none
    <3>1. last = n
      BY <2>1, <2>3
    <3> QED
      BY <2>1, <2>3, <3>1 DEF none
  <2> QED
    BY <2>2, <2>3
<1>6. SwallowsNext(comment) <=> EndsInBackslash(TrimRight(comment[last]))
  BY DEF SwallowsNext
<1> HIDE DEF last, n
<1>7. outs[last] = <<Line(0, TrimRight(comment[last]))>>
  <2>1. outs[last] = OutOf(comment, last)
    BY <1>1, <1>5
  <2>2. CASE last = n
    BY <1>5, <2>1, <2>2 DEF OutOf
  <2>3. CASE last # n
    BY <2>1, <2>3 DEF OutOf, Blank, n
  <2> QED
    BY <2>2, <2>3
<1>8. IsLastPart(outs, last)
  <2>1. last \in DOMAIN outs /\ outs[last] # <<>>
    BY <1>1, <1>5, <1>7
  <2>2. ASSUME NEW j \in DOMAIN outs, j > last PROVE outs[j] = <<>>
    <3>1. j = n /\ TrimRight(comment[n]) = <<>>
      BY <1>1, <1>5, <2>2
    <3>2. outs[j] = OutOf(comment, j)
      BY <1>1
    <3> QED
      BY <3>1, <3>2 DEF OutOf, n
  <2> QED
    BY <2>1, <2>2 DEF IsLastPart
<1>9. Last(MakeComment(comment)) = Last(outs[last])
  BY <1>1, <1>8, FlattenLast
<1>10. Last(outs[last]).comment = TrimRight(comment[last])
  BY <1>7 DEF Last, Line
<1> QED
  BY <1>6, <1>9, <1>10 DEF Open

LinesBefore(meth) == MakeComments(meth.detached) \o MakeComment(meth.leading)

\* It is the last comment with anything in it that matters.
LEMMA OpenBefore ==
  ASSUME NEW meth \in MethodType
  PROVE  Open(LinesBefore(meth)) <=> SwallowsNext(CommentBefore(meth))
<1> DEFINE before  == Append(meth.detached, meth.leading)
           written == {i \in DOMAIN before : MakeComment(before[i]) # <<>>}
           made    == [c \in Comment |-> MakeComment(c)]
           parts   == Each(made, before)
<1>1. meth.detached \in Seq(Comment) /\ meth.leading \in Comment
  BY DEF MethodType
<1>2. /\ before \in Seq(Comment) /\ Len(before) \in Nat /\ DOMAIN before = 1..Len(before)
      /\ \A i \in DOMAIN before : before[i] \in Comment
  <2>1. before \in Seq(Comment)
    BY <1>1, AppendProperties
  <2> HIDE DEF before
  <2> QED
    BY <2>1, LenProperties, ElementOfSeq
<1>3. /\ Turns(made, Comment, Seq(LineType))
      /\ \A c \in Comment : made[c] = MakeComment(c) /\ MakeComment(c) \in Seq(LineType)
  BY CommentLines DEF Turns
<1>4. LinesBefore(meth) = FlattenSeq(parts)
  <2> DEFINE x == Each(made, meth.detached)
             v == MakeComment(meth.leading)
  <2>1. x = [i \in DOMAIN meth.detached |-> MakeComment(meth.detached[i])]
    BY <1>1, <1>3, ElementOfSeq, LenProperties DEF Each
  <2>2. MakeComments(meth.detached) = FlattenSeq(x)
    BY <2>1 DEF MakeComments
  <2> HIDE DEF made, x
  <2>3. x \in Seq(Seq(LineType)) /\ parts = Append(x, made[meth.leading])
    BY <1>1, <1>3, EachType, EachAppend DEF x
  <2>4. v \in Seq(LineType) /\ made[meth.leading] = v
    BY <1>1, <1>3
  <2> HIDE DEF v, parts
  <2>5. FlattenSeq(Append(x, v)) = FlattenSeq(x) \o v
    BY <2>3, <2>4, FlattenAppend
  <2> QED
    BY <2>2, <2>3, <2>4, <2>5 DEF LinesBefore, v
<1>5. CommentBefore(meth) = IF written = {} THEN NoComment ELSE before[Max(written)]
  BY DEF CommentBefore
<1> HIDE DEF before, made
<1>6. /\ parts \in Seq(Seq(LineType)) /\ DOMAIN parts = 1..Len(before)
      /\ \A i \in 1..Len(before) : parts[i] = MakeComment(before[i])
  <2>1. before \in Seq(Comment) /\ Turns(made, Comment, Seq(LineType))
    BY <1>2, <1>3
  <2>2. /\ parts \in Seq(Seq(LineType)) /\ DOMAIN parts = 1..Len(before)
        /\ \A i \in 1..Len(before) : parts[i] = made[before[i]] /\ before[i] \in Comment
    BY <2>1, EachType
  <2> HIDE DEF parts
  <2> QED
    BY <1>3, <2>2
<1> HIDE DEF parts
<1>7. CASE written = {}
  <2>1. \A i \in DOMAIN parts : parts[i] = <<>>
    BY <1>2, <1>6, <1>7
  <2>2. LinesBefore(meth) = <<>>
    BY <1>4, <1>6, <2>1, FlattenNothing
  <2>3. TrimRight(<<>>) = <<>>
    BY DEF TrimRight
  <2>4. ~SwallowsNext(NoComment)
    BY <2>3 DEF SwallowsNext, NoComment, EndsInBackslash
  <2> QED
    BY <1>5, <1>7, <2>2, <2>4 DEF Open
<1>8. CASE written # {}
  <2> DEFINE last == Max(written)
             n == Len(before)
  <2>1. last \in written /\ \A j \in written : j <= last
    <3>1. written \in SUBSET (1..n) /\ n \in Nat
      BY <1>2
    <3> HIDE DEF written, n
    <3>2. \E i \in written : \A j \in written : j <= i
      BY <1>8, <3>1, LastPosition
    <3>3. \E i \in written : \A j \in written : i >= j
      BY <3>1, <3>2
    <3>4. last \in written /\ \A j \in written : last >= j
      BY <3>3 DEF Max
    <3> QED
      BY <3>1, <3>4
  <2> HIDE DEF last
  <2>2. last \in 1..n /\ parts[last] # <<>> /\ before[last] \in Comment
    BY <1>2, <1>6, <2>1
  <2>3. IsLastPart(parts, last)
    <3>1. ASSUME NEW j \in DOMAIN parts, j > last PROVE parts[j] = <<>>
      <4>1. j \in 1..n /\ ~(j <= last)
        BY <1>2, <1>6, <2>2, <3>1
      <4>2. j \notin written
        BY <2>1, <4>1
      <4> QED
        BY <1>2, <1>6, <4>1, <4>2
    <3> QED
      BY <1>6, <2>2, <3>1 DEF IsLastPart
  <2>4. /\ FlattenSeq(parts) # <<>>
        /\ Last(FlattenSeq(parts)) = Last(MakeComment(before[last]))
        /\ MakeComment(before[last]) # <<>>
    BY <1>6, <2>2, <2>3, FlattenLast
  <2>5. Open(LinesBefore(meth)) <=> Open(MakeComment(before[last]))
    BY <1>4, <2>4 DEF Open
  <2>6. Open(MakeComment(before[last])) <=> SwallowsNext(before[last])
    BY <2>2, <2>4, OpenComment
  <2>7. CommentBefore(meth) = before[last]
    BY <1>5, <1>8 DEF last
  <2> QED
    BY <2>5, <2>6, <2>7
<1> QED
  BY <1>7, <1>8

\* The lines with the declaration are not open, and declare it.
LEMMA ClosedDeclaration ==
  ASSUME NEW m \in Nat \ {0}, NEW trailing \in Seq(NoMethod)
  PROVE  /\ DeclaredIn(m, trailing) \in ClosedLines
         /\ DeclaredIn(m, trailing) # <<>>
         /\ DeclaredIn(m, trailing)[1].method = m
         /\ \A i \in DOMAIN DeclaredIn(m, trailing) :
              i # 1 => DeclaredIn(m, trailing)[i].method = 0
<1> DEFINE lines == DeclaredIn(m, trailing)
<1>1. trailing \in Seq(LineType)
  BY SeqWider DEF NoMethod
<1>2. lines \in Seq(LineType)
  BY <1>1, TextOfDeclaration
<1>3. CASE trailing = <<>>
  <2>1. lines = <<Line(m, <<>>)>>
    BY <1>3 DEF DeclaredIn
  <2>2. ~Open(lines)
    BY <2>1 DEF Open, Last, Line, EndsInBackslash
  <2> QED
    BY <1>2, <2>1, <2>2 DEF Line, ClosedLines
<1>4. CASE trailing # <<>>
  <2> DEFINE first == Line(m, trailing[1].comment)
             rest  == Tail(trailing)
             blank == <<Blank>>
             tail  == rest \o blank
  <2>1. rest \in Seq(NoMethod) /\ blank \in Seq(NoMethod) /\ Blank.comment = <<>>
    <3>1. Blank \in NoMethod /\ Blank.comment = <<>>
      BY LineTypes DEF NoMethod, Blank, Line
    <3> QED
      BY <1>4, <3>1, FirstAndRest, OneElement
  <2>2. /\ tail \in Seq(NoMethod) /\ tail # <<>> /\ Last(tail) = Blank
        /\ Len(tail) \in Nat /\ DOMAIN tail = 1..Len(tail)
    <3>1. blank # <<>> /\ Last(blank) = Blank
      BY DEF Last
    <3> HIDE DEF rest, blank
    <3>2. tail \in Seq(NoMethod) /\ tail # <<>> /\ Last(tail) = Blank
      BY <2>1, <3>1, ConcatProperties, LastOfConcat
    <3> QED
      BY <3>2, LenProperties
  <2>3. first \in LineType /\ first.method = m
    <3>1. trailing[1] \in LineType
      BY <1>1, <1>4, FirstAndRest
    <3> QED
      BY <3>1, LineTypes DEF LineType, Line
  <2>4. lines = <<first>> \o tail
    <3>1. lines = (<<first>> \o rest) \o blank
      BY <1>4 DEF DeclaredIn
    <3>2. /\ <<first>> \in Seq(LineType) /\ rest \in Seq(LineType) /\ blank \in Seq(LineType)
      BY <2>1, <2>3, OneElement, SeqWider DEF NoMethod
    <3> HIDE DEF first, rest, blank, lines
    <3> QED
      BY <3>1, <3>2, ConcatAssociative
  <2>5. <<first>> \in Seq(LineType) /\ tail \in Seq(LineType)
    BY <2>2, <2>3, OneElement, SeqWider DEF NoMethod
  <2>6. \A i \in 1..Len(tail) : tail[i] \in NoMethod
    BY <2>2, ElementOfSeq
  <2> HIDE DEF first, tail, lines
  <2>7. lines # <<>> /\ Last(lines) = Blank
    BY <2>2, <2>4, <2>5, LastOfConcat
  <2>8. /\ DOMAIN lines = 1..(1 + Len(tail))
        /\ \A i \in 1..(1 + Len(tail)) : lines[i] = IF i <= 1 THEN first ELSE tail[i - 1]
    <3> DEFINE one == <<first>>
    <3>1. Len(one) = 1 /\ one[1] = first /\ one \in Seq(LineType)
      BY <2>5
    <3> HIDE DEF one
    <3>2. /\ Len(one \o tail) = 1 + Len(tail)
          /\ \A i \in 1..(1 + Len(tail)) : (one \o tail)[i] = IF i <= 1 THEN one[i] ELSE tail[i - 1]
      <4>1. /\ Len(one \o tail) = Len(one) + Len(tail)
            /\ \A i \in 1..(Len(one) + Len(tail)) :
                 (one \o tail)[i] = IF i <= Len(one) THEN one[i] ELSE tail[i - Len(one)]
        BY <2>5, <3>1, ConcatProperties
      <4> QED
        BY <3>1, <4>1
    <3>3. \A i \in 1..(1 + Len(tail)) : i <= 1 => i = 1
      BY <2>2
    <3> QED
      BY <1>2, <2>4, <3>1, <3>2, <3>3, LenProperties DEF one
  <2>9. lines[1].method = m /\ \A i \in DOMAIN lines : i # 1 => lines[i].method = 0
    <3>1. lines[1] = first
      BY <2>2, <2>8
    <3>2. ASSUME NEW i \in DOMAIN lines, i # 1 PROVE lines[i].method = 0
      <4>1. i - 1 \in 1..Len(tail) /\ lines[i] = tail[i - 1]
        BY <2>2, <2>8, <3>2
      <4> QED
        BY <2>6, <4>1 DEF NoMethod
    <3> QED
      BY <2>3, <3>1, <3>2
  <2>10. ~Open(lines)
    BY <2>1, <2>7 DEF Open, EndsInBackslash
  <2> QED
    BY <1>2, <2>7, <2>9, <2>10 DEF lines, ClosedLines
<1> QED
  BY <1>3, <1>4

\* A turn of the loop leaves nothing open, and declares its method unless the
\* comment before it is open.
LEMMA TurnDeclares ==
  ASSUME NEW m \in Nat \ {0}, NEW meth \in MethodType
  PROVE  /\ MethodLines(m, meth) \in ClosedLines
         /\ Declared(MethodLines(m, meth)) =
              IF SwallowsNext(CommentBefore(meth)) THEN {} ELSE {m}
<1> DEFINE before   == LinesBefore(meth)
           trailing == MakeComment(meth.trailing)
           decl     == DeclaredIn(m, trailing)
           all      == before \o decl
           n        == Len(before)
           Is0(i)   == all[i].method = 0
<1>1. /\ MethodLines(m, meth) = all
      /\ Open(before) <=> SwallowsNext(CommentBefore(meth))
  BY OpenBefore DEF MethodLines, DeclaredIn, LinesBefore
<1>2. before \in Seq(NoMethod) /\ trailing \in Seq(NoMethod)
  <2>1. /\ MakeComments(meth.detached) \in Seq(NoMethod)
        /\ MakeComment(meth.leading) \in Seq(NoMethod)
        /\ trailing \in Seq(NoMethod)
    BY CommentsDeclareNothing DEF MethodType
  <2> QED
    BY <2>1, ConcatProperties DEF LinesBefore
<1> HIDE DEF trailing, before
<1>3. /\ decl \in Seq(LineType) /\ ~Open(decl) /\ decl # <<>>
      /\ decl[1].method = m /\ \A i \in DOMAIN decl : i # 1 => decl[i].method = 0
      /\ DOMAIN decl = 1..Len(decl) /\ Len(decl) \in Nat \ {0}
  <2>1. /\ decl \in Seq(LineType) /\ ~Open(decl) /\ decl # <<>>
        /\ decl[1].method = m /\ \A i \in DOMAIN decl : i # 1 => decl[i].method = 0
    BY <1>2, ClosedDeclaration DEF ClosedLines
  <2> QED
    BY <2>1, EmptySeq, LenProperties
<1> HIDE DEF decl
<1>4. before \in Seq(LineType)
  BY <1>2, SeqWider DEF NoMethod
<1>5. /\ all \in Seq(LineType) /\ Len(all) = n + Len(decl) /\ DOMAIN all = 1..(n + Len(decl))
      /\ \A i \in 1..(n + Len(decl)) : all[i] = IF i <= n THEN before[i] ELSE decl[i - n]
      /\ n \in Nat
  BY <1>3, <1>4, ConcatProperties, LenProperties
<1>6. ~Open(all)
  <2>1. all # <<>> /\ Last(all) = Last(decl)
    BY <1>3, <1>4, LastOfConcat
  <2> QED
    BY <1>3, <2>1 DEF Open
<1>7. all[n + 1].method = m /\ n + 1 \in DOMAIN all
  <2>1. n + 1 \in 1..(n + Len(decl)) /\ ~(n + 1 <= n) /\ (n + 1) - n = 1
    BY <1>3, <1>5
  <2> QED
    BY <1>3, <1>5, <2>1
<1>8. \A i \in DOMAIN all : i # n + 1 => Is0(i)
  <2> SUFFICES ASSUME NEW i \in DOMAIN all, i # n + 1 PROVE all[i].method = 0
    OBVIOUS
  <2>1. CASE i <= n
    <3>1. i \in 1..n /\ all[i] = before[i]
      BY <1>5, <2>1
    <3>2. before[i] \in NoMethod
      BY <1>2, <3>1, ElementOfSeq
    <3> QED
      BY <3>1, <3>2 DEF NoMethod
  <2>2. CASE ~(i <= n)
    <3>1. i - n \in DOMAIN decl /\ i - n # 1 /\ all[i] = decl[i - n]
      BY <1>3, <1>5, <2>2
    <3> QED
      BY <1>3, <3>1
  <2> QED
    BY <2>1, <2>2
<1>9. Continued(all, n + 1) <=> Open(before)
  <2>1. CASE n = 0
    BY <1>4, <2>1, EmptySeq DEF Continued, Open
  <2>2. CASE n > 0
    <3>1. n + 1 > 1 /\ (n + 1) - 1 = n /\ n \in 1..(n + Len(decl)) /\ n <= n
      BY <1>3, <1>5, <2>2
    <3>2. all[(n + 1) - 1] = before[n]
      BY <1>5, <3>1
    <3>3. before # <<>>
      BY <2>2, EmptySeq
    <3> QED
      BY <3>1, <3>2, <3>3 DEF Continued, Open, Last
  <2> QED
    BY <1>5, <2>1, <2>2
<1>10. Declared(all) = IF Open(before) THEN {} ELSE {m}
  <2> HIDE DEF all, n
  <2>1. \A x : x \in Declared(all) <=>
                 x # 0 /\ \E i \in DOMAIN all : ~Continued(all, i) /\ x = all[i].method
    BY DEF Declared
  <2>2. \A x : x \in Declared(all) <=> x = m /\ ~Open(before)
    BY <1>7, <1>8, <1>9, <2>1
  <2> QED
    BY <2>2
<1> QED
  BY <1>1, <1>5, <1>6, <1>10 DEF ClosedLines

\* All declarations are seen exactly if none of them is swallowed.
LEMMA ClassDeclares ==
  ASSUME NEW methods \in Seq(MethodType)
  PROVE  Declared(ClassLines(methods)) = DOMAIN methods
           <=> \A i \in DOMAIN methods : ~SwallowsNext(CommentBefore(methods[i]))
<1> DEFINE parts == [m \in DOMAIN methods |-> MethodLines(m, methods[m])]
<1>1. /\ DOMAIN methods = 1..Len(methods) /\ Len(methods) \in Nat
      /\ \A m \in DOMAIN methods : m \in Nat \ {0} /\ methods[m] \in MethodType
  BY LenProperties, ElementOfSeq
<1>2. \A m \in DOMAIN methods :
        /\ MethodLines(m, methods[m]) \in ClosedLines
        /\ Declared(MethodLines(m, methods[m])) =
             IF SwallowsNext(CommentBefore(methods[m])) THEN {} ELSE {m}
  BY <1>1, TurnDeclares
<1>3. parts \in Seq(ClosedLines) /\ DOMAIN parts = DOMAIN methods
  BY <1>1, <1>2
<1>4. \A m \in DOMAIN methods :
        Declared(parts[m]) = IF SwallowsNext(CommentBefore(methods[m])) THEN {} ELSE {m}
  BY <1>2
<1>5. ClassLines(methods) = FlattenSeq(parts)
  BY DEF ClassLines
<1> HIDE DEF parts
<1>6. Declared(ClassLines(methods)) = UNION {Declared(parts[i]) : i \in DOMAIN methods}
  BY <1>3, <1>5, DeclaredInParts
<1>7. \A x : x \in Declared(ClassLines(methods)) <=>
               x \in DOMAIN methods /\ ~SwallowsNext(CommentBefore(methods[x]))
  <2> DEFINE bad == {i \in DOMAIN methods : SwallowsNext(CommentBefore(methods[i]))}
             Seen(i) == Declared(parts[i])
  <2>1. \A m \in DOMAIN methods : Seen(m) = IF m \in bad THEN {} ELSE {m}
    BY <1>4
  <2>2. Declared(ClassLines(methods)) = UNION {Seen(i) : i \in DOMAIN methods}
    BY <1>6
  <2> HIDE DEF Seen
  <2>3. UNION {Seen(i) : i \in DOMAIN methods} = DOMAIN methods \ bad
    <3> HIDE DEF bad
    <3> QED
      BY <2>1
  <2> QED
    BY <2>2, <2>3
<1> QED
  BY <1>7

\* So the class and all methods of a service.
LEMMA ServiceDeclares ==
  ASSUME NEW s \in ServiceType
  PROVE  Declared(ClassLines(Declarations(s))) = DOMAIN Declarations(s)
           <=> /\ ~SwallowsNext(CommentBefore(s))
               /\ \A i \in DOMAIN s.methods : ~SwallowsNext(CommentBefore(s.methods[i]))
<1> DEFINE all == Declarations(s)
           n   == Len(s.methods)
           Bad(x) == SwallowsNext(CommentBefore(x))
<1>1. /\ n \in Nat /\ DOMAIN s.methods = 1..n
      /\ all \in Seq(MethodType) /\ DOMAIN all = 1..(n + 1)
      /\ all[1] = Heading(s) /\ \A i \in 1..n : all[i + 1] = s.methods[i]
  BY DeclarationsOfService
<1>2. Declared(ClassLines(all)) = DOMAIN all <=> \A i \in DOMAIN all : ~Bad(all[i])
  BY <1>1, ClassDeclares
<1>3. Bad(Heading(s)) <=> Bad(s)
  BY DEF CommentBefore, Heading
<1> HIDE DEF all, n, Bad
<1>4. (\A i \in DOMAIN all : ~Bad(all[i])) <=> ~Bad(s) /\ \A i \in 1..n : ~Bad(s.methods[i])
  <2>1. ASSUME \A i \in DOMAIN all : ~Bad(all[i])
        PROVE  ~Bad(s) /\ \A i \in 1..n : ~Bad(s.methods[i])
    <3>1. 1 \in DOMAIN all /\ \A i \in 1..n : i + 1 \in DOMAIN all
      BY <1>1
    <3> QED
      BY <1>1, <1>3, <2>1, <3>1
  <2>2. ASSUME ~Bad(s), \A i \in 1..n : ~Bad(s.methods[i]), NEW i \in DOMAIN all
        PROVE  ~Bad(all[i])
    <3>1. CASE i = 1
      BY <1>1, <1>3, <2>2, <3>1
    <3>2. CASE i # 1
      <4>1. i - 1 \in 1..n /\ (i - 1) + 1 = i
        BY <1>1, <3>2
      <4>2. all[i] = s.methods[i - 1]
        BY <1>1, <4>1
      <4> QED
        BY <2>2, <4>1, <4>2
    <3> QED
      BY <3>1, <3>2
  <2> QED
    BY <2>1, <2>2
<1> QED
  BY <1>1, <1>2, <1>4 DEF all, Bad

\* The classes of a source and of its header: of the same names, and with the
\* same members unless some are swallowed.
LEMMA ClassesAgree ==
  ASSUME NEW T \in Targets, NEW f \in T, NEW t \in Suffix, NEW u \in Suffix,
         t \notin {"_client.hpp", "_server.hpp"}, u \in {"_client.hpp", "_server.hpp"}
  PROVE  Classes(Artifact(f, t)) = Classes(Artifact(f, u)) <=> Tame(f)
<1> DEFINE Name(s)     == f.package \o <<s.name>>
           Defined(s)  == [name |-> Name(s), members |-> DOMAIN Declarations(s)]
           Seen(s)     == Declared(ClassLines(Declarations(s)))
           Visible(s)  == [name |-> Name(s), members |-> Seen(s)]
<1>1. /\ CppName(FullyQualifiedName(f.package, <<>>)) = f.package
      /\ \A s \in f.services : CppName(FullyQualifiedName(f.package, <<s.name>>)) = Name(s)
      /\ \A s, r \in f.services : Name(s) = Name(r) => s = r
  BY NamesOfFile
<1>2. Classes(Artifact(f, t)) = {Defined(s) : s \in f.services}
  <2>1. ~IsHeader(Artifact(f, t)) /\ Artifact(f, t).data.file = f
    BY DEF IsHeader, Artifact, TemplateData
  <2>2. Classes(Artifact(f, t)) =
          {[name    |-> CppName(FullyQualifiedName(f.package, <<s.name>>)),
            members |-> DOMAIN Declarations(s)] : s \in f.services}
    BY <2>1 DEF Classes
  <2> DEFINE Long(s) == CppName(FullyQualifiedName(f.package, <<s.name>>))
  <2>3. \A s \in f.services : Long(s) = Name(s)
    BY <1>1
  <2>4. Classes(Artifact(f, t)) =
          {[name |-> Long(s), members |-> DOMAIN Declarations(s)] : s \in f.services}
    BY <2>2
  <2> HIDE DEF Name, Long
  <2> QED
    BY <2>3, <2>4
<1>3. Classes(Artifact(f, u)) = {Visible(s) : s \in f.services}
  <2>1. IsHeader(Artifact(f, u)) /\ Artifact(f, u).data.file = f
        /\ Artifact(f, u).data.namespace = f.package
    BY <1>1 DEF IsHeader, Artifact, TemplateData
  <2> QED
    BY <2>1 DEF Classes
<1>4. Tame(f) <=> \A s \in f.services : Seen(s) = DOMAIN Declarations(s)
  <2>1. \A s \in f.services : s \in ServiceType
    BY TargetFiles DEF FileType
  <2>2. \A s \in f.services :
          Seen(s) = DOMAIN Declarations(s)
            <=> /\ ~SwallowsNext(CommentBefore(s))
                /\ \A i \in DOMAIN s.methods : ~SwallowsNext(CommentBefore(s.methods[i]))
    BY <2>1, ServiceDeclares
  <2> HIDE DEF Seen
  <2> QED
    BY <2>2, Zenon DEF Tame
<1> HIDE DEF Name, Seen
<1>5. ASSUME {Defined(s) : s \in f.services} = {Visible(s) : s \in f.services},
             NEW s \in f.services
      PROVE  Seen(s) = DOMAIN Declarations(s)
  <2>1. PICK r \in f.services : Defined(s) = Visible(r)
    BY <1>5
  <2>2. Name(s) = Name(r) /\ DOMAIN Declarations(s) = Seen(r)
    BY <2>1
  <2> QED
    BY <1>1, <2>2
<1>6. ASSUME \A s \in f.services : Seen(s) = DOMAIN Declarations(s)
      PROVE  {Defined(s) : s \in f.services} = {Visible(s) : s \in f.services}
  <2>1. \A s \in f.services : Defined(s) = Visible(s)
    BY <1>6
  <2> QED
    BY <2>1
<1> QED
  BY <1>2, <1>3, <1>4, <1>5, <1>6

\* The four files of a schema file fit together exactly if its name is plain,
\* it has a package and no class or method is swallowed.
LEMMA FilesFit ==
  ASSUME GenInv, files # {}, NEW f \in targets, NEW t \in Suffix
  PROVE  FitsTogether(f, Rendered(Artifact(f, t)))
           <=> /\ PlainName(f)
               /\ f.package # <<>>
               /\ t \notin {"_client.hpp", "_server.hpp"} => Tame(f)
<1> DEFINE a == Rendered(Artifact(f, t))
           u == HeaderSuffix(t)
           b == Rendered(Artifact(f, u))
<1>1. targets \in Targets /\ files = {Rendered(x) : x \in Made(targets)}
  BY DEF GenInv
<1>2. /\ a.template = t /\ a.include = Include(Artifact(f, t))
      /\ a.namespace = f.package /\ a.classes = Classes(Artifact(f, t))
  <2>1. CppName(FullyQualifiedName(f.package, <<>>)) = f.package
    BY <1>1, NamesOfFile
  <2> QED
    BY <2>1 DEF Rendered, Artifact, TemplateData
<1>3. \A x \in files : x.path = FilePathFor(f, u) => x = b /\ u \in Suffix
  <2> SUFFICES ASSUME NEW x \in files, x.path = FilePathFor(f, u) PROVE x = b /\ u \in Suffix
    OBVIOUS
  <2>1. PICK g \in targets, v \in Suffix : x = Rendered(Artifact(g, v))
    BY <1>1 DEF Made
  <2>2. FilePathFor(g, v) = FilePathFor(f, u)
    BY <2>1 DEF Rendered, Artifact
  <2>3. g = f /\ v = u
    BY <1>1, <2>2, PathsDiffer
  <2> QED
    BY <2>1, <2>3
<1>4. u \in Suffix => b \in files /\ b.path = FilePathFor(f, u)
  BY <1>1 DEF Made, Rendered, Artifact
<1>5. FitsTogether(f, a) <=> /\ a.include = FilePathFor(f, u)
                             /\ f.package # <<>>
                             /\ \A x \in files : x.path = FilePathFor(f, u) => a.classes = x.classes
  <2>1. FitsTogether(f, a) <=>
          /\ a.include = FilePathFor(f, HeaderSuffix(a.template))
          /\ a.namespace # <<>>
          /\ \A x \in files : x.path = FilePathFor(f, HeaderSuffix(a.template)) => a.classes = x.classes
    BY DEF FitsTogether
  <2>2. HeaderSuffix(a.template) = u
    BY <1>2
  <2> HIDE DEF a, u
  <2> QED
    BY <1>2, <2>1, <2>2, Zenon
<1>6. a.include = FilePathFor(f, u) <=> PlainName(f)
  BY <1>1, <1>2, IncludeIffPlain
<1>7. (\A x \in files : x.path = FilePathFor(f, u) => a.classes = x.classes)
        <=> (u \in Suffix => a.classes = b.classes)
  <2> HIDE DEF a, b, u
  <2> QED
    BY <1>3, <1>4
<1>8. (u \in Suffix => a.classes = b.classes)
        <=> (t \notin {"_client.hpp", "_server.hpp"} => Tame(f))
  <2>1. b.classes = Classes(Artifact(f, u))
    BY DEF Rendered
  <2>2. CASE t \in {"_client.hpp", "_server.hpp"}
    <3>1. u = ".pb.h"
      BY <2>2 DEF HeaderSuffix
    <3>2. u \notin Suffix
      BY <3>1 DEF Suffix
    <3> QED
      BY <2>2, <3>2
  <2>3. CASE t \notin {"_client.hpp", "_server.hpp"}
    <3>1. u \in {"_client.hpp", "_server.hpp"}
      BY <2>3 DEF HeaderSuffix, Suffix
    <3>2. u \in Suffix
      BY <3>1 DEF Suffix
    <3> HIDE DEF u
    <3>3. Classes(Artifact(f, t)) = Classes(Artifact(f, u)) <=> Tame(f)
      BY <1>1, <2>3, <3>1, <3>2, ClassesAgree
    <3> QED
      BY <1>2, <2>1, <2>3, <3>2, <3>3
  <2> QED
    BY <2>2, <2>3
<1> QED
  BY <1>5, <1>6, <1>7, <1>8 DEF a

\* The generated files of a schema file fit together if, and only if, the file has
\* a plain name and a package and no comment swallows the class or method behind
\* it.
THEOREM GeneratedUsableIffPlain == Spec => []UsableIffPlain
<1>1. GenInv => UsableIffPlain
  <2> SUFFICES ASSUME GenInv, files # {}, NEW f \in targets
               PROVE  (\A a \in files : a.path = FilePathFor(f, a.template) => FitsTogether(f, a))
                        <=> PlainName(f) /\ f.package # <<>> /\ Tame(f)
    BY DEF UsableIffPlain
  <2>1. targets \in Targets /\ files = {Rendered(x) : x \in Made(targets)}
    BY DEF GenInv
  <2>2. \A t \in Suffix :
          /\ Rendered(Artifact(f, t)) \in files
          /\ Rendered(Artifact(f, t)).path = FilePathFor(f, Rendered(Artifact(f, t)).template)
    BY <2>1 DEF Made, Rendered, Artifact
  <2>3. ASSUME NEW a \in files, a.path = FilePathFor(f, a.template)
        PROVE  \E t \in Suffix : a = Rendered(Artifact(f, t))
    <3>1. PICK g \in targets, t \in Suffix : a = Rendered(Artifact(g, t))
      BY <2>1 DEF Made
    <3>2. a.template = t /\ a.path = FilePathFor(g, t)
      BY <3>1 DEF Rendered, Artifact
    <3>3. f = g
      BY <2>1, <2>3, <3>2, PathsDiffer
    <3> QED
      BY <3>1, <3>3
  <2>4. (\A a \in files : a.path = FilePathFor(f, a.template) => FitsTogether(f, a))
          <=> \A t \in Suffix : FitsTogether(f, Rendered(Artifact(f, t)))
    BY <2>2, <2>3
  <2>5. \A t \in Suffix :
          FitsTogether(f, Rendered(Artifact(f, t)))
            <=> /\ PlainName(f)
                /\ f.package # <<>>
                /\ t \notin {"_client.hpp", "_server.hpp"} => Tame(f)
    BY FilesFit
  <2>6. "_client.cpp" \in Suffix /\ "_client.cpp" \notin {"_client.hpp", "_server.hpp"}
    BY DEF Suffix
  <2> QED
    BY <2>4, <2>5, <2>6
<1> QED
  BY <1>1, GenInvInit, GenInvNext, PTL DEF Spec

=============================================================================
