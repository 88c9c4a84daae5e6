----------------------------- MODULE MCCodeGen -----------------------------
(***************************************************************************)
(* Instance of CodeGen for TLC: every subset of six schema files, two of   *)
(* which differ in case only, one has a dot in its name, one is called     *)
(* "hat_proto.proto", one has no package and one no service; and one file  *)
(* with all short comments, before its service or before and behind its    *)
(* two methods.  Of these, the first has detached and trailing comments    *)
(* and a leading one of up to two lines, as the service has, the second a  *)
(* leading one of up to three, with lines that are empty, blank, text, and *)
(* text that ends in a backslash, with and without a blank behind it.      *)
(***************************************************************************)
EXTENDS CodeGen, TLC

File(name, package, services) ==
  [name |-> name \o <<".", "proto">>, package |-> package, services |-> services]

Uncommented == [detached |-> <<>>, leading |-> NoComment, trailing |-> NoComment]

Service(name) == [name |-> name, detached |-> <<>>, leading |-> NoComment,
                  methods |-> <<Uncommented>>]

NamedFile ==
  { File(<<"hat">>, <<"twirp", "example">>, {Service("Haberdasher")}),
    File(<<"Hat">>, <<"twirp", "example">>, {Service("Milliner")}),
    File(<<"v1", ".", "hat">>, <<"v1">>, {Service("Haberdasher")}),
    File(<<"hat_proto">>, <<"hats">>, {Service("Haberdasher"), Service("Milliner")}),
    File(<<"cap">>, <<>>, {Service("Capper")}),
    File(<<"size">>, <<"sizes">>, {}) }

SomeLine == {<<>>, <<" ">>, <<"x">>, <<"\\">>, <<"x", "\\", " ">>}

Lines(n) == UNION {[1..k -> SomeLine] : k \in 1..n}

Detached == {<<>>, <<<<<<"x", "\\">>>>>>, <<<<<<"\\">>, <<>>, <<>>>>>>}

First == [detached : Detached,
          leading  : Lines(2),
          trailing : {NoComment, <<<<>>, <<"\\">>>>, <<<<"x">>, <<"x", "\\">>, <<>>>>}]

Second == [detached : {<<>>}, trailing : {NoComment},
           leading  : Lines(1) \cup [1..3 -> {<<>>, <<"x">>, <<"\\">>}]]

CommentedFile ==
  { File(<<"hat">>, <<"hats">>, {[Service("Haberdasher") EXCEPT !.methods = <<f, s>>]}) :
      f \in First, s \in Second }
  \cup
  { File(<<"hat">>, <<"hats">>, {[Service("Haberdasher") EXCEPT !.detached = d, !.leading = l]}) :
      d \in Detached, l \in Lines(2) }

MCTargets == (SUBSET NamedFile) \cup {{f} : f \in CommentedFile}

MCLower ==
  [t \in {".", "proto", "v1", "hat", "Hat", "hat_proto", "cap", "size"} |->
     IF t = "Hat" THEN "hat" ELSE t]
=============================================================================
