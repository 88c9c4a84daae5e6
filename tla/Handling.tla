------------------------------ MODULE Handling -----------------------------
(***************************************************************************)
(* What a Twirp server promises for one request, whichever language it is  *)
(* written in: the application's handler runs at most once, and only while *)
(* the request has no answer; a success is answered only for a handler     *)
(* that has succeeded; an error is answered while the handler does not     *)
(* run, or because it has just failed; and the answer is given once.       *)
(* TwirpServer implements the Promise.  GoServer implements the one that   *)
(* may drop a request: code of the application, a hook, can end the        *)
(* request by a panic before it has an answer.                             *)
(***************************************************************************)
VARIABLES
  run,    \* of the application's handler
  answer  \* to the request

vars == <<run, answer>>

Run    == {"none", "running", "succeeded", "failed"}
Answer == {"none", "pending", "success", "error", "dropped"}

TypeOK == run \in Run /\ answer \in Answer

Init == run = "none" /\ answer = "none"

Take ==
  /\ answer = "none"
  /\ answer' = "pending"
  /\ UNCHANGED run

Start ==
  /\ answer = "pending"
  /\ run = "none"
  /\ run' = "running"
  /\ UNCHANGED answer

End ==
  /\ run = "running"
  /\ run' \in {"succeeded", "failed"}
  /\ UNCHANGED answer

Succeed ==
  /\ answer = "pending"
  /\ run = "succeeded"
  /\ answer' = "success"
  /\ UNCHANGED run

\* The request is refused, the handler's error passed on, or its result lost.
Fail ==
  /\ answer = "pending"
  /\ answer' = "error"
  /\ run' = IF run = "running" THEN "failed" ELSE run

\* The request will have no answer.
Drop ==
  /\ answer = "pending"
  /\ answer' = "dropped"
  /\ run' = IF run = "running" THEN "failed" ELSE run

Next == Take \/ Start \/ End \/ Succeed \/ Fail

Promise == Init /\ [][Next]_vars

DroppingPromise == Init /\ [][Next \/ Drop]_vars
=============================================================================
