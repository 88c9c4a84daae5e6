----------------------------- MODULE RemoteCall ----------------------------
(***************************************************************************)
(* What a remote call promises its caller.  The method runs at most once.  *)
(* The call returns at most once: "ok" only after the method has           *)
(* succeeded; "failed" when the method has not run and is not going to, or *)
(* when it has ended; and "unknown" at any time, after which the method    *)
(* may still run.  TwirpRpc implements this.                               *)
(***************************************************************************)
VARIABLES
  effect,  \* of the method
  result   \* of the call

vars == <<effect, result>>

Effect == {"none", "running", "succeeded", "failed"}
Result == {"none", "pending", "ok", "failed", "unknown"}

TypeOK == effect \in Effect /\ result \in Result

Init == effect = "none" /\ result = "none"

Call ==
  /\ result = "none"
  /\ result' = "pending"
  /\ UNCHANGED effect

Start ==
  /\ result \in {"pending", "unknown"}
  /\ effect = "none"
  /\ effect' = "running"
  /\ UNCHANGED result

End ==
  /\ result \in {"pending", "unknown"}
  /\ effect = "running"
  /\ effect' \in {"succeeded", "failed"}
  /\ UNCHANGED result

ReturnOk ==
  /\ result = "pending"
  /\ effect = "succeeded"
  /\ result' = "ok"
  /\ UNCHANGED effect

ReturnFailure ==
  /\ result = "pending"
  /\ effect # "running"
  /\ result' = "failed"
  /\ UNCHANGED effect

ReturnUnknown ==
  /\ result = "pending"
  /\ result' = "unknown"
  /\ UNCHANGED effect

Next == Call \/ Start \/ End \/ ReturnOk \/ ReturnFailure \/ ReturnUnknown

Promise == Init /\ [][Next]_vars
=============================================================================
