----------------------------- MODULE RequestReply ------------------------------
(***************************************************************************)
(* What the request channel promises to the callers of the RIL: a request  *)
(* is answered once, by a result or by a failure, and a request whose      *)
(* reply cannot be decoded may be lost; whatever its fate, it is final.    *)
(***************************************************************************)

CONSTANT Serial

VARIABLE fate

Fates == {"new", "pending", "answered", "failed", "lost"}

Init == fate = [s \in Serial |-> "new"]

Ask(s) ==
  /\ fate[s] = "new"
  /\ fate' = [fate EXCEPT ![s] = "pending"]

(* One event may settle many requests: a lost connection fails them all.   *)
Settle ==
  \E S \in SUBSET {s \in Serial : fate[s] = "pending"} :
    \E f \in [S -> {"answered", "failed", "lost"}] :
      fate' = [s \in Serial |-> IF s \in S THEN f[s] ELSE fate[s]]

Next == Settle \/ \E s \in Serial : Ask(s)

Spec == Init /\ [][Next]_fate

(* Every request is settled in the end.                                    *)
Settled == \A s \in Serial : fate[s] = "pending" ~> fate[s] # "pending"
================================================================================
