---------------------------- MODULE QueryPromise ----------------------------
(***************************************************************************)
(* What a query promises the one who executes it: it is opened once, and   *)
(* the application hears of it at most once - its answer, an error, or     *)
(* that it has timed out.                                                  *)
(***************************************************************************)
CONSTANT Query

VARIABLE told   \* what the application has heard of a query

vars == told

Outcomes == {"answered", "failed", "expired"}

Init == told = [q \in Query |-> "new"]

\* What may become of a query: one that fails as it is executed is never open.
Successors(was) ==
    CASE was = "new"  -> {"new", "open"} \cup Outcomes
      [] was = "open" -> {"open"} \cup Outcomes
      [] OTHER        -> {was}

\* Several queries may end in one step of the client.
Next ==
    /\ told' \in [Query -> {"new", "open"} \cup Outcomes]
    /\ \A q \in Query : told'[q] \in Successors(told[q])

Spec == Init /\ [][Next]_vars
=============================================================================
