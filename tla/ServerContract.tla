--------------------------- MODULE ServerContract ---------------------------
(***************************************************************************)
(* What an HttpServer promises to the engine, and what ModelGate assumes of  *)
(* the proxies: requests arrive only while it is up, and a stop returns when *)
(* it is down and every request that arrived has ended, never earlier.       *)
(***************************************************************************)
CONSTANT Requests

VARIABLES
    up,         \* requests are accepted
    serving,    \* requests that have arrived and not ended
    stopped     \* a stop has returned

vars == <<up, serving, stopped>>

Init == up = FALSE /\ serving = {} /\ stopped = FALSE

Open ==
    /\ ~up /\ ~stopped
    /\ up' = TRUE
    /\ UNCHANGED <<serving, stopped>>

Arrive(r) ==
    /\ up
    /\ serving' = serving \cup {r}
    /\ UNCHANGED <<up, stopped>>

Finish(r) ==
    /\ r \in serving
    /\ serving' = serving \ {r}
    /\ UNCHANGED <<up, stopped>>

Shut ==
    /\ up
    /\ up' = FALSE
    /\ UNCHANGED <<serving, stopped>>

Return ==
    /\ ~up /\ serving = {}
    /\ stopped' = TRUE
    /\ UNCHANGED <<up, serving>>

Next ==
    \/ Open \/ Shut \/ Return
    \/ \E r \in Requests : Arrive(r) \/ Finish(r)

Spec == Init /\ [][Next]_vars
=============================================================================
