---------------------------- MODULE ModelContract ----------------------------
(***************************************************************************)
(* What the engine relies on when it downloads the model                   *)
(* (EnsureModelFiles of core/src/model_downloader.cpp, as the download      *)
(* thread of core/src/engine_app.cpp uses it): the weights file appears      *)
(* whole, in one step and only during an attempt; an attempt that answers    *)
(* "ok" leaves it there; nobody takes it away again but the engine, after    *)
(* such an answer, because it does not load.                                 *)
(*                                                                         *)
(* ModelDownload and ModelGate are both checked against it, from its two    *)
(* sides.                                                                   *)
(***************************************************************************)
VARIABLES
    weights,    \* missing, good, or corrupt at full size
    answer      \* of the attempt: none, ok, failed

vars == <<weights, answer>>

Init ==
    /\ weights \in {"missing", "good", "corrupt"}
    /\ answer = "none"

\* Weights that are there are kept; missing ones may be brought by the attempt.
Bring ==
    /\ answer # "ok"
    /\ weights = "missing"
    /\ weights' \in {"good", "corrupt"}
    /\ answer' \in {"none", "ok"}

Succeed ==
    /\ answer # "ok"
    /\ weights # "missing"
    /\ answer' = "ok"
    /\ UNCHANGED weights

Fail ==
    /\ answer # "ok"
    /\ weights = "missing"
    /\ answer' = "failed"
    /\ UNCHANGED weights

\* A later download, or an engine that starts again, asks again.
Again ==
    /\ answer' = "none"
    /\ UNCHANGED weights

\* The detector does not load.
Discard ==
    /\ answer = "ok"
    /\ weights' = "missing"
    /\ answer' = "none"

Next == Bring \/ Succeed \/ Fail \/ Again \/ Discard

Spec == Init /\ [][Next]_vars
=============================================================================
