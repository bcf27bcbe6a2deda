----------------------------- MODULE QueryGate -----------------------------
(***************************************************************************)
(* What the server promises of query_multidimensional, whatever checks it  *)
(* makes on the way: a request is put to the engine at most once, it is    *)
(* answered once, and a refusal is given without the engine being asked.   *)
(***************************************************************************)
VARIABLES gate,     \* where the request stands
          answer    \* what the client was last told

vars == <<gate, answer>>

Init == gate = "idle" /\ answer = "none"

Submit == /\ gate = "idle"
          /\ gate' = "open"
          /\ UNCHANGED answer

Refuse == /\ gate = "open"
          /\ gate' = "answered"
          /\ answer' = "refused"

Ask == /\ gate = "open"
       /\ gate' = "asked"
       /\ UNCHANGED answer

Answer == /\ gate = "asked"
          /\ gate' = "answered"
          /\ answer' \in {"ok", "failed"}

(* Only a refused request is submitted in a new form.                      *)
Retry == /\ gate = "answered" /\ answer = "refused"
         /\ gate' = "open"
         /\ answer' = "none"

Leave == /\ gate = "answered"
         /\ gate' = "idle"
         /\ answer' = "none"

Next == Submit \/ Refuse \/ Ask \/ Answer \/ Retry \/ Leave

Spec == Init /\ [][Next]_vars
=============================================================================
