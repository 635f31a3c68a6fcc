--------------------------- MODULE RequestHistory ---------------------------
(***************************************************************************)
(* What the Gemma engine promises of a request's key/value history: a      *)
(* forward reads everything the scheduler was credited for the request so  *)
(* far and adds to it, and between forwards the history neither shrinks    *)
(* nor grows, wherever it is kept.                                         *)
(***************************************************************************)
EXTENDS Naturals

CONSTANT Requests

VARIABLES
    held,       \* tokens in the history of each request
    credited    \* Request.num_computed_tokens

historyVars == <<held, credited>>

HistoryInit ==
    /\ held = [r \in Requests |-> 0]
    /\ credited = [r \in Requests |-> 0]

\* One forward for the requests of S, each of which had its history complete.
Forward(S) ==
    /\ \A r \in S : held[r] = credited[r] /\ held'[r] > held[r]
    /\ \A r \in Requests \ S : held'[r] = held[r]
    /\ credited' = credited

\* The scheduler credits the requests of C with what was computed, and the
\* requests of D end.
Settle(C, D) ==
    /\ held' = [r \in Requests |-> IF r \in D THEN 0 ELSE held[r]]
    /\ credited' = [r \in Requests |-> IF r \in D THEN 0
                                       ELSE IF r \in C THEN held[r]
                                       ELSE credited[r]]

HistoryNext ==
    \/ \E S \in SUBSET Requests : S # {} /\ Forward(S)
    \/ \E C, D \in SUBSET Requests : Settle(C, D)

HistorySpec ==
    /\ HistoryInit
    /\ [][HistoryNext]_historyVars

=============================================================================
