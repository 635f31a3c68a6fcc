--------------------------- MODULE MCDecodeGroups ---------------------------
(***************************************************************************)
(* Small instances of DecodeGroups for TLC.                                *)
(***************************************************************************)
EXTENDS DecodeGroups

CONSTANTS s1, r1, r2    \* request ids

\* Everything on, and padded groups off, where a batch that cannot be merged
\* exactly is merged for one forward.
EngineOptions == {[exact |-> TRUE, padded |-> TRUE, single |-> TRUE, mixed |-> TRUE],
                  [exact |-> TRUE, padded |-> FALSE, single |-> FALSE, mixed |-> FALSE]}

\* The defaults of GemmaNativeEngine.
DefaultOptions == {[exact |-> TRUE, padded |-> TRUE, single |-> FALSE, mixed |-> FALSE]}

Symmetry == Permutations(Requests \ Sessions)

=============================================================================
