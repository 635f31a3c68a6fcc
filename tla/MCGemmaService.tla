--------------------------- MODULE MCGemmaService ---------------------------
(***************************************************************************)
(* Small instances of GemmaService for TLC.                                *)
(***************************************************************************)
EXTENDS GemmaService

CONSTANTS
    r1, r2, r3,     \* request objects
    a, b,           \* req_ids
    c1, c2,         \* callers of cancel()
    t1, t2, t3,     \* turns
    s1, s2          \* session_ids

IdUsedTwice == [r \in Requests |-> IF r = r2 THEN b ELSE a]
NoRequests == << >>
NoTurns == << >>
OneSession == [t \in Turns |-> s1]
FirstTwoTogether == [t \in Turns |-> IF t = t3 THEN s2 ELSE s1]
TwoSessions == [t \in Turns |-> IF t = t1 THEN s1 ELSE s2]

\* Every client may come.
AllTogether == {Requests \cup Turns \cup Callers}

\* A request beside callers of cancel() and a session, or beside a turn whose
\* client leaves early; or turns among themselves.
RequestOrTurns == {Requests \cup Callers \cup {t1}, Requests \cup {t2}, Turns}

\* The requests with the same id are interchangeable.  Used by a run that
\* checks no liveness property.
SameIdSymmetry == Permutations({r1, r3})

=============================================================================
