----------------------------- MODULE MCRowFetch -----------------------------
\* Instances of RowFetch for TLC.
EXTENDS RowFetch, TLC

CONSTANTS n1, n2, n3, n4, r1, r2, r3

\* Three rows; the first is inserted, updated and deleted.
MCRowOf == n1 :> r1 @@ n2 :> r1 @@ n3 :> r2 @@ n4 :> r3
MCFewRowOf == n1 :> r1 @@ n2 :> r1 @@ n3 :> r2
=============================================================================
