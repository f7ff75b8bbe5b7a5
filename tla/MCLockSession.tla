--------------------------- MODULE MCLockSession ---------------------------
\* Instances of LockSession for TLC.
EXTENDS LockSession, TLC

CONSTANTS w1, w2

Ticks(m, l) == "mono" :> m @@ "wall" :> l

\* Clocks that keep time, and performance.now paused at times while the wall
\* clock may jump ahead.
Exact == [w \in Workers |-> {Ticks(1, 1)}]
Paused == [w \in Workers |-> {Ticks(1, 1), Ticks(0, 1), Ticks(1, 2)}]

WorkerSymmetry == Permutations(Workers)
=============================================================================
