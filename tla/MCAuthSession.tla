--------------------------- MODULE MCAuthSession ---------------------------
\* Instances of AuthSession for TLC.
EXTENDS AuthSession, TLC

CONSTANTS s1, s2, u1, u2, c1, c2

MCUserOf == s1 :> u1 @@ s2 :> u2
=============================================================================
