---------------------------- MODULE MCStatusCache ----------------------------
EXTENDS StatusCache, TLC

CONSTANTS m1, m2, s1, s2

\* One machine on each of two servers.
Apart == (m1 :> s1) @@ (m2 :> s2)
==============================================================================
