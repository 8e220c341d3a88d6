--------------------------- MODULE MCWebSSHSessions ---------------------------
(* Small instances of WebSSHSessions for TLC. *)
EXTENDS WebSSHSessions, TLC

CONSTANTS a1, a2, b1, ann, ben

\* Two tabs of a student and one of her teacher.
Login == [x \in Sid |-> IF x = b1 THEN ben ELSE ann]
=============================================================================
