--------------------------- MODULE MCShutdownVotes ---------------------------
(* Small instances of ShutdownVotes for TLC. *)
EXTENDS ShutdownVotes

CONSTANTS h1, h2
=============================================================================
