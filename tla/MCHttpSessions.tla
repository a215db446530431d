--------------------------- MODULE MCHttpSessions ---------------------------
(* Two attempts, each a handshake or a first request of one caller. *)
EXTENDS HttpSessions, TLC
CONSTANTS a1, a2
MCAttempts == {a1, a2}
Sym == Permutations(MCAttempts)
=============================================================================
