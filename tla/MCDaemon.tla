------------------------------ MODULE MCDaemon ------------------------------
(* An instance of Daemon for TLC.                                          *)
EXTENDS Daemon, TLC

CONSTANTS root, user, c1, c2, a1, a2

\* Attempt ids are UUIDs, any two interchangeable: every behaviour is, up to
\* their names, one that hands out a1 first.
FirstAttempt == a2 \in used => a1 \in used

\* The bound on connections: one that only root opens, and one that only the
\* ordinary user opens, each any number of times.
OnePeerEach == peer[c1] # user /\ peer[c2] # root
=============================================================================
