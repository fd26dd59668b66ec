-------------------------- MODULE MCPlayerPresence --------------------------
(* Small instances of PlayerPresence. *)
EXTENDS PlayerPresenceInv, TLC

\* Threads and servers are interchangeable; proxies are not when one of them
\* is a Laggard.
Symmetry == Permutations(Handler) \cup Permutations(Server)

\* The index and presence properties say nothing of a disturbed player, so a
\* behaviour is followed only while some player is undisturbed.
SomeoneUndisturbed == disturbed # Player
=============================================================================
