-------------------------- MODULE MCServerSessions --------------------------
(* TLC instance: session ids, users and channels are interchangeable.      *)
EXTENDS ServerSessions, TLC

\* For instances in which one user is an admin.
SessionSymmetry == Permutations(Sessions) \cup Permutations(Channels)

Symmetry == Permutations(Sessions) \cup Permutations(Users) \cup Permutations(Channels)
=============================================================================
