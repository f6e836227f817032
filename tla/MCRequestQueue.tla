--------------------------- MODULE MCRequestQueue ---------------------------
(* RequestQueue on small instances. *)
EXTENDS RequestQueue, TLC

\* Offices are interchangeable, so are the users that shut the server down,
\* and so are the others.
Symmetry ==
  Permutations(Offices) \cup Permutations(ShutdownUsers)
    \cup Permutations(Users \ ShutdownUsers)
=============================================================================
