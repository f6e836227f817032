---------------------------- MODULE MCHomeBanking ----------------------------
(* HomeBanking on small instances. *)
EXTENDS HomeBanking, TLC

\* Offices are interchangeable.
OfficeSymmetry == Permutations(Offices)
=============================================================================
