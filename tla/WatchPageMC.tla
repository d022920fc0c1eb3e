----------------------------- MODULE WatchPageMC -----------------------------
(* A small instance of WatchPage: two episodes of one season, one of       *)
(* another, two toggles and two loads under way at a time.                 *)
EXTENDS WatchPage, TLC

CONSTANTS e1, e2, e3, s1, s2

TwoSeasons == e1 :> s1 @@ e2 :> s1 @@ e3 :> s2

Symmetry == Permutations(Toggles) \cup Permutations(Loads) \cup Permutations({e1, e2})

=============================================================================
