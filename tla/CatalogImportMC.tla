--------------------------- MODULE CatalogImportMC ---------------------------
(* Small instances of CatalogImport.                                       *)
EXTENDS CatalogImport, TLC

(* Two slots in the first season, one in the second.                       *)
ThreeSlots == { <<1, 1>>, <<1, 2>>, <<2, 1>> }

(* One slot in each of two seasons.                                        *)
TwoSlots == { <<1, 1>>, <<2, 1>> }

Symmetry ==
  Permutations(Ids \ Votable) \cup Permutations(Viewers) \cup
  Permutations(Operators)

=============================================================================
