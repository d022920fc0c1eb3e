------------------------------- MODULE GuidesMC -------------------------------
(* A small instance of Guides: one author, who may race himself, and one   *)
(* reader.  The guide g1 takes every request; g2 and g3 only fill the cap. *)
EXTENDS Guides, TLC

CONSTANTS author, reader, e1, e2, g1, g2, g3, h1, h2

Published1 == [title |-> "long",  published |-> TRUE,  entries |-> {e1, e2}]
Draft1     == [title |-> "short", published |-> FALSE, entries |-> {e1}]

BothInputs == {Published1, Draft1}

FewRequests ==
  [op : {"create"}, user : {author}, guide : {g1}, input : {Draft1}]
  \cup [op : {"update"}, user : {author, reader}, guide : {g1}, input : BothInputs]
  \cup [op : {"create"}, user : {author}, guide : {g2, g3}, input : {Published1}]
  \cup [op : {"delete"}, user : {author}, guide : {g1}]
  \cup [op : {"like", "unlike"}, user : Users, guide : {g1}]
  \cup [op : {"erase"}, user : Users]

Symmetry == Permutations(Handlers) \cup Permutations({g2, g3})

=============================================================================
