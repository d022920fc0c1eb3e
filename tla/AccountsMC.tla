------------------------------ MODULE AccountsMC ------------------------------
(* Instances of Accounts for TLC.  Which of two people, addresses, account *)
(* ids, browsers or connections is which does not matter, and every        *)
(* property is a safety property that does not name one.                   *)
EXTENDS Accounts, TLC

Symmetry ==
  Permutations(Identities) \cup Permutations(Emails) \cup Permutations(UserIds)
    \cup Permutations(Browsers) \cup Permutations(Handlers)

=============================================================================
