------------------------------ MODULE VoteBook ------------------------------
(***************************************************************************)
(* What the vote store promises, with every request atomic: an account     *)
(* that exists puts, changes or retracts its one vote on an episode that   *)
(* exists; an account is deleted and its votes stay; an episode without    *)
(* votes goes away.  VoteTally implements it under every interleaving.     *)
(***************************************************************************)
CONSTANTS Users, Episodes, Ballots, NoVote

VARIABLES users, episodes, vote

Init ==
  /\ users = Users
  /\ episodes = Episodes
  /\ vote = [e \in Episodes |-> [u \in Users |-> NoVote]]

(* One vote per account and episode: the new ballot replaces the old one.  *)
Put(u, e, b) ==
  /\ u \in users
  /\ e \in episodes
  /\ vote' = [vote EXCEPT ![e] = [@ EXCEPT ![u] = b]]
  /\ UNCHANGED <<users, episodes>>

Retract(u, e) ==
  /\ u \in users
  /\ vote' = [vote EXCEPT ![e] = [@ EXCEPT ![u] = NoVote]]
  /\ UNCHANGED <<users, episodes>>

CloseAccount(u) ==
  /\ users' = users \ {u}
  /\ UNCHANGED <<episodes, vote>>

RemoveEpisode(e) ==
  /\ \A u \in Users : vote[e][u] = NoVote
  /\ episodes' = episodes \ {e}
  /\ UNCHANGED <<users, vote>>

Next ==
  \/ \E u \in Users, e \in Episodes :
       Retract(u, e) \/ \E b \in Ballots : Put(u, e, b)
  \/ \E u \in Users : CloseAccount(u)
  \/ \E e \in Episodes : RemoveEpisode(e)

Spec == Init /\ [][Next]_<<users, episodes, vote>>

=============================================================================
