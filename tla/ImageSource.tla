----------------------------- MODULE ImageSource -----------------------------
(***************************************************************************)
(* What the image proxy promises a page, whatever its cache does: each     *)
(* request is answered once, with the image it asked for or with an error, *)
(* and a malformed one with an error.  An image is named by its key, and   *)
(* TMDB never changes what a key names.                                    *)
(***************************************************************************)
CONSTANTS Proxies, Keys, Valid, None, Error

VARIABLES asked, reply

Init ==
  /\ asked = [p \in Proxies |-> None]
  /\ reply = [p \in Proxies |-> None]

Ask(p, k) ==
  /\ asked[p] = None
  /\ asked' = [asked EXCEPT ![p] = k]
  /\ reply' = [reply EXCEPT ![p] = None]

Answer(p) ==
  /\ asked[p] # None
  /\ asked' = [asked EXCEPT ![p] = None]
  /\ \/ /\ asked[p] \in Valid
        /\ reply' = [reply EXCEPT ![p] = asked[p]]
     \/ reply' = [reply EXCEPT ![p] = Error]

Next == \E p \in Proxies : Answer(p) \/ \E k \in Keys : Ask(p, k)

Spec == Init /\ [][Next]_<<asked, reply>>

=============================================================================
