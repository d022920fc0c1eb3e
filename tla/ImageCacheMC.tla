----------------------------- MODULE ImageCacheMC -----------------------------
(***************************************************************************)
(* A small instance of ImageCache: two scenes, which are kept apart since  *)
(* together they have too many states.  Two requests at a time and a sync, *)
(* over a poster in two sizes and one that is refused; two syncs at a time *)
(* and a request, over two posters and a size that is refused.             *)
(***************************************************************************)
EXTENDS ImageCache

CONSTANTS f1, f2, p1, p2, y1, y2

TwoSizes == {"w154", "w342"}

SizedKeys == {<<"w154", f1>>, <<"w342", f1>>, <<"original", f1>>}
PosterKeys == {<<"w154", f1>>, <<"w154", f2>>, <<"original", f1>>}

AllKeys == SizedKeys \cup PosterKeys

Requests == [proxies |-> {p1, p2}, syncs |-> {y1}, keys |-> SizedKeys]
Pinning == [proxies |-> {p1}, syncs |-> {y1, y2}, keys |-> PosterKeys]

VARIABLE scene

(* Only who is in the scene does anything, and about nothing else.         *)
InScene ==
  /\ \A p \in Proxies : proxy[p].key \in
       IF p \in scene.proxies THEN scene.keys \cup {None} ELSE {None}
  /\ \A y \in Syncs \ scene.syncs : sync[y] = NoSync

SceneInit == Init /\ scene \in {Requests, Pinning}

SceneNext == UNCHANGED scene /\ Next /\ InScene'

SceneSpec == SceneInit /\ [][SceneNext]_<<vars, scene>> /\ Fairness

=============================================================================
