----------------------------- MODULE ShowSlugsMC -----------------------------
(* A small instance of ShowSlugs: shows any of which TMDB may call "Foo"   *)
(* or "Foo 100", which is the suffixed slug of the first.                  *)
EXTENDS ShowSlugs

CONSTANT foo

TwoNames == {<<foo>>, <<foo, 100>>}

=============================================================================
