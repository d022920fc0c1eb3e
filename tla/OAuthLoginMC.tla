----------------------------- MODULE OAuthLoginMC -----------------------------
(* A small instance of OAuthLogin.                                         *)
EXTENDS OAuthLogin

AllPages == {"a", "b", "offsite"}
OurPages == {"a", "b"}
Both == {"github", "google"}
Only == {"github"}

=============================================================================
