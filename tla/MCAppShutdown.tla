---------------------------- MODULE MCAppShutdown ----------------------------
(* Two of the five retries of a bind; three openings or connects.             *)
EXTENDS AppShutdown
=============================================================================
