----------------------------- MODULE MCScmService -----------------------------
(* ScmService with one pipe connection: two of them meet only at           *)
(* controlLock_, which each holds for all of its command.                  *)
EXTENDS ScmService

OneClient == {"connection"}
=============================================================================
