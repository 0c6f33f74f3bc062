---------------------------- MODULE MCNetSession ----------------------------
(* The session on small instances: every bound is a constant of a .cfg.    *)
EXTENDS NetSession
=============================================================================
