-------------------------- MODULE MCWriterHandoff --------------------------
(* Small instances of WriterHandoff for TLC. *)
EXTENDS WriterHandoff

(* Two links, so one can be lost, left or reparked and replaced; three entries, so one   *)
(* link is entered twice and another entered after it; three pings, so a ring of two     *)
(* fills and rolls; a command queue of two, so a command can wait behind another.        *)
============================================================================
