--------------------------- MODULE MCLocalRestore ---------------------------
(***************************************************************************)
(* Instance of LocalRestore: two commits, so that a backup can be older than *)
(* the database, and three seconds, so that a restore can be tried again with *)
(* a copy of the same name and of another.                                    *)
(***************************************************************************)
EXTENDS LocalRestore

CONSTANTS c1, c2

=============================================================================
