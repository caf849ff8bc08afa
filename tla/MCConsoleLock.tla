--------------------------- MODULE MCConsoleLock ---------------------------
(***************************************************************************)
(* Instance of ConsoleLock: three consoles, of which two may be killed.      *)
(***************************************************************************)
EXTENDS ConsoleLock

CONSTANTS p1, p2, p3

Consoles == {p1, p2, p3}
KillableConsoles == {p2, p3}

=============================================================================
