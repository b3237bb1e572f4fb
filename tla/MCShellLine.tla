----------------------------- MODULE MCShellLine -----------------------------
(* A command table of two names, one the beginning of the other.           *)
EXTENDS ShellLine

CONSTANTS a, b

MCCommands == {<<a>>, <<a, b>>}
=============================================================================
