------------------------------- MODULE MCVfs -------------------------------
(***************************************************************************)
(* Two names that are hard links to one file, and one of another file.     *)
(***************************************************************************)
EXTENDS Vfs

CONSTANTS a, b, c

MCIno == [n \in Names |-> IF n = c THEN 3 ELSE 2]
=============================================================================
