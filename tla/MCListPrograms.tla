--------------------------- MODULE MCListPrograms ---------------------------
(***************************************************************************)
(* Module ListPrograms with three words, "a", "ab" and "b", of ranks 1, 2  *)
(* and 4.  The memory behind "a" may make it "ab" or "ac", of rank 3.      *)
(***************************************************************************)
EXTENDS ListPrograms

MCExtensions == [w \in Words |-> IF w = 1 THEN {1, 2, 3} ELSE {w}]

============================================================================
