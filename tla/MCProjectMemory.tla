--------------------------- MODULE MCProjectMemory ---------------------------
(***************************************************************************)
(* Small instances of ProjectMemory for TLC.  A process that has closed    *)
(* the project is as good as any other.  Once openings have overlapped,    *)
(* one episode is stored if the file is cut by a kill or has a row that    *)
(* cannot be converted, and two otherwise.                                 *)
(***************************************************************************)
EXTENDS ProjectMemory, TLC

CONSTANTS a, b

TwoProcs == {a, b}
Interchangeable == Permutations(TwoProcs)

Disordered ==
  /\ "overlap" \in hurt'
  /\ \/ hurt' \cap {"damage", "torn"} # {} \/ disk'.malformed
     \/ \E p \in Procs : pc'[p] \in {"malformed", "mending"}

MCNext == Next /\ (Disordered => made' <= 1)

MCSpec == Init /\ [][MCNext]_vars
=============================================================================
