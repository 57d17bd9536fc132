----------------------------- MODULE MCSimpleFs -----------------------------
(***************************************************************************)
(* Instances of SimpleFs for TLC.                                          *)
(***************************************************************************)
EXTENDS SimpleFs, TLC

CONSTANTS t1, t2, t3, root, welcome, d, f, g, h, k, none

\* /d is a directory, /d/f a file in it, /g a file beside it.
ParentOf == (welcome :> root) @@ (d :> root) @@ (f :> d) @@ (g :> root)
\* The same tree without /g.
ParentOfSmall == (welcome :> root) @@ (d :> root) @@ (f :> d)
\* Files in the root directory.
ParentOfFlat == [p \in Path \ {root} |-> root]

TaskSymmetry == Permutations(Task)

=============================================================================
