------------------------------ MODULE NameTree ------------------------------
(***************************************************************************)
(* What simplefs promises of its names: a tree that grows by one path at a *)
(* time, below a directory that exists, and never loses one; a create or   *)
(* mkdir that reported success is in it for good.                          *)
(***************************************************************************)
CONSTANTS Path, Root, Welcome, Parent

VARIABLES
    tree,       \* the paths that exist
    acked       \* the paths whose creation was reported to the caller

Init == tree = {Root, Welcome} /\ acked = {}

Create(p) ==
    /\ p \notin tree /\ Parent[p] \in tree
    /\ tree' = tree \cup {p}
    /\ UNCHANGED acked

Report(p) ==
    /\ p \in tree
    /\ acked' = acked \cup {p}
    /\ UNCHANGED tree

Next == \E p \in Path \ {Root} : Create(p) \/ Report(p)

Spec == Init /\ [][Next]_<<tree, acked>>

=============================================================================
