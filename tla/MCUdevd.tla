------------------------------ MODULE MCUdevd ------------------------------
(***************************************************************************)
(* Devices for model checking Udevd: a disk, its partition and an          *)
(* unrelated network interface.                                            *)
(***************************************************************************)
EXTENDS Udevd, TLC

disk == [block |-> TRUE, devnum |-> 8, ifindex |-> 0, path |-> <<"sda">>, old |-> <<>>]
part == [block |-> TRUE, devnum |-> 9, ifindex |-> 0, path |-> <<"sda", "sda1">>, old |-> <<>>]
net == [block |-> FALSE, devnum |-> 0, ifindex |-> 3, path |-> <<"eth0">>, old |-> <<>>]

SomeDevices == {disk, part, net}
OneDevice == {disk}

Symmetry == Permutations(Pid)
=============================================================================
