---------------------------- MODULE MCInventory ----------------------------
(* Three addresses and two hardware addresses: room for a move, a swap,      *)
(* a takeover, a router that answers twice, and a host whose MAC is known    *)
(* in one scan and not the next.                                            *)
EXTENDS Inventory, TLC

MacSymmetry == Permutations(Macs)
=============================================================================
