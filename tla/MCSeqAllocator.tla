---------------------------- MODULE MCSeqAllocator ----------------------------
(***************************************************************************)
(* SeqAllocator on four addresses and a SEQ space of a few values: small   *)
(* enough that blocks, the rotation threshold and the end of the space are *)
(* all reached, and that every address can end up burnt.                   *)
(***************************************************************************)
EXTENDS FirstStart

(* When the entry is made, a node of two elements sits on SRC_ADDRESS_BASE and the address
   after it.  At the Reconfigure the app has put nodes on 1, our own SRC, and on 3; its range
   is another, and one of the two pairs in the file is malformed. *)
Small == [reserved |-> {<<2, 2>>}, lights |-> {2}, provisioner |-> 0, ranges |-> {<<4, 4>>}]
Grown == [reserved |-> {<<1, 0>>}, lights |-> {3}, provisioner |-> 0,
          ranges |-> {<<1, 1>>, <<2, 9>>}]
SmallAndGrown == {Small, Grown}

Plain        == {Planning!Entry(Small, Small)}
Reconfigured == {Planning!Entry(Small, Small), Planning!Entry(Small, Grown)}
=============================================================================
