--------------------------- MODULE AddressPlanning ---------------------------
(***************************************************************************)
(* What an export of the app says about addresses, and what the config     *)
(* flow and the coordinator each make of it, with code of their own: the   *)
(* SRC a new entry starts with, and the sets of addresses SeqAllocator's   *)
(* configs consist of.                                                     *)
(***************************************************************************)
EXTENDS Integers

CONSTANTS
  UnicastMax,    \* UNICAST_MAX
  RotationTop,   \* ROTATION_SEARCH_TOP
  LegacySrcs,    \* LEGACY_SRC_ADDRESSES
  SrcBase,       \* SRC_ADDRESS_BASE
  NodeMargin     \* NODE_ADDRESS_MARGIN

Unicast == 1..UnicastMax

(* An export is a record: reserved, a set of <<unicast, elements>>, the nodes; lights, the
   addresses of the lamps; provisioner, its address or 0; ranges, a set of <<low, high>>, the
   ranges the provisioners allocate from, as the file has them.  Values of another type, and
   addresses below 1, are skipped by all the code below and are left out. *)

(* A node whose elements are not counted has one. *)
Elements(node) == node[1]..(node[1] + (IF node[2] > 0 THEN node[2] ELSE 1) - 1)

Provisioner(export) == {export.provisioner} \ {0}

-----------------------------------------------------------------------------
(* addressing.py *)

ValidRanges(ranges) == {r \in ranges : 0 < r[1] /\ r[1] <= r[2] /\ r[2] <= UnicastMax}

InRanges(address, ranges) == \E r \in ranges : address \in r[1]..r[2]

(* Mutant: the other elements of the nodes are forgotten. *)
PrimaryAddresses(export) ==
  {node[1] : node \in export.reserved} \cup export.lights \cup Provisioner(export)

(* _known_node_addresses *)
KnownNodeAddresses(export) ==
  UNION {Elements(node) : node \in export.reserved} \cup export.lights \cup Provisioner(export)

(* What the search down from ROTATION_SEARCH_TOP may return. *)
Candidates(export) ==
  {a \in 1..RotationTop : /\ a \notin KnownNodeAddresses(export) \cup LegacySrcs
                          /\ ~InRanges(a, ValidRanges(export.ranges))}

PickInitialSrc(export) ==
  LET ranges     == ValidRanges(export.ranges)
      baseIsSafe == /\ ~InRanges(SrcBase, ranges)
                    /\ SrcBase \notin KnownNodeAddresses(export) \cup LegacySrcs
  IN  IF ranges = {} \/ baseIsSafe \/ Candidates(export) = {} THEN SrcBase
      ELSE CHOOSE a \in Candidates(export) : \A b \in Candidates(export) : b <= a

-----------------------------------------------------------------------------
(* coordinator.py *)

(* The addresses _active_src_collides_with_node compares the SRC with. *)
Occupied(export) ==
  Unicast \cap ( UNION {Elements(node) : node \in export.reserved}
                   \cup export.lights \cup Provisioner(export) )

(* The entry's part of _reserved_addresses: a margin after every light. *)
Clear(export) ==
  Occupied(export)
    \cup (Unicast \cap UNION {light..(light + NodeMargin - 1) : light \in export.lights})

(* _allocated_ranges *)
Allocated(export) == {a \in Unicast : InRanges(a, ValidRanges(export.ranges))}

-----------------------------------------------------------------------------
(* config_flow.py: the entry made from one export, when the last Reconfigure read another.
   The SRC it was made with stays. *)
Entry(created, export) ==
  [src |-> PickInitialSrc(created), occupied |-> Occupied(export), clear |-> Clear(export),
   allocated |-> Allocated(export)]

(* The export tells what the provisioners allocate, and leaves an address to choose. *)
Roomy(export) == ValidRanges(export.ranges) # {} /\ Candidates(export) # {}
=============================================================================
