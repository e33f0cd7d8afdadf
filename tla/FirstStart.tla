------------------------------ MODULE FirstStart ------------------------------
(***************************************************************************)
(* The SEQ store of an entry the config flow made: SeqAllocator, whose     *)
(* config entries come from exports of the app as AddressPlanning reads    *)
(* them.                                                                   *)
(***************************************************************************)
EXTENDS SeqAllocator

CONSTANTS
  SrcBase,      \* SRC_ADDRESS_BASE
  NodeMargin,   \* NODE_ADDRESS_MARGIN
  Exports       \* what the app may export, see AddressPlanning

Planning == INSTANCE AddressPlanning

(* The config flow and the coordinator agree on a new entry: where the export leaves an
   address to choose, the first start does not leave the SRC the flow chose, because no node
   has it, and the app never gives it to one (addressing.py:55-60, coordinator.py:691-702). *)
FirstStartStays ==
  phase = "prepared" /\ disk = NoStore =>
    \A export \in Exports :
      Planning!Roomy(export) /\ config = Planning!Entry(export, export) =>
        ~MustRotateAtStartup /\ activeSrc \notin config.allocated
=============================================================================
