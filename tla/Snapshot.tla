------------------------------ MODULE Snapshot ------------------------------
(***************************************************************************)
(* One SnapshotItem, or one key of a SnapshotMap, of cw-storage-plus with  *)
(* Strategy::EveryBlock, as the cw4 contracts use it: the current value,   *)
(* and a changelog that keeps, for each block that changed it, the value   *)
(* at the start of the block.                                              *)
(***************************************************************************)
EXTENDS Naturals, FiniteSetsExt

Fresh(value) == [now |-> value, log |-> <<>>]

(* Only the first change in a block is logged. *)
Write(item, height, value) ==
  [now |-> value,
   log |-> [h \in DOMAIN item.log \cup {height} |->
              IF h \in DOMAIN item.log THEN item.log[h] ELSE item.now]]

(* may_load_at_height: what the first change at or after that height       *)
(* replaced, or the current value if there was none.                       *)
AtHeight(item, height) ==
  LET later == {h \in DOMAIN item.log : h >= height}
  IN  IF later = {} THEN item.now ELSE item.log[Min(later)]
=============================================================================
