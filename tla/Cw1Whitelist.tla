---------------------------- MODULE Cw1Whitelist ----------------------------
(***************************************************************************)
(* contracts/cw1-whitelist: the admins of a cw1 proxy, who may change the  *)
(* list of admins until one of them freezes it.  cw1-subkeys calls these   *)
(* handlers for its own admin list.                                        *)
(***************************************************************************)
EXTENDS Naturals

CONSTANTS Addr,        \* the accounts
          AdminLists   \* lists of admins, as sets, that may be set

ASSUME AdminAssumption == \A list \in AdminLists : list \subseteq Addr

VARIABLES admins, mutable   \* ADMIN_LIST

adminVars == <<admins, mutable>>

instantiate(list, can_change) == admins = list /\ mutable = can_change

is_admin(sender) == sender \in admins

(* Mutant of can_modify: a frozen list is modified. *)
any_admin(sender) == is_admin(sender)

can_modify(sender) == mutable /\ is_admin(sender)

execute_freeze(sender) ==
  /\ can_modify(sender)
  /\ mutable' = FALSE
  /\ UNCHANGED admins

execute_update_admins(sender, list) ==
  /\ can_modify(sender)
  /\ admins' = list
  /\ UNCHANGED mutable
=============================================================================
