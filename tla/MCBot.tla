------------------------------- MODULE MCBot --------------------------------
(***************************************************************************)
(* Bot for TLC: one module, whose warning threshold an authorised user may *)
(* ask to set to 2, confirm the change, or query; one outsider; two YAML   *)
(* files: one that is wrong by itself and that the change puts right, and  *)
(* one that is right and that the change breaks.                           *)
(***************************************************************************)
EXTENDS Bot

CONSTANTS User, Other

Yaml(warn, urgent) == [k \in Keys |->
  CASE k = "loss_warn_bps" -> warn
    [] k = "loss_urgent_bps" -> urgent
    [] k = "idle_warn" -> 2
    [] k = "idle_urgent" -> 1
    [] k = "change_severity" -> 2]

WrongAndRight == {Yaml(3, 2), Yaml(1, 1)}

OneConfig == {Yaml(1, 2)}

OneModule == <<"share_price_loss">>

CalmOrUrgent == {<<>>, <<"urgent">>}

OnlyUrgent == {<<"urgent">>}

Says(user, does) ==
  [user |-> user, does |-> does, key |-> "loss_warn_bps", value |-> 2, owner |-> User]

AllCommands == {Says(User, "set"), Says(User, "confirm"), Says(User, "query"), Says(Other, "set")}

OnlyConfirm == {Says(User, "confirm")}
=============================================================================
