---------------------------- MODULE MCThresholds -----------------------------
(***************************************************************************)
(* Thresholds for TLC: two users, values on both sides of the thresholds   *)
(* of the YAML, zero included, and three YAML files that differ in the     *)
(* loss thresholds: an override valid under one may not be under another,  *)
(* and the third is wrong by itself.                                       *)
(***************************************************************************)
EXTENDS Thresholds, TLC

Symmetry == Permutations(Users)

Yaml(warn, urgent) == [k \in Keys |->
  CASE k = "loss_warn_bps" -> warn
    [] k = "loss_urgent_bps" -> urgent
    [] k = "idle_warn" -> 2
    [] k = "idle_urgent" -> 1
    [] k = "change_severity" -> 2]

ThreeConfigs == {Yaml(1, 2), Yaml(1, 1), Yaml(2, 1)}
=============================================================================
