SPECIFICATION Spec
CONSTANTS
  Users = {u1, u2}
  Asked = {"loss_warn_bps", "loss_urgent_bps"}
  Values = {0, 1, 2}
  Configs <- ThreeConfigs
  TTL = 1
  None = None
  MaxFaults = 1
SYMMETRY Symmetry
INVARIANTS TypeOK EffectiveValid OverridesAudited
