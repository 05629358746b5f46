SPECIFICATION Spec
CHECK_DEADLOCK FALSE
CONSTANTS
  Null = Null
  Unset = Unset
  Depths = {1, 2}
  MaxEdits = 2
  Procs = {p1, p2}
  Focuses = {"templates", "terms", "trials", "signers"}
  TemplateIds = {1, 2, 3, 4}
  EntSets <- Objects
  Fps = {f1}
  Scopes <- GlobalAndOne
  Algs = {"ed25519", "rs256"}
  Cooldown = 1
  TrialCooldowns <- CooldownChoices
  MaxTime = 3
  MaxLicenses = 3
  MaxKeys = 6
  MaxFails = 1
SYMMETRY Symmetry
INVARIANTS GrantedTrialsSpaced TrialRowsHaveLicense TemplatesExact StartupRaceSettles
