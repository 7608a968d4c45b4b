SPECIFICATION FairSpec
CONSTANTS
  Links = {1, 2}
  Probed = {1}
  Calls = {c1, c2}
  Timeout = 1
  BreakerThreshold = 2
  BreakerCooldown = 1
  ProviderThreshold = 2
  ProviderCooldown = 2
  MaxCancels = 1
INVARIANT CooldownIffThreshold
PROPERTY Recovers
