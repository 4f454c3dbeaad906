\* A timer that expires during an upgrade.
\* A server that is destroyed, or whose process has died, may come to rest.
SPECIFICATION Spec
CONSTANTS
  c1 = c1
  c2 = c2
  Conns <- MCTwo
  Tls = FALSE
  HasUpgrade = TRUE
  HasOnError = TRUE
  InternalIo = FALSE
  Timeouts <- MCBoth
  MaxParts = 2
INVARIANTS
  UpgradedIsLeftAlone
CHECK_DEADLOCK FALSE
