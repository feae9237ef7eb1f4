\* Hardware primitives: a successful cold_reboot or power_off never returns.
\* The firmware really stops (halt, reset, power-off, jump to RW or kernel),
\* so terminal states are not deadlocks.
CONSTANTS
  CONFIG_OPROM_MATTERS = TRUE
  PrimitiveReturnsOnSuccess = FALSE
  SUCCESS = SUCCESS
  EC_REBOOT_TO_RO = EC_REBOOT_TO_RO
  SHUTDOWN_REQUESTED = SHUTDOWN_REQUESTED
  GENERIC_FAILURE = GENERIC_FAILURE
  EngineResults <- MCEngineResults
SPECIFICATION Spec
INVARIANT EscalationPolicy
INVARIANT BootOnlyVerified
INVARIANT BuffersReleased
CHECK_DEADLOCK FALSE
