\* The exits of rawsockDriverInit, no traffic.
CONSTANTS
  QueueSize = 3
  MaxPackets = 0
  MaxSends = 0

SPECIFICATION Spec

INVARIANT InitErrorReleasesContext

\* A failed init stops the driver.
CHECK_DEADLOCK FALSE
