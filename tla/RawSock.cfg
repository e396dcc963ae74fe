\* The queue of the raw-socket driver with three slots (two usable), five
\* received frames of any length and link state (enough to fill the queue,
\* overflow it and wrap both indices), two sends, and every exit of
\* rawsockDriverInit.
CONSTANTS
  QueueSize = 3
  MaxPackets = 5
  MaxSends = 2

SPECIFICATION Spec

INVARIANT TypeOK
PROPERTY RefinesRxPacketFifo

\* Once the bounded traffic is over, both threads wait; a failed init stops.
CHECK_DEADLOCK FALSE
