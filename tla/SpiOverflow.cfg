\* The SPI loopback test with the master clocking, at most once, a transfer
\* while the slave has none posted: the slave takes its header from the
\* wrong bytes and trusts the H.length it finds there.
SPECIFICATION Spec
CONSTANTS
  PayloadLen = 1000
  RecvLen = 1000
  BufSize = 2048
  MaxIters = 2
  MaxMissed = 1
INVARIANT SlaveLengthWithinBuffer
CHECK_DEADLOCK FALSE
