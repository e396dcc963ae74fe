\* mpc5748Eth1Init with no PHY answering at interface->phyAddr: MDIO stays at
\* its pull-up, every SMI read returns 0xFFFF, and tja1102Init's wait for the
\* reset bit to clear never ends.
CONSTANTS
  NumTx = 3
  NumRx = 2
  MaxTxFrames = 5
  MaxRxFrames = 0
  MaxBusErrors = 0
  MaxLinkChanges = 0
  LinkAtStart = {FALSE}
  StackModes = {TRUE}
  DumpRegs = 0
  PhyResponds = FALSE

SPECIFICATION HistSpec

PROPERTY InitCompletes

\* The driver is interrupt driven: once the bounded traffic is over it waits.
CHECK_DEADLOCK FALSE
