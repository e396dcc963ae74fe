-------------------------------- MODULE Smi --------------------------------
(***************************************************************************)
(* The serial management interface (SMI/MDIO) of the MPC5748 ENET and the  *)
(* TJA1102 registers as the driver sees them over it.                      *)
(*                                                                         *)
(*   - The driver side: mpc5748Eth1WritePhyReg / ReadPhyReg                *)
(*     (mpc5748_eth1_driver.c) clear EIR.MII, write the management frame   *)
(*     to MMFR, busy-wait for EIR.MII and, for a read, take the data field *)
(*     of MMFR. tja1102WritePhyReg / ReadPhyReg call them through          *)
(*     interface->nicDriver (no separate SMI driver on this board).        *)
(*   - The MAC: once MSCR gives MDC a frequency it clocks the frame out,   *)
(*     sets EIR.MII and, for a read, stores what it sampled on MDIO.       *)
(*   - The PHY: a write of BASIC_CTRL.RESET resets it; the reset bit reads *)
(*     as 1 until the reset completes (IEEE 802.3 22.2.4.1.1), and a write *)
(*     made meanwhile may be lost. With no PHY answering at the address,   *)
(*     MDIO stays at the level of its pull-up and every read is 0xFFFF.    *)
(*                                                                         *)
(* A register value is the set of its bits the model tells apart: the     *)
(* three the driver sets and DEFAULT, the reset-default bits it leaves.   *)
(***************************************************************************)
EXTENDS Naturals

CONSTANT
  PhyResponds   \* TRUE: a TJA1102 answers at interface->phyAddr

ASSUME PhyResponds \in BOOLEAN

Bits == {"RESET", "CONFIG_EN", "AUTO_OP", "DEFAULT"}

(* TJA1102_BASIC_CTRL, TJA1102_EXTENDED_CTRL, TJA1102_COMM_CTRL, and any   *)
(* other register (those only read by tja1102DumpPhyReg).                  *)
PhyRegs == {"BASIC_CTRL", "EXT_CTRL", "COMM_CTRL", "OTHER"}

(* 0xFFFF: every bit set. *)
AllOnes == Bits

(* The registers after power-on or a completed reset. *)
PhyDefaults == [r \in PhyRegs |-> {"DEFAULT"}]

VARIABLES
  mscr,      \* ENET_MSCR.MII_SPEED: 0 leaves MDC off
  mii,       \* ENET_EIR.MII: the last management frame has completed
  mmfr,      \* ENET_MMFR: [op, reg, data] of the last management frame
  mdioBusy,  \* a management frame is being clocked out
  phyRegs    \* the TJA1102's registers

smiVars == << mscr, mii, mmfr, mdioBusy, phyRegs >>

(* The ENET registers after ECR.RESET and the PHY after power-on. *)
SmiInit ==
  /\ mscr = 0
  /\ mii = FALSE
  /\ mmfr = [op |-> "Read", reg |-> "OTHER", data |-> {}]
  /\ mdioBusy = FALSE
  /\ phyRegs = PhyDefaults

-----------------------------------------------------------------------------
(* Fault variant: EIR.MII not cleared before the frame is started. *)
KeepMii == mii

(* ENET_0->EIR = ENET_EIR_MII_MASK: EIR is write-1-to-clear. *)
ClearMii == FALSE

(* mpc5748Eth1WritePhyReg up to the wait: clear MII, start a write frame  *)
(* (ST 01, OP 01, TA 10, PA, RA, DATA).                                    *)
SmiWrite(reg, data) ==
  /\ mii' = ClearMii
  /\ mmfr' = [op |-> "Write", reg |-> reg, data |-> data]
  /\ mdioBusy' = TRUE
  /\ UNCHANGED << mscr, phyRegs >>

(* mpc5748Eth1ReadPhyReg up to the wait: clear MII, start a read frame     *)
(* (ST 01, OP 10, TA 10, PA, RA; the data field 0).                        *)
SmiRead(reg) ==
  /\ mii' = ClearMii
  /\ mmfr' = [op |-> "Read", reg |-> reg, data |-> {}]
  /\ mdioBusy' = TRUE
  /\ UNCHANGED << mscr, phyRegs >>

(* The exit test of the busy-wait: (ENET_0->EIR & ENET_EIR_MII_MASK) != 0. *)
SmiComplete == mii

(* ENET_0->MMFR & ENET_MMFR_DATA_MASK: the value a read returns. *)
SmiData == mmfr.data

-----------------------------------------------------------------------------
(* What the MAC samples on MDIO for a read of reg. *)
MdioReadValue(reg) == IF PhyResponds THEN phyRegs[reg] ELSE AllOnes

(* The PHY's registers after a write of data to reg: a reset write resets *)
(* them all with the reset bit set; a write during a reset may be lost;   *)
(* any other write stores data. Nothing changes with no PHY answering.    *)
PhyAfterWrite(reg, data, taken) ==
  CASE ~PhyResponds -> phyRegs
    [] reg = "BASIC_CTRL" /\ "RESET" \in data ->
         [PhyDefaults EXCEPT !["BASIC_CTRL"] = @ \cup {"RESET"}]
    [] "RESET" \in phyRegs["BASIC_CTRL"] /\ ~taken -> phyRegs
    [] OTHER -> [phyRegs EXCEPT ![reg] = data]

(* The MAC completes the management frame: MDC must be running. It sets    *)
(* EIR.MII; a read stores the sampled value in the data field of MMFR.     *)
MdioComplete ==
  /\ mdioBusy /\ mscr # 0
  /\ mdioBusy' = FALSE
  /\ mii' = TRUE
  /\ \E taken \in BOOLEAN :
       /\ mmfr' = IF mmfr.op = "Read"
                  THEN [mmfr EXCEPT !.data = MdioReadValue(mmfr.reg)]
                  ELSE mmfr
       /\ phyRegs' = IF mmfr.op = "Write"
                     THEN PhyAfterWrite(mmfr.reg, mmfr.data, taken)
                     ELSE phyRegs
  /\ UNCHANGED mscr

(* The PHY's reset process completes: the reset bit clears itself. *)
PhyResetComplete ==
  /\ "RESET" \in phyRegs["BASIC_CTRL"]
  /\ phyRegs' = [phyRegs EXCEPT !["BASIC_CTRL"] = @ \ {"RESET"}]
  /\ UNCHANGED << mscr, mii, mmfr, mdioBusy >>

=============================================================================
