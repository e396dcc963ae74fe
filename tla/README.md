# TLA+ models of stmp_stuff

These models cover the CycloneTCP MPC5748 ENET0 MAC driver
(`src/cyc/cyclone_tcp/drivers/mac/mpc5748_eth1_driver.c`), including its
hash filter and CRC. They also cover the TJA1102 PHY driver's link tracking
(`src/cyc/cyclone_tcp/drivers/phy/tja1102_driver.c`), composed with the MAC, the
raw-socket NIC driver of the x86 FTP client demo
(`src/cyc/demo/x86/ftp_client_demo_mod/src/driver_rawsocket.c`, `raw_eth.c`),
the DTLS client demo (`src/cyc/demo/x86/dtls_client_demo/src/main.c`), and the
framing of the SPI loopback test (`src/spitest/m1.c`, `s1.c`).
The model checker is TLC.

## 1. Inventory

| Part | Source | State | Operations | Status |
|---|---|---|---|---|
| Descriptor rings | mpc5748_eth1_driver.c 41-60, 477-526 | `txBufferDesc`, `rxBufferDesc` (R/E ownership, W wrap, L, error bits), `txBufferIndex`, `rxBufferIndex` | `mpc5748Eth1InitBufferDesc` | modelled (EnetDriver) |
| Transmit path | 622-651, 776-837 | TX ring, `nicTxEvent`, TDAR | `mpc5748Eth1SendPacket`, `ENET0_Tx_IRQHandler` | modelled |
| Receive path | 846-918 | RX ring, RDAR | `mpc5748Eth1ReceivePacket` | modelled |
| Interrupts and events | 563-615, 658-763 | EIR, EIMR, IRQ enable, `nicEvent` | Rx/Err ISRs, `mpc5748Eth1EventHandler`, Enable/DisableIrq | modelled |
| MAC init | 94-209 | ECR, MSCR, the rings, EIR, EIMR, RDAR, `nicTxEvent` | `mpc5748Eth1Init` from power-on | modelled (EnetDriver): ENET reset, MDC set-up, PHY init, ring init, MAC start; RCR/TCR/MIB values left out |
| Link reconfiguration | 1016-1059; tja1102 137-167, 205-231 | `linkState`, `phyEvent`, the PHY's link bit, ECR | `mpc5748Eth1UpdateMacConfig`, `tja1102Tick`, `tja1102EventHandler`, `tja1102Init`'s forced poll | modelled; speed/duplex bits left out |
| Hash filter and CRC | 927-1007, 1159-1193 | GAUR/GALR/IAUR/IALR | `UpdateMacAddrFilter`, `CalcCrc` | modelled (AddrFilter, Crc32); station address PAUR/PALR left out |
| SMI/MDIO | 1070-1149; tja1102 60-129, 241-305 | MSCR, MMFR, EIR.MII, the TJA1102's registers | Read/WritePhyReg, `tja1102Init`, `tja1102DumpPhyReg` | modelled (Smi, EnetDriver): each init access as start, MDIO completion and busy-wait exit; the PHY's reset process; an absent PHY. Runtime link-status reads stay one atomic read |
| Pin mux | 217-469 | SIUL2 registers | `mpc5748Eth1InitGpio` | not modelled: register writes only |
| Raw-socket NIC driver | ftp_client_demo_mod/src/driver_rawsocket.c | queue, `writeIndex`, `readIndex`, per-slot `length` | init, receive task (producer), event handler (consumer), send | modelled (RawSockQueue, refines RxPacketFifo) |
| Raw socket helpers | raw_eth.c, raw_sock.h, driver_rawsock.h | socket descriptor | `RAW_open/close/send` | partly: RAW_open's exits and whether they leave the socket open |
| DTLS client demo | dtls_client_demo/src/main.c | `sock`, `dtlsContext`, the console command loop | main, readPemFile, userTask keys, connect, disconnect | modelled (DtlsClient); callbacks only as their use of `sock` |
| SPI loopback tests | spitest/m1.c, s1.c, spi1.h | transfer buffers | master/slave loop | modelled (SpiLoopback): the transfer framing |
| NTP debug header | ntp/ntp_debug.h | none | none | not modelled: declarations only |

### How the driver's parts interact

Four agents share the rings:

- The **uDMA engine** walks the TX and RX rings by itself, with its own
  pointers. It takes a TX descriptor whose R bit is set, or fills an RX
  descriptor whose E bit is set. It returns to slot 0 after a descriptor that
  carries W.
- TDAR and RDAR restart the uDMA's polling.
- A bus error (EBERR) clears ETHEREN and stops the uDMA.
- **Three ISRs** handle the events:
  - Tx: clears TXF, sets `nicTxEvent` if the descriptor at the cursor is free,
    and writes TDAR.
  - Rx: masks RXF and sets `nicEvent`.
  - Err: masks EBERR and sets `nicEvent`.
- The **net task** runs all task-context code:
  - It runs the event handler. The handler reads EIR once. On RXF it drains
    the ring with `ReceivePacket` until a slot is empty. On EBERR it
    re-initialises the rings and restarts the MAC. It always unmasks all three
    events on exit.
  - It runs `SendPacket`.
  - Its timer calls `tja1102Tick`, which reads the PHY's link status over
    the SMI and sets `phyEvent` when it differs from `interface->linkState`.
  - It runs the PHY event handler when `phyEvent` is set. The handler reads
    the link status again. On link up it calls `UpdateMacConfig`, which also
    re-initialises the rings; it records the link state either way.
  - The stack disables the ENET IRQs around each of these entry points. That is
    CycloneTCP's contract for `nicDriver` calls.
- The **stack's send path** waits for the auto-reset `nicTxEvent` before it
  calls `SendPacket` (a stack that ignores it is checked too: `StackModes`).
- Before all this, `mpc5748Eth1Init` resets the ENET, gives MDC a frequency
  (MSCR), and runs `tja1102Init` over the **SMI**: reset the PHY, poll until
  its reset bit clears, dump the registers (debug builds), set CONFIG_EN and
  AUTO_OP by read-modify-write, and force a first link poll. Each SMI access
  clears EIR.MII, writes MMFR and busy-waits for EIR.MII, which the MAC sets
  when the frame has been clocked out.

### Hard behaviours

- ISR and uDMA steps interleave with the two-part send: the descriptor
  hand-over, then the next-slot check.
- Lost wake-ups are possible:
  - RXF is masked until the end of the handler.
  - EIR is read only once per handler call.
  - `nicTxEvent` is set only by a TXF interrupt or by the end of a send.
- A full ring stops the uDMA.
- Ring resets happen in the middle of traffic, on a bus error or a link up.
- Off-by-one errors in the wrap tests, and a lost wrap flag.

## 2. Modules and plan

| Module | Models | Status |
|---|---|---|
| `Smi` | the SMI: the driver's management-frame steps, the MAC's MDIO completion, the TJA1102's registers and reset process, an absent PHY | done |
| `EnetDriver` | `mpc5748Eth1Init` and `tja1102Init` from power-on over `Smi`, descriptor rings, uDMA, ISRs, event handler, send/receive, and the TJA1102 PHY: link status, tick, event handler | done |
| `MCEnetDriver` | the model-checking instance of `EnetDriver`, extending `EnetRxFifo`; every ENET run checks its `HistSpec` (constants from the cfgs) | done |
| `RxPacketFifo` | abstract spec of a NIC receive queue: frames rejected, queued or dropped when full; queued frames handed over in order, each once, eventually; where `ResetDiscards`, a reset may discard the queued frames | done |
| `RawSockQueue` | driver_rawsocket.c: init with every exit, the unlocked SPSC queue with producer and consumer split at each shared access, send; refines `RxPacketFifo` | done |
| `MCRawSockQueue` | its model-checking instance | done |
| `Crc32` | `mpc5748Eth1CalcCrc` as a recursive function on 32-bit words, and a reference CRC-32 by GF(2) polynomial division | done |
| `MCCrc32` | checks `Crc32` over 516 inputs | done |
| `AddrFilter` | `mpc5748Eth1UpdateMacAddrFilter` driven by the stack adding and dropping filter entries | done |
| `MCAddrFilter` | its model-checking instance, with the test addresses | done |
| `DtlsClient` | main.c of the DTLS demo: credentials, the key loop, connect with every failure exit, disconnect | done |
| `MCDtlsClient` | its model-checking instance | done |
| `SpiLoopback` | the master and slave loops of the SPI test, one transfer() per action | done |
| `EnetRxFifo` | `EnetDriver` with two history variables, and the ENET RX ring mapped onto `RxPacketFifo` | done |

## 3a. EnetDriver: correspondence with the code

- Each descriptor is a record of the bits the driver tests: `r`/`w` for TX;
  `e`/`w`/`l`/`err` for RX, plus the arrival number `frame`.
- Payloads, lengths and buffer addresses are abstracted away.
- `dmaTxIndex`/`dmaRxIndex` are the uDMA's internal pointers.
- `eir`, `eimr`, `tdar`, `rdar` and `ecrEn` are the register bits the driver
  reads and writes.
- Several actions are environment, not driver code, so `PROJECT.json` does not
  map them:
  - `DmaTransmit`, `DmaTxIdle`, `DmaReceive`, `DmaRxIdle` and `BusError`
    model the hardware, as described by the reference manual.
  - `Admitted` and `TxEventAfterWait` model the stack's waiting on
    `nicTxEvent`.
- Each driver function is one action, whole:
  - `SendPacket` covers the length check, the busy check, the hand-over and
    TDAR. `SendCheck` is the trailing next-slot check. It is a separate step
    because the uDMA can act between the two: it may send frames and set
    TXF. The Tx ISR cannot run there, because the stack keeps the ENET IRQs
    disabled for the whole call (`irqEnabled` is FALSE from `SendPacket` to
    the end of `SendCheck`); it takes the pending TXF afterwards.
  - `ReceivePacket` is one call: an empty slot, or recycle with delivery when
    the frame is valid.
  - `EventHandlerStart` and `EventHandlerFinish` bracket the drain loop.
  - `UpdateMacConfig` is `InitBufferDesc` plus the MAC restart.
  - `phyLink` is the PHY's link status bit; `LinkChange` is the environment
    changing it (at most `MaxLinkChanges` times, from a value in
    `LinkAtStart`). `ReadLinkStatus` is the SMI read of `TJA1102_BASIC_STAT`
    by `mpc5748Eth1ReadPhyReg`: nothing else uses the SMI, so it returns the
    current bit.
  - `PhyTick` is `tja1102Tick`; `LinkEvent` is its two branches (link up,
    link down). `PhyEventHandler` is `tja1102EventHandler` as the net task
    calls it: `phyEvent` cleared, the status read, the MAC reconfigured on
    link up, `linkState` recorded.
  - Initialisation starts from power-on (`Init`: zeroed static descriptors,
    ENET registers at their reset values, PHY registers at their defaults,
    `pc = "MacReset"`). `MacReset` is the ECR reset and register set-up up to
    MSCR (`MdcSpeed`). `tja1102Init` is a sequence of SMI accesses named by
    `pc` (`SmiSteps`): `PhyAccessStart` is `tja1102Read/WritePhyReg` up to
    the busy-wait (`StartAccess` picks the register and value per step),
    `PhyAccessDone` is the wait's exit and the data read, and `AfterAccess`
    is the control flow of `tja1102Init` after it (the reset poll loop, the
    `DumpRegs` reads of `tja1102DumpPhyReg`, the forced first poll that
    sets `phyEvent`). `MacStart` is the rest of `mpc5748Eth1Init`: ring
    init, EIR clear, EIMR, IRQ enable, MAC enable, RDAR and `nicTxEvent`.
  - In `Smi`, `SmiWrite`/`SmiRead` are the driver's frame start (EIR.MII
    cleared, MMFR written), `SmiComplete` the busy-wait's test and `SmiData`
    the data field. `MdioComplete` (the MAC finishing the frame, only with
    MDC running) and `PhyResetComplete` (the PHY's reset ending) are
    hardware and not mapped. A write during a reset may be lost
    (IEEE 802.3 22.2.4.1.1). With `PhyResponds = FALSE` every read returns
    all ones, the level of MDIO's pull-up (line 223).
- `pc` records where the net task is inside an entry point. Only one entry
  point runs at a time.

### The ENET receive ring implements `RxPacketFifo` (module `EnetRxFifo`)

`EnetDriver` keeps only the number of the last frame passed to
`nicProcessPacket`. `EnetRxFifo` extends it with two history variables,
updated from each step and never constraining one: `handed`, the sequence
of frames passed on, and `discarded`, the frames the uDMA stored with an
error bit or without L. Its `HistSpec` is the specification of every ENET
run; the history changes nothing in the runs without receive traffic.

| Abstract | Concrete |
|---|---|
| `fifo` | the frames of the descriptors the driver owns (E clear), in ring order from `rxBufferIndex`, those stored deliverable only |
| `delivered` | `handed` |
| `arrived` | `rxCount`: frames the uDMA stored (a frame the MAC drops for want of a descriptor never arrives) |
| `rejected` | `discarded`: rejected when stored, skipped later by `mpc5748Eth1ReceivePacket` |
| `Capacity` | `NumRx` |
| `ResetDiscards` | `TRUE`: `mpc5748Eth1InitBufferDesc` (bus-error recovery, link up) empties the ring |

A step of `mpc5748Eth1ReceivePacket` that skips an invalid frame, or finds
the ring empty, is an abstract stutter. The property `RefinesRxPacketFifo`
implies, among the rest, that frames reach the stack in arrival order.

## 3b. RawSockQueue: the raw-socket driver

**Structure.** `rawsockDriverTask` (the producer) and the net task running
`rawsockDriverEventHandler` (the consumer) share `queue[]`, `writeIndex` and
`readIndex`. There is no lock. A slot's `length` field is the only handshake.

**Correspondence with the code.**

- Frames are arrival numbers. A slot is `[data, length]`, with `length` 0 or
  1 (1 stands for any valid length).
- `ppc` is the producer's position. One action per shared access:
  - `TaskReceive` is `recvfrom` plus its checks: bad length or link down
    (ignored), full queue (dropped, "Overflow"), or accepted.
  - `TaskCopy` is `osMemcpy`, `TaskSetLength` the `length` store,
    `TaskAdvance` the `writeIndex` store, and `TaskNotify` sets `nicEvent`.
  - The order of the two stores is the definition `ProducerOrder`.
- `cpc` is the consumer's position: `EventHandlerCheck` is the loop test,
  then `Process` (`nicProcessPacket`), `Release` (`length = 0`) and
  `Advance` (`readIndex = n`).
- `RawsockDriverInit` covers each exit of `rawsockDriverInit`: allocation
  failure, the five failure steps of `RAW_open`, task-creation failure, and
  success. `RawOpenLeavesOpen` says which `RAW_open` exits leave the socket
  open.
- `SendPacket` is `rawsockDriverSendPacket`. Every exit sets `nicTxEvent`
  again.
- `ignored` is a history variable: the frames dropped for their length or
  the link.

**Refinement.** `RxPacketFifo` is the abstract queue. `RawSockQueue` maps onto
it by `INSTANCE ... WITH`:

| Abstract | Concrete |
|---|---|
| `fifo` | the run of occupied slots from `readIndex` (the slot under release still counts) |
| `delivered` | `delivered`, minus the last frame while the consumer is between `Process` and `Advance` |
| `arrived` | frames returned by `recvfrom`, minus one whose length is not stored yet |
| `rejected` | `ignored` |
| `Capacity` | `QueueSize - 1` |
| `ResetDiscards` | `FALSE`: nothing ever empties the queue |

The abstract `Spec`, with weak fairness on `Deliver`, is checked as the
property `RefinesRxPacketFifo`.

**Fairness.** Both threads have weak fairness on each step they take once a
frame is in hand, and the net task on each handler step. `recvfrom`
returning (frame arrival) and sends have no fairness.

## 3c. Crc32 and AddrFilter: the hash filter

- TLC integers are signed 32-bit, so a `uint32_t` is a record of two 16-bit
  halves. XOR is `^^` of the community module Bitwise.
- `CrcBit` is one iteration of the inner loop. `CrcBits` and `CrcFrom` are
  recursive functions for the two loops. `CalcCrc` starts from
  `0xFFFFFFFF` and does no final inversion, as the code does.
- `CrcReference` defines the same register by GF(2) polynomial division by
  `0x104C11DB7`. It shares no code with `CalcCrc`.
- `UpdateMacAddrFilter` is the whole function:
  - clear both tables;
  - for each valid entry, set bit `k = crc >> 26` in the unicast or the
    multicast table;
  - write IALR/IAUR/GALR/GAUR.
- `(1 << (k % 32))` shifts a signed 1 into bit 31 for buckets 31 and 63.
  ISO C leaves this undefined. GCC sets bit 31, and the model follows GCC
  (`OrBit`).
- `AcceptMacAddr` and `DropMacAddr` are the stack's side, reference-counted
  entries (CycloneTCP's `ethAcceptMacAddr`/`ethDropMacAddr`, not in this
  repository). They are environment actions and are not mapped.

## 3d. DtlsClient: the DTLS demo

**Structure.** `main` loads three credentials, starts `userTask` and joins it.
Only `userTask` touches `sock` and `dtlsContext`, so the model has no data
race to explore. The difficulty is the sequences of keys and failures.

**Correspondence with the code.**

- `h` records the handles:
  - `sock`: -1, open, or a closed descriptor;
  - `ctx`: NULL, live, or freed;
  - `openSocks` and `liveCtx`: the counts the process holds;
  - `established`: `tlsConnect` succeeded.
- `cred` maps each credential pointer to NULL, live, dangling (freed by
  `readPemFile`) or released by `main`.
- `misuse` is a history variable: the resources used or released after
  their release.
- `MainStart` is `main` up to `pthread_join`:
  - a seeding failure returns at once;
  - `LoadCredentials` is the `do { } while(0)` over `readPemFile`
    (`ReadPemFile` is its five exits);
  - then task creation.
- `MainExit` is the join and the three `free`s. If the task was never
  created, `pthread_join` is called on an invalid id. That is undefined, so
  the model lets it crash or return.
- `UserKey` is one key of the loop: none, C, D, T or Q. `UserPoll` is the
  trailing `tlsRead`/delay.
- `ConnectResult(h, k)` is `dtlsClientConnect` when its k-th fallible step
  fails, or when none does. There are 16 such steps. `Disconnect` is
  `dtlsClientDisconnect`.
- The TLS library and the sockets API are outcomes: success or failure.

## 3e. SpiLoopback: the SPI test

**Structure.** The master (`m1.c`) and the slave (`s1.c`) are two processes
on two boards joined by SPI. In each iteration the master clocks six
transfers: the sync word S (4 bytes), the header H (4), H.length = 1000
payload bytes, then 4 + 4 + 1000 bytes to read the echo. The slave posts
three: 8 bytes (S and H), H.length bytes, and 8 + H.length bytes of echo.
Only the master's `usleep(600)` keeps the slave's transfer posted before
the master clocks.

**Correspondence with the code.**

- The master's bytes are one stream; `MasterByte(p)` is the byte at stream
  position p: S and H little endian, "Hello From Master" and its NUL, then
  zeros in the first iteration (the global buffer) and 0xCC later (the
  memset at m1.c:124), and 0xCC while it reads.
- `MasterTransfer` is one `transfer()` of the master. Its bytes fill the
  slave's posted transfer up to its count; the rest, or all of them when the
  slave has none posted, are lost to the slave. `missed` counts the latter.
- `SlavePost` is the slave's code between two transfers and the next
  `transfer()`: after the header, `DecodeLength` takes H.length from bytes 6
  and 7 of what it received.
- `transfer()` is not in the repository; it is modelled by spidev
  semantics: a transfer completes when its byte count is clocked.
- The device setup is left out: it succeeds, or `pabort` exits before the
  loop.

## 4. Runs

All runs use `MCEnetDriver`. Together, TX and RX traffic give more than 4 million
states, so each run exercises one direction. The paths do not interact, except
through the ring resets, which every run includes.

| Run | cfg | Bounds | Checks | Result |
|---|---|---|---|---|
| rx | EnetRx.cfg | 3 RX slots, 4 frames of any kind, 1 bus error, link up at start then 1 change | `TypeOK`, `RxRingConsistent`, `RxFrameEventuallyHandled`, `RefinesRxPacketFifo` (module `EnetRxFifo`) | pass |
| tx | EnetTx.cfg | 3 TX slots, 5 frames, 1 bus error, link up or down at start then 2 changes; a stack that waits for `nicTxEvent` or one that ignores it | `TxRingConsistent`, `TxEventImpliesSlotFree` (waiting stack), `LinkStateSettles` | pass |
| tx_live | EnetTxLive.cfg | 3 TX slots, 5 frames, no reset (no bus error, link down throughout), `DumpRegs = 32` | `PhyConfiguredAtInit`, `InitCompletes`, `SmiDataAfterCompletion`, `TxReadyEventually` | pass |
| tx_stall_reset | EnetTxStallReset.cfg | 1 bus error, link up or down at start, no change | `TxReadyEventually` | **violation** |
| init_no_phy | EnetInitNoPhy.cfg | no PHY answering (`PhyResponds = FALSE`) | `InitCompletes` | **violation** |

Every ENET run starts at power-on and goes through `mpc5748Eth1Init`.
`PhyConfiguredAtInit` says that when init returns the PHY is out of reset
with CONFIG_EN and AUTO_OP set, which needs the read-modify-writes to come
after the reset has ended. `SmiDataAfterCompletion` says the busy-wait never
exits on a frame still in progress (a stale EIR.MII). `InitCompletes` needs
MSCR programmed before the first SMI access. `DumpRegs = 32` is the
TRACE_DEBUG build, with the dump's 32 reads; the other runs use 0 (the
release build) to keep their state spaces small.

Why these bounds are enough:

- Four RX frames in three slots make the ring wrap. They also fill it, so the
  uDMA stops and the driver's RDAR must restart it.
- Five TX frames in three slots fill the ring, wrap the cursor and hit the busy
  descriptor.
- One bus error and a link-up reset the rings in the middle of traffic. In
  tx the link may start in either state and change twice, so it goes down
  and up again with frames in flight, and `LinkStateSettles` sees both
  kinds of change. rx starts with the link up and lets it change once: two
  link changes there take the run past five minutes, and tx already covers
  the link's own behaviour.

The runs do not check deadlock (`CHECK_DEADLOCK FALSE`). Once the bounded
traffic is over, the interrupt-driven system rightly waits.

### Fairness

- `DmaTransmit` has weak fairness: the hardware sends what it owns.
- The three ISRs have strong fairness. The net task disables the IRQs around
  each call, so a pending unmasked interrupt is only enabled intermittently.
  The interrupt controller still takes it the next time the IRQs are enabled.
- The net task's steps have weak fairness: once started, the driver code runs
  to its end.
- `PhyTick` and `PhyEventHandler` have weak fairness: the net task's timer
  calls `tja1102Tick` periodically and the net task handles the event it
  sets.
- The init steps (`MacReset`, `PhyAccessStart`, `PhyAccessDone`,
  `MacStart`) have weak fairness: they are straight-line code of one call.
  `MdioStep` (the MAC clocking a frame out) and `PhyResetStep` (the PHY's
  reset ending) have weak fairness: the hardware does both in bounded time
  once they are enabled.
- Frame arrival, bus errors, link changes and the stack's sends have no
  fairness.


### Runs of the other modules

| Run | cfg | Bounds | Checks | Result |
|---|---|---|---|---|
| rawsock | RawSock.cfg | 3 slots (2 usable), 5 frames, 2 sends | `TypeOK`, `RefinesRxPacketFifo` | pass |
| rawsock_init_leak | RawSockInitLeak.cfg | init only | `InitErrorReleasesContext` | **violation** |
| crc32 | Crc32.cfg | 516 inputs | `CrcMatchesReference` | pass |
| addr_filter | AddrFilter.cfg | 3 entries, 5 addresses, 2 references each | `TypeOK`, `HashTablesMatchFilter` | pass |
| dtls_client | DtlsClient.cfg | 4 connects; every readPemFile exit but the short read | `HandlesAccountedFor`, `ConnectionConsistent`, `ExitReleasesAll` | pass |
| dtls_cred_uaf | DtlsCredUaf.cfg | 1 connect, every readPemFile exit | `CredentialsNotUsedAfterFree` | **violation** |
| spi_overflow | SpiOverflow.cfg | 2 iterations, at most 1 transfer missed by the slave | `SlaveLengthWithinBuffer` | **violation** |

Why these bounds are enough:

- **rawsock.** Five frames through two usable slots wrap both indices, fill
  the queue (an overflow drop) and leave frames queued across every
  producer/consumer interleaving.
- **addr_filter.** The five addresses include:
  - two multicast addresses sharing bucket 47, so dropping one must keep
    the bit;
  - a multicast address in bucket 31 and a unicast one in bucket 63, which
    are the `1 << 31` cases;
  - an address in bucket 54.

  Three entries let all of them be in the table at once, in every
  combination.
- **crc32.** The inputs are:
  - every one-byte message, which exercises every bit path of the inner
    loop;
  - all 256 addresses `01:00:5E:00:00:xx`, which reach every bucket;
  - the standard check string.
- **dtls_client.** Four connects give a reconnect over a live connection and
  a failure at every step after a success. The run excludes the short read
  because that bug is the subject of `dtls_cred_uaf`.

Deadlock checking:

- **RawSock, the DTLS runs and spi_overflow** set `CHECK_DEADLOCK FALSE`. After the bounded
  traffic the tasks wait, or the program has ended.
- **AddrFilter and Crc32** check deadlock. In Crc32 every state stutters.

## 5. Findings

The model finds the same transmit stall after both ring resets. The run
`tx_stall_reset` allows one of each. With `LinkAtStart = {FALSE}` in its
cfg, TLC shows the bus-error trace. With `MaxBusErrors = 0`, it shows the link-up
trace.

**Bus-error recovery (`mpc5748_eth1_driver.c:754`)**

1. The stack fills the TX ring. The final send leaves `nicTxEvent` clear,
   because the next descriptor is busy.
2. A bus error arrives. The handler re-initialises the ring. This clears every
   R bit and drops the queued frames.
3. The handler does not set `nicTxEvent`. No TXF interrupt will follow, so the
   stack waits for good.

The counterexample is a sequence of about a dozen steps.

**Link up (`mpc5748Eth1UpdateMacConfig`, line 1050)**

The same sequence, with the PHY event of a link that is up (here the first
poll forced by `tja1102Init`) in place of the bus error, also
stops transmission for good. This is the trace TLC reports first for the
run as configured.

**No PHY hangs init (`tja1102_driver.c:91`, run `init_no_phy`)**

With no PHY answering at `interface->phyAddr`, the pulled-up MDIO makes
every SMI read return 0xFFFF. `tja1102Init`'s wait for BASIC_CTRL.RESET to
clear has no timeout, so it spins for ever and `mpc5748Eth1Init` never
returns. The spec's error taxonomy says configuration failures at init
surface to the caller. TLC's trace is the reset write followed by the poll
step repeated.

A fix for the stall would set `nicTxEvent` after `mpc5748Eth1InitBufferDesc` in both
places. `tx_live` shows that without the resets the transmitter always
becomes ready again.


**Raw-socket init leaks its context (`driver_rawsocket.c:106`, run
`rawsock_init_leak`)**

- When `RAW_open` fails, `rawsockDriverInit` returns after attaching the
  context to `interface->nicContext`, without freeing it.
- When the task cannot be created (lines 126-127), it frees the context but
  leaves `interface->nicContext` pointing at the freed block.

`RAW_open` itself closes its socket on each failure after `socket()`
(raw_eth.c:90-148); the model keeps those exits, which leave `sockOpen`
false.

**Dangling credential after a short read (`main.c:555`, run
`dtls_cred_uaf`)**

1. `readPemFile` frees `*buffer` when `fread` returns less than `ftell`
   said, but does not reset it.
2. `main` only prints an error and goes on.
3. `dtlsClientConnect` hands the freed buffer to `tlsSetTrustedCaList` or
   `tlsLoadCertificate`.
4. `main` frees it again at lines 456-458.

TLC's shortest trace is two steps: the CA file's short read, then `main`'s
double free after the task creation failed.

**The SPI slave trusts H.length (`s1.c:113`, run `spi_overflow`)**

- The slave never checks the sync word or H.length; it uses H.length as a
  transfer length (lines 113, 121) and a `memcpy` length into
  `default_tx + 8` (line 120), in 2048-byte buffers.
- If the master clocks one transfer before the slave has posted its own
  (nothing but `usleep(600)` prevents it), the framing shifts for good.
- TLC's trace: the slave misses the first sync word, takes H and "Hell" as
  its header, and reads H.length = 0x6C6C = 27756 from "ll".
- With no missed transfer the framing stays aligned and the property holds
  (checked with 3 iterations and `MaxMissed = 0`).

## 6. Not modelled

- Register programming with no behaviour in the model: pin mux,
  RCR/TCR/MIB values, the speed and duplex bits.
- The runtime link-status reads (`tja1102Tick`, `tja1102EventHandler`) are
  one atomic SMI read: after init nothing else uses the SMI, and the
  init model already checks the access protocol. The values printed by
  `tja1102DumpPhyReg` are not modelled, only its reads.
- The error exit of `mpc5748Eth1Init` (lines 130-151): the model binds the
  TJA1102 driver, whose `tja1102Init` always returns `NO_ERROR`, so the exit
  is taken only with no PHY or switch driver configured. The switch path is
  not part of this board.
- Buffer contents and frame lengths. The only length-dependent branch is the
  oversize check, which is modelled as a send that fails and sets the event.
- The station address registers PAUR/PALR (written by
  `UpdateMacAddrFilter`). They are a register copy of the MAC address.
- In the DTLS demo:
  - The DTLS session state (`dtlsSession`).
  - The raw public key callback, which depends on `tls_config.h`, a file
    outside this repository.
  - The errno mapping of the send/receive callbacks. It is pure
    error-code translation inside the library's calls.
  - The Windows-only branches.
- `raw_sock.h` and `driver_rawsock.h` hold declarations only.
- `ntp_debug.h` holds declarations only. In the SPI test, the payload's
  contents and the master's check of the echo (it only dumps it) are left
  out.
