---------------------------- MODULE SpiLoopback ----------------------------
(***************************************************************************)
(* The SPI loopback test (src/spitest/m1.c, s1.c, spi1.h).                 *)
(*                                                                         *)
(* The master (m1.c) clocks, in each iteration, a 4-byte sync word S, a    *)
(* 4-byte header H = (opcode, length), H.length payload bytes, then 4 + 4  *)
(* + 1000 bytes to read the reply. The slave (s1.c) posts a transfer of 8  *)
(* bytes (S and H), then one of H.length bytes (the payload), then one of  *)
(* 8 + H.length bytes that echoes S, H and the payload. Nothing but the    *)
(* master's usleep(600) makes the slave's transfer posted before the       *)
(* master clocks; bytes clocked while no slave transfer is posted are lost *)
(* to the slave (MaxMissed bounds how often this happens).                 *)
(*                                                                         *)
(* The master's bytes form one stream; a slave transfer receives a         *)
(* contiguous piece of it. A byte is its value 0..255. A transfer         *)
(* completes when its byte count is reached.                               *)
(***************************************************************************)
EXTENDS Naturals, Sequences

CONSTANTS
  PayloadLen,   \* the master's H.length (1000)
  RecvLen,      \* the length of the master's last read (1000)
  BufSize,      \* sizeof(default_tx) = sizeof(default_rx) (2048)
  MaxIters,     \* bound: master iterations (the code does 1000)
  MaxMissed     \* bound: master transfers clocked with no slave transfer posted

(* "Hello From Master" *)
Hello == << 72, 101, 108, 108, 111, 32, 70, 114, 111, 109, 32,
            77, 97, 115, 116, 101, 114 >>

(* S.sync_code = 0x11223344 and H = (0x0042, PayloadLen), little endian. *)
SyncBytes == << 68, 51, 34, 17 >>
HdrBytes == << 66, 0, PayloadLen % 256, PayloadLen \div 256 >>

(* The master's transfers in one iteration, their lengths. *)
MasterLens == << 4, 4, PayloadLen, 4, 4, RecvLen >>

IterLen == 8 + PayloadLen + 8 + RecvLen

(* default_tx[k] in iteration it: the string and its NUL, then zeros (the  *)
(* global is zero-initialised) in the first iteration and 0xCC (the memset *)
(* before the read phase) afterwards.                                      *)
PayloadByte(it, k) ==
  IF k < Len(Hello) THEN Hello[k + 1]
  ELSE IF k = Len(Hello) \/ it = 0 THEN 0 ELSE 204

(* The byte the master sends at stream position p: S, H, the payload, then *)
(* default_tx after memset(0xCC) while it reads the reply.                 *)
MasterByte(p) ==
  LET it == p \div IterLen
      o == p % IterLen
  IN CASE o < 4 -> SyncBytes[o + 1]
       [] o < 8 -> HdrBytes[o - 3]
       [] o < 8 + PayloadLen -> PayloadByte(it, o - 8)
       [] OTHER -> 204

(* memcpy(&H, &default_rx[4], 4): H.length from the header bytes 6 and 7 *)
(* of a header that started at stream position p.                          *)
DecodeLength(p) == MasterByte(p + 6) + 256 * MasterByte(p + 7)

VARIABLES
  mIdx,        \* the master's next transfer in its iteration (1..6)
  mIter,       \* the master's iteration
  pos,         \* stream position of the master's next byte
  missed,      \* master transfers clocked while no slave transfer was posted
  spc,         \* the slave: "PostHdr", "InHdr", "PostPayload", "InPayload",
               \* "PostReply", "InReply"
  sRemaining,  \* bytes left in the slave's posted transfer
  sHdrStart,   \* stream position of the first byte of the slave's header
  hlen         \* the slave's H.length

vars == << mIdx, mIter, pos, missed, spc, sRemaining, sHdrStart, hlen >>

Posted == spc \in {"InHdr", "InPayload", "InReply"}

(* The slave's step after a transfer completes. *)
AfterTransfer == [InHdr |-> "PostPayload", InPayload |-> "PostReply",
                  InReply |-> "PostHdr"]

Init ==
  /\ mIdx = 1 /\ mIter = 0 /\ pos = 0 /\ missed = 0
  /\ spc = "PostHdr" /\ sRemaining = 0 /\ sHdrStart = 0 /\ hlen = 0

-----------------------------------------------------------------------------
(* m1.c: one transfer() of the master. Its bytes go to the slave's posted  *)
(* transfer up to the count that transfer still needs; any beyond, or all  *)
(* of them when the slave has none posted, are lost to the slave.          *)
MasterTransfer ==
  /\ mIter < MaxIters
  /\ LET n == MasterLens[mIdx] IN
     /\ \/ /\ Posted
           /\ LET take == IF n < sRemaining THEN n ELSE sRemaining IN
              /\ sRemaining' = sRemaining - take
              /\ spc' = IF take = sRemaining THEN AfterTransfer[spc] ELSE spc
              /\ sHdrStart' = IF spc = "InHdr" /\ sRemaining = 8
                              THEN pos ELSE sHdrStart
           /\ UNCHANGED missed
        \/ /\ ~Posted
           /\ missed < MaxMissed
           /\ missed' = missed + 1
           /\ UNCHANGED << spc, sRemaining, sHdrStart >>
     /\ pos' = pos + n
     /\ mIdx' = IF mIdx = Len(MasterLens) THEN 1 ELSE mIdx + 1
     /\ mIter' = IF mIdx = Len(MasterLens) THEN mIter + 1 ELSE mIter
  /\ UNCHANGED hlen

(* s1.c: the code between two transfers, then transfer() posted: the     *)
(* header read of 8 bytes; after it, H taken from default_rx and the      *)
(* payload read of H.length bytes; after that, the reply of               *)
(* 4 + 4 + H.length bytes. A transfer of 0 bytes completes at once.        *)
SlavePost ==
  /\ spc \in {"PostHdr", "PostPayload", "PostReply"}
  /\ LET newLen == IF spc = "PostPayload" THEN DecodeLength(sHdrStart) ELSE hlen
         n == CASE spc = "PostHdr" -> 8
                [] spc = "PostPayload" -> newLen
                [] spc = "PostReply" -> 8 + hlen
         inState == CASE spc = "PostHdr" -> "InHdr"
                      [] spc = "PostPayload" -> "InPayload"
                      [] spc = "PostReply" -> "InReply"
     IN /\ hlen' = newLen
        /\ sRemaining' = n
        /\ spc' = IF n = 0 THEN AfterTransfer[inState] ELSE inState
  /\ UNCHANGED << mIdx, mIter, pos, missed, sHdrStart >>

Next == MasterTransfer \/ SlavePost

Spec == Init /\ [][Next]_vars

-----------------------------------------------------------------------------
(* Once the slave has taken H from the wire, H.length fits its buffers:    *)
(* the payload read into default_rx[2048] (s1.c:113), the copy to          *)
(* default_tx[8..] (s1.c:120) and the reply of 8 + H.length bytes          *)
(* (s1.c:121) stay inside them.                                            *)
SlaveLengthWithinBuffer ==
  spc \in {"InPayload", "PostReply", "InReply"} => hlen + 8 <= BufSize

=============================================================================
