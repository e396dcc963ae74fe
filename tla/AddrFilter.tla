----------------------------- MODULE AddrFilter -----------------------------
(***************************************************************************)
(* The MAC address hash filter of the MPC5748 ENET0 driver:                *)
(* mpc5748Eth1UpdateMacAddrFilter and mpc5748Eth1CalcCrc                   *)
(* (src/cyc/cyclone_tcp/drivers/mac/mpc5748_eth1_driver.c).                *)
(*                                                                         *)
(* The stack keeps a table of MAC addresses with reference counts          *)
(* (interface->macAddrFilter) and calls the driver after each change; the  *)
(* driver recomputes the unicast and multicast hash tables from scratch    *)
(* and writes them to IALR/IAUR and GALR/GAUR. The CRC is that of Crc32.  *)
(***************************************************************************)
EXTENDS Crc32

CONSTANTS
  Entries,    \* the slots of interface->macAddrFilter (MAC_ADDR_FILTER_SIZE)
  Addrs,      \* the MAC addresses the stack may accept: 6-byte sequences
  MaxRef      \* bound on an entry's reference count

(* The address of an entry never used: the table starts cleared. *)
NullAddr == << 0, 0, 0, 0, 0, 0 >>

-----------------------------------------------------------------------------
(* mpc5748Eth1UpdateMacAddrFilter *)

(* k = (crc >> 26) & 0x3F: the upper 6 bits of the CRC. *)
HashIndex(crc) == (crc.hi \div 1024) % 64

(* macIsMulticastAddr: the group bit of the first byte. *)
IsMulticastAddr(a) == a[1] % 2 = 1

(* Fault variant: "|=" written as "+=". *)
OrBitAdd(x, y) == x + y

(* table[k / 32] |= (1 << (k % 32)). The shift of a signed 1 into bit 31   *)
(* is undefined in ISO C; GCC defines it as setting bit 31.                *)
OrBit(x, y) == x | y

(* The two words of a table: word 1 for buckets 0..31 (IALR, GALR), word  *)
(* 2 for buckets 32..63 (IAUR, GAUR).                                      *)
SetHashBit(table, k) ==
  LET j == k % 32 IN
  IF j >= 16 THEN [table EXCEPT ![k \div 32 + 1].hi = OrBit(@, 2 ^ (j - 16))]
  ELSE [table EXCEPT ![k \div 32 + 1].lo = OrBit(@, 2 ^ j)]

EmptyTable == << Zero, Zero >>

(* The CRC of each address the stack may use, computed once. *)
CrcOf == [a \in Addrs \cup {NullAddr} |-> CalcCrc(a)]

(* Fault variant: entries whose reference count fell to 0 still hashed. *)
IsValidEntryAny(e) == TRUE

(* Valid entry? (refCount > 0) *)
IsValidEntry(e) == e.refCount > 0

(* The loop over the filter entries, for the unicast (mcast = FALSE) or    *)
(* the multicast table, starting from a cleared table.                     *)
RECURSIVE HashTableFrom(_, _, _)
HashTableFrom(filter, todo, mcast) ==
  IF todo = {} THEN EmptyTable
  ELSE LET i == CHOOSE x \in todo : TRUE
           e == filter[i]
           rest == HashTableFrom(filter, todo \ {i}, mcast)
       IN IF IsValidEntry(e) /\ IsMulticastAddr(e.addr) = mcast
          THEN SetHashBit(rest, HashIndex(CrcOf[e.addr]))
          ELSE rest

VARIABLES
  macAddrFilter,   \* interface->macAddrFilter: [addr, refCount] per entry
  updatePending,   \* the stack changed the table and will call the driver
  ialr, iaur,      \* ENET_IALR / ENET_IAUR: unicast hash table
  galr, gaur       \* ENET_GALR / ENET_GAUR: multicast hash table

vars == << macAddrFilter, updatePending, ialr, iaur, galr, gaur >>

Init ==
  /\ macAddrFilter = [i \in Entries |-> [addr |-> NullAddr, refCount |-> 0]]
  /\ updatePending = FALSE
  /\ ialr = Zero /\ iaur = Zero /\ galr = Zero /\ gaur = Zero

(* The whole of mpc5748Eth1UpdateMacAddrFilter: both tables recomputed     *)
(* from the current entries and written to the four registers. The        *)
(* station address registers PALR/PAUR are not modelled.                   *)
UpdateMacAddrFilter ==
  /\ updatePending
  /\ LET uni == HashTableFrom(macAddrFilter, Entries, FALSE)
         multi == HashTableFrom(macAddrFilter, Entries, TRUE)
     IN /\ ialr' = uni[1] /\ iaur' = uni[2]
        /\ galr' = multi[1] /\ gaur' = multi[2]
  /\ updatePending' = FALSE
  /\ UNCHANGED macAddrFilter

-----------------------------------------------------------------------------
(***************************************************************************)
(* The stack's side (ethAcceptMacAddr / ethDropMacAddr of CycloneTCP, not  *)
(* part of this repository): a known address gains a reference; a new one *)
(* takes a free entry and the filter is reprogrammed; the last reference  *)
(* dropped frees the entry and the filter is reprogrammed.                 *)
(***************************************************************************)
InUse(i, a) == macAddrFilter[i].refCount > 0 /\ macAddrFilter[i].addr = a

AcceptMacAddr(a) ==
  /\ ~updatePending
  /\ \/ \E i \in Entries :
          /\ InUse(i, a)
          /\ macAddrFilter[i].refCount < MaxRef
          /\ macAddrFilter' = [macAddrFilter EXCEPT ![i].refCount = @ + 1]
          /\ UNCHANGED updatePending
     \/ /\ \A i \in Entries : ~InUse(i, a)
        /\ \E i \in Entries :
             /\ macAddrFilter[i].refCount = 0
             /\ macAddrFilter' = [macAddrFilter EXCEPT ![i] = [addr |-> a, refCount |-> 1]]
             /\ updatePending' = TRUE
  /\ UNCHANGED << ialr, iaur, galr, gaur >>

DropMacAddr(a) ==
  /\ ~updatePending
  /\ \E i \in Entries :
       /\ InUse(i, a)
       /\ macAddrFilter' = [macAddrFilter EXCEPT ![i].refCount = @ - 1]
       /\ updatePending' = (macAddrFilter[i].refCount = 1)
  /\ UNCHANGED << ialr, iaur, galr, gaur >>

Next ==
  \/ UpdateMacAddrFilter
  \/ \E a \in Addrs : AcceptMacAddr(a) \/ DropMacAddr(a)

(* The stack calls the driver after each change it makes (weak). *)
Spec == Init /\ [][Next]_vars /\ WF_vars(UpdateMacAddrFilter)

-----------------------------------------------------------------------------
(***************************************************************************)
(* Properties.                                                              *)
(***************************************************************************)

TypeOK ==
  /\ macAddrFilter \in [Entries -> [addr : Addrs \cup {NullAddr}, refCount : 0 .. MaxRef]]
  /\ updatePending \in BOOLEAN
  /\ {ialr, iaur, galr, gaur} \subseteq Word

(* The 64 hash buckets set in the hardware, as numbers 0..63. *)
BucketsOf(lo, hi) ==
  {k \in 0 .. 63 : IF k < 32 THEN BitOf(lo, k) = 1 ELSE BitOf(hi, k - 32) = 1}

(* The bucket the hardware computes for an address, from the reference CRC.*)
RefBucket(a) == BitsValue(SubSeq(CrcReferenceBits(a), 27, 32))

RefBucketOf == [a \in Addrs |-> RefBucket(a)]

(* Once the driver has been called after the last change, the unicast      *)
(* table holds exactly the buckets of the unicast addresses with a         *)
(* reference and the multicast table those of the multicast ones: every   *)
(* accepted address passes the hardware filter, a multicast address never *)
(* sets a unicast bucket, and no bucket of a dropped address survives      *)
(* unless another address in use shares it.                                *)
HashTablesMatchFilter ==
  ~updatePending =>
    LET used(mcast) == {macAddrFilter[i].addr :
                          i \in {j \in Entries : macAddrFilter[j].refCount > 0
                                    /\ IsMulticastAddr(macAddrFilter[j].addr) = mcast}}
    IN /\ BucketsOf(ialr, iaur) = {RefBucketOf[a] : a \in used(FALSE)}
       /\ BucketsOf(galr, gaur) = {RefBucketOf[a] : a \in used(TRUE)}

=============================================================================
