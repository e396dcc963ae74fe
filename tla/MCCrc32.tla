------------------------------- MODULE MCCrc32 -------------------------------
(***************************************************************************)
(* Checks mpc5748Eth1CalcCrc against the polynomial-division reference     *)
(* over a bounded set of inputs: the initial state picks one input, and    *)
(* the invariant is checked in each of them.                              *)
(***************************************************************************)
EXTENDS Crc32

VARIABLE input   \* the bytes passed to mpc5748Eth1CalcCrc

CheckString == << 49, 50, 51, 52, 53, 54, 55, 56, 57 >>   \* "123456789"

(* Every one-byte message, every IPv4 multicast MAC address                *)
(* 01:00:5E:00:00:xx (they spread over the 64 buckets), the standard check *)
(* string, and the broadcast, PTP and a unicast address.                  *)
Inputs ==
  { << b >> : b \in Byte }
  \cup { << 1, 0, 94, 0, 0, b >> : b \in Byte }
  \cup { CheckString,
         << 255, 255, 255, 255, 255, 255 >>,
         << 1, 27, 25, 0, 0, 0 >>,
         << 0, 171, 205, 239, 0, 15 >> }

Init == input \in Inputs
Next == UNCHANGED input
Spec == Init /\ [][Next]_input

(* The bit-serial loop of mpc5748Eth1CalcCrc (preset 0xFFFFFFFF, reflected *)
(* polynomial 0xEDB88320, no final inversion) computes the CRC-32 register *)
(* defined by polynomial division, and on "123456789" it gives 0x340BC6D9,  *)
(* the inverse of the published check value 0xCBF43926.                    *)
CrcMatchesReference ==
  /\ CalcCrc(input) = CrcReference(input)
  /\ input = CheckString => CalcCrc(input) = HexWord(<< 3, 4, 0, 11, 12, 6, 13, 9 >>)

=============================================================================
