---------------------------- MODULE MCAddrFilter ----------------------------
(***************************************************************************)
(* Model-checking instance of AddrFilter: a few addresses a host stack     *)
(* uses, chosen so that two multicast addresses share a bucket (47) and    *)
(* one unicast and one multicast address fall on bit 31 of a table word.   *)
(***************************************************************************)
EXTENDS AddrFilter

MCAddrs ==
  { << 255, 255, 255, 255, 255, 255 >>,   \* broadcast, bucket 47
    << 1, 27, 25, 0, 0, 0 >>,             \* PTP 01:1B:19:00:00:00, bucket 47
    << 1, 0, 94, 0, 0, 1 >>,              \* IPv4 all-hosts, bucket 54
    << 1, 0, 94, 0, 0, 38 >>,             \* 01:00:5E:00:00:26, bucket 31
    << 0, 171, 205, 239, 0, 15 >> }       \* 00:AB:CD:EF:00:0F, bucket 63

=============================================================================
