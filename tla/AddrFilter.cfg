\* Three filter entries, five addresses (two sharing a bucket, two on bit 31
\* of a table word), up to two references per address.
CONSTANTS
  Entries = {1, 2, 3}
  MaxRef = 2
  Addrs <- MCAddrs

SPECIFICATION Spec

INVARIANT TypeOK
INVARIANT HashTablesMatchFilter
