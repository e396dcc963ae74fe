\* Every readPemFile outcome, the short fread included.
CONSTANTS
  PemOutcomes = {"open", "seek", "alloc", "read", "ok"}
  MaxConnects = 1

SPECIFICATION Spec

INVARIANT CredentialsNotUsedAfterFree

CHECK_DEADLOCK FALSE
