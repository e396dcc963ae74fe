\* readPemFile failing at fopen, fseek or malloc, or succeeding (the short
\* read that leaves a dangling pointer is the subject of DtlsCredUaf.cfg);
\* four C presses: a reconnect over a live connection, and a failure at
\* every step of dtlsClientConnect after either.
CONSTANTS
  PemOutcomes = {"open", "seek", "alloc", "ok"}
  MaxConnects = 4

SPECIFICATION Spec

INVARIANT HandlesAccountedFor
INVARIANT ConnectionConsistent
INVARIANT ExitReleasesAll

\* The program ends: main returns or crashes.
CHECK_DEADLOCK FALSE
