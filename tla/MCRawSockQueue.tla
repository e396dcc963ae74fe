--------------------------- MODULE MCRawSockQueue ---------------------------
(***************************************************************************)
(* Model-checking instance of RawSockQueue; the constants are given in the *)
(* RawSock*.cfg files.                                                      *)
(***************************************************************************)
EXTENDS RawSockQueue

=============================================================================
