----------------------------- MODULE MCDtlsClient -----------------------------
(* Model-checking instance of DtlsClient; the constants come from the cfgs. *)
EXTENDS DtlsClient

=============================================================================
