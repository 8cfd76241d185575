------------------------------ MODULE MCDtlsSrtp ------------------------------
(* Model checking DtlsSrtp: three certificates, one of a client without SRTP, *)
(* and a fingerprint no adapter takes.                                        *)
EXTENDS DtlsSrtp

CONSTANTS f1, f2, f3, bad
=============================================================================
