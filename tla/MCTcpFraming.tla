---------------------------- MODULE MCTcpFraming ----------------------------
(* TcpFraming with bodies of 0 to 3 bytes: none, shorter and longer than the   *)
(* header, which has 2.                                                        *)
EXTENDS TcpFraming

MCBodyLen == 0..3
=============================================================================
