---------------------------- MODULE MCIocpPoller ----------------------------
(* Instances of IocpPoller for TLC.                                        *)
EXTENDS IocpPoller

CONSTANTS c1, a1
=============================================================================
