------------------------------ MODULE MCBuffer ------------------------------
(* Instance of Buffer for TLC.                                             *)
EXTENDS Buffer

CONSTANTS zero, one

TwoBytes == {zero, one}
=============================================================================
