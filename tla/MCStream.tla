------------------------------ MODULE MCStream -------------------------------
(* Model checking of Stream: the same digit twice.                         *)
EXTENDS Stream

MCDial == <<5, 5>>
=============================================================================
