----------------------------- MODULE MCQuiesce ------------------------------
(* Quiesce where processors may watch the same line.                        *)
EXTENDS Quiesce

CONSTANTS c1, c2, l1

ArmAnyLine == Cpu \X Line
=============================================================================
