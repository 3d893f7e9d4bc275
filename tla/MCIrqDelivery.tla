--------------------------- MODULE MCIrqDelivery ---------------------------
(* IrqDelivery with a delayed device line and an immediate line. *)
EXTENDS IrqDelivery
=============================================================================
