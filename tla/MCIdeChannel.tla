---------------------------- MODULE MCIdeChannel ----------------------------
(* One disk and DMA reads, by a driver that gives a command up and writes  *)
(* the next without waiting for the controller.                            *)
EXTENDS IdeChannel

DmaReads == [d \in Drive |-> {[kind |-> "dma read", n |-> 1]}]
=============================================================================
