----------------------------- MODULE MCProgress -----------------------------
(* What must eventually happen: the console's start of a processor, a      *)
(* device's turn at memory, and the devices that answer a driver's         *)
(* commands and buffers.  The parts do not interact; a behaviour is one    *)
(* part's, the others staying as they begin, so that their states add up.  *)
EXTENDS Naturals, Sequences

VARIABLES
  part,
  reg, owner, got, last, polling, far, open, expired, untouched, pc, tries,
  reset_requested, clean,
  mem, llSeq, llLock, lockFlags, lockAddress, lockValue, seqSnap, gate, unlisted,
  lpc, op, dpc, dop, since,
  drv, chan, bm, sem, dma, work, ctl, gst, hist,
  vq, vreg, ring, kicked, dev, frame, vdrv, vcount,
  ed, walk, hc, slot, flight, udrv, moved

Start == INSTANCE StartHandoff WITH Reader <- {"console", "other"},
           Console <- "console", Reads <- 2

(* Two processors that lock one quadword over and over, and a device.      *)
Lock == INSTANCE LoadLock WITH CPU <- {"c1", "c2"}, Device <- {"d"}, Addr <- {"x"},
          IoAddr <- {}, Val <- {0}, Zero <- 0, line <- [a \in {"x"} |-> "X"],
          bucket <- [l \in {"X"} |-> 0], SeqMod <- 2,
          clean <- unlisted, pc <- lpc

(* A disk and a CD: commands of every kind the controller treats apart, of *)
(* two blocks where the second is reached by another way than the first.   *)
Kind(k, n) == [kind |-> k, n |-> n]

Commands ==
  [d \in {"disk", "cd"} |->
     IF d = "disk"
     THEN {Kind("nodata", 0), Kind("read", 2), Kind("write", 2), Kind("dma read", 1)}
     ELSE {Kind("packet in", 1), Kind("packet out", 1), Kind("refused", 0), Kind("identify", 1)}]

Ide == INSTANCE IdeChannel WITH Drive <- {"disk", "cd"}, Command <- Commands,
         Patient <- TRUE, MaxCommands <- 2

(* Queues of one, whose indices wrap.                                      *)
Virtio == INSTANCE Virtqueue WITH Queue <- {"rx", "tx"}, RxQ <- "rx", Size <- 1,
            Wrap <- 2, MaxAdds <- 3, MaxFrames <- 1, MaxResets <- 1

(* A control endpoint and a bulk endpoint, and a device that may stall.     *)
Usb == INSTANCE Ohci WITH Pipe <- {"ctl", "out"}, Delay <- {0}, MaxTds <- 2,
         MaxRun <- 2, MaxAborts <- 0, MaxFaults <- 1, hist <- moved

startVars == <<reg, owner, got, last, polling, far, open, expired, untouched, pc,
               tries, reset_requested, clean>>
lockVars  == <<mem, llSeq, llLock, lockFlags, lockAddress, lockValue, seqSnap, gate,
               unlisted, lpc, op, dpc, dop, since>>
ideVars   == <<drv, chan, bm, sem, dma, work, ctl, gst, hist>>
vqVars    == <<vq, vreg, ring, kicked, dev, frame, vdrv, vcount>>
ohciVars  == <<ed, walk, hc, slot, flight, udrv, moved>>

all == <<startVars, lockVars, ideVars, vqVars, ohciVars, part>>

MCInit ==
  /\ part \in {"start", "lock", "ide", "virtio", "usb"}
  /\ Start!Init /\ Lock!Init /\ Ide!Init /\ Virtio!Init /\ Usb!Init

MCNext ==
  /\ \/ part = "start" /\ Start!Next /\ UNCHANGED <<lockVars, ideVars, vqVars, ohciVars>>
     \/ part = "lock" /\ Lock!Next /\ UNCHANGED <<startVars, ideVars, vqVars, ohciVars>>
     \/ part = "ide" /\ Ide!Next /\ UNCHANGED <<startVars, lockVars, vqVars, ohciVars>>
     \/ part = "virtio" /\ Virtio!Next /\ UNCHANGED <<startVars, lockVars, ideVars, ohciVars>>
     \/ part = "usb" /\ Usb!Next /\ UNCHANGED <<startVars, lockVars, ideVars, vqVars>>
  /\ UNCHANGED part

(* Each part's own fairness, where it is the part that runs.               *)
StartFair ==
  /\ WF_startVars(part = "start" /\ Start!Expire)
  /\ WF_startVars(part = "start" /\ Start!ReaderStep("console"))
  /\ WF_startVars(part = "start" /\ Start!ReaderStep("other"))

LockFair ==
  /\ WF_lockVars(part = "lock" /\ Lock!CpuStep("c1"))
  /\ WF_lockVars(part = "lock" /\ Lock!CpuStep("c2"))
  /\ WF_lockVars(part = "lock" /\ Lock!DmaStep("d"))

IdeFair ==
  WF_ideVars(part = "ide" /\ Ide!Controller) /\ WF_ideVars(part = "ide" /\ Ide!Driver)

VirtioFair ==
  WF_vqVars(part = "virtio" /\ Virtio!Driver) /\ WF_vqVars(part = "virtio" /\ Virtio!Device)

UsbFair ==
  /\ WF_ohciVars(part = "usb" /\ Usb!Serve) /\ SF_ohciVars(part = "usb" /\ Usb!ControlTd)
  /\ WF_ohciVars(part = "usb" /\ Usb!Begin("frame")) /\ WF_ohciVars(part = "usb" /\ Usb!Completion)
  /\ WF_ohciVars(part = "usb" /\ Usb!Passes) /\ WF_ohciVars(part = "usb" /\ Usb!TakeDone)
  /\ SF_ohciVars(part = "usb" /\ Usb!WriteCommand) /\ SF_ohciVars(part = "usb" /\ Usb!ClearWdh)
  /\ SF_ohciVars(part = "usb" /\ Usb!Recover)

MCSpec ==
  MCInit /\ [][MCNext]_all /\ StartFair /\ LockFair /\ IdeFair /\ VirtioFair /\ UsbFair

(* The console's start of a processor fails only for a reason, and no read *)
(* of the console waits for ever (the start hand-off's wait).              *)
HandoffCompletes ==
  /\ [](part = "start" => Start!TypeOK /\ Start!StartTaken)
  /\ Start!ReadReturns

(* A device that has announced its write gets through the gate, however    *)
(* often the processors ask for it (pci_dma_write_enter).                  *)
DmaCompletes == Lock!DmaCompletes

(* Every ATA command is answered, its Start landing at any moment.         *)
CommandCompletes == Ide!CommandCompletes

(* A bus-master transfer is one of the command written last.               *)
TransfersTheLast == Ide!TransfersTheLast

(* A buffer handed to a virtio device comes back to its driver.            *)
BuffersReturned == Virtio!BuffersReturned

(* A TD handed to the USB controller comes back to its driver.             *)
TdsComeBack == Usb!TdsComeBack
=============================================================================
