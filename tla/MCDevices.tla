----------------------------- MODULE MCDevices -----------------------------
(* The devices and the threads that serve them, one at a time: they meet   *)
(* only through interrupts and memory, so a behaviour is one part's, the   *)
(* others staying as they begin, and their states add up.  The overlay is  *)
(* of two clusters, with two writes, a failed one and a killed process.    *)
EXTENDS DiskOverlay

VARIABLES
  part,
  pic, polled, modes,
  csr5, csr6, csr7, ts, rs, rx, tx, queue, current, filter, irq, signalled, rxown,
  txdesc, nic, pc, demanded, writes, gives, frames,
  image, flags, locked, tray, pend, mutex, phase, cmd, oper, seen,
  q, eng, taken, cp, late, idle, rcpu, rbound,
  uart, out, port, client, typed,
  vq, vreg, ring, kicked, dev, frame, vdrv, vcount,
  ed, walk, hc, slot, flight, udrv, moved

picVars    == <<pic, polled, modes>>
tulipVars  == <<csr5, csr6, csr7, ts, rs, rx, tx, queue, current, filter, irq,
                signalled, rxown, txdesc, nic, pc, demanded, writes, gives, frames>>
mediaVars  == <<image, flags, locked, tray, pend, mutex, phase, cmd, oper, seen>>
rqVars     == <<q, eng, taken, cp, late, idle, rcpu, rbound>>
serialVars == <<uart, out, port, client, typed>>
vqVars     == <<vq, vreg, ring, kicked, dev, frame, vdrv, vcount>>
ohciVars   == <<ed, walk, hc, slot, flight, udrv, moved>>

-----------------------------------------------------------------------------
(* Two interrupt controllers of three inputs, the cascade one of them; two *)
(* devices on the slave, one on an input the guest masks.                  *)
Icw4(p) ==
  {[sfnm |-> n, aeoi |-> FALSE] : n \in BOOLEAN}
    \cup {[sfnm |-> FALSE, aeoi |-> e] : e \in {p = 0}}

Pic == INSTANCE I8259 WITH N <- 3, Input <- [p \in 0 .. 1 |-> IF p = 0 THEN {} ELSE {0, 1}],
         Masks <- {{}, {1}}, Elcr <- {{2}}, MaxModes <- 2, Modes <- [p \in 0 .. 1 |-> Icw4(p)]

(* A network adapter, its driver on one processor, and few writes, chosen  *)
(* for the races with the thread.                                          *)
Run(st, sr, pr, om) == [ST |-> st, SR |-> sr, PR |-> pr, OM |-> om]

Nic == INSTANCE Tulip WITH Cpu <- {"cpu"}, List <- {"list"}, RxRing <- 2, TxRing <- 1,
         RxQueue <- 1, RxBurst <- 1, Frame <- {1, 2},
         Opmode <- {Run(TRUE, TRUE, FALSE, FALSE), Run(TRUE, FALSE, FALSE, FALSE),
                    Run(TRUE, TRUE, TRUE, TRUE)},
         Mask <- {{"NIS", "RI", "TU"}}, MaxWrites <- 2, MaxGives <- 1, MaxFrames <- 1

Media == INSTANCE MediaSwap WITH MaxMedia <- 3, MaxCommands <- 4

Radeon == INSTANCE RadeonQueue WITH RCpu <- {"cpu"}, FifoEntries <- 2, MaxQueued <- 3,
            MaxRing <- 1, MaxResets <- 1, MaxStops <- 1, ring <- cp

(* Output past the queue's limit to two clients in turn; two items of a    *)
(* client's input; a loopback test between two clients'.                   *)
Items == {<<"a">>, <<"cr", "nul">>, <<"IAC", "IAC">>, <<"IAC", "WILL", "a">>,
          <<"IAC", "SB", "a", "IAC", "SE">>, <<"IAC", "BRK">>}

Console == INSTANCE Serial WITH Item <- Items, QueueMax <- 4, FifoMax <- 2,
             Bounds <- {[out |-> 3, items |-> 0, clients |-> 2, loops |-> 0],
                        [out |-> 1, items |-> 2, clients |-> 1, loops |-> 0],
                        [out |-> 0, items |-> 1, clients |-> 2, loops |-> 1]},
             past <- typed

(* Three buffers for two queues of two, a frame, a reset.                  *)
Virtio == INSTANCE Virtqueue WITH Queue <- {"rx", "tx"}, RxQ <- "rx", Size <- 2,
            Wrap <- 4, MaxAdds <- 3, MaxFrames <- 1, MaxResets <- 1

Usb == INSTANCE Ohci WITH Pipe <- {"in", "out"}, Delay <- {0}, MaxTds <- 2,
         MaxRun <- 2, MaxAborts <- 1, MaxFaults <- 1, hist <- moved

-----------------------------------------------------------------------------
all == <<part, picVars, tulipVars, ovVars, mediaVars, rqVars, serialVars, vqVars, ohciVars>>

MCInit ==
  /\ part \in {"pic", "nic", "overlay", "media", "radeon", "console", "virtio", "usb"}
  /\ Pic!Init /\ Nic!Init /\ Init /\ Media!Init /\ Radeon!Init /\ Console!Init
  /\ Virtio!Init /\ Usb!Init
  /\ part # "console" => typed.max.out = 3 /\ ~port.raw

MCNext ==
  /\ \/ part = "pic" /\ Pic!Next
        /\ UNCHANGED <<tulipVars, ovVars, mediaVars, rqVars, serialVars, vqVars, ohciVars>>
     \/ part = "nic" /\ Nic!Next
        /\ UNCHANGED <<picVars, ovVars, mediaVars, rqVars, serialVars, vqVars, ohciVars>>
     \/ part = "overlay" /\ Next
        /\ UNCHANGED <<picVars, tulipVars, mediaVars, rqVars, serialVars, vqVars, ohciVars>>
     \/ part = "media" /\ Media!Next
        /\ UNCHANGED <<picVars, tulipVars, ovVars, rqVars, serialVars, vqVars, ohciVars>>
     \/ part = "radeon" /\ Radeon!Next
        /\ UNCHANGED <<picVars, tulipVars, ovVars, mediaVars, serialVars, vqVars, ohciVars>>
     \/ part = "console" /\ Console!Next
        /\ UNCHANGED <<picVars, tulipVars, ovVars, mediaVars, rqVars, vqVars, ohciVars>>
     \/ part = "virtio" /\ Virtio!Next
        /\ UNCHANGED <<picVars, tulipVars, ovVars, mediaVars, rqVars, serialVars, ohciVars>>
     \/ part = "usb" /\ Usb!Next
        /\ UNCHANGED <<picVars, tulipVars, ovVars, mediaVars, rqVars, serialVars, vqVars>>
  /\ UNCHANGED part

MCSpec == MCInit /\ [][MCNext]_all

-----------------------------------------------------------------------------
(* The interrupt controllers' outputs follow their registers (CI8259).     *)
PairInStep == part = "pic" => Pic!PairInStep

(* The adapter's interrupt line settles at the level CSR5 and CSR7 ask for.*)
LineSettles == part = "nic" => Nic!LineSettles

(* The adapter's rings stay on their lists, and the host passes up what    *)
(* its filter asks for, across resets and writes during a pass (CTulip).   *)
PassesKeepUp == part = "nic" => Nic!RingsOnTheirLists /\ Nic!HostFilterFollows

(* A guest reads the medium it was told of, changed only between commands. *)
ReadsWhatItWasTold == part = "media" => Media!ReadsWhatItWasTold /\ Media!SwapsBetweenCommands

(* Queued register writes are applied once and in order, and a read waits  *)
(* for the ones before it (CRadeon).                                       *)
TakenInOrder == part = "radeon" => Radeon!TakenInOrder /\ Radeon!ReadsAfterWrites

(* The console loses and makes up nothing, either way (CSerial).           *)
ConsoleKept == part = "console" => Console!ConsoleKept

(* A virtio device works only in rings its driver has handed over.         *)
RingsSound == part = "virtio" => Virtio!RingsSound

(* A bulk endpoint's data is neither lost nor made up (COhci).             *)
StreamsKept == part = "usb" => Usb!StreamsKept
=============================================================================
