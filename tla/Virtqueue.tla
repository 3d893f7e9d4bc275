----------------------------- MODULE Virtqueue -----------------------------
(***************************************************************************)
(* A legacy virtio device (CVirtioPci) and what CVirtioBlk and CVirtioNet  *)
(* do with its queues.  The driver puts buffers in a queue's available     *)
(* ring and notifies the device; the device's thread takes them, puts them *)
(* in the used ring and raises the interrupt unless the driver has asked   *)
(* for none.  Both rings are in guest memory, and their indices are u16.   *)
(* m_work is held through a pass of the thread; a reset and a new queue    *)
(* address wait for it.  A register access is one critical section of m_mx.*)
(*                                                                         *)
(* A step is one transfer of a ring's word or one critical section.  A     *)
(* buffer is the head of its chain: what it holds, and the chain, are left *)
(* out.  Requests always complete: with an error, with length 0 when the   *)
(* chain is malformed.                                                     *)
(***************************************************************************)
EXTENDS Naturals, FiniteSets

CONSTANTS
  Queue, RxQ,           \* the queues; the one that frames come in by
  Size, Wrap,           \* kQueueSize; the range of a u16 index
  MaxAdds, MaxFrames, MaxResets    \* bounds

VARIABLES
  vq,                   \* m_state.q: pfn set, last_avail, used_idx
  vreg,                 \* DRIVER_OK, isr
  ring,                 \* guest memory: the rings and the no-interrupt flag
  kicked,               \* m_kicked
  dev,                  \* the thread: next step, queue, head, any
  frame,                \* m_pending and the frames still to come
  vdrv,                 \* the driver: next step, queue, seen, free heads
  vcount                \* what the bounds have used

vqVars == <<vq, vreg, ring, kicked, dev, frame, vdrv, vcount>>

Head == 0 .. Size - 1

FreshQ    == [pfn |-> FALSE, last |-> 0, used |-> 0]
FreshRing == [idx |-> 0, slot |-> [s \in Head |-> 0], flag |-> FALSE,
              uidx |-> 0, uslot |-> [s \in Head |-> 0], live |-> FALSE]

Init ==
  /\ vq = [q \in Queue |-> FreshQ]
  /\ vreg = [ok |-> FALSE, isr |-> FALSE]
  /\ ring = [q \in Queue |-> FreshRing]
  /\ kicked = FALSE
  /\ dev = [pc |-> "wait", q |-> RxQ, todo |-> {}, head |-> 0, any |-> FALSE]
  /\ frame = [pending |-> FALSE, come |-> 0]
  /\ vdrv = [pc |-> "setup", q |-> RxQ, todo |-> {},
             seen |-> [q \in Queue |-> 0], free |-> [q \in Queue |-> Head]]
  /\ vcount = [adds |-> 0, frames |-> 0, resets |-> 0]

-----------------------------------------------------------------------------
(* The driver.                                                             *)

Working == dev.pc # "wait"      \* the thread holds m_work

To(pc) == vdrv' = [vdrv EXCEPT !.pc = pc]

(* REG_QUEUE_PFN, for every queue; the rings are zeroed before.            *)
SetPfn(q) ==
  /\ vdrv.pc = "setup" /\ ~vq[q].pfn /\ ~Working
  /\ vq' = [vq EXCEPT ![q] = [FreshQ EXCEPT !.pfn = TRUE]]
  /\ ring' = [ring EXCEPT ![q] = [FreshRing EXCEPT !.live = TRUE]]
  /\ vdrv' = [vdrv EXCEPT !.seen[q] = 0, !.free[q] = Head]
  /\ UNCHANGED <<vreg, kicked, dev, frame, vcount>>

(* REG_STATUS: DRIVER_OK.                                                  *)
SetStatus ==
  /\ vdrv.pc = "setup" /\ \A q \in Queue : vq[q].pfn
  /\ To("idle")
  /\ vreg' = [vreg EXCEPT !.ok = TRUE]
  /\ kicked' = TRUE
  /\ UNCHANGED <<vq, ring, dev, frame, vcount>>

(* A buffer goes into the available ring, its index after it, and a notify.*)
AddSlot(q) ==
  /\ vdrv.pc = "idle" /\ vdrv.free[q] # {} /\ vcount.adds < MaxAdds
  /\ vcount' = [vcount EXCEPT !.adds = @ + 1]
  /\ LET h == CHOOSE g \in vdrv.free[q] : \A k \in vdrv.free[q] : g <= k
     IN  /\ ring' = [ring EXCEPT ![q].slot[ring[q].idx % Size] = h]
         /\ vdrv' = [vdrv EXCEPT !.pc = "index", !.q = q, !.free[q] = @ \ {h}]
  /\ UNCHANGED <<vq, vreg, kicked, dev, frame>>

AddIndex ==
  /\ vdrv.pc = "index" /\ To("notify")
  /\ ring' = [ring EXCEPT ![vdrv.q].idx = (@ + 1) % Wrap]
  /\ UNCHANGED <<vq, vreg, kicked, dev, frame, vcount>>

(* A mutant: kick wakes a thread that waits, and leaves no mark.           *)
NotifyWaiter ==
  /\ vdrv.pc = "notify" /\ To("idle")
  /\ kicked' = (kicked \/ dev.pc = "wait")
  /\ UNCHANGED <<vq, vreg, ring, dev, frame, vcount>>

(* REG_QUEUE_NOTIFY: kick().                                               *)
Notify ==
  /\ vdrv.pc = "notify" /\ To("idle")
  /\ kicked' = TRUE
  /\ UNCHANGED <<vq, vreg, ring, dev, frame, vcount>>

(* The interrupt: the ISR's read clears it.                                *)
ReadIsr ==
  /\ vdrv.pc = "idle" /\ vreg.isr
  /\ vreg' = [vreg EXCEPT !.isr = FALSE]
  /\ vdrv' = [vdrv EXCEPT !.pc = "next", !.todo = Queue]
  /\ UNCHANGED <<vq, ring, kicked, dev, frame, vcount>>

(* For each queue: no interrupts while its used buffers are taken, then    *)
(* interrupts again and one more look.                                     *)
DisableInts ==
  /\ vdrv.pc = "next" /\ vdrv.todo # {}
  /\ LET q == CHOOSE p \in vdrv.todo : TRUE
     IN  /\ vdrv' = [vdrv EXCEPT !.pc = "reap", !.q = q, !.todo = @ \ {q}]
         /\ ring' = [ring EXCEPT ![q].flag = TRUE]
  /\ UNCHANGED <<vq, vreg, kicked, dev, frame, vcount>>

HandlerEnds ==
  /\ vdrv.pc = "next" /\ vdrv.todo = {} /\ To("idle")
  /\ UNCHANGED <<vq, vreg, ring, kicked, dev, frame, vcount>>

MoreUsed == ring[vdrv.q].uidx # vdrv.seen[vdrv.q]

Reap ==
  /\ vdrv.pc \in {"reap", "look"} /\ MoreUsed
  /\ LET q == vdrv.q
         h == ring[q].uslot[vdrv.seen[q] % Size]
     IN  vdrv' = [vdrv EXCEPT !.pc = "reap", !.seen[q] = (@ + 1) % Wrap,
                              !.free[q] = @ \cup {h}]
  /\ ring' = [ring EXCEPT ![vdrv.q].flag = TRUE]
  /\ UNCHANGED <<vq, vreg, kicked, dev, frame, vcount>>

EnableInts ==
  /\ vdrv.pc = "reap" /\ ~MoreUsed /\ To("look")
  /\ ring' = [ring EXCEPT ![vdrv.q].flag = FALSE]
  /\ UNCHANGED <<vq, vreg, kicked, dev, frame, vcount>>

LookAgain ==
  /\ vdrv.pc = "look" /\ ~MoreUsed /\ To("next")
  /\ UNCHANGED <<vq, vreg, ring, kicked, dev, frame, vcount>>

reset_device ==
  /\ vq' = [q \in Queue |-> FreshQ]
  /\ vreg' = [ok |-> FALSE, isr |-> FALSE]
  /\ frame' = [frame EXCEPT !.pending = FALSE]

Reset ==
  /\ vdrv.pc = "idle" /\ vcount.resets < MaxResets
  /\ vcount' = [vcount EXCEPT !.resets = @ + 1]
  /\ To("setup")
  /\ ring' = [q \in Queue |-> [ring[q] EXCEPT !.live = FALSE]]
  /\ reset_device
  /\ UNCHANGED <<kicked, dev>>

(* A mutant: the reset does not wait for what the thread has in hand.      *)
ResetAtOnce == Reset

(* REG_STATUS 0: the driver has its rings back.                            *)
WriteReset == Reset /\ ~Working

-----------------------------------------------------------------------------
(* The device's thread: run.                                               *)

Go(pc) == dev' = [dev EXCEPT !.pc = pc]

(* Woken by a kick, or for a frame (CVirtioNet polls), it takes m_work.    *)
Wake ==
  /\ dev.pc = "wait" /\ (kicked \/ frame.come > 0)
  /\ kicked' = FALSE
  /\ dev' = [dev EXCEPT !.pc = "queue", !.todo = Queue \ {RxQ}]
  /\ UNCHANGED <<vq, vreg, ring, frame, vdrv, vcount>>

(* The next queue with an address, or poll().                              *)
NextQueue ==
  /\ dev.pc = "queue" /\ dev.todo # {}
  /\ \E q \in dev.todo :
       dev' = [dev EXCEPT !.todo = @ \ {q}, !.q = q, !.any = FALSE,
                          !.pc = IF vq[q].pfn THEN "pop" ELSE "queue"]
  /\ UNCHANGED <<vq, vreg, ring, kicked, frame, vdrv, vcount>>

StartPoll ==
  /\ dev.pc = "queue" /\ dev.todo = {}
  /\ IF vreg.ok /\ vq[RxQ].pfn
     THEN /\ dev' = [dev EXCEPT !.pc = "frame", !.q = RxQ, !.any = FALSE]
          /\ UNCHANGED frame
     ELSE Go("wait") /\ frame' = [pending |-> FALSE, come |-> 0]
  /\ UNCHANGED <<vq, vreg, ring, kicked, vdrv, vcount>>

(* CVirtioNet::poll: a frame to deliver, or the pass is over.              *)
TakeFrame ==
  /\ dev.pc = "frame"
  /\ IF frame.pending \/ frame.come > 0
     THEN /\ Go("pop")
          /\ frame' = [pending |-> TRUE, come |-> IF frame.pending THEN frame.come
                                                   ELSE frame.come - 1]
     ELSE Go("flags") /\ UNCHANGED frame
  /\ UNCHANGED <<vq, vreg, ring, kicked, vdrv, vcount>>

(* pop_chain: the available index, then the head in the slot.              *)
PopIndex ==
  /\ dev.pc = "pop"
  /\ Go(IF ring[dev.q].idx = vq[dev.q].last THEN "flags" ELSE "head")
  /\ UNCHANGED <<vq, vreg, ring, kicked, frame, vdrv, vcount>>

PopHead ==
  /\ dev.pc = "head"
  /\ dev' = [dev EXCEPT !.pc = "elem",
                        !.head = ring[dev.q].slot[vq[dev.q].last % Size]]
  /\ vq' = [vq EXCEPT ![dev.q].last = (@ + 1) % Wrap]
  /\ UNCHANGED <<vreg, ring, kicked, frame, vdrv, vcount>>

(* push_used: the element, then the used index.                            *)
PushElem ==
  /\ dev.pc = "elem" /\ Go("used")
  /\ ring' = [ring EXCEPT ![dev.q].uslot[vq[dev.q].used % Size] = dev.head]
  /\ UNCHANGED <<vq, vreg, kicked, frame, vdrv, vcount>>

PushIndex ==
  /\ dev.pc = "used"
  /\ dev' = [dev EXCEPT !.pc = IF dev.q = RxQ THEN "frame" ELSE "pop",
                        !.any = TRUE]
  /\ vq' = [vq EXCEPT ![dev.q].used = (@ + 1) % Wrap]
  /\ ring' = [ring EXCEPT ![dev.q].uidx = (vq[dev.q].used + 1) % Wrap]
  /\ frame' = IF dev.q = RxQ THEN [frame EXCEPT !.pending = FALSE] ELSE frame
  /\ UNCHANGED <<vreg, kicked, vdrv, vcount>>

PassEnds == IF dev.q = RxQ THEN "wait" ELSE "queue"

(* queue_interrupt: the driver's flag, read after the used index went out. *)
ReadFlags ==
  /\ dev.pc = "flags"
  /\ Go(IF dev.any /\ ~ring[dev.q].flag THEN "raise" ELSE PassEnds)
  /\ UNCHANGED <<vq, vreg, ring, kicked, frame, vdrv, vcount>>

raise_isr ==
  /\ dev.pc = "raise" /\ Go(PassEnds)
  /\ vreg' = [vreg EXCEPT !.isr = TRUE]
  /\ UNCHANGED <<vq, ring, kicked, frame, vdrv, vcount>>

(* A frame comes in from the host.                                         *)
Arrive ==
  /\ vcount.frames < MaxFrames
  /\ vcount' = [vcount EXCEPT !.frames = @ + 1]
  /\ frame' = [frame EXCEPT !.come = @ + 1]
  /\ UNCHANGED <<vq, vreg, ring, kicked, dev, vdrv>>

-----------------------------------------------------------------------------
Driver ==
  \/ \E q \in Queue : SetPfn(q)
  \/ SetStatus \/ AddIndex \/ Notify \/ ReadIsr \/ DisableInts \/ HandlerEnds
  \/ Reap \/ EnableInts \/ LookAgain

Device ==
  \/ Wake \/ NextQueue \/ StartPoll \/ TakeFrame \/ PopIndex \/ PopHead
  \/ PushElem \/ PushIndex \/ ReadFlags \/ raise_isr

(* Nothing is left to do, and the bounds are used up.                      *)
Rest ==
  /\ vdrv.pc = "idle" /\ dev.pc = "wait" /\ ~kicked /\ ~vreg.isr
  /\ UNCHANGED vqVars

Next == Driver \/ Device \/ Arrive \/ WriteReset \/ Rest \/ \E q \in Queue : AddSlot(q)

Spec == Init /\ [][Next]_vqVars

(* The host schedules the thread; the driver finishes what it has begun.   *)
FairSpec == Spec /\ WF_vqVars(Driver) /\ WF_vqVars(Device)

-----------------------------------------------------------------------------
(* A transmit or disk buffer that the driver hands over comes back to it,  *)
(* whatever the notify, the indices' wrap and the interrupt's suppression  *)
(* run into (run, pop_chain, push_used, queue_interrupt); only a reset     *)
(* ends the wait otherwise.                                                *)
BuffersReturned ==
  \A q \in Queue \ {RxQ} : \A h \in Head :
    (h \notin vdrv.free[q]) ~> (h \in vdrv.free[q])

(* The device moves data only through rings the driver has handed over: a  *)
(* reset waits for the buffer in hand (WriteMem_Bar, "A reset and a queue  *)
(* address change wait for the thread to finish what it has in hand").     *)
(* And what it puts in a used ring is a buffer the driver added and has    *)
(* not had back, never one of them twice (pop_chain, push_used).           *)
RingsSound ==
  /\ dev.pc \in {"pop", "head", "elem", "used"} => ring[dev.q].live
  /\ \A q \in Queue : ring[q].live =>
       LET n == (ring[q].uidx + Wrap - vdrv.seen[q]) % Wrap
           H == {ring[q].uslot[(vdrv.seen[q] + i) % Size] : i \in 0 .. n - 1}
       IN  Cardinality(H) = n /\ H \cap vdrv.free[q] = {}

=============================================================================
