------------------------------- MODULE Tulip -------------------------------
(***************************************************************************)
(* A DECchip 21x4x Ethernet controller (CTulip).  Processors write its     *)
(* registers; the controller's own thread takes frames from the host into  *)
(* the receive ring and sends what the transmit ring holds.  One mutex,    *)
(* m_lock, guards the registers, and it is held neither across a transfer  *)
(* to or from the rings in guest memory nor while the interrupt line is    *)
(* driven.  A step is one critical section, one transfer of a descriptor's *)
(* first word, or one call that drives the line.                           *)
(*                                                                         *)
(* A frame is the number of receive descriptors it fills.  A transmit      *)
(* frame has one descriptor.  Bytes, counters, the serial ROM and the      *)
(* media registers are left out.                                           *)
(***************************************************************************)
EXTENDS Naturals, Sequences, FiniteSets

CONSTANTS
  Cpu,                  \* processors that write registers
  List,                 \* addresses of descriptor lists
  RxRing, TxRing,       \* descriptors in a list
  RxQueue,              \* rx_queue->max
  RxBurst,              \* RX_BURST
  Frame,                \* descriptors a frame fills
  Opmode,               \* values written to CSR6
  Mask,                 \* values written to CSR7
  MaxWrites, MaxGives, MaxFrames   \* bounds: writes, descriptors, frames

NIC == "nic"            \* the controller's thread

Normal   == {"TI", "TU", "RI"}
Abnormal == {"RU", "TPS", "RPS"}
Thread   == Cpu \cup {NIC}

VARIABLES
  csr5, csr6, csr7,     \* status bits, operation mode, interrupt mask
  ts, rs,               \* CSR5's process states
  rx, tx,               \* ring positions, epochs, suspend and poll demands
  queue, current,       \* rx_queue; rx.current: its length and what is used
  filter,               \* m_setup_loaded, m_filter_dirty, the host's filter
  irq,                  \* m_irq_busy, irq_was_asserted and the line
  signalled,            \* mySemaphore
  rxown, txdesc,        \* guest memory: the descriptors the controller owns
  nic,                  \* the thread's locals
  pc,                   \* every thread's next step
  demanded,             \* history: transmit descriptors a poll demand covers
  writes, gives, frames \* what the bounds have used

guest  == <<rxown, txdesc, demanded>>
bounds == <<writes, gives, frames>>
regs   == <<csr5, csr6, csr7, ts, rs, rx, tx, queue, current, filter>>
vars   == <<regs, irq, signalled, guest, nic, pc, bounds>>

(* CSR6 out of reset is promiscuous, and neither process runs.             *)
Reset6 == [ST |-> FALSE, SR |-> FALSE, PR |-> TRUE, OM |-> FALSE]
NoList == "none"        \* CSR3 and CSR4 after a reset
Lists  == List \cup {NoList}

(* Where the ring goes on: its last descriptor says "end of ring".         *)
NextDesc(d, ring, base) ==
  IF d[2] = ring THEN <<base, 1>> ELSE <<d[1], d[2] + 1>>

(* host_filter_locked: never less than the controller's own filter takes.  *)
host_filter == [pr |-> csr6.PR, setup |-> filter.setup]

(* filter_match_locked, for a frame to the station's address, to one the   *)
(* setup frame lists, or to another.                                       *)
filter_match(dst) == csr6.PR \/ dst = (IF filter.setup THEN "listed" ELSE "station")

(* The thread's locals between two calls; n counts the frames of a pass.    *)
NoLocals ==
  [at |-> <<NoList, 1>>, epoch |-> 0, list |-> NoList, used |-> 0, len |-> 0,
   kind |-> "host", mode |-> Reset6, n |-> 0, host |-> [pr |-> FALSE, setup |-> FALSE]]

(* A driver has brought the controller up: both processes run on their      *)
(* first lists, and the host filters for the station's address.            *)
Init ==
  /\ \E l \in List, bits \in Mask :
       /\ csr7 = bits
       /\ rx = [list |-> l, at |-> <<l, 1>>, epoch |-> 0, poll |-> FALSE]
       /\ tx = [list |-> l, at |-> <<l, 1>>, epoch |-> 0, poll |-> FALSE,
                suspend |-> FALSE]
  /\ csr5 = {} /\ csr6 = [Reset6 EXCEPT !.ST = TRUE, !.SR = TRUE, !.PR = FALSE]
  /\ ts = "fetch" /\ rs = "wait"
  /\ queue = <<>> /\ current = [len |-> 0, used |-> 0]
  /\ filter = [setup |-> FALSE, dirty |-> FALSE, host |-> NoLocals.host]
  /\ irq = [busy |-> FALSE, was |-> FALSE, line |-> FALSE]
  /\ signalled = FALSE
  /\ rxown = {} /\ demanded = {}
  /\ txdesc = [d \in Lists \X (1 .. TxRing) |-> "host"]
  /\ nic = NoLocals
  /\ pc = [t \in Thread |-> IF t = NIC THEN "filter" ELSE "idle"]
  /\ writes = 0 /\ gives = 0 /\ frames = 0

-----------------------------------------------------------------------------
(* The driver's register writes: nic_write_locked under m_lock.  What has  *)
(* something for the thread to look at signals it before update_irq.       *)

(* reset_locked *)
reset_locked ==
  /\ rx' = [list |-> NoList, at |-> <<NoList, 1>>, epoch |-> rx.epoch + 1,
            poll |-> FALSE]
  /\ tx' = [list |-> NoList, at |-> <<NoList, 1>>, epoch |-> tx.epoch + 1,
            poll |-> FALSE, suspend |-> FALSE]
  /\ queue' = <<>> /\ current' = [len |-> 0, used |-> 0]
  /\ csr5' = {} /\ csr6' = Reset6 /\ csr7' = {}
  /\ ts' = "stopped" /\ rs' = "stopped"
  /\ filter' = [filter EXCEPT !.setup = FALSE, !.dirty = TRUE]
  /\ demanded' = {}

Write(c, wake) ==
  /\ pc[c] = "idle" /\ writes < MaxWrites
  /\ writes' = writes + 1
  /\ pc' = [pc EXCEPT ![c] = IF wake THEN "signal" ELSE "irq"]
  /\ UNCHANGED <<irq, signalled, rxown, txdesc, nic, gives, frames>>

WriteBusmode(c) == Write(c, TRUE) /\ reset_locked

WriteTxPoll(c) ==
  /\ Write(c, TRUE)
  /\ tx' = [tx EXCEPT !.poll = @ \/ tx.suspend, !.suspend = FALSE]
  /\ demanded' = {d \in DOMAIN txdesc : txdesc[d] # "host"}
  /\ UNCHANGED <<csr5, csr6, csr7, ts, rs, rx, queue, current, filter>>

WriteRxPoll(c) ==
  /\ Write(c, TRUE)
  /\ rx' = [rx EXCEPT !.poll = TRUE]
  /\ UNCHANGED <<csr5, csr6, csr7, ts, rs, tx, queue, current, filter, demanded>>

WriteRxList(c, l) ==
  /\ Write(c, FALSE)
  /\ rx' = [rx EXCEPT !.list = l, !.at = <<l, 1>>, !.epoch = @ + 1]
  /\ UNCHANGED <<csr5, csr6, csr7, ts, rs, tx, queue, current, filter, demanded>>

WriteTxList(c, l) ==
  /\ Write(c, FALSE)
  /\ tx' = [tx EXCEPT !.list = l, !.at = <<l, 1>>, !.epoch = @ + 1,
                      !.suspend = FALSE]
  /\ UNCHANGED <<csr5, csr6, csr7, ts, rs, rx, queue, current, filter, demanded>>

WriteStatus(c, bits) ==
  /\ Write(c, FALSE)
  /\ csr5' = csr5 \ bits
  /\ UNCHANGED <<csr6, csr7, ts, rs, rx, tx, queue, current, filter, demanded>>

WriteMask(c, bits) ==
  /\ Write(c, FALSE)
  /\ csr7' = bits
  /\ UNCHANGED <<csr5, csr6, ts, rs, rx, tx, queue, current, filter, demanded>>

(* CSR6 starts and stops the two processes and sets the filter's mode.  A  *)
(* stopped receiver loses its FIFO and the rest of the frame in hand.      *)
WriteOpmode(c, v) ==
  LET start(b) == v[b] /\ ~csr6[b]
      stop(b)  == ~v[b] /\ csr6[b]
  IN /\ Write(c, start("ST") \/ start("SR") \/ v.PR # csr6.PR)
     /\ csr6' = v
     /\ csr5' = (csr5 \ {b \in {"TPS", "RPS"} :
                           start(IF b = "TPS" THEN "ST" ELSE "SR")})
                \cup {b \in {"TPS", "RPS"} :
                           stop(IF b = "TPS" THEN "ST" ELSE "SR")}
     /\ ts' = IF start("ST") THEN "fetch" ELSE IF stop("ST") THEN "stopped" ELSE ts
     /\ rs' = IF start("SR") THEN "wait" ELSE IF stop("SR") THEN "stopped" ELSE rs
     /\ tx' = IF start("ST") THEN [tx EXCEPT !.suspend = FALSE, !.poll = FALSE]
                             ELSE tx
     /\ queue' = IF stop("SR") THEN <<>> ELSE queue
     /\ current' = IF stop("SR") THEN [current EXCEPT !.used = current.len]
                                 ELSE current
     /\ filter' = [filter EXCEPT !.dirty = @ \/ v.PR # csr6.PR]
     /\ UNCHANGED <<csr7, rx, demanded>>

(* mySemaphore.set(): a second signal before the thread waits is the same. *)
Signal(c) ==
  /\ pc[c] = "signal"
  /\ signalled' = TRUE
  /\ pc' = [pc EXCEPT ![c] = "irq"]
  /\ UNCHANGED <<regs, irq, guest, nic, bounds>>

(* The driver gives the controller a descriptor, in memory.                *)
GiveRx(d) ==
  /\ gives < MaxGives /\ gives' = gives + 1
  /\ d \notin rxown /\ rxown' = rxown \cup {d}
  /\ UNCHANGED <<regs, irq, signalled, txdesc, demanded, nic, pc, writes, frames>>

GiveTx(d, kind) ==
  /\ gives < MaxGives /\ gives' = gives + 1
  /\ txdesc[d] = "host" /\ txdesc' = [txdesc EXCEPT ![d] = kind]
  /\ UNCHANGED <<regs, irq, signalled, rxown, demanded, nic, pc, writes, frames>>

-----------------------------------------------------------------------------
(* update_irq, by a processor after its write and by the thread at the end *)
(* of a pass.  The summary bits and the level they ask for:                *)
Summary(bits) ==
  (bits \ {"NIS", "AIS"})
    \cup {b \in {"NIS"} : bits \cap csr7 \cap Normal # {}}
    \cup {b \in {"AIS"} : bits \cap csr7 \cap Abnormal # {}}

Asserted == Summary(csr5) \cap csr7 \cap {"NIS", "AIS"} # {}

After(t) == IF t = NIC THEN "wait" ELSE "idle"

(* One turn of its loop, m_lock held: drive a level that differs from the  *)
(* one driven last, or be done.                                            *)
Turn(t, was, line) ==
  /\ csr5' = Summary(csr5)
  /\ irq' = [busy |-> Asserted # was, was |-> was, line |-> line]
  /\ pc' = [pc EXCEPT ![t] = CASE Asserted = was -> After(t)
                               [] Asserted /\ ~was -> "raise"
                               [] OTHER -> "drop"]

update_irq(t) ==
  /\ pc[t] = "irq"
  /\ IF irq.busy
     THEN pc' = [pc EXCEPT ![t] = After(t)] /\ UNCHANGED <<csr5, irq>>
     ELSE Turn(t, irq.was, irq.line)
  /\ UNCHANGED <<csr6, csr7, ts, rs, rx, tx, queue, current, filter, signalled,
                 guest, nic, bounds>>

(* do_pci_interrupt, outside m_lock ...                                    *)
DriveLine(t) ==
  /\ pc[t] \in {"raise", "drop"}
  /\ irq' = [irq EXCEPT !.line = (pc[t] = "raise")]
  /\ pc' = [pc EXCEPT ![t] = IF pc[t] = "raise" THEN "raised" ELSE "dropped"]
  /\ UNCHANGED <<regs, signalled, guest, nic, bounds>>

\* Mutant: the level is not looked at again once it has been driven.
LookOnce(t) ==
  /\ pc[t] \in {"raised", "dropped"}
  /\ irq' = [irq EXCEPT !.busy = FALSE, !.was = (pc[t] = "raised")]
  /\ pc' = [pc EXCEPT ![t] = After(t)]
  /\ UNCHANGED <<csr5, csr6, csr7, ts, rs, rx, tx, queue, current, filter, signalled,
                 guest, nic, bounds>>

(* ... and the look again once it is done.                                 *)
LookAgain(t) ==
  /\ pc[t] \in {"raised", "dropped"}
  /\ Turn(t, pc[t] = "raised", irq.line)
  /\ UNCHANGED <<csr6, csr7, ts, rs, rx, tx, queue, current, filter, signalled,
                 guest, nic, bounds>>

-----------------------------------------------------------------------------
(* The thread's pass.                                                      *)
Nic(from, to) == pc[NIC] = from /\ pc' = [pc EXCEPT ![NIC] = to]

(* apply_filter: what the host passes up follows a changed filter.         *)
apply_filter ==
  /\ Nic("filter", IF filter.dirty THEN "set_filter" ELSE "listen")
  /\ filter' = [filter EXCEPT !.dirty = FALSE]
  /\ nic' = IF filter.dirty THEN [NoLocals EXCEPT !.host = host_filter]
                            ELSE NoLocals
  /\ UNCHANGED <<csr5, csr6, csr7, ts, rs, rx, tx, queue, current, irq, signalled,
                 guest, bounds>>

set_filter ==
  /\ Nic("set_filter", "listen")
  /\ filter' = [filter EXCEPT !.host = nic.host]
  /\ nic' = NoLocals
  /\ UNCHANGED <<csr5, csr6, csr7, ts, rs, rx, tx, queue, current, irq, signalled,
                 guest, bounds>>

(* receive_process: whether the receiver listens is read once a pass ...   *)
Listen ==
  /\ Nic("listen", IF csr6.SR /\ ~csr6.OM THEN "take" ELSE "discard")
  /\ UNCHANGED <<regs, irq, signalled, guest, nic, bounds>>

(* ... and every frame the host passes up is queued, if it passes the      *)
(* controller's own filter and there is room, or dropped.                  *)
Passed(dst) == filter.host.pr \/ dst = (IF filter.host.setup THEN "listed" ELSE "station")

TakeFrame(dst, f) ==
  /\ pc[NIC] \in {"take", "discard"} /\ UNCHANGED pc
  /\ nic.n < RxBurst /\ frames < MaxFrames /\ Passed(dst)
  /\ nic' = [nic EXCEPT !.n = @ + 1] /\ frames' = frames + 1
  /\ queue' = IF pc[NIC] = "take" /\ filter_match(dst) /\ Len(queue) < RxQueue
              THEN Append(queue, f) ELSE queue
  /\ UNCHANGED <<csr5, csr6, csr7, ts, rs, rx, tx, current, filter, irq, signalled,
                 guest, writes, gives>>

NoMoreFrames ==
  /\ pc[NIC] \in {"take", "discard"} /\ pc' = [pc EXCEPT ![NIC] = "rx"]
  /\ UNCHANGED <<regs, irq, signalled, guest, nic, bounds>>

(* The end of a call of dec21143_rx or dec21143_tx that returns 0.         *)
Return(from, to) ==
  /\ Nic(from, to)
  /\ nic' = [NoLocals EXCEPT !.n = nic.n]

(* dec21143_rx.  The frame in hand or the next one, and where it goes; or  *)
(* a poll demand for a suspended process.                                  *)
RxSnap ==
  LET idle == current.used >= current.len /\ queue = <<>>
      take == current.used >= current.len /\ queue # <<>>
      cur  == IF take THEN [len |-> Head(queue), used |-> 0] ELSE current
  IN /\ IF ~csr6.SR
        THEN Return("rx", "tx") /\ UNCHANGED <<rx, queue, current>>
        ELSE /\ rx' = [rx EXCEPT !.poll = FALSE]
             /\ current' = cur
             /\ queue' = IF take THEN Tail(queue) ELSE queue
             /\ IF idle /\ ~(rx.poll /\ rs = "suspended")
                THEN Return("rx", "tx")
                ELSE /\ Nic("rx", IF idle THEN "rxpoll" ELSE "rxfetch")
                     /\ nic' = [nic EXCEPT !.at = rx.at, !.epoch = rx.epoch,
                                           !.len = cur.len, !.used = cur.used]
     /\ UNCHANGED <<csr5, csr6, csr7, ts, rs, tx, filter, irq, signalled, guest,
                    bounds>>

(* do_pci_read of the descriptor, without the lock.                        *)
RxFetch ==
  LET own == nic.at \in rxown
  IN /\ \/ Nic("rxfetch", IF own THEN "rxback" ELSE "rxnone") /\ UNCHANGED nic
        \/ /\ Nic("rxpoll", "rxresume")
           /\ nic' = [nic EXCEPT !.kind = IF own THEN "data" ELSE "host"]
     /\ UNCHANGED <<regs, irq, signalled, guest, bounds>>

(* A poll demand: an available descriptor resumes the process.             *)
RxResume ==
  LET here == nic.epoch = rx.epoch /\ csr6.SR /\ rs = "suspended"
  IN /\ Return("rxresume", "tx")
     /\ rs' = IF here /\ nic.kind # "host" THEN "wait" ELSE rs
     /\ csr5' = IF here /\ nic.kind = "host" THEN csr5 \cup {"RU"} ELSE csr5
     /\ UNCHANGED <<csr6, csr7, ts, rx, tx, queue, current, filter, irq, signalled,
                    guest, bounds>>

(* No descriptor: the frame is dropped, and the process suspends.          *)
RxNone ==
  LET here == nic.epoch = rx.epoch
  IN /\ Return("rxnone", "tx")
     /\ current' = IF here THEN [current EXCEPT !.used = current.len] ELSE current
     /\ csr5' = IF here /\ csr6.SR /\ rs # "suspended" THEN csr5 \cup {"RU"} ELSE csr5
     /\ rs' = IF here /\ csr6.SR THEN "suspended" ELSE rs
     /\ UNCHANGED <<csr6, csr7, ts, rx, tx, queue, filter, irq, signalled, guest,
                    bounds>>

(* The buffer is filled and the descriptor given back.                     *)
RxWriteBack ==
  /\ Nic("rxback", "rxcommit")
  /\ nic' = [nic EXCEPT !.used = @ + 1]
  /\ rxown' = rxown \ {nic.at}
  /\ UNCHANGED <<regs, irq, signalled, txdesc, demanded, bounds>>

\* Mutant: a descriptor of a list that is gone is passed on like any other.
RxCommitOld ==
  LET last == nic.used >= nic.len
  IN /\ Nic("rxcommit", "rx") /\ nic' = [NoLocals EXCEPT !.n = nic.n]
     /\ current' = [current EXCEPT !.used = nic.used]
     /\ csr5' = IF last THEN csr5 \cup {"RI"} ELSE csr5
     /\ rs' = IF csr6.SR THEN (IF last THEN "wait" ELSE "queue") ELSE rs
     /\ rx' = [rx EXCEPT !.at = NextDesc(nic.at, RxRing, rx.list)]
     /\ UNCHANGED <<csr6, csr7, ts, tx, queue, filter, irq, signalled, guest, bounds>>

(* The descriptor is passed on, unless its list is gone meanwhile.         *)
RxCommit ==
  LET here == nic.epoch = rx.epoch
      last == nic.used >= nic.len
  IN /\ Return("rxcommit", IF here THEN "rx" ELSE "tx")
     /\ current' = IF here THEN [current EXCEPT !.used = nic.used] ELSE current
     /\ csr5' = IF here /\ last THEN csr5 \cup {"RI"} ELSE csr5
     /\ rs' = IF here /\ csr6.SR THEN (IF last THEN "wait" ELSE "queue") ELSE rs
     /\ rx' = IF here THEN [rx EXCEPT !.at = NextDesc(nic.at, RxRing, rx.list)] ELSE rx
     /\ UNCHANGED <<csr6, csr7, ts, tx, queue, filter, irq, signalled, guest, bounds>>

(* dec21143_tx.  A running process that is not suspended fetches.          *)
TxSnap ==
  /\ IF csr6.ST /\ ~tx.suspend
     THEN /\ Nic("tx", "txfetch")
          /\ ts' = "fetch"
          /\ nic' = [nic EXCEPT !.at = tx.at, !.epoch = tx.epoch, !.list = tx.list]
     ELSE Return("tx", "irq") /\ UNCHANGED ts
  /\ UNCHANGED <<csr5, csr6, csr7, rs, rx, tx, queue, current, filter, irq,
                 signalled, guest, bounds>>

TxFetch ==
  /\ Nic("txfetch", "txcheck")
  /\ nic' = [nic EXCEPT !.kind = txdesc[nic.at]]
  /\ UNCHANGED <<regs, irq, signalled, guest, bounds>>

(* An empty ring suspends the process, with TU unless it was polled.       *)
TxEmpty ==
  /\ pc[NIC] = "txcheck" /\ nic.kind = "host" /\ nic.epoch = tx.epoch
  /\ Return("txcheck", "irq")
  /\ csr5' = IF tx.poll THEN csr5 ELSE csr5 \cup {"TU"}
  /\ ts' = IF csr6.ST THEN "suspended" ELSE ts
  /\ tx' = [tx EXCEPT !.poll = FALSE, !.suspend = TRUE]
  /\ UNCHANGED <<csr6, csr7, rs, rx, queue, current, filter, irq, signalled, guest,
                 bounds>>

TxCheck ==
  /\ pc[NIC] = "txcheck"
  /\ \/ /\ nic.epoch # tx.epoch
        /\ Return("txcheck", "irq") /\ UNCHANGED <<ts, tx>>
     \/ /\ nic.epoch = tx.epoch /\ nic.kind # "host"
        /\ Nic("txcheck", IF nic.kind = "setup" THEN "txsetup" ELSE "txsend")
        /\ nic' = [nic EXCEPT !.mode = csr6]
        /\ tx' = [tx EXCEPT !.poll = FALSE]
        /\ ts' = IF csr6.ST THEN nic.kind ELSE ts
  /\ UNCHANGED <<csr5, csr6, csr7, rs, rx, queue, current, filter, irq, signalled,
                 guest, bounds>>

(* A setup frame loads the address filter.                                 *)
NewFilter == filter' = [filter EXCEPT !.setup = TRUE, !.dirty = TRUE]

TxSetup ==
  /\ IF nic.epoch = tx.epoch
     THEN Nic("txsetup", "txback") /\ NewFilter /\ UNCHANGED nic
     ELSE Return("txsetup", "irq") /\ UNCHANGED filter
  /\ UNCHANGED <<csr5, csr6, csr7, ts, rs, rx, tx, queue, current, irq, signalled,
                 guest, bounds>>

(* A frame goes to the host, or in loopback to the receive queue, by the   *)
(* mode the descriptor was checked under.                                  *)
TxSend ==
  /\ Nic("txsend", "txback")
  /\ \E f \in Frame :
       queue' = IF nic.mode.OM /\ nic.mode.SR /\ Len(queue) < RxQueue
                THEN Append(queue, f) ELSE queue
  /\ UNCHANGED <<csr5, csr6, csr7, ts, rs, rx, tx, current, filter, irq, signalled,
                 guest, nic, bounds>>

TxWriteBack ==
  /\ Nic("txback", "txcommit")
  /\ txdesc' = [txdesc EXCEPT ![nic.at] = "host"]
  /\ demanded' = demanded \ {nic.at}
  /\ UNCHANGED <<regs, irq, signalled, rxown, nic, bounds>>

TxCommit ==
  LET here == nic.epoch = tx.epoch
  IN /\ Return("txcommit", IF here THEN "tx" ELSE "irq")
     /\ tx' = IF here THEN [tx EXCEPT !.at = NextDesc(nic.at, TxRing, nic.list)] ELSE tx
     /\ csr5' \in IF here THEN {csr5, csr5 \cup {"TI"}} ELSE {csr5}
     /\ ts' = IF here /\ csr6.ST THEN "close" ELSE ts
     /\ UNCHANGED <<csr6, csr7, rs, rx, queue, current, filter, irq, signalled,
                    guest, bounds>>

(* try_wait_for: the signal, or ten milliseconds.  A pass that took a full *)
(* burst does not wait at all.                                             *)
WaitForWork ==
  /\ Nic("wait", "filter")
  /\ signalled' = (signalled /\ nic.n >= RxBurst)
  /\ UNCHANGED <<regs, irq, guest, nic, bounds>>

-----------------------------------------------------------------------------
Driver ==
  \/ \E c \in Cpu :
       \/ WriteBusmode(c) \/ WriteTxPoll(c) \/ WriteRxPoll(c)
       \/ \E l \in List : WriteRxList(c, l) \/ WriteTxList(c, l)
       \/ \E b \in Mask : WriteStatus(c, b) \/ WriteMask(c, b)
       \/ \E v \in Opmode : WriteOpmode(c, v)
       \/ Signal(c)
  \/ \E d \in List \X (1 .. RxRing) : GiveRx(d)
  \/ \E d \in List \X (1 .. TxRing), k \in {"data", "setup"} : GiveTx(d, k)

Pass ==
  \/ apply_filter \/ set_filter \/ Listen \/ NoMoreFrames \/ WaitForWork
  \/ \E dst \in {"station", "listed", "other"}, f \in Frame : TakeFrame(dst, f)
  \/ RxSnap \/ RxFetch \/ RxResume \/ RxNone \/ RxWriteBack \/ RxCommit
  \/ TxSnap \/ TxFetch \/ TxEmpty \/ TxCheck \/ TxSetup \/ TxSend \/ TxWriteBack
  \/ TxCommit

Line == \E t \in Thread : update_irq(t) \/ DriveLine(t) \/ LookAgain(t)

Next == Driver \/ Pass \/ Line

Spec == Init /\ [][Next]_vars

-----------------------------------------------------------------------------
(* However the processors' writes and the thread's passes interleave, the  *)
(* line has the level CSR5 and CSR7 ask for once nobody is on the way to   *)
(* it: a thread that found another driving it (m_irq_busy) lost nothing.   *)
LineSettles ==
  /\ \A t \in Cpu : pc[t] = "idle"
  /\ pc[NIC] \in {"wait", "filter", "set_filter", "listen"}
  => irq.line = Asserted

(* A ring's position stays in the list its register names: a descriptor    *)
(* fetched before a reset or a new list (the epochs) never moves it.       *)
RingsOnTheirLists == rx.at[1] = rx.list /\ tx.at[1] = tx.list

(* The host is told of every change of the filter: unless one is marked or *)
(* on its way, the host passes up what the controller's filter asks for.   *)
HostFilterFollows ==
  ~filter.dirty /\ pc[NIC] # "set_filter" => filter.host = host_filter

(* "The frames still in the FIFO go, and so does the rest of a frame the   *)
(* ring had no room for: the next start begins with a new frame": a        *)
(* receiver that is stopped has nothing queued and nothing in hand.        *)
StopLeavesNothing == ~csr6.SR => queue = <<>> /\ current.used = current.len

(* "A poll demand resumes a suspended transmitter", and only "a ring that  *)
(* is still empty" suspends it again: it is not suspended at a descriptor  *)
(* that a poll demand was written for after it was given.                  *)
PollHeeded == tx.suspend /\ csr6.ST => tx.at \notin demanded
=============================================================================
