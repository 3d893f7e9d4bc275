-------------------------------- MODULE Ohci --------------------------------
(* COhci's control and bulk lists (AliM1543C_usb.cpp), with a passed-      *)
(* through device on the bulk endpoints (UsbHostDevice.cpp): the driver    *)
(* queues transfer descriptors (TDs) in memory, the controller's thread    *)
(* walks the lists each frame and on a kick, libusb's event thread ends    *)
(* the device's transfers, and the done queue goes back to the driver.     *)
(*                                                                         *)
(* A TD is a whole number of packets, so that on a bulk endpoint every     *)
(* queued TD joins the run handed to the device as one transfer.  The      *)
(* control endpoint's device is an emulated one: it answers at once, as it *)
(* likes.  The walk holds the controller's mutex, which register accesses  *)
(* take; memory and the device's slots change under it.                    *)
EXTENDS Naturals, Sequences, FiniteSets

CONSTANTS
  Pipe,       \* the endpoints in use, of "ctl", "in" and "out"
  Delay,      \* DelayInterrupt values the driver uses
  MaxTds,     \* TDs the driver queues
  MaxRun,     \* TDs in a run (32)
  MaxAborts,  \* transfers the driver gives up
  MaxFaults   \* transfers that fail

VARIABLES
  ed,      \* endpoint descriptors and their TDs, in memory
  walk,    \* where the controller's thread is
  hc,      \* the controller's registers and done queue
  slot,    \* CUsbHostDevice's m_slot
  flight,  \* transfers libusb has
  udrv,    \* the driver
  hist     \* what was moved, for the properties

ohciVars == <<ed, walk, hc, slot, flight, udrv, hist>>

Least(a, b) == IF a < b THEN a ELSE b
First(s, n) == SubSeq(s, 1, n)
Rest(s, n) == SubSeq(s, n + 1, Len(s))
Idle == [at |-> "idle", todo |-> <<>>, pipe |-> "none", tail |-> 0, found |-> {}, kind |-> "frame"]
NoDelay == 7
Bulk == Pipe \ {"ctl"}
ListOf(p) == IF p = "ctl" THEN "CLF" ELSE "BLF"
InOrder == SelectSeq(<<"ctl", "in", "out">>, LAMBDA p : p \in Pipe)

Init ==
  /\ ed = [p \in Pipe |-> [q |-> <<>>, halted |-> FALSE]]
  /\ walk = Idle
  /\ hc = [filled |-> {}, kicked |-> FALSE, done |-> <<>>, delay |-> NoDelay,
           hold |-> FALSE, held |-> 0, wdh |-> FALSE, hcca |-> <<>>]
  /\ slot = [p \in Bulk |-> [xfer |-> FALSE, gen |-> 0, done |-> FALSE, ok |-> TRUE,
                             data |-> <<>>, short |-> FALSE]]
  /\ flight = {}
  /\ udrv = [queued |-> 0, told |-> {}, gone |-> {}, ring |-> {}, cut |-> {}, ack |-> FALSE, aborts |-> 0]
  /\ hist = [sent |-> 0, faults |-> 0, carried |-> {}, acked |-> {}, owed |-> <<>>,
             unsaid |-> FALSE, early |-> FALSE]

-----------------------------------------------------------------------------
(* The device: CUsbHostDevice, under its m_mx. *)

\* submit: a transfer for the slot goes to libusb.
submit(p, run) ==
  /\ flight' = flight \cup {[pipe |-> p, gen |-> slot[p].gen, run |-> [i \in DOMAIN run |-> run[i].id]]}
  /\ slot' = [slot EXCEPT ![p].xfer = TRUE, ![p].done = FALSE]

\* cancel: the slot's transfer is forgotten, in flight or finished.
cancel(p) ==
  slot' = [slot EXCEPT ![p].xfer = FALSE, ![p].done = FALSE, ![p].gen = @ + 1]

\* kick, with hc given: the controller's thread leaves its wait.
kick(h) == [h EXCEPT !.kicked = TRUE]

\* A completion of a transfer the slot no longer waits for is dropped.
Lands(t) == slot[t.pipe].gen = t.gen /\ slot[t.pipe].xfer

\* completed: libusb ended transfer t.  An OUT transfer was carried whole, or
\* failed after some of its TDs; an IN transfer brought n TDs' worth, and a
\* short packet if that is less than it asked for.
completed(t, ok, n) ==
  LET new == [i \in 1 .. n |-> hist.sent + i]
      data == IF t.pipe = "in" THEN new ELSE First(t.run, n)
  IN  /\ IF ok THEN t.pipe = "in" \/ n = Len(t.run)
               ELSE hist.faults < MaxFaults
      /\ flight' = flight \ {t}
      /\ IF Lands(t)
         THEN slot' = [slot EXCEPT ![t.pipe] = [@ EXCEPT !.xfer = FALSE, !.done = TRUE, !.ok = ok,
                                                       !.data = data, !.short = n < Len(t.run)]]
         ELSE slot' = slot
      /\ hc' = kick(hc)
      /\ hist' = [hist EXCEPT !.faults = IF ok THEN @ ELSE @ + 1,
                   !.sent = IF t.pipe = "in" THEN @ + n ELSE @,
                   !.carried = IF t.pipe = "out" THEN @ \cup {t.run[i] : i \in 1 .. n} ELSE @,
                   !.owed = IF t.pipe = "in" /\ ok /\ Lands(t) THEN @ \o new ELSE @]
      /\ UNCHANGED <<ed, walk, udrv>>

Completion ==
  \E t \in flight, ok \in BOOLEAN : \E n \in 0 .. Len(t.run) : completed(t, ok, n)

-----------------------------------------------------------------------------
(* The controller's done queue. *)

\* retire_td of the TDs tds, in turn: newest first in the queue, the shortest
\* delay of any; the first control TD starts its hold.
retire_td(h, p, tds) ==
  [h EXCEPT !.done = [i \in DOMAIN tds |->
                       [id |-> tds[Len(tds) - i + 1].id, ctl |-> p = "ctl", age |-> 0]] \o @,
            !.delay = CHOOSE d \in {@} \cup {tds[i].di : i \in DOMAIN tds} :
                        \A e \in {h.delay} \cup {tds[i].di : i \in DOMAIN tds} : d <= e,
            !.hold = @ \/ p = "ctl",
            !.held = IF p = "ctl" /\ ~h.hold THEN 0 ELSE @]

\* A millisecond is two of Passes' steps.
Millisecond == 2

write_back_early(h) ==
  h.done # <<>> /\ h.delay = 0 /\ (h.hold => h.held = Millisecond)

\* The head goes to HccaDoneHead once the driver has taken the one before.
write_back_done(h) ==
  IF h.wdh THEN h
  ELSE [h EXCEPT !.hcca = h.done, !.wdh = TRUE, !.done = <<>>, !.delay = NoDelay, !.hold = FALSE]

\* The controller's registers become h; noted when a control TD goes back
\* within the millisecond.
SetHc(h) ==
  /\ hc' = h
  /\ hist' = [hist EXCEPT !.early = @ \/ (~hc.wdh /\ h.wdh /\ \E i \in DOMAIN h.hcca :
                                            h.hcca[i].ctl /\ h.hcca[i].age < Millisecond)]

\* Half a millisecond of host time.
Passes ==
  /\ hc.hold
  /\ LET older(a) == Least(Millisecond, a + 1)
     IN  hc' = [hc EXCEPT !.held = older(@),
                          !.done = [i \in DOMAIN @ |-> [@[i] EXCEPT !.age = older(@)]]]
  /\ hc' # hc
  /\ UNCHANGED <<ed, walk, slot, flight, udrv, hist>>

-----------------------------------------------------------------------------
(* The controller's thread. *)

\* The frame is due, or the thread was kicked: the filled lists are walked,
\* each with its bit cleared.
Begin(kind) ==
  /\ walk.at = "idle"
  /\ kind = "kick" => hc.kicked
  /\ hc' = [hc EXCEPT !.kicked = IF kind = "kick" THEN FALSE ELSE @, !.filled = {}]
  /\ walk' = [Idle EXCEPT !.at = "list", !.kind = kind,
                          !.todo = SelectSeq(InOrder, LAMBDA p : ListOf(p) \in hc.filled)]
  /\ UNCHANGED <<ed, slot, flight, udrv, hist>>

\* service_ed reads the endpoint, its tail included.
ReadEd ==
  /\ walk.at = "list" /\ walk.todo # <<>>
  /\ walk' = [walk EXCEPT !.at = "ed", !.pipe = Head(walk.todo), !.todo = Tail(@),
                          !.tail = Len(ed[Head(walk.todo)].q)]
  /\ UNCHANGED <<ed, hc, slot, flight, udrv, hist>>

\* An endpoint with a TD queued keeps its list filled, whatever came of it.
Found == [walk EXCEPT !.found = @ \cup {ListOf(walk.pipe)}]

EdDone(w) == [w EXCEPT !.at = "list"]

NothingQueued ==
  /\ walk.at = "ed"
  /\ walk.tail = 0 \/ ed[walk.pipe].halted
  /\ walk' = EdDone(walk)
  /\ UNCHANGED <<ed, hc, slot, flight, udrv, hist>>

Queued == walk.at = "ed" /\ walk.tail > 0 /\ ~ed[walk.pipe].halted

\* finish of the run's first n TDs, the last of them with an error if cc:
\* the endpoint's head moves past them, and halts on the error.
finish(n, cc) ==
  LET p == walk.pipe
  IN  /\ ed' = [ed EXCEPT ![p].q = Rest(@, n), ![p].halted = cc]
      /\ hc' = retire_td(hc, p, First(ed[p].q, n))

\* As After, the list filled again only for a TD that moved.
AfterProgress(n, more) ==
  LET w == IF n > 0 THEN Found ELSE walk
  IN  walk' = IF more THEN [w EXCEPT !.tail = @ - n] ELSE EdDone(w)

\* The walk goes on with the endpoint's next TDs, or leaves it.
After(n, more) ==
  walk' = IF more THEN [Found EXCEPT !.tail = @ - n] ELSE EdDone(Found)

\* A control TD: its device takes it or stalls; or NAKs, for now.
ControlTd ==
  /\ Queued /\ walk.pipe = "ctl"
  /\ \E stall \in BOOLEAN : finish(1, stall) /\ After(1, ~stall)
  /\ UNCHANGED <<slot, flight, udrv, hist>>

ControlNak ==
  /\ Queued /\ walk.pipe = "ctl"
  /\ After(0, FALSE)
  /\ UNCHANGED <<ed, hc, slot, flight, udrv, hist>>

TheRun == First(ed[walk.pipe].q, Least(MaxRun, walk.tail))

\* transfer, nothing started: the run goes to libusb, and NAKs; or cannot.
StartRun ==
  /\ Queued /\ walk.pipe \in Bulk
  /\ LET p == walk.pipe
     IN  /\ ~slot[p].done /\ ~slot[p].xfer
         /\ \/ /\ submit(p, TheRun)
               /\ After(0, FALSE)
               /\ UNCHANGED <<ed, hc, hist>>
            \/ /\ hist.faults < MaxFaults
               /\ finish(1, TRUE) /\ After(1, FALSE)
               /\ hist' = [hist EXCEPT !.faults = @ + 1]
               /\ UNCHANGED <<slot, flight>>
  /\ UNCHANGED udrv

\* transfer, one in flight: NAK.
StillRunning ==
  /\ Queued /\ walk.pipe \in Bulk
  /\ ~slot[walk.pipe].done /\ slot[walk.pipe].xfer
  /\ After(0, FALSE)
  /\ UNCHANGED <<ed, hc, slot, flight, udrv, hist>>

\* transfer, one finished: its error stalls the first TD.
Stalls ==
  /\ Queued /\ walk.pipe \in Bulk
  /\ LET p == walk.pipe
     IN  /\ slot[p].done /\ ~slot[p].ok
         /\ slot' = [slot EXCEPT ![p].done = FALSE]
         /\ finish(1, TRUE) /\ After(1, FALSE)
  /\ UNCHANGED <<flight, udrv, hist>>

\* A retry's run taken for the run the transfer carried.
TookAll(run, s) == Len(run)

\* How much of an OUT run the finished transfer carried.
Took(run, s) == Least(Len(run), Len(s.data))

\* transfer, one finished: the TDs the device took go back; a run that has
\* grown since keeps its rest queued.
OutDone ==
  /\ Queued /\ walk.pipe = "out" /\ slot["out"].done /\ slot["out"].ok
  /\ LET n == Took(TheRun, slot["out"])
     IN  /\ slot' = [slot EXCEPT !["out"].done = FALSE]
         /\ finish(n, FALSE) /\ After(n, n = Len(TheRun))
         /\ hist' = [hist EXCEPT !.acked = @ \cup {TheRun[i].id : i \in 1 .. n}]
  /\ UNCHANGED <<flight, udrv>>

\* transfer, one finished: its data fills the run's TDs in order, and when it
\* is less than the run the next TD is retired short (an error unless the TD
\* allows it: round).
InDone(round) ==
  /\ Queued /\ walk.pipe = "in" /\ slot["in"].done /\ slot["in"].ok
  /\ LET n == Least(Len(TheRun), Len(slot["in"].data))
         less == n < Len(TheRun)
         m == IF less THEN n + 1 ELSE n
     IN  /\ less \/ round
         /\ slot' = [slot EXCEPT !["in"].done = FALSE]
         /\ finish(m, ~round) /\ After(m, ~less)
         /\ hist' = [hist EXCEPT !.owed = Rest(@, n),
                                 !.unsaid = @ \/ (less /\ ~slot["in"].short)]
  /\ UNCHANGED <<flight, udrv>>

\* The lists are done: each that had a TD queued is filled again, and the
\* done queue goes back if it may.  In a frame its delay runs down first.
ListsDone ==
  /\ walk.at = "list" /\ walk.todo = <<>>
  /\ LET h == [hc EXCEPT !.filled = @ \cup walk.found]
         counts == walk.kind = "frame" /\ h.done # <<>> /\ h.delay \notin {0, NoDelay}
     IN  SetHc(CASE counts -> [h EXCEPT !.delay = @ - 1]
                 [] ~counts /\ write_back_early(h) -> write_back_done(h)
                 [] OTHER -> h)
  /\ walk' = Idle
  /\ UNCHANGED <<ed, slot, flight, udrv>>

-----------------------------------------------------------------------------
(* The driver.  A register access waits for the controller's mutex. *)

Unlocked == walk.at = "idle"

\* A TD at the endpoint's tail, then its list's filled bit.
AddTd(p, di) ==
  /\ udrv.queued < MaxTds /\ p \notin udrv.cut /\ ~ed[p].halted
  /\ ed' = [ed EXCEPT ![p].q = Append(@, [id |-> udrv.queued + 1, di |-> di])]
  /\ udrv' = [udrv EXCEPT !.queued = @ + 1, !.ring = @ \cup {ListOf(p)}]
  /\ UNCHANGED <<walk, hc, slot, flight, hist>>

WriteCommand ==
  /\ Unlocked /\ udrv.ring # {}
  /\ hc' = kick([hc EXCEPT !.filled = @ \cup udrv.ring])
  /\ udrv' = [udrv EXCEPT !.ring = {}]
  /\ UNCHANGED <<ed, walk, slot, flight, hist>>

\* The interrupt: the driver takes the done head, then clears WDH, which
\* lets the next one out.
TakeDone ==
  /\ hc.wdh /\ ~udrv.ack
  /\ udrv' = [udrv EXCEPT !.ack = TRUE, !.told = @ \cup {hc.hcca[i].id : i \in DOMAIN hc.hcca}]
  /\ hc' = [hc EXCEPT !.hcca = <<>>]
  /\ UNCHANGED <<ed, walk, slot, flight, hist>>

ClearWdh ==
  /\ Unlocked /\ udrv.ack
  /\ LET h == [hc EXCEPT !.wdh = FALSE]
         g == IF write_back_early(h) THEN write_back_done(h) ELSE h
     IN  /\ hc' = g
         /\ hist' = [hist EXCEPT !.early = @ \/ (g.wdh /\ \E i \in DOMAIN g.hcca :
                                                  g.hcca[i].ctl /\ g.hcca[i].age < Millisecond)]
  /\ udrv' = [udrv EXCEPT !.ack = FALSE]
  /\ UNCHANGED <<ed, walk, slot, flight>>

Ids(q) == {q[i].id : i \in DOMAIN q}

\* The endpoint halted: the driver clears the device's halt, which cancels
\* the slot, and restarts the endpoint without the TDs left on it.
Restart(p) ==
  /\ Unlocked /\ ed[p].halted /\ p \notin udrv.cut
  /\ ed' = [ed EXCEPT ![p] = [q |-> <<>>, halted |-> FALSE]]
  /\ IF p \in Bulk THEN cancel(p) ELSE slot' = slot
  /\ hist' = [hist EXCEPT !.owed = IF p = "in" THEN <<>> ELSE @]
  /\ udrv' = [udrv EXCEPT !.gone = @ \cup Ids(ed[p].q)]
  /\ UNCHANGED <<walk, hc, flight>>

\* The driver gives up an endpoint's TDs (skip, a frame, and they are off
\* the list), and then has the device's endpoint cleared or reset.
Unlink(p) ==
  /\ Unlocked /\ ed[p].q # <<>> /\ ~ed[p].halted /\ udrv.aborts < MaxAborts
  /\ ed' = [ed EXCEPT ![p].q = <<>>]
  /\ udrv' = [udrv EXCEPT !.cut = @ \cup {p}, !.aborts = @ + 1, !.gone = @ \cup Ids(ed[p].q)]
  /\ UNCHANGED <<walk, hc, slot, flight, hist>>

ClearHalt(p) ==
  /\ Unlocked /\ p \in udrv.cut
  /\ IF p \in Bulk THEN cancel(p) ELSE slot' = slot
  /\ udrv' = [udrv EXCEPT !.cut = @ \ {p}]
  /\ hist' = [hist EXCEPT !.owed = IF p = "in" THEN <<>> ELSE @]
  /\ UNCHANGED <<ed, walk, hc, flight>>

-----------------------------------------------------------------------------
Serve ==
  \/ ReadEd \/ NothingQueued \/ ControlTd \/ ControlNak \/ StartRun \/ StillRunning \/ Stalls
  \/ OutDone \/ (\E round \in BOOLEAN : InDone(round)) \/ ListsDone

Controller == Serve \/ \E kind \in {"frame", "kick"} : Begin(kind)

Recover == \E p \in Pipe : Restart(p) \/ ClearHalt(p)

Driver == WriteCommand \/ TakeDone \/ ClearWdh \/ Recover

Request == \E p \in Pipe : Unlink(p) \/ \E di \in Delay : AddTd(p, di)

Next == Controller \/ Completion \/ Passes \/ Driver \/ Request

Spec == Init /\ [][Next]_ohciVars

\* The frame clock runs, a device answers, time passes, the driver serves
\* its interrupts; its register accesses get the mutex, which the thread
\* leaves between frames.  Nothing makes the driver ask.
FairSpec ==
  /\ Spec
  /\ WF_ohciVars(Serve) /\ SF_ohciVars(ControlTd) /\ WF_ohciVars(Begin("frame"))
  /\ WF_ohciVars(Completion) /\ WF_ohciVars(Passes) /\ WF_ohciVars(TakeDone)
  /\ SF_ohciVars(WriteCommand) /\ SF_ohciVars(ClearWdh) /\ SF_ohciVars(Recover)

-----------------------------------------------------------------------------
\* Nothing an endpoint moves is lost or made up.  An OUT TD that went back
\* without error was carried to the device, though the run it is in has
\* grown since the transfer started and late completions of cancelled
\* transfers arrive.  What a finished IN transfer brought is either still in
\* its slot or in the driver's TDs (transfer, take and completed).
StreamsKept ==
  /\ hist.acked \subseteq hist.carried
  /\ "in" \in Pipe => hist.owed = (IF slot["in"].done /\ slot["in"].ok THEN slot["in"].data ELSE <<>>)

\* Every TD the driver queues comes back to it or is given up by it: a TD
\* that NAKs is tried again without the driver asking, and a done queue that
\* found the head before it not yet taken goes out later
\* (service_async_lists, write_back_done).
TdsComeBack ==
  \A i \in 1 .. MaxTds : udrv.queued >= i ~> i \in udrv.told \cup udrv.gone

\* A TD is ended short only when the device ended its data short: the
\* comment on the hand-out in service_ed says of data that ended between two
\* TDs that "the device sent a zero-length packet".
ShortAsSent == ~hist.unsaid

\* A control TD's completion does not go back within a millisecond
\* (write_back_early's comment).
ControlHeld == ~hist.early
=============================================================================
