---------------------------- MODULE IdeChannel ----------------------------
(***************************************************************************)
(* One channel of the IDE controller (CIdeController).  The guest writes   *)
(* the task file, moves data through the data port, starts and stops the   *)
(* bus master and resets the channel; a controller thread runs each cycle  *)
(* of a command (run, execute), and in the middle of a DMA command waits   *)
(* for the guest's Start (do_dma_transfer).  No lock covers the two: they  *)
(* meet in two semaphores, three atomics and plain fields.  A step is one  *)
(* access to an atomic or a semaphore, or the plain stores between two.    *)
(*                                                                         *)
(* A command is its class and the blocks it moves.  Addresses, geometry,   *)
(* identify data, the error register and the PRD entries are left out; the *)
(* guest's tables fit its commands.  The guest is a driver that waits for  *)
(* the interrupt, and looks at the status only for the first DRQ of a      *)
(* command that begins with data to the drive.                             *)
(***************************************************************************)
EXTENDS Naturals

CONSTANTS
  Drive,                \* the drives of the channel
  Command,              \* [Drive -> what the guest asks of it: kind and n]
  Patient,              \* a time-out, and sync_controller's two
                        \* milliseconds, are longer than the thread's steps
  MaxCommands           \* bound: commands written

VARIABLES
  drv,                  \* per drive: status, command, and which one it is
  chan,                 \* selected drive, cmd_drive, interrupt_pending, reset
  bm,                   \* busmaster[0] start, busmaster[2] active and intr
  sem,                  \* semController, semBusMaster
  dma,                  \* dma_start, dma_parked, dma_cancel
  work,                 \* work_done >= work_queued; none queued since `queued`
  ctl,                  \* the thread: next step, exec_drive, held interrupt
  gst,                  \* the guest: next step, its drive, blocks it expects
  hist                  \* history: commands written, the one the thread runs

ideVars == <<drv, chan, bm, sem, dma, work, ctl, gst, hist>>

NoCommand == [kind |-> "none", n |-> 0]
DmaKinds  == {"dma read", "dma write"}
OutKinds  == {"write", "packet in", "packet out"}  \* begin with a DRQ poll

Idle == [busy |-> FALSE, drq |-> FALSE, prog |-> FALSE, cmd |-> NoCommand,
         cycle |-> 0, phase |-> "none", left |-> 0, id |-> 0]

Init ==
  /\ drv = [d \in Drive |-> Idle]
  /\ chan = [drive |-> CHOOSE d \in Drive : TRUE, pending |-> FALSE,
             reset |-> FALSE]
  /\ bm = [start |-> FALSE, active |-> FALSE, intr |-> FALSE]
  /\ sem = [ctl |-> FALSE, bus |-> FALSE]
  /\ dma = [start |-> FALSE, parked |-> FALSE, cancel |-> FALSE]
  /\ work = [done |-> TRUE, fresh |-> TRUE]
  /\ ctl = [pc |-> "wait", d |-> CHOOSE d \in Drive : TRUE, held |-> FALSE]
  /\ gst = [pc |-> "idle", d |-> CHOOSE d \in Drive : TRUE, cmd |-> NoCommand,
            left |-> 0, then |-> "none"]
  /\ hist = [written |-> 0, runs |-> 0]

-----------------------------------------------------------------------------
(* What both sides call.                                                   *)

wake_controller ==
  /\ work' = [done |-> FALSE, fresh |-> FALSE]
  /\ sem' = [sem EXCEPT !.ctl = TRUE]

deassert_interrupt(b) ==
  chan' = [chan EXCEPT !.pending = @ /\ b.intr /\ b.start]

To(pc) == gst' = [gst EXCEPT !.pc = pc]

Go(pc) == ctl' = [ctl EXCEPT !.pc = pc]

-----------------------------------------------------------------------------
(* The guest.                                                              *)

(* A mutant: the command a new one abandons is left parked.                *)
NewCommandOnly(d, c) ==
  /\ hist.written < MaxCommands /\ ~chan.reset
  /\ hist' = [hist EXCEPT !.written = @ + 1]
  /\ chan' = [chan EXCEPT !.drive = d, !.pending = @ /\ bm.intr /\ bm.start]
  /\ gst' = [gst EXCEPT !.pc = "issue", !.d = d, !.cmd = c, !.left = c.n,
                        !.then = "issue"]
  /\ UNCHANGED <<drv, bm, sem, dma, work, ctl>>

(* ide_command_write, REG_COMMAND_COMMAND, up to cancel_dma_wait's look.    *)
(* The drive was selected before; nobody else reads `selected`.            *)
NewCommand(d, c) ==
  /\ hist.written < MaxCommands /\ ~chan.reset
  /\ hist' = [hist EXCEPT !.written = @ + 1]
  /\ chan' = [chan EXCEPT !.drive = d, !.pending = @ /\ bm.intr /\ bm.start]
  /\ gst' = [gst EXCEPT !.pc = IF dma.parked THEN "cancel" ELSE "issue",
                        !.d = d, !.cmd = c, !.left = c.n, !.then = "issue"]
  /\ UNCHANGED <<drv, bm, sem, dma, work, ctl>>

WriteCommand(d) ==
  /\ gst.pc = "idle"
  /\ \E c \in Command[d] : NewCommand(d, c)

(* cancel_dma_wait: the parked command is over, and the thread is woken.    *)
CancelStore ==
  /\ gst.pc = "cancel" /\ To("cancelled")
  /\ dma' = [dma EXCEPT !.cancel = TRUE]
  /\ UNCHANGED <<drv, chan, bm, sem, work, ctl, hist>>

CancelWake ==
  /\ gst.pc = "cancelled" /\ To(gst.then)
  /\ sem' = [sem EXCEPT !.bus = TRUE]
  /\ UNCHANGED <<drv, chan, bm, dma, work, ctl, hist>>

(* The rest of the command write.                                          *)
Issue ==
  /\ gst.pc = "issue"
  /\ To(IF gst.cmd.kind \in DmaKinds THEN "start"
        ELSE IF gst.cmd.kind \in OutKinds THEN "poll" ELSE "wait")
  /\ drv' = [drv EXCEPT ![gst.d] =
               [@ EXCEPT !.busy = TRUE, !.drq = FALSE, !.prog = TRUE,
                         !.cmd = gst.cmd, !.cycle = 0, !.phase = "none",
                         !.left = gst.cmd.n, !.id = hist.written]]
  /\ wake_controller
  /\ UNCHANGED <<chan, bm, dma, ctl, hist>>

(* ide_busmaster_write, the command register: Start, and then the wake-up.  *)
Start ==
  /\ gst.pc = "start" /\ To("started")
  /\ bm' = [bm EXCEPT !.start = TRUE, !.active = TRUE]
  /\ dma' = [dma EXCEPT !.start = TRUE]
  /\ UNCHANGED <<drv, chan, sem, work, ctl, hist>>

StartWake ==
  /\ gst.pc = "started" /\ To("wait")
  /\ sem' = [sem EXCEPT !.bus = TRUE]
  /\ UNCHANGED <<drv, chan, bm, dma, work, ctl, hist>>

Stop ==
  /\ gst.pc \in {"stop", "giveup"}
  /\ To(IF gst.pc = "stop" THEN "clear" ELSE "srst")
  /\ bm' = [bm EXCEPT !.start = FALSE, !.active = FALSE]
  /\ dma' = [dma EXCEPT !.start = FALSE]
  /\ UNCHANGED <<drv, chan, sem, work, ctl, hist>>

(* The bus master status register: interrupt and error written 1 to clear. *)
ClearStatus ==
  /\ gst.pc = "clear" /\ To("ack")
  /\ bm' = [bm EXCEPT !.intr = FALSE]
  /\ deassert_interrupt([bm EXCEPT !.intr = FALSE])
  /\ UNCHANGED <<drv, sem, dma, work, ctl, hist>>

(* The interrupt: a DMA command's handler stops the bus master first.      *)
Interrupt ==
  /\ gst.pc = "wait" /\ chan.pending
  /\ To(IF gst.cmd.kind \in DmaKinds THEN "stop" ELSE "ack")
  /\ UNCHANGED <<drv, chan, bm, sem, dma, work, ctl, hist>>

(* sync_controller waits for the thread, two milliseconds at most.         *)
sync_controller == Patient => work.done

(* ide_command_read, REG_COMMAND_STATUS.  BSY: not this command's          *)
(* interrupt.  DRQ: a block to move.                                       *)
ReadStatus ==
  /\ gst.pc = "ack" /\ sync_controller
  /\ To(IF drv[gst.d].busy THEN "wait"
        ELSE IF drv[gst.d].drq THEN "data" ELSE "idle")
  /\ deassert_interrupt(bm)
  /\ UNCHANGED <<drv, bm, sem, dma, work, ctl, hist>>

(* The guest polls for the DRQ that asks for the first block or the CDB.   *)
Poll ==
  /\ gst.pc = "poll" /\ sync_controller /\ ~drv[gst.d].busy
  /\ To(IF drv[gst.d].drq THEN "data" ELSE "idle")
  /\ deassert_interrupt(bm)
  /\ UNCHANGED <<drv, bm, sem, dma, work, ctl, hist>>

(* The block goes to the guest: a packet's CDB goes the other way.         *)
DataIn ==
  \/ gst.cmd.kind \in {"read", "identify"}
  \/ gst.cmd.kind = "packet in" /\ drv[gst.d].phase = "DP34"

(* The data port, up to a block's last word: DRQ goes, and what is still   *)
(* in progress goes on.  The last block of a read ends the command.        *)
ReadData ==
  /\ gst.pc = "data" /\ drv[gst.d].drq /\ DataIn
  /\ LET more == drv[gst.d].prog
     IN  /\ drv' = [drv EXCEPT ![gst.d].drq = FALSE,
                               ![gst.d].busy = @ \/ more]
         /\ IF more THEN wake_controller ELSE UNCHANGED <<work, sem>>
  /\ gst' = [gst EXCEPT !.left = @ - 1,
               !.pc = IF gst.cmd.kind = "packet in" \/ gst.left > 1
                      THEN "wait" ELSE "idle"]
  /\ UNCHANGED <<chan, bm, dma, ctl, hist>>

WriteData ==
  /\ gst.pc = "data" /\ drv[gst.d].drq /\ ~DataIn
  /\ drv' = [drv EXCEPT ![gst.d].drq = FALSE, ![gst.d].busy = TRUE]
  /\ wake_controller
  /\ To("wait")
  /\ UNCHANGED <<chan, bm, dma, ctl, hist>>

(* The driver's time-out.  It gives the command up for another one, or     *)
(* stops the bus master and resets the channel.  A patient driver waits    *)
(* longer than the thread takes to come to rest.                           *)
Settled ==
  \/ ctl.pc = "parked" /\ ~sem.bus
  \/ ctl.pc = "wait" /\ ~sem.ctl

TimedOut ==
  /\ gst.pc \in {"start", "wait", "poll"}
  /\ Patient => Settled

Abandon(d) ==
  /\ TimedOut /\ ~bm.start
  /\ \E c \in Command[d] : NewCommand(d, c)

GiveUp ==
  /\ TimedOut /\ To("giveup")
  /\ UNCHANGED <<drv, chan, bm, sem, dma, work, ctl, hist>>

(* ide_control_write: SRST rises, up to cancel_dma_wait's look...          *)
ResetOn ==
  /\ gst.pc = "srst"
  /\ drv' = [d \in Drive |-> [drv[d] EXCEPT !.busy = TRUE, !.drq = FALSE,
                                !.cmd = NoCommand, !.prog = FALSE]]
  /\ chan' = [chan EXCEPT !.reset = TRUE]
  /\ gst' = [gst EXCEPT !.pc = IF dma.parked THEN "cancel" ELSE "reset",
                        !.then = "reset"]
  /\ UNCHANGED <<bm, sem, dma, work, ctl, hist>>

(* ... and falls.                                                          *)
ResetOff ==
  /\ gst.pc = "reset" /\ To("clear")
  /\ drv' = [d \in Drive |-> [drv[d] EXCEPT !.busy = FALSE, !.drq = FALSE]]
  /\ chan' = [chan EXCEPT !.reset = FALSE]
  /\ UNCHANGED <<bm, sem, dma, work, ctl, hist>>

-----------------------------------------------------------------------------
(* The controller thread: run.                                             *)

Drv  == drv[ctl.d]      \* SEL_STATUS, SEL_COMMAND on the thread
Set(r) == drv' = [drv EXCEPT ![ctl.d] = r]

Take ==
  /\ ctl.pc = "wait" /\ sem.ctl /\ Go("look")
  /\ sem' = [sem EXCEPT !.ctl = FALSE]
  /\ UNCHANGED <<drv, chan, bm, dma, work, gst, hist>>

Look ==
  /\ ctl.pc = "look"
  /\ work' = [work EXCEPT !.fresh = TRUE]
  /\ ctl' = [ctl EXCEPT !.d = chan.drive,
               !.pc = IF drv[chan.drive].prog THEN "media" ELSE "deliver"]
  /\ UNCHANGED <<drv, chan, bm, sem, dma, gst, hist>>

(* The drive's time on the media is over; a reset may have come meanwhile.  *)
Media ==
  /\ ctl.pc = "media"
  /\ Go(IF Drv.prog THEN "execute" ELSE "deliver")
  /\ UNCHANGED <<drv, chan, bm, sem, dma, work, gst, hist>>

(* The end of a cycle that raised an interrupt: run holds it.              *)
EndCycle(r, irq) ==
  /\ Set(r)
  /\ ctl' = [ctl EXCEPT !.pc = "count", !.held = @ \/ irq]

(* raise_interrupt outside a held cycle: the bus master's bit, the line.   *)
raise_interrupt ==
  /\ bm' = [bm EXCEPT !.intr = TRUE]
  /\ chan' = [chan EXCEPT !.pending = TRUE]

(* command_cycle++ *)
Count ==
  /\ ctl.pc = "count" /\ Go("deliver")
  /\ Set([Drv EXCEPT !.cycle = 1])
  /\ UNCHANGED <<chan, bm, sem, dma, work, gst, hist>>

Deliver ==
  /\ ctl.pc = "deliver"
  /\ ctl' = [ctl EXCEPT !.pc = "done", !.held = FALSE]
  /\ IF ctl.held THEN raise_interrupt ELSE UNCHANGED <<bm, chan>>
  /\ UNCHANGED <<drv, sem, dma, work, gst, hist>>

Done ==
  /\ ctl.pc = "done" /\ Go("wait")
  /\ work' = [work EXCEPT !.done = @ \/ work.fresh]
  /\ UNCHANGED <<drv, chan, bm, sem, dma, gst, hist>>

-----------------------------------------------------------------------------
(* execute: one step for a cycle that does not wait for the bus master.    *)
(* The guest looks at what a cycle stores only after the cycle's interrupt *)
(* or after sync_controller, both later than the last store.               *)

Execute(kinds) ==
  /\ ctl.pc = "execute" /\ Drv.cmd.kind \in kinds
  /\ hist' = [hist EXCEPT !.runs = Drv.id]
  /\ UNCHANGED <<chan, bm, sem, dma, work, gst>>

Ended == [Drv EXCEPT !.busy = FALSE, !.drq = FALSE, !.prog = FALSE]

(* fail_transfer and command_aborted: an address outside the disk, a block *)
(* the image cannot give or take, a command the drive does not know.       *)
Fail ==
  /\ Execute({"refused", "read", "write", "dma read", "dma write"})
  /\ EndCycle(Ended, TRUE)

(* Commands without data; a SRST left no command behind.                   *)
NoData == Execute({"nodata", "none"}) /\ EndCycle(Ended, TRUE)

Identify ==
  /\ Execute({"identify"})
  /\ EndCycle([Ended EXCEPT !.drq = TRUE], TRUE)

(* READ SECTORS and READ MULTIPLE *)
ReadSectors ==
  /\ Execute({"read"})
  /\ IF Drv.drq THEN EndCycle(Drv, FALSE)
     ELSE EndCycle([Drv EXCEPT !.busy = FALSE, !.drq = TRUE, !.left = @ - 1,
                               !.prog = Drv.left > 1], TRUE)

(* WRITE SECTORS and WRITE MULTIPLE: the first cycle asks for data.        *)
WriteSectors ==
  /\ Execute({"write"})
  /\ IF Drv.cycle = 0
     THEN EndCycle([Drv EXCEPT !.busy = FALSE, !.drq = TRUE], FALSE)
     ELSE IF Drv.drq THEN EndCycle(Drv, FALSE)
     ELSE EndCycle([Drv EXCEPT !.busy = FALSE, !.drq = Drv.left > 1,
                               !.left = @ - 1, !.prog = Drv.left > 1], TRUE)

(* PACKET: the CDB (DP1), chunks (DP2, DP34) while the device is in a data *)
(* phase, its status, and idle (DI).                                       *)
PacketBegin ==
  /\ Execute({"packet in", "packet out"}) /\ Drv.phase = "none"
  /\ EndCycle([Drv EXCEPT !.busy = FALSE, !.drq = TRUE, !.phase = "DP1"], FALSE)

PacketCycle ==
  /\ Execute({"packet in", "packet out"}) /\ Drv.phase \in {"DP1", "DP34"}
  /\ IF Drv.left > 0 /\ Drv.prog
     THEN EndCycle([Drv EXCEPT !.busy = FALSE, !.drq = TRUE, !.phase = "DP34",
                               !.left = @ - 1], TRUE)
     ELSE EndCycle([Ended EXCEPT !.phase = "DI"], TRUE)

(* READ DMA reads the disk before it waits for Start, WRITE DMA after.     *)
ExecuteDma == Execute(DmaKinds) /\ Go("park") /\ UNCHANGED drv

-----------------------------------------------------------------------------
(* do_dma_transfer *)

Park ==
  /\ ctl.pc = "park" /\ Go("parking")
  /\ work' = [work EXCEPT !.done = TRUE]
  /\ dma' = [dma EXCEPT !.cancel = FALSE]
  /\ UNCHANGED <<drv, chan, bm, sem, gst, hist>>

SetParked ==
  /\ ctl.pc = "parking" /\ Go("cancelled?")
  /\ dma' = [dma EXCEPT !.parked = TRUE]
  /\ UNCHANGED <<drv, chan, bm, sem, work, gst, hist>>

LookCancelled ==
  /\ ctl.pc = "cancelled?"
  /\ Go(IF dma.cancel THEN "leave" ELSE "started?")
  /\ UNCHANGED <<drv, chan, bm, sem, dma, work, gst, hist>>

TakeStart ==
  /\ ctl.pc = "started?"
  /\ Go(IF dma.start THEN "leave" ELSE "parked")
  /\ dma' = [dma EXCEPT !.start = FALSE]
  /\ UNCHANGED <<drv, chan, bm, sem, work, gst, hist>>

WaitForStart ==
  /\ ctl.pc = "parked" /\ sem.bus /\ Go("cancelled?")
  /\ sem' = [sem EXCEPT !.bus = FALSE]
  /\ UNCHANGED <<drv, chan, bm, dma, work, gst, hist>>

Unpark ==
  /\ ctl.pc = "leave" /\ Go("begin")
  /\ dma' = [dma EXCEPT !.parked = FALSE]
  /\ UNCHANGED <<drv, chan, bm, sem, work, gst, hist>>

(* IdeCancelled: run drops the command with the interrupt it held.         *)
Begin ==
  /\ ctl.pc = "begin"
  /\ ctl' = [ctl EXCEPT !.pc = IF dma.cancel THEN "deliver" ELSE "transfer",
                        !.held = @ /\ ~dma.cancel]
  /\ dma' = [dma EXCEPT !.cancel = FALSE]
  /\ UNCHANGED <<drv, chan, bm, sem, work, gst, hist>>

(* A mutant: the completion interrupt is not held back.                    *)
TransferAtOnce ==
  /\ ctl.pc = "transfer" /\ Go("finish")
  /\ bm' = [bm EXCEPT !.active = FALSE, !.intr = TRUE]
  /\ chan' = [chan EXCEPT !.pending = TRUE]
  /\ UNCHANGED <<drv, sem, dma, work, gst, hist>>

(* The PRD table is walked, and the data moves.  The driver's table fits   *)
(* the data: of the endings of a transfer this is the only one.            *)
Transfer ==
  /\ ctl.pc = "transfer"
  /\ ctl' = [ctl EXCEPT !.pc = "finish", !.held = TRUE]
  /\ bm' = [bm EXCEPT !.active = FALSE]
  /\ UNCHANGED <<drv, chan, sem, dma, work, gst, hist>>

(* Back in execute: WRITE DMA writes the disk, and the command is done.    *)
FinishDma ==
  /\ ctl.pc = "finish" /\ EndCycle(Ended, FALSE)
  /\ UNCHANGED <<chan, bm, sem, dma, work, gst, hist>>

-----------------------------------------------------------------------------
Guest ==
  \/ \E d \in Drive : WriteCommand(d) \/ Abandon(d)
  \/ CancelStore \/ CancelWake \/ Issue \/ Start \/ StartWake \/ Stop
  \/ ClearStatus \/ Interrupt \/ ReadStatus \/ Poll \/ ReadData \/ WriteData
  \/ GiveUp \/ ResetOn \/ ResetOff

Dma ==
  \/ ExecuteDma \/ Park \/ SetParked \/ LookCancelled \/ TakeStart
  \/ WaitForStart \/ Unpark \/ Begin \/ Transfer \/ FinishDma

Controller ==
  \/ Take \/ Look \/ Media \/ Count \/ Deliver \/ Done
  \/ Fail \/ NoData \/ Identify \/ ReadSectors \/ WriteSectors
  \/ PacketBegin \/ PacketCycle \/ Dma

(* The driver, its commands written, may rest.                             *)
Rest ==
  /\ gst.pc = "idle" /\ hist.written = MaxCommands /\ ctl.pc = "wait"
  /\ ~sem.ctl
  /\ UNCHANGED ideVars

Next == Guest \/ Controller \/ Rest

(* The host schedules the thread, and the guest's handlers run to their    *)
(* end; it need not give a command up, nor write another.                  *)
Driver ==
  \/ CancelStore \/ CancelWake \/ Issue \/ Start \/ StartWake \/ Stop
  \/ ClearStatus \/ Interrupt \/ ReadStatus \/ Poll \/ ReadData \/ WriteData
  \/ ResetOn \/ ResetOff

Spec == Init /\ [][Next]_ideVars

FairSpec == Spec /\ WF_ideVars(Controller) /\ WF_ideVars(Driver)

-----------------------------------------------------------------------------
(* Every command the guest writes and follows up is answered: the driver   *)
(* is back to rest, with a Start that lands at any moment (do_dma_transfer,*)
(* the test "dma-start") and with the late stores of one command never     *)
(* taking back the next one's (the comment above raise_interrupt).         *)
CommandCompletes == (gst.pc # "idle") ~> (gst.pc = "idle")

(* A transfer is one of the command written last (cancel_dma_wait: "the    *)
(* command must not be left to run against the PRD table of whatever the   *)
(* guest starts next").                                                    *)
TransfersTheLast == ctl.pc = "transfer" => hist.runs = hist.written
=============================================================================
