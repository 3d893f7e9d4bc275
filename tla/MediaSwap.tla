----------------------------- MODULE MediaSwap -----------------------------
(***************************************************************************)
(* The exchange of the medium of a CD-ROM drive on a SCSI or ATAPI bus     *)
(* (src/devices/storage/DiskFile.cpp), against the guest's commands        *)
(* (CDisk, Disk.cpp).                                                      *)
(*                                                                         *)
(* Three parties meet: the operator, who asks for an exchange from any     *)
(* thread; the main loop, whose check_state serves the request while the   *)
(* bus is free; and the thread that runs the guest's commands, which       *)
(* serves it at selection and uses the image without any lock.             *)
(*                                                                         *)
(* A medium is the number of the time it was put in, so that the same file *)
(* put in twice counts as two media; 0 is an empty drive.                  *)
(***************************************************************************)
EXTENDS Naturals, FiniteSets

CONSTANTS
    MaxMedia,       \* bound on the media ever put in
    MaxCommands     \* bound on the guest's commands

VARIABLES
    image,          \* the medium in the drive
    flags,          \* state.scsi.media_changed, the bits the guest reads
    locked,         \* state.scsi.locked: PREVENT MEDIUM REMOVAL
    tray,           \* tray_open, and whether tray_path remembers an image
    pend,           \* the one-slot request: op, image, force
    mutex,          \* who holds media_mutex across steps: "none", "check"
    phase,          \* the bus: free, or a command under way
    cmd,            \* the guest's command, its step, the medium it started on
    oper,           \* the operator's request on its way to the slot
    seen            \* what the guest was told of, and the bounds

mediaVars == <<image, flags, locked, tray, pend, mutex, phase, cmd, oper, seen>>

NoRequest == [op |-> "none", image |-> 0, force |-> FALSE]
NoCommand == [kind |-> "none", pc |-> "idle", on |-> 0]
NotAsking == [op |-> "none", force |-> FALSE]

Init ==
    /\ image = 1
    /\ flags = {}
    /\ locked = FALSE
    /\ tray = [open |-> FALSE, path |-> FALSE]
    /\ pend = NoRequest
    /\ mutex = "none"
    /\ phase = "free"
    /\ cmd = NoCommand
    /\ oper = NotAsking
    /\ seen = [told |-> 1, media |-> 1, commands |-> 0]

-----------------------------------------------------------------------------
(* The operator: the lock is looked at first, the image opened, and the    *)
(* request takes the slot of the one before                                *)

Request ==
    /\ oper = NotAsking
    /\ \E op \in {"insert", "eject"}, force \in BOOLEAN :
          /\ ~locked \/ force
          /\ op = "insert" => seen.media < MaxMedia
          /\ oper' = [op |-> op, force |-> force]
    /\ UNCHANGED <<image, flags, locked, tray, pend, mutex, phase, cmd, seen>>

Queue ==
    /\ oper # NotAsking /\ mutex = "none"
    /\ pend' = [op |-> oper.op, force |-> oper.force,
                image |-> IF oper.op = "insert" THEN seen.media + 1 ELSE 0]
    /\ seen' = IF oper.op = "insert" THEN [seen EXCEPT !.media = @ + 1] ELSE seen
    /\ oper' = NotAsking
    /\ UNCHANGED <<image, flags, locked, tray, mutex, phase, cmd>>

-----------------------------------------------------------------------------
(* apply_pending_locked *)

\* The exchange without the unit attention.
ApplyQuietly ==
    /\ pend' = NoRequest
    /\ IF locked /\ ~pend.force
       THEN UNCHANGED <<image, flags, tray>>
       ELSE image' = pend.image /\ tray' = [open |-> FALSE, path |-> FALSE] /\ flags' = flags \ {"attention"}

\* The guest's lock refuses the request unless it is forced; else the medium
\* is exchanged, the tray is shut on it and the guest will be told.
apply_pending_locked ==
    /\ pend' = NoRequest
    /\ IF locked /\ ~pend.force
       THEN UNCHANGED <<image, flags, tray>>
       ELSE /\ image' = pend.image
            /\ tray' = [open |-> FALSE, path |-> FALSE]
            /\ flags' = IF pend.op = "insert" THEN flags \cup {"attention"} ELSE flags \ {"attention"}

\* check_state: with a request pending, the lock is taken and the bus found
\* free...
CheckState ==
    /\ pend # NoRequest /\ mutex = "none" /\ phase = "free"
    /\ mutex' = "check"
    /\ UNCHANGED <<image, flags, locked, tray, pend, phase, cmd, oper, seen>>

\* ... and the request applied before the lock is let go.
CheckApplies ==
    /\ mutex = "check"
    /\ apply_pending_locked
    /\ mutex' = "none"
    /\ UNCHANGED <<locked, phase, cmd, oper, seen>>

-----------------------------------------------------------------------------
(* The guest's commands *)

\* The initiator wins the bus.
Arbitrate ==
    /\ phase = "free" /\ cmd = NoCommand /\ seen.commands < MaxCommands
    /\ phase' = "arbitration"
    /\ seen' = [seen EXCEPT !.commands = @ + 1]
    /\ UNCHANGED <<image, flags, locked, tray, pend, mutex, cmd, oper>>

Kinds == {"read", "sense", "prevent", "allow", "open", "close"}

\* scsi_select_me: under the lock a pending request is applied and the bus
\* leaves the phases check_state takes for free.
scsi_select_me ==
    /\ phase = "arbitration" /\ mutex = "none"
    /\ IF pend # NoRequest THEN apply_pending_locked ELSE UNCHANGED <<image, flags, tray, pend>>
    /\ phase' = "command"
    /\ \E k \in Kinds : cmd' = [kind |-> k, pc |-> "begin", on |-> 0]
    /\ UNCHANGED <<locked, mutex, oper, seen>>

\* The command ends in its status; the bus is freed in a step of its own.
Status == cmd' = [cmd EXCEPT !.pc = "status", !.on = 0]

\* The guest hears of the medium in the drive.
Told == /\ flags' = flags \ {"attention"}
        /\ seen' = [seen EXCEPT !.told = image]
        /\ Status

\* do_scsi_command: a pending unit attention answers every command but the
\* ones that work through it; REQUEST SENSE reports it.  A reset's comes first.
ResetAttention ==
    /\ cmd.pc = "begin" /\ "reset" \in flags
    /\ flags' = flags \ {"reset"}
    /\ Status
    /\ UNCHANGED <<image, locked, tray, pend, mutex, phase, oper, seen>>

UnitAttention ==
    /\ cmd.pc = "begin" /\ flags = {"attention"}
    /\ Told
    /\ UNCHANGED <<image, locked, tray, pend, mutex, phase, oper>>

Ready(k) == cmd.pc = "begin" /\ cmd.kind = k /\ flags = {}

\* READ: the first piece, if there is a medium...
ReadBegins ==
    /\ Ready("read")
    /\ cmd' = IF image = 0 THEN [cmd EXCEPT !.pc = "status"] ELSE [cmd EXCEPT !.pc = "data", !.on = image]
    /\ UNCHANGED <<image, flags, locked, tray, pend, mutex, phase, oper, seen>>

\* ... and the next ones (stream_read_next), until the last.
ReadMore ==
    /\ cmd.pc = "data"
    /\ Status
    /\ UNCHANGED <<image, flags, locked, tray, pend, mutex, phase, oper, seen>>

\* REQUEST SENSE with other sense data pending, or nothing to report.
Sense ==
    /\ cmd.pc = "begin" /\ cmd.kind = "sense"
    /\ Status
    /\ UNCHANGED <<image, flags, locked, tray, pend, mutex, phase, oper, seen>>

PreventAllow ==
    /\ Ready("prevent") \/ Ready("allow")
    /\ locked' = (cmd.kind = "prevent")
    /\ Status
    /\ UNCHANGED <<image, flags, tray, pend, mutex, phase, oper, seen>>

\* START STOP UNIT, the tray opens: refused under the lock; else the image's
\* name is remembered and the drive is empty.
TrayOpens ==
    /\ Ready("open") /\ mutex = "none"
    /\ Status
    /\ IF locked
       THEN UNCHANGED <<image, flags, tray>>
       ELSE /\ tray' = [open |-> TRUE, path |-> image # 0 \/ tray.path]
            /\ image' = 0
            /\ flags' = flags \ {"attention"}
    /\ UNCHANGED <<locked, pend, mutex, phase, oper, seen>>

\* The tray closes: what it remembers is read under the lock...
TrayCloses ==
    /\ Ready("close") /\ mutex = "none"
    /\ cmd' = [cmd EXCEPT !.pc = IF ~tray.open THEN "status" ELSE IF tray.path THEN "reopen" ELSE "shut"]
    /\ UNCHANGED <<image, flags, locked, tray, pend, mutex, phase, oper, seen>>

\* ... the image opened outside it, if it still opens...
Reopens ==
    /\ cmd.pc = "reopen"
    /\ \/ /\ seen.media < MaxMedia
          /\ seen' = [seen EXCEPT !.media = @ + 1]
          /\ cmd' = [cmd EXCEPT !.pc = "shut", !.on = seen.media + 1]
       \/ cmd' = [cmd EXCEPT !.pc = "shut"] /\ UNCHANGED seen
    /\ UNCHANGED <<image, flags, locked, tray, pend, mutex, phase, oper>>

\* ... and put in under the lock again.
Shuts ==
    /\ cmd.pc = "shut" /\ mutex = "none"
    /\ tray' = [open |-> FALSE, path |-> FALSE]
    /\ IF cmd.on # 0
       THEN image' = cmd.on /\ flags' = flags \cup {"attention"}
       ELSE UNCHANGED <<image, flags>>
    /\ Status
    /\ UNCHANGED <<locked, pend, mutex, phase, oper, seen>>

\* scsi_free after the status.
BusFree ==
    /\ cmd.pc = "status"
    /\ phase' = "free"
    /\ cmd' = NoCommand
    /\ UNCHANGED <<image, flags, locked, tray, pend, mutex, oper, seen>>

\* reset_bus, between two steps of a command: the bus is free at once, the
\* command is gone, the guest's lock ends and it will be told (scsi_reset_me).
BusReset ==
    /\ phase = "command" /\ cmd.pc \in {"begin", "data", "status"}
    /\ phase' = "free"
    /\ cmd' = NoCommand
    /\ locked' = FALSE
    /\ flags' = flags \cup {"reset"}
    /\ UNCHANGED <<image, tray, pend, mutex, oper, seen>>

Next ==
    \/ Request \/ Queue \/ CheckState \/ CheckApplies
    \/ Arbitrate \/ scsi_select_me \/ ResetAttention \/ UnitAttention
    \/ ReadBegins \/ ReadMore \/ Sense \/ PreventAllow
    \/ TrayOpens \/ TrayCloses \/ Reopens \/ Shuts \/ BusFree \/ BusReset

Spec == Init /\ [][Next]_mediaVars

-----------------------------------------------------------------------------
(* Properties *)

\* The medium is exchanged between the guest's commands only: the pieces of a
\* READ come from the medium it started on, whose image is not released under
\* it, and the tray the guest closes puts its image into an empty drive, never
\* in the place of one the operator put in meanwhile (check_state,
\* scsi_select_me, guest_tray).
SwapsBetweenCommands ==
    /\ cmd.pc = "data" => image = cmd.on
    /\ cmd.pc \in {"reopen", "shut"} => image = 0 /\ tray.open

\* The guest reads from no medium it has not been told of: every way a medium
\* gets into the drive leaves a unit attention behind that the first command
\* reports, whatever requests came before it.
ReadsWhatItWasTold ==
    cmd.kind = "read" /\ cmd.pc = "data" => seen.told = cmd.on
=============================================================================
