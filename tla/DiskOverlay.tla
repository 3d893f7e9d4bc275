---------------------------- MODULE DiskOverlay ----------------------------
(***************************************************************************)
(* CDiskOverlay: the writes of a disk kept in a file over a base image     *)
(* that is never written (src/devices/storage/DiskOverlay.cpp).            *)
(*                                                                         *)
(* The file is a C stream: write_at seeks, which writes out what the       *)
(* stream still buffers, and then either leaves its bytes in the buffer    *)
(* or writes them straight through.  Either half may fail.  The emulator   *)
(* may be killed between any two steps (the buffer is lost, the file       *)
(* keeps what was written).  In HostSpec so may the host, which writes its *)
(* dirty pages back in any order.                                          *)
(*                                                                         *)
(* A cluster has two sectors.  A sector's value is the number of the       *)
(* guest's write that made it, 0 for the base's bytes and Blank for bytes  *)
(* nobody has written.                                                     *)
(***************************************************************************)
EXTENDS Integers, FiniteSets, Sequences

CONSTANTS
    Clusters,       \* clusters of the base
    MaxWrites,      \* bound on the guest's writes
    MaxFaults,      \* bound on failed seeks and writes
    MaxCrashes      \* bound on crashes

VARIABLES
    mem,            \* the open CDiskOverlay: map, used
    file,           \* the file as the host's kernel has it: head, map, slot
    buf,            \* what the stream has not written out yet: at most one write
    disk,           \* the file as the host's disk has it
    op,             \* the guest's write under way, and the step it is at
    past            \* acked, prev, wild: what each sector may hold; the bounds

ovVars == <<mem, file, buf, disk, op, past>>

Cluster == 0 .. Clusters - 1
Sector  == {0, 1}
Blank   == -1
Slots   == 1 .. Clusters
NoneBuffered == [at |-> "none"]
Idle    == [pc |-> "idle"]

\* A slot's bytes: nothing yet, or a copy of the base's cluster.
BlankSlot == [s \in Sector |-> Blank]
BaseSlot  == [s \in Sector |-> 0]

NewFile == [head |-> "cut", map |-> [c \in Cluster |-> 0], slot |-> [n \in Slots |-> BlankSlot]]

\* The base may have any size.
ASSUME OverlayAssumption == Clusters \in Nat

File == [head : {"absent", "cut", "whole"}, map : [Cluster -> Nat],
         slot : [Slots -> [Sector -> Int]]]

Buffer == {NoneBuffered} \cup [at : {"map"}, c : Cluster, entry : Nat]
            \cup [at : {"slot"}, slot : Slots, part : SUBSET Sector, v : [Sector -> Int]]

TypeOK ==
    /\ mem \in [state : {"closed", "creating", "open", "refused"}, map : [Cluster -> Nat], used : Nat]
    /\ file \in File /\ buf \in Buffer
    /\ op \in {Idle} \cup [pc : {"next", "copy", "entry", "data"}, from : Nat, to : Nat,
                            pos : Nat, v : Nat]
    /\ past \in [acked : [Cluster -> [Sector -> Int]],
                 prev : [Cluster -> [Sector -> SUBSET Int]],
                 wild : [Cluster -> [Sector -> SUBSET Int]],
                 writes : Nat, faults : Nat, crashes : Nat]

Init ==
    /\ mem = [state |-> "closed", map |-> [c \in Cluster |-> 0], used |-> 0]
    /\ file = [NewFile EXCEPT !.head = "absent"]
    /\ disk = file
    /\ buf = NoneBuffered
    /\ op = Idle
    /\ past = [acked |-> [c \in Cluster |-> BaseSlot], prev |-> [c \in Cluster |-> [s \in Sector |-> {}]],
               wild |-> [c \in Cluster |-> [s \in Sector |-> {}]],
               writes |-> 0, faults |-> 0, crashes |-> 0]

-----------------------------------------------------------------------------
(* The stream *)

\* The file f once the buffered write b is out.
WrittenOut(f, b) ==
    CASE b.at = "map"  -> [f EXCEPT !.map[b.c] = b.entry]
      [] b.at = "slot" -> [f EXCEPT !.slot[b.slot] = [s \in Sector |-> IF s \in b.part THEN b.v[s] ELSE @[s]]]
      [] OTHER         -> f

\* A seek, or an fflush, that succeeds: the buffer is written out.
SeekOk == file' = WrittenOut(file, buf)

Fault == past.faults < MaxFaults

\* write_at: its seek writes the buffer out, its write b stays in the buffer
\* or goes straight to the file.
WriteAt(b) ==
    \/ SeekOk /\ buf' = b
    \/ b.at = "slot" /\ file' = WrittenOut(WrittenOut(file, buf), b) /\ buf' = NoneBuffered

\* write_at fails: in its seek, which leaves the buffer as it is, or in the
\* write of some of its bytes.  The four bytes of an entry are always buffered.
WriteAtFails(b) ==
    /\ Fault
    /\ \/ UNCHANGED <<file, buf>>
       \/ /\ b.at = "slot"
          /\ \E part \in SUBSET b.part :
                file' = WrittenOut(WrittenOut(file, buf), [b EXCEPT !.part = part])
          /\ buf' = NoneBuffered

-----------------------------------------------------------------------------
(* open *)

\* open without a file: it is created, with a header and a map of zeros.
\* The header is out only after the fflush.
OpenCreates ==
    /\ mem.state = "closed" /\ file.head = "absent"
    /\ file' = NewFile
    /\ mem' = [mem EXCEPT !.state = "creating"]
    /\ UNCHANGED <<buf, disk, op, past>>

HeadWritten ==
    /\ mem.state = "creating"
    /\ file' = [file EXCEPT !.head = "whole"]
    /\ mem' = [state |-> "open", map |-> [c \in Cluster |-> 0], used |-> 0]
    /\ UNCHANGED <<buf, disk, op, past>>

\* open with a file: an incomplete header is refused; else the map is read
\* and the slots in use are the largest entry's.
LastSlot(map) == CHOOSE n \in {0} \cup {map[c] : c \in Cluster} : \A c \in Cluster : map[c] <= n

OpenRefused ==
    /\ mem.state = "closed" /\ file.head = "cut"
    /\ mem' = [mem EXCEPT !.state = "refused"]
    /\ UNCHANGED <<file, buf, disk, op, past>>

OpenExisting ==
    /\ mem.state = "closed" /\ file.head = "whole"
    /\ mem' = [state |-> "open", map |-> file.map, used |-> LastSlot(file.map)]
    /\ UNCHANGED <<file, buf, disk, op, past>>

-----------------------------------------------------------------------------
(* write: a loop over the clusters of the request, each claimed at its     *)
(* first write                                                             *)

\* The sectors of the request that lie in cluster c: positions count sectors.
Part(o, c) == {s \in Sector : 2 * c + s \in o.from .. o.to}

At(o) == o.pos \div 2

Write ==
    /\ mem.state = "open" /\ op = Idle /\ past.writes < MaxWrites
    /\ \E from \in 0 .. 2 * Clusters - 1, n \in 1 .. 3 :
          /\ from + n <= 2 * Clusters
          /\ LET o == [pc |-> "next", from |-> from, to |-> from + n - 1, pos |-> from, v |-> past.writes + 1]
             IN /\ op' = o
                /\ past' = [past EXCEPT !.writes = @ + 1,
                              !.wild = [c \in Cluster |-> [s \in Sector |->
                                           @[c][s] \cup (IF s \in Part(o, c) THEN {o.v} ELSE {})]]]
    /\ UNCHANGED <<mem, file, buf, disk>>

\* The claim with its two writes in the other order: the entry points at the
\* slot before the copy is in it.
PieceEntryFirst ==
    /\ op.pc = "next" /\ op.pos <= op.to
    /\ op' = [op EXCEPT !.pc = IF mem.map[At(op)] = 0 THEN "copy" ELSE "data"]
    /\ IF mem.map[At(op)] = 0
       THEN file' = [WrittenOut(file, buf) EXCEPT !.map[At(op)] = mem.used + 1] /\ buf' = NoneBuffered
       ELSE UNCHANGED <<file, buf>>
    /\ UNCHANGED <<mem, disk, past>>

\* if (!map[c] && !claim(c))
Piece ==
    /\ op.pc = "next" /\ op.pos <= op.to
    /\ op' = [op EXCEPT !.pc = IF mem.map[At(op)] = 0 THEN "copy" ELSE "data"]
    /\ UNCHANGED <<mem, file, buf, disk, past>>

\* claim: the base's bytes into the next free slot...
CopyWrite == [at |-> "slot", slot |-> mem.used + 1, part |-> Sector, v |-> BaseSlot]

Copy ==
    /\ op.pc = "copy"
    /\ WriteAt(CopyWrite)
    /\ op' = [op EXCEPT !.pc = "entry"]
    /\ UNCHANGED <<mem, disk, past>>

\* ... then the map entry that points at it, and only then the map in memory.
EntryWrite == [at |-> "map", c |-> At(op), entry |-> mem.used + 1]

Entry ==
    /\ op.pc = "entry"
    /\ WriteAt(EntryWrite)
    /\ mem' = [mem EXCEPT !.map[At(op)] = mem.used + 1, !.used = @ + 1]
    /\ op' = [op EXCEPT !.pc = "data"]
    /\ UNCHANGED <<disk, past>>

\* The request's bytes of this cluster.  Written, they count as done.
DataWrite == [at |-> "slot", slot |-> mem.map[At(op)], part |-> Part(op, At(op)), v |-> [s \in Sector |-> op.v]]

\* past once the sectors of o in cluster c are acknowledged.
Acked(o, c) ==
    [past EXCEPT !.prev[c]  = [s \in Sector |-> {past.acked[c][s]} \cup past.wild[c][s]],
                 !.acked[c] = [s \in Sector |-> IF s \in Part(o, c) THEN o.v ELSE @[s]],
                 !.wild[c]  = [s \in Sector |-> IF s \in Part(o, c) THEN {} ELSE @[s]]]

Data ==
    /\ op.pc = "data"
    /\ WriteAt(DataWrite)
    /\ op' = [op EXCEPT !.pc = "next", !.pos = 2 * At(op) + 2]
    /\ past' = Acked(op, At(op))
    /\ UNCHANGED <<mem, disk>>

WriteDone ==
    /\ op.pc = "next" /\ op.pos > op.to
    /\ op' = Idle
    /\ UNCHANGED <<mem, file, buf, disk, past>>

\* A write_at that fails ends the request: what is done is its count.
WriteStops ==
    /\ op.pc \in {"copy", "entry", "data"}
    /\ WriteAtFails(CASE op.pc = "copy" -> CopyWrite [] op.pc = "entry" -> EntryWrite [] OTHER -> DataWrite)
    /\ past' = [past EXCEPT !.faults = @ + 1]
    /\ op' = Idle
    /\ UNCHANGED <<mem, disk>>

\* read of a cluster in the overlay seeks as well; flush is an fflush.
Flush ==
    /\ mem.state = "open" /\ op = Idle /\ buf # NoneBuffered
    /\ SeekOk
    /\ buf' = NoneBuffered
    /\ UNCHANGED <<mem, disk, op, past>>

-----------------------------------------------------------------------------
(* Crashes *)

\* What a sector reads as, from the file's map and slots alone.
Reopened(f, c, s) == IF f.head = "whole" /\ f.map[c] # 0 THEN f.slot[f.map[c]][s] ELSE 0

Restart(f) ==
    /\ past.crashes < MaxCrashes
    /\ mem.state \in {"creating", "open"}
    /\ file' = f
    /\ mem' = [mem EXCEPT !.state = "closed"]
    /\ buf' = NoneBuffered
    /\ op' = Idle
    /\ past' = [past EXCEPT !.crashes = @ + 1,
                            !.acked = [c \in Cluster |-> [s \in Sector |-> Reopened(f, c, s)]],
                            !.prev  = [c \in Cluster |-> [s \in Sector |-> {}]],
                            !.wild  = [c \in Cluster |-> [s \in Sector |-> {}]]]
    /\ UNCHANGED disk

\* The emulator is killed: the stream's buffer is gone.
Killed == Restart(file)

\* ~CDiskOverlay: fclose writes the buffer out.
Close == op = Idle /\ Restart(WrittenOut(file, buf))

\* The host goes down: what it had not written back is gone too.
HostDown == Restart(disk)

\* The kernel writes a dirty page back, in the order it likes: the page with
\* the header and the map, or one of a slot.
WriteBack ==
    /\ \/ /\ disk' = [disk EXCEPT !.head = file.head, !.map = file.map]
       \/ \E n \in Slots, s \in Sector : disk' = [disk EXCEPT !.slot[n][s] = file.slot[n][s]]
    /\ disk' # disk
    /\ UNCHANGED <<mem, file, buf, op, past>>

Next ==
    \/ OpenCreates \/ HeadWritten \/ OpenRefused \/ OpenExisting
    \/ Write \/ Piece \/ Copy \/ Entry \/ Data \/ WriteDone \/ WriteStops
    \/ Flush \/ Killed \/ Close

Spec == Init /\ [][Next]_ovVars

HostSpec == Init /\ [][Next \/ HostDown \/ WriteBack]_ovVars

-----------------------------------------------------------------------------
(* Properties *)

\* The write at the top of the stream's buffer is data of sector s of c.
Buffered(c, s) == buf.at = "slot" /\ mem.map[c] = buf.slot /\ s \in buf.part

\* Killed in any state and opened again, the overlay gives of every sector the
\* last write the guest was told had been done, or one that failed or is under
\* way, and never another: no copy, entry or data write leaves a cluster on
\* bytes of another cluster or of nobody, and of the writes reported done only
\* the one in the stream's buffer can be lost (claim, write).
LosesOnlyInFlight ==
    \A c \in Cluster, s \in Sector :
        Reopened(file, c, s) \in {past.acked[c][s]} \cup past.wild[c][s]
                                  \cup (IF Buffered(c, s) THEN past.prev[c][s] ELSE {})

\* "A first write puts the copied cluster in its slot before the map entry that
\* points at it, so a host crash loses at most the writes in flight": at no time
\* would the host's disk give, for a sector no write has touched, anything but
\* the base's bytes.
HostCrashKeepsBase ==
    \A c \in Cluster, s \in Sector :
        past.acked[c][s] = 0 /\ past.wild[c][s] = {} => Reopened(disk, c, s) = 0
=============================================================================
