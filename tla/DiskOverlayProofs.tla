-------------------------- MODULE DiskOverlayProofs --------------------------
(***************************************************************************)
(* For a base of any size, any number of writes, of failed ones and of     *)
(* crashes: an overlay opened again gives of every sector the last write   *)
(* reported done, or one in flight.  The argument is about the file as it  *)
(* will be once the stream's buffer is out (Full): there the map is the    *)
(* one in memory and every claimed slot holds what it should.  What the    *)
(* file lacks of it is one write, and a crash loses no more.               *)
(***************************************************************************)
EXTENDS DiskOverlay, FiniteSetTheorems, TLAPS

Full == WrittenOut(file, buf)

(* The claimed clusters have the slots 1 .. n, each its own.               *)
Packed(map, n) ==
    /\ n \in 0 .. Clusters
    /\ \A c \in Cluster : map[c] \in 0 .. n
    /\ \A c, d \in Cluster : map[c] = map[d] /\ map[c] # 0 => c = d
    /\ \A k \in 1 .. n : \E c \in Cluster : map[c] = k

(* Without an open overlay the file is all there is.                       *)
AtRest ==
    mem.state # "open" =>
        /\ buf = NoneBuffered /\ op = Idle
        /\ \A c \in Cluster, s \in Sector : past.acked[c][s] = Reopened(file, c, s)
        /\ file.head = "whole" => \E n \in 0 .. Clusters : Packed(file.map, n)
        /\ mem.state = "creating" => file.head = "cut" /\ \A c \in Cluster : file.map[c] = 0

(* The map in memory is the file's, but for an entry still in the buffer,  *)
(* which is the last one claimed.                                          *)
MapKept ==
    mem.state = "open" =>
        /\ file.head = "whole"
        /\ Packed(mem.map, mem.used)
        /\ buf.at = "map" => /\ buf.entry = mem.used /\ buf.entry # 0
                             /\ mem.map[buf.c] = buf.entry
                             /\ file.map[buf.c] = 0
        /\ \A c \in Cluster : file.map[c] = mem.map[c] \/ (buf.at = "map" /\ buf.c = c)

(* A cluster that has no slot in the file has not been written; one that   *)
(* has holds what was reported done, or is under way, in the full file.    *)
SectorsKept ==
    mem.state = "open" =>
        \A c \in Cluster, s \in Sector :
            /\ file.map[c] = 0 => past.acked[c][s] = 0
            /\ mem.map[c] # 0 => Full.slot[mem.map[c]][s] \in {past.acked[c][s]} \cup past.wild[c][s]
            /\ Buffered(c, s) => file.slot[mem.map[c]][s] \in past.prev[c][s]

(* The request in hand: its cluster is claimed when its data is written,   *)
(* the copy is in the slot when the entry is, and what it has yet to write *)
(* counts as under way.                                                    *)
InHand ==
    op # Idle =>
        /\ op.to < 2 * Clusters
        /\ op.pc # "next" => op.pos <= op.to
        /\ op.pc \in {"copy", "entry"} => mem.map[At(op)] = 0
        /\ op.pc = "data" => mem.map[At(op)] # 0
        /\ op.pc = "entry" => \A s \in Sector : Full.slot[mem.used + 1][s] = 0
        /\ \A c \in Cluster, s \in Sector :
              c >= At(op) /\ s \in Part(op, c) => op.v \in past.wild[c][s]

Inv == TypeOK /\ AtRest /\ MapKept /\ SectorsKept /\ InHand

(* g is the file f after the write b of the stream.                        *)
After(g, f, b) ==
  /\ g \in File /\ g.head = f.head
  /\ b.at = "map" => g.map = [f.map EXCEPT ![b.c] = b.entry]
  /\ b.at # "map" => g.map = f.map
  /\ \A n \in Slots, s \in Sector :
        g.slot[n][s] = IF b.at = "slot" /\ n = b.slot /\ s \in b.part
                       THEN b.v[s] ELSE f.slot[n][s]

(* What write_at leaves in the file is just its bytes.                     *)
LEMMA Out ==
  ASSUME NEW f \in File, NEW b \in Buffer
  PROVE  After(WrittenOut(f, b), f, b)
<1> DEFINE g == WrittenOut(f, b)
<1>1. CASE b.at = "map"
  <2>1. g = [f EXCEPT !.map[b.c] = b.entry]
    BY <1>1, Zenon DEF WrittenOut
  <2>2. b.c \in Cluster /\ b.entry \in Nat
    BY <1>1 DEF Buffer, NoneBuffered
  <2> QED BY <1>1, <2>1, <2>2, ZenonT(60) DEF File, After
<1>2. CASE b.at = "slot"
  <2>1. g = [f EXCEPT !.slot[b.slot] = [s \in Sector |-> IF s \in b.part THEN b.v[s] ELSE @[s]]]
    BY <1>2, Zenon DEF WrittenOut
  <2>2. b.slot \in Slots /\ b.part \in SUBSET Sector /\ b.v \in [Sector -> Int]
    BY <1>2 DEF Buffer, NoneBuffered
  <2>3. g.head = f.head /\ g.map = f.map
    BY <2>1, Zenon DEF File
  <2>4. g.slot = [f.slot EXCEPT ![b.slot] = [s \in Sector |-> IF s \in b.part THEN b.v[s] ELSE @[s]]]
    BY <2>1, Zenon DEF File
  <2>5. f.slot \in [Slots -> [Sector -> Int]]
    BY Zenon DEF File
  <2>6. g.slot \in [Slots -> [Sector -> Int]]
    BY <2>2, <2>4, <2>5
  <2>7. g \in File
    BY <2>1, <2>6, Zenon DEF File
  <2>8. \A n \in Slots, s \in Sector :
          g.slot[n][s] = IF n = b.slot /\ s \in b.part THEN b.v[s] ELSE f.slot[n][s]
    BY <2>2, <2>4, <2>5
  <2> QED BY <1>2, <2>3, <2>7, <2>8, Zenon DEF After
<1>3. CASE b = NoneBuffered
  <2>1. g = f
    BY <1>3, Zenon DEF WrittenOut, NoneBuffered
  <2> QED BY <1>3, <2>1, Zenon DEF NoneBuffered, After
<1> QED BY <1>1, <1>2, <1>3, Zenon DEF Buffer

(* A base with an unclaimed cluster has a free slot left.                  *)
LEMMA FreeSlot ==
  ASSUME NEW map, NEW n, Packed(map, n), NEW c \in Cluster, map[c] = 0
  PROVE  n + 1 \in Slots
<1> DEFINE S == 1 .. n
           T == Cluster \ {c}
           f == [k \in S |-> CHOOSE d \in Cluster : map[d] = k]
<1>1. n \in Nat /\ n <= Clusters /\ Clusters \in Nat
  BY OverlayAssumption DEF Packed
<1>2. \A k \in S : f[k] \in Cluster /\ map[f[k]] = k
  BY Zenon DEF Packed
<1>3. f \in [S -> T]
  <2>1. \A k \in S : k # 0
    BY <1>1
  <2>2. \A k \in S : f[k] \in T
    BY <1>2, <2>1, Zenon
  <2> QED BY <2>2, Zenon
<1>4. IsFiniteSet(S) /\ Cardinality(S) = n
  <2>1. 1 \in Int /\ n \in Int
    BY <1>1
  <2>2. IsFiniteSet(S) /\ Cardinality(S) = IF 1 > n THEN 0 ELSE n - 1 + 1
    BY <2>1, FS_Interval, Zenon
  <2> QED BY <1>1, <2>2
<1>5. IsFiniteSet(Cluster) /\ Cardinality(Cluster) = Clusters
  <2>1. 0 \in Int /\ Clusters - 1 \in Int /\ 0 <= Clusters - 1
    BY <1>1, c \in Cluster DEF Cluster
  <2>2. /\ IsFiniteSet(Cluster)
        /\ Cardinality(Cluster) = IF 0 > Clusters - 1 THEN 0 ELSE Clusters - 1 - 0 + 1
    BY <2>1, FS_Interval, Zenon DEF Cluster
  <2> QED BY <1>1, <2>1, <2>2
<1>6. IsFiniteSet(T) /\ Cardinality(T) = Clusters - 1
  BY <1>5, FS_RemoveElement, Zenon
<1>7. ~(Clusters - 1 < n)
  <2> SUFFICES ASSUME Clusters - 1 < n PROVE FALSE
    BY Zenon
  <2>1. Cardinality(T) < Cardinality(S)
    BY <1>4, <1>6, Zenon
  <2> HIDE DEF f, S, T
  <2>2. \E x, y \in S : x # y /\ f[x] = f[y]
    BY <1>3, <1>4, <1>6, <2>1, FS_PigeonHole, Zenon
  <2> QED BY <2>2, <1>2, Zenon
<1> QED BY <1>1, <1>7 DEF Slots

(* With the overlay open, the map in memory is the one of the full file.   *)
LEMMA FullMap ==
  ASSUME TypeOK, MapKept, mem.state = "open"
  PROVE  /\ Full \in File /\ Full.head = "whole"
         /\ \A c \in Cluster : Full.map[c] = mem.map[c]
         /\ \A c \in Cluster : mem.map[c] = 0 => file.map[c] = 0
<1>1. file \in File /\ buf \in Buffer
  BY Zenon DEF TypeOK
<1>2. /\ Full \in File /\ Full.head = file.head
      /\ buf.at = "map" => Full.map = [file.map EXCEPT ![buf.c] = buf.entry]
      /\ buf.at # "map" => Full.map = file.map
  BY <1>1, Out, Zenon DEF Full, After
<1>3. file.map \in [Cluster -> Nat]
  BY <1>1, Zenon DEF File
<1>4. /\ file.head = "whole"
      /\ buf.at = "map" => mem.map[buf.c] = buf.entry /\ buf.entry # 0
      /\ \A c \in Cluster : file.map[c] = mem.map[c] \/ (buf.at = "map" /\ buf.c = c)
  BY Zenon DEF MapKept
<1>5. ASSUME NEW c \in Cluster
      PROVE  Full.map[c] = mem.map[c] /\ (mem.map[c] = 0 => file.map[c] = 0)
  <2>1. CASE buf.at = "map" /\ buf.c = c
    BY <1>2, <1>3, <1>4, <2>1, Zenon
  <2>2. CASE ~(buf.at = "map" /\ buf.c = c)
    <3>1. Full.map[c] = file.map[c]
      BY <1>2, <1>3, <2>2, Zenon
    <3> QED BY <3>1, <1>4, <2>2, Zenon
  <2> QED BY <2>1, <2>2, Zenon
<1> QED BY <1>2, <1>4, <1>5, Zenon

(* What a write of the stream leaves: its bytes are in the full file, all  *)
(* that was buffered before it is in the file.                             *)
Wrote(b) ==
  /\ file' \in File /\ buf' \in Buffer
  /\ buf' = b \/ (buf' = NoneBuffered /\ b.at = "slot")
  /\ file'.head = file.head /\ file'.map = Full.map
  /\ \A n \in Slots, s \in Sector :
        /\ Full'.slot[n][s] = IF b.at = "slot" /\ n = b.slot /\ s \in b.part
                              THEN b.v[s] ELSE Full.slot[n][s]
        /\ buf' = b => file'.slot[n][s] = Full.slot[n][s]

(* A write that goes straight to the file.                                 *)
LEMMA StraightOut ==
  ASSUME TypeOK, NEW b \in Buffer, b.at = "slot",
         file' = WrittenOut(Full, b), buf' = NoneBuffered
  PROVE  Wrote(b)
<1>1. file \in File /\ buf \in Buffer
  BY Zenon DEF TypeOK
<1>2. Full \in File /\ Full.head = file.head
  BY <1>1, Out, Zenon DEF Full, After
<1>3. After(file', Full, b)
  BY <1>2, Out, Zenon
<1>4. Full' = file'
  BY Zenon DEF Full, WrittenOut, NoneBuffered
<1>5. NoneBuffered \in Buffer /\ NoneBuffered # b
  BY DEF Buffer, NoneBuffered
<1>6. b.at # "map"
  BY Zenon
<1> QED BY <1>2, <1>3, <1>4, <1>5, <1>6, Zenon DEF Wrote, After

(* A write_at that succeeds, buffered or not.                              *)
LEMMA WriteAtWrites ==
  ASSUME TypeOK, NEW b \in Buffer, WriteAt(b)
  PROVE  Wrote(b)
<1>1. file \in File /\ buf \in Buffer
  BY Zenon DEF TypeOK
<1>2. Full \in File /\ Full.head = file.head
  BY <1>1, Out, Zenon DEF Full, After
<1>3. CASE file' = Full /\ buf' = b
  <2>1. Full' = WrittenOut(Full, b)
    BY <1>3, Zenon DEF Full
  <2>2. After(Full', Full, b)
    BY <1>2, <2>1, Out, Zenon
  <2> QED BY <1>2, <1>3, <2>2, Zenon DEF Wrote, After
<1>4. CASE b.at = "slot" /\ file' = WrittenOut(Full, b) /\ buf' = NoneBuffered
  BY <1>4, StraightOut, Zenon
<1> QED BY <1>3, <1>4, Zenon DEF WriteAt, SeekOk, Full

(* A write that fails has changed nothing, or written some of its bytes.   *)
LEMMA FailedWrite ==
  ASSUME TypeOK, NEW b \in Buffer, WriteAtFails(b)
  PROVE  \/ file' = file /\ buf' = buf
         \/ /\ b.at = "slot" /\ buf' = NoneBuffered
            /\ \E part \in SUBSET b.part : Wrote([b EXCEPT !.part = part])
<1> SUFFICES ASSUME b.at = "slot", buf' = NoneBuffered, NEW part \in SUBSET b.part,
                    file' = WrittenOut(Full, [b EXCEPT !.part = part])
             PROVE  Wrote([b EXCEPT !.part = part])
  BY Zenon DEF WriteAtFails, Full
<1> DEFINE d == [b EXCEPT !.part = part]
<1>1. b \in [at : {"slot"}, slot : Slots, part : SUBSET Sector, v : [Sector -> Int]]
  BY DEF Buffer, NoneBuffered
<1>2. d \in [at : {"slot"}, slot : Slots, part : SUBSET Sector, v : [Sector -> Int]]
  BY <1>1, Zenon
<1>3. d \in Buffer /\ d.at = "slot"
  BY <1>2, Zenon DEF Buffer
<1> HIDE DEF d
<1> QED BY <1>3, StraightOut, Zenon DEF d

(* A request in hand.                                                      *)
Request == [pc : {"next", "copy", "entry", "data"}, from : Nat, to : Nat, pos : Nat, v : Nat]

(* While a request is at a write, the overlay is open and its cluster one  *)
(* of the base's.                                                          *)
LEMMA AtCluster ==
  ASSUME TypeOK, AtRest, InHand, op.pc \in {"copy", "entry", "data"}
  PROVE  mem.state = "open" /\ op \in Request /\ op # Idle /\ At(op) \in Cluster
<1>1. op # Idle
  BY DEF Idle
<1>2. op \in Request
  BY <1>1, Zenon DEF TypeOK, Request
<1>3. mem.state = "open"
  BY <1>1, Zenon DEF AtRest
<1>4. op.pos \in Nat /\ op.to \in Nat
  BY <1>2, Zenon DEF Request
<1>5. op.pos <= op.to /\ op.to < 2 * Clusters
  BY <1>1, Zenon DEF InHand
<1>6. At(op) \in Cluster
  BY <1>4, <1>5, OverlayAssumption DEF At, Cluster
<1> QED BY <1>1, <1>2, <1>3, <1>6, Zenon

(* The three writes of a request are writes the stream can buffer.         *)
LEMMA Writes ==
  ASSUME TypeOK, AtRest, MapKept, InHand, op.pc \in {"copy", "entry", "data"}
  PROVE  /\ op.pc = "copy" => CopyWrite \in Buffer
         /\ op.pc = "entry" => EntryWrite \in Buffer
         /\ op.pc = "data" => DataWrite \in Buffer
         /\ op.pc \in {"copy", "entry"} => mem.used + 1 \in Slots
         /\ mem.used \in Nat /\ mem.used <= Clusters
<1>1. mem.state = "open" /\ op \in Request /\ op # Idle /\ At(op) \in Cluster
  BY AtCluster, Zenon
<1>2. Packed(mem.map, mem.used) /\ mem.used \in 0 .. Clusters
  BY <1>1, Zenon DEF MapKept, Packed
<1>3. mem.used \in Nat /\ mem.used <= Clusters
  BY <1>2, OverlayAssumption
<1>4. op.pc \in {"copy", "entry"} => mem.used + 1 \in Slots
  <2>1. op.pc \in {"copy", "entry"} => mem.map[At(op)] = 0
    BY <1>1, Zenon DEF InHand
  <2> QED BY <1>1, <1>2, <2>1, FreeSlot, Zenon
<1>5. op.pc = "copy" => CopyWrite \in Buffer
  <2>1. BaseSlot \in [Sector -> Int]
    BY DEF BaseSlot
  <2> QED BY <1>4, <2>1, Zenon DEF CopyWrite, Buffer
<1>6. op.pc = "entry" => EntryWrite \in Buffer
  <2>1. mem.used + 1 \in Nat
    BY <1>3
  <2> QED BY <1>1, <2>1, Zenon DEF EntryWrite, Buffer
<1>7. op.pc = "data" => DataWrite \in Buffer
  <2>1. op.pc = "data" => mem.map[At(op)] # 0
    BY <1>1, Zenon DEF InHand
  <2>2. mem.map[At(op)] \in 0 .. mem.used
    BY <1>1, <1>2, Zenon DEF Packed
  <2>3. op.pc = "data" => mem.map[At(op)] \in Slots
    BY <1>3, <2>1, <2>2, OverlayAssumption DEF Slots
  <2>4. op.v \in Int
    BY <1>1 DEF Request
  <2>5. Part(op, At(op)) \in SUBSET Sector
    BY Zenon DEF Part
  <2> QED BY <2>3, <2>4, <2>5, Zenon DEF DataWrite, Buffer
<1> QED BY <1>3, <1>4, <1>5, <1>6, <1>7, Zenon

(* A slot in use is not the next free one, and two clusters never share    *)
(* one.                                                                    *)
LEMMA InUse ==
  ASSUME TypeOK, MapKept, mem.state = "open", NEW c \in Cluster, mem.map[c] # 0
  PROVE  /\ mem.map[c] \in Slots /\ mem.map[c] # mem.used + 1
         /\ \A d \in Cluster : mem.map[d] = mem.map[c] => d = c
<1>1. mem.used \in 0 .. Clusters /\ mem.map[c] \in 0 .. mem.used
  BY Zenon DEF MapKept, Packed
<1>2. mem.map[c] \in Slots /\ mem.map[c] # mem.used + 1
  BY <1>1, OverlayAssumption DEF Slots
<1>3. \A d \in Cluster : mem.map[d] = mem.map[c] => d = c
  BY Zenon DEF MapKept, Packed
<1> QED BY <1>2, <1>3, Zenon

(* claim's copy goes to a slot no cluster has.                             *)
LEMMA CopyStep ==
  ASSUME Inv, Copy
  PROVE  Inv'
<1>1. TypeOK /\ AtRest /\ MapKept /\ SectorsKept /\ InHand /\ op.pc \in {"copy", "entry", "data"}
  BY Zenon DEF Inv, Copy
<1>2. mem.state = "open" /\ op \in Request /\ op # Idle /\ At(op) \in Cluster
  BY <1>1, AtCluster, Zenon
<1>3. /\ op.pc = "copy" /\ mem' = mem /\ past' = past /\ op' = [op EXCEPT !.pc = "entry"]
      /\ WriteAt(CopyWrite)
  BY Zenon DEF Copy
<1>4. CopyWrite \in Buffer /\ mem.used + 1 \in Slots
  BY <1>1, <1>3, Writes, Zenon
<1>5. Wrote(CopyWrite)
  BY <1>1, <1>3, <1>4, WriteAtWrites, Zenon
<1>6. /\ op' \in Request /\ op'.pc = "entry" /\ op'.from = op.from /\ op'.to = op.to
      /\ op'.pos = op.pos /\ op'.v = op.v
  BY <1>2, <1>3, Zenon DEF Request
<1>7. CopyWrite.at = "slot" /\ CopyWrite.slot = mem.used + 1 /\ CopyWrite.part = Sector
      /\ \A s \in Sector : CopyWrite.v[s] = 0
  BY Zenon DEF CopyWrite, BaseSlot
<1>8. /\ Full \in File /\ \A c \in Cluster : Full.map[c] = mem.map[c]
      /\ \A c \in Cluster : mem.map[c] = 0 => file.map[c] = 0
  BY <1>1, <1>2, FullMap, Zenon
<1>9. /\ file' \in File /\ buf' \in Buffer /\ file'.head = file.head
      /\ buf' = CopyWrite \/ buf' = NoneBuffered
      /\ \A c \in Cluster : file'.map[c] = mem.map[c]
      /\ \A n \in Slots, s \in Sector :
            Full'.slot[n][s] = IF n = mem.used + 1 THEN 0 ELSE Full.slot[n][s]
  <2>1. ASSUME NEW n \in Slots, NEW s \in Sector
        PROVE  Full'.slot[n][s] = IF n = mem.used + 1 THEN 0 ELSE Full.slot[n][s]
    <3>1. Full'.slot[n][s] = IF CopyWrite.at = "slot" /\ n = CopyWrite.slot /\ s \in CopyWrite.part
                             THEN CopyWrite.v[s] ELSE Full.slot[n][s]
      BY <1>5, Zenon DEF Wrote
    <3> QED BY <1>7, <3>1, Zenon
  <2> QED BY <1>5, <1>8, <2>1, Zenon DEF Wrote
<1>10. buf'.at # "map" /\ (buf'.at = "slot" => buf'.slot = mem.used + 1)
  BY <1>7, <1>9 DEF NoneBuffered
<1>11. TypeOK'
  BY <1>1, <1>3, <1>6, <1>9, Zenon DEF TypeOK, Request
<1>12. AtRest'
  BY <1>2, <1>3, Zenon DEF AtRest
<1>13. MapKept'
  <2>1. file.head = "whole" /\ Packed(mem.map, mem.used)
    BY <1>1, <1>2, Zenon DEF MapKept
  <2>2. Packed(mem.map, mem.used)'
    BY <1>3, <2>1, Zenon DEF Packed
  <2> QED BY <1>3, <1>9, <1>10, <2>1, <2>2, Zenon DEF MapKept
<1>14. SectorsKept'
  <2> SUFFICES ASSUME NEW c \in Cluster, NEW s \in Sector
               PROVE  /\ mem.map[c] = 0 => past.acked[c][s] = 0
                      /\ mem.map[c] # 0 => Full'.slot[mem.map[c]][s]
                                              \in {past.acked[c][s]} \cup past.wild[c][s]
                      /\ ~Buffered(c, s)'
    BY <1>3, <1>9, Zenon DEF SectorsKept
  <2>1. mem.map[c] = 0 => past.acked[c][s] = 0
    BY <1>1, <1>2, <1>8, Zenon DEF SectorsKept
  <2>2. mem.map[c] # 0 => mem.map[c] \in Slots /\ mem.map[c] # mem.used + 1
    BY <1>1, <1>2, InUse, Zenon
  <2>3. mem.map[c] # 0 => Full'.slot[mem.map[c]][s] = Full.slot[mem.map[c]][s]
    BY <1>9, <2>2, Zenon
  <2>4. mem.used + 1 # 0
    BY <1>4 DEF Slots
  <2>5. ~Buffered(c, s)'
    BY <1>3, <1>10, <2>2, <2>4, Zenon DEF Buffered
  <2> QED BY <1>1, <1>2, <2>1, <2>3, <2>5, Zenon DEF SectorsKept
<1>15. InHand'
  <2>1. \A s \in Sector : Full'.slot[mem'.used + 1][s] = 0
    BY <1>3, <1>4, <1>9, Zenon
  <2>2. op'.pc # "data"
    BY <1>6, Zenon
  <2> QED BY <1>1, <1>2, <1>3, <1>6, <2>1, <2>2, Zenon DEF InHand, At, Part
<1> QED BY <1>11, <1>12, <1>13, <1>14, <1>15, Zenon DEF Inv

(* claim's map entry gives the cluster the slot the copy is in.            *)
LEMMA EntryStep ==
  ASSUME Inv, Entry
  PROVE  Inv'
<1> DEFINE a == At(op)
<1>1. TypeOK /\ AtRest /\ MapKept /\ SectorsKept /\ InHand /\ op.pc \in {"copy", "entry", "data"}
  BY Zenon DEF Inv, Entry
<1>2. mem.state = "open" /\ op \in Request /\ op # Idle /\ a \in Cluster
  BY <1>1, AtCluster, Zenon
<1>3. /\ op.pc = "entry" /\ past' = past /\ op' = [op EXCEPT !.pc = "data"]
      /\ mem' = [mem EXCEPT !.map[a] = mem.used + 1, !.used = @ + 1]
      /\ WriteAt(EntryWrite)
  BY Zenon DEF Entry
<1>4. EntryWrite \in Buffer /\ mem.used + 1 \in Slots /\ mem.used \in Nat /\ mem.used <= Clusters
  BY <1>1, <1>3, Writes, Zenon
<1>5. Wrote(EntryWrite)
  BY <1>1, <1>3, <1>4, WriteAtWrites, Zenon
<1>6. /\ op' \in Request /\ op'.pc = "data" /\ op'.from = op.from /\ op'.to = op.to
      /\ op'.pos = op.pos /\ op'.v = op.v
  BY <1>2, <1>3, Zenon DEF Request
<1>7. EntryWrite.at = "map" /\ EntryWrite.c = a /\ EntryWrite.entry = mem.used + 1
  BY Zenon DEF EntryWrite
<1>8. /\ Full \in File /\ \A c \in Cluster : Full.map[c] = mem.map[c]
      /\ \A c \in Cluster : mem.map[c] = 0 => file.map[c] = 0
  BY <1>1, <1>2, FullMap, Zenon
<1>9. /\ file' \in File /\ buf' \in Buffer /\ file'.head = file.head /\ buf' = EntryWrite
      /\ \A c \in Cluster : file'.map[c] = mem.map[c]
  <2>1. EntryWrite.at # "slot"
    BY <1>7, Zenon
  <2> QED BY <1>5, <2>1, <1>8, Zenon DEF Wrote
<1>10. \A n \in Slots, s \in Sector : Full'.slot[n][s] = Full.slot[n][s]
  <2>1. EntryWrite.at # "slot"
    BY <1>7, Zenon
  <2> QED BY <1>5, <2>1, Zenon DEF Wrote
<1>11. mem.map \in [Cluster -> Nat] /\ mem \in [state : {"closed", "creating", "open", "refused"},
                                                 map : [Cluster -> Nat], used : Nat]
  BY <1>1, Zenon DEF TypeOK
<1>12. /\ mem'.state = "open" /\ mem'.used = mem.used + 1
       /\ mem'.map = [mem.map EXCEPT ![a] = mem.used + 1]
       /\ mem' \in [state : {"closed", "creating", "open", "refused"},
                    map : [Cluster -> Nat], used : Nat]
  <2> HIDE DEF a
  <2>1. mem' = [mem EXCEPT !.map[a] = mem.used + 1, !.used = mem.used + 1]
    BY <1>3, <1>11, Zenon
  <2>2. mem.used + 1 \in Nat
    BY <1>4
  <2>3. mem' = [state |-> mem.state, map |-> [mem.map EXCEPT ![a] = mem.used + 1],
                used |-> mem.used + 1]
    BY <1>11, <2>1, Zenon
  <2> QED BY <1>2, <1>11, <2>2, <2>3, Zenon
<1>13. mem.map[a] = 0
  BY <1>1, <1>2, <1>3, Zenon DEF InHand
<1>14. TypeOK'
  BY <1>1, <1>3, <1>6, <1>9, <1>12, Zenon DEF TypeOK, Request
<1>15. AtRest'
  BY <1>12, Zenon DEF AtRest
<1>16. \A c \in Cluster : mem'.map[c] = IF c = a THEN mem.used + 1 ELSE mem.map[c]
  BY <1>2, <1>11, <1>12, Zenon
<1>17. MapKept'
  <2>1. file.head = "whole" /\ Packed(mem.map, mem.used)
    BY <1>1, <1>2, Zenon DEF MapKept
  <2>2. mem'.used \in 0 .. Clusters
    BY <1>4, <1>12 DEF Slots
  <2>3. ASSUME NEW c \in Cluster PROVE mem'.map[c] \in 0 .. mem'.used
    <3>1. mem.map[c] \in 0 .. mem.used
      BY <2>1, Zenon DEF Packed
    <3> QED BY <1>4, <1>12, <1>16, <3>1
  <2>4. \A c \in Cluster : mem.map[c] # mem.used + 1
    <3>1. \A c \in Cluster : mem.map[c] \in 0 .. mem.used
      BY <2>1, Zenon DEF Packed
    <3> QED BY <1>4, <3>1
  <2>5. \A c, d \in Cluster : mem'.map[c] = mem'.map[d] /\ mem'.map[c] # 0 => c = d
    BY <1>16, <2>1, <2>4, Zenon DEF Packed
  <2>6. ASSUME NEW k \in 1 .. mem'.used PROVE \E c \in Cluster : mem'.map[c] = k
    <3>1. CASE k = mem.used + 1
      BY <1>2, <1>16, <3>1, Zenon
    <3>2. CASE k # mem.used + 1
      <4>1. k \in 1 .. mem.used /\ k # 0
        BY <1>4, <1>12, <3>2
      <4>2. PICK c \in Cluster : mem.map[c] = k
        BY <2>1, <4>1, Zenon DEF Packed
      <4> QED BY <1>13, <1>16, <4>1, <4>2, Zenon
    <3> QED BY <3>1, <3>2, Zenon
  <2>7. Packed(mem.map, mem.used)'
    BY <2>2, <2>3, <2>5, <2>6, Zenon DEF Packed
  <2>8. mem.used + 1 # 0
    BY <1>4
  <2>9. /\ buf'.entry = mem'.used /\ buf'.entry # 0 /\ buf'.at = "map" /\ buf'.c = a
        /\ mem'.map[buf'.c] = buf'.entry /\ file'.map[buf'.c] = 0
    BY <1>2, <1>7, <1>9, <1>12, <1>13, <1>16, <2>8, Zenon
  <2>10. \A c \in Cluster : file'.map[c] = mem'.map[c] \/ c = a
    BY <1>9, <1>16, Zenon
  <2> QED BY <1>9, <2>1, <2>7, <2>9, <2>10, Zenon DEF MapKept
<1>18. SectorsKept'
  <2> SUFFICES ASSUME NEW c \in Cluster, NEW s \in Sector
               PROVE  /\ file'.map[c] = 0 => past.acked[c][s] = 0
                      /\ mem'.map[c] # 0 => Full'.slot[mem'.map[c]][s]
                                              \in {past.acked[c][s]} \cup past.wild[c][s]
                      /\ ~Buffered(c, s)'
    BY <1>3, Zenon DEF SectorsKept
  <2>1. mem.map[c] = 0 => past.acked[c][s] = 0
    BY <1>1, <1>2, <1>8, Zenon DEF SectorsKept
  <2>2. CASE c = a
    <3>1. Full.slot[mem.used + 1][s] = 0
      BY <1>1, <1>2, <1>3, Zenon DEF InHand
    <3>2. Full'.slot[mem'.map[c]][s] = 0
      BY <1>4, <1>10, <1>16, <2>2, <3>1, ZenonT(60)
    <3> QED BY <1>7, <1>9, <1>13, <2>1, <2>2, <3>2, Zenon DEF Buffered
  <2>3. CASE c # a
    <3>1. mem'.map[c] = mem.map[c]
      BY <1>16, <2>3, Zenon
    <3>2. mem.map[c] # 0 => mem.map[c] \in Slots
      BY <1>1, <1>2, InUse, Zenon
    <3>3. mem.map[c] # 0 => Full.slot[mem.map[c]][s] \in {past.acked[c][s]} \cup past.wild[c][s]
      BY <1>1, <1>2, Zenon DEF SectorsKept
    <3>4. ~Buffered(c, s)'
      BY <1>7, <1>9, Zenon DEF Buffered
    <3> QED BY <1>9, <1>10, <2>1, <3>1, <3>2, <3>3, <3>4, Zenon
  <2> QED BY <2>2, <2>3, Zenon
<1>19. InHand'
  <2>1. mem'.map[a] # 0
    BY <1>2, <1>4, <1>16
  <2>2. op'.pc # "entry" /\ op'.pc # "copy" /\ op.pc # "next"
    BY <1>3, <1>6, Zenon
  <2> QED BY <1>1, <1>2, <1>3, <1>6, <2>1, <2>2, Zenon DEF InHand, At, Part
<1> QED BY <1>14, <1>15, <1>17, <1>18, <1>19, Zenon DEF Inv

Past == [acked : [Cluster -> [Sector -> Int]], prev : [Cluster -> [Sector -> SUBSET Int]],
         wild : [Cluster -> [Sector -> SUBSET Int]],
         writes : Nat, faults : Nat, crashes : Nat]

(* A piece of a request reported done is what its sectors should hold; the *)
(* bytes it replaces are what they held, or may have held, before.         *)
Reported(q, o, a) ==
  /\ q \in Past
  /\ \A c \in Cluster, s \in Sector :
        /\ q.acked[c][s] = IF c = a /\ s \in Part(o, a) THEN o.v ELSE past.acked[c][s]
        /\ q.wild[c][s] = IF c = a /\ s \in Part(o, a) THEN {} ELSE past.wild[c][s]
        /\ q.prev[c][s] = IF c = a THEN {past.acked[a][s]} \cup past.wild[a][s]
                          ELSE past.prev[c][s]

(* The model's record of a piece reported done.                            *)
LEMMA AckedPast ==
  ASSUME past \in Past, NEW o, o.v \in Int, NEW a \in Cluster
  PROVE  Reported(Acked(o, a), o, a)
<1> DEFINE prev  == [past.prev EXCEPT ![a] = [s \in Sector |-> {past.acked[a][s]} \cup past.wild[a][s]]]
           acked == [past.acked EXCEPT ![a] = [s \in Sector |-> IF s \in Part(o, a) THEN o.v
                                                                ELSE past.acked[a][s]]]
           wild  == [past.wild EXCEPT ![a] = [s \in Sector |-> IF s \in Part(o, a) THEN {}
                                                               ELSE past.wild[a][s]]]
<1>1. /\ past.acked \in [Cluster -> [Sector -> Int]]
      /\ past.prev \in [Cluster -> [Sector -> SUBSET Int]]
      /\ past.wild \in [Cluster -> [Sector -> SUBSET Int]]
      /\ past.writes \in Nat /\ past.faults \in Nat /\ past.crashes \in Nat
  BY Zenon DEF Past
<1>2. Acked(o, a) = [past EXCEPT !.prev = prev, !.acked = acked, !.wild = wild]
  <2>1. /\ prev = [past.prev EXCEPT ![a] = [s \in Sector |-> {past.acked[a][s]} \cup past.wild[a][s]]]
        /\ acked = [past.acked EXCEPT ![a] = [s \in Sector |-> IF s \in Part(o, a) THEN o.v ELSE @[s]]]
        /\ wild = [past.wild EXCEPT ![a] = [s \in Sector |-> IF s \in Part(o, a) THEN {} ELSE @[s]]]
    BY <1>1, Zenon
  <2>2. Acked(o, a) =
          [past EXCEPT !.prev[a]  = [s \in Sector |-> {past.acked[a][s]} \cup past.wild[a][s]],
                       !.acked[a] = [s \in Sector |-> IF s \in Part(o, a) THEN o.v ELSE @[s]],
                       !.wild[a]  = [s \in Sector |-> IF s \in Part(o, a) THEN {} ELSE @[s]]]
    BY Zenon DEF Acked
  <2> HIDE DEF prev, acked, wild
  <2> QED BY <2>1, <2>2, Zenon DEF Past
<1>3. /\ prev \in [Cluster -> [Sector -> SUBSET Int]]
      /\ \A c \in Cluster, s \in Sector :
           prev[c][s] = IF c = a THEN {past.acked[a][s]} \cup past.wild[a][s] ELSE past.prev[c][s]
  BY <1>1
<1>4. /\ acked \in [Cluster -> [Sector -> Int]]
      /\ \A c \in Cluster, s \in Sector :
           acked[c][s] = IF c = a /\ s \in Part(o, a) THEN o.v ELSE past.acked[c][s]
  BY <1>1, Zenon
<1>5. /\ wild \in [Cluster -> [Sector -> SUBSET Int]]
      /\ \A c \in Cluster, s \in Sector :
           wild[c][s] = IF c = a /\ s \in Part(o, a) THEN {} ELSE past.wild[c][s]
  BY <1>1, Zenon
<1> HIDE DEF prev, acked, wild
<1>6. /\ Acked(o, a).prev = prev /\ Acked(o, a).acked = acked /\ Acked(o, a).wild = wild
      /\ Acked(o, a) \in Past
  BY <1>2, <1>3, <1>4, <1>5, Zenon DEF Past
<1> QED BY <1>3, <1>4, <1>5, <1>6, ZenonT(60) DEF Reported

(* The writes of a request, in a slot of its own cluster.                  *)
LEMMA DataWrites ==
  ASSUME Inv, op.pc = "data"
  PROVE  /\ mem.state = "open" /\ op \in Request /\ op # Idle /\ At(op) \in Cluster
         /\ DataWrite \in Buffer /\ DataWrite.at = "slot" /\ DataWrite.part = Part(op, At(op))
         /\ DataWrite.slot = mem.map[At(op)] /\ mem.map[At(op)] # 0
         /\ \A s \in Sector : DataWrite.v[s] = op.v
         /\ \A s \in Part(op, At(op)) : op.v \in past.wild[At(op)][s]
<1>1. TypeOK /\ AtRest /\ MapKept /\ InHand /\ op.pc \in {"copy", "entry", "data"}
  BY Zenon DEF Inv
<1>2. mem.state = "open" /\ op \in Request /\ op # Idle /\ At(op) \in Cluster
  BY <1>1, AtCluster, Zenon
<1>3. DataWrite \in Buffer
  BY <1>1, Writes, Zenon
<1>4. /\ DataWrite.at = "slot" /\ DataWrite.part = Part(op, At(op))
      /\ DataWrite.slot = mem.map[At(op)] /\ \A s \in Sector : DataWrite.v[s] = op.v
  BY Zenon DEF DataWrite
<1>5. mem.map[At(op)] # 0
  BY <1>1, <1>2, Zenon DEF InHand
<1>6. At(op) >= At(op)
  BY <1>2 DEF Cluster
<1>7. \A s \in Part(op, At(op)) : s \in Sector
  BY Zenon DEF Part
<1>8. \A s \in Part(op, At(op)) : op.v \in past.wild[At(op)][s]
  BY <1>1, <1>2, <1>6, <1>7, Zenon DEF InHand
<1> QED BY <1>2, <1>3, <1>4, <1>5, <1>8, Zenon

(* The data of a piece goes to its cluster's slot and is reported done.    *)
LEMMA DataStep ==
  ASSUME Inv, Data
  PROVE  Inv'
<1> DEFINE a == At(op)
           P == Part(op, a)
<1>1. TypeOK /\ AtRest /\ MapKept /\ SectorsKept /\ InHand
  BY Zenon DEF Inv
<1>2. /\ op.pc = "data" /\ mem' = mem /\ past' = Acked(op, a)
      /\ op' = [op EXCEPT !.pc = "next", !.pos = 2 * a + 2] /\ WriteAt(DataWrite)
  BY Zenon DEF Data
<1>3. /\ mem.state = "open" /\ op \in Request /\ op # Idle /\ a \in Cluster
      /\ DataWrite \in Buffer /\ DataWrite.at = "slot" /\ DataWrite.part = P
      /\ DataWrite.slot = mem.map[a] /\ mem.map[a] # 0
      /\ \A s \in Sector : DataWrite.v[s] = op.v
  BY <1>2, DataWrites, Zenon
<1>4. Wrote(DataWrite)
  BY <1>1, <1>2, <1>3, WriteAtWrites, Zenon
<1>5. past \in Past /\ op.v \in Int /\ a \in Nat
  <2>1. past \in Past
    BY <1>1, Zenon DEF TypeOK, Past
  <2>2. op.v \in Int /\ a \in Nat
    BY <1>3, OverlayAssumption DEF Request, Cluster
  <2> QED BY <2>1, <2>2, Zenon
<1>6. /\ past' \in Past
      /\ \A c \in Cluster, s \in Sector :
           /\ past'.acked[c][s] = IF c = a /\ s \in P THEN op.v ELSE past.acked[c][s]
           /\ past'.wild[c][s] = IF c = a /\ s \in P THEN {} ELSE past.wild[c][s]
           /\ past'.prev[c][s] = IF c = a THEN {past.acked[a][s]} \cup past.wild[a][s]
                                 ELSE past.prev[c][s]
  <2> HIDE DEF a
  <2>1. Reported(Acked(op, a), op, a)
    BY <1>3, <1>5, AckedPast, Zenon
  <2> QED BY <1>2, <2>1, Zenon DEF Reported
<1>7. /\ op' \in Request /\ op'.pc = "next" /\ op'.from = op.from /\ op'.to = op.to
      /\ op'.pos = 2 * a + 2 /\ op'.v = op.v
  <2> HIDE DEF a
  <2>1. 2 * a + 2 \in Nat
    BY <1>5
  <2> QED BY <1>2, <1>3, <2>1, Zenon DEF Request
<1> HIDE DEF a, P
<1>8. /\ Full \in File /\ \A c \in Cluster : Full.map[c] = mem.map[c]
      /\ \A c \in Cluster : mem.map[c] = 0 => file.map[c] = 0
  BY <1>1, <1>3, FullMap, Zenon
<1>9. /\ file' \in File /\ buf' \in Buffer /\ file'.head = file.head
      /\ buf' = DataWrite \/ buf' = NoneBuffered
      /\ \A c \in Cluster : file'.map[c] = mem.map[c]
  BY <1>4, <1>8, Zenon DEF Wrote
<1>10. ASSUME NEW n \in Slots, NEW s \in Sector
       PROVE  /\ Full'.slot[n][s] = IF n = mem.map[a] /\ s \in P THEN op.v ELSE Full.slot[n][s]
              /\ buf' = DataWrite => file'.slot[n][s] = Full.slot[n][s]
  <2>1. Full'.slot[n][s] = IF DataWrite.at = "slot" /\ n = DataWrite.slot /\ s \in DataWrite.part
                           THEN DataWrite.v[s] ELSE Full.slot[n][s]
    BY <1>4, Zenon DEF Wrote
  <2>2. buf' = DataWrite => file'.slot[n][s] = Full.slot[n][s]
    BY <1>4, Zenon DEF Wrote
  <2> QED BY <1>3, <2>1, <2>2, Zenon
<1>11. buf'.at # "map" /\ (buf'.at = "slot" => buf' = DataWrite)
  BY <1>3, <1>9 DEF NoneBuffered
<1>12. TypeOK'
  BY <1>1, <1>2, <1>6, <1>7, <1>9, Zenon DEF TypeOK, Request, Past
<1>13. AtRest'
  BY <1>2, <1>3, Zenon DEF AtRest
<1>14. MapKept'
  <2>1. file.head = "whole" /\ Packed(mem.map, mem.used)
    BY <1>1, <1>3, Zenon DEF MapKept
  <2>2. Packed(mem.map, mem.used)'
    BY <1>2, <2>1, Zenon DEF Packed
  <2> QED BY <1>2, <1>9, <1>11, <2>1, <2>2, Zenon DEF MapKept
<1>15. SectorsKept'
  <2> SUFFICES ASSUME NEW c \in Cluster, NEW s \in Sector
               PROVE  /\ mem.map[c] = 0 => past'.acked[c][s] = 0
                      /\ mem.map[c] # 0 => Full'.slot[mem.map[c]][s]
                                              \in {past'.acked[c][s]} \cup past'.wild[c][s]
                      /\ Buffered(c, s)' => file'.slot[mem.map[c]][s] \in past'.prev[c][s]
    BY <1>2, <1>9, Zenon DEF SectorsKept
  <2>1. mem.map[c] = 0 => past.acked[c][s] = 0
    BY <1>1, <1>3, <1>8, Zenon DEF SectorsKept
  <2>2. mem.map[c] # 0 => Full.slot[mem.map[c]][s] \in {past.acked[c][s]} \cup past.wild[c][s]
    BY <1>1, <1>3, Zenon DEF SectorsKept
  <2>3. mem.map[c] # 0 => mem.map[c] \in Slots /\ (mem.map[c] = mem.map[a] => c = a)
    BY <1>1, <1>3, InUse, Zenon
  <2>4. Buffered(c, s)' => buf' = DataWrite /\ mem.map[c] = mem.map[a]
    BY <1>2, <1>3, <1>11, Zenon DEF Buffered
  <2>5. CASE c = a
    <3>1. mem.map[a] \in Slots
      BY <1>3, <2>3, <2>5, Zenon
    <3>2. Full'.slot[mem.map[a]][s] = IF s \in P THEN op.v ELSE Full.slot[mem.map[a]][s]
      BY <1>10, <3>1, Zenon
    <3>3. Buffered(c, s)' => file'.slot[mem.map[a]][s] = Full.slot[mem.map[a]][s]
      BY <1>10, <2>4, <3>1, Zenon
    <3>4. past'.prev[a][s] = {past.acked[a][s]} \cup past.wild[a][s]
      BY <1>3, <1>6, Zenon
    <3>5. CASE s \in P
      <4>1. past'.acked[a][s] = op.v
        BY <1>3, <1>6, <3>5, Zenon
      <4> QED BY <1>3, <2>2, <2>5, <3>2, <3>3, <3>4, <3>5, <4>1, Zenon
    <3>6. CASE s \notin P
      <4>1. past'.acked[a][s] = past.acked[a][s] /\ past'.wild[a][s] = past.wild[a][s]
        BY <1>3, <1>6, <3>6, Zenon
      <4> QED BY <1>3, <2>2, <2>5, <3>2, <3>3, <3>4, <3>6, <4>1, Zenon
    <3> QED BY <3>5, <3>6, Zenon
  <2>6. CASE c # a
    <3>1. past'.acked[c][s] = past.acked[c][s] /\ past'.wild[c][s] = past.wild[c][s]
      BY <1>6, <2>6, Zenon
    <3>2. mem.map[c] # 0 => Full'.slot[mem.map[c]][s] = Full.slot[mem.map[c]][s]
      BY <1>10, <2>3, <2>6, Zenon
    <3>3. ~Buffered(c, s)'
      BY <1>3, <2>3, <2>4, <2>6, Zenon
    <3> QED BY <2>1, <2>2, <3>1, <3>2, <3>3, Zenon
  <2> QED BY <2>5, <2>6, Zenon
<1>16. InHand'
  <2>1. op'.pc = "next" /\ op'.to < 2 * Clusters
    BY <1>1, <1>3, <1>7, Zenon DEF InHand
  <2>2. At(op') = a + 1
    BY <1>5, <1>7 DEF At
  <2>3. ASSUME NEW c \in Cluster, NEW s \in Sector, c >= At(op'), s \in Part(op', c)
        PROVE  op'.v \in past'.wild[c][s]
    <3>1. c >= a /\ c # a
      BY <1>5, <2>2, <2>3, OverlayAssumption DEF Cluster
    <3>2. s \in Part(op, c)
      BY <1>7, <2>3, Zenon DEF Part
    <3>3. op.v \in past.wild[c][s]
      BY <1>1, <1>3, <3>1, <3>2, Zenon DEF InHand, a
    <3> QED BY <1>6, <1>7, <3>1, <3>3, Zenon
  <2> QED BY <2>1, <2>3, Zenon DEF InHand, At, Part
<1> QED BY <1>12, <1>13, <1>14, <1>15, <1>16, Zenon DEF Inv

(* What the guest was told of the sectors stays as it is.                  *)
SameSectors ==
  /\ past' \in Past
  /\ past'.acked = past.acked /\ past'.prev = past.prev /\ past'.wild = past.wild

(* Bytes that reach the file without being reported done harm no sector,   *)
(* if those in a slot in use are of a request still counted as under way.  *)
LEMMA PartWritten ==
  ASSUME Inv, mem.state = "open", mem' = mem, op' = Idle, SameSectors,
         NEW d, d.at = "slot", Wrote(d), buf' = NoneBuffered,
         \A c \in Cluster, s \in Sector :
            mem.map[c] # 0 /\ d.slot = mem.map[c] /\ s \in d.part => d.v[s] \in past.wild[c][s]
  PROVE  Inv'
<1>1. TypeOK /\ MapKept /\ SectorsKept
  BY Zenon DEF Inv
<1>2. /\ Full \in File /\ \A c \in Cluster : Full.map[c] = mem.map[c]
      /\ \A c \in Cluster : mem.map[c] = 0 => file.map[c] = 0
  BY <1>1, FullMap, Zenon
<1>3. /\ file' \in File /\ buf' \in Buffer /\ file'.head = file.head
      /\ \A c \in Cluster : file'.map[c] = mem.map[c]
  BY <1>2, Zenon DEF Wrote
<1>4. buf'.at # "map" /\ buf'.at # "slot"
  BY Zenon DEF NoneBuffered
<1>5. TypeOK'
  BY <1>1, <1>3, Zenon DEF TypeOK, SameSectors, Past
<1>6. AtRest'
  BY Zenon DEF AtRest
<1>7. MapKept'
  <2>1. file.head = "whole" /\ Packed(mem.map, mem.used)
    BY <1>1, Zenon DEF MapKept
  <2>2. Packed(mem.map, mem.used)'
    BY <2>1, Zenon DEF Packed
  <2> QED BY <1>3, <1>4, <2>1, <2>2, Zenon DEF MapKept
<1>8. SectorsKept'
  <2> SUFFICES ASSUME NEW c \in Cluster, NEW s \in Sector
               PROVE  /\ mem.map[c] = 0 => past.acked[c][s] = 0
                      /\ mem.map[c] # 0 => Full'.slot[mem.map[c]][s]
                                              \in {past.acked[c][s]} \cup past.wild[c][s]
                      /\ ~Buffered(c, s)'
    BY <1>3, Zenon DEF SectorsKept, SameSectors
  <2>1. mem.map[c] = 0 => past.acked[c][s] = 0
    BY <1>1, <1>2, Zenon DEF SectorsKept
  <2>2. mem.map[c] # 0 => Full.slot[mem.map[c]][s] \in {past.acked[c][s]} \cup past.wild[c][s]
    BY <1>1, Zenon DEF SectorsKept
  <2>3. mem.map[c] # 0 => mem.map[c] \in Slots
    BY <1>1, InUse, Zenon
  <2>4. mem.map[c] # 0 =>
          Full'.slot[mem.map[c]][s] = IF mem.map[c] = d.slot /\ s \in d.part
                                      THEN d.v[s] ELSE Full.slot[mem.map[c]][s]
    BY <2>3, Zenon DEF Wrote
  <2>5. ~Buffered(c, s)'
    BY <1>4, Zenon DEF Buffered
  <2> QED BY <2>1, <2>2, <2>4, <2>5, Zenon
<1>9. InHand'
  BY Zenon DEF InHand
<1> QED BY <1>5, <1>6, <1>7, <1>8, <1>9, Zenon DEF Inv

(* A step that leaves the file, the buffer and the overlay alone, and ends *)
(* the request in hand.                                                    *)
LEMMA RequestEnds ==
  ASSUME Inv, mem' = mem, file' = file, buf' = buf, op' = Idle, SameSectors
  PROVE  Inv'
<1>1. TypeOK /\ AtRest /\ MapKept /\ SectorsKept
  BY Zenon DEF Inv
<1>2. TypeOK'
  BY <1>1, Zenon DEF TypeOK, SameSectors, Past
<1>3. AtRest'
  <2> SUFFICES ASSUME mem.state # "open" PROVE AtRest'
    BY Zenon DEF AtRest
  <2>1. /\ buf = NoneBuffered
        /\ \A c \in Cluster, s \in Sector : past.acked[c][s] = Reopened(file, c, s)
        /\ file.head = "whole" => \E n \in 0 .. Clusters : Packed(file.map, n)
        /\ mem.state = "creating" => file.head = "cut" /\ \A c \in Cluster : file.map[c] = 0
    BY <1>1, Zenon DEF AtRest
  <2>2. \A c \in Cluster, s \in Sector : past'.acked[c][s] = Reopened(file', c, s)
    BY <2>1, Zenon DEF SameSectors
  <2>3. file'.head = "whole" => \E n \in 0 .. Clusters : Packed(file'.map, n)
    BY <2>1, Zenon
  <2> QED BY <2>1, <2>2, <2>3, Zenon DEF AtRest, Reopened, Packed
<1>4. MapKept'
  BY <1>1, Zenon DEF MapKept, Packed
<1>5. SectorsKept'
  BY <1>1, Zenon DEF SectorsKept, SameSectors, Full, Buffered
<1>6. InHand'
  BY Zenon DEF InHand
<1> QED BY <1>2, <1>3, <1>4, <1>5, <1>6, Zenon DEF Inv

(* A request that fails in one of its writes.                              *)
LEMMA StopStep ==
  ASSUME Inv, WriteStops
  PROVE  Inv'
<1>1. TypeOK /\ AtRest /\ MapKept /\ InHand /\ op.pc \in {"copy", "entry", "data"}
  BY Zenon DEF Inv, WriteStops
<1>2. mem' = mem /\ op' = Idle /\ past' = [past EXCEPT !.faults = @ + 1]
  BY Zenon DEF WriteStops
<1>3. SameSectors
  <2>1. past \in Past
    BY <1>1, Zenon DEF TypeOK, Past
  <2> QED BY <1>2, <2>1 DEF SameSectors, Past
<1>4. mem.state = "open"
  BY <1>1, AtCluster, Zenon
<1>5. CASE op.pc = "copy"
  <2>1. CopyWrite \in Buffer /\ WriteAtFails(CopyWrite)
    BY <1>1, <1>5, Writes, Zenon DEF WriteStops
  <2>2. SUFFICES ASSUME buf' = NoneBuffered, NEW part \in SUBSET CopyWrite.part,
                        Wrote([CopyWrite EXCEPT !.part = part])
                 PROVE  Inv'
    BY <1>1, <1>2, <1>3, <2>1, FailedWrite, RequestEnds, Zenon
  <2> DEFINE d == [CopyWrite EXCEPT !.part = part]
  <2>3. d.at = "slot" /\ d.slot = mem.used + 1
    BY Zenon DEF CopyWrite
  <2>4. \A c \in Cluster : mem.map[c] # 0 => mem.map[c] # mem.used + 1
    BY <1>1, <1>4, InUse, Zenon
  <2> HIDE DEF d
  <2> QED BY <1>2, <1>3, <1>4, <2>2, <2>3, <2>4, PartWritten, Zenon DEF d
<1>6. CASE op.pc = "entry"
  <2>1. EntryWrite \in Buffer /\ WriteAtFails(EntryWrite)
    BY <1>1, <1>6, Writes, Zenon DEF WriteStops
  <2>2. EntryWrite.at # "slot"
    BY Zenon DEF EntryWrite
  <2> QED BY <1>1, <1>2, <1>3, <2>1, <2>2, FailedWrite, RequestEnds, Zenon
<1>7. CASE op.pc = "data"
  <2>1. DataWrite \in Buffer /\ WriteAtFails(DataWrite)
    BY <1>1, <1>7, Writes, Zenon DEF WriteStops
  <2>2. SUFFICES ASSUME buf' = NoneBuffered, NEW part \in SUBSET DataWrite.part,
                        Wrote([DataWrite EXCEPT !.part = part])
                 PROVE  Inv'
    BY <1>1, <1>2, <1>3, <2>1, FailedWrite, RequestEnds, Zenon
  <2> DEFINE d == [DataWrite EXCEPT !.part = part]
  <2>3. /\ d.at = "slot" /\ d.slot = mem.map[At(op)] /\ d.part = part
        /\ \A s \in Sector : d.v[s] = op.v
    BY Zenon DEF DataWrite
  <2>4. /\ At(op) \in Cluster /\ mem.map[At(op)] # 0 /\ part \subseteq Part(op, At(op))
        /\ \A s \in Part(op, At(op)) : op.v \in past.wild[At(op)][s]
    BY <1>7, <2>2, DataWrites, Zenon
  <2>5. \A c \in Cluster : mem.map[c] = mem.map[At(op)] => c = At(op)
    BY <1>1, <1>4, <2>4, InUse, Zenon
  <2> HIDE DEF d
  <2>6. \A c \in Cluster, s \in Sector :
           mem.map[c] # 0 /\ d.slot = mem.map[c] /\ s \in d.part => d.v[s] \in past.wild[c][s]
    BY <2>3, <2>4, <2>5, Zenon
  <2> QED BY <1>2, <1>3, <1>4, <2>2, <2>3, <2>6, PartWritten, Zenon DEF d
<1> QED BY <1>1, <1>5, <1>6, <1>7, Zenon

Mem == [state : {"closed", "creating", "open", "refused"}, map : [Cluster -> Nat], used : Nat]

(* A file opened again after a crash or a close says what its sectors      *)
(* hold from then on.                                                      *)
LEMMA RestartStep ==
  ASSUME Inv, NEW f \in File, Restart(f),
         f.head = "whole" => \E n \in 0 .. Clusters : Packed(f.map, n)
  PROVE  Inv'
<1> DEFINE acked == [c \in Cluster |-> [s \in Sector |-> Reopened(f, c, s)]]
           none  == [c \in Cluster |-> [s \in Sector |-> {}]]
<1>1. mem \in Mem /\ past \in Past
  BY Zenon DEF Inv, TypeOK, Mem, Past
<1>2. /\ file' = f /\ mem' = [mem EXCEPT !.state = "closed"] /\ buf' = NoneBuffered /\ op' = Idle
      /\ past' = [past EXCEPT !.crashes = @ + 1, !.acked = acked, !.prev = none, !.wild = none]
  BY Zenon DEF Restart
<1>3. ASSUME NEW c \in Cluster, NEW s \in Sector PROVE Reopened(f, c, s) \in Int
  <2>1. CASE f.head = "whole" /\ f.map[c] # 0
    <3>1. PICK n \in 0 .. Clusters : f.map[c] \in 0 .. n
      BY <2>1, Zenon DEF Packed
    <3>2. f.map[c] \in Slots
      BY <2>1, <3>1, OverlayAssumption DEF Slots
    <3>3. f.slot \in [Slots -> [Sector -> Int]]
      BY Zenon DEF File
    <3> QED BY <2>1, <3>2, <3>3, Zenon DEF Reopened
  <2>2. CASE ~(f.head = "whole" /\ f.map[c] # 0)
    BY <2>2 DEF Reopened
  <2> QED BY <2>1, <2>2, Zenon
<1>4. acked \in [Cluster -> [Sector -> Int]] /\ none \in [Cluster -> [Sector -> SUBSET Int]]
  <2>1. acked \in [Cluster -> [Sector -> Int]]
    BY <1>3, Zenon
  <2>2. none \in [Cluster -> [Sector -> SUBSET Int]]
    BY Zenon
  <2> QED BY <2>1, <2>2, Zenon
<1>5. past'.acked = acked /\ past' \in Past
  <2> HIDE DEF acked, none
  <2>1. past' = [past EXCEPT !.crashes = past.crashes + 1, !.acked = acked, !.prev = none, !.wild = none]
    BY <1>1, <1>2, Zenon DEF Past
  <2>2. past.crashes + 1 \in Nat
    BY <1>1 DEF Past
  <2>3. past' = [acked |-> acked, prev |-> none, wild |-> none, writes |-> past.writes,
                 faults |-> past.faults, crashes |-> past.crashes + 1]
    BY <1>1, <2>1, Zenon DEF Past
  <2> QED BY <1>1, <1>4, <2>2, <2>3, Zenon DEF Past
<1>6. mem'.state = "closed" /\ mem' \in Mem
  BY <1>1, <1>2, Zenon DEF Mem
<1>7. TypeOK'
  <2>1. NoneBuffered \in Buffer
    BY Zenon DEF Buffer
  <2> QED BY <1>2, <1>5, <1>6, <2>1, Zenon DEF TypeOK, Mem, Past
<1>8. AtRest'
  <2>1. \A c \in Cluster, s \in Sector : acked[c][s] = Reopened(file', c, s)
    BY <1>2, Zenon
  <2> HIDE DEF acked
  <2>2. \A c \in Cluster, s \in Sector : past'.acked[c][s] = Reopened(file', c, s)
    BY <1>5, <2>1, Zenon
  <2>3. file'.head = "whole" => \E n \in 0 .. Clusters : Packed(file'.map, n)
    BY <1>2, Zenon
  <2> QED BY <1>2, <1>6, <2>2, <2>3, Zenon DEF AtRest, Reopened, Packed
<1>9. MapKept' /\ SectorsKept' /\ InHand'
  BY <1>2, <1>6, Zenon DEF MapKept, SectorsKept, InHand
<1> QED BY <1>7, <1>8, <1>9, Zenon DEF Inv

(* The file a killed emulator leaves lacks at most the last entry.         *)
LEMMA KilledStep ==
  ASSUME Inv, Killed
  PROVE  Inv'
<1>1. TypeOK /\ AtRest /\ MapKept /\ file \in File
  BY Zenon DEF Inv, TypeOK
<1>2. SUFFICES ASSUME file.head = "whole"
               PROVE  \E n \in 0 .. Clusters : Packed(file.map, n)
  BY <1>1, RestartStep, Zenon DEF Killed
<1>3. CASE mem.state # "open"
  BY <1>1, <1>2, <1>3, Zenon DEF AtRest
<1>4. CASE mem.state = "open" /\ buf.at # "map"
  <2>1. Packed(mem.map, mem.used) /\ \A c \in Cluster : file.map[c] = mem.map[c]
    BY <1>1, <1>4, Zenon DEF MapKept
  <2>2. mem.used \in 0 .. Clusters /\ Packed(file.map, mem.used)
    BY <2>1, Zenon DEF Packed
  <2> QED BY <2>2, Zenon
<1>5. CASE mem.state = "open" /\ buf.at = "map"
  <2> DEFINE n == mem.used - 1
  <2>1. /\ Packed(mem.map, mem.used)
        /\ buf.entry = mem.used /\ buf.entry # 0 /\ mem.map[buf.c] = buf.entry
        /\ file.map[buf.c] = 0
        /\ \A c \in Cluster : file.map[c] = mem.map[c] \/ buf.c = c
    BY <1>1, <1>5, Zenon DEF MapKept
  <2>2. buf.c \in Cluster
    BY <1>1, <1>5 DEF TypeOK, Buffer, NoneBuffered
  <2>3. mem.used \in 0 .. Clusters
    BY <2>1, Zenon DEF Packed
  <2>4. n \in 0 .. Clusters /\ mem.used \in Nat /\ mem.used # 0
    BY <2>1, <2>3, OverlayAssumption
  <2>5. ASSUME NEW c \in Cluster PROVE file.map[c] \in 0 .. n
    <3>1. CASE c = buf.c
      BY <2>1, <2>4, <3>1
    <3>2. CASE c # buf.c
      <4>1. mem.map[c] \in 0 .. mem.used /\ mem.map[c] # mem.used /\ file.map[c] = mem.map[c]
        BY <2>1, <2>2, <3>2, Zenon DEF Packed
      <4> QED BY <2>4, <4>1
    <3> QED BY <3>1, <3>2, Zenon
  <2>6. ASSUME NEW c \in Cluster, NEW d \in Cluster, file.map[c] = file.map[d], file.map[c] # 0
        PROVE  c = d
    <3>1. file.map[c] = mem.map[c] /\ file.map[d] = mem.map[d]
      BY <2>1, <2>6, Zenon
    <3> QED BY <2>1, <2>6, <3>1, Zenon DEF Packed
  <2>7. ASSUME NEW k \in 1 .. n PROVE \E c \in Cluster : file.map[c] = k
    <3>1. k \in 1 .. mem.used /\ k # mem.used
      BY <2>4
    <3>2. PICK c \in Cluster : mem.map[c] = k
      BY <2>1, <3>1, Zenon DEF Packed
    <3> QED BY <2>1, <3>1, <3>2, Zenon
  <2> HIDE DEF n
  <2> QED BY <2>4, <2>5, <2>6, <2>7, Zenon DEF Packed
<1> QED BY <1>3, <1>4, <1>5, Zenon

(* ~CDiskOverlay leaves the full file.                                     *)
LEMMA CloseStep ==
  ASSUME Inv, Close
  PROVE  Inv'
<1>1. TypeOK /\ AtRest /\ MapKept /\ file \in File /\ buf \in Buffer /\ Restart(Full)
  BY Zenon DEF Inv, TypeOK, Close, Full
<1>2. Full \in File
  BY <1>1, Out, Zenon DEF Full, After
<1>3. SUFFICES ASSUME Full.head = "whole"
               PROVE  \E n \in 0 .. Clusters : Packed(Full.map, n)
  BY <1>1, <1>2, RestartStep, Zenon
<1>4. CASE mem.state # "open"
  <2>1. Full = file
    BY <1>1, <1>4 DEF AtRest, Full, WrittenOut, NoneBuffered
  <2> QED BY <1>1, <1>3, <1>4, <2>1, Zenon DEF AtRest
<1>5. CASE mem.state = "open"
  <2>1. Packed(mem.map, mem.used) /\ \A c \in Cluster : Full.map[c] = mem.map[c]
    BY <1>1, <1>5, FullMap, Zenon DEF MapKept
  <2>2. mem.used \in 0 .. Clusters /\ Packed(Full.map, mem.used)
    BY <2>1, Zenon DEF Packed
  <2> QED BY <2>2, Zenon
<1> QED BY <1>4, <1>5, Zenon

(* The slots in use are the largest entry's.                               *)
LEMMA LastUsed ==
  ASSUME NEW map, NEW n, Packed(map, n)
  PROVE  LastSlot(map) = n
<1> DEFINE S == {0} \cup {map[c] : c \in Cluster}
<1>1. n \in Nat /\ \A c \in Cluster : map[c] \in Nat /\ map[c] <= n
  BY OverlayAssumption DEF Packed
<1>2. n = 0 \/ \E c \in Cluster : map[c] = n
  <2>1. n = 0 \/ n \in 1 .. n
    BY <1>1
  <2> QED BY <2>1, Zenon DEF Packed
<1>3. ASSUME NEW k \in S, \A c \in Cluster : map[c] <= k
      PROVE  k = n
  <2>1. k \in Nat /\ k <= n
    BY <1>1
  <2>2. n <= k
    BY <1>1, <1>2, <1>3, <2>1
  <2> QED BY <1>1, <2>1, <2>2
<1>4. n \in S
  BY <1>2, Zenon
<1> HIDE DEF S
<1>5. LastSlot(map) = CHOOSE k \in S : \A c \in Cluster : map[c] <= k
  BY Zenon DEF LastSlot, S
<1>6. \E k \in S : \A c \in Cluster : map[c] <= k
  BY <1>1, <1>4, Zenon
<1> QED BY <1>3, <1>5, <1>6, Zenon

(* open, of a file there is: the sectors hold what the file says.          *)
LEMMA OpenStep ==
  ASSUME Inv, mem.state # "open", op' = op, buf' = buf, past' = past,
         file' \in File, file'.head = "whole", mem' \in Mem, mem'.state = "open",
         mem'.map = file'.map, Packed(mem'.map, mem'.used),
         \A c \in Cluster, s \in Sector : past.acked[c][s] = Reopened(file', c, s)
  PROVE  Inv'
<1>1. buf = NoneBuffered /\ op = Idle /\ TypeOK
  BY Zenon DEF Inv, AtRest
<1>2. buf'.at # "map" /\ buf'.at # "slot" /\ op' = Idle /\ Full' = file'
  BY <1>1, Zenon DEF NoneBuffered, Full, WrittenOut
<1>3. TypeOK'
  BY <1>1, Zenon DEF TypeOK, Mem
<1>4. AtRest'
  BY Zenon DEF AtRest
<1>5. MapKept'
  <2>1. Packed(mem.map, mem.used)'
    BY Zenon DEF Packed
  <2> QED BY <1>2, <2>1, Zenon DEF MapKept
<1>6. SectorsKept'
  <2> SUFFICES ASSUME NEW c \in Cluster, NEW s \in Sector
               PROVE  /\ file'.map[c] = 0 => past.acked[c][s] = 0
                      /\ file'.map[c] # 0 => file'.slot[file'.map[c]][s]
                                              \in {past.acked[c][s]} \cup past.wild[c][s]
                      /\ ~Buffered(c, s)'
    BY <1>2, Zenon DEF SectorsKept
  <2>1. past.acked[c][s] = IF file'.map[c] # 0 THEN file'.slot[file'.map[c]][s] ELSE 0
    BY Zenon DEF Reopened
  <2>2. ~Buffered(c, s)'
    BY <1>2, Zenon DEF Buffered
  <2> QED BY <2>1, <2>2, Zenon
<1>7. InHand'
  BY <1>2, Zenon DEF InHand
<1> QED BY <1>3, <1>4, <1>5, <1>6, <1>7, Zenon DEF Inv

(* open: the file is read, created or refused.                             *)
LEMMA Opening ==
  ASSUME Inv, OpenCreates \/ HeadWritten \/ OpenRefused \/ OpenExisting
  PROVE  Inv'
<1>1. mem \in Mem /\ file \in File /\ AtRest /\ TypeOK
  BY Zenon DEF Inv, TypeOK, Mem
<1>2. CASE OpenCreates
  <2>1. /\ mem.state = "closed" /\ file.head = "absent" /\ file' = NewFile
        /\ mem' = [mem EXCEPT !.state = "creating"] /\ buf' = buf /\ op' = op /\ past' = past
    BY <1>2, Zenon DEF OpenCreates
  <2>2. /\ NewFile \in File /\ NewFile.head = "cut"
        /\ \A c \in Cluster : NewFile.map[c] = 0
    BY DEF NewFile, File, BlankSlot, Blank
  <2>3. mem' \in Mem /\ mem'.state = "creating"
    BY <1>1, <2>1, Zenon DEF Mem
  <2>4. buf = NoneBuffered /\ op = Idle
    BY <1>1, <2>1, Zenon DEF AtRest
  <2>5. \A c \in Cluster, s \in Sector : past'.acked[c][s] = Reopened(file', c, s)
    BY <1>1, <2>1, <2>2, Zenon DEF AtRest, Reopened
  <2>6. TypeOK'
    BY <1>1, <2>1, <2>2, <2>3, Zenon DEF TypeOK, Mem
  <2>7. AtRest'
    BY <2>1, <2>2, <2>3, <2>4, <2>5, Zenon DEF AtRest, Reopened, Packed
  <2>8. MapKept' /\ SectorsKept' /\ InHand'
    BY <2>1, <2>3, <2>4, Zenon DEF MapKept, SectorsKept, InHand
  <2> QED BY <2>6, <2>7, <2>8, Zenon DEF Inv
<1>3. CASE HeadWritten
  <2>1. /\ mem.state = "creating" /\ file' = [file EXCEPT !.head = "whole"]
        /\ mem' = [state |-> "open", map |-> [c \in Cluster |-> 0], used |-> 0]
        /\ buf' = buf /\ op' = op /\ past' = past
    BY <1>3, Zenon DEF HeadWritten
  <2>2. file' \in File /\ file'.head = "whole" /\ file'.map = file.map
    BY <1>1, <2>1, Zenon DEF File
  <2>3. file.head = "cut" /\ \A c \in Cluster : file.map[c] = 0
    BY <1>1, <2>1, Zenon DEF AtRest
  <2>4. mem' \in Mem /\ mem'.state = "open" /\ Packed(mem'.map, mem'.used)
    BY <2>1, OverlayAssumption DEF Mem, Packed
  <2>5. mem'.map = file'.map
    BY <1>1, <2>1, <2>2, <2>3, Zenon DEF File
  <2>6. \A c \in Cluster, s \in Sector : past.acked[c][s] = Reopened(file', c, s)
    BY <1>1, <2>1, <2>2, <2>3, Zenon DEF AtRest, Reopened
  <2> QED BY <2>1, <2>2, <2>4, <2>5, <2>6, OpenStep, Zenon
<1>4. CASE OpenRefused
  <2>1. /\ mem.state = "closed" /\ file.head = "cut" /\ mem' = [mem EXCEPT !.state = "refused"]
        /\ file' = file /\ buf' = buf /\ op' = op /\ past' = past
    BY <1>4, Zenon DEF OpenRefused
  <2>2. mem' \in Mem /\ mem'.state = "refused"
    BY <1>1, <2>1, Zenon DEF Mem
  <2>3. buf = NoneBuffered /\ op = Idle
    BY <1>1, <2>1, Zenon DEF AtRest
  <2>4. \A c \in Cluster, s \in Sector : past'.acked[c][s] = Reopened(file', c, s)
    BY <1>1, <2>1, Zenon DEF AtRest
  <2>5. TypeOK'
    BY <1>1, <2>1, <2>2, Zenon DEF TypeOK, Mem
  <2>6. AtRest'
    BY <2>1, <2>2, <2>3, <2>4, Zenon DEF AtRest, Reopened, Packed
  <2>7. MapKept' /\ SectorsKept' /\ InHand'
    BY <2>1, <2>2, <2>3, Zenon DEF MapKept, SectorsKept, InHand
  <2> QED BY <2>5, <2>6, <2>7, Zenon DEF Inv
<1>5. CASE OpenExisting
  <2>1. /\ mem.state = "closed" /\ file.head = "whole"
        /\ mem' = [state |-> "open", map |-> file.map, used |-> LastSlot(file.map)]
        /\ file' = file /\ buf' = buf /\ op' = op /\ past' = past
    BY <1>5, Zenon DEF OpenExisting
  <2>2. PICK n \in 0 .. Clusters : Packed(file.map, n)
    BY <1>1, <2>1, Zenon DEF AtRest
  <2>3. LastSlot(file.map) = n
    BY <2>2, LastUsed, Zenon
  <2>4. /\ mem'.state = "open" /\ mem'.map = file.map /\ mem'.used = n /\ mem' \in Mem
    BY <1>1, <2>1, <2>3, OverlayAssumption DEF Mem, File
  <2>5. \A c \in Cluster, s \in Sector : past.acked[c][s] = Reopened(file', c, s)
    BY <1>1, <2>1, Zenon DEF AtRest
  <2>6. Packed(mem'.map, mem'.used)
    BY <2>2, <2>4, Zenon
  <2> QED BY <1>1, <2>1, <2>4, <2>5, <2>6, OpenStep, Zenon
<1> QED BY <1>2, <1>3, <1>4, <1>5, Zenon

(* A request begins: its bytes may be in its sectors from now on.          *)
LEMMA WriteStep ==
  ASSUME Inv, Write
  PROVE  Inv'
<1>1. TypeOK /\ AtRest /\ MapKept /\ SectorsKept /\ past \in Past
  BY Zenon DEF Inv, TypeOK, Past
<1>2. PICK from \in 0 .. 2 * Clusters - 1, n \in 1 .. 3 :
        LET o == [pc |-> "next", from |-> from, to |-> from + n - 1, pos |-> from,
                  v |-> past.writes + 1]
        IN  /\ from + n <= 2 * Clusters /\ op' = o
            /\ past' = [past EXCEPT !.writes = @ + 1,
                          !.wild = [c \in Cluster |-> [s \in Sector |->
                                      @[c][s] \cup (IF s \in Part(o, c) THEN {o.v} ELSE {})]]]
  BY Zenon DEF Write
<1> DEFINE o == [pc |-> "next", from |-> from, to |-> from + n - 1, pos |-> from,
                 v |-> past.writes + 1]
           wild == [c \in Cluster |-> [s \in Sector |->
                      past.wild[c][s] \cup (IF s \in Part(o, c) THEN {o.v} ELSE {})]]
<1>3. /\ from \in Nat /\ n \in Nat /\ from + n <= 2 * Clusters /\ n >= 1
      /\ past.writes + 1 \in Nat /\ from + n - 1 \in Nat
  BY <1>1, <1>2, OverlayAssumption DEF Past
<1>4. /\ mem.state = "open" /\ mem' = mem /\ file' = file /\ buf' = buf
      /\ op' = o
  BY <1>2, Zenon DEF Write
<1>5. /\ o \in Request /\ o.pc = "next" /\ o.pos = from /\ o.to = from + n - 1
      /\ o.v \in Int
  BY <1>3 DEF Request
<1>6. wild \in [Cluster -> [Sector -> SUBSET Int]]
  <2> HIDE DEF o
  <2>1. past.wild \in [Cluster -> [Sector -> SUBSET Int]]
    BY <1>1, Zenon DEF Past
  <2> QED BY <1>5, <2>1, Zenon
<1>7. \A c \in Cluster, s \in Sector :
        wild[c][s] = past.wild[c][s] \cup (IF s \in Part(o, c) THEN {o.v} ELSE {})
  <2> HIDE DEF o
  <2> QED BY Zenon
<1>8. past' = [past EXCEPT !.writes = past.writes + 1, !.wild = wild]
  BY <1>1, <1>2, Zenon DEF Past
<1> HIDE DEF wild, o
<1>9. past' \in Past /\ past'.acked = past.acked /\ past'.prev = past.prev /\ past'.wild = wild
  BY <1>1, <1>3, <1>6, <1>8, Zenon DEF Past
<1>10. \A c \in Cluster, s \in Sector :
         past.wild[c][s] \subseteq past'.wild[c][s] /\ (s \in Part(o, c) => o.v \in past'.wild[c][s])
  BY <1>7, <1>9, Zenon
<1>11. TypeOK'
  BY <1>1, <1>4, <1>5, <1>9, Zenon DEF TypeOK, Request, Past
<1>12. AtRest'
  BY <1>4, Zenon DEF AtRest
<1>13. MapKept'
  BY <1>1, <1>4, Zenon DEF MapKept, Packed
<1>14. SectorsKept'
  <2>1. Full' = Full /\ \A c \in Cluster, s \in Sector : Buffered(c, s)' <=> Buffered(c, s)
    BY <1>4, Zenon DEF Full, Buffered
  <2> SUFFICES ASSUME NEW c \in Cluster, NEW s \in Sector
               PROVE  /\ file.map[c] = 0 => past.acked[c][s] = 0
                      /\ mem.map[c] # 0 => Full.slot[mem.map[c]][s]
                                              \in {past.acked[c][s]} \cup past'.wild[c][s]
                      /\ Buffered(c, s) => file.slot[mem.map[c]][s] \in past.prev[c][s]
    BY <1>4, <1>9, <2>1, Zenon DEF SectorsKept
  <2>2. /\ file.map[c] = 0 => past.acked[c][s] = 0
        /\ mem.map[c] # 0 => Full.slot[mem.map[c]][s] \in {past.acked[c][s]} \cup past.wild[c][s]
        /\ Buffered(c, s) => file.slot[mem.map[c]][s] \in past.prev[c][s]
    BY <1>1, <1>4, Zenon DEF SectorsKept
  <2>3. past.wild[c][s] \subseteq past'.wild[c][s]
    BY <1>10, Zenon
  <2> QED BY <2>2, <2>3, Zenon
<1>15. InHand'
  <2>1. op'.to < 2 * Clusters
    BY <1>3, <1>4, <1>5, OverlayAssumption
  <2>2. op'.pc = "next" /\ op'.pc \notin {"copy", "entry"} /\ op'.pc # "data" /\ op'.pc # "entry"
    BY <1>4, <1>5, Zenon
  <2>3. \A c \in Cluster, s \in Sector : s \in Part(op', c) => op'.v \in past'.wild[c][s]
    BY <1>4, <1>10, ZenonT(60)
  <2> QED BY <2>1, <2>2, <2>3, Zenon DEF InHand, Part
<1> QED BY <1>11, <1>12, <1>13, <1>14, <1>15, Zenon DEF Inv

(* A request looks at its next cluster.                                    *)
LEMMA PieceStep ==
  ASSUME Inv, Piece
  PROVE  Inv'
<1>1. TypeOK /\ AtRest /\ MapKept /\ SectorsKept /\ InHand
  BY Zenon DEF Inv
<1>2. /\ op.pc = "next" /\ op.pos <= op.to /\ mem' = mem /\ file' = file /\ buf' = buf /\ past' = past
      /\ op' = [op EXCEPT !.pc = IF mem.map[At(op)] = 0 THEN "copy" ELSE "data"]
  BY Zenon DEF Piece
<1>3. op # Idle /\ op \in Request
  <2>1. op # Idle
    BY <1>2 DEF Idle
  <2> QED BY <1>1, <2>1, Zenon DEF TypeOK, Request
<1>4. mem.state = "open"
  BY <1>1, <1>3, Zenon DEF AtRest
<1>5. /\ op' \in Request /\ op'.from = op.from /\ op'.to = op.to /\ op'.pos = op.pos /\ op'.v = op.v
      /\ op'.pc = IF mem.map[At(op)] = 0 THEN "copy" ELSE "data"
  BY <1>2, <1>3, Zenon DEF Request
<1>6. TypeOK'
  BY <1>1, <1>2, <1>5, Zenon DEF TypeOK, Request
<1>7. AtRest'
  BY <1>2, <1>4, Zenon DEF AtRest
<1>8. MapKept'
  BY <1>1, <1>2, Zenon DEF MapKept, Packed
<1>9. SectorsKept'
  BY <1>1, <1>2, Zenon DEF SectorsKept, Full, Buffered
<1>10. InHand'
  <2>1. At(op') = At(op) /\ \A c \in Cluster : Part(op', c) = Part(op, c)
    BY <1>5, Zenon DEF At, Part
  <2>2. /\ op'.pc # "entry" /\ (op'.pc \in {"copy", "entry"} => mem'.map[At(op')] = 0)
        /\ (op'.pc = "data" => mem'.map[At(op')] # 0)
    BY <1>2, <1>5, <2>1
  <2>3. op'.to < 2 * Clusters /\ op'.pos <= op'.to
    BY <1>1, <1>2, <1>3, <1>5, Zenon DEF InHand
  <2>4. \A c \in Cluster, s \in Sector :
          c >= At(op') /\ s \in Part(op', c) => op'.v \in past'.wild[c][s]
    BY <1>1, <1>2, <1>3, <1>5, <2>1, Zenon DEF InHand
  <2> QED BY <2>2, <2>3, <2>4, Zenon DEF InHand, At, Part
<1> QED BY <1>6, <1>7, <1>8, <1>9, <1>10, Zenon DEF Inv

(* A flush, or a read's seek.                                              *)
LEMMA FlushStep ==
  ASSUME Inv, Flush
  PROVE  Inv'
<1>1. TypeOK /\ AtRest /\ MapKept /\ SectorsKept
  BY Zenon DEF Inv
<1>2. /\ mem.state = "open" /\ op = Idle /\ file' = Full /\ buf' = NoneBuffered
      /\ mem' = mem /\ op' = op /\ past' = past
  BY Zenon DEF Flush, SeekOk, Full
<1>3. /\ Full \in File /\ Full.head = "whole" /\ \A c \in Cluster : Full.map[c] = mem.map[c]
      /\ \A c \in Cluster : mem.map[c] = 0 => file.map[c] = 0
  BY <1>1, <1>2, FullMap, Zenon
<1>4. buf'.at # "map" /\ buf'.at # "slot" /\ buf' \in Buffer /\ Full' = Full
  BY <1>2, Zenon DEF NoneBuffered, Buffer, Full, WrittenOut
<1>5. TypeOK'
  BY <1>1, <1>2, <1>3, <1>4, Zenon DEF TypeOK
<1>6. AtRest'
  BY <1>2, Zenon DEF AtRest
<1>7. MapKept'
  <2>1. Packed(mem.map, mem.used)
    BY <1>1, <1>2, Zenon DEF MapKept
  <2>2. Packed(mem.map, mem.used)'
    BY <1>2, <2>1, Zenon DEF Packed
  <2> QED BY <1>2, <1>3, <1>4, <2>2, Zenon DEF MapKept
<1>8. SectorsKept'
  <2>1. \A c \in Cluster, s \in Sector : ~Buffered(c, s)'
    BY <1>4, Zenon DEF Buffered
  <2>2. \A c \in Cluster, s \in Sector : file'.map[c] = 0 => past'.acked[c][s] = 0
    BY <1>1, <1>2, <1>3, Zenon DEF SectorsKept
  <2> QED BY <1>1, <1>2, <1>4, <2>1, <2>2, Zenon DEF SectorsKept
<1>9. InHand'
  BY <1>2, Zenon DEF InHand
<1> QED BY <1>5, <1>6, <1>7, <1>8, <1>9, Zenon DEF Inv

(* No file, nothing written.                                               *)
LEMMA InvInit ==
  ASSUME Init
  PROVE  Inv
<1>1. mem.state = "closed" /\ file.head = "absent" /\ buf = NoneBuffered /\ op = Idle
  BY Zenon DEF Init, NewFile
<1>2. TypeOK
  <2>1. mem \in Mem
    BY Zenon DEF Init, Mem
  <2>2. file \in File
    BY DEF Init, NewFile, File, BlankSlot, Blank
  <2>3. past \in Past
    BY DEF Init, Past, BaseSlot
  <2>4. buf \in Buffer
    BY <1>1, Zenon DEF Buffer
  <2> QED BY <1>1, <2>1, <2>2, <2>3, <2>4, Zenon DEF TypeOK, Mem, Past
<1>3. AtRest
  <2>1. \A c \in Cluster, s \in Sector : past.acked[c][s] = 0
    BY Zenon DEF Init, BaseSlot
  <2> QED BY <1>1, <2>1, Zenon DEF AtRest, Reopened
<1>4. MapKept /\ SectorsKept /\ InHand
  BY <1>1, Zenon DEF MapKept, SectorsKept, InHand
<1> QED BY <1>2, <1>3, <1>4, Zenon DEF Inv

(* Every step keeps the invariant.                                         *)
LEMMA InvStep ==
  ASSUME Inv, [Next]_ovVars
  PROVE  Inv'
<1>1. CASE WriteDone
  <2>1. SameSectors
    BY <1>1, Zenon DEF WriteDone, SameSectors, Inv, TypeOK, Past
  <2> QED BY <1>1, <2>1, RequestEnds, Zenon DEF WriteDone
<1>2. CASE UNCHANGED ovVars
  <2>1. mem' = mem /\ file' = file /\ buf' = buf /\ op' = op /\ past' = past
    BY <1>2, Zenon DEF ovVars
  <2>2. CASE op = Idle
    <3>1. SameSectors
      BY <2>1, Zenon DEF SameSectors, Inv, TypeOK, Past
    <3> QED BY <2>1, <2>2, <3>1, RequestEnds, Zenon
  <2>3. CASE op # Idle
    <3>1. mem.state = "open"
      BY <2>3, Zenon DEF Inv, AtRest
    <3>2. TypeOK' /\ AtRest'
      BY <2>1, <3>1, Zenon DEF Inv, TypeOK, AtRest
    <3>3. MapKept'
      BY <2>1, Zenon DEF Inv, MapKept, Packed
    <3>4. SectorsKept'
      BY <2>1, Zenon DEF Inv, SectorsKept, Full, Buffered
    <3>5. InHand'
      BY <2>1, Zenon DEF Inv, InHand, Full, At, Part
    <3> QED BY <3>2, <3>3, <3>4, <3>5, Zenon DEF Inv
  <2> QED BY <2>2, <2>3, Zenon
<1> QED BY <1>1, <1>2, Opening, WriteStep, PieceStep, CopyStep, EntryStep, DataStep, StopStep,
           FlushStep, KilledStep, CloseStep, Zenon DEF Next

(* What a killed emulator leaves of a disk: in every reachable state the   *)
(* invariant of the file, its buffer and the request in hand holds.        *)
THEOREM OverlayInvariant ==
  Spec => []Inv
<1>1. Init => Inv
  BY InvInit, Zenon
<1>2. Inv /\ [Next]_ovVars => Inv'
  BY InvStep, Zenon
<1> QED BY <1>1, <1>2, PTL DEF Spec

(* Killed in any state and opened again, an overlay of any size gives of   *)
(* every sector the last write reported done, or one that failed or is     *)
(* under way; only the write in the stream's buffer can be lost.           *)
THEOREM OverlayKeepsWrites ==
  Spec => []LosesOnlyInFlight
<1>1. ASSUME Inv PROVE LosesOnlyInFlight
  <2> SUFFICES ASSUME NEW c \in Cluster, NEW s \in Sector
               PROVE  Reopened(file, c, s) \in {past.acked[c][s]} \cup past.wild[c][s]
                                \cup (IF Buffered(c, s) THEN past.prev[c][s] ELSE {})
    BY Zenon DEF LosesOnlyInFlight
  <2>1. TypeOK /\ AtRest /\ MapKept /\ SectorsKept
    BY <1>1, Zenon DEF Inv
  <2>2. CASE mem.state # "open"
    BY <2>1, <2>2, Zenon DEF AtRest
  <2>3. CASE mem.state = "open" /\ file.map[c] = 0
    BY <2>1, <2>3, Zenon DEF SectorsKept, Reopened
  <2>4. CASE mem.state = "open" /\ file.map[c] # 0
    <3>1. file.head = "whole" /\ file.map[c] = mem.map[c]
      BY <2>1, <2>4, Zenon DEF MapKept
    <3>2. Reopened(file, c, s) = file.slot[mem.map[c]][s]
      BY <2>4, <3>1, Zenon DEF Reopened
    <3>3. CASE Buffered(c, s)
      BY <2>1, <2>4, <3>2, <3>3, ZenonT(60) DEF SectorsKept
    <3>4. CASE ~Buffered(c, s)
      <4>1. After(Full, file, buf) /\ mem.map[c] \in Slots
        BY <2>1, <2>4, <3>1, InUse, Out, Zenon DEF TypeOK, Full
      <4>2. Full.slot[mem.map[c]][s] = file.slot[mem.map[c]][s]
        BY <3>4, <4>1, Zenon DEF After, Buffered
      <4>3. Full.slot[mem.map[c]][s] \in {past.acked[c][s]} \cup past.wild[c][s]
        BY <2>1, <2>4, <3>1, Zenon DEF SectorsKept
      <4> QED BY <3>2, <4>2, <4>3, Zenon
    <3> QED BY <3>3, <3>4, Zenon
  <2> QED BY <2>2, <2>3, <2>4, Zenon
<1> QED BY <1>1, OverlayInvariant, PTL
=============================================================================
