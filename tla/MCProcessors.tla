---------------------------- MODULE MCProcessors ----------------------------
(* What processors must see of each other: stores to a line one sleeps on  *)
(* (Quiesce), stores to code one has compiled (CodePages), and the page    *)
(* tables that any may change (TransBuffer).  The three share no state; a  *)
(* behaviour is one part's, the others staying as they begin, so that      *)
(* their states add up.                                                    *)
EXTENDS Quiesce

CONSTANTS c1, c2, l1, l2

VARIABLES
  part,
  code, buf, lineBit, pageBit, pages, count, markMx, request, stores, pagesSeen,
  countSeen, kpc, left, src, block, dev, raised, told,
  t, ctx, pt, stale, changes, layout

\* Each processor watches a line of its own.
ArmOwnLine == {<<c1, l1>>, <<c2, l2>>}

\* Bound: and stores only into the other's.
StoreElsewhere ==
  \A c \in Cpu :
    pc'[c] \in {"fill", "note"} => <<c, line'[c]>> \notin MayArm

(* The processor that runs the code, one more that compiles from its page, *)
(* and the one that writes it.                                             *)
Code == INSTANCE CodePages WITH Compiler <- {"runner", "other"}, Runner <- "runner",
          Writer <- "writer", mem <- code, marked <- pages, gen <- count,
          flushReq <- request, inline <- stores, genSeen <- countSeen, pc <- kpc,
          todo <- left, flag <- raised

ASSUME Code!Roles

(* Reads of two pages: one of them global, of two address spaces; or of    *)
(* two modes; or both one block.  Every structure is smaller than what it  *)
(* is asked to hold.                                                       *)
TB == INSTANCE TransBuffer WITH Page <- {0, 1}, RW <- {0},
        Layout <- {[block |-> {}, global |-> {0}, asn |-> {0, 1}, modes |-> {0}],
                   [block |-> {}, global |-> {}, asn |-> {0}, modes |-> {0, 3}],
                   [block |-> {0, 1}, global |-> {}, asn |-> {0}, modes |-> {0}]},
        Pte <- <<{<<0, 0>>, <<0, 3>>}, {<<0, 0>>}>>,
        TB_ENTRIES <- 2, kTbIdxEntries <- 1, kTbIdxWays <- 1, kTbShadowEntries <- 1,
        kDpcEntries <- 1, kDpc2Entries <- 2, Gens <- 3, MaxChanges <- 1

tbVars == <<t, ctx, pt, stale, changes, layout>>

codeVars  == <<code, buf, lineBit, pageBit, pages, count, markMx, request, stores,
               pagesSeen, countSeen, kpc, left, src, block, dev, raised, told>>

MCInit ==
  /\ part \in {"watch", "code", "tb"} /\ Init /\ Code!Init /\ TB!Init
  /\ \A c \in Cpu : \A l \in inline[c] : part = "watch" /\ <<c, l>> \notin MayArm
  /\ part # "code" => ~stores
  /\ part # "tb" => layout.global = {0}

MCNext ==
  /\ \/ part = "watch" /\ Next /\ StoreElsewhere /\ UNCHANGED <<codeVars, tbVars>>
     \/ part = "code" /\ Code!Next /\ UNCHANGED <<vars, tbVars>>
     \/ part = "tb" /\ TB!Next /\ UNCHANGED <<vars, codeVars>>
  /\ UNCHANGED part

MCSpec == MCInit /\ [][MCNext]_<<vars, codeVars, tbVars, part>>

\* Locals of the watching processors hold nothing where the code has none.
WatchView ==
  <<marked, gen, genSeen, flushReq, inline, flag, quiescing, pc, todo, victim,
    [c \in Cpu |-> flag[c] \/ pc[c] \in {"flag", "asleep", "wait"} => addr[c] = l1],
    [c \in Cpu |-> clean[c] /\ ~Arming(c) /\ (flag[c] \/ pc[c] \in {"asleep", "wait"})],
    [c \in Cpu |-> missed[c] /\ ~Arming(c) /\ (flag[c] \/ pc[c] \in {"asleep", "wait"})],
    [a \in Agent |-> IF pc[a] \in {"run", "look", "wait", "asleep", "enter", "leave",
                      "exchange", "getgen", "flush", "settle", "settling"}
                    THEN l1 ELSE line[a]],
    [c \in Cpu |-> IF pc[c] \in {"flush", "settling"} THEN got[c] ELSE 0],
    [c \in Cpu |-> IF pc[c] \in {"exchange", "getgen", "flush", "settling"}
                    THEN ret[c] ELSE "run"]>>

View ==
  <<part, CASE part = "watch" -> WatchView [] part = "code" -> codeVars [] part = "tb" -> tbVars>>

-----------------------------------------------------------------------------
(* After an IMB no block of the old instructions is left to run, whether a *)
(* processor or a device wrote the new ones: a block whose source has      *)
(* changed has been counted, or will be before the IMB (CCodePageMap).     *)
FreshAfterIMB ==
  part = "code" => Code!TypeOK /\ Code!StaleIsCounted /\ Code!FreshAfterIMB /\ Code!FreshAfterDma

(* No translation outlives its invalidation in the TB, its shadow, its     *)
(* index or the page cache (tbia, tbiap, tbis_d).                          *)
NoneStale == part = "tb" => TB!NoneStale

(* What the TB holds it finds, and what the page cache answers the TB and  *)
(* its shadow answer too (FindTBEntry, dtb_still_maps).                    *)
NoneMissed == part = "tb" => TB!NoneMissed
=============================================================================
