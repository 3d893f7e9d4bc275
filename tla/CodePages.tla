----------------------------- MODULE CodePages -----------------------------
(***************************************************************************)
(* The code-page map and the compiled blocks it protects: when a flush of  *)
(* the instruction cache may keep them.  One processor, the writer, puts   *)
(* new instructions in a line of memory the way the architecture asks for  *)
(* (store, MB, flag); others compile blocks from the lines of that page,   *)
(* each a line of its own, and the runner, which compiles the line being   *)
(* written, looks at the flag, executes an IMB and runs its block.         *)
(*                                                                         *)
(* The writer's store waits in a store buffer until it drains or the       *)
(* writer fences.  Compilers change shared words by atomic read-modify-    *)
(* write and fence before they look back, so have no buffer.  What a flush *)
(* by one processor makes the others drop besides (g_jit_code_flush) is    *)
(* left out: it only ever flushes more.  The new instructions come once:   *)
(* from the writer or, instead, from a device, which then raises the flag. *)
(***************************************************************************)
EXTENDS Naturals

CONSTANTS Compiler,   \* processors that compile from the page
          Runner,     \* the one whose line is written
          Writer

\* The runner compiles from the page it runs; the writer does not.
Roles == Runner \in Compiler /\ Writer \notin Compiler

Processor == Compiler \cup {Writer}

VARIABLES
  mem, buf,             \* the runner's line holds the new code; store waiting
  lineBit, pageBit,     \* CCodePageMap: lines and the page that hold code
  marked, gen,          \* m_marked, m_gen
  markMx,               \* m_mark_mx: who holds it
  flushReq, inline,     \* m_dpc_flush_req; the writer's cached translation
  pagesSeen, genSeen,   \* m_code_pages_seen; the runner's m_code_gen_seen
  pc, todo,             \* steps, and the processors note_code has yet to ask
  src,                  \* the source words a compiler took
  block,                \* what each compiled: nothing, or the code and stamp
  dev,                  \* the device's step, and whether it touched code
  flag, told            \* the guest's flag; the runner saw it, then IMB

map  == <<lineBit, pageBit, marked, gen, markMx>>
seen == <<pagesSeen, genSeen>>
vars == <<mem, buf, map, flushReq, inline, seen, pc, todo, src, block, dev,
          flag, told>>

NoBlock == [new |-> FALSE, state |-> "none"]

CpuSteps == {"idle", "fill", "note", "fence", "line", "mb", "mbflush", "flag",
             "done", "lock", "setline", "setpage", "mark", "count",
             "ask", "unlock", "compare", "pages", "gen"}

TypeOK ==
  /\ mem \in BOOLEAN /\ buf \in BOOLEAN /\ pageBit \in BOOLEAN
  /\ lineBit \in SUBSET Compiler
  /\ marked \in 0 .. 1 /\ gen \in Nat
  /\ markMx \in {{}} \cup {{c} : c \in Compiler}
  /\ flushReq \in SUBSET Processor /\ inline \in BOOLEAN
  /\ pagesSeen \in [Processor -> 0 .. 1] /\ genSeen \in Nat
  /\ pc \in [Processor -> CpuSteps]
  /\ todo \in SUBSET Processor
  /\ src \in [Compiler -> BOOLEAN]
  /\ block \in [Compiler -> [new : BOOLEAN, state : {"none", "valid", "flushed"}]]
  /\ dev \in [step : {"idle", "copy", "leave", "flag", "done"}, touched : BOOLEAN]
  /\ flag \in BOOLEAN /\ told \in {"no", "flag", "imb"}

Init ==
  /\ mem = FALSE /\ buf = FALSE
  /\ lineBit = {} /\ pageBit = FALSE
  /\ marked = 0 /\ gen = 0
  /\ markMx = {}
  /\ flushReq = {} /\ inline \in BOOLEAN
  /\ pagesSeen = [c \in Processor |-> 0] /\ genSeen = 0
  /\ pc = [c \in Processor |-> "idle"]
  /\ todo = {}
  /\ src = [c \in Compiler |-> FALSE]
  /\ block = [c \in Compiler |-> NoBlock]
  /\ dev = [step |-> "idle", touched |-> FALSE]
  /\ flag = FALSE /\ told = "no"

Goto(c, step) == pc' = [pc EXCEPT ![c] = step]

guest == <<dev, flag, told>>
code  == <<src, block>>

(***************************************************************************)
(* The writer.                                                             *)
(***************************************************************************)
Drain ==
  /\ buf
  /\ buf' = FALSE /\ mem' = TRUE
  /\ UNCHANGED <<map, flushReq, inline, seen, pc, todo, code, guest>>

dpc_host_base_w ==
  /\ pc[Writer] = "idle" /\ ~inline /\ ~pageBit
  /\ Goto(Writer, "fill")
  /\ UNCHANGED <<mem, buf, map, flushReq, inline, seen, todo, code, guest>>

FillPageCache ==
  /\ pc[Writer] = "fill"
  /\ inline' = TRUE
  /\ Goto(Writer, "idle")
  /\ UNCHANGED <<mem, buf, map, flushReq, seen, todo, code, guest>>

\* Compiled code stores inline through a cached translation, and tells nobody.
Store ==
  /\ pc[Writer] = "idle" /\ dev.step = "idle"
  /\ buf' = TRUE
  /\ Goto(Writer, IF inline THEN "mb" ELSE "note")
  /\ UNCHANGED <<mem, map, flushReq, inline, seen, todo, code, guest>>

note_write ==
  /\ \/ /\ pc[Writer] = "note"
        /\ Goto(Writer, IF pageBit THEN "fence" ELSE "mb")
        /\ UNCHANGED gen
     \/ /\ pc[Writer] = "fence" /\ ~buf
        /\ Goto(Writer, "line")
        /\ UNCHANGED gen
     \/ /\ pc[Writer] = "line"
        /\ gen' = IF Runner \in lineBit THEN gen + 1 ELSE gen
        /\ Goto(Writer, "mb")
  /\ UNCHANGED <<mem, buf, lineBit, pageBit, marked, markMx, flushReq, inline,
                 seen, todo, code, guest>>

\* Mutant: MB does not honour the flush requests.
BarrierOnly ==
  /\ pc[Writer] = "mb" /\ ~buf
  /\ Goto(Writer, "flag")
  /\ UNCHANGED <<mem, buf, map, flushReq, inline, seen, todo, code, guest>>

memory_barrier ==
  /\ pc[Writer] = "mb" /\ ~buf
  /\ Goto(Writer, IF Writer \in flushReq THEN "mbflush" ELSE "flag")
  /\ UNCHANGED <<mem, buf, map, flushReq, inline, seen, todo, code, guest>>

SetFlag ==
  /\ pc[Writer] = "flag"
  /\ flag' = TRUE
  /\ Goto(Writer, "done")
  /\ UNCHANGED <<mem, buf, map, flushReq, inline, seen, todo, code, dev, told>>

(***************************************************************************)
(* A device's write: the map is told before the transfer and, if it found  *)
(* code there, once more after it.                                         *)
(***************************************************************************)
note_write_range ==
  /\ dev.step = "idle" /\ pc[Writer] \in {"idle", "fill"}
  /\ LET touched == pageBit /\ Runner \in lineBit
     IN /\ dev' = [step |-> "copy", touched |-> touched]
        /\ gen' = IF touched THEN gen + 1 ELSE gen
  /\ UNCHANGED <<mem, buf, lineBit, pageBit, marked, markMx, flushReq, inline,
                 seen, pc, todo, code, flag, told>>

do_pci_write ==
  /\ dev.step = "copy"
  /\ mem' = TRUE
  /\ dev' = [dev EXCEPT !.step = "leave"]
  /\ UNCHANGED <<buf, map, flushReq, inline, seen, pc, todo, code, flag, told>>

LeaveDmaGuard ==
  /\ dev.step = "leave"
  /\ gen' = IF dev.touched THEN gen + 1 ELSE gen
  /\ dev' = [dev EXCEPT !.step = "flag"]
  /\ UNCHANGED <<mem, buf, lineBit, pageBit, marked, markMx, flushReq, inline,
                 seen, pc, todo, code, flag, told>>

DeviceDone ==
  /\ dev.step = "flag"
  /\ flag' = TRUE
  /\ dev' = [dev EXCEPT !.step = "done"]
  /\ UNCHANGED <<mem, buf, map, flushReq, inline, seen, pc, todo, code, told>>

(***************************************************************************)
(* honour_dpc_flush_request: the cached translation goes, and one write is *)
(* counted for what may have been stored through it.  At a timer check of  *)
(* any processor, and at the writer's MB.                                  *)
(***************************************************************************)
honour_dpc_flush_request(c) ==
  /\ c \in flushReq
  /\ \/ pc[c] \in {"idle", "done"} /\ UNCHANGED pc
     \/ pc[c] = "mbflush" /\ Goto(c, "flag")
  /\ flushReq' = flushReq \ {c}
  /\ inline' = (inline /\ c # Writer)
  /\ gen' = gen + 1
  /\ pagesSeen' = [pagesSeen EXCEPT ![c] = marked]
  /\ UNCHANGED <<mem, buf, lineBit, pageBit, marked, markMx, genSeen, todo, code,
                 guest>>

(***************************************************************************)
(* compile_block: assemble from a copy of the source, mark the source as   *)
(* code, then check that it is still what was compiled.                    *)
(***************************************************************************)
Source(c) == c = Runner /\ mem

compile_block(c) ==
  /\ pc[c] = "idle" /\ block[c].state = "none"
  /\ src' = [src EXCEPT ![c] = Source(c)]
  /\ Goto(c, "lock")
  /\ UNCHANGED <<mem, buf, map, flushReq, inline, seen, todo, block, guest>>

LockMarks(c) ==
  /\ pc[c] = "lock" /\ markMx = {}
  /\ markMx' = {c}
  /\ Goto(c, "setline")
  /\ UNCHANGED <<mem, buf, lineBit, pageBit, marked, gen, flushReq, inline, seen,
                 todo, code, guest>>

note_code(c) ==
  /\ \/ /\ pc[c] = "setline"
        /\ lineBit' = lineBit \cup {c}
        /\ Goto(c, "setpage")
        /\ UNCHANGED <<pageBit, marked, gen, markMx, todo>>
     \/ /\ pc[c] = "setpage"
        /\ pageBit' = TRUE
        /\ Goto(c, IF pageBit THEN "unlock" ELSE "mark")
        /\ UNCHANGED <<lineBit, marked, gen, markMx, todo>>
     \/ /\ pc[c] = "mark"
        /\ marked' = marked + 1
        /\ Goto(c, "count")
        /\ UNCHANGED <<lineBit, pageBit, gen, markMx, todo>>
     \/ /\ pc[c] = "count"
        /\ gen' = gen + 1
        /\ todo' = Processor
        /\ Goto(c, "ask")
        /\ UNCHANGED <<lineBit, pageBit, marked, markMx>>
     \/ /\ pc[c] = "unlock"
        /\ markMx' = {}
        /\ Goto(c, "compare")
        /\ UNCHANGED <<lineBit, pageBit, marked, gen, todo>>
  /\ UNCHANGED <<mem, buf, flushReq, inline, seen, code, guest>>

request_code_page_flush(c) ==
  /\ pc[c] = "ask"
  /\ IF todo = {}
     THEN Goto(c, "unlock") /\ UNCHANGED <<flushReq, todo>>
     ELSE \E d \in todo : /\ flushReq' = flushReq \cup {d}
                          /\ todo' = todo \ {d}
                          /\ UNCHANGED pc
  /\ UNCHANGED <<mem, buf, map, inline, seen, code, guest>>

PublishBlock(c) ==
  /\ pc[c] = "compare"
  /\ block' = [block EXCEPT ![c] = IF src[c] = Source(c)
                                   THEN [new |-> src[c], state |-> "valid"]
                                   ELSE NoBlock]
  /\ Goto(c, "idle")
  /\ UNCHANGED <<mem, buf, map, flushReq, inline, seen, todo, src, guest>>

(***************************************************************************)
(* The runner: it sees the flag, executes an IMB, and runs.                *)
(***************************************************************************)
SeeFlag ==
  /\ pc[Runner] = "idle" /\ flag /\ told = "no"
  /\ told' = "flag"
  /\ UNCHANGED <<mem, buf, map, flushReq, inline, seen, pc, todo, code, dev, flag>>

flush_icache ==
  /\ pc[Runner] = "idle"
  /\ Goto(Runner, "pages")
  /\ UNCHANGED <<mem, buf, map, flushReq, inline, seen, todo, code, guest>>

honour_new_code_pages ==
  /\ pc[Runner] = "pages"
  /\ IF marked # pagesSeen[Runner]
     THEN /\ pagesSeen' = [pagesSeen EXCEPT ![Runner] = marked]
          /\ gen' = gen + 1
     ELSE UNCHANGED <<pagesSeen, gen>>
  /\ Goto(Runner, "gen")
  /\ UNCHANGED <<mem, buf, lineBit, pageBit, marked, markMx, flushReq, inline,
                 genSeen, todo, code, guest>>

\* Nothing written to a compiled line since the last flush: keep the blocks.
FlushUnlessClean ==
  /\ pc[Runner] = "gen"
  /\ genSeen' = gen
  /\ block' = IF gen # genSeen /\ block[Runner].state = "valid"
              THEN [block EXCEPT ![Runner].state = "flushed"] ELSE block
  /\ told' = IF told = "flag" THEN "imb" ELSE told
  /\ Goto(Runner, "idle")
  /\ UNCHANGED <<mem, buf, map, flushReq, inline, pagesSeen, todo, src, dev, flag>>

revalidate_flushed ==
  /\ pc[Runner] = "idle" /\ block[Runner].state = "flushed"
  /\ block' = [block EXCEPT ![Runner] = IF @.new = mem
                                        THEN [@ EXCEPT !.state = "valid"]
                                        ELSE NoBlock]
  /\ UNCHANGED <<mem, buf, map, flushReq, inline, seen, pc, todo, src, guest>>

Next ==
  \/ Drain \/ dpc_host_base_w \/ FillPageCache \/ Store \/ note_write
  \/ memory_barrier \/ SetFlag
  \/ note_write_range \/ do_pci_write \/ LeaveDmaGuard \/ DeviceDone
  \/ \E c \in Processor : honour_dpc_flush_request(c)
  \/ \E c \in Compiler : \/ compile_block(c) \/ LockMarks(c) \/ note_code(c)
                         \/ request_code_page_flush(c) \/ PublishBlock(c)
  \/ SeeFlag \/ flush_icache \/ honour_new_code_pages \/ FlushUnlessClean
  \/ revalidate_flushed

Spec == Init /\ [][Next]_vars

(***************************************************************************)
(* Properties.                                                             *)
(***************************************************************************)

RunsOld == block[Runner].state = "valid" /\ ~block[Runner].new

\* The architecture's rule for handing over new instructions is kept: once the
\* runner has seen the writer's flag and executed its IMB, no block compiled
\* from the old instructions is left to run, however the store reached memory
\* and whatever was compiled, marked or skipped in between.
FreshAfterIMB == told = "imb" /\ dev.step = "idle" => ~RunsOld

\* A device that overwrites code compiled before its transfer began is noticed
\* by the IMB after it, even when the runner flushed and checked its block
\* while the bytes were still arriving (the guard's count on the way out).
FreshAfterDma == told = "imb" /\ dev.touched => ~RunsOld

\* "DMA into a code page counts like a store": the same of every transfer.
DmaCountsLikeStore == told = "imb" /\ dev.step = "done" => ~RunsOld

\* A block whose source has changed in memory is never kept for good: its
\* change has been counted and not flushed yet, or the writer (its note_write,
\* its MB, or the flush request it has to honour) has yet to count it.
StaleIsCounted ==
  mem /\ dev.step = "idle" /\ RunsOld
    => \/ gen # genSeen
       \/ pc[Writer] \in {"note", "fence", "line", "mbflush"}
       \/ Writer \in flushReq
       \/ marked # pagesSeen[Runner]
=============================================================================
