--------------------------- MODULE CodePagesProofs ---------------------------
(***************************************************************************)
(* For any number of compilers: no old block is left to run after the      *)
(* architected hand-over of new code.  The argument: a block is published  *)
(* only once its page is marked and every processor has been asked to      *)
(* flush (Asking); whoever can still store unseen has that request         *)
(* pending (Unseen); so a store that changes a block's source has been     *)
(* counted or will be before the writer's flag (Counting).                 *)
(***************************************************************************)
EXTENDS CodePages, TLAPS

(* m_mark_mx is held through note_code, and the page is marked once.       *)
InNote == {"setline", "setpage", "mark", "count", "ask", "unlock"}

CompilerSteps == InNote \cup {"idle", "lock", "compare", "pages", "gen"}

Marking ==
  /\ \A c \in Compiler : pc[c] \in CompilerSteps
  /\ \A c \in Compiler : pc[c] \in InNote => markMx = {c}
  /\ \A c \in Compiler : pc[c] \in {"mark", "count", "ask"} => pageBit
  /\ \A c \in Compiler : pc[c] = "mark" => marked = 0
  /\ ~pageBit => marked = 0

(* The page is marked, and the writer has been asked to flush.             *)
Asked ==
  /\ pageBit
  /\ \A c \in Compiler : pc[c] \notin {"mark", "count"} /\ (pc[c] = "ask" => Writer \notin todo)

(* A compiler's line is marked before its page, and by the time it checks  *)
(* its source again the writer has been asked.                             *)
Asking ==
  \A c \in Compiler :
    /\ pc[c] \in InNote \ {"setline"} \/ pc[c] = "compare" \/ block[c].state # "none"
         => c \in lineBit
    /\ pc[c] \in {"unlock", "compare"} \/ block[c].state # "none" => Asked

(* A writer that may store without a look at the page's bit, or whose      *)
(* store has looked and not yet reached memory, has the request pending.   *)
Unseen ==
  Asked /\ (inline \/ pc[Writer] = "fill" \/ (pc[Writer] = "mb" /\ buf))
    => Writer \in flushReq

(* The new code has one author.  It is in memory, or in the writer's store *)
(* buffer, from the store on, and in memory when the flag is raised.       *)
Authors ==
  /\ buf => pc[Writer] \in {"note", "fence", "mb"}
  /\ pc[Writer] \notin {"idle", "fill"} => (buf \/ mem) /\ dev.step = "idle"
  /\ dev.step \in {"leave", "flag", "done"} => mem
  /\ dev.touched => dev.step # "idle"
  /\ flag => pc[Writer] = "done" \/ dev.step = "done"
  /\ told # "no" => flag

(* What has been seen is not ahead of what has been counted.               *)
Ordered ==
  /\ genSeen <= gen
  /\ \A c \in Processor : pagesSeen[c] <= marked

(* A stale block is counted.  Past the writer's MB its request no longer   *)
(* stands for a count to come; at the last step of a flush neither does a  *)
(* mark the runner has yet to see.                                         *)
StoreCounted ==
  mem /\ dev.step = "idle" /\ RunsOld
    => \/ gen # genSeen
       \/ pc[Writer] \in {"note", "fence", "line", "mbflush"}
       \/ Writer \in flushReq /\ pc[Writer] \notin {"flag", "done"}
       \/ marked # pagesSeen[Runner]

MarkSeen == pc[Runner] = "gen" /\ RunsOld => marked = pagesSeen[Runner]

DmaCounted == dev.step \in {"flag", "done"} /\ dev.touched /\ RunsOld => gen # genSeen

Fresh == told = "imb" /\ (dev.step = "idle" \/ dev.touched) => ~RunsOld

Counting == StoreCounted /\ MarkSeen /\ DmaCounted /\ Fresh

Inv ==
  TypeOK /\ Marking /\ Asking /\ Unseen /\ Authors /\ Ordered /\ Counting

(***************************************************************************)
(* The steps, by whose they are.                                           *)
(***************************************************************************)
WriterStep ==
  \/ Drain \/ dpc_host_base_w \/ FillPageCache \/ Store \/ note_write
  \/ memory_barrier \/ SetFlag

DeviceStep == note_write_range \/ do_pci_write \/ LeaveDmaGuard \/ DeviceDone

CompilerStep(c) ==
  \/ compile_block(c) \/ LockMarks(c) \/ note_code(c)
  \/ request_code_page_flush(c) \/ PublishBlock(c)

RunnerStep ==
  \/ SeeFlag \/ flush_icache \/ honour_new_code_pages \/ FlushUnlessClean
  \/ revalidate_flushed

(* Every step of Next is of one of these kinds.                            *)
LEMMA NextSteps ==
  Next = \/ WriterStep \/ DeviceStep
         \/ \E c \in Processor : honour_dpc_flush_request(c)
         \/ \E c \in Compiler : CompilerStep(c)
         \/ RunnerStep
BY Zenon DEF Next, WriterStep, DeviceStep, CompilerStep, RunnerStep

(* The writer, the device and a flush by request leave the marks, the      *)
(* blocks and the steps of the compilers alone (note_write and its like    *)
(* only read the map).                                                     *)
LEMMA WriterSide ==
  ASSUME Roles, TypeOK, Marking,
         WriterStep \/ DeviceStep \/ \E c \in Processor : honour_dpc_flush_request(c)
  PROVE  /\ UNCHANGED <<lineBit, pageBit, marked, markMx, todo, src, block, genSeen, told>>
         /\ \A c \in Compiler : pc'[c] = pc[c]
<1>1. CASE WriterStep
  <2>1. UNCHANGED <<lineBit, pageBit, marked, markMx, todo, src, block, genSeen, told>>
    BY <1>1, Zenon DEF WriterStep, Drain, dpc_host_base_w, FillPageCache, Store, note_write,
                memory_barrier, SetFlag, map, seen, code, guest
  <2>2. UNCHANGED pc \/ \E s : Goto(Writer, s)
    BY <1>1, Zenon DEF WriterStep, Drain, dpc_host_base_w, FillPageCache, Store, note_write,
                memory_barrier, SetFlag
  <2>3. QED BY <2>1, <2>2, Zenon DEF Roles, TypeOK, Goto, Processor
<1>2. CASE DeviceStep
  BY <1>2, Zenon DEF DeviceStep, note_write_range, do_pci_write, LeaveDmaGuard, DeviceDone, map,
              seen, code
<1>3. ASSUME NEW d \in Processor, honour_dpc_flush_request(d)
      PROVE  /\ UNCHANGED <<lineBit, pageBit, marked, markMx, todo, src, block, genSeen, told>>
             /\ \A c \in Compiler : pc'[c] = pc[c]
  <2>1. UNCHANGED <<lineBit, pageBit, marked, markMx, todo, src, block, genSeen, told>>
    BY <1>3, Zenon DEF honour_dpc_flush_request, code, guest
  <2>2. UNCHANGED pc \/ (pc[d] = "mbflush" /\ Goto(d, "flag"))
    BY <1>3, Zenon DEF honour_dpc_flush_request
  <2>3. d \in Compiler => pc[d] # "mbflush"
    BY Zenon DEF Marking, CompilerSteps, InNote
  <2>4. QED BY <2>1, <2>2, <2>3, Zenon DEF TypeOK, Goto, Processor
<1>4. QED BY <1>1, <1>2, <1>3, Zenon

(* Compilers and the runner leave the new code, its author and the         *)
(* writer's translations alone.                                            *)
LEMMA CompilerSide ==
  ASSUME Roles, TypeOK,
         (\E c \in Compiler : CompilerStep(c)) \/ RunnerStep
  PROVE  /\ UNCHANGED <<mem, buf, inline, dev, flag>>
         /\ pc'[Writer] = pc[Writer]
<1>1. ASSUME NEW c \in Compiler, CompilerStep(c)
      PROVE  UNCHANGED <<mem, buf, inline, dev, flag>> /\ pc'[Writer] = pc[Writer]
  <2>1. UNCHANGED <<mem, buf, inline, dev, flag>>
    BY <1>1, Zenon DEF CompilerStep, compile_block, LockMarks, note_code, request_code_page_flush,
                PublishBlock, guest
  <2>2. UNCHANGED pc \/ \E s : Goto(c, s)
    BY <1>1, Zenon DEF CompilerStep, compile_block, LockMarks, note_code, request_code_page_flush,
                PublishBlock
  <2>3. QED BY <2>1, <2>2, Zenon DEF Roles, TypeOK, Goto, Processor
<1>2. CASE RunnerStep
  <2>1. UNCHANGED <<mem, buf, inline, dev, flag>>
    BY <1>2, Zenon DEF RunnerStep, SeeFlag, flush_icache, honour_new_code_pages, FlushUnlessClean,
                revalidate_flushed, guest
  <2>2. UNCHANGED pc \/ \E s : Goto(Runner, s)
    BY <1>2, Zenon DEF RunnerStep, SeeFlag, flush_icache, honour_new_code_pages, FlushUnlessClean,
                revalidate_flushed
  <2>3. QED BY <2>1, <2>2, Zenon DEF Roles, TypeOK, Goto, Processor
<1>3. QED BY <1>1, <1>2, Zenon

-----------------------------------------------------------------------------
(* The marks: note_code runs under m_mark_mx, and only the compiler that   *)
(* finds the page's bit clear counts the page.                             *)
LEMMA MarkStep ==
  ASSUME Roles, TypeOK, Marking, Next
  PROVE  Marking'
<1>1. CASE WriterStep \/ DeviceStep \/ \E c \in Processor : honour_dpc_flush_request(c)
  <2>1. /\ UNCHANGED <<pageBit, marked, markMx>>
        /\ \A c \in Compiler : pc'[c] = pc[c]
    BY <1>1, WriterSide, Zenon
  <2>2. QED BY <2>1, Zenon DEF Marking
<1>2. CASE RunnerStep
  <2>1. UNCHANGED <<pageBit, marked, markMx>>
    BY <1>2, Zenon DEF RunnerStep, SeeFlag, flush_icache, honour_new_code_pages, FlushUnlessClean,
                revalidate_flushed, map
  <2>2. UNCHANGED pc \/ \E s \in {"idle", "pages", "gen"} : Goto(Runner, s)
    BY <1>2, Zenon DEF RunnerStep, SeeFlag, flush_icache, honour_new_code_pages, FlushUnlessClean,
                revalidate_flushed
  <2>3. QED BY <2>1, <2>2, Zenon DEF Marking, CompilerSteps, InNote, Goto, TypeOK, Processor
<1>3. ASSUME NEW c \in Compiler, compile_block(c) \/ PublishBlock(c) \/ request_code_page_flush(c)
      PROVE  Marking'
  <2>1. UNCHANGED <<pageBit, marked, markMx>>
    BY <1>3, Zenon DEF compile_block, PublishBlock, request_code_page_flush, map
  <2>2. \/ UNCHANGED pc
        \/ \E s \in {"lock", "idle"} : Goto(c, s)
        \/ pc[c] = "ask" /\ Goto(c, "unlock")
    BY <1>3, Zenon DEF compile_block, PublishBlock, request_code_page_flush
  <2>3. QED BY <2>1, <2>2, Zenon DEF Marking, CompilerSteps, InNote, Goto, TypeOK, Processor
<1>4. ASSUME NEW c \in Compiler, LockMarks(c)
      PROVE  Marking'
  <2>1. \A d \in Compiler : pc[d] \notin InNote
    BY <1>4, Zenon DEF LockMarks, Marking
  <2>2. QED BY <1>4, <2>1, Zenon DEF LockMarks, Marking, CompilerSteps, InNote, Goto, TypeOK, Processor
<1>5. ASSUME NEW c \in Compiler, note_code(c)
      PROVE  Marking'
  <2>1. \A d \in Compiler : d # c => pc[d] \notin InNote
    BY <1>5, Zenon DEF note_code, Marking, InNote
  <2>2. QED BY <1>5, <2>1, ZenonT(60) DEF note_code, Marking, CompilerSteps, InNote, Goto, TypeOK, Processor
<1>6. QED BY <1>1, <1>2, <1>3, <1>4, <1>5, NextSteps, Zenon DEF CompilerStep

(* Once the writer has been asked, it has been asked.                      *)
LEMMA AskedStable ==
  ASSUME Roles, TypeOK, Marking, Asked, Next
  PROVE  Asked'
<1>1. CASE WriterStep \/ DeviceStep \/ \E c \in Processor : honour_dpc_flush_request(c)
  <2>1. UNCHANGED <<pageBit, todo>> /\ \A c \in Compiler : pc'[c] = pc[c]
    BY <1>1, WriterSide, Zenon
  <2>2. QED BY <2>1, Zenon DEF Asked
<1>2. CASE RunnerStep
  <2>1. UNCHANGED <<pageBit, todo>>
    BY <1>2, Zenon DEF RunnerStep, SeeFlag, flush_icache, honour_new_code_pages, FlushUnlessClean,
                revalidate_flushed, map
  <2>2. UNCHANGED pc \/ \E s \in {"idle", "pages", "gen"} : Goto(Runner, s)
    BY <1>2, Zenon DEF RunnerStep, SeeFlag, flush_icache, honour_new_code_pages, FlushUnlessClean,
                revalidate_flushed
  <2>3. QED BY <2>1, <2>2, Zenon DEF Asked, Goto, TypeOK, Processor
<1>3. ASSUME NEW c \in Compiler, CompilerStep(c)
      PROVE  Asked'
  <2>1. pageBit' /\ todo' \subseteq todo
    BY <1>3, Zenon DEF CompilerStep, compile_block, LockMarks, note_code, request_code_page_flush,
                PublishBlock, map, Asked
  <2>2. UNCHANGED pc \/ \E s \in {"lock", "setline", "setpage", "unlock", "compare", "idle"} : Goto(c, s)
    BY <1>3, Zenon DEF CompilerStep, compile_block, LockMarks, note_code, request_code_page_flush,
                PublishBlock, Asked
  <2>3. QED BY <2>1, <2>2, Zenon DEF Asked, Goto, TypeOK, Processor
<1>4. QED BY <1>1, <1>2, <1>3, NextSteps, Zenon

(* A block is compared and published with its line marked and the writer   *)
(* asked, by this compiler or by the one that marked the page before it.   *)
LEMMA AskStep ==
  ASSUME Roles, TypeOK, Marking, Asking, Next
  PROVE  Asking'
<1>1. CASE WriterStep \/ DeviceStep \/ \E c \in Processor : honour_dpc_flush_request(c)
  <2>1. UNCHANGED <<lineBit, pageBit, todo, block>> /\ \A c \in Compiler : pc'[c] = pc[c]
    BY <1>1, WriterSide, Zenon
  <2>2. Asked' = Asked
    BY <2>1, Zenon DEF Asked
  <2>3. QED BY <2>1, <2>2, Zenon DEF Asking
<1>2. CASE RunnerStep
  <2>1. UNCHANGED lineBit
    BY <1>2, Zenon DEF RunnerStep, SeeFlag, flush_icache, honour_new_code_pages, FlushUnlessClean,
                revalidate_flushed, map
  <2>2. UNCHANGED pc \/ \E s \in {"idle", "pages", "gen"} : Goto(Runner, s)
    BY <1>2, Zenon DEF RunnerStep, SeeFlag, flush_icache, honour_new_code_pages, FlushUnlessClean,
                revalidate_flushed
  <2>3. \A c \in Compiler : block'[c].state # "none" => block[c].state # "none"
    BY <1>2, Zenon DEF RunnerStep, SeeFlag, flush_icache, honour_new_code_pages, FlushUnlessClean,
                revalidate_flushed, code, TypeOK, NoBlock
  <2>4. Asked => Asked'
    BY AskedStable, Zenon
  <2>5. QED BY <2>1, <2>2, <2>3, <2>4, Zenon DEF Asking, Goto, TypeOK, Processor, InNote
<1>3. ASSUME NEW c \in Compiler, CompilerStep(c)
      PROVE  Asking'
  <2>1. Asked => Asked'
    BY AskedStable, Zenon
  <2>2. ASSUME NEW d \in Compiler
        PROVE  (pc'[d] \in InNote \ {"setline"} \/ pc'[d] = "compare" \/ block'[d].state # "none")
                 => d \in lineBit'
    BY <1>3, ZenonT(60) DEF CompilerStep, compile_block, LockMarks, note_code, request_code_page_flush,
                PublishBlock, map, code, TypeOK, Goto, Processor, InNote, Asking
  <2>3. ASSUME NEW d \in Compiler, pc'[d] \in {"unlock", "compare"} \/ block'[d].state # "none"
        PROVE  Asked'
    <3>1. CASE pc[d] \in {"unlock", "compare"} \/ block[d].state # "none"
      BY <2>1, <3>1, Zenon DEF Asking
    <3>2. CASE ~(pc[d] \in {"unlock", "compare"} \/ block[d].state # "none")
      <4>1. c = d /\ pc[c] \in {"setpage", "ask"} /\ pc'[c] = "unlock" /\ pageBit'
        BY <1>3, <2>3, <3>2, ZenonT(60)
        DEF CompilerStep, compile_block, LockMarks, note_code, request_code_page_flush,
            PublishBlock, map, code, Marking, TypeOK, Goto, Processor
      <4>2. \A e \in Compiler : e # c => pc[e] \notin InNote
        BY <4>1, Zenon DEF Marking, InNote
      <4>3. UNCHANGED pc \/ \E s : Goto(c, s)
        BY <1>3, Zenon DEF CompilerStep, compile_block, LockMarks, note_code,
                    request_code_page_flush, PublishBlock
      <4>4. \A e \in Compiler : e # c => pc'[e] = pc[e]
        BY <4>3, Zenon DEF TypeOK, Goto, Processor
      <4>5. QED BY <4>1, <4>2, <4>4, Zenon DEF Asked, InNote
    <3>3. QED BY <3>1, <3>2, Zenon
  <2>4. QED BY <2>2, <2>3, Zenon DEF Asking
<1>4. QED BY <1>1, <1>2, <1>3, NextSteps, Zenon

(* Whoever can store unseen keeps its request until it has flushed.        *)
LEMMA UnseenStep ==
  ASSUME Roles, TypeOK, Marking, Unseen, Authors, Next
  PROVE  Unseen'
<1>1. CASE WriterStep \/ DeviceStep
  <2>1. UNCHANGED <<pageBit, todo>> /\ \A c \in Compiler : pc'[c] = pc[c]
    BY <1>1, WriterSide, Zenon
  <2>2. Asked' = Asked
    BY <2>1, Zenon DEF Asked
  <2>3. UNCHANGED flushReq
    BY <1>1, Zenon DEF WriterStep, Drain, dpc_host_base_w, FillPageCache, Store, note_write,
                memory_barrier, SetFlag, DeviceStep, note_write_range, do_pci_write,
                LeaveDmaGuard, DeviceDone
  <2>4. ASSUME Asked, inline' \/ pc'[Writer] = "fill" \/ (pc'[Writer] = "mb" /\ buf')
        PROVE  inline \/ pc[Writer] = "fill" \/ (pc[Writer] = "mb" /\ buf)
    BY <1>1, <2>4, Zenon DEF WriterStep, Drain, dpc_host_base_w, FillPageCache, Store, note_write,
                memory_barrier, SetFlag, DeviceStep, note_write_range, do_pci_write,
                LeaveDmaGuard, DeviceDone, Asked, Authors, Goto, TypeOK, Processor
  <2>5. QED BY <2>2, <2>3, <2>4, Zenon DEF Unseen
<1>2. ASSUME NEW c \in Processor, honour_dpc_flush_request(c)
      PROVE  Unseen'
  <2>1. UNCHANGED <<pageBit, todo>> /\ \A d \in Compiler : pc'[d] = pc[d]
    BY <1>2, WriterSide, Zenon
  <2>2. Asked' = Asked
    BY <2>1, Zenon DEF Asked
  <2>3. CASE c = Writer
    <3>1. ~inline' /\ pc'[Writer] \in {"idle", "done", "flag"}
      BY <1>2, <2>3, Zenon DEF honour_dpc_flush_request, Goto, TypeOK, Processor
    <3>2. QED BY <3>1, Zenon DEF Unseen
  <2>4. CASE c # Writer
    <3>1. /\ pc'[Writer] = pc[Writer] /\ inline' = inline /\ buf' = buf
          /\ Writer \in flushReq => Writer \in flushReq'
      BY <1>2, <2>4, Zenon DEF honour_dpc_flush_request, Goto, TypeOK, Processor
    <3>2. QED BY <2>2, <3>1, Zenon DEF Unseen
  <2>5. QED BY <2>3, <2>4, Zenon
<1>3. CASE (\E c \in Compiler : CompilerStep(c)) \/ RunnerStep
  <2>1. UNCHANGED <<buf, inline>> /\ pc'[Writer] = pc[Writer]
    BY <1>3, CompilerSide, Zenon
  <2>2. flushReq \subseteq flushReq'
    BY <1>3, Zenon DEF CompilerStep, compile_block, LockMarks, note_code, request_code_page_flush,
                PublishBlock, RunnerStep, SeeFlag, flush_icache, honour_new_code_pages,
                FlushUnlessClean, revalidate_flushed
  <2>3. ASSUME ~Asked, Asked'
        PROVE  Writer \in flushReq'
    <3>1. CASE RunnerStep
      <4>1. UNCHANGED <<pageBit, todo>>
        BY <3>1, Zenon DEF RunnerStep, SeeFlag, flush_icache, honour_new_code_pages,
                    FlushUnlessClean, revalidate_flushed, map
      <4>2. UNCHANGED pc \/ (pc[Runner] \in {"idle", "pages", "gen"} /\ \E s : Goto(Runner, s))
        BY <3>1, Zenon DEF RunnerStep, SeeFlag, flush_icache, honour_new_code_pages,
                    FlushUnlessClean, revalidate_flushed
      <4>3. QED BY <4>1, <4>2, <2>3, Zenon DEF Asked, Goto, TypeOK, Processor
    <3>2. ASSUME NEW c \in Compiler, CompilerStep(c)
          PROVE  Writer \in flushReq'
      <4>1. \A d \in Compiler : d # c => pc'[d] = pc[d]
        BY <3>2, Zenon DEF CompilerStep, compile_block, LockMarks, note_code,
                    request_code_page_flush, PublishBlock, Goto, TypeOK, Processor
      <4>2. CASE request_code_page_flush(c)
        BY <4>2, <4>1, <2>3, Zenon DEF request_code_page_flush, Asked, map, Goto, TypeOK, Processor
      <4>3. CASE note_code(c)
        <5>1. \A d \in Compiler : d # c => pc[d] \notin InNote
          BY <4>3, Zenon DEF note_code, Marking, InNote
        <5>2. QED BY <4>3, <4>1, <5>1, <2>3, Zenon DEF note_code, Asked, InNote, Goto, TypeOK, Processor
      <4>4. CASE compile_block(c) \/ LockMarks(c) \/ PublishBlock(c)
        BY <4>4, <4>1, <2>3, Zenon DEF compile_block, LockMarks, PublishBlock, Asked, map, Goto, TypeOK,
                                Processor
      <4>5. QED BY <3>2, <4>2, <4>3, <4>4, Zenon DEF CompilerStep
    <3>3. QED BY <1>3, <3>1, <3>2, Zenon
  <2>4. QED BY <2>1, <2>2, <2>3, Zenon DEF Unseen
<1>4. QED BY <1>1, <1>2, <1>3, NextSteps, Zenon

(* One author, and the flag after the code.                                *)
LEMMA AuthorStep ==
  ASSUME Roles, TypeOK, Marking, Authors, Next
  PROVE  Authors'
<1>1. CASE WriterStep
  BY <1>1, WriterSide DEF WriterStep, Drain, dpc_host_base_w, FillPageCache, Store, note_write,
              memory_barrier, SetFlag, Authors, guest, Goto, TypeOK, Processor
<1>2. CASE DeviceStep
  BY <1>2 DEF DeviceStep, note_write_range, do_pci_write, LeaveDmaGuard, DeviceDone, Authors,
              TypeOK
<1>3. ASSUME NEW c \in Processor, honour_dpc_flush_request(c)
      PROVE  Authors'
  <2>1. UNCHANGED <<mem, buf, dev, flag, told>>
    BY <1>3, Zenon DEF honour_dpc_flush_request, guest
  <2>2. pc'[Writer] = pc[Writer] \/ (pc[Writer] = "mbflush" /\ pc'[Writer] = "flag")
    BY <1>3, Zenon DEF honour_dpc_flush_request, Goto, TypeOK, Processor
  <2>3. QED BY <2>1, <2>2, Zenon DEF Authors
<1>4. CASE (\E c \in Compiler : CompilerStep(c)) \/ RunnerStep
  <2>1. UNCHANGED <<mem, buf, dev, flag>> /\ pc'[Writer] = pc[Writer]
    BY <1>4, CompilerSide, Zenon
  <2>2. UNCHANGED told \/ flag
    BY <1>4, Zenon DEF CompilerStep, compile_block, LockMarks, note_code, request_code_page_flush,
                PublishBlock, RunnerStep, SeeFlag, flush_icache, honour_new_code_pages,
                FlushUnlessClean, revalidate_flushed, guest, Authors
  <2>3. QED BY <2>1, <2>2, Zenon DEF Authors
<1>5. QED BY <1>1, <1>2, <1>3, <1>4, NextSteps, Zenon

-----------------------------------------------------------------------------
(* The counts only grow, and what has been seen is what was counted.       *)
LEMMA Counts ==
  ASSUME Roles, TypeOK, Marking, Next
  PROVE  /\ gen' \in {gen, gen + 1}
         /\ genSeen' = genSeen \/ FlushUnlessClean
         /\ marked' \in {marked, marked + 1}
         /\ \A c \in Processor : pagesSeen'[c] \in {pagesSeen[c], marked}
<1>1. CASE WriterStep \/ DeviceStep
  BY <1>1, Zenon DEF WriterStep, Drain, dpc_host_base_w, FillPageCache, Store, note_write,
              memory_barrier, SetFlag, DeviceStep, note_write_range, do_pci_write,
              LeaveDmaGuard, DeviceDone, map, seen, TypeOK
<1>2. ASSUME NEW c \in Processor, honour_dpc_flush_request(c)
      PROVE  /\ gen' = gen + 1 /\ UNCHANGED <<genSeen, marked>>
             /\ \A d \in Processor : pagesSeen'[d] \in {pagesSeen[d], marked}
  BY <1>2, Zenon DEF honour_dpc_flush_request, TypeOK
<1>3. ASSUME NEW c \in Compiler, CompilerStep(c)
      PROVE  /\ gen' \in {gen, gen + 1} /\ UNCHANGED <<genSeen, pagesSeen>>
             /\ marked' \in {marked, marked + 1}
  BY <1>3, Zenon DEF CompilerStep, compile_block, LockMarks, note_code, request_code_page_flush,
              PublishBlock, map, seen
<1>4. CASE RunnerStep
  BY <1>4, Zenon DEF RunnerStep, SeeFlag, flush_icache, honour_new_code_pages, FlushUnlessClean,
              revalidate_flushed, map, seen, TypeOK
<1>5. QED BY <1>1, <1>2, <1>3, <1>4, NextSteps, Zenon

(* Counters only grow, and the runner copies them (revalidate_flushed).    *)
LEMMA OrderStep ==
  ASSUME Roles, TypeOK, Marking, Ordered, Next
  PROVE  Ordered'
<1>1. /\ gen \in Nat /\ genSeen \in Nat /\ marked \in Nat
      /\ \A c \in Processor : pagesSeen[c] \in Nat
  BY DEF TypeOK
<1>2. FlushUnlessClean => gen' = gen /\ genSeen' = gen
  BY Zenon DEF FlushUnlessClean, map
<1>3. genSeen' <= gen'
  BY <1>1, <1>2, Counts DEF Ordered
<1>4. \A c \in Processor : pagesSeen'[c] <= marked'
  BY <1>1, Counts DEF Ordered
<1>5. QED BY <1>3, <1>4, Zenon DEF Ordered

(* Old code becomes a block, or is let run again, only while memory has    *)
(* it; the last step of a flush keeps the block only if nothing was        *)
(* counted.                                                                *)
LEMMA OldBlocks ==
  ASSUME Roles, TypeOK, Marking, Next
  PROVE  /\ RunsOld' => RunsOld \/ (~mem' /\ pc'[Runner] = "idle")
         /\ mem => mem'
         /\ FlushUnlessClean /\ RunsOld' => gen = genSeen
<1>1. CASE WriterStep \/ DeviceStep \/ \E c \in Processor : honour_dpc_flush_request(c)
  <2>1. UNCHANGED block /\ pc'[Runner] = pc[Runner]
    BY <1>1, WriterSide, Zenon DEF Roles
  <2>2. mem => mem'
    BY <1>1, Zenon DEF WriterStep, Drain, dpc_host_base_w, FillPageCache, Store, note_write,
                memory_barrier, SetFlag, DeviceStep, note_write_range, do_pci_write,
                LeaveDmaGuard, DeviceDone, honour_dpc_flush_request
  <2>3. FlushUnlessClean => pc[Runner] = "gen" /\ pc'[Runner] = "idle"
    BY Zenon DEF FlushUnlessClean, Goto, TypeOK, Processor, Roles
  <2>4. QED BY <2>1, <2>2, <2>3, Zenon DEF RunsOld
<1>2. CASE (\E c \in Compiler : CompilerStep(c)) \/ RunnerStep
  <2>1. UNCHANGED mem
    BY <1>2, CompilerSide, Zenon
  <2>2. RunsOld' => RunsOld \/ (~mem /\ pc'[Runner] = "idle")
    <3>1. ASSUME NEW c \in Compiler, PublishBlock(c)
          PROVE  RunsOld' => RunsOld \/ (~mem /\ pc'[Runner] = "idle")
      BY <3>1, Zenon DEF PublishBlock, RunsOld, Source, NoBlock, Goto, TypeOK, Processor, Roles
    <3>2. ASSUME NEW c \in Compiler,
                 compile_block(c) \/ LockMarks(c) \/ note_code(c) \/ request_code_page_flush(c)
          PROVE  UNCHANGED block
      BY <3>2, Zenon DEF compile_block, LockMarks, note_code, request_code_page_flush, code
    <3>3. CASE SeeFlag \/ flush_icache \/ honour_new_code_pages
      BY <3>3, Zenon DEF SeeFlag, flush_icache, honour_new_code_pages, code, RunsOld
    <3>4. CASE FlushUnlessClean
      BY <3>4, Zenon DEF FlushUnlessClean, RunsOld, TypeOK, Roles
    <3>5. CASE revalidate_flushed
      BY <3>5, Zenon DEF revalidate_flushed, RunsOld, NoBlock, TypeOK, Roles
    <3>6. QED BY <1>2, <3>1, <3>2, <3>3, <3>4, <3>5, Zenon DEF CompilerStep, RunnerStep, RunsOld
  <2>3. FlushUnlessClean /\ RunsOld' => gen = genSeen
    BY DEF FlushUnlessClean, RunsOld, TypeOK, Roles
  <2>4. QED BY <2>1, <2>2, <2>3, Zenon
<1>3. QED BY <1>1, <1>2, NextSteps, Zenon

(* An old block that runs is one whose page is marked and asked about.     *)
LEMMA OldAsked ==
  ASSUME Roles, Asking, RunsOld
  PROVE  Asked /\ Runner \in lineBit
BY Zenon DEF Roles, Asking, RunsOld

(* A store to a block's source is counted, or is still to be.              *)
LEMMA StoreCountedStep ==
  ASSUME Roles, Inv, Next
  PROVE  StoreCounted'
<1>1. SUFFICES ASSUME mem', dev'.step = "idle", RunsOld',
                      gen' = genSeen', marked' = pagesSeen'[Runner],
                      pc'[Writer] \notin {"note", "fence", "line", "mbflush"}
               PROVE  Writer \in flushReq' /\ pc'[Writer] \notin {"flag", "done"}
  BY Zenon DEF StoreCounted
<1>2. RunsOld /\ Asked /\ Runner \in lineBit
  BY <1>1, OldBlocks, OldAsked, Zenon DEF Inv
<1>3. gen \in Nat /\ genSeen \in Nat /\ genSeen <= gen
  BY Zenon DEF Inv, TypeOK, Ordered
<1>4. gen = genSeen
  <2>1. FlushUnlessClean => gen = genSeen
    BY <1>1, OldBlocks, Zenon DEF Inv
  <2>2. genSeen' = genSeen => gen = genSeen
    BY <1>1, <1>3, Counts DEF Inv
  <2>3. QED BY <2>1, <2>2, Counts, Zenon DEF Inv
<1>5. CASE Drain
  BY <1>1, <1>2, <1>5, Zenon DEF Drain, Inv, Authors, Unseen
<1>6. CASE WriterStep /\ ~Drain
  <2>1. UNCHANGED <<genSeen, marked>>
    BY <1>6, WriterSide, Zenon DEF Inv
  <2>2. UNCHANGED <<mem, dev, flushReq, pagesSeen>>
    BY <1>6, Zenon DEF WriterStep, dpc_host_base_w, FillPageCache, Store, note_write,
                memory_barrier, SetFlag, seen, guest
  <2>3. \/ pc[Writer] \in {"note", "fence", "line", "mbflush"}
        \/ Writer \in flushReq /\ pc[Writer] \notin {"flag", "done"}
    BY <1>1, <1>2, <1>4, <2>1, <2>2, Zenon DEF Inv, Counting, StoreCounted
  <2>4. gen' # gen + 1
    BY <1>1, <1>3, <1>4, <2>1
  <2>5. QED
    BY <1>1, <1>2, <1>6, <2>2, <2>3, <2>4, Zenon
    DEF WriterStep, dpc_host_base_w, FillPageCache, Store, note_write,
        memory_barrier, SetFlag, Goto, Inv, TypeOK, Processor, Asked
<1>7. CASE DeviceStep
  <2>1. dev'.step # "idle"
    BY <1>7 DEF DeviceStep, note_write_range, do_pci_write, LeaveDmaGuard, DeviceDone,
                Inv, TypeOK
  <2>2. QED BY <1>1, <2>1, Zenon
<1>8. ASSUME NEW c \in Processor, honour_dpc_flush_request(c)
      PROVE  FALSE
  <2>1. gen' = gen + 1 /\ genSeen' = genSeen
    BY <1>8, Zenon DEF honour_dpc_flush_request
  <2>2. gen' # genSeen'
    BY <1>3, <1>4, <2>1
  <2>3. QED BY <1>1, <2>2, Zenon
<1>9. CASE (\E c \in Compiler : CompilerStep(c)) \/ RunnerStep
  <2>1. UNCHANGED <<mem, dev>> /\ pc'[Writer] = pc[Writer]
    BY <1>9, CompilerSide, Zenon DEF Inv
  <2>2. flushReq \subseteq flushReq'
    BY <1>9, Zenon DEF CompilerStep, compile_block, LockMarks, note_code, request_code_page_flush,
                PublishBlock, RunnerStep, SeeFlag, flush_icache, honour_new_code_pages,
                FlushUnlessClean, revalidate_flushed
  <2>3. marked = pagesSeen[Runner]
    <3>1. /\ marked \in Nat /\ pagesSeen[Runner] \in Nat /\ pagesSeen[Runner] <= marked
          /\ marked' \in {marked, marked + 1}
      BY Counts DEF Inv, TypeOK, Ordered, Roles, Processor
    <3>2. CASE pagesSeen' = pagesSeen
      BY <1>1, <3>1, <3>2
    <3>3. CASE honour_new_code_pages
      <4>1. genSeen' = genSeen /\ (marked # pagesSeen[Runner] => gen' = gen + 1)
        BY <3>3, Zenon DEF honour_new_code_pages
      <4>2. QED BY <1>1, <1>3, <1>4, <4>1
    <3>4. QED
      BY <1>9, <3>2, <3>3, Zenon DEF CompilerStep, compile_block, LockMarks, note_code,
         request_code_page_flush, PublishBlock, RunnerStep, SeeFlag, flush_icache,
         FlushUnlessClean, revalidate_flushed, seen
  <2>4. QED BY <1>1, <1>2, <1>4, <2>1, <2>2, <2>3, Zenon DEF Inv, Counting, StoreCounted
<1>10. QED BY <1>5, <1>6, <1>7, <1>8, <1>9, NextSteps, Zenon

(* flush_icache takes the marks before it compares the counter.            *)
LEMMA MarkSeenStep ==
  ASSUME Roles, Inv, Next
  PROVE  MarkSeen'
<1>1. SUFFICES ASSUME pc'[Runner] = "gen", RunsOld'
               PROVE  marked' = pagesSeen'[Runner]
  BY Zenon DEF MarkSeen
<1>2. RunsOld /\ Asked
  BY <1>1, OldBlocks, OldAsked, Zenon DEF Inv
<1>3. marked' = marked
  <2>1. CASE WriterStep \/ DeviceStep \/ \E c \in Processor : honour_dpc_flush_request(c)
    BY <2>1, WriterSide, Zenon DEF Inv
  <2>2. ASSUME NEW c \in Compiler, CompilerStep(c)
        PROVE  marked' = marked
    BY <1>2, <2>2, Zenon DEF Asked, CompilerStep, compile_block, LockMarks, note_code,
                      request_code_page_flush, PublishBlock, map
  <2>3. CASE RunnerStep
    BY <2>3, Zenon DEF RunnerStep, SeeFlag, flush_icache, honour_new_code_pages, FlushUnlessClean,
                revalidate_flushed, map
  <2>4. QED BY <2>1, <2>2, <2>3, NextSteps, Zenon
<1>4. CASE pc[Runner] = "gen"
  BY <1>2, <1>3, <1>4, Counts, Zenon DEF Inv, Counting, MarkSeen, Roles, Processor
<1>5. CASE pc[Runner] # "gen"
  <2>1. honour_new_code_pages
    <3>1. CASE WriterStep \/ DeviceStep \/ \E c \in Processor : honour_dpc_flush_request(c)
      BY <1>1, <1>5, <3>1, WriterSide, Zenon DEF Inv, Roles
    <3>2. ASSUME NEW c \in Compiler, CompilerStep(c)
          PROVE  FALSE
      BY <1>1, <1>5, <3>2, ZenonT(60) DEF CompilerStep, compile_block, LockMarks, note_code,
         request_code_page_flush, PublishBlock, Goto, Inv, TypeOK, Roles, Processor
    <3>3. CASE RunnerStep
      BY <1>1, <1>5, <3>3, Zenon DEF RunnerStep, SeeFlag, flush_icache, FlushUnlessClean,
         revalidate_flushed, Goto, Inv, TypeOK, Roles, Processor
    <3>4. QED BY <3>1, <3>2, <3>3, NextSteps, Zenon
  <2>2. QED BY <2>1, <1>3, Zenon DEF honour_new_code_pages, Inv, TypeOK, Roles, Processor
<1>6. QED BY <1>4, <1>5, Zenon

(* A transfer is counted before its guard is left (note_write_range).      *)
LEMMA DmaCountedStep ==
  ASSUME Roles, Inv, Authors', Next
  PROVE  DmaCounted'
<1>1. SUFFICES ASSUME dev'.step \in {"flag", "done"}, dev'.touched, RunsOld', gen' = genSeen'
               PROVE  FALSE
  BY Zenon DEF DmaCounted
<1>2. RunsOld
  <2>1. mem'
    BY <1>1, Zenon DEF Authors
  <2>2. QED BY <1>1, <2>1, OldBlocks, Zenon DEF Inv
<1>3. gen \in Nat /\ genSeen \in Nat /\ genSeen <= gen
  BY Zenon DEF Inv, TypeOK, Ordered
<1>4. gen = genSeen
  <2>1. FlushUnlessClean => gen = genSeen
    BY <1>1, OldBlocks, Zenon DEF Inv
  <2>2. genSeen' = genSeen => gen = genSeen
    BY <1>1, <1>3, Counts DEF Inv
  <2>3. QED BY <2>1, <2>2, Counts, Zenon DEF Inv
<1>5. ~(dev.step \in {"flag", "done"} /\ dev.touched)
  BY <1>2, <1>4, Zenon DEF Inv, Counting, DmaCounted
<1>6. LeaveDmaGuard
  <2>1. dev' # dev
    BY <1>1, <1>5, Zenon
  <2>2. CASE WriterStep \/ \E c \in Processor : honour_dpc_flush_request(c)
    BY <2>1, <2>2, Zenon DEF WriterStep, Drain, dpc_host_base_w, FillPageCache, Store, note_write,
                memory_barrier, SetFlag, honour_dpc_flush_request, guest
  <2>3. CASE DeviceStep
    BY <1>1, <1>5, <2>3 DEF DeviceStep, note_write_range, do_pci_write, DeviceDone, Inv, TypeOK
  <2>4. CASE (\E c \in Compiler : CompilerStep(c)) \/ RunnerStep
    BY <2>1, <2>4, CompilerSide, Zenon DEF Inv
  <2>5. QED BY <2>2, <2>3, <2>4, NextSteps, Zenon
<1>7. dev.touched /\ genSeen' = genSeen
  BY <1>1, <1>6, Zenon DEF LeaveDmaGuard, seen, Inv, TypeOK
<1>8. gen' = gen + 1
  BY <1>6, <1>7, Zenon DEF LeaveDmaGuard
<1>9. QED BY <1>1, <1>3, <1>4, <1>7, <1>8

(* After the IMB of the runner nothing old is left to run.                 *)
LEMMA FreshStep ==
  ASSUME Roles, Inv, Authors', Next
  PROVE  Fresh'
<1>1. SUFFICES ASSUME told' = "imb", dev'.step = "idle" \/ dev'.touched, RunsOld'
               PROVE  FALSE
  BY Zenon DEF Fresh
<1>2. RunsOld
  <2>1. mem'
    BY <1>1, Zenon DEF Authors
  <2>2. QED BY <1>1, <2>1, OldBlocks, Zenon DEF Inv
<1>3. dev.step = "idle" \/ dev.touched
  <2>1. CASE WriterStep \/ \E c \in Processor : honour_dpc_flush_request(c)
    BY <1>1, <2>1, Zenon DEF WriterStep, Drain, dpc_host_base_w, FillPageCache, Store, note_write,
                memory_barrier, SetFlag, honour_dpc_flush_request, guest
  <2>2. CASE DeviceStep
    BY <1>1, <2>2, Zenon DEF DeviceStep, note_write_range, do_pci_write, LeaveDmaGuard, DeviceDone,
                      Inv, TypeOK
  <2>3. CASE (\E c \in Compiler : CompilerStep(c)) \/ RunnerStep
    BY <1>1, <2>3, CompilerSide, Zenon DEF Inv
  <2>4. QED BY <2>1, <2>2, <2>3, NextSteps, Zenon
<1>4. told # "imb"
  BY <1>2, <1>3, Zenon DEF Inv, Counting, Fresh
<1>5. FlushUnlessClean /\ told = "flag"
  <2>1. CASE WriterStep \/ DeviceStep \/ \E c \in Processor : honour_dpc_flush_request(c)
    BY <1>1, <1>4, <2>1, WriterSide, Zenon DEF Inv
  <2>2. ASSUME NEW c \in Compiler, CompilerStep(c)
        PROVE  told' = told
    BY <2>2, Zenon DEF CompilerStep, compile_block, LockMarks, note_code,
                request_code_page_flush, PublishBlock, guest
  <2>3. CASE RunnerStep
    BY <1>1, <1>4, <2>3, Zenon DEF RunnerStep, SeeFlag, flush_icache, honour_new_code_pages,
                            FlushUnlessClean, revalidate_flushed, guest
  <2>4. QED BY <1>1, <1>4, <2>1, <2>2, <2>3, NextSteps, Zenon
<1>6. gen = genSeen /\ marked = pagesSeen[Runner]
  BY <1>1, <1>2, <1>5, OldBlocks, Zenon DEF FlushUnlessClean, Inv, Counting, MarkSeen
<1>7. flag
  BY <1>5, Zenon DEF Inv, Authors
<1>8. CASE pc[Writer] = "done"
  <2>1. mem /\ dev.step = "idle"
    BY <1>8, Zenon DEF Inv, Authors
  <2>2. QED BY <1>2, <1>6, <1>8, <2>1, Zenon DEF Inv, Counting, StoreCounted
<1>9. CASE dev.step = "done"
  BY <1>2, <1>3, <1>6, <1>9, Zenon DEF Inv, Counting, DmaCounted
<1>10. QED BY <1>7, <1>8, <1>9, Zenon DEF Inv, Authors

-----------------------------------------------------------------------------
(* Every step keeps the types.                                             *)
LEMMA TypeStep ==
  ASSUME Roles, TypeOK, Marking, Next
  PROVE  TypeOK'
<1>1. CASE WriterStep
  <2>1. UNCHANGED <<lineBit, pageBit, marked, markMx, todo, src, block, genSeen, told,
                    flushReq, pagesSeen, dev>>
    BY <1>1, Zenon DEF WriterStep, Drain, dpc_host_base_w, FillPageCache, Store, note_write,
                memory_barrier, SetFlag, map, seen, code, guest
  <2>2. mem' \in BOOLEAN /\ buf' \in BOOLEAN /\ inline' \in BOOLEAN /\ flag' \in BOOLEAN
    BY <1>1, Zenon DEF WriterStep, Drain, dpc_host_base_w, FillPageCache, Store, note_write,
                memory_barrier, SetFlag, guest, TypeOK
  <2>3. gen' \in Nat
    BY <1>1 DEF WriterStep, Drain, dpc_host_base_w, FillPageCache, Store, note_write,
                memory_barrier, SetFlag, map, TypeOK
  <2>4. UNCHANGED pc \/ \E s \in CpuSteps : Goto(Writer, s)
    BY <1>1, Zenon DEF WriterStep, Drain, dpc_host_base_w, FillPageCache, Store, note_write,
                memory_barrier, SetFlag, CpuSteps
  <2>5. pc' \in [Processor -> CpuSteps]
    BY <2>4, Zenon DEF Goto, TypeOK
  <2>6. QED BY <2>1, <2>2, <2>3, <2>5, Zenon DEF TypeOK
<1>2. CASE DeviceStep
  <2>1. UNCHANGED <<lineBit, pageBit, marked, markMx, todo, src, block, genSeen, told,
                    flushReq, pagesSeen, pc, buf, inline>>
    BY <1>2, Zenon DEF DeviceStep, note_write_range, do_pci_write, LeaveDmaGuard, DeviceDone, map,
                seen, code
  <2>2. mem' \in BOOLEAN /\ flag' \in BOOLEAN
    BY <1>2, Zenon DEF DeviceStep, note_write_range, do_pci_write, LeaveDmaGuard, DeviceDone,
                TypeOK
  <2>3. gen' \in Nat
    BY <1>2 DEF DeviceStep, note_write_range, do_pci_write, LeaveDmaGuard, DeviceDone, map,
                TypeOK
  <2>4. dev' \in [step : {"idle", "copy", "leave", "flag", "done"}, touched : BOOLEAN]
    <3>1. CASE note_write_range
      <4>1. dev' = [step |-> "copy", touched |-> (pageBit /\ Runner \in lineBit)]
        BY <3>1, Zenon DEF note_write_range
      <4>2. (pageBit /\ Runner \in lineBit) \in BOOLEAN
        BY Zenon DEF TypeOK
      <4>3. QED BY <4>1, <4>2, Zenon
    <3>2. CASE do_pci_write \/ LeaveDmaGuard \/ DeviceDone
      BY <3>2, Zenon DEF do_pci_write, LeaveDmaGuard, DeviceDone, TypeOK
    <3>3. QED BY <1>2, <3>1, <3>2, Zenon DEF DeviceStep
  <2>5. QED BY <2>1, <2>2, <2>3, <2>4, Zenon DEF TypeOK
<1>3. ASSUME NEW c \in Processor, honour_dpc_flush_request(c)
      PROVE  TypeOK'
  BY <1>3 DEF honour_dpc_flush_request, code, guest, Goto, TypeOK, CpuSteps
<1>4. ASSUME NEW c \in Compiler, CompilerStep(c)
      PROVE  TypeOK'
  <2>1. CASE compile_block(c)
    BY <2>1 DEF compile_block, Source, map, seen, guest, Goto, TypeOK, CpuSteps, Processor
  <2>2. CASE LockMarks(c)
    BY <2>2, ZenonT(60) DEF LockMarks, seen, code, guest, Goto, TypeOK, CpuSteps, Processor
  <2>3. CASE note_code(c)
    <3>1. UNCHANGED <<mem, buf, flushReq, inline, pagesSeen, genSeen, src, block, dev, flag, told>>
      BY <2>3, Zenon DEF note_code, seen, code, guest
    <3>2. pageBit' \in BOOLEAN /\ lineBit' \in SUBSET Compiler
      BY <2>3, Zenon DEF note_code, TypeOK
    <3>3. marked' \in 0 .. 1 /\ gen' \in Nat
      BY <2>3 DEF note_code, TypeOK, Marking
    <3>4. markMx' \in {{}} \cup {{d} : d \in Compiler} /\ todo' \in SUBSET Processor
      BY <2>3, Zenon DEF note_code, TypeOK
    <3>5. \E s \in CpuSteps : Goto(c, s)
      BY <2>3, Zenon DEF note_code, CpuSteps
    <3>6. pc' \in [Processor -> CpuSteps]
      BY <3>5, Zenon DEF Goto, TypeOK
    <3>7. QED BY <3>1, <3>2, <3>3, <3>4, <3>6, Zenon DEF TypeOK
  <2>4. CASE request_code_page_flush(c)
    BY <2>4 DEF request_code_page_flush, map, seen, code, guest, Goto, TypeOK, CpuSteps, Processor
  <2>5. CASE PublishBlock(c)
    BY <2>5 DEF PublishBlock, NoBlock, map, seen, guest, Goto, TypeOK, CpuSteps, Processor
  <2>6. QED BY <1>4, <2>1, <2>2, <2>3, <2>4, <2>5, Zenon DEF CompilerStep
<1>5. CASE RunnerStep
  <2>1. CASE SeeFlag \/ flush_icache \/ honour_new_code_pages
    BY <2>1 DEF SeeFlag, flush_icache, honour_new_code_pages, map, seen, code, guest, Goto,
                TypeOK, CpuSteps, Processor, Roles
  <2>2. CASE FlushUnlessClean
    BY <2>2 DEF FlushUnlessClean, map, Goto, TypeOK, CpuSteps, Processor, Roles
  <2>3. CASE revalidate_flushed
    BY <2>3 DEF revalidate_flushed, NoBlock, map, seen, guest, TypeOK, Roles
  <2>4. QED BY <1>5, <2>1, <2>2, <2>3, Zenon DEF RunnerStep
<1>6. QED BY <1>1, <1>2, <1>3, <1>4, <1>5, NextSteps, Zenon

(* Initially no page is marked and no block translated.                    *)
LEMMA InvInit ==
  ASSUME Roles, Init
  PROVE  Inv
<1>1. TypeOK
  <2>1. /\ block \in [Compiler -> [new : BOOLEAN, state : {"none", "valid", "flushed"}]]
        /\ dev \in [step : {"idle", "copy", "leave", "flag", "done"}, touched : BOOLEAN]
    BY Zenon DEF Init, NoBlock
  <2>2. /\ mem \in BOOLEAN /\ buf \in BOOLEAN /\ pageBit \in BOOLEAN /\ inline \in BOOLEAN
        /\ flag \in BOOLEAN /\ src \in [Compiler -> BOOLEAN]
    BY Zenon DEF Init
  <2>3. pc \in [Processor -> CpuSteps] /\ pagesSeen \in [Processor -> 0 .. 1]
    BY DEF Init, CpuSteps
  <2>4. QED BY <2>1, <2>2, <2>3 DEF Init, TypeOK
<1>2. \A c \in Processor : pc[c] = "idle"
  BY Zenon DEF Init
<1>3. \A c \in Compiler : block[c].state = "none"
  BY Zenon DEF Init, NoBlock
<1>4. Marking /\ Asking
  BY <1>2, <1>3, Zenon DEF Init, Marking, Asking, CompilerSteps, InNote, Processor
<1>5. Unseen /\ Authors
  BY <1>2, Zenon DEF Init, Unseen, Asked, Authors, Processor
<1>6. Ordered
  BY DEF Init, Ordered
<1>7. Counting
  BY <1>3, Zenon DEF Roles, RunsOld, Counting, StoreCounted, MarkSeen, DmaCounted, Fresh
<1>8. QED BY <1>1, <1>4, <1>5, <1>6, <1>7, Zenon DEF Inv

(* Every step keeps the invariant.                                         *)
LEMMA InvStep ==
  ASSUME Roles, Inv, [Next]_vars
  PROVE  Inv'
<1>1. CASE Next
  <2>1. TypeOK' /\ Marking' /\ Asking' /\ Unseen' /\ Authors' /\ Ordered'
    BY <1>1, TypeStep, MarkStep, AskStep, UnseenStep, AuthorStep, OrderStep, Zenon DEF Inv
  <2>2. Counting'
    BY <1>1, <2>1, StoreCountedStep, MarkSeenStep, DmaCountedStep, FreshStep, Zenon DEF Counting
  <2>3. QED BY <2>1, <2>2, Zenon DEF Inv
<1>2. CASE UNCHANGED vars
  <2>1. TypeOK' /\ Marking' /\ Authors' /\ Ordered'
    BY <1>2, ZenonT(60) DEF vars, map, seen, Inv, TypeOK, Marking, Authors, Ordered
  <2>2. Asked' = Asked /\ RunsOld' = RunsOld
    BY <1>2, Zenon DEF vars, map, Asked, RunsOld
  <2>3. Asking' /\ Unseen'
    BY <1>2, <2>2, Zenon DEF vars, map, Inv, Asking, Unseen
  <2>4. Counting'
    BY <1>2, <2>2, Zenon DEF vars, map, seen, Inv, Counting, StoreCounted, MarkSeen, DmaCounted, Fresh
  <2>5. QED BY <2>1, <2>3, <2>4, Zenon DEF Inv
<1>3. QED BY <1>1, <1>2, Zenon

(* The invariant holds, of any number of compilers on the page.            *)
THEOREM MapInvariant == ASSUME Roles PROVE Spec => []Inv
<1>1. Init => Inv
  BY InvInit, Zenon
<1>2. Inv /\ [Next]_vars => Inv'
  BY InvStep, Zenon
<1>3. QED BY <1>1, <1>2, PTL DEF Spec

(* Of any number of compilers on the page: a block whose source has        *)
(* changed in memory has been counted, or the writer has yet to count it   *)
(* (note_write, honour_dpc_flush_request).                                 *)
THEOREM StaleCounted == ASSUME Roles PROVE Spec => []StaleIsCounted
<1>1. Inv => StaleIsCounted
  BY Zenon DEF Inv, Counting, StoreCounted, StaleIsCounted
<1>2. QED BY <1>1, MapInvariant, PTL

(* Of any number of compilers on the page: after the architected hand-over *)
(* of new instructions no block of the old ones is left to run, though the *)
(* IMB keeps every block when nothing was counted (flush_icache).          *)
THEOREM HandOverIsFresh == ASSUME Roles PROVE Spec => []FreshAfterIMB
<1>1. Inv => FreshAfterIMB
  BY Zenon DEF Inv, Counting, Fresh, FreshAfterIMB
<1>2. QED BY <1>1, MapInvariant, PTL

(* The same of a device's transfer into lines that held code when it began *)
(* (the count of ~CPCIDMAWriteGuard).                                      *)
THEOREM DmaIsFresh == ASSUME Roles PROVE Spec => []FreshAfterDma
<1>1. Inv => FreshAfterDma
  BY Zenon DEF Inv, Counting, Fresh, FreshAfterDma
<1>2. QED BY <1>1, MapInvariant, PTL
=============================================================================
