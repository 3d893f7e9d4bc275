---------------------------- MODULE TransBuffer ----------------------------
(* The data translation buffer of one processor (cpu/AlphaCPU.cpp, .hpp)   *)
(* and the three structures derived from it: its index by page, the shadow *)
(* of what it evicted, and the two-level page cache that the interpreter   *)
(* and compiled code look into first.  The architecture lets a processor   *)
(* hold on to a translation until software invalidates it, and no longer.  *)
(* The 21264's; superpages and the 21464's own TB are left out.            *)
EXTENDS Naturals, Sequences, FiniteSets, FiniteSetsExt, SequencesExt

CONSTANTS
  Page,                 \* virtual pages, numbered
  Layout,               \* how they are used: the pages a PTE with a granularity
                        \* hint maps at once, those whose PTEs have ASM, the
                        \* address spaces and the modes, 0 among them
  RW,                   \* accesses: 0 for a read, 1 for a write
  Pte,                  \* the accesses a valid PTE allows: <<access, mode>> pairs
  TB_ENTRIES, kTbIdxEntries, kTbIdxWays, kTbShadowEntries, kDpcEntries, kDpc2Entries,
  Gens,                 \* values of m_dpc2_gen, 2^32 in the code
  MaxChanges            \* bound: changes of the page tables

VARIABLES
  t,                    \* tb[DATA] and what is derived from it
  ctx,                  \* asn0 (PALcode keeps asn1 the same), cm, m_dpc_key
  pt,                   \* the guest's page tables
  stale,                \* PTEs changed and not invalidated on this processor
  changes, layout

tbVars == <<t, ctx, pt, stale, changes, layout>>

Block  == layout.block
Global == layout.global
Asn    == layout.asn

NoEntry  == [pages |-> {}, pte |-> 0, asm |-> FALSE, asn |-> 0]   \* not valid
NoPage   == [pages |-> {}, pte |-> 0, asn |-> 0, cm |-> 0, gen |-> 0]
Unmapped == 0           \* a PTE that is not valid
Mapped   == 1           \* what the PTEs say at first

Slot == 0 .. TB_ENTRIES - 1

NoPages(n) == [rw \in RW |-> [k \in 0 .. n - 1 |-> NoPage]]

Empty ==
  [tb |-> [i \in Slot |-> NoEntry], next |-> 0, last |-> [rw \in RW |-> 0],
   idx |-> [k \in 0 .. kTbIdxEntries - 1 |-> <<>>], lost |-> {}, ghLive |-> 0,
   shadow |-> [k \in 0 .. kTbShadowEntries - 1 |-> NoEntry],
   l1 |-> NoPages(kDpcEntries), l2 |-> NoPages(kDpc2Entries), gen |-> 1]

Init ==
  /\ t = Empty /\ stale = {} /\ changes = 0
  /\ ctx = [asn0 |-> 0, cm |-> 0, key |-> <<0, 0>>]
  /\ layout \in Layout /\ pt \in [Page \X Asn -> {[pte |-> Mapped, gh |-> FALSE]}]

Matches(e, p, a) == p \in e.pages /\ (e.asm \/ e.asn = a)

Holding(s, p, a) == {i \in Slot : Matches(s.tb[i], p, a)}

Only(e) == CHOOSE p \in e.pages : TRUE

-----------------------------------------------------------------------------
(* The page cache.  A full flush moves level 2 to its next generation.     *)
flush_data_page_cache(s) ==
  LET g == (s.gen + 1) % Gens
  IN [s EXCEPT !.l1 = NoPages(kDpcEntries), !.l2 = IF g = 0 THEN NoPages(kDpc2Entries) ELSE @,
               !.gen = IF g = 0 THEN 1 ELSE g]

Without(row, ps) == [k \in DOMAIN row |-> IF row[k].pages \subseteq ps THEN NoPage ELSE row[k]]

flush_data_page_cache_range(s, ps) ==
  IF Cardinality(ps) > 1 THEN flush_data_page_cache(s)
  ELSE [s EXCEPT !.l1 = [rw \in RW |-> Without(@[rw], ps)],
                 !.l2 = [rw \in RW |-> Without(@[rw], ps)]]

-----------------------------------------------------------------------------
(* The index: per set the slots that hold its 8 KB pages, newest first.    *)

tb_idx_insert(s, p, i) ==
  LET k == p % kTbIdxEntries
      others == SelectSeq(s.idx[k], LAMBDA j : j # i)
  IN [s EXCEPT !.idx[k] = <<i>> \o SubSeq(others, 1, Min({Len(others), kTbIdxWays - 1})),
               !.lost = IF Len(others) = kTbIdxWays THEN @ \cup {k} ELSE @]

tb_idx_drop(s, e, i) ==
  IF Cardinality(e.pages) > 1 THEN [s EXCEPT !.ghLive = @ - 1]
  ELSE [s EXCEPT !.idx[Only(e) % kTbIdxEntries] = SelectSeq(@, LAMBDA j : j # i)]

tb_idx_add(s, i) ==
  IF Cardinality(s.tb[i].pages) > 1 THEN [s EXCEPT !.ghLive = @ + 1]
  ELSE tb_idx_insert(s, Only(s.tb[i]), i)

Same(x, e) ==
  x.pages = e.pages /\ (IF x.asm THEN e.asm ELSE ~e.asm /\ x.asn = e.asn)

(* Only 8 KB entries are kept anywhere but the TB, which is looked into    *)
(* through its index.                                                      *)
dtb_still_maps(s, e) ==
  /\ Cardinality(e.pages) = 1
  /\ LET k == Only(e) % kTbIdxEntries IN
     \/ Same(s.shadow[Only(e) % kTbShadowEntries], e)
     \/ \E n \in DOMAIN s.idx[k] : Same(s.tb[s.idx[k][n]], e)
     \/ k \in s.lost /\ \E j \in Slot : Same(s.tb[j], e)

\* Mutant: what has left the TB stays in the page cache.
KeepUnmapped(s, e) == s

drop_unmapped_page(s, e) ==
  IF e # NoEntry /\ ~dtb_still_maps(s, e) THEN flush_data_page_cache_range(s, e.pages)
  ELSE s

-----------------------------------------------------------------------------
(* FindTBEntry: the last match, then the index, then what the index cannot *)
(* say.  The answer is the slot, if any, in a sequence.                    *)
Answer(s, i) == [s |-> s, found |-> <<i>>]

tb_refill_from_shadow(s, p, rw) ==
  LET sh == s.shadow[p % kTbShadowEntries]
      i == s.next
      victim == s.tb[i]
      out == IF victim # NoEntry THEN tb_idx_drop(s, victim, i) ELSE s
      back == tb_idx_add([out EXCEPT !.tb[i] = sh, !.next = (i + 1) % TB_ENTRIES,
                                     !.last[rw] = i], i)
  IN IF Matches(sh, p, ctx.asn0) THEN Answer(drop_unmapped_page(back, victim), i)
     ELSE [s |-> s, found |-> <<>>]

FindTBEntry(s, p, rw) ==
  LET k == p % kTbIdxEntries
      held == Holding(s, p, ctx.asn0)
      probe == SelectSeq(s.idx[k], LAMBDA j : j \in held)
      At(r, i) == Answer([r EXCEPT !.last[rw] = i], i)
  IN CASE s.last[rw] \in held -> Answer(s, s.last[rw])
       [] OTHER ->
          IF s.ghLive = 0 /\ probe # <<>> THEN At(s, Head(probe))
          ELSE IF s.ghLive = 0 /\ k \in s.lost /\ held # {}
            THEN At(tb_idx_insert(s, p, Min(held)), Min(held))
          ELSE IF s.ghLive # 0 /\ held # {} THEN At(s, Min(held))
          ELSE tb_refill_from_shadow(s, p, rw)

-----------------------------------------------------------------------------
(* Accesses.  DATA_PHYS_NT and the helpers of compiled code: level 1, then *)
(* level 2, then the TB, whose translation goes into both.                 *)
Current == <<ctx.asn0, ctx.cm>>

Hit(s, row, p, c) ==
  {k \in DOMAIN row : row[k].pages = {p} /\ <<row[k].asn, row[k].cm>> = c}

Live2(s, rw) == [k \in DOMAIN s.l2[rw] |-> IF s.l2[rw][k].gen = s.gen THEN s.l2[rw][k] ELSE NoPage]

dpc_promote(s, p, rw) ==
  [s EXCEPT !.l1[rw][p % kDpcEntries] = s.l2[rw][p % kDpc2Entries]]

Fill(s, p, rw, pte) ==
  LET new == [pages |-> {p}, pte |-> pte, asn |-> ctx.asn0, cm |-> ctx.cm, gen |-> s.gen]
  IN [s EXCEPT !.l1[rw][p % kDpcEntries] = new, !.l2[rw][p % kDpc2Entries] = new]

virt2phys(p, rw) ==
  LET r == FindTBEntry(t, p, rw)
      e == r.s.tb[Head(r.found)]
  IN IF r.found # <<>> /\ <<rw, ctx.cm>> \in Pte[e.pte] THEN Fill(r.s, p, rw, e.pte) ELSE r.s

Access(p, rw) ==
  /\ t' = CASE Hit(t, t.l1[rw], p, Current) # {} -> t
            [] OTHER -> IF Hit(t, Live2(t, rw), p, Current) # {} THEN dpc_promote(t, p, rw)
                        ELSE virt2phys(p, rw)
  /\ UNCHANGED <<ctx, pt, stale, changes, layout>>

(* Compiled code's probe, by m_dpc_key, of level 1 and of level 2.         *)
InlineAccess(p, rw) ==
  /\ Hit(t, t.l1[rw], p, ctx.key) = {} /\ Hit(t, Live2(t, rw), p, ctx.key) # {}
  /\ t' = dpc_promote(t, p, rw)
  /\ UNCHANGED <<ctx, pt, stale, changes, layout>>

(* PALcode's own accesses go to the TB at once.                            *)
PalAccess(p, rw) ==
  /\ t' = FindTBEntry(t, p, rw).s
  /\ UNCHANGED <<ctx, pt, stale, changes, layout>>

-----------------------------------------------------------------------------
(* HW_MTPR DTB_PTE0 and DTB_PTE1: PALcode fills from the page table.       *)
add_tb(s, p, e) ==
  LET held == Holding(s, p, e.asn)
      i == IF held # {} THEN Min(held) ELSE s.next
      old == s.tb[i]
      k == p % kTbShadowEntries
      small == Cardinality(e.pages) = 1
      gone == IF old # NoEntry THEN tb_idx_drop(s, old, i) ELSE s
      in == tb_idx_add([gone EXCEPT !.tb[i] = e, !.last = [@ EXCEPT ![0] = i],
                                    !.next = IF held # {} THEN @ ELSE (i + 1) % TB_ENTRIES], i)
      kept == IF small THEN [in EXCEPT !.shadow[k] = e] ELSE in
      left == drop_unmapped_page(kept, old)
      pushed == IF small THEN drop_unmapped_page(left, s.shadow[k]) ELSE left
  IN flush_data_page_cache_range(pushed, e.pages)

Entry(p, a) ==
  [pages |-> IF pt[p, a].gh THEN Block ELSE {p}, pte |-> pt[p, a].pte,
   asm |-> p \in Global, asn |-> a]

add_tb_d(p) ==
  /\ pt[p, ctx.asn0].pte # Unmapped
  /\ t' = add_tb(t, p, Entry(p, ctx.asn0))
  /\ UNCHANGED <<ctx, pt, stale, changes, layout>>

-----------------------------------------------------------------------------
(* The invalidates: DTB_IA, DTB_IAP, DTB_IS0 and DTB_IS1.                  *)
tbia ==
  /\ t' = flush_data_page_cache([Empty EXCEPT !.l1 = t.l1, !.l2 = t.l2, !.gen = t.gen])
  /\ stale' = {}
  /\ UNCHANGED <<ctx, pt, changes, layout>>

Dropped(s, S) ==
  LET out == FoldSet(LAMBDA i, r : tb_idx_drop(r, s.tb[i], i), s, S)
  IN [out EXCEPT !.tb = [i \in Slot |-> IF i \in S THEN NoEntry ELSE @[i]]]

tbiap ==
  LET S == {i \in Slot : t.tb[i] # NoEntry /\ ~t.tb[i].asm}
      sh == [k \in DOMAIN t.shadow |-> IF t.shadow[k].asm THEN t.shadow[k] ELSE NoEntry]
  IN /\ t' = flush_data_page_cache([Dropped(t, S) EXCEPT !.shadow = sh])
     /\ stale' = {x \in stale : x[1] \in Global}
     /\ UNCHANGED <<ctx, pt, changes, layout>>

\* Mutant: the search for the page ends at the first entry that has it.
InvalidatedFirst(s, p, a) ==
  LET S == IF Holding(s, p, a) = {} THEN {} ELSE {Min(Holding(s, p, a))}
      k == p % kTbShadowEntries
      sh == IF Matches(s.shadow[k], p, a) THEN NoEntry ELSE s.shadow[k]
      out == [Dropped(s, S) EXCEPT !.shadow[k] = sh]
      left == FoldSet(LAMBDA i, r : flush_data_page_cache_range(r, s.tb[i].pages), out, S)
  IN flush_data_page_cache_range(left, {p})

(* Each entry's pages leave the page cache, and the page itself whether or *)
(* not an entry still held it.                                             *)
Invalidated(s, p, a) ==
  LET S == Holding(s, p, a)
      k == p % kTbShadowEntries
      sh == IF Matches(s.shadow[k], p, a) THEN NoEntry ELSE s.shadow[k]
      out == [Dropped(s, S) EXCEPT !.shadow[k] = sh]
      left == FoldSet(LAMBDA i, r : flush_data_page_cache_range(r, s.tb[i].pages), out, S)
  IN flush_data_page_cache_range(left, {p})

tbis_d(p) ==
  /\ t' = Invalidated(t, p, ctx.asn0)
  /\ stale' = {x \in stale : x[1] # p \/ (x[2] # ctx.asn0 /\ p \notin Global)}
  /\ UNCHANGED <<ctx, pt, changes, layout>>

-----------------------------------------------------------------------------
(* DTB_ASN0 with DTB_ASN1, and CM; the writes and requests that only      *)
(* flush.                                                                  *)
WriteAsn(a) ==
  /\ ctx' = [ctx EXCEPT !.asn0 = a, !.key = <<a, ctx.cm>>]
  /\ t' = flush_data_page_cache(flush_data_page_cache(t))
  /\ UNCHANGED <<pt, stale, changes, layout>>

WriteCm(c) ==
  /\ ctx' = [ctx EXCEPT !.cm = c, !.key = <<ctx.asn0, c>>]
  /\ UNCHANGED <<t, pt, stale, changes, layout>>

Flush ==
  /\ t' = flush_data_page_cache(t)
  /\ UNCHANGED <<ctx, pt, stale, changes, layout>>

(* ResetForSystemReset clears the state, and not m_dpc_key.                *)
ResetForSystemReset ==
  /\ t' = flush_data_page_cache([Empty EXCEPT !.l1 = t.l1, !.l2 = t.l2, !.gen = t.gen])
  /\ ctx' = [ctx EXCEPT !.asn0 = 0, !.cm = 0]
  /\ stale' = {}
  /\ UNCHANGED <<pt, changes, layout>>

(* The guest changes a PTE: of one page, or of all of a block.  A global   *)
(* page's are the same in every address space.                             *)
ChangePte(ps, a, v, gh) ==
  /\ changes < MaxChanges /\ changes' = changes + 1
  /\ LET all == {x \in Page \X Asn : x[1] \in ps /\ (x[2] = a \/ x[1] \in Global)} IN
     /\ pt' = [x \in Page \X Asn |-> IF x \in all THEN [pte |-> v, gh |-> gh] ELSE pt[x]]
     /\ stale' = stale \cup {x \in all : pt[x] # pt'[x] /\ pt[x].pte # Unmapped}
  /\ UNCHANGED <<t, ctx, layout>>

Next ==
  \/ \E p \in Page, rw \in RW : Access(p, rw) \/ InlineAccess(p, rw) \/ PalAccess(p, rw)
  \/ \E p \in Page : add_tb_d(p) \/ tbis_d(p)
  \/ \E a \in Asn : WriteAsn(a)
  \/ \E c \in layout.modes : WriteCm(c)
  \/ tbia \/ tbiap \/ Flush \/ ResetForSystemReset
  \/ \E a \in Asn, v \in DOMAIN Pte \cup {Unmapped} :
       \/ \E p \in Page : ~pt[p, a].gh /\ ChangePte({p}, a, v, FALSE)
       \/ \E gh \in BOOLEAN : Block # {} /\ ChangePte(Block, a, v, gh)

Spec == Init /\ [][Next]_tbVars

-----------------------------------------------------------------------------
(* What an access may use: the TB and its shadow, and the page cache's     *)
(* live slots, by the key of the interpreter or of compiled code.          *)
Entries(s) == {s.tb[i] : i \in Slot} \cup {s.shadow[k] : k \in DOMAIN s.shadow}

Usable(rw) ==
  LET slots == {t.l1[rw][k] : k \in DOMAIN t.l1[rw]}
                 \cup {Live2(t, rw)[k] : k \in DOMAIN t.l2[rw]}
  IN {x \in slots : x # NoPage /\ <<x.asn, x.cm>> \in {Current, ctx.key}}

(* A translation the processor uses is the page table's, in what it maps   *)
(* and in whom it lets in, once software has invalidated after a change    *)
(* (tbia, tbiap, tbis_d): none outlives its invalidation in the TB, the    *)
(* shadow, the index or either level of the page cache, whatever the       *)
(* address space and the mode are now.                                     *)
NoneStale ==
  \A p \in Page : <<p, ctx.asn0>> \notin stale =>
    /\ \A e \in Entries(t) : Matches(e, p, ctx.asn0) => e.pte = pt[p, ctx.asn0].pte
    /\ \A rw \in RW : \A x \in Usable(rw) : x.pages = {p} =>
         x.pte = pt[p, ctx.asn0].pte /\ <<rw, ctx.cm>> \in Pte[x.pte]

(* An access that needs no fill never comes to need one unless the TB lets *)
(* the page go.  What the TB holds it finds: the index and its marks of    *)
(* overflow say "absent" only of what no slot has (FindTBEntry).  And what *)
(* the page cache answers, the TB and its shadow would answer the same:    *)
(* PALcode that has just stored to a page stores there again sure not to   *)
(* miss (dtb_still_maps).                                                  *)
NoneMissed ==
  \A rw \in RW : LET cached == {x \in Usable(rw) : x.asn = ctx.asn0} IN
    \A p \in Page :
      LET r == FindTBEntry(t, p, rw) IN
      /\ Holding(t, p, ctx.asn0) # {} => r.found # <<>>
      /\ \A x \in cached : x.pages = {p} =>
           r.found # <<>> /\ r.s.tb[Head(r.found)].pte = x.pte
=============================================================================
