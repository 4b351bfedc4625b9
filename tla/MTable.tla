------------------------------- MODULE MTable -------------------------------
(***************************************************************************)
(* kmod/mtable.c: the records (pents) of every PTE that MOL has put into   *)
(* the hash table of the host.  A pent is on the ring of its effective     *)
(* address, which starts and ends in a cell of a level 2 table, and, if    *)
(* the PTE maps a page of guest RAM, on the ring of that page, whose head  *)
(* is a pent of its own.  Free pents are chained through lv_next.          *)
(*                                                                         *)
(* The guest's thread inserts and flushes PTEs.  Another CPU may take a    *)
(* page away at any time (do_flush), also between the steps of insert_pte. *)
(* Rings are explicit pointers.  A field of an unused head or a free pent  *)
(* that nothing reads before it is written again is blank here.  The TLB   *)
(* is not modelled.                                                        *)
(***************************************************************************)
EXTENDS Integers, FiniteSets, SequencesExt

CONSTANTS
  Vsids,          \* mac vsids
  Tops,           \* bits 4-8 of an effective address
  Lev2,           \* bits 9-14: index of the level 2 table
  Pel,            \* bits 15-19: index in the table
  Pages,          \* pages of the lvrange; a page is also its head pent
  Pool,           \* pents that pent_alloc can get
  Tables,         \* level 2 tables that lev2_alloc can get
  Slots,          \* PTEs of a hash group
  PentsPerChunk,  \* pents in a chunk
  Accesses(_, _, _), \* pages the guest maps at an address, by privilege
  NULL

ASSUME MTableAssumption ==
  /\ PentsPerChunk \in Nat \ {0} /\ Pages \cap Pool = {}
  /\ NULL \notin Pages \cup Pool \cup Tables

VARIABLES
  vsids, segs,    \* vsids in the skiplist; those in a segment register
  lev2,           \* vsid -> index -> table
  tables, freeTables,            \* allocated level 2 tables; the free ones
  heap,           \* the pents and the cells, see Heap
  alloced,        \* pents of the pool that are allocated
  registered,     \* the lvrange is registered
  present, hashpte,              \* pages with a Linux PTE; with _PAGE_HASHPTE
  reservation, lost,             \* lvptr_reservation, lvptr_reservation_lost
  pc, pb,         \* the guest's thread in insert_pte, and its fault
  out             \* page the other CPU is about to flush

vars == <<vsids, segs, lev2, tables, freeTables, heap, alloced, registered,
          present, hashpte, reservation, lost, pc, pb, out>>

Pents == Pages \cup Pool
Cells == Tables \X Pel
EAs == [top : Tops, lev2 : Lev2, pel : Pel]
Faults == [v : Vsids, sv : BOOLEAN, ea : EAs, pg : Pages \cup {NULL}, slot : Slots]

Blank == [flags |-> {}, key |-> NULL, slot |-> NULL]
UnusedHead == [Blank EXCEPT !.flags = {"LV_HEAD", "UNUSED"}]
Key(f) == [top |-> f.ea.top, sv |-> f.sv]         \* PENT_CMP_MASK

(* heap: cell -> first pent; ea_next; lv_next; pent fields; free_pents;    *)
(* and the PTEs of the hash table.                                         *)
Heap ==
  [cell : [Cells -> Pents \cup {NULL}],
   ea : [Pents -> Pents \cup Cells \cup {NULL}],
   lv : [Pents -> Pents \cup {NULL}],
   pent : [Pents -> [flags : SUBSET {"LV_HEAD", "UNUSED", "EA_LAST"},
                     key : [top : Tops, sv : BOOLEAN] \cup {NULL},
                     slot : Slots \cup {NULL}]],
   free : Pents \cup {NULL},
   pte : [Slots -> Faults \cup {NULL}]]

-----------------------------------------------------------------------------
(* Walking rings.                                                          *)

\* p, next(p), next(next(p)), ... up to the first that satisfies stop
Walk(next(_), stop(_), p) ==
  LET w[n \in Nat] ==
        IF n = 0 THEN <<p>>
        ELSE LET s == w[n - 1]
             IN IF stop(Last(s)) THEN s ELSE Append(s, next(Last(s)))
  IN w[Cardinality(Pents) + 1]

Flag(h, p, f) == f \in h.pent[p].flags

\* The first field of a pent and a cell are both reached as ea_next.
EaNext(h, x) == IF x \in Pents THEN h.ea[x] ELSE h.cell[x]
SetEaNext(h, x, y) ==
  IF x \in Pents THEN [h EXCEPT !.ea[x] = y] ELSE [h EXCEPT !.cell[x] = y]

EaRing(h, c) ==
  IF h.cell[c] = NULL THEN <<>>
  ELSE Walk(LAMBDA p : h.ea[p],
            LAMBDA p : p \notin Pents \/ Flag(h, p, "EA_LAST"), h.cell[c])

\* the ring of a page without its head
LvRing(h, g) ==
  IF h.lv[g] = g THEN <<>>
  ELSE Walk(LAMBDA p : h.lv[p], LAMBDA p : p \notin Pents \/ h.lv[p] = g, h.lv[g])

FreeList(h) ==
  IF h.free = NULL THEN <<>>
  ELSE Walk(LAMBDA p : h.lv[p], LAMBDA p : h.lv[p] = NULL, h.free)

LvPrev(h, p) ==
  Last(Walk(LAMBDA q : h.lv[q], LAMBDA q : h.lv[q] = p, h.lv[p]))
EaPrev(h, p) ==
  Last(Walk(LAMBDA q : EaNext(h, q), LAMBDA q : EaNext(h, q) = p, EaNext(h, p)))

-----------------------------------------------------------------------------
(* Flushing.                                                               *)

ZeroPte(h, s) == [h EXCEPT !.pte[s] = NULL]

\* A pent of the pool is chained in front of the free list.
Release(h, p) ==
  [h EXCEPT !.lv[p] = h.free, !.free = p, !.ea[p] = NULL, !.pent[p] = Blank]

\* A pent is freed without being taken off the ring of its page.
UnlinkLv_Kept(h, p) == h

UnlinkLv(h, p) ==
  IF h.lv[p] = NULL THEN h ELSE [h EXCEPT !.lv[LvPrev(h, p)] = h.lv[p]]

\* The marker is lost with the last entry of a ring.
EaLastGone_Lost(h, c, pp) ==
  IF pp = c THEN [h EXCEPT !.cell[c] = NULL] ELSE h

\* the last entry of the ring of c is gone, pp is the one before
EaLastGone(h, c, pp) ==
  IF pp = c THEN [h EXCEPT !.cell[c] = NULL]
  ELSE [h EXCEPT !.pent[pp].flags = @ \cup {"EA_LAST"}]

\* The supervisor's PTE is taken for another address.
SameAddress_User(key, top) == key.top = top /\ ~key.sv

SameAddress(key, top) == key.top = top

\* one turn of the loop of flush_vsid_ea_
FlushTurn(a, p, c, top) ==
  LET h == a.h
      h1 == SetEaNext(h, a.pp, h.ea[p])
      h2 == IF Flag(h, p, "LV_HEAD")
            THEN [h1 EXCEPT !.pent[p] = UnusedHead, !.ea[p] = NULL]
            ELSE Release(UnlinkLv(h1, p), p)
      h3 == ZeroPte(h2, h.pent[p].slot)
  IN IF ~SameAddress(h.pent[p].key, top) THEN [a EXCEPT !.pp = p]
     ELSE [a EXCEPT !.h = IF Flag(h, p, "EA_LAST")
                          THEN EaLastGone(h3, c, a.pp) ELSE h3]

flush_vsid_ea_(h, v, e) ==
  LET c == <<lev2[v][e.lev2], e.pel>>
  IN IF lev2[v][e.lev2] = NULL THEN h
     ELSE FoldLeft(LAMBDA a, p : FlushTurn(a, p, c, e.top),
                   [h |-> h, pp |-> c], EaRing(h, c)).h

pent_flush_unlink_ea(h, p) ==
  LET c == h.ea[Last(Walk(LAMBDA q : h.ea[q],
                          LAMBDA q : Flag(h, q, "EA_LAST"), p))]
      prev == EaPrev(h, p)
      h1 == CASE ~Flag(h, p, "EA_LAST") -> SetEaNext(h, prev, h.ea[p])
              [] Flag(h, p, "EA_LAST") /\ prev = c -> SetEaNext(h, c, NULL)
              [] OTHER -> [SetEaNext(h, prev, h.ea[p]) EXCEPT
                             !.pent[prev].flags = @ \cup {"EA_LAST"}]
  IN ZeroPte(h1, h.pent[p].slot)

flush_lvptr_(h, g) ==
  LET ring == LvRing(h, g)
      h1 == FoldLeft(pent_flush_unlink_ea, h, ring)
      h2 == IF ring = <<>> THEN h1
            ELSE [h1 EXCEPT !.lv[Last(ring)] = h.free, !.free = ring[1],
                            !.ea = [p \in Pents |-> IF p \in Range(ring)
                                                    THEN NULL ELSE @[p]],
                            !.pent = [p \in Pents |-> IF p \in Range(ring)
                                                      THEN Blank ELSE @[p]]]
      h3 == IF Flag(h, g, "UNUSED") THEN h2 ELSE pent_flush_unlink_ea(h2, g)
  IN IF ~registered THEN h
     ELSE [h3 EXCEPT !.lv[g] = g, !.ea[g] = NULL, !.pent[g] = UnusedHead]

\* Vsids that no segment register holds are left out.
FlushEas_Loaded(h, V, E) ==
  FoldLeft(LAMBDA g, x : flush_vsid_ea_(g, x[1], x[2]), h,
           SetToSeq((V \cap segs) \X E))

FlushEas(h, V, E) ==
  FoldLeft(LAMBDA g, x : flush_vsid_ea_(g, x[1], x[2]), h, SetToSeq(V \X E))

NoTable == [v \in Vsids |-> [i \in Lev2 |-> NULL]]

\* clear_all_vsids: what is left is what was not allocated in chunks
ClearAll(h) ==
  /\ vsids' = {} /\ segs' = {} /\ lev2' = NoTable
  /\ tables' = {} /\ freeTables' = {} /\ alloced' = {}
  /\ LET f == FlushEas(h, vsids, EAs)
     IN heap' = [f EXCEPT !.free = NULL,
                          !.lv = [p \in Pents |-> IF p \in Pool THEN NULL ELSE @[p]]]

-----------------------------------------------------------------------------
(* pte_inserted.                                                           *)

\* get_free_pent: the pent for a PTE that maps g, and the heap with it
get_free_pent(h, g) ==
  CASE g # NULL /\ Flag(h, g, "UNUSED") ->
         [p |-> g, h |-> [h EXCEPT !.pent[g].flags = {"LV_HEAD"}]]
    [] g # NULL /\ ~Flag(h, g, "UNUSED") ->
         [p |-> h.free, h |-> [h EXCEPT !.free = h.lv[h.free],
                                        !.lv[h.free] = h.lv[g], !.lv[g] = h.free]]
    [] OTHER ->
         [p |-> h.free, h |-> [h EXCEPT !.free = h.lv[h.free], !.lv[h.free] = NULL]]

\* The pent stays on the ring of the page its address mapped before.
relink_lv_Kept(h, p, g) ==
  IF h.lv[p] = NULL THEN [h EXCEPT !.lv[p] = h.lv[g], !.lv[g] = p] ELSE h

relink_lv(h, p, g) ==
  CASE h.lv[p] = NULL -> [h EXCEPT !.lv[p] = h.lv[g], !.lv[g] = p]
    [] Flag(h, p, "LV_HEAD") /\ p = g -> h
    [] Flag(h, p, "LV_HEAD") /\ p # g ->
         LET prev == EaPrev(h, p)
             n == get_free_pent(h, g)
             h1 == SetEaNext([n.h EXCEPT !.ea[n.p] = h.ea[p]], prev, n.p)
             new == [h.pent[p] EXCEPT !.flags =
                       (@ \ {"UNUSED", "LV_HEAD"}) \cup n.h.pent[n.p].flags]
         IN [h1 EXCEPT !.pent[n.p] = new, !.pent[p] = UnusedHead, !.ea[p] = NULL]
    [] OTHER ->
         LET head == Last(Walk(LAMBDA q : h.lv[q],
                               LAMBDA q : Flag(h, q, "LV_HEAD"), h.lv[p]))
             h1 == UnlinkLv(h, p)
         IN IF head = g THEN h
            ELSE [h1 EXCEPT !.lv[p] = h1.lv[g], !.lv[g] = p]

\* the ring of cell c gets a pent for the PTE of fault f
Record(h, c, f) ==
  LET ring == EaRing(h, c)
      same == SelectInSeq(ring, LAMBDA p : h.pent[p].key = Key(f))
      n == get_free_pent(h, f.pg)
  IN IF same > 0
     THEN LET p == ring[same]
              h1 == [h EXCEPT !.pent[p].slot = f.slot]
          IN IF f.pg = NULL THEN h1 ELSE relink_lv(h1, p, f.pg)
     ELSE [n.h EXCEPT
             !.pent[n.p] = [flags |-> @.flags \cup
                                        (IF ring = <<>> THEN {"EA_LAST"} ELSE {}),
                            key |-> Key(f), slot |-> f.slot],
             !.ea[n.p] = IF ring = <<>> THEN c ELSE h.cell[c],
             !.cell[c] = n.p]

-----------------------------------------------------------------------------
(* The guest's thread.                                                     *)

Idle == pc = "idle"
LinuxUnchanged == UNCHANGED <<present, hashpte, out>>
InsertUnchanged == UNCHANGED <<reservation, lost, pc, pb>>

Chain(h, s) ==
  [h EXCEPT !.free = s[1],
            !.lv = [p \in Pents |->
                      IF p \notin Range(s) THEN @[p]
                      ELSE LET i == SelectInSeq(s, LAMBDA q : q = p)
                           IN IF i = Len(s) THEN h.free ELSE s[i + 1]]]

\* lev2_alloc and pent_alloc get a chunk if there is need, or no memory
lev2_alloc(t) == t = {} \/ (freeTables = {} /\ t \cap tables = {})

pent_alloc(s) ==
  s = <<>> \/ (heap.free = NULL /\ Range(s) \cap alloced = {})

NewTables == {{}} \cup {{t} : t \in Tables}
NewChunks == {<<>>} \cup {s \in [1..PentsPerChunk -> Pool] : IsInjective(s)}

\* The check is content with free tables.
MemoryShort_Pents(t, h) == freeTables \cup t = {}

MemoryShort(t, h) == h.free = NULL \/ freeTables \cup t = {}

\* find_pte_slot: the PTE of this address, else a free slot, else any
find_pte_slot(v, sv, e) ==
  LET same == {s \in Slots : heap.pte[s] # NULL /\ heap.pte[s].v = v
                               /\ heap.pte[s].sv = sv /\ heap.pte[s].ea = e}
      unused == {s \in Slots : heap.pte[s] = NULL}
  IN IF same # {} THEN same ELSE IF unused # {} THEN unused ELSE Slots

\* page_fault: mtable_memory_check, then insert_pte up to get_phys_page; a
\* PTE for anything but RAM (pg = NULL) needs no reservation
page_fault(v, sv, e, g) ==
  /\ Idle /\ v \in segs /\ Accesses(e, sv, g) /\ (g # NULL => registered)
  /\ \E t \in NewTables, c \in NewChunks :
       /\ lev2_alloc(t) /\ pent_alloc(c)
       /\ LET h == IF c = <<>> THEN heap ELSE Chain(heap, c)
          IN IF MemoryShort(t, h)
             THEN ClearAll(h) /\ UNCHANGED <<pc, pb>>
             ELSE /\ heap' = h /\ alloced' = alloced \cup Range(c)
                  /\ tables' = tables \cup t /\ freeTables' = freeTables \cup t
                  /\ \E s \in find_pte_slot(v, sv, e) :
                       pb' = [v |-> v, sv |-> sv, ea |-> e, pg |-> g, slot |-> s]
                  /\ pc' = IF g = NULL THEN "store" ELSE "reserve"
                  /\ UNCHANGED <<vsids, segs, lev2>>
  /\ UNCHANGED <<registered, reservation, lost>> /\ LinuxUnchanged

Step(from, to) == pc = from /\ pc' = to
TablesUnchanged ==
  UNCHANGED <<vsids, segs, lev2, tables, freeTables, alloced, registered>>

\* make_lvptr_reservation, one assignment after the other
Reserve ==
  /\ Step("reserve", "clear") /\ reservation' = pb.pg
  /\ UNCHANGED <<heap, lost, pb>> /\ TablesUnchanged /\ LinuxUnchanged

ReserveClear ==
  /\ Step("clear", "fix") /\ lost' = FALSE
  /\ UNCHANGED <<heap, reservation, pb>> /\ TablesUnchanged /\ LinuxUnchanged

\* fix_pte, or handle_mm_fault and get_phys_page again
FixPte ==
  /\ pc = "fix"
  /\ IF pb.pg \in present
     THEN pc' = "store" /\ hashpte' = hashpte \cup {pb.pg} /\ UNCHANGED present
     ELSE pc' = "reserve" /\ present' = present \cup {pb.pg} /\ UNCHANGED hashpte
  /\ UNCHANGED <<heap, reservation, lost, pb, out>> /\ TablesUnchanged

StorePte ==
  /\ Step("store", "insert") /\ heap' = [heap EXCEPT !.pte[pb.slot] = pb]
  /\ UNCHANGED <<reservation, lost, pb>> /\ TablesUnchanged /\ LinuxUnchanged

\* The reservation is not looked at.
Lost_Ignored(f) == FALSE

Lost(f) == f.pg # NULL /\ lost

pte_inserted ==
  /\ Step("insert", "idle") /\ pb' = NULL
  /\ LET old == lev2[pb.v][pb.ea.lev2]
     IN IF Lost(pb)
        THEN heap' = ZeroPte(heap, pb.slot) /\ UNCHANGED <<lev2, freeTables>>
        ELSE \E t \in IF old = NULL THEN freeTables ELSE {old} :
               /\ lev2' = [lev2 EXCEPT ![pb.v][pb.ea.lev2] = t]
               /\ freeTables' = freeTables \ {t}
               /\ heap' = Record(heap, <<t, pb.ea.pel>>, pb)
  /\ UNCHANGED <<vsids, segs, tables, alloced, registered, reservation, lost>>
  /\ LinuxUnchanged

flush_vsid_ea(v, e) ==
  /\ Idle /\ v \in vsids
  /\ heap' = flush_vsid_ea_(heap, v, e)
  /\ TablesUnchanged /\ InsertUnchanged /\ LinuxUnchanged

\* the whole address space; flush_vsid_ea does a single page
flush_ea_range ==
  /\ Idle
  /\ heap' = FlushEas(heap, vsids, EAs)
  /\ TablesUnchanged /\ InsertUnchanged /\ LinuxUnchanged

clear_pte_hash_table ==
  /\ Idle /\ ClearAll(heap)
  /\ UNCHANGED registered /\ InsertUnchanged /\ LinuxUnchanged

\* vsid_get_user_sv; an allocation that fails is tried again once all is clear
vsid_get_user_sv(v) ==
  /\ Idle /\ v \notin segs
  /\ \/ /\ vsids' = vsids \cup {v} /\ segs' = segs \cup {v}
        /\ UNCHANGED <<lev2, tables, freeTables, alloced, heap>>
     \/ v \notin vsids /\ ClearAll(heap)
  /\ UNCHANGED registered /\ InsertUnchanged /\ LinuxUnchanged

\* another vsid is loaded into the segment register
UnloadSegment(v) ==
  /\ Idle /\ v \in segs /\ segs' = segs \ {v}
  /\ UNCHANGED <<vsids, lev2, tables, freeTables, alloced, heap, registered>>
  /\ InsertUnchanged /\ LinuxUnchanged

\* Tables are not looked at.
Empty_Any(t) == TRUE

Empty(t) == \A i \in Pel : heap.cell[<<t, i>>] = NULL

\* Segment registers are not looked at.
Loaded_Ignored(v) == FALSE

Loaded(v) == v \in segs

\* mtable_reclaim: tables before the first one in use go; a vsid without
\* tables goes too unless a segment register holds it
mtable_reclaim ==
  /\ Idle
  /\ LET inUse(v, i) == lev2[v][i] # NULL /\ ~Empty(lev2[v][i])
         goes(v, i) == /\ v \in vsids /\ lev2[v][i] # NULL
                       /\ \A j \in Lev2 : j <= i => ~inUse(v, j)
     IN /\ lev2' = [v \in Vsids |-> [i \in Lev2 |->
                      IF goes(v, i) THEN NULL ELSE lev2[v][i]]]
        /\ freeTables' = freeTables \cup
             {lev2[x[1]][x[2]] : x \in {y \in Vsids \X Lev2 : goes(y[1], y[2])}}
        /\ vsids' = {v \in vsids : Loaded(v) \/ \E i \in Lev2 : inUse(v, i)}
  /\ UNCHANGED <<segs, tables, alloced, heap, registered>>
  /\ InsertUnchanged /\ LinuxUnchanged

register_lvrange ==
  /\ Idle /\ ~registered /\ registered' = TRUE
  /\ UNCHANGED <<vsids, segs, lev2, tables, freeTables, alloced, heap>>
  /\ InsertUnchanged /\ LinuxUnchanged

\* free_lvrange, with flush_lv_range
free_lvrange ==
  /\ Idle /\ registered /\ registered' = FALSE
  /\ heap' = FoldLeft(flush_lvptr_, heap, SetToSeq(Pages))
  /\ UNCHANGED <<vsids, segs, lev2, tables, freeTables, alloced>>
  /\ InsertUnchanged /\ LinuxUnchanged

-----------------------------------------------------------------------------
(* The other CPU takes a page away: first its Linux PTE, then do_flush if  *)
(* the PTE had _PAGE_HASHPTE.                                              *)

PageOut(g) ==
  /\ out = NULL /\ g \in present
  /\ present' = present \ {g} /\ hashpte' = hashpte \ {g}
  /\ out' = IF g \in hashpte THEN g ELSE NULL
  /\ UNCHANGED heap /\ TablesUnchanged /\ InsertUnchanged

flush_lvptr ==
  /\ out # NULL /\ out' = NULL
  /\ lost' = (lost \/ out = reservation)
  /\ heap' = flush_lvptr_(heap, out)
  /\ UNCHANGED <<present, hashpte, reservation, pc, pb>> /\ TablesUnchanged

-----------------------------------------------------------------------------
Init ==
  /\ vsids = {} /\ segs = {} /\ lev2 = NoTable
  /\ tables = {} /\ freeTables = {} /\ alloced = {}
  /\ heap = [cell |-> [c \in Cells |-> NULL], ea |-> [p \in Pents |-> NULL],
             lv |-> [p \in Pents |-> IF p \in Pages THEN p ELSE NULL],
             pent |-> [p \in Pents |-> IF p \in Pages THEN UnusedHead ELSE Blank],
             free |-> NULL, pte |-> [s \in Slots |-> NULL]]
  /\ registered = FALSE /\ present = {} /\ hashpte = {}
  /\ reservation = NULL /\ lost = FALSE /\ pc = "idle" /\ pb = NULL /\ out = NULL

Next ==
  \/ \E v \in Vsids, sv \in BOOLEAN, e \in EAs, g \in Pages \cup {NULL} :
       page_fault(v, sv, e, g)
  \/ Reserve \/ ReserveClear \/ FixPte \/ StorePte \/ pte_inserted
  \/ \E v \in Vsids : \/ \E e \in EAs : flush_vsid_ea(v, e)
                      \/ vsid_get_user_sv(v)
                      \/ UnloadSegment(v)
  \/ flush_ea_range \/ clear_pte_hash_table \/ mtable_reclaim
  \/ register_lvrange \/ free_lvrange
  \/ \E g \in Pages : PageOut(g)
  \/ flush_lvptr

Spec == Init /\ [][Next]_vars
-----------------------------------------------------------------------------
(* Properties.                                                             *)

TypeOK ==
  /\ segs \subseteq vsids /\ vsids \subseteq Vsids
  /\ lev2 \in [Vsids -> [Lev2 -> Tables \cup {NULL}]]
  /\ freeTables \subseteq tables /\ tables \subseteq Tables
  /\ DOMAIN heap = {"cell", "ea", "lv", "pent", "free", "pte"}
  /\ heap.cell \in [Cells -> Pents \cup {NULL}]
  /\ heap.ea \in [Pents -> Pents \cup Cells \cup {NULL}]
  /\ heap.lv \in [Pents -> Pents \cup {NULL}]
  /\ \A s \in Slots : heap.pte[s] \in Faults \cup {NULL}
  /\ alloced \subseteq Pool /\ hashpte \subseteq present /\ present \subseteq Pages
  /\ pc \in {"idle", "reserve", "clear", "fix", "store", "insert"}
  /\ pb \in Faults \cup {NULL} /\ out \in Pages \cup {NULL}

\* the tables of a vsid, and the pents of their rings
InUse == {t \in Tables : \E v \in vsids, i \in Lev2 : lev2[v][i] = t}
Linked == {c \in Cells : c[1] \in InUse}
Tracked == UNION {Range(EaRing(heap, c)) : c \in Linked}

\* Every allocated pent is either free or on one address ring, once, and so
\* is every head in use; a ring ends in its own cell, at its only mark.
EaRings ==
  /\ \A c \in Linked : LET r == EaRing(heap, c)
                       IN /\ IsInjective(r) /\ Range(r) \subseteq Pents
                          /\ r # <<>> => heap.ea[Last(r)] = c
                          /\ \A i \in DOMAIN r :
                               Flag(heap, r[i], "EA_LAST") <=> i = Len(r)
  /\ \A c, d \in Linked : c # d => Range(EaRing(heap, c)) \cap Range(EaRing(heap, d)) = {}
  /\ IsInjective(FreeList(heap))
  /\ Range(FreeList(heap)) \cap Tracked = {}
  /\ alloced = Range(FreeList(heap)) \cup (Tracked \cap Pool)
  /\ Tracked \cap Pages = {g \in Pages : ~Flag(heap, g, "UNUSED")}

\* The ring of a page holds pents in use and its own head, each pent is on
\* one ring at most: nothing freed is ever left on a ring ("no pents in
\* use", clear_all_vsids).
LvRings ==
  /\ \A g \in Pages : LET r == LvRing(heap, g)
                      IN /\ IsInjective(r) /\ Range(r) \subseteq Tracked \cap Pool
                         /\ r # <<>> => heap.lv[Last(r)] = g
  /\ \A g, k \in Pages : g # k => Range(LvRing(heap, g)) \cap Range(LvRing(heap, k)) = {}
  /\ \A p \in Tracked \cap Pool :
       heap.lv[p] = NULL \/ \E g \in Pages : p \in Range(LvRing(heap, g))

\* A level 2 table belongs to one vsid entry or is free, and is empty then.
TablesOwned ==
  /\ tables = freeTables \cup InUse /\ freeTables \cap InUse = {}
  /\ \A t \in freeTables, i \in Pel : heap.cell[<<t, i>>] = NULL

\* "It ensures the next pte_inserted call will succeed": what the check
\* found before the page was fetched is still there when it is needed.
MemoryEnsured ==
  pc # "idle" => heap.free # NULL /\ freeTables # {} /\ pb.v \in vsids

\* Every PTE in the hash table can be found by its address and, if it maps
\* guest RAM, by its page: none escapes a flush.
PteRecorded ==
  \A s \in Slots :
    LET f == heap.pte[s]
        t == lev2[f.v][f.ea.lev2]
        is(p) == heap.pent[p].key = Key(f) /\ heap.pent[p].slot = s
    IN f # NULL /\ ~(pc = "insert" /\ pb.slot = s) =>
         /\ f.v \in vsids /\ t # NULL
         /\ \E p \in Range(EaRing(heap, <<t, f.ea.pel>>)) :
              is(p) /\ (f.pg # NULL => p = f.pg \/ p \in Range(LvRing(heap, f.pg)))

\* No PTE maps a page Linux has taken back, whatever the other CPU does
\* while a PTE is being inserted; the insertion under way may, until it
\* finds its reservation lost.
NoStalePte ==
  \A s \in Slots :
    LET f == heap.pte[s]
    IN f # NULL /\ f.pg \in Pages \ hashpte =>
         \/ out = f.pg
         \/ pc = "insert" /\ pb.slot = s /\ lost

\* A flush of an address leaves no PTE for it, of the user or the supervisor.
FlushedEa ==
  [][\A v \in Vsids, e \in EAs : flush_vsid_ea(v, e) =>
       \A s \in Slots : heap'.pte[s] # NULL =>
         heap'.pte[s].v # v \/ heap'.pte[s].ea # e]_vars

\* After a flush of all, every PTE of MOL is gone from the hash table.
FlushedAll ==
  [][(flush_ea_range \/ clear_pte_hash_table) =>
       \A s \in Slots : heap'.pte[s] = NULL]_vars

\* The tables are intact: types, both kinds of ring, and the ownership of
\* level-2 tables, after any insertion, flush or reclaim.
RingsIntact == TypeOK /\ EaRings /\ LvRings /\ TablesOwned

\* A flush by address and a flush of all leave none of the PTEs they are about.
Flushed == FlushedEa /\ FlushedAll
=============================================================================
