------------------------------ MODULE NgxSlab ------------------------------
(***************************************************************************)
(* ngx_slab.c: the allocator of nginx's shared memory zones.  Pages are    *)
(* handed out in runs, first fit, and runs that are freed are joined with  *)
(* their free neighbours; small objects are chunks of one page, of classes *)
(* with a list of the pages that have room.  The page table is modelled    *)
(* field by field: next, prev and slab mean what they mean in the code.    *)
(* All calls are made under the pool's mutex.                              *)
(***************************************************************************)
EXTENDS Integers, Sequences, FiniteSets, FiniteSetsExt

CONSTANTS
    NPages,     \* pages of the pool
    Classes,    \* Classes[k]: chunks of a page, and those its bitmap takes
    MaxRun      \* pages of the largest request

NPagesAssumption == NPages \in Nat \ {0} /\ MaxRun \in 1..NPages
ClassesAssumption ==
    \A k \in 1..Len(Classes) : Classes[k].chunks \in Nat /\ Classes[k].reserved < Classes[k].chunks

Pages == 0..NPages - 1
Kinds == 1..Len(Classes)

(* Nodes of the lists: pages, the head pool->free, and the heads slots[k].   *)
FREE == NPages
Slot(k) == NPages + k
NULL == NPages + Len(Classes) + 1
Nodes == 0..NPages + Len(Classes)

(* page->slab: the length of a free run in its first page and 0, that is     *)
(* NGX_SLAB_PAGE_FREE, in the others; the length and NGX_SLAB_PAGE_START in  *)
(* the first page of a run in use, NGX_SLAB_PAGE_BUSY in the others.         *)
BUSY == -1
START == NPages + 1

VARIABLES
    page,    \* the page table and the heads of lists
    pfree,   \* pool->pfree
    live     \* what callers hold: [page, chunk] or [page, run]

vars == <<page, pfree, live>>

Blank == [slab |-> 0, next |-> NULL, prev |-> NULL, type |-> 0, map |-> {}]

(* ngx_slab_init.                                                            *)
Init ==
    /\ page = [n \in Nodes |->
                 IF n = 0 THEN [Blank EXCEPT !.slab = NPages, !.next = FREE, !.prev = FREE]
                 ELSE IF n = FREE THEN [Blank EXCEPT !.next = 0]
                 ELSE IF n > FREE THEN [Blank EXCEPT !.next = n]
                 ELSE Blank]
    /\ pfree = NPages
    /\ live = {}

(* p leaves its list: its neighbours are linked, the type bits included.     *)
Unlinked(t, p) ==
    [t EXCEPT ![t[p].prev].next = t[p].next,
              ![t[p].next].prev = t[p].prev, ![t[p].next].type = t[p].type]

-----------------------------------------------------------------------------
(* ngx_slab_alloc_pages                                                      *)

(* The free list, read from the head.                                        *)
Walk(t) ==
    LET at[i \in 0..NPages] == IF i = 0 THEN t[FREE].next
                               ELSE IF at[i - 1] = FREE THEN FREE ELSE t[at[i - 1]].next
    IN  at

(* The first free run that is long enough.                                   *)
Fits(t, k) == {i \in 0..NPages - 1 : Walk(t)[i] # FREE /\ t[Walk(t)[i]].slab >= k}
FirstFit(t, k) == Walk(t)[Min(Fits(t, k))]

(* The rest of the run takes its place in the list, and the last page of it  *)
(* points to its new first page.                                             *)
Split(t, p, k) ==
    LET rest == p + k
        s == [t EXCEPT ![p + t[p].slab - 1].prev = rest]
    IN  [s EXCEPT ![rest].slab = t[p].slab - k, ![rest].next = t[p].next,
                  ![rest].prev = t[p].prev, ![rest].type = 0,
                  ![t[p].prev].next = rest, ![t[p].next].prev = rest]

Used(t, p, k) ==
    [n \in Nodes |->
        IF n = p THEN [Blank EXCEPT !.slab = START + k]
        ELSE IF n \in p + 1..p + k - 1 THEN [Blank EXCEPT !.slab = BUSY]
        ELSE t[n]]

TakenPages(t, p, k) ==
    Used(IF t[p].slab > k THEN Split(t, p, k) ELSE Unlinked(t, p), p, k)

(* A request that is larger than a page.                                     *)
AllocPages(k) ==
    /\ Fits(page, k) # {}
    /\ LET p == FirstFit(page, k) IN
         /\ page' = TakenPages(page, p, k)
         /\ live' = live \cup {[page |-> p, run |-> k]}
    /\ pfree' = pfree - k

-----------------------------------------------------------------------------
(* ngx_slab_free_pages, step by step: t is the table, p the first page of    *)
(* the run under way.                                                        *)

(* The run is marked; a page of chunks leaves the list of its class.         *)
Marked(t, p, k) ==
    LET s == IF t[p].next # NULL THEN Unlinked(t, p) ELSE t IN
    [n \in Nodes |-> IF n = p THEN [Blank EXCEPT !.slab = k]
                     ELSE IF n \in p + 1..p + k - 1 THEN Blank ELSE s[n]]

(* A page in the middle of the run that was the first of one.                *)
Interior(t, p) == [t EXCEPT ![p] = Blank]

JoinsRight(t, j) == j < NPages /\ t[j].type = 0 /\ t[j].next # NULL

Right(t, p) ==
    LET j == p + t[p].slab IN
    IF JoinsRight(t, j)
      THEN [Interior(Unlinked(t, j), j) EXCEPT ![p].slab = t[p].slab + t[j].slab]
      ELSE t

(* The first page of the run that ends before p.                             *)
Before(t, p) == IF t[p - 1].slab = 0 THEN t[p - 1].prev ELSE p - 1

JoinsLeft(t, p) == p > 0 /\ t[p - 1].type = 0 /\ t[Before(t, p)].next # NULL

Left(t, p) ==
    LET j == Before(t, p) IN
    [Interior(Unlinked(t, j), p) EXCEPT ![j].slab = t[j].slab + t[p].slab]

(* The last page of a longer run points to its first page, which becomes the *)
(* head of the list.                                                         *)
Listed(t, p) ==
    LET s == IF t[p].slab > 1 THEN [t EXCEPT ![p + t[p].slab - 1].prev = p] ELSE t IN
    [s EXCEPT ![p].prev = FREE, ![p].next = s[FREE].next,
              ![s[FREE].next].prev = p, ![FREE].next = p]

Freed(t, p, k) ==
    LET s == Right(Marked(t, p, k), p) IN
    IF JoinsLeft(s, p) THEN Listed(Left(s, p), Before(s, p)) ELSE Listed(s, p)

FreePages(o) ==
    /\ o \in live /\ "run" \in DOMAIN o
    /\ page' = Freed(page, o.page, o.run)
    /\ pfree' = pfree + o.run
    /\ live' = live \ {o}

-----------------------------------------------------------------------------
(* Chunks                                                                    *)

(* The chunks of a page.                                                     *)
All(k) == 0..Classes[k].chunks - 1

(* Those that hold the bitmap.                                               *)
Reserved(k) == 0..Classes[k].reserved - 1
HasRoom(k) == page[Slot(k)].next # Slot(k)

(* ngx_slab_alloc_locked takes the lowest free chunk of the first page with  *)
(* room; a page that is full leaves the list.                                *)
AllocChunk(k) ==
    /\ HasRoom(k)
    /\ LET p == page[Slot(k)].next
           c == Min(All(k) \ page[p].map)
           t == [page EXCEPT ![p].map = @ \cup {c}]
       IN  /\ page' = IF t[p].map = All(k)
                        THEN [Unlinked(t, p) EXCEPT ![p].next = NULL, ![p].prev = NULL]
                        ELSE t
           /\ live' = live \cup {[page |-> p, chunk |-> c, kind |-> k]}
    /\ UNCHANGED pfree

(* Without one, a page is taken for the class.                               *)
AllocChunkPage(k) ==
    /\ ~HasRoom(k) /\ Fits(page, 1) # {}
    /\ LET p == FirstFit(page, 1)
           c == Classes[k].reserved
       IN  /\ page' = [TakenPages(page, p, 1) EXCEPT
                          ![p] = [slab |-> BUSY, next |-> Slot(k), prev |-> Slot(k), type |-> k,
                                  map |-> Reserved(k) \cup {c}],
                          ![Slot(k)].next = p]
           /\ live' = live \cup {[page |-> p, chunk |-> c, kind |-> k]}
    /\ pfree' = pfree - 1

(* A page that was full goes back to the head of its list.                   *)
Relisted(t, p, k) ==
    IF t[p].next # NULL THEN t
    ELSE [t EXCEPT ![p].next = t[Slot(k)].next, ![p].prev = Slot(k), ![p].type = k,
                   ![t[Slot(k)].next].prev = p, ![t[Slot(k)].next].type = k,
                   ![Slot(k)].next = p]

FreeChunk(o) ==
    /\ o \in live /\ "chunk" \in DOMAIN o
    /\ LET p == o.page
           t == [Relisted(page, p, o.kind) EXCEPT ![p].map = @ \ {o.chunk}]
       IN  IF t[p].map \subseteq Reserved(o.kind)
             THEN page' = Freed(t, p, 1) /\ pfree' = pfree + 1
             ELSE page' = t /\ UNCHANGED pfree
    /\ live' = live \ {o}

Next ==
    \/ \E k \in 1..MaxRun : AllocPages(k)
    \/ \E k \in Kinds : AllocChunk(k) \/ AllocChunkPage(k)
    \/ \E o \in live : FreePages(o) \/ FreeChunk(o)

Spec == Init /\ [][Next]_vars

-----------------------------------------------------------------------------
(* Properties                                                                *)

PagesOf(o) == IF "run" \in DOMAIN o THEN o.page..o.page + o.run - 1 ELSE {o.page}
InUse == UNION {PagesOf(o) : o \in live}
FreeHeads == {Walk(page)[i] : i \in 0..NPages} \ {FREE}
RunOf(h) == h..h + page[h].slab - 1

(* Types.                                                                    *)
TypeOK ==
    /\ page \in [Nodes -> [slab : -1..START + NPages, next : Nodes \cup {NULL},
                            prev : Nodes \cup {NULL}, type : 0..Len(Classes),
                            map : SUBSET (0..Max({Classes[k].chunks : k \in Kinds}) - 1)]]
    /\ pfree \in 0..NPages

(* No two objects that callers hold overlap: runs lie in the pool and share  *)
(* no page with anything, chunks share a page only with chunks of their      *)
(* class and not with its bitmap.                                            *)
NoOverlap ==
    /\ InUse \subseteq Pages
    /\ \A o, q \in live : o # q /\ PagesOf(o) \cap PagesOf(q) # {} =>
         /\ {"chunk"} \subseteq DOMAIN o \cap DOMAIN q /\ o.kind = q.kind /\ o.chunk # q.chunk
    /\ \A o \in live : "chunk" \in DOMAIN o => 
         o.chunk \in Classes[o.kind].reserved..Classes[o.kind].chunks - 1

(* The free list is exactly what callers do not hold, in runs that no two    *)
(* share; the count agrees.                                                  *)
FreeListExact ==
    /\ Walk(page)[NPages] = FREE
    /\ UNION {RunOf(h) : h \in FreeHeads} = Pages \ InUse
    /\ \A g, h \in FreeHeads : g # h => RunOf(g) \cap RunOf(h) = {}
    /\ pfree = Cardinality(Pages \ InUse)

(* A request fails only when there are not that many free pages in a row:    *)
(* what is freed is joined with what is free on both sides.                  *)
JoinedAlways ==
    \A k \in 1..NPages :
        (\E p \in Pages : p + k <= NPages /\ p..p + k - 1 \cap InUse = {}) => Fits(page, k) # {}

(* A class has a page in its list whenever one of its pages has room, so     *)
(* that no page is taken needlessly and none is lost.                        *)
ClassListed ==
    \A k \in Kinds :
        HasRoom(k) <=> \E p \in Pages : LET own == {o \in live : "chunk" \in DOMAIN o /\ o.page = p} IN
            /\ own # {} /\ \A o \in own : o.kind = k
            /\ Cardinality(own) < Classes[k].chunks - Classes[k].reserved

=============================================================================
