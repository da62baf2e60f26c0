---------------------------- MODULE NgxHpackTable ---------------------------
(***************************************************************************)
(* The dynamic table of the HTTP/2 header compression, as the bundled      *)
(* nginx keeps it for a connection (http/v2/ngx_http_v2_table.c): a ring   *)
(* of bytes for names and values, and a ring of pointers to entries that   *)
(* grows and whose dead entries are used again.  A client that follows the *)
(* protocol has a table of its own, ref, and refers to it by index.        *)
(***************************************************************************)
EXTENDS Integers, Sequences, FiniteSets, SequencesExt

CONSTANTS
    TableSize,    \* NGX_HTTP_V2_TABLE_SIZE: 4096
    Overhead,     \* of an entry: 32
    Grow,         \* the ring of entries grows by this: 64
    Strings,      \* names and values, as sequences of bytes
    Sizes,        \* table sizes the client sends
    MaxAdds, MaxUpdates   \* bounds

ConstantsAssumption ==
    /\ {TableSize, Overhead, Grow} \subseteq Nat \ {0}
    /\ Grow * Overhead <= TableSize
    /\ Sizes \subseteq 0..TableSize /\ {MaxAdds, MaxUpdates} \subseteq Nat

VARIABLES
    t,       \* h2c->hpack
    ref,     \* the table of the client: newest first, and its size
    calls    \* how much was done

vars == <<t, ref, calls>>

Header == [name : Strings, value : Strings]
SizeOf(hd) == Overhead + Len(hd.name) + Len(hd.value)
Sum(sizes) == FoldLeft(LAMBDA a, b : a + b, 0, sizes)

-----------------------------------------------------------------------------
(* Entries are t.objects; t.entries, the ring, points to them.               *)
EntrySize(e) == Overhead + e.nlen + e.vlen
Slot(y, i) == y.entries[i % y.allocated]
Count(y) == y.added - y.deleted

Read(y, data, len) == [j \in 1..len |-> y.storage[(data + j - 1) % TableSize]]
(* Index 1 is the entry that was added last.                                 *)
GetIndexedHeader(y, i) ==
    LET e == y.objects[Slot(y, y.added - i)] IN
    [name |-> Read(y, e.ndata, e.nlen), value |-> Read(y, e.vdata, e.vlen)]

(* The size of the k oldest entries, and the entries deleted until there is  *)
(* room.                                                                     *)
OldestSize(y, k) == Sum([j \in 1..k |-> EntrySize(y.objects[Slot(y, y.deleted + j - 1)])])
Deleted(y, room) ==
    LET k == CHOOSE k \in 0..Count(y) : /\ room <= y.free + OldestSize(y, k)
                                        /\ \A j \in 0..(k - 1) : room > y.free + OldestSize(y, j) IN
    [y EXCEPT !.deleted = @ + k, !.free = @ + OldestSize(y, k)]

(* ngx_http_v2_table_account: ok is whether the header goes in.              *)
Account(y, size) ==
    CASE size <= y.free -> [y EXCEPT !.free = @ - size, !.ok = TRUE]
      [] size > y.free /\ size > y.size -> [y EXCEPT !.deleted = y.added, !.free = y.size, !.ok = FALSE]
      [] OTHER -> [Deleted(y, size) EXCEPT !.free = @ - size, !.ok = TRUE]

-----------------------------------------------------------------------------
(* ngx_http_v2_add_header.                                                   *)
Allocated(y) ==
    IF y.allocated > 0 THEN y
    ELSE [y EXCEPT !.allocated = Grow, !.size = TableSize, !.free = TableSize,
                   !.entries = [i \in 0..(Grow - 1) |-> 0],
                   !.storage = [i \in 0..(TableSize - 1) |-> "?"]]

(* A dead entry is used again, or there is a new one.                        *)
Entry(y) ==
    IF y.reused = y.deleted
    THEN [y EXCEPT !.objects = Append(@, [nlen |-> 0, ndata |-> 0, vlen |-> 0, vdata |-> 0]),
                   !.entry = Len(y.objects) + 1]
    ELSE [y EXCEPT !.entry = Slot(y, y.reused), !.reused = @ + 1]

(* The bytes go behind pos and on at the start of the storage.             *)
Moved(pos, len) == IF TableSize - pos >= len THEN pos + len ELSE len - (TableSize - pos)
Written(y, bytes) ==
    [y EXCEPT !.storage = [c \in DOMAIN @ |->
                              LET j == ((c - y.pos + TableSize) % TableSize) + 1 IN
                              IF j <= Len(bytes) THEN bytes[j] ELSE @[c]],
              !.pos = Moved(@, Len(bytes))]
Filled(y, hd) ==
    LET n == Written([y EXCEPT !.objects[y.entry].nlen = Len(hd.name), !.objects[y.entry].ndata = y.pos], hd.name) IN
    Written([n EXCEPT !.objects[n.entry].vlen = Len(hd.value), !.objects[n.entry].vdata = n.pos], hd.value)

(* A full ring is copied to a larger one, the oldest entry first.            *)
Grown(y) ==
    IF y.allocated # Count(y) THEN y
    ELSE [y EXCEPT !.entries = [i \in 0..(y.allocated + Grow - 1) |->
                                   IF i < y.allocated THEN Slot(y, y.deleted + i) ELSE 0],
                   !.added = y.allocated, !.deleted = 0, !.reused = 0, !.allocated = @ + Grow]
Linked(y) == [y EXCEPT !.entries[y.added % y.allocated] = y.entry, !.added = @ + 1, !.entry = 0]
AddHeader(y, hd) ==
    LET a == Account(Allocated(y), Len(hd.name) + Len(hd.value) + Overhead) IN
    IF a.ok THEN Linked(Grown(Filled(Entry(a), hd))) ELSE a

(* ngx_http_v2_table_size.                                                   *)
SetTableSize(y, size) ==
    LET needed == y.size - size
        d == IF needed > y.free THEN Deleted(y, needed) ELSE y IN
    [d EXCEPT !.size = size, !.free = @ - needed]

-----------------------------------------------------------------------------
(* The table of the client, as the protocol has it.                          *)
Fitting(tab, room) ==
    LET k == CHOOSE k \in 0..Len(tab) :
               /\ Sum([j \in 1..k |-> SizeOf(tab[j])]) <= room
               /\ k = Len(tab) \/ Sum([j \in 1..(k + 1) |-> SizeOf(tab[j])]) > room IN
    SubSeq(tab, 1, k)
RefAdd(r, hd) ==
    [r EXCEPT !.tab = IF SizeOf(hd) > r.size THEN <<>> ELSE <<hd>> \o Fitting(@, r.size - SizeOf(hd))]
RefSize(r, size) == [r EXCEPT !.tab = Fitting(@, size), !.size = size]

Init ==
    /\ t = [allocated |-> 0, size |-> 0, free |-> 0, added |-> 0, deleted |-> 0, reused |-> 0, pos |-> 0,
            entries |-> <<>>, objects |-> <<>>, storage |-> <<>>, entry |-> 0, ok |-> TRUE]
    /\ ref = [tab |-> <<>>, size |-> TableSize]
    /\ calls = [adds |-> 0, updates |-> 0]

Add(hd) ==
    /\ t' = AddHeader(t, hd)
    /\ ref' = RefAdd(ref, hd)
    /\ calls' = [calls EXCEPT !.adds = @ + 1]

(* A literal header, or one whose name is taken from the table: the name is  *)
(* copied before anything is deleted.                                        *)
AddLiteral == calls.adds < MaxAdds /\ \E hd \in Header : Add(hd)
AddIndexedName ==
    /\ calls.adds < MaxAdds
    /\ \E i \in 1..Len(ref.tab), v \in Strings :
          /\ t' = AddHeader(t, [name |-> GetIndexedHeader(t, i).name, value |-> v])
          /\ ref' = RefAdd(ref, [name |-> ref.tab[i].name, value |-> v])
    /\ calls' = [calls EXCEPT !.adds = @ + 1]
UpdateSize ==
    /\ calls.updates < MaxUpdates
    /\ \E size \in Sizes : t' = SetTableSize(t, size) /\ ref' = RefSize(ref, size)
    /\ calls' = [calls EXCEPT !.updates = @ + 1]
Rest == calls.adds = MaxAdds /\ calls.updates = MaxUpdates /\ UNCHANGED vars

Next == AddLiteral \/ AddIndexedName \/ UpdateSize \/ Rest
Spec == Init /\ [][Next]_vars

-----------------------------------------------------------------------------
(* The counters are in order, the pointers point to entries of the heap.     *)
TypeOK ==
    /\ 0 <= t.reused /\ t.reused <= t.deleted /\ t.deleted <= t.added
    /\ t.free \in 0..t.size /\ t.pos \in 0..TableSize
    /\ \A i \in DOMAIN t.entries : t.entries[i] \in 0..Len(t.objects)
    /\ \A o \in ToSet(t.objects) : o.ndata \in 0..TableSize /\ o.vdata \in 0..TableSize

(* Whatever the client finds in its table under an index, the server reads   *)
(* the same header under it, byte for byte, from its rings.                  *)
Decodes ==
    /\ Len(ref.tab) <= Count(t)
    /\ \A i \in 1..Len(ref.tab) : GetIndexedHeader(t, i) = ref.tab[i]

(* The room that is left is exactly what the live entries leave of the size. *)
RoomExact == t.allocated > 0 => t.free = t.size - OldestSize(t, Count(t))

(* No two slots of live entries, or of dead ones that will be used again,    *)
(* point to one entry, and the ring has a slot for each of them.             *)
OwnEntries ==
    /\ t.added - t.reused <= t.allocated
    /\ \A i, j \in t.reused..(t.added - 1) : i # j => Slot(t, i) # Slot(t, j)
=============================================================================
