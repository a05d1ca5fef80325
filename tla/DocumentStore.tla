--------------------------- MODULE DocumentStore ---------------------------
(***************************************************************************)
(* The VoiceXML document store (voicexml_document_store.c): a bounded      *)
(* cache of compiled documents that lends them out under references, and   *)
(* evicts the least recently used one that nobody holds.                   *)
(*                                                                         *)
(* A reference names an entry and a borrow, each with its generation.      *)
(* Clients may keep copies of references they have given back.  Reading a  *)
(* document, compiling it and playing audio meanwhile are external: each   *)
(* ends with one of the outcomes the code tells apart.  Their callbacks do *)
(* not call the store.  An allocation that fails leaves the store as       *)
(* another failure at the same place does.                                 *)
(***************************************************************************)
EXTENDS DocumentUri, FiniteSets

CONSTANTS
    Uris,                 \* URIs that clients ask for, in any spelling
    capacity, max_document_bytes, max_cache_bytes,   \* vxml_document_store_config_v1
    UriSize(_),           \* bytes of a URI
    Sizes,                \* sizes of documents
    MaxClock,             \* bound: uses of the cache
    MaxCopies             \* bound: references that clients keep

StoreAssumption ==
    /\ capacity \in Nat \ {0} /\ max_document_bytes \in Nat \ {0}
    /\ max_cache_bytes \in Nat \ {0} /\ Sizes \subseteq Nat
    /\ MaxClock \in Nat /\ MaxCopies \in Nat

VARIABLES
    impl,      \* vxml_document_store_impl
    refs,      \* references clients hold, given back or not: slot, borrow, generations
    lent,      \* history: the document each reference was given out for
    status,    \* what the last call answered
    outside    \* external: documents open, and audio playing

vars == <<impl, refs, lent, status, outside>>

Slots == 1 .. capacity
NoUri == [scheme |-> Absent]
EmptyEntry(generation) ==
    [generation |-> generation, occupied |-> FALSE, pins |-> 0, last_used |-> 0,
     uri |-> NoUri, allocation_size |-> 0]
\* issue is history: it tells apart references that are equal bit by bit.
Refs == [slot : Slots, generation : Nat, borrow_slot : Slots, borrow_generation : Nat,
         issue : 1 .. MaxClock]

Init ==
    /\ impl = [live |-> TRUE, entries |-> [s \in Slots |-> EmptyEntry(0)],
               borrows |-> [s \in Slots |-> [active |-> FALSE, generation |-> 0,
                                             entry |-> 1, entry_generation |-> 0]],
               cached_bytes |-> 0, active_borrows |-> 0, clock |-> 0, evictions |-> 0]
    /\ refs = {}
    /\ lent = <<>>
    /\ status = "OK"
    /\ outside = [documents |-> 0, audio |-> 0]

-----------------------------------------------------------------------------
(* Entries and borrows.                                                    *)

next_generation(g) == g + 1

Occupied(i) == {s \in Slots : i.entries[s].occupied}
Unpinned(i) == {s \in Occupied(i) : i.entries[s].pins = 0}
First(set) == CHOOSE s \in set : \A t \in set : s <= t
find_entry(i, uri) == {s \in Occupied(i) : i.entries[s].uri = uri}
find_empty(i) == Slots \ Occupied(i)

\* Fault: the least recently used entry of all, held or not.
find_lru_unpinned_Any(i) ==
    {s \in Occupied(i) : \A t \in Occupied(i) : i.entries[s].last_used <= i.entries[t].last_used}

find_lru_unpinned(i) ==
    {s \in Unpinned(i) : \A t \in Unpinned(i) : i.entries[s].last_used <= i.entries[t].last_used}

has_insert_capacity(i) == find_empty(i) # {} \/ find_lru_unpinned(i) # {}

entry_evict(i, s) ==
    [i EXCEPT !.entries[s] = EmptyEntry(i.entries[s].generation),
              !.cached_bytes = @ - i.entries[s].allocation_size,
              !.evictions = @ + 1]

Roomy(i, new_bytes) == find_empty(i) # {} /\ i.cached_bytes <= max_cache_bytes - new_bytes

(* The stores make_room passes through, evicting one entry at a time.      *)
make_room(i, new_bytes) ==
    LET Evicted[n \in 0 .. capacity] ==
          IF n = 0 THEN i
          ELSE LET j == Evicted[n - 1]
               IN IF Roomy(j, new_bytes) \/ find_lru_unpinned(j) = {} THEN j
                  ELSE entry_evict(j, First(find_lru_unpinned(j)))
    IN Evicted[capacity]

borrow_generation(i, b) == next_generation(i.borrows[b].generation)

FreeBorrow(i) == First({b \in Slots : ~i.borrows[b].active})

allocate_borrow(i, s) ==
    LET b == FreeBorrow(i)
    IN [i EXCEPT !.borrows[b] = [active |-> TRUE, generation |-> borrow_generation(i, b),
                                 entry |-> s, entry_generation |-> i.entries[s].generation],
                 !.entries[s].pins = @ + 1,
                 !.active_borrows = @ + 1]

RefTo(i, s) ==
    [slot |-> s, generation |-> i.entries[s].generation,
     borrow_slot |-> FreeBorrow(i), borrow_generation |-> borrow_generation(i, FreeBorrow(i)),
     issue |-> i.clock]

borrow_from_ref(i, r) ==
    LET b == i.borrows[r.borrow_slot]
    IN /\ b.active /\ b.generation = r.borrow_generation
       /\ b.entry = r.slot /\ b.entry_generation = r.generation

entry_from_ref(i, r) ==
    /\ borrow_from_ref(i, r)
    /\ i.entries[r.slot].occupied /\ i.entries[r.slot].generation = r.generation

-----------------------------------------------------------------------------
(* acquire_with_policy.                                                    *)

GiveOut(i, s) ==
    /\ refs' = refs \cup {RefTo(i, s)}
    /\ lent' = [r \in DOMAIN lent \cup {RefTo(i, s)} |->
                  IF r = RefTo(i, s) THEN i.entries[s].uri ELSE lent[r]]
    /\ status' = "OK"
Refuse(answer) == status' = answer /\ UNCHANGED <<refs, lent>>

MayAcquire(i) == i.active_borrows < capacity /\ i.clock < MaxClock

Canonical(uri) == normalize_absolute_uri(uri)

acquire_full ==
    /\ impl.live /\ impl.active_borrows >= capacity
    /\ Refuse("FULL")
    /\ UNCHANGED <<impl, outside>>

acquire_hit(uri) ==
    /\ impl.live /\ MayAcquire(impl) /\ Cardinality(refs) < MaxCopies
    /\ find_entry(impl, Canonical(uri)) # {}
    /\ LET s == First(find_entry(impl, Canonical(uri)))
           used == [impl EXCEPT !.clock = @ + 1, !.entries[s].last_used = impl.clock + 1]
       IN impl' = allocate_borrow(used, s) /\ GiveOut(used, s)
    /\ UNCHANGED outside

Missing(uri) == impl.live /\ MayAcquire(impl) /\ find_entry(impl, Canonical(uri)) = {}

acquire_no_capacity(uri) ==
    /\ Missing(uri) /\ ~has_insert_capacity(impl)
    /\ Refuse("FULL")
    /\ UNCHANGED <<impl, outside>>

(* Audio may be started while the document is read: fetch_audio_begin      *)
(* answers with a ticket, without one, or refuses.                         *)
FinishAudio(started, opened) == IF started THEN 1 ELSE 0

acquire_unread(uri) ==
    /\ Missing(uri) /\ has_insert_capacity(impl)
    /\ \/ Refuse("INVALID_ARGUMENT") /\ UNCHANGED outside
       \/ \E started \in BOOLEAN :
             /\ Refuse("RESOURCE_ERROR")
             /\ outside' = [outside EXCEPT !.audio =
                              @ + (IF started THEN 1 ELSE 0) - FinishAudio(started, FALSE)]
    /\ UNCHANGED impl

allocation_size(uri, size) == UriSize(Canonical(uri)) + 1 + size + 1

CloseDocument(size) == 1

Read(size) ==
    outside' = [outside EXCEPT !.documents = @ + 1 - CloseDocument(size)]

acquire_oversize(uri, size) ==
    /\ Missing(uri) /\ has_insert_capacity(impl)
    /\ size > max_document_bytes \/ allocation_size(uri, size) > max_cache_bytes
    /\ Refuse("LIMIT_EXCEEDED")
    /\ Read(size)
    /\ UNCHANGED impl

Readable(uri, size) ==
    /\ Missing(uri) /\ has_insert_capacity(impl)
    /\ size <= max_document_bytes /\ allocation_size(uri, size) <= max_cache_bytes

acquire_uncompilable(uri, size) ==
    /\ Readable(uri, size)
    /\ Refuse("COMPILE_ERROR")
    /\ Read(size)
    /\ UNCHANGED impl

(* Room may be missing although has_insert_capacity held: what is evicted  *)
(* on the way stays evicted.                                               *)
acquire_no_room(uri, size) ==
    /\ Readable(uri, size)
    /\ LET i == make_room(impl, allocation_size(uri, size))
       IN ~Roomy(i, allocation_size(uri, size)) /\ impl' = i
    /\ Refuse("FULL")
    /\ Read(size)

Inserted(i, s, uri, size) ==
    [i EXCEPT !.entries[s] =
                [generation |-> next_generation(i.entries[s].generation), occupied |-> TRUE,
                 pins |-> 0, last_used |-> i.clock + 1, uri |-> Canonical(uri),
                 allocation_size |-> allocation_size(uri, size)],
              !.clock = @ + 1,
              !.cached_bytes = @ + allocation_size(uri, size)]

acquire_insert(uri, size) ==
    /\ Readable(uri, size) /\ Cardinality(refs) < MaxCopies
    /\ LET i == make_room(impl, allocation_size(uri, size))
           s == First(find_empty(i))
           j == Inserted(i, s, uri, size)
       IN /\ Roomy(i, allocation_size(uri, size))
          /\ impl' = allocate_borrow(j, s)
          /\ GiveOut(j, s)
    /\ Read(size)

-----------------------------------------------------------------------------
(* release: the caller's reference is cleared, copies of it remain.        *)
release(r) ==
    /\ impl.live /\ impl.clock < MaxClock
    /\ IF entry_from_ref(impl, r)
       THEN /\ impl' = [impl EXCEPT !.borrows[r.borrow_slot].active = FALSE,
                                    !.entries[r.slot].pins = @ - 1,
                                    !.entries[r.slot].last_used = impl.clock + 1,
                                    !.active_borrows = @ - 1, !.clock = @ + 1]
            /\ status' = "OK"
            /\ \E copied \in BOOLEAN : refs' = IF copied THEN refs ELSE refs \ {r}
            /\ lent' = [q \in DOMAIN lent \ {r} |-> lent[q]]
       ELSE Refuse("STALE") /\ UNCHANGED impl
    /\ UNCHANGED outside

Evict(i, s) == IF s \in Unpinned(i) THEN entry_evict(i, s) ELSE i

clear ==
    /\ impl.live
    /\ impl' = FoldFunction(LAMBDA s, i : Evict(i, s), impl, [s \in Slots |-> s])
    /\ Refuse(IF Unpinned(impl) # Occupied(impl) THEN "BUSY" ELSE "OK")
    /\ UNCHANGED outside

destroy ==
    /\ impl.live
    /\ IF impl.active_borrows # 0 THEN Refuse("BUSY") /\ UNCHANGED impl
       ELSE /\ impl' = [FoldFunction(LAMBDA s, i : Evict(i, s), impl, [s \in Slots |-> s])
                          EXCEPT !.live = FALSE]
            /\ Refuse("OK")
    /\ UNCHANGED outside

Next ==
    \/ acquire_full \/ clear \/ destroy
    \/ \E uri \in Uris :
         \/ acquire_hit(uri) \/ acquire_no_capacity(uri) \/ acquire_unread(uri)
         \/ \E size \in Sizes :
              \/ acquire_oversize(uri, size) \/ acquire_uncompilable(uri, size)
              \/ acquire_no_room(uri, size) \/ acquire_insert(uri, size)
    \/ \E r \in refs : release(r)

Spec == Init /\ [][Next]_vars

-----------------------------------------------------------------------------
(* Properties.                                                             *)

(* The store and its clients have the values of their declarations.        *)
TypeOK ==
    /\ \A s \in Slots : impl.entries[s].pins \in 0 .. capacity
    /\ impl.cached_bytes \in 0 .. max_cache_bytes /\ impl.active_borrows \in 0 .. capacity
    /\ impl.clock \in 0 .. MaxClock
    /\ refs \subseteq Refs
    /\ outside.documents \in Nat /\ outside.audio \in Nat

(* A reference that was given out and not yet given back still leads to    *)
(* the document it was given out for, however often its entry and its      *)
(* borrow were used since (entry_evict, make_room, clear).                 *)
HeldStaysReadable ==
    \A r \in DOMAIN lent :
        entry_from_ref(impl, r) /\ impl.entries[r.slot].uri = lent[r]

(* A copy of a reference that was given back is never taken for another    *)
(* one: the generations of entry and borrow give it away (view, release).  *)
StaleIsRefused == \A r \in refs \ DOMAIN lent : ~entry_from_ref(impl, r)

(* One document is cached once, whatever spellings of its URI are used.    *)
NoDocumentTwice ==
    \A s, t \in Occupied(impl) :
        normalize_absolute_uri(impl.entries[s].uri) =
            normalize_absolute_uri(impl.entries[t].uri) => s = t

(* The counters agree with what they count: bytes, pins and borrows.       *)
CountersExact ==
    /\ impl.cached_bytes = FoldFunctionOnSet(+, 0,
           [s \in Slots |-> impl.entries[s].allocation_size], Slots)
    /\ impl.active_borrows = Cardinality(DOMAIN lent)
    /\ \A s \in Slots :
          impl.entries[s].pins = Cardinality({r \in DOMAIN lent : r.slot = s})

(* A step of any call takes out of the cache only what was used before     *)
(* everything it leaves there that nobody holds; clear and destroy take    *)
(* all of that (find_lru_unpinned).                                        *)
EvictsOldest ==
    \A s \in Occupied(impl) :
        impl'.entries[s].uri # impl.entries[s].uri
        => \A t \in Unpinned(impl) :
              \/ impl'.entries[t].generation # impl.entries[t].generation
              \/ ~impl'.entries[t].occupied
              \/ impl.entries[t].last_used > impl.entries[s].last_used

(* Between calls no document is open and no audio plays: every failure     *)
(* closes the one and finishes the other (acquire_with_policy).            *)
NothingLeftOpen == outside.documents = 0 /\ outside.audio = 0

(* The cache keeps what is held, knows it from what is not, counts it and  *)
(* closes whatever it opened.                                              *)
StoreSound ==
    /\ TypeOK
    /\ HeldStaysReadable /\ StaleIsRefused /\ NoDocumentTwice
    /\ CountersExact /\ NothingLeftOpen
=============================================================================
