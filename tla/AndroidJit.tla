----------------------------- MODULE AndroidJit -----------------------------
(***************************************************************************)
(* The dual-mapping JIT allocator of android/app/src/main/jni/android_jit.cpp *)
(*                                                                         *)
(* A caller thread asks android_jit_alloc for a region; the allocator      *)
(* creates a memfd, sizes it, maps it once read/write and once             *)
(* read/execute, and records the pair in two std::maps guarded by one      *)
(* mutex.  The memfd/ftruncate/mmap calls run OUTSIDE the mutex, so each   *)
(* is a step of its own; every locked section is one atomic step.          *)
(*                                                                         *)
(* The OS is modelled too: the set of open memfds with their length and    *)
(* the set of live mappings, so that the registry can be compared with     *)
(* what really is mapped.  Addresses are the integers 0..AddrTop, 0 being  *)
(* nullptr; sizes are size_t values of SizeBits bits.                      *)
(*                                                                         *)
(* g_initialized and g_page_size are read without the mutex in            *)
(* android_jit_alloc and android_jit_page_size: a data race.  A thread     *)
(* that has not synchronised with the last write may read the value it     *)
(* saw when it last held the mutex; seen[t] is that value.                 *)
(***************************************************************************)
EXTENDS Integers, FiniteSets, Bitwise, TLC

CONSTANTS
    Threads,     \* caller threads (model values)
    FdIds,       \* file descriptor numbers the process can get
    NoFd,        \* "no descriptor" (model value)
    AddrTop,     \* highest virtual address; 0 is nullptr
    PAGE,        \* what sysconf(_SC_PAGESIZE) returns
    SizeBits,    \* width of size_t in the model
    Sizes,       \* sizes callers pass to android_jit_alloc
    OsMayFail    \* whether memfd_create/ftruncate/mmap may fail

NULL == 0
Addr == 1..AddrTop
SizeMax == 2^SizeBits          \* size_t arithmetic is modulo SizeMax

ASSUME PAGE \in {2^i : i \in 1..SizeBits-1}
ASSUME Sizes \subseteq 0..SizeMax-1
ASSUME NoFd \notin FdIds
ASSUME OsMayFail \in BOOLEAN

VARIABLES
    g_jit_allocations_by_rw,  \* rw address -> [rw_ptr, rx_ptr, size, fd]
    g_jit_allocations_by_rx,  \* rx address -> key of the by_rw node it points to
    g_page_size,
    g_initialized,
    fds,       \* OS: open memfd -> its length
    maps,      \* OS: set of live mappings [base, len, fd, prot]
    pc,        \* where each thread is inside android_jit_alloc
    loc,       \* android_jit_alloc's locals: size, alloc_size, fd, rw, rx
    seen       \* the globals as thread t last synchronised with them

vars == <<g_jit_allocations_by_rw, g_jit_allocations_by_rx, g_page_size,
          g_initialized, fds, maps, pc, loc, seen>>

RW == "rw"
RX == "rx"

JitAllocation == [rw_ptr : Addr, rx_ptr : Addr, size : 1..SizeMax-1, fd : FdIds]
Mapping == [base : Addr, len : 1..SizeMax-1, fd : FdIds, prot : {RW, RX}]

Idle == "idle"
AllocPcs == {"memfd", "ftruncate", "mmap_rw", "mmap_rx", "store"}

-----------------------------------------------------------------------------
(* size_t arithmetic                                                       *)

\* (size + g_page_size - 1) & ~(g_page_size - 1), in SizeBits-bit size_t.
round_up_to_page(size, ps) ==
    ((size + ps - 1) % SizeMax) & ((SizeMax - 1) - ((ps - 1) % SizeMax))

-----------------------------------------------------------------------------
(* The operating system                                                    *)

Covers(m, a) == m.base <= a /\ a < m.base + m.len

\* Bases mmap(nullptr, len, ...) may return: page aligned, above the
\* unmappable first page, not overlapping a live mapping.
FreeBases(len) ==
    { b \in Addr :
        /\ b % PAGE = 0
        /\ b + len - 1 <= AddrTop
        /\ \A m \in maps : b + len <= m.base \/ m.base + m.len <= b }

Unmap(base) == { m \in maps : m.base # base }

CloseFd(fd) == [f \in DOMAIN fds \ {fd} |-> fds[f]]

\* A thread that takes g_jit_mutex synchronises with every earlier write.
Sync(t) == seen' = [seen EXCEPT ![t] = [init |-> g_initialized',
                                        ps |-> g_page_size']]

\* Values an unsynchronised read of a global may return.
RacyInit(t) == {seen[t].init, g_initialized}
RacyPageSize(t) == {seen[t].ps, g_page_size}

-----------------------------------------------------------------------------
(* Address translation (lines 215-273): read-only under the mutex, so they *)
(* are operators over the state.  Garbage is what dereferencing a          *)
(* by_rx pointer to an erased node would return.                           *)

Garbage == -1

\* Fault variant: the upper bound taken as inclusive.
InRangeInclusive(base, size, a) == a >= base /\ a <= base + size

InRange(base, size, a) == a >= base /\ a < base + size

\* The std::map is iterated in ascending key order; the first hit wins.
FirstContaining(view, a) ==
    LET hits == { k \in DOMAIN g_jit_allocations_by_rw :
                    InRange(g_jit_allocations_by_rw[k][view],
                            g_jit_allocations_by_rw[k].size, a) }
    IN  IF hits = {} THEN NULL
        ELSE CHOOSE k \in hits : \A j \in hits : k <= j

android_jit_rx_to_rw(a) ==
    IF a = NULL THEN NULL
    ELSE IF a \in DOMAIN g_jit_allocations_by_rx
    THEN IF g_jit_allocations_by_rx[a] \in DOMAIN g_jit_allocations_by_rw
         THEN g_jit_allocations_by_rw[g_jit_allocations_by_rx[a]].rw_ptr
         ELSE Garbage
    ELSE LET k == FirstContaining("rx_ptr", a)
         IN  IF k = NULL THEN NULL
             ELSE LET r == g_jit_allocations_by_rw[k]
                  IN  r.rw_ptr + (a - r.rx_ptr)

android_jit_rw_to_rx(a) ==
    IF a = NULL THEN NULL
    ELSE IF a \in DOMAIN g_jit_allocations_by_rw
    THEN g_jit_allocations_by_rw[a].rx_ptr
    ELSE LET k == FirstContaining("rw_ptr", a)
         IN  IF k = NULL THEN NULL
             ELSE LET r == g_jit_allocations_by_rw[k]
                  IN  r.rx_ptr + (a - r.rw_ptr)

-----------------------------------------------------------------------------
(* Lifecycle                                                               *)

Init ==
    /\ g_jit_allocations_by_rw = [a \in {} |-> NULL]
    /\ g_jit_allocations_by_rx = [a \in {} |-> NULL]
    /\ g_page_size = 0
    /\ g_initialized = FALSE
    /\ fds = [f \in {} |-> 0]
    /\ maps = {}
    /\ pc = [t \in Threads |-> Idle]
    /\ loc = [t \in Threads |-> [size |-> 0, alloc_size |-> 0, fd |-> NoFd,
                                 rw |-> NULL, rx |-> NULL]]
    /\ seen = [t \in Threads |-> [init |-> FALSE, ps |-> 0]]

\* The effect of android_jit_init's locked body on the two globals.
InitBody ==
    /\ g_page_size' = IF g_initialized THEN g_page_size ELSE PAGE
    /\ g_initialized' = TRUE

android_jit_init(t) ==
    /\ pc[t] = Idle
    /\ InitBody
    /\ Sync(t)
    /\ UNCHANGED <<g_jit_allocations_by_rw, g_jit_allocations_by_rx,
                   fds, maps, pc, loc>>

\* Fault variant: g_jit_allocations_by_rx.clear() forgotten.
ShutdownKeepsRxIndex(t) ==
    LET recs == { g_jit_allocations_by_rw[k] : k \in DOMAIN g_jit_allocations_by_rw }
    IN
    /\ pc[t] = Idle
    /\ maps' = { m \in maps : \A r \in recs : m.base \notin {r.rw_ptr, r.rx_ptr} }
    /\ fds' = [f \in DOMAIN fds \ { r.fd : r \in recs } |-> fds[f]]
    /\ g_jit_allocations_by_rw' = [a \in {} |-> NULL]
    /\ g_initialized' = FALSE
    /\ UNCHANGED <<g_page_size, g_jit_allocations_by_rx, pc, loc>>
    /\ Sync(t)

android_jit_shutdown(t) ==
    LET recs == { g_jit_allocations_by_rw[k] : k \in DOMAIN g_jit_allocations_by_rw }
    IN
    /\ pc[t] = Idle
    /\ maps' = { m \in maps : \A r \in recs : m.base \notin {r.rw_ptr, r.rx_ptr} }
    /\ fds' = [f \in DOMAIN fds \ { r.fd : r \in recs } |-> fds[f]]
    /\ g_jit_allocations_by_rw' = [a \in {} |-> NULL]
    /\ g_jit_allocations_by_rx' = [a \in {} |-> NULL]
    /\ g_initialized' = FALSE
    /\ UNCHANGED g_page_size
    /\ Sync(t)
    /\ UNCHANGED <<pc, loc>>

\* android_jit_page_size: unlocked read, and unlocked write when it read 0.
android_jit_page_size(t) ==
    /\ pc[t] = Idle
    /\ \E v \in RacyPageSize(t) :
          /\ v = 0
          /\ g_page_size' = PAGE
          /\ seen' = [seen EXCEPT ![t].ps = PAGE]
    /\ UNCHANGED <<g_jit_allocations_by_rw, g_jit_allocations_by_rx,
                   g_initialized, fds, maps, pc, loc>>

-----------------------------------------------------------------------------
(* android_jit_alloc, one action per step between OS calls                 *)

SetLoc(t, r) == loc' = [loc EXCEPT ![t] = r]
Goto(t, p) == pc' = [pc EXCEPT ![t] = p]

\* Lines 104-118: the racy g_initialized test, android_jit_init when it
\* reads FALSE, then the page rounding with a racy read of g_page_size.
AllocEnter(t) ==
    /\ pc[t] = Idle
    /\ \E size \in Sizes, init \in RacyInit(t) :
         IF init
         THEN /\ \E ps \in RacyPageSize(t) :
                   SetLoc(t, [loc[t] EXCEPT !.size = size,
                                  !.alloc_size = round_up_to_page(size, ps)])
              /\ UNCHANGED <<g_page_size, g_initialized, seen>>
         ELSE /\ InitBody
              /\ Sync(t)
              /\ SetLoc(t, [loc[t] EXCEPT !.size = size,
                             !.alloc_size = round_up_to_page(size, g_page_size')])
    /\ Goto(t, "memfd")
    /\ UNCHANGED <<g_jit_allocations_by_rw, g_jit_allocations_by_rx, fds, maps>>

\* The thread returns -1 and forgets its locals.
Fail(t) ==
    /\ Goto(t, Idle)
    /\ SetLoc(t, [loc[t] EXCEPT !.fd = NoFd, !.rw = NULL, !.rx = NULL])

\* Lines 121-125.  EMFILE when every descriptor is in use.
AllocMemfd(t) ==
    /\ pc[t] = "memfd"
    /\ \/ \E fd \in FdIds \ DOMAIN fds :
            /\ fds' = fds @@ (fd :> 0)
            /\ SetLoc(t, [loc[t] EXCEPT !.fd = fd])
            /\ Goto(t, "ftruncate")
       \/ /\ OsMayFail \/ FdIds \subseteq DOMAIN fds
          /\ Fail(t)
          /\ UNCHANGED fds
    /\ UNCHANGED <<g_jit_allocations_by_rw, g_jit_allocations_by_rx,
                   g_page_size, g_initialized, maps, seen>>

\* Lines 128-132.
AllocFtruncate(t) ==
    /\ pc[t] = "ftruncate"
    /\ \/ /\ fds' = [fds EXCEPT ![loc[t].fd] = loc[t].alloc_size]
          /\ Goto(t, "mmap_rw")
          /\ UNCHANGED loc
       \/ /\ OsMayFail
          /\ fds' = CloseFd(loc[t].fd)
          /\ Fail(t)
    /\ UNCHANGED <<g_jit_allocations_by_rw, g_jit_allocations_by_rx,
                   g_page_size, g_initialized, maps, seen>>

\* mmap(nullptr, alloc_size, prot, MAP_SHARED, fd, 0): EINVAL for length 0,
\* ENOMEM when no hole is large enough.
MmapOk(t, prot, field) ==
    /\ loc[t].alloc_size > 0
    /\ \E b \in FreeBases(loc[t].alloc_size) :
         /\ maps' = maps \cup {[base |-> b, len |-> loc[t].alloc_size,
                                fd |-> loc[t].fd, prot |-> prot]}
         /\ SetLoc(t, [loc[t] EXCEPT ![field] = b])
MmapFails(t) ==
    \/ loc[t].alloc_size = 0
    \/ FreeBases(loc[t].alloc_size) = {}
    \/ OsMayFail

MAP_FAILED == -1

\* Fault variant: the rw == MAP_FAILED test dropped; MAP_FAILED is used
\* as the RW address.
AllocMmapRwUnchecked(t) ==
    /\ pc[t] = "mmap_rw"
    /\ \/ /\ MmapOk(t, RW, "rw")
       \/ /\ MmapFails(t)
          /\ SetLoc(t, [loc[t] EXCEPT !.rw = MAP_FAILED])
          /\ UNCHANGED maps
    /\ Goto(t, "mmap_rx")
    /\ UNCHANGED <<g_jit_allocations_by_rw, g_jit_allocations_by_rx,
                   g_page_size, g_initialized, fds, seen>>

\* Lines 135-141.
AllocMmapRw(t) ==
    /\ pc[t] = "mmap_rw"
    /\ \/ /\ MmapOk(t, RW, "rw")
          /\ Goto(t, "mmap_rx")
          /\ UNCHANGED fds
       \/ /\ MmapFails(t)
          /\ fds' = CloseFd(loc[t].fd)
          /\ Fail(t)
          /\ UNCHANGED maps
    /\ UNCHANGED <<g_jit_allocations_by_rw, g_jit_allocations_by_rx,
                   g_page_size, g_initialized, seen>>

\* Fault variant: munmap(rw, alloc_size) forgotten on the RX failure path.
AllocMmapRxNoUnmap(t) ==
    /\ pc[t] = "mmap_rx"
    /\ \/ /\ MmapOk(t, RX, "rx")
          /\ Goto(t, "store")
          /\ UNCHANGED fds
       \/ /\ MmapFails(t)
          /\ fds' = CloseFd(loc[t].fd)
          /\ Fail(t)
          /\ UNCHANGED maps
    /\ UNCHANGED <<g_jit_allocations_by_rw, g_jit_allocations_by_rx,
                   g_page_size, g_initialized, seen>>

\* Lines 144-151: on failure the RW view and the memfd are torn down.
AllocMmapRx(t) ==
    /\ pc[t] = "mmap_rx"
    /\ \/ /\ MmapOk(t, RX, "rx")
          /\ Goto(t, "store")
          /\ UNCHANGED fds
       \/ /\ MmapFails(t)
          /\ maps' = Unmap(loc[t].rw)
          /\ fds' = CloseFd(loc[t].fd)
          /\ Fail(t)
    /\ UNCHANGED <<g_jit_allocations_by_rw, g_jit_allocations_by_rx,
                   g_page_size, g_initialized, seen>>

\* Fault variant: the record keeps the requested size, not alloc_size.
AllocStoreUnrounded(t) ==
    LET l == loc[t] IN
    /\ pc[t] = "store"
    /\ g_jit_allocations_by_rw' = g_jit_allocations_by_rw @@
          (l.rw :> [rw_ptr |-> l.rw, rx_ptr |-> l.rx,
                    size |-> l.size, fd |-> l.fd])
    /\ g_jit_allocations_by_rx' = g_jit_allocations_by_rx @@ (l.rx :> l.rw)
    /\ Goto(t, Idle)
    /\ SetLoc(t, [l EXCEPT !.fd = NoFd, !.rw = NULL, !.rx = NULL])
    /\ UNCHANGED <<g_page_size, g_initialized, fds, maps>>
    /\ Sync(t)

\* Lines 154-172: the record is stored under the mutex and both
\* addresses are returned.
AllocStore(t) ==
    LET l == loc[t] IN
    /\ pc[t] = "store"
    /\ g_jit_allocations_by_rw' = g_jit_allocations_by_rw @@
          (l.rw :> [rw_ptr |-> l.rw, rx_ptr |-> l.rx,
                    size |-> l.alloc_size, fd |-> l.fd])
    /\ g_jit_allocations_by_rx' = g_jit_allocations_by_rx @@ (l.rx :> l.rw)
    /\ Goto(t, Idle)
    /\ SetLoc(t, [l EXCEPT !.fd = NoFd, !.rw = NULL, !.rx = NULL])
    /\ UNCHANGED <<g_page_size, g_initialized, fds, maps>>
    /\ Sync(t)

-----------------------------------------------------------------------------
(* android_jit_free (lines 175-213), one locked step.  rw and rx are what *)
(* the caller passes: any address, nullptr included.                      *)

\* Unknown rw (line 183): nothing but the mutex round trip.
FreeUnknown(t, rw, rx) ==
    /\ rw \notin DOMAIN g_jit_allocations_by_rw
    /\ UNCHANGED <<g_jit_allocations_by_rw, g_jit_allocations_by_rx,
                   g_page_size, g_initialized, fds, maps>>
    /\ Sync(t)

\* Known rw: the record is authoritative, a mismatched rx is only logged.
FreeKnown(t, rw, rx) ==
    LET alloc == g_jit_allocations_by_rw[rw] IN
    /\ rw \in DOMAIN g_jit_allocations_by_rw
    /\ maps' = { m \in maps : m.base \notin {alloc.rw_ptr, alloc.rx_ptr} }
    /\ fds' = CloseFd(alloc.fd)
    /\ g_jit_allocations_by_rx' =
          [a \in DOMAIN g_jit_allocations_by_rx \ {alloc.rx_ptr} |->
              g_jit_allocations_by_rx[a]]
    /\ g_jit_allocations_by_rw' =
          [a \in DOMAIN g_jit_allocations_by_rw \ {rw} |->
              g_jit_allocations_by_rw[a]]
    /\ UNCHANGED <<g_page_size, g_initialized>>
    /\ Sync(t)

android_jit_free(t, rw, rx) ==
    /\ pc[t] = Idle
    /\ rw # NULL \/ rx # NULL
    /\ \/ FreeUnknown(t, rw, rx)
       \/ FreeKnown(t, rw, rx)
    /\ UNCHANGED <<pc, loc>>

-----------------------------------------------------------------------------

\* Every API call a thread t can make, one step of it.
ThreadNext(t) ==
        \/ android_jit_init(t)
        \/ android_jit_shutdown(t)
        \/ android_jit_page_size(t)
        \/ AllocEnter(t)
        \/ AllocMemfd(t)
        \/ AllocFtruncate(t)
        \/ AllocMmapRw(t)
        \/ AllocMmapRx(t)
        \/ AllocStore(t)
        \/ \E rw, rx \in {NULL} \cup Addr : android_jit_free(t, rw, rx)

Next == \E t \in Threads : ThreadNext(t)

Spec == Init /\ [][Next]_vars

-----------------------------------------------------------------------------
(* Properties                                                              *)

TypeOK ==
    /\ DOMAIN g_jit_allocations_by_rw \subseteq Addr
    /\ \A k \in DOMAIN g_jit_allocations_by_rw : g_jit_allocations_by_rw[k] \in JitAllocation
    /\ DOMAIN g_jit_allocations_by_rx \subseteq Addr
    /\ \A k \in DOMAIN g_jit_allocations_by_rx : g_jit_allocations_by_rx[k] \in Addr
    /\ g_page_size \in {0, PAGE}
    /\ g_initialized \in BOOLEAN
    /\ DOMAIN fds \subseteq FdIds /\ \A f \in DOMAIN fds : fds[f] \in 0..SizeMax-1
    /\ maps \subseteq Mapping
    /\ pc \in [Threads -> {Idle} \cup AllocPcs]
    /\ loc \in [Threads -> [size : 0..SizeMax-1, alloc_size : 0..SizeMax-1,
                            fd : FdIds \cup {NoFd}, rw : {NULL} \cup Addr,
                            rx : {NULL} \cup Addr]]
    /\ seen \in [Threads -> [init : BOOLEAN, ps : {0, PAGE}]]

Records == { g_jit_allocations_by_rw[k] : k \in DOMAIN g_jit_allocations_by_rw }

\* The live mapping starting at base, if there is one.
MappingAt(base) == { m \in maps : m.base = base }

(***************************************************************************)
(* The registry describes the OS exactly: every record's two addresses are *)
(* live mappings of the record's memfd, RW and RX, of the record's size,   *)
(* that memfd is open with that length, and g_jit_allocations_by_rx maps   *)
(* each recorded rx address, and nothing else, to the by_rw node holding   *)
(* it.  Breaks if free or shutdown leave an index entry behind (a dangling *)
(* JitAllocation* in by_rx) or unmap without erasing.                      *)
(***************************************************************************)
RegistryCoherent ==
    /\ \A k \in DOMAIN g_jit_allocations_by_rw :
          LET r == g_jit_allocations_by_rw[k] IN
          /\ r.rw_ptr = k
          /\ MappingAt(r.rw_ptr) = {[base |-> r.rw_ptr, len |-> r.size, fd |-> r.fd, prot |-> RW]}
          /\ MappingAt(r.rx_ptr) = {[base |-> r.rx_ptr, len |-> r.size, fd |-> r.fd, prot |-> RX]}
          /\ r.fd \in DOMAIN fds /\ fds[r.fd] = r.size
          /\ r.size % PAGE = 0
    /\ DOMAIN g_jit_allocations_by_rx = { r.rx_ptr : r \in Records }
    /\ \A a \in DOMAIN g_jit_allocations_by_rx :
          /\ g_jit_allocations_by_rx[a] \in DOMAIN g_jit_allocations_by_rw
          /\ g_jit_allocations_by_rw[g_jit_allocations_by_rx[a]].rx_ptr = a

\* b is the byte of the same memfd, at the same offset, that a is, seen
\* through a mapping of protection prot.
SameByte(a, from, b, to) ==
    \E m1, m2 \in maps :
        /\ m1.prot = from /\ m2.prot = to /\ m1.fd = m2.fd
        /\ Covers(m1, a) /\ Covers(m2, b)
        /\ a - m1.base = b - m2.base

RegisteredIn(view, a) == \E r \in Records : InRange(r[view], r.size, a)

(***************************************************************************)
(* android_jit_rw_to_rx and android_jit_rx_to_rw, asked about any address *)
(* at any moment of any interleaving, answer either nullptr or the other  *)
(* view of the same physical byte; they answer for every byte of every    *)
(* registered range (base or interior), and the round trip returns the    *)
(* address it started from.  An off-by-one in the containment test or a   *)
(* stale index entry breaks it.                                           *)
(***************************************************************************)
TranslationSound ==
    \A a \in Addr :
        /\ android_jit_rw_to_rx(a) # NULL => SameByte(a, RW, android_jit_rw_to_rx(a), RX)
        /\ android_jit_rx_to_rw(a) # NULL => SameByte(a, RX, android_jit_rx_to_rw(a), RW)
        /\ RegisteredIn("rw_ptr", a) =>
              /\ android_jit_rw_to_rx(a) # NULL
              /\ android_jit_rx_to_rw(android_jit_rw_to_rx(a)) = a
        /\ RegisteredIn("rx_ptr", a) =>
              /\ android_jit_rx_to_rw(a) # NULL
              /\ android_jit_rw_to_rx(android_jit_rx_to_rw(a)) = a

InFlight == { t \in Threads : pc[t] \in AllocPcs }

(***************************************************************************)
(* No memfd and no mapping is ever leaked or owned twice: each open memfd  *)
(* and each live mapping belongs to exactly one registry record or to     *)
(* exactly one android_jit_alloc still running, on every path, including  *)
(* the failure paths of ftruncate and of either mmap.                     *)
(***************************************************************************)
NoLeak ==
    /\ \A f \in DOMAIN fds :
          Cardinality({ r \in Records : r.fd = f }) +
          Cardinality({ t \in InFlight : loc[t].fd = f }) = 1
    /\ \A m \in maps :
          Cardinality({ r \in Records : m.base \in {r.rw_ptr, r.rx_ptr} }) +
          Cardinality({ t \in InFlight : m.base \in {loc[t].rw, loc[t].rx} }) = 1

-----------------------------------------------------------------------------
(* Refinement: the registry, read as the set of open allocations, and     *)
(* g_initialized, read as the lifecycle, behave as JitRegistry allows.    *)
(* AllocStore is allocate, FreeKnown is free, android_jit_shutdown is     *)
(* shutdown, the InitBody of android_jit_init and of AllocEnter is init;  *)
(* every other step (the OS calls of alloc, its failure paths, an unknown *)
(* free, page_size) leaves both unchanged.                                *)

AbsOpen == { [rw |-> r.rw_ptr, rx |-> r.rx_ptr, size |-> r.size] : r \in Records }
AbsLifecycle == IF g_initialized THEN "Initialized" ELSE "Uninitialized"

Registry == INSTANCE JitRegistry WITH open <- AbsOpen, lifecycle <- AbsLifecycle

(***************************************************************************)
(* android_jit_alloc, android_jit_free, android_jit_shutdown and          *)
(* android_jit_init together implement the abstract allocator: a record   *)
(* appears only while Initialized, whole pages, both views disjoint from  *)
(* everything open; free removes one; shutdown empties the registry and   *)
(* returns to Uninitialized.  An alloc that stores its record after a     *)
(* concurrent shutdown breaks it.                                         *)
(***************************************************************************)
RefinesJitRegistry == Registry!Spec

=============================================================================
