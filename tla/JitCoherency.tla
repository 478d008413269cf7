---------------------------- MODULE JitCoherency ----------------------------
(***************************************************************************)
(* The allocator of AndroidJit composed with a JIT caller and the CPU's    *)
(* caches, for android_jit_flush_cache (android_jit.cpp 275-280).          *)
(*                                                                         *)
(* Memory is addressed physically, as a byte of a memfd: <<fd, offset>>.   *)
(* A store through the RW view lands in the data cache (dcache, the dirty  *)
(* lines); a dirty line reaches the point of unification (mem) when the   *)
(* hardware writes it back, at any moment.  Instruction fetches read the   *)
(* instruction cache (icache), which fills from mem, also speculatively    *)
(* from any byte mapped executable.  __builtin___clear_cache(start, end)   *)
(* cleans the data cache and invalidates the instruction cache over the    *)
(* bytes [start, end) (dc cvau / ic ivau on arm64).  A cache line is one   *)
(* byte here, the finest granularity the instruction allows.               *)
(*                                                                         *)
(* The caller is not in this repository; it follows spec 4.3 and the      *)
(* scenario of spec 8: write an instruction of InsnLen bytes through the  *)
(* RW address, flush it at the RX address android_jit_rw_to_rx gives,     *)
(* then jump there.  A caller thread makes no allocator call while it has *)
(* an instruction in flight.                                               *)
(***************************************************************************)
EXTENDS AndroidJit, Functions

CONSTANTS
    Code,      \* instruction values a caller writes; a new memfd reads 0
    InsnLen    \* bytes of one instruction

ASSUME 0 \notin Code /\ InsnLen \in Nat \ {0}

VARIABLES
    mem,       \* physical byte -> value at the point of unification
    dcache,    \* physical byte -> value of a dirty data-cache line
    icache,    \* physical byte -> value held by the instruction cache
    call       \* each caller thread's instruction in flight

cvars == <<mem, dcache, icache, call>>
allvars == <<vars, cvars>>

NoCall == [phase |-> "none", rw |-> NULL, code |-> 0]

\* The bytes of every open memfd, as ftruncate sized it.
PhysBytes(f) == UNION { { <<d, o>> : o \in 0 .. f[d] - 1 } : d \in DOMAIN f }

Mapped(a) == \E m \in maps : Covers(m, a)

\* The physical byte a mapped virtual address names.
Phys(a) == LET m == CHOOSE m \in maps : Covers(m, a) IN <<m.fd, a - m.base>>

\* What an instruction fetch at a reads: the icache line, or memory.
Fetch(a) == IF Phys(a) \in DOMAIN icache THEN icache[Phys(a)] ELSE mem[Phys(a)]

\* f with the bytes of P set to v.
SetBytes(f, P, v) == [p \in DOMAIN f \cup P |-> IF p \in P THEN v ELSE f[p]]

-----------------------------------------------------------------------------
(* __builtin___clear_cache and android_jit_flush_cache                     *)

\* __builtin___clear_cache(start, end): every mapped byte of [start, end)
\* is cleaned to mem and dropped from the instruction cache.
ClearCache(start, end) ==
    LET P == { Phys(a) : a \in { x \in start .. end - 1 : Mapped(x) } }
    IN  /\ mem' = [p \in DOMAIN mem |->
                      IF p \in P /\ p \in DOMAIN dcache THEN dcache[p] ELSE mem[p]]
        /\ dcache' = Restrict(dcache, DOMAIN dcache \ P)
        /\ icache' = Restrict(icache, DOMAIN icache \ P)

\* Fault variant: the end computed as start + size - 1.
FlushCacheShort(start, size) == ClearCache(start, start + size - 1)

android_jit_flush_cache(start, size) == ClearCache(start, start + size)

-----------------------------------------------------------------------------
(* The system                                                              *)

SystemInit ==
    /\ Init
    /\ mem = [p \in {} |-> 0] /\ dcache = [p \in {} |-> 0]
    /\ icache = [p \in {} |-> 0]
    /\ call = [t \in Threads |-> NoCall]

\* An allocator call of a thread with no instruction in flight.  A memfd
\* comes zeroed and its bytes go with it when it is closed.
JitStep(t) ==
    /\ call[t].phase = "none"
    /\ ThreadNext(t)
    /\ mem' = [p \in PhysBytes(fds') |-> IF p \in DOMAIN mem THEN mem[p] ELSE 0]
    /\ dcache' = Restrict(dcache, DOMAIN dcache \cap PhysBytes(fds'))
    /\ icache' = Restrict(icache, DOMAIN icache \cap PhysBytes(fds'))
    /\ UNCHANGED call

\* The caller stores an instruction through the RW view of an allocation.
CallerWrite(t) ==
    /\ pc[t] = Idle /\ call[t].phase = "none"
    /\ \E r \in Records, v \in Code :
       \E k \in 0 .. r.size - InsnLen :
         /\ dcache' = SetBytes(dcache,
                         { Phys(r.rw_ptr + k + i) : i \in 0 .. InsnLen - 1 }, v)
         /\ call' = [call EXCEPT ![t] = [phase |-> "written",
                                         rw |-> r.rw_ptr + k, code |-> v]]
    /\ UNCHANGED <<vars, mem, icache>>

\* The caller flushes the instruction at its RX address.
CallerFlush(t) ==
    /\ call[t].phase = "written"
    /\ android_jit_flush_cache(android_jit_rw_to_rx(call[t].rw), InsnLen)
    /\ call' = [call EXCEPT ![t].phase = "flushed"]
    /\ UNCHANGED vars

\* The caller jumps to the RX address: the fetched bytes fill the icache.
CallerExecute(t) ==
    LET rx == android_jit_rw_to_rx(call[t].rw)
        P  == { Phys(rx + i) : i \in 0 .. InsnLen - 1 }
    IN
    /\ call[t].phase = "flushed"
    /\ icache' = [p \in DOMAIN icache \cup P |->
                    IF p \in DOMAIN icache THEN icache[p] ELSE mem[p]]
    /\ call' = [call EXCEPT ![t] = NoCall]
    /\ UNCHANGED <<vars, mem, dcache>>

\* The hardware writes a dirty line back.
WriteBack ==
    /\ \E p \in DOMAIN dcache :
         /\ mem' = [mem EXCEPT ![p] = dcache[p]]
         /\ dcache' = Restrict(dcache, DOMAIN dcache \ {p})
    /\ UNCHANGED <<vars, icache, call>>

\* The instruction cache fills speculatively from any executable byte.
Prefetch ==
    /\ \E m \in maps, a \in Addr :
         /\ m.prot = RX /\ Covers(m, a)
         /\ Phys(a) \notin DOMAIN icache
         /\ icache' = icache @@ (Phys(a) :> mem[Phys(a)])
    /\ UNCHANGED <<vars, mem, dcache, call>>

SystemNext ==
    \/ \E t \in Threads :
          JitStep(t) \/ CallerWrite(t) \/ CallerFlush(t) \/ CallerExecute(t)
    \/ WriteBack
    \/ Prefetch

SystemSpec == SystemInit /\ [][SystemNext]_allvars

-----------------------------------------------------------------------------
(* Properties                                                              *)

(***************************************************************************)
(* Once a caller has written an instruction through the RW view and       *)
(* flushed it with android_jit_flush_cache at the RX address that         *)
(* android_jit_rw_to_rx gives, every byte an instruction fetch at that    *)
(* RX address reads is the byte written, however the caches were filled  *)
(* or written back before: no stale or torn instruction runs.  Breaks if  *)
(* the flush misses a byte of the range or the translation names another  *)
(* byte.                                                                  *)
(***************************************************************************)
ExecutesWrittenCode ==
    \A t \in Threads :
        call[t].phase = "flushed" =>
            \A i \in 0 .. InsnLen - 1 :
                Fetch(android_jit_rw_to_rx(call[t].rw) + i) = call[t].code

=============================================================================
