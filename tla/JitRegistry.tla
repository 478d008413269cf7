----------------------------- MODULE JitRegistry -----------------------------
(***************************************************************************)
(* What the JIT mapping subsystem promises its caller (spec 4.1-4.3, 8),   *)
(* with no threads, no OS and no intermediate steps: a lifecycle of two    *)
(* states and a set of open allocations, each a pair of page-rounded       *)
(* ranges that overlap nothing else that is open.  allocate, free and      *)
(* shutdown are atomic, as the single registry lock is meant to make them. *)
(* A failed allocate, an unknown free and page_size change nothing.        *)
(***************************************************************************)
EXTENDS Integers, FiniteSets

CONSTANTS
    Addr,       \* usable virtual addresses
    PAGE        \* the probed page size

VARIABLES
    open,       \* open allocations [rw, rx, size]
    lifecycle   \* "Uninitialized" or "Initialized"

vars == <<open, lifecycle>>

Span(base, size) == base .. base + size - 1

\* Every byte of every open range, writable and executable views alike.
Used == UNION { Span(r.rw, r.size) \cup Span(r.rx, r.size) : r \in open }

Region == [rw : Addr, rx : Addr, size : 1 .. Cardinality(Addr)]

Init == open = {} /\ lifecycle = "Uninitialized"

\* init() is idempotent; allocate() on first use performs it too.
JitInit ==
    /\ lifecycle' = "Initialized"
    /\ UNCHANGED open

\* A new allocation of whole pages, both views inside the address space,
\* disjoint from each other and from every open range.
Allocate ==
    /\ lifecycle = "Initialized"
    /\ \E r \in Region :
         /\ r.size % PAGE = 0
         /\ Span(r.rw, r.size) \cup Span(r.rx, r.size) \subseteq Addr
         /\ Span(r.rw, r.size) \cap Span(r.rx, r.size) = {}
         /\ (Span(r.rw, r.size) \cup Span(r.rx, r.size)) \cap Used = {}
         /\ open' = open \cup {r}
    /\ UNCHANGED lifecycle

\* free() of a known writable base removes exactly that allocation.
Free ==
    /\ \E r \in open : open' = open \ {r}
    /\ UNCHANGED lifecycle

\* shutdown() frees everything and returns to Uninitialized, from either
\* state.
Shutdown ==
    /\ open' = {}
    /\ lifecycle' = "Uninitialized"

Next == JitInit \/ Allocate \/ Free \/ Shutdown

Spec == Init /\ [][Next]_vars

=============================================================================
