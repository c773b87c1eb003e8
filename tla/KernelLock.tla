---------------------------- MODULE KernelLock ----------------------------
(***************************************************************************)
(* The kernel-wide recursive lock of kernel_rs/src/critical.rs, one action *)
(* per atomic access.  A core runs a stack of `without_interrupts` frames; *)
(* `pc` is the position inside the innermost one, "run" meaning that the   *)
(* core executes the closure (or, with no frame, ordinary code).  Maskable *)
(* interrupts arrive while the core's interrupt flag is set and run their  *)
(* handler, which uses the same lock, on top of the interrupted code.      *)
(***************************************************************************)
EXTENDS Integers, FiniteSets

CONSTANTS CPUS,        \* cores, by their software cpu_index
          MaxFrames,   \* bound: nested without_interrupts frames of a core
          CounterSpan  \* the diagnostic counters count modulo this (2^64)

NoOwner == -1

ASSUME CpusAreIndices  == CPUS \subseteq Nat
ASSUME FramesPositive  == MaxFrames \in Nat \ {0}
ASSUME SpanAboveOne    == CounterSpan \in Nat \ {0, 1}
(* MAX_CPUS cores, and counters of 64 bits.                                *)
ASSUME CoresCountable  == IsFiniteSet(CPUS) /\ Cardinality(CPUS) < CounterSpan

VARIABLES owner,       \* KERNEL_LOCK_OWNER
          depth,       \* PER_CPU_DEPTH
          acquires,    \* TOTAL_ACQUIRES
          releases,    \* TOTAL_RELEASES
          unbalanced,  \* UNBALANCED_RELEASES
          pc,          \* position of each core in its innermost frame
          frames,      \* how many without_interrupts frames a core has open
          flags,       \* the IF bit each open frame saved with pushfq
          iflag,       \* RFLAGS.IF of each core
          isr          \* what an interrupted core returns to, or NotInIsr

counters == <<acquires, releases, unbalanced>>
vars == <<owner, depth, counters, pc, frames, flags, iflag, isr>>

Labels == {"run", "acquire", "won", "release", "drop", "count", "restore"}

NotInIsr == <<>>

TypeOK ==
  /\ owner \in CPUS \cup {NoOwner}
  /\ depth \in [CPUS -> 0..MaxFrames]
  /\ acquires \in 0..(CounterSpan - 1)
  /\ releases \in 0..(CounterSpan - 1)
  /\ unbalanced \in 0..(CounterSpan - 1)
  /\ pc \in [CPUS -> Labels]
  /\ frames \in [CPUS -> 0..MaxFrames]
  /\ flags \in [CPUS -> [1..MaxFrames -> BOOLEAN]]
  /\ iflag \in [CPUS -> BOOLEAN]
  /\ isr \in [CPUS -> {NotInIsr} \cup (Labels \X (0..MaxFrames))]

(* A core starts with interrupts on (thread context) or off (boot code).   *)
Init ==
  /\ owner = NoOwner
  /\ depth = [c \in CPUS |-> 0]
  /\ acquires = 0 /\ releases = 0 /\ unbalanced = 0
  /\ pc = [c \in CPUS |-> "run"]
  /\ frames = [c \in CPUS |-> 0]
  /\ flags = [c \in CPUS |-> [n \in 1..MaxFrames |-> FALSE]]
  /\ iflag \in [CPUS -> BOOLEAN]
  /\ isr = [c \in CPUS |-> NotInIsr]

Bump(n) == (n + 1) % CounterSpan

(* without_interrupts: pushfq; cli -- open a frame, nested or not.         *)
EnterSection(c) ==
  /\ pc[c] = "run" /\ frames[c] < MaxFrames
  /\ frames' = [frames EXCEPT ![c] = @ + 1]
  /\ flags' = [flags EXCEPT ![c][frames[c] + 1] = iflag[c]]
  /\ iflag' = [iflag EXCEPT ![c] = FALSE]
  /\ pc' = [pc EXCEPT ![c] = "acquire"]
  /\ UNCHANGED <<owner, depth, counters, isr>>

(* acquire(), depth > 0: this core already holds the lock.                 *)
AcquireNested(c) ==
  /\ pc[c] = "acquire" /\ depth[c] > 0
  /\ depth' = [depth EXCEPT ![c] = @ + 1]
  /\ pc' = [pc EXCEPT ![c] = "run"]
  /\ UNCHANGED <<owner, counters, frames, flags, iflag, isr>>

(* acquire(), depth = 0: the compare_exchange of the spin loop succeeds.   *)
AcquireCas(c) ==
  /\ pc[c] = "acquire" /\ depth[c] = 0
  /\ owner = NoOwner
  /\ owner' = c
  /\ pc' = [pc EXCEPT ![c] = "won"]
  /\ UNCHANGED <<depth, counters, frames, flags, iflag, isr>>

AcquireDone(c) ==
  /\ pc[c] = "won"
  /\ depth' = [depth EXCEPT ![c] = 1]
  /\ acquires' = Bump(acquires)
  /\ pc' = [pc EXCEPT ![c] = "run"]
  /\ UNCHANGED <<owner, releases, unbalanced, frames, flags, iflag, isr>>

(* The closure returns; release() starts.                                  *)
LeaveSection(c) ==
  /\ pc[c] = "run" /\ frames[c] > 0
  /\ isr[c] # NotInIsr => isr[c][2] < frames[c]
  /\ pc' = [pc EXCEPT ![c] = "release"]
  /\ UNCHANGED <<owner, depth, counters, frames, flags, iflag, isr>>

(* Every release() counted, not only the outermost.                        *)
ReleaseInner_Counted(c) ==
  /\ pc[c] = "release" /\ depth[c] # 1
  /\ depth' = [depth EXCEPT ![c] = IF @ > 1 THEN @ - 1 ELSE @]
  /\ releases' = Bump(releases)
  /\ pc' = [pc EXCEPT ![c] = "restore"]
  /\ UNCHANGED <<owner, acquires, unbalanced, frames, flags, iflag, isr>>

(* release(), depth # 1: an inner frame ends; at depth 0 the call is only  *)
(* counted and logged as unbalanced.                                       *)
ReleaseInner(c) ==
  /\ pc[c] = "release" /\ depth[c] # 1
  /\ depth' = [depth EXCEPT ![c] = IF @ > 1 THEN @ - 1 ELSE @]
  /\ unbalanced' = IF depth[c] = 0 THEN Bump(unbalanced) ELSE unbalanced
  /\ pc' = [pc EXCEPT ![c] = "restore"]
  /\ UNCHANGED <<owner, acquires, releases, frames, flags, iflag, isr>>

(* The owner word given away while the depth word still says "mine".       *)
ReleaseOuter_OwnerFirst(c) ==
  /\ pc[c] = "release" /\ depth[c] = 1
  /\ owner' = NoOwner
  /\ pc' = [pc EXCEPT ![c] = "drop"]
  /\ UNCHANGED <<depth, counters, frames, flags, iflag, isr>>

(* The owner word never cleared.                                           *)
ReleaseOwner_Forgotten(c) ==
  /\ pc[c] = "drop"
  /\ pc' = [pc EXCEPT ![c] = "count"]
  /\ UNCHANGED <<owner, depth, counters, frames, flags, iflag, isr>>

(* release(), depth = 1: depth first, then the owner word, then the count. *)
ReleaseOuter(c) ==
  /\ pc[c] = "release" /\ depth[c] = 1
  /\ depth' = [depth EXCEPT ![c] = 0]
  /\ pc' = [pc EXCEPT ![c] = "drop"]
  /\ UNCHANGED <<owner, counters, frames, flags, iflag, isr>>

ReleaseOwner(c) ==
  /\ pc[c] = "drop"
  /\ owner' = NoOwner
  /\ pc' = [pc EXCEPT ![c] = "count"]
  /\ UNCHANGED <<depth, counters, frames, flags, iflag, isr>>

ReleaseCount(c) ==
  /\ pc[c] = "count"
  /\ releases' = Bump(releases)
  /\ pc' = [pc EXCEPT ![c] = "restore"]
  /\ UNCHANGED <<owner, depth, acquires, unbalanced, frames, flags, iflag, isr>>

(* without_interrupts: sti if the saved flags had IF set; the frame ends.  *)
RestoreFlags(c) ==
  /\ pc[c] = "restore"
  /\ iflag' = [iflag EXCEPT ![c] = @ \/ flags[c][frames[c]]]
  /\ frames' = [frames EXCEPT ![c] = @ - 1]
  /\ pc' = [pc EXCEPT ![c] = "run"]
  /\ UNCHANGED <<owner, depth, counters, flags, isr>>

(* A maskable interrupt is delivered; the gate clears IF.                  *)
Interrupt(c) ==
  /\ iflag[c] /\ isr[c] = NotInIsr
  /\ isr' = [isr EXCEPT ![c] = <<pc[c], frames[c]>>]
  /\ iflag' = [iflag EXCEPT ![c] = FALSE]
  /\ pc' = [pc EXCEPT ![c] = "run"]
  /\ UNCHANGED <<owner, depth, counters, frames, flags>>

(* The handler returns with iretq, which restores IF with the rest.        *)
Iret(c) ==
  /\ isr[c] # NotInIsr
  /\ pc[c] = "run" /\ frames[c] = isr[c][2]
  /\ pc' = [pc EXCEPT ![c] = isr[c][1]]
  /\ iflag' = [iflag EXCEPT ![c] = TRUE]
  /\ isr' = [isr EXCEPT ![c] = NotInIsr]
  /\ UNCHANGED <<owner, depth, counters, frames, flags>>

Acquire(c) == AcquireNested(c) \/ AcquireCas(c) \/ AcquireDone(c)

Release(c) ==
  ReleaseInner(c) \/ ReleaseOuter(c) \/ ReleaseOwner(c) \/ ReleaseCount(c)

Next ==
  \E c \in CPUS :
     \/ EnterSection(c) \/ Acquire(c) \/ LeaveSection(c) \/ Release(c)
     \/ RestoreFlags(c) \/ Interrupt(c) \/ Iret(c)

Spec == Init /\ [][Next]_vars

(***************************************************************************)
(* Fairness: a core that can take its next step inside acquire() or        *)
(* release() takes it (no core stops in ring 0 with the lock half taken),  *)
(* handlers return, and a closure is a finite piece of code, so a core     *)
(* cannot open inner frames for ever and never end an outer one.  Nothing  *)
(* is assumed about who wins the compare_exchange.                         *)
(***************************************************************************)
Fairness ==
  /\ \A c \in CPUS : /\ WF_vars(Acquire(c))
                     /\ WF_vars(Release(c))
                     /\ WF_vars(RestoreFlags(c))
                     /\ SF_vars(Iret(c))
                     /\ \A n \in 1..MaxFrames : SF_vars(LeaveSection(c) /\ frames[c] = n)

FairSpec == Spec /\ Fairness

-----------------------------------------------------------------------------

(***************************************************************************)
(* What makes mutual exclusion inductive: for each position of a core, how *)
(* the depth word, the owner word and the open frames are related, and     *)
(* that interrupts are on only outside every frame and every handler.      *)
(***************************************************************************)
FrameInv(c) ==
  /\ owner = c <=> depth[c] > 0 \/ pc[c] \in {"won", "drop"}
  /\ pc[c] \in {"run", "release"} => depth[c] = frames[c]
  /\ pc[c] = "release" => frames[c] > 0
  /\ pc[c] \in {"acquire", "restore"} => frames[c] > 0 /\ depth[c] = frames[c] - 1
  /\ pc[c] \in {"won", "drop", "count"} => frames[c] = 1 /\ depth[c] = 0

MaskInv(c) ==
  /\ iflag[c] => pc[c] = "run" /\ frames[c] = 0 /\ isr[c] = NotInIsr
  /\ isr[c] # NotInIsr => isr[c] = <<"run", 0>>
  /\ \A n \in 1..frames[c] : flags[c][n] => n = 1 /\ isr[c] = NotInIsr

LockInv == TypeOK /\ unbalanced = 0 /\ \A c \in CPUS : FrameInv(c) /\ MaskInv(c)


Holding(c) == depth[c] > 0

(* Mutual exclusion: at most one core is past acquire() and not yet in     *)
(* release() of its outermost frame, whatever interrupts and nesting do.   *)
MutualExclusion ==
  \A c, d \in CPUS : Holding(c) /\ Holding(d) => c = d

(* Every open frame past acquire() is counted in PER_CPU_DEPTH, so that    *)
(* release() of an inner frame never gives the lock away and release() of  *)
(* the outermost one always does; release() is never unbalanced.           *)
DepthCountsFrames ==
  /\ unbalanced = 0
  /\ \A c \in CPUS : pc[c] \in {"run", "release"} => depth[c] = frames[c]

(* A core that owns the lock word runs with interrupts off: no handler can *)
(* run on top of a half-done acquire() or release() and spin for ever on a *)
(* lock its own core must release.                                         *)
OwnerRunsMasked ==
  \A c \in CPUS : owner = c => ~iflag[c]

(* The cores inside an outermost section that has been counted in and not  *)
(* yet out.                                                                *)
CountedIn == {c \in CPUS : depth[c] > 0 \/ pc[c] \in {"drop", "count"}}

(* TOTAL_ACQUIRES - TOTAL_RELEASES, the health figure diag_snapshot()      *)
(* reports, is exactly the number of outermost sections that are counted   *)
(* in and not yet counted out, also while the counters wrap.               *)
CountersBalance == (acquires - releases) % CounterSpan = Cardinality(CountedIn)

(* Lock progress: while some core spins in acquire(), some core eventually *)
(* gets into its section; the spin loop cannot wait on nobody.             *)
LockProgress ==
  (\E c \in CPUS : pc[c] = "acquire") ~> (\E c \in CPUS : pc[c] = "run" /\ depth[c] > 0)

(* The lock implements the critical section its callers rely on.           *)
CS == INSTANCE CriticalSection WITH inside <- {c \in CPUS : Holding(c)}
ImplementsCriticalSection == CS!Spec
=============================================================================
