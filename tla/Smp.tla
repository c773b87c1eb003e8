--------------------------------- MODULE Smp --------------------------------
(***************************************************************************)
(* The other cores: bring_up_all and ap_entry, which hand every            *)
(* application processor (AP) its index and its stack through one shared   *)
(* trampoline page, and the TLB shootdown, which counts acknowledgements   *)
(* in one shared word (smp.rs, smp_trampoline.s, vmm.rs).                  *)
(*                                                                         *)
(* Both waits are bounded by a spin count and go on when it runs out, so a *)
(* timeout may come at any moment of a wait; a core that was given up on   *)
(* may still arrive later.  The boot core (BSP) is the only caller of      *)
(* unmap_page_shootdown, once the bring-up is over.                        *)
(***************************************************************************)
EXTENDS Naturals, FiniteSets

CONSTANTS NumAPs,        \* entries of the MADT other than the BSP's
          MaxCpus,       \* MAX_CPUS
          SharedPages,         \* virtual pages of the kernel's address space
          MaxShootdowns  \* bound: calls of shootdown_tlb

ASSUME SmpConstants ==
  NumAPs \in Nat /\ MaxCpus \in Nat \ {0} /\ MaxShootdowns \in Nat /\ "none" \notin SharedPages

APs   == 1..NumAPs        \* an AP's place in the MADT; its APIC id
Cores == 0..NumAPs        \* 0 is the BSP
Nobody == NumAPs + 1
NoPage == "none"

VARIABLES
  enabled,    \* the APs the MADT reports enabled
  turn,       \* the AP the loop of bring_up_all is at; NumAPs + 1: it is over
  waiting,    \* the loop waits for that AP's heartbeat
  nextIndex,  \* next_index
  page,       \* the trampoline page: cpu index and stack
  apReady,    \* AP_READY: whose heartbeat it holds
  apState,    \* "off", "sipi", "stacked", "indexed", "registered", "ready", "online"
  stack,      \* the stack an AP runs on, named by the AP it was allocated for
  index,      \* the index an AP took
  registry,   \* APIC_ID_TO_INDEX
  gaveUp      \* history: the APs the loop gave up on

bringVars == <<enabled, turn, waiting, nextIndex, page, apReady, apState, stack, index, registry, gaveUp>>

VARIABLES
  mapped,     \* pages mapped now
  tlb,        \* translations each core has cached
  pendingVaddr, acks,   \* TLB_SHOOTDOWN_PENDING_VADDR, _ACKS
  targets,    \* target_count of the call that waits, 0 = none waits
  irr,        \* cores with the shootdown vector pending
  handling,   \* the address a core's handler has loaded
  result,     \* of the last call: <<"pass" | "timeout", page>>
  calls, timedOut       \* history: calls made, some call timed out
shootVars == <<mapped, tlb, pendingVaddr, acks, targets, irr, handling, result, calls, timedOut>>

smpVars == <<bringVars, shootVars>>

SmpInit ==
  /\ enabled \in SUBSET APs /\ turn = 1 /\ waiting = FALSE /\ nextIndex = 1
  /\ page = [index |-> 0, stack |-> 0] /\ apReady = 0
  /\ apState = [a \in APs |-> "off"]
  /\ stack = [a \in APs |-> 0] /\ index = [a \in APs |-> 0]
  /\ registry = [i \in Cores |-> IF i = 0 THEN 0 ELSE Nobody]
  /\ gaveUp = {}
  /\ mapped = SharedPages /\ tlb = [c \in Cores |-> {}]
  /\ pendingVaddr = NoPage /\ acks = 0 /\ targets = 0
  /\ irr = {} /\ handling = [c \in Cores |-> NoPage]
  /\ result = <<"none", NoPage>> /\ calls = 0 /\ timedOut = FALSE
-----------------------------------------------------------------------------
Startable == turn \in enabled /\ nextIndex < MaxCpus

(* An entry that is disabled, or one too many, takes no index.             *)
SkipAp ==
  /\ turn \in APs /\ ~waiting /\ ~Startable
  /\ turn' = turn + 1
  /\ UNCHANGED <<enabled, waiting, nextIndex, page, apReady, apState, stack, index, registry, gaveUp, shootVars>>

(* bring_up_all, per AP: the page gets the next index and a new stack,     *)
(* AP_READY is cleared, INIT and two SIPIs go out (the second finds the AP *)
(* started and is ignored).                                                *)
StartAp ==
  /\ turn \in APs /\ ~waiting /\ Startable
  /\ page' = [index |-> nextIndex, stack |-> turn]
  /\ nextIndex' = nextIndex + 1
  /\ apReady' = 0
  /\ apState' = [apState EXCEPT ![turn] = "sipi"]
  /\ waiting' = TRUE
  /\ UNCHANGED <<enabled, turn, stack, index, registry, gaveUp, shootVars>>

ApIsReady == waiting /\ apReady = turn

ApOnline ==
  /\ ApIsReady
  /\ turn' = turn + 1 /\ waiting' = FALSE
  /\ UNCHANGED <<enabled, nextIndex, page, apReady, apState, stack, index, registry, gaveUp, shootVars>>

(* "no heartbeat within the bounded wait -- moving on".                    *)
ApTimeout ==
  /\ waiting /\ ~ApIsReady
  /\ turn' = turn + 1 /\ waiting' = FALSE
  /\ gaveUp' = gaveUp \cup {turn}
  /\ UNCHANGED <<enabled, nextIndex, page, apReady, apState, stack, index, registry, shootVars>>

\* The heartbeat before the AP has taken its index.
ApStack_EarlyHeartbeat(a) ==
  /\ apState[a] = "sipi"
  /\ stack' = [stack EXCEPT ![a] = page.stack]
  /\ apReady' = a
  /\ apState' = [apState EXCEPT ![a] = "stacked"]
  /\ UNCHANGED <<enabled, turn, waiting, nextIndex, page, index, registry, gaveUp, shootVars>>

(* The trampoline: real mode to long mode, then the stack of the page.     *)
ApStack(a) ==
  /\ apState[a] = "sipi"
  /\ stack' = [stack EXCEPT ![a] = page.stack]
  /\ apState' = [apState EXCEPT ![a] = "stacked"]
  /\ UNCHANGED <<enabled, turn, waiting, nextIndex, page, apReady, index, registry, gaveUp, shootVars>>

(* ap_entry: the index of the page, register_cpu, this core's GDT and IDT. *)
ApIndex(a) ==
  /\ apState[a] = "stacked"
  /\ index' = [index EXCEPT ![a] = page.index]
  /\ apState' = [apState EXCEPT ![a] = "indexed"]
  /\ UNCHANGED <<enabled, turn, waiting, nextIndex, page, apReady, stack, registry, gaveUp, shootVars>>

ApRegister(a) ==
  /\ apState[a] = "indexed"
  /\ registry' = [registry EXCEPT ![index[a]] = a]
  /\ apState' = [apState EXCEPT ![a] = "registered"]
  /\ UNCHANGED <<enabled, turn, waiting, nextIndex, page, apReady, stack, index, gaveUp, shootVars>>

ApHeartbeat(a) ==
  /\ apState[a] = "registered"
  /\ apReady' = a
  /\ apState' = [apState EXCEPT ![a] = "ready"]
  /\ UNCHANGED <<enabled, turn, waiting, nextIndex, page, stack, index, registry, gaveUp, shootVars>>

(* The idle thread, the timer, syscall::init, and sti at last: an IPI sent *)
(* since the registration was pending until now.                           *)
ApIdle(a) ==
  /\ apState[a] = "ready"
  /\ apState' = [apState EXCEPT ![a] = "online"]
  /\ UNCHANGED <<enabled, turn, waiting, nextIndex, page, apReady, stack, index, registry, gaveUp, shootVars>>
-----------------------------------------------------------------------------
(* A core that runs uses a mapped page of the kernel.                      *)
Touch(c, v) ==
  /\ c \in APs => apState[c] \in {"ready", "online"}
  /\ v \in mapped /\ v \notin tlb[c]
  /\ tlb' = [tlb EXCEPT ![c] = @ \cup {v}]
  /\ UNCHANGED <<bringVars, mapped, pendingVaddr, acks, targets, irr, handling, result, calls, timedOut>>

Registered == {registry[i] : i \in Cores} \ {0, Nobody}

\* shootdown_tlb that goes on counting from the previous call.
ClearedAcks_Kept == acks
ClearedAcks == 0

(* unmap_page_shootdown up to the wait: the entry and the local TLB, the   *)
(* request, and an IPI to every registered core but this one.  The vector  *)
(* is one bit in each target: a second request merges with a pending one.  *)
Unmap(v) ==
  /\ turn = NumAPs + 1 /\ targets = 0 /\ calls < MaxShootdowns
  /\ v \in mapped
  /\ mapped' = mapped \ {v}
  /\ tlb' = [tlb EXCEPT ![0] = @ \ {v}]
  /\ pendingVaddr' = v /\ acks' = ClearedAcks
  /\ irr' = irr \cup Registered
  /\ targets' = Cardinality(Registered)
  /\ calls' = calls + 1
  /\ result' = IF Registered = {} THEN <<"pass", v>> ELSE <<"none", NoPage>>
  /\ UNCHANGED <<bringVars, handling, timedOut>>

ShootdownPass ==
  /\ targets > 0 /\ acks >= targets
  /\ result' = <<"pass", pendingVaddr>> /\ targets' = 0
  /\ UNCHANGED <<bringVars, mapped, tlb, pendingVaddr, acks, irr, handling, calls, timedOut>>

ShootdownTimeout ==
  /\ targets > 0 /\ acks < targets
  /\ result' = <<"timeout", pendingVaddr>> /\ targets' = 0 /\ timedOut' = TRUE
  /\ UNCHANGED <<bringVars, mapped, tlb, pendingVaddr, acks, irr, handling, calls>>

(* handle_tlb_shootdown_ipi, on a core with interrupts on.                 *)
TakeIpi(c) ==
  /\ apState[c] = "online" /\ c \in irr /\ handling[c] = NoPage
  /\ irr' = irr \ {c}
  /\ handling' = [handling EXCEPT ![c] = pendingVaddr]
  /\ UNCHANGED <<bringVars, mapped, tlb, pendingVaddr, acks, targets, result, calls, timedOut>>

Invlpg(c) ==
  /\ handling[c] # NoPage
  /\ tlb' = [tlb EXCEPT ![c] = @ \ {handling[c]}]
  /\ acks' = acks + 1
  /\ handling' = [handling EXCEPT ![c] = NoPage]
  /\ UNCHANGED <<bringVars, mapped, pendingVaddr, targets, irr, result, calls, timedOut>>

SmpNext ==
  \/ SkipAp \/ StartAp \/ ApOnline \/ ApTimeout
  \/ \E a \in APs : ApStack(a) \/ ApIndex(a) \/ ApRegister(a) \/ ApHeartbeat(a)
                      \/ ApIdle(a) \/ TakeIpi(a) \/ Invlpg(a)
  \/ \E c \in Cores, v \in SharedPages : Touch(c, v)
  \/ \E v \in SharedPages : Unmap(v)
  \/ ShootdownPass \/ ShootdownTimeout

SmpSpec == SmpInit /\ [][SmpNext]_smpVars
-----------------------------------------------------------------------------
HasStack(a) == apState[a] \notin {"off", "sipi"}
HasIndex(a) == apState[a] \in {"indexed", "registered", "ready", "online"}

\* Every core that came up has a stack and a per-core index (GDT, TSS, run queue,
\* system-call scratch) of its own and is found under it, unless bring_up_all gave
\* up on some core: it is the timeout, and only the timeout, that lets two cores
\* read one version of the trampoline page.
IdentityUniqueUnlessGivenUp ==
  gaveUp = {} =>
    /\ \A a, b \in APs : a # b => (HasStack(a) /\ HasStack(b) => stack[a] # stack[b])
                               /\ (HasIndex(a) /\ HasIndex(b) => index[a] # index[b])
    /\ \A a \in APs : apState[a] \in {"registered", "ready", "online"} => registry[index[a]] = a

\* A shootdown that reports PASS has removed the page from the TLB of every core,
\* if no earlier call timed out (a late acknowledgement of that call would count
\* for this one) and no core was given up on.
PassMeansFlushed ==
  gaveUp = {} /\ ~timedOut /\ result[1] = "pass" =>
    \A c \in Cores : result[2] \notin tlb[c]
=============================================================================
