------------------------------ MODULE SmpProofs ------------------------------
(***************************************************************************)
(* Processor start-up and TLB shootdown for any number of processors and   *)
(* pages: as long as no bounded wait has run out, every processor has its  *)
(* own identity and a shootdown that reports PASS has flushed every TLB.   *)
(*                                                                         *)
(* And what the boot processor holds of the thread it runs (Ring3), for    *)
(* any number of threads: a process in ring 3 has its own stacks, ports    *)
(* and address space wherever the timer struck.                            *)
(*                                                                         *)
(* And the loader that brought the kernel up, for every memory map, kernel *)
(* image and sequence of firmware events.                                  *)
(***************************************************************************)
EXTENDS Smp, Ring3, BootLoader, FiniteSetTheorems, TLAPS

BringTypeOK ==
  /\ turn \in 1..(NumAPs + 1) /\ (waiting => turn \in APs) /\ nextIndex \in Nat \ {0}
  /\ page \in [index : Nat, stack : Nat]
  /\ apState \in [APs -> {"off", "sipi", "stacked", "indexed", "registered", "ready", "online"}]
  /\ stack \in [APs -> Nat] /\ index \in [APs -> Nat]
  /\ registry \in [Cores -> 0..(NumAPs + 1)]

(* The loop is at the processor it waits for: those before it are up or    *)
(* were skipped, those after it are off, and the page is this one's.       *)
InTurn ==
  /\ \A a \in APs : /\ a < turn => apState[a] \in {"off", "ready", "online"}
                    /\ a > turn => apState[a] = "off"
                    /\ a = turn => (apState[a] # "off" <=> waiting)
  /\ waiting => /\ turn \in APs /\ page.stack = turn /\ page.index = nextIndex - 1
                /\ nextIndex <= turn + 1 /\ nextIndex >= 2
                /\ apReady = turn => apState[turn] \in {"ready", "online"}
  /\ ~waiting => nextIndex <= turn

(* Stacks and indices already taken.                                       *)
OwnIdentity ==
  /\ \A a \in APs : HasStack(a) => stack[a] = a
  /\ \A a \in APs : HasIndex(a) => /\ index[a] \in 1..(nextIndex - 1)
                                   /\ a = turn => index[a] = nextIndex - 1
                                   /\ a # turn /\ waiting => index[a] # nextIndex - 1
  /\ \A a, b \in APs : a # b /\ HasIndex(a) /\ HasIndex(b) => index[a] # index[b]
  /\ \A a \in APs : apState[a] \in {"registered", "ready", "online"} => registry[index[a]] = a

BringInv == BringTypeOK /\ (gaveUp = {} => InTurn /\ OwnIdentity)

Handlers == {c \in Cores : handling[c] # NoPage}
Pending == irr \cup Handlers
Clean == gaveUp = {} /\ ~timedOut

(* While a call waits, the acknowledgements it counts are those of the     *)
(* targets that have nothing left to do, and all of these have flushed.    *)
Counted ==
  /\ targets = Cardinality(Registered) /\ Pending \subseteq Registered /\ irr \cap Handlers = {}
  /\ acks = Cardinality(Registered \ Pending)
  /\ \A c \in Handlers : handling[c] = pendingVaddr
  /\ pendingVaddr \in SharedPages \ mapped
  /\ \A c \in Cores \ Pending : pendingVaddr \notin tlb[c]
  /\ result[1] # "pass"

ShootTypeOK ==
  /\ mapped \subseteq SharedPages /\ tlb \in [Cores -> SUBSET SharedPages]
  /\ targets \in Nat /\ acks \in Nat
  /\ handling \in [Cores -> SharedPages \cup {NoPage}]
  /\ pendingVaddr \in SharedPages \cup {NoPage}

ShootInv ==
  /\ ShootTypeOK
  /\ Clean =>
       /\ turn # NumAPs + 1 => targets = 0 /\ result[1] # "pass"
       /\ targets = 0 => Pending = {}
       /\ targets # 0 => Counted
       /\ result[1] = "pass" => result[2] \notin mapped /\ \A c \in Cores : result[2] \notin tlb[c]
       /\ \A a \in APs : apState[a] \notin {"ready", "online"} => tlb[a] = {}

SmpInv == BringInv /\ ShootInv
-----------------------------------------------------------------------------
(* The table of the threads, by name.                                      *)
LEMMA ScriptNames ==
  DOMAIN Script = {"serial", "framebuffer", "keyboard", "mouse", "virtio_blk",
                   "virtio_net", "xhci", "ahci", "nvme", "e1000", "netstack",
                   "compositor", "clientA", "clientB"}
                  \cup
                  {"init", "fault", "ring3", "shell", "gateway", "agent", "stranger",
                   "violator", "installer", "terminal", "editor",
                   "sample", "files", "netclient"}
  BY SMTT(40) DEF Script

LEMMA ScriptServes ==
    /\ Script["serial"] = serial_driver_thread /\ Script["framebuffer"] = fb_driver_thread
    /\ Script["keyboard"] = keyboard_driver_thread /\ Script["mouse"] = mouse_driver_thread
    /\ Script["virtio_blk"] = virtio_blk_driver_thread /\ Script["virtio_net"] = virtio_net_driver_thread
    /\ Script["xhci"] = xhci_driver_thread /\ Script["ahci"] = ahci_driver_thread
    /\ Script["nvme"] = nvme_driver_thread /\ Script["e1000"] = e1000_driver_thread
    /\ Script["netstack"] = netstack_driver_thread /\ Script["compositor"] = compositor_driver_thread
    /\ Script["clientA"] = spawn_window_client("A") /\ Script["clientB"] = spawn_window_client("B")
  BY SMTT(40) DEF Script

LEMMA ScriptRuns ==
    /\ Script["init"] = init_thread /\ Script["fault"] = fault_demo_thread
    /\ Script["ring3"] = demo_ring3_thread /\ Script["shell"] = shell_thread
    /\ Script["gateway"] = agent_gateway_thread /\ Script["agent"] = run_agent_demo
    /\ Script["stranger"] = run_agent_demo /\ Script["violator"] = run_agent_demo
    /\ Script["installer"] = installer_demo_thread /\ Script["terminal"] = spawn_terminal_inner
    /\ Script["editor"] = spawn_text_editor_inner /\ Script["sample"] = sample_app_thread
    /\ Script["files"] = spawn_file_manager_inner /\ Script["netclient"] = spawn_net_client_inner
  BY SMTT(40) DEF Script

(* What comes before a place.                                              *)
LEMMA UpTo == \A n \in Nat : n + 1 >= n /\ \A j \in 1 .. n : j < n + 1
  OBVIOUS

LEMMA SmpInitOK == SmpInit => SmpInv
  <1> SUFFICES ASSUME SmpInit PROVE SmpInv
    BY Zenon
  <1> USE SmpConstants DEF SmpInit, APs, Cores
  <1>1. BringTypeOK
    BY DEF BringTypeOK, Nobody
  <1>2. InTurn /\ OwnIdentity
    BY DEF InTurn, OwnIdentity, HasStack, HasIndex
  <1>3. ShootTypeOK
    BY Zenon DEF ShootTypeOK
  <1>4. Pending = {} /\ targets = 0 /\ result[1] # "pass" /\ \A a \in APs : tlb[a] = {}
    BY DEF Pending, Handlers
  <1> QED BY Zenon, <1>1, <1>2, <1>3, <1>4 DEF SmpInv, BringInv, ShootInv

LEMMA BringStays == ASSUME BringInv, UNCHANGED bringVars PROVE BringInv'
  BY Zenon DEF bringVars, BringInv, BringTypeOK, InTurn, OwnIdentity, HasStack, HasIndex

(* The steps of the loop.                                                  *)
LEMMA LoopStep ==
  ASSUME BringInv, SkipAp \/ StartAp \/ ApOnline \/ ApTimeout PROVE BringInv'
  <1>1. BringTypeOK /\ (gaveUp = {} => InTurn /\ OwnIdentity)
    BY Zenon DEF BringInv
  <1>2. ASSUME SkipAp PROVE BringInv'
    <2>1. BringTypeOK'
      BY <1>1, <1>2, SmpConstants DEF SkipAp, BringTypeOK, APs
    <2>2. ASSUME gaveUp' = {} PROVE InTurn' /\ OwnIdentity'
      <3>1. InTurn /\ OwnIdentity
        BY Zenon, <1>1, <1>2, <2>2 DEF SkipAp
      <3>2. InTurn'
        BY <1>1, <1>2, <3>1 DEF SkipAp, BringTypeOK, InTurn, APs
      <3>3. OwnIdentity'
        BY <1>1, <1>2, <3>1 DEF SkipAp, BringTypeOK, InTurn, OwnIdentity, HasStack, HasIndex, APs
      <3> QED BY Zenon, <3>2, <3>3
    <2> QED BY Zenon, <2>1, <2>2 DEF BringInv
  <1>3. ASSUME StartAp PROVE BringInv'
    <2>1. BringTypeOK'
      BY <1>1, <1>3, SmpConstants DEF StartAp, BringTypeOK, APs
    <2>2. ASSUME gaveUp' = {} PROVE InTurn' /\ OwnIdentity'
      <3>1. InTurn /\ OwnIdentity
        BY Zenon, <1>1, <1>3, <2>2 DEF StartAp
      <3>2. page'.index = nextIndex /\ page'.stack = turn
        BY Zenon, <1>3 DEF StartAp
      <3>3. \A a \in APs : a # turn => apState'[a] = apState[a]
        BY Zenon, <1>1, <1>3 DEF StartAp, BringTypeOK
      <3>4. apState'[turn] = "sipi" /\ turn' = turn /\ waiting' /\ ~waiting /\ nextIndex' = nextIndex + 1
            /\ apReady' = 0 /\ turn \in APs /\ UNCHANGED <<stack, index, registry>>
        BY Zenon, <1>1, <1>3 DEF StartAp, BringTypeOK
      <3>5. InTurn'
        BY <1>1, <3>1, <3>2, <3>3, <3>4 DEF BringTypeOK, InTurn, APs
      <3>6. \A a \in APs : /\ HasStack(a)' => HasStack(a) /\ a # turn
                           /\ HasIndex(a)' => HasIndex(a) /\ a # turn
        BY Zenon, <3>3, <3>4 DEF HasStack, HasIndex
      <3>7. OwnIdentity'
        <4>1. \A a \in APs : HasIndex(a)' => /\ index[a] \in 1..(nextIndex' - 1)
                                             /\ a # turn /\ index[a] # nextIndex' - 1
          BY <1>1, <3>1, <3>4, <3>6 DEF OwnIdentity, BringTypeOK
        <4>2. \A a \in APs : apState'[a] \in {"registered", "ready", "online"} => registry[index[a]] = a
          BY Zenon, <3>1, <3>3, <3>4 DEF OwnIdentity
        <4> QED BY Zenon, <3>1, <3>4, <3>6, <4>1, <4>2 DEF OwnIdentity
      <3> QED BY Zenon, <3>5, <3>7
    <2> QED BY Zenon, <2>1, <2>2 DEF BringInv
  <1>4. ASSUME ApOnline PROVE BringInv'
    <2>1. BringTypeOK'
      BY <1>1, <1>4, SmpConstants DEF ApOnline, ApIsReady, BringTypeOK, APs
    <2>2. ASSUME gaveUp' = {} PROVE InTurn' /\ OwnIdentity'
      <3>1. InTurn /\ OwnIdentity /\ waiting /\ apReady = turn
        BY Zenon, <1>1, <1>4, <2>2 DEF ApOnline, ApIsReady
      <3>2. InTurn'
        BY <1>1, <1>4, <3>1 DEF ApOnline, BringTypeOK, InTurn, APs
      <3>3. OwnIdentity'
        BY <1>1, <1>4, <3>1 DEF ApOnline, BringTypeOK, InTurn, OwnIdentity, HasStack, HasIndex, APs
      <3> QED BY Zenon, <3>2, <3>3
    <2> QED BY Zenon, <2>1, <2>2 DEF BringInv
  <1>5. ASSUME ApTimeout PROVE BringInv'
    <2>1. gaveUp' # {}
      BY Zenon, <1>5 DEF ApTimeout
    <2>2. BringTypeOK'
      BY <1>1, <1>5, SmpConstants DEF ApTimeout, BringTypeOK, APs
    <2> QED BY Zenon, <2>1, <2>2 DEF BringInv
  <1> QED BY Zenon, <1>2, <1>3, <1>4, <1>5

(* The steps of a processor that comes up.  While none was given up on,    *)
(* the one that is on its way is the one the loop waits for.               *)
LEMMA ApStep ==
  ASSUME BringInv, NEW a \in APs,
         ApStack(a) \/ ApIndex(a) \/ ApRegister(a) \/ ApHeartbeat(a) \/ ApIdle(a)
  PROVE  BringInv'
  <1>1. BringTypeOK /\ (gaveUp = {} => InTurn /\ OwnIdentity) /\ gaveUp' = gaveUp
        /\ UNCHANGED <<turn, waiting, nextIndex, page>>
    BY Zenon DEF BringInv, ApStack, ApIndex, ApRegister, ApHeartbeat, ApIdle
  <1>2. BringTypeOK'
    <2>1. CASE ApStack(a) \/ ApIndex(a)
      BY Zenon, <1>1, <2>1 DEF BringTypeOK, ApStack, ApIndex
    <2>2. CASE ApRegister(a)
      <3>1. a \in 0..(NumAPs + 1)
        BY SmpConstants DEF APs
      <3>2. registry' \in [Cores -> 0..(NumAPs + 1)]
        BY Zenon, <1>1, <2>2, <3>1 DEF BringTypeOK, ApRegister
      <3>3. apState' \in [APs -> {"off", "sipi", "stacked", "indexed", "registered", "ready", "online"}]
        BY Zenon, <1>1, <2>2 DEF BringTypeOK, ApRegister
      <3>4. UNCHANGED <<stack, index>>
        BY Zenon, <2>2 DEF ApRegister
      <3> QED BY Zenon, <1>1, <3>2, <3>3, <3>4 DEF BringTypeOK
    <2>3. CASE ApHeartbeat(a) \/ ApIdle(a)
      BY Zenon, <1>1, <2>3 DEF BringTypeOK, ApHeartbeat, ApIdle
    <2> QED BY Zenon, <2>1, <2>2, <2>3
  <1>3. ASSUME gaveUp = {} PROVE InTurn' /\ OwnIdentity'
    <2>1. InTurn /\ OwnIdentity
      BY Zenon, <1>1, <1>3
    <2>2. \A b \in APs : b # a => apState'[b] = apState[b]
      BY Zenon, <1>1 DEF BringTypeOK, ApStack, ApIndex, ApRegister, ApHeartbeat, ApIdle
    <2>3. \A b \in APs : b # a => (HasStack(b)' <=> HasStack(b)) /\ (HasIndex(b)' <=> HasIndex(b))
      BY Zenon, <2>2 DEF HasStack, HasIndex
    <2>4. apState[a] \in {"sipi", "stacked", "indexed", "registered"} => a = turn /\ waiting
      BY <1>1, <2>1 DEF InTurn, BringTypeOK, APs
    <2>5. CASE ApStack(a)
      <3>1. /\ apState[a] = "sipi" /\ apState'[a] = "stacked" /\ a = turn /\ waiting
            /\ stack'[a] = page.stack /\ UNCHANGED <<apReady, index, registry>>
            /\ \A b \in APs : b # a => stack'[b] = stack[b]
        BY Zenon, <1>1, <2>4, <2>5 DEF ApStack, BringTypeOK
      <3>2. InTurn'
        BY Zenon, <1>1, <2>1, <2>2, <3>1 DEF InTurn
      <3>3. OwnIdentity'
        <4>1. stack'[a] = a /\ ~HasIndex(a)'
          BY Zenon, <2>1, <3>1 DEF InTurn, HasIndex
        <4> QED BY Zenon, <1>1, <2>1, <2>2, <2>3, <3>1, <4>1 DEF OwnIdentity
      <3> QED BY Zenon, <3>2, <3>3
    <2>6. CASE ApIndex(a)
      <3>1. /\ apState[a] = "stacked" /\ apState'[a] = "indexed" /\ a = turn /\ waiting
            /\ index'[a] = page.index /\ UNCHANGED <<apReady, stack, registry>>
            /\ \A b \in APs : b # a => index'[b] = index[b]
        BY Zenon, <1>1, <2>4, <2>6 DEF ApIndex, BringTypeOK
      <3>2. InTurn'
        BY Zenon, <1>1, <2>1, <2>2, <3>1 DEF InTurn
      <3>3. OwnIdentity'
        <4>1. /\ index'[a] = nextIndex - 1 /\ index'[a] \in 1..(nextIndex - 1) /\ HasStack(a)
              /\ \A b \in APs : b # a /\ HasIndex(b) => index[b] # nextIndex - 1
          BY <1>1, <2>1, <3>1 DEF InTurn, OwnIdentity, BringTypeOK, HasStack
        <4> QED BY <1>1, <2>1, <2>2, <2>3, <3>1, <4>1 DEF OwnIdentity
      <3> QED BY Zenon, <3>2, <3>3
    <2>7. CASE ApRegister(a)
      <3>1. /\ apState[a] = "indexed" /\ apState'[a] = "registered" /\ a = turn /\ waiting
            /\ registry' = [registry EXCEPT ![index[a]] = a] /\ UNCHANGED <<apReady, stack, index>>
        BY Zenon, <1>1, <2>4, <2>7 DEF ApRegister, BringTypeOK
      <3>2. InTurn'
        BY Zenon, <1>1, <2>1, <2>2, <3>1 DEF InTurn
      <3>3. HasIndex(a) /\ HasStack(a) /\ HasIndex(a)'
        BY Zenon, <3>1 DEF HasIndex, HasStack
      <3>4. index[a] \in Cores
        BY <1>1, <2>1, <3>1, <3>3, SmpConstants DEF OwnIdentity, InTurn, BringTypeOK, Cores, APs
      <3>5. registry'[index[a]] = a
        BY Zenon, <1>1, <3>1, <3>4 DEF BringTypeOK
      <3>6. \A b \in APs : b # a /\ apState[b] \in {"registered", "ready", "online"} =>
               registry'[index[b]] = registry[index[b]]
        <4>1. \A b \in APs : b # a /\ apState[b] \in {"registered", "ready", "online"} => index[b] # index[a]
          BY Zenon, <2>1, <3>3 DEF OwnIdentity, HasIndex
        <4>2. \A b \in APs : apState[b] \in {"registered", "ready", "online"} => index[b] \in Cores
          BY SMTT(40), <1>1, <2>1, <3>1, SmpConstants DEF OwnIdentity, InTurn, HasIndex, BringTypeOK, Cores, APs
        <4> QED BY Zenon, <1>1, <3>1, <4>1, <4>2 DEF BringTypeOK
      <3>7. OwnIdentity'
        <4>1. /\ \A b \in APs : (HasStack(b)' <=> HasStack(b)) /\ (HasIndex(b)' <=> HasIndex(b))
              /\ UNCHANGED <<stack, index, turn, waiting, nextIndex>>
          BY Zenon, <1>1, <2>3, <3>1, <3>3 DEF HasStack
        <4>2. ASSUME NEW b \in APs, apState'[b] \in {"registered", "ready", "online"} PROVE registry'[index[b]] = b
          <5>1. b # a => registry'[index[b]] = registry[index[b]] /\ registry[index[b]] = b
            BY Zenon, <2>1, <2>2, <3>6, <4>2 DEF OwnIdentity
          <5> QED BY Zenon, <3>5, <5>1
        <4>3. \A b \in APs : HasStack(b)' => stack'[b] = b
          BY Zenon, <2>1, <4>1 DEF OwnIdentity
        <4>4. \A b \in APs : HasIndex(b)' => /\ index'[b] \in 1..(nextIndex' - 1)
                                             /\ b = turn' => index'[b] = nextIndex' - 1
                                             /\ b # turn' /\ waiting' => index'[b] # nextIndex' - 1
          BY Zenon, <2>1, <4>1 DEF OwnIdentity
        <4>5. \A b, d \in APs : b # d /\ HasIndex(b)' /\ HasIndex(d)' => index'[b] # index'[d]
          BY Zenon, <2>1, <4>1 DEF OwnIdentity
        <4> QED BY Zenon, <4>1, <4>2, <4>3, <4>4, <4>5 DEF OwnIdentity
      <3> QED BY Zenon, <3>2, <3>7
    <2>8. CASE ApHeartbeat(a) \/ ApIdle(a)
      <3>1. /\ apState[a] \in {"registered", "ready"} /\ apState'[a] \in {"ready", "online"}
            /\ UNCHANGED <<stack, index, registry>> /\ apReady' \in {apReady, a}
            /\ apState[a] = "registered" => a = turn /\ waiting
        BY Zenon, <1>1, <2>4, <2>8 DEF ApHeartbeat, ApIdle, BringTypeOK
      <3>2. (HasStack(a)' <=> HasStack(a)) /\ (HasIndex(a)' <=> HasIndex(a))
        BY Zenon, <3>1 DEF HasStack, HasIndex
      <3>3. InTurn'
        BY Zenon, <1>1, <2>1, <2>2, <3>1 DEF InTurn, BringTypeOK, APs
      <3>4. OwnIdentity'
        BY <1>1, <2>1, <2>2, <2>3, <3>1, <3>2 DEF OwnIdentity
      <3> QED BY Zenon, <3>3, <3>4
    <2> QED BY Zenon, <2>5, <2>6, <2>7, <2>8
  <1> QED BY Zenon, <1>1, <1>2, <1>3 DEF BringInv

LEMMA BringNext == BringInv /\ [SmpNext]_smpVars => BringInv'
  <1> SUFFICES ASSUME BringInv, [SmpNext]_smpVars PROVE BringInv'
    BY Zenon
  <1>1. ASSUME UNCHANGED bringVars PROVE BringInv'
    BY Zenon, <1>1, BringStays
  <1>2. ASSUME UNCHANGED smpVars PROVE BringInv'
    BY Zenon, <1>1, <1>2 DEF smpVars
  <1>3. ASSUME NEW a \in APs, TakeIpi(a) \/ Invlpg(a) PROVE BringInv'
    BY Zenon, <1>1, <1>3 DEF TakeIpi, Invlpg
  <1>4. ASSUME NEW c \in Cores, NEW v \in SharedPages, Touch(c, v) \/ Unmap(v) PROVE BringInv'
    BY Zenon, <1>1, <1>4 DEF Touch, Unmap
  <1>5. ASSUME ShootdownPass \/ ShootdownTimeout PROVE BringInv'
    BY Zenon, <1>1, <1>5 DEF ShootdownPass, ShootdownTimeout
  <1>6. ASSUME NEW v \in SharedPages, Unmap(v) PROVE BringInv'
    BY Zenon, <1>1, <1>6 DEF Unmap
  <1> QED BY Zenon, <1>2, <1>3, <1>4, <1>5, <1>6, LoopStep, ApStep DEF SmpNext

LEMMA IdentityFromInv == BringInv => IdentityUniqueUnlessGivenUp
  <1> SUFFICES ASSUME BringInv, gaveUp = {} PROVE IdentityUniqueUnlessGivenUp
    BY Zenon DEF IdentityUniqueUnlessGivenUp
  <1> QED BY Zenon DEF BringInv, OwnIdentity, IdentityUniqueUnlessGivenUp
-----------------------------------------------------------------------------
LEMMA RegisteredFacts ==
  ASSUME BringInv
  PROVE  /\ Registered \subseteq APs /\ IsFiniteSet(Registered) /\ Cardinality(Registered) \in Nat
         /\ gaveUp = {} => \A a \in APs : apState[a] \in {"ready", "online"} => a \in Registered
  <1>1. Registered \subseteq APs
    BY SmpConstants DEF BringInv, BringTypeOK, Registered, APs, Nobody
  <1>2. IsFiniteSet(APs)
    BY SmpConstants, FS_Interval DEF APs
  <1>3. IsFiniteSet(Registered) /\ Cardinality(Registered) \in Nat
    BY Zenon, <1>1, <1>2, FS_Subset, FS_CardinalityType
  <1>4. ASSUME gaveUp = {}, NEW a \in APs, apState[a] \in {"ready", "online"} PROVE a \in Registered
    <2>1. BringTypeOK /\ InTurn /\ OwnIdentity /\ HasIndex(a)
      BY Zenon, <1>4 DEF BringInv, HasIndex
    <2>2. index[a] \in Cores
      BY <2>1, SmpConstants DEF BringTypeOK, InTurn, OwnIdentity, Cores, APs
    <2>3. registry[index[a]] = a /\ a # 0 /\ a # Nobody
      BY <1>4, <2>1, SmpConstants DEF OwnIdentity, APs, Nobody
    <2> QED BY Zenon, <2>2, <2>3 DEF Registered
  <1> QED BY Zenon, <1>1, <1>3, <1>4

(* Bringing processors up: it is over before the first shootdown.          *)
LEMMA ShootStays ==
  ASSUME SmpInv,
         \/ SkipAp \/ StartAp \/ ApOnline \/ ApTimeout \/ UNCHANGED smpVars
         \/ \E a \in APs : ApStack(a) \/ ApIndex(a) \/ ApRegister(a) \/ ApHeartbeat(a) \/ ApIdle(a)
  PROVE  ShootInv'
  <1>1. UNCHANGED <<mapped, tlb, pendingVaddr, acks, targets, irr, handling, result, calls, timedOut>>
    BY Zenon DEF smpVars, shootVars, SkipAp, StartAp, ApOnline, ApTimeout, ApStack, ApIndex, ApRegister,
           ApHeartbeat, ApIdle
  <1>2. ShootTypeOK' /\ Pending' = Pending /\ Handlers' = Handlers
    BY Zenon, <1>1 DEF SmpInv, ShootInv, ShootTypeOK, Pending, Handlers
  <1>3. BringTypeOK
    BY Zenon DEF SmpInv, BringInv
  <1>4. turn = NumAPs + 1 => turn' = turn
    BY SMTT(40), <1>3, SmpConstants DEF BringTypeOK, APs, smpVars, bringVars, SkipAp, StartAp, ApOnline, ApIsReady, ApTimeout,
           ApStack, ApIndex, ApRegister, ApHeartbeat, ApIdle
  <1>5. gaveUp' = {} => gaveUp = {}
    BY SMTT(40) DEF smpVars, bringVars, SkipAp, StartAp, ApOnline, ApTimeout, ApStack, ApIndex, ApRegister,
           ApHeartbeat, ApIdle
  <1> SUFFICES ASSUME Clean'
               PROVE  /\ turn' # NumAPs + 1 => targets' = 0 /\ result'[1] # "pass"
                      /\ targets' = 0 => Pending' = {}
                      /\ targets' # 0 => Counted'
                      /\ result'[1] = "pass" => result'[2] \notin mapped' /\ \A c \in Cores : result'[2] \notin tlb'[c]
                      /\ \A a \in APs : apState'[a] \notin {"ready", "online"} => tlb'[a] = {}
    BY ZenonT(40), <1>2 DEF ShootInv
  <1>6. /\ turn # NumAPs + 1 => targets = 0 /\ result[1] # "pass"
        /\ targets = 0 => Pending = {}
        /\ targets # 0 => Counted
        /\ result[1] = "pass" => result[2] \notin mapped /\ \A c \in Cores : result[2] \notin tlb[c]
        /\ \A a \in APs : apState[a] \notin {"ready", "online"} => tlb[a] = {}
    BY Zenon, <1>1, <1>5 DEF SmpInv, ShootInv, Clean
  <1>7. InTurn
    BY Zenon, <1>5 DEF SmpInv, BringInv, Clean
  <1>8. turn = NumAPs + 1 => registry' = registry
    <2>1. turn = NumAPs + 1 => \A a \in APs : apState[a] # "indexed"
      BY <1>7, SmpConstants DEF InTurn, APs
    <2> QED BY Zenon, <2>1 DEF smpVars, bringVars, SkipAp, StartAp, ApOnline, ApTimeout, ApStack, ApIndex, ApRegister,
           ApHeartbeat, ApIdle
  <1>9. \A a \in APs : apState'[a] \notin {"ready", "online"} => apState[a] \notin {"ready", "online"}
    <2>1. CASE StartAp
      BY Zenon, <1>3, <1>7, <2>1 DEF StartAp, InTurn, BringTypeOK
    <2>2. CASE ~StartAp
      BY SMTT(40), <1>3, <2>2 DEF BringTypeOK, smpVars, bringVars, SkipAp, ApOnline, ApTimeout, ApStack, ApIndex, ApRegister,
           ApHeartbeat, ApIdle
    <2> QED BY Zenon, <2>1, <2>2
  <1>10. targets' # 0 => Counted'
    <2> SUFFICES ASSUME targets # 0 PROVE Counted'
      BY SMTT(40), <1>1
    <2>1. Registered' = Registered
      BY Zenon, <1>6, <1>8 DEF Registered
    <2> QED BY Zenon, <1>1, <1>2, <1>6, <2>1 DEF Counted
  <1> QED BY Zenon, <1>1, <1>2, <1>4, <1>6, <1>9, <1>10

LEMMA TouchStep ==
  ASSUME SmpInv, NEW c \in Cores, NEW v \in SharedPages, Touch(c, v) PROVE ShootInv'
  <1>1. /\ UNCHANGED <<turn, registry, apState, gaveUp>>
        /\ UNCHANGED <<mapped, pendingVaddr, acks, targets, irr, handling, result, timedOut>>
    BY Zenon DEF Touch, bringVars
  <1>2. ShootTypeOK /\ v \in mapped /\ v \in SharedPages /\ (c \in APs => apState[c] \in {"ready", "online"})
    BY Zenon DEF SmpInv, ShootInv, Touch
  <1>3. \A d \in Cores : tlb'[d] = tlb[d] \/ (d = c /\ tlb'[d] = tlb[d] \cup {v})
    BY Zenon, <1>2 DEF Touch, ShootTypeOK
  <1>4. ShootTypeOK'
    BY Zenon, <1>1, <1>2 DEF Touch, ShootTypeOK
  <1>5. Pending' = Pending /\ Handlers' = Handlers /\ Registered' = Registered /\ (Clean' <=> Clean)
    BY Zenon, <1>1 DEF Pending, Handlers, Registered, Clean
  <1>6. Counted => Counted'
    BY Zenon, <1>1, <1>2, <1>3, <1>5 DEF Counted
  <1>7. Clean => \A a \in APs : apState'[a] \notin {"ready", "online"} => tlb'[a] = {}
    <2>1. ASSUME Clean, NEW a \in APs, apState[a] \notin {"ready", "online"} PROVE tlb'[a] = {}
      <3>1. a \in Cores /\ a # c
        <4>1. a \in Cores
          BY SmpConstants DEF APs, Cores
        <4> QED BY Zenon, <1>2, <2>1, <4>1
      <3>2. tlb[a] = {}
        BY Zenon, <2>1 DEF SmpInv, ShootInv
      <3> QED BY Zenon, <1>3, <3>1, <3>2
    <2> QED BY Zenon, <1>1, <2>1
  <1>8. Clean /\ result'[1] = "pass" => result'[2] \notin mapped' /\ \A d \in Cores : result'[2] \notin tlb'[d]
    <2> SUFFICES ASSUME Clean, result'[1] = "pass"
                 PROVE  result'[2] \notin mapped' /\ \A d \in Cores : result'[2] \notin tlb'[d]
      BY Zenon
    <2>1. result[2] \notin mapped /\ \A d \in Cores : result[2] \notin tlb[d]
      BY Zenon, <1>1 DEF SmpInv, ShootInv
    <2>2. result[2] # v
      BY Zenon, <1>2, <2>1
    <2>3. ASSUME NEW d \in Cores PROVE result[2] \notin tlb'[d]
      <3>1. result[2] \notin tlb[d] /\ result[2] \notin tlb[d] \cup {v}
        BY Zenon, <2>1, <2>2
      <3> QED BY Zenon, <1>3, <3>1
    <2> QED BY Zenon, <1>1, <2>1, <2>3
  <1> QED BY Zenon, <1>1, <1>4, <1>5, <1>6, <1>7, <1>8 DEF SmpInv, ShootInv

LEMMA UnmapStep ==
  ASSUME SmpInv, NEW v \in SharedPages, Unmap(v) PROVE ShootInv'
  <1>1. /\ UNCHANGED <<turn, registry, apState, gaveUp, handling, timedOut>>
        /\ mapped' = mapped \ {v} /\ pendingVaddr' = v /\ acks' = 0 /\ irr' = irr \cup Registered
        /\ targets' = Cardinality(Registered) /\ targets = 0 /\ turn = NumAPs + 1
        /\ tlb' = [tlb EXCEPT ![0] = tlb[0] \ {v}]
        /\ result' = IF Registered = {} THEN <<"pass", v>> ELSE <<"none", NoPage>>
    BY Zenon DEF Unmap, bringVars, ClearedAcks
  <1>2. ShootTypeOK /\ Registered \subseteq APs /\ IsFiniteSet(Registered) /\ Cardinality(Registered) \in Nat
    BY Zenon, RegisteredFacts DEF SmpInv, ShootInv
  <1>3. 0 \in Cores /\ \A c \in Cores : c # 0 => c \in APs
    BY SmpConstants DEF Cores, APs
  <1>4. tlb'[0] = tlb[0] \ {v} /\ \A c \in Cores : c # 0 => tlb'[c] = tlb[c]
    BY Zenon, <1>1, <1>2, <1>3 DEF ShootTypeOK
  <1>5. ShootTypeOK'
    BY Zenon, <1>1, <1>2, <1>3 DEF ShootTypeOK
  <1>6. Handlers' = Handlers /\ Registered' = Registered
    BY Zenon, <1>1 DEF Handlers, Registered
  <1> SUFFICES ASSUME Clean
               PROVE  /\ turn' # NumAPs + 1 => targets' = 0 /\ result'[1] # "pass"
                      /\ targets' = 0 => Pending' = {}
                      /\ targets' # 0 => Counted'
                      /\ result'[1] = "pass" => result'[2] \notin mapped' /\ \A c \in Cores : result'[2] \notin tlb'[c]
                      /\ \A a \in APs : apState'[a] \notin {"ready", "online"} => tlb'[a] = {}
    BY Zenon, <1>1, <1>5 DEF ShootInv, Clean
  <1>7. Pending = {} /\ \A a \in APs : apState[a] \notin {"ready", "online"} => tlb[a] = {}
    BY Zenon, <1>1 DEF SmpInv, ShootInv
  <1>8. \A a \in APs : a \notin Registered => tlb[a] = {}
    BY Zenon, <1>7, RegisteredFacts DEF SmpInv, Clean
  <1>9. Pending' = Registered /\ irr' = Registered /\ Handlers = {}
    BY Zenon, <1>1, <1>6, <1>7 DEF Pending
  <1>10. \A c \in Cores \ Registered : v \notin tlb'[c]
    BY Zenon, <1>3, <1>4, <1>8
  <1>11. targets' = 0 <=> Registered = {}
    BY Zenon, <1>1, <1>2, FS_EmptySet
  <1>12. Registered # {} => Counted'
    <2> SUFFICES ASSUME Registered # {} PROVE Counted'
      BY Zenon
    <2>1. result'[1] # "pass"
      BY Zenon, <1>1
    <2>2. Registered' \ Pending' = {} /\ acks' = Cardinality(Registered' \ Pending')
      BY Zenon, <1>1, <1>6, <1>9, FS_EmptySet
    <2>3. Handlers' = {} /\ Pending' \subseteq Registered' /\ irr' \cap Handlers' = {}
      BY Zenon, <1>6, <1>9
    <2>4. \A c \in Cores \ Pending' : pendingVaddr' \notin tlb'[c]
      BY Zenon, <1>1, <1>9, <1>10
    <2> QED BY Zenon, <1>1, <1>6, <2>1, <2>2, <2>3, <2>4 DEF Counted
  <1>13. result'[1] = "pass" => result'[2] = v /\ Registered = {}
    BY Zenon, <1>1
  <1>14. \A a \in APs : apState'[a] \notin {"ready", "online"} => tlb'[a] = {}
    BY <1>1, <1>4, <1>7, SmpConstants DEF APs, Cores
  <1> QED BY Zenon, <1>1, <1>9, <1>10, <1>11, <1>12, <1>13, <1>14

LEMMA PassStep ==
  ASSUME SmpInv, ShootdownPass \/ ShootdownTimeout PROVE ShootInv'
  <1>1. /\ UNCHANGED <<turn, registry, apState, gaveUp>>
        /\ UNCHANGED <<mapped, tlb, pendingVaddr, acks, irr, handling>> /\ targets' = 0
    BY Zenon DEF ShootdownPass, ShootdownTimeout, bringVars
  <1>2. ShootTypeOK' /\ Pending' = Pending /\ ShootTypeOK
    BY Zenon, <1>1 DEF SmpInv, ShootInv, ShootTypeOK, Pending, Handlers
  <1>3. CASE ShootdownTimeout
    <2>1. ~Clean'
      BY Zenon, <1>3 DEF ShootdownTimeout, Clean
    <2> QED BY Zenon, <1>2, <2>1 DEF ShootInv
  <1>4. CASE ShootdownPass
    <2>1. targets # 0 /\ acks >= targets /\ result' = <<"pass", pendingVaddr>> /\ timedOut' = timedOut
      BY <1>2, <1>4 DEF ShootdownPass, ShootTypeOK
    <2> SUFFICES ASSUME Clean
                 PROVE  /\ turn' # NumAPs + 1 => targets' = 0 /\ result'[1] # "pass"
                        /\ targets' = 0 => Pending' = {}
                        /\ targets' # 0 => Counted'
                        /\ result'[1] = "pass" => result'[2] \notin mapped' /\ \A c \in Cores : result'[2] \notin tlb'[c]
                        /\ \A a \in APs : apState'[a] \notin {"ready", "online"} => tlb'[a] = {}
      BY Zenon, <1>1, <1>2, <2>1 DEF ShootInv, Clean
    <2>2. Counted /\ turn = NumAPs + 1 /\ \A a \in APs : apState[a] \notin {"ready", "online"} => tlb[a] = {}
      BY Zenon, <2>1 DEF SmpInv, ShootInv
    <2>3. Registered \ Pending = Registered
      <3>1. IsFiniteSet(Registered) /\ Cardinality(Registered) \in Nat
        BY Zenon, RegisteredFacts DEF SmpInv
      <3>2. Registered \ Pending \in SUBSET Registered
        BY Zenon
      <3>3. /\ Cardinality(Registered \ Pending) <= Cardinality(Registered)
            /\ Cardinality(Registered) = Cardinality(Registered \ Pending) => Registered = Registered \ Pending
        BY Zenon, <3>1, <3>2, FS_Subset
      <3>4. Cardinality(Registered \ Pending) = acks /\ Cardinality(Registered) = targets
        BY Zenon, <2>2 DEF Counted
      <3> QED BY <1>2, <2>1, <3>1, <3>3, <3>4 DEF ShootTypeOK
    <2>4. Pending = {}
      BY Zenon, <2>2, <2>3 DEF Counted
    <2>5. pendingVaddr \notin mapped /\ \A c \in Cores : pendingVaddr \notin tlb[c]
      BY Zenon, <2>2, <2>4 DEF Counted
    <2> QED BY Zenon, <1>1, <1>2, <2>1, <2>2, <2>4, <2>5
  <1> QED BY Zenon, <1>3, <1>4

(* handle_tlb_shootdown_ipi: from pending to handling to acknowledged.     *)
LEMMA IpiStep ==
  ASSUME SmpInv, NEW a \in APs, TakeIpi(a) \/ Invlpg(a) PROVE ShootInv'
  <1>1. /\ UNCHANGED <<turn, registry, apState, gaveUp>>
        /\ UNCHANGED <<mapped, pendingVaddr, targets, result, timedOut>>
    BY Zenon DEF TakeIpi, Invlpg, bringVars
  <1>2. ShootTypeOK /\ a \in Cores
    BY SmpConstants DEF SmpInv, ShootInv, APs, Cores
  <1>3. ShootTypeOK'
    <2>1. CASE TakeIpi(a)
      BY Zenon, <1>1, <1>2, <2>1 DEF TakeIpi, ShootTypeOK
    <2>2. CASE Invlpg(a)
      BY SMTT(40), <1>1, <1>2, <2>2 DEF Invlpg, ShootTypeOK
    <2> QED BY Zenon, <2>1, <2>2
  <1> SUFFICES ASSUME Clean
               PROVE  /\ turn' # NumAPs + 1 => targets' = 0 /\ result'[1] # "pass"
                      /\ targets' = 0 => Pending' = {}
                      /\ targets' # 0 => Counted'
                      /\ result'[1] = "pass" => result'[2] \notin mapped' /\ \A c \in Cores : result'[2] \notin tlb'[c]
                      /\ \A b \in APs : apState'[b] \notin {"ready", "online"} => tlb'[b] = {}
    BY Zenon, <1>1, <1>3 DEF ShootInv, Clean
  <1>4. a \in Pending
    BY Zenon, <1>2 DEF TakeIpi, Invlpg, Pending, Handlers
  <1>5. targets # 0 /\ Counted /\ turn = NumAPs + 1 /\ Registered' = Registered
        /\ \A b \in APs : apState[b] \notin {"ready", "online"} => tlb[b] = {}
    BY Zenon, <1>1, <1>4 DEF SmpInv, ShootInv, Registered
  <1>6. result'[1] # "pass"
    BY Zenon, <1>1, <1>5 DEF Counted
  <1>7. CASE TakeIpi(a)
    <2>1. irr' = irr \ {a} /\ a \in irr /\ handling' = [handling EXCEPT ![a] = pendingVaddr] /\ UNCHANGED <<tlb, acks>>
      BY Zenon, <1>7 DEF TakeIpi
    <2>2. pendingVaddr # NoPage
      BY Zenon, <1>5, SmpConstants DEF Counted, NoPage
    <2>3. Handlers' = Handlers \cup {a}
      BY Zenon, <1>2, <2>1, <2>2 DEF Handlers, ShootTypeOK
    <2>4. Pending' = Pending /\ irr' \cap Handlers' = {}
      BY Zenon, <1>5, <2>1, <2>3 DEF Pending, Counted
    <2>5. \A c \in Handlers' : handling'[c] = pendingVaddr
      BY Zenon, <1>2, <1>5, <2>1, <2>3 DEF Counted, Handlers, ShootTypeOK
    <2>6. Counted'
      BY SMTT(40), <1>1, <1>5, <2>1, <2>4, <2>5 DEF Counted
    <2> QED BY Zenon, <1>1, <1>5, <1>6, <2>1, <2>6
  <1>8. CASE Invlpg(a)
    <2>1. /\ handling[a] # NoPage /\ handling' = [handling EXCEPT ![a] = NoPage] /\ irr' = irr /\ acks' = acks + 1
          /\ tlb' = [tlb EXCEPT ![a] = tlb[a] \ {handling[a]}]
      BY Zenon, <1>8 DEF Invlpg
    <2>2. a \in Handlers /\ Handlers' = Handlers \ {a}
      BY Zenon, <1>2, <2>1 DEF Handlers, ShootTypeOK
    <2>3. Pending' = Pending \ {a} /\ irr' \cap Handlers' = {} /\ handling[a] = pendingVaddr
      BY Zenon, <1>5, <2>1, <2>2 DEF Pending, Counted
    <2>4. \A c \in Handlers' : handling'[c] = pendingVaddr
      BY Zenon, <1>2, <1>5, <2>1, <2>2 DEF Counted, Handlers, ShootTypeOK
    <2>5. tlb'[a] = tlb[a] \ {pendingVaddr} /\ \A c \in Cores : c # a => tlb'[c] = tlb[c]
      BY Zenon, <1>2, <2>1, <2>3 DEF ShootTypeOK
    <2>6. \A c \in Cores \ Pending' : pendingVaddr \notin tlb'[c]
      BY Zenon, <1>5, <2>3, <2>5 DEF Counted
    <2>7. acks' = Cardinality(Registered \ Pending')
      <3>1. IsFiniteSet(Registered \ Pending)
        <4>1. IsFiniteSet(Registered) /\ Registered \ Pending \in SUBSET Registered
          BY Zenon, RegisteredFacts DEF SmpInv
        <4> QED BY Zenon, <4>1, FS_Subset
      <3>2. a \in Registered /\ a \notin Registered \ Pending
        BY Zenon, <1>4, <1>5 DEF Counted
      <3>3. Registered \ Pending' = (Registered \ Pending) \cup {a}
        BY Zenon, <2>3, <3>2
      <3> QED BY Zenon, <1>5, <2>1, <3>1, <3>2, <3>3, FS_AddElement DEF Counted
    <2>8. Counted'
      BY Zenon, <1>1, <1>5, <1>6, <2>3, <2>4, <2>6, <2>7 DEF Counted
    <2>9. \A b \in APs : apState'[b] \notin {"ready", "online"} => tlb'[b] = {}
      BY <1>1, <1>5, <2>5, SmpConstants DEF APs, Cores
    <2> QED BY Zenon, <1>1, <1>5, <1>6, <2>8, <2>9
  <1> QED BY Zenon, <1>7, <1>8

LEMMA SmpStep == SmpInv /\ [SmpNext]_smpVars => SmpInv'
  <1> SUFFICES ASSUME SmpInv, [SmpNext]_smpVars PROVE SmpInv'
    BY Zenon
  <1>1. BringInv'
    BY Zenon, BringNext DEF SmpInv
  <1>2. ShootInv'
    BY Zenon, ShootStays, TouchStep, UnmapStep, PassStep, IpiStep DEF SmpNext
  <1> QED BY Zenon, <1>1, <1>2 DEF SmpInv

LEMMA SmpInvAlways == SmpSpec => []SmpInv
  BY SmpInitOK, SmpStep, PTL DEF SmpSpec

(* For any number of processors: unless bring_up_all gave up on one, each  *)
(* that came up has a stack and an index of its own and is found under it. *)
THEOREM IdentityUnique == SmpSpec => []IdentityUniqueUnlessGivenUp
  <1>1. SmpInv => IdentityUniqueUnlessGivenUp
    BY Zenon, IdentityFromInv DEF SmpInv
  <1> QED BY <1>1, SmpInvAlways, PTL

(* For any number of processors and pages: a shootdown that reports PASS   *)
(* has removed the page from every TLB, unless a wait ran out before.      *)
THEOREM PassFlushes == SmpSpec => []PassMeansFlushed
  <1>1. SmpInv => PassMeansFlushed
    BY Zenon DEF SmpInv, ShootInv, Clean, PassMeansFlushed
  <1> QED BY <1>1, SmpInvAlways, PTL
-----------------------------------------------------------------------------
(* Ring 3.  Every script ends with the switch of the address space, its    *)
(* record and the entry, and has these steps nowhere else.                 *)
Marks == {"switch", "record", "enter"}
Size(p) == Len(Script[p])
Ready(s) ==
  /\ Len(s) \in Nat /\ Len(s) > 2 /\ DOMAIN s = 1 .. Len(s)
  /\ s[Len(s) - 2].op = "switch" /\ s[Len(s) - 1].op = "record" /\ s[Len(s)].op = "enter"
  /\ \A i \in 1 .. Len(s) - 3 : s[i].op \notin Marks

PortsBefore(p, a) == {Script[p][i].arg : i \in {j \in DOMAIN Script[p] : j < a /\ Script[p][j].op = "port"}}

Ring3Typed ==
  /\ prog \in [Threads -> Programs]
  /\ mode \in [Threads -> {"setup", "user", "dispatch", "halted", "gone"}]
  /\ at \in [Threads -> Nat \ {0}]
  /\ recorded \in [Threads -> Threads \cup {"kernel"}]
  /\ DOMAIN ports = Threads /\ DOMAIN kstack = Threads /\ DOMAIN ursp = Threads /\ DOMAIN saved = All
  /\ cur \in All /\ queue \in Seq(All)

\* How far thread t with program p is, and what it has by then.
InStep(t, p, a, m, granted, loaded, runsOn, top, user) ==
  /\ m \in {"setup", "gone"} \/ a = Size(p) + 1
  /\ m = "setup" => a <= Size(p)
  /\ granted = PortsBefore(p, a)
  /\ m # "gone" /\ a >= Size(p) => loaded = t
  /\ m # "gone" /\ a < Size(p) => loaded = "kernel"
  /\ m \in {"dispatch", "halted"} => runsOn = t /\ top = t
  /\ m = "user" => user = t

Progress(t) == InStep(t, prog[t], at[t], mode[t], ports[t], recorded[t], kstack[t], saved[t], ursp[t])

AtRecord(t) == mode[t] = "setup" /\ at[t] = Size(prog[t]) - 1

CoreOwned ==
  /\ rsp0 = cur /\ kernelRsp = cur /\ gs = "user" /\ iopb = Ports(cur)
  /\ \A t \in Threads : t # cur /\ AtRecord(t) => t \in cut
  /\ cur \in Threads /\ cur \notin cut /\ mode[cur] # "gone" => cr3 = IF AtRecord(cur) THEN cur ELSE Space(cur)

R3Inv == Ring3Typed /\ (\A t \in Threads : Progress(t)) /\ CoreOwned

\* A part of a script before the address space is switched.
Plain(x) == (\E S : x \in Seq(S)) /\ \A i \in 1 .. Len(x) : x[i].op \notin Marks

LEMMA JoinSeqs ==
  ASSUME NEW S, NEW x \in Seq(S), NEW y \in Seq(S)
  PROVE  /\ x \o y \in Seq(S) /\ Len(x \o y) = Len(x) + Len(y)
         /\ \A i \in 1 .. Len(x) : (x \o y)[i] = x[i]
         /\ \A i \in 1 .. Len(y) : (x \o y)[Len(x) + i] = y[i]
         /\ \A i \in 1 .. Len(x) + Len(y) : i <= Len(x) \/ i - Len(x) \in 1 .. Len(y)
  OBVIOUS

(* Which two are joined first makes no difference.                         *)
Joins(x, y, z) == (x \o y) \o z = x \o (y \o z)

LEMMA AssocSeqs ==
  ASSUME NEW S, NEW x \in Seq(S), NEW y \in Seq(S), NEW z \in Seq(S)
  PROVE  Joins(x, y, z)
  BY DEF Joins

LEMMA WiderSeq == ASSUME NEW S, NEW T, NEW x \in Seq(S) PROVE x \in Seq(S \cup T) /\ x \in Seq(T \cup S)
  OBVIOUS

LEMMA PlainJoin == \A x, y : Plain(x) /\ Plain(y) => Plain(x \o y)
  <1> SUFFICES ASSUME NEW x, NEW y, Plain(x), Plain(y) PROVE Plain(x \o y)
    BY Zenon
  <1>1. PICK S, T : x \in Seq(S) /\ y \in Seq(T)
    BY Zenon DEF Plain
  <1>2. PICK U : x \in Seq(U) /\ y \in Seq(U)
    <2>1. x \in Seq(S \cup T) /\ y \in Seq(S \cup T)
      BY Zenon, <1>1, WiderSeq
    <2> QED BY <2>1, Zenon
  <1>3. /\ x \o y \in Seq(U) /\ Len(x \o y) = Len(x) + Len(y)
        /\ \A i \in 1 .. Len(x) : (x \o y)[i] = x[i]
        /\ \A i \in 1 .. Len(y) : (x \o y)[Len(x) + i] = y[i]
    BY <1>2, JoinSeqs
  <1>4. Len(x) \in Nat /\ Len(y) \in Nat
    BY <1>2
  <1>5. PICK z : z = x \o y
    BY Zenon
  <1>6. ASSUME NEW i \in 1 .. Len(z) PROVE z[i].op \notin Marks
    <2>1. CASE i \in 1 .. Len(x)
      BY Zenon, <1>3, <1>5, <2>1 DEF Plain
    <2>2. CASE i \notin 1 .. Len(x)
      <3>1. i - Len(x) \in 1 .. Len(y) /\ Len(x) + (i - Len(x)) = i
        BY <1>3, <1>4, <1>5, <2>2
      <3>2. z[i] = y[i - Len(x)]
        BY Zenon, <1>3, <1>5, <3>1
      <3> QED BY Zenon, <3>1, <3>2 DEF Plain
    <2> QED BY Zenon, <2>1, <2>2
  <1> QED BY Zenon, <1>3, <1>5, <1>6 DEF Plain

LEMMA PlainParts ==
  /\ Plain(<<>>) /\ Plain(Load) /\ Plain(Image) /\ Plain(Disk) /\ Plain(Stacks)
  /\ \A k : Plain(Port(k)) /\ Plain(Grant(k)) /\ Plain(Info(k)) /\ Plain(Enrol(k))
  /\ \A m, k : Plain(Install(m, k))
  <1>1. ASSUME NEW op, NEW arg, op \notin Marks PROVE Plain(<<Step(op, arg)>>)
    <2>1. PICK st : st = Step(op, arg)
      BY Zenon
    <2>2. st.op = op
      BY Zenon, <2>1 DEF Step
    <2>3. <<st>> \in Seq({st}) /\ Len(<<st>>) = 1 /\ <<st>>[1] = st
      OBVIOUS
    <2>4. Plain(<<st>>)
      <3>1. \A i \in 1 .. Len(<<st>>) : <<st>>[i] = st
        OBVIOUS
      <3>2. \E S : <<st>> \in Seq(S)
        BY <2>3, Zenon
      <3> QED BY <1>1, <2>2, <3>1, <3>2, Zenon DEF Plain
    <2> QED BY Zenon, <2>1, <2>4
  <1>2. Plain(<<>>)
    <2>1. <<>> \in Seq({}) /\ Len(<<>>) = 0
      OBVIOUS
    <2> QED BY <2>1 DEF Plain
  <1>3. Plain(Load) /\ Plain(Image) /\ Plain(Disk) /\ Plain(Stacks)
    BY Zenon, <1>1 DEF Load, Image, Disk, Stacks, Marks
  <1>4. ASSUME NEW k PROVE Plain(Port(k)) /\ Plain(Grant(k)) /\ Plain(Info(k)) /\ Plain(Enrol(k))
    BY Zenon, <1>1 DEF Port, Grant, Info, Enrol, Marks
  <1>5. ASSUME NEW m, NEW k PROVE Plain(Install(m, k))
    BY Zenon, <1>2, <1>4 DEF Install
  <1> QED BY Zenon, <1>2, <1>3, <1>4, <1>5

LEMMA EntryReady == \A x : Plain(x) => Ready(x \o EnterRing3) /\ Ready(x \o Dive)
  <1>1. PICK c, d, e : c = Step("switch", "own") /\ d = Step("record", "own") /\ e = Step("enter", "own")
    BY Zenon
  <1>2. c.op = "switch" /\ d.op = "record" /\ e.op = "enter" /\ EnterRing3 = <<c, d, e>>
    BY Zenon, <1>1 DEF Step, EnterRing3
  <1>3. /\ <<c, d, e>> \in Seq({c, d, e}) /\ Len(<<c, d, e>>) = 3
        /\ <<c, d, e>>[1] = c /\ <<c, d, e>>[2] = d /\ <<c, d, e>>[3] = e
    OBVIOUS
  <1>4. PICK y : y = EnterRing3
    BY Zenon
  <1>5. ASSUME NEW x, Plain(x) PROVE Ready(x \o y)
    <2>1. PICK S : x \in Seq(S)
      BY Zenon, <1>5 DEF Plain
    <2>2. y \in Seq({c, d, e}) /\ Len(y) = 3 /\ y[1] = c /\ y[2] = d /\ y[3] = e
      BY Zenon, <1>2, <1>3, <1>4
    <2>3. PICK U : x \in Seq(U) /\ y \in Seq(U)
      <3>1. x \in Seq(S \cup {c, d, e}) /\ y \in Seq(S \cup {c, d, e})
        BY Zenon, <2>1, <2>2, WiderSeq
      <3> QED BY <3>1, Zenon
    <2>4. PICK z : z = x \o y
      BY Zenon
    <2>5. /\ z \in Seq(U) /\ Len(z) = Len(x) + 3
          /\ \A i \in 1 .. Len(x) : z[i] = x[i]
          /\ \A i \in 1 .. 3 : z[Len(x) + i] = y[i]
      <3>1. /\ x \o y \in Seq(U) /\ Len(x \o y) = Len(x) + Len(y)
            /\ \A i \in 1 .. Len(x) : (x \o y)[i] = x[i]
            /\ \A i \in 1 .. Len(y) : (x \o y)[Len(x) + i] = y[i]
        BY <2>3, JoinSeqs
      <3> QED BY <2>2, <2>4, <3>1, Zenon
    <2>6. Len(x) \in Nat /\ DOMAIN z = 1 .. Len(z)
      BY <2>3, <2>5
    <2>7. Len(z) \in Nat /\ Len(z) > 2 /\ Len(z) - 2 = Len(x) + 1 /\ Len(z) - 1 = Len(x) + 2 /\ Len(z) - 3 = Len(x)
      BY <2>5, <2>6
    <2>8. z[Len(z) - 2].op = "switch" /\ z[Len(z) - 1].op = "record" /\ z[Len(z)].op = "enter"
      BY <1>2, <2>2, <2>5, <2>7
    <2>9. \A i \in 1 .. Len(x) : z[i].op \notin Marks
      BY Zenon, <1>5, <2>5 DEF Plain
    <2>10. Ready(z)
      BY <2>6, <2>7, <2>8, <2>9, Zenon DEF Ready
    <2> QED BY Zenon, <2>4, <2>10
  <1>6. ASSUME NEW x, Plain(x) PROVE x \o Dive = (x \o Stacks) \o y /\ Plain(x \o Stacks)
    <2>1. Plain(x \o Stacks)
      BY Zenon, <1>6, PlainParts, PlainJoin
    <2>2. PICK S, T : x \in Seq(S) /\ Stacks \in Seq(T)
      BY Zenon, <1>6, PlainParts DEF Plain
    <2>3. y \in Seq({c, d, e})
      BY Zenon, <1>2, <1>3, <1>4
    <2>4. PICK U : x \in Seq(U) /\ Stacks \in Seq(U) /\ y \in Seq(U)
      <3>1. x \in Seq((S \cup T) \cup {c, d, e}) /\ Stacks \in Seq((S \cup T) \cup {c, d, e})
            /\ y \in Seq((S \cup T) \cup {c, d, e})
        BY Zenon, <2>2, <2>3, WiderSeq
      <3> QED BY <3>1, Zenon
    <2>5. x \o (Stacks \o y) = (x \o Stacks) \o y
      <3>1. Joins(x, Stacks, y)
        BY Zenon, <2>4, AssocSeqs
      <3> QED BY Zenon, <3>1 DEF Joins
    <2> QED BY Zenon, <1>4, <2>1, <2>5 DEF Dive
  <1> QED BY Zenon, <1>4, <1>5, <1>6

LEMMA ScriptsReady == \A p \in DOMAIN Script : Ready(Script[p])
  <1>1. Ready(serial_driver_thread)
    BY PlainParts, PlainJoin, EntryReady, Zenon DEF serial_driver_thread, Map
  <1>2. Ready(fb_driver_thread)
    BY PlainParts, PlainJoin, EntryReady, Zenon DEF fb_driver_thread, Map
  <1>3. Ready(keyboard_driver_thread)
    BY PlainParts, PlainJoin, EntryReady, Zenon DEF keyboard_driver_thread, Map
  <1>4. Ready(mouse_driver_thread)
    BY PlainParts, PlainJoin, EntryReady, Zenon DEF mouse_driver_thread, Map
  <1>5. Ready(virtio_blk_driver_thread)
    BY PlainParts, PlainJoin, EntryReady, Zenon DEF virtio_blk_driver_thread, Map
  <1>6. Ready(virtio_net_driver_thread)
    BY PlainParts, PlainJoin, EntryReady, Zenon DEF virtio_net_driver_thread, Map
  <1>7. Ready(xhci_driver_thread)
    BY PlainParts, PlainJoin, EntryReady, Zenon DEF xhci_driver_thread, Map
  <1>8. Ready(ahci_driver_thread)
    BY PlainParts, PlainJoin, EntryReady, Zenon DEF ahci_driver_thread, Map
  <1>9. Ready(nvme_driver_thread)
    BY PlainParts, PlainJoin, EntryReady, Zenon DEF nvme_driver_thread, Map
  <1>10. Ready(e1000_driver_thread)
    BY PlainParts, PlainJoin, EntryReady, Zenon DEF e1000_driver_thread, Map
  <1>11. Ready(netstack_driver_thread)
    BY PlainParts, PlainJoin, EntryReady, Zenon DEF netstack_driver_thread, Map
  <1>12. Ready(compositor_driver_thread)
    BY PlainParts, PlainJoin, EntryReady, Zenon DEF compositor_driver_thread, Map
  <1>13. Ready(init_thread)
    BY PlainParts, PlainJoin, EntryReady, Zenon DEF init_thread
  <1>14. Ready(fault_demo_thread)
    BY PlainParts, PlainJoin, EntryReady, Zenon DEF fault_demo_thread
  <1>15. Ready(demo_ring3_thread)
    BY PlainParts, PlainJoin, EntryReady, Zenon DEF demo_ring3_thread
  <1>16. Ready(shell_thread)
    BY PlainParts, PlainJoin, EntryReady, Zenon DEF shell_thread
  <1>17. Ready(agent_gateway_thread)
    BY PlainParts, PlainJoin, EntryReady, Zenon DEF agent_gateway_thread
  <1>18. Ready(run_agent_demo)
    BY PlainParts, PlainJoin, EntryReady, Zenon DEF run_agent_demo
  <1>19. Ready(installer_demo_thread)
    BY PlainParts, PlainJoin, EntryReady, Zenon DEF installer_demo_thread
  <1>20. Ready(spawn_terminal_inner)
    BY PlainParts, PlainJoin, EntryReady, Zenon DEF spawn_terminal_inner, Windowed, Drawing
  <1>21. Ready(spawn_text_editor_inner)
    BY PlainParts, PlainJoin, EntryReady, Zenon DEF spawn_text_editor_inner, Windowed, Drawing
  <1>22. Ready(sample_app_thread)
    BY PlainParts, PlainJoin, EntryReady, Zenon DEF sample_app_thread, Windowed, Drawing
  <1>23. Ready(spawn_file_manager_inner)
    BY PlainParts, PlainJoin, EntryReady, Zenon DEF spawn_file_manager_inner, Windowed
  <1>24. Ready(spawn_net_client_inner)
    BY PlainParts, PlainJoin, EntryReady, Zenon DEF spawn_net_client_inner, Windowed
  <1>25. \A label : Ready(spawn_window_client(label))
    BY PlainParts, PlainJoin, EntryReady, Zenon DEF spawn_window_client
  <1>29. \A p \in {"serial", "framebuffer", "keyboard", "mouse", "virtio_blk", "virtio_net",
               "xhci", "ahci", "nvme", "e1000", "netstack", "compositor", "clientA",
               "clientB"} : Ready(Script[p])
    BY Zenon, <1>1, <1>2, <1>3, <1>4, <1>5, <1>6, <1>7, <1>8, <1>9, <1>10, <1>11, <1>12, <1>25, ScriptServes
  <1>30. \A p \in {"init", "fault", "ring3", "shell", "gateway", "agent", "stranger",
               "violator", "installer", "terminal", "editor", "sample", "files",
               "netclient"} : Ready(Script[p])
    BY Zenon, <1>13, <1>14, <1>15, <1>16, <1>17, <1>18, <1>19, <1>20, <1>21, <1>22, <1>23, <1>24, ScriptRuns
  <1> QED BY Zenon, ScriptNames, <1>29, <1>30

LEMMA ScriptOf ==
  ASSUME Ring3Typed, NEW t \in Threads
  PROVE  /\ prog[t] \in DOMAIN Script /\ Ready(Script[prog[t]]) /\ Size(prog[t]) \in Nat /\ Size(prog[t]) > 2
         /\ DOMAIN Script[prog[t]] = 1 .. Size(prog[t]) /\ at[t] \in Nat \ {0}
  <1>1. prog[t] \in DOMAIN Script /\ at[t] \in Nat \ {0}
    BY Zenon, Ring3Constants DEF Ring3Typed
  <1>2. Ready(Script[prog[t]])
    BY <1>1, ScriptsReady, Zenon
  <1> QED BY <1>1, <1>2, Zenon DEF Ready, Size

\* The step a set-up is at, and the one place of each mark.
LEMMA StepsInOrder ==
  ASSUME R3Inv, NEW op, AtStep(op)
  PROVE  LET a == at[cur]  n == Size(prog[cur])
         IN  /\ cur \in Threads /\ mode[cur] = "setup" /\ a \in 1 .. n /\ n \in Nat /\ n > 2
             /\ Script[prog[cur]][a].op = op
             /\ op = "switch" => a = n - 2
             /\ op = "record" => a = n - 1
             /\ op = "enter" => a = n
             /\ op \notin Marks => a <= n - 3
  <1> DEFINE a == at[cur]
             n == Size(prog[cur])
             s == Script[prog[cur]]
  <1>1. cur \in Threads /\ mode[cur] = "setup" /\ s[a].op = op
    BY Zenon DEF AtStep, R3Inv, Ring3Typed, All
  <1>2. Ready(s) /\ n \in Nat /\ n > 2 /\ a \in Nat \ {0} /\ n = Len(s)
    BY <1>1, ScriptOf, Zenon DEF R3Inv, Size
  <1>3. a <= n
    BY <1>1, Zenon DEF R3Inv, Progress, InStep
  <1> HIDE DEF a, n, s
  <1>4. /\ s[n - 2].op = "switch" /\ s[n - 1].op = "record" /\ s[n].op = "enter"
        /\ \A i \in 1 .. n - 3 : s[i].op \notin Marks
    BY <1>2, Zenon DEF Ready
  <1>5. a \in 1 .. n - 3 \/ a = n - 2 \/ a = n - 1 \/ a = n
    BY <1>2, <1>3
  <1>6. /\ op = "switch" => a = n - 2
        /\ op = "record" => a = n - 1
        /\ op = "enter" => a = n
        /\ op \notin Marks => a <= n - 3
    <2>1. n - 2 # n - 1 /\ n - 2 # n /\ n - 1 # n /\ (a \in 1 .. n - 3 => a <= n - 3)
      BY <1>2
    <2>2. CASE a \in 1 .. n - 3
      BY Zenon, <1>1, <1>4, <2>1, <2>2 DEF Marks
    <2>3. CASE a = n - 2
      BY Zenon, <1>1, <1>4, <2>1, <2>3 DEF Marks
    <2>4. CASE a = n - 1
      BY Zenon, <1>1, <1>4, <2>1, <2>4 DEF Marks
    <2>5. CASE a = n
      BY Zenon, <1>1, <1>4, <2>1, <2>5 DEF Marks
    <2> QED BY Zenon, <1>5, <2>2, <2>3, <2>4, <2>5
  <1>7. a \in 1 .. n
    BY <1>2, <1>3
  <1> QED BY Zenon, <1>1, <1>2, <1>6, <1>7 DEF a, n, s

LEMMA PortsOneOn ==
  ASSUME NEW p \in DOMAIN Script, NEW a \in 1 .. Size(p)
  PROVE  PortsBefore(p, a + 1) =
           PortsBefore(p, a) \cup (IF Script[p][a].op = "port" THEN {Script[p][a].arg} ELSE {})
  <1>1. DOMAIN Script[p] = 1 .. Size(p) /\ Size(p) \in Nat
    BY ScriptsReady, Zenon DEF Ready, Size
  <1>2. \A j \in DOMAIN Script[p] : j < a + 1 <=> j < a \/ j = a
    BY SMTT(40), <1>1
  <1> QED BY Zenon, <1>1, <1>2 DEF PortsBefore

(* The threads a step does not concern.                                    *)
Untouched(t) ==
  /\ prog'[t] = prog[t] /\ at'[t] = at[t] /\ mode'[t] = mode[t] /\ ports'[t] = ports[t]
  /\ recorded'[t] = recorded[t] /\ kstack'[t] = kstack[t] /\ saved'[t] = saved[t] /\ ursp'[t] = ursp[t]

LEMMA UntouchedKept == ASSUME NEW t, Progress(t), Untouched(t) PROVE Progress(t)'
  BY Zenon DEF Progress, Untouched

\* Where the next step of a set-up is.
LEMMA StepArith ==
  ASSUME NEW n \in Nat, n > 2, NEW a \in 1 .. n
  PROVE  /\ a + 1 \in Nat \ {0}
         /\ a <= n - 3 => a + 1 <= n /\ a < n /\ a + 1 < n /\ ~(a + 1 >= n) /\ a # n - 1 /\ a + 1 # n - 1
         /\ a = n - 2 => a + 1 <= n /\ a < n /\ a + 1 < n /\ ~(a + 1 >= n) /\ a # n - 1 /\ a + 1 = n - 1
         /\ a = n - 1 => a + 1 <= n /\ a < n /\ ~(a + 1 < n) /\ a + 1 >= n /\ a + 1 # n - 1
         /\ a = n => a >= n /\ a + 1 = n + 1 /\ ~(a + 1 < n) /\ a + 1 >= n /\ a # n - 1 /\ a + 1 # n - 1
  <1>1. a + 1 \in Nat \ {0}
    OBVIOUS
  <1>2. a <= n - 3 => a + 1 <= n /\ a < n /\ a + 1 < n /\ ~(a + 1 >= n) /\ a # n - 1 /\ a + 1 # n - 1
    OBVIOUS
  <1>3. a = n - 2 => a + 1 <= n /\ a < n /\ a + 1 < n /\ ~(a + 1 >= n) /\ a # n - 1 /\ a + 1 = n - 1
    OBVIOUS
  <1>4. a = n - 1 => a + 1 <= n /\ a < n /\ ~(a + 1 < n) /\ a + 1 >= n /\ a + 1 # n - 1
    OBVIOUS
  <1>5. a = n => a >= n /\ a + 1 = n + 1 /\ ~(a + 1 < n) /\ a + 1 >= n /\ a # n - 1 /\ a + 1 # n - 1
    OBVIOUS
  <1> QED BY Zenon, <1>1, <1>2, <1>3, <1>4, <1>5

(* Steps before the switch that grant no port.                             *)
Quiet == /\ at' = [at EXCEPT ![cur] = @ + 1]
         /\ UNCHANGED <<prog, mode, recorded, ports, ursp, kstack, saved, cut, coreVars>>

LEMMA QuietStep ==
  ASSUME R3Inv, NEW op, AtStep(op), op \notin Marks, op # "port", Quiet
  PROVE  R3Inv'
  <1> DEFINE a == at[cur]
             n == Size(prog[cur])
  <1>1. /\ cur \in Threads /\ mode[cur] = "setup" /\ a \in 1 .. n /\ n \in Nat /\ n > 2 /\ a <= n - 3
        /\ Script[prog[cur]][a].op = op
    BY StepsInOrder, Zenon
  <1>a. /\ a + 1 \in Nat \ {0}
        /\ a <= n - 3 => a + 1 <= n /\ a < n /\ a + 1 < n /\ ~(a + 1 >= n) /\ a # n - 1 /\ a + 1 # n - 1
        /\ a = n - 2 => a + 1 <= n /\ a < n /\ a + 1 < n /\ ~(a + 1 >= n) /\ a # n - 1 /\ a + 1 = n - 1
        /\ a = n - 1 => a + 1 <= n /\ a < n /\ ~(a + 1 < n) /\ a + 1 >= n /\ a + 1 # n - 1
        /\ a = n => a >= n /\ a + 1 = n + 1 /\ ~(a + 1 < n) /\ a + 1 >= n /\ a # n - 1 /\ a + 1 # n - 1
    BY Zenon, <1>1, StepArith
  <1>2. Ring3Typed /\ (\A t \in Threads : Progress(t)) /\ CoreOwned
    BY Zenon DEF R3Inv
  <1>3. Ring3Typed'
    <2>1. at' \in [Threads -> Nat \ {0}]
      BY Zenon, <1>a, <1>2 DEF Ring3Typed, Quiet
    <2> QED BY Zenon, <1>2, <2>1 DEF Ring3Typed, Quiet, coreVars
  <1>4. ASSUME NEW t \in Threads PROVE Progress(t)'
    <2>1. CASE t # cur
      <3>1. Untouched(t)
        BY Zenon, <1>2, <2>1 DEF Untouched, Quiet, Ring3Typed
      <3> QED BY <1>2, <3>1, UntouchedKept, Zenon
    <2>2. CASE t = cur
      <3>1. PortsBefore(prog[cur], a + 1) = PortsBefore(prog[cur], a)
        <4>1. prog[cur] \in DOMAIN Script
          BY <1>1, <1>2, ScriptOf, Zenon
        <4>2. PortsBefore(prog[cur], a + 1) = PortsBefore(prog[cur], a) \cup {}
          BY <1>1, <4>1, PortsOneOn, Zenon
        <4> QED BY Zenon, <4>2
      <3>2. /\ at'[cur] = a + 1 /\ prog' = prog /\ mode' = mode /\ ports' = ports /\ recorded' = recorded
            /\ kstack' = kstack /\ saved' = saved /\ ursp' = ursp
        BY Zenon, <1>1, <1>2 DEF Ring3Typed, Quiet
      <3>3. InStep(cur, prog[cur], a, "setup", ports[cur], recorded[cur], kstack[cur], saved[cur], ursp[cur])
        BY <1>1, <1>2, Zenon DEF Progress
      <3>4. InStep(cur, prog[cur], a + 1, "setup", ports[cur], recorded[cur], kstack[cur], saved[cur], ursp[cur])
        BY Zenon, <1>1, <1>a, <3>1, <3>3 DEF InStep
      <3> QED BY <1>1, <2>2, <3>2, <3>4, Zenon DEF Progress
    <2> QED BY Zenon, <2>1, <2>2
  <1>5. CoreOwned'
    <2>1. \A t \in Threads : AtRecord(t)' <=> AtRecord(t)
      <3>1. ASSUME NEW t \in Threads, t = cur PROVE ~AtRecord(t) /\ ~AtRecord(t)'
        <4>1. at'[cur] = a + 1 /\ prog' = prog /\ a # n - 1 /\ a + 1 # n - 1
          BY Zenon, <1>1, <1>a, <1>2 DEF Quiet, Ring3Typed
        <4>2. at[t] # Size(prog[t]) - 1 /\ at'[t] # Size(prog'[t]) - 1
          BY Zenon, <3>1, <4>1
        <4> QED BY Zenon, <4>2 DEF AtRecord
      <3>2. ASSUME NEW t \in Threads, t # cur PROVE AtRecord(t)' <=> AtRecord(t)
        BY Zenon, <1>2, <3>2 DEF AtRecord, Quiet, Ring3Typed
      <3> QED BY Zenon, <3>1, <3>2
    <2> QED BY <1>1, <1>2, <2>1, Zenon DEF CoreOwned, Quiet, coreVars, Space, Ports
  <1> QED BY <1>3, <1>4, <1>5, Zenon DEF R3Inv

(* allow_port_for_current.                                                 *)
LEMMA PortStep ==
  ASSUME R3Inv, GrantPort
  PROVE  R3Inv'
  <1> DEFINE a == at[cur]
             n == Size(prog[cur])
             p == prog[cur]
  <1>1. /\ cur \in Threads /\ mode[cur] = "setup" /\ a \in 1 .. n /\ n \in Nat /\ n > 2
        /\ Script[p][a].op = "port" /\ a <= n - 3
    <2>1. AtStep("port") /\ "port" \notin Marks
      BY Zenon DEF GrantPort, Marks
    <2> QED BY <2>1, StepsInOrder, Zenon
  <1>a. /\ a + 1 \in Nat \ {0}
        /\ a <= n - 3 => a + 1 <= n /\ a < n /\ a + 1 < n /\ ~(a + 1 >= n) /\ a # n - 1 /\ a + 1 # n - 1
        /\ a = n - 2 => a + 1 <= n /\ a < n /\ a + 1 < n /\ ~(a + 1 >= n) /\ a # n - 1 /\ a + 1 = n - 1
        /\ a = n - 1 => a + 1 <= n /\ a < n /\ ~(a + 1 < n) /\ a + 1 >= n /\ a + 1 # n - 1
        /\ a = n => a >= n /\ a + 1 = n + 1 /\ ~(a + 1 < n) /\ a + 1 >= n /\ a # n - 1 /\ a + 1 # n - 1
    BY Zenon, <1>1, StepArith
  <1>2. Ring3Typed /\ (\A t \in Threads : Progress(t)) /\ CoreOwned
    BY Zenon DEF R3Inv
  <1>3. /\ at' = [at EXCEPT ![cur] = @ + 1] /\ ports' = [ports EXCEPT ![cur] = @ \cup {Script[p][a].arg}]
        /\ iopb' = ports'[cur]
        /\ UNCHANGED <<prog, mode, recorded, ursp, kstack, saved, cut, cur, queue, cr3, rsp0, kernelRsp, gs>>
    BY Zenon DEF GrantPort, Advance, Arg
  <1>4. Ring3Typed'
    <2>1. at' \in [Threads -> Nat \ {0}]
      BY Zenon, <1>a, <1>2, <1>3 DEF Ring3Typed
    <2> QED BY Zenon, <1>1, <1>2, <1>3, <2>1 DEF Ring3Typed
  <1>5. ASSUME NEW t \in Threads PROVE Progress(t)'
    <2>1. CASE t # cur
      <3>1. Untouched(t)
        BY Zenon, <1>2, <1>3, <2>1 DEF Untouched, Ring3Typed
      <3> QED BY <1>2, <3>1, UntouchedKept, Zenon
    <2>2. CASE t = cur
      <3>1. p \in DOMAIN Script
        BY <1>1, <1>2, ScriptOf, Zenon
      <3>2. PortsBefore(p, a + 1) = PortsBefore(p, a) \cup {Script[p][a].arg}
        BY <1>1, <3>1, PortsOneOn, Zenon
      <3>3. /\ at'[cur] = a + 1 /\ prog' = prog /\ mode' = mode /\ ports'[cur] = ports[cur] \cup {Script[p][a].arg}
            /\ recorded' = recorded /\ kstack' = kstack /\ saved' = saved /\ ursp' = ursp
        BY Zenon, <1>1, <1>2, <1>3 DEF Ring3Typed
      <3>4. InStep(cur, p, a, "setup", ports[cur], recorded[cur], kstack[cur], saved[cur], ursp[cur])
        BY <1>1, <1>2, Zenon DEF Progress
      <3>5. InStep(cur, p, a + 1, "setup", ports[cur] \cup {Script[p][a].arg}, recorded[cur], kstack[cur], saved[cur], ursp[cur])
        BY Zenon, <1>1, <1>a, <3>2, <3>4 DEF InStep
      <3> QED BY <1>1, <2>2, <3>3, <3>5, Zenon DEF Progress
    <2> QED BY Zenon, <2>1, <2>2
  <1>6. CoreOwned'
    <2>1. \A t \in Threads : AtRecord(t)' <=> AtRecord(t)
      <3>1. ASSUME NEW t \in Threads, t = cur PROVE ~AtRecord(t) /\ ~AtRecord(t)'
        <4>1. at'[cur] = a + 1 /\ prog' = prog /\ a # n - 1 /\ a + 1 # n - 1
          BY Zenon, <1>1, <1>a, <1>2, <1>3 DEF Ring3Typed
        <4>2. at[t] # Size(prog[t]) - 1 /\ at'[t] # Size(prog'[t]) - 1
          BY Zenon, <3>1, <4>1
        <4> QED BY Zenon, <4>2 DEF AtRecord
      <3>2. ASSUME NEW t \in Threads, t # cur PROVE AtRecord(t)' <=> AtRecord(t)
        BY Zenon, <1>2, <1>3, <3>2 DEF AtRecord, Ring3Typed
      <3> QED BY Zenon, <3>1, <3>2
    <2>2. cur # "main"
      BY Zenon, <1>1, Ring3Constants
    <2>3. Ports(cur)' = ports'[cur] /\ Space(cur)' = Space(cur) /\ cur' = cur
      BY Zenon, <1>3, <2>2 DEF Ports, Space
    <2> QED BY <1>1, <1>2, <1>3, <2>1, <2>3, Zenon DEF CoreOwned
  <1> QED BY <1>4, <1>5, <1>6, Zenon DEF R3Inv

(* switch_address_space, set_current_address_space and enter_user_mode.    *)
LEMMA SwitchStep ==
  ASSUME R3Inv, SwitchSpace
  PROVE  R3Inv'
  <1> DEFINE a == at[cur]
             n == Size(prog[cur])
             p == prog[cur]
  <1>1. /\ cur \in Threads /\ mode[cur] = "setup" /\ a \in 1 .. n /\ n \in Nat /\ n > 2
        /\ Script[p][a].op = "switch" /\ a = n - 2
    BY StepsInOrder, Zenon DEF SwitchSpace
  <1>a. /\ a + 1 \in Nat \ {0}
        /\ a <= n - 3 => a + 1 <= n /\ a < n /\ a + 1 < n /\ ~(a + 1 >= n) /\ a # n - 1 /\ a + 1 # n - 1
        /\ a = n - 2 => a + 1 <= n /\ a < n /\ a + 1 < n /\ ~(a + 1 >= n) /\ a # n - 1 /\ a + 1 = n - 1
        /\ a = n - 1 => a + 1 <= n /\ a < n /\ ~(a + 1 < n) /\ a + 1 >= n /\ a + 1 # n - 1
        /\ a = n => a >= n /\ a + 1 = n + 1 /\ ~(a + 1 < n) /\ a + 1 >= n /\ a # n - 1 /\ a + 1 # n - 1
    BY Zenon, <1>1, StepArith
  <1>2. Ring3Typed /\ (\A t \in Threads : Progress(t)) /\ CoreOwned
    BY Zenon DEF R3Inv
  <1>3. /\ at' = [at EXCEPT ![cur] = @ + 1] /\ cr3' = cur
        /\ UNCHANGED <<prog, mode, recorded, ports, ursp, kstack, saved, cut, cur, queue, iopb, rsp0, kernelRsp, gs>>
    BY Zenon DEF SwitchSpace, Advance
  <1>4. Ring3Typed'
    <2>1. at' \in [Threads -> Nat \ {0}]
      BY Zenon, <1>a, <1>2, <1>3 DEF Ring3Typed
    <2> QED BY Zenon, <1>1, <1>2, <1>3, <2>1 DEF Ring3Typed
  <1>5. ASSUME NEW t \in Threads PROVE Progress(t)'
    <2>1. CASE t # cur
      <3>1. Untouched(t)
        BY Zenon, <1>2, <1>3, <2>1 DEF Untouched, Ring3Typed
      <3> QED BY <1>2, <3>1, UntouchedKept, Zenon
    <2>2. CASE t = cur
      <3>1. p \in DOMAIN Script
        BY <1>1, <1>2, ScriptOf, Zenon
      <3>2. PortsBefore(p, a + 1) = PortsBefore(p, a)
        <4>1. "switch" # "port"
          BY Zenon
        <4>2. PortsBefore(p, a + 1) = PortsBefore(p, a) \cup {}
          BY <1>1, <3>1, <4>1, PortsOneOn, Zenon
        <4> QED BY Zenon, <4>2
      <3>3. /\ at'[cur] = a + 1 /\ prog' = prog /\ mode' = mode /\ ports' = ports
            /\ recorded' = recorded /\ kstack' = kstack /\ saved' = saved /\ ursp' = ursp
        BY Zenon, <1>1, <1>2, <1>3 DEF Ring3Typed
      <3>4. InStep(cur, p, a, "setup", ports[cur], recorded[cur], kstack[cur], saved[cur], ursp[cur])
        BY <1>1, <1>2, Zenon DEF Progress
      <3>5. InStep(cur, p, a + 1, "setup", ports[cur], recorded[cur], kstack[cur], saved[cur], ursp[cur])
        BY Zenon, <1>1, <1>a, <3>2, <3>4 DEF InStep
      <3> QED BY <1>1, <2>2, <3>3, <3>5, Zenon DEF Progress
    <2> QED BY Zenon, <2>1, <2>2
  <1>6. CoreOwned'
    <2>1. \A t \in Threads : t # cur => (AtRecord(t)' <=> AtRecord(t))
      BY Zenon, <1>1, <1>2, <1>3 DEF AtRecord, Ring3Typed
    <2>2. AtRecord(cur)'
      BY Zenon, <1>1, <1>a, <1>2, <1>3 DEF AtRecord, Ring3Typed
    <2> QED BY <1>1, <1>2, <1>3, <2>1, <2>2, Zenon DEF CoreOwned, Ports
  <1> QED BY <1>4, <1>5, <1>6, Zenon DEF R3Inv

LEMMA RecordStep ==
  ASSUME R3Inv, RecordSpace
  PROVE  R3Inv'
  <1> DEFINE a == at[cur]
             n == Size(prog[cur])
             p == prog[cur]
  <1>1. /\ cur \in Threads /\ mode[cur] = "setup" /\ a \in 1 .. n /\ n \in Nat /\ n > 2
        /\ Script[p][a].op = "record" /\ a = n - 1
    BY StepsInOrder, Zenon DEF RecordSpace
  <1>a. /\ a + 1 \in Nat \ {0}
        /\ a <= n - 3 => a + 1 <= n /\ a < n /\ a + 1 < n /\ ~(a + 1 >= n) /\ a # n - 1 /\ a + 1 # n - 1
        /\ a = n - 2 => a + 1 <= n /\ a < n /\ a + 1 < n /\ ~(a + 1 >= n) /\ a # n - 1 /\ a + 1 = n - 1
        /\ a = n - 1 => a + 1 <= n /\ a < n /\ ~(a + 1 < n) /\ a + 1 >= n /\ a + 1 # n - 1
        /\ a = n => a >= n /\ a + 1 = n + 1 /\ ~(a + 1 < n) /\ a + 1 >= n /\ a # n - 1 /\ a + 1 # n - 1
    BY Zenon, <1>1, StepArith
  <1>2. Ring3Typed /\ (\A t \in Threads : Progress(t)) /\ CoreOwned
    BY Zenon DEF R3Inv
  <1>3. /\ at' = [at EXCEPT ![cur] = @ + 1] /\ recorded' = [recorded EXCEPT ![cur] = cur]
        /\ UNCHANGED <<prog, mode, ports, ursp, kstack, saved, cut, cur, queue, cr3, iopb, rsp0, kernelRsp, gs>>
    BY Zenon DEF RecordSpace, Advance, coreVars
  <1>4. Ring3Typed'
    <2>1. at' \in [Threads -> Nat \ {0}]
      BY Zenon, <1>a, <1>2, <1>3 DEF Ring3Typed
    <2> QED BY Zenon, <1>1, <1>2, <1>3, <2>1 DEF Ring3Typed
  <1>5. ASSUME NEW t \in Threads PROVE Progress(t)'
    <2>1. CASE t # cur
      <3>1. Untouched(t)
        BY Zenon, <1>2, <1>3, <2>1 DEF Untouched, Ring3Typed
      <3> QED BY <1>2, <3>1, UntouchedKept, Zenon
    <2>2. CASE t = cur
      <3>1. p \in DOMAIN Script
        BY <1>1, <1>2, ScriptOf, Zenon
      <3>2. PortsBefore(p, a + 1) = PortsBefore(p, a)
        <4>1. "record" # "port"
          BY Zenon
        <4>2. PortsBefore(p, a + 1) = PortsBefore(p, a) \cup {}
          BY <1>1, <3>1, <4>1, PortsOneOn, Zenon
        <4> QED BY Zenon, <4>2
      <3>3. /\ at'[cur] = a + 1 /\ prog' = prog /\ mode' = mode /\ ports' = ports
            /\ recorded'[cur] = cur /\ kstack' = kstack /\ saved' = saved /\ ursp' = ursp
        BY Zenon, <1>1, <1>2, <1>3 DEF Ring3Typed
      <3>4. InStep(cur, p, a, "setup", ports[cur], recorded[cur], kstack[cur], saved[cur], ursp[cur])
        BY <1>1, <1>2, Zenon DEF Progress
      <3>5. InStep(cur, p, a + 1, "setup", ports[cur], cur, kstack[cur], saved[cur], ursp[cur])
        BY Zenon, <1>1, <1>a, <3>2, <3>4 DEF InStep
      <3> QED BY <1>1, <2>2, <3>3, <3>5, Zenon DEF Progress
    <2> QED BY Zenon, <2>1, <2>2
  <1>6. CoreOwned'
    <2>1. \A t \in Threads : t # cur => (AtRecord(t)' <=> AtRecord(t))
      BY Zenon, <1>1, <1>2, <1>3 DEF AtRecord, Ring3Typed
    <2>2. AtRecord(cur) /\ ~AtRecord(cur)'
      BY Zenon, <1>1, <1>a, <1>2, <1>3 DEF AtRecord, Ring3Typed
    <2>3. cur # "main" /\ recorded'[cur] = cur
      BY Zenon, <1>1, <1>2, <1>3, Ring3Constants DEF Ring3Typed
    <2>4. mode[cur] # "gone"
      BY Zenon, <1>1
    <2> QED BY <1>1, <1>2, <1>3, <2>1, <2>2, <2>3, <2>4, Zenon DEF CoreOwned, Ports, Space
  <1> QED BY <1>4, <1>5, <1>6, Zenon DEF R3Inv

LEMMA EnterStep ==
  ASSUME R3Inv, EnterUser
  PROVE  R3Inv'
  <1> DEFINE a == at[cur]
             n == Size(prog[cur])
             p == prog[cur]
  <1>1. /\ cur \in Threads /\ mode[cur] = "setup" /\ a \in 1 .. n /\ n \in Nat /\ n > 2
        /\ Script[p][a].op = "enter" /\ a = n
    BY StepsInOrder, Zenon DEF EnterUser
  <1>a. /\ a + 1 \in Nat \ {0}
        /\ a <= n - 3 => a + 1 <= n /\ a < n /\ a + 1 < n /\ ~(a + 1 >= n) /\ a # n - 1 /\ a + 1 # n - 1
        /\ a = n - 2 => a + 1 <= n /\ a < n /\ a + 1 < n /\ ~(a + 1 >= n) /\ a # n - 1 /\ a + 1 = n - 1
        /\ a = n - 1 => a + 1 <= n /\ a < n /\ ~(a + 1 < n) /\ a + 1 >= n /\ a + 1 # n - 1
        /\ a = n => a >= n /\ a + 1 = n + 1 /\ ~(a + 1 < n) /\ a + 1 >= n /\ a # n - 1 /\ a + 1 # n - 1
    BY Zenon, <1>1, StepArith
  <1>2. Ring3Typed /\ (\A t \in Threads : Progress(t)) /\ CoreOwned
    BY Zenon DEF R3Inv
  <1>3. /\ at' = [at EXCEPT ![cur] = @ + 1] /\ mode' = [mode EXCEPT ![cur] = "user"] /\ ursp' = [ursp EXCEPT ![cur] = cur]
        /\ UNCHANGED <<prog, recorded, ports, kstack, saved, cut, cur, queue, cr3, iopb, rsp0, kernelRsp, gs>>
    BY Zenon DEF EnterUser, Advance, coreVars
  <1>4. Ring3Typed'
    <2>1. at' \in [Threads -> Nat \ {0}]
      BY Zenon, <1>a, <1>2, <1>3 DEF Ring3Typed
    <2> QED BY Zenon, <1>1, <1>2, <1>3, <2>1 DEF Ring3Typed
  <1>5. ASSUME NEW t \in Threads PROVE Progress(t)'
    <2>1. CASE t # cur
      <3>1. Untouched(t)
        BY Zenon, <1>2, <1>3, <2>1 DEF Untouched, Ring3Typed
      <3> QED BY <1>2, <3>1, UntouchedKept, Zenon
    <2>2. CASE t = cur
      <3>1. p \in DOMAIN Script
        BY <1>1, <1>2, ScriptOf, Zenon
      <3>2. PortsBefore(p, a + 1) = PortsBefore(p, a)
        <4>1. "enter" # "port"
          BY Zenon
        <4>2. PortsBefore(p, a + 1) = PortsBefore(p, a) \cup {}
          BY <1>1, <3>1, <4>1, PortsOneOn, Zenon
        <4> QED BY Zenon, <4>2
      <3>3. /\ at'[cur] = a + 1 /\ prog' = prog /\ mode'[cur] = "user" /\ ports' = ports
            /\ recorded' = recorded /\ kstack' = kstack /\ saved' = saved /\ ursp'[cur] = cur
        BY Zenon, <1>1, <1>2, <1>3 DEF Ring3Typed
      <3>4. InStep(cur, p, a, "setup", ports[cur], recorded[cur], kstack[cur], saved[cur], ursp[cur])
        BY <1>1, <1>2, Zenon DEF Progress
      <3>5. InStep(cur, p, a + 1, "user", ports[cur], recorded[cur], kstack[cur], saved[cur], cur)
        BY Zenon, <1>1, <1>a, <3>2, <3>4 DEF InStep
      <3> QED BY <1>1, <2>2, <3>3, <3>5, Zenon DEF Progress
    <2> QED BY Zenon, <2>1, <2>2
  <1>6. CoreOwned'
    <2>1. \A t \in Threads : t # cur => (AtRecord(t)' <=> AtRecord(t))
      BY Zenon, <1>1, <1>2, <1>3 DEF AtRecord, Ring3Typed
    <2>2. ~AtRecord(cur) /\ ~AtRecord(cur)' /\ mode[cur] # "gone"
      BY Zenon, <1>1, <1>a, <1>2, <1>3 DEF AtRecord, Ring3Typed
    <2> QED BY <1>1, <1>2, <1>3, <2>1, <2>2, Zenon DEF CoreOwned, Ports, Space
  <1> QED BY <1>4, <1>5, <1>6, Zenon DEF R3Inv

(* A system call: no thread changes but the one on the core, which stays   *)
(* past its set-up.                                                        *)
InDispatch ==
  /\ \A t \in Threads : t # cur => /\ mode'[t] = mode[t] /\ kstack'[t] = kstack[t]
                                  /\ saved'[t] = saved[t] /\ ursp'[t] = ursp[t]
  /\ mode' \in [Threads -> {"setup", "user", "dispatch", "halted", "gone"}]
  /\ DOMAIN kstack' = Threads /\ DOMAIN ursp' = Threads /\ DOMAIN saved' = All
  /\ UNCHANGED <<prog, at, recorded, ports, cut, cur, queue, cr3, iopb, rsp0, kernelRsp, gs>>

LEMMA DispatchStep ==
  ASSUME R3Inv, cur \in Threads, mode[cur] \in {"user", "dispatch", "halted"}, InDispatch,
         mode'[cur] \in {"user", "dispatch", "halted"},
         mode'[cur] \in {"dispatch", "halted"} => kstack'[cur] = cur /\ saved'[cur] = cur,
         mode'[cur] = "user" => ursp'[cur] = cur
  PROVE  R3Inv'
  <1>1. Ring3Typed /\ (\A t \in Threads : Progress(t)) /\ CoreOwned
    BY Zenon DEF R3Inv
  <1>2. Ring3Typed'
    BY Zenon, <1>1 DEF Ring3Typed, InDispatch
  <1>3. ASSUME NEW t \in Threads PROVE Progress(t)'
    <2>1. CASE t # cur
      <3>1. Untouched(t)
        BY Zenon, <1>1, <2>1 DEF Untouched, Ring3Typed, InDispatch, All
      <3> QED BY <1>1, <3>1, UntouchedKept, Zenon
    <2>2. CASE t = cur
      <3>1. InStep(cur, prog[cur], at[cur], mode[cur], ports[cur], recorded[cur], kstack[cur], saved[cur], ursp[cur])
        BY <1>1, Zenon DEF Progress
      <3>2. PICK m, k, s, u : m = mode'[cur] /\ k = kstack'[cur] /\ s = saved'[cur] /\ u = ursp'[cur]
        BY Zenon
      <3>3. Size(prog[cur]) \in Nat
        BY <1>1, ScriptOf, Zenon
      <3>4. InStep(cur, prog[cur], at[cur], m, ports[cur], recorded[cur], k, s, u)
        BY Zenon, <3>1, <3>2, <3>3 DEF InStep
      <3>5. prog' = prog /\ at' = at /\ ports' = ports /\ recorded' = recorded
        BY Zenon DEF InDispatch
      <3> QED BY <2>2, <3>2, <3>4, <3>5, Zenon DEF Progress
    <2> QED BY Zenon, <2>1, <2>2
  <1>4. CoreOwned'
    <2>1. \A t \in Threads : t # cur => (AtRecord(t)' <=> AtRecord(t))
      BY Zenon, <1>1 DEF AtRecord, Ring3Typed, InDispatch
    <2>2. ~AtRecord(cur) /\ ~AtRecord(cur)' /\ mode[cur] # "gone" /\ cur' = cur
      BY Zenon, <1>1 DEF AtRecord, Ring3Typed, InDispatch
    <2>3. Ports(cur)' = Ports(cur) /\ Space(cur)' = Space(cur)
      BY Zenon DEF InDispatch, Ports, Space
    <2> QED BY <1>1, <2>1, <2>2, <2>3, Zenon DEF CoreOwned, InDispatch
  <1> QED BY <1>2, <1>3, <1>4, Zenon DEF R3Inv

LEMMA SyscallSteps ==
  ASSUME R3Inv, SyscallEntry \/ Halt \/ Wake \/ SyscallExit
  PROVE  R3Inv'
  <1>1. Ring3Typed /\ (\A t \in Threads : Progress(t)) /\ CoreOwned
    BY Zenon DEF R3Inv
  <1>2. cur # "main" => cur \in Threads
    BY Zenon, <1>1 DEF Ring3Typed, All
  <1>3. ASSUME cur \in Threads
        PROVE  mode[cur] \in {"dispatch", "halted"} => kstack[cur] = cur /\ saved[cur] = cur
    BY <1>1, <1>3, Zenon DEF Progress, InStep
  <1>4. CASE SyscallEntry
    <2>1. cur \in Threads /\ mode[cur] = "user" /\ cur # None
      BY Zenon, <1>2, <1>4, Ring3Constants DEF SyscallEntry, Runs
    <2>2. ursp[cur] = cur
      BY <1>1, <2>1, Zenon DEF Progress, InStep
    <2>3. gs = "user" /\ kernelRsp = cur
      BY <1>1, Zenon DEF CoreOwned
    <2>4. kstack' = [kstack EXCEPT ![cur] = cur] /\ saved' = [saved EXCEPT ![cur] = cur]
      BY Zenon, <1>4, <2>1, <2>2, <2>3 DEF SyscallEntry, Swapgs, StackOf
    <2>5. gs' = gs
      BY Zenon, <1>4, <2>3 DEF SyscallEntry, GsInDispatch, Swapgs
    <2>6. mode' = [mode EXCEPT ![cur] = "dispatch"] /\ ursp' = ursp
          /\ UNCHANGED <<prog, at, recorded, ports, cut, cur, queue, cr3, iopb, rsp0, kernelRsp>>
      BY <1>4, Zenon DEF SyscallEntry
    <2>7. InDispatch /\ mode'[cur] = "dispatch" /\ kstack'[cur] = cur /\ saved'[cur] = cur
      BY Zenon, <1>1, <2>1, <2>4, <2>5, <2>6 DEF InDispatch, Ring3Typed, All
    <2>8. mode'[cur] \in {"user", "dispatch", "halted"} /\ mode'[cur] # "user" /\ mode[cur] \in {"user", "dispatch", "halted"}
      BY Zenon, <2>1, <2>7
    <2> QED BY <2>1, <2>7, <2>8, DispatchStep, Zenon
  <1>5. CASE Halt \/ Wake
    <2>1. cur \in Threads /\ mode[cur] \in {"dispatch", "halted"}
      BY Zenon, <1>2, <1>5 DEF Halt, Wake
    <2>2. /\ mode' = [mode EXCEPT ![cur] = "dispatch"] \/ mode' = [mode EXCEPT ![cur] = "halted"]
          /\ UNCHANGED <<prog, at, recorded, ports, ursp, kstack, saved, cut, cur, queue, cr3, iopb, rsp0, kernelRsp, gs>>
      BY <1>5, Zenon DEF Halt, Wake, coreVars
    <2>3. InDispatch /\ mode'[cur] \in {"dispatch", "halted"} /\ kstack' = kstack /\ saved' = saved
      BY Zenon, <1>1, <2>1, <2>2 DEF InDispatch, Ring3Typed, All
    <2>4. mode'[cur] \in {"user", "dispatch", "halted"} /\ mode'[cur] # "user" /\ mode[cur] \in {"user", "dispatch", "halted"}
      BY Zenon, <2>1, <2>3
    <2> QED BY <1>3, <2>1, <2>3, <2>4, DispatchStep, Zenon
  <1>6. CASE SyscallExit
    <2>1. cur \in Threads /\ mode[cur] = "dispatch"
      BY Zenon, <1>2, <1>6 DEF SyscallExit
    <2>2. kstack[cur] = cur /\ saved[cur] = cur
      BY Zenon, <1>3, <2>1
    <2>3. /\ mode' = [mode EXCEPT ![cur] = "user"] /\ ursp' = [ursp EXCEPT ![cur] = cur]
          /\ kstack' = [kstack EXCEPT ![cur] = None] /\ saved' = saved
          /\ UNCHANGED <<prog, at, recorded, ports, cut, cur, queue, cr3, iopb, rsp0, kernelRsp>>
      BY <1>6, <2>2, Zenon DEF SyscallExit, StackOf
    <2>4. gs' = gs
      BY Zenon, <1>1, <1>6 DEF SyscallExit, Swapgs, CoreOwned
    <2>5. InDispatch /\ mode'[cur] = "user" /\ ursp'[cur] = cur
      BY Zenon, <1>1, <2>1, <2>3, <2>4 DEF InDispatch, Ring3Typed, All
    <2>6. /\ mode'[cur] \in {"user", "dispatch", "halted"} /\ mode'[cur] \notin {"dispatch", "halted"}
          /\ mode[cur] \in {"user", "dispatch", "halted"}
      BY Zenon, <2>1, <2>5
    <2> QED BY <2>1, <2>5, <2>6, DispatchStep, Zenon
  <1> QED BY Zenon, <1>4, <1>5, <1>6

LEMMA HeadTail == ASSUME NEW rest \in Seq(All), rest # <<>> PROVE Head(rest) \in All /\ Tail(rest) \in Seq(All)
  OBVIOUS

LEMMA AppendAll == ASSUME NEW q \in Seq(All), NEW t \in All PROVE Append(q, t) \in Seq(All)
  OBVIOUS

(* A context switch: the next thread gets what switch_to loads for it; one *)
(* that is taken off the core between CR3 and its record is noted in cut.  *)
LEMMA CoreSwitched ==
  ASSUME Ring3Typed, CoreOwned, NEW rest \in Seq(All), SwitchTo(rest),
         UNCHANGED <<prog, at, recorded, ports>>, cut \subseteq cut',
         \A t \in Threads : AtRecord(t)' => AtRecord(t) /\ (t = cur => t \in cut')
  PROVE  CoreOwned' /\ cur' \in All /\ queue' \in Seq(All)
  <1>1. PICK n \in All : /\ cur' = n /\ kernelRsp' = n /\ rsp0' = n /\ iopb' = Ports(n) /\ cr3' = Space(n) /\ gs' = gs
                         /\ queue' \in Seq(All)
    BY HeadTail, Zenon DEF SwitchTo, LoadCore
  <1>2. Ports(n)' = Ports(n) /\ Space(n)' = Space(n)
    BY Zenon DEF Ports, Space
  <1>3. gs = "user" /\ \A t \in Threads : t # cur /\ AtRecord(t) => t \in cut
    BY Zenon DEF CoreOwned
  <1>4. \A t \in Threads : AtRecord(t)' => t \in cut'
    BY <1>3, Zenon
  <1>5. CoreOwned'
    <2>1. rsp0' = cur' /\ kernelRsp' = cur' /\ gs' = "user" /\ iopb' = Ports(cur)'
      BY <1>1, <1>2, <1>3, Zenon
    <2>2. cur' \in Threads /\ cur' \notin cut' => cr3' = Space(cur)' /\ ~AtRecord(cur)'
      BY <1>1, <1>2, <1>4, Zenon
    <2> QED BY <1>4, <2>1, <2>2, Zenon DEF CoreOwned
  <1> QED BY Zenon, <1>1, <1>5

LEMMA PreemptStep ==
  ASSUME R3Inv, Preempt \/ Yield
  PROVE  R3Inv'
  <1>1. Ring3Typed /\ (\A t \in Threads : Progress(t)) /\ CoreOwned
    BY Zenon DEF R3Inv
  <1>2. PICK rest : rest = Append(queue, cur)
    BY Zenon
  <1>3. rest \in Seq(All) /\ SwitchTo(rest)
    BY Zenon, <1>1, <1>2, AppendAll DEF Ring3Typed, Preempt, Yield
  <1>4. /\ UNCHANGED <<prog, at, mode, recorded, ports, ursp, kstack, saved>>
        /\ cut \subseteq cut'
    BY Zenon DEF Preempt, Yield, processVars
  <1>5. ASSUME NEW t \in Threads, AtRecord(t)' PROVE AtRecord(t) /\ (t = cur => t \in cut')
    <2>1. AtRecord(t)
      BY <1>4, <1>5, Zenon DEF AtRecord
    <2>2. ASSUME t = cur PROVE t \in cut'
      <3>1. mode[cur] = "setup" /\ at[cur] = Size(prog[cur]) - 1 /\ cur # "main"
        BY Zenon, <2>1, <2>2, Ring3Constants DEF AtRecord
      <3>2. Script[prog[cur]][at[cur]].op = "record"
        <4>1. Ready(Script[prog[cur]])
          BY <1>1, <2>2, ScriptOf, Zenon
        <4> QED BY <3>1, <4>1, Zenon DEF Ready, Size
      <3>3. AtStep("record") /\ mode[cur] # "dispatch"
        BY Zenon, <3>1, <3>2 DEF AtStep
      <3> QED BY Zenon, <2>2, <3>3 DEF Preempt, Yield
    <2> QED BY Zenon, <2>1, <2>2
  <1>6. CoreOwned' /\ cur' \in All /\ queue' \in Seq(All)
    BY <1>1, <1>3, <1>4, <1>5, CoreSwitched, Zenon
  <1>7. Ring3Typed'
    BY Zenon, <1>1, <1>4, <1>6 DEF Ring3Typed
  <1>8. ASSUME NEW t \in Threads PROVE Progress(t)'
    <2>1. Untouched(t)
      BY <1>4, Zenon DEF Untouched
    <2> QED BY <1>1, <2>1, UntouchedKept, Zenon
  <1> QED BY <1>6, <1>7, <1>8, Zenon DEF R3Inv

LEMMA LeaveStep ==
  ASSUME R3Inv, LoadRefused \/ Exit
  PROVE  R3Inv'
  <1>1. Ring3Typed /\ (\A t \in Threads : Progress(t)) /\ CoreOwned
    BY Zenon DEF R3Inv
  <1>2. cur \in Threads
    BY Zenon, <1>1 DEF Ring3Typed, All, LoadRefused, Exit, AtStep
  <1>3. /\ SwitchTo(queue) /\ mode' = [mode EXCEPT ![cur] = "gone"]
        /\ UNCHANGED <<prog, at, recorded, ports, kstack, saved, cut>>
        /\ ursp' = ursp \/ ursp' = [ursp EXCEPT ![cur] = None]
    BY Zenon DEF LoadRefused, Exit, Leave
  <1>4. mode'[cur] = "gone" /\ \A t \in Threads : t # cur => mode'[t] = mode[t] /\ ursp'[t] = ursp[t]
    BY Zenon, <1>1, <1>2, <1>3 DEF Ring3Typed
  <1>5. ASSUME NEW t \in Threads, AtRecord(t)' PROVE AtRecord(t) /\ (t = cur => t \in cut')
    BY Zenon, <1>3, <1>4, <1>5 DEF AtRecord
  <1>6. CoreOwned' /\ cur' \in All /\ queue' \in Seq(All)
    BY <1>1, <1>3, <1>5, CoreSwitched, Zenon DEF Ring3Typed
  <1>7. Ring3Typed'
    BY Zenon, <1>1, <1>2, <1>3, <1>6 DEF Ring3Typed
  <1>8. ASSUME NEW t \in Threads PROVE Progress(t)'
    <2>1. CASE t # cur
      <3>1. Untouched(t)
        BY <1>3, <1>4, <2>1, Zenon DEF Untouched
      <3> QED BY <1>1, <3>1, UntouchedKept, Zenon
    <2>2. CASE t = cur
      <3>1. ports[cur] = PortsBefore(prog[cur], at[cur])
        BY <1>1, <1>2, Zenon DEF Progress, InStep
      <3>2. PICK u : u = ursp'[cur]
        BY Zenon
      <3>3. InStep(cur, prog[cur], at[cur], "gone", ports[cur], recorded[cur], kstack[cur], saved[cur], u)
        BY Zenon, <3>1 DEF InStep
      <3> QED BY <1>3, <1>4, <2>2, <3>2, <3>3, Zenon DEF Progress
    <2> QED BY Zenon, <2>1, <2>2
  <1> QED BY <1>6, <1>7, <1>8, Zenon DEF R3Inv

LEMMA SpawnQueue == SpawnOrder \in Seq(All)
  <1>1. Cardinality(Threads) \in Nat /\ ExistsBijection(1 .. Cardinality(Threads), Threads)
    BY Ring3Constants, FS_CardinalityType, Zenon
  <1>2. PICK n \in Nat : n = Cardinality(Threads)
    BY Zenon, <1>1
  <1>3. PICK f : f \in Bijection(1 .. n, Threads)
    BY <1>1, <1>2, Zenon DEF ExistsBijection
  <1>4. f \in [1 .. n -> Threads] /\ \A i, j \in DOMAIN f : f[i] = f[j] => i = j
    BY Zenon, <1>3 DEF Bijection, Injection, IsInjective
  <1>5. SpawnOrder \in [1 .. n -> Threads]
    BY <1>2, <1>4, Zenon DEF SpawnOrder
  <1> QED BY <1>5 DEF All

LEMMA Ring3Start == Ring3Init => R3Inv
  <1> SUFFICES ASSUME Ring3Init PROVE R3Inv
    BY Zenon
  <1>1. Ring3Typed
    BY SpawnQueue DEF Ring3Init, Ring3Typed, All
  <1>2. \A t \in Threads : mode[t] = "setup" /\ at[t] = 1 /\ ports[t] = {} /\ recorded[t] = "kernel"
    BY Zenon DEF Ring3Init
  <1>3. ASSUME NEW t \in Threads PROVE Progress(t) /\ ~AtRecord(t)
    <2>1. Size(prog[t]) \in Nat /\ Size(prog[t]) > 2 /\ DOMAIN Script[prog[t]] = 1 .. Size(prog[t])
      BY <1>1, ScriptOf, Zenon
    <2>2. PortsBefore(prog[t], 1) = {}
      <3>1. \A j \in 1 .. Size(prog[t]) : ~(j < 1)
        BY <2>1
      <3> QED BY Zenon, <2>1, <3>1 DEF PortsBefore
    <2>3. PICK k, s, u : k = kstack[t] /\ s = saved[t] /\ u = ursp[t]
      BY Zenon
    <2>4. InStep(t, prog[t], 1, "setup", {}, "kernel", k, s, u)
      BY <2>1, <2>2 DEF InStep
    <2>5. Progress(t)
      BY <1>2, <2>3, <2>4, Zenon DEF Progress
    <2>6. ~AtRecord(t)
      BY <1>2, <2>1 DEF AtRecord
    <2> QED BY Zenon, <2>5, <2>6
  <1>4. CoreOwned
    BY Zenon, <1>3, Ring3Constants DEF Ring3Init, CoreOwned, Ports
  <1> QED BY <1>1, <1>3, <1>4, Zenon DEF R3Inv

(* Whatever programs are set up by however many threads, and wherever they *)
(* are preempted: a process in ring 3 has its own kernel stacks, ports and *)
(* user stack, and its own address space unless its set-up was preempted   *)
(* between switch_address_space and set_current_address_space.             *)
THEOREM OwnContextAlways == Ring3Spec => []OwnContext
  <1>1. R3Inv /\ [Ring3Next]_ring3Vars => R3Inv'
    <2> SUFFICES ASSUME R3Inv, [Ring3Next]_ring3Vars PROVE R3Inv'
      BY Zenon
    <2>1. CASE LoadImage \/ WriteChildProc \/ GrantSlot \/ WriteInfo \/ Enrolled \/ SetStacks
      <3>1. PICK op \in {"load", "image", "disk", "cap", "info", "enrol", "stacks"} : AtStep(op)
        BY Zenon, <2>1 DEF LoadImage, WriteChildProc, GrantSlot, WriteInfo, Enrolled, SetStacks
      <3>2. rsp0 = cur /\ kernelRsp = cur
        BY Zenon DEF R3Inv, CoreOwned
      <3>3. Quiet
        BY <2>1, <3>2, Zenon
           DEF LoadImage, WriteChildProc, GrantSlot, WriteInfo, Enrolled, SetStacks, Quiet, Advance, coreVars
      <3>4. op \notin Marks /\ op # "port"
        BY Zenon DEF Marks
      <3> QED BY <3>1, <3>3, <3>4, QuietStep, Zenon
    <2>2. CASE UNCHANGED ring3Vars
      <3>1. UNCHANGED <<prog, mode, at, recorded, ports, ursp, kstack, saved, cut, cur, queue, cr3, rsp0, kernelRsp, gs, iopb>>
        BY <2>2, Zenon DEF ring3Vars, processVars, coreVars
      <3> QED BY <3>1, Zenon DEF R3Inv, Ring3Typed, Progress, CoreOwned, AtRecord, Space, Ports
    <2> QED BY <2>1, <2>2, PortStep, SwitchStep, RecordStep, EnterStep, SyscallSteps, PreemptStep, LeaveStep, Zenon
            DEF Ring3Next
  <1>2. R3Inv => OwnContext
    <2> SUFFICES ASSUME R3Inv, NEW t \in Threads
                 PROVE  /\ InRing3(t) => /\ rsp0 = t /\ kernelRsp = t /\ gs = "user"
                                         /\ iopb = {Script[prog[t]][i].arg :
                                                      i \in {j \in DOMAIN Script[prog[t]] : Script[prog[t]][j].op = "port"}}
                                         /\ t \notin cut => cr3 = t
                        /\ mode[t] \in {"dispatch", "halted"} => kstack[t] = t
                        /\ mode[t] = "user" => ursp[t] = t
      BY Zenon DEF OwnContext
    <2>1. Ring3Typed /\ CoreOwned
          /\ InStep(t, prog[t], at[t], mode[t], ports[t], recorded[t], kstack[t], saved[t], ursp[t])
      BY Zenon DEF R3Inv, Progress
    <2>2. mode[t] \in {"dispatch", "halted"} => kstack[t] = t
      BY <2>1, Zenon DEF InStep
    <2>3. mode[t] = "user" => ursp[t] = t
      BY <2>1, Zenon DEF InStep
    <2>4. ASSUME InRing3(t)
          PROVE  /\ rsp0 = t /\ kernelRsp = t /\ gs = "user"
                 /\ iopb = {Script[prog[t]][i].arg :
                              i \in {j \in DOMAIN Script[prog[t]] : Script[prog[t]][j].op = "port"}}
                 /\ t \notin cut => cr3 = t
      <3>1. cur = t /\ mode[t] = "user" /\ t # "main" /\ mode[t] # "gone" /\ ~AtRecord(t)
        BY Zenon, <2>4, Ring3Constants DEF InRing3, AtRecord
      <3>2. Size(prog[t]) \in Nat /\ DOMAIN Script[prog[t]] = 1 .. Size(prog[t])
        BY <2>1, ScriptOf, Zenon
      <3>3. at[t] = Size(prog[t]) + 1 /\ ports[t] = PortsBefore(prog[t], at[t]) /\ recorded[t] = t
        <4>1. at[t] = Size(prog[t]) + 1 /\ ports[t] = PortsBefore(prog[t], at[t])
          BY Zenon, <2>1, <3>1 DEF InStep
        <4>2. at[t] >= Size(prog[t])
          BY Zenon, <3>2, <4>1, UpTo
        <4> QED BY Zenon, <2>1, <3>1, <4>1, <4>2 DEF InStep
      <3>4. rsp0 = t /\ kernelRsp = t /\ gs = "user" /\ iopb = ports[t] /\ (t \notin cut => cr3 = t)
        BY <2>1, <3>1, <3>3, Zenon DEF CoreOwned, Ports, Space
      <3>5. {j \in DOMAIN Script[prog[t]] : j < at[t] /\ Script[prog[t]][j].op = "port"} =
              {j \in DOMAIN Script[prog[t]] : Script[prog[t]][j].op = "port"}
        <4>1. \A j \in 1 .. Size(prog[t]) : j < at[t]
          BY Zenon, <3>2, <3>3, UpTo
        <4> QED BY Zenon, <3>2, <4>1
      <3> QED BY <3>3, <3>4, <3>5, Zenon DEF PortsBefore
    <2> QED BY Zenon, <2>2, <2>3, <2>4
  <1> QED BY <1>1, <1>2, Ring3Start, PTL DEF Ring3Spec
-----------------------------------------------------------------------------
(* The boot loader.  Where a step of prepare_boot stands in the script.    *)
Loads == Len(Segments)
Place(s) == CHOOSE i \in DOMAIN BootScript : BootScript[i] = s

BootTypeOK ==
  /\ step \in 1 .. Place("halted")
  /\ fwMap \in [BootPages -> {"free", "firmware", "loader"}]
  /\ DOMAIN contents = BootPages /\ tablePool \subseteq BootPages /\ poolPages \subseteq BootPages
  /\ fwKey \in Nat /\ heldKey \in Nat

\* The segments read so far stay where they were read to.
SegmentsKept ==
  step # Place("halted") =>
    \A i \in 1 .. Loads : i + 2 < step => \A p \in Segments[i] : fwMap[p] = "loader" /\ contents[p] = "kernel"

\* What was allocated stays allocated, and the tables' pages are no one else's.
PoolsKept ==
  /\ \A p \in tablePool \cup poolPages : fwMap[p] = "loader"
  /\ step <= Place("tables") => tablePool = {}
  /\ step # Place("halted") => tablePool \cap (KernelPages \cup poolPages) = {}

\* A key that is still valid means a map that is.
MapHeld ==
  /\ step = Place("exit") => heldKey <= fwKey /\ (heldKey = fwKey => infoMap = fwMap)
  /\ step \in Place("build") .. Place("kernel") => ~services /\ infoMap = fwMap

Verified ==
  step \in (Place("verify") + 1) .. Place("kernel") => image.entry \in KernelSpan /\ (image.signed => image.agrees)

TablesBuilt ==
  step \in Place("jump") .. Place("kernel") => bootTables.kernel = KernelSpan /\ bootTables.identity = BootPages

BootInv == BootTypeOK /\ SegmentsKept /\ PoolsKept /\ MapHeld /\ Verified /\ TablesBuilt

LEMMA LoadsNat == Loads \in Nat /\ DOMAIN Segments = 1 .. Loads
  BY BootAssumption DEF Loads

Names == {"root", "phdrs", "segment", "verify", "font header", "glyphs", "font", "framebuffer", "boot info", "tables",
          "probe", "allocate", "capture", "exit", "build", "jump", "kernel", "halted"}

LEMMA ConcatAt ==
  \A a, b \in Seq(Names) :
    /\ a \o b \in Seq(Names) /\ Len(a \o b) = Len(a) + Len(b)
    /\ \A i \in 1 .. Len(a) : (a \o b)[i] = a[i]
    /\ \A i \in 1 .. Len(b) : (a \o b)[Len(a) + i] = b[i]
  OBVIOUS

LEMMA LastSteps ==
  LET c == <<"verify", "font header", "glyphs", "font", "framebuffer", "boot info", "tables", "probe",
             "allocate", "capture", "exit", "build", "jump", "kernel", "halted">>
  IN  /\ c \in Seq(Names) /\ Len(c) = 15
      /\ c[1] = "verify" /\ c[2] = "font header" /\ c[3] = "glyphs" /\ c[4] = "font" /\ c[5] = "framebuffer"
      /\ c[6] = "boot info" /\ c[7] = "tables" /\ c[8] = "probe" /\ c[9] = "allocate" /\ c[10] = "capture"
      /\ c[11] = "exit" /\ c[12] = "build" /\ c[13] = "jump" /\ c[14] = "kernel" /\ c[15] = "halted"
  BY DEF Names

(* The script, place by place.                                             *)
LEMMA ScriptPlaces ==
  /\ DOMAIN BootScript = 1 .. Loads + 17
  /\ BootScript[1] = "root" /\ BootScript[2] = "phdrs"
  /\ \A i \in 3 .. Loads + 2 : BootScript[i] = "segment"
  /\ BootScript[Loads + 3] = "verify" /\ BootScript[Loads + 4] = "font header" /\ BootScript[Loads + 5] = "glyphs"
  /\ BootScript[Loads + 6] = "font" /\ BootScript[Loads + 7] = "framebuffer" /\ BootScript[Loads + 8] = "boot info"
  /\ BootScript[Loads + 9] = "tables" /\ BootScript[Loads + 10] = "probe" /\ BootScript[Loads + 11] = "allocate"
  /\ BootScript[Loads + 12] = "capture" /\ BootScript[Loads + 13] = "exit" /\ BootScript[Loads + 14] = "build"
  /\ BootScript[Loads + 15] = "jump" /\ BootScript[Loads + 16] = "kernel" /\ BootScript[Loads + 17] = "halted"
  <1> DEFINE a == <<"root", "phdrs">>
             b == [i \in DOMAIN Segments |-> "segment"]
             c == <<"verify", "font header", "glyphs", "font", "framebuffer", "boot info", "tables", "probe",
                    "allocate", "capture", "exit", "build", "jump", "kernel", "halted">>
  <1>1. a \in Seq(Names) /\ Len(a) = 2 /\ a[1] = "root" /\ a[2] = "phdrs"
    BY DEF Names
  <1>2. b \in Seq(Names) /\ Len(b) = Loads /\ \A i \in 1 .. Loads : b[i] = "segment"
    BY LoadsNat DEF Names
  <1>3. /\ c \in Seq(Names) /\ Len(c) = 15
        /\ c[1] = "verify" /\ c[2] = "font header" /\ c[3] = "glyphs" /\ c[4] = "font" /\ c[5] = "framebuffer"
        /\ c[6] = "boot info" /\ c[7] = "tables" /\ c[8] = "probe" /\ c[9] = "allocate" /\ c[10] = "capture"
        /\ c[11] = "exit" /\ c[12] = "build" /\ c[13] = "jump" /\ c[14] = "kernel" /\ c[15] = "halted"
    BY LastSteps, Zenon
  <1>4. BootScript = (a \o b) \o c
    BY Zenon DEF BootScript
  <1> HIDE DEF a, b, c
  <1>5. /\ a \o b \in Seq(Names) /\ Len(a \o b) = Loads + 2
        /\ \A i \in 1 .. 2 : (a \o b)[i] = a[i]
        /\ \A i \in 1 .. Loads : (a \o b)[2 + i] = b[i]
    <2>1. /\ a \o b \in Seq(Names) /\ Len(a \o b) = Len(a) + Len(b)
          /\ \A i \in 1 .. Len(a) : (a \o b)[i] = a[i]
          /\ \A i \in 1 .. Len(b) : (a \o b)[Len(a) + i] = b[i]
      BY <1>1, <1>2, ConcatAt, Zenon
    <2>2. 2 + Loads = Loads + 2
      BY LoadsNat
    <2> QED BY <1>1, <1>2, <2>1, <2>2, Zenon
  <1>6. PICK ab : ab = a \o b
    BY Zenon
  <1>7. /\ ab \in Seq(Names) /\ Len(ab) = Loads + 2 /\ ab[1] = "root" /\ ab[2] = "phdrs"
        /\ \A i \in 1 .. Loads : ab[2 + i] = "segment"
    BY <1>1, <1>2, <1>5, <1>6
  <1>8. /\ ab \o c \in Seq(Names) /\ Len(ab \o c) = Loads + 17
        /\ \A i \in 1 .. Loads + 2 : (ab \o c)[i] = ab[i]
        /\ \A i \in 1 .. 15 : (ab \o c)[Loads + 2 + i] = c[i]
    <2>1. /\ ab \o c \in Seq(Names) /\ Len(ab \o c) = Len(ab) + Len(c)
          /\ \A i \in 1 .. Len(ab) : (ab \o c)[i] = ab[i]
          /\ \A i \in 1 .. Len(c) : (ab \o c)[Len(ab) + i] = c[i]
      BY <1>3, <1>7, ConcatAt, Zenon
    <2>2. (Loads + 2) + 15 = Loads + 17
      BY LoadsNat
    <2> QED BY <1>3, <1>7, <2>1, <2>2, ZenonT(40)
  <1>9. PICK abc : abc = ab \o c
    BY Zenon
  <1>10. /\ abc \in Seq(Names) /\ Len(abc) = Loads + 17
         /\ \A i \in 1 .. Loads + 2 : abc[i] = ab[i]
         /\ \A i \in 1 .. 15 : abc[Loads + 2 + i] = c[i]
    BY Zenon, <1>8, <1>9
  <1>11. DOMAIN abc = 1 .. Loads + 17 /\ abc[1] = "root" /\ abc[2] = "phdrs"
    BY <1>7, <1>10, LoadsNat
  <1>12. ASSUME NEW i \in 3 .. Loads + 2 PROVE abc[i] = "segment"
    <2>1. i - 2 \in 1 .. Loads /\ i = 2 + (i - 2) /\ i \in 1 .. Loads + 2
      BY LoadsNat
    <2> QED BY Zenon, <1>7, <1>10, <2>1
  <1>13. /\ abc[Loads + 3] = c[1] /\ abc[Loads + 4] = c[2] /\ abc[Loads + 5] = c[3] /\ abc[Loads + 6] = c[4]
         /\ abc[Loads + 7] = c[5] /\ abc[Loads + 8] = c[6] /\ abc[Loads + 9] = c[7] /\ abc[Loads + 10] = c[8]
         /\ abc[Loads + 11] = c[9] /\ abc[Loads + 12] = c[10] /\ abc[Loads + 13] = c[11]
         /\ abc[Loads + 14] = c[12] /\ abc[Loads + 15] = c[13] /\ abc[Loads + 16] = c[14] /\ abc[Loads + 17] = c[15]
    <2>1. \A i \in 1 .. 15 : Loads + 2 + i = Loads + (i + 2)
      BY LoadsNat
    <2>2. \A i \in 1 .. 15 : abc[Loads + (i + 2)] = c[i]
      BY Zenon, <1>10, <2>1
    <2> QED BY <2>2
  <1>14. BootScript = abc
    BY Zenon, <1>4, <1>6, <1>9
  <1>15. \A i \in 3 .. Loads + 2 : abc[i] = "segment"
    BY Zenon, <1>12
  <1>16. /\ abc[Loads + 3] = "verify" /\ abc[Loads + 4] = "font header" /\ abc[Loads + 5] = "glyphs"
         /\ abc[Loads + 6] = "font" /\ abc[Loads + 7] = "framebuffer" /\ abc[Loads + 8] = "boot info"
         /\ abc[Loads + 9] = "tables" /\ abc[Loads + 10] = "probe" /\ abc[Loads + 11] = "allocate"
         /\ abc[Loads + 12] = "capture" /\ abc[Loads + 13] = "exit" /\ abc[Loads + 14] = "build"
         /\ abc[Loads + 15] = "jump" /\ abc[Loads + 16] = "kernel" /\ abc[Loads + 17] = "halted"
    <2>1. abc[Loads + 3] = "verify" /\ abc[Loads + 4] = "font header" /\ abc[Loads + 5] = "glyphs"
      BY <1>3, <1>13, ZenonT(30)
    <2>2. abc[Loads + 6] = "font" /\ abc[Loads + 7] = "framebuffer" /\ abc[Loads + 8] = "boot info"
      BY <1>3, <1>13, ZenonT(30)
    <2>3. abc[Loads + 9] = "tables" /\ abc[Loads + 10] = "probe" /\ abc[Loads + 11] = "allocate"
      BY <1>3, <1>13, ZenonT(30)
    <2>4. abc[Loads + 12] = "capture" /\ abc[Loads + 13] = "exit" /\ abc[Loads + 14] = "build"
      BY <1>3, <1>13, ZenonT(30)
    <2>5. abc[Loads + 15] = "jump" /\ abc[Loads + 16] = "kernel" /\ abc[Loads + 17] = "halted"
      BY <1>3, <1>13, ZenonT(30)
    <2> QED BY Zenon, <2>1, <2>2, <2>3, <2>4, <2>5
  <1> QED BY Zenon, <1>11, <1>14, <1>15, <1>16

(* The place of every step, and that it has no other.                      *)
OnlyAt(n) ==
    /\ BootScript[n] = "segment" => n \in 3 .. Loads + 2
    /\ BootScript[n] = "root" => n = 1
    /\ BootScript[n] = "phdrs" => n = 2
    /\ BootScript[n] \in {"font header", "glyphs", "font", "framebuffer", "boot info"} => n \in Loads + 4 .. Loads + 8
    /\ BootScript[n] = "verify" => n = Loads + 3
    /\ BootScript[n] = "tables" => n = Loads + 9
    /\ BootScript[n] = "probe" => n = Loads + 10
    /\ BootScript[n] = "allocate" => n = Loads + 11
    /\ BootScript[n] = "capture" => n = Loads + 12
    /\ BootScript[n] = "exit" => n = Loads + 13
    /\ BootScript[n] = "build" => n = Loads + 14
    /\ BootScript[n] = "jump" => n = Loads + 15
    /\ BootScript[n] = "kernel" => n = Loads + 16
    /\ BootScript[n] = "halted" => n = Loads + 17

LEMMA StepAt == \A n \in 1 .. Loads + 17 : OnlyAt(n)
  <1> SUFFICES ASSUME NEW n \in 1 .. Loads + 17 PROVE OnlyAt(n)
    BY Zenon
  <1>1. CASE n \in 1 .. Loads + 2
    <2>1. n = 1 \/ n = 2 \/ n \in 3 .. Loads + 2
      BY <1>1, LoadsNat
    <2>2. CASE n = 1
      <3>1. BootScript[n] = "root"
        BY Zenon, <2>2, ScriptPlaces
      <3> QED BY Zenon, <2>2, <3>1 DEF OnlyAt
    <2>3. CASE n = 2
      <3>1. BootScript[n] = "phdrs"
        BY Zenon, <2>3, ScriptPlaces
      <3> QED BY Zenon, <2>3, <3>1 DEF OnlyAt
    <2>4. CASE n \in 3 .. Loads + 2
      <3>1. BootScript[n] = "segment"
        BY Zenon, <2>4, ScriptPlaces
      <3> QED BY Zenon, <2>4, <3>1 DEF OnlyAt
    <2> QED BY Zenon, <2>1, <2>2, <2>3, <2>4
  <1>3. CASE n = Loads + 3
    <2>1. BootScript[n] = "verify"
      BY <1>3, ScriptPlaces, Zenon
    <2> QED BY Zenon, <1>3, <2>1, LoadsNat DEF OnlyAt
  <1>4. CASE n = Loads + 4
    <2>1. BootScript[n] = "font header"
      BY <1>4, ScriptPlaces, Zenon
    <2>2. n \in Loads + 4 .. Loads + 8
      BY <1>4, LoadsNat
    <2> QED BY <2>1, <2>2, Zenon DEF OnlyAt
  <1>5. CASE n = Loads + 5
    <2>1. BootScript[n] = "glyphs"
      BY <1>5, ScriptPlaces, Zenon
    <2>2. n \in Loads + 4 .. Loads + 8
      BY <1>5, LoadsNat
    <2> QED BY <2>1, <2>2, Zenon DEF OnlyAt
  <1>6. CASE n = Loads + 6
    <2>1. BootScript[n] = "font"
      BY <1>6, ScriptPlaces, Zenon
    <2>2. n \in Loads + 4 .. Loads + 8
      BY <1>6, LoadsNat
    <2> QED BY <2>1, <2>2, Zenon DEF OnlyAt
  <1>7. CASE n = Loads + 7
    <2>1. BootScript[n] = "framebuffer"
      BY <1>7, ScriptPlaces, Zenon
    <2>2. n \in Loads + 4 .. Loads + 8
      BY <1>7, LoadsNat
    <2> QED BY <2>1, <2>2, Zenon DEF OnlyAt
  <1>8. CASE n = Loads + 8
    <2>1. BootScript[n] = "boot info"
      BY <1>8, ScriptPlaces, Zenon
    <2>2. n \in Loads + 4 .. Loads + 8
      BY <1>8, LoadsNat
    <2> QED BY <2>1, <2>2, Zenon DEF OnlyAt
  <1>9. CASE n = Loads + 9
    <2>1. BootScript[n] = "tables"
      BY <1>9, ScriptPlaces, Zenon
    <2> QED BY Zenon, <1>9, <2>1, LoadsNat DEF OnlyAt
  <1>10. CASE n = Loads + 10
    <2>1. BootScript[n] = "probe"
      BY <1>10, ScriptPlaces, Zenon
    <2> QED BY Zenon, <1>10, <2>1, LoadsNat DEF OnlyAt
  <1>11. CASE n = Loads + 11
    <2>1. BootScript[n] = "allocate"
      BY <1>11, ScriptPlaces, Zenon
    <2> QED BY Zenon, <1>11, <2>1, LoadsNat DEF OnlyAt
  <1>12. CASE n = Loads + 12
    <2>1. BootScript[n] = "capture"
      BY <1>12, ScriptPlaces, Zenon
    <2> QED BY Zenon, <1>12, <2>1, LoadsNat DEF OnlyAt
  <1>13. CASE n = Loads + 13
    <2>1. BootScript[n] = "exit"
      BY <1>13, ScriptPlaces, Zenon
    <2> QED BY Zenon, <1>13, <2>1, LoadsNat DEF OnlyAt
  <1>14. CASE n = Loads + 14
    <2>1. BootScript[n] = "build"
      BY <1>14, ScriptPlaces, Zenon
    <2> QED BY Zenon, <1>14, <2>1, LoadsNat DEF OnlyAt
  <1>15. CASE n = Loads + 15
    <2>1. BootScript[n] = "jump"
      BY <1>15, ScriptPlaces, Zenon
    <2> QED BY Zenon, <1>15, <2>1, LoadsNat DEF OnlyAt
  <1>16. CASE n = Loads + 16
    <2>1. BootScript[n] = "kernel"
      BY <1>16, ScriptPlaces, Zenon
    <2> QED BY Zenon, <1>16, <2>1, LoadsNat DEF OnlyAt
  <1>17. CASE n = Loads + 17
    <2>1. BootScript[n] = "halted"
      BY <1>17, ScriptPlaces, Zenon
    <2> QED BY Zenon, <1>17, <2>1, LoadsNat DEF OnlyAt
  <1>18. \/ n \in 1 .. Loads + 2
         \/ n = Loads + 3 \/ n = Loads + 4 \/ n = Loads + 5 \/ n = Loads + 6 \/ n = Loads + 7 \/ n = Loads + 8
         \/ n = Loads + 9 \/ n = Loads + 10 \/ n = Loads + 11 \/ n = Loads + 12 \/ n = Loads + 13
         \/ n = Loads + 14 \/ n = Loads + 15 \/ n = Loads + 16 \/ n = Loads + 17
    BY LoadsNat
  <1> QED BY <1>1, <1>3, <1>4, <1>5, <1>6, <1>7, <1>8, <1>9, <1>10, <1>11, <1>12, <1>13, <1>14, <1>15, <1>16, <1>17,
             <1>18, Zenon

LEMMA PlacesAre ==
  /\ Place("verify") = Loads + 3 /\ Place("tables") = Loads + 9 /\ Place("probe") = Loads + 10
  /\ Place("allocate") = Loads + 11 /\ Place("capture") = Loads + 12 /\ Place("exit") = Loads + 13
  /\ Place("build") = Loads + 14 /\ Place("jump") = Loads + 15 /\ Place("kernel") = Loads + 16
  /\ Place("halted") = Loads + 17
  <1>1. ASSUME NEW s, NEW k \in 1 .. Loads + 17, BootScript[k] = s, \A n \in 1 .. Loads + 17 : BootScript[n] = s => n = k
        PROVE  Place(s) = k
    BY <1>1, ScriptPlaces, Zenon DEF Place
  <1>2. \A i \in 1 .. 17 : Loads + i \in 1 .. Loads + 17
    BY LoadsNat
  <1>3. Place("verify") = Loads + 3
    <2>1. Loads + 3 \in 1 .. Loads + 17
      BY <1>2
    <2>2. BootScript[Loads + 3] = "verify"
      BY ScriptPlaces, Zenon
    <2>3. \A n \in 1 .. Loads + 17 : BootScript[n] = "verify" => n = Loads + 3
      BY StepAt, Zenon DEF OnlyAt
    <2> QED BY Zenon, <1>1, <2>1, <2>2, <2>3
  <1>4. Place("tables") = Loads + 9
    <2>1. Loads + 9 \in 1 .. Loads + 17
      BY <1>2
    <2>2. BootScript[Loads + 9] = "tables"
      BY ScriptPlaces, Zenon
    <2>3. \A n \in 1 .. Loads + 17 : BootScript[n] = "tables" => n = Loads + 9
      BY StepAt, Zenon DEF OnlyAt
    <2> QED BY Zenon, <1>1, <2>1, <2>2, <2>3
  <1>5. Place("probe") = Loads + 10
    <2>1. Loads + 10 \in 1 .. Loads + 17
      BY <1>2
    <2>2. BootScript[Loads + 10] = "probe"
      BY ScriptPlaces, Zenon
    <2>3. \A n \in 1 .. Loads + 17 : BootScript[n] = "probe" => n = Loads + 10
      BY StepAt, Zenon DEF OnlyAt
    <2> QED BY Zenon, <1>1, <2>1, <2>2, <2>3
  <1>6. Place("allocate") = Loads + 11
    <2>1. Loads + 11 \in 1 .. Loads + 17
      BY <1>2
    <2>2. BootScript[Loads + 11] = "allocate"
      BY ScriptPlaces, Zenon
    <2>3. \A n \in 1 .. Loads + 17 : BootScript[n] = "allocate" => n = Loads + 11
      BY StepAt, Zenon DEF OnlyAt
    <2> QED BY Zenon, <1>1, <2>1, <2>2, <2>3
  <1>7. Place("capture") = Loads + 12
    <2>1. Loads + 12 \in 1 .. Loads + 17
      BY <1>2
    <2>2. BootScript[Loads + 12] = "capture"
      BY ScriptPlaces, Zenon
    <2>3. \A n \in 1 .. Loads + 17 : BootScript[n] = "capture" => n = Loads + 12
      BY StepAt, Zenon DEF OnlyAt
    <2> QED BY Zenon, <1>1, <2>1, <2>2, <2>3
  <1>8. Place("exit") = Loads + 13
    <2>1. Loads + 13 \in 1 .. Loads + 17
      BY <1>2
    <2>2. BootScript[Loads + 13] = "exit"
      BY ScriptPlaces, Zenon
    <2>3. \A n \in 1 .. Loads + 17 : BootScript[n] = "exit" => n = Loads + 13
      BY StepAt, Zenon DEF OnlyAt
    <2> QED BY Zenon, <1>1, <2>1, <2>2, <2>3
  <1>9. Place("build") = Loads + 14
    <2>1. Loads + 14 \in 1 .. Loads + 17
      BY <1>2
    <2>2. BootScript[Loads + 14] = "build"
      BY ScriptPlaces, Zenon
    <2>3. \A n \in 1 .. Loads + 17 : BootScript[n] = "build" => n = Loads + 14
      BY StepAt, Zenon DEF OnlyAt
    <2> QED BY Zenon, <1>1, <2>1, <2>2, <2>3
  <1>10. Place("jump") = Loads + 15
    <2>1. Loads + 15 \in 1 .. Loads + 17
      BY <1>2
    <2>2. BootScript[Loads + 15] = "jump"
      BY ScriptPlaces, Zenon
    <2>3. \A n \in 1 .. Loads + 17 : BootScript[n] = "jump" => n = Loads + 15
      BY StepAt, Zenon DEF OnlyAt
    <2> QED BY Zenon, <1>1, <2>1, <2>2, <2>3
  <1>11. Place("kernel") = Loads + 16
    <2>1. Loads + 16 \in 1 .. Loads + 17
      BY <1>2
    <2>2. BootScript[Loads + 16] = "kernel"
      BY ScriptPlaces, Zenon
    <2>3. \A n \in 1 .. Loads + 17 : BootScript[n] = "kernel" => n = Loads + 16
      BY StepAt, Zenon DEF OnlyAt
    <2> QED BY Zenon, <1>1, <2>1, <2>2, <2>3
  <1>12. Place("halted") = Loads + 17
    <2>1. Loads + 17 \in 1 .. Loads + 17
      BY <1>2
    <2>2. BootScript[Loads + 17] = "halted"
      BY ScriptPlaces, Zenon
    <2>3. \A n \in 1 .. Loads + 17 : BootScript[n] = "halted" => n = Loads + 17
      BY StepAt, Zenon DEF OnlyAt
    <2> QED BY Zenon, <1>1, <2>1, <2>2, <2>3
  <1> QED BY Zenon, <1>3, <1>4, <1>5, <1>6, <1>7, <1>8, <1>9, <1>10, <1>11, <1>12

LEMMA SegmentPages ==
  /\ \A i \in 1 .. Loads : Segments[i] \subseteq BootPages
  /\ \A p : p \in KernelPages <=> \E i \in 1 .. Loads : p \in Segments[i]
  BY BootAssumption, LoadsNat DEF KernelPages

(* Where each action finds the loader, and where it leaves it.             *)
LEMMA StepsTaken ==
  ASSUME BootTypeOK
  PROVE
    /\ Fails => step' = Loads + 17
    /\ OpenRoot => step = 1 /\ step' = step + 1
    /\ AllocatePool => (step = 2 \/ step \in Loads + 4 .. Loads + 8) /\ step' = step + 1
    /\ LoadSegment => step \in 3 .. Loads + 2 /\ step' = step + 1
    /\ VerifyKernel => step = Loads + 3 /\ step' = step + 1
    /\ AllocateTables => step = Loads + 9 /\ step' = step + 1
    /\ ProbeSize => step = Loads + 10 /\ step' = Loads + 11
    /\ AllocateMap => step = Loads + 11 /\ step' = Loads + 12
    /\ GetMemoryMap => step = Loads + 12 /\ step' = Loads + 13
    /\ ExitBootServices => step = Loads + 13 /\ (step' = Loads + 14 \/ step' = Loads + 11)
    /\ Build => step = Loads + 14 /\ (step' = Loads + 15 \/ step' = Loads + 17)
    /\ EnterKernel => step = Loads + 15 /\ step' = Loads + 16
  <1>1. step \in 1 .. Loads + 17
    BY Zenon, PlacesAre DEF BootTypeOK
  <1>2. OnlyAt(step)
    BY Zenon, <1>1, StepAt
  <1>3. Fails => step' = Loads + 17
    BY PlacesAre, Zenon DEF Fails, Goto, Place
  <1>4. OpenRoot => step = 1
    BY <1>2, SMT DEF OnlyAt, OpenRoot, At
  <1>5. OpenRoot => step' = step + 1
    BY Zenon DEF OpenRoot
  <1>6. AllocatePool => (step = 2 \/ step \in Loads + 4 .. Loads + 8)
    <2>1. AllocatePool => \E s \in {"phdrs", "font header", "glyphs", "font", "framebuffer", "boot info"} : BootScript[step] = s
      BY Zenon DEF AllocatePool, At
    <2> QED BY <1>2, <2>1, Zenon DEF OnlyAt
  <1>7. AllocatePool => step' = step + 1
    BY Zenon DEF AllocatePool
  <1>8. LoadSegment => step \in 3 .. Loads + 2
    BY <1>2, SMT DEF OnlyAt, LoadSegment, At
  <1>9. LoadSegment => step' = step + 1
    BY Zenon DEF LoadSegment
  <1>10. VerifyKernel => step = Loads + 3
    BY <1>2, SMT DEF OnlyAt, VerifyKernel, At
  <1>11. VerifyKernel => step' = step + 1
    BY Zenon DEF VerifyKernel
  <1>12. AllocateTables => step = Loads + 9
    BY <1>2, SMT DEF OnlyAt, AllocateTables, At
  <1>13. AllocateTables => step' = step + 1
    BY Zenon DEF AllocateTables
  <1>14. ProbeSize => step = Loads + 10
    BY <1>2, SMT DEF OnlyAt, ProbeSize, At
  <1>15. ProbeSize => step' = Loads + 11
    BY PlacesAre, Zenon DEF ProbeSize, Goto, Place
  <1>16. AllocateMap => step = Loads + 11
    BY <1>2, SMT DEF OnlyAt, AllocateMap, At
  <1>17. AllocateMap => step' = Loads + 12
    BY PlacesAre, Zenon DEF AllocateMap, Goto, Place
  <1>18. GetMemoryMap => step = Loads + 12
    BY <1>2, SMT DEF OnlyAt, GetMemoryMap, At
  <1>19. GetMemoryMap => step' = Loads + 13
    BY PlacesAre, Zenon DEF GetMemoryMap, Goto, Place
  <1>20. ExitBootServices => step = Loads + 13
    BY <1>2, SMT DEF OnlyAt, ExitBootServices, At
  <1>21. ExitBootServices => (step' = Loads + 14 \/ step' = Loads + 11)
    BY PlacesAre, Zenon DEF ExitBootServices, Goto, Place
  <1>22. Build => step = Loads + 14
    BY <1>2, SMT DEF OnlyAt, Build, At
  <1>23. Build => (step' = Loads + 15 \/ step' = Loads + 17)
    BY PlacesAre, Zenon DEF Build, Goto, Place
  <1>24. EnterKernel => step = Loads + 15
    BY <1>2, SMT DEF OnlyAt, EnterKernel, At
  <1>25. EnterKernel => step' = Loads + 16
    BY PlacesAre, Zenon DEF EnterKernel, Goto, Place
  <1> QED BY <1>3, <1>4, <1>5, <1>6, <1>7, <1>8, <1>9, <1>10, <1>11, <1>12, <1>13, <1>14, <1>15, <1>16, <1>17, <1>18,
             <1>19, <1>20, <1>21, <1>22, <1>23, <1>24, <1>25

LEMMA BootInitial == BootInit => BootInv
  <1> SUFFICES ASSUME BootInit PROVE BootInv
    BY Zenon
  <1>1. BootTypeOK
    BY BootAssumption, PlacesAre, LoadsNat DEF BootInit, BootTypeOK
  <1>2. step = 1 /\ tablePool = {} /\ poolPages = {}
    BY Zenon DEF BootInit
  <1>3. /\ \A i \in 1 .. Loads : ~(i + 2 < step)
        /\ step # Loads + 13 /\ step \notin Loads + 14 .. Loads + 16
        /\ step \notin (Loads + 3) + 1 .. Loads + 16 /\ step \notin Loads + 15 .. Loads + 16
    BY <1>2, LoadsNat
  <1>4. SegmentsKept
    BY Zenon, <1>3 DEF SegmentsKept
  <1>5. PoolsKept
    BY Zenon, <1>2 DEF PoolsKept
  <1>6. MapHeld
    BY Zenon, <1>3, PlacesAre DEF MapHeld
  <1>7. Verified
    BY Zenon, <1>3, PlacesAre DEF Verified
  <1>8. TablesBuilt
    BY Zenon, <1>3, PlacesAre DEF TablesBuilt
  <1> QED BY Zenon, <1>1, <1>4, <1>5, <1>6, <1>7, <1>8 DEF BootInv

\* A move from place n of the script to place k that adds nothing to what is
\* loaded, verified or reserved for tables.
Keeps(n, k) ==
  /\ k \in 1 .. Loads + 17
  /\ k # Loads + 17 => n # Loads + 17 /\ \A i \in 1 .. Loads : i + 2 < k => i + 2 < n
  /\ k <= Loads + 9 => n <= Loads + 9
  /\ k \in Loads + 4 .. Loads + 16 => n \in Loads + 4 .. Loads + 16

\* The moves of prepare_boot but the loading of a segment and the verification.
LEMMA MovesKeep ==
  ASSUME NEW n \in Nat, NEW k \in Nat,
         \/ n \in 1 .. Loads + 17 /\ k = Loads + 17
         \/ n = 1 /\ k = 2
         \/ (n = 2 \/ n \in Loads + 4 .. Loads + 8) /\ k = n + 1
         \/ n \in Loads + 9 .. Loads + 15 /\ k = n + 1
         \/ n = Loads + 13 /\ k = Loads + 11
         \/ n \in 1 .. Loads + 17 /\ k = n
  PROVE  Keeps(n, k)
  BY LoadsNat DEF Keeps

\* Pages that the loader holds are not taken from it, nor the kernel's
\* contents from them.
LoaderStays == \A p \in BootPages : fwMap[p] = "loader" => fwMap'[p] = "loader"
KernelStays == \A p \in KernelPages : contents[p] = "kernel" => contents'[p] = "kernel"

LEMMA SegmentsStay ==
  ASSUME BootInv, Keeps(step, step'), LoaderStays, KernelStays
  PROVE  SegmentsKept'
  <1>1. SUFFICES ASSUME step' # Place("halted"), NEW i \in 1 .. Loads, i + 2 < step', NEW p \in Segments[i]
                 PROVE  fwMap'[p] = "loader" /\ contents'[p] = "kernel"
    BY Zenon DEF SegmentsKept
  <1>2. step # Place("halted") /\ i + 2 < step
    BY Zenon, <1>1, PlacesAre DEF Keeps
  <1>3. fwMap[p] = "loader" /\ contents[p] = "kernel"
    BY Zenon, <1>1, <1>2 DEF BootInv, SegmentsKept
  <1>4. p \in BootPages /\ p \in KernelPages
    BY Zenon, <1>1, SegmentPages
  <1> QED BY Zenon, <1>3, <1>4 DEF LoaderStays, KernelStays

\* A pool piece comes out of a page that is already the loader's or was free.
PiecesAdded == \A p \in poolPages' : p \in poolPages \/ (fwMap[p] = "free" /\ fwMap'[p] = "loader")

LEMMA PoolsStay ==
  ASSUME BootInv, Keeps(step, step'), LoaderStays, PiecesAdded, tablePool' = tablePool
  PROVE  PoolsKept'
  <1>1. /\ \A p \in tablePool \cup poolPages : p \in BootPages /\ fwMap[p] = "loader"
        /\ step <= Loads + 9 => tablePool = {}
        /\ step # Loads + 17 => tablePool \cap (KernelPages \cup poolPages) = {}
    BY Zenon, PlacesAre DEF BootInv, BootTypeOK, PoolsKept
  <1>2. \A p \in tablePool \cup poolPages' : fwMap'[p] = "loader"
    BY Zenon, <1>1 DEF LoaderStays, PiecesAdded
  <1>3. "free" # "loader"
    OBVIOUS
  <1>4. step # Loads + 17 => tablePool \cap (KernelPages \cup poolPages') = {}
    BY Zenon, <1>1, <1>3 DEF PiecesAdded
  <1>5. step' <= Loads + 9 => tablePool = {}
    BY Zenon, <1>1 DEF Keeps
  <1>6. step' # Loads + 17 => tablePool \cap (KernelPages \cup poolPages') = {}
    BY Zenon, <1>4 DEF Keeps
  <1> QED BY Zenon, <1>2, <1>5, <1>6, PlacesAre DEF PoolsKept

LEMMA VerifiedStays ==
  ASSUME BootInv, Keeps(step, step'), image' = image
  PROVE  Verified'
  <1>1. Place("verify") + 1 = Loads + 4 /\ Place("kernel") = Loads + 16
    BY PlacesAre, LoadsNat
  <1> QED BY Zenon, <1>1 DEF BootInv, Verified, Keeps

\* The map is not held and the tables are not built before the places where
\* they are.
LEMMA NotYet ==
  /\ step' \in Nat /\ step' < Loads + 13 => MapHeld'
  /\ step' = Loads + 17 => MapHeld' /\ TablesBuilt'
  /\ step' \in Nat /\ step' < Loads + 15 => TablesBuilt'
  <1>1. \A n \in Nat : n < Loads + 13 => n # Loads + 13 /\ n \notin Loads + 14 .. Loads + 16
    BY LoadsNat
  <1>2. \A n \in Nat : n < Loads + 15 => n \notin Loads + 15 .. Loads + 16
    BY LoadsNat
  <1>3. Loads + 17 # Loads + 13 /\ Loads + 17 \notin Loads + 14 .. Loads + 16 /\ Loads + 17 \notin Loads + 15 .. Loads + 16
    BY LoadsNat
  <1> QED BY Zenon, <1>1, <1>2, <1>3, PlacesAre DEF MapHeld, TablesBuilt

LEMMA TypeStays ==
  ASSUME BootInv, step' \in 1 .. Loads + 17, fwKey' \in Nat, heldKey' \in Nat, DOMAIN contents' = BootPages,
         fwMap' \in [BootPages -> {"free", "firmware", "loader"}],
         tablePool' \subseteq BootPages, poolPages' \subseteq BootPages
  PROVE  BootTypeOK'
  BY Zenon, PlacesAre DEF BootTypeOK

\* The steps that take and write no page.
LEMMA PagesUntouched ==
  ASSUME BootInv, Keeps(step, step'), UNCHANGED <<fwMap, fwKey, contents, image, tablePool, poolPages>>,
         heldKey' \in Nat
  PROVE  BootTypeOK' /\ SegmentsKept' /\ PoolsKept' /\ Verified'
  <1>1. BootTypeOK'
    <2>1. step' \in 1 .. Loads + 17
      BY Zenon DEF Keeps
    <2> QED BY Zenon, <2>1, TypeStays DEF BootInv, BootTypeOK
  <1>2. LoaderStays /\ KernelStays /\ PiecesAdded
    BY Zenon DEF LoaderStays, KernelStays, PiecesAdded
  <1> QED BY Zenon, <1>1, <1>2, SegmentsStay, PoolsStay, VerifiedStays

\* A pool piece is taken: from a page held before, or from a free one.
LEMMA PieceTaken ==
  ASSUME BootInv, PoolTaken
  PROVE  /\ LoaderStays /\ PiecesAdded /\ poolPages' \subseteq BootPages /\ fwKey' \in Nat
         /\ fwMap' \in [BootPages -> {"free", "firmware", "loader"}]
  <1>1. /\ fwMap \in [BootPages -> {"free", "firmware", "loader"}] /\ fwKey \in Nat
        /\ poolPages \subseteq BootPages
    BY Zenon DEF BootInv, BootTypeOK
  <1>2. CASE UNCHANGED <<fwMap, fwKey, poolPages>>
    BY Zenon, <1>1, <1>2 DEF LoaderStays, PiecesAdded
  <1>3. ASSUME NEW p \in BootPages, fwMap[p] = "free", Takes({p}), poolPages' = poolPages \union {p}
        PROVE  /\ LoaderStays /\ PiecesAdded /\ poolPages' \subseteq BootPages /\ fwKey' \in Nat
               /\ fwMap' \in [BootPages -> {"free", "firmware", "loader"}]
    <2>1. /\ fwMap' = [q \in BootPages |-> IF q \in {p} THEN "loader" ELSE fwMap[q]]
          /\ fwKey' = fwKey + 1
      BY Zenon, <1>3 DEF Takes
    <2>2. fwMap' \in [BootPages -> {"free", "firmware", "loader"}]
      BY Zenon, <1>1, <2>1
    <2>3. \A q \in BootPages : fwMap'[q] = IF q \in {p} THEN "loader" ELSE fwMap[q]
      BY Zenon, <2>1
    <2>4. LoaderStays
      BY Zenon, <2>3 DEF LoaderStays
    <2>5. PiecesAdded
      BY Zenon, <1>3, <2>3 DEF PiecesAdded
    <2>6. poolPages' \subseteq BootPages
      BY Zenon, <1>1, <1>3
    <2>7. fwKey' \in Nat
      BY <1>1, <2>1
    <2> QED BY Zenon, <2>2, <2>4, <2>5, <2>6, <2>7
  <1> QED BY Zenon, <1>2, <1>3 DEF PoolTaken

\* A segment is read into the pages it is linked at.
LEMMA SegmentLoaded == ASSUME BootInv, LoadSegment PROVE BootInv'
  <1>1. step \in 3 .. Loads + 2 /\ step' = step + 1
    BY Zenon, StepsTaken DEF BootInv
  <1>2. PICK j \in 1 .. Loads : step = j + 2
    <2>1. step - 2 \in 1 .. Loads /\ step = (step - 2) + 2
      BY <1>1, LoadsNat
    <2> QED BY Zenon, <2>1
  <1>3. Segment = Segments[j]
    <2>1. step - 2 = j
      BY <1>2
    <2> QED BY Zenon, <2>1 DEF Segment
  <1>4. /\ fwMap' = [p \in BootPages |-> IF p \in Segments[j] THEN "loader" ELSE fwMap[p]]
        /\ fwKey' = fwKey + 1
        /\ contents' = [p \in BootPages |-> IF p \in Segments[j] THEN "kernel" ELSE contents[p]]
        /\ UNCHANGED <<services, image, tablePool, poolPages, infoMap, heldKey, bootTables>>
    BY Zenon, <1>3 DEF LoadSegment, Takes
  <1>5. /\ \A p \in BootPages : fwMap'[p] = IF p \in Segments[j] THEN "loader" ELSE fwMap[p]
        /\ \A p \in BootPages : contents'[p] = IF p \in Segments[j] THEN "kernel" ELSE contents[p]
    BY Zenon, <1>4
  <1>6. BootTypeOK'
    <2>1. step' \in 1 .. Loads + 17
      BY <1>1, LoadsNat
    <2>2. fwMap' \in [BootPages -> {"free", "firmware", "loader"}] /\ DOMAIN contents' = BootPages
      BY Zenon, <1>4 DEF BootInv, BootTypeOK
    <2>3. fwKey \in Nat
      BY Zenon DEF BootInv, BootTypeOK
    <2>4. fwKey' \in Nat
      BY <1>4, <2>3
    <2> QED BY Zenon, <1>4, <2>1, <2>2, <2>4, TypeStays DEF BootInv, BootTypeOK
  <1>7. SegmentsKept'
    <2>1. SUFFICES ASSUME NEW i \in 1 .. Loads, i + 2 < step', NEW p \in Segments[i]
                   PROVE  fwMap'[p] = "loader" /\ contents'[p] = "kernel"
      BY Zenon DEF SegmentsKept
    <2>2. p \in BootPages
      BY Zenon, SegmentPages
    <2>3. CASE p \in Segments[j]
      BY Zenon, <1>5, <2>2, <2>3
    <2>4. CASE p \notin Segments[j]
      <3>1. i # j
        BY Zenon, <2>4
      <3>2. i + 2 < step /\ step # Loads + 17
        BY <1>1, <1>2, <2>1, <3>1, LoadsNat
      <3>3. fwMap[p] = "loader" /\ contents[p] = "kernel"
        BY Zenon, <3>2, PlacesAre DEF BootInv, SegmentsKept
      <3> QED BY Zenon, <1>5, <2>2, <2>4, <3>3
    <2> QED BY Zenon, <2>3, <2>4
  <1>8. PoolsKept'
    <2>1. step <= Loads + 9
      BY <1>1, LoadsNat
    <2>2. tablePool = {} /\ \A p \in poolPages : p \in BootPages /\ fwMap[p] = "loader"
      BY Zenon, <2>1, PlacesAre DEF BootInv, BootTypeOK, PoolsKept
    <2>3. \A p \in poolPages : fwMap'[p] = "loader"
      BY Zenon, <1>5, <2>2
    <2> QED BY Zenon, <1>4, <2>2, <2>3 DEF PoolsKept
  <1>9. MapHeld' /\ TablesBuilt' /\ Verified'
    <2>1. /\ step' \in Nat /\ step' < Loads + 13 /\ step' < Loads + 15
          /\ step' \notin (Place("verify") + 1) .. Place("kernel")
      BY <1>1, PlacesAre, LoadsNat
    <2> QED BY Zenon, <2>1, NotYet DEF Verified
  <1> QED BY Zenon, <1>6, <1>7, <1>8, <1>9 DEF BootInv

\* The pages for the page tables are free ones, so no one else's.
LEMMA TablesReserved == ASSUME BootInv, AllocateTables PROVE BootInv'
  <1>1. step = Loads + 9 /\ step' = Loads + 10
    <2>1. step = Loads + 9 /\ step' = step + 1
      BY Zenon, StepsTaken DEF BootInv
    <2> QED BY <2>1, LoadsNat
  <1>2. Keeps(step, step')
    <2>1. step \in Nat /\ step' \in Nat /\ step \in Loads + 9 .. Loads + 15 /\ step' = step + 1
      BY <1>1, LoadsNat
    <2> QED BY Zenon, <2>1, MovesKeep
  <1>3. PICK pool \in SUBSET BootPages : /\ \A p \in pool : fwMap[p] = "free"
                                         /\ Takes(pool) /\ tablePool' = pool
    BY Zenon DEF AllocateTables
  <1>4. UNCHANGED <<services, contents, image, poolPages, infoMap, heldKey, bootTables>>
    BY Zenon DEF AllocateTables
  <1>5. /\ fwMap' = [p \in BootPages |-> IF p \in pool THEN "loader" ELSE fwMap[p]]
        /\ fwKey' = fwKey + 1
        /\ \A p \in BootPages : fwMap'[p] = IF p \in pool THEN "loader" ELSE fwMap[p]
    BY Zenon, <1>3 DEF Takes
  <1>6. LoaderStays /\ KernelStays
    BY Zenon, <1>4, <1>5 DEF LoaderStays, KernelStays
  <1>7. BootTypeOK'
    <2>1. fwKey \in Nat
      BY Zenon DEF BootInv, BootTypeOK
    <2>2. fwKey' \in Nat
      BY <1>5, <2>1
    <2>3. fwMap' \in [BootPages -> {"free", "firmware", "loader"}]
      BY Zenon, <1>5 DEF BootInv, BootTypeOK
    <2>4. step' \in 1 .. Loads + 17
      BY Zenon, <1>2 DEF Keeps
    <2> QED BY Zenon, <1>3, <1>4, <2>2, <2>3, <2>4, TypeStays DEF BootInv, BootTypeOK
  <1>8. PoolsKept'
    <2>1. step # Loads + 17 /\ \A i \in 1 .. Loads : i + 2 < step
      BY <1>1, LoadsNat
    <2>2. \A p \in KernelPages : fwMap[p] = "loader"
      BY Zenon, <2>1, SegmentPages, PlacesAre DEF BootInv, SegmentsKept
    <2>3. \A p \in poolPages : fwMap[p] = "loader" /\ p \in BootPages
      BY Zenon DEF BootInv, PoolsKept, BootTypeOK
    <2>4. "free" # "loader"
      OBVIOUS
    <2>5. pool \cap (KernelPages \cup poolPages) = {}
      BY Zenon, <1>3, <2>2, <2>3, <2>4
    <2>6. \A p \in pool \cup poolPages : fwMap'[p] = "loader"
      BY Zenon, <1>3, <1>5, <2>3
    <2>7. ~(step' <= Loads + 9)
      BY <1>1, LoadsNat
    <2> QED BY Zenon, <1>3, <1>4, <2>5, <2>6, <2>7, PlacesAre DEF PoolsKept
  <1>9. MapHeld' /\ TablesBuilt'
    <2>1. step' \in Nat /\ step' < Loads + 13 /\ step' < Loads + 15
      BY <1>1, LoadsNat
    <2> QED BY Zenon, <2>1, NotYet
  <1> QED BY Zenon, <1>2, <1>4, <1>6, <1>7, <1>8, <1>9, SegmentsStay, VerifiedStays DEF BootInv

\* build writes the tables into the pages reserved for them.
LEMMA TablesWritten == ASSUME BootInv, Build PROVE BootInv'
  <1>1. step = Loads + 14 /\ (step' = Loads + 15 \/ step' = Loads + 17)
    BY Zenon, StepsTaken DEF BootInv
  <1>2. Keeps(step, step')
    <2>1. /\ step \in Nat /\ step' \in Nat
          /\ \/ step \in Loads + 9 .. Loads + 15 /\ step' = step + 1
             \/ step \in 1 .. Loads + 17 /\ step' = Loads + 17
      BY <1>1, LoadsNat
    <2> QED BY Zenon, <2>1, MovesKeep
  <1>3. /\ UNCHANGED <<fwMap, fwKey, services, image, tablePool, poolPages, infoMap, heldKey>>
        /\ DOMAIN contents' = BootPages
        /\ \A p \in BootPages : p \notin tablePool => contents'[p] = contents[p]
    BY Zenon DEF Build
  <1>4. BootTypeOK'
    <2>1. step' \in 1 .. Loads + 17
      BY Zenon, <1>2 DEF Keeps
    <2> QED BY Zenon, <1>3, <2>1, TypeStays DEF BootInv, BootTypeOK
  <1>5. LoaderStays /\ PiecesAdded
    BY Zenon, <1>3 DEF LoaderStays, PiecesAdded
  <1>6. KernelStays
    <2>1. step # Loads + 17
      BY <1>1, LoadsNat
    <2>2. \A p \in KernelPages : p \in BootPages /\ p \notin tablePool
      BY Zenon, <2>1, SegmentPages, PlacesAre DEF BootInv, PoolsKept
    <2> QED BY Zenon, <1>3, <2>2 DEF KernelStays
  <1>7. step \in Loads + 14 .. Loads + 16 /\ Loads + 15 # Loads + 13 /\ Loads + 17 # Loads + 15
    BY <1>1, LoadsNat
  <1>8. ~services /\ infoMap = fwMap
    BY Zenon, <1>7, PlacesAre DEF BootInv, MapHeld
  <1>9. MapHeld'
    BY Zenon, <1>1, <1>3, <1>7, <1>8, NotYet, PlacesAre DEF MapHeld
  <1>10. TablesBuilt'
    <2>1. CASE step' = Loads + 17
      BY Zenon, <2>1, NotYet
    <2>2. CASE step' = Loads + 15
      <3>1. ~Goto("halted")
        BY Zenon, <1>7, <2>2, PlacesAre DEF Goto, Place
      <3>2. bootTables' = [identity |-> {p \in BootPages : \E q \in DOMAIN infoMap : p \div PtPages = q \div PtPages},
                           kernel |-> KernelSpan]
        BY Zenon, <3>1 DEF Build
      <3>3. DOMAIN infoMap = BootPages
        BY Zenon, <1>8 DEF BootInv, BootTypeOK
      <3> QED BY Zenon, <3>2, <3>3 DEF TablesBuilt
    <2> QED BY Zenon, <1>1, <2>1, <2>2
  <1> QED BY Zenon, <1>2, <1>3, <1>4, <1>5, <1>6, <1>9, <1>10, SegmentsStay, PoolsStay, VerifiedStays DEF BootInv

\* Until boot services end, an event of the firmware takes pages that are
\* free and returns its own; the key tells the loader.
LEMMA FirmwareActs == ASSUME BootInv, FirmwareEvent PROVE BootInv'
  <1>1. /\ fwMap \in [BootPages -> {"free", "firmware", "loader"}] /\ fwKey \in Nat /\ heldKey \in Nat
        /\ step \in 1 .. Loads + 17 /\ DOMAIN contents = BootPages
    BY Zenon, PlacesAre DEF BootInv, BootTypeOK
  <1>2. /\ services /\ fwKey' = fwKey + 1
        /\ UNCHANGED <<step, services, contents, image, tablePool, poolPages, infoMap, heldKey, bootTables>>
    BY Zenon DEF FirmwareEvent
  <1>3. PICK p \in BootPages, x \in {"free", "firmware"} : fwMap[p] # "loader" /\ fwMap' = [fwMap EXCEPT ![p] = x]
    <2>1. "free" # "loader" /\ "firmware" # "loader"
      OBVIOUS
    <2> QED BY Zenon, <2>1 DEF FirmwareEvent
  <1>4. fwMap' \in [BootPages -> {"free", "firmware", "loader"}]
    BY Zenon, <1>1, <1>3
  <1>5. LoaderStays /\ KernelStays /\ PiecesAdded
    BY Zenon, <1>1, <1>2, <1>3 DEF LoaderStays, KernelStays, PiecesAdded
  <1>6. Keeps(step, step')
    <2>1. step \in Nat
      BY <1>1, LoadsNat
    <2> QED BY Zenon, <1>1, <1>2, <2>1, MovesKeep
  <1>7. fwKey' \in Nat /\ (heldKey <= fwKey => heldKey <= fwKey' /\ heldKey # fwKey')
    BY <1>1, <1>2
  <1>8. BootTypeOK'
    BY Zenon, <1>1, <1>2, <1>4, <1>7, TypeStays DEF BootInv, BootTypeOK
  <1>9. MapHeld'
    BY Zenon, <1>2, <1>7 DEF BootInv, MapHeld
  <1>10. TablesBuilt'
    BY Zenon, <1>2 DEF BootInv, TablesBuilt
  <1> QED BY Zenon, <1>2, <1>5, <1>6, <1>8, <1>9, <1>10, SegmentsStay, PoolsStay, VerifiedStays DEF BootInv

\* AllocatePool for what is handed over, and for the buffer of the map.
LEMMA PoolAllocated == ASSUME BootInv, AllocatePool \/ AllocateMap PROVE BootInv'
  <1>1. /\ step = 2 \/ step \in Loads + 4 .. Loads + 8 \/ step = Loads + 11
        /\ step' = step + 1
    <2>1. AllocateMap => step = Loads + 11 /\ step' = Loads + 12
      BY Zenon, StepsTaken DEF BootInv
    <2>2. AllocatePool => (step = 2 \/ step \in Loads + 4 .. Loads + 8) /\ step' = step + 1
      BY Zenon, StepsTaken DEF BootInv
    <2>3. (Loads + 11) + 1 = Loads + 12
      BY LoadsNat
    <2> QED BY Zenon, <2>1, <2>2, <2>3
  <1>2. Keeps(step, step')
    <2>1. /\ step \in Nat /\ step' \in Nat
          /\ step = 2 \/ step \in Loads + 4 .. Loads + 8 \/ step \in Loads + 9 .. Loads + 15
      BY <1>1, LoadsNat
    <2> QED BY Zenon, <1>1, <2>1, MovesKeep
  <1>3. PoolTaken /\ UNCHANGED <<services, contents, image, tablePool, infoMap, heldKey, bootTables>>
    BY Zenon DEF AllocatePool, AllocateMap
  <1>4. /\ LoaderStays /\ PiecesAdded /\ poolPages' \subseteq BootPages /\ fwKey' \in Nat
        /\ fwMap' \in [BootPages -> {"free", "firmware", "loader"}]
    BY Zenon, <1>3, PieceTaken
  <1>5. KernelStays
    BY Zenon, <1>3 DEF KernelStays
  <1>6. BootTypeOK'
    <2>1. step' \in 1 .. Loads + 17
      BY Zenon, <1>2 DEF Keeps
    <2> QED BY Zenon, <1>3, <1>4, <2>1, TypeStays DEF BootInv, BootTypeOK
  <1>7. MapHeld' /\ TablesBuilt'
    <2>1. step' \in Nat /\ step' < Loads + 13 /\ step' < Loads + 15
      BY <1>1, LoadsNat
    <2> QED BY Zenon, <2>1, NotYet
  <1> QED BY Zenon, <1>2, <1>3, <1>4, <1>5, <1>6, <1>7, SegmentsStay, PoolsStay, VerifiedStays DEF BootInv

(* Every step of the loader and of the firmware keeps it.                  *)
LEMMA BootStep == BootInv /\ [BootNext]_bootVars => BootInv'
  <1> SUFFICES ASSUME BootInv, [BootNext]_bootVars PROVE BootInv'
    BY Zenon
  <1>0. step \in 1 .. Loads + 17 /\ step \in Nat /\ heldKey \in Nat /\ fwKey \in Nat
    <2>1. step \in 1 .. Loads + 17 /\ heldKey \in Nat /\ fwKey \in Nat
      BY Zenon, PlacesAre DEF BootInv, BootTypeOK
    <2> QED BY <2>1, LoadsNat
  <1>1. ASSUME Fails PROVE BootInv'
    <2>1. step' = Loads + 17 /\ Loads + 17 \in Nat
      BY <1>1, StepsTaken, LoadsNat DEF BootInv
    <2>2. Keeps(step, step')
      BY Zenon, <1>0, <2>1, MovesKeep
    <2>3. BootTypeOK' /\ SegmentsKept' /\ PoolsKept' /\ Verified'
      BY Zenon, <1>0, <1>1, <2>2, PagesUntouched DEF Fails
    <2> QED BY Zenon, <2>1, <2>3, NotYet DEF BootInv
  <1>2. ASSUME OpenRoot \/ ProbeSize PROVE BootInv'
    <2>1. (step = 1 /\ step' = 2) \/ (step = Loads + 10 /\ step' = Loads + 11)
      <3>1. OpenRoot => step = 1 /\ step' = step + 1
        BY Zenon, StepsTaken DEF BootInv
      <3>2. ProbeSize => step = Loads + 10 /\ step' = Loads + 11
        BY Zenon, StepsTaken DEF BootInv
      <3>3. step = 1 /\ step' = step + 1 => step' = 2
        OBVIOUS
      <3> QED BY Zenon, <1>2, <3>1, <3>2, <3>3
    <2>2. /\ step' \in Nat /\ step' < Loads + 13 /\ step' < Loads + 15
          /\ (step = 1 /\ step' = 2) \/ (step \in Loads + 9 .. Loads + 15 /\ step' = step + 1)
      BY <2>1, LoadsNat
    <2>3. Keeps(step, step')
      BY Zenon, <1>0, <2>2, MovesKeep
    <2>4. BootTypeOK' /\ SegmentsKept' /\ PoolsKept' /\ Verified'
      BY Zenon, <1>0, <1>2, <2>3, PagesUntouched DEF OpenRoot, ProbeSize
    <2> QED BY Zenon, <2>2, <2>4, NotYet DEF BootInv
  <1>3. ASSUME VerifyKernel PROVE BootInv'
    <2>1. step = Loads + 3 /\ step' = step + 1
      BY Zenon, <1>3, StepsTaken DEF BootInv
    <2>2. /\ UNCHANGED <<fwMap, fwKey, contents, image, tablePool, poolPages, heldKey>>
          /\ image.entry \in KernelSpan /\ (image.signed => image.agrees)
      BY Zenon, <1>3 DEF VerifyKernel
    <2>3. /\ step' \in 1 .. Loads + 17 /\ step' \in Nat /\ step' < Loads + 13 /\ step' < Loads + 15
          /\ step # Loads + 17 /\ step <= Loads + 9 /\ \A i \in 1 .. Loads : i + 2 < step
      BY <2>1, LoadsNat
    <2>4. BootTypeOK'
      BY Zenon, <2>2, <2>3, TypeStays DEF BootInv, BootTypeOK
    <2>5. SegmentsKept'
      BY Zenon, <2>2, <2>3, PlacesAre DEF BootInv, SegmentsKept
    <2>6. PoolsKept'
      BY Zenon, <2>2, <2>3, PlacesAre DEF BootInv, PoolsKept
    <2>7. Verified'
      BY Zenon, <2>2 DEF Verified
    <2> QED BY Zenon, <2>3, <2>4, <2>5, <2>6, <2>7, NotYet DEF BootInv
  <1>4. ASSUME GetMemoryMap PROVE BootInv'
    <2>1. step = Loads + 12 /\ step' = Loads + 13
      BY Zenon, <1>4, StepsTaken DEF BootInv
    <2>2. /\ UNCHANGED <<fwMap, fwKey, contents, image, tablePool, poolPages>>
          /\ heldKey' = fwKey /\ infoMap' = fwMap
      BY Zenon, <1>4 DEF GetMemoryMap
    <2>3. /\ step' \in Nat /\ step' < Loads + 15 /\ step \in Loads + 9 .. Loads + 15 /\ step' = step + 1
          /\ step' \notin Loads + 14 .. Loads + 16 /\ fwKey <= fwKey
      BY <1>0, <2>1, LoadsNat
    <2>4. Keeps(step, step')
      BY Zenon, <1>0, <2>3, MovesKeep
    <2>5. BootTypeOK' /\ SegmentsKept' /\ PoolsKept' /\ Verified'
      BY Zenon, <1>0, <2>2, <2>4, PagesUntouched
    <2>6. MapHeld'
      BY Zenon, <2>2, <2>3, PlacesAre DEF MapHeld
    <2> QED BY Zenon, <2>3, <2>5, <2>6, NotYet DEF BootInv
  <1>5. ASSUME ExitBootServices PROVE BootInv'
    <2>1. step = Loads + 13 /\ (step' = Loads + 14 \/ step' = Loads + 11)
      BY Zenon, <1>5, StepsTaken DEF BootInv
    <2>2. UNCHANGED <<fwMap, fwKey, contents, image, tablePool, poolPages, infoMap, heldKey>>
      BY Zenon, <1>5 DEF ExitBootServices
    <2>3. /\ step' \in Nat /\ step' < Loads + 15 /\ Loads + 14 # Loads + 11 /\ Loads + 14 # Loads + 13
          /\ step' = Loads + 11 => step' < Loads + 13
          /\ \/ step \in Loads + 9 .. Loads + 15 /\ step' = step + 1
             \/ step = Loads + 13 /\ step' = Loads + 11
      BY <2>1, LoadsNat
    <2>4. Keeps(step, step')
      BY Zenon, <1>0, <2>3, MovesKeep
    <2>5. BootTypeOK' /\ SegmentsKept' /\ PoolsKept' /\ Verified'
      BY Zenon, <1>0, <2>2, <2>4, PagesUntouched
    <2>6. MapHeld'
      <3>1. CASE step' = Loads + 11
        BY Zenon, <2>3, <3>1, NotYet
      <3>2. CASE step' = Loads + 14
        <4>1. ~Goto("allocate")
          BY Zenon, <2>3, <3>2, PlacesAre DEF Goto, Place
        <4>2. heldKey = fwKey /\ services' = FALSE
          BY Zenon, <1>5, <4>1 DEF ExitBootServices
        <4>3. infoMap = fwMap
          BY Zenon, <2>1, <4>2, PlacesAre DEF BootInv, MapHeld
        <4> QED BY Zenon, <2>2, <2>3, <3>2, <4>2, <4>3, PlacesAre DEF MapHeld
      <3> QED BY Zenon, <2>1, <3>1, <3>2
    <2> QED BY Zenon, <2>3, <2>5, <2>6, NotYet DEF BootInv
  <1>6. ASSUME EnterKernel PROVE BootInv'
    <2>1. step = Loads + 15 /\ step' = Loads + 16
      BY Zenon, <1>6, StepsTaken DEF BootInv
    <2>2. UNCHANGED <<fwMap, fwKey, contents, image, tablePool, poolPages, services, infoMap, heldKey, bootTables>>
      BY Zenon, <1>6 DEF EnterKernel
    <2>3. /\ step' \in Nat /\ step \in Loads + 9 .. Loads + 15 /\ step' = step + 1 /\ step' # Loads + 13
          /\ step \in Loads + 14 .. Loads + 16 /\ step \in Loads + 15 .. Loads + 16
      BY <2>1, LoadsNat
    <2>4. Keeps(step, step')
      BY Zenon, <1>0, <2>3, MovesKeep
    <2>5. BootTypeOK' /\ SegmentsKept' /\ PoolsKept' /\ Verified'
      BY Zenon, <1>0, <2>2, <2>4, PagesUntouched
    <2>6. MapHeld'
      BY Zenon, <2>2, <2>3, PlacesAre DEF BootInv, MapHeld
    <2>7. TablesBuilt'
      BY Zenon, <2>2, <2>3, PlacesAre DEF BootInv, TablesBuilt
    <2> QED BY Zenon, <2>5, <2>6, <2>7 DEF BootInv
  <1>7. CASE UNCHANGED bootVars
    BY Zenon, <1>7 DEF BootInv, BootTypeOK, SegmentsKept, PoolsKept, MapHeld, Verified, TablesBuilt, bootVars
  <1> QED BY Zenon, <1>1, <1>2, <1>3, <1>4, <1>5, <1>6, <1>7, FirmwareActs, PoolAllocated, SegmentLoaded,
             TablesReserved, TablesWritten DEF BootNext, Stopped

(* However the firmware's events fall, when efi_main jumps the kernel gets *)
(* the map in force when boot services ended, with everything the loader   *)
(* allocated still loader data in it, its segments untouched, and tables   *)
(* that map it; for every map, image and number of firmware events.        *)
THEOREM HandedOverAlways == BootSpec => []HandedOver
  <1>1. BootInv => HandedOver
    <2> SUFFICES ASSUME BootInv, At("kernel")
                 PROVE  /\ ~services
                        /\ infoMap = fwMap
                        /\ \A p \in KernelPages \union tablePool \union poolPages : infoMap[p] = "loader"
                        /\ \A p \in KernelPages : contents[p] = "kernel"
                        /\ tablePool \intersect (KernelPages \union poolPages) = {}
                        /\ image.entry \in bootTables.kernel /\ bootTables.identity = BootPages
                        /\ image.signed => image.agrees
      BY Zenon DEF HandedOver
    <2>1. step = Loads + 16
      <3>1. step \in 1 .. Loads + 17
        BY Zenon, PlacesAre DEF BootInv, BootTypeOK
      <3> QED BY <3>1, StepAt, Zenon DEF OnlyAt, At
    <2>2. step # Place("halted") /\ \A i \in 1 .. Loads : i + 2 < step
      BY <2>1, PlacesAre, LoadsNat
    <2>3. \A p \in KernelPages : fwMap[p] = "loader" /\ contents[p] = "kernel"
      BY <2>2, SegmentPages, Zenon DEF BootInv, SegmentsKept
    <2>i. /\ step \in Loads + 14 .. Loads + 16 /\ step \in Loads + 15 .. Loads + 16
          /\ step \in (Loads + 3) + 1 .. Loads + 16
      BY <2>1, LoadsNat
    <2>4. ~services /\ infoMap = fwMap
      BY Zenon, <2>i, PlacesAre DEF BootInv, MapHeld
    <2>5. /\ \A p \in tablePool \cup poolPages : fwMap[p] = "loader"
          /\ tablePool \cap (KernelPages \cup poolPages) = {}
      BY <2>2, Zenon DEF BootInv, PoolsKept
    <2>6. /\ bootTables.kernel = KernelSpan /\ bootTables.identity = BootPages
          /\ image.entry \in KernelSpan /\ (image.signed => image.agrees)
      BY Zenon, <2>i, PlacesAre DEF BootInv, Verified, TablesBuilt
    <2> QED BY <2>3, <2>4, <2>5, <2>6, Zenon
  <1> QED BY <1>1, BootInitial, BootStep, PTL DEF BootSpec
=============================================================================
