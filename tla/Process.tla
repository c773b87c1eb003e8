------------------------------ MODULE Process -------------------------------
(***************************************************************************)
(* Processes and their supervision: the process table with spawn, wait and *)
(* exit (process.rs), ring-3 faults (idt.rs recover_or_halt), the driver   *)
(* supervisor (supervisor.rs), the device manager (device_manager.rs), the *)
(* service manager, and the order in which kernel_main starts them.        *)
(*                                                                         *)
(* All these threads share the boot core: spawn() queues on the core that  *)
(* calls it and a core's queue is never empty (CoresInv of Scheduler), so  *)
(* nothing is stolen.  System calls, faults and timer handlers run with    *)
(* interrupts off and are one step each, but for the places where they     *)
(* halt with interrupts on; ring 3, driver set-up and kernel_main are      *)
(* preempted anywhere.                                                     *)
(***************************************************************************)
EXTENDS Integers, Sequences, FiniteSets

CONSTANTS Devices,      \* the devices present; VGA has no supervised driver
          MaxRestarts,  \* MAX_RESTARTS of device_manager.rs
          MaxProcs,     \* bound: processes ever spawned
          MaxThreads    \* bound: threads ever created

ASSUME ProcessConstants ==
  /\ Devices \subseteq {"ahci", "xhci", "compositor", "vga"}
  /\ MaxRestarts \in Nat /\ MaxProcs \in Nat /\ MaxThreads \in Nat

VARIABLES boot,        \* kernel_main: the next entry of BootScript
          nextTid,     \* NEXT_TID
          role,        \* what each thread runs: a device's driver, or a program
          mode,        \* where each thread is
          wants,       \* the pid a thread in sys_wait waits for
          got,         \* what the last sys_wait of the thread returned
          nextPid,     \* NEXT_PID
          table,       \* PROCESS_TABLE
          registered,  \* REGISTRY: devices with an entry
          owner,       \* owner_thread of the entry, 0 = none
          installed,   \* GLOBAL of device_manager.rs is Some
          managed,     \* DeviceState of the devices it holds
          restarts,    \* restart_count
          trail,       \* the audit records about each device
          services,    \* service_manager_thread: off, spawned, done
          panicked     \* the panic handler halted the kernel

threadVars == <<nextTid, role, mode, wants, got>>
procVars   == <<nextPid, table>>
devVars    == <<registered, owner, installed, managed, restarts, trail, services>>
vars == <<boot, threadVars, procVars, devVars, panicked>>

Threads  == 1..MaxThreads
Codes    == {"success", "failure"}
Absent   == "Absent"
Results  == {"none"} \cup Codes
Entry    == [pid : 1..MaxProcs, tid : Threads, exited : BOOLEAN, code : Codes]
Events   == [event : {"crashed", "restarted", "quarantined"}, attempt : 0..MaxRestarts]

(***************************************************************************)
(* kernel_main.  xHCI (and the network stack) register with the supervisor *)
(* and then spawn their driver; AHCI's driver is spawned there too but     *)
(* registered only after the device manager is installed; the compositor's *)
(* is spawned, then entered in the device manager, then registered.        *)
(***************************************************************************)
BootScript ==
  << <<"spawn", "ahci">>, <<"register", "xhci">>, <<"spawn", "xhci">>,
     <<"install", "all">>, <<"register", "ahci">>, <<"services", "all">>,
     <<"spawn", "compositor">>, <<"synthetic", "compositor">>,
     <<"register", "compositor">>, <<"program", "all">> >>

First(hits) == CHOOSE i \in hits : \A j \in hits : i <= j

(* The step kernel_main comes to after i: it skips those of absent devices.*)
Following(i) ==
  LET ahead == {j \in DOMAIN BootScript : i < j /\ BootScript[j][2] \in Devices \cup {"all"}}
  IN  IF ahead = {} THEN Len(BootScript) + 1 ELSE First(ahead)

Alive(t) == mode[t] \notin {"unborn", "dead"}

Init ==
  /\ boot = Following(0) /\ nextTid = 1 /\ nextPid = 1 /\ table = <<>>
  /\ role = [t \in Threads |-> "none"]
  /\ mode = [t \in Threads |-> "unborn"]
  /\ wants = [t \in Threads |-> 0]
  /\ got = [t \in Threads |-> "none"]
  /\ registered = {} /\ owner = [d \in Devices |-> 0]
  /\ installed = FALSE
  /\ managed = [d \in Devices |-> Absent]
  /\ restarts = [d \in Devices |-> 0]
  /\ trail = [d \in Devices |-> <<>>]
  /\ services = "off" /\ panicked = FALSE

(* thread::spawn and spawn_user: a new thread runs r, starting in m.       *)
NewThread(r, m) ==
  /\ nextTid \in Threads
  /\ nextTid' = nextTid + 1
  /\ role' = [role EXCEPT ![nextTid] = r]
  /\ mode' = [mode EXCEPT ![nextTid] = m]

-----------------------------------------------------------------------------
(* kernel_main, one call of the script at a time.                          *)

At(op)  == ~panicked /\ boot \in DOMAIN BootScript /\ BootScript[boot][1] = op
BootDev == BootScript[boot][2]

BootSpawn ==
  /\ At("spawn") /\ NewThread(BootDev, "setup")
  /\ boot' = Following(boot)
  /\ UNCHANGED <<wants, got, procVars, devVars, panicked>>

(* supervisor::register: a new entry has no owner.                         *)
BootRegister ==
  /\ At("register")
  /\ registered' = registered \cup {BootDev}
  /\ boot' = Following(boot)
  /\ UNCHANGED <<threadVars, procVars, owner, installed, managed, restarts, trail, services, panicked>>

(* discover, bind_all, mark_running of the AHCI controller and             *)
(* install_global.  classify() does not know xHCI's class.                 *)
BootInstall ==
  /\ At("install")
  /\ installed' = TRUE
  /\ managed' = [d \in Devices |-> CASE d = "ahci" -> "Running"
                                     [] d = "xhci" -> "Discovered"
                                     [] d = "vga" -> "Bound"
                                     [] OTHER -> Absent]
  /\ boot' = Following(boot)
  /\ UNCHANGED <<threadVars, procVars, registered, owner, restarts, trail, services, panicked>>

(* register_synthetic: born running.                                       *)
BootSynthetic ==
  /\ At("synthetic")
  /\ managed' = [managed EXCEPT ![BootDev] = IF @ = Absent THEN "Running" ELSE @]
  /\ boot' = Following(boot)
  /\ UNCHANGED <<threadVars, procVars, registered, owner, installed, restarts, trail, services, panicked>>

(* spawn_init: init and the service manager, which init's SVC_START wakes. *)
BootServices ==
  /\ At("services")
  /\ services' = "spawned"
  /\ boot' = Following(boot)
  /\ UNCHANGED <<threadVars, procVars, registered, owner, installed, managed, restarts, trail, panicked>>

(* The first program, spawned with an ExecHandle.                          *)
BootProgram ==
  /\ At("program") /\ NewThread("app", "user")
  /\ boot' = Following(boot)
  /\ UNCHANGED <<wants, got, procVars, devVars, panicked>>

(* DeviceManager::mark_running.                                            *)
MarkRunning(st) == IF st \in {"Bound", "Restarting"} THEN "Running" ELSE st

(* service_manager_thread: mark_running of every bound device.             *)
ServiceStart ==
  /\ ~panicked /\ services = "spawned"
  /\ services' = "done"
  /\ managed' = [d \in Devices |-> IF managed[d] = "Bound" THEN MarkRunning(managed[d]) ELSE managed[d]]
  /\ UNCHANGED <<boot, threadVars, procVars, registered, owner, installed, restarts, trail, panicked>>

-----------------------------------------------------------------------------
(* Drivers and faults.                                                     *)

(* A driver thread: mark_thread_owner first (a no-op without an entry),    *)
(* then the set-up that ends in ring 3.                                    *)
DriverStart(t) ==
  /\ ~panicked /\ mode[t] = "setup"
  /\ owner' = [d \in Devices |-> IF d = role[t] /\ d \in registered THEN t ELSE owner[d]]
  /\ mode' = [mode EXCEPT ![t] = "user"]
  /\ UNCHANGED <<boot, nextTid, role, wants, got, procVars, registered, installed, managed, restarts, trail, services, panicked>>

(* Its set-up failed after mark_thread_owner: the entry point returns.     *)
DriverAbort(t) ==
  /\ ~panicked /\ mode[t] = "setup"
  /\ owner' = [d \in Devices |-> IF d = role[t] /\ d \in registered THEN t ELSE owner[d]]
  /\ mode' = [mode EXCEPT ![t] = "dead"]
  /\ UNCHANGED <<boot, nextTid, role, wants, got, procVars, registered, installed, managed, restarts, trail, services, panicked>>

(* decide_restart, with report_crash's bookkeeping for device d.           *)
Quarantine(d) == restarts[d] >= MaxRestarts

ReportCrash(d) ==
  /\ restarts' = [restarts EXCEPT ![d] = IF Quarantine(d) THEN @ ELSE @ + 1]
  /\ trail' = [trail EXCEPT ![d] = @ \o
        << [event |-> "crashed", attempt |-> 0],
           IF Quarantine(d) THEN [event |-> "quarantined", attempt |-> 0]
           ELSE [event |-> "restarted", attempt |-> restarts'[d]] >>]

(* The device the registry traces a dying thread to, if any.               *)
Traced(t) == {d \in registered : owner[d] = t}

(* recover_or_halt on a ring-3 fault: on_process_killed, then the kill.    *)
(* A thread no entry names is just killed.                                 *)
FaultUntraced(t) ==
  /\ ~panicked /\ mode[t] = "user" /\ Traced(t) = {}
  /\ mode' = [mode EXCEPT ![t] = "dead"]
  /\ UNCHANGED <<boot, nextTid, role, wants, got, procVars, devVars, panicked>>

(* with_global before install_global unwraps None.                         *)
FaultEarly(t) ==
  /\ ~panicked /\ mode[t] = "user" /\ Traced(t) # {} /\ ~installed
  /\ panicked' = TRUE
  /\ UNCHANGED <<boot, threadVars, procVars, devVars>>

(* report_crash; respawn() and mark_running if the budget allows it.       *)
FaultDriver(t) ==
  LET d == CHOOSE x \in Traced(t) : TRUE IN
  /\ ~panicked /\ mode[t] = "user" /\ Traced(t) # {} /\ installed
  /\ ReportCrash(d)
  /\ managed' = [managed EXCEPT ![d] = IF Quarantine(d) THEN "Failed" ELSE MarkRunning("Restarting")]
  /\ IF Quarantine(d)
     THEN mode' = [mode EXCEPT ![t] = "dead"] /\ UNCHANGED <<nextTid, role>>
     ELSE /\ nextTid \in Threads /\ nextTid' = nextTid + 1
          /\ role' = [role EXCEPT ![nextTid] = d]
          /\ mode' = [mode EXCEPT ![t] = "dead", ![nextTid] = "setup"]
  /\ UNCHANGED <<boot, wants, got, procVars, registered, owner, installed, services, panicked>>

-----------------------------------------------------------------------------
(* Processes.                                                              *)

(* sys_spawn with the EXEC right: the path is looked up and the file read  *)
(* through the file service, halting with interrupts on in between.        *)
SpawnBegin(t) ==
  /\ ~panicked /\ mode[t] = "user" /\ role[t] = "app" /\ nextPid <= MaxProcs
  /\ mode' = [mode EXCEPT ![t] = "loading"]
  /\ UNCHANGED <<boot, nextTid, role, wants, got, procVars, devVars, panicked>>

(* No server, no such path, a timeout or a bad ELF file.                   *)
SpawnFail(t) ==
  /\ ~panicked /\ mode[t] = "loading"
  /\ mode' = [mode EXCEPT ![t] = "user"]
  /\ UNCHANGED <<boot, nextTid, role, wants, got, procVars, devVars, panicked>>

(* Mutant: the entry names the spawning thread.                            *)
SpawnDone_Parent(t) ==
  /\ ~panicked /\ mode[t] = "loading" /\ nextTid \in Threads
  /\ nextTid' = nextTid + 1
  /\ role' = [role EXCEPT ![nextTid] = "child"]
  /\ mode' = [mode EXCEPT ![t] = "user", ![nextTid] = "user"]
  /\ nextPid' = nextPid + 1
  /\ table' = Append(table, [pid |-> nextPid, tid |-> t, exited |-> FALSE, code |-> "success"])
  /\ UNCHANGED <<boot, wants, got, devVars, panicked>>

(* The new address space is built; the pid, the thread and the table entry *)
(* are made with interrupts off.                                           *)
SpawnDone(t) ==
  /\ ~panicked /\ mode[t] = "loading" /\ nextTid \in Threads
  /\ nextTid' = nextTid + 1
  /\ role' = [role EXCEPT ![nextTid] = "child"]
  /\ mode' = [mode EXCEPT ![t] = "user", ![nextTid] = "user"]
  /\ nextPid' = nextPid + 1
  /\ table' = Append(table, [pid |-> nextPid, tid |-> nextTid, exited |-> FALSE, code |-> "success"])
  /\ UNCHANGED <<boot, wants, got, devVars, panicked>>

(* iter().position(): the first index that matches, 0 for None.            *)
Position(hits) == IF hits = {} THEN 0 ELSE First(hits)

WithPid(p) == Position({i \in DOMAIN table : table[i].pid = p})
WithTid(t) == Position({i \in DOMAIN table : table[i].tid = t})

(* sys_wait of a pid the table holds (without one it returns at once, and  *)
(* changes nothing): the test is made once, then try_wait is repeated,     *)
(* halting in between.                                                     *)
WaitBegin(t, p) ==
  /\ ~panicked /\ mode[t] = "user" /\ role[t] \in {"app", "child"} /\ WithPid(p) # 0
  /\ got' = [got EXCEPT ![t] = "none"]
  /\ mode' = [mode EXCEPT ![t] = "wait"]
  /\ wants' = [wants EXCEPT ![t] = p]
  /\ UNCHANGED <<boot, nextTid, role, procVars, devVars, panicked>>

(* Mutant: try_wait takes an entry whose process still runs.               *)
TryWait_Running(t) ==
  LET i == WithPid(wants[t]) IN
  /\ ~panicked /\ mode[t] = "wait" /\ i # 0
  /\ table' = SubSeq(table, 1, i - 1) \o SubSeq(table, i + 1, Len(table))
  /\ got' = [got EXCEPT ![t] = table[i].code]
  /\ mode' = [mode EXCEPT ![t] = "user"]
  /\ wants' = [wants EXCEPT ![t] = 0]
  /\ UNCHANGED <<boot, nextTid, role, nextPid, devVars, panicked>>

(* Mutant: try_wait looks at the oldest entry only.                        *)
TryWait_Oldest(t) ==
  LET i == WithPid(wants[t]) IN
  /\ ~panicked /\ mode[t] = "wait" /\ i = 1 /\ table[i].exited
  /\ table' = SubSeq(table, 1, i - 1) \o SubSeq(table, i + 1, Len(table))
  /\ got' = [got EXCEPT ![t] = table[i].code]
  /\ mode' = [mode EXCEPT ![t] = "user"]
  /\ wants' = [wants EXCEPT ![t] = 0]
  /\ UNCHANGED <<boot, nextTid, role, nextPid, devVars, panicked>>

(* try_wait: an exited entry is removed and its code returned.             *)
TryWait(t) ==
  LET i == WithPid(wants[t]) IN
  /\ ~panicked /\ mode[t] = "wait" /\ i # 0 /\ table[i].exited
  /\ table' = SubSeq(table, 1, i - 1) \o SubSeq(table, i + 1, Len(table))
  /\ got' = [got EXCEPT ![t] = table[i].code]
  /\ mode' = [mode EXCEPT ![t] = "user"]
  /\ wants' = [wants EXCEPT ![t] = 0]
  /\ UNCHANGED <<boot, nextTid, role, nextPid, devVars, panicked>>

(* sys_exit: record the code in the caller's entry, if it has one, kill.   *)
SysExit(t, code) ==
  LET i == WithTid(t) IN
  /\ ~panicked /\ mode[t] = "user" /\ role[t] \in {"app", "child"}
  /\ table' = IF i = 0 THEN table
               ELSE [table EXCEPT ![i].exited = TRUE, ![i].code = code]
  /\ mode' = [mode EXCEPT ![t] = "dead"]
  /\ UNCHANGED <<boot, nextTid, role, wants, got, nextPid, devVars, panicked>>

Kernel == BootSpawn \/ BootRegister \/ BootInstall \/ BootSynthetic \/ BootServices \/ BootProgram

Next ==
  \/ Kernel \/ ServiceStart
  \/ \E t \in Threads :
        \/ DriverStart(t) \/ DriverAbort(t)
        \/ FaultUntraced(t) \/ FaultEarly(t) \/ FaultDriver(t)
        \/ SpawnBegin(t) \/ SpawnFail(t) \/ SpawnDone(t)
        \/ (\E p \in 1..MaxProcs : WaitBegin(t, p)) \/ TryWait(t)
        \/ (\E code \in Codes : SysExit(t, code))

Spec == Init /\ [][Next]_vars

(***************************************************************************)
(* Fairness: the scheduler runs every thread that is ready (ReadyRuns of   *)
(* Scheduler), so kernel_main, a driver's set-up and a thread that polls   *)
(* in sys_wait make progress.  What programs do in ring 3 is their own.    *)
(***************************************************************************)
Fairness ==
  /\ WF_vars(Kernel) /\ WF_vars(ServiceStart)
  /\ \A t \in Threads : WF_vars(DriverStart(t) \/ DriverAbort(t)) /\ WF_vars(TryWait(t))

FairSpec == Spec /\ Fairness

-----------------------------------------------------------------------------

Instances(d) == {t \in Threads : role[t] = d}

TrailTrue ==
  \A d \in Devices :
     LET n == restarts[d]
         expected == [i \in 1..(2 * n) |->
                        IF i % 2 = 1 THEN [event |-> "crashed", attempt |-> 0]
                        ELSE [event |-> "restarted", attempt |-> i \div 2]]
         closing == << [event |-> "crashed", attempt |-> 0], [event |-> "quarantined", attempt |-> 0] >>
     IN  /\ n <= MaxRestarts
         /\ Cardinality(Instances(d)) <= n + 1
         /\ n > 0 => Cardinality(Instances(d)) = n + 1
         /\ trail[d] = expected \/ (managed[d] = "Failed" /\ n = MaxRestarts /\ trail[d] = expected \o closing)

(* The invariant of the tables: entries name the thread they were made     *)
(* for, an exited process has no live thread, a waiter waits for a pid     *)
(* that was given out; a device has at most one live driver although the   *)
(* new one is spawned before the old one is killed, and none once it is    *)
(* quarantined.  And the audit trail accounts for every restart            *)
(* (TrailTrue): attempts are numbered from one to restart_count, each      *)
(* behind the crash that caused it, there is one driver instance per       *)
(* attempt besides the first, never more than the budget, and a quarantine *)
(* closes the trail of a failed device.                                    *)
ProcInv ==
  /\ TrailTrue
  /\ boot \in 1..(Len(BootScript) + 1) /\ nextTid \in 1..(MaxThreads + 1) /\ nextPid \in 1..(MaxProcs + 1)
  /\ role \in [Threads -> Devices \cup {"none", "app", "child"}]
  /\ mode \in [Threads -> {"unborn", "setup", "user", "loading", "wait", "dead"}]
  /\ wants \in [Threads -> 0..MaxProcs] /\ got \in [Threads -> Results]
  /\ registered \subseteq Devices /\ owner \in [Devices -> Threads \cup {0}]
  /\ \A t \in Threads : /\ mode[t] = "unborn" <=> nextTid <= t
                        /\ mode[t] = "wait" => wants[t] \in 1..(nextPid - 1)
  /\ \A i \in DOMAIN table :
        /\ table[i] \in Entry /\ table[i].pid < nextPid
        /\ \A j \in DOMAIN table : i < j => table[i].pid < table[j].pid /\ table[i].tid < table[j].tid
        /\ role[table[i].tid] = "child"
        /\ table[i].exited => mode[table[i].tid] = "dead"
  /\ \A d \in Devices :
        /\ owner[d] # 0 => d \in registered /\ role[owner[d]] = d
        /\ \A t, u \in Instances(d) : Alive(t) /\ Alive(u) => t = u
        /\ managed[d] = "Failed" => \A t \in Instances(d) : ~Alive(t)

(* No exit is lost and none is reported twice: an entry leaves the table   *)
(* only when its process has exited, and then exactly one waiter returns,  *)
(* with that process's code.                                               *)
ExitDelivered ==
  [][\A i \in DOMAIN table :
        (\A j \in DOMAIN table' : table'[j].pid # table[i].pid) =>
           /\ table[i].exited
           /\ \E t \in Threads :
                 /\ mode[t] = "wait" /\ wants[t] = table[i].pid
                 /\ mode'[t] = "user" /\ got'[t] = table[i].code
                 /\ \A u \in Threads \ {t} : mode'[u] = mode[u] /\ got'[u] = got[u]]_vars

WaitsFor(t, p) == mode[t] = "wait" /\ wants[t] = p

(* sys_wait of the only waiter returns once the process has called         *)
(* sys_exit, whatever else spawns, exits or crashes meanwhile.             *)
SoleWaiterReturns ==
  \A t \in Threads, p \in 1..MaxProcs :
     (/\ WaitsFor(t, p) /\ \A u \in Threads \ {t} : ~WaitsFor(u, p)
      /\ \E i \in DOMAIN table : table[i].pid = p /\ table[i].exited)
     ~> (~WaitsFor(t, p) \/ panicked \/ \E u \in Threads \ {t} : WaitsFor(u, p))

(* "Loops yielding the CPU until child process `pid` exits": a wait for a  *)
(* process whose thread is gone returns.                                   *)
WaitReturns ==
  \A t \in Threads, p \in 1..MaxProcs :
     (WaitsFor(t, p) /\ \E i \in DOMAIN table : table[i].pid = p /\ mode[table[i].tid] = "dead")
     ~> (~WaitsFor(t, p) \/ panicked)

(* "Kills ONLY the faulting process and lets the system continue": no      *)
(* ring-3 fault halts the kernel.                                          *)
FaultContained == ~panicked
=============================================================================
