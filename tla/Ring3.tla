-------------------------------- MODULE Ring3 -------------------------------
(***************************************************************************)
(* How a kernel thread becomes a ring-3 process and what the core keeps    *)
(* for it: the set-up function of every program (one script each), the     *)
(* core's CR3, TSS.rsp0, per-core kernel_rsp and I/O permission bitmap,    *)
(* syscall_entry with its swapgs pairs, and the context switch that may    *)
(* come between any two steps taken with interrupts on (thread.rs,         *)
(* syscall.rs, gdt.rs, ring3.rs, installer.rs, driver.rs).                 *)
(*                                                                         *)
(* One core: every process is spawned by kernel_main or by a process of    *)
(* the boot core, spawn() queues on the caller's core, and a core whose    *)
(* idle thread lives steals nothing (Scheduler).  syscall::init has run on *)
(* it before the first spawn.  What a set-up maps into the new space       *)
(* (image, stacks, MMIO, DMA and info pages) is private to the thread      *)
(* until it enters ring 3; Memory models the frames and the IOMMU.         *)
(***************************************************************************)
EXTENDS Naturals, Sequences, FiniteSets

CONSTANTS Threads,   \* the process threads; "main" is kernel_main, then idle
          Programs   \* the programs a behaviour may start, a subset of DOMAIN Script

VARIABLES prog,      \* the program each thread sets up
          mode,      \* "setup", "user", "dispatch", "halted" (in dispatch) or "gone"
          at,        \* set-up: the next step of the script
          recorded,  \* Thread.address_space: "kernel" or the owner of the space
          slots,     \* Thread.cap_table: the kind each slot was granted for
          told,      \* the info page: which slot the program uses for what
          enrolled,  \* what its set-up entered in tables of the kernel
          ports,     \* Thread.iopb: the ports it may use
          masked,    \* set-up: interrupts were left off
          ursp,      \* ring 3: whose user stack rsp points into
          kstack,    \* in a system call: the kernel stack it runs on
          saved,     \* top word of each kernel stack: the user rsp pushed there
          cut        \* history: preempted between CR3 and its record

processVars == <<enrolled, prog, mode, at, recorded, slots, told, ports, masked, ursp, kstack, saved, cut>>

VARIABLES cur, queue,   \* CURRENT and the run queue of the core
          cr3, rsp0, kernelRsp, gs, iopb
coreVars == <<cur, queue, cr3, rsp0, kernelRsp, gs, iopb>>

ring3Vars == <<processVars, coreVars>>

None == "none"
All  == Threads \cup {"main"}
-----------------------------------------------------------------------------
(* The steps of a set-up function.                                         *)

Step(op, arg) == [op |-> op, arg |-> arg]
Load     == << Step("load", "elf") >>    \* new_address_space, elf::load, stack pages
Image    == << Step("image", "bytes") >> \* the same with code bytes of its own
Disk     == << Step("disk", "wait") >>   \* waits that end in cli
Port(p)  == << Step("port", p) >>        \* create_port_capability, grant_port_access
Grant(k) == << Step("cap", k) >>         \* create_object, grant_current_capability
Info(f)  == << Step("info", f) >>        \* the info page; Last = the id just granted
Last     == 99
Enrol(s) == << Step("enrol", s) >>       \* entries in tables of the kernel, see Enrolled

(* set_kernel_stack of gdt and of syscall, syscall::init; then the new     *)
(* address space is switched to, recorded, and ring 3 entered.             *)
Stacks == << Step("stacks", "own") >>
EnterRing3 == << Step("switch", "own"), Step("record", "own"), Step("enter", "own") >>
Dive   == Stacks \o EnterRing3

(* install_into_current_thread, a request: skipped unless the manifest     *)
(* declares it; a port range goes to the I/O bitmap, the rest to a slot.   *)
Install(manifest, k) ==
  IF k \notin manifest THEN <<>> ELSE IF k = "port" THEN Port("com1") ELSE Grant(k)

(* Map is a device's BAR and DMA pages, with its IOMMU domain.              *)
Map == Enrol({"domain"})
serial_driver_thread   == Load \o Port("com1") \o Dive
fb_driver_thread       == Load \o Info(<<>>) \o Dive
keyboard_driver_thread == Load \o Port("ps2") \o Port("com1") \o Enrol({"irq1"}) \o Dive
mouse_driver_thread    == Load \o Port("ps2") \o Port("com1") \o Enrol({"irq12"}) \o Dive
virtio_blk_driver_thread ==
  Load \o Port("com1") \o Map \o Grant("fileServer") \o Enrol({"fileServer"})
    \o Info([fileServer |-> Last]) \o Dive
virtio_net_driver_thread == Load \o Port("com1") \o Map \o Info(<<>>) \o Dive
xhci_driver_thread     ==
  Enrol({"owner"}) \o Load \o Port("com1") \o Port("0x60") \o Map \o Info(<<>>) \o Dive
ahci_driver_thread     == Enrol({"owner"}) \o Load \o Port("com1") \o Map \o Info(<<>>) \o Dive
nvme_driver_thread     == Load \o Port("com1") \o Map \o Info(<<>>) \o Dive
e1000_driver_thread    == Load \o Port("com1") \o Map \o Info(<<>>) \o Dive
netstack_driver_thread ==
  Enrol({"owner"}) \o Load \o Port("com1") \o Map \o Grant("netServer") \o Enrol({"netServer"})
    \o Info([netServer |-> Last]) \o Dive
compositor_driver_thread == Enrol({"owner"}) \o Load \o Port("com1") \o Info(<<>>) \o Dive
spawn_window_client(label) ==
  Load \o Grant("surface") \o Grant("input")
    \o Enrol({"input", "window"} \cup IF label = "A" THEN {"focus"} ELSE {})
    \o Port("com1") \o Info([surface |-> 0, input |-> 1]) \o Dive
init_thread            == Image \o Dive
fault_demo_thread      == Image \o Dive
demo_ring3_thread      == Image \o Stacks \o Enrol({"endpoint", "receiver"}) \o EnterRing3
shell_thread           == Load \o Port("com1") \o Dive
agent_gateway_thread   == Load \o Port("com1") \o Port("com2") \o Dive
run_agent_demo         == Load \o Port("com1") \o Dive
installer_demo_thread  == Load \o Install({"port"}, "port") \o Install({"port"}, "surface") \o Dive

(* The windowed programs: after the installer, the surface is looked up in *)
(* slot 0, its input endpoint and the window are registered, the focus     *)
(* taken by all but the net client, and the slots written out.             *)
Windowed(start, requests, entries, info) ==
  start \o requests \o Grant("input") \o Enrol(entries) \o Info(info) \o Dive
Focused == {"input", "focus", "window"}
Drawing == LET manifest == {"surface", "port"} IN Install(manifest, "surface") \o Install(manifest, "port")
spawn_terminal_inner     == Windowed(Load, Drawing, Focused, [surface |-> 0, input |-> Last])
spawn_text_editor_inner  == Windowed(Load, Drawing, Focused, [surface |-> 0, input |-> Last])
sample_app_thread        == Windowed(Load, Drawing, Focused, [surface |-> 0, input |-> Last])
spawn_file_manager_inner ==
  LET manifest == {"surface", "port", "file"}
  IN  Windowed(Load, Install(manifest, "surface") \o Install(manifest, "port") \o Install(manifest, "file"),
               Focused, [surface |-> 0, input |-> Last])

\* The net client with its file asked for before its socket.
spawn_net_client_inner_FileFirst ==
  LET manifest == {"surface", "socket", "port", "file", "exec"}
  IN  Windowed(Disk \o Load,
               Install(manifest, "surface") \o Install(manifest, "file") \o Install(manifest, "port")
                 \o Install(manifest, "socket") \o Install(manifest, "exec"),
               {"input", "window"}, [surface |-> 0, input |-> Last, socket |-> 1, file |-> 2])
spawn_net_client_inner   ==
  LET manifest == {"surface", "socket", "port", "file", "exec"}
  IN  Windowed(Disk \o Load,
               Install(manifest, "surface") \o Install(manifest, "socket") \o Install(manifest, "port")
                 \o Install(manifest, "file") \o Install(manifest, "exec"),
               {"input", "window"}, [surface |-> 0, input |-> Last, socket |-> 1, file |-> 2])

Script == [serial |-> serial_driver_thread, framebuffer |-> fb_driver_thread,
           keyboard |-> keyboard_driver_thread, mouse |-> mouse_driver_thread,
           virtio_blk |-> virtio_blk_driver_thread, virtio_net |-> virtio_net_driver_thread,
           xhci |-> xhci_driver_thread, ahci |-> ahci_driver_thread,
           nvme |-> nvme_driver_thread, e1000 |-> e1000_driver_thread,
           netstack |-> netstack_driver_thread, compositor |-> compositor_driver_thread,
           clientA |-> spawn_window_client("A"),
           clientB |-> spawn_window_client("B"), init |-> init_thread,
           fault |-> fault_demo_thread, ring3 |-> demo_ring3_thread,
           shell |-> shell_thread, gateway |-> agent_gateway_thread,
           agent |-> run_agent_demo, stranger |-> run_agent_demo,
           violator |-> run_agent_demo, installer |-> installer_demo_thread,
           terminal |-> spawn_terminal_inner, editor |-> spawn_text_editor_inner,
           sample |-> sample_app_thread, files |-> spawn_file_manager_inner,
           netclient |-> spawn_net_client_inner]

ASSUME Ring3Constants ==
  Programs \subseteq DOMAIN Script /\ IsFiniteSet(Threads) /\ Threads \cap {"main", None} = {}

(* policy::allows: AGENT_MAX_RIGHTS has no PORT_IO.                        *)
Policy(k) == k # "portRange"

(* spawn_agent_demo, spawn_shell, agent_gateway::spawn_if_present: the     *)
(* grants passed to spawn_with_capabilities, as far as the policy goes.    *)
SpawnGrants(p) ==
  LET asked == CASE p \in {"agent", "shell"} -> <<"introspect", "audit">>
                 [] p = "gateway" -> <<"introspect">>
                 [] p = "violator" -> <<"portRange">>
                 [] OTHER -> <<>>
  IN  SelectSeq(asked, Policy)

(* The rights a slot of the kind carries.                                  *)
Rights(k) == CASE k = "introspect" -> {"INTROSPECT"}
               [] k = "audit" -> {"AUDIT_QUERY"}
               [] k = "surface" -> {"MAP"}
               [] k \in {"input", "fileServer", "netServer"} -> {"RECEIVE"}
               [] k = "file" -> {"READ", "WRITE"}
               [] k = "socket" -> {"SEND"}
               [] k = "exec" -> {"EXEC"}
               [] k = "portRange" -> {"PORT_IO"}

\* Threads are queued as they are spawned; any thread may have any program, so
\* one order stands for all.
SpawnOrder == CHOOSE q \in [1..Cardinality(Threads) -> Threads] :
                 \A i, j \in DOMAIN q : q[i] = q[j] => i = j

Ring3Init ==
  /\ prog \in [Threads -> Programs]
  /\ mode = [t \in Threads |-> "setup"] /\ at = [t \in Threads |-> 1]
  /\ recorded = [t \in Threads |-> "kernel"]
  /\ slots = [t \in Threads |-> SpawnGrants(prog[t])]
  /\ told = [t \in Threads |-> <<>>]
  /\ enrolled = [t \in Threads |-> {}] /\ ports = [t \in Threads |-> {}]
  /\ masked = [t \in Threads |-> FALSE]
  /\ ursp = [t \in Threads |-> None] /\ kstack = [t \in Threads |-> None]
  /\ saved = [t \in All |-> None] /\ cut = {}
  /\ cur = "main" /\ queue = SpawnOrder
  /\ cr3 = "kernel" /\ rsp0 = "main" /\ kernelRsp = "main" /\ gs = "user" /\ iopb = {}
-----------------------------------------------------------------------------
(* schedule_locked and switch_to: the head of the queue gets the core, its *)
(* kernel stack, its I/O bitmap and the address space recorded for it.     *)

Space(t) == IF t = "main" THEN "kernel" ELSE recorded[t]
Ports(t) == IF t = "main" THEN {} ELSE ports[t]

\* The incoming thread keeps the outgoing one's stack for system calls.
LoadCore_StaleStack(n) == kernelRsp' = kernelRsp /\ rsp0' = n /\ iopb' = Ports(n) /\ cr3' = Space(n)
LoadCore(n) == kernelRsp' = n /\ rsp0' = n /\ iopb' = Ports(n) /\ cr3' = Space(n)

SwitchTo(rest) ==
  /\ rest # <<>>
  /\ cur' = Head(rest) /\ queue' = Tail(rest)
  /\ LoadCore(Head(rest))
  /\ UNCHANGED gs

InterruptsOn ==
  cur \in Threads => mode[cur] \in {"user", "halted"} \/ (mode[cur] = "setup" /\ ~masked[cur])
AtStep(op) == cur # "main" /\ mode[cur] = "setup" /\ Script[prog[cur]][at[cur]].op = op
Arg        == Script[prog[cur]][at[cur]].arg

(* The timer, or an interrupt that ends a hlt.                             *)
Preempt ==
  /\ InterruptsOn /\ SwitchTo(Append(queue, cur))
  /\ cut' = IF AtStep("record") THEN cut \cup {cur} ELSE cut
  /\ UNCHANGED <<enrolled, prog, mode, at, recorded, slots, told, ports, masked, ursp, kstack, saved>>

(* exit_current, kill_current_and_reschedule: the thread does not come     *)
(* back.                                                                   *)
Leave == SwitchTo(queue) /\ mode' = [mode EXCEPT ![cur] = "gone"]
-----------------------------------------------------------------------------
(* The set-up steps.                                                       *)

Advance == at' = [at EXCEPT ![cur] = @ + 1]

(* elf::load may refuse the image: the function returns and the thread     *)
(* exits.  The other errors the set-ups check cannot occur: they resolve   *)
(* capabilities they have just created.                                    *)
LoadRefused ==
  /\ AtStep("load") /\ Leave
  /\ UNCHANGED <<enrolled, prog, at, recorded, slots, told, ports, masked, ursp, kstack, saved, cut>>

LoadImage ==
  /\ AtStep("load") \/ AtStep("image")
  /\ Advance
  /\ UNCHANGED <<enrolled, prog, mode, recorded, slots, told, ports, masked, ursp, kstack, saved, cut, coreVars>>

(* write_child_proc_to_disk: if it waits at all, it leaves interrupts off. *)
WriteChildProc ==
  /\ AtStep("disk") /\ Advance
  /\ \E waited \in BOOLEAN : masked' = [masked EXCEPT ![cur] = waited]
  /\ UNCHANGED <<enrolled, prog, mode, recorded, slots, told, ports, ursp, kstack, saved, cut, coreVars>>

(* allow_port_for_current: the thread's bitmap and the live one.           *)
GrantPort ==
  /\ AtStep("port") /\ Advance
  /\ ports' = [ports EXCEPT ![cur] = @ \cup {Arg}]
  /\ iopb' = ports'[cur]
  /\ UNCHANGED <<enrolled, prog, mode, recorded, slots, told, masked, ursp, kstack, saved, cut,
                 cur, queue, cr3, rsp0, kernelRsp, gs>>

(* grant_current_capability: the id is the index of the new slot.          *)
GrantSlot ==
  /\ AtStep("cap") /\ Advance
  /\ slots' = [slots EXCEPT ![cur] = Append(@, Arg)]
  /\ UNCHANGED <<enrolled, prog, mode, recorded, told, ports, masked, ursp, kstack, saved, cut, coreVars>>

WriteInfo ==
  /\ AtStep("info") /\ Advance
  /\ told' = [told EXCEPT ![cur] =
                [u \in DOMAIN Arg |-> IF Arg[u] = Last THEN Len(slots[cur]) - 1 ELSE Arg[u]]]
  /\ UNCHANGED <<enrolled, prog, mode, recorded, slots, ports, masked, ursp, kstack, saved, cut, coreVars>>

(* mark_thread_owner, assign_device or grant_device, init_kbd_capability,  *)
(* init_mouse_capability, SERVER_SEND_CAP, register_window_input, set_focus *)
(* and window_manager::register, init_ring3_ipc_demo with its receiver:    *)
(* what they do in their tables is in Process, Memory, Ps2, Service,       *)
(* InputRouting, Desktop and Rendezvous.                                   *)
Enrolled ==
  /\ AtStep("enrol") /\ Advance
  /\ enrolled' = [enrolled EXCEPT ![cur] = @ \cup Arg]
  /\ UNCHANGED <<prog, mode, recorded, slots, told, ports, masked, ursp, kstack, saved, cut, coreVars>>

SetStacks ==
  /\ AtStep("stacks") /\ Advance
  /\ rsp0' = cur /\ kernelRsp' = cur
  /\ UNCHANGED <<enrolled, prog, mode, recorded, slots, told, ports, masked, ursp, kstack, saved, cut,
                 cur, queue, cr3, gs, iopb>>

SwitchSpace ==
  /\ AtStep("switch") /\ Advance
  /\ cr3' = cur
  /\ UNCHANGED <<enrolled, prog, mode, recorded, slots, told, ports, masked, ursp, kstack, saved, cut,
                 cur, queue, rsp0, kernelRsp, gs, iopb>>

RecordSpace ==
  /\ AtStep("record") /\ Advance
  /\ recorded' = [recorded EXCEPT ![cur] = cur]
  /\ UNCHANGED <<enrolled, prog, mode, slots, told, ports, masked, ursp, kstack, saved, cut, coreVars>>

(* enter_user_mode: iretq with the thread's own user stack, IF set.        *)
EnterUser ==
  /\ AtStep("enter") /\ Advance
  /\ mode' = [mode EXCEPT ![cur] = "user"]
  /\ ursp' = [ursp EXCEPT ![cur] = cur]
  /\ UNCHANGED <<enrolled, prog, recorded, slots, told, ports, masked, kstack, saved, cut, coreVars>>
-----------------------------------------------------------------------------
(* syscall_entry.  FMASK clears IF, so up to the dispatch, and from the    *)
(* final cli to iretq, nothing comes between.                              *)

Swapgs(g) == IF g = "user" THEN "kernel" ELSE "user"

(* Where the user rsp is kept: the top of the kernel stack just loaded.    *)
StackOf(t) == t

GsInDispatch == Swapgs(Swapgs(gs))

(* A process whose code the live address space does not map cannot run.    *)
Runs(t) == t # "main" /\ mode[t] = "user" /\ cr3 = t

SyscallEntry ==
  /\ Runs(cur)
  /\ LET stack == IF Swapgs(gs) = "kernel" THEN kernelRsp ELSE None   \* mov rsp, gs:[0]
     IN  /\ kstack' = [kstack EXCEPT ![cur] = stack]
         /\ saved' = IF stack = None THEN saved
                     ELSE [saved EXCEPT ![StackOf(stack)] = ursp[cur]]
  /\ mode' = [mode EXCEPT ![cur] = "dispatch"]
  /\ gs' = GsInDispatch
  /\ UNCHANGED <<enrolled, prog, at, recorded, slots, told, ports, masked, ursp, cut,
                 cur, queue, cr3, rsp0, kernelRsp, iopb>>

(* spin_yield and the other waits of a dispatch: sti, hlt, cli.            *)
Halt ==
  /\ cur # "main" /\ mode[cur] = "dispatch"
  /\ mode' = [mode EXCEPT ![cur] = "halted"]
  /\ UNCHANGED <<enrolled, prog, at, recorded, slots, told, ports, masked, ursp, kstack, saved, cut, coreVars>>

Wake ==
  /\ cur # "main" /\ mode[cur] = "halted"
  /\ mode' = [mode EXCEPT ![cur] = "dispatch"]
  /\ UNCHANGED <<enrolled, prog, at, recorded, slots, told, ports, masked, ursp, kstack, saved, cut, coreVars>>

(* SYS 29: schedule() from within the dispatch.                            *)
Yield ==
  /\ cur # "main" /\ mode[cur] = "dispatch"
  /\ SwitchTo(Append(queue, cur))
  /\ UNCHANGED processVars

SyscallExit ==
  /\ cur # "main" /\ mode[cur] = "dispatch" /\ kstack[cur] # None
  /\ mode' = [mode EXCEPT ![cur] = "user"]
  /\ ursp' = [ursp EXCEPT ![cur] = saved[StackOf(kstack[cur])]]
  /\ kstack' = [kstack EXCEPT ![cur] = None]
  /\ gs' = Swapgs(Swapgs(gs))
  /\ UNCHANGED <<enrolled, prog, at, recorded, slots, told, ports, masked, saved, cut,
                 cur, queue, cr3, rsp0, kernelRsp, iopb>>

(* sys_exit, or a ring-3 fault: a program's own, or its first fetch in an  *)
(* address space that is not its own.                                      *)
Exit ==
  /\ cur # "main" /\ mode[cur] = "user" /\ Leave
  /\ ursp' = [ursp EXCEPT ![cur] = None]
  /\ UNCHANGED <<enrolled, prog, at, recorded, slots, told, ports, masked, kstack, saved, cut>>

Ring3Next == Preempt \/ LoadRefused \/ LoadImage \/ WriteChildProc \/ GrantPort \/ GrantSlot
          \/ WriteInfo \/ Enrolled \/ SetStacks \/ SwitchSpace \/ RecordSpace \/ EnterUser
          \/ SyscallEntry \/ Halt \/ Wake \/ Yield \/ SyscallExit \/ Exit

Ring3Spec == Ring3Init /\ [][Ring3Next]_ring3Vars
-----------------------------------------------------------------------------
InRing3(t) == cur = t /\ t \in Threads /\ mode[t] = "user"

\* While a process is in ring 3 the core is its own, whoever was set up, blocked
\* or gone in between: the next interrupt (TSS.rsp0) and the next system call
\* (kernel_rsp behind swapgs) land on its kernel stack, the live I/O bitmap
\* permits exactly the ports its set-up was granted, and the address space is its
\* own, unless its set-up was preempted exactly between switch_address_space and
\* set_current_address_space.  A dispatch runs on the caller's kernel stack and
\* returns to the user stack it came from.
OwnContext ==
  \A t \in Threads :
    /\ InRing3(t) => /\ rsp0 = t /\ kernelRsp = t /\ gs = "user"
                     /\ iopb = {Script[prog[t]][i].arg :
                                  i \in {j \in DOMAIN Script[prog[t]] : Script[prog[t]][j].op = "port"}}
                     /\ t \notin cut => cr3 = t
    /\ mode[t] \in {"dispatch", "halted"} => kstack[t] = t
    /\ mode[t] = "user" => ursp[t] = t

Resolves(t, slot, right) == slot < Len(slots[t]) /\ right \in Rights(slots[t][slot + 1])

(* What the program's system calls look up without a slot: kbd_table and   *)
(* mouse_table unwrap, so does the endpoint of the IPC demonstration, and  *)
(* a present goes to the window registered for the surface.                *)
Relies(p) == CASE p = "keyboard" -> {"irq1"}
               [] p = "mouse" -> {"irq12"}
               [] p = "ring3" -> {"endpoint", "receiver"}
               [] p \in {"clientA", "clientB", "terminal", "editor", "sample", "files", "netclient"} ->
                    {"input", "window"}
               [] OTHER -> {}

\* The slot numbers written to a program's info page, some of them literals, name
\* the capability the program takes them for; and the two slots that the kernel
\* itself assumes (0 introspection, 1 audit query) open only for the programs
\* that were spawned with those handles; and what its system calls look up
\* without a slot has been entered before ring 3 can make them.
SlotsTrue ==
  \A t \in Threads : mode[t] = "user" =>
    /\ \A u \in DOMAIN told[t] : told[t][u] < Len(slots[t]) /\ slots[t][told[t][u] + 1] = u
    /\ Resolves(t, 0, "INTROSPECT") <=> prog[t] \in {"agent", "shell", "gateway"}
    /\ Resolves(t, 1, "AUDIT_QUERY") <=> prog[t] \in {"agent", "shell"}
    /\ Relies(prog[t]) \subseteq enrolled[t]
=============================================================================
