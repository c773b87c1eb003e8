---------------------------- MODULE Scheduler -----------------------------
(***************************************************************************)
(* Kernel threads of kernel_rs/src/thread.rs: per-core run queues, the     *)
(* round-robin schedule(), the context switch, exit, kill and the deferred *)
(* reaping of zombies.  schedule_locked() is one step (it runs under the   *)
(* kernel lock, see KernelLock); switch_to() is another, because the lock  *)
(* is released before it, so that other cores run in between.              *)
(*                                                                         *)
(* `saved` says whether a thread's saved_rsp is the context to resume it   *)
(* from: it is stale from the moment the thread runs until switch_to()     *)
(* writes it.  `exec` is the thread on whose stack a core really executes; *)
(* CURRENTS runs ahead of it between schedule_locked() and switch_to().    *)
(***************************************************************************)
EXTENDS Integers, Sequences, FiniteSets

CONSTANTS Cpus,       \* cores, by their cpu_index
          BSP,        \* the core that boots the others
          MaxThreads  \* bound: threads ever created

ASSUME SchedulerConstants ==
  Cpus \subseteq Nat /\ IsFiniteSet(Cpus) /\ BSP \in Cpus /\ MaxThreads \in Nat

VARIABLES nextTid,  \* NEXT_TID
          state,    \* ThreadState of each thread; Unborn and Reaped have no Thread
          saved,    \* saved_rsp is the thread's latest context
          ctx,      \* how the saved context continues: fresh, isr or yield; else none
          queued,   \* the cores whose RUN_QUEUES entry exists
          runq,     \* RUN_QUEUES
          current,  \* CURRENTS
          zombie,   \* ZOMBIES
          idle,     \* the thread init_as_current_thread made of each core's boot code
          exec,     \* the thread on whose stack the core executes
          target,   \* new_rsp of the switch under way: was it a latest context?
          at,       \* off, run, killed, switch, or wild (resumed a stale context)
          irqOn     \* RFLAGS.IF

threadVars == <<nextTid, state, saved, ctx>>
coreVars == <<queued, runq, current, zombie, idle, exec, target, at, irqOn>>
schedVars == <<threadVars, coreVars>>

None  == 0
NoCpu == -1
Threads == 1..MaxThreads

SchedTypeOK ==
  /\ nextTid \in 1..(MaxThreads + 1)
  /\ state \in [Threads -> {"Unborn", "Ready", "Running", "Exited", "Reaped"}]
  /\ saved \in [Threads -> BOOLEAN]
  /\ ctx \in [Threads -> {"none", "fresh", "isr", "yield"}]
  /\ queued \subseteq Cpus
  /\ runq \in [Cpus -> Seq(Threads)]
  /\ current \in [Cpus -> Threads \cup {None}]
  /\ zombie \in [Cpus -> Threads \cup {None}]
  /\ idle \in [Cpus -> Threads \cup {None}]
  /\ exec \in [Cpus -> Threads \cup {None}]
  /\ target \in [Cpus -> BOOLEAN]
  /\ at \in [Cpus -> {"off", "run", "killed", "switch", "wild"}]
  /\ irqOn \in [Cpus -> BOOLEAN]

SchedInit ==
  /\ nextTid = 1
  /\ state = [t \in Threads |-> "Unborn"]
  /\ saved = [t \in Threads |-> FALSE]
  /\ ctx = [t \in Threads |-> "none"]
  /\ queued = {}
  /\ runq = [c \in Cpus |-> <<>>]
  /\ current = [c \in Cpus |-> None]
  /\ zombie = [c \in Cpus |-> None]
  /\ idle = [c \in Cpus |-> None]
  /\ exec = [c \in Cpus |-> None]
  /\ target = [c \in Cpus |-> FALSE]
  /\ at = [c \in Cpus |-> "off"]
  /\ irqOn = [c \in Cpus |-> FALSE]

(* init_as_current_thread and its per-core twin: the code the core already *)
(* runs becomes its idle thread, with no saved context yet.                *)
InitCore(c) ==
  /\ at[c] = "off" /\ nextTid \in Threads
  /\ c # BSP => at[BSP] # "off"
  /\ nextTid' = nextTid + 1
  /\ state' = [state EXCEPT ![nextTid] = "Running"]
  /\ current' = [current EXCEPT ![c] = nextTid]
  /\ idle' = [idle EXCEPT ![c] = nextTid]
  /\ exec' = [exec EXCEPT ![c] = nextTid]
  /\ at' = [at EXCEPT ![c] = "run"]
  /\ irqOn' = [irqOn EXCEPT ![c] = TRUE]
  /\ UNCHANGED <<saved, ctx, queued, runq, zombie, target>>

(* The core executes code of a thread that is neither exited nor switched. *)
Runs(c) == at[c] = "run" /\ current[c] # None /\ state[current[c]] = "Running"

IsIdle(t) == \E c \in Cpus : idle[c] = t

(* Bound: the ids that cores still off will need are kept for them.        *)
RoomForThread == nextTid + Cardinality({c \in Cpus : at[c] = "off"}) <= MaxThreads

(* spawn_in, spawn_user (d = c) and spawn_pinned_to_cpu: a thread rigged   *)
(* to start in its trampoline joins the back of d's queue.                 *)
SpawnOn(c, d) ==
  /\ Runs(c) /\ RoomForThread
  /\ nextTid' = nextTid + 1
  /\ state' = [state EXCEPT ![nextTid] = "Ready"]
  /\ saved' = [saved EXCEPT ![nextTid] = TRUE]
  /\ ctx' = [ctx EXCEPT ![nextTid] = "fresh"]
  /\ queued' = queued \cup {d}
  /\ runq' = [runq EXCEPT ![d] = Append(@, nextTid)]
  /\ UNCHANGED <<current, zombie, idle, exec, target, at, irqOn>>

-----------------------------------------------------------------------------

(* Mutant: an exited thread is queued again as well.                       *)
Requeued_Exited(c) == Append(runq[c], current[c])

(* Mutant: the outgoing thread joins the front of the queue.               *)
Requeued_Front(c) ==
  IF state[current[c]] = "Exited" THEN runq[c] ELSE <<current[c]>> \o runq[c]

(* schedule_locked: the queue after the outgoing thread has joined it, or  *)
(* has become the zombie.                                                  *)
Requeued(c) ==
  IF state[current[c]] = "Exited" THEN runq[c] ELSE Append(runq[c], current[c])

(* The core to steal from when this one has nothing left: the longest      *)
(* other queue, the first such.                                            *)
Victim(c) ==
  LET rich == {d \in Cpus \ {c} : runq[d] # <<>>} IN
  IF rich = {} THEN NoCpu
  ELSE CHOOSE d \in rich : \A e \in rich :
          Len(runq[e]) < Len(runq[d]) \/ (Len(runq[e]) = Len(runq[d]) /\ d <= e)

LastOf(s)  == s[Len(s)]
FrontOf(s) == SubSeq(s, 1, Len(s) - 1)

NextThread(c) ==
  IF Requeued(c) # <<>> THEN Head(Requeued(c))
  ELSE IF Victim(c) # NoCpu THEN LastOf(runq[Victim(c)])
  ELSE None

(* Mutant: the exited thread is dropped at once, on its own stack.         *)
Schedule_InlineReap(c, how) ==
  LET out == current[c]
      next == NextThread(c)
  IN  /\ c \in queued /\ out # None
      /\ ctx' = [ctx EXCEPT ![out] = IF state[out] = "Exited" THEN "none" ELSE how]
      /\ zombie' = [zombie EXCEPT ![c] = None]
      /\ state' = [t \in Threads |->
            IF t = out /\ state[t] = "Exited" THEN "Reaped"
            ELSE IF t = next THEN "Running"
            ELSE IF t = out /\ state[t] = "Running" THEN "Ready" ELSE state[t]]
      /\ runq' = [d \in Cpus |->
            IF d = c THEN (IF Requeued(c) = <<>> THEN <<>> ELSE Tail(Requeued(c)))
            ELSE IF Requeued(c) = <<>> /\ d = Victim(c) THEN FrontOf(runq[d])
            ELSE runq[d]]
      /\ current' = [current EXCEPT ![c] = next]
      /\ target' = [target EXCEPT ![c] = next # None /\ saved[next]]
      /\ at' = [at EXCEPT ![c] = IF next = None THEN "run" ELSE "switch"]
      /\ irqOn' = [irqOn EXCEPT ![c] = next = None /\ @]
      /\ UNCHANGED <<nextTid, saved, queued, idle, exec>>

(* schedule(), called with the outgoing context `how`: cli, reap the       *)
(* zombie, requeue the outgoing thread or make it the zombie, take the     *)
(* next one (own queue, then a steal), read its saved_rsp, release.        *)
(* Without a queue or a next thread it restores IF and returns.            *)
Schedule(c, how) ==
  LET out == current[c]
      next == NextThread(c)
  IN  /\ c \in queued /\ out # None
      /\ ctx' = [ctx EXCEPT ![out] = IF state[out] = "Exited" THEN "none" ELSE how]
      /\ zombie' = [zombie EXCEPT ![c] = IF state[out] = "Exited" THEN out ELSE None]
      /\ state' = [t \in Threads |->
            IF t = zombie[c] THEN "Reaped"
            ELSE IF t = next THEN "Running"
            ELSE IF t = out /\ state[t] = "Running" THEN "Ready" ELSE state[t]]
      /\ runq' = [d \in Cpus |->
            IF d = c THEN (IF Requeued(c) = <<>> THEN <<>> ELSE Tail(Requeued(c)))
            ELSE IF Requeued(c) = <<>> /\ d = Victim(c) THEN FrontOf(runq[d])
            ELSE runq[d]]
      /\ current' = [current EXCEPT ![c] = next]
      /\ target' = [target EXCEPT ![c] = next # None /\ saved[next]]
      /\ at' = [at EXCEPT ![c] = IF next = None THEN "run" ELSE "switch"]
      /\ irqOn' = [irqOn EXCEPT ![c] = next = None /\ @]
      /\ UNCHANGED <<nextTid, saved, queued, idle, exec>>

(* An interrupt handler that ends in schedule(): timer, keyboard, mouse,   *)
(* reschedule IPI.  The yield system call has the same effect.             *)
Tick(c) == at[c] = "run" /\ irqOn[c] /\ Schedule(c, "isr")

(* The same before anything was spawned on this core: schedule() finds no  *)
(* queue and returns.                                                      *)
TickEarly(c) ==
  /\ at[c] = "run" /\ irqOn[c] /\ c \notin queued
  /\ UNCHANGED schedVars

(* A kernel thread that calls schedule() itself (the serial poller, the    *)
(* IOMMU's wait for its registers).  Idle threads only halt.               *)
Yield(c) == Runs(c) /\ ~IsIdle(current[c]) /\ Schedule(c, "yield")

(* kill_current_and_reschedule, from a ring-3 fault or sys_exit: mark,     *)
(* then schedule(), with interrupts off.                                   *)
Kill(c) ==
  /\ Runs(c) /\ ~IsIdle(current[c])
  /\ state' = [state EXCEPT ![current[c]] = "Exited"]
  /\ at' = [at EXCEPT ![c] = "killed"]
  /\ irqOn' = [irqOn EXCEPT ![c] = FALSE]
  /\ UNCHANGED <<nextTid, saved, ctx, queued, runq, current, zombie, idle, exec, target>>

ScheduleKilled(c) == at[c] = "killed" /\ Schedule(c, "none")

(* Mutant: exit_current halts with interrupts as they are.                 *)
Exit_Masked(c) ==
  /\ Runs(c) /\ ~IsIdle(current[c])
  /\ state' = [state EXCEPT ![current[c]] = "Exited"]
  /\ UNCHANGED <<nextTid, saved, ctx, queued, runq, current, zombie, idle, exec, target, at, irqOn>>

(* exit_current: mark, then sti; hlt until a tick takes the core away.     *)
Exit(c) ==
  /\ Runs(c) /\ ~IsIdle(current[c])
  /\ state' = [state EXCEPT ![current[c]] = "Exited"]
  /\ irqOn' = [irqOn EXCEPT ![c] = TRUE]
  /\ UNCHANGED <<nextTid, saved, ctx, queued, runq, current, zombie, idle, exec, target, at>>

(* A thread left with IF = 0 by schedule() turns interrupts on when it     *)
(* enters ring 3.                                                          *)
EnterUser(c) ==
  /\ Runs(c) /\ ~irqOn[c]
  /\ irqOn' = [irqOn EXCEPT ![c] = TRUE]
  /\ UNCHANGED <<threadVars, queued, runq, current, zombie, idle, exec, target, at>>

(* switch_to: write the outgoing saved_rsp, load new_rsp, continue there:  *)
(* a new thread's trampoline enables interrupts, an interrupted thread's   *)
(* iretq does, a thread that called schedule() itself goes on with IF = 0. *)
SwitchTo(c) ==
  /\ at[c] = "switch"
  /\ saved' = [[saved EXCEPT ![exec[c]] = TRUE] EXCEPT ![current[c]] = FALSE]
  /\ exec' = [exec EXCEPT ![c] = current[c]]
  /\ at' = [at EXCEPT ![c] = "run"]
  /\ irqOn' = [irqOn EXCEPT ![c] = ctx[current[c]] # "yield"]
  /\ ctx' = [ctx EXCEPT ![current[c]] = "none"]
  /\ target' = [target EXCEPT ![c] = FALSE]
  /\ UNCHANGED <<nextTid, state, queued, runq, current, zombie, idle>>

(* new_rsp was stale.  An idle application processor always halts at one   *)
(* depth of its stack, so its frames lie at one address (SwitchTo); the    *)
(* BSP's thread is kernel_main, at any depth, and goes on from garbage.    *)
SwitchWild(c) ==
  /\ at[c] = "switch" /\ ~target[c] /\ c = BSP
  /\ exec' = [exec EXCEPT ![c] = None]
  /\ at' = [at EXCEPT ![c] = "wild"]
  /\ UNCHANGED <<threadVars, queued, runq, current, zombie, idle, target, irqOn>>

SchedNext ==
  \E c \in Cpus :
     \/ InitCore(c) \/ (\E d \in Cpus : SpawnOn(c, d))
     \/ Tick(c) \/ TickEarly(c) \/ Yield(c) \/ Kill(c) \/ ScheduleKilled(c) \/ Exit(c) \/ EnterUser(c)
     \/ SwitchTo(c) \/ SwitchWild(c)

SchedSpec == SchedInit /\ [][SchedNext]_schedVars

(***************************************************************************)
(* Fairness: a core executes.  It comes up once it was started, it goes on *)
(* from a kill to schedule() and from there through the context switch,    *)
(* and with interrupts off it does a bounded amount of work before it      *)
(* yields, exits or enters ring 3.  The timer keeps ticking on every core  *)
(* that takes interrupts again and again.                                  *)
(***************************************************************************)
Execute(c) ==
  \/ InitCore(c)
  \/ SwitchTo(c) \/ SwitchWild(c)
  \/ ScheduleKilled(c)
  \/ ~irqOn[c] /\ (Yield(c) \/ Kill(c) \/ Exit(c) \/ EnterUser(c))

SchedFairness ==
  \A c \in Cpus : WF_schedVars(Execute(c)) /\ SF_schedVars(Tick(c))

SchedFairSpec == SchedSpec /\ SchedFairness

-----------------------------------------------------------------------------

QueuedOn(c) == {runq[c][i] : i \in DOMAIN runq[c]}

(* What holds of each core: CURRENTS, ZOMBIES and the queues hold threads  *)
(* of the state they are for; a core's idle thread stays with its core and *)
(* never exits, so a queue schedule() pops from is never empty; a waiting  *)
(* thread has its context saved unless its own core is still on the way    *)
(* off its stack.                                                          *)
CoreOK(c) ==
  /\ at[c] = "off" <=> current[c] = None
  /\ at[c] \in {"off", "wild"} <=> exec[c] = None
  /\ at[c] \in {"run", "killed"} => exec[c] = current[c]
  /\ current[c] # None => state[current[c]] \in {"Running", "Exited"}
  /\ at[c] \in {"killed", "switch", "wild"} => c \in queued
  /\ at[c] = "killed" => state[current[c]] = "Exited"
  /\ at[c] = "switch" => /\ state[current[c]] = "Running"
                         /\ exec[c] \in {current[c], zombie[c]} \cup QueuedOn(c)
  /\ zombie[c] # None => state[zombie[c]] = "Exited"
  /\ zombie[c] # None /\ exec[c] = zombie[c] => at[c] = "switch"
  /\ runq[c] # <<>> => c \in queued
  /\ idle[c] # None <=> at[c] # "off"
  /\ idle[c] # None => /\ idle[c] = current[c] \/ idle[c] \in QueuedOn(c)
                       /\ state[idle[c]] # "Exited"
  /\ \A i \in DOMAIN runq[c] :
        /\ state[runq[c][i]] = "Ready"
        /\ saved[runq[c][i]] \/ exec[c] = runq[c][i]

TidsInOrder == \A t \in Threads : state[t] = "Unborn" <=> nextTid <= t

CoresInv ==
  /\ SchedTypeOK
  /\ TidsInOrder
  /\ \A c \in Cpus : CoreOK(c)

Places(t) ==
  {<<"current", c, 0>> : c \in {d \in Cpus : current[d] = t}} \cup
  {<<"zombie", c, 0>> : c \in {d \in Cpus : zombie[d] = t}} \cup
  UNION {{<<"queue", c, i>> : i \in {j \in DOMAIN runq[c] : runq[c][j] = t}} : c \in Cpus}

(* No thread is lost or duplicated by the take / push / pop of             *)
(* schedule_locked: every thread that has been spawned and not reaped is   *)
(* in exactly one place, the one its state calls for, and each core is     *)
(* where its CURRENTS, ZOMBIES, queue and idle thread say (CoresInv).      *)
ThreadsConserved ==
  /\ CoresInv
  /\ \A t \in Threads :
       LET places == Places(t) IN
       /\ state[t] \in {"Unborn", "Reaped"} <=> places = {}
       /\ \A p, q \in places : p = q
       /\ state[t] = "Running" => \E c \in Cpus : current[c] = t
       /\ state[t] = "Ready" => \E c \in Cpus : t \in QueuedOn(c)

(* Stacks: no two cores execute on one thread's stack, also between the    *)
(* release of the lock and switch_to; no core executes on a stack that the *)
(* zombie reaper has freed; and a core switches to another thread only     *)
(* from that thread's latest context, although the outgoing thread is back *)
(* in the queue before its saved_rsp is written and the lock is free.      *)
StacksSafe ==
  \A c \in Cpus :
     /\ exec[c] # None => /\ state[exec[c]] # "Reaped"
                          /\ \A d \in Cpus : exec[d] = exec[c] => d = c
     /\ at[c] = "switch" /\ current[c] # exec[c] => target[c]

(* "A single-thread system safely switches back to itself": no core ever   *)
(* continues from a context that is not its thread's latest.               *)
SelfSwitchSafe == \A c \in Cpus : at[c] # "wild"

(* Round robin: a thread that waits in a queue gets a core, unless its     *)
(* core was lost to a stale context.                                       *)
ReadyRuns ==
  \A t \in Threads :
     state[t] = "Ready" ~> (state[t] # "Ready" \/ at[BSP] = "wild")

(* A thread that exited or was killed is reaped: its stack and its address *)
(* space do not leak.                                                      *)
ExitedReaped ==
  \A t \in Threads :
     state[t] = "Exited" ~> (state[t] = "Reaped" \/ at[BSP] = "wild")
=============================================================================
