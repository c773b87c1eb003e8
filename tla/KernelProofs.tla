---------------------------- MODULE KernelProofs ----------------------------
(***************************************************************************)
(* The scheduler and the kernel lock, which share no state.                *)
(*                                                                         *)
(* The scheduler, for any number of cores and threads: no thread is lost   *)
(* or duplicated, no stack is shared or used after it was freed. SInv is   *)
(* the inductive invariant.                                                *)
(*                                                                         *)
(* KernelLock, for every set of cores, every nesting bound and every       *)
(* counter width.                                                          *)
(***************************************************************************)
EXTENDS KernelLock, Scheduler, FiniteSetTheorems, TLAPS

(* The scheduler. *)

(* No thread is held twice: neither by two cores nor twice by one.         *)
Apart ==
  /\ \A c, d \in Cpus : current[c] # None /\ current[c] = current[d] => c = d
  /\ \A c, d \in Cpus : zombie[c] # None /\ zombie[c] = zombie[d] => c = d
  /\ \A c, d \in Cpus : current[c] # None => current[c] # zombie[d]
  /\ \A c, d \in Cpus : \A i \in DOMAIN runq[c], j \in DOMAIN runq[d] :
        runq[c][i] = runq[d][j] => c = d /\ i = j

(* Every live thread is held by some core.                                 *)
Homed ==
  \A t \in Threads :
     /\ state[t] = "Running" => \E c \in Cpus : current[c] = t
     /\ state[t] = "Ready" => \E c \in Cpus : t \in QueuedOn(c)
     /\ state[t] = "Exited" => \E c \in Cpus : current[c] = t \/ zombie[c] = t

(* A switch to another thread starts from a latest context.                *)
LatestContext == \A c \in Cpus : at[c] = "switch" /\ current[c] # exec[c] => target[c]

SInv == CoresInv /\ Apart /\ Homed /\ LatestContext
-----------------------------------------------------------------------------
LEMMA ApartKept ==
  ASSUME Apart, current' = current, zombie' = zombie,
         \A c, d \in Cpus : \A i \in DOMAIN runq'[c], j \in DOMAIN runq'[d] : runq'[c][i] = runq'[d][j] => c = d /\ i = j
  PROVE  Apart'
  BY DEF Apart

LEMMA PlacesKept ==
  ASSUME Apart, Homed, state' = state, current' = current, zombie' = zombie, runq' = runq
  PROVE  Apart' /\ Homed'
  BY DEF Apart, Homed, QueuedOn

LEMMA TailFacts ==
  ASSUME NEW S, NEW q \in Seq(S), q # <<>>
  PROVE  /\ Head(q) = q[1] /\ q[1] \in S /\ 1 \in DOMAIN q
         /\ Tail(q) \in Seq(S) /\ Len(Tail(q)) = Len(q) - 1
         /\ \A i \in DOMAIN Tail(q) : i + 1 \in DOMAIN q /\ Tail(q)[i] = q[i + 1]
         /\ \A j \in DOMAIN q \ {1} : j - 1 \in DOMAIN Tail(q) /\ Tail(q)[j - 1] = q[j]
  OBVIOUS

LEMMA AppendFacts ==
  ASSUME NEW S, NEW q \in Seq(S), NEW x \in S
  PROVE  /\ Append(q, x) \in Seq(S) /\ Append(q, x) # <<>>
         /\ Len(Append(q, x)) = Len(q) + 1
         /\ \A i \in DOMAIN q : i \in DOMAIN Append(q, x) /\ Append(q, x)[i] = q[i]
         /\ \A i \in DOMAIN Append(q, x) : i \in DOMAIN q \/ i = Len(q) + 1
         /\ Append(q, x)[Len(q) + 1] = x
         /\ Len(q) + 1 \in DOMAIN Append(q, x)
  OBVIOUS

(* a is r with x behind it.                                                *)
Appended(r, x, a) ==
  /\ \A i \in DOMAIN r : i \in DOMAIN a /\ a[i] = r[i]
  /\ \A i \in DOMAIN a : i \in DOMAIN r \/ i = Len(r) + 1
  /\ a[Len(r) + 1] = x /\ Len(r) + 1 \in DOMAIN a

LEMMA AppendIs ==
  ASSUME NEW S, NEW q \in Seq(S), NEW x \in S
  PROVE  Append(q, x) \in Seq(S) /\ Appended(q, x, Append(q, x))
  BY DEF Appended

(* q is r without its head and with x behind it.                           *)
Rotated(S, r, x, q) ==
  /\ Append(r, x)[1] = r[1] /\ 1 \in DOMAIN r
  /\ q \in Seq(S) /\ \A i \in DOMAIN q : i \in Nat \ {0}
  /\ \A i \in DOMAIN q : \/ i + 1 \in DOMAIN r /\ q[i] = r[i + 1]
                         \/ q[i] = x /\ i = Len(r)
  /\ \A j \in DOMAIN r \ {1} : \E i \in DOMAIN q : q[i] = r[j]
  /\ \E i \in DOMAIN q : q[i] = x

LEMMA RotateFacts ==
  ASSUME NEW S, NEW r \in Seq(S), NEW x \in S, NEW q, q = Tail(Append(r, x)), r # <<>>
  PROVE  Rotated(S, r, x, q)
  <1> DEFINE a == Append(r, x)
  <1>1. a \in Seq(S) /\ a # <<>> /\ Len(a) = Len(r) + 1 /\ Len(r) \in Nat \ {0}
    BY AppendFacts
  <1>2. /\ \A i \in 1..Len(r) : a[i] = r[i]
        /\ a[Len(r) + 1] = x
    BY AppendFacts
  <1> HIDE DEF a
  <1>3. q \in Seq(S) /\ DOMAIN q = 1..Len(r) /\ \A i \in 1..Len(r) : q[i] = a[i + 1]
    BY <1>1, TailFacts DEF a
  <1>4. DOMAIN r = 1..Len(r)
    OBVIOUS
  <1>5. \A i \in 1..Len(r) : i = Len(r) \/ i + 1 \in 1..Len(r)
    BY <1>1
  <1>6. \A j \in 1..Len(r) \ {1} : j - 1 \in 1..Len(r) /\ (j - 1) + 1 = j
    BY <1>1
  <1>7. \A j \in DOMAIN r \ {1} : q[j - 1] = r[j]
    BY SMTT(40), <1>2, <1>3, <1>4, <1>6
  <1>8. q[Len(r)] = x /\ Len(r) \in DOMAIN q
    BY <1>1, <1>2, <1>3
  <1>9. \A i \in DOMAIN q : \/ i + 1 \in DOMAIN r /\ q[i] = r[i + 1]
                            \/ q[i] = x /\ i = Len(r)
    BY Zenon, <1>2, <1>3, <1>4, <1>5, <1>8
  <1>10. \A j \in DOMAIN r \ {1} : \E i \in DOMAIN q : q[i] = r[j]
    <2> TAKE j \in DOMAIN r \ {1}
    <2>1. j - 1 \in DOMAIN q /\ q[j - 1] = r[j]
      BY Zenon, <1>3, <1>4, <1>6, <1>7
    <2> QED BY Zenon, <2>1
  <1>11. Append(r, x)[1] = r[1] /\ 1 \in DOMAIN r /\ \A i \in DOMAIN q : i \in Nat \ {0}
    BY <1>1, <1>2, <1>3, <1>4 DEF a
  <1> QED BY Zenon, <1>3, <1>8, <1>9, <1>10, <1>11 DEF Rotated

(* q is r without its head.                                                *)
Dropped(S, r, q) ==
  /\ 1 \in DOMAIN r
  /\ q \in Seq(S) /\ \A i \in DOMAIN q : i \in Nat \ {0}
  /\ \A i \in DOMAIN q : i + 1 \in DOMAIN r /\ q[i] = r[i + 1]
  /\ \A j \in DOMAIN r \ {1} : \E i \in DOMAIN q : q[i] = r[j]

LEMMA DropFacts ==
  ASSUME NEW S, NEW r \in Seq(S), NEW q, q = Tail(r), r # <<>>
  PROVE  Dropped(S, r, q)
  <1>1. 1 \in DOMAIN r /\ q \in Seq(S) /\ \A i \in DOMAIN q : i + 1 \in DOMAIN r /\ q[i] = r[i + 1]
    BY Zenon, TailFacts
  <1>2. \A i \in DOMAIN q : i \in Nat \ {0}
    BY <1>1
  <1>3. \A j \in DOMAIN r \ {1} : j - 1 \in DOMAIN q /\ q[j - 1] = r[j]
    BY Zenon, TailFacts
  <1> QED BY Zenon, <1>1, <1>2, <1>3 DEF Dropped

LEMMA QueueTyped ==
  ASSUME SchedTypeOK, NEW c \in Cpus
  PROVE  /\ runq[c] \in Seq(Threads)
         /\ \A i \in DOMAIN runq[c] : runq[c][i] \in Threads /\ runq[c][i] # None
  <1>1. runq[c] \in Seq(Threads)
    BY Zenon DEF SchedTypeOK
  <1>2. \A i \in DOMAIN runq[c] : runq[c][i] \in Threads
    BY <1>1
  <1>3. None \notin Threads
    BY DEF Threads, None
  <1> QED BY Zenon, <1>1, <1>2, <1>3

-----------------------------------------------------------------------------
(***************************************************************************)
(* schedule() in three parts, for the thread it picks and the queue it     *)
(* leaves: what becomes of the queue, what becomes of everything else, and *)
(* which threads are touched by neither.                                   *)
(***************************************************************************)
Outgoing(c) ==
  /\ current[c] \in Threads /\ current[c] # None /\ exec[c] = current[c] /\ c \in queued
  /\ state[current[c]] \in {"Running", "Exited"}
  /\ idle[c] \in Threads /\ state[idle[c]] # "Exited"
  /\ idle[c] = current[c] \/ idle[c] \in QueuedOn(c)

Popped(c, next, q) ==
  /\ next \in Threads /\ next # None
  /\ q \in Seq(Threads) /\ \A i \in DOMAIN q : i \in Nat \ {0}
  /\ \A i \in DOMAIN q :
        \/ i + 1 \in DOMAIN runq[c] /\ q[i] = runq[c][i + 1]
        \/ q[i] = current[c] /\ state[current[c]] = "Running" /\ i = Len(runq[c])
  /\ \A j \in DOMAIN runq[c] \ {1} : \E i \in DOMAIN q : q[i] = runq[c][j]
  /\ \/ 1 \in DOMAIN runq[c] /\ next = runq[c][1]
     \/ runq[c] = <<>> /\ next = current[c] /\ state[current[c]] = "Running" /\ q = <<>>
  /\ state[current[c]] = "Running" /\ runq[c] # <<>> => \E i \in DOMAIN q : q[i] = current[c]

Effect(c, next, q) ==
  /\ state'[next] = "Running"
  /\ next # current[c] => /\ state[current[c]] = "Running" => state'[current[c]] = "Ready"
                          /\ state[current[c]] = "Exited" => state'[current[c]] = "Exited"
  /\ zombie[c] # None => state'[zombie[c]] = "Reaped"
  /\ \A t \in Threads : t # current[c] /\ t # next /\ t # zombie[c] => state'[t] = state[t]
  /\ runq'[c] = q /\ current'[c] = next /\ at'[c] = "switch"
  /\ state[current[c]] = "Exited" => zombie'[c] = current[c]
  /\ state[current[c]] = "Running" => zombie'[c] = None
  /\ \A d \in Cpus : d # c => /\ runq'[d] = runq[d] /\ current'[d] = current[d]
                              /\ at'[d] = at[d] /\ zombie'[d] = zombie[d]
  /\ UNCHANGED <<nextTid, saved, queued, idle, exec>>

Untouched(c, next, q) ==
  /\ \A d \in Cpus : \A i \in DOMAIN runq[d] :
        /\ runq[d][i] \in Threads /\ runq[d][i] # None /\ runq[d][i] # current[c]
        /\ state[runq[d][i]] = "Ready" /\ runq[d][i] # zombie[c]
        /\ d # c \/ i # 1 => runq[d][i] # next
  /\ next # current[c] =>
        /\ 1 \in DOMAIN runq[c] /\ next = runq[c][1] /\ runq[c] # <<>>
        /\ state[next] = "Ready" /\ saved[next]
  /\ next = current[c] => state[current[c]] = "Running" /\ runq[c] = <<>> /\ q = <<>>
  /\ \A d \in Cpus : zombie[d] # None =>
        /\ zombie[d] \in Threads /\ state[zombie[d]] = "Exited"
        /\ zombie[d] # current[c] /\ zombie[d] # next
  /\ \A d \in Cpus \ {c} : current[d] # None =>
        /\ current[d] \in Threads /\ current[d] # current[c]
        /\ current[d] # next /\ current[d] # zombie[c]

(* The queue is never empty when it is popped, because a core whose        *)
(* current thread has exited still has its idle thread in the queue.       *)
LEMMA SchedulePops ==
  ASSUME SInv, NEW c \in Cpus, NEW how, at[c] \in {"run", "killed"}, Schedule(c, how)
  PROVE  Outgoing(c) /\ Requeued(c) # <<>> /\ Popped(c, NextThread(c), Tail(Requeued(c)))
  <1> DEFINE out == current[c]
             next == NextThread(c)
             q == Tail(Requeued(c))
  <1>1. SchedTypeOK /\ TidsInOrder /\ (\A d \in Cpus : CoreOK(d)) /\ Apart /\ Homed /\ LatestContext
    BY Zenon DEF SInv, CoresInv
  <1>2. /\ out \in Threads /\ out # None /\ exec[c] = out /\ c \in queued
        /\ state[out] \in {"Running", "Exited"}
        /\ idle[c] \in Threads /\ state[idle[c]] # "Exited" /\ (idle[c] = out \/ idle[c] \in QueuedOn(c))
    BY <1>1 DEF Schedule, CoreOK, SchedTypeOK
  <1>3. runq[c] \in Seq(Threads) /\ Requeued(c) \in Seq(Threads) /\ Requeued(c) # <<>>
    <2>1. runq[c] \in Seq(Threads)
      BY Zenon, <1>1, QueueTyped
    <2>2. CASE state[out] = "Exited"
      <3>1. idle[c] \in QueuedOn(c)
        BY Zenon, <1>2, <2>2
      <3>2. runq[c] # <<>>
        BY <3>1 DEF QueuedOn
      <3> QED BY Zenon, <2>1, <2>2, <3>2 DEF Requeued
    <2>3. CASE state[out] # "Exited"
      BY <1>2, <2>1, <2>3, AppendFacts DEF Requeued
    <2> QED BY Zenon, <2>1, <2>2, <2>3
  <1>4. next = Requeued(c)[1] /\ next \in Threads /\ next # None
    <2>1. next = Head(Requeued(c))
      BY Zenon, <1>3 DEF NextThread
    <2>2. next = Requeued(c)[1] /\ next \in Threads
      BY <1>3, <2>1, TailFacts
    <2> QED BY <2>2 DEF None, Threads
  <1>8. /\ q \in Seq(Threads) /\ \A i \in DOMAIN q : i \in Nat \ {0}
        /\ \A i \in DOMAIN q :
              \/ i + 1 \in DOMAIN runq[c] /\ q[i] = runq[c][i + 1]
              \/ q[i] = out /\ state[out] = "Running" /\ i = Len(runq[c])
        /\ \A j \in DOMAIN runq[c] \ {1} : \E i \in DOMAIN q : q[i] = runq[c][j]
        /\ \/ 1 \in DOMAIN runq[c] /\ next = runq[c][1]
           \/ runq[c] = <<>> /\ next = out /\ state[out] = "Running" /\ q = <<>>
        /\ state[out] = "Running" /\ runq[c] # <<>> => \E i \in DOMAIN q : q[i] = out
    <2>1. CASE state[out] = "Exited"
      <3>1. Requeued(c) = runq[c]
        BY Zenon, <2>1 DEF Requeued
      <3>2. q = Tail(runq[c]) /\ runq[c] # <<>> /\ next = runq[c][1]
        BY Zenon, <1>3, <1>4, <3>1
      <3> HIDE DEF q, next
      <3>3. Dropped(Threads, runq[c], q)
        BY Zenon, <1>3, <3>2, DropFacts
      <3>4. state[out] # "Running"
        BY Zenon, <2>1
      <3> QED BY Zenon, <3>2, <3>3, <3>4 DEF Dropped
    <2>2. CASE state[out] = "Running"
      <3>1. Requeued(c) = Append(runq[c], out)
        BY Zenon, <2>2 DEF Requeued
      <3>2. CASE runq[c] = <<>>
        <4>1. Append(<<>>, out)[1] = out /\ Tail(Append(<<>>, out)) = <<>>
          BY <1>2
        <4> QED BY <1>4, <2>2, <3>1, <3>2, <4>1
      <3>3. CASE runq[c] # <<>>
        <4>1. q = Tail(Append(runq[c], out)) /\ next = Append(runq[c], out)[1]
          BY Zenon, <1>4, <3>1
        <4> HIDE DEF q, next
        <4>2. Rotated(Threads, runq[c], out, q)
          BY Zenon, <1>2, <1>3, <3>3, <4>1, RotateFacts
        <4> QED BY Zenon, <2>2, <4>1, <4>2 DEF Rotated
      <3> QED BY Zenon, <3>2, <3>3
    <2> QED BY Zenon, <1>2, <2>1, <2>2
  <1>11. Outgoing(c)
    BY Zenon, <1>2 DEF Outgoing
  <1> HIDE DEF q, next
  <1>12. Popped(c, next, q)
    BY Zenon, <1>4, <1>8 DEF Popped
  <1> QED BY Zenon, <1>3, <1>11, <1>12 DEF q, next

LEMMA ScheduleLeaves ==
  ASSUME SInv, NEW c \in Cpus, NEW next, NEW q, Outgoing(c), Popped(c, next, q)
  PROVE  Untouched(c, next, q)
  <1> DEFINE out == current[c]
  <1>1. SchedTypeOK /\ TidsInOrder /\ (\A d \in Cpus : CoreOK(d)) /\ Apart /\ Homed /\ LatestContext
    BY Zenon DEF SInv, CoresInv
  <1>2. /\ out \in Threads /\ out # None /\ exec[c] = out /\ c \in queued
        /\ state[out] \in {"Running", "Exited"}
        /\ idle[c] \in Threads /\ state[idle[c]] # "Exited" /\ (idle[c] = out \/ idle[c] \in QueuedOn(c))
    BY Zenon DEF Outgoing
  <1>q4. \/ 1 \in DOMAIN runq[c] /\ next = runq[c][1]
         \/ runq[c] = <<>> /\ next = out /\ state[out] = "Running" /\ q = <<>>
    BY Zenon DEF Popped
  <1>9. \A d \in Cpus : \A i \in DOMAIN runq[d] :
           runq[d][i] \in Threads /\ runq[d][i] # None /\ runq[d][i] # out /\ state[runq[d][i]] = "Ready"
    BY <1>1, <1>2, QueueTyped DEF CoreOK
  <1>10. next # out =>
           /\ 1 \in DOMAIN runq[c] /\ next = runq[c][1] /\ runq[c] # <<>>
           /\ state[next] = "Ready" /\ saved[next]
    BY <1>1, <1>2, <1>q4, <1>9 DEF CoreOK
  <1>11. next = out => state[out] = "Running" /\ runq[c] = <<>> /\ q = <<>>
    BY Zenon, <1>q4, <1>9
  <1>12. \A d \in Cpus : zombie[d] # None =>
            zombie[d] \in Threads /\ state[zombie[d]] = "Exited" /\ zombie[d] # out /\ zombie[d] # next
    <2> SUFFICES ASSUME NEW d \in Cpus, zombie[d] # None
                 PROVE  zombie[d] \in Threads /\ state[zombie[d]] = "Exited" /\ zombie[d] # out /\ zombie[d] # next
      BY Zenon
    <2>1. zombie[d] \in Threads /\ state[zombie[d]] = "Exited" /\ zombie[d] # out
      BY <1>1, <1>2 DEF CoreOK, SchedTypeOK, Apart
    <2> QED BY Zenon, <1>10, <2>1
  <1>13. \A d \in Cpus \ {c} : current[d] # None =>
            current[d] \in Threads /\ current[d] # out /\ current[d] # next /\ current[d] # zombie[c]
    <2> SUFFICES ASSUME NEW d \in Cpus, d # c, current[d] # None
                 PROVE  current[d] \in Threads /\ current[d] # out /\ current[d] # next /\ current[d] # zombie[c]
      BY Zenon
    <2>1. current[d] \in Threads /\ current[d] # out /\ current[d] # zombie[c] /\ state[current[d]] \in {"Running", "Exited"}
      BY <1>1, <1>2 DEF CoreOK, SchedTypeOK, Apart
    <2> QED BY Zenon, <1>10, <2>1
  <1>14. \A d \in Cpus : \A i \in DOMAIN runq[d] :
            runq[d][i] # zombie[c] /\ (d # c \/ i # 1 => runq[d][i] # next)
    <2>1. \A d \in Cpus : \A i \in DOMAIN runq[d] : runq[d][i] # zombie[c]
      BY <1>9, <1>12
    <2>2. ASSUME NEW d \in Cpus, NEW i \in DOMAIN runq[d], d # c \/ i # 1 PROVE runq[d][i] # next
      <3>1. CASE next = out
        BY Zenon, <1>9, <3>1
      <3>2. CASE next # out
        BY <1>1, <1>10, <2>2, <3>2 DEF Apart
      <3> QED BY Zenon, <3>1, <3>2
    <2> QED BY Zenon, <2>1, <2>2
  <1> QED BY <1>9, <1>10, <1>11, <1>12, <1>13, <1>14 DEF Untouched

LEMMA ScheduleEffect ==
  ASSUME SInv, NEW c \in Cpus, NEW how \in {"none", "isr", "yield"}, Schedule(c, how),
         NEW next, next = NextThread(c), NEW q, q = Tail(Requeued(c)), Requeued(c) # <<>>,
         Outgoing(c), Popped(c, next, q), Untouched(c, next, q)
  PROVE  /\ SchedTypeOK' /\ Effect(c, next, q)
         /\ target'[c] = saved[next] /\ \A d \in Cpus : d # c => target'[d] = target[d]
  <1> DEFINE out == current[c]
  <1>1. SchedTypeOK /\ TidsInOrder /\ (\A d \in Cpus : CoreOK(d)) /\ Apart /\ Homed /\ LatestContext
    BY Zenon DEF SInv, CoresInv
  <1>2. /\ out \in Threads /\ out # None /\ exec[c] = out /\ c \in queued
        /\ state[out] \in {"Running", "Exited"}
        /\ idle[c] \in Threads /\ state[idle[c]] # "Exited" /\ (idle[c] = out \/ idle[c] \in QueuedOn(c))
    BY Zenon DEF Outgoing
  <1>4. next \in Threads /\ next # None
    BY Zenon DEF Popped
  <1>q1. q \in Seq(Threads) /\ \A i \in DOMAIN q : i \in Nat \ {0}
    BY Zenon DEF Popped
  <1>12. \A d \in Cpus : zombie[d] # None =>
            zombie[d] \in Threads /\ state[zombie[d]] = "Exited" /\ zombie[d] # out /\ zombie[d] # next
    BY Zenon DEF Untouched
  <1>5. /\ ctx' = [ctx EXCEPT ![out] = IF state[out] = "Exited" THEN "none" ELSE how]
        /\ zombie' = [zombie EXCEPT ![c] = IF state[out] = "Exited" THEN out ELSE None]
        /\ state' = [t \in Threads |->
              IF t = zombie[c] THEN "Reaped"
              ELSE IF t = next THEN "Running"
              ELSE IF t = out /\ state[t] = "Running" THEN "Ready" ELSE state[t]]
        /\ current' = [current EXCEPT ![c] = next]
        /\ UNCHANGED <<nextTid, saved, queued, idle, exec>>
    BY Zenon DEF Schedule
  <1>6. /\ runq' = [d \in Cpus |-> IF d = c THEN q ELSE runq[d]]
        /\ at' = [at EXCEPT ![c] = "switch"]
    BY Zenon, <1>4 DEF Schedule
  <1>7. target' = [target EXCEPT ![c] = saved[next]] /\ irqOn' = [irqOn EXCEPT ![c] = FALSE]
    <2>1. (next # None /\ saved[next]) = saved[next] /\ (next = None /\ irqOn[c]) = FALSE
      <3>1. saved[next] \in BOOLEAN
        BY Zenon, <1>1, <1>4 DEF SchedTypeOK
      <3> QED BY Zenon, <1>4, <3>1
    <2> QED BY Zenon, <2>1 DEF Schedule
  <1>s1. state'[next] = "Running"
    BY Zenon, <1>2, <1>4, <1>5, <1>12
  <1>s2. next # out => /\ state[out] = "Running" => state'[out] = "Ready"
                       /\ state[out] = "Exited" => state'[out] = "Exited"
    BY Zenon, <1>2, <1>4, <1>5, <1>12
  <1>s3. zombie[c] # None => state'[zombie[c]] = "Reaped"
    BY Zenon, <1>5, <1>12
  <1>s4. \A t \in Threads : t # out /\ t # next /\ t # zombie[c] => state'[t] = state[t]
    BY Zenon, <1>5
  <1>p1. runq'[c] = q /\ current'[c] = next /\ at'[c] = "switch"
    BY Zenon, <1>1, <1>5, <1>6 DEF SchedTypeOK
  <1>p2. /\ state[out] = "Exited" => zombie'[c] = out
         /\ state[out] = "Running" => zombie'[c] = None
    BY Zenon, <1>1, <1>5 DEF SchedTypeOK
  <1>p3. \A d \in Cpus : d # c => runq'[d] = runq[d] /\ current'[d] = current[d]
                                  /\ at'[d] = at[d] /\ zombie'[d] = zombie[d]
    BY Zenon, <1>1, <1>5, <1>6 DEF SchedTypeOK
  <1>p4. UNCHANGED <<nextTid, saved, queued, idle, exec>>
    BY Zenon, <1>5
  <1>17. SchedTypeOK'
    <2>1. target' \in [Cpus -> BOOLEAN] /\ irqOn' \in [Cpus -> BOOLEAN]
      <3>1. saved[next] \in BOOLEAN /\ FALSE \in BOOLEAN
        BY Zenon, <1>1, <1>4 DEF SchedTypeOK
      <3> QED BY Zenon, <1>1, <1>7, <3>1 DEF SchedTypeOK
    <2>2. state' \in [Threads -> {"Unborn", "Ready", "Running", "Exited", "Reaped"}]
      BY Zenon, <1>1, <1>5 DEF SchedTypeOK
    <2>3. runq' \in [Cpus -> Seq(Threads)]
      BY Zenon, <1>1, <1>6, <1>q1 DEF SchedTypeOK
    <2>4. /\ current' \in [Cpus -> Threads \cup {None}] /\ zombie' \in [Cpus -> Threads \cup {None}]
          /\ ctx' \in [Threads -> {"none", "fresh", "isr", "yield"}]
          /\ at' \in [Cpus -> {"off", "run", "killed", "switch", "wild"}]
      BY Zenon, <1>1, <1>2, <1>4, <1>5, <1>6 DEF SchedTypeOK
    <2>5. /\ nextTid' \in 1..(MaxThreads + 1) /\ saved' \in [Threads -> BOOLEAN] /\ queued' \subseteq Cpus
          /\ idle' \in [Cpus -> Threads \cup {None}] /\ exec' \in [Cpus -> Threads \cup {None}]
      BY Zenon, <1>1, <1>p4 DEF SchedTypeOK
    <2> QED BY Zenon, <2>1, <2>2, <2>3, <2>4, <2>5 DEF SchedTypeOK
  <1>18. target'[c] = saved[next] /\ \A d \in Cpus : d # c => target'[d] = target[d]
    BY ZenonT(40), <1>1, <1>7 DEF SchedTypeOK
  <1>19. Effect(c, next, q)
    BY Zenon, <1>s1, <1>s2, <1>s3, <1>s4, <1>p1, <1>p2, <1>p3, <1>p4 DEF Effect
  <1> QED BY Zenon, <1>17, <1>18, <1>19

LEMMA ScheduleKeepsIds ==
  ASSUME SInv, NEW c \in Cpus, NEW next, NEW q, Outgoing(c), Popped(c, next, q), Untouched(c, next, q),
         Effect(c, next, q)
  PROVE  TidsInOrder'
  <1> DEFINE out == current[c]
  <1>inv. SchedTypeOK /\ TidsInOrder /\ (\A d \in Cpus : CoreOK(d)) /\ Apart /\ Homed /\ LatestContext
    BY SMTT(40) DEF SInv, CoresInv
  <1>out. /\ out \in Threads /\ out # None /\ exec[c] = out /\ c \in queued
        /\ state[out] \in {"Running", "Exited"}
        /\ idle[c] \in Threads /\ state[idle[c]] # "Exited" /\ (idle[c] = out \/ idle[c] \in QueuedOn(c))
    BY Zenon DEF Outgoing
  <1>u2. next # out =>
           /\ 1 \in DOMAIN runq[c] /\ next = runq[c][1] /\ runq[c] # <<>>
           /\ state[next] = "Ready" /\ saved[next]
    BY Zenon DEF Untouched
  <1>u4. \A d \in Cpus : zombie[d] # None =>
            zombie[d] \in Threads /\ state[zombie[d]] = "Exited" /\ zombie[d] # out /\ zombie[d] # next
    BY Zenon DEF Untouched
  <1>s1. state'[next] = "Running"
    BY Zenon DEF Effect
  <1>s2. next # out => /\ state[out] = "Running" => state'[out] = "Ready"
                       /\ state[out] = "Exited" => state'[out] = "Exited"
    BY Zenon DEF Effect
  <1>s3. zombie[c] # None => state'[zombie[c]] = "Reaped"
    BY Zenon DEF Effect
  <1>s4. \A t \in Threads : t # out /\ t # next /\ t # zombie[c] => state'[t] = state[t]
    BY Zenon DEF Effect
  <1>p4. UNCHANGED <<nextTid, saved, queued, idle, exec>>
    BY Zenon DEF Effect
  <1>1. \A t \in Threads : state'[t] = "Unborn" <=> state[t] = "Unborn"
    <2> TAKE t \in Threads
    <2>1. CASE t = next
      BY Zenon, <1>out, <1>u2, <1>s1, <2>1
    <2>2. CASE t = out /\ t # next
      BY Zenon, <1>out, <1>s2, <2>2
    <2>3. CASE t = zombie[c]
      <3>1. zombie[c] # None
        BY <2>3 DEF Threads, None
      <3> QED BY Zenon, <1>u4, <1>s3, <2>3, <3>1
    <2> QED BY Zenon, <1>s4, <2>1, <2>2, <2>3
  <1> QED BY Zenon, <1>inv, <1>p4, <1>1 DEF TidsInOrder

LEMMA ScheduledCore ==
  ASSUME SInv, NEW c \in Cpus, NEW next, NEW q, Outgoing(c), Popped(c, next, q), Untouched(c, next, q),
         Effect(c, next, q)
  PROVE  CoreOK(c)'
  <1> DEFINE out == current[c]
  <1>inv. SchedTypeOK /\ TidsInOrder /\ (\A d \in Cpus : CoreOK(d)) /\ Apart /\ Homed /\ LatestContext
    BY SMTT(40) DEF SInv, CoresInv
  <1>out. /\ out \in Threads /\ out # None /\ exec[c] = out /\ c \in queued
        /\ state[out] \in {"Running", "Exited"}
        /\ idle[c] \in Threads /\ state[idle[c]] # "Exited" /\ (idle[c] = out \/ idle[c] \in QueuedOn(c))
    BY Zenon DEF Outgoing
  <1>next. next \in Threads /\ next # None
    BY Zenon DEF Popped
  <1>q1. q \in Seq(Threads) /\ \A i \in DOMAIN q : i \in Nat \ {0}
    BY Zenon DEF Popped
  <1>q2. \A i \in DOMAIN q : \/ i + 1 \in DOMAIN runq[c] /\ q[i] = runq[c][i + 1]
                             \/ q[i] = out /\ state[out] = "Running" /\ i = Len(runq[c])
    BY Zenon DEF Popped
  <1>q3. \A j \in DOMAIN runq[c] \ {1} : \E i \in DOMAIN q : q[i] = runq[c][j]
    BY Zenon DEF Popped
  <1>q5. state[out] = "Running" /\ runq[c] # <<>> => \E i \in DOMAIN q : q[i] = out
    BY Zenon DEF Popped
  <1>u1. \A d \in Cpus : \A i \in DOMAIN runq[d] :
           runq[d][i] \in Threads /\ runq[d][i] # None /\ runq[d][i] # out /\ state[runq[d][i]] = "Ready"
    BY DEF Untouched
  <1>u2. next # out =>
           /\ 1 \in DOMAIN runq[c] /\ next = runq[c][1] /\ runq[c] # <<>>
           /\ state[next] = "Ready" /\ saved[next]
    BY Zenon DEF Untouched
  <1>u3. next = out => state[out] = "Running" /\ runq[c] = <<>> /\ q = <<>>
    BY Zenon DEF Untouched
  <1>u6. \A d \in Cpus : \A i \in DOMAIN runq[d] :
            runq[d][i] # zombie[c] /\ (d # c \/ i # 1 => runq[d][i] # next)
    BY DEF Untouched
  <1>s1. state'[next] = "Running"
    BY Zenon DEF Effect
  <1>s2. next # out => /\ state[out] = "Running" => state'[out] = "Ready"
                       /\ state[out] = "Exited" => state'[out] = "Exited"
    BY Zenon DEF Effect
  <1>s4. \A t \in Threads : t # out /\ t # next /\ t # zombie[c] => state'[t] = state[t]
    BY Zenon DEF Effect
  <1>p1. runq'[c] = q /\ current'[c] = next /\ at'[c] = "switch"
    BY Zenon DEF Effect
  <1>p2. /\ state[out] = "Exited" => zombie'[c] = out
         /\ state[out] = "Running" => zombie'[c] = None
    BY Zenon DEF Effect
  <1>p4. UNCHANGED <<nextTid, saved, queued, idle, exec>>
    BY Zenon DEF Effect
  <1>1. out \in {next, zombie'[c]} \cup QueuedOn(c)'
    <2>1. CASE state[out] = "Running" /\ next # out
      BY Zenon, <1>q5, <1>u2, <1>p1, <2>1 DEF QueuedOn
    <2> QED BY Zenon, <1>out, <1>p2, <2>1
  <1>2. zombie'[c] # None => zombie'[c] = out /\ state'[zombie'[c]] = "Exited"
    BY Zenon, <1>out, <1>u3, <1>s2, <1>p2
  <1>3. (idle[c] = next \/ idle[c] \in QueuedOn(c)') /\ state'[idle[c]] # "Exited"
    <2>1. CASE idle[c] = out /\ next = out
      BY Zenon, <1>s1, <2>1
    <2>2. CASE idle[c] = out /\ next # out
      <3>1. state[out] = "Running"
        BY Zenon, <1>out, <2>2
      <3> QED BY Zenon, <1>q5, <1>u2, <1>s2, <1>p1, <2>2, <3>1 DEF QueuedOn
    <2>3. CASE idle[c] \in QueuedOn(c)
      <3>1. PICK j \in DOMAIN runq[c] : idle[c] = runq[c][j]
        BY Zenon, <2>3 DEF QueuedOn
      <3>2. CASE j = 1
        <4>1. idle[c] = next
          BY <1>u1, <1>u2, <1>u3, <3>1, <3>2
        <4> QED BY Zenon, <1>s1, <4>1
      <3>3. CASE j # 1
        <4>1. idle[c] \in QueuedOn(c)'
          BY Zenon, <1>q3, <1>p1, <3>1, <3>3 DEF QueuedOn
        <4>2. state'[idle[c]] = "Ready"
          BY Zenon, <1>u1, <1>u6, <1>s4, <3>1, <3>3
        <4> QED BY Zenon, <4>1, <4>2
      <3> QED BY Zenon, <3>2, <3>3
    <2> QED BY Zenon, <1>out, <2>1, <2>2, <2>3
  <1>4. \A i \in DOMAIN q : state'[q[i]] = "Ready" /\ (saved[q[i]] \/ exec[c] = q[i])
    <2> TAKE i \in DOMAIN q
    <2>1. CASE i + 1 \in DOMAIN runq[c] /\ q[i] = runq[c][i + 1]
      <3>1. i + 1 # 1
        BY <1>q1
      <3>2. state'[q[i]] = "Ready"
        BY Zenon, <1>u1, <1>u6, <1>s4, <2>1, <3>1
      <3>3. saved[q[i]] \/ exec[c] = q[i]
        BY <1>inv, <2>1 DEF CoreOK
      <3> QED BY Zenon, <3>2, <3>3
    <2>2. CASE q[i] = out /\ state[out] = "Running"
      <3>1. next # out
        BY <1>u3
      <3> QED BY Zenon, <1>out, <1>s2, <2>2, <3>1
    <2> QED BY Zenon, <1>q2, <2>1, <2>2
  <1>5. next # None /\ state'[next] = "Running" /\ idle[c] # None /\ out # None
    BY SMTT(40), <1>out, <1>next, <1>s1 DEF None, Threads
  <1> QED BY Zenon, <1>out, <1>p1, <1>p4, <1>1, <1>2, <1>3, <1>4, <1>5 DEF CoreOK

LEMMA OtherCore ==
  ASSUME SInv, NEW c \in Cpus, NEW next, NEW q, Outgoing(c), Popped(c, next, q), Untouched(c, next, q),
         Effect(c, next, q)
  PROVE  \A d \in Cpus \ {c} : CoreOK(d)'
  <1> DEFINE out == current[c]
  <1>inv. SchedTypeOK /\ TidsInOrder /\ (\A d \in Cpus : CoreOK(d)) /\ Apart /\ Homed /\ LatestContext
    BY SMTT(40) DEF SInv, CoresInv
  <1>u1. \A d \in Cpus : \A i \in DOMAIN runq[d] :
           runq[d][i] \in Threads /\ runq[d][i] # None /\ runq[d][i] # out /\ state[runq[d][i]] = "Ready"
    BY ZenonT(40) DEF Untouched
  <1>u4. \A d \in Cpus : zombie[d] # None =>
            zombie[d] \in Threads /\ state[zombie[d]] = "Exited" /\ zombie[d] # out /\ zombie[d] # next
    BY Zenon DEF Untouched
  <1>u5. \A d \in Cpus \ {c} : current[d] # None =>
            current[d] \in Threads /\ current[d] # out /\ current[d] # next /\ current[d] # zombie[c]
    BY Zenon DEF Untouched
  <1>u6. \A d \in Cpus : \A i \in DOMAIN runq[d] :
            runq[d][i] # zombie[c] /\ (d # c \/ i # 1 => runq[d][i] # next)
    BY ZenonT(40) DEF Untouched
  <1>s4. \A t \in Threads : t # out /\ t # next /\ t # zombie[c] => state'[t] = state[t]
    BY Zenon DEF Effect
  <1>p3. \A d \in Cpus : d # c => runq'[d] = runq[d] /\ current'[d] = current[d]
                                  /\ at'[d] = at[d] /\ zombie'[d] = zombie[d]
    BY Zenon DEF Effect
  <1>p4. UNCHANGED <<nextTid, saved, queued, idle, exec>>
    BY Zenon DEF Effect
  <1> SUFFICES ASSUME NEW d \in Cpus, d # c PROVE CoreOK(d)'
    BY Zenon
  <1>1. QueuedOn(d)' = QueuedOn(d) /\ CoreOK(d)
    BY Zenon, <1>inv, <1>p3 DEF QueuedOn
  <1>2. \A i \in DOMAIN runq[d] : state'[runq[d][i]] = state[runq[d][i]]
    BY Zenon, <1>u1, <1>u6, <1>s4
  <1>3. current[d] # None => state'[current[d]] = state[current[d]]
    BY Zenon, <1>u5, <1>s4
  <1>4. zombie[d] # None => state'[zombie[d]] = state[zombie[d]]
    <2>1. zombie[d] # None => zombie[d] # zombie[c]
      BY Zenon, <1>inv DEF Apart
    <2> QED BY Zenon, <1>u4, <1>s4, <2>1
  <1>5. idle[d] # None => state'[idle[d]] = state[idle[d]]
    BY SMTT(40), <1>1, <1>2, <1>3 DEF CoreOK, QueuedOn
  <1>6. /\ runq'[d] = runq[d] /\ current'[d] = current[d] /\ at'[d] = at[d] /\ zombie'[d] = zombie[d]
        /\ idle'[d] = idle[d] /\ exec'[d] = exec[d] /\ queued' = queued /\ saved' = saved
    BY SMTT(40), <1>p3, <1>p4
  <1> QED BY SMTT(40), <1>1, <1>2, <1>3, <1>4, <1>5, <1>6 DEF CoreOK

LEMMA ScheduleApart ==
  ASSUME SInv, NEW c \in Cpus, NEW next, NEW q, Outgoing(c), Popped(c, next, q), Untouched(c, next, q),
         Effect(c, next, q)
  PROVE  Apart'
  <1> DEFINE out == current[c]
  <1>inv. SchedTypeOK /\ TidsInOrder /\ (\A d \in Cpus : CoreOK(d)) /\ Apart /\ Homed /\ LatestContext
    BY SMTT(40) DEF SInv, CoresInv
  <1>out. /\ out \in Threads /\ out # None /\ exec[c] = out /\ c \in queued
        /\ state[out] \in {"Running", "Exited"}
        /\ idle[c] \in Threads /\ state[idle[c]] # "Exited" /\ (idle[c] = out \/ idle[c] \in QueuedOn(c))
    BY Zenon DEF Outgoing
  <1>next. next \in Threads /\ next # None
    BY Zenon DEF Popped
  <1>q1. q \in Seq(Threads) /\ \A i \in DOMAIN q : i \in Nat \ {0}
    BY Zenon DEF Popped
  <1>q2. \A i \in DOMAIN q : \/ i + 1 \in DOMAIN runq[c] /\ q[i] = runq[c][i + 1]
                             \/ q[i] = out /\ state[out] = "Running" /\ i = Len(runq[c])
    BY Zenon DEF Popped
  <1>u1. \A d \in Cpus : \A i \in DOMAIN runq[d] :
           runq[d][i] \in Threads /\ runq[d][i] # None /\ runq[d][i] # out /\ state[runq[d][i]] = "Ready"
    BY ZenonT(40) DEF Untouched
  <1>u3. next = out => state[out] = "Running" /\ runq[c] = <<>> /\ q = <<>>
    BY Zenon DEF Untouched
  <1>u4. \A d \in Cpus : zombie[d] # None =>
            zombie[d] \in Threads /\ state[zombie[d]] = "Exited" /\ zombie[d] # out /\ zombie[d] # next
    BY Zenon DEF Untouched
  <1>u5. \A d \in Cpus \ {c} : current[d] # None =>
            current[d] \in Threads /\ current[d] # out /\ current[d] # next /\ current[d] # zombie[c]
    BY Zenon DEF Untouched
  <1>p1. runq'[c] = q /\ current'[c] = next /\ at'[c] = "switch"
    BY Zenon DEF Effect
  <1>p2. /\ state[out] = "Exited" => zombie'[c] = out
         /\ state[out] = "Running" => zombie'[c] = None
    BY Zenon DEF Effect
  <1>p3. \A d \in Cpus : d # c => runq'[d] = runq[d] /\ current'[d] = current[d]
                                  /\ at'[d] = at[d] /\ zombie'[d] = zombie[d]
    BY Zenon DEF Effect
  <1>1. ASSUME NEW d \in Cpus, NEW e \in Cpus, NEW i \in DOMAIN runq'[d], NEW j \in DOMAIN runq'[e],
               runq'[d][i] = runq'[e][j]
        PROVE  d = e /\ i = j
    <2>1. \A f, g \in Cpus : \A k \in DOMAIN runq[f], l \in DOMAIN runq[g] :
             runq[f][k] = runq[g][l] => f = g /\ k = l
      BY Zenon, <1>inv DEF Apart
    <2>2. CASE d # c /\ e # c
      BY <1>p3, <1>1, <2>1, <2>2
    <2>3. ASSUME NEW f \in Cpus, f # c, NEW k \in DOMAIN runq[f], NEW l \in DOMAIN q
          PROVE  runq[f][k] # q[l]
      <3>1. CASE l + 1 \in DOMAIN runq[c] /\ q[l] = runq[c][l + 1]
        BY <2>1, <2>3, <3>1
      <3>2. CASE q[l] = out
        BY Zenon, <1>u1, <3>2
      <3> QED BY Zenon, <1>q2, <3>1, <3>2
    <2>4. CASE d = c /\ e # c
      BY <1>p1, <1>p3, <1>1, <2>3, <2>4
    <2>5. CASE d # c /\ e = c
      BY <1>p1, <1>p3, <1>1, <2>3, <2>5
    <2>6. CASE d = c /\ e = c
      <3>1. i \in DOMAIN q /\ j \in DOMAIN q /\ q[i] = q[j] /\ i \in Nat /\ j \in Nat
        BY Zenon, <1>q1, <1>p1, <1>1, <2>6
      <3>2. \A k \in DOMAIN q : q[k] = out => k = Len(runq[c])
        BY <1>u1, <1>q2
      <3>3. \A k \in DOMAIN q : q[k] # out => k + 1 \in DOMAIN runq[c] /\ q[k] = runq[c][k + 1]
        BY Zenon, <1>q2
      <3>4. \A k, l \in DOMAIN runq[c] : runq[c][k] = runq[c][l] => k = l
        BY <2>1
      <3>5. CASE q[i] = out
        BY Zenon, <2>6, <3>1, <3>2, <3>5
      <3>6. CASE q[i] # out
        <4>1. i + 1 \in DOMAIN runq[c] /\ j + 1 \in DOMAIN runq[c] /\ runq[c][i + 1] = runq[c][j + 1]
          BY Zenon, <3>1, <3>3, <3>6
        <4>2. i + 1 = j + 1
          BY Zenon, <3>4, <4>1
        <4> QED BY <2>6, <3>1, <4>2
      <3> QED BY Zenon, <3>5, <3>6
    <2> QED BY Zenon, <2>2, <2>4, <2>5, <2>6
  <1>2. \A d, e \in Cpus : current[d] # None /\ current[d] = current[e] => d = e
    BY Zenon, <1>inv DEF Apart
  <1>3. \A d, e \in Cpus : current'[d] # None /\ current'[d] = current'[e] => d = e
    BY <1>u5, <1>p1, <1>p3, <1>2
  <1>4. \A d, e \in Cpus : zombie[d] # None /\ zombie[d] = zombie[e] => d = e
    BY Zenon, <1>inv DEF Apart
  <1>5. \A d, e \in Cpus : zombie'[d] # None /\ zombie'[d] = zombie'[e] => d = e
    BY SMTT(40), <1>out, <1>u4, <1>p2, <1>p3, <1>4
  <1>6. \A d, e \in Cpus : current[d] # None => current[d] # zombie[e]
    BY Zenon, <1>inv DEF Apart
  <1>7. \A d, e \in Cpus : current'[d] # None => current'[d] # zombie'[e]
    <2> SUFFICES ASSUME NEW d \in Cpus, NEW e \in Cpus, current'[d] # None
                 PROVE  current'[d] # zombie'[e]
      BY Zenon
    <2>1. CASE d = c /\ e = c
      BY SMTT(40), <1>out, <1>next, <1>u3, <1>p1, <1>p2, <2>1
    <2>2. CASE d = c /\ e # c
      BY Zenon, <1>next, <1>u4, <1>p1, <1>p3, <2>2
    <2>3. CASE d # c /\ e = c
      BY <1>out, <1>u5, <1>p2, <1>p3, <2>3
    <2>4. CASE d # c /\ e # c
      BY Zenon, <1>p3, <1>6, <2>4
    <2> QED BY Zenon, <2>1, <2>2, <2>3, <2>4
  <1> QED BY Zenon, <1>1, <1>3, <1>5, <1>7 DEF Apart

LEMMA ScheduleHomed ==
  ASSUME SInv, NEW c \in Cpus, NEW next, NEW q, Outgoing(c), Popped(c, next, q), Untouched(c, next, q),
         Effect(c, next, q)
  PROVE  Homed'
  <1> DEFINE out == current[c]
  <1>inv. SchedTypeOK /\ TidsInOrder /\ (\A d \in Cpus : CoreOK(d)) /\ Apart /\ Homed /\ LatestContext
    BY SMTT(40) DEF SInv, CoresInv
  <1>out. /\ out \in Threads /\ out # None /\ exec[c] = out /\ c \in queued
        /\ state[out] \in {"Running", "Exited"}
        /\ idle[c] \in Threads /\ state[idle[c]] # "Exited" /\ (idle[c] = out \/ idle[c] \in QueuedOn(c))
    BY Zenon DEF Outgoing
  <1>q3. \A j \in DOMAIN runq[c] \ {1} : \E i \in DOMAIN q : q[i] = runq[c][j]
    BY Zenon DEF Popped
  <1>q4. \/ 1 \in DOMAIN runq[c] /\ next = runq[c][1]
         \/ runq[c] = <<>> /\ next = out /\ state[out] = "Running" /\ q = <<>>
    BY Zenon DEF Popped
  <1>q5. state[out] = "Running" /\ runq[c] # <<>> => \E i \in DOMAIN q : q[i] = out
    BY Zenon DEF Popped
  <1>u2. next # out =>
           /\ 1 \in DOMAIN runq[c] /\ next = runq[c][1] /\ runq[c] # <<>>
           /\ state[next] = "Ready" /\ saved[next]
    BY Zenon DEF Untouched
  <1>s1. state'[next] = "Running"
    BY Zenon DEF Effect
  <1>s2. next # out => /\ state[out] = "Running" => state'[out] = "Ready"
                       /\ state[out] = "Exited" => state'[out] = "Exited"
    BY Zenon DEF Effect
  <1>s3. zombie[c] # None => state'[zombie[c]] = "Reaped"
    BY Zenon DEF Effect
  <1>s4. \A t \in Threads : t # out /\ t # next /\ t # zombie[c] => state'[t] = state[t]
    BY Zenon DEF Effect
  <1>p1. runq'[c] = q /\ current'[c] = next /\ at'[c] = "switch"
    BY Zenon DEF Effect
  <1>p2. /\ state[out] = "Exited" => zombie'[c] = out
         /\ state[out] = "Running" => zombie'[c] = None
    BY Zenon DEF Effect
  <1>p3. \A d \in Cpus : d # c => runq'[d] = runq[d] /\ current'[d] = current[d]
                                  /\ at'[d] = at[d] /\ zombie'[d] = zombie[d]
    BY Zenon DEF Effect
  <1> SUFFICES ASSUME NEW t \in Threads
               PROVE  /\ state'[t] = "Running" => \E d \in Cpus : current'[d] = t
                      /\ state'[t] = "Ready" => \E d \in Cpus : t \in QueuedOn(d)'
                      /\ state'[t] = "Exited" => \E d \in Cpus : current'[d] = t \/ zombie'[d] = t
    BY Zenon DEF Homed
  <1>1. CASE t = next
    BY Zenon, <1>s1, <1>p1, <1>1
  <1>2. CASE t = out /\ t # next
    <2>1. CASE state[out] = "Running"
      <3>1. t \in QueuedOn(c)'
        BY <1>q5, <1>u2, <1>p1, <1>2, <2>1 DEF QueuedOn
      <3> QED BY Zenon, <1>s2, <1>2, <2>1, <3>1
    <2>2. CASE state[out] = "Exited"
      BY Zenon, <1>s2, <1>p2, <1>2, <2>2
    <2> QED BY Zenon, <1>out, <2>1, <2>2
  <1>3. CASE t = zombie[c]
    <2>1. zombie[c] # None
      BY <1>3 DEF Threads, None
    <2> QED BY Zenon, <1>s3, <1>3, <2>1
  <1>4. CASE t # out /\ t # next /\ t # zombie[c]
    <2>1. state'[t] = state[t]
      BY SMTT(40), <1>s4, <1>4
    <2>2. \A d \in Cpus : /\ current[d] = t => current'[d] = t
                          /\ zombie[d] = t => zombie'[d] = t
      BY Zenon, <1>p3, <1>4
    <2>3. \A d \in Cpus : t \in QueuedOn(d) => t \in QueuedOn(d)'
      <3> SUFFICES ASSUME NEW d \in Cpus, NEW j \in DOMAIN runq[d], t = runq[d][j]
                   PROVE  t \in QueuedOn(d)'
        BY Zenon DEF QueuedOn
      <3>1. CASE d # c
        BY Zenon, <1>p3, <3>1 DEF QueuedOn
      <3>2. CASE d = c
        <4>1. j # 1
          BY <1>q4, <1>4, <3>2
        <4> QED BY Zenon, <1>q3, <1>p1, <3>2, <4>1 DEF QueuedOn
      <3> QED BY Zenon, <3>1, <3>2
    <2> QED BY Zenon, <1>inv, <2>1, <2>2, <2>3 DEF Homed
  <1> QED BY Zenon, <1>1, <1>2, <1>3, <1>4

LEMMA ScheduleStep ==
  ASSUME SInv, NEW c \in Cpus, NEW how \in {"none", "isr", "yield"},
         at[c] \in {"run", "killed"}, Schedule(c, how)
  PROVE  SInv'
  <1> DEFINE next == NextThread(c)
             q == Tail(Requeued(c))
  <1>1. Outgoing(c) /\ Requeued(c) # <<>> /\ Popped(c, next, q)
    BY SchedulePops
  <1> HIDE DEF next, q
  <1>2. Untouched(c, next, q)
    BY Zenon, <1>1, ScheduleLeaves
  <1>3. /\ SchedTypeOK' /\ Effect(c, next, q)
        /\ target'[c] = saved[next] /\ \A d \in Cpus : d # c => target'[d] = target[d]
    BY Zenon, <1>1, <1>2, ScheduleEffect DEF next, q
  <1>4. TidsInOrder' /\ Apart' /\ Homed'
    BY Zenon, <1>1, <1>2, <1>3, ScheduleKeepsIds, ScheduleApart, ScheduleHomed
  <1>5. \A d \in Cpus : CoreOK(d)'
    BY Zenon, <1>1, <1>2, <1>3, ScheduledCore, OtherCore
  <1>6. LatestContext'
    <2>1. /\ at'[c] = "switch" /\ current'[c] = next /\ exec' = exec /\ exec[c] = current[c]
          /\ \A d \in Cpus : d # c => current'[d] = current[d] /\ at'[d] = at[d]
          /\ next # current[c] => saved[next]
      BY <1>1, <1>2, <1>3 DEF Effect, Untouched, Outgoing
    <2> QED BY SMTT(40), <1>3, <2>1 DEF SInv, LatestContext
  <1> QED BY Zenon, <1>3, <1>4, <1>5, <1>6 DEF SInv, CoresInv
-----------------------------------------------------------------------------
LEMMA SchedInitOK == SchedInit => SInv
  <1> SUFFICES ASSUME SchedInit PROVE SInv
    BY Zenon
  <1> USE SchedulerConstants DEF SchedInit
  <1>1. SchedTypeOK
    BY DEF SchedTypeOK, Threads, None
  <1>2. TidsInOrder
    BY DEF TidsInOrder, Threads
  <1>3. \A c \in Cpus : CoreOK(c)
    BY DEF CoreOK, None
  <1>4. Apart /\ Homed /\ LatestContext
    BY DEF Apart, Homed, LatestContext, None
  <1> QED BY Zenon, <1>1, <1>2, <1>3, <1>4 DEF SInv, CoresInv

(* What the places of a thread come to.                                    *)
LEMMA SInvConserves == SInv => ThreadsConserved
  <1> SUFFICES ASSUME SInv, NEW t \in Threads
               PROVE  /\ state[t] \in {"Unborn", "Reaped"} <=> Places(t) = {}
                      /\ \A p, q \in Places(t) : p = q
                      /\ state[t] = "Running" => \E c \in Cpus : current[c] = t
                      /\ state[t] = "Ready" => \E c \in Cpus : t \in QueuedOn(c)
    BY Zenon DEF SInv, ThreadsConserved
  <1>1. SchedTypeOK /\ (\A c \in Cpus : CoreOK(c)) /\ Apart /\ Homed
    BY Zenon DEF SInv, CoresInv
  <1>2. t # None
    BY DEF Threads, None
  <1>3. \A c \in Cpus : current[c] = t => <<"current", c, 0>> \in Places(t)
    BY Zenon DEF Places
  <1>4. \A c \in Cpus : zombie[c] = t => <<"zombie", c, 0>> \in Places(t)
    BY Zenon DEF Places
  <1>5. \A c \in Cpus : \A i \in DOMAIN runq[c] : runq[c][i] = t => <<"queue", c, i>> \in Places(t)
    BY DEF Places
  <1>6. ASSUME NEW p \in Places(t)
        PROVE  \/ \E c \in Cpus : p = <<"current", c, 0>> /\ current[c] = t
               \/ \E c \in Cpus : p = <<"zombie", c, 0>> /\ zombie[c] = t
               \/ \E c \in Cpus : \E i \in DOMAIN runq[c] : p = <<"queue", c, i>> /\ runq[c][i] = t
    BY Zenon DEF Places
  <1>7. \A c \in Cpus : current[c] = t => state[t] \in {"Running", "Exited"}
    BY <1>1, <1>2 DEF CoreOK
  <1>8. \A c \in Cpus : zombie[c] = t => state[t] = "Exited"
    BY <1>1, <1>2 DEF CoreOK
  <1>9. \A c \in Cpus : \A i \in DOMAIN runq[c] : runq[c][i] = t => state[t] = "Ready"
    BY <1>1 DEF CoreOK
  <1>10. state[t] \in {"Unborn", "Reaped"} => Places(t) = {}
    BY Zenon, <1>6, <1>7, <1>8, <1>9
  <1>11. Places(t) = {} => state[t] \in {"Unborn", "Reaped"}
    <2>1. state[t] \in {"Unborn", "Ready", "Running", "Exited", "Reaped"}
      BY Zenon, <1>1 DEF SchedTypeOK
    <2>2. state[t] = "Ready" => \E c \in Cpus : \E i \in DOMAIN runq[c] : runq[c][i] = t
      BY Zenon, <1>1 DEF Homed, QueuedOn
    <2>3. state[t] \in {"Running", "Exited"} => \E c \in Cpus : current[c] = t \/ zombie[c] = t
      BY Zenon, <1>1 DEF Homed
    <2> QED BY Zenon, <2>1, <2>2, <2>3, <1>3, <1>4, <1>5
  <1>12. ASSUME NEW p \in Places(t), NEW q \in Places(t) PROVE p = q
    BY <1>1, <1>2, <1>6, <1>7, <1>8, <1>9 DEF Apart
  <1> QED BY Zenon, <1>1, <1>10, <1>11, <1>12 DEF Homed

(* A core that executes does so on the stack of a thread it holds.         *)
LEMMA SInvStacks == SInv => StacksSafe
  <1> SUFFICES ASSUME SInv PROVE StacksSafe
    BY Zenon
  <1>1. SchedTypeOK /\ (\A c \in Cpus : CoreOK(c)) /\ Apart /\ LatestContext
    BY Zenon DEF SInv, CoresInv
  <1>2. \A c \in Cpus : exec[c] # None =>
           exec[c] = current[c] \/ exec[c] = zombie[c] \/ \E i \in DOMAIN runq[c] : exec[c] = runq[c][i]
    BY <1>1 DEF CoreOK, QueuedOn, SchedTypeOK
  <1>3. \A c \in Cpus : exec[c] # None => state[exec[c]] \in {"Running", "Exited", "Ready"}
    BY <1>1, <1>2 DEF CoreOK
  <1>4. ASSUME NEW c \in Cpus, NEW d \in Cpus, exec[c] # None, exec[c] = exec[d] PROVE c = d
    <2>1. \A x \in Cpus : /\ current[x] # None => state[current[x]] \in {"Running", "Exited"}
                          /\ zombie[x] # None => state[zombie[x]] = "Exited"
                          /\ \A i \in DOMAIN runq[x] : state[runq[x][i]] = "Ready"
      BY Zenon, <1>1 DEF CoreOK
    <2>2. \A x, y \in Cpus : /\ current[x] # None /\ current[x] = current[y] => x = y
                             /\ zombie[x] # None /\ zombie[x] = zombie[y] => x = y
                             /\ current[x] # None => current[x] # zombie[y]
                             /\ \A i \in DOMAIN runq[x], j \in DOMAIN runq[y] : runq[x][i] = runq[y][j] => x = y
      BY Zenon, <1>1 DEF Apart
    <2>3. CASE exec[c] = current[c] \/ exec[c] = zombie[c]
      <3>0. state[exec[d]] \in {"Running", "Exited"}
        BY <1>4, <2>1, <2>3
      <3>1. \A i \in DOMAIN runq[d] : exec[d] # runq[d][i]
        BY <2>1, <3>0
      <3>2. exec[d] = current[d] \/ exec[d] = zombie[d]
        BY Zenon, <1>2, <1>4, <3>1
      <3> QED BY Zenon, <1>4, <2>2, <2>3, <3>2
    <2>4. CASE \E i \in DOMAIN runq[c] : exec[c] = runq[c][i]
      <3>0. state[exec[d]] = "Ready" /\ exec[d] # None
        BY <1>4, <2>1, <2>4
      <3>1. exec[d] # current[d] /\ exec[d] # zombie[d]
        BY Zenon, <2>1, <3>0
      <3>2. \E j \in DOMAIN runq[d] : exec[d] = runq[d][j]
        BY Zenon, <1>2, <1>4, <3>1
      <3> QED BY Zenon, <1>4, <2>2, <2>4, <3>2
    <2> QED BY Zenon, <1>2, <1>4, <2>3, <2>4
  <1> QED BY Zenon, <1>1, <1>3, <1>4 DEF StacksSafe, LatestContext
-----------------------------------------------------------------------------
(* A core that comes up takes the next id for its idle thread.             *)
LEMMA InitCoreStep ==
  ASSUME SInv, NEW c \in Cpus, InitCore(c) PROVE SInv'
  <1>1. SchedTypeOK /\ TidsInOrder /\ (\A d \in Cpus : CoreOK(d)) /\ Apart /\ Homed /\ LatestContext
    BY Zenon DEF SInv, CoresInv
  <1>2. nextTid \in Threads /\ nextTid \in Nat /\ nextTid # None /\ state[nextTid] = "Unborn"
    BY <1>1 DEF InitCore, TidsInOrder, Threads, None
  <1>3. \A d \in Cpus : /\ current[d] # nextTid /\ zombie[d] # nextTid /\ idle[d] # nextTid
                        /\ exec[d] # nextTid
                        /\ \A i \in DOMAIN runq[d] : runq[d][i] # nextTid
    <2> TAKE d \in Cpus
    <2>1. current[d] # nextTid /\ zombie[d] # nextTid /\ \A i \in DOMAIN runq[d] : runq[d][i] # nextTid
      BY <1>1, <1>2 DEF CoreOK
    <2>2. nextTid \notin QueuedOn(d)
      BY Zenon, <2>1 DEF QueuedOn
    <2> QED BY <1>1, <1>2, <2>1, <2>2 DEF CoreOK, SchedTypeOK
  <1>4. SchedTypeOK'
    BY SMTT(40), <1>1, <1>2, SchedulerConstants DEF InitCore, SchedTypeOK, Threads
  <1>5. TidsInOrder'
    BY <1>1, <1>2, SchedulerConstants DEF InitCore, TidsInOrder, SchedTypeOK, Threads
  <1>6. ASSUME NEW d \in Cpus PROVE CoreOK(d)'
    <2>1. QueuedOn(d)' = QueuedOn(d)
      BY Zenon DEF InitCore, QueuedOn
    <2>2. CASE d = c
      <3>1. /\ at'[c] = "run" /\ current'[c] = nextTid /\ idle'[c] = nextTid /\ exec'[c] = nextTid
            /\ UNCHANGED <<saved, queued, runq, zombie>>
        BY Zenon, <1>1 DEF InitCore, SchedTypeOK
      <3>2. \A t \in Threads \ {nextTid} : state'[t] = state[t]
        BY Zenon, <1>1 DEF InitCore, SchedTypeOK
      <3>3. state'[nextTid] = "Running"
        BY Zenon, <1>1, <1>2 DEF InitCore, SchedTypeOK
      <3>4. /\ zombie[c] # None => state'[zombie[c]] = state[zombie[c]]
            /\ \A i \in DOMAIN runq[c] : state'[runq[c][i]] = state[runq[c][i]]
        BY <1>1, <1>3, <3>2 DEF SchedTypeOK
      <3>5. CoreOK(c) /\ at[c] = "off"
        BY Zenon, <1>1 DEF InitCore
      <3>6. \A i \in DOMAIN runq[c] : saved[runq[c][i]]
        <4>1. exec[c] = None
          BY Zenon, <3>5 DEF CoreOK
        <4>2. \A i \in DOMAIN runq[c] : runq[c][i] # None
          BY Zenon, <1>1, QueueTyped
        <4> QED BY Zenon, <3>5, <4>1, <4>2 DEF CoreOK
      <3> QED BY <1>2, <1>3, <2>2, <3>1, <3>3, <3>4, <3>5, <3>6 DEF CoreOK
    <2>3. CASE d # c
      <3>1. /\ at'[d] = at[d] /\ current'[d] = current[d] /\ idle'[d] = idle[d]
            /\ exec'[d] = exec[d] /\ UNCHANGED <<saved, queued, runq, zombie>>
        BY Zenon, <1>1, <2>3 DEF InitCore, SchedTypeOK
      <3>2. \A t \in Threads \ {nextTid} : state'[t] = state[t]
        BY Zenon, <1>1 DEF InitCore, SchedTypeOK
      <3>3. /\ current[d] # None => state'[current[d]] = state[current[d]]
            /\ zombie[d] # None => state'[zombie[d]] = state[zombie[d]]
            /\ idle[d] # None => state'[idle[d]] = state[idle[d]]
            /\ \A i \in DOMAIN runq[d] : state'[runq[d][i]] = state[runq[d][i]]
        BY <1>1, <1>3, <3>2 DEF SchedTypeOK
      <3>4. CoreOK(d)
        BY Zenon, <1>1
      <3> QED BY <2>1, <3>1, <3>3, <3>4 DEF CoreOK
    <2> QED BY Zenon, <2>2, <2>3
  <1>7. Apart'
    BY <1>1, <1>2, <1>3 DEF InitCore, Apart, SchedTypeOK
  <1>8. Homed'
    <2>1. /\ \A t \in Threads \ {nextTid} : state'[t] = state[t]
          /\ state'[nextTid] = "Running" /\ current'[c] = nextTid
          /\ current[c] = None /\ zombie' = zombie
          /\ \A d \in Cpus \ {c} : current'[d] = current[d]
          /\ \A d \in Cpus : QueuedOn(d)' = QueuedOn(d)
      BY <1>1, <1>2 DEF InitCore, SchedTypeOK, QueuedOn, CoreOK
    <2>2. None \notin Threads
      BY DEF None, Threads
    <2> QED BY <1>1, <2>1, <2>2 DEF Homed
  <1>9. LatestContext'
    BY Zenon, <1>1 DEF InitCore, LatestContext, SchedTypeOK
  <1> QED BY Zenon, <1>4, <1>5, <1>6, <1>7, <1>8, <1>9 DEF SInv, CoresInv

LEMMA MarkStep ==
  ASSUME SInv, NEW c \in Cpus, Kill(c) \/ Exit(c) \/ EnterUser(c) PROVE SInv'
  <1>1. SchedTypeOK /\ TidsInOrder /\ (\A d \in Cpus : CoreOK(d)) /\ Apart /\ Homed /\ LatestContext
    BY Zenon DEF SInv, CoresInv
  <1>2. /\ UNCHANGED <<nextTid, saved, ctx, queued, runq, current, zombie, idle, exec, target>>
        /\ current[c] \in Threads /\ at[c] = "run" /\ state[current[c]] = "Running"
    BY Zenon, <1>1 DEF Kill, Exit, EnterUser, Runs, SchedTypeOK, threadVars
  <1>3. /\ state' = state \/ state' = [state EXCEPT ![current[c]] = "Exited"]
        /\ at' = at \/ at' = [at EXCEPT ![c] = "killed"]
        /\ at' # at => state'[current[c]] = "Exited"
        /\ state' # state => idle[c] # current[c] /\ \A d \in Cpus : idle[d] # current[c]
        /\ irqOn' \in [Cpus -> BOOLEAN]
    BY Zenon, <1>1, <1>2 DEF Kill, Exit, EnterUser, IsIdle, SchedTypeOK, threadVars
  <1>4. SchedTypeOK'
    <2>1. state' \in [Threads -> {"Unborn", "Ready", "Running", "Exited", "Reaped"}]
      <3>1. CASE state' = state
        BY Zenon, <1>1, <3>1 DEF SchedTypeOK
      <3>2. CASE state' = [state EXCEPT ![current[c]] = "Exited"]
        BY Zenon, <1>1, <3>2 DEF SchedTypeOK
      <3> QED BY Zenon, <1>3, <3>1, <3>2
    <2>2. at' \in [Cpus -> {"off", "run", "killed", "switch", "wild"}]
      BY Zenon, <1>1, <1>3 DEF SchedTypeOK
    <2> QED BY Zenon, <1>1, <1>2, <1>3, <2>1, <2>2 DEF SchedTypeOK
  <1>5. TidsInOrder'
    BY <1>1, <1>2, <1>3 DEF TidsInOrder, SchedTypeOK
  <1>6. ASSUME NEW d \in Cpus PROVE CoreOK(d)'
    <2>1. QueuedOn(d)' = QueuedOn(d)
      BY Zenon, <1>2 DEF QueuedOn
    <2>2. \A i \in DOMAIN runq[d] : runq[d][i] # current[c]
      <3>1. \A i \in DOMAIN runq[d] : state[runq[d][i]] = "Ready"
        BY Zenon, <1>1 DEF CoreOK
      <3> QED BY Zenon, <1>2, <3>1
    <2>3. c \in queued \/ at' = at
      <3>1. CASE Kill(c)
        <4>1. idle[c] # current[c] /\ idle[c] # None
          BY Zenon, <1>1, <1>2, <3>1 DEF Kill, IsIdle, CoreOK
        <4>2. idle[c] \in QueuedOn(c)
          BY Zenon, <1>1, <4>1 DEF CoreOK
        <4>3. runq[c] # <<>>
          BY <4>2 DEF QueuedOn
        <4> QED BY Zenon, <1>1, <4>3 DEF CoreOK
      <3>2. CASE Exit(c) \/ EnterUser(c)
        BY Zenon, <3>2 DEF Exit, EnterUser
      <3> QED BY Zenon, <3>1, <3>2
    <2>4. \A t \in Threads : t # current[c] => state'[t] = state[t]
      BY Zenon, <1>1, <1>3 DEF SchedTypeOK
    <2>5. state'[current[c]] \in {"Running", "Exited"}
      BY Zenon, <1>1, <1>2, <1>3 DEF SchedTypeOK
    <2>6. \/ at'[d] = at[d]
          \/ d = c /\ at'[d] = "killed" /\ state'[current[c]] = "Exited" /\ c \in queued
      BY Zenon, <1>1, <1>3, <2>3 DEF SchedTypeOK
    <2>7. /\ current' = current /\ zombie' = zombie /\ idle' = idle /\ exec' = exec
          /\ runq' = runq /\ queued' = queued /\ saved' = saved
      BY Zenon, <1>2
    <2>8. /\ current[d] \in Threads \cup {None} /\ zombie[d] \in Threads \cup {None}
          /\ idle[d] \in Threads \cup {None} /\ \A i \in DOMAIN runq[d] : runq[d][i] \in Threads
      BY Zenon, <1>1, QueueTyped DEF SchedTypeOK
    <2>9. /\ zombie[d] # current[c]
          /\ d # c => current[d] # current[c]
          /\ idle[d] = current[c] => state' = state
      <3>1. current[c] # None
        BY Zenon, <1>1, <1>2 DEF CoreOK
      <3>2. zombie[d] # current[c] /\ (d # c => current[d] # current[c])
        BY Zenon, <1>1, <3>1 DEF Apart
      <3> QED BY Zenon, <1>3, <3>2
    <2>10. CoreOK(d) /\ (d = c => at[d] = "run" /\ state[current[d]] = "Running")
      BY Zenon, <1>1, <1>2
    <2>11. /\ current[d] # None => state'[current[d]] \in {"Running", "Exited"}
           /\ at[d] = "killed" => state'[current[d]] = "Exited"
           /\ at[d] = "switch" => state'[current[d]] = "Running"
      <3>1. CASE current[d] = current[c]
        <4>1. d = c
          BY Zenon, <2>9, <3>1
        <4> QED BY Zenon, <2>5, <2>10, <3>1, <4>1
      <3>2. CASE current[d] # current[c]
        <4>1. current[d] # None => state'[current[d]] = state[current[d]]
          BY Zenon, <2>4, <2>8, <3>2
        <4>2. at[d] = "killed" \/ at[d] = "switch" => current[d] # None
          BY Zenon, <2>10 DEF CoreOK
        <4> QED BY Zenon, <2>10, <4>1, <4>2 DEF CoreOK
      <3> QED BY Zenon, <3>1, <3>2
    <2>12. zombie[d] # None => state'[zombie[d]] = "Exited"
      BY Zenon, <2>4, <2>8, <2>9, <2>10 DEF CoreOK
    <2>13. idle[d] # None => state'[idle[d]] # "Exited"
      BY Zenon, <2>4, <2>8, <2>9, <2>10 DEF CoreOK
    <2>14. \A i \in DOMAIN runq[d] : state'[runq[d][i]] = "Ready" /\ (saved[runq[d][i]] \/ exec[d] = runq[d][i])
      BY Zenon, <2>2, <2>4, <2>8, <2>10 DEF CoreOK
    <2>15. CASE at'[d] = at[d]
      BY Zenon, <2>1, <2>7, <2>10, <2>11, <2>12, <2>13, <2>14, <2>15 DEF CoreOK
    <2>16. CASE d = c /\ at'[d] = "killed" /\ state'[current[c]] = "Exited" /\ c \in queued
      <3>1. /\ current[d] # None /\ exec[d] # None /\ exec[d] = current[d] /\ idle[d] # None
            /\ ~(zombie[d] # None /\ exec[d] = zombie[d])
            /\ idle[d] = current[d] \/ idle[d] \in QueuedOn(d)
        BY Zenon, <2>10, <2>16 DEF CoreOK
      <3> QED BY Zenon, <2>1, <2>7, <2>10, <2>11, <2>12, <2>13, <2>14, <2>16, <3>1 DEF CoreOK
    <2> QED BY Zenon, <2>6, <2>15, <2>16
  <1>7. Apart' /\ LatestContext'
    BY <1>1, <1>2, <1>3 DEF Apart, LatestContext, SchedTypeOK
  <1>8. Homed'
    <2>1. \A t \in Threads : state'[t] = state[t] \/ (t = current[c] /\ state'[t] = "Exited")
      BY Zenon, <1>1, <1>3 DEF SchedTypeOK
    <2>2. \A d \in Cpus : QueuedOn(d)' = QueuedOn(d)
      BY Zenon, <1>2 DEF QueuedOn
    <2>3. ASSUME NEW t \in Threads, state'[t] = state[t]
          PROVE  /\ state'[t] = "Running" => \E d \in Cpus : current'[d] = t
                 /\ state'[t] = "Ready" => \E d \in Cpus : t \in QueuedOn(d)'
                 /\ state'[t] = "Exited" => \E d \in Cpus : current'[d] = t \/ zombie'[d] = t
      BY Zenon, <1>1, <1>2, <2>2, <2>3 DEF Homed
    <2>4. ASSUME NEW t \in Threads, t = current[c], state'[t] = "Exited"
          PROVE  /\ state'[t] # "Running" /\ state'[t] # "Ready"
                 /\ \E d \in Cpus : current'[d] = t \/ zombie'[d] = t
      BY Zenon, <1>2, <2>4
    <2> QED BY Zenon, <2>1, <2>3, <2>4 DEF Homed
  <1> QED BY Zenon, <1>4, <1>5, <1>6, <1>7, <1>8 DEF SInv, CoresInv

LEMMA SpawnStep ==
  ASSUME SInv, NEW c \in Cpus, NEW d \in Cpus, SpawnOn(c, d) PROVE SInv'
  <1>1. SchedTypeOK /\ TidsInOrder /\ (\A e \in Cpus : CoreOK(e)) /\ Apart /\ Homed /\ LatestContext
    BY Zenon DEF SInv, CoresInv
  <1>2. nextTid \in Threads /\ nextTid # None /\ state[nextTid] = "Unborn"
    <2>1. Cardinality({e \in Cpus : at[e] = "off"}) \in Nat
      BY Zenon, SchedulerConstants, FS_Subset, FS_CardinalityType
    <2>2. nextTid \in 1..(MaxThreads + 1)
      BY Zenon, <1>1 DEF SchedTypeOK
    <2> QED BY <1>1, <2>1, <2>2, SchedulerConstants DEF SpawnOn, RoomForThread, TidsInOrder, Threads, None
  <1>3. \A e \in Cpus : /\ current[e] # nextTid /\ zombie[e] # nextTid
                        /\ \A i \in DOMAIN runq[e] : runq[e][i] # nextTid
    <2> TAKE e \in Cpus
    <2>1. CoreOK(e)
      BY Zenon, <1>1
    <2>2. current[e] # nextTid
      BY Zenon, <1>2, <2>1 DEF CoreOK
    <2>3. zombie[e] # nextTid
      BY Zenon, <1>2, <2>1 DEF CoreOK
    <2>4. \A i \in DOMAIN runq[e] : runq[e][i] # nextTid
      BY Zenon, <1>2, <2>1 DEF CoreOK
    <2> QED BY Zenon, <2>2, <2>3, <2>4
  <1>4. \A e \in Cpus : idle[e] # nextTid /\ exec[e] # nextTid
    <2> TAKE e \in Cpus
    <2>1. nextTid \notin QueuedOn(e) /\ nextTid # current[e] /\ nextTid # zombie[e]
      BY Zenon, <1>3 DEF QueuedOn
    <2>2. CoreOK(e) /\ at[e] \in {"off", "run", "killed", "switch", "wild"}
      BY Zenon, <1>1 DEF SchedTypeOK
    <2>3. idle[e] # nextTid
      BY Zenon, <1>2, <2>1, <2>2 DEF CoreOK
    <2>4. exec[e] # nextTid
      BY Zenon, <1>2, <2>1, <2>2 DEF CoreOK
    <2> QED BY Zenon, <2>3, <2>4
  <1>5. /\ UNCHANGED <<current, zombie, idle, exec, target, at, irqOn>>
        /\ nextTid' = nextTid + 1 /\ queued' = queued \cup {d}
        /\ state' = [state EXCEPT ![nextTid] = "Ready"]
        /\ saved' = [saved EXCEPT ![nextTid] = TRUE]
        /\ ctx' = [ctx EXCEPT ![nextTid] = "fresh"]
        /\ runq' = [runq EXCEPT ![d] = Append(runq[d], nextTid)]
    BY Zenon DEF SpawnOn
  <1> DEFINE q == Append(runq[d], nextTid)
  <1>6. /\ runq[d] \in Seq(Threads) /\ q \in Seq(Threads) /\ runq'[d] = q
        /\ \A e \in Cpus \ {d} : runq'[e] = runq[e]
    <2>1. runq[d] \in Seq(Threads) /\ runq \in [Cpus -> Seq(Threads)]
      BY Zenon, <1>1 DEF SchedTypeOK
    <2>2. q \in Seq(Threads)
      BY Zenon, <1>2, <2>1, AppendFacts
    <2> QED BY Zenon, <1>5, <2>1, <2>2
  <1>7. /\ \A i \in DOMAIN runq[d] : i \in DOMAIN q /\ q[i] = runq[d][i]
        /\ \A i \in DOMAIN q : i \in DOMAIN runq[d] \/ i = Len(runq[d]) + 1
        /\ q[Len(runq[d]) + 1] = nextTid /\ Len(runq[d]) + 1 \in DOMAIN q
    <2>1. Appended(runq[d], nextTid, q)
      BY Zenon, <1>2, <1>6, AppendIs
    <2> HIDE DEF q
    <2> QED BY Zenon, <2>1 DEF Appended
  <1> HIDE DEF q
  <1>8. \A e \in Cpus : QueuedOn(e) \subseteq QueuedOn(e)'
    <2> TAKE e \in Cpus
    <2>1. \A i \in DOMAIN runq[e] : i \in DOMAIN runq'[e] /\ runq'[e][i] = runq[e][i]
      <3>1. CASE e # d
        <4>1. runq'[e] = runq[e]
          BY Zenon, <1>6, <3>1
        <4> QED BY Zenon, <4>1
      <3>2. CASE e = d
        BY Zenon, <1>6, <1>7, <3>2
      <3> QED BY Zenon, <3>1, <3>2
    <2> QED BY Zenon, <2>1 DEF QueuedOn
  <1>9. SchedTypeOK'
    <2>1. nextTid' \in 1..(MaxThreads + 1)
      BY <1>2, <1>5, SchedulerConstants DEF Threads
    <2>2. runq' \in [Cpus -> Seq(Threads)]
      BY Zenon, <1>1, <1>5, <1>6 DEF SchedTypeOK, q
    <2>3. saved' \in [Threads -> BOOLEAN]
      BY Zenon, <1>1, <1>5 DEF SchedTypeOK
    <2> QED BY Zenon, <1>1, <1>5, <2>1, <2>2, <2>3 DEF SchedTypeOK
  <1>10. TidsInOrder'
    <2>1. \A t \in Threads : nextTid' <= t <=> (nextTid <= t /\ t # nextTid)
      <3>1. nextTid \in Int /\ \A t \in Threads : t \in Int
        BY ONLY <1>2, SchedulerConstants DEF Threads
      <3> QED BY ONLY <1>5, <3>1
    <2>2. \A t \in Threads \ {nextTid} : state'[t] = state[t]
      BY Zenon, <1>1, <1>5 DEF SchedTypeOK
    <2>3. state'[nextTid] = "Ready"
      BY Zenon, <1>1, <1>2, <1>5 DEF SchedTypeOK
    <2> QED BY Zenon, <1>1, <2>1, <2>2, <2>3 DEF TidsInOrder
  <1>11. \A t \in Threads \ {nextTid} : state'[t] = state[t] /\ saved'[t] = saved[t]
    BY Zenon, <1>1, <1>5 DEF SchedTypeOK
  <1>12. state'[nextTid] = "Ready" /\ saved'[nextTid]
    BY Zenon, <1>1, <1>2, <1>5 DEF SchedTypeOK
  <1>13. ASSUME NEW e \in Cpus PROVE CoreOK(e)'
    <2>1. /\ current[e] # None => state'[current[e]] = state[current[e]]
          /\ zombie[e] # None => state'[zombie[e]] = state[zombie[e]]
          /\ idle[e] # None => state'[idle[e]] = state[idle[e]]
      <3>1. current[e] \in Threads \cup {None} /\ zombie[e] \in Threads \cup {None} /\ idle[e] \in Threads \cup {None}
        BY Zenon, <1>1 DEF SchedTypeOK
      <3> QED BY Zenon, <1>3, <1>4, <1>11, <3>1
    <2>2. \A i \in DOMAIN runq'[e] :
             state'[runq'[e][i]] = "Ready" /\ (saved'[runq'[e][i]] \/ exec[e] = runq'[e][i])
      <3>1. \A i \in DOMAIN runq[e] : /\ runq[e][i] \in Threads \ {nextTid} /\ state[runq[e][i]] = "Ready"
                                      /\ saved[runq[e][i]] \/ exec[e] = runq[e][i]
        <4>1. \A i \in DOMAIN runq[e] : runq[e][i] \in Threads /\ runq[e][i] # nextTid
          BY Zenon, <1>1, <1>3, QueueTyped
        <4> QED BY Zenon, <1>1, <4>1 DEF CoreOK
      <3>2. ASSUME NEW i \in DOMAIN runq'[e]
            PROVE  (i \in DOMAIN runq[e] /\ runq'[e][i] = runq[e][i]) \/ runq'[e][i] = nextTid
        BY Zenon, <1>6, <1>7
      <3>3. \A i \in DOMAIN runq[e] : state'[runq[e][i]] = "Ready" /\ (saved'[runq[e][i]] \/ exec[e] = runq[e][i])
        BY Zenon, <1>11, <3>1
      <3> QED BY Zenon, <1>12, <3>2, <3>3
    <2>3. runq'[e] # <<>> => e \in queued'
      <3>1. runq[e] # <<>> => e \in queued
        BY Zenon, <1>1 DEF CoreOK
      <3>2. e = d \/ runq'[e] = runq[e]
        BY Zenon, <1>6
      <3> QED BY Zenon, <1>5, <3>1, <3>2
    <2>4. CoreOK(e) /\ QueuedOn(e) \subseteq QueuedOn(e)' /\ queued \subseteq queued'
      BY Zenon, <1>1, <1>5, <1>8
    <2>5. /\ at'[e] = at[e] /\ current'[e] = current[e] /\ zombie'[e] = zombie[e] /\ idle'[e] = idle[e]
          /\ exec'[e] = exec[e]
      BY Zenon, <1>5
    <2>6. at[e] = "killed" \/ at[e] = "switch" => current[e] # None
      BY Zenon, <2>4 DEF CoreOK
    <2>7. at[e] = "switch" => exec[e] \in {current[e], zombie[e]} \cup QueuedOn(e)'
      BY Zenon, <2>4 DEF CoreOK
    <2>8. idle[e] # None => idle[e] = current[e] \/ idle[e] \in QueuedOn(e)'
      BY Zenon, <2>4 DEF CoreOK
    <2>9. at[e] \in {"killed", "switch", "wild"} => e \in queued'
      BY Zenon, <2>4 DEF CoreOK
    <2> QED BY Zenon, <2>1, <2>2, <2>3, <2>4, <2>5, <2>6, <2>7, <2>8, <2>9 DEF CoreOK
  <1>14. Apart'
    <2>1. ASSUME NEW e \in Cpus, NEW f \in Cpus, NEW i \in DOMAIN runq'[e], NEW j \in DOMAIN runq'[f],
                 runq'[e][i] = runq'[f][j]
          PROVE  e = f /\ i = j
      <3>1. \/ i \in DOMAIN runq[e] /\ runq'[e][i] = runq[e][i]
            \/ e = d /\ i = Len(runq[d]) + 1 /\ runq'[e][i] = nextTid
        BY Zenon, <1>6, <1>7, <2>1
      <3>2. \/ j \in DOMAIN runq[f] /\ runq'[f][j] = runq[f][j]
            \/ f = d /\ j = Len(runq[d]) + 1 /\ runq'[f][j] = nextTid
        BY Zenon, <1>6, <1>7, <2>1
      <3>3. CASE i \in DOMAIN runq[e] /\ runq'[e][i] = runq[e][i] /\ j \in DOMAIN runq[f] /\ runq'[f][j] = runq[f][j]
        <4>1. runq[e][i] = runq[f][j]
          BY Zenon, <2>1, <3>3
        <4>2. \A k \in DOMAIN runq[e], l \in DOMAIN runq[f] : runq[e][k] = runq[f][l] => e = f /\ k = l
          BY Zenon, <1>1 DEF Apart
        <4>3. i \in DOMAIN runq[e] /\ j \in DOMAIN runq[f]
          BY Zenon, <3>3
        <4> HIDE <2>1, <3>3
        <4> QED BY Zenon, <4>1, <4>2, <4>3
      <3>4. CASE runq'[e][i] = nextTid
        <4>1. ~(j \in DOMAIN runq[f] /\ runq'[f][j] = runq[f][j])
          BY Zenon, <1>3, <2>1, <3>4
        <4>2. ~(i \in DOMAIN runq[e] /\ runq'[e][i] = runq[e][i])
          BY Zenon, <1>3, <3>4
        <4> QED BY Zenon, <3>1, <3>2, <4>1, <4>2
      <3>5. CASE runq'[f][j] = nextTid
        BY Zenon, <2>1, <3>4, <3>5
      <3> QED BY Zenon, <3>1, <3>2, <3>3, <3>4, <3>5
    <2>2. Apart /\ current' = current /\ zombie' = zombie
      BY Zenon, <1>1, <1>5
    <2>3. \A e, f \in Cpus : \A i \in DOMAIN runq'[e], j \in DOMAIN runq'[f] : runq'[e][i] = runq'[f][j] => e = f /\ i = j
      BY Zenon, <2>1
    <2> QED BY Zenon, <2>2, <2>3, ApartKept
  <1>15. Homed'
    <2>1. nextTid \in QueuedOn(d)'
      BY Zenon, <1>6, <1>7 DEF QueuedOn
    <2>2. current' = current /\ zombie' = zombie
      BY Zenon, <1>5
    <2>3. ASSUME NEW t \in Threads, t # nextTid
          PROVE  /\ state'[t] = "Running" => \E e \in Cpus : current'[e] = t
                 /\ state'[t] = "Ready" => \E e \in Cpus : t \in QueuedOn(e)'
                 /\ state'[t] = "Exited" => \E e \in Cpus : current'[e] = t \/ zombie'[e] = t
      <3>1. state'[t] = state[t]
        BY Zenon, <1>11, <2>3
      <3>2. state[t] = "Ready" => \E e \in Cpus : t \in QueuedOn(e)'
        BY Zenon, <1>1, <1>8 DEF Homed
      <3> QED BY Zenon, <1>1, <2>2, <3>1, <3>2 DEF Homed
    <2> QED BY Zenon, <1>12, <2>1, <2>3 DEF Homed
  <1>16. LatestContext'
    BY Zenon, <1>1, <1>5 DEF LatestContext
  <1> QED BY Zenon, <1>9, <1>10, <1>13, <1>14, <1>15, <1>16 DEF SInv, CoresInv

(* switch_to: the outgoing context becomes the latest of its thread.       *)
LEMMA SwitchStep ==
  ASSUME SInv, NEW c \in Cpus, SwitchTo(c) PROVE SInv'
  <1>1. SchedTypeOK /\ TidsInOrder /\ (\A d \in Cpus : CoreOK(d)) /\ Apart /\ Homed /\ LatestContext
    BY Zenon DEF SInv, CoresInv
  <1>2. /\ UNCHANGED <<nextTid, state, queued, runq, current, zombie, idle>>
        /\ at[c] = "switch" /\ at' = [at EXCEPT ![c] = "run"]
        /\ exec' = [exec EXCEPT ![c] = current[c]]
        /\ saved' = [[saved EXCEPT ![exec[c]] = TRUE] EXCEPT ![current[c]] = FALSE]
        /\ ctx' = [ctx EXCEPT ![current[c]] = "none"]
        /\ target' = [target EXCEPT ![c] = FALSE]
        /\ irqOn' = [irqOn EXCEPT ![c] = ctx[current[c]] # "yield"]
    BY Zenon DEF SwitchTo
  <1>3. current[c] \in Threads /\ state[current[c]] = "Running" /\ current[c] # None
    <2>1. current[c] # None /\ state[current[c]] = "Running"
      BY Zenon, <1>1, <1>2 DEF CoreOK
    <2> QED BY Zenon, <1>1, <2>1 DEF SchedTypeOK
  <1>4. \A t \in Threads \ {current[c]} : saved[t] \/ t = exec[c] => saved'[t]
    BY Zenon, <1>1, <1>2 DEF SchedTypeOK
  <1>5. SchedTypeOK'
    <2>1. saved' \in [Threads -> BOOLEAN] /\ target' \in [Cpus -> BOOLEAN]
      BY Zenon, <1>1, <1>2 DEF SchedTypeOK
    <2>2. irqOn' \in [Cpus -> BOOLEAN]
      <3>1. (ctx[current[c]] # "yield") \in BOOLEAN
        BY ZenonT(40)
      <3> QED BY Zenon, <1>1, <1>2, <3>1 DEF SchedTypeOK
    <2> QED BY Zenon, <1>1, <1>2, <1>3, <2>1, <2>2 DEF SchedTypeOK
  <1>6. ASSUME NEW d \in Cpus PROVE CoreOK(d)'
    <2>1. /\ UNCHANGED <<state, queued, runq, current, zombie, idle>>
          /\ QueuedOn(d)' = QueuedOn(d) /\ CoreOK(d)
      BY Zenon, <1>1, <1>2 DEF QueuedOn
    <2>2. \A i \in DOMAIN runq[d] : runq[d][i] # current[c] /\ runq[d][i] \in Threads
      <3>1. \A i \in DOMAIN runq[d] : runq[d][i] \in Threads
        BY Zenon, <1>1, QueueTyped
      <3>2. \A i \in DOMAIN runq[d] : state[runq[d][i]] = "Ready"
        BY Zenon, <2>1 DEF CoreOK
      <3> QED BY Zenon, <1>3, <3>1, <3>2
    <2>3. CASE d = c
      <3>1. at'[c] = "run" /\ exec'[c] = current[c]
        BY Zenon, <1>1, <1>2 DEF SchedTypeOK
      <3>2. \A i \in DOMAIN runq[c] : saved'[runq[c][i]]
        <4>1. \A i \in DOMAIN runq[c] : saved[runq[c][i]] \/ exec[c] = runq[c][i]
          BY Zenon, <1>1 DEF CoreOK
        <4> QED BY Zenon, <1>4, <2>2, <2>3, <4>1
      <3>3. zombie[c] # current[c]
        BY Zenon, <1>1, <1>3 DEF Apart
      <3> QED BY Zenon, <1>3, <2>1, <2>3, <3>1, <3>2, <3>3 DEF CoreOK
    <2>4. CASE d # c
      <3>1. at'[d] = at[d] /\ exec'[d] = exec[d]
        BY Zenon, <1>1, <1>2, <2>4 DEF SchedTypeOK
      <3>2. \A i \in DOMAIN runq[d] : saved'[runq[d][i]] \/ exec[d] = runq[d][i]
        <4>1. \A i \in DOMAIN runq[d] : saved[runq[d][i]] \/ exec[d] = runq[d][i]
          BY Zenon, <2>1 DEF CoreOK
        <4> QED BY Zenon, <1>4, <2>2, <4>1
      <3> QED BY Zenon, <2>1, <3>1, <3>2 DEF CoreOK
    <2> QED BY Zenon, <2>3, <2>4
  <1>7. Apart' /\ LatestContext'
    <2>1. \A d \in Cpus : at'[d] = "switch" => d # c /\ at[d] = "switch" /\ exec'[d] = exec[d] /\ target'[d] = target[d]
      BY Zenon, <1>1, <1>2 DEF SchedTypeOK
    <2>2. LatestContext'
      BY Zenon, <1>1, <1>2, <2>1 DEF LatestContext
    <2>3. Apart'
      BY Zenon, <1>1, <1>2, PlacesKept
    <2> QED BY Zenon, <2>2, <2>3
  <1>8. Homed'
    BY Zenon, <1>1, <1>2, PlacesKept
  <1>9. TidsInOrder'
    BY Zenon, <1>1, <1>2 DEF TidsInOrder
  <1> QED BY Zenon, <1>5, <1>6, <1>7, <1>8, <1>9 DEF SInv, CoresInv

(* A switch to a stale context is a switch to the core's own thread.       *)
LEMMA WildStep ==
  ASSUME SInv, NEW c \in Cpus, SwitchWild(c) PROVE SInv'
  <1>1. SchedTypeOK /\ TidsInOrder /\ (\A d \in Cpus : CoreOK(d)) /\ Apart /\ Homed /\ LatestContext
    BY Zenon DEF SInv, CoresInv
  <1>2. /\ UNCHANGED <<nextTid, state, saved, ctx, queued, runq, current, zombie, idle, target, irqOn>>
        /\ at[c] = "switch" /\ at' = [at EXCEPT ![c] = "wild"] /\ ~target[c]
        /\ exec' = [exec EXCEPT ![c] = None]
    BY Zenon DEF SwitchWild, threadVars
  <1>3. exec[c] = current[c] /\ current[c] # None
    BY Zenon, <1>1, <1>2 DEF LatestContext, CoreOK
  <1>4. SchedTypeOK'
    BY Zenon, <1>1, <1>2 DEF SchedTypeOK
  <1>5. ASSUME NEW d \in Cpus PROVE CoreOK(d)'
    <2>1. QueuedOn(d)' = QueuedOn(d)
      BY Zenon, <1>2 DEF QueuedOn
    <2>2. CASE d = c
      <3>1. at'[c] = "wild" /\ exec'[c] = None
        BY Zenon, <1>1, <1>2 DEF SchedTypeOK
      <3>2. \A i \in DOMAIN runq[c] : saved[runq[c][i]]
        <4>1. \A i \in DOMAIN runq[c] : state[runq[c][i]] = "Ready" /\ (saved[runq[c][i]] \/ exec[c] = runq[c][i])
          BY Zenon, <1>1 DEF CoreOK
        <4>2. state[current[c]] = "Running"
          BY Zenon, <1>1, <1>2 DEF CoreOK
        <4> QED BY Zenon, <1>3, <4>1, <4>2
      <3>3. /\ CoreOK(c) /\ at[c] = "switch" /\ QueuedOn(c)' = QueuedOn(c)
            /\ UNCHANGED <<state, saved, queued, runq, current, zombie, idle>>
        BY Zenon, <1>1, <1>2, <2>1, <2>2
      <3>4. zombie[c] # None => zombie[c] # exec'[c]
        BY Zenon, <3>1
      <3> QED BY Zenon, <1>3, <2>2, <3>1, <3>2, <3>3, <3>4 DEF CoreOK
    <2>3. CASE d # c
      <3>1. at'[d] = at[d] /\ exec'[d] = exec[d]
        BY Zenon, <1>1, <1>2, <2>3 DEF SchedTypeOK
      <3>2. CoreOK(d) /\ UNCHANGED <<state, saved, queued, runq, current, zombie, idle>>
        BY Zenon, <1>1, <1>2
      <3> QED BY Zenon, <2>1, <3>1, <3>2 DEF CoreOK
    <2> QED BY Zenon, <2>2, <2>3
  <1>6. Apart' /\ LatestContext'
    <2>1. Apart'
      BY Zenon, <1>1, <1>2, PlacesKept
    <2>2. \A d \in Cpus : at'[d] = at[d] \/ at'[d] = "wild"
      BY Zenon, <1>1, <1>2 DEF SchedTypeOK
    <2>3. \A d \in Cpus : at'[d] = "switch" => d # c /\ exec'[d] = exec[d]
      BY Zenon, <1>1, <1>2 DEF SchedTypeOK
    <2>4. current' = current /\ target' = target
      BY Zenon, <1>2
    <2>5. LatestContext'
      BY Zenon, <1>1, <2>2, <2>3, <2>4 DEF LatestContext
    <2> QED BY Zenon, <2>1, <2>5
  <1>7. Homed'
    BY Zenon, <1>1, <1>2, PlacesKept
  <1>8. TidsInOrder'
    BY Zenon, <1>1, <1>2 DEF TidsInOrder
  <1> QED BY Zenon, <1>4, <1>5, <1>6, <1>7, <1>8 DEF SInv, CoresInv

LEMMA SchedStep == SInv /\ [SchedNext]_schedVars => SInv'
  <1> SUFFICES ASSUME SInv, [SchedNext]_schedVars PROVE SInv'
    BY Zenon
  <1>1. ASSUME UNCHANGED schedVars PROVE SInv'
    <2>1. UNCHANGED <<nextTid, state, saved, ctx, queued, runq, current, zombie, idle, exec, target, at, irqOn>>
      BY Zenon, <1>1 DEF schedVars, threadVars, coreVars
    <2>2. SchedTypeOK' /\ TidsInOrder'
      BY Zenon, <2>1 DEF SInv, CoresInv, SchedTypeOK, TidsInOrder
    <2>3. \A c \in Cpus : CoreOK(c)'
      <3> SUFFICES ASSUME NEW c \in Cpus PROVE CoreOK(c)'
        BY Zenon
      <3>1. CoreOK(c)
        BY Zenon DEF SInv, CoresInv
      <3> QED BY Zenon, <2>1, <3>1 DEF CoreOK, QueuedOn
    <2>4. Apart' /\ Homed' /\ LatestContext'
      <3>1. Apart /\ Homed /\ LatestContext
        BY Zenon DEF SInv
      <3>2. Apart' /\ Homed'
        BY Zenon, <2>1, <3>1, PlacesKept
      <3>3. LatestContext'
        BY Zenon, <2>1, <3>1 DEF LatestContext
      <3> QED BY Zenon, <3>2, <3>3
    <2> QED BY Zenon, <2>2, <2>3, <2>4 DEF SInv, CoresInv
  <1>2. ASSUME NEW c \in Cpus, InitCore(c) PROVE SInv'
    BY Zenon, <1>2, InitCoreStep
  <1>3. ASSUME NEW c \in Cpus, NEW d \in Cpus, SpawnOn(c, d) PROVE SInv'
    BY Zenon, <1>3, SpawnStep
  <1>4. ASSUME NEW c \in Cpus, Tick(c) \/ Yield(c) \/ ScheduleKilled(c) PROVE SInv'
    BY Zenon, <1>4, ScheduleStep DEF Tick, Yield, ScheduleKilled, Runs
  <1>5. ASSUME NEW c \in Cpus, Kill(c) \/ Exit(c) \/ EnterUser(c) PROVE SInv'
    BY Zenon, <1>5, MarkStep
  <1>6. ASSUME NEW c \in Cpus, SwitchTo(c) \/ SwitchWild(c) PROVE SInv'
    BY Zenon, <1>6, SwitchStep, WildStep
  <1> QED BY Zenon, <1>1, <1>2, <1>3, <1>4, <1>5, <1>6 DEF SchedNext, TickEarly

LEMMA SInvAlways == SchedSpec => []SInv
  BY SchedInitOK, SchedStep, PTL DEF SchedSpec

(* For any number of cores and threads, no interleaving of spawns, ticks,  *)
(* yields, kills, exits and context switches loses or duplicates a thread. *)
THEOREM ThreadsConservedAlways == SchedSpec => []ThreadsConserved
  BY SInvAlways, SInvConserves, PTL

(* For any number of cores and threads, no stack is executed on by two     *)
(* cores or after it was freed, and a switch to another thread starts from *)
(* that thread's latest context.                                           *)
THEOREM StacksSafeAlways == SchedSpec => []StacksSafe
  BY SInvAlways, SInvStacks, PTL
-----------------------------------------------------------------------------
(* The kernel lock. *)

USE CpusAreIndices, FramesPositive, SpanAboveOne

LEMMA BumpInRange == \A n \in Nat : Bump(n) \in 0..(CounterSpan - 1)
  BY DEF Bump

(* A core index is never the "unlocked" mark -1 of KERNEL_LOCK_OWNER.      *)
LEMMA NoOwnerIsNoCore == \A c \in CPUS : c # NoOwner
  BY DEF NoOwner

(* Nothing is held at boot.                                                *)
LEMMA LockInit == Init => LockInv
  <1> SUFFICES ASSUME Init PROVE LockInv
    BY Zenon
  <1>1. TypeOK
    BY DEF Init, TypeOK, Labels
  <1>2. \A c \in CPUS : FrameInv(c) /\ MaskInv(c)
    BY NoOwnerIsNoCore DEF Init, FrameInv, MaskInv
  <1> QED BY Zenon, <1>1, <1>2 DEF Init, LockInv

(* Every step of acquire(), release(), the interrupt masking around them   *)
(* and the handlers keeps the frame and mask relations of every core.      *)
LEMMA LockStep == LockInv /\ [Next]_vars => LockInv'
  <1> SUFFICES ASSUME LockInv, [Next]_vars PROVE LockInv'
    BY Zenon
  <1> USE DEF LockInv
  <1> DEFINE Keeps == LockInv'
  <1>1. ASSUME NEW c \in CPUS, EnterSection(c) PROVE Keeps
    <2>1. TypeOK'
      BY SMTT(40), <1>1 DEF EnterSection, TypeOK, Labels, counters
    <2>2. \A d \in CPUS : FrameInv(d)'
      BY <1>1 DEF EnterSection, TypeOK, FrameInv, counters
    <2>3. \A d \in CPUS : MaskInv(d)'
      BY <1>1 DEF EnterSection, TypeOK, MaskInv, FrameInv, counters
    <2> QED BY Zenon, <1>1, <2>1, <2>2, <2>3 DEF EnterSection, counters
  <1>2. ASSUME NEW c \in CPUS, AcquireNested(c) PROVE Keeps
    <2>1. TypeOK'
      BY <1>2 DEF AcquireNested, TypeOK, Labels, FrameInv, counters
    <2>2. \A d \in CPUS : FrameInv(d)'
      BY <1>2 DEF AcquireNested, TypeOK, FrameInv, counters
    <2>3. \A d \in CPUS : MaskInv(d)'
      BY Zenon, <1>2 DEF AcquireNested, TypeOK, MaskInv, counters
    <2> QED BY Zenon, <1>2, <2>1, <2>2, <2>3 DEF AcquireNested, counters
  <1>3. ASSUME NEW c \in CPUS, AcquireCas(c) PROVE Keeps
    <2>1. TypeOK'
      BY Zenon, <1>3 DEF AcquireCas, TypeOK, Labels, counters
    <2>2. \A d \in CPUS : FrameInv(d)'
      BY <1>3, NoOwnerIsNoCore DEF AcquireCas, TypeOK, FrameInv, counters
    <2>3. \A d \in CPUS : MaskInv(d)'
      BY <1>3 DEF AcquireCas, TypeOK, MaskInv, counters
    <2> QED BY Zenon, <1>3, <2>1, <2>2, <2>3 DEF AcquireCas, counters
  <1>4. ASSUME NEW c \in CPUS, AcquireDone(c) PROVE Keeps
    <2>0. acquires' \in 0..(CounterSpan - 1)
      <3>1. acquires \in Nat
        BY DEF TypeOK
      <3> QED BY Zenon, <1>4, <3>1, BumpInRange DEF AcquireDone
    <2>1. TypeOK'
      BY SMTT(40), <1>4, <2>0 DEF AcquireDone, TypeOK, Labels, counters
    <2>2. \A d \in CPUS : FrameInv(d)'
      BY <1>4 DEF AcquireDone, TypeOK, FrameInv, counters
    <2>3. \A d \in CPUS : MaskInv(d)'
      BY Zenon, <1>4 DEF AcquireDone, TypeOK, MaskInv, counters
    <2> QED BY Zenon, <1>4, <2>1, <2>2, <2>3 DEF AcquireDone, counters
  <1>5. ASSUME NEW c \in CPUS, LeaveSection(c) PROVE Keeps
    <2>1. TypeOK'
      BY Zenon, <1>5 DEF LeaveSection, TypeOK, Labels, counters
    <2>2. \A d \in CPUS : FrameInv(d)'
      BY Zenon, <1>5 DEF LeaveSection, TypeOK, FrameInv, counters
    <2>3. \A d \in CPUS : MaskInv(d)'
      BY <1>5 DEF LeaveSection, TypeOK, MaskInv, counters
    <2> QED BY Zenon, <1>5, <2>1, <2>2, <2>3 DEF LeaveSection, counters
  <1>6. ASSUME NEW c \in CPUS, ReleaseInner(c) PROVE Keeps
    <2>0. depth[c] > 1 /\ unbalanced' = unbalanced
      BY <1>6 DEF ReleaseInner, TypeOK, FrameInv
    <2>1. TypeOK'
      BY SMTT(40), <1>6, <2>0 DEF ReleaseInner, TypeOK, Labels
    <2>2. \A d \in CPUS : FrameInv(d)'
      BY <1>6, <2>0 DEF ReleaseInner, TypeOK, FrameInv
    <2>3. \A d \in CPUS : MaskInv(d)'
      BY Zenon, <1>6 DEF ReleaseInner, TypeOK, MaskInv
    <2> QED BY Zenon, <2>0, <2>1, <2>2, <2>3
  <1>7. ASSUME NEW c \in CPUS, ReleaseOuter(c) PROVE Keeps
    <2>1. TypeOK'
      BY <1>7 DEF ReleaseOuter, TypeOK, Labels, counters
    <2>2. \A d \in CPUS : FrameInv(d)'
      BY Zenon, <1>7 DEF ReleaseOuter, TypeOK, FrameInv, counters
    <2>3. \A d \in CPUS : MaskInv(d)'
      BY <1>7 DEF ReleaseOuter, TypeOK, MaskInv, counters
    <2> QED BY Zenon, <1>7, <2>1, <2>2, <2>3 DEF ReleaseOuter, counters
  <1>8. ASSUME NEW c \in CPUS, ReleaseOwner(c) PROVE Keeps
    <2>1. TypeOK'
      BY Zenon, <1>8 DEF ReleaseOwner, TypeOK, Labels, counters
    <2>2. \A d \in CPUS : FrameInv(d)'
      BY <1>8, NoOwnerIsNoCore DEF ReleaseOwner, TypeOK, FrameInv, counters
    <2>3. \A d \in CPUS : MaskInv(d)'
      BY Zenon, <1>8 DEF ReleaseOwner, TypeOK, MaskInv, counters
    <2> QED BY Zenon, <1>8, <2>1, <2>2, <2>3 DEF ReleaseOwner, counters
  <1>9. ASSUME NEW c \in CPUS, ReleaseCount(c) PROVE Keeps
    <2>0. releases' \in 0..(CounterSpan - 1)
      <3>1. releases \in Nat
        BY DEF TypeOK
      <3> QED BY Zenon, <1>9, <3>1, BumpInRange DEF ReleaseCount
    <2>1. TypeOK'
      BY Zenon, <1>9, <2>0 DEF ReleaseCount, TypeOK, Labels
    <2>2. \A d \in CPUS : FrameInv(d)'
      BY <1>9 DEF ReleaseCount, TypeOK, FrameInv
    <2>3. \A d \in CPUS : MaskInv(d)'
      BY Zenon, <1>9 DEF ReleaseCount, TypeOK, MaskInv
    <2> QED BY Zenon, <1>9, <2>1, <2>2, <2>3 DEF ReleaseCount
  <1>10. ASSUME NEW c \in CPUS, RestoreFlags(c) PROVE Keeps
    <2>0. frames[c] \in 1..MaxFrames
      BY <1>10 DEF RestoreFlags, TypeOK, FrameInv
    <2>1. TypeOK'
      BY SMTT(40), <1>10, <2>0 DEF RestoreFlags, TypeOK, Labels, counters
    <2>2. \A d \in CPUS : FrameInv(d)'
      BY Zenon, <1>10, <2>0 DEF RestoreFlags, TypeOK, FrameInv, counters
    <2>3. ASSUME NEW d \in CPUS PROVE MaskInv(d)'
      <3>1. CASE d = c
        <4>1. iflag[c] = FALSE /\ frames'[c] = frames[c] - 1 /\ isr' = isr
          BY Zenon, <1>10 DEF RestoreFlags, TypeOK, MaskInv
        <4>2. iflag'[c] => frames[c] = 1 /\ isr[c] = NotInIsr
          BY SMTT(40), <1>10, <2>0, <4>1 DEF RestoreFlags, TypeOK, MaskInv
        <4> QED BY <1>10, <2>0, <3>1, <4>1, <4>2 DEF RestoreFlags, TypeOK, MaskInv
      <3>2. CASE d # c
        BY <1>10, <3>2 DEF RestoreFlags, TypeOK, MaskInv
      <3> QED BY Zenon, <3>1, <3>2
    <2> QED BY Zenon, <1>10, <2>1, <2>2, <2>3 DEF RestoreFlags, counters
  <1>11. ASSUME NEW c \in CPUS, Interrupt(c) PROVE Keeps
    <2>0. pc[c] = "run" /\ frames[c] = 0
      BY Zenon, <1>11 DEF Interrupt, MaskInv
    <2>1. TypeOK'
      BY Zenon, <1>11, <2>0 DEF Interrupt, TypeOK, Labels, counters
    <2>2. \A d \in CPUS : FrameInv(d)'
      BY Zenon, <1>11, <2>0 DEF Interrupt, TypeOK, FrameInv, counters
    <2>3. \A d \in CPUS : MaskInv(d)'
      BY <1>11, <2>0 DEF Interrupt, TypeOK, MaskInv, NotInIsr, counters
    <2> QED BY Zenon, <1>11, <2>1, <2>2, <2>3 DEF Interrupt, counters
  <1>12. ASSUME NEW c \in CPUS, Iret(c) PROVE Keeps
    <2>a. isr[c] = <<"run", 0>> /\ frames[c] = isr[c][2]
      BY Zenon, <1>12 DEF Iret, MaskInv
    <2>0. isr[c][1] = "run" /\ frames[c] = 0
      <3> HIDE DEF LockInv
      <3> QED BY <2>a
    <2>1. TypeOK'
      BY Zenon, <1>12, <2>0 DEF Iret, TypeOK, Labels, counters
    <2>2. \A d \in CPUS : FrameInv(d)'
      BY <1>12, <2>0 DEF Iret, TypeOK, FrameInv, counters
    <2>3. \A d \in CPUS : MaskInv(d)'
      BY <1>12, <2>0 DEF Iret, TypeOK, MaskInv, counters
    <2> QED BY Zenon, <1>12, <2>1, <2>2, <2>3 DEF Iret, counters
  <1>13. CASE UNCHANGED vars
    BY <1>13 DEF vars, counters, TypeOK, FrameInv, MaskInv
  <1> QED
    BY Zenon, <1>1, <1>2, <1>3, <1>4, <1>5, <1>6, <1>7, <1>8, <1>9, <1>10, <1>11,
       <1>12, <1>13 DEF Next, Acquire, Release

(* The frame and mask relations hold in every reachable state.             *)
THEOREM LockInvariant == Spec => []LockInv
  BY LockInit, LockStep, PTL DEF Spec

LEMMA LockInvImplies ==
  LockInv => MutualExclusion /\ DepthCountsFrames /\ OwnerRunsMasked
  <1> SUFFICES ASSUME LockInv
               PROVE  MutualExclusion /\ DepthCountsFrames /\ OwnerRunsMasked
    BY Zenon
  <1> USE DEF LockInv, FrameInv
  <1>1. MutualExclusion
    BY Zenon DEF MutualExclusion, Holding
  <1>2. DepthCountsFrames
    BY Zenon DEF DepthCountsFrames
  <1>3. OwnerRunsMasked
    BY DEF OwnerRunsMasked, MaskInv, TypeOK
  <1> QED BY Zenon, <1>1, <1>2, <1>3

(* critical.rs excludes every other core: for any number of cores, at most *)
(* one is inside a without_interrupts closure.                             *)
THEOREM LockMutualExclusion == Spec => []MutualExclusion
  BY LockInvariant, LockInvImplies, PTL

(* PER_CPU_DEPTH counts the open frames and release() is never unbalanced. *)
THEOREM LockDepthCountsFrames == Spec => []DepthCountsFrames
  BY LockInvariant, LockInvImplies, PTL

(* A core never takes an interrupt while it owns the lock word.            *)
THEOREM LockOwnerRunsMasked == Spec => []OwnerRunsMasked
  BY LockInvariant, LockInvImplies, PTL

(* The lock implements the critical section the rest of the kernel relies  *)
(* on: each step of the lock enters, leaves, or does not change who is     *)
(* inside.                                                                 *)
THEOREM LockImplementsCriticalSection == Spec => ImplementsCriticalSection
  <1> DEFINE In == {c \in CPUS : Holding(c)}
  <1>1. Init => CS!Init
    BY DEF Init, CS!Init, Holding
  <1>2. LockInv /\ LockInv' /\ [Next]_vars => [CS!Next]_In
    <2> SUFFICES ASSUME LockInv, LockInv', [Next]_vars PROVE [CS!Next]_In
      BY Zenon
    <2>1. ASSUME NEW c \in CPUS, AcquireDone(c) PROVE CS!Next
      <3>1. owner = c /\ \A d \in CPUS : ~Holding(d)
        BY <2>1 DEF LockInv, FrameInv, TypeOK, AcquireDone, Holding
      <3>2. \A d \in CPUS : Holding(d)' <=> d = c
        BY Zenon, <2>1, <3>1 DEF LockInv, FrameInv, TypeOK, AcquireDone, Holding
      <3>3. In = {}
        BY Zenon, <3>1
      <3>4. In' = {c}
        BY Zenon, <3>2
      <3> QED BY Zenon, <3>3, <3>4 DEF CS!Next, CS!Enter
    <2>2. ASSUME NEW c \in CPUS, ReleaseOuter(c) PROVE CS!Next
      <3>1. \A d \in CPUS : Holding(d) <=> d = c
        BY <2>2 DEF LockInv, FrameInv, TypeOK, ReleaseOuter, Holding
      <3>2. \A d \in CPUS : ~Holding(d)'
        BY <2>2, <3>1 DEF LockInv, FrameInv, TypeOK, ReleaseOuter, Holding
      <3>3. In = {c} /\ In' = {}
        BY Zenon, <3>1, <3>2
      <3> QED BY Zenon, <3>3 DEF CS!Next, CS!Leave
    <2>3. ASSUME NEW c \in CPUS, AcquireNested(c) \/ ReleaseInner(c) PROVE In' = In
      <3>1. \A d \in CPUS : Holding(d)' <=> Holding(d)
        BY SMTT(40), <2>3 DEF LockInv, FrameInv, TypeOK, AcquireNested, ReleaseInner, Holding
      <3> QED BY Zenon, <3>1
    <2>4. ASSUME depth' = depth PROVE In' = In
      BY Zenon, <2>4 DEF Holding
    <2>5. CASE UNCHANGED vars
      BY Zenon, <2>4, <2>5 DEF vars
    <2>6. ASSUME NEW c \in CPUS,
                 \/ EnterSection(c) \/ AcquireCas(c) \/ LeaveSection(c) \/ ReleaseOwner(c)
                 \/ ReleaseCount(c) \/ RestoreFlags(c) \/ Interrupt(c) \/ Iret(c)
          PROVE In' = In
      BY Zenon, <2>4, <2>6 DEF EnterSection, AcquireCas, LeaveSection, ReleaseOwner,
                        ReleaseCount, RestoreFlags, Interrupt, Iret
    <2> QED BY Zenon, <2>1, <2>2, <2>3, <2>5, <2>6 DEF Next, Acquire, Release
  <1> QED BY <1>1, <1>2, LockInvariant, PTL DEF Spec, CS!Spec, ImplementsCriticalSection
-----------------------------------------------------------------------------
(***************************************************************************)
(* The diagnostic counters.  Their difference is kept as one of two exact  *)
(* values, before and after the wrap; the remainder follows.               *)
(***************************************************************************)
Balanced(n) == acquires - releases \in {n, n - CounterSpan}

CounterInv == Balanced(Cardinality(CountedIn))

(* A counter of 64 bits steps to the next number or back to zero.          *)
LEMMA BumpSteps ==
  \A n \in 0..(CounterSpan - 1) :
     Bump(n) = IF n = CounterSpan - 1 THEN 0 ELSE n + 1
  BY SMT DEF Bump

(* However many cores are counted in, they are fewer than a counter holds. *)
LEMMA CountedInBounded ==
  /\ IsFiniteSet(CountedIn)
  /\ Cardinality(CountedIn) \in 0..(CounterSpan - 1)
  <1>1. CountedIn \in SUBSET CPUS
    BY Zenon DEF CountedIn
  <1>2. IsFiniteSet(CountedIn) /\ Cardinality(CountedIn) <= Cardinality(CPUS)
    BY Zenon, <1>1, CoresCountable, FS_Subset
  <1>3. Cardinality(CountedIn) \in Nat /\ Cardinality(CPUS) \in Nat
    BY Zenon, <1>2, CoresCountable, FS_CardinalityType
  <1> QED BY <1>2, <1>3, CoresCountable

LEMMA CountedInBoundedNext ==
  /\ IsFiniteSet(CountedIn')
  /\ Cardinality(CountedIn)' \in 0..(CounterSpan - 1)
  <1>1. CountedIn' \in SUBSET CPUS
    BY Zenon DEF CountedIn
  <1>2. IsFiniteSet(CountedIn') /\ Cardinality(CountedIn') <= Cardinality(CPUS)
    BY Zenon, <1>1, CoresCountable, FS_Subset
  <1>3. Cardinality(CountedIn') \in Nat /\ Cardinality(CPUS) \in Nat
    BY Zenon, <1>2, CoresCountable, FS_CardinalityType
  <1> QED BY <1>2, <1>3, CoresCountable

(* acquire() and release() count a core in and out in the step that moves  *)
(* it into or out of CountedIn; no other step moves one.                   *)
LEMMA CounterStep == LockInv /\ CounterInv /\ [Next]_vars => CounterInv'
  <1> SUFFICES ASSUME LockInv, CounterInv, [Next]_vars PROVE CounterInv'
    BY Zenon
  <1> USE DEF LockInv
  <1>t. acquires \in 0..(CounterSpan - 1) /\ releases \in 0..(CounterSpan - 1)
    BY Zenon DEF TypeOK
  <1>1. ASSUME NEW c \in CPUS, AcquireDone(c) PROVE CounterInv'
    <2>1. \A d \in CPUS : (depth'[d] > 0 \/ pc'[d] \in {"drop", "count"})
                          <=> (d = c \/ depth[d] > 0 \/ pc[d] \in {"drop", "count"})
      BY <1>1 DEF AcquireDone, TypeOK, FrameInv
    <2>2. ~(depth[c] > 0 \/ pc[c] \in {"drop", "count"})
      BY <1>1 DEF AcquireDone, TypeOK, FrameInv
    <2>3. CountedIn' = CountedIn \cup {c} /\ c \notin CountedIn
      BY Zenon, <2>1, <2>2 DEF CountedIn
    <2>4. Cardinality(CountedIn') = Cardinality(CountedIn) + 1
      BY Zenon, <2>3, CountedInBounded, FS_AddElement
    <2>5. acquires' = IF acquires = CounterSpan - 1 THEN 0 ELSE acquires + 1
      BY Zenon, <1>1, <1>t, BumpSteps DEF AcquireDone
    <2>6. releases' = releases
      BY Zenon, <1>1 DEF AcquireDone
    <2> HIDE DEF LockInv
    <2> QED BY <1>t, <2>4, <2>5, <2>6, CountedInBounded, CountedInBoundedNext
            DEF CounterInv, Balanced
  <1>2. ASSUME NEW c \in CPUS, ReleaseCount(c) PROVE CounterInv'
    <2>1. \A d \in CPUS : (depth'[d] > 0 \/ pc'[d] \in {"drop", "count"})
                          <=> (d # c /\ (depth[d] > 0 \/ pc[d] \in {"drop", "count"}))
      BY <1>2 DEF ReleaseCount, TypeOK, FrameInv
    <2>2. c \in CountedIn
      BY Zenon, <1>2 DEF ReleaseCount, CountedIn
    <2>3. CountedIn' = CountedIn \ {c}
      BY Zenon, <2>1 DEF CountedIn
    <2>4. Cardinality(CountedIn') = Cardinality(CountedIn) - 1
      BY Zenon, <2>2, <2>3, CountedInBounded, FS_RemoveElement
    <2>5. releases' = IF releases = CounterSpan - 1 THEN 0 ELSE releases + 1
      BY Zenon, <1>2, <1>t, BumpSteps DEF ReleaseCount
    <2>6. acquires' = acquires
      BY Zenon, <1>2 DEF ReleaseCount
    <2> HIDE DEF LockInv
    <2> QED BY <1>t, <2>4, <2>5, <2>6, CountedInBounded, CountedInBoundedNext
            DEF CounterInv, Balanced
  <1>3. ASSUME acquires' = acquires, releases' = releases,
               \A d \in CPUS : (depth'[d] > 0 \/ pc'[d] \in {"drop", "count"})
                            <=> (depth[d] > 0 \/ pc[d] \in {"drop", "count"})
        PROVE  CounterInv'
    <2>1. CountedIn' = CountedIn
      BY Zenon, <1>3 DEF CountedIn
    <2> QED BY Zenon, <1>3, <2>1 DEF CounterInv, Balanced
  <1>4. ASSUME NEW c \in CPUS, EnterSection(c) \/ AcquireNested(c) \/ AcquireCas(c)
        PROVE  CounterInv'
    BY <1>3, <1>4 DEF EnterSection, AcquireNested, AcquireCas, TypeOK, FrameInv, counters
  <1>5. ASSUME NEW c \in CPUS, LeaveSection(c) \/ ReleaseInner(c) \/ ReleaseOuter(c) \/ ReleaseOwner(c)
        PROVE  CounterInv'
    BY <1>3, <1>5 DEF LeaveSection, ReleaseInner, ReleaseOuter, ReleaseOwner, TypeOK, FrameInv, counters
  <1>6. ASSUME NEW c \in CPUS, RestoreFlags(c) PROVE CounterInv'
    BY Zenon, <1>3, <1>6 DEF RestoreFlags, TypeOK, FrameInv, counters
  <1>7. ASSUME NEW c \in CPUS, Interrupt(c) PROVE CounterInv'
    BY Zenon, <1>3, <1>7 DEF Interrupt, TypeOK, FrameInv, MaskInv, counters
  <1>8. ASSUME NEW c \in CPUS, Iret(c) PROVE CounterInv'
    <2>1. isr[c] = <<"run", 0>>
      BY Zenon, <1>8 DEF Iret, MaskInv
    <2>2. isr[c][1] = "run"
      BY <2>1
    <2> QED BY Zenon, <1>3, <1>8, <2>2 DEF Iret, TypeOK, counters
  <1>9. CASE UNCHANGED vars
    BY Zenon, <1>3, <1>9 DEF vars, counters
  <1> QED
    BY Zenon, <1>1, <1>2, <1>4, <1>5, <1>6, <1>7, <1>8, <1>9 DEF Next, Acquire, Release

(* diag_snapshot() can be trusted with any number of cores and any counter *)
(* width that is wider than the cores are many: the difference of the two  *)
(* counters is the number of sections counted in and not yet out.          *)
THEOREM LockCountersBalance == Spec => []CountersBalance
  <1>1. Init => CounterInv
    <2> SUFFICES ASSUME Init PROVE CounterInv
      BY Zenon
    <2>1. CountedIn = {}
      BY DEF Init, CountedIn
    <2> QED BY <2>1, FS_EmptySet DEF Init, CounterInv, Balanced
  <1>2. LockInv /\ CounterInv => CountersBalance
    <2> SUFFICES ASSUME LockInv, CounterInv PROVE CountersBalance
      BY Zenon
    <2> DEFINE n == Cardinality(CountedIn)
    <2>1. n \in 0..(CounterSpan - 1)
      BY Zenon, CountedInBounded
    <2>2. acquires - releases \in {n, n - CounterSpan}
      BY Zenon DEF CounterInv, Balanced
    <2>3. \A k \in 0..(CounterSpan - 1) :
             k % CounterSpan = k /\ (k - CounterSpan) % CounterSpan = k
      OBVIOUS
    <2> QED BY Zenon, <2>1, <2>2, <2>3 DEF CountersBalance
  <1> QED BY <1>1, <1>2, CounterStep, LockInvariant, PTL DEF Spec
=============================================================================
