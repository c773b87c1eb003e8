---------------------------- MODULE Capability ----------------------------
(***************************************************************************)
(* The capability substrate of kernel_rs/src/capability.rs with the audit  *)
(* log every decision goes to (audit.rs) and the two grant-time gates of   *)
(* thread.rs (policy.rs, manifest.rs).                                     *)
(*                                                                         *)
(* A `without_interrupts` closure is one atomic step (KernelLock shows     *)
(* that this is sound).  What is outside one is not: resolve() copies the  *)
(* slot, then reads the object's generation, then records a denial;        *)
(* derive() resolves, then pushes; revoke() bumps, then records.  Threads  *)
(* interleave between those steps, and `op` holds what each has read.      *)
(* Object ids and slot numbers count from 1.                               *)
(***************************************************************************)
EXTENDS Integers, Sequences

CONSTANTS Threads,        \* threads, each owner of one capability table
          Boot,           \* the threads that exist from the start
          Rights,         \* the rights bits
          GRANT,          \* the right to derive
          AgentMaxRights, \* policy.rs: AGENT_MAX_RIGHTS
          Kinds,          \* kernel object kinds
          MaxRecords,     \* audit.rs: MAX_RECORDS
          MaxObjects,     \* bound: objects ever created
          MaxGeneration,  \* bound: generation of an object
          MaxSlots,       \* bound: slots of a table
          MaxSeq          \* bound: audit records ever written

ASSUME BootThreads    == Boot \subseteq Threads
ASSUME GrantIsRight   == GRANT \in Rights
ASSUME RecordsBound   == MaxRecords \in Nat \ {0}
ASSUME NatBounds      == {MaxObjects, MaxSlots, MaxSeq} \subseteq Nat
ASSUME GenerationBound == MaxGeneration \in Nat \ {0}

VARIABLES objects,   \* OBJECTS: sequence of [kind, generation, alive]
          slots,     \* CapabilityTable.slots of every thread
          spawned,   \* threads that have been spawned
          op,        \* the operation each thread has in flight, or its last one
          log,       \* audit LOG
          nextSeq    \* audit NEXT_SEQ

vars == <<objects, slots, spawned, op, log, nextSeq>>

ObjectIds == 1..MaxObjects

ObjectType == [kind: Kinds, generation: 1..MaxGeneration, alive: BOOLEAN]

(* `root` (the rights of the grant a capability descends from) and         *)
(* `derived` are history: no action reads them to decide anything.         *)
CapType == [object_id: ObjectIds, rights: SUBSET Rights, generation: 0..MaxGeneration,
            root: SUBSET Rights, derived: BOOLEAN]

NoCap == [object_id |-> 0, rights |-> {}, generation |-> 0, root |-> {}, derived |-> FALSE]

Results == {"Pending", "Ok", "NoSuchCapability", "InsufficientRights", "Revoked",
            "AttenuationViolation"}

(* `fresh` is history: the capability was valid when the operation began.  *)
OpType == [pc: {"idle", "check", "deny", "derive", "revoked"},
           cap: CapType \cup {NoCap}, res: Results, fresh: BOOLEAN]

Events == {"Grant", "Derive", "Revoke", "Denied", "PolicyDenied", "ManifestDenied"}
RecordType == [seq: 0..MaxSeq, actor: Threads, event: Events]

TypeOK ==
  /\ objects \in Seq(ObjectType)
  /\ slots \in [Threads -> Seq(CapType)]
  /\ spawned \in SUBSET Threads
  /\ op \in [Threads -> OpType]
  /\ log \in Seq(RecordType)
  /\ nextSeq \in 0..MaxSeq

Idle == [pc |-> "idle", cap |-> NoCap, res |-> "Ok", fresh |-> FALSE]

Returned(res) == [Idle EXCEPT !.res = res]
Denying(res)  == [Idle EXCEPT !.res = res, !.pc = "deny"]

Init ==
  /\ objects = <<>>
  /\ slots = [t \in Threads |-> <<>>]
  /\ spawned = Boot
  /\ op = [t \in Threads |-> Idle]
  /\ log = <<>>
  /\ nextSeq = 0

-----------------------------------------------------------------------------

Exists(o) == o \in DOMAIN objects
Generation(o) == IF Exists(o) THEN objects[o].generation ELSE 0

(* resolve()'s generation check: the object is alive and was not revoked   *)
(* since the capability was minted.                                        *)
Live(c) ==
  /\ Exists(c.object_id)
  /\ objects[c.object_id].alive
  /\ objects[c.object_id].generation = c.generation

(* audit::record for a list of events: the oldest record makes room.       *)
Keep(s) == IF Len(s) > MaxRecords THEN SubSeq(s, Len(s) - MaxRecords + 1, Len(s)) ELSE s

Record(t, events) ==
  /\ nextSeq + Len(events) <= MaxSeq
  /\ log' = Keep(log \o [i \in 1..Len(events) |->
                          [seq |-> nextSeq + i - 1, actor |-> t, event |-> events[i]]])
  /\ nextSeq' = nextSeq + Len(events)

(* CapabilityTable::grant: the object's current generation, 0 if none.     *)
Minted(o, rights) ==
  [object_id |-> o, rights |-> rights, generation |-> Generation(o),
   root |-> rights, derived |-> FALSE]

Ready(t) == t \in spawned /\ op[t].pc = "idle"

CreateObject(t, kind) ==
  /\ Ready(t) /\ Len(objects) < MaxObjects
  /\ objects' = Append(objects, [kind |-> kind, generation |-> 1, alive |-> TRUE])
  /\ UNCHANGED <<slots, spawned, op, log, nextSeq>>

(* grant_current_capability: grant into the running thread's own table.    *)
GrantCurrent(t, o, rights) ==
  /\ Ready(t) /\ Len(slots[t]) < MaxSlots
  /\ slots' = [slots EXCEPT ![t] = Append(@, Minted(o, rights))]
  /\ Record(t, <<"Grant">>)
  /\ UNCHANGED <<objects, spawned, op>>

(* One request of a spawn's grant list: <<object, rights>>.                *)
PolicyAllows(g) == g[2] \subseteq AgentMaxRights

PolicyEntry(g) == IF PolicyAllows(g) THEN <<Minted(g[1], g[2])>> ELSE <<>>
PolicyEvent(g) == IF PolicyAllows(g) THEN <<"Grant">> ELSE <<"PolicyDenied">>

(* spawn_with_capabilities: the table is filled, refused requests left     *)
(* out, before the new thread can run.  Its callers pass one or two.       *)
SpawnWithCapabilities(t, u, g, h) ==
  /\ Ready(t) /\ u \notin spawned
  /\ spawned' = spawned \cup {u}
  /\ slots' = [slots EXCEPT ![u] = PolicyEntry(g) \o PolicyEntry(h)]
  /\ Record(t, PolicyEvent(g) \o PolicyEvent(h))
  /\ UNCHANGED <<objects, op>>

(* spawn_with_manifest: a request on a dead or missing object is skipped,  *)
(* one whose kind the manifest does not declare is refused.                *)
ObjectAlive(o) == Exists(o) /\ objects[o].alive
Declared(g, manifest) == ObjectAlive(g[1]) /\ objects[g[1]].kind \in manifest

ManifestEntry(g, manifest) ==
  IF Declared(g, manifest) THEN <<Minted(g[1], g[2])>> ELSE <<>>
ManifestEvent(g, manifest) ==
  IF Declared(g, manifest) THEN <<"Grant">>
  ELSE IF ObjectAlive(g[1]) THEN <<"ManifestDenied">> ELSE <<>>

SpawnWithManifest(t, u, g, manifest) ==
  /\ Ready(t) /\ u \notin spawned
  /\ spawned' = spawned \cup {u}
  /\ slots' = [slots EXCEPT ![u] = ManifestEntry(g, manifest)]
  /\ Record(t, ManifestEvent(g, manifest))
  /\ UNCHANGED <<objects, op>>

(* A missing slot returned at once, before the audit record.               *)
BeginResolve_EarlyReturn(t, i) ==
  LET cap == IF i \in DOMAIN slots[t] THEN slots[t][i] ELSE NoCap IN
  /\ Ready(t)
  /\ op' = [op EXCEPT ![t] =
              IF cap = NoCap
              THEN Returned("NoSuchCapability")
              ELSE [pc |-> "check", cap |-> cap, res |-> "Pending", fresh |-> Live(cap)]]
  /\ UNCHANGED <<objects, slots, spawned, log, nextSeq>>

(* resolve(), first step: copy the slot; a missing one goes to the denial. *)
(* What the call asks for is only compared later, so it is chosen later.   *)
BeginResolve(t, i) ==
  LET cap == IF i \in DOMAIN slots[t] THEN slots[t][i] ELSE NoCap IN
  /\ Ready(t)
  /\ op' = [op EXCEPT ![t] =
              IF cap = NoCap
              THEN Denying("NoSuchCapability")
              ELSE [pc |-> "check", cap |-> cap, res |-> "Pending", fresh |-> Live(cap)]]
  /\ UNCHANGED <<objects, slots, spawned, log, nextSeq>>

(* Only `alive` checked.                                                   *)
CheckGeneration_AliveOnly(t, need, deriving) ==
  LET res == IF ~(Exists(op[t].cap.object_id) /\ objects[op[t].cap.object_id].alive)
             THEN "Revoked"
             ELSE IF need \in op[t].cap.rights THEN "Ok" ELSE "InsufficientRights"
  IN  /\ op[t].pc = "check"
      /\ deriving => need = GRANT
      /\ op' = [op EXCEPT ![t] =
                   IF res # "Ok" THEN Denying(res)
                   ELSE IF deriving THEN [@ EXCEPT !.res = res, !.pc = "derive"]
                   ELSE Returned(res)]
      /\ UNCHANGED <<objects, slots, spawned, log, nextSeq>>

(* resolve(), second step: the object's generation, under the lock, then   *)
(* the rights.  derive() resolves with GRANT and goes on.                  *)
CheckGeneration(t, need, deriving) ==
  LET res == IF ~Live(op[t].cap) THEN "Revoked"
             ELSE IF need \in op[t].cap.rights THEN "Ok" ELSE "InsufficientRights"
  IN  /\ op[t].pc = "check"
      /\ deriving => need = GRANT
      /\ op' = [op EXCEPT ![t] =
                   IF res # "Ok" THEN Denying(res)
                   ELSE IF deriving THEN [@ EXCEPT !.res = res, !.pc = "derive"]
                   ELSE Returned(res)]
      /\ UNCHANGED <<objects, slots, spawned, log, nextSeq>>

(* resolve(), last step of a refusal.                                      *)
RecordDenied(t) ==
  /\ op[t].pc = "deny"
  /\ op' = [op EXCEPT ![t] = Returned(op[t].res)]
  /\ Record(t, <<"Denied">>)
  /\ UNCHANGED <<objects, slots, spawned>>

(* derive() after resolve(): reject more than the source holds, else push  *)
(* a capability of the SOURCE's generation into the target table.          *)
RejectAttenuation(t, ask) ==
  /\ op[t].pc = "derive" /\ ~(ask \subseteq op[t].cap.rights)
  /\ op' = [op EXCEPT ![t] = Returned("AttenuationViolation")]
  /\ UNCHANGED <<objects, slots, spawned, log, nextSeq>>

(* No subset check.                                                        *)
PushDerived_Unchecked(t, ask, to) ==
  /\ op[t].pc = "derive" /\ to \in spawned /\ Len(slots[to]) < MaxSlots
  /\ slots' = [slots EXCEPT ![to] =
                 Append(@, [op[t].cap EXCEPT !.rights = ask, !.derived = TRUE])]
  /\ Record(t, <<"Derive">>)
  /\ op' = [op EXCEPT ![t] = Idle]
  /\ UNCHANGED <<objects, spawned>>

PushDerived(t, ask, to) ==
  /\ op[t].pc = "derive" /\ ask \subseteq op[t].cap.rights
  /\ to \in spawned /\ Len(slots[to]) < MaxSlots
  /\ slots' = [slots EXCEPT ![to] =
                 Append(@, [op[t].cap EXCEPT !.rights = ask, !.derived = TRUE])]
  /\ Record(t, <<"Derive">>)
  /\ op' = [op EXCEPT ![t] = Idle]
  /\ UNCHANGED <<objects, spawned>>

(* revoke(): the generation bump, under the lock; an id nobody created is  *)
(* left alone ...                                                          *)
Revoke(t, o, destroy) ==
  /\ Ready(t)
  /\ Exists(o) => objects[o].generation < MaxGeneration
  /\ objects' = IF Exists(o)
                THEN [objects EXCEPT ![o].generation = @ + 1, ![o].alive = @ /\ ~destroy]
                ELSE objects
  /\ op' = [op EXCEPT ![t] = [Idle EXCEPT !.pc = "revoked"]]
  /\ UNCHANGED <<slots, spawned, log, nextSeq>>

(* ... and its audit record, after the unlock, either way.                 *)
RecordRevoke(t) ==
  /\ op[t].pc = "revoked"
  /\ op' = [op EXCEPT ![t] = Idle]
  /\ Record(t, <<"Revoke">>)
  /\ UNCHANGED <<objects, slots, spawned>>

Requests == ObjectIds \X SUBSET Rights

Next ==
  \E t \in Threads :
     \/ \E k \in Kinds : CreateObject(t, k)
     \/ \E g \in Requests : GrantCurrent(t, g[1], g[2])
     \/ \E u \in Threads, g, h \in Requests : SpawnWithCapabilities(t, u, g, h)
     \/ \E u \in Threads, g \in Requests, m \in SUBSET Kinds : SpawnWithManifest(t, u, g, m)
     \/ \E i \in 1..(MaxSlots + 1) : BeginResolve(t, i)
     \/ \E need \in Rights, deriving \in BOOLEAN : CheckGeneration(t, need, deriving)
     \/ RecordDenied(t)
     \/ \E ask \in SUBSET Rights : RejectAttenuation(t, ask)
     \/ \E ask \in SUBSET Rights, to \in Threads : PushDerived(t, ask, to)
     \/ \E o \in ObjectIds, destroy \in BOOLEAN : Revoke(t, o, destroy)
     \/ RecordRevoke(t)

Spec == Init /\ [][Next]_vars

-----------------------------------------------------------------------------

(***************************************************************************)
(* What makes the properties inductive: every capability, held or copied   *)
(* by an operation in flight, is no newer than its object and within its   *)
(* root; a derive() in progress holds GRANT; and a copy that is valid now  *)
(* was valid when it was taken.                                            *)
(***************************************************************************)
CapOK(c) ==
  /\ c.generation <= Generation(c.object_id)
  /\ c.rights \subseteq c.root
  /\ c.derived => GRANT \in c.root

OpOK(o) ==
  /\ CapOK(o.cap)
  /\ o.pc \in {"check", "derive"} <=> o.cap # NoCap
  /\ o.pc = "derive" => GRANT \in o.cap.rights
  /\ o.pc = "check" => o.res = "Pending" /\ (Live(o.cap) => o.fresh)

CapInv ==
  /\ TypeOK
  /\ \A t \in Threads : \A i \in DOMAIN slots[t] : CapOK(slots[t][i])
  /\ \A t \in Threads : OpOK(op[t])

(* No capability is ahead of its object: none can be made valid by a later *)
(* revoke(), and one minted for an id that does not exist yet (generation  *)
(* 0) stays invalid when the object is created.                            *)
NoFutureGeneration ==
  /\ \A t \in Threads : \A i \in DOMAIN slots[t] :
        slots[t][i].generation <= Generation(slots[t][i].object_id)
  /\ \A t \in Threads : op[t].cap.generation <= Generation(op[t].cap.object_id)

(* Revocation is final: no step of any thread makes a capability that does *)
(* not resolve resolve again, and none that derive() pushes from a source  *)
(* revoked after its check resolves either.                                *)
RevocationIsFinal ==
  [][/\ \A t \in Threads : \A i \in DOMAIN slots[t] :
           ~Live(slots[t][i]) => ~Live(slots[t][i])'
     /\ \A t \in Threads : \A i \in DOMAIN slots'[t] \ DOMAIN slots[t] :
           \A u \in Threads : op[u].pc = "derive" /\ op'[u].pc = "idle" /\ ~Live(op[u].cap)
                               => ~Live(slots[t][i])']_vars

(* "Stops resolving the instant revoke() runs": a resolve() that begins    *)
(* after a revocation never succeeds on a capability minted before it,     *)
(* though the slot it checks is a copy.                                    *)
RevokedNeverResolves ==
  [][\A t \in Threads :
        op[t].pc = "check" /\ op'[t].res = "Ok" => op[t].fresh]_vars

(* What revoke() has ended stays ended, for slots, copies and operations   *)
(* that were under way (capability.rs, revoke, resolve and derive).        *)
RevocationStands == RevocationIsFinal /\ RevokedNeverResolves

(* Attenuation over any number of hops and tables: no capability ever      *)
(* carries a right its root grant did not, and only a root that could be   *)
(* delegated has descendants.                                              *)
Attenuation ==
  \A t \in Threads : \A i \in DOMAIN slots[t] :
     /\ slots[t][i].rights \subseteq slots[t][i].root
     /\ slots[t][i].derived => GRANT \in slots[t][i].root

(* No silent denial: whenever a thread's resolve() returns an error, that  *)
(* very step leaves the thread's own Denied record newest in the log; and  *)
(* after every step the ring holds the newest records, with consecutive    *)
(* sequence numbers, none missing, at most MAX_RECORDS of them.            *)
DenialsAudited ==
  [][/\ \A t \in Threads :
          /\ op'[t] # op[t] /\ op'[t].pc = "idle"
          /\ op'[t].res \in {"NoSuchCapability", "InsufficientRights", "Revoked"}
          => /\ nextSeq' = nextSeq + 1
             /\ log'[Len(log')] = [seq |-> nextSeq, actor |-> t, event |-> "Denied"]
     /\ Len(log') = IF nextSeq' < MaxRecords THEN nextSeq' ELSE MaxRecords
     /\ \A i \in DOMAIN log' : log'[i].seq = nextSeq' - Len(log') + i - 1]_vars
=============================================================================
