--------------------------- MODULE ProgramProofs ----------------------------
(***************************************************************************)
(* What programs may do and what they show: the capability system and the  *)
(* text programs, which share no state.                                    *)
(*                                                                         *)
(* The capability tables, for every set of threads, rights and kinds and   *)
(* every bound: generations only rise, so what was revoked stays revoked,  *)
(* and a table only grows.                                                 *)
(*                                                                         *)
(* The editor and the terminal of TextApps, for every width of the window  *)
(* and of a tab: what the window shows is what was typed. ScreenTrue is    *)
(* not inductive: that the next key leaves the right picture rests on the  *)
(* lines being well formed where nothing was drawn yet, and on the history *)
(* being the lines that were entered (TextInv).                            *)
(***************************************************************************)
EXTENDS Capability, TextApps, TLAPS

(* The capability system. *)

(* What sequences keep when an element is replaced or a part is taken.     *)
LEMMA AppendedLast ==
  ASSUME NEW S, NEW q \in Seq(S), NEW x, NEW i \in DOMAIN Append(q, x) \ DOMAIN q
  PROVE  Append(q, x)[i] = x
  OBVIOUS

LEMMA ElementIn == ASSUME NEW S, NEW s \in Seq(S), NEW i \in 1..Len(s) PROVE s[i] \in S
  OBVIOUS

LEMMA ReplacedIn ==
  ASSUME NEW S, NEW s \in Seq(S), NEW i \in 1..Len(s), NEW e \in S
  PROVE  [s EXCEPT ![i] = e] \in Seq(S)
  OBVIOUS

LEMMA PartIn ==
  ASSUME NEW S, NEW s, NEW m \in Int, NEW n \in Int, \A i \in m..n : s[i] \in S
  PROVE  SubSeq(s, m, n) \in Seq(S)
  OBVIOUS

(* What a step does to OBJECTS: nothing, one more live object of           *)
(* generation 1, or one generation bump that may kill the object.          *)
ObjectsStep ==
  \/ objects' = objects
  \/ \E k \in Kinds :
       objects' = Append(objects, [kind |-> k, generation |-> 1, alive |-> TRUE])
  \/ \E o \in ObjectIds, destroy \in BOOLEAN :
       /\ Exists(o) /\ objects[o].generation < MaxGeneration
       /\ objects' = [objects EXCEPT ![o].generation = @ + 1, ![o].alive = @ /\ ~destroy]

LEMMA NextObjects == [Next]_vars => ObjectsStep
  BY ZenonT(40) DEF Next, vars, ObjectsStep, CreateObject, GrantCurrent, SpawnWithCapabilities,
         SpawnWithManifest, BeginResolve, CheckGeneration, RecordDenied,
         RejectAttenuation, PushDerived, Revoke, RecordRevoke

(* The heart of revocation by generation: no step lowers an object's       *)
(* generation or revives it, so a capability that is not ahead of its      *)
(* object stays so, and one that does not resolve never resolves again.    *)
LEMMA DeadStaysDead ==
  ASSUME TypeOK, ObjectsStep, NEW c \in CapType \cup {NoCap},
         c.generation <= Generation(c.object_id)
  PROVE  /\ objects' \in Seq(ObjectType)
         /\ c.generation <= Generation(c.object_id)'
         /\ ~Live(c) => ~Live(c)'
  <1> DEFINE o == c.object_id
  <1>a. objects \in Seq(ObjectType)
    BY DEF TypeOK
  <1>b. o \in Nat /\ c.generation \in Nat
    BY DEF CapType, NoCap, ObjectIds
  <1>c. \A i \in DOMAIN objects : objects[i] \in ObjectType
    BY <1>a
  <1>d. \A i \in DOMAIN objects : objects[i].generation \in 1..MaxGeneration
    BY <1>c DEF ObjectType
  <1>0. /\ objects \in Seq(ObjectType) /\ o \in Nat /\ c.generation \in Nat
        /\ \A i \in DOMAIN objects : objects[i].generation \in 1..MaxGeneration
    BY <1>a, <1>b, <1>d
  <1>1. CASE objects' = objects
    BY <1>0, <1>1 DEF Generation, Exists, Live
  <1>2. ASSUME NEW k \in Kinds,
               objects' = Append(objects, [kind |-> k, generation |-> 1, alive |-> TRUE])
        PROVE  /\ objects' \in Seq(ObjectType)
               /\ c.generation <= Generation(o)'
               /\ ~Live(c) => ~Live(c)'
    <2> DEFINE new == [kind |-> k, generation |-> 1, alive |-> TRUE]
    <2>1. new \in ObjectType
      BY GenerationBound DEF ObjectType
    <2>2. /\ objects' \in Seq(ObjectType)
          /\ DOMAIN objects' = DOMAIN objects \cup {Len(objects) + 1}
          /\ \A i \in DOMAIN objects : objects'[i] = objects[i]
          /\ objects'[Len(objects) + 1] = new
      BY <1>0, <1>2, <2>1
    <2>3. CASE o \in DOMAIN objects
      BY <1>0, <2>2, <2>3 DEF Generation, Exists, Live
    <2>4. CASE o \notin DOMAIN objects
      <3>1. c.generation = 0
        BY <1>0, <2>4 DEF Generation, Exists
      <3> QED BY <1>0, <2>2, <2>4, <3>1 DEF Generation, Exists, Live
    <2> QED BY <2>3, <2>4
  <1>3. ASSUME NEW p \in ObjectIds, NEW destroy \in BOOLEAN,
               Exists(p), objects[p].generation < MaxGeneration,
               objects' = [objects EXCEPT ![p].generation = @ + 1,
                                          ![p].alive = @ /\ ~destroy]
        PROVE  /\ objects' \in Seq(ObjectType)
               /\ c.generation <= Generation(o)'
               /\ ~Live(c) => ~Live(c)'
    <2>1. objects[p] \in ObjectType
      BY <1>0, <1>3 DEF Exists
    <2> DEFINE bumped == [objects[p] EXCEPT !.generation = @ + 1, !.alive = @ /\ ~destroy]
    <2>a. objects[p].generation + 1 \in 1..MaxGeneration
      BY <1>3, <2>1, GenerationBound DEF ObjectType
    <2>b. (objects[p].alive /\ ~destroy) \in BOOLEAN
      OBVIOUS
    <2>2. bumped \in ObjectType /\ bumped.generation = objects[p].generation + 1
      BY Zenon, <2>1, <2>a, <2>b DEF ObjectType
    <2>3. objects' = [objects EXCEPT ![p] = bumped]
      BY Zenon, <1>0, <1>3 DEF Exists
    <2>4. /\ objects' \in Seq(ObjectType)
          /\ DOMAIN objects' = DOMAIN objects
          /\ \A i \in DOMAIN objects : i # p => objects'[i] = objects[i]
          /\ objects'[p] = bumped
      <3>1. p \in 1..Len(objects) /\ DOMAIN objects = 1..Len(objects)
        BY <1>0, <1>3 DEF Exists
      <3>2. objects' \in Seq(ObjectType)
        BY <1>0, <2>2, <2>3, <3>1, ReplacedIn
      <3> QED BY <2>3, <3>1, <3>2
    <2> QED BY SMTT(40), <1>0, <1>3, <2>1, <2>2, <2>4 DEF Generation, Exists, Live
  <1> QED
    BY Zenon, <1>0, <1>1, <1>2, <1>3 DEF ObjectsStep

(* What holds of a capability or of an operation in flight keeps holding.  *)
LEMMA CapOKPersists ==
  ASSUME TypeOK, ObjectsStep, NEW c \in CapType \cup {NoCap}, CapOK(c)
  PROVE  CapOK(c)'
  BY DeadStaysDead DEF CapOK

LEMMA OpOKPersists ==
  ASSUME TypeOK, ObjectsStep, NEW o \in OpType, OpOK(o)
  PROVE  OpOK(o)'
  <1>1. o.cap \in CapType \cup {NoCap} /\ CapOK(o.cap)
    BY DEF OpType, OpOK
  <1>2. CapOK(o.cap)'
    BY <1>1, CapOKPersists
  <1>3. Live(o.cap)' => Live(o.cap)
    BY <1>1, DeadStaysDead DEF CapOK
  <1> QED BY <1>2, <1>3 DEF OpOK

(* grant() mints at the object's current generation.                       *)
LEMMA MintedOK ==
  ASSUME TypeOK, NEW o \in ObjectIds, NEW r \in SUBSET Rights
  PROVE  Minted(o, r) \in CapType /\ CapOK(Minted(o, r))
  <1>0. \A i \in DOMAIN objects : objects[i] \in ObjectType
    BY DEF TypeOK
  <1>1. Generation(o) \in 0..MaxGeneration
    BY <1>0, GenerationBound DEF ObjectType, Generation, Exists
  <1>2. Minted(o, r) \in CapType
    BY <1>1 DEF Minted, CapType
  <1>3. Generation(o) <= Generation(o)
    BY <1>1
  <1> QED BY <1>2, <1>3 DEF Minted, CapOK

LEMMA NoCapOK == TypeOK => CapOK(NoCap) /\ ~Live(NoCap) /\ NoCap \notin CapType
  <1> SUFFICES ASSUME TypeOK PROVE CapOK(NoCap) /\ ~Live(NoCap) /\ NoCap \notin CapType
    OBVIOUS
  <1>1. 0 \notin DOMAIN objects
    BY DEF TypeOK
  <1> QED BY <1>1 DEF NoCap, CapOK, Live, Exists, Generation, CapType, ObjectIds

(* audit::record keeps a well-formed ring.                                 *)
LEMMA RecordTyped ==
  ASSUME TypeOK, NEW t \in Threads, NEW ev \in Seq(Events), Record(t, ev)
  PROVE  log' \in Seq(RecordType) /\ nextSeq' \in 0..MaxSeq
  <1> DEFINE new == [i \in 1..Len(ev) |-> [seq |-> nextSeq + i - 1, actor |-> t, event |-> ev[i]]]
  <1>1. nextSeq \in Nat /\ nextSeq + Len(ev) <= MaxSeq /\ Len(ev) \in Nat
    BY DEF TypeOK, Record
  <1>2. \A i \in 1..Len(ev) : nextSeq + i - 1 \in 0..MaxSeq /\ ev[i] \in Events
    BY <1>1, NatBounds
  <1>3. \A i \in 1..Len(ev) : new[i] \in RecordType
    BY <1>2 DEF RecordType
  <1>4. new \in Seq(RecordType)
    BY <1>1, <1>3
  <1> DEFINE s == log \o new
  <1>5. s \in Seq(RecordType) /\ Len(s) \in Nat
    BY <1>4 DEF TypeOK
  <1>6. Keep(s) \in Seq(RecordType)
    <2>1. CASE Len(s) > MaxRecords
      <3>0. \A i \in 1..Len(s) : s[i] \in RecordType
        BY Zenon, <1>5, ElementIn
      <3> HIDE DEF s
      <3>1. /\ Len(s) - MaxRecords + 1 \in Int /\ Len(s) \in Int
            /\ \A i \in (Len(s) - MaxRecords + 1)..Len(s) : s[i] \in RecordType
        BY <1>5, <2>1, <3>0, RecordsBound
      <3>2. SubSeq(s, Len(s) - MaxRecords + 1, Len(s)) \in Seq(RecordType)
        BY <3>1, PartIn
      <3> QED BY <2>1, <3>2 DEF Keep
    <2>2. CASE ~(Len(s) > MaxRecords)
      BY <1>5, <2>2 DEF Keep
    <2> QED BY <2>1, <2>2
  <1> QED BY <1>1, <1>6 DEF Record

LEMMA CapInit == Init => CapInv
  <1> SUFFICES ASSUME Init PROVE CapInv
    OBVIOUS
  <1>1. TypeOK
    BY BootThreads, NatBounds DEF Init, TypeOK, OpType, Idle, Results
  <1>2. CapOK(NoCap) /\ NoCap \notin CapType
    BY <1>1, NoCapOK
  <1>3. \A t \in Threads : OpOK(op[t])
    BY Zenon, <1>2 DEF Init, OpOK, Idle
  <1>4. \A t \in Threads : \A i \in DOMAIN slots[t] : CapOK(slots[t][i])
    BY DEF Init
  <1> QED BY <1>1, <1>3, <1>4 DEF CapInv

(* The capabilities that are well formed after the step.                   *)
GoodAfter == {c \in CapType : CapOK(c)'}

(* A step preserves the invariant as soon as the tables it writes hold     *)
(* well-formed capabilities and the operation it leaves is well formed:    *)
(* everything it does not write persists.                                  *)
LEMMA CapStepFromParts ==
  ASSUME CapInv, ObjectsStep,
         spawned' \in SUBSET Threads, log' \in Seq(RecordType), nextSeq' \in 0..MaxSeq,
         slots' \in [Threads -> Seq(CapType)],
         \A t \in Threads : \A i \in DOMAIN slots'[t] :
            (i \in DOMAIN slots[t] /\ slots'[t][i] = slots[t][i]) \/ slots'[t][i] \in GoodAfter,
         op' \in [Threads -> OpType],
         \A t \in Threads : op'[t] = op[t] \/ OpOK(op[t])'
  PROVE  CapInv'
  <1> USE DEF CapInv
  <1>1. objects' \in Seq(ObjectType)
    <2>1. NoCap.generation <= Generation(NoCap.object_id)
      BY SMTT(40), NoCapOK DEF CapOK
    <2> QED BY <2>1, DeadStaysDead
  <1>2. TypeOK'
    BY <1>1 DEF TypeOK, ObjectType
  <1>3. ASSUME NEW t \in Threads, NEW i \in DOMAIN slots'[t] PROVE CapOK(slots[t][i])'
    <2>1. CASE i \in DOMAIN slots[t] /\ slots'[t][i] = slots[t][i]
      <3>1. slots[t][i] \in CapType /\ CapOK(slots[t][i])
        BY <2>1 DEF TypeOK
      <3>2. PICK c \in CapType : c = slots[t][i]
        BY <3>1
      <3>3. CapOK(c)'
        BY SMTT(40), <3>1, <3>2, CapOKPersists
      <3> QED BY <2>1, <3>2, <3>3 DEF CapOK, Generation, Exists
    <2>2. CASE slots'[t][i] \in GoodAfter
      BY SMTT(40), <2>2 DEF GoodAfter, CapOK, Generation, Exists
    <2> QED BY <2>1, <2>2
  <1>4. ASSUME NEW t \in Threads PROVE OpOK(op[t])'
    <2>1. CASE op'[t] = op[t]
      <3>1. PICK o \in OpType : o = op[t]
        BY DEF TypeOK
      <3>2. OpOK(o)'
        BY <3>1, OpOKPersists
      <3> QED BY Zenon, <2>1, <3>1, <3>2 DEF OpOK, CapOK, Live, Generation, Exists
    <2> QED BY SMTT(40), <2>1
  <1> QED BY <1>2, <1>3, <1>4

(* One step per operation: what it pushes is minted at the current         *)
(* generation or is a weakened copy of a checked source, and what it       *)
(* leaves in flight is a copy of a held capability.                        *)
LEMMA CapStep == CapInv /\ [Next]_vars => CapInv'
  <1> SUFFICES ASSUME CapInv, [Next]_vars PROVE CapInv'
    OBVIOUS
  <1>t. TypeOK
    BY DEF CapInv
  <1>h. /\ \A t \in Threads : \A i \in DOMAIN slots[t] : CapOK(slots[t][i])
        /\ \A t \in Threads : OpOK(op[t])
    BY DEF CapInv
  <1> USE <1>t
  <1>o. ObjectsStep
    BY NextObjects
  <1>n. /\ CapOK(NoCap) /\ ~Live(NoCap) /\ NoCap \notin CapType
        /\ CapOK(NoCap)' /\ ~Live(NoCap)'
    BY <1>o, NoCapOK, CapOKPersists, DeadStaysDead DEF CapOK
  <1>i. /\ \A res \in Results : Returned(res) \in OpType /\ Denying(res) \in OpType
        /\ \A res \in Results : OpOK(Returned(res))' /\ OpOK(Denying(res))'
        /\ Idle \in OpType /\ OpOK(Idle)'
    BY Zenon, <1>n DEF Returned, Denying, Idle, OpType, Results, OpOK
  <1>m. \A o \in ObjectIds, r \in SUBSET Rights : Minted(o, r) \in GoodAfter
    BY <1>o, MintedOK, CapOKPersists DEF GoodAfter
  <1>r. /\ <<>> \in Seq(Events)
        /\ \A e \in Events : <<e>> \in Seq(Events)
        /\ \A e, f \in Events : <<e>> \o <<f>> \in Seq(Events)
    OBVIOUS
  <1>l. \A t \in Threads, e \in Events :
           Record(t, <<e>>) => log' \in Seq(RecordType) /\ nextSeq' \in 0..MaxSeq
    BY Zenon, <1>r, RecordTyped
  <1>e. {"Grant", "Denied", "Derive", "Revoke"} \subseteq Events
    BY DEF Events
  <1>q. \A g \in Requests : g[1] \in ObjectIds /\ g[2] \in SUBSET Rights
    BY DEF Requests
  <1>s. \A q : q \in Seq(GoodAfter) => q \in Seq(CapType)
    BY DEF GoodAfter
  <1>p. ASSUME NEW t \in Threads, NEW o \in OpType, op' = [op EXCEPT ![t] = o], OpOK(o)'
        PROVE  /\ op' \in [Threads -> OpType]
               /\ \A u \in Threads : op'[u] = op[u] \/ OpOK(op[u])'
    <2>1. op' \in [Threads -> OpType] /\ \A u \in Threads : op'[u] = op[u] \/ op'[u] = o
      BY <1>p DEF TypeOK
    <2>2. ASSUME NEW u \in Threads, op'[u] = o PROVE OpOK(op[u])'
      BY <1>p, <2>2 DEF OpOK, CapOK, Live, Generation, Exists
    <2> QED BY <2>1, <2>2
  <1>w. UNCHANGED <<log, nextSeq>> => log' \in Seq(RecordType) /\ nextSeq' \in 0..MaxSeq
    BY Zenon DEF TypeOK
  <1>x. UNCHANGED spawned => spawned' \in SUBSET Threads
    BY Zenon DEF TypeOK
  <1>y. UNCHANGED slots => /\ slots' \in [Threads -> Seq(CapType)]
                           /\ \A u \in Threads : \A i \in DOMAIN slots'[u] :
                                (i \in DOMAIN slots[u] /\ slots'[u][i] = slots[u][i]) \/ slots'[u][i] \in GoodAfter
    BY Zenon DEF TypeOK
  <1>z. UNCHANGED op => /\ op' \in [Threads -> OpType]
                        /\ \A u \in Threads : op'[u] = op[u] \/ OpOK(op[u])'
    BY Zenon DEF TypeOK
  <1>1. ASSUME NEW t \in Threads, NEW k \in Kinds, CreateObject(t, k) PROVE CapInv'
    BY Zenon, <1>o, <1>1, <1>w, <1>x, <1>y, <1>z, CapStepFromParts DEF CreateObject
  <1>2. ASSUME NEW t \in Threads, NEW g \in Requests, GrantCurrent(t, g[1], g[2]) PROVE CapInv'
    <2>1. PICK c \in GoodAfter : c = Minted(g[1], g[2])
      BY <1>m, <1>q
    <2>2. slots' = [slots EXCEPT ![t] = Append(slots[t], c)] /\ c \in CapType
      BY <1>2, <2>1 DEF GrantCurrent, GoodAfter
    <2>3. slots' \in [Threads -> Seq(CapType)]
      BY <2>2 DEF TypeOK
    <2>4. \A u \in Threads : \A i \in DOMAIN slots'[u] :
             (i \in DOMAIN slots[u] /\ slots'[u][i] = slots[u][i]) \/ slots'[u][i] \in GoodAfter
      BY <2>2 DEF TypeOK
    <2>5. log' \in Seq(RecordType) /\ nextSeq' \in 0..MaxSeq
      BY <1>2, <1>l, <1>e DEF GrantCurrent
    <2>6. UNCHANGED <<spawned, op>>
      BY Zenon, <1>2 DEF GrantCurrent
    <2> QED BY Zenon, <1>o, <1>x, <1>z, <2>3, <2>4, <2>5, <2>6, CapStepFromParts
  <1>3. ASSUME NEW t \in Threads, NEW u \in Threads, NEW g \in Requests, NEW h \in Requests,
               SpawnWithCapabilities(t, u, g, h)
        PROVE  CapInv'
    <2>1. PolicyEntry(g) \in Seq(GoodAfter) /\ PolicyEntry(h) \in Seq(GoodAfter)
      BY <1>m, <1>q DEF PolicyEntry
    <2> DEFINE table == PolicyEntry(g) \o PolicyEntry(h)
    <2>2. table \in Seq(GoodAfter)
      BY <2>1
    <2>3. slots' = [slots EXCEPT ![u] = table]
      BY <1>3 DEF SpawnWithCapabilities
    <2> HIDE DEF table
    <2>4. slots' \in [Threads -> Seq(CapType)]
      BY <1>s, <2>2, <2>3 DEF TypeOK
    <2>5. \A v \in Threads : \A i \in DOMAIN slots'[v] :
             (i \in DOMAIN slots[v] /\ slots'[v][i] = slots[v][i]) \/ slots'[v][i] \in GoodAfter
      BY <2>2, <2>3 DEF TypeOK
    <2>6. PolicyEvent(g) \o PolicyEvent(h) \in Seq(Events)
      BY Zenon, <1>r DEF PolicyEvent, Events
    <2>7. log' \in Seq(RecordType) /\ nextSeq' \in 0..MaxSeq
      BY Zenon, <1>3, <2>6, RecordTyped DEF SpawnWithCapabilities
    <2> QED BY Zenon, <1>o, <1>3, <2>4, <2>5, <2>7, CapStepFromParts DEF SpawnWithCapabilities, TypeOK
  <1>4. ASSUME NEW t \in Threads, NEW u \in Threads, NEW g \in Requests, NEW m \in SUBSET Kinds,
               SpawnWithManifest(t, u, g, m)
        PROVE  CapInv'
    <2>0. ManifestEntry(g, m) \in Seq(GoodAfter)
      BY <1>m, <1>q DEF ManifestEntry
    <2>1. PICK table \in Seq(GoodAfter) : table = ManifestEntry(g, m)
      BY <2>0
    <2>2. slots' = [slots EXCEPT ![u] = table]
      BY <1>4, <2>1 DEF SpawnWithManifest
    <2>3. slots' \in [Threads -> Seq(CapType)]
      BY <1>s, <2>2 DEF TypeOK
    <2>4. \A v \in Threads : \A i \in DOMAIN slots'[v] :
             (i \in DOMAIN slots[v] /\ slots'[v][i] = slots[v][i]) \/ slots'[v][i] \in GoodAfter
      BY <2>2 DEF TypeOK
    <2>5. ManifestEvent(g, m) \in Seq(Events)
      BY Zenon, <1>r DEF ManifestEvent, Events
    <2>6. log' \in Seq(RecordType) /\ nextSeq' \in 0..MaxSeq
      BY <1>4, <2>5, RecordTyped DEF SpawnWithManifest
    <2>7. spawned' \in SUBSET Threads /\ UNCHANGED op
      BY Zenon, <1>4 DEF SpawnWithManifest, TypeOK
    <2> QED BY Zenon, <1>o, <1>z, <2>3, <2>4, <2>6, <2>7, CapStepFromParts
  <1>5. ASSUME NEW t \in Threads, NEW i \in 1..(MaxSlots + 1), BeginResolve(t, i) PROVE CapInv'
    <2>1. CASE i \in DOMAIN slots[t] /\ slots[t][i] # NoCap
      <3> DEFINE new == [pc |-> "check", cap |-> slots[t][i], res |-> "Pending",
                         fresh |-> Live(slots[t][i])]
      <3>1. slots[t][i] \in CapType /\ CapOK(slots[t][i])
        BY <1>h, <2>1 DEF TypeOK
      <3>2. op' = [op EXCEPT ![t] = new] /\ UNCHANGED <<objects, slots, spawned, log, nextSeq>>
        BY SMTT(40), <1>5, <2>1 DEF BeginResolve
      <3>3. Live(slots[t][i]) \in BOOLEAN
        BY DEF Live
      <3>4. new \in OpType
        BY <3>1, <3>3 DEF OpType, Results
      <3>5. OpOK(new)
        BY SMTT(40), <1>n, <3>1 DEF OpOK
      <3> HIDE DEF new
      <3>6. op' \in [Threads -> OpType]
        BY SMTT(40), <3>2, <3>4 DEF TypeOK
      <3>7. \A u \in Threads : op'[u] = op[u] \/ OpOK(op[u])'
        BY Zenon, <3>2, <3>5 DEF TypeOK, OpOK, CapOK, Live, Generation, Exists
      <3> QED BY Zenon, <1>o, <1>w, <1>x, <1>y, <3>2, <3>6, <3>7, CapStepFromParts
    <2>2. CASE ~(i \in DOMAIN slots[t] /\ slots[t][i] # NoCap)
      <3>1. PICK new \in OpType : new = Denying("NoSuchCapability") /\ OpOK(new)'
        BY <1>i DEF Results
      <3>2. op' = [op EXCEPT ![t] = new] /\ UNCHANGED <<objects, slots, spawned, log, nextSeq>>
        BY Zenon, <1>5, <2>2, <3>1 DEF BeginResolve
      <3>3. OpOK(new)'
        BY <3>1
      <3>4. op' \in [Threads -> OpType] /\ \A u \in Threads : op'[u] = op[u] \/ OpOK(op[u])'
        BY ZenonT(40), <1>p, <3>2, <3>3
      <3> QED BY Zenon, <1>o, <1>w, <1>x, <1>y, <3>2, <3>4, CapStepFromParts
    <2> QED BY <2>1, <2>2
  <1>6. ASSUME NEW t \in Threads, NEW need \in Rights, NEW deriving \in BOOLEAN,
               CheckGeneration(t, need, deriving)
        PROVE  CapInv'
    <2> DEFINE res == IF ~Live(op[t].cap) THEN "Revoked"
                      ELSE IF need \in op[t].cap.rights THEN "Ok" ELSE "InsufficientRights"
               passed == [op[t] EXCEPT !.res = res, !.pc = "derive"]
               new == IF res # "Ok" THEN Denying(res)
                      ELSE IF deriving THEN passed ELSE Returned(res)
    <2>1. op[t] \in OpType /\ OpOK(op[t]) /\ res \in Results
      BY <1>h DEF TypeOK, Results
    <2>2. passed \in OpType
      <3>1. PICK r \in Results : r = res
        BY <2>1
      <3>2. [op[t] EXCEPT !.res = r, !.pc = "derive"] \in OpType
        BY Zenon, <2>1 DEF OpType
      <3> QED BY <3>1, <3>2
    <2>3. res = "Ok" /\ deriving => OpOK(passed)
      BY <1>6, <2>1 DEF CheckGeneration, OpOK, OpType
    <2>4. op' = [op EXCEPT ![t] = new] /\ UNCHANGED <<objects, slots, spawned, log, nextSeq>>
      BY <1>6 DEF CheckGeneration
    <2> HIDE DEF passed
    <2>5. PICK p \in OpType : p = passed
      BY SMTT(40), <2>2
    <2>a. res = "Ok" /\ deriving => OpOK(p)'
      BY Zenon, <2>3, <2>4, <2>5 DEF OpOK, CapOK, Live, Generation, Exists
    <2>b. PICK r \in Results : r = res
      BY <2>1
    <2> HIDE DEF res
    <2>c. Denying(r) \in OpType /\ OpOK(Denying(r))' /\ Returned(r) \in OpType /\ OpOK(Returned(r))'
      BY <1>i
    <2>6. PICK o \in OpType : o = new /\ OpOK(o)'
      <3>1. CASE r # "Ok"
        <4>1. new = Denying(r) BY <3>1, <2>b
        <4> QED BY <4>1, <2>c
      <3>2. CASE r = "Ok" /\ deriving
        <4>1. new = p BY <3>2, <2>b, <2>5
        <4> QED BY <4>1, <3>2, <2>a, <2>b
      <3>3. CASE r = "Ok" /\ ~deriving
        <4>1. new = Returned(r) BY SMTT(40), <3>3, <2>b
        <4> QED BY SMTT(40), <4>1, <2>c
      <3> QED BY <3>1, <3>2, <3>3
    <2>7. op' = [op EXCEPT ![t] = o]
      BY <2>4, <2>6
    <2>8. op' \in [Threads -> OpType] /\ \A u \in Threads : op'[u] = op[u] \/ OpOK(op[u])'
      BY ZenonT(40), <1>p, <2>6, <2>7
    <2> QED BY Zenon, <1>o, <1>w, <1>x, <1>y, <2>4, <2>8, CapStepFromParts
  <1>7. ASSUME NEW t \in Threads, RecordDenied(t) PROVE CapInv'
    <2>1. op[t].res \in Results
      BY DEF TypeOK, OpType
    <2>2. PICK o \in OpType : o = Returned(op[t].res) /\ OpOK(o)'
      BY SMTT(40), <1>i, <2>1
    <2>3. op' = [op EXCEPT ![t] = o]
      BY <1>7, <2>2 DEF RecordDenied
    <2>4. op' \in [Threads -> OpType] /\ \A u \in Threads : op'[u] = op[u] \/ OpOK(op[u])'
      BY ZenonT(40), <1>p, <2>2, <2>3
    <2>5. log' \in Seq(RecordType) /\ nextSeq' \in 0..MaxSeq
      BY SMTT(40), <1>7, <1>l, <1>e DEF RecordDenied
    <2>6. UNCHANGED <<slots, spawned>>
      BY Zenon, <1>7 DEF RecordDenied
    <2> QED BY Zenon, <1>o, <1>x, <1>y, <2>4, <2>5, <2>6, CapStepFromParts
  <1>8. ASSUME NEW t \in Threads, NEW ask \in SUBSET Rights, RejectAttenuation(t, ask) PROVE CapInv'
    <2>1. PICK o \in OpType : o = Returned("AttenuationViolation") /\ OpOK(o)'
      BY SMTT(40), <1>i DEF Results
    <2>2. op' = [op EXCEPT ![t] = o]
      BY <1>8, <2>1 DEF RejectAttenuation
    <2>3. op' \in [Threads -> OpType] /\ \A u \in Threads : op'[u] = op[u] \/ OpOK(op[u])'
      BY ZenonT(40), <1>p, <2>1, <2>2
    <2>4. UNCHANGED <<slots, spawned, log, nextSeq>>
      BY Zenon, <1>8 DEF RejectAttenuation
    <2> QED BY Zenon, <1>o, <1>w, <1>x, <1>y, <2>3, <2>4, CapStepFromParts
  <1>9. ASSUME NEW t \in Threads, NEW ask \in SUBSET Rights, NEW to \in Threads,
               PushDerived(t, ask, to)
        PROVE  CapInv'
    <2> DEFINE src == op[t].cap
               new == [src EXCEPT !.rights = ask, !.derived = TRUE]
    <2>1. src \in CapType /\ CapOK(src) /\ GRANT \in src.rights
      BY <1>9, <1>h DEF PushDerived, TypeOK, OpType, OpOK
    <2>2. new \in CapType
      <3>1. PICK yes \in BOOLEAN : yes = TRUE
        BY Zenon
      <3>2. [src EXCEPT !.rights = ask, !.derived = yes] \in CapType
        BY Zenon, <2>1 DEF CapType
      <3> QED BY <3>1, <3>2
    <2>3. CapOK(new)
      BY <1>9, <2>1 DEF PushDerived, CapOK, CapType
    <2>4. PICK c \in GoodAfter : c = new
      BY <1>o, <2>2, <2>3, CapOKPersists DEF GoodAfter
    <2>5. slots' = [slots EXCEPT ![to] = Append(slots[to], c)] /\ c \in CapType
      BY <1>9, <2>2, <2>4 DEF PushDerived
    <2>6. slots' \in [Threads -> Seq(CapType)]
      BY SMTT(40), <2>5 DEF TypeOK
    <2>7. \A u \in Threads : \A i \in DOMAIN slots'[u] :
             (i \in DOMAIN slots[u] /\ slots'[u][i] = slots[u][i]) \/ slots'[u][i] \in GoodAfter
      BY SMTT(40), <2>5 DEF TypeOK
    <2>8. op' = [op EXCEPT ![t] = Idle]
      BY <1>9 DEF PushDerived
    <2>9. op' \in [Threads -> OpType] /\ \A u \in Threads : op'[u] = op[u] \/ OpOK(op[u])'
      BY ZenonT(40), <1>p, <1>i, <2>8
    <2>10. log' \in Seq(RecordType) /\ nextSeq' \in 0..MaxSeq
      BY <1>9, <1>l, <1>e DEF PushDerived
    <2>11. UNCHANGED spawned
      BY Zenon, <1>9 DEF PushDerived
    <2> QED BY Zenon, <1>o, <1>x, <2>6, <2>7, <2>9, <2>10, <2>11, CapStepFromParts
  <1>10. ASSUME NEW t \in Threads, NEW o \in ObjectIds, NEW destroy \in BOOLEAN,
                Revoke(t, o, destroy)
         PROVE  CapInv'
    <2> DEFINE new == [Idle EXCEPT !.pc = "revoked"]
    <2>1. new \in OpType /\ OpOK(new)'
      <3>1. new \in OpType
        BY Zenon DEF Idle, OpType, Results
      <3>2. OpOK(new)'
        BY <1>n DEF Idle, OpOK
      <3> QED BY <3>1, <3>2
    <2>2. op' = [op EXCEPT ![t] = new]
      BY SMTT(40), <1>10 DEF Revoke
    <2> HIDE DEF new
    <2>3. op' \in [Threads -> OpType] /\ \A u \in Threads : op'[u] = op[u] \/ OpOK(op[u])'
      BY ZenonT(40), <1>p, <2>1, <2>2
    <2> QED BY Zenon, <1>o, <1>10, <2>3, CapStepFromParts DEF Revoke, TypeOK
  <1>11. ASSUME NEW t \in Threads, RecordRevoke(t) PROVE CapInv'
    <2>1. op' = [op EXCEPT ![t] = Idle]
      BY <1>11 DEF RecordRevoke
    <2>2. op' \in [Threads -> OpType] /\ \A u \in Threads : op'[u] = op[u] \/ OpOK(op[u])'
      BY ZenonT(40), <1>p, <1>i, <2>1
    <2>3. log' \in Seq(RecordType) /\ nextSeq' \in 0..MaxSeq
      BY <1>11, <1>l, <1>e DEF RecordRevoke
    <2>4. UNCHANGED <<slots, spawned>>
      BY Zenon, <1>11 DEF RecordRevoke
    <2> QED BY Zenon, <1>o, <1>x, <1>y, <2>2, <2>3, <2>4, CapStepFromParts
  <1>12. CASE UNCHANGED vars
    BY Zenon, <1>o, <1>12, <1>w, <1>x, <1>y, <1>z, CapStepFromParts DEF vars
  <1> QED
    BY <1>1, <1>2, <1>3, <1>4, <1>5, <1>6, <1>7, <1>8, <1>9, <1>10, <1>11, <1>12 DEF Next

(* The capability invariant holds for any threads, rights, kinds, bounds.  *)
THEOREM CapInvariant == Spec => []CapInv
  BY CapInit, CapStep, PTL DEF Spec

(* No capability, held or copied, is ahead of its object's generation.     *)
THEOREM CapNoFutureGeneration == Spec => []NoFutureGeneration
  <1>1. CapInv => NoFutureGeneration
    BY DEF CapInv, OpOK, CapOK, NoFutureGeneration
  <1> QED BY <1>1, CapInvariant, PTL

(* Over any chain of derive() calls a capability stays within its grant.   *)
THEOREM CapAttenuation == Spec => []Attenuation
  <1>1. CapInv => Attenuation
    BY DEF CapInv, CapOK, Attenuation
  <1> QED BY <1>1, CapInvariant, PTL

(* A thread's table is empty until a spawn fills it.                       *)
EmptyUntilSpawned == \A t \in Threads \ spawned : slots[t] = <<>>

LEMMA EmptyInvariant == Spec => []EmptyUntilSpawned
  <1>1. Init => EmptyUntilSpawned
    BY ZenonT(40) DEF Init, EmptyUntilSpawned
  <1>2. CapInv /\ EmptyUntilSpawned /\ [Next]_vars => EmptyUntilSpawned'
    <2> SUFFICES ASSUME TypeOK, EmptyUntilSpawned, [Next]_vars PROVE EmptyUntilSpawned'
      BY DEF CapInv
    <2>1. CASE UNCHANGED <<slots, spawned>>
      BY <2>1 DEF EmptyUntilSpawned
    <2>2. ASSUME NEW t \in spawned, NEW c, spawned' = spawned,
                 slots' = [slots EXCEPT ![t] = Append(slots[t], c)]
          PROVE  EmptyUntilSpawned'
      BY <2>2 DEF EmptyUntilSpawned, TypeOK
    <2>3. ASSUME NEW u \in Threads, NEW c, spawned' = spawned \cup {u},
                 slots' = [slots EXCEPT ![u] = c]
          PROVE  EmptyUntilSpawned'
      BY <2>3 DEF EmptyUntilSpawned, TypeOK
    <2>4. ASSUME NEW t \in Threads, NEW g \in Requests, GrantCurrent(t, g[1], g[2])
          PROVE  EmptyUntilSpawned'
      BY Zenon, <2>2, <2>4 DEF GrantCurrent, Ready
    <2>5. ASSUME NEW t \in Threads, NEW ask \in SUBSET Rights, NEW to \in Threads,
                 PushDerived(t, ask, to)
          PROVE  EmptyUntilSpawned'
      BY Zenon, <2>2, <2>5 DEF PushDerived
    <2>6. ASSUME NEW t \in Threads, NEW u \in Threads, NEW g \in Requests, NEW h \in Requests,
                 SpawnWithCapabilities(t, u, g, h)
          PROVE  EmptyUntilSpawned'
      BY Zenon, <2>3, <2>6 DEF SpawnWithCapabilities
    <2>7. ASSUME NEW t \in Threads, NEW u \in Threads, NEW g \in Requests,
                 NEW m \in SUBSET Kinds, SpawnWithManifest(t, u, g, m)
          PROVE  EmptyUntilSpawned'
      BY ZenonT(40), <2>3, <2>7 DEF SpawnWithManifest
    <2>8. ASSUME NEW t \in Threads,
                 \/ \E k \in Kinds : CreateObject(t, k)
                 \/ \E i \in 1..(MaxSlots + 1) : BeginResolve(t, i)
                 \/ \E need \in Rights, deriving \in BOOLEAN : CheckGeneration(t, need, deriving)
                 \/ RecordDenied(t)
                 \/ \E ask \in SUBSET Rights : RejectAttenuation(t, ask)
                 \/ \E o \in ObjectIds, destroy \in BOOLEAN : Revoke(t, o, destroy)
                 \/ RecordRevoke(t)
          PROVE  UNCHANGED <<slots, spawned>>
      <3>1. \A k \in Kinds : CreateObject(t, k) => UNCHANGED <<slots, spawned>>
        BY DEF CreateObject
      <3>2. \A i \in 1..(MaxSlots + 1) : BeginResolve(t, i) => UNCHANGED <<slots, spawned>>
        BY DEF BeginResolve
      <3>3. \A need \in Rights, deriving \in BOOLEAN :
               CheckGeneration(t, need, deriving) => UNCHANGED <<slots, spawned>>
        BY DEF CheckGeneration
      <3>4. RecordDenied(t) \/ RecordRevoke(t) => UNCHANGED <<slots, spawned>>
        BY DEF RecordDenied, RecordRevoke
      <3>5. \A ask \in SUBSET Rights : RejectAttenuation(t, ask) => UNCHANGED <<slots, spawned>>
        BY DEF RejectAttenuation
      <3>6. \A o \in ObjectIds, destroy \in BOOLEAN :
               Revoke(t, o, destroy) => UNCHANGED <<slots, spawned>>
        BY DEF Revoke
      <3> QED BY SMTT(40), <2>8, <3>1, <3>2, <3>3, <3>4, <3>5, <3>6
    <2> QED BY SMTT(40), <2>1, <2>4, <2>5, <2>6, <2>7, <2>8 DEF Next, vars
  <1> QED BY <1>1, <1>2, CapInvariant, PTL DEF Spec

(* No step changes or removes an entry of a table: tables only grow.       *)
LEMMA TablesGrow ==
  ASSUME TypeOK, EmptyUntilSpawned, [Next]_vars, NEW t \in Threads, NEW i \in DOMAIN slots[t]
  PROVE  i \in DOMAIN slots'[t] /\ slots'[t][i] = slots[t][i]
  <1>1. slots[t] \in Seq(CapType) /\ t \in spawned
    BY DEF TypeOK, EmptyUntilSpawned
  <1>2. CASE slots' = slots
    BY <1>2
  <1>3. ASSUME NEW u \in Threads, NEW c, slots' = [slots EXCEPT ![u] = Append(slots[u], c)]
        PROVE  i \in DOMAIN slots'[t] /\ slots'[t][i] = slots[t][i]
    <2>1. slots'[t] = slots[t] \/ slots'[t] = Append(slots[t], c)
      BY <1>3 DEF TypeOK
    <2> QED BY SMTT(40), <1>1, <2>1
  <1>4. ASSUME NEW u \in Threads \ spawned, NEW s, slots' = [slots EXCEPT ![u] = s]
        PROVE  i \in DOMAIN slots'[t] /\ slots'[t][i] = slots[t][i]
    BY <1>1, <1>4 DEF TypeOK
  <1> QED
    BY ZenonT(40), <1>2, <1>3, <1>4
    DEF Next, vars, CreateObject, GrantCurrent, SpawnWithCapabilities, SpawnWithManifest,
        BeginResolve, CheckGeneration, RecordDenied, RejectAttenuation, PushDerived,
        Revoke, RecordRevoke

(* A thread's operation is advanced only by the thread itself, and past    *)
(* its begin only by the step its program counter stands at.               *)
LEMMA OwnOp ==
  ASSUME TypeOK, [Next]_vars, NEW t \in Threads, op'[t] # op[t], op[t].pc # "idle"
  PROVE  \/ \E need \in Rights, deriving \in BOOLEAN : CheckGeneration(t, need, deriving)
         \/ RecordDenied(t) \/ RecordRevoke(t)
         \/ \E ask \in SUBSET Rights : RejectAttenuation(t, ask)
         \/ \E ask \in SUBSET Rights, to \in Threads : PushDerived(t, ask, to)
  <1>1. op' # op
    OBVIOUS
  <1>2. PICK v \in Threads :
          \/ \E i \in 1..(MaxSlots + 1) : BeginResolve(v, i)
          \/ \E need \in Rights, deriving \in BOOLEAN : CheckGeneration(v, need, deriving)
          \/ RecordDenied(v)
          \/ \E ask \in SUBSET Rights : RejectAttenuation(v, ask)
          \/ \E ask \in SUBSET Rights, to \in Threads : PushDerived(v, ask, to)
          \/ \E o \in ObjectIds, destroy \in BOOLEAN : Revoke(v, o, destroy)
          \/ RecordRevoke(v)
    BY Zenon, <1>1 DEF Next, vars, CreateObject, GrantCurrent, SpawnWithCapabilities, SpawnWithManifest
  <1>3. \E o : op' = [op EXCEPT ![v] = o]
    BY Zenon, <1>2 DEF BeginResolve, CheckGeneration, RecordDenied, RejectAttenuation, PushDerived,
                Revoke, RecordRevoke
  <1>4. v = t
    BY <1>3 DEF TypeOK
  <1> QED BY Zenon, <1>2, <1>4 DEF BeginResolve, Revoke, Ready

(* Revocation is final for every number of objects, threads and hops: what *)
(* revoke() invalidates nothing makes valid again, and a derive() caught   *)
(* between its check and its push adds nothing that resolves.              *)
THEOREM CapRevocationIsFinal == Spec => RevocationIsFinal
  <1> DEFINE A == /\ \A t \in Threads : \A i \in DOMAIN slots[t] :
                        ~Live(slots[t][i]) => ~Live(slots[t][i])'
                  /\ \A t \in Threads : \A i \in DOMAIN slots'[t] \ DOMAIN slots[t] :
                        \A u \in Threads :
                           op[u].pc = "derive" /\ op'[u].pc = "idle" /\ ~Live(op[u].cap)
                           => ~Live(slots[t][i])'
  <1>1. CapInv /\ EmptyUntilSpawned /\ [Next]_vars => A
    <2> SUFFICES ASSUME CapInv, EmptyUntilSpawned, [Next]_vars PROVE A
      OBVIOUS
    <2>0. TypeOK
      BY DEF CapInv
    <2>1. ASSUME NEW t \in Threads, NEW i \in DOMAIN slots[t], ~Live(slots[t][i])
          PROVE  ~Live(slots[t][i])'
      <3>1. PICK c \in CapType : c = slots[t][i] /\ CapOK(c)
        BY SMTT(40), <2>0, ElementIn DEF TypeOK, CapInv
      <3>2. ~Live(c)'
        BY <2>0, <2>1, <3>1, NextObjects, DeadStaysDead DEF CapOK
      <3>3. slots'[t][i] = c
        BY SMTT(40), <2>0, <3>1, TablesGrow
      <3> QED BY SMTT(40), <3>2, <3>3 DEF Live, Exists
    <2>2. ASSUME NEW t \in Threads, NEW i \in DOMAIN slots'[t] \ DOMAIN slots[t],
                 NEW u \in Threads, op[u].pc = "derive", op'[u].pc = "idle",
                 ~Live(op[u].cap)
          PROVE  ~Live(slots[t][i])'
      <3>1. slots' # slots
        OBVIOUS
      <3>2. PICK ask \in SUBSET Rights, to \in Threads : PushDerived(u, ask, to)
        <4>1. op'[u] # op[u]
          BY SMTT(40), <2>2
        <4> QED
          BY ZenonT(40), <2>0, <2>2, <3>1, <4>1, OwnOp
          DEF CheckGeneration, RecordDenied, RecordRevoke, RejectAttenuation
      <3> DEFINE c == [op[u].cap EXCEPT !.rights = ask, !.derived = TRUE]
      <3>3. op[u].cap \in CapType
        BY Zenon, <2>0, <2>2 DEF TypeOK, OpType, CapInv, OpOK
      <3>4. c.object_id = op[u].cap.object_id /\ c.generation = op[u].cap.generation
        BY SMTT(40), <3>3 DEF CapType
      <3> HIDE DEF c
      <3>5. slots' = [slots EXCEPT ![to] = Append(slots[to], c)] /\ objects' = objects
        BY SMTT(40), <3>2 DEF PushDerived, c
      <3>6. t = to /\ slots[t] \in Seq(CapType)
        BY <2>0, <2>2, <3>5 DEF TypeOK
      <3>7. slots'[t] = Append(slots[t], c)
        BY <2>0, <3>5, <3>6 DEF TypeOK
      <3>8. slots'[t][i] = c
        <4>1. i \in DOMAIN Append(slots[t], c) \ DOMAIN slots[t]
          BY Zenon, <3>7
        <4>2. Append(slots[t], c)[i] = c
          BY Zenon, <3>6, <4>1, AppendedLast
        <4> QED BY Zenon, <3>7, <4>2
      <3> QED BY Zenon, <2>2, <3>4, <3>5, <3>8 DEF Live, Exists
    <2> QED BY SMTT(40), <2>1, <2>2
  <1> QED BY <1>1, CapInvariant, EmptyInvariant, PTL DEF Spec, RevocationIsFinal

(* A resolve() that starts after a revocation never succeeds on a copy of  *)
(* what was revoked, however the threads interleave.                       *)
THEOREM CapRevokedNeverResolves == Spec => RevokedNeverResolves
  <1> DEFINE A == \A t \in Threads : op[t].pc = "check" /\ op'[t].res = "Ok" => op[t].fresh
  <1>1. CapInv /\ [Next]_vars => A
    <2> SUFFICES ASSUME CapInv, [Next]_vars, NEW t \in Threads,
                        op[t].pc = "check", op'[t].res = "Ok"
                 PROVE  op[t].fresh
      OBVIOUS
    <2>0. TypeOK /\ op[t].res = "Pending" /\ (Live(op[t].cap) => op[t].fresh)
      BY DEF CapInv, OpOK
    <2>1. op'[t] # op[t]
      BY <2>0
    <2>2. \E need \in Rights, deriving \in BOOLEAN : CheckGeneration(t, need, deriving)
      BY Zenon, <2>0, <2>1, OwnOp DEF RecordDenied, RecordRevoke, RejectAttenuation, PushDerived
    <2>3. Live(op[t].cap)
      BY <2>0, <2>2 DEF CheckGeneration, TypeOK, Denying, Idle
    <2> QED BY SMTT(40), <2>0, <2>3
  <1> QED BY <1>1, CapInvariant, PTL DEF Spec, RevokedNeverResolves

(* Both together, for every number of objects, threads and hops: what      *)
(* revoke() ended stays ended.                                             *)
THEOREM CapRevocationStands == Spec => RevocationStands
  BY CapRevocationIsFinal, CapRevokedNeverResolves DEF RevocationStands

-----------------------------------------------------------------------------
(* The audit log.  The ring holds the newest records, numbered without a   *)
(* gap up to the one before nextSeq.                                       *)
Newest(s, n) ==
  /\ Len(s) = IF n < MaxRecords THEN n ELSE MaxRecords
  /\ \A i \in DOMAIN s : s[i].seq = n - Len(s) + i - 1

(* Numbered records appended to such a ring, and the oldest dropped, leave *)
(* such a ring with the last of them newest.                               *)
LEMMA RingKept ==
  ASSUME NEW S, NEW s \in Seq(S), NEW new \in Seq(S), NEW n \in Nat, Newest(s, n),
         \A i \in 1..Len(new) : new[i].seq = n + i - 1
  PROVE  /\ Newest(Keep(s \o new), n + Len(new))
         /\ Len(new) > 0 => Keep(s \o new)[Len(Keep(s \o new))] = new[Len(new)]
  <1> DEFINE both == s \o new
             m == Len(s)
             k == Len(new)
             lost == m + k - MaxRecords
  <1>1. /\ both \in Seq(S) /\ Len(both) = m + k /\ m \in Nat /\ k \in Nat
        /\ \A i \in 1..(m + k) : both[i] = IF i <= m THEN s[i] ELSE new[i - m]
    <2>1. both \in Seq(S) /\ Len(both) = m + k
      OBVIOUS
    <2>2. m \in Nat /\ k \in Nat
      OBVIOUS
    <2>3. \A i \in 1..(m + k) : both[i] = IF i <= m THEN s[i] ELSE new[i - m]
      OBVIOUS
    <2> QED BY Zenon, <2>1, <2>2, <2>3
  <1>2. m = (IF n < MaxRecords THEN n ELSE MaxRecords) /\ \A i \in 1..m : s[i].seq = n - m + i - 1
    <2>1. DOMAIN s = 1..m
      OBVIOUS
    <2> QED BY Zenon, <2>1 DEF Newest
  <1>3. \A i \in 1..(m + k) : both[i].seq = n - m + i - 1
    <2> SUFFICES ASSUME NEW i \in 1..(m + k) PROVE both[i].seq = n - m + i - 1
      BY Zenon
    <2>1. CASE i <= m
      BY <1>1, <1>2, <2>1
    <2>2. CASE ~(i <= m)
      <3>1. i - m \in 1..k /\ both[i] = new[i - m]
        BY <1>1, <2>2
      <3>2. new[i - m].seq = n + (i - m) - 1
        BY Zenon, <3>1
      <3> QED BY <1>1, <3>1, <3>2
    <2> QED BY Zenon, <2>1, <2>2
  <1>4. k > 0 => both[m + k] = new[k]
    BY <1>1
  <1> HIDE DEF both
  <1>5. CASE m + k > MaxRecords
    <2> DEFINE r == SubSeq(both, lost + 1, m + k)
    <2>1. Keep(both) = r /\ lost \in Nat
      <3>1. lost \in Nat
        BY <1>1, <1>5, RecordsBound
      <3>2. Len(both) = m + k /\ Len(both) > MaxRecords
        BY Zenon, <1>1, <1>5
      <3>3. Keep(both) = SubSeq(both, Len(both) - MaxRecords + 1, Len(both))
        BY Zenon, <3>2 DEF Keep
      <3>4. Len(both) - MaxRecords + 1 = lost + 1
        BY <1>1, RecordsBound
      <3> QED BY Zenon, <3>1, <3>2, <3>3, <3>4
    <2>2. Len(r) = MaxRecords /\ \A i \in 1..MaxRecords : r[i] = both[lost + i]
      BY <1>1, <1>5, <2>1, RecordsBound
    <2>3. DOMAIN r = 1..MaxRecords
      BY <1>1, <1>5, <2>1, RecordsBound
    <2> HIDE DEF r
    <2>4. Len(r) = IF n + k < MaxRecords THEN n + k ELSE MaxRecords
      BY <1>1, <1>2, <1>5, <2>2
    <2>5. ASSUME NEW i \in 1..MaxRecords
          PROVE  r[i].seq = (n + k) - Len(r) + i - 1
      <3>1. lost + i \in 1..(m + k)
        BY <1>1, <2>1, RecordsBound
      <3>2. both[lost + i].seq = n - m + (lost + i) - 1
        BY Zenon, <1>3, <3>1
      <3>3. r[i] = both[lost + i]
        BY Zenon, <2>2
      <3> QED BY <1>1, <2>2, <3>2, <3>3
    <2>6. r[Len(r)] = both[m + k]
      <3>1. MaxRecords \in 1..MaxRecords /\ lost + MaxRecords = m + k
        BY <1>1, RecordsBound
      <3> QED BY <2>2, <3>1
    <2> QED BY Zenon, <1>4, <2>1, <2>3, <2>4, <2>5, <2>6 DEF Newest, both
  <1>6. CASE ~(m + k > MaxRecords)
    <2>1. Keep(both) = both /\ DOMAIN both = 1..(m + k)
      BY <1>1, <1>6 DEF Keep
    <2>2. Len(both) = IF n + k < MaxRecords THEN n + k ELSE MaxRecords
      BY <1>1, <1>2, <1>6, RecordsBound
    <2>3. m = n \/ k = 0
      BY <1>1, <1>2, <1>6
    <2>4. ASSUME NEW i \in 1..(m + k)
          PROVE  both[i].seq = (n + k) - Len(both) + i - 1
      <3>1. both[i].seq = n - m + i - 1
        BY Zenon, <1>3
      <3> QED BY <1>1, <2>3, <3>1
    <2>5. k > 0 => both[Len(both)] = new[k]
      BY <1>1, <1>4
    <2> QED BY Zenon, <2>1, <2>2, <2>4, <2>5 DEF Newest, both
  <1> QED BY Zenon, <1>5, <1>6

(* What audit::record leaves.                                              *)
LEMMA RecordKeeps ==
  ASSUME TypeOK, Newest(log, nextSeq), NEW t \in Threads, NEW ev \in Seq(Events), Record(t, ev)
  PROVE  /\ Newest(log', nextSeq') /\ nextSeq' = nextSeq + Len(ev)
         /\ Len(ev) = 1 => log'[Len(log')] = [seq |-> nextSeq, actor |-> t, event |-> ev[1]]
  <1> DEFINE new == [i \in 1..Len(ev) |-> [seq |-> nextSeq + i - 1, actor |-> t, event |-> ev[i]]]
  <1>1. nextSeq \in Nat /\ nextSeq + Len(ev) <= MaxSeq /\ Len(ev) \in Nat /\ log \in Seq(RecordType)
    BY DEF TypeOK, Record
  <1>2. \A i \in 1..Len(ev) : nextSeq + i - 1 \in 0..MaxSeq /\ ev[i] \in Events
    BY <1>1, NatBounds
  <1>3. \A i \in 1..Len(ev) : new[i] \in RecordType
    BY <1>2 DEF RecordType
  <1>4. new \in Seq(RecordType) /\ Len(new) = Len(ev)
    BY <1>1, <1>3
  <1>5. \A i \in 1..Len(new) : new[i].seq = nextSeq + i - 1
    BY <1>4
  <1>6. Len(ev) = 1 => new[1] = [seq |-> nextSeq, actor |-> t, event |-> ev[1]]
    BY <1>1
  <1>7. log' = Keep(log \o new) /\ nextSeq' = nextSeq + Len(ev)
    BY Zenon DEF Record
  <1> HIDE DEF new
  <1>8. /\ Newest(Keep(log \o new), nextSeq + Len(new))
        /\ Len(new) > 0 => Keep(log \o new)[Len(Keep(log \o new))] = new[Len(new)]
    BY Zenon, <1>1, <1>4, <1>5, RingKept
  <1>9. Len(ev) = 1 => Len(ev) > 0
    BY <1>1
  <1> QED BY Zenon, <1>4, <1>6, <1>7, <1>8, <1>9

(* Every step leaves the log alone or is one call of audit::record with a  *)
(* list of events.                                                         *)
LEMMA LogStep ==
  ASSUME [Next]_vars
  PROVE  \/ log' = log /\ nextSeq' = nextSeq
         \/ \E t \in Threads : \E ev \in Seq(Events) : Record(t, ev)
  <1>1. \A e \in Events : <<e>> \in Seq(Events)
    OBVIOUS
  <1>2. \A e, f \in Seq(Events) : e \o f \in Seq(Events)
    OBVIOUS
  <1>3. <<>> \in Seq(Events)
    OBVIOUS
  <1>4. {"Grant", "Derive", "Revoke", "Denied", "PolicyDenied", "ManifestDenied"} \subseteq Events
    BY Zenon DEF Events
  <1>5. /\ <<"Grant">> \in Seq(Events) /\ <<"Derive">> \in Seq(Events)
        /\ <<"Revoke">> \in Seq(Events) /\ <<"Denied">> \in Seq(Events)
        /\ <<"PolicyDenied">> \in Seq(Events) /\ <<"ManifestDenied">> \in Seq(Events)
    BY Zenon, <1>1, <1>4
  <1>6. CASE UNCHANGED vars
    BY Zenon, <1>6 DEF vars
  <1>7. ASSUME NEW t \in Threads, NEW g \in Requests, GrantCurrent(t, g[1], g[2])
        PROVE  \E ev \in Seq(Events) : Record(t, ev)
    BY Zenon, <1>5, <1>7 DEF GrantCurrent
  <1>8. ASSUME NEW t \in Threads, NEW u \in Threads, NEW g \in Requests, NEW h \in Requests,
               SpawnWithCapabilities(t, u, g, h)
        PROVE  \E ev \in Seq(Events) : Record(t, ev)
    <2>1. PolicyEvent(g) \in Seq(Events) /\ PolicyEvent(h) \in Seq(Events)
      BY Zenon, <1>5 DEF PolicyEvent
    <2> QED BY Zenon, <1>2, <1>8, <2>1 DEF SpawnWithCapabilities
  <1>9. ASSUME NEW t \in Threads, NEW u \in Threads, NEW g \in Requests, NEW m \in SUBSET Kinds,
               SpawnWithManifest(t, u, g, m)
        PROVE  \E ev \in Seq(Events) : Record(t, ev)
    <2>1. ManifestEvent(g, m) \in Seq(Events)
      BY Zenon, <1>3, <1>5 DEF ManifestEvent
    <2> QED BY Zenon, <1>9, <2>1 DEF SpawnWithManifest
  <1>10. ASSUME NEW t \in Threads,
                \/ RecordDenied(t) \/ RecordRevoke(t)
                \/ \E ask \in SUBSET Rights, to \in Threads : PushDerived(t, ask, to)
         PROVE  \E ev \in Seq(Events) : Record(t, ev)
    BY Zenon, <1>5, <1>10 DEF RecordDenied, RecordRevoke, PushDerived
  <1>11. ASSUME NEW t \in Threads,
                \/ \E k \in Kinds : CreateObject(t, k)
                \/ \E i \in 1..(MaxSlots + 1) : BeginResolve(t, i)
                \/ \E need \in Rights, deriving \in BOOLEAN : CheckGeneration(t, need, deriving)
                \/ \E ask \in SUBSET Rights : RejectAttenuation(t, ask)
                \/ \E o \in ObjectIds, destroy \in BOOLEAN : Revoke(t, o, destroy)
         PROVE  log' = log /\ nextSeq' = nextSeq
    BY Zenon, <1>11 DEF CreateObject, BeginResolve, CheckGeneration, RejectAttenuation, Revoke
  <1> QED BY Zenon, <1>6, <1>7, <1>8, <1>9, <1>10, <1>11 DEF Next

LEMMA LogInvariant == Spec => []Newest(log, nextSeq)
  <1>1. Init => Newest(log, nextSeq)
    BY RecordsBound DEF Init, Newest
  <1>2. CapInv /\ Newest(log, nextSeq) /\ [Next]_vars => Newest(log, nextSeq)'
    <2> SUFFICES ASSUME CapInv, Newest(log, nextSeq), [Next]_vars PROVE Newest(log, nextSeq)'
      BY Zenon
    <2>1. TypeOK
      BY Zenon DEF CapInv
    <2>2. CASE log' = log /\ nextSeq' = nextSeq
      BY Zenon, <2>2 DEF Newest
    <2>3. ASSUME NEW t \in Threads, NEW ev \in Seq(Events), Record(t, ev)
          PROVE  Newest(log, nextSeq)'
      BY Zenon, <2>1, <2>3, RecordKeeps DEF Newest
    <2> QED BY Zenon, <2>2, <2>3, LogStep
  <1> QED BY <1>1, <1>2, CapInvariant, PTL DEF Spec

(* An operation that ends in a denial ends with RecordDenied.              *)
LEMMA DenialRecorded ==
  ASSUME CapInv, [Next]_vars, NEW t \in Threads, op'[t] # op[t], op'[t].pc = "idle",
         op'[t].res \in {"NoSuchCapability", "InsufficientRights", "Revoked"}
  PROVE  RecordDenied(t)
  <1>0. TypeOK /\ op \in [Threads -> OpType]
    BY Zenon DEF CapInv, TypeOK
  <1>1. op[t].pc # "idle"
    <2> SUFFICES ASSUME op[t].pc = "idle" PROVE FALSE
      BY Zenon
    <2>1. op' # op
      BY Zenon
    <2>2. PICK v \in Threads :
          \/ \E i \in 1..(MaxSlots + 1) : BeginResolve(v, i)
          \/ \E need \in Rights, deriving \in BOOLEAN : CheckGeneration(v, need, deriving)
          \/ RecordDenied(v)
          \/ \E ask \in SUBSET Rights : RejectAttenuation(v, ask)
          \/ \E ask \in SUBSET Rights, to \in Threads : PushDerived(v, ask, to)
          \/ \E o \in ObjectIds, destroy \in BOOLEAN : Revoke(v, o, destroy)
          \/ RecordRevoke(v)
      BY Zenon, <2>1 DEF Next, vars, CreateObject, GrantCurrent, SpawnWithCapabilities, SpawnWithManifest
    <2>3. \E o : op' = [op EXCEPT ![v] = o]
      BY Zenon, <2>2 DEF BeginResolve, CheckGeneration, RecordDenied, RejectAttenuation, PushDerived,
                Revoke, RecordRevoke
    <2>4. v = t
      BY <1>0, <2>3
    <2>5. \/ \E i \in 1..(MaxSlots + 1) : BeginResolve(t, i)
          \/ \E o \in ObjectIds, destroy \in BOOLEAN : Revoke(t, o, destroy)
      BY Zenon, <2>2, <2>4 DEF CheckGeneration, RecordDenied, RejectAttenuation, PushDerived, RecordRevoke
    <2>6. op'[t].pc \in {"deny", "check", "revoked"}
      <3>1. ASSUME NEW i \in 1..(MaxSlots + 1), BeginResolve(t, i)
            PROVE  op'[t].pc \in {"deny", "check", "revoked"}
        BY <1>0, <3>1 DEF BeginResolve, Denying, Idle
      <3>2. ASSUME NEW o \in ObjectIds, NEW destroy \in BOOLEAN, Revoke(t, o, destroy)
            PROVE  op'[t].pc \in {"deny", "check", "revoked"}
        BY <1>0, <3>2 DEF Revoke, Idle
      <3> QED BY Zenon, <2>5, <3>1, <3>2
    <2> QED BY <2>6
  <1>2. \/ \E need \in Rights, deriving \in BOOLEAN : CheckGeneration(t, need, deriving)
        \/ RecordDenied(t) \/ RecordRevoke(t)
        \/ \E ask \in SUBSET Rights : RejectAttenuation(t, ask)
        \/ \E ask \in SUBSET Rights, to \in Threads : PushDerived(t, ask, to)
    BY Zenon, <1>0, <1>1, OwnOp
  <1>3. ~ \E need \in Rights, deriving \in BOOLEAN : CheckGeneration(t, need, deriving)
    <2> SUFFICES ASSUME NEW need \in Rights, NEW deriving \in BOOLEAN, CheckGeneration(t, need, deriving)
                 PROVE  FALSE
      BY Zenon
    <2>1. \/ \E r \in Results : op'[t] = Denying(r)
          \/ op'[t].pc = "derive"
          \/ op'[t] = Returned("Ok")
      BY <1>0 DEF CheckGeneration, OpType, Results
    <2> QED BY Zenon, <2>1 DEF Denying, Returned, Idle
  <1>4. RecordRevoke(t) \/ (\E ask \in SUBSET Rights, to \in Threads : PushDerived(t, ask, to)) => op'[t] = Idle
    BY Zenon, <1>0 DEF RecordRevoke, PushDerived
  <1>5. (\E ask \in SUBSET Rights : RejectAttenuation(t, ask)) => op'[t] = Returned("AttenuationViolation")
    BY <1>0 DEF RejectAttenuation
  <1>6. Idle.res = "Ok" /\ Returned("AttenuationViolation").res = "AttenuationViolation"
    BY DEF Idle, Returned
  <1>7. "Ok" \notin {"NoSuchCapability", "InsufficientRights", "Revoked"}
        /\ "AttenuationViolation" \notin {"NoSuchCapability", "InsufficientRights", "Revoked"}
    OBVIOUS
  <1> QED BY Zenon, <1>2, <1>3, <1>4, <1>5, <1>6, <1>7

(* No refusal of resolve() is silent, and the audit ring loses only its    *)
(* oldest records, for every number of threads and every MAX_RECORDS.      *)
THEOREM CapDenialsAudited == Spec => DenialsAudited
  <1> DEFINE A ==
        /\ \A t \in Threads :
             /\ op'[t] # op[t] /\ op'[t].pc = "idle"
             /\ op'[t].res \in {"NoSuchCapability", "InsufficientRights", "Revoked"}
             => /\ nextSeq' = nextSeq + 1
                /\ log'[Len(log')] = [seq |-> nextSeq, actor |-> t, event |-> "Denied"]
        /\ Len(log') = IF nextSeq' < MaxRecords THEN nextSeq' ELSE MaxRecords
        /\ \A i \in DOMAIN log' : log'[i].seq = nextSeq' - Len(log') + i - 1
  <1>1. CapInv /\ Newest(log, nextSeq) /\ Newest(log, nextSeq)' /\ [Next]_vars => A
    <2> SUFFICES ASSUME CapInv, Newest(log, nextSeq), Newest(log, nextSeq)', [Next]_vars PROVE A
      BY Zenon
    <2>1. ASSUME NEW t \in Threads, op'[t] # op[t], op'[t].pc = "idle",
                 op'[t].res \in {"NoSuchCapability", "InsufficientRights", "Revoked"}
          PROVE  /\ nextSeq' = nextSeq + 1
                 /\ log'[Len(log')] = [seq |-> nextSeq, actor |-> t, event |-> "Denied"]
      <3>1. RecordDenied(t)
        BY Zenon, <2>1, DenialRecorded
      <3>2. Record(t, <<"Denied">>) /\ TypeOK
        BY Zenon, <3>1 DEF RecordDenied, CapInv
      <3>3. <<"Denied">> \in Seq(Events) /\ Len(<<"Denied">>) = 1 /\ <<"Denied">>[1] = "Denied"
        BY DEF Events
      <3> QED BY Zenon, <3>2, <3>3, RecordKeeps
    <2> QED BY Zenon, <2>1 DEF Newest
  <1> QED BY <1>1, CapInvariant, LogInvariant, PTL DEF Spec, DenialsAudited

-----------------------------------------------------------------------------
(* The text programs. *)

\* The least and the greatest of two numbers.
LEMMA LeastOfTwo ==
    ASSUME NEW a \in Int, NEW b \in Int
    PROVE  Min({a, b}) = IF a <= b THEN a ELSE b
<1>1. PICK m : m = IF a <= b THEN a ELSE b
  BY Zenon
<1>2. m \in {a, b} /\ \A y \in {a, b} : m <= y
  BY <1>1
<1>3. \A x \in {a, b} : (\A y \in {a, b} : x <= y) => x = m
  BY <1>1
<1> QED BY Zenon, <1>1, <1>2, <1>3 DEF Min

LEMMA GreatestOfTwo ==
    ASSUME NEW a \in Int, NEW b \in Int
    PROVE  Max({a, b}) = IF a >= b THEN a ELSE b
<1>1. PICK m : m = IF a >= b THEN a ELSE b
  BY Zenon
<1>2. m \in {a, b} /\ \A y \in {a, b} : m >= y
  BY <1>1
<1>3. \A x \in {a, b} : (\A y \in {a, b} : x >= y) => x = m
  BY <1>1
<1> QED BY Zenon, <1>1, <1>2, <1>3 DEF Max

-----------------------------------------------------------------------------
(* A line is an array of cells and the number of them in use; its text is  *)
(* the sequence of those.                                                  *)
Glyphs == {Nul, Space, "A", "a", "1", "!"}
Line == [Columns -> Glyphs]

LEMMA SizesAre == Cols \in Nat /\ Cols >= 1 /\ TabWidth \in Nat /\ TabWidth >= 1 /\ TabWidth <= Cols
BY TextSizes

LEMMA ColumnsAre == \A c : c \in Columns <=> c \in Nat /\ c < Cols
BY SizesAre DEF Columns

LEMMA TextIs ==
    ASSUME NEW b \in Line, NEW n \in 0..Cols
    PROVE  /\ Leading(b, n) \in Seq(Glyphs)
           /\ Len(Leading(b, n)) = n
           /\ \A i \in 1..n : Leading(b, n)[i] = b[i - 1]
<1>1. n \in Nat /\ n <= Cols
  BY SizesAre
<1>2. \A i \in 1..n : i - 1 \in Columns
  <2>1. \A i \in 1..n : i - 1 \in Nat /\ i - 1 < Cols
    BY <1>1, SizesAre
  <2> QED BY Zenon, <2>1, ColumnsAre
<1>3. \A i \in 1..n : b[i - 1] \in Glyphs
  BY <1>2 DEF Line
<1>4. Leading(b, n) \in [1..n -> Glyphs]
  BY <1>3 DEF Leading
<1>5. Leading(b, n) \in Seq(Glyphs) /\ Len(Leading(b, n)) = n
  BY <1>1, <1>4
<1> QED BY <1>5 DEF Leading

\* Two texts are equal when their lengths and their characters are.
LEMMA TextIsAlso ==
    ASSUME NEW b \in Line, NEW n \in 0..Cols, NEW s \in Seq(Glyphs), Len(s) = n,
           \A i \in 1..n : s[i] = b[i - 1]
    PROVE  Leading(b, n) = s
<1>1. \A i \in 1..n : Leading(b, n)[i] = s[i]
  BY Zenon, TextIs
<1>2. DOMAIN s = 1..n /\ DOMAIN Leading(b, n) = 1..n
  BY DEF Leading
<1>3. s = [i \in 1..n |-> s[i]]
  BY <1>2
<1> QED BY <1>1, <1>3 DEF Leading

LEMMA JoinedIs ==
    ASSUME NEW u \in Seq(Glyphs), NEW v \in Seq(Glyphs)
    PROVE  /\ u \o v \in Seq(Glyphs)
           /\ Len(u \o v) = Len(u) + Len(v)
           /\ \A i \in 1..Len(u) + Len(v) : (u \o v)[i] = IF i <= Len(u) THEN u[i] ELSE v[i - Len(u)]
OBVIOUS

Inserts(s, at, n, ch, k, r) ==
  /\ s \in Seq(Glyphs) /\ at \in 0..Len(s) /\ n \in Nat /\ ch \in Glyphs
  /\ k = (IF Len(s) + n <= Cols THEN Len(s) + n ELSE Cols)
  /\ r = Inserted(s, at, n, ch)

HasInserted(s, at, n, ch, k, r) ==
  /\ r \in Seq(Glyphs)
  /\ Len(r) = k
  /\ \A i \in 1..k : r[i] = IF i <= at THEN s[i] ELSE IF i <= at + n THEN ch ELSE s[i - n]

LEMMA InsertedIs ==
    ASSUME NEW s, NEW at, NEW n, NEW ch, NEW k, NEW r, Inserts(s, at, n, ch, k, r)
    PROVE  HasInserted(s, at, n, ch, k, r)
<1> USE DEF Inserts
<1> DEFINE a == SubSeq(s, 1, at)
           m == [i \in 1..n |-> ch]
           z == SubSeq(s, at + 1, Len(s))
           long == a \o m \o z
<1>1. at \in Nat /\ Len(s) \in Nat /\ at <= Len(s)
  OBVIOUS
<1>2. a \in Seq(Glyphs) /\ Len(a) = at /\ \A i \in 1..at : a[i] = s[i]
  BY <1>1
<1>3. m \in Seq(Glyphs) /\ Len(m) = n /\ \A i \in 1..n : m[i] = ch
  <2>1. m \in [1..n -> Glyphs]
    OBVIOUS
  <2> QED BY <2>1
<1>4. z \in Seq(Glyphs) /\ Len(z) = Len(s) - at /\ \A i \in 1..Len(s) - at : z[i] = s[at + i]
  BY <1>1
<1> HIDE DEF a, m, z
<1>5. a \o m \in Seq(Glyphs) /\ Len(a \o m) = at + n
  BY Zenon, <1>2, <1>3, JoinedIs
<1>6. \A i \in 1..at + n : (a \o m)[i] = IF i <= at THEN s[i] ELSE ch
  <2>1. \A i \in 1..at + n : (a \o m)[i] = IF i <= at THEN a[i] ELSE m[i - at]
    BY Zenon, <1>2, <1>3, JoinedIs
  <2>2. \A i \in 1..at + n : IF i <= at THEN i \in 1..at ELSE i - at \in 1..n
    BY <1>1
  <2> QED BY Zenon, <1>2, <1>3, <2>1, <2>2
<1>7. PICK u : u = a \o m
  BY Zenon
<1>8. u \in Seq(Glyphs) /\ Len(u) = at + n /\ \A i \in 1..at + n : u[i] = IF i <= at THEN s[i] ELSE ch
  BY Zenon, <1>5, <1>6, <1>7
<1>9. Len(u) + Len(z) = Len(s) + n
  BY <1>1, <1>4, <1>8
<1>10. /\ u \o z \in Seq(Glyphs) /\ Len(u \o z) = Len(s) + n
       /\ \A i \in 1..Len(s) + n : (u \o z)[i] = IF i <= at + n THEN u[i] ELSE z[i - (at + n)]
  <2>1. /\ u \o z \in Seq(Glyphs) /\ Len(u \o z) = Len(u) + Len(z)
        /\ \A i \in 1..Len(u) + Len(z) : (u \o z)[i] = IF i <= Len(u) THEN u[i] ELSE z[i - Len(u)]
    BY Zenon, <1>4, <1>8, JoinedIs
  <2>2. PICK w, q : w = Len(u) + Len(z) /\ q = Len(u)
    BY Zenon
  <2>3. w = Len(s) + n /\ q = at + n
    BY Zenon, <1>8, <1>9, <2>2
  <2>4. /\ u \o z \in Seq(Glyphs) /\ Len(u \o z) = w
        /\ \A i \in 1..w : (u \o z)[i] = IF i <= q THEN u[i] ELSE z[i - q]
    BY Zenon, <2>1, <2>2
  <2> QED BY Zenon, <2>3, <2>4
<1>11. \A i \in 1..Len(s) + n : (u \o z)[i] = IF i <= at THEN s[i] ELSE IF i <= at + n THEN ch ELSE s[i - n]
  <2> SUFFICES ASSUME NEW i \in 1..Len(s) + n
               PROVE (u \o z)[i] = IF i <= at THEN s[i] ELSE IF i <= at + n THEN ch ELSE s[i - n]
    BY Zenon
  <2>1. CASE i <= at + n
    BY <1>1, <1>8, <1>10, <2>1
  <2>2. CASE ~(i <= at + n)
    <3>1. PICK j : j = i - (at + n)
      BY Zenon
    <3>2. j \in 1..Len(s) - at /\ at + j = i - n
      BY <1>1, <2>2, <3>1
    <3>3. z[j] = s[i - n]
      BY Zenon, <1>4, <3>2
    <3>4. (u \o z)[i] = z[j]
      BY Zenon, <1>10, <2>2, <3>1
    <3>5. ~(i <= at)
      BY <1>1, <2>2
    <3> QED BY Zenon, <2>2, <3>3, <3>4, <3>5
  <2> QED BY Zenon, <2>1, <2>2
<1>12. PICK v : v = u \o z
  BY Zenon
<1>13. v \in Seq(Glyphs) /\ Len(v) = Len(s) + n
  BY Zenon, <1>10, <1>12
<1>14. Min({Len(v), Cols}) = k
  BY <1>1, <1>13, SizesAre, LeastOfTwo
<1>15. k \in Nat /\ k <= Len(v)
  BY <1>1, <1>13, SizesAre
<1>16. SubSeq(v, 1, k) \in Seq(Glyphs) /\ Len(SubSeq(v, 1, k)) = k /\ \A i \in 1..k : SubSeq(v, 1, k)[i] = v[i]
  BY <1>13, <1>15
<1>17. r = SubSeq(v, 1, k)
  BY Zenon, <1>7, <1>12, <1>14 DEF Inserted, a, m, z
<1>18. \A i \in 1..k : i \in 1..Len(s) + n
  BY <1>1, <1>13, <1>15
<1>19. \A i \in 1..k : v[i] = IF i <= at THEN s[i] ELSE IF i <= at + n THEN ch ELSE s[i - n]
  BY Zenon, <1>11, <1>12, <1>18
<1> QED BY Zenon, <1>16, <1>17, <1>19 DEF HasInserted

LEMMA DeletedIs ==
    ASSUME NEW s \in Seq(Glyphs), NEW at \in 1..Len(s)
    PROVE  /\ Deleted(s, at) \in Seq(Glyphs)
           /\ Len(Deleted(s, at)) = Len(s) - 1
           /\ \A i \in 1..Len(s) - 1 : Deleted(s, at)[i] = IF i < at THEN s[i] ELSE s[i + 1]
<1>1. PICK u, z : u = SubSeq(s, 1, at - 1) /\ z = SubSeq(s, at + 1, Len(s))
  BY Zenon
<1>2. at \in Nat /\ Len(s) \in Nat /\ 1 <= at /\ at <= Len(s)
  OBVIOUS
<1>3. u \in Seq(Glyphs) /\ Len(u) = at - 1 /\ \A i \in 1..at - 1 : u[i] = s[i]
  BY <1>1, <1>2
<1>4. z \in Seq(Glyphs) /\ Len(z) = Len(s) - at /\ \A i \in 1..Len(s) - at : z[i] = s[at + i]
  BY <1>1, <1>2
<1>5. /\ u \o z \in Seq(Glyphs) /\ Len(u \o z) = Len(u) + Len(z)
      /\ \A i \in 1..Len(u) + Len(z) : (u \o z)[i] = IF i <= Len(u) THEN u[i] ELSE z[i - Len(u)]
  BY Zenon, <1>3, <1>4, JoinedIs
<1>6. PICK w, q : w = Len(u) + Len(z) /\ q = Len(u)
  BY Zenon
<1>7. w = Len(s) - 1 /\ q = at - 1
  BY <1>2, <1>3, <1>4, <1>6
<1>8. Deleted(s, at) = u \o z
  BY Zenon, <1>1 DEF Deleted
<1>9. ASSUME NEW i \in 1..w PROVE (u \o z)[i] = IF i < at THEN s[i] ELSE s[i + 1]
  <2>1. (u \o z)[i] = IF i <= q THEN u[i] ELSE z[i - q]
    BY Zenon, <1>5, <1>6
  <2>2. CASE i < at
    <3>1. i <= q /\ i \in 1..at - 1
      BY <1>2, <1>7, <2>2
    <3> QED BY Zenon, <1>3, <2>1, <2>2, <3>1
  <2>3. CASE ~(i < at)
    <3>1. ~(i <= q) /\ i - q \in 1..Len(s) - at /\ at + (i - q) = i + 1
      BY <1>2, <1>7, <2>3
    <3> QED BY Zenon, <1>4, <2>1, <2>3, <3>1
  <2> QED BY Zenon, <2>2, <2>3
<1>10. \A i \in 1..Len(s) - 1 : (u \o z)[i] = IF i < at THEN s[i] ELSE s[i + 1]
  BY Zenon, <1>7, <1>9
<1>11. Len(u \o z) = Len(s) - 1
  BY Zenon, <1>5, <1>6, <1>7
<1> QED BY Zenon, <1>5, <1>8, <1>10, <1>11

\* The cells behind the text of a line are blank.
BlankFrom(b, len) == \A c \in Columns : c >= len => b[c] \in {Nul, Space}

LEMMA ShiftedIs ==
    ASSUME NEW b \in Line, NEW len \in 0..Cols, NEW at \in 0..len, NEW n \in Nat, NEW ch \in Glyphs
    PROVE  /\ Shifted(b, at, n, len, ch) \in Line
           /\ \A c \in Columns : Shifted(b, at, n, len, ch)[c] =
                 IF c < at THEN b[c] ELSE IF c < at + n THEN ch ELSE IF c - n < len THEN b[c - n] ELSE b[c]
<1>1. len \in Nat /\ at \in Nat /\ at <= len /\ len <= Cols /\ Cols \in Nat
  BY SizesAre
<1>2. PICK m : m = Min({len, Cols - n})
  BY Zenon
<1>3. m = IF len <= Cols - n THEN len ELSE Cols - n
  BY <1>1, <1>2, LeastOfTwo
<1>4. ASSUME NEW c \in Columns
      PROVE  Shifted(b, at, n, len, ch)[c] =
                 IF c < at THEN b[c] ELSE IF c < at + n THEN ch ELSE IF c - n < len THEN b[c - n] ELSE b[c]
  <2>1. c \in Nat /\ c < Cols
    BY Zenon, ColumnsAre
  <2>2. Shifted(b, at, n, len, ch)[c] =
          IF c \in at..at + n - 1 THEN ch ELSE IF c >= at + n /\ c - n < m THEN b[c - n] ELSE b[c]
    BY Zenon, <1>2 DEF Shifted
  <2>3. c \in at..at + n - 1 <=> ~(c < at) /\ c < at + n
    BY <1>1, <2>1
  <2>4. (c >= at + n /\ c - n < m) <=> (~(c < at + n) /\ c - n < len)
    BY <1>1, <1>3, <2>1
  <2>5. c < at => c < at + n
    BY <1>1, <2>1
  <2> QED BY Zenon, <2>2, <2>3, <2>4, <2>5
<1>5. ASSUME NEW c \in Columns PROVE Shifted(b, at, n, len, ch)[c] \in Glyphs
  <2>1. b[c] \in Glyphs
    BY Zenon DEF Line
  <2>2. ~(c < at + n) => b[c - n] \in Glyphs
    <3>1. ~(c < at + n) => c - n \in Nat /\ c - n < Cols
      BY <1>1, ColumnsAre
    <3> QED BY Zenon, <3>1, ColumnsAre DEF Line
  <2> QED BY Zenon, <1>4, <2>1, <2>2
<1>6. Shifted(b, at, n, len, ch) \in Line
  BY Zenon, <1>5 DEF Shifted, Line
<1> QED BY Zenon, <1>4, <1>6

\* Putting n characters into a line: its text is the text with them inserted.
PutIn(b, len, at, n, ch) ==
  /\ b \in Line /\ len \in 0..Cols /\ at \in 0..len /\ n \in Nat /\ ch \in Glyphs
  /\ at + n <= Cols

PutResult(b, len, at, n, ch) ==
  LET k == IF len + n <= Cols THEN len + n ELSE Cols
  IN  /\ Shifted(b, at, n, len, ch) \in Line
      /\ k \in 0..Cols
      /\ Leading(Shifted(b, at, n, len, ch), k) = Inserted(Leading(b, len), at, n, ch)
      /\ BlankFrom(b, len) => BlankFrom(Shifted(b, at, n, len, ch), k)

LEMMA PutKeepsText ==
    ASSUME NEW b, NEW len, NEW at, NEW n, NEW ch, PutIn(b, len, at, n, ch)
    PROVE  PutResult(b, len, at, n, ch)
<1>1. b \in Line /\ len \in 0..Cols /\ at \in 0..len /\ n \in Nat /\ ch \in Glyphs /\ at + n <= Cols
  BY Zenon DEF PutIn
<1>2. len \in Nat /\ at \in Nat /\ at <= len /\ len <= Cols /\ Cols \in Nat
  BY <1>1, SizesAre
<1>3. PICK k : k = IF len + n <= Cols THEN len + n ELSE Cols
  BY Zenon
<1>4. PICK q : q = Shifted(b, at, n, len, ch)
  BY Zenon
<1>5. PICK s : s = Leading(b, len)
  BY Zenon
<1>6. PICK z : z = Inserted(s, at, n, ch)
  BY Zenon
<1>7. /\ q \in Line
      /\ \A c \in Columns : q[c] =
            IF c < at THEN b[c] ELSE IF c < at + n THEN ch ELSE IF c - n < len THEN b[c - n] ELSE b[c]
  BY Zenon, <1>1, <1>4, ShiftedIs
<1>8. s \in Seq(Glyphs) /\ Len(s) = len /\ \A i \in 1..len : s[i] = b[i - 1]
  BY Zenon, <1>1, <1>5, TextIs
<1>9. /\ z \in Seq(Glyphs) /\ Len(z) = k
      /\ \A i \in 1..k : z[i] = IF i <= at THEN s[i] ELSE IF i <= at + n THEN ch ELSE s[i - n]
  <2>1. at \in 0..Len(s) /\ k = IF Len(s) + n <= Cols THEN Len(s) + n ELSE Cols
    BY Zenon, <1>1, <1>3, <1>8
  <2>2. s \in Seq(Glyphs) /\ n \in Nat /\ ch \in Glyphs
    BY Zenon, <1>1, <1>8
  <2>3. Inserts(s, at, n, ch, k, z)
    BY Zenon, <1>6, <2>1, <2>2 DEF Inserts
  <2>4. HasInserted(s, at, n, ch, k, z)
    BY Zenon, <2>3, InsertedIs
  <2> QED BY Zenon, <2>4 DEF HasInserted
<1>10. k \in Nat /\ k <= Cols /\ k <= len + n /\ at + n <= k
  BY <1>1, <1>2, <1>3
<1>11. k \in 0..Cols
  BY <1>10, <1>2
<1>12. ASSUME NEW i \in 1..k PROVE z[i] = q[i - 1]
  <2>1. PICK c : c = i - 1
    BY Zenon
  <2>2. c \in Nat /\ c < Cols /\ c < k /\ i = c + 1
    BY <1>10, <1>2, <2>1
  <2>3. c \in Columns
    BY Zenon, <2>2, ColumnsAre
  <2>4. CASE i <= at
    <3>1. c < at /\ i \in 1..len
      BY <1>2, <2>2, <2>4
    <3> QED BY Zenon, <1>7, <1>8, <1>9, <2>1, <2>3, <2>4, <3>1
  <2>5. CASE ~(i <= at) /\ i <= at + n
    <3>1. ~(c < at) /\ c < at + n
      BY <1>1, <1>2, <2>2, <2>5
    <3> QED BY Zenon, <1>7, <1>9, <2>1, <2>3, <2>5, <3>1
  <2>6. CASE ~(i <= at) /\ ~(i <= at + n)
    <3>1. ~(c < at) /\ ~(c < at + n) /\ c - n < len /\ i - n \in 1..len /\ (i - n) - 1 = c - n
      BY <1>1, <1>2, <1>10, <2>2, <2>6
    <3>2. s[i - n] = b[c - n]
      BY Zenon, <1>8, <3>1
    <3> QED BY Zenon, <1>7, <1>9, <2>1, <2>3, <2>6, <3>1, <3>2
  <2> QED BY Zenon, <2>4, <2>5, <2>6
<1>13. Leading(q, k) = z
  BY Zenon, <1>7, <1>9, <1>11, <1>12, TextIsAlso
<1>14. ASSUME BlankFrom(b, len) PROVE BlankFrom(q, k)
  <2> SUFFICES ASSUME NEW c \in Columns, c >= k PROVE q[c] \in {Nul, Space}
    BY Zenon DEF BlankFrom
  <2>1. c \in Nat /\ c < Cols
    BY Zenon, ColumnsAre
  <2>2. ~(c < at) /\ ~(c < at + n) /\ ~(c - n < len) /\ c >= len
    BY <1>1, <1>2, <1>3, <1>10, <2>1
  <2>3. q[c] = b[c]
    BY Zenon, <1>7, <2>2
  <2> QED BY Zenon, <1>14, <2>2, <2>3 DEF BlankFrom
<1> QED BY Zenon, <1>3, <1>4, <1>5, <1>6, <1>7, <1>11, <1>13, <1>14 DEF PutResult

LEMMA ClosedIs ==
    ASSUME NEW b \in Line, NEW len \in 1..Cols, NEW at \in 0..len - 1, NEW ch \in Glyphs
    PROVE  /\ Closed(b, at, len, ch) \in Line
           /\ \A c \in Columns : Closed(b, at, len, ch)[c] =
                 IF c = len - 1 THEN ch ELSE IF c < at \/ c >= len THEN b[c] ELSE b[c + 1]
<1>1. len \in Nat /\ at \in Nat /\ at < len /\ len <= Cols /\ Cols \in Nat
  BY SizesAre
<1>2. ASSUME NEW c \in Columns
      PROVE  Closed(b, at, len, ch)[c] =
                 IF c = len - 1 THEN ch ELSE IF c < at \/ c >= len THEN b[c] ELSE b[c + 1]
  <2>1. c \in Nat /\ c < Cols
    BY Zenon, ColumnsAre
  <2>2. Closed(b, at, len, ch)[c] =
          IF c = len - 1 THEN ch ELSE IF c \in at..len - 2 THEN b[c + 1] ELSE b[c]
    BY Zenon DEF Closed
  <2>3. c # len - 1 => (c \in at..len - 2 <=> ~(c < at \/ c >= len))
    BY <1>1, <2>1
  <2> QED BY Zenon, <2>2, <2>3
<1>3. ASSUME NEW c \in Columns PROVE Closed(b, at, len, ch)[c] \in Glyphs
  <2>1. b[c] \in Glyphs
    BY Zenon DEF Line
  <2>2. c # len - 1 /\ ~(c < at \/ c >= len) => b[c + 1] \in Glyphs
    <3>1. c # len - 1 /\ ~(c < at \/ c >= len) => c + 1 \in Nat /\ c + 1 < Cols
      BY <1>1, ColumnsAre
    <3> QED BY Zenon, <3>1, ColumnsAre DEF Line
  <2> QED BY Zenon, <1>2, <2>1, <2>2
<1>4. Closed(b, at, len, ch) \in Line
  BY <1>3 DEF Closed, Line
<1> QED BY Zenon, <1>2, <1>4

\* Taking the character before at out of a line.
TakeOut(b, len, at, ch) ==
  b \in Line /\ len \in 0..Cols /\ at \in 1..len /\ ch \in {Nul, Space}

TakeResult(b, len, at, ch) ==
  /\ Closed(b, at - 1, len, ch) \in Line
  /\ len - 1 \in 0..Cols
  /\ Leading(Closed(b, at - 1, len, ch), len - 1) = Deleted(Leading(b, len), at)
  /\ BlankFrom(b, len) => BlankFrom(Closed(b, at - 1, len, ch), len - 1)

LEMMA TakeKeepsText ==
    ASSUME NEW b, NEW len, NEW at, NEW ch, TakeOut(b, len, at, ch)
    PROVE  TakeResult(b, len, at, ch)
<1>1. b \in Line /\ len \in 0..Cols /\ at \in 1..len /\ ch \in {Nul, Space}
  BY Zenon DEF TakeOut
<1>2. len \in Nat /\ at \in Nat /\ 1 <= at /\ at <= len /\ len <= Cols /\ Cols \in Nat
  BY <1>1, SizesAre
<1>3. PICK k, p : k = len - 1 /\ p = at - 1
  BY Zenon
<1>4. k \in Nat /\ k \in 0..Cols /\ p \in Nat /\ p \in 0..len - 1 /\ len \in 1..Cols /\ p <= k
  BY <1>2, <1>3
<1>5. PICK q : q = Closed(b, p, len, ch)
  BY Zenon
<1>6. PICK s : s = Leading(b, len)
  BY Zenon
<1>7. PICK z : z = Deleted(s, at)
  BY Zenon
<1>8. ch \in Glyphs
  BY Zenon, <1>1 DEF Glyphs
<1>9. /\ q \in Line
      /\ \A c \in Columns : q[c] = IF c = len - 1 THEN ch ELSE IF c < p \/ c >= len THEN b[c] ELSE b[c + 1]
  BY ZenonT(30), <1>1, <1>4, <1>5, <1>8, ClosedIs
<1>10. s \in Seq(Glyphs) /\ Len(s) = len /\ \A i \in 1..len : s[i] = b[i - 1]
  BY Zenon, <1>1, <1>6, TextIs
<1>11. at \in 1..Len(s)
  BY Zenon, <1>1, <1>10
<1>12. /\ z \in Seq(Glyphs) /\ Len(z) = Len(s) - 1
       /\ \A i \in 1..Len(s) - 1 : z[i] = IF i < at THEN s[i] ELSE s[i + 1]
  BY Zenon, <1>7, <1>10, <1>11, DeletedIs
<1>13. Len(s) - 1 = k
  BY Zenon, <1>3, <1>10
<1>14. Len(z) = k /\ \A i \in 1..k : z[i] = IF i < at THEN s[i] ELSE s[i + 1]
  BY Zenon, <1>12, <1>13
<1>15. ASSUME NEW i \in 1..k PROVE z[i] = q[i - 1]
  <2>1. PICK c : c = i - 1
    BY Zenon
  <2>2. c \in Nat /\ c < Cols /\ c < k /\ i = c + 1 /\ c # len - 1 /\ ~(c >= len) /\ i \in 1..len /\ i + 1 \in 1..len
    BY <1>2, <1>3, <1>4, <2>1
  <2>3. c \in Columns
    BY Zenon, <2>2, ColumnsAre
  <2>4. CASE i < at
    <3>1. c < p
      BY <1>2, <1>3, <2>2, <2>4
    <3> QED BY Zenon, <1>9, <1>10, <1>14, <2>1, <2>2, <2>3, <2>4, <3>1
  <2>5. CASE ~(i < at)
    <3>1. ~(c < p) /\ (i + 1) - 1 = c + 1
      BY <1>2, <1>3, <2>2, <2>5
    <3>2. s[i + 1] = b[c + 1]
      BY Zenon, <1>10, <2>2, <3>1
    <3> QED BY Zenon, <1>9, <1>14, <2>1, <2>2, <2>3, <2>5, <3>1, <3>2
  <2> QED BY Zenon, <2>4, <2>5
<1>16. Leading(q, k) = z
  BY Zenon, <1>4, <1>9, <1>12, <1>14, <1>15, TextIsAlso
<1>17. ASSUME BlankFrom(b, len) PROVE BlankFrom(q, k)
  <2> SUFFICES ASSUME NEW c \in Columns, c >= k PROVE q[c] \in {Nul, Space}
    BY Zenon DEF BlankFrom
  <2>1. c \in Nat /\ c < Cols
    BY Zenon, ColumnsAre
  <2>2. c = len - 1 \/ (c # len - 1 /\ c >= len)
    BY <1>2, <1>3, <2>1
  <2>3. q[c] = ch \/ (q[c] = b[c] /\ c >= len)
    BY Zenon, <1>9, <2>2
  <2> QED BY Zenon, <1>1, <1>17, <2>3 DEF BlankFrom
<1> QED BY Zenon, <1>3, <1>4, <1>5, <1>6, <1>7, <1>9, <1>16, <1>17 DEF TakeResult

-----------------------------------------------------------------------------
(* What drawing leaves in a row.  The text drawn may be longer than the    *)
(* one that is to be seen by blanks only.                                  *)
Covers(t, s) ==
  /\ t \in Seq(Glyphs) /\ s \in Seq(Glyphs) /\ Len(s) <= Len(t) /\ Len(t) <= Cols
  /\ \A i \in 1..Len(t) : IF i <= Len(s) THEN t[i] = s[i] ELSE t[i] \in {Nul, Space}

At(s, c) == IF c < Len(s) THEN s[c + 1] ELSE Space

LEMMA BlankCells == \A g \in {Nul, Space} : \A i : Cell(g, i) = Cell(Space, i)
BY Zenon DEF Cell

LEMMA PaddedIs ==
    ASSUME NEW cells, NEW t, NEW s, Covers(t, s), NEW c \in Columns
    PROVE  DrawLinePadded(cells, t)[c] = Cell(At(s, c), FALSE)
<1>1. PICK w : w = [i \in 1..Cols |-> IF i <= Len(t) THEN t[i] ELSE Space]
  BY Zenon
<1>2. c \in Nat /\ c < Cols /\ Cols \in Nat
  BY Zenon, ColumnsAre, SizesAre
<1>3. Len(t) \in Nat /\ Len(s) \in Nat /\ Len(s) <= Len(t) /\ Len(t) <= Cols
  BY DEF Covers
<1>4. Len(w) = Cols
  BY <1>1, <1>2
<1>5. c \in 0..0 + Len(w) - 1 /\ c - 0 + 1 = c + 1 /\ c + 1 \in 1..Cols
  BY <1>2, <1>4
<1>6. DrawLinePadded(cells, t)[c] = Cell(w[c + 1], FALSE)
  BY Zenon, <1>1, <1>5 DEF DrawLinePadded, DrawText
<1>7. w[c + 1] = IF c + 1 <= Len(t) THEN t[c + 1] ELSE Space
  BY Zenon, <1>1, <1>5
<1>8. CASE c + 1 <= Len(s)
  <2>1. c + 1 <= Len(t) /\ c < Len(s) /\ c + 1 \in 1..Len(t)
    BY <1>2, <1>3, <1>8
  <2> QED BY Zenon, <1>6, <1>7, <1>8, <2>1 DEF Covers, At
<1>9. CASE ~(c + 1 <= Len(s)) /\ c + 1 <= Len(t)
  <2>1. ~(c < Len(s)) /\ c + 1 \in 1..Len(t)
    BY <1>2, <1>3, <1>9
  <2>2. t[c + 1] \in {Nul, Space}
    BY Zenon, <1>9, <2>1 DEF Covers
  <2> QED BY Zenon, <1>6, <1>7, <1>9, <2>1, <2>2, BlankCells DEF At
<1>10. CASE ~(c + 1 <= Len(t))
  <2>1. ~(c < Len(s))
    BY <1>2, <1>3, <1>10
  <2> QED BY Zenon, <1>6, <1>7, <1>10, <2>1 DEF At
<1> QED BY Zenon, <1>8, <1>9, <1>10

\* A row drawn without a cursor, and one drawn with it.
LEMMA PaddedShows ==
    ASSUME NEW cells, NEW t, NEW s, Covers(t, s)
    PROVE  Shows(DrawLinePadded(cells, t), s, -1)
<1> SUFFICES ASSUME NEW c \in Columns
             PROVE  DrawLinePadded(cells, t)[c] = Cell(At(s, c), c = -1)
  BY Zenon DEF Shows, At
<1>1. ~(c = -1)
  BY ColumnsAre
<1>2. Cell(At(s, c), c = -1) = Cell(At(s, c), FALSE)
  BY Zenon, <1>1 DEF Cell
<1>3. DrawLinePadded(cells, t)[c] = Cell(At(s, c), FALSE)
  BY Zenon, PaddedIs
<1>4. PICK x, y : x = DrawLinePadded(cells, t)[c] /\ y = Cell(At(s, c), c = -1)
  BY Zenon
<1>5. x = y
  BY Zenon, <1>2, <1>3, <1>4
<1> QED BY Zenon, <1>4, <1>5

LEMMA CursorShows ==
    ASSUME NEW cells, NEW t, NEW s, Covers(t, s), NEW at \in Nat, NEW g,
           at < Cols => Cell(g, TRUE) = Cell(At(s, at), TRUE)
    PROVE  Shows(DrawText(DrawLinePadded(cells, t), at, <<g>>, TRUE), s, at)
<1> SUFFICES ASSUME NEW c \in Columns
             PROVE  DrawText(DrawLinePadded(cells, t), at, <<g>>, TRUE)[c] = Cell(At(s, c), c = at)
  BY Zenon DEF Shows, At
<1>1. PICK w, p : w = <<g>> /\ p = DrawLinePadded(cells, t)
  BY Zenon
<1>2. Len(w) = 1 /\ w[1] = g
  BY <1>1
<1>3. c \in Nat /\ c < Cols
  BY Zenon, ColumnsAre
<1>4. DrawText(p, at, w, TRUE)[c] = IF c \in at..at + Len(w) - 1 THEN Cell(w[c - at + 1], TRUE) ELSE p[c]
  BY Zenon DEF DrawText
<1>5. CASE c = at
  <2>1. c \in at..at + Len(w) - 1 /\ c - at + 1 = 1 /\ at < Cols
    BY <1>2, <1>3, <1>5
  <2>2. DrawText(p, at, w, TRUE)[c] = Cell(At(s, c), TRUE)
    BY Zenon, <1>2, <1>4, <1>5, <2>1
  <2>3. Cell(At(s, c), c = at) = Cell(At(s, c), TRUE)
    BY Zenon, <1>5 DEF Cell
  <2> QED BY Zenon, <1>1, <2>2, <2>3
<1>6. CASE c # at
  <2>1. c \notin at..at + Len(w) - 1
    BY <1>2, <1>3, <1>6
  <2>2. DrawText(p, at, w, TRUE)[c] = Cell(At(s, c), FALSE)
    BY Zenon, <1>1, <1>4, <2>1, PaddedIs
  <2>3. Cell(At(s, c), c = at) = Cell(At(s, c), FALSE)
    BY Zenon, <1>6 DEF Cell
  <2> QED BY Zenon, <1>1, <2>2, <2>3
<1> QED BY Zenon, <1>5, <1>6

\* A line whose text is s, with nothing behind it.
LineTrue(b, len, s) == b \in Line /\ len \in 0..Cols /\ s = Leading(b, len) /\ BlankFrom(b, len)

LEMMA LineCovers ==
    ASSUME NEW b, NEW len, NEW s, LineTrue(b, len, s)
    PROVE  Covers(Leading(b, Cols), s)
<1>1. b \in Line /\ len \in 0..Cols /\ s = Leading(b, len) /\ BlankFrom(b, len)
  BY Zenon DEF LineTrue
<1>2. len \in Nat /\ len <= Cols /\ Cols \in Nat /\ Cols \in 0..Cols
  BY <1>1, SizesAre
<1>3. PICK t : t = Leading(b, Cols)
  BY Zenon
<1>4. t \in Seq(Glyphs) /\ Len(t) = Cols /\ \A i \in 1..Cols : t[i] = b[i - 1]
  BY Zenon, <1>1, <1>2, <1>3, TextIs
<1>5. s \in Seq(Glyphs) /\ Len(s) = len /\ \A i \in 1..len : s[i] = b[i - 1]
  BY Zenon, <1>1, TextIs
<1>6. ASSUME NEW i \in 1..Cols PROVE IF i <= len THEN t[i] = s[i] ELSE t[i] \in {Nul, Space}
  <2>1. CASE i <= len
    <3>1. i \in 1..len
      BY <1>2, <2>1
    <3> QED BY Zenon, <1>4, <1>5, <2>1, <3>1
  <2>2. CASE ~(i <= len)
    <3>1. i - 1 >= len /\ i - 1 \in Nat /\ i - 1 < Cols
      BY <1>2, <2>2
    <3>2. b[i - 1] \in {Nul, Space}
      BY Zenon, <1>1, <3>1, ColumnsAre DEF BlankFrom
    <3> QED BY Zenon, <1>4, <2>2, <3>2
  <2> QED BY Zenon, <2>1, <2>2
<1>7. Len(s) <= Len(t) /\ Len(t) <= Cols
  BY <1>2, <1>4, <1>5
<1> QED BY Zenon, <1>3, <1>4, <1>5, <1>6, <1>7 DEF Covers

Drawn(cells, b) == DrawLinePadded(cells, Leading(b, Cols))
DrawnAt(cells, b, at) == DrawText(Drawn(cells, b), at, <<IF at < Cols THEN b[at] ELSE Space>>, TRUE)

LEMMA LineShows ==
    ASSUME NEW cells, NEW b, NEW len, NEW s, LineTrue(b, len, s)
    PROVE  Shows(Drawn(cells, b), s, -1)
BY Zenon, LineCovers, PaddedShows DEF Drawn

LEMMA LineCursorShows ==
    ASSUME NEW cells, NEW b, NEW len, NEW s, LineTrue(b, len, s), NEW at \in 0..len
    PROVE  Shows(DrawnAt(cells, b, at), s, at)
<1>1. b \in Line /\ len \in 0..Cols /\ s = Leading(b, len) /\ BlankFrom(b, len)
  BY Zenon DEF LineTrue
<1>2. at \in Nat /\ len \in Nat
  BY <1>1
<1>3. s \in Seq(Glyphs) /\ Len(s) = len /\ \A i \in 1..len : s[i] = b[i - 1]
  BY Zenon, <1>1, TextIs
<1>4. PICK g : g = IF at < Cols THEN b[at] ELSE Space
  BY Zenon
<1>5. ASSUME at < Cols PROVE Cell(g, TRUE) = Cell(At(s, at), TRUE)
  <2>1. g = b[at] /\ at \in Columns
    BY Zenon, <1>2, <1>4, <1>5, ColumnsAre
  <2>2. CASE at < len
    <3>1. at + 1 \in 1..len /\ (at + 1) - 1 = at
      BY <1>2, <2>2
    <3> QED BY Zenon, <1>3, <2>1, <2>2, <3>1 DEF At
  <2>3. CASE ~(at < len)
    <3>1. at >= len
      BY <1>2, <2>3
    <3>2. g \in {Nul, Space}
      BY Zenon, <1>1, <2>1, <3>1 DEF BlankFrom
    <3>3. At(s, at) = Space
      BY Zenon, <1>3, <2>3 DEF At
    <3> QED BY Zenon, <3>2, <3>3, BlankCells
  <2> QED BY Zenon, <2>2, <2>3
<1>6. Covers(Leading(b, Cols), s)
  BY Zenon, LineCovers
<1>7. Shows(DrawText(DrawLinePadded(cells, Leading(b, Cols)), at, <<g>>, TRUE), s, at)
  BY Zenon, <1>2, <1>5, <1>6, CursorShows
<1> QED BY Zenon, <1>4, <1>7 DEF DrawnAt, Drawn

-----------------------------------------------------------------------------
(* The editor.  Its rows are true lines, and its window shows them: every  *)
(* row but the cursor's always, the cursor's own once anything was drawn.  *)
Rows == 0..EditRows - 1

EditorText ==
  /\ buf \in [Rows -> Line] /\ rowLen \in [Rows -> 0..Cols] /\ doc \in [Rows -> Seq(Glyphs)]
  /\ \A r \in Rows : LineTrue(buf[r], rowLen[r], doc[r])
  /\ row \in Rows /\ col \in 0..rowLen[row]

EditorScreen ==
  /\ DOMAIN surface = Rows /\ DOMAIN shown = Rows
  /\ \A r \in Rows : shown[r] = surface[r]
  /\ \A r \in Rows : r # row => Shows(surface[r], doc[r], -1)
  /\ \/ Shows(surface[row], doc[row], col)
     \/ surface[0] = BannerRow /\ \A r \in Rows : doc[r] = <<>>

\* Redrawing the rows that changed, the cursor's old and new one among them,
\* makes the window show the buffer again, whatever it showed before.
LEMMA RedrawShows ==
    ASSUME NEW rows \in SUBSET Rows, EditorScreen, EditorText', row \in rows, row' \in rows,
           \A r \in Rows : r \notin rows => doc'[r] = doc[r],
           RedrawRows(rows)
    PROVE  EditorScreen'
<1>1. surface' = [r \in Rows |-> IF r \in rows THEN RowDrawn(r) ELSE surface[r]]
  BY Zenon DEF RedrawRows, EditorScreen
<1>2. shown' = [r \in Rows |-> IF r \in rows THEN surface'[r] ELSE shown[r]]
  BY Zenon DEF RedrawRows, Present, EditorScreen
<1>3. DOMAIN surface' = Rows /\ DOMAIN shown' = Rows
  BY Zenon, <1>1, <1>2
<1>4. \A r \in Rows : shown'[r] = surface'[r]
  BY Zenon, <1>1, <1>2 DEF EditorScreen
<1>5. ASSUME NEW r \in rows PROVE surface'[r] = IF r = row' THEN DrawnAt(surface[r], buf'[r], col') ELSE Drawn(surface[r], buf'[r])
  BY Zenon, <1>1 DEF RowDrawn, DrawnAt, Drawn
<1>6. \A r \in Rows : LineTrue(buf'[r], rowLen'[r], doc'[r])
  BY Zenon DEF EditorText
<1>7. ASSUME NEW r \in Rows, r # row' PROVE Shows(surface'[r], doc'[r], -1)
  <2>1. CASE r \in rows
    BY Zenon, <1>5, <1>6, <1>7, <2>1, LineShows
  <2>2. CASE r \notin rows
    BY Zenon, <1>1, <2>2 DEF EditorScreen
  <2> QED BY Zenon, <2>1, <2>2
<1>8. Shows(surface'[row'], doc'[row'], col')
  <2>1. row' \in Rows /\ col' \in 0..rowLen'[row']
    BY Zenon DEF EditorText
  <2> QED BY Zenon, <1>5, <1>6, <2>1, LineCursorShows
<1> QED BY Zenon, <1>3, <1>4, <1>7, <1>8 DEF EditorScreen

LEMMA EditorIsTrue == ASSUME app = "editor", EditorText, EditorScreen PROVE ScreenTrue
<1>1. \A r \in Rows : Leading(buf[r], rowLen[r]) = doc[r]
  BY Zenon DEF EditorText, LineTrue
<1>2. col <= rowLen[row] /\ row \in Rows
  <2>1. rowLen[row] \in 0..Cols /\ col \in 0..rowLen[row] /\ row \in Rows
    BY Zenon DEF EditorText
  <2> QED BY <2>1
<1>3. CASE surface[0] = BannerRow /\ \A r \in Rows : doc[r] = <<>>
  <2>1. 0 \in Rows
    BY TextSizes DEF Rows
  <2>2. shown[0] = BannerRow
    BY Zenon, <1>3, <2>1 DEF EditorScreen
  <2> QED BY Zenon, <1>1, <1>2, <1>3, <2>2 DEF ScreenTrue, EditorTrue, Rows
<1>4. CASE Shows(surface[row], doc[row], col)
  <2>1. ASSUME NEW r \in Rows PROVE Shows(shown[r], doc[r], IF r = row THEN col ELSE -1)
    BY Zenon, <1>4 DEF EditorScreen
  <2> QED BY Zenon, <1>1, <1>2, <2>1 DEF ScreenTrue, EditorTrue, Rows
<1> QED BY Zenon, <1>3, <1>4 DEF EditorScreen

EditorInv == EditorText /\ EditorScreen

LEMMA EditorStays == ASSUME EditorInv, UNCHANGED <<buf, rowLen, row, col, doc, surface, shown>> PROVE EditorInv'
BY Zenon DEF EditorInv, EditorText, EditorScreen

LEMMA GoKeeps == ASSUME EditorInv, NEW r \in Rows, NEW c \in 0..rowLen[r], Go(r, c) PROVE EditorInv'
<1>1. row' = r /\ col' = c /\ buf' = buf /\ rowLen' = rowLen /\ doc' = doc /\ RedrawRows({row, r})
  BY Zenon DEF Go
<1>2. EditorText'
  BY Zenon, <1>1 DEF EditorInv, EditorText
<1>3. {row, r} \in SUBSET Rows
  BY Zenon DEF EditorInv, EditorText
<1>4. EditorScreen'
  BY Zenon, <1>1, <1>2, <1>3, RedrawShows DEF EditorInv
<1> QED BY Zenon, <1>2, <1>4 DEF EditorInv

\* A change of the cursor's row alone.
LEMMA RowEdited ==
    ASSUME EditorInv, NEW b, NEW len, NEW s, LineTrue(b, len, s),
           buf' = [buf EXCEPT ![row] = b], rowLen' = [rowLen EXCEPT ![row] = len],
           doc' = [doc EXCEPT ![row] = s], row' = row, col' \in 0..len, RedrawRows({row})
    PROVE  EditorInv'
<1>1. buf \in [Rows -> Line] /\ rowLen \in [Rows -> 0..Cols] /\ doc \in [Rows -> Seq(Glyphs)] /\ row \in Rows
  BY Zenon DEF EditorInv, EditorText
<1>2. b \in Line /\ len \in 0..Cols /\ s \in Seq(Glyphs)
  BY Zenon, TextIs DEF LineTrue
<1>3. buf' \in [Rows -> Line] /\ rowLen' \in [Rows -> 0..Cols] /\ doc' \in [Rows -> Seq(Glyphs)]
  BY <1>1, <1>2
<1>4. \A r \in Rows : buf'[r] = (IF r = row THEN b ELSE buf[r]) /\ rowLen'[r] = (IF r = row THEN len ELSE rowLen[r])
                        /\ doc'[r] = (IF r = row THEN s ELSE doc[r])
  BY <1>1
<1>5. \A r \in Rows : LineTrue(buf'[r], rowLen'[r], doc'[r])
  BY Zenon, <1>4 DEF EditorInv, EditorText
<1>6. EditorText'
  BY Zenon, <1>1, <1>3, <1>4, <1>5 DEF EditorText
<1>7. {row} \in SUBSET Rows
  BY Zenon, <1>1
<1>8. EditorScreen'
  BY Zenon, <1>4, <1>6, <1>7, RedrawShows DEF EditorInv
<1> QED BY Zenon, <1>6, <1>8 DEF EditorInv

LEMMA EditorPutKeeps ==
    ASSUME EditorInv, NEW b, NEW key, NEW n \in Nat, n >= 1, NEW ch \in Glyphs, EditorPut(b, key, n, ch)
    PROVE  EditorInv'
<1>1. PICK line, len, s : line = buf[row] /\ len = rowLen[row] /\ s = doc[row]
  BY Zenon
<1>2. LineTrue(line, len, s) /\ row \in Rows /\ col \in 0..len
  BY Zenon, <1>1 DEF EditorInv, EditorText
<1>3. line \in Line /\ len \in 0..Cols /\ s = Leading(line, len) /\ BlankFrom(line, len)
  BY Zenon, <1>2 DEF LineTrue
<1>4. len \in Nat /\ col \in Nat /\ col <= len /\ len <= Cols /\ Cols \in Nat
  BY <1>2, <1>3, SizesAre
<1>5. row' = row /\ RedrawRows({row})
  BY Zenon DEF EditorPut
<1>6. CASE col + n <= Cols
  <2>1. PICK k : k = IF len + n <= Cols THEN len + n ELSE Cols
    BY Zenon
  <2>2. PICK q : q = Shifted(line, col, n, len, ch)
    BY Zenon
  <2>3. PICK z : z = Inserted(s, col, n, ch)
    BY Zenon
  <2>4. PutIn(line, len, col, n, ch)
    BY Zenon, <1>2, <1>3, <1>6 DEF PutIn
  <2>5. PutResult(line, len, col, n, ch)
    BY Zenon, <2>4, PutKeepsText
  <2>6. LineTrue(q, k, z)
    BY Zenon, <1>3, <2>1, <2>2, <2>3, <2>5 DEF PutResult, LineTrue
  <2>7. Min({col, len}) = col /\ Min({len + n, Cols}) = k
    <3>1. Min({col, len}) = col
      BY <1>4, LeastOfTwo
    <3>2. len + n \in Int /\ Cols \in Int
      BY <1>4
    <3>3. Min({len + n, Cols}) = k
      BY Zenon, <2>1, <3>2, LeastOfTwo
    <3> QED BY Zenon, <3>1, <3>3
  <2>8. /\ buf' = [buf EXCEPT ![row] = Shifted(@, Min({col, rowLen[row]}), n, rowLen[row], ch)]
        /\ rowLen' = [rowLen EXCEPT ![row] = Min({@ + n, Cols})]
        /\ col' = col + n
        /\ doc' = [doc EXCEPT ![row] = Inserted(@, col, n, ch)]
    BY Zenon, <1>6 DEF EditorPut
  <2>9. buf' = [buf EXCEPT ![row] = q]
    BY Zenon, <1>1, <2>2, <2>7, <2>8
  <2>10. rowLen' = [rowLen EXCEPT ![row] = k]
    BY Zenon, <1>1, <2>7, <2>8
  <2>11. doc' = [doc EXCEPT ![row] = z]
    BY Zenon, <1>1, <2>3, <2>8
  <2>12. col' \in 0..k
    BY <1>4, <1>6, <2>1, <2>8
  <2> QED BY Zenon, <1>5, <2>6, <2>9, <2>10, <2>11, <2>12, RowEdited
<1>7. CASE ~(col + n <= Cols)
  <2>1. buf' = buf /\ rowLen' = rowLen /\ col' = col /\ doc' = doc
    BY Zenon, <1>7 DEF EditorPut
  <2>2. EditorText'
    BY Zenon, <1>5, <2>1 DEF EditorInv, EditorText
  <2>3. {row} \in SUBSET Rows
    BY Zenon, <1>2
  <2>4. EditorScreen'
    BY Zenon, <1>5, <2>1, <2>2, <2>3, RedrawShows DEF EditorInv
  <2> QED BY Zenon, <2>2, <2>4 DEF EditorInv
<1> QED BY Zenon, <1>6, <1>7

LEMMA Neighbours ==
    ASSUME EditorInv
    PROVE  /\ row \in Nat
           /\ row > 0 => row - 1 \in Rows
           /\ row + 1 < EditRows => row + 1 \in Rows
           /\ \A r \in Rows : rowLen[r] \in Nat /\ 0 \in 0..rowLen[r] /\ rowLen[r] \in 0..rowLen[r]
           /\ \A r \in Rows : Min({col, rowLen[r]}) \in 0..rowLen[r]
           /\ col \in Nat /\ col <= rowLen[row]
<1>1. row \in Rows /\ EditRows \in Nat
  BY Zenon, TextSizes DEF EditorInv, EditorText
<1>2. row \in Nat /\ (row > 0 => row - 1 \in Rows) /\ (row + 1 < EditRows => row + 1 \in Rows)
  BY <1>1 DEF Rows
<1>3. \A r \in Rows : rowLen[r] \in Nat
  <2>1. \A r \in Rows : rowLen[r] \in 0..Cols
    BY Zenon DEF EditorInv, EditorText
  <2> QED BY <2>1, SizesAre
<1>4. \A r \in Rows : 0 \in 0..rowLen[r] /\ rowLen[r] \in 0..rowLen[r]
  BY <1>3
<1>5. col \in Nat /\ col <= rowLen[row]
  <2>1. col \in 0..rowLen[row] /\ rowLen[row] \in Nat
    BY Zenon, <1>1, <1>3 DEF EditorInv, EditorText
  <2> QED BY <2>1
<1>6. ASSUME NEW r \in Rows PROVE Min({col, rowLen[r]}) \in 0..rowLen[r]
  <2>1. rowLen[r] \in Nat
    BY Zenon, <1>3
  <2>2. Min({col, rowLen[r]}) = IF col <= rowLen[r] THEN col ELSE rowLen[r]
    BY <1>5, <2>1, LeastOfTwo
  <2> QED BY <1>5, <2>1, <2>2
<1> QED BY Zenon, <1>2, <1>3, <1>4, <1>5, <1>6

LEMMA EditorBackspaceKeeps == ASSUME EditorInv, NEW b, EditorBackspace(b) PROVE EditorInv'
<1>1. PICK line, len, s : line = buf[row] /\ len = rowLen[row] /\ s = doc[row]
  BY Zenon
<1>2. LineTrue(line, len, s) /\ row \in Rows /\ col \in 0..len
  BY Zenon, <1>1 DEF EditorInv, EditorText
<1>3. line \in Line /\ len \in 0..Cols /\ s = Leading(line, len) /\ BlankFrom(line, len)
  BY Zenon, <1>2 DEF LineTrue
<1>4. len \in Nat /\ col \in Nat /\ col <= len
  BY <1>2, <1>3, SizesAre
<1>5. CASE col > 0
  <2>1. PICK k, q, z : k = len - 1 /\ q = Closed(line, col - 1, len, Nul) /\ z = Deleted(s, col)
    BY Zenon
  <2>2. TakeOut(line, len, col, Nul)
    <3>1. col \in 1..len
      BY <1>4, <1>5
    <3> QED BY Zenon, <1>3, <3>1 DEF TakeOut
  <2>3. TakeResult(line, len, col, Nul)
    BY Zenon, <2>2, TakeKeepsText
  <2>4. LineTrue(q, k, z)
    BY Zenon, <1>3, <2>1, <2>3 DEF TakeResult, LineTrue
  <2>5. ~(col = 0)
    BY <1>5
  <2>6. /\ buf' = [buf EXCEPT ![row] = Closed(@, col - 1, rowLen[row], Nul)]
        /\ rowLen' = [rowLen EXCEPT ![row] = Max({@ - 1, 0})]
        /\ col' = col - 1
        /\ doc' = [doc EXCEPT ![row] = Deleted(@, col)]
        /\ row' = row
        /\ RedrawRows({row})
    BY Zenon, <2>5 DEF EditorBackspace
  <2>7. Max({len - 1, 0}) = k
    <3>1. len - 1 \in Int /\ 0 \in Int /\ len - 1 >= 0
      BY <1>4, <1>5
    <3>2. Max({len - 1, 0}) = IF len - 1 >= 0 THEN len - 1 ELSE 0
      BY Zenon, <3>1, GreatestOfTwo
    <3> QED BY Zenon, <2>1, <3>1, <3>2
  <2>8. buf' = [buf EXCEPT ![row] = q]
    BY Zenon, <1>1, <2>1, <2>6
  <2>9. rowLen' = [rowLen EXCEPT ![row] = k]
    BY Zenon, <1>1, <2>6, <2>7
  <2>10. doc' = [doc EXCEPT ![row] = z]
    BY Zenon, <1>1, <2>1, <2>6
  <2>11. col' \in 0..k
    BY <1>4, <1>5, <2>1, <2>6
  <2> QED BY Zenon, <2>4, <2>6, <2>8, <2>9, <2>10, <2>11, RowEdited
<1>6. CASE ~(col > 0)
  <2>1. (row > 0 /\ Go(row - 1, rowLen[row - 1])) \/ Stay
    BY Zenon, <1>6 DEF EditorBackspace
  <2>2. CASE row > 0 /\ Go(row - 1, rowLen[row - 1])
    BY Zenon, <2>2, Neighbours, GoKeeps
  <2>3. CASE Stay
    BY Zenon, <2>3, EditorStays DEF Stay, editorVars
  <2> QED BY Zenon, <2>1, <2>2, <2>3
<1> QED BY Zenon, <1>5, <1>6

LEMMA EditorMoveKeeps ==
    ASSUME EditorInv, NEW b,
           EditorEnter(b) \/ EditorLeft(b) \/ EditorRight(b) \/ EditorUp(b) \/ EditorDown(b)
    PROVE  EditorInv'
<1>1. CASE Stay
  BY Zenon, <1>1, EditorStays DEF Stay, editorVars
<1>2. ASSUME NEW r \in Rows, NEW c \in 0..rowLen[r], Go(r, c) PROVE EditorInv'
  BY Zenon, <1>2, GoKeeps
<1>3. CASE EditorEnter(b)
  BY Zenon, <1>1, <1>2, <1>3, Neighbours DEF EditorEnter
<1>4. CASE EditorLeft(b)
  <2>1. ASSUME col > 0, Go(row, col - 1) PROVE EditorInv'
    <3>1. row \in Rows
      BY Zenon DEF EditorInv, EditorText
    <3>2. col - 1 \in 0..rowLen[row]
      <4>1. col \in Nat /\ col <= rowLen[row] /\ rowLen[row] \in Nat
        BY Zenon, <3>1, Neighbours
      <4> QED BY <2>1, <4>1
    <3> QED BY Zenon, <1>2, <2>1, <3>1, <3>2
  <2> QED BY Zenon, <1>1, <1>2, <1>4, <2>1, Neighbours DEF EditorLeft
<1>5. CASE EditorRight(b)
  <2>1. ASSUME col < rowLen[row], Go(row, col + 1) PROVE EditorInv'
    <3>1. row \in Rows
      BY Zenon DEF EditorInv, EditorText
    <3>2. col + 1 \in 0..rowLen[row]
      <4>1. col \in Nat /\ rowLen[row] \in Nat
        BY Zenon, <3>1, Neighbours
      <4> QED BY <2>1, <4>1
    <3> QED BY Zenon, <1>2, <2>1, <3>1, <3>2
  <2> QED BY Zenon, <1>1, <1>2, <1>5, <2>1, Neighbours DEF EditorRight
<1>6. CASE EditorUp(b)
  BY Zenon, <1>1, <1>2, <1>6, Neighbours DEF EditorUp
<1>7. CASE EditorDown(b)
  BY Zenon, <1>1, <1>2, <1>7, Neighbours DEF EditorDown
<1> QED BY Zenon, <1>3, <1>4, <1>5, <1>6, <1>7

LEMMA CharIsGlyph == \A b : Char(b) \in Glyphs
BY Zenon DEF Char, Letter, Symbol, Glyphs

LEMMA AppKept == TextNext => app' = app
<1>1. Prefix => app' = app
  BY Zenon DEF Prefix
<1>2. \A b : Decoded(b) => app' = app
  BY Zenon DEF Decoded
<1>3. \A b, key : EditorKey(b, key) \/ TerminalKey(b, key) => app' = app
  BY Zenon, <1>2 DEF EditorKey, TerminalKey
<1>4. \A b : NoKey(b) => app' = app
  BY Zenon, <1>2 DEF NoKey
<1>5. \A b, key, n, ch : EditorPut(b, key, n, ch) => app' = app
  BY Zenon, <1>3 DEF EditorPut
<1>6. \A b : EditorBackspace(b) => app' = app
  BY Zenon, <1>3 DEF EditorBackspace
<1>7. \A b : EditorEnter(b) \/ EditorLeft(b) \/ EditorRight(b) => app' = app
  BY Zenon, <1>3 DEF EditorEnter, EditorLeft, EditorRight
<1>8. \A b : EditorUp(b) \/ EditorDown(b) => app' = app
  BY Zenon, <1>3 DEF EditorUp, EditorDown
<1>9. \A b, key, n, ch : TerminalPut(b, key, n, ch) => app' = app
  BY Zenon, <1>3 DEF TerminalPut
<1>10. \A b : TerminalBackspace(b) => app' = app
  BY Zenon, <1>3 DEF TerminalBackspace
<1>11. \A b, key, to : TerminalMove(b, key, to) => app' = app
  BY Zenon, <1>3 DEF TerminalMove
<1>12. \A b : TerminalEnter(b) => app' = app
  BY Zenon, <1>3 DEF TerminalEnter
<1>13. \A b : TerminalIgnores(b) => app' = app
  BY Zenon, <1>3 DEF TerminalIgnores
<1> QED BY Zenon, <1>1, <1>4, <1>5, <1>6, <1>7, <1>8, <1>9, <1>10, <1>11, <1>12, <1>13 DEF TextNext

LEMMA EditorStep == ASSUME app = "editor", EditorInv, TextNext PROVE EditorInv' /\ app' = "editor"
<1>1. app' = "editor"
  BY Zenon, AppKept
<1>2. "editor" # "terminal"
  BY Zenon
<1>3. ASSUME NEW b, NEW key PROVE ~TerminalKey(b, key)
  BY Zenon, <1>2 DEF TerminalKey
<1>4. CASE Prefix
  BY Zenon, <1>4, EditorStays DEF Prefix, editorVars
<1>5. ASSUME NEW b \in Bytes, NoKey(b) PROVE EditorInv'
  BY Zenon, <1>5, EditorStays DEF NoKey, editorVars
<1>6. ASSUME NEW b \in Bytes, EditorPut(b, "ascii", 1, Char(b)) PROVE EditorInv'
  <2>1. 1 \in Nat /\ 1 >= 1
    OBVIOUS
  <2> QED BY Zenon, <1>6, <2>1, CharIsGlyph, EditorPutKeeps
<1>7. ASSUME NEW b \in Bytes, EditorPut(b, "tab", TabWidth, Space) PROVE EditorInv'
  <2>1. Space \in Glyphs
    BY Zenon DEF Glyphs
  <2> QED BY Zenon, <1>7, <2>1, SizesAre, EditorPutKeeps
<1>8. ASSUME NEW b \in Bytes, EditorBackspace(b) PROVE EditorInv'
  BY Zenon, <1>8, EditorBackspaceKeeps
<1>9. ASSUME NEW b \in Bytes,
             EditorEnter(b) \/ EditorLeft(b) \/ EditorRight(b) \/ EditorUp(b) \/ EditorDown(b)
      PROVE  EditorInv'
  BY Zenon, <1>9, EditorMoveKeeps
<1>10. CASE ~Prefix
  <2>1. PICK b \in Bytes : NoKey(b) \/ EditorPut(b, "ascii", 1, Char(b)) \/ EditorPut(b, "tab", TabWidth, Space)
          \/ EditorBackspace(b) \/ EditorEnter(b) \/ EditorLeft(b) \/ EditorRight(b) \/ EditorUp(b) \/ EditorDown(b)
    BY Zenon, <1>3, <1>10 DEF TextNext, TerminalPut, TerminalBackspace, TerminalMove, TerminalEnter, TerminalIgnores
  <2> QED BY Zenon, <1>1, <1>5, <1>6, <1>7, <1>8, <1>9, <2>1
<1> QED BY Zenon, <1>1, <1>4, <1>10

-----------------------------------------------------------------------------
(* The terminal: the line being typed, the history, and the window.        *)
TypedLine ==
  /\ doc \in [Rows -> Seq(Glyphs)]
  /\ current \in Line /\ currentLen \in 0..Cols /\ cursor \in 0..currentLen
  /\ doc[0] = Leading(current, currentLen)

History ==
  /\ lines \in [0..Lines - 1 -> Line] /\ lens \in [0..Lines - 1 -> 0..Cols]
  /\ past \in Seq(Seq(Glyphs)) /\ count \in 0..Lines /\ Len(past) = count
  /\ \A i \in 0..count - 1 : past[i + 1] = Leading(lines[i], lens[i])

Presented ==
  DOMAIN surface = 0..Lines /\ DOMAIN shown = 0..Lines /\ \A i \in 0..Lines : shown[i] = surface[i]

LineShown == (surface[Lines] = BlankRow /\ doc[0] = <<>>) \/ Shows(surface[Lines], doc[0], cursor)

HistoryShown ==
  \A i \in 0..count - 1 : \A c \in 0..lens[i] - 1 : surface[i][c] = Cell(past[i + 1][c + 1], FALSE)

TerminalInv == TypedLine /\ History /\ Presented /\ LineShown /\ HistoryShown

LEMMA LinesAre == Lines \in Nat /\ Lines >= 1 /\ Lines \in 0..Lines /\ 0 \in Rows
BY TextSizes DEF Rows

LEMMA TypedShows ==
    ASSUME NEW cells, NEW b \in Line, NEW len \in 0..Cols, NEW at \in 0..len
    PROVE  Shows(DrawText(DrawLinePadded(cells, Leading(b, len)), at,
                          <<IF at < len THEN b[at] ELSE Space>>, TRUE), Leading(b, len), at)
<1>1. PICK s, g : s = Leading(b, len) /\ g = IF at < len THEN b[at] ELSE Space
  BY Zenon
<1>2. s \in Seq(Glyphs) /\ Len(s) = len /\ \A i \in 1..len : s[i] = b[i - 1]
  BY Zenon, <1>1, TextIs
<1>3. at \in Nat /\ len \in Nat /\ len <= Cols /\ Len(s) <= Len(s) /\ Len(s) <= Cols
  BY <1>2, SizesAre
<1>4. \A i \in 1..Len(s) : i <= Len(s)
  BY <1>2, <1>3
<1>5. Covers(s, s)
  BY Zenon, <1>2, <1>3, <1>4 DEF Covers
<1>6. g = At(s, at)
  <2>1. CASE at < len
    <3>1. at + 1 \in 1..len /\ (at + 1) - 1 = at
      BY <1>3, <2>1
    <3> QED BY Zenon, <1>1, <1>2, <2>1, <3>1 DEF At
  <2>2. CASE ~(at < len)
    BY Zenon, <1>1, <1>2, <2>2 DEF At
  <2> QED BY Zenon, <2>1, <2>2
<1>7. Shows(DrawText(DrawLinePadded(cells, s), at, <<g>>, TRUE), s, at)
  BY Zenon, <1>3, <1>5, <1>6, CursorShows
<1> QED BY Zenon, <1>1, <1>7

LEMMA LineDrawnShows == ASSUME TypedLine' PROVE Shows(LineDrawn, doc'[0], cursor')
<1>1. current' \in Line /\ currentLen' \in 0..Cols /\ cursor' \in 0..currentLen' /\ doc'[0] = Leading(current', currentLen')
  BY Zenon DEF TypedLine
<1>2. Shows(LineDrawn, Leading(current', currentLen'), cursor')
  BY Zenon, <1>1, TypedShows DEF LineDrawn
<1> QED BY Zenon, <1>1, <1>2

\* The last row alone is redrawn, and the history left as it is.
LEMMA LineRedrawn ==
    ASSUME TerminalInv, TypedLine', RedrawLine, UNCHANGED <<lines, lens, count, past>>
    PROVE  TerminalInv'
<1>1. DOMAIN surface = 0..Lines /\ DOMAIN shown = 0..Lines /\ \A i \in 0..Lines : shown[i] = surface[i]
  BY Zenon DEF TerminalInv, Presented
<1>2. surface' = [surface EXCEPT ![Lines] = LineDrawn]
  BY Zenon DEF RedrawLine
<1>3. DOMAIN surface' = 0..Lines /\ \A i \in 0..Lines : surface'[i] = IF i = Lines THEN LineDrawn ELSE surface[i]
  BY Zenon, <1>1, <1>2
<1>4. shown' = [r \in 0..Lines |-> IF r \in {Lines} THEN surface'[r] ELSE shown[r]]
  BY Zenon, <1>1 DEF RedrawLine, Present
<1>5. DOMAIN shown' = 0..Lines /\ \A i \in 0..Lines : shown'[i] = surface'[i]
  BY Zenon, <1>1, <1>3, <1>4
<1>6. LineShown'
  <2>1. surface'[Lines] = LineDrawn
    BY Zenon, <1>3, LinesAre
  <2> QED BY Zenon, <2>1, LineDrawnShows DEF LineShown
<1>7. History'
  BY Zenon DEF TerminalInv, History
<1>8. HistoryShown'
  <2>1. \A i \in 0..count - 1 : i \in 0..Lines /\ i # Lines
    <3>1. count \in 0..Lines
      BY Zenon DEF TerminalInv, History
    <3> QED BY <3>1, LinesAre
  <2>2. \A i \in 0..count - 1 : surface'[i] = surface[i]
    BY Zenon, <1>3, <2>1
  <2>3. HistoryShown /\ count' = count /\ lens' = lens /\ past' = past
    BY Zenon DEF TerminalInv
  <2> QED BY Zenon, <2>2, <2>3 DEF HistoryShown
<1> QED BY Zenon, <1>3, <1>5, <1>6, <1>7, <1>8 DEF TerminalInv, Presented

LEMMA TerminalStays ==
    ASSUME TerminalInv, UNCHANGED <<current, currentLen, cursor, lines, lens, count, past, doc, surface, shown>>
    PROVE  TerminalInv'
BY Zenon DEF TerminalInv, TypedLine, History, Presented, LineShown, HistoryShown

LEMMA CursorIs ==
    ASSUME TerminalInv
    PROVE  /\ Min({cursor, currentLen}) = cursor /\ cursor \in Nat /\ currentLen \in Nat
           /\ cursor <= currentLen /\ currentLen <= Cols
<1>1. cursor \in 0..currentLen /\ currentLen \in 0..Cols
  BY Zenon DEF TerminalInv, TypedLine
<1>2. cursor \in Nat /\ currentLen \in Nat /\ cursor <= currentLen /\ currentLen <= Cols
  BY <1>1, SizesAre
<1>3. Min({cursor, currentLen}) = cursor
  BY <1>2, LeastOfTwo
<1> QED BY Zenon, <1>2, <1>3

\* The line after an edit.
LEMMA LineEdited ==
    ASSUME TerminalInv, current' \in Line, currentLen' \in 0..Cols, cursor' \in 0..currentLen',
           NEW s, s = Leading(current', currentLen'), doc' = [doc EXCEPT ![0] = s]
    PROVE  TypedLine'
<1>1. doc \in [Rows -> Seq(Glyphs)] /\ 0 \in Rows
  BY Zenon, LinesAre DEF TerminalInv, TypedLine
<1>2. s \in Seq(Glyphs)
  BY Zenon, TextIs
<1>3. doc' \in [Rows -> Seq(Glyphs)] /\ doc'[0] = s
  BY <1>1, <1>2
<1> QED BY Zenon, <1>3 DEF TypedLine

LEMMA TerminalPutKeeps ==
    ASSUME TerminalInv, NEW b, NEW key, NEW n \in Nat, NEW ch \in Glyphs, TerminalPut(b, key, n, ch)
    PROVE  TerminalInv'
<1>1. /\ Min({cursor, currentLen}) = cursor /\ cursor \in Nat /\ currentLen \in Nat
      /\ cursor <= currentLen /\ currentLen <= Cols
  BY Zenon, CursorIs
<1>2. current \in Line /\ currentLen \in 0..Cols /\ cursor \in 0..currentLen /\ doc[0] = Leading(current, currentLen)
  BY Zenon DEF TerminalInv, TypedLine
<1>3. UNCHANGED <<lines, lens, count, past>>
  BY Zenon DEF TerminalPut
<1>4. CASE currentLen + n <= Cols
  <2>1. /\ current' = Shifted(current, cursor, n, currentLen, ch)
        /\ currentLen' = currentLen + n
        /\ cursor' = cursor + n
        /\ doc' = [doc EXCEPT ![0] = Inserted(@, cursor, n, ch)]
        /\ RedrawLine
    <3>1. ~(currentLen + n > Cols)
      BY <1>1, <1>4, SizesAre
    <3> QED BY Zenon, <1>1, <1>4, <3>1 DEF TerminalPut
  <2>2. cursor + n <= Cols
    BY <1>1, <1>4, SizesAre
  <2>3. PutIn(current, currentLen, cursor, n, ch)
    BY Zenon, <1>2, <2>2 DEF PutIn
  <2>4. PutResult(current, currentLen, cursor, n, ch)
    BY Zenon, <2>3, PutKeepsText
  <2>5. /\ current' \in Line /\ currentLen' \in 0..Cols
        /\ Leading(current', currentLen') = Inserted(doc[0], cursor, n, ch)
    BY Zenon, <1>2, <1>4, <2>1, <2>4 DEF PutResult
  <2>6. cursor' \in 0..currentLen'
    BY <1>1, <2>1
  <2>7. PICK s : s = Inserted(doc[0], cursor, n, ch)
    BY Zenon
  <2>8. doc' = [doc EXCEPT ![0] = s]
    BY Zenon, <2>1, <2>7
  <2>9. TypedLine'
    BY Zenon, <2>5, <2>6, <2>7, <2>8, LineEdited
  <2> QED BY Zenon, <1>3, <2>1, <2>9, LineRedrawn
<1>5. CASE ~(currentLen + n <= Cols)
  <2>1. cursor' = cursor /\ UNCHANGED <<current, currentLen, doc>>
    BY Zenon, <1>1, <1>5 DEF TerminalPut
  <2>2. UNCHANGED <<surface, shown>> \/ RedrawLine
    BY Zenon DEF TerminalPut
  <2>3. TypedLine'
    BY Zenon, <2>1 DEF TerminalInv, TypedLine
  <2>4. CASE UNCHANGED <<surface, shown>>
    BY Zenon, <1>3, <2>1, <2>4, TerminalStays
  <2> QED BY Zenon, <1>3, <2>2, <2>3, <2>4, LineRedrawn
<1> QED BY Zenon, <1>4, <1>5

LEMMA TerminalBackspaceKeeps == ASSUME TerminalInv, NEW b, TerminalBackspace(b) PROVE TerminalInv'
<1>1. /\ Min({cursor, currentLen}) = cursor /\ cursor \in Nat /\ currentLen \in Nat
      /\ cursor <= currentLen /\ currentLen <= Cols
  BY Zenon, CursorIs
<1>2. current \in Line /\ currentLen \in 0..Cols /\ cursor \in 0..currentLen /\ doc[0] = Leading(current, currentLen)
  BY Zenon DEF TerminalInv, TypedLine
<1>3. UNCHANGED <<lines, lens, count, past>> /\ RedrawLine
  BY Zenon DEF TerminalBackspace
<1>4. CASE cursor > 0
  <2>1. /\ current' = Closed(current, cursor - 1, currentLen, Space)
        /\ currentLen' = currentLen - 1
        /\ cursor' = cursor - 1
        /\ doc' = [doc EXCEPT ![0] = Deleted(@, cursor)]
    BY Zenon, <1>1, <1>4 DEF TerminalBackspace
  <2>2. cursor \in 1..currentLen
    BY <1>1, <1>4
  <2>3. TakeOut(current, currentLen, cursor, Space)
    BY Zenon, <1>2, <2>2 DEF TakeOut
  <2>4. TakeResult(current, currentLen, cursor, Space)
    BY Zenon, <2>3, TakeKeepsText
  <2>5. /\ current' \in Line /\ currentLen' \in 0..Cols
        /\ Leading(current', currentLen') = Deleted(doc[0], cursor)
    BY Zenon, <1>2, <2>1, <2>4 DEF TakeResult
  <2>6. cursor' \in 0..currentLen'
    BY <1>1, <1>4, <2>1
  <2>7. PICK s : s = Deleted(doc[0], cursor)
    BY Zenon
  <2>8. doc' = [doc EXCEPT ![0] = s]
    BY Zenon, <2>1, <2>7
  <2>9. TypedLine'
    BY Zenon, <2>5, <2>6, <2>7, <2>8, LineEdited
  <2> QED BY Zenon, <1>3, <2>9, LineRedrawn
<1>5. CASE ~(cursor > 0)
  <2>1. cursor' = cursor /\ UNCHANGED <<current, currentLen, doc>>
    BY Zenon, <1>1, <1>5 DEF TerminalBackspace
  <2>2. TypedLine'
    BY Zenon, <2>1 DEF TerminalInv, TypedLine
  <2> QED BY Zenon, <1>3, <2>2, LineRedrawn
<1> QED BY Zenon, <1>4, <1>5

LEMMA TerminalMoveKeeps ==
    ASSUME TerminalInv, NEW b, NEW key, NEW to \in 0..currentLen, TerminalMove(b, key, to)
    PROVE  TerminalInv'
<1>1. cursor' = to /\ UNCHANGED <<current, currentLen, lines, lens, count, past, doc>> /\ RedrawLine
  BY Zenon DEF TerminalMove
<1>2. TypedLine'
  BY Zenon, <1>1 DEF TerminalInv, TypedLine
<1> QED BY Zenon, <1>1, <1>2, LineRedrawn

\* The array push_line stores for a text, and that text again.
PaddedLine(s) == [c \in Columns |-> IF c < Len(s) THEN s[c + 1] ELSE Space]

LEMMA PaddedLineIs ==
    ASSUME NEW s \in Seq(Glyphs), Len(s) \in 0..Cols
    PROVE  PaddedLine(s) \in Line /\ Leading(PaddedLine(s), Len(s)) = s
<1>1. Len(s) \in Nat /\ Len(s) <= Cols
  BY SizesAre
<1>2. \A c \in Columns : c \in Nat
  BY Zenon, ColumnsAre
<1>3. ASSUME NEW c \in Columns PROVE PaddedLine(s)[c] \in Glyphs
  <2>1. Space \in Glyphs
    BY Zenon DEF Glyphs
  <2>2. c < Len(s) => c + 1 \in 1..Len(s)
    <3>1. c \in Nat
      BY Zenon, <1>2
    <3> QED BY <1>1, <3>1
  <2>3. c < Len(s) => s[c + 1] \in Glyphs
    <3>1. \A j \in 1..Len(s) : s[j] \in Glyphs
      OBVIOUS
    <3> QED BY Zenon, <2>2, <3>1
  <2> QED BY Zenon, <2>1, <2>3 DEF PaddedLine
<1>4. PaddedLine(s) \in Line
  BY <1>3 DEF PaddedLine, Line
<1>5. ASSUME NEW i \in 1..Len(s) PROVE s[i] = PaddedLine(s)[i - 1]
  <2>1. i - 1 \in Nat /\ i - 1 < Cols /\ i - 1 < Len(s) /\ (i - 1) + 1 = i
    BY <1>1, SizesAre
  <2>2. i - 1 \in Columns
    BY Zenon, <2>1, ColumnsAre
  <2> QED BY Zenon, <2>1, <2>2 DEF PaddedLine
<1>6. Leading(PaddedLine(s), Len(s)) = s
  BY Zenon, <1>4, <1>5, TextIsAlso
<1> QED BY Zenon, <1>4, <1>6

\* A sequence q of n + 1 texts, whole and without its first.
Texts(q, n) == q \in Seq(Seq(Glyphs)) /\ n \in Nat /\ Len(q) = n + 1
AllOf(q, n, r) == r \in Seq(Seq(Glyphs)) /\ Len(r) = n + 1 /\ \A i \in 1..n + 1 : r[i] = q[i]
RestOf(q, n, r) == r \in Seq(Seq(Glyphs)) /\ Len(r) = n /\ \A i \in 1..n : r[i] = q[i + 1]

LEMMA AllAndRest ==
    ASSUME NEW q, NEW n, Texts(q, n)
    PROVE  AllOf(q, n, SubSeq(q, 1, Len(q))) /\ RestOf(q, n, SubSeq(q, 2, Len(q)))
<1>1. PICK S : S = Seq(Glyphs)
  BY Zenon
<1>2. q \in Seq(S) /\ n \in Nat /\ Len(q) = n + 1
  BY Zenon, <1>1 DEF Texts
<1>3. PICK r, t : r = SubSeq(q, 1, n + 1) /\ t = SubSeq(q, 2, n + 1)
  BY Zenon
<1>4. r \in Seq(S) /\ Len(r) = n + 1 /\ \A i \in 1..n + 1 : r[i] = q[i]
  BY <1>2, <1>3
<1>5. t \in Seq(S) /\ Len(t) = n
  BY <1>2, <1>3
<1>6. \A i \in 1..n : t[i] = q[i + 1]
  BY <1>2, <1>3
<1>7. AllOf(q, n, r)
  BY Zenon, <1>1, <1>4 DEF AllOf
<1>8. RestOf(q, n, t)
  BY Zenon, <1>1, <1>5, <1>6 DEF RestOf
<1> QED BY Zenon, <1>2, <1>3, <1>7, <1>8

\* A new line at the end of the history, the oldest giving way when it is full.
LEMMA HistoryGrows ==
    ASSUME History, NEW s \in Seq(Glyphs), Len(s) \in 0..Cols, PushLine(s),
           past' = LET all == Append(past, s) IN SubSeq(all, 1 + Max({Len(all) - Lines, 0}), Len(all))
    PROVE  History'
<1> DEFINE all == Append(past, s)
<1>1. /\ lines \in [0..Lines - 1 -> Line] /\ lens \in [0..Lines - 1 -> 0..Cols]
      /\ past \in Seq(Seq(Glyphs)) /\ count \in 0..Lines /\ Len(past) = count
      /\ \A i \in 0..count - 1 : past[i + 1] = Leading(lines[i], lens[i])
  BY Zenon DEF History
<1>2. count \in Nat /\ count <= Lines /\ Lines \in Nat /\ Lines >= 1
  BY <1>1, LinesAre
<1>3. all \in Seq(Seq(Glyphs)) /\ Len(all) = count + 1 /\ all[count + 1] = s
  BY <1>1, <1>2
<1>4. \A i \in 0..count - 1 : all[i + 1] = past[i + 1]
  BY <1>1, <1>2
<1> HIDE DEF all
<1>5. past' = SubSeq(all, 1 + Max({Len(all) - Lines, 0}), Len(all))
  BY Zenon DEF all
<1>6. Len(all) - Lines \in Int /\ 0 \in Int
  BY <1>2, <1>3
<1>7. Max({Len(all) - Lines, 0}) = IF Len(all) - Lines >= 0 THEN Len(all) - Lines ELSE 0
  BY Zenon, <1>6, GreatestOfTwo
<1>8. PICK p, m : p = PaddedLine(s) /\ m = Len(s)
  BY Zenon
<1>9. p \in Line /\ m \in 0..Cols /\ Leading(p, m) = s
  BY Zenon, <1>8, PaddedLineIs
<1>10. CASE count < Lines
  <2>1. lines' = [lines EXCEPT ![count] = p] /\ lens' = [lens EXCEPT ![count] = m] /\ count' = count + 1
    BY Zenon, <1>8, <1>10 DEF PushLine, PaddedLine
  <2>2. 1 + Max({Len(all) - Lines, 0}) = 1
    BY <1>2, <1>3, <1>7, <1>10
  <2>3. past' = SubSeq(all, 1, Len(all))
    BY Zenon, <1>5, <2>2
  <2>4. past' \in Seq(Seq(Glyphs)) /\ Len(past') = count + 1 /\ \A i \in 1..count + 1 : past'[i] = all[i]
    <3>1. Texts(all, count)
      BY Zenon, <1>2, <1>3 DEF Texts
    <3>2. AllOf(all, count, past')
      BY Zenon, <2>3, <3>1, AllAndRest
    <3> QED BY Zenon, <3>2 DEF AllOf
  <2>5. count \in 0..Lines - 1 /\ count + 1 \in 0..Lines
    BY <1>2, <1>10
  <2>6. lines' \in [0..Lines - 1 -> Line] /\ lens' \in [0..Lines - 1 -> 0..Cols]
    BY Zenon, <1>1, <1>9, <2>1
  <2>7. ASSUME NEW i \in 0..count PROVE past'[i + 1] = Leading(lines'[i], lens'[i])
    <3>1. i + 1 \in 1..count + 1 /\ i \in 0..Lines - 1
      BY <1>2, <1>10
    <3>2. past'[i + 1] = all[i + 1]
      BY Zenon, <2>4, <3>1
    <3>3. CASE i = count
      BY Zenon, <1>1, <1>3, <1>9, <2>1, <3>1, <3>2, <3>3
    <3>4. CASE i # count
      <4>1. i \in 0..count - 1
        BY <1>2, <3>4
      <4>2. lines'[i] = lines[i] /\ lens'[i] = lens[i]
        BY Zenon, <1>1, <2>1, <3>1, <3>4
      <4> QED BY Zenon, <1>1, <1>4, <3>2, <4>1, <4>2
    <3> QED BY Zenon, <3>3, <3>4
  <2>8. \A i \in 0..count' - 1 : i \in 0..count
    BY <1>2, <2>1
  <2>9. \A i \in 0..count' - 1 : past'[i + 1] = Leading(lines'[i], lens'[i])
    BY Zenon, <2>7, <2>8
  <2> QED BY Zenon, <2>1, <2>4, <2>5, <2>6, <2>9 DEF History
<1>11. CASE ~(count < Lines)
  <2>1. /\ lines' = [i \in 0..Lines - 1 |-> IF i < Lines - 1 THEN lines[i + 1] ELSE p]
        /\ lens' = [i \in 0..Lines - 1 |-> IF i < Lines - 1 THEN lens[i + 1] ELSE m]
        /\ count' = count
    BY Zenon, <1>1, <1>8, <1>11 DEF PushLine, PaddedLine
  <2>2. count = Lines /\ 1 + Max({Len(all) - Lines, 0}) = 2
    BY <1>2, <1>3, <1>7, <1>11
  <2>3. past' = SubSeq(all, 2, Len(all))
    BY Zenon, <1>5, <2>2
  <2>4. past' \in Seq(Seq(Glyphs)) /\ Len(past') = count /\ \A i \in 1..count : past'[i] = all[i + 1]
    <3>1. Texts(all, count)
      BY Zenon, <1>2, <1>3 DEF Texts
    <3>2. RestOf(all, count, past')
      BY Zenon, <2>3, <3>1, AllAndRest
    <3> QED BY Zenon, <3>2 DEF RestOf
  <2>5. ASSUME NEW i \in 0..Lines - 1 PROVE i < Lines - 1 => lines[i + 1] \in Line /\ lens[i + 1] \in 0..Cols
    <3>1. i < Lines - 1 => i + 1 \in 0..Lines - 1
      BY <1>2
    <3> QED BY Zenon, <1>1, <3>1
  <2>6. lines' \in [0..Lines - 1 -> Line] /\ lens' \in [0..Lines - 1 -> 0..Cols]
    BY Zenon, <1>9, <2>1, <2>5
  <2>7. ASSUME NEW i \in 0..Lines - 1 PROVE past'[i + 1] = Leading(lines'[i], lens'[i])
    <3>1. i + 1 \in 1..count
      BY <1>2, <2>2
    <3>2. past'[i + 1] = all[(i + 1) + 1]
      BY Zenon, <2>4, <3>1
    <3>3. CASE i < Lines - 1
      <4>1. i + 1 \in 0..count - 1
        BY <1>2, <2>2, <3>3
      <4>2. lines'[i] = lines[i + 1] /\ lens'[i] = lens[i + 1]
        BY Zenon, <2>1, <3>3
      <4> QED BY Zenon, <1>1, <1>4, <3>2, <4>1, <4>2
    <3>4. CASE ~(i < Lines - 1)
      <4>1. i + 1 = count
        BY <1>2, <2>2, <3>4
      <4>2. lines'[i] = p /\ lens'[i] = m
        BY Zenon, <2>1, <3>4
      <4> QED BY Zenon, <1>3, <1>9, <3>2, <4>1, <4>2
    <3> QED BY Zenon, <3>3, <3>4
  <2>8. \A i \in 0..count' - 1 : past'[i + 1] = Leading(lines'[i], lens'[i])
    BY Zenon, <2>1, <2>2, <2>7
  <2> QED BY Zenon, <1>1, <2>1, <2>4, <2>6, <2>8 DEF History
<1> QED BY Zenon, <1>10, <1>11

LEMMA TextDrawn ==
    ASSUME NEW cells, NEW b \in Line, NEW len \in 0..Cols, NEW c \in 0..len - 1
    PROVE  DrawText(cells, 0, Leading(b, len), FALSE)[c] = Cell(Leading(b, len)[c + 1], FALSE)
<1>1. PICK t : t = Leading(b, len)
  BY Zenon
<1>2. Len(t) = len
  BY Zenon, <1>1, TextIs
<1>3. c \in Nat /\ c < Cols /\ c \in 0..0 + Len(t) - 1 /\ c - 0 + 1 = c + 1
  BY <1>2, SizesAre
<1>4. c \in Columns
  BY Zenon, <1>3, ColumnsAre
<1> QED BY Zenon, <1>1, <1>3, <1>4 DEF DrawText

LEMMA EmptyLine ==
    ASSUME NEW b \in Line
    PROVE  Leading(b, 0) = <<>>
<1>1. <<>> \in Seq(Glyphs) /\ Len(<<>>) = 0 /\ (\A i \in 1..0 : FALSE) /\ 0 \in 0..Cols
  BY SizesAre
<1>2. \A i \in 1..0 : <<>>[i] = b[i - 1]
  BY Zenon, <1>1
<1> QED BY Zenon, <1>1, <1>2, TextIsAlso

LEMMA TerminalEnterKeeps == ASSUME TerminalInv, NEW b, TerminalEnter(b) PROVE TerminalInv'
<1>1. current \in Line /\ currentLen \in 0..Cols /\ doc[0] = Leading(current, currentLen) /\ History
  BY Zenon DEF TerminalInv, TypedLine
<1>2. PICK s : s = doc[0]
  BY Zenon
<1>3. s \in Seq(Glyphs) /\ Len(s) \in 0..Cols
  BY Zenon, <1>1, <1>2, TextIs
<1>4. PushLine(s)
  BY Zenon, <1>1, <1>2 DEF TerminalEnter
<1>5. past' = LET all == Append(past, s) IN SubSeq(all, 1 + Max({Len(all) - Lines, 0}), Len(all))
  BY Zenon, <1>2 DEF TerminalEnter
<1>6. History'
  BY Zenon, <1>1, <1>3, <1>4, <1>5, HistoryGrows
<1>7. TypedLine'
  <2>1. current' = [c \in Columns |-> Space] /\ currentLen' = 0 /\ cursor' = 0 /\ doc' = [doc EXCEPT ![0] = <<>>]
    BY Zenon DEF TerminalEnter
  <2>2. [c \in Columns |-> Space] \in Line
    BY Zenon DEF Line, Glyphs
  <2>3. 0 \in 0..Cols /\ 0 \in 0..0
    BY SizesAre
  <2>4. <<>> = Leading(current', currentLen')
    BY Zenon, <2>1, <2>2, EmptyLine
  <2> QED BY Zenon, <2>1, <2>2, <2>3, <2>4, LineEdited
<1>8. surface' = [i \in 0..Lines |-> Render(i)]
  BY Zenon DEF TerminalEnter, TerminalInv, Presented
<1>9. shown' = [i \in 0..Lines |-> IF i \in 0..Lines THEN surface'[i] ELSE shown[i]]
  BY Zenon DEF TerminalEnter, Present, TerminalInv, Presented
<1>10. Presented'
  <2>1. DOMAIN surface' = 0..Lines /\ DOMAIN shown' = 0..Lines /\ \A i \in 0..Lines : shown'[i] = surface'[i]
    BY Zenon, <1>8, <1>9
  <2> QED BY Zenon, <2>1 DEF Presented
<1>11. LineShown'
  <2>1. Render(Lines) = LineDrawn
    <3>1. count' \in 0..Lines
      BY Zenon, <1>6 DEF History
    <3>2. ~(Lines < count')
      BY <3>1, LinesAre
    <3>3. PICK x : x = LineDrawn
      BY Zenon
    <3> QED BY Zenon, <3>2, <3>3 DEF Render
  <2>2. surface'[Lines] = LineDrawn
    BY Zenon, <1>8, <2>1, LinesAre
  <2> QED BY Zenon, <1>7, <2>2, LineDrawnShows DEF LineShown
<1>12. ASSUME NEW i \in 0..count' - 1, NEW c \in 0..lens'[i] - 1
       PROVE  surface'[i][c] = Cell(past'[i + 1][c + 1], FALSE)
  <2>1. count' \in 0..Lines
    BY Zenon, <1>6 DEF History
  <2>2. i \in 0..Lines - 1 /\ i \in 0..Lines /\ i # Lines /\ i < count'
    <3>1. PICK n : n = count'
      BY Zenon
    <3>2. n \in 0..Lines /\ i \in 0..n - 1
      BY Zenon, <1>12, <2>1, <3>1
    <3>3. i \in 0..Lines - 1 /\ i \in 0..Lines /\ i # Lines /\ i < n
      BY <3>2, LinesAre
    <3> QED BY Zenon, <3>1, <3>3
  <2>3. Render(i) = DrawText(surface[i], 0, Leading(lines'[i], lens'[i]), FALSE)
    BY Zenon, <2>2 DEF Render
  <2>4. lines'[i] \in Line /\ lens'[i] \in 0..Cols /\ past'[i + 1] = Leading(lines'[i], lens'[i])
    BY Zenon, <1>6, <2>2 DEF History
  <2>5. surface'[i][c] = DrawText(surface[i], 0, Leading(lines'[i], lens'[i]), FALSE)[c]
    BY Zenon, <1>8, <2>2, <2>3
  <2>6. DrawText(surface[i], 0, Leading(lines'[i], lens'[i]), FALSE)[c] = Cell(Leading(lines'[i], lens'[i])[c + 1], FALSE)
    BY Zenon, <1>12, <2>4, TextDrawn
  <2> QED BY Zenon, <2>4, <2>5, <2>6
<1>13. HistoryShown'
  BY Zenon, <1>12 DEF HistoryShown
<1> QED BY Zenon, <1>6, <1>7, <1>10, <1>11, <1>13 DEF TerminalInv

LEMMA TerminalStep == ASSUME app = "terminal", TerminalInv, TextNext PROVE TerminalInv' /\ app' = "terminal"
<1>1. app' = "terminal"
  BY Zenon, AppKept
<1>2. "terminal" # "editor"
  BY Zenon
<1>3. ASSUME NEW b, NEW key PROVE ~EditorKey(b, key)
  BY Zenon, <1>2 DEF EditorKey
<1>4. ASSUME Prefix PROVE TerminalInv'
  BY Zenon, <1>4, TerminalStays DEF Prefix, editorVars, terminalVars
<1>5. ASSUME NEW b \in Bytes, NoKey(b) PROVE TerminalInv'
  BY Zenon, <1>5, TerminalStays DEF NoKey, editorVars, terminalVars
<1>6. ASSUME NEW b \in Bytes, TerminalPut(b, "ascii", 1, Char(b)) PROVE TerminalInv'
  <2>1. 1 \in Nat
    OBVIOUS
  <2> QED BY Zenon, <1>6, <2>1, CharIsGlyph, TerminalPutKeeps
<1>7. ASSUME NEW b \in Bytes, TerminalPut(b, "tab", TabWidth, Space) PROVE TerminalInv'
  <2>1. Space \in Glyphs
    BY Zenon DEF Glyphs
  <2> QED BY Zenon, <1>7, <2>1, SizesAre, TerminalPutKeeps
<1>8. ASSUME NEW b \in Bytes, TerminalBackspace(b) PROVE TerminalInv'
  BY Zenon, <1>8, TerminalBackspaceKeeps
<1>9. cursor \in Nat /\ currentLen \in Nat /\ cursor <= currentLen
  BY Zenon, CursorIs
<1>10. ASSUME NEW b \in Bytes, TerminalMove(b, "left", Max({cursor - 1, 0})) PROVE TerminalInv'
  <2>1. cursor - 1 \in Int /\ 0 \in Int
    BY <1>9
  <2>2. Max({cursor - 1, 0}) = IF cursor - 1 >= 0 THEN cursor - 1 ELSE 0
    BY Zenon, <2>1, GreatestOfTwo
  <2>3. Max({cursor - 1, 0}) \in 0..currentLen
    BY <1>9, <2>2
  <2> QED BY Zenon, <1>10, <2>3, TerminalMoveKeeps
<1>11. ASSUME NEW b \in Bytes, TerminalMove(b, "right", Min({cursor + 1, currentLen})) PROVE TerminalInv'
  <2>1. cursor + 1 \in Int /\ currentLen \in Int
    BY <1>9
  <2>2. Min({cursor + 1, currentLen}) = IF cursor + 1 <= currentLen THEN cursor + 1 ELSE currentLen
    BY Zenon, <2>1, LeastOfTwo
  <2>3. Min({cursor + 1, currentLen}) \in 0..currentLen
    BY <1>9, <2>2
  <2> QED BY Zenon, <1>11, <2>3, TerminalMoveKeeps
<1>12. ASSUME NEW b \in Bytes, TerminalEnter(b) PROVE TerminalInv'
  BY Zenon, <1>12, TerminalEnterKeeps
<1>13. ASSUME NEW b \in Bytes, TerminalIgnores(b) PROVE TerminalInv'
  BY Zenon, <1>13, TerminalStays DEF TerminalIgnores, terminalVars
<1>14. ASSUME ~Prefix PROVE TerminalInv'
  <2>1. PICK b \in Bytes : NoKey(b) \/ TerminalPut(b, "ascii", 1, Char(b)) \/ TerminalPut(b, "tab", TabWidth, Space)
          \/ TerminalBackspace(b) \/ TerminalMove(b, "left", Max({cursor - 1, 0}))
          \/ TerminalMove(b, "right", Min({cursor + 1, currentLen})) \/ TerminalEnter(b) \/ TerminalIgnores(b)
    BY Zenon, <1>3, <1>14 DEF TextNext, EditorPut, EditorBackspace, EditorEnter, EditorLeft, EditorRight,
       EditorUp, EditorDown
  <2> QED BY Zenon, <1>5, <1>6, <1>7, <1>8, <1>10, <1>11, <1>12, <1>13, <2>1
<1> QED BY Zenon, <1>1, <1>4, <1>14

LEMMA TerminalIsTrue == ASSUME app = "terminal", TerminalInv PROVE ScreenTrue
<1>1. "terminal" # "editor"
  BY Zenon
<1>2. Leading(current, currentLen) = doc[0] /\ cursor <= currentLen /\ count = Len(past)
  BY Zenon, CursorIs DEF TerminalInv, TypedLine, History
<1>3. \A i \in 0..Lines : shown[i] = surface[i]
  BY Zenon DEF TerminalInv, Presented
<1>4. (shown[Lines] = BlankRow /\ doc[0] = <<>>) \/ Shows(shown[Lines], doc[0], cursor)
  BY Zenon, <1>3, LinesAre DEF TerminalInv, LineShown
<1>5. \A i \in 0..count - 1 : i \in 0..Lines
  <2>1. count \in 0..Lines
    BY Zenon DEF TerminalInv, History
  <2> QED BY <2>1, LinesAre
<1>6. \A i \in 0..count - 1 : Leading(lines[i], lens[i]) = past[i + 1]
  BY Zenon DEF TerminalInv, History
<1>7. \A i \in 0..count - 1 : \A c \in 0..lens[i] - 1 : shown[i][c] = Cell(past[i + 1][c + 1], FALSE)
  BY Zenon, <1>3, <1>5 DEF TerminalInv, HistoryShown
<1>8. TerminalTrue
  BY Zenon, <1>2, <1>4, <1>6, <1>7 DEF TerminalTrue
<1> QED BY Zenon, <1>1, <1>8 DEF ScreenTrue

TextInv == (app = "editor" /\ EditorInv) \/ (app = "terminal" /\ TerminalInv)

LEMMA BlankShows == Shows(BlankRow, <<>>, -1)
<1>1. ASSUME NEW c \in Columns PROVE BlankRow[c] = Cell(IF c < Len(<<>>) THEN <<>>[c + 1] ELSE Space, c = -1)
  <2>1. ~(c = -1) /\ ~(c < Len(<<>>))
    BY ColumnsAre
  <2>2. PICK g : g = IF c < Len(<<>>) THEN <<>>[c + 1] ELSE Space
    BY Zenon
  <2>3. g = Space
    BY Zenon, <2>1, <2>2
  <2>4. Cell(g, c = -1) = Cell(Space, FALSE)
    BY Zenon, <2>1, <2>3 DEF Cell
  <2>5. BlankRow[c] = Cell(Space, FALSE)
    BY Zenon DEF BlankRow
  <2> QED BY Zenon, <2>2, <2>4, <2>5
<1> QED BY Zenon, <1>1 DEF Shows

LEMMA TextStart == TextInit => TextInv
<1> SUFFICES ASSUME TextInit PROVE TextInv
  BY Zenon
<1>1. \A x \in {Nul, Space} : [c \in Columns |-> x] \in Line
  BY Zenon DEF Line, Glyphs
<1>2. 0 \in 0..Cols /\ 0 \in 0..0 /\ 0 \in Rows /\ 0 \in 0..Lines
  BY SizesAre, LinesAre
<1>3. <<>> \in Seq(Glyphs) /\ <<>> \in Seq(Seq(Glyphs)) /\ Len(<<>>) = 0
  OBVIOUS
<1>4. doc = [r \in Rows |-> <<>>]
  BY Zenon DEF TextInit, Rows
<1>5. doc \in [Rows -> Seq(Glyphs)] /\ \A r \in Rows : doc[r] = <<>>
  BY Zenon, <1>3, <1>4
<1>6. shown = surface
  BY Zenon DEF TextInit
<1>7. CASE app = "editor"
  <2>1. PICK e : e = [c \in Columns |-> Nul]
    BY Zenon
  <2>2. e \in Line
    BY Zenon, <1>1, <2>1
  <2>3. BlankFrom(e, 0)
    BY Zenon, <2>1 DEF BlankFrom
  <2>4. LineTrue(e, 0, <<>>)
    BY Zenon, <1>2, <2>2, <2>3, EmptyLine DEF LineTrue
  <2>5. buf = [r \in Rows |-> e] /\ rowLen = [r \in Rows |-> 0] /\ row = 0 /\ col = 0
    BY Zenon, <2>1 DEF TextInit, Rows
  <2>6. EditorText
    BY Zenon, <1>2, <1>5, <2>2, <2>4, <2>5 DEF EditorText
  <2>7. surface = [r \in Rows |-> IF r = 0 THEN BannerRow ELSE BlankRow]
    BY Zenon, <1>7 DEF TextInit, Rows
  <2>8. EditorScreen
    BY Zenon, <1>2, <1>5, <1>6, <2>5, <2>7, BlankShows DEF EditorScreen
  <2> QED BY Zenon, <1>7, <2>6, <2>8 DEF TextInv, EditorInv
<1>8. CASE app = "terminal"
  <2>1. PICK e : e = [c \in Columns |-> Space]
    BY Zenon
  <2>2. e \in Line
    BY Zenon, <1>1, <2>1
  <2>3. current = e /\ currentLen = 0 /\ cursor = 0 /\ count = 0 /\ past = <<>>
        /\ lines = [i \in 0..Lines - 1 |-> e] /\ lens = [i \in 0..Lines - 1 |-> 0]
    BY Zenon, <2>1 DEF TextInit
  <2>4. TypedLine
    BY Zenon, <1>2, <1>5, <2>2, <2>3, EmptyLine DEF TypedLine
  <2>5. \A i \in 0..count - 1 : FALSE
    BY <2>3
  <2>6. History
    BY Zenon, <1>2, <1>3, <2>2, <2>3, <2>5 DEF History
  <2>7. surface = [r \in 0..Lines |-> IF r = 0 THEN BannerRow ELSE BlankRow]
    <3>1. app # "editor"
      BY <1>8
    <3> QED BY Zenon, <3>1 DEF TextInit
  <2>8. Presented
    BY Zenon, <1>6, <2>7 DEF Presented
  <2>9. LineShown
    <3>1. Lines # 0
      BY LinesAre
    <3>2. surface[Lines] = BlankRow
      BY Zenon, <2>7, <3>1, LinesAre
    <3> QED BY Zenon, <1>2, <1>5, <3>2 DEF LineShown
  <2>10. HistoryShown
    BY Zenon, <2>5 DEF HistoryShown
  <2> QED BY Zenon, <1>8, <2>4, <2>6, <2>8, <2>9, <2>10 DEF TextInv, TerminalInv
<1> QED BY Zenon, <1>7, <1>8 DEF TextInit

\* What the text applications show is what was typed: for windows of any size,
\* any tab width and any sequence of scancodes, the buffers hold the text that
\* the keys give, and the window shows it with the cursor in its place.
THEOREM WhatIsShownWasTyped == TextSpec => []ScreenTrue
<1>1. TextInit => TextInv
  BY Zenon, TextStart
<1>2. TextInv /\ [TextNext]_textVars => TextInv'
  <2> SUFFICES ASSUME TextInv, [TextNext]_textVars PROVE TextInv'
    BY Zenon
  <2>1. CASE TextNext
    BY Zenon, <2>1, EditorStep, TerminalStep DEF TextInv
  <2>2. CASE UNCHANGED textVars
    <3>1. UNCHANGED <<buf, rowLen, row, col, doc, surface, shown>> /\ app' = app
      BY Zenon, <2>2 DEF textVars, editorVars
    <3>2. UNCHANGED <<current, currentLen, cursor, lines, lens, count, past, doc, surface, shown>>
      BY Zenon, <2>2 DEF textVars, editorVars, terminalVars
    <3> QED BY Zenon, <3>1, <3>2, EditorStays, TerminalStays DEF TextInv
  <2> QED BY Zenon, <2>1, <2>2
<1>3. TextInv => ScreenTrue
  BY Zenon, EditorIsTrue, TerminalIsTrue DEF TextInv, EditorInv
<1> QED BY <1>1, <1>2, <1>3, PTL DEF TextSpec
=============================================================================
