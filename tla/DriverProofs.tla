---------------------------- MODULE DriverProofs ----------------------------
(***************************************************************************)
(* What the drivers and the routing of their input keep, for any number of *)
(* windows, keys and packets.  The modules proved about share no state.    *)
(***************************************************************************)
EXTENDS InputRouting, Ps2, Virtqueue, Xhci, NaturalsInduction, WellFoundedInduction, TLAPS

----------------------------------------------------------------------------
(* Input routing                                                           *)

\* The places of register_window_input before its endpoint exists, between
\* that and the grant, and after the grant.
Early == {"start", "newTable", "endpoint"}
Late == {"checkRoutes", "newRoutes", "push", "registered"}

RouteTypeOK ==
  /\ rpc \in [Owners -> Early \cup {"grant", "panic"} \cup Late]
  /\ sendTable \in Seq(Nat) /\ endpoints \in Nat
  /\ routes \in Seq([surface : Owners, cap : Nat])
  /\ sendCap \in [Owners -> Nat] /\ receiveOn \in [Owners -> Nat]
  /\ focused \in Owners \cup {NoOwner}
  /\ doubleInit \in BOOLEAN

\* While no static was initialised twice the table holds the endpoints in the
\* order they were made, and every thread that made one has it to itself.
TableKept ==
  /\ Len(sendTable) = endpoints
  /\ \A i \in 1 .. Len(sendTable) : sendTable[i] = i
  /\ "table" \notin statics =>
        endpoints = 0 /\ \A t \in Owners : rpc[t] \in {"start", "newTable"}

OwnerKept(t) ==
  /\ rpc[t] # "panic"
  /\ rpc[t] \in Early => sendCap[t] = 0
  /\ rpc[t] \notin Early => sendCap[t] \in 1 .. endpoints
  /\ rpc[t] \in Late => receiveOn[t] = sendCap[t]
  /\ rpc[t] \notin Late => receiveOn[t] = 0

CapsDistinct ==
  \A t, u \in Owners : t # u /\ sendCap[t] # 0 => sendCap[t] # sendCap[u]

\* An entry of the registry names a thread past the grant and its capability.
RoutesKept ==
  \A i \in 1 .. Len(routes) :
     rpc[routes[i].surface] \in Late /\ routes[i].cap = sendCap[routes[i].surface]

\* A key waits where its window receives.
InboxKept ==
  \A e \in DOMAIN inbox : inbox[e] # NoOwner =>
     /\ inbox[e] \in Owners /\ e # 0
     /\ rpc[inbox[e]] \in Late /\ receiveOn[inbox[e]] = e

RouteBooks ==
  /\ TableKept /\ CapsDistinct /\ RoutesKept /\ InboxKept
  /\ \A t \in Owners : OwnerKept(t)

RouteInv == RouteTypeOK /\ (~doubleInit => RouteBooks)

\* The least element of a set of positions, as a loop over them finds it.
LEMMA LeastExists ==
  ASSUME NEW S, S \subseteq Nat, S # {}
  PROVE  \E i \in S : \A j \in S : i <= j
<1>1. PICK i \in S : \A j \in S : ~(<<j, i>> \in OpToRel(<, Nat))
  BY Zenon, NatLessThanWellFounded, WFMin
<1>2. ASSUME NEW j \in S PROVE i <= j
  <2>1. <<j, i>> \in Nat \X Nat /\ <<j, i>>[1] = j /\ <<j, i>>[2] = i
    BY Zenon
  <2>2. ~(j < i)
    BY Zenon, <1>1, <2>1 DEF OpToRel
  <2> QED BY <2>2
<1> QED BY Zenon, <1>2

\* A key's entry is one of the surface it is for.
LEMMA RouteOfIsOwn ==
  ASSUME RouteTypeOK, NEW s, RouteOf(s) # 0
  PROVE  RouteOf(s) \in 1 .. Len(routes) /\ routes[RouteOf(s)].surface = s
<1> DEFINE mine == {i \in DOMAIN routes : routes[i].surface = s}
<1>1. mine # {} /\ mine \subseteq Nat /\ DOMAIN routes = 1 .. Len(routes)
  BY SMTT(40) DEF RouteOf, RouteTypeOK
<1>2. \E i \in mine : \A j \in mine : i <= j
  BY Zenon, <1>1, LeastExists
<1>3. RouteOf(s) = CHOOSE i \in mine : \A j \in mine : i <= j
  BY Zenon, <1>1 DEF RouteOf
<1>4. RouteOf(s) \in mine
  BY Zenon, <1>2, <1>3
<1> QED BY Zenon, <1>1, <1>4

\* The surface of an entry is a thread.
LEMMA EntriesTyped ==
  ASSUME RouteTypeOK
  PROVE  \A i \in 1 .. Len(routes) : routes[i].surface \in Owners /\ routes[i].cap \in Nat
<1> DEFINE E == [surface : Owners, cap : Nat]
<1>1. \A r \in E : r.surface \in Owners /\ r.cap \in Nat
  BY Zenon
<1>2. routes \in Seq(E)
  BY Zenon DEF RouteTypeOK
<1> HIDE DEF E
<1> QED BY <1>1, <1>2

LEMMA RouteTypes == ASSUME RouteTypeOK, [RouteNext]_routeVars PROVE RouteTypeOK'
<1> USE DEF RouteTypeOK, Early, Late, Goes
<1>1. CASE UNCHANGED routeVars
  BY Zenon, <1>1 DEF routeVars
<1>2. CASE DeliverKey
  BY Zenon, <1>2 DEF DeliverKey
<1>3. ASSUME NEW t \in Owners, CheckTable(t) PROVE RouteTypeOK'
  BY Zenon, <1>3 DEF CheckTable
<1>4. ASSUME NEW t \in Owners, NewTable(t) PROVE RouteTypeOK'
  <2>1. doubleInit' \in BOOLEAN
    BY Zenon, <1>4 DEF NewTable
  <2> QED BY <1>4, <2>1 DEF NewTable
<1>5. ASSUME NEW t \in Owners, CreateEndpoint(t) PROVE RouteTypeOK'
  BY <1>5 DEF CreateEndpoint
<1>6. ASSUME NEW t \in Owners, GrantReceive(t) PROVE RouteTypeOK'
  BY <1>6 DEF GrantReceive, Resolved
<1>7. ASSUME NEW t \in Owners, CheckRoutes(t) PROVE RouteTypeOK'
  BY Zenon, <1>7 DEF CheckRoutes
<1>8. ASSUME NEW t \in Owners, NewRoutes(t) PROVE RouteTypeOK'
  <2>1. doubleInit' \in BOOLEAN
    BY Zenon, <1>8 DEF NewRoutes
  <2> QED BY <1>8, <2>1 DEF NewRoutes
<1>9. ASSUME NEW t \in Owners, PushRoute(t) PROVE RouteTypeOK'
  <2>1. [surface |-> t, cap |-> sendCap[t]] \in [surface : Owners, cap : Nat]
    BY Zenon
  <2>2. routes' \in Seq([surface : Owners, cap : Nat])
    BY <1>9, <2>1 DEF PushRoute
  <2> QED BY Zenon, <1>9, <2>2 DEF PushRoute
<1>10. ASSUME NEW t \in Owners, SetFocus(t) PROVE RouteTypeOK'
  BY Zenon, <1>10 DEF SetFocus
<1>11. ASSUME NEW t \in Owners, ReceiveKey(t) PROVE RouteTypeOK'
  BY Zenon, <1>11 DEF ReceiveKey
<1> QED BY Zenon, <1>1, <1>2, <1>3, <1>4, <1>5, <1>6, <1>7, <1>8, <1>9, <1>10, <1>11 DEF RouteNext

\* A thread moves on and changes none of the tables.
LEMMA MovesOn ==
  ASSUME RouteTypeOK, RouteBooks, NEW t \in Owners, NEW to,
         rpc' = [rpc EXCEPT ![t] = to],
         \/ rpc[t] \in {"start", "newTable"} /\ to \in {"start", "newTable"}
         \/ rpc[t] \in Early /\ to \in Early /\ "table" \in statics'
         \/ rpc[t] \in Late /\ to \in Late,
         statics \subseteq statics' /\ ("table" \in statics' => "table" \in statics \/ sendTable = <<>>),
         UNCHANGED <<sendTable, routes, sendCap, receiveOn, endpoints, inbox>>
  PROVE  RouteBooks'
<1> USE DEF RouteTypeOK, RouteBooks, Early, Late
<1>1. TableKept'
  BY Zenon DEF TableKept
<1>2. CapsDistinct'
  BY Zenon DEF CapsDistinct
<1>3. RoutesKept'
  BY Zenon, EntriesTyped DEF RoutesKept
<1>4. InboxKept'
  BY Zenon DEF InboxKept
<1>5. ASSUME NEW u \in Owners PROVE OwnerKept(u)'
  BY Zenon DEF OwnerKept
<1> QED BY Zenon, <1>1, <1>2, <1>3, <1>4, <1>5

LEMMA EndpointBooks ==
  ASSUME RouteTypeOK, RouteBooks, NEW t \in Owners, CreateEndpoint(t)
  PROVE  RouteBooks'
<1> USE DEF RouteTypeOK, Early, Late, CreateEndpoint, Goes
<1>a. TableKept /\ OwnerKept(t) /\ rpc[t] = "endpoint"
  BY Zenon DEF RouteBooks
<1>b. Len(sendTable) = endpoints /\ sendTable \in Seq(Nat) /\ sendTable' = Append(sendTable, endpoints + 1)
  BY Zenon, <1>a DEF TableKept
<1>2. Len(sendTable') = endpoints + 1 /\ \A i \in 1 .. endpoints : sendTable'[i] = sendTable[i]
  BY <1>b
<1>c. sendTable'[endpoints + 1] = endpoints + 1
  BY <1>b
<1>d. "table" \in statics' /\ endpoints' = endpoints + 1 /\ endpoints \in Nat
  BY Zenon, <1>a DEF TableKept
<1>e. \A i \in 1 .. endpoints : sendTable[i] = i
  BY Zenon, <1>a DEF TableKept
<1>f. \A i \in 1 .. endpoints + 1 : sendTable'[i] = i
  BY <1>2, <1>c, <1>d, <1>e
<1>1. TableKept'
  BY Zenon, <1>2, <1>d, <1>f DEF TableKept
<1>3. ASSUME NEW u \in Owners PROVE sendCap[u] <= endpoints
  <2>1. OwnerKept(u)
    BY Zenon DEF RouteBooks
  <2> QED BY <2>1 DEF OwnerKept
<1>4. CapsDistinct'
  BY <1>2, <1>3 DEF RouteBooks, CapsDistinct
<1>5. RoutesKept'
  BY Zenon, EntriesTyped DEF RouteBooks, RoutesKept
<1>6. InboxKept'
  BY Zenon DEF RouteBooks, InboxKept
<1>7. ASSUME NEW u \in Owners PROVE OwnerKept(u)'
  BY <1>2 DEF RouteBooks, OwnerKept
<1> QED BY Zenon, <1>1, <1>4, <1>5, <1>6, <1>7 DEF RouteBooks

LEMMA GrantBooks ==
  ASSUME RouteTypeOK, RouteBooks, NEW t \in Owners, GrantReceive(t)
  PROVE  RouteBooks'
<1> USE DEF RouteTypeOK, Early, Late, GrantReceive, Goes
<1>a. TableKept /\ OwnerKept(t) /\ rpc[t] = "grant"
  BY Zenon DEF RouteBooks
<1>1. sendCap[t] \in 1 .. Len(sendTable) /\ sendCap[t] \in DOMAIN sendTable /\ Resolved(t) = sendCap[t]
  BY <1>a DEF TableKept, OwnerKept, Resolved
<1>2. rpc' = [rpc EXCEPT ![t] = "checkRoutes"] /\ receiveOn' = [receiveOn EXCEPT ![t] = sendCap[t]]
  BY Zenon, <1>1
<1>3. TableKept'
  BY Zenon, <1>2 DEF RouteBooks, TableKept
<1>4. CapsDistinct'
  BY Zenon DEF RouteBooks, CapsDistinct
<1>b. \A u \in Owners : rpc'[u] = (IF u = t THEN "checkRoutes" ELSE rpc[u])
  BY Zenon, <1>2
<1>5. RoutesKept'
  BY Zenon, <1>a, <1>b, EntriesTyped DEF RouteBooks, RoutesKept
<1>6. InboxKept'
  BY Zenon, <1>2 DEF RouteBooks, InboxKept
<1>7. ASSUME NEW u \in Owners PROVE OwnerKept(u)'
  BY <1>2 DEF RouteBooks, OwnerKept
<1> QED BY Zenon, <1>3, <1>4, <1>5, <1>6, <1>7 DEF RouteBooks

\* The registry is replaced or grows by an entry of the thread's own.
LEMMA RegistryBooks ==
  ASSUME RouteTypeOK, RouteBooks, NEW t \in Owners, NewRoutes(t) \/ PushRoute(t)
  PROVE  RouteBooks'
<1> USE DEF RouteTypeOK, Early, Late, NewRoutes, PushRoute, Goes
<1>0. UNCHANGED <<inbox, receiveOn>> /\ \A u \in Owners : rpc[u] \in Late => rpc'[u] \in Late
  BY Zenon
<1>1. TableKept'
  BY Zenon DEF RouteBooks, TableKept
<1>2. CapsDistinct'
  BY Zenon DEF RouteBooks, CapsDistinct
<1>3. RoutesKept'
  <2>1. CASE NewRoutes(t)
    BY <2>1 DEF RoutesKept
  <2>2. CASE PushRoute(t)
    <3>1. \A u \in Owners : rpc[u] \in Late => rpc'[u] \in Late
      BY Zenon, <2>2
    <3>2. PICK r : r = [surface |-> t, cap |-> sendCap[t]]
      BY Zenon
    <3>3. r.surface = t /\ r.cap = sendCap[t] /\ rpc'[t] \in Late
      BY Zenon, <2>2, <3>2
    <3> DEFINE E == [surface : Owners, cap : Nat]
    <3>4. routes \in Seq(E) /\ r \in E
      BY Zenon, <3>2
    <3> HIDE DEF E
    <3>5. routes' = Append(routes, r)
      BY Zenon, <2>2, <3>2
    <3>6. Len(routes') = Len(routes) + 1 /\ routes'[Len(routes) + 1] = r
           /\ \A i \in 1 .. Len(routes) : routes'[i] = routes[i]
      BY <3>4, <3>5
    <3> QED BY <2>2, <3>1, <3>3, <3>4, <3>6, EntriesTyped DEF RouteBooks, RoutesKept
  <2> QED BY Zenon, <2>1, <2>2
<1>4. InboxKept'
  <2> HIDE DEF RouteTypeOK, Early, Late, NewRoutes, PushRoute, Goes
  <2> QED BY Zenon, <1>0 DEF RouteBooks, InboxKept
<1>5. ASSUME NEW u \in Owners PROVE OwnerKept(u)'
  BY Zenon DEF RouteBooks, OwnerKept
<1> QED BY Zenon, <1>1, <1>2, <1>3, <1>4, <1>5 DEF RouteBooks

\* A key is put where its window receives; or one is taken.
LEMMA KeyBooks ==
  ASSUME RouteTypeOK, RouteBooks, DeliverKey \/ \E t \in Owners : ReceiveKey(t)
  PROVE  RouteBooks'
<1>1. UNCHANGED <<rpc, statics, sendTable, routes, sendCap, receiveOn, endpoints>>
  BY Zenon DEF DeliverKey, ReceiveKey
<1>2. TableKept' /\ CapsDistinct' /\ RoutesKept' /\ \A t \in Owners : OwnerKept(t)'
  BY Zenon, <1>1 DEF RouteBooks, TableKept, CapsDistinct, RoutesKept, OwnerKept
<1>3. CASE DeliverKey
  <2> DEFINE i == RouteOf(focused)
  <2>1. i \in 1 .. Len(routes) /\ routes[i].surface = focused /\ focused \in Owners
    BY Zenon, <1>3, RouteOfIsOwn DEF DeliverKey, RouteTypeOK
  <2>2. routes[i].cap \in DOMAIN sendTable /\ inbox' = [inbox EXCEPT ![sendTable[routes[i].cap]] = focused]
    BY Zenon, <1>3 DEF DeliverKey
  <2> HIDE DEF i
  <2>3. rpc[focused] \in Late /\ routes[i].cap = sendCap[focused]
    BY Zenon, <2>1 DEF RouteBooks, RoutesKept
  <2>4. sendTable[routes[i].cap] = sendCap[focused] /\ sendCap[focused] # 0
    BY <2>2, <2>3 DEF RouteBooks, TableKept, RouteTypeOK
  <2>5. receiveOn[focused] = sendCap[focused]
    BY Zenon, <2>1, <2>3 DEF RouteBooks, OwnerKept
  <2>6. InboxKept'
    BY Zenon, <1>1, <2>1, <2>2, <2>3, <2>4, <2>5 DEF RouteBooks, InboxKept
  <2> QED BY Zenon, <1>2, <2>6 DEF RouteBooks
<1>4. CASE \E t \in Owners : ReceiveKey(t)
  <2>1. InboxKept'
    BY Zenon, <1>1, <1>4 DEF RouteBooks, InboxKept, ReceiveKey
  <2> QED BY Zenon, <1>2, <2>1 DEF RouteBooks
<1> QED BY Zenon, <1>3, <1>4

LEMMA RouteStep == RouteInv /\ [RouteNext]_routeVars => RouteInv'
<1> SUFFICES ASSUME RouteTypeOK, ~doubleInit => RouteBooks, [RouteNext]_routeVars, ~doubleInit'
             PROVE  RouteBooks'
  BY Zenon, RouteTypes DEF RouteInv
<1>1. doubleInit => doubleInit'
  BY Zenon DEF RouteNext, DeliverKey, CheckTable, NewTable, CreateEndpoint, GrantReceive, CheckRoutes,
        NewRoutes, PushRoute, SetFocus, ReceiveKey, routeVars
<1>2. RouteBooks
  BY Zenon, <1>1
<1>3. CASE UNCHANGED routeVars \/ \E t \in Owners : SetFocus(t)
  <2>1. UNCHANGED <<rpc, statics, sendTable, routes, sendCap, receiveOn, endpoints, inbox>>
    BY Zenon, <1>3 DEF routeVars, SetFocus
  <2> QED BY Zenon, <1>2, <2>1 DEF RouteBooks, TableKept, CapsDistinct, RoutesKept, InboxKept, OwnerKept
<1>4. ASSUME NEW t \in Owners, CheckTable(t) PROVE RouteBooks'
  BY Zenon, <1>2, <1>4, MovesOn DEF CheckTable, Goes, Early
<1>5. ASSUME NEW t \in Owners, NewTable(t) PROVE RouteBooks'
  <2>1. "table" \notin statics
    BY Zenon, <1>5 DEF NewTable
  <2>2. sendTable = <<>>
    BY <1>2, <2>1 DEF RouteBooks, TableKept, RouteTypeOK
  <2> QED BY Zenon, <1>2, <1>5, <2>2, MovesOn DEF NewTable, Goes, Early
<1>6. ASSUME NEW t \in Owners, CheckRoutes(t) PROVE RouteBooks'
  BY Zenon, <1>2, <1>6, MovesOn DEF CheckRoutes, Goes, Late
<1>7. ASSUME NEW t \in Owners, NewRoutes(t) \/ PushRoute(t) PROVE RouteBooks'
  BY Zenon, <1>2, <1>7, RegistryBooks
<1> QED BY Zenon, <1>2, <1>3, <1>4, <1>5, <1>6, <1>7, EndpointBooks, GrantBooks, KeyBooks DEF RouteNext

\* Registration and delivery keep their books, however many windows register
\* at once and whatever keys arrive in between, as long as no static is
\* initialised twice (input_routing.rs).
THEOREM RouteInvariant == RouteSpec => []RouteInv
<1>1. RouteInit => RouteInv
  <2> SUFFICES ASSUME RouteInit PROVE RouteInv
    BY Zenon
  <2> USE DEF RouteInit
  <2>0. routes \in Seq([surface : Owners, cap : Nat]) /\ doubleInit \in BOOLEAN
    <3>1. doubleInit \in BOOLEAN
      BY Zenon
    <3> DEFINE E == [surface : Owners, cap : Nat]
    <3> HIDE DEF E
    <3>2. routes \in Seq(E)
      OBVIOUS
    <3> QED BY Zenon, <3>1, <3>2 DEF E
  <2>1. RouteTypeOK
    BY <2>0 DEF RouteTypeOK, Early
  <2>2. TableKept /\ CapsDistinct /\ RoutesKept /\ InboxKept
    BY DEF TableKept, CapsDistinct, RoutesKept, InboxKept
  <2>3. ASSUME NEW t \in Owners PROVE OwnerKept(t)
    BY Zenon DEF OwnerKept, Early, Late
  <2> QED BY Zenon, <2>1, <2>2, <2>3 DEF RouteInv, RouteBooks
<1> QED BY <1>1, RouteStep, PTL DEF RouteSpec

\* A key waits only where the window it is meant for, and no other, receives,
\* and no registration panics, for any number of windows.
THEOREM KeysReachTheirWindowAlways == RouteSpec => []KeysReachTheirWindow
<1>1. RouteInv => KeysReachTheirWindow
  <2> SUFFICES ASSUME RouteTypeOK, RouteBooks PROVE KeysReachTheirWindow
    BY Zenon DEF RouteInv, KeysReachTheirWindow
  <2>1. ASSUME NEW e \in DOMAIN inbox, inbox[e] # NoOwner
        PROVE  {t \in Owners : receiveOn[t] = e} = {inbox[e]}
    <3>1. inbox[e] \in Owners /\ e # 0 /\ receiveOn[inbox[e]] = e /\ sendCap[inbox[e]] = e
      BY Zenon, <2>1 DEF RouteBooks, InboxKept, OwnerKept
    <3>2. ASSUME NEW t \in Owners, receiveOn[t] = e PROVE t = inbox[e]
      <4>1. sendCap[t] = e
        BY Zenon, <3>1, <3>2 DEF RouteBooks, OwnerKept
      <4> QED BY Zenon, <3>1, <4>1 DEF RouteBooks, CapsDistinct
    <3> QED BY Zenon, <3>1, <3>2
  <2> QED BY Zenon, <2>1 DEF KeysReachTheirWindow, RouteBooks, OwnerKept
<1> QED BY <1>1, RouteInvariant, PTL

----------------------------------------------------------------------------
(* The PS/2 drivers                                                        *)

\* The keyboard driver in its loop, and with its configuration byte written.
KLoop == {"wait", "status", "read", "ack"}
KDone == KLoop \cup {"flush2"}

Ps2TypeOK ==
  /\ irqPending \in [{"kbd", "mouse"} -> BOOLEAN]
  /\ irq1 \in BOOLEAN /\ irq12 \in BOOLEAN /\ torn \in BOOLEAN

\* Both lines are enabled from the keyboard's configuration on, since the
\* mouse driver writes back the keyboard's bits as they are.
LinesOn == ~torn /\ kpc \in KDone => irq1 /\ irq12

\* A byte in the buffer has an interrupt pending or a driver on its way to
\* read it.
Attended == \/ irqPending["kbd"] \/ irqPending["mouse"]
            \/ kpc \in {"status", "read"} \/ mpc = "read"

BytesAttended == ~torn /\ kpc \in KLoop /\ outByte # "none" => Attended

Ps2Inv == Ps2TypeOK /\ LinesOn /\ BytesAttended

LEMMA Ps2Types == ASSUME Ps2TypeOK, [Ps2Next]_ps2Vars PROVE Ps2TypeOK'
<1> USE DEF Ps2TypeOK
<1>1. irqPending' \in [{"kbd", "mouse"} -> BOOLEAN]
  <2>1. \/ irqPending' = irqPending
        \/ \E v \in {"kbd", "mouse"} : \E b \in BOOLEAN : irqPending' = [irqPending EXCEPT ![v] = b]
    BY Zenon DEF Ps2Next, Keyboard, Mouse, LoadReply, LoadKey, LoadAux, Stream, Load, Notify, KFlush, KAsk,
      KPoll, KPollRead, KWriteCommand, KWriteConfig, KWait, KStatus, KRead, KAck, KStep, Wait, MEnable, MAsk,
      MReadConfig, MWriteCommand, MWriteConfig, MToAux, MAuxByte, MAuxAck, MAuxAckRead, MWait, MRead, MAck,
      MStep, ps2Vars
  <2> QED BY Zenon, <2>1
<1>2. irq1' \in BOOLEAN /\ irq12' \in BOOLEAN
  <2>1. \/ irq1' = irq1 /\ irq12' = irq12
        \/ \E a, b \in BOOLEAN : OutData(a, b)
    BY Zenon DEF Ps2Next, Keyboard, Mouse, LoadReply, LoadKey, LoadAux, Stream, Load, KFlush, KAsk,
      KPoll, KPollRead, KWriteCommand, KWriteConfig, KWait, KStatus, KRead, KAck, MEnable, MAsk,
      MReadConfig, MWriteCommand, MWriteConfig, MToAux, MAuxByte, MAuxAck, MAuxAckRead, MWait, MRead, MAck,
      ps2Vars, config, In, NoPort, OutCommand, KeptIrq1
  <2> QED BY Zenon, <2>1 DEF OutData
<1>3. torn' \in BOOLEAN
  BY Zenon DEF Ps2Next, Keyboard, Mouse, LoadReply, LoadKey, LoadAux, Stream, Load, KFlush, KAsk,
      KPoll, KPollRead, KWriteCommand, KWriteConfig, KWait, KStatus, KRead, KAck, MEnable, MAsk,
      MReadConfig, MWriteCommand, MWriteConfig, MToAux, MAuxByte, MAuxAck, MAuxAckRead, MWait, MRead, MAck,
      ps2Vars
<1> QED BY Zenon, <1>1, <1>2, <1>3

\* The interference is never forgotten.
LEMMA TornStays == ASSUME [Ps2Next]_ps2Vars PROVE torn => torn'
  BY Zenon DEF Ps2Next, Keyboard, Mouse, LoadReply, LoadKey, LoadAux, Stream, Load, KFlush, KAsk,
      KPoll, KPollRead, KWriteCommand, KWriteConfig, KWait, KStatus, KRead, KAck, MEnable, MAsk,
      MReadConfig, MWriteCommand, MWriteConfig, MToAux, MAuxByte, MAuxAck, MAuxAckRead, MWait, MRead, MAck,
      ps2Vars

\* Only three steps write a data byte: the keyboard's configuration, the
\* mouse's, and a command of the mouse.
LEMMA LinesStep == ASSUME Ps2TypeOK, LinesOn, [Ps2Next]_ps2Vars PROVE LinesOn'
<1> SUFFICES ASSUME ~torn', kpc' \in KDone PROVE irq1' /\ irq12'
  BY Zenon DEF LinesOn
<1>1. ~torn
  BY Zenon, TornStays
<1>2. CASE KWriteConfig
  BY Zenon, <1>2 DEF KWriteConfig, OutData
<1>3. CASE MWriteConfig
  <2>1. kpc \in KDone /\ expects = "config" /\ mold = CfgByte
    BY Zenon, <1>3 DEF MWriteConfig, MStep, kvars
  <2>2. irq1 /\ irq12
    BY Zenon, <1>1, <2>1 DEF LinesOn
  <2>3. \A v \in KeptIrq1(mold) : v
    <3>1. mold = "cfg11"
      BY Zenon, <2>1, <2>2 DEF CfgByte
    <3>2. (mold \in {"cfg11", "cfg10"}) = TRUE /\ mold \in CfgKinds
      BY Zenon, <3>1 DEF CfgKinds
    <3>3. KeptIrq1(mold) = {mold \in {"cfg11", "cfg10"}}
      BY Zenon, <3>2 DEF KeptIrq1
    <3> QED BY Zenon, <3>2, <3>3
  <2>4. PICK v1 \in KeptIrq1(mold) : OutData(v1, TRUE)
    BY Zenon, <1>3 DEF MWriteConfig
  <2>5. irq1' = v1 /\ irq12' = TRUE
    BY Zenon, <2>1, <2>4 DEF OutData
  <2> QED BY Zenon, <2>3, <2>5
<1>4. CASE MAuxByte
  <2>1. kpc \in KDone /\ irq1' = irq1 /\ irq12' = irq12
    BY Zenon, <1>4 DEF MAuxByte, MStep, kvars, OutData
  <2> QED BY Zenon, <1>1, <2>1 DEF LinesOn
<1>5. CASE ~(KWriteConfig \/ MWriteConfig \/ MAuxByte)
  <2>1. irq1' = irq1 /\ irq12' = irq12
    BY Zenon, <1>5 DEF Ps2Next, Keyboard, Mouse, LoadReply, LoadKey, LoadAux, Stream, Load, KFlush, KAsk,
      KPoll, KPollRead, KWriteCommand, KWait, KStatus, KRead, KAck, MEnable, MAsk,
      MReadConfig, MWriteCommand, MToAux, MAuxAck, MAuxAckRead, MWait, MRead, MAck,
      ps2Vars, config, In, NoPort, OutCommand
  <2>2. kpc \in KDone
    <3>1. CASE kpc' = kpc
      BY Zenon, <3>1
    <3>2. CASE kpc' # kpc
      <4>1. KFlush \/ KAsk \/ KPoll \/ KPollRead \/ KWriteCommand \/ KWait \/ KStatus \/ KRead \/ KAck
        BY Zenon, <1>5, <3>2 DEF Ps2Next, Keyboard, Mouse, LoadReply, LoadKey, LoadAux, Stream, Load, MEnable, MAsk,
          MReadConfig, MWriteCommand, MToAux, MAuxAck, MAuxAckRead, MWait, MRead, MAck, MStep, kvars, ps2Vars
      <4> QED BY Zenon, <4>1 DEF KFlush, KAsk, KPoll, KPollRead, KWriteCommand, KWait, KStatus, KRead, KAck, KDone, KLoop
    <3> QED BY Zenon, <3>1, <3>2
  <2> QED BY Zenon, <1>1, <2>1, <2>2 DEF LinesOn
<1> QED BY Zenon, <1>2, <1>3, <1>4, <1>5

\* A byte that arrives with both lines enabled is announced.
LEMMA LoadAnnounced ==
  ASSUME Ps2TypeOK, irq1, irq12, NEW b, Load(b)
  PROVE  irqPending'["kbd"] \/ irqPending'["mouse"]
  BY Zenon DEF Load, Notify, Ps2TypeOK

LEMMA AttendedStep == ASSUME Ps2Inv, [Ps2Next]_ps2Vars PROVE BytesAttended'
<1> SUFFICES ASSUME ~torn', kpc' \in KLoop, outByte' # "none" PROVE Attended'
  BY Zenon DEF BytesAttended
<1>1. ~torn
  BY Zenon, TornStays
<1>2. CASE LoadReply \/ LoadKey \/ LoadAux
  <2>1. PICK b : Load(b)
    BY Zenon, <1>2 DEF LoadReply, LoadKey, LoadAux
  <2>2. kpc \in KDone
    BY Zenon, <2>1 DEF Load, kvars, KDone
  <2>3. irq1 /\ irq12
    BY Zenon, <1>1, <2>2 DEF Ps2Inv, LinesOn
  <2> QED BY Zenon, <2>1, <2>3, LoadAnnounced DEF Ps2Inv, Attended
<1>3. CASE KWait
  BY Zenon, <1>3 DEF KWait, Attended
<1>4. CASE MWait
  BY Zenon, <1>4 DEF MWait, Attended
<1>5. CASE In
  BY Zenon, <1>5 DEF In
<1>6. CASE ~(LoadReply \/ LoadKey \/ LoadAux \/ KWait \/ MWait \/ In)
  <2>1. irqPending' = irqPending /\ outByte' = outByte
    BY Zenon, <1>6 DEF Ps2Next, Keyboard, Mouse, Stream, KFlush, KAsk,
      KPoll, KPollRead, KWriteCommand, KWriteConfig, KStatus, KRead, KAck, KStep, MEnable, MAsk,
      MReadConfig, MWriteCommand, MWriteConfig, MToAux, MAuxByte, MAuxAck, MAuxAckRead, MRead, MAck, MStep,
      ps2Vars, NoPort, OutCommand, OutData
  <2>2. mpc = "read" => mpc' = "read"
    BY Zenon, <1>6 DEF Ps2Next, Keyboard, Mouse, Stream, mvars, KFlush, KAsk,
      KPoll, KPollRead, KWriteCommand, KWriteConfig, KStatus, KRead, KAck, KStep, MEnable, MAsk,
      MReadConfig, MWriteCommand, MWriteConfig, MToAux, MAuxByte, MAuxAck, MAuxAckRead, MRead, MAck, ps2Vars
  <2>3. CASE kpc' = kpc
    BY Zenon, <1>1, <2>1, <2>2, <2>3 DEF Ps2Inv, BytesAttended, Attended
  <2>4. CASE kpc' # kpc
    <3>1. KFlush \/ KAsk \/ KPoll \/ KWriteCommand \/ KWriteConfig \/ KStatus \/ KAck
      BY Zenon, <1>6, <2>4 DEF Ps2Next, Keyboard, Mouse, Stream, KPollRead, KRead, MEnable, MAsk, MReadConfig,
        MWriteCommand, MWriteConfig, MToAux, MAuxByte, MAuxAck, MAuxAckRead, MRead, MAck, MStep, kvars, ps2Vars
    <3>2. KFlush \/ KStatus \/ KAck
      BY Zenon, <3>1 DEF KAsk, KPoll, KWriteCommand, KWriteConfig, KLoop
    <3>3. CASE KFlush
      BY Zenon, <2>1, <2>4, <3>3 DEF KFlush
    <3>4. CASE KStatus
      BY Zenon, <2>1, <3>4 DEF KStatus, Attended
    <3>5. CASE KAck
      <4>1. kpc = "ack" /\ kpc' = "wait"
        BY Zenon, <3>5 DEF KAck
      <4>2. Attended
        BY Zenon, <1>1, <2>1, <4>1 DEF Ps2Inv, BytesAttended, KLoop
      <4>3. kpc \notin {"status", "read"}
        BY Zenon, <4>1
      <4> QED BY Zenon, <2>1, <2>2, <4>2, <4>3 DEF Attended
    <3> QED BY Zenon, <3>2, <3>3, <3>4, <3>5
  <2> QED BY Zenon, <2>3, <2>4
<1> QED BY Zenon, <1>2, <1>3, <1>4, <1>5, <1>6

\* The two PS/2 drivers never stall each other, for any number of keys and
\* packets: NeverStalls, from the lines and the attention each byte gets.
THEOREM DriversNeverStall == Ps2Spec => []NeverStalls
<1>1. Ps2Init => Ps2Inv
  BY Zenon DEF Ps2Init, Ps2Inv, Ps2TypeOK, LinesOn, BytesAttended, KDone, KLoop
<1>2. Ps2Inv /\ [Ps2Next]_ps2Vars => Ps2Inv'
  BY Zenon, Ps2Types, LinesStep, AttendedStep DEF Ps2Inv
<1>3. Ps2Inv => NeverStalls
  BY Zenon DEF Ps2Inv, NeverStalls, LinesOn, BytesAttended, Attended, KDone, KLoop
<1> QED BY <1>1, <1>2, <1>3, PTL DEF Ps2Spec

----------------------------------------------------------------------------
(* The virtqueues                                                          *)

LEMMA Divides ==
  \A n \in Nat : /\ n % Wrap \in 0 .. (Wrap - 1) /\ n \div Wrap \in Nat
                 /\ n = Wrap * (n \div Wrap) + (n % Wrap)
  BY VirtqueueAssumption

\* A remainder is determined by its number.
LEMMA RemainderUnique ==
  ASSUME NEW q \in Nat, NEW k \in Nat, NEW r \in 0 .. (Wrap - 1), NEW s \in 0 .. (Wrap - 1),
         Wrap * q + r = Wrap * k + s
  PROVE  r = s
<1>1. ASSUME NEW a \in Nat, NEW b \in Nat, a < b PROVE Wrap * b >= Wrap * a + Wrap
  <2>1. PICK d \in Nat : b = a + 1 + d
    <3>1. b - a - 1 \in Nat /\ b = a + 1 + (b - a - 1)
      BY <1>1
    <3> QED BY Zenon, <3>1
  <2>2. Wrap * b = Wrap * a + Wrap + Wrap * d
    BY VirtqueueAssumption, <2>1
  <2>3. Wrap * d \in Nat /\ Wrap * a \in Nat
    BY VirtqueueAssumption
  <2> QED BY VirtqueueAssumption, <2>2, <2>3
<1>2. Wrap * q \in Nat /\ Wrap * k \in Nat
  BY VirtqueueAssumption
<1>3. q = k
  BY VirtqueueAssumption, <1>1, <1>2
<1> QED BY VirtqueueAssumption, <1>2, <1>3

\* A ring index counts modulo Wrap what it counts, and moves at every count.
LEMMA IndexCounts ==
  ASSUME NEW n \in Nat
  PROVE  Succ(n % Wrap) = (n + 1) % Wrap /\ (n + 1) % Wrap # n % Wrap
<1> DEFINE q == n \div Wrap  r == n % Wrap  k == (n + 1) \div Wrap  s == (n + 1) % Wrap
<1>1. /\ q \in Nat /\ k \in Nat /\ r \in 0 .. (Wrap - 1) /\ s \in 0 .. (Wrap - 1)
      /\ n = Wrap * q + r /\ n + 1 = Wrap * k + s
  BY Divides
<1>2. Succ(n % Wrap) = (r + 1) % Wrap
  BY Zenon DEF Succ
<1> HIDE DEF q, r, k, s
<1>3. Wrap * q \in Nat /\ Wrap * k \in Nat
  BY VirtqueueAssumption, <1>1
<1>4. CASE r + 1 < Wrap
  <2>1. Wrap * q + (r + 1) = Wrap * k + s
    BY VirtqueueAssumption, <1>1, <1>3
  <2>2. r + 1 \in 0 .. (Wrap - 1)
    BY VirtqueueAssumption, <1>4, <1>1
  <2>3. r + 1 = s
    BY Zenon, <1>1, <2>1, <2>2, RemainderUnique
  <2>4. (r + 1) % Wrap = r + 1 /\ r + 1 # r
    BY VirtqueueAssumption, <1>1, <2>2
  <2> QED BY Zenon, <1>2, <2>3, <2>4 DEF r, s
<1>5. CASE r + 1 = Wrap
  <2>1. Wrap * (q + 1) = Wrap * q + Wrap
    BY VirtqueueAssumption, <1>1
  <2>2. Wrap * (q + 1) + 0 = Wrap * k + s
    BY VirtqueueAssumption, <1>1, <1>3, <1>5, <2>1
  <2>3. s = 0
    BY <1>1, <2>2, RemainderUnique, VirtqueueAssumption
  <2>4. (r + 1) % Wrap = 0 /\ r # 0
    BY VirtqueueAssumption, <1>1, <1>5
  <2> QED BY Zenon, <1>2, <2>3, <2>4 DEF r, s
<1> QED BY VirtqueueAssumption, <1>1, <1>4, <1>5

Requests ==
  {r \in [op : {"none", "read", "write", "command"}, block : Blocks \cup {0},
          content : Contents \cup {0}, id : Nat] : r.op \in {"read", "write"} => r.block \in Blocks}

VqTypeOK ==
  /\ queueOf \in {"disk", "display"}
  /\ chain \in Requests
  /\ answer \in [status : {"none", "ok", "error"}, id : Nat]
  /\ taken \in Nat /\ orders \in Nat
  /\ device \in [state : {"free", "working", "good", "bad"}, request : Requests]
  /\ medium \in [Blocks -> Contents \cup {0}] /\ buffer \in Contents \cup {0}
  /\ driver \in [at : {"idle", "waiting", "back"}, request : Requests, target : Nat,
                 behind : BOOLEAN, status : {"none", "ok", "error", "timeout"}]
  /\ avail \in Nat /\ usedIdx \in Nat
  /\ pipeline \in 0 .. Absent /\ gaveUp \in BOOLEAN
  /\ queueOf = "disk" => pipeline = 0
  /\ driver.at # "idle" => pipeline # Absent

\* The requests the device is done with; the indices count them and the
\* requests submitted.
Done == IF device.state = "free" THEN taken ELSE taken - 1

Counts ==
  /\ taken <= orders /\ (device.state # "free" => taken > 0)
  /\ usedIdx = Done % Wrap /\ avail = orders % Wrap

\* What the device did with r, which had the buffer to itself.
Carried(r) == medium[r.block] = IF r.op = "write" THEN r.content ELSE buffer

Ready(r) == r.op = "write" => buffer = r.content

\* The three places a request can be that found the device idle: not yet
\* taken, in work, completed.
DiskWaits ==
  (queueOf = "disk" /\ driver.at = "waiting" /\ ~driver.behind) =>
     /\ chain = driver.request /\ driver.target = avail
     /\ chain.block \in Blocks /\ chain.op \in {"read", "write"}
     /\ \/ taken + 1 = orders /\ device.state = "free" /\ Ready(chain)
        \/ /\ taken = orders /\ device.state # "free" /\ device.request = chain
           /\ device.state = "working" => Ready(chain)
           /\ device.state = "good" => Carried(chain)
        \/ taken = orders /\ device.state = "free" /\ (answer.status = "ok" => Carried(chain))

DiskBack ==
  (queueOf = "disk" /\ driver.at = "back" /\ driver.status = "ok" /\ ~driver.behind) =>
     taken = orders /\ device.state = "free" /\ Carried(driver.request)

DiskInv == VqTypeOK /\ Counts /\ DiskWaits /\ DiskBack

\* While send_cmd has never given up, it and the device are in step.
DisplayInStep ==
  (queueOf = "display" /\ ~gaveUp) =>
     /\ driver.at \in {"idle", "back"} =>
           taken = orders /\ device.state = "free" /\ lastUsed = usedIdx
     /\ driver.at = "back" /\ driver.status = "ok" =>
           driver.request.id = orders /\ orders \in performed
     /\ driver.at = "waiting" =>
           /\ chain = driver.request /\ chain.id = orders /\ lastUsed # avail
           /\ \/ taken + 1 = orders /\ device.state = "free" /\ lastUsed = usedIdx
              \/ /\ taken = orders /\ device.state # "free" /\ device.request = chain
                 /\ lastUsed = usedIdx
              \/ /\ taken = orders /\ device.state = "free"
                 /\ answer.status = "ok" => orders \in performed

\* Probing stops at the first command that is not answered well.
Probing ==
  queueOf = "display" =>
     /\ gaveUp => pipeline \in {ProbeCommands, Absent} \/ (driver.at = "back" /\ driver.status = "timeout")
     /\ pipeline < ProbeCommands =>
           /\ orders = IF driver.at = "idle" THEN pipeline ELSE pipeline + 1
           /\ 1 .. pipeline \subseteq performed
     /\ pipeline = ProbeCommands => 1 .. ProbeCommands \subseteq performed

DisplayInv == VqTypeOK /\ Counts /\ DisplayInStep /\ Probing

LEMMA VqTypes == ASSUME VqTypeOK, [VqNext]_vqVars PROVE VqTypeOK'
<1> USE DEF VqTypeOK
<1>0. NoRequest \in Requests
  BY Zenon DEF NoRequest, Requests
<1>a. Succ(avail) \in Nat /\ Succ(usedIdx) \in Nat
  BY VirtqueueAssumption DEF Succ
<1>1. CASE UNCHANGED vqVars
  BY <1>1 DEF vqVars
<1>2. ASSUME NEW r \in Requests, Submitted(r)
      PROVE  /\ chain' \in Requests /\ orders' \in Nat /\ driver'.request = r
             /\ avail' \in Nat
             /\ driver' \in [at : {"waiting"}, request : Requests, target : Nat,
                            behind : BOOLEAN, status : {"none"}]
  <2>1. Behind \in BOOLEAN
    BY Zenon DEF Behind
  <2>2. avail' \in Nat
    BY Zenon, <1>2, <1>a DEF Submitted
  <2> QED BY <1>2, <2>1, <2>2 DEF Submitted
<1>3. CASE SubmitBlock
  <2>1. PICK r \in BlockRequests :
          /\ Submitted([op |-> r.op, block |-> r.block, content |-> r.content, id |-> orders + 1])
          /\ buffer' = IF r.op = "write" THEN r.content ELSE buffer
    BY Zenon, <1>3 DEF SubmitBlock
  <2>2. /\ [op |-> r.op, block |-> r.block, content |-> r.content, id |-> orders + 1] \in Requests
        /\ r.op = "write" => r.content \in Contents
    BY DEF BlockRequests, Requests
  <2>3. buffer' \in Contents \cup {0}
    BY Zenon, <2>1, <2>2
  <2> QED BY <1>2, <1>3, <2>1, <2>2, <2>3 DEF SubmitBlock, Absent, ProbeCommands
<1>4. CASE SubmitCommand
  <2>1. [op |-> "command", block |-> 0, content |-> 0, id |-> orders + 1] \in Requests
    BY DEF Requests
  <2> QED BY Zenon, <1>2, <1>4, <2>1 DEF SubmitCommand
<1>5. CASE WaitEnds
  BY Zenon, <1>5 DEF WaitEnds, Returned
<1>6. CASE WaitTimesOut
  BY Zenon, <1>6 DEF WaitTimesOut, Returned
<1>7. CASE Resume
  <2>1. pipeline' \in 0 .. Absent /\ (queueOf = "disk" => pipeline' = 0)
    BY <1>7 DEF Resume, AfterAnswer, Absent, ProbeCommands
  <2> QED BY Zenon, <1>0, <1>7, <2>1 DEF Resume, NoResult
<1>8. CASE DeviceTakes
  BY <1>8 DEF DeviceTakes
<1>9. CASE DeviceTransfers
  <2>1. device' \in [state : {"free", "working", "good", "bad"}, request : Requests]
    BY Zenon, <1>9 DEF DeviceTransfers
  <2>2. /\ device.request.op = "read" => medium[device.request.block] \in Contents \cup {0}
        /\ device.request.op = "write" => device.request.block \in Blocks
    BY Zenon DEF Requests
  <2>3. buffer' \in Contents \cup {0} /\ medium' \in [Blocks -> Contents \cup {0}]
    BY <1>9, <2>2 DEF DeviceTransfers
  <2> QED BY Zenon, <1>9, <2>1, <2>3 DEF DeviceTransfers
<1>10. CASE DeviceCompletes
  <2>1. device.request.id \in Nat
    BY Zenon DEF Requests
  <2> QED BY <1>0, <1>a, <1>10, <2>1 DEF DeviceCompletes
<1> QED BY Zenon, <1>1, <1>3, <1>4, <1>5, <1>6, <1>7, <1>8, <1>9, <1>10 DEF VqNext

\* What each step does to the device and to the numbers.
LEMMA DeviceMoves ==
  ASSUME VqTypeOK
  PROVE  /\ DeviceTakes => /\ device.state = "free" /\ device'.state = "working"
                           /\ device'.request = chain
         /\ DeviceTransfers => /\ device.state = "working" /\ device'.state \in {"good", "bad"}
                               /\ device'.request = device.request
         /\ DeviceCompletes => device.state \in {"good", "bad"} /\ device'.state = "free"
  BY DEF VqTypeOK, DeviceTakes, DeviceTransfers, DeviceCompletes

LEMMA DriverMoves ==
  ASSUME VqTypeOK
  PROVE  /\ WaitEnds => /\ driver'.at = "back" /\ driver'.status = answer.status
                        /\ driver'.request = driver.request /\ driver'.behind = driver.behind
         /\ WaitTimesOut => driver'.at = "back" /\ driver'.status = "timeout"
         /\ Resume => driver'.at = "idle"
         /\ SubmitBlock => driver'.at = "waiting" /\ queueOf' = "disk"
         /\ SubmitCommand => driver'.at = "waiting" /\ queueOf' = "display"
<1>1. WaitEnds => /\ driver'.at = "back" /\ driver'.status = answer.status
                  /\ driver'.request = driver.request /\ driver'.behind = driver.behind
  BY Zenon DEF VqTypeOK, WaitEnds, Returned
<1>2. WaitTimesOut => driver'.at = "back" /\ driver'.status = "timeout"
  BY Zenon DEF VqTypeOK, WaitTimesOut, Returned
<1>3. Resume => driver'.at = "idle"
  BY DEF Resume, NoResult
<1>4. /\ SubmitBlock => driver'.at = "waiting" /\ queueOf' = "disk"
      /\ SubmitCommand => driver'.at = "waiting" /\ queueOf' = "display"
  <2>1. ASSUME NEW r, Submitted(r) PROVE driver'.at = "waiting"
    BY Zenon, <2>1 DEF Submitted
  <2> QED BY Zenon, <2>1 DEF SubmitBlock, SubmitCommand
<1> QED BY Zenon, <1>1, <1>2, <1>3, <1>4

LEMMA DoneType == ASSUME VqTypeOK, Counts PROVE Done \in Nat /\ Done <= orders
  BY DEF VqTypeOK, Counts, Done

LEMMA CountsStep == ASSUME VqTypeOK, Counts, [VqNext]_vqVars PROVE Counts'
<1> USE DEF VqTypeOK
<1>0. Done \in Nat /\ taken <= orders /\ usedIdx = Done % Wrap /\ avail = orders % Wrap
  BY Zenon, DoneType DEF Counts
<1>1. CASE UNCHANGED <<device, taken, usedIdx, avail, orders>>
  BY Zenon, <1>1 DEF Counts, Done
<1>2. CASE SubmitBlock \/ SubmitCommand
  <2>1. orders' = orders + 1 /\ avail' = Succ(avail) /\ UNCHANGED <<device, taken, usedIdx>>
    BY Zenon, <1>2 DEF SubmitBlock, SubmitCommand, Submitted
  <2>2. avail' = (orders + 1) % Wrap
    BY Zenon, <1>0, <2>1, IndexCounts
  <2> QED BY <2>1, <2>2 DEF Counts, Done
<1>3. CASE DeviceTakes
  <2>1. taken' = taken + 1 /\ taken < orders /\ UNCHANGED <<usedIdx, avail, orders>>
    BY Zenon, <1>3 DEF DeviceTakes
  <2>2. Done' = Done
    BY <1>3, <2>1, DeviceMoves DEF Done
  <2> QED BY <2>1, <2>2, <1>0 DEF Counts
<1>4. CASE DeviceTransfers
  <2>1. UNCHANGED <<taken, usedIdx, avail, orders>>
    BY Zenon, <1>4 DEF DeviceTransfers
  <2>2. Done' = Done /\ taken > 0
    BY Zenon, <1>4, <2>1, DeviceMoves DEF Done, Counts
  <2> QED BY Zenon, <2>1, <2>2, <1>0 DEF Counts
<1>5. CASE DeviceCompletes
  <2>1. usedIdx' = Succ(usedIdx) /\ UNCHANGED <<taken, avail, orders>>
    BY Zenon, <1>5 DEF DeviceCompletes
  <2>2. Done' = Done + 1 /\ device'.state = "free"
    BY <1>5, <2>1, DeviceMoves DEF Done, Counts
  <2>3. usedIdx' = (Done + 1) % Wrap
    BY Zenon, <1>0, <2>1, IndexCounts
  <2> QED BY Zenon, <2>1, <2>2, <2>3, <1>0 DEF Counts
<1>6. WaitEnds \/ WaitTimesOut \/ Resume \/ UNCHANGED vqVars => UNCHANGED <<device, taken, usedIdx, avail, orders>>
  BY Zenon DEF WaitEnds, WaitTimesOut, Resume, vqVars
<1> QED BY Zenon, <1>1, <1>2, <1>3, <1>4, <1>5, <1>6 DEF VqNext

\* A wait for a request that found the device idle ends with that request.
LEMMA OwnCompletion ==
  ASSUME VqTypeOK, Counts, usedIdx = avail, Done \in {orders, orders - 1}
  PROVE  Done = orders
<1>1. ASSUME Done = orders - 1 PROVE FALSE
  <2>1. Done \in Nat /\ orders = Done + 1 /\ Done % Wrap = orders % Wrap
    BY <1>1, DoneType DEF Counts, VqTypeOK
  <2> QED BY Zenon, <2>1, IndexCounts
<1> QED BY Zenon, <1>1

LEMMA DiskWaitsStep == ASSUME DiskInv, [VqNext]_vqVars PROVE DiskWaits'
<1> USE DEF DiskInv, VqTypeOK
<1> SUFFICES ASSUME queueOf' = "disk", driver'.at = "waiting", ~driver'.behind
             PROVE  DiskWaits'
  BY Zenon DEF DiskWaits
<1>1. CASE SubmitBlock
  <2>1. PICK r \in BlockRequests :
          /\ Submitted([op |-> r.op, block |-> r.block, content |-> r.content, id |-> orders + 1])
          /\ buffer' = IF r.op = "write" THEN r.content ELSE buffer
    BY Zenon, <1>1 DEF SubmitBlock
  <2>2. /\ chain' = [op |-> r.op, block |-> r.block, content |-> r.content, id |-> orders + 1]
        /\ driver' = [at |-> "waiting", request |-> chain', target |-> avail', behind |-> Behind, status |-> "none"]
        /\ orders' = orders + 1
    BY Zenon, <2>1 DEF Submitted
  <2>3. ~Behind
    BY Zenon, <2>2
  <2>4. taken' + 1 = orders' /\ device'.state = "free"
    BY <1>1, <2>2, <2>3 DEF Behind, Counts, SubmitBlock
  <2>5. r.op \in {"read", "write"} /\ r.block \in Blocks
    BY Zenon DEF BlockRequests
  <2>6. chain'.op = r.op /\ chain'.block = r.block /\ chain'.content = r.content
    BY Zenon, <2>2
  <2>7. chain' = driver'.request /\ driver'.target = avail'
    BY Zenon, <2>2
  <2> QED BY Zenon, <2>1, <2>4, <2>5, <2>6, <2>7 DEF DiskWaits, Ready
<1>2. CASE DeviceTakes
  <2>1. UNCHANGED <<queueOf, driver, chain, avail, orders, buffer, medium>> /\ taken' = taken + 1
    BY Zenon, <1>2 DEF DeviceTakes
  <2>2. device.state = "free" /\ taken < orders /\ device' = [state |-> "working", request |-> chain]
    BY Zenon, <1>2 DEF DeviceTakes
  <2>3. taken \in Nat /\ orders \in Nat
    BY Zenon
  <2>4. taken # orders
    BY <2>2, <2>3
  <2>5. /\ chain = driver.request /\ driver.target = avail /\ Ready(chain)
        /\ chain.block \in Blocks /\ chain.op \in {"read", "write"} /\ taken + 1 = orders
    BY Zenon, <2>1, <2>2, <2>4 DEF DiskWaits
  <2>6. device'.state = "working" /\ device'.request = chain
    BY Zenon, <2>2
  <2>7. taken' = orders' /\ chain' = chain /\ buffer' = buffer
    BY Zenon, <2>1, <2>5
  <2> QED BY Zenon, <2>1, <2>5, <2>6, <2>7 DEF DiskWaits, Ready
<1>3. CASE DeviceTransfers
  <2>1. UNCHANGED <<queueOf, driver, chain, avail, orders, taken, answer>>
    BY Zenon, <1>3 DEF DeviceTransfers
  <2>2. /\ taken = orders /\ device.request = chain /\ Ready(chain)
        /\ chain = driver.request /\ driver.target = avail
        /\ chain.block \in Blocks /\ chain.op \in {"read", "write"}
    BY Zenon, <1>3, <2>1, DeviceMoves DEF DiskWaits
  <2>3. ASSUME device'.state = "good" PROVE Carried(chain)'
    BY <1>3, <2>1, <2>2, <2>3 DEF DeviceTransfers, Carried, Ready
  <2> QED BY Zenon, <1>3, <2>1, <2>2, <2>3, DeviceMoves DEF DiskWaits
<1>4. CASE DeviceCompletes
  <2>1. UNCHANGED <<queueOf, driver, chain, avail, orders, taken, buffer, medium>>
    BY Zenon, <1>4 DEF DeviceCompletes
  <2>2. /\ taken = orders /\ device.request = chain /\ (device.state = "good" => Carried(chain))
        /\ chain = driver.request /\ driver.target = avail
        /\ chain.block \in Blocks /\ chain.op \in {"read", "write"}
    BY Zenon, <1>4, <2>1, DeviceMoves DEF DiskWaits
  <2>3. answer'.status = "ok" => device.state = "good"
    BY Zenon, <1>4 DEF DeviceCompletes
  <2> QED BY Zenon, <1>4, <2>1, <2>2, <2>3, DeviceMoves DEF DiskWaits, Carried
<1>5. CASE UNCHANGED vqVars
  BY Zenon, <1>5 DEF vqVars, DiskWaits, Ready, Carried
<1>6. ~(WaitEnds \/ WaitTimesOut \/ Resume \/ SubmitCommand)
  BY Zenon, DriverMoves
<1> QED BY Zenon, <1>1, <1>2, <1>3, <1>4, <1>5, <1>6 DEF VqNext

LEMMA DiskBackStep == ASSUME DiskInv, [VqNext]_vqVars PROVE DiskBack'
<1> USE DEF DiskInv, VqTypeOK
<1> SUFFICES ASSUME queueOf' = "disk", driver'.at = "back", driver'.status = "ok", ~driver'.behind
             PROVE  DiskBack'
  BY Zenon DEF DiskBack
<1>1. CASE WaitEnds
  <2>1. UNCHANGED <<queueOf, chain, device, avail, orders, taken, buffer, medium>>
        /\ driver.at = "waiting" /\ driver' = [driver EXCEPT !.at = "back", !.status = answer.status]
    BY Zenon, <1>1 DEF WaitEnds, Returned
  <2>2. answer.status = "ok" /\ ~driver.behind /\ driver'.request = driver.request
    BY Zenon, <2>1
  <2>3. usedIdx = driver.target
    BY Zenon, <1>1, <2>1 DEF WaitEnds, Completed
  <2>4. driver.target = avail /\ Done \in {orders, orders - 1}
    BY <2>1, <2>2 DEF DiskWaits, Done
  <2>5. Done = orders
    BY Zenon, <2>3, <2>4, OwnCompletion
  <2>6. taken = orders /\ device.state = "free" /\ Carried(driver.request)
    BY <2>1, <2>2, <2>5 DEF DiskWaits, Done, Counts
  <2> QED BY Zenon, <2>1, <2>2, <2>6 DEF DiskBack, Carried
<1>2. CASE UNCHANGED vqVars
  BY Zenon, <1>2 DEF vqVars, DiskBack, Carried
<1>3. CASE DeviceTakes \/ DeviceTransfers \/ DeviceCompletes
  <2>1. UNCHANGED <<queueOf, driver, orders>>
    BY Zenon, <1>3 DEF DeviceTakes, DeviceTransfers, DeviceCompletes
  <2>2. taken = orders /\ device.state = "free"
    BY Zenon, <2>1 DEF DiskBack
  <2> QED BY <1>3, <2>2, DeviceMoves DEF DeviceTakes
<1>4. ~(WaitTimesOut \/ Resume \/ SubmitCommand \/ SubmitBlock)
  BY Zenon, DriverMoves
<1> QED BY Zenon, <1>1, <1>2, <1>3, <1>4 DEF VqNext

LEMMA VqStart ==
  ASSUME VqInit
  PROVE  driver.at = "idle" /\ device.state = "free" /\ VqTypeOK /\ Counts
<1>1. driver.at = "idle" /\ device.state = "free"
  BY Zenon DEF VqInit, NoResult
<1>2. NoRequest \in Requests
  BY Zenon DEF NoRequest, Requests
<1>3. /\ driver \in [at : {"idle", "waiting", "back"}, request : Requests, target : Nat,
                     behind : BOOLEAN, status : {"none", "ok", "error", "timeout"}]
      /\ device \in [state : {"free", "working", "good", "bad"}, request : Requests]
  BY Zenon, <1>2 DEF VqInit, NoResult
<1>4. pipeline \in 0 .. Absent /\ gaveUp \in BOOLEAN /\ (queueOf = "disk" => pipeline = 0)
  <2>1. gaveUp \in BOOLEAN /\ (queueOf = "disk" => pipeline = 0) /\ pipeline \in ProbeStart
    BY Zenon DEF VqInit
  <2> QED BY <2>1 DEF ProbeStart, Absent, ProbeCommands
<1>5. VqTypeOK
  BY Zenon, <1>1, <1>2, <1>3, <1>4 DEF VqInit, VqTypeOK
<1>6. Counts
  BY <1>1, VirtqueueAssumption DEF VqInit, Counts, Done
<1> QED BY Zenon, <1>1, <1>5, <1>6

\* A block request that came back with status 0, and found the device idle,
\* was carried out, for disks of any size and any number of timeouts.
THEOREM BlocksTrueAlways == VqSpec => []BlockTrue
<1>1. VqInit => DiskInv
  <2> SUFFICES ASSUME VqInit PROVE DiskInv
    BY Zenon
  <2>1. driver.at = "idle" /\ device.state = "free" /\ VqTypeOK /\ Counts
    BY Zenon, VqStart
  <2> QED BY Zenon, <2>1 DEF DiskInv, DiskWaits, DiskBack
<1>2. DiskInv /\ [VqNext]_vqVars => DiskInv'
  BY Zenon, VqTypes, CountsStep, DiskWaitsStep, DiskBackStep DEF DiskInv
<1>3. DiskInv => BlockTrue
  BY Zenon DEF DiskInv, DiskBack, BlockTrue, Carried
<1> QED BY <1>1, <1>2, <1>3, PTL DEF VqSpec

LEMMA DisplayInStepStep == ASSUME DisplayInv, [VqNext]_vqVars PROVE DisplayInStep'
<1> USE DEF DisplayInv, VqTypeOK
<1> SUFFICES ASSUME queueOf' = "display", ~gaveUp' PROVE DisplayInStep'
  BY Zenon DEF DisplayInStep
<1>0. ~WaitTimesOut /\ ~SubmitBlock
  BY Zenon, DriverMoves DEF WaitTimesOut
<1>a. queueOf = "display" /\ ~gaveUp
  BY Zenon, <1>0 DEF VqNext, SubmitCommand, WaitEnds, Resume, DeviceTakes, DeviceTransfers, DeviceCompletes, vqVars
<1>1. CASE SubmitCommand
  <2>1. /\ chain' = [op |-> "command", block |-> 0, content |-> 0, id |-> orders + 1]
        /\ orders' = orders + 1 /\ avail' = Succ(avail) /\ driver.at = "idle"
        /\ driver' = [at |-> "waiting", request |-> chain', target |-> avail', behind |-> Behind, status |-> "none"]
        /\ UNCHANGED <<taken, device, lastUsed, usedIdx>>
    BY Zenon, <1>1 DEF SubmitCommand, Submitted
  <2>2. chain'.id = orders' /\ driver'.request = chain' /\ driver'.at = "waiting"
    BY Zenon, <2>1
  <2>3. taken = orders /\ device.state = "free" /\ lastUsed = usedIdx
    BY Zenon, <1>a, <2>1 DEF DisplayInStep
  <2>4. usedIdx = orders % Wrap /\ avail' = (orders + 1) % Wrap /\ usedIdx # avail'
    BY Zenon, <2>1, <2>3, IndexCounts DEF Counts, Done
  <2> QED BY Zenon, <2>1, <2>2, <2>3, <2>4 DEF DisplayInStep
<1>2. CASE WaitEnds
  <2>1. /\ UNCHANGED <<taken, orders, device, usedIdx, chain, avail, performed>>
        /\ lastUsed' = usedIdx /\ driver.at = "waiting" /\ usedIdx # lastUsed
    BY Zenon, <1>a, <1>2 DEF WaitEnds, LastSeen, Completed
  <2>2. taken = orders /\ device.state = "free" /\ chain = driver.request /\ chain.id = orders
         /\ (answer.status = "ok" => orders \in performed)
    BY Zenon, <1>a, <2>1 DEF DisplayInStep
  <2> QED BY Zenon, <1>2, <2>1, <2>2, DriverMoves DEF DisplayInStep
<1>3. CASE Resume
  <2>1. driver.at = "back" /\ UNCHANGED <<taken, orders, device, usedIdx, lastUsed>>
    BY Zenon, <1>3 DEF Resume
  <2> QED BY Zenon, <1>a, <1>3, <2>1, DriverMoves DEF DisplayInStep
<1>4. CASE DeviceTakes
  <2>1. UNCHANGED <<driver, orders, usedIdx, lastUsed, chain, avail, performed>> /\ taken' = taken + 1 /\ taken < orders
    BY Zenon, <1>4 DEF DeviceTakes
  <2> QED BY SMTT(40), <1>a, <1>4, <2>1, DeviceMoves DEF DisplayInStep
<1>5. CASE DeviceTransfers
  <2>1. UNCHANGED <<driver, orders, taken, usedIdx, lastUsed, chain, avail, performed>>
    BY Zenon, <1>5 DEF DeviceTransfers
  <2> QED BY Zenon, <1>a, <1>5, <2>1, DeviceMoves DEF DisplayInStep
<1>6. CASE DeviceCompletes
  <2>1. UNCHANGED <<driver, orders, taken, lastUsed, chain, avail>>
    BY Zenon, <1>6 DEF DeviceCompletes
  <2>2. driver.at = "waiting" /\ taken = orders /\ device.request.id = orders
         /\ chain = driver.request /\ chain.id = orders /\ lastUsed # avail
    BY Zenon, <1>a, <1>6, DeviceMoves DEF DisplayInStep
  <2>3. answer'.status = "ok" => orders' \in performed'
    BY Zenon, <1>a, <1>6, <2>1, <2>2 DEF DeviceCompletes
  <2> QED BY Zenon, <1>6, <2>1, <2>2, <2>3, DeviceMoves DEF DisplayInStep
<1>7. CASE UNCHANGED vqVars
  BY Zenon, <1>7 DEF vqVars, DisplayInStep
<1> QED BY Zenon, <1>0, <1>1, <1>2, <1>3, <1>4, <1>5, <1>6, <1>7 DEF VqNext

LEMMA ProbingStep == ASSUME DisplayInv, [VqNext]_vqVars PROVE Probing'
<1> USE DEF DisplayInv, VqTypeOK, Absent, ProbeCommands
<1> SUFFICES ASSUME queueOf' = "display" PROVE Probing'
  BY Zenon DEF Probing
<1>a. queueOf = "display"
  BY Zenon DEF VqNext, SubmitBlock, SubmitCommand, WaitEnds, WaitTimesOut, Resume, DeviceTakes, DeviceTransfers,
     DeviceCompletes, vqVars
<1>1. CASE SubmitCommand
  <2>1. UNCHANGED <<gaveUp, performed, pipeline>> /\ orders' = orders + 1 /\ driver.at = "idle" /\ pipeline # Absent
    BY Zenon, <1>1 DEF SubmitCommand, Submitted
  <2> QED BY Zenon, <1>a, <1>1, <2>1, DriverMoves DEF Probing
<1>2. CASE WaitEnds
  <2>1. UNCHANGED <<gaveUp, performed, pipeline, orders>> /\ driver.at = "waiting"
    BY Zenon, <1>2 DEF WaitEnds
  <2> QED BY Zenon, <1>a, <1>2, <2>1, DriverMoves DEF Probing
<1>3. CASE WaitTimesOut
  <2>1. UNCHANGED <<performed, pipeline, orders>> /\ driver.at = "waiting"
    BY Zenon, <1>3 DEF WaitTimesOut
  <2> QED BY Zenon, <1>a, <1>3, <2>1, DriverMoves DEF Probing
<1>4. CASE Resume
  <2>1. UNCHANGED <<performed, orders, gaveUp>> /\ driver.at = "back" /\ pipeline' = AfterAnswer /\ driver'.at = "idle"
    BY Zenon, <1>4, DriverMoves DEF Resume
  <2>2. CASE pipeline = ProbeCommands
    BY <1>a, <2>1, <2>2 DEF AfterAnswer, Probing
  <2>3. CASE pipeline < ProbeCommands /\ driver.status = "ok"
    <3>1. pipeline' = pipeline + 1 /\ orders = pipeline + 1
      BY <1>a, <2>1, <2>3 DEF AfterAnswer, Probing
    <3>2. ~gaveUp
      BY <1>a, <2>3 DEF Probing
    <3>3. orders \in performed /\ 1 .. pipeline \subseteq performed
      BY Zenon, <1>a, <2>1, <2>3, <3>2 DEF DisplayInStep, Probing
    <3>4. 1 .. pipeline' \subseteq performed'
      BY <2>1, <3>1, <3>3
    <3> QED BY Zenon, <2>1, <3>1, <3>2, <3>4 DEF Probing
  <2>4. CASE pipeline < ProbeCommands /\ driver.status # "ok"
    BY <1>a, <2>1, <2>4 DEF AfterAnswer, Probing
  <2> QED BY <2>1, <2>2, <2>3, <2>4
<1>5. CASE DeviceTakes \/ DeviceTransfers
  <2>1. UNCHANGED <<driver, gaveUp, performed, pipeline, orders>>
    BY Zenon, <1>5 DEF DeviceTakes, DeviceTransfers
  <2> QED BY Zenon, <1>a, <2>1 DEF Probing
<1>6. CASE DeviceCompletes
  <2>1. UNCHANGED <<driver, gaveUp, pipeline, orders>> /\ performed \subseteq performed'
    BY Zenon, <1>6 DEF DeviceCompletes
  <2> QED BY Zenon, <1>a, <2>1 DEF Probing
<1>7. CASE UNCHANGED vqVars
  BY Zenon, <1>a, <1>7 DEF vqVars, Probing
<1> QED BY Zenon, <1>a, <1>1, <1>2, <1>3, <1>4, <1>5, <1>6, <1>7 DEF VqNext, SubmitBlock

\* An answer send_cmd returns before it ever gave up is the answer to that
\* command, and a display in use had all commands of the probe carried out.
THEOREM AnswersOwnAlways == VqSpec => []AnswerOwn
<1>1. VqInit => DisplayInv
  <2> SUFFICES ASSUME VqInit PROVE DisplayInv
    BY Zenon
  <2>1. driver.at = "idle" /\ device.state = "free" /\ VqTypeOK /\ Counts
    BY Zenon, VqStart
  <2>4. DisplayInStep
    BY Zenon, <2>1 DEF VqInit, DisplayInStep
  <2>5. Probing
    BY <2>1 DEF VqInit, Probing, ProbeStart, ProbeCommands, Absent
  <2> QED BY Zenon, <2>1, <2>4, <2>5 DEF DisplayInv
<1>2. DisplayInv /\ [VqNext]_vqVars => DisplayInv'
  BY Zenon, VqTypes, CountsStep, DisplayInStepStep, ProbingStep DEF DisplayInv
<1>3. DisplayInv => AnswerOwn
  BY Zenon DEF DisplayInv, DisplayInStep, Probing, AnswerOwn
<1> QED BY <1>1, <1>2, <1>3, PTL DEF VqSpec

----------------------------------------------------------------------------
(* The USB driver                                                          *)

Commands == {"noop", "enable", "address", "configure", "disable", "reenable", "readdress", "reconfigure"}
Transfers == TransferIn \cup TransferNoData

\* What the slot in use must have become for a stage to be reached.
NeedsEnabled == {"port", "address", "readdress"}
NeedsAddressed == {"getdevice", "getconfig", "getfull", "scan", "configure", "reconfigure"}
NeedsConfigured == {"setconfig", "getreport", "queue", "resetconfig", "requeue", "bound"}

Stands(s, k) ==
  /\ s \in NeedsEnabled => k \in DeviceSlots /\ hcSlots[k] = "enabled"
  /\ s \in NeedsAddressed => k \in DeviceSlots /\ hcSlots[k] = "addressed" /\ k \in dcbaa
  /\ s \in NeedsConfigured => k \in DeviceSlots /\ hcSlots[k] = "configured" /\ k \in dcbaa

\* The one order the driver waits for.
OrderKind ==
  IF step = "command" THEN CommandOf[stage] ELSE IF step = "stopping" THEN "stop"
  ELSE IF step = "dequeuing" THEN "dequeue" ELSE IF stage \in TransferIn THEN "in" ELSE "nodata"

TheOrder == [kind |-> OrderKind, slot |-> slotId, id |-> serial]

Waits == step \in {"command", "stopping", "dequeuing", "transfer"}

Outstanding == trb # NoOrder \/ busy # NoOrder

Orders ==
  /\ Outstanding => Waits
  /\ trb \in {NoOrder, TheOrder} /\ busy \in {NoOrder, TheOrder}
  /\ trb = NoOrder \/ busy = NoOrder

Steps ==
  /\ step \in {"go", "command", "stopping", "stopped", "dequeuing", "ready", "transfer"}
  /\ step = "command" => stage \in Commands
  /\ step \in {"stopping", "stopped", "dequeuing", "ready", "transfer"} => stage \in Transfers

\* The slot's state is the one the stage needs, and the next stage's once the
\* command of this one was answered well.
SlotKept ==
  /\ step # "command" \/ Outstanding => Stands(stage, slotId)
  /\ step = "command" /\ stage \in {"address", "readdress"} => slotId \in dcbaa
  /\ step = "command" /\ stage \in {"configure", "reconfigure"} => slotId \in dcbaa

EventType == [type : {"command", "transfer", "port"}, ok : BOOLEAN, slot : Nat, id : Nat]

\* An event on the ring that is an answer is the answer to the one order.
EventTrue(e) ==
  e.type # "port" =>
    /\ e.id = serial /\ ~Outstanding
    /\ e.type = "command" => step # "transfer"
    /\ e.type = "transfer" => step = "transfer"
    /\ e.type = "command" /\ e.ok /\ step = "command" =>
          Stands(OnSuccess[stage], IF stage \in {"enable", "reenable"} THEN e.slot ELSE slotId)

EventsTrue == Waits => \A i \in 1 .. Len(eventRing) : EventTrue(eventRing[i])

XhciTypeOK ==
  /\ eventRing \in Seq(EventType) /\ serial \in Nat
  /\ slotId \in Nat
  /\ hcSlots \in [DeviceSlots -> {"off", "enabled", "addressed", "configured"}]

XhciBooks == ~mixed /\ XhciTypeOK /\ Steps /\ Orders /\ SlotKept /\ EventsTrue

XhciInv == ~left => XhciBooks

LEMMA StageTables ==
  /\ DOMAIN CommandOf = Commands
  /\ CommandOf["enable"] = "enable" /\ CommandOf["reenable"] = "enable"
  /\ CommandOf["address"] = "address" /\ CommandOf["readdress"] = "address"
  /\ CommandOf["configure"] = "configure" /\ CommandOf["reconfigure"] = "configure"
  /\ CommandOf["disable"] = "disable" /\ CommandOf["noop"] = "noop"
  BY Zenon DEF CommandOf, Commands

\* A stage that succeeds leads to one that needs the same of the slot, unless
\* it was a command.
LEMMA NextStages ==
  /\ OnSuccess["noop"] = "enable" /\ OnSuccess["enable"] = "port" /\ OnSuccess["reenable"] = "readdress"
  /\ OnSuccess["address"] = "getdevice" /\ OnSuccess["readdress"] = "reconfigure"
  /\ OnSuccess["configure"] = "setconfig" /\ OnSuccess["reconfigure"] = "resetconfig"
  /\ OnSuccess["disable"] = "reenable" /\ OnSuccess["caps"] = "reset" /\ OnSuccess["reset"] = "noop"
  /\ OnSuccess["port"] = "address" /\ OnSuccess["scan"] = "configure"
  /\ OnSuccess["queue"] = "disable" /\ OnSuccess["requeue"] = "bound"
  /\ OnSuccess["getdevice"] = "getconfig" /\ OnSuccess["getconfig"] = "getfull"
  /\ OnSuccess["getfull"] = "scan" /\ OnSuccess["getreport"] = "queue"
  /\ OnSuccess["setconfig"] = "getreport" /\ OnSuccess["resetconfig"] = "requeue"
  BY Zenon DEF OnSuccess

LEMMA SameNeeds ==
  ASSUME NEW s, NEW k, Stands(s, k),
         s \in Transfers \cup {"caps", "reset", "port", "scan", "queue", "requeue"}
  PROVE  Stands(OnSuccess[s], k) /\ Stands(OnFailure(s), k) /\ Stands("stopped", k)
<1>1. Stands(OnSuccess[s], k)
  BY Zenon, NextStages DEF Stands, Transfers, TransferIn, TransferNoData, NeedsEnabled, NeedsAddressed, NeedsConfigured
<1>2. Stands("stopped", k)
  BY Zenon DEF Stands, NeedsEnabled, NeedsAddressed, NeedsConfigured
<1> QED BY Zenon, <1>1, <1>2 DEF OnFailure

LEMMA LeftStays == ASSUME [XhciNext]_xhciVars, ~left' PROVE ~left
  BY Zenon DEF XhciNext, Driver, Controller, Look, QueueInterruptIn, NeverRuns, RunCommand, CommandDone,
     CommandFailed, StartTransfer, TransferDone, TransferFailed, GoTo, Fetch, Execute, PortEvent, xhciVars

\* The driver turns to another stage with nothing outstanding.
LEMMA TurnsTo ==
  ASSUME XhciTypeOK, step' = "go", trb = NoOrder, busy = NoOrder, ~mixed',
         UNCHANGED <<trb, busy, eventRing, serial, hcSlots>>, slotId' \in Nat, Stands(stage, slotId)'
  PROVE  XhciBooks'
<1>2. XhciTypeOK'
  BY Zenon DEF XhciTypeOK
<1>3. Steps' /\ Orders' /\ EventsTrue'
  BY Zenon DEF Steps, Orders, EventsTrue, Waits, Outstanding
<1>4. SlotKept'
  BY Zenon DEF SlotKept
<1> QED BY Zenon, <1>2, <1>3, <1>4 DEF XhciBooks

\* A new order finds the ring empty and none before it in the controller.
LEMMA Ordered ==
  ASSUME XhciTypeOK, UNCHANGED <<stage, slotId, busy, hcSlots, mixed>>, ~mixed, trb = NoOrder, busy = NoOrder,
         serial' = serial + 1, eventRing' = <<>>, trb' = TheOrder', Waits', Steps',
         dcbaa \subseteq dcbaa', Stands(stage, slotId),
         step' = "command" /\ stage \in {"address", "readdress", "configure", "reconfigure"} => slotId \in dcbaa'
  PROVE  XhciBooks'
<1>1. XhciTypeOK'
  BY DEF XhciTypeOK
<1>2. Orders'
  BY Zenon DEF Orders
<1>3. EventsTrue'
  BY DEF EventsTrue
<1>4. SlotKept'
  BY Zenon DEF SlotKept, Stands
<1> QED BY Zenon, <1>1, <1>2, <1>3, <1>4 DEF XhciBooks

LEMMA TurnStep ==
  ASSUME XhciBooks, ~left', Look \/ QueueInterruptIn \/ NeverRuns \/ TransferDone \/ TransferFailed
  PROVE  XhciBooks'
<1>1. /\ step' = "go" /\ trb = NoOrder /\ busy = NoOrder
      /\ UNCHANGED <<trb, busy, eventRing, serial, hcSlots, slotId, dcbaa>>
  BY Zenon DEF Look, QueueInterruptIn, NeverRuns, TransferDone, TransferFailed, GoTo
<1>2. /\ stage \in Transfers \cup {"caps", "reset", "port", "scan", "queue", "requeue"}
         /\ step # "command" /\ stage' \in {OnSuccess[stage], OnFailure(stage), "stopped"}
      \/ stage' = "stopped"
  BY Zenon DEF Look, QueueInterruptIn, NeverRuns, TransferDone, TransferFailed, GoTo, XhciBooks, Steps, Commands
<1>3. Stands(stage', slotId)
  <2>1. Stands("stopped", slotId)
    BY Zenon DEF Stands, NeedsEnabled, NeedsAddressed, NeedsConfigured
  <2>2. CASE stage' # "stopped"
    <3>1. Stands(stage, slotId)
      BY Zenon, <1>2, <2>2 DEF XhciBooks, SlotKept
    <3> QED BY Zenon, <1>2, <2>2, <3>1, SameNeeds
  <2> QED BY Zenon, <2>1, <2>2
<1>4. Stands(stage, slotId)'
  BY Zenon, <1>1, <1>3 DEF Stands
<1>5. ~mixed'
  <2>1. CASE TransferDone
    <3>1. eventRing[1].type = "transfer" /\ Len(eventRing) >= 1 /\ step = "transfer" /\ eventRing \in Seq(EventType)
      <4>1. /\ step = "transfer" /\ eventRing[1].type = "transfer" /\ eventRing \in Seq(EventType)
            /\ Len(eventRing) >= (IF stage \in TransferIn THEN 2 ELSE 1)
        BY Zenon, <2>1 DEF TransferDone, GoodTransfer, XhciBooks, XhciTypeOK
      <4>2. Len(eventRing) >= 1
        BY <4>1
      <4> QED BY Zenon, <4>1, <4>2
    <3>2. EventTrue(eventRing[1])
      BY <3>1 DEF XhciBooks, EventsTrue, Waits
    <3>3. eventRing[1].id = serial
      BY Zenon, <3>1, <3>2 DEF EventTrue
    <3> QED BY Zenon, <2>1, <3>3 DEF TransferDone, XhciBooks
  <2>2. CASE ~TransferDone
    BY Zenon, <2>2 DEF Look, QueueInterruptIn, NeverRuns, TransferFailed, XhciBooks
  <2> QED BY Zenon, <2>1, <2>2
<1> QED BY Zenon, <1>1, <1>4, <1>5, TurnsTo DEF XhciBooks, XhciTypeOK

LEMMA OrderStep ==
  ASSUME XhciBooks, ~left', RunCommand \/ StartTransfer
  PROVE  XhciBooks'
<1>1. /\ UNCHANGED <<stage, slotId, busy, hcSlots, mixed>> /\ trb = NoOrder /\ busy = NoOrder
      /\ serial' = serial + 1 /\ eventRing' = <<>>
  BY Zenon DEF RunCommand, StartTransfer, EmptiedRing
<1>2. CASE RunCommand
  <2>1. step \in {"go", "stopped"} /\ (step = "go" => stage \in Commands \cup Transfers)
    BY Zenon, <1>2, StageTables DEF RunCommand, Transfers
  <2>2. /\ step' = IF step = "go" THEN IF stage \in Commands THEN "command" ELSE "stopping" ELSE "dequeuing"
        /\ trb' = [kind |-> StepCommand, slot |-> slotId, id |-> serial']
        /\ dcbaa' = BeforeCommand(StepCommand)
    BY Zenon, <1>2, StageTables DEF RunCommand
  <2>3. Steps' /\ Waits'
    BY Zenon, <1>1, <2>1, <2>2 DEF Steps, Waits, XhciBooks
  <2>4. OrderKind' = StepCommand
    BY Zenon, <1>1, <2>1, <2>2, StageTables DEF OrderKind, StepCommand
  <2>5. trb' = TheOrder'
    BY Zenon, <1>1, <2>2, <2>4 DEF TheOrder
  <2>6. Stands(stage, slotId)
    BY Zenon, <2>1 DEF XhciBooks, SlotKept
  <2>7. dcbaa \subseteq dcbaa'
    BY Zenon, <2>2 DEF BeforeCommand
  <2>8. ASSUME step' = "command", stage \in {"address", "readdress", "configure", "reconfigure"}
        PROVE  slotId \in dcbaa'
    <3>1. CASE stage \in {"address", "readdress"}
      <4>1. StepCommand = "address"
        BY Zenon, <2>1, <2>2, <2>8, <3>1, StageTables DEF StepCommand
      <4> QED BY Zenon, <2>2, <4>1 DEF BeforeCommand
    <3>2. CASE stage \in {"configure", "reconfigure"}
      BY Zenon, <2>6, <2>7, <3>2 DEF Stands, NeedsAddressed
    <3> QED BY Zenon, <2>8, <3>1, <3>2
  <2> QED BY Zenon, <1>1, <2>3, <2>5, <2>6, <2>7, <2>8, Ordered DEF XhciBooks
<1>3. CASE StartTransfer
  <2>1. /\ step = "ready" /\ step' = "transfer" /\ UNCHANGED dcbaa
        /\ trb' = [kind |-> IF stage \in TransferIn THEN "in" ELSE "nodata", slot |-> slotId, id |-> serial']
    BY Zenon, <1>3 DEF StartTransfer
  <2>2. Steps' /\ Waits'
    BY Zenon, <1>1, <2>1 DEF Steps, Waits, XhciBooks
  <2>3. OrderKind' = IF stage \in TransferIn THEN "in" ELSE "nodata"
    BY Zenon, <1>1, <2>1 DEF OrderKind
  <2>4. trb' = TheOrder'
    BY Zenon, <1>1, <2>1, <2>3 DEF TheOrder
  <2>5. Stands(stage, slotId)
    BY Zenon, <2>1 DEF XhciBooks, SlotKept
  <2> QED BY Zenon, <1>1, <2>1, <2>2, <2>4, <2>5, Ordered DEF XhciBooks
<1> QED BY Zenon, <1>2, <1>3

LEMMA FailStep ==
  ASSUME XhciBooks, ~left', CommandFailed
  PROVE  XhciBooks'
<1>1. /\ step' = "go" /\ trb = NoOrder /\ busy = NoOrder /\ stage' = OnFailure(stage)
      /\ UNCHANGED <<trb, busy, eventRing, serial, hcSlots, slotId, mixed>> /\ dcbaa' = AfterCommand
  BY Zenon DEF CommandFailed, GoTo
<1>2. Stands(stage, slotId)'
  <2>1. CASE stage \in Commands
    <3>1. stage' \in {"stopped", "reenable"}
      BY Zenon, <1>1, <2>1, NextStages DEF OnFailure, Commands
    <3> QED BY Zenon, <3>1 DEF Stands, NeedsEnabled, NeedsAddressed, NeedsConfigured
  <2>2. CASE stage \notin Commands
    <3>1. stage \in Transfers /\ step # "command" /\ dcbaa' = dcbaa
      BY Zenon, <1>1, <2>2 DEF CommandFailed, Awaiting, XhciBooks, Steps, AfterCommand, Commands
    <3>2. Stands(stage, slotId)
      BY Zenon, <3>1 DEF XhciBooks, SlotKept
    <3>3. Stands(OnFailure(stage), slotId)
      BY Zenon, <3>1, <3>2, SameNeeds
    <3> QED BY Zenon, <1>1, <3>1, <3>3 DEF Stands
  <2> QED BY Zenon, <2>1, <2>2
<1> QED BY Zenon, <1>1, <1>2, TurnsTo DEF XhciBooks, XhciTypeOK

LEMMA DoneStep ==
  ASSUME XhciBooks, ~left', CommandDone
  PROVE  XhciBooks'
<1> DEFINE e == eventRing[1]
<1>1. Awaiting /\ e.type = "command" /\ e.ok /\ Waits /\ e \in EventType
  <2>1. Awaiting /\ e.type = "command" /\ e.ok /\ Waits /\ eventRing \in Seq(EventType) /\ Len(eventRing) > 0
    BY Zenon DEF CommandDone, Awaiting, Waits, XhciBooks, XhciTypeOK
  <2>2. e \in EventType
    BY <2>1
  <2> QED BY Zenon, <2>1, <2>2
<1>2. EventTrue(e)
  <2>1. eventRing \in Seq(EventType) /\ Len(eventRing) > 0
    BY Zenon DEF CommandDone, XhciBooks, XhciTypeOK
  <2>2. 1 \in 1 .. Len(eventRing)
    BY <2>1
  <2> QED BY Zenon, <1>1, <2>2 DEF XhciBooks, EventsTrue
<1>3. /\ slotId' = IF stage \in {"enable", "reenable"} THEN e.slot ELSE slotId
      /\ mixed' = (mixed \/ e.id # serial) /\ dcbaa' = AfterCommand
      /\ UNCHANGED <<trb, busy, eventRing, serial, hcSlots>>
  BY Zenon DEF CommandDone
<1>4. e.slot \in Nat /\ slotId \in Nat
  BY Zenon, <1>1 DEF EventType, XhciBooks, XhciTypeOK
<1> HIDE DEF e
<1>5. e.id = serial /\ trb = NoOrder /\ busy = NoOrder
  BY Zenon, <1>1, <1>2 DEF EventTrue, Outstanding
<1>6. ~mixed' /\ slotId' \in Nat
  BY Zenon, <1>3, <1>4, <1>5 DEF XhciBooks
<1>7. CASE step = "command"
  <2>1. /\ step' = "go"
        /\ stage' = IF stage \in {"enable", "reenable"} /\ slotId' = 0 THEN "stopped" ELSE OnSuccess[stage]
    BY Zenon, <1>7 DEF CommandDone, GoTo
  <2>2. Stands(OnSuccess[stage], slotId')
    <3>1. Stands(OnSuccess[stage], IF stage \in {"enable", "reenable"} THEN e.slot ELSE slotId)
      BY Zenon, <1>1, <1>2, <1>7 DEF EventTrue
    <3> QED BY Zenon, <1>3, <3>1
  <2>3. Stands(stage, slotId)'
    <3>1. CASE stage' = "stopped"
      BY Zenon, <3>1 DEF Stands, NeedsEnabled, NeedsAddressed, NeedsConfigured
    <3>2. CASE stage' = OnSuccess[stage] /\ stage = "disable"
      BY Zenon, <3>2, NextStages DEF Stands, NeedsEnabled, NeedsAddressed, NeedsConfigured
    <3>3. CASE stage' = OnSuccess[stage] /\ stage # "disable"
      <4>1. dcbaa' = dcbaa
        BY Zenon, <1>3, <3>3 DEF AfterCommand
      <4> QED BY Zenon, <1>3, <2>2, <3>3, <4>1 DEF Stands
    <3> QED BY Zenon, <2>1, <3>1, <3>2, <3>3
  <2> QED BY Zenon, <1>3, <1>5, <1>6, <2>1, <2>3, TurnsTo DEF XhciBooks
<1>8. CASE step # "command"
  <2>1. stage' = stage /\ step' = IF step = "stopping" THEN "stopped" ELSE "ready"
    BY Zenon, <1>8 DEF CommandDone
  <2>2. stage \in Transfers
    BY Zenon, <1>1, <1>8 DEF Awaiting, XhciBooks, Steps
  <2>3. slotId' = slotId /\ dcbaa' = dcbaa
    BY Zenon, <1>3, <2>2 DEF Transfers, TransferIn, TransferNoData, AfterCommand
  <2>4. Steps' /\ Orders' /\ EventsTrue'
    BY <1>3, <1>5, <2>1, <2>2 DEF Steps, Orders, EventsTrue, Waits, Outstanding
  <2>5. Stands(stage, slotId)
    BY Zenon, <1>8 DEF XhciBooks, SlotKept
  <2>6. SlotKept'
    BY Zenon, <1>3, <2>1, <2>3, <2>5 DEF SlotKept, Stands
  <2>7. XhciTypeOK'
    BY Zenon, <1>3, <1>6 DEF XhciBooks, XhciTypeOK
  <2> QED BY Zenon, <1>6, <2>4, <2>6, <2>7 DEF XhciBooks
<1> QED BY Zenon, <1>7, <1>8

LEMMA Posted ==
  ASSUME eventRing \in Seq(EventType), NEW es \in Seq(EventType), eventRing' = eventRing \o es
  PROVE  /\ eventRing' \in Seq(EventType)
         /\ \A i \in 1 .. Len(eventRing') :
               \/ i \in 1 .. Len(eventRing) /\ eventRing'[i] = eventRing[i]
               \/ \E j \in 1 .. Len(es) : eventRing'[i] = es[j]
<1>1. eventRing' \in Seq(EventType)
  OBVIOUS
<1>2. ASSUME NEW i \in 1 .. Len(eventRing'), i \notin 1 .. Len(eventRing)
      PROVE  i - Len(eventRing) \in 1 .. Len(es) /\ eventRing'[i] = es[i - Len(eventRing)]
  BY <1>2
<1>3. ASSUME NEW i \in 1 .. Len(eventRing') , i \in 1 .. Len(eventRing)
      PROVE  eventRing'[i] = eventRing[i]
  BY <1>3
<1> QED BY Zenon, <1>1, <1>2, <1>3

\* Fetching moves the order; a port event is no answer.
LEMMA FetchStepXhci == ASSUME XhciBooks, Fetch PROVE XhciBooks'
<1>1. /\ UNCHANGED <<stage, step, slotId, eventRing, hcSlots, dcbaa, serial, mixed>>
      /\ trb # NoOrder /\ busy = NoOrder /\ busy' = trb /\ trb' = NoOrder
  BY Zenon DEF Fetch
<1>2. TheOrder' = TheOrder /\ Outstanding /\ Outstanding' /\ Waits /\ Waits'
  BY Zenon, <1>1 DEF TheOrder, OrderKind, Outstanding, Waits, XhciBooks, Orders
<1>3. Orders'
  BY Zenon, <1>1, <1>2 DEF XhciBooks, Orders
<1>4. SlotKept' /\ Steps' /\ XhciTypeOK' /\ ~mixed'
  BY Zenon, <1>1, <1>2 DEF XhciBooks, SlotKept, Steps, XhciTypeOK, Stands
<1>5. EventsTrue'
  BY Zenon, <1>1, <1>2 DEF XhciBooks, EventsTrue, EventTrue
<1> QED BY Zenon, <1>3, <1>4, <1>5 DEF XhciBooks

LEMMA PortStep == ASSUME XhciBooks, PortEvent PROVE XhciBooks'
<1> DEFINE p == Event("port", TRUE, 0, 0)
<1>1. /\ UNCHANGED <<stage, step, slotId, trb, busy, hcSlots, dcbaa, serial, mixed>>
      /\ eventRing' = eventRing \o <<p>>
  BY Zenon DEF PortEvent, Post
<1>2. p \in EventType /\ p.type = "port"
  BY Zenon DEF Event, EventType
<1> HIDE DEF p
<1>3. <<p>> \in Seq(EventType) /\ \A j \in 1 .. Len(<<p>>) : <<p>>[j] = p
  BY <1>2
<1>4. /\ eventRing' \in Seq(EventType)
      /\ \A i \in 1 .. Len(eventRing') :
            \/ i \in 1 .. Len(eventRing) /\ eventRing'[i] = eventRing[i]
            \/ eventRing'[i] = p
  <2>1. PICK es : es = <<p>>
    BY Zenon
  <2>2. es \in Seq(EventType) /\ eventRing' = eventRing \o es /\ \A j \in 1 .. Len(es) : es[j] = p
    BY Zenon, <1>1, <1>3, <2>1
  <2>3. eventRing \in Seq(EventType)
    BY Zenon DEF XhciBooks, XhciTypeOK
  <2>4. /\ eventRing' \in Seq(EventType)
        /\ \A i \in 1 .. Len(eventRing') :
              \/ i \in 1 .. Len(eventRing) /\ eventRing'[i] = eventRing[i]
              \/ \E j \in 1 .. Len(es) : eventRing'[i] = es[j]
    BY Zenon, <2>2, <2>3, Posted
  <2> QED BY Zenon, <2>2, <2>4
<1>5. Orders' /\ SlotKept' /\ Steps' /\ XhciTypeOK' /\ ~mixed'
  BY Zenon, <1>1, <1>4 DEF XhciBooks, Orders, TheOrder, OrderKind, Outstanding, Waits, SlotKept, Steps, XhciTypeOK, Stands
<1>6. EventsTrue'
  <2> SUFFICES ASSUME Waits', NEW i \in 1 .. Len(eventRing') PROVE EventTrue(eventRing[i])'
    BY Zenon DEF EventsTrue
  <2>1. CASE eventRing'[i] = p
    BY Zenon, <1>2, <2>1 DEF EventTrue
  <2>2. CASE i \in 1 .. Len(eventRing) /\ eventRing'[i] = eventRing[i]
    <3>1. EventTrue(eventRing[i])
      BY Zenon, <1>1, <2>2 DEF XhciBooks, EventsTrue, Waits
    <3> QED BY Zenon, <1>1, <2>2, <3>1 DEF EventTrue, Outstanding, Stands
  <2> QED BY Zenon, <1>4, <2>1, <2>2
<1> QED BY Zenon, <1>5, <1>6 DEF XhciBooks

\* What is asked of an event the controller posts for the one order.
Answers(e) ==
  /\ e.type = (IF step = "transfer" THEN "transfer" ELSE "command") /\ e.id = serial
  /\ e.type = "command" /\ e.ok /\ step = "command" =>
        Stands(OnSuccess[stage], IF stage \in {"enable", "reenable"} THEN e.slot ELSE slotId)

LEMMA Executed ==
  ASSUME XhciBooks, busy # NoOrder, busy' = NoOrder,
         UNCHANGED <<stage, step, slotId, trb, dcbaa, serial, mixed>>,
         NEW es \in Seq(EventType), eventRing' = eventRing \o es,
         hcSlots' \in [DeviceSlots -> {"off", "enabled", "addressed", "configured"}],
         step # "command" => hcSlots' = hcSlots,
         \A j \in 1 .. Len(es) : Answers(es[j])'
  PROVE  XhciBooks'
<1>1. Outstanding /\ Waits /\ Waits' /\ trb = NoOrder /\ ~Outstanding'
  BY Zenon DEF XhciBooks, Orders, Outstanding, Waits
<1>2. /\ eventRing' \in Seq(EventType)
      /\ \A i \in 1 .. Len(eventRing') :
            \/ i \in 1 .. Len(eventRing) /\ eventRing'[i] = eventRing[i]
            \/ \E j \in 1 .. Len(es) : eventRing'[i] = es[j]
  BY Zenon, Posted DEF XhciBooks, XhciTypeOK
<1>3. Orders' /\ Steps' /\ XhciTypeOK' /\ ~mixed'
  BY Zenon, <1>1, <1>2 DEF XhciBooks, Orders, Steps, XhciTypeOK
<1>4. SlotKept'
  <2>1. ASSUME step # "command" PROVE Stands(stage, slotId)'
    BY Zenon, <2>1 DEF XhciBooks, SlotKept, Stands
  <2>2. (step = "command" /\ stage \in {"address", "readdress"} => slotId \in dcbaa)
        /\ (step = "command" /\ stage \in {"configure", "reconfigure"} => slotId \in dcbaa)
    BY Zenon DEF XhciBooks, SlotKept
  <2> QED BY Zenon, <1>1, <2>1, <2>2 DEF SlotKept
<1>5. ASSUME NEW i \in 1 .. Len(eventRing') PROVE EventTrue(eventRing[i])'
  <2>1. CASE i \in 1 .. Len(eventRing) /\ eventRing'[i] = eventRing[i]
    <3>1. eventRing[i].type = "port"
      BY Zenon, <1>1, <2>1 DEF XhciBooks, EventsTrue, EventTrue
    <3> QED BY Zenon, <2>1, <3>1 DEF EventTrue
  <2>2. CASE \E j \in 1 .. Len(es) : eventRing'[i] = es[j]
    <3>1. Answers(eventRing[i])'
      BY Zenon, <2>2
    <3> QED BY Zenon, <1>1, <3>1 DEF Answers, EventTrue
  <2> QED BY Zenon, <1>2, <2>1, <2>2
<1> QED BY Zenon, <1>3, <1>4, <1>5 DEF XhciBooks, EventsTrue

\* The kind of the order tells the step, and of a command the stage.
LEMMA OrderKinds ==
  ASSUME XhciBooks, busy # NoOrder
  PROVE  /\ busy.kind = OrderKind /\ busy.slot = slotId /\ busy.id = serial
         /\ OrderKind \in {"in", "nodata"} <=> step = "transfer"
         /\ OrderKind \in {"stop", "dequeue"} <=> step \in {"stopping", "dequeuing"}
         /\ OrderKind \in {"noop", "enable", "address", "configure", "disable"} <=> step = "command"
         /\ OrderKind = "enable" => stage \in {"enable", "reenable"}
         /\ OrderKind = "address" => stage \in {"address", "readdress"}
         /\ OrderKind = "configure" => stage \in {"configure", "reconfigure"}
         /\ OrderKind = "disable" => stage = "disable"
         /\ OrderKind = "noop" => stage = "noop"
<1>1. Waits /\ busy = TheOrder
  BY Zenon DEF XhciBooks, Orders, Outstanding
<1>2. busy.kind = OrderKind /\ busy.slot = slotId /\ busy.id = serial
  BY Zenon, <1>1 DEF TheOrder
<1>3. CASE step = "command"
  <2>1. stage \in Commands /\ OrderKind = CommandOf[stage]
    BY Zenon, <1>3 DEF XhciBooks, Steps, OrderKind
  <2> QED BY Zenon, <1>2, <1>3, <2>1, StageTables DEF Commands
<1>4. CASE step \in {"stopping", "dequeuing", "transfer"}
  <2>1. OrderKind \in {"stop", "dequeue", "in", "nodata"}
       /\ (OrderKind \in {"in", "nodata"} <=> step = "transfer")
    BY Zenon, <1>4 DEF OrderKind
  <2> QED BY Zenon, <1>2, <1>4, <2>1
<1> QED BY Zenon, <1>1, <1>3, <1>4 DEF Waits

LEMMA NeedsTable ==
  /\ DOMAIN Needs = {"address", "configure", "disable", "stop", "dequeue"}
  /\ DOMAIN Leaves = {"address", "configure", "disable"}
  /\ Leaves["address"] = "addressed" /\ Leaves["configure"] = "configured" /\ Leaves["disable"] = "off"
  BY Zenon DEF Needs, Leaves

LEMMA EventIs ==
  ASSUME NEW t \in {"command", "transfer", "port"}, NEW ok \in BOOLEAN, NEW k \in Nat, NEW n \in Nat
  PROVE  /\ Event(t, ok, k, n) \in EventType /\ Event(t, ok, k, n).type = t
         /\ Event(t, ok, k, n).ok = ok /\ Event(t, ok, k, n).slot = k /\ Event(t, ok, k, n).id = n
  BY Zenon DEF Event, EventType

LEMMA ExecuteStep == ASSUME XhciBooks, Execute PROVE XhciBooks'
<1>1. busy' = NoOrder /\ UNCHANGED <<stage, step, slotId, trb, dcbaa, serial, mixed>>
  BY Zenon DEF Execute
<1>2. busy # NoOrder
  <2>1. NoOrder.kind = "none"
    BY Zenon DEF NoOrder
  <2> QED BY Zenon, <2>1, NeedsTable DEF Execute, SlotCommand, NoOp, EnableSlot, Transfer
<1>3. slotId \in Nat /\ serial \in Nat /\ hcSlots \in [DeviceSlots -> {"off", "enabled", "addressed", "configured"}]
  BY Zenon DEF XhciBooks, XhciTypeOK
<1>4. ASSUME NEW e \in EventType, eventRing' = eventRing \o <<e>>, Answers(e)',
             hcSlots' \in [DeviceSlots -> {"off", "enabled", "addressed", "configured"}],
             step # "command" => hcSlots' = hcSlots
      PROVE  XhciBooks'
  <2>1. PICK es : es = <<e>>
    BY Zenon
  <2>2. es \in Seq(EventType) /\ \A j \in 1 .. Len(es) : es[j] = e
    BY <2>1
  <2> QED BY Zenon, <1>1, <1>2, <1>4, <2>1, <2>2, Executed
<1>5. CASE SlotCommand
  <2>1. PICK ok \in BOOLEAN :
          /\ eventRing' = eventRing \o <<Event("command", ok, busy.slot, busy.id)>>
          /\ hcSlots' = IF ok /\ busy.kind \in DOMAIN Leaves
                        THEN [hcSlots EXCEPT ![busy.slot] = Leaves[busy.kind]] ELSE hcSlots
    BY Zenon, <1>5 DEF SlotCommand, Post
  <2>2. busy.kind = OrderKind /\ busy.slot = slotId /\ busy.id = serial
        /\ OrderKind \in {"address", "configure", "disable", "stop", "dequeue"}
    BY Zenon, <1>2, <1>5, OrderKinds, NeedsTable DEF SlotCommand
  <2>3. PICK e : e = Event("command", ok, slotId, serial)
    BY Zenon
  <2>4. e \in EventType /\ e.type = "command" /\ e.ok = ok /\ e.slot = slotId /\ e.id = serial
    BY <1>3, <2>3, EventIs
  <2>5. step # "transfer" /\ (step # "command" => hcSlots' = hcSlots)
    BY Zenon, <1>2, <2>1, <2>2, OrderKinds, NeedsTable
  <2>6. hcSlots' \in [DeviceSlots -> {"off", "enabled", "addressed", "configured"}]
    <3>1. busy.kind \in DOMAIN Leaves => Leaves[busy.kind] \in {"off", "addressed", "configured"}
      BY Zenon, NeedsTable
    <3> QED BY Zenon, <1>3, <2>1, <3>1
  <2>7. ASSUME ok, step = "command"
        PROVE  Stands(OnSuccess[stage], IF stage \in {"enable", "reenable"} THEN e.slot ELSE slotId)'
    <3>1. stage \in {"address", "readdress", "configure", "reconfigure", "disable"}
          /\ (stage \in {"address", "readdress"} <=> busy.kind = "address")
          /\ (stage \in {"configure", "reconfigure"} <=> busy.kind = "configure")
      BY Zenon, <1>2, <2>2, <2>7, OrderKinds
    <3>2. CASE stage = "disable"
      BY Zenon, <1>1, <3>2, NextStages DEF Stands, NeedsEnabled, NeedsAddressed, NeedsConfigured
    <3>3. CASE stage # "disable"
      <4>1. slotId \in DeviceSlots /\ slotId \in dcbaa
        BY Zenon, <1>2, <2>7, <3>1, <3>3 DEF XhciBooks, SlotKept, Stands, Outstanding, NeedsEnabled, NeedsAddressed
      <4>2. hcSlots'[slotId] = Leaves[busy.kind]
        BY <1>3, <2>1, <2>2, <2>7, <3>1, <3>3, <4>1, NeedsTable
      <4>3. CASE stage \in {"address", "readdress"}
        <5>1. hcSlots'[slotId] = "addressed" /\ OnSuccess[stage] \in {"getdevice", "reconfigure"}
          BY <3>1, <4>2, <4>3, NeedsTable, NextStages
        <5> QED BY Zenon, <1>1, <4>1, <4>3, <5>1 DEF Stands, NeedsEnabled, NeedsAddressed, NeedsConfigured
      <4>4. CASE stage \in {"configure", "reconfigure"}
        <5>1. hcSlots'[slotId] = "configured" /\ OnSuccess[stage] \in {"setconfig", "resetconfig"}
          BY <3>1, <4>2, <4>4, NeedsTable, NextStages
        <5> QED BY Zenon, <1>1, <4>1, <4>4, <5>1 DEF Stands, NeedsEnabled, NeedsAddressed, NeedsConfigured
      <4> QED BY Zenon, <3>1, <3>3, <4>3, <4>4
    <3> QED BY Zenon, <3>2, <3>3
  <2>8. Answers(e)'
    BY Zenon, <1>1, <2>4, <2>5, <2>7 DEF Answers
  <2> QED BY Zenon, <1>4, <2>1, <2>2, <2>3, <2>4, <2>5, <2>6, <2>8
<1>6. CASE NoOp
  <2>1. PICK e : e = Event("command", TRUE, 0, serial)
    BY Zenon
  <2>2. e \in EventType /\ e.type = "command" /\ e.id = serial
    BY Zenon, <1>3, <2>1 DEF Event, EventType
  <2>3. busy.id = serial /\ step = "command" /\ stage = "noop"
    BY Zenon, <1>2, <1>6, OrderKinds DEF NoOp
  <2>4. eventRing' = eventRing \o <<e>> /\ hcSlots' = hcSlots
    BY Zenon, <1>6, <2>1, <2>3 DEF NoOp, Post
  <2>5. Stands("enable", slotId)'
    BY Zenon DEF Stands, NeedsEnabled, NeedsAddressed, NeedsConfigured
  <2>6. Answers(e)'
    BY Zenon, <1>1, <2>2, <2>3, <2>5, NextStages DEF Answers
  <2> QED BY Zenon, <1>3, <1>4, <2>2, <2>4, <2>6
<1>7. CASE EnableSlot
  <2>1. busy.id = serial /\ step = "command" /\ stage \in {"enable", "reenable"}
    BY Zenon, <1>2, <1>7, OrderKinds DEF EnableSlot
  <2>2. PICK k \in Nat, ok \in BOOLEAN :
          /\ eventRing' = eventRing \o <<Event("command", ok, k, serial)>>
          /\ ok => k \in DeviceSlots /\ hcSlots' = [hcSlots EXCEPT ![k] = "enabled"]
          /\ ~ok => hcSlots' = hcSlots
    <3>1. DeviceSlots \subseteq Nat /\ 0 \in Nat
      BY XhciAssumption DEF DeviceSlots
    <3> QED BY Zenon, <1>7, <2>1, <3>1 DEF EnableSlot, Post
  <2>3. PICK e : e = Event("command", ok, k, serial)
    BY Zenon
  <2>4. e \in EventType /\ e.type = "command" /\ e.id = serial /\ e.ok = ok /\ e.slot = k
    BY <1>3, <2>3, EventIs
  <2>5. hcSlots' \in [DeviceSlots -> {"off", "enabled", "addressed", "configured"}]
    BY Zenon, <1>3, <2>2
  <2>6. ASSUME ok PROVE Stands(OnSuccess[stage], e.slot)'
    <3>1. hcSlots'[k] = "enabled" /\ k \in DeviceSlots /\ OnSuccess[stage] \in {"port", "readdress"}
      BY <1>3, <2>1, <2>2, <2>6, NextStages
    <3> QED BY Zenon, <1>1, <2>4, <3>1 DEF Stands, NeedsEnabled, NeedsAddressed, NeedsConfigured
  <2>7. Answers(e)'
    BY Zenon, <1>1, <2>1, <2>4, <2>6 DEF Answers
  <2> QED BY Zenon, <1>4, <2>1, <2>2, <2>3, <2>4, <2>5, <2>7
<1>8. CASE Transfer
  <2>1. busy.id = serial /\ busy.slot = slotId /\ step = "transfer" /\ hcSlots' = hcSlots
    BY Zenon, <1>2, <1>8, OrderKinds DEF Transfer
  <2>2. PICK f : f = [ok \in BOOLEAN |-> Event("transfer", ok, slotId, serial)]
    BY Zenon
  <2>3. \A ok \in BOOLEAN : f[ok] \in EventType /\ f[ok].type = "transfer" /\ f[ok].id = serial
    BY <1>3, <2>2, EventIs
  <2>4. \A ok \in BOOLEAN : Answers(f[ok])'
    BY Zenon, <1>1, <2>1, <2>3 DEF Answers
  <2>5. \/ \E ok \in BOOLEAN : eventRing' = eventRing \o <<f[ok]>>
        \/ eventRing' = eventRing \o (<<f[TRUE]>> \o <<f[TRUE]>>)
        \/ eventRing' = eventRing \o (<<f[TRUE]>> \o <<>>)
    BY Zenon, <1>8, <2>1, <2>2 DEF Transfer, Post
  <2>6. CASE \E ok \in BOOLEAN : eventRing' = eventRing \o <<f[ok]>>
    BY Zenon, <1>3, <1>4, <2>1, <2>3, <2>4, <2>6
  <2>7. ASSUME NEW es, es \in {<<f[TRUE]>> \o <<f[TRUE]>>, <<f[TRUE]>> \o <<>>}, eventRing' = eventRing \o es
        PROVE  XhciBooks'
    <3>1. PICK e : e = f[TRUE]
      BY Zenon
    <3>2. e \in EventType
      BY Zenon, <2>3, <3>1
    <3>3. es \in {<<e>> \o <<e>>, <<e>> \o <<>>}
      BY Zenon, <2>7, <3>1
    <3>4. es \in Seq(EventType) /\ \A j \in 1 .. Len(es) : es[j] = e
      <4>1. <<e>> \in Seq(EventType) /\ Len(<<e>>) = 1 /\ <<e>>[1] = e
        BY <3>2
      <4>2. CASE es = <<e>> \o <<e>>
        BY <3>2, <4>2
      <4>3. CASE es = <<e>> \o <<>>
        BY <3>2, <4>3
      <4> QED BY Zenon, <3>3, <4>2, <4>3
    <3>5. \A j \in 1 .. Len(es) : Answers(es[j])'
      BY Zenon, <2>4, <3>1, <3>4
    <3> QED BY Zenon, <1>1, <1>2, <1>3, <2>1, <2>7, <3>4, <3>5, Executed
  <2> QED BY Zenon, <2>5, <2>6, <2>7
<1> QED BY Zenon, <1>5, <1>6, <1>7, <1>8 DEF Execute

\* Through enumeration, unplugging and binding again, whatever the controller
\* answers and when, the driver takes no event for another's and calls the
\* device bound only when its slot is configured, unless it leaves an order
\* behind, for any number of slots.
THEOREM BoundTrueAlways == XhciSpec => []BoundTrue
<1>1. XhciInit => XhciInv
  <2> SUFFICES ASSUME XhciInit PROVE XhciBooks
    BY Zenon DEF XhciInv
  <2> USE DEF XhciInit
  <2>1. XhciTypeOK
    BY DEF XhciTypeOK
  <2>2. Steps /\ Orders /\ EventsTrue
    BY Zenon DEF Steps, Orders, Outstanding, Waits, EventsTrue
  <2>3. SlotKept
    BY Zenon DEF SlotKept, Stands, NeedsEnabled, NeedsAddressed, NeedsConfigured
  <2> QED BY Zenon, <2>1, <2>2, <2>3 DEF XhciBooks
<1>2. XhciInv /\ [XhciNext]_xhciVars => XhciInv'
  <2> SUFFICES ASSUME XhciInv, [XhciNext]_xhciVars, ~left' PROVE XhciBooks'
    BY Zenon DEF XhciInv
  <2>1. XhciBooks
    BY Zenon, LeftStays DEF XhciInv
  <2>2. CASE UNCHANGED xhciVars
    BY ZenonT(40), <2>1, <2>2 DEF xhciVars, XhciBooks, XhciTypeOK, Steps, Orders, SlotKept, EventsTrue, EventTrue, Stands,
       Outstanding, Waits, TheOrder, OrderKind
  <2> QED BY Zenon, <2>1, <2>2, TurnStep, OrderStep, FailStep, DoneStep, FetchStepXhci, ExecuteStep, PortStep
      DEF XhciNext, Driver, Controller
<1>3. XhciInv => BoundTrue
  <2> SUFFICES ASSUME XhciBooks PROVE BoundTrue
    BY Zenon DEF XhciInv, BoundTrue
  <2>1. ASSUME busy.kind = "address" PROVE busy.slot \in dcbaa
    <3>1. busy # NoOrder
      BY <2>1 DEF NoOrder
    <3> QED BY Zenon, <2>1, <3>1, OrderKinds DEF XhciBooks, SlotKept
  <2>2. ASSUME stage = "bound" PROVE hcSlots[slotId] = "configured" /\ slotId \in dcbaa
    BY Zenon, <2>2 DEF XhciBooks, SlotKept, Steps, Commands, Stands, NeedsConfigured
  <2> QED BY Zenon, <2>1, <2>2 DEF BoundTrue, XhciBooks
<1> QED BY <1>1, <1>2, <1>3, PTL DEF XhciSpec

=============================================================================
