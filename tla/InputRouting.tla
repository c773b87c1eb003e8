---------------------------- MODULE InputRouting ----------------------------
(***************************************************************************)
(* input_routing.rs: how a key reaches the window that has the focus.  The *)
(* set-up thread of every process with a window registers it, with         *)
(* interrupts enabled, so two registrations interleave at any point; keys  *)
(* arrive from system calls, with interrupts masked, and are delivered in  *)
(* one step.                                                               *)
(*                                                                         *)
(* Abstraction: an endpoint is the number of its kernel object, a          *)
(* capability its index in SENDER_TABLE, a surface the thread that owns    *)
(* it.  Pushing onto a vector is one step.                                 *)
(***************************************************************************)
EXTENDS Integers, Sequences, FiniteSets

CONSTANTS Owners, NoOwner, MaxDelivered

ASSUME OwnersAssumption == NoOwner \notin Owners

VARIABLES
  rpc,         \* where each set-up thread is in register_window_input
  statics,     \* which of SENDER_TABLE and REGISTRY are Some
  sendTable,   \* SENDER_TABLE: the endpoints of its capabilities
  routes,      \* REGISTRY: its entries
  sendCap,     \* the local send_cap of each thread
  receiveOn,   \* endpoint each thread was granted RECEIVE on, 0 if none
  endpoints,   \* endpoints created
  focused,     \* FOCUSED_SURFACE
  inbox,       \* endpoint -> the message waiting on it
  delivered,   \* keys delivered, bounded
  doubleInit   \* history: a static was initialised twice

routeVars == <<rpc, statics, sendTable, routes, sendCap, receiveOn, endpoints, focused,
               inbox, delivered, doubleInit>>

RouteInit ==
  /\ rpc = [t \in Owners |-> "start"]
  /\ statics = {} /\ sendTable = <<>> /\ routes = <<>>
  /\ sendCap = [t \in Owners |-> 0] /\ receiveOn = [t \in Owners |-> 0]
  /\ endpoints = 0 /\ focused = NoOwner
  /\ inbox = [e \in 1 .. Cardinality(Owners) |-> NoOwner] /\ delivered = 0
  /\ doubleInit = FALSE

Goes(t, from, to) == rpc[t] = from /\ rpc' = [rpc EXCEPT ![t] = to]

\* sender_table_mut: the static is found unset, and set afterwards.
CheckTable(t) ==
  /\ Goes(t, "start", IF "table" \notin statics THEN "newTable" ELSE "endpoint")
  /\ UNCHANGED <<statics, sendTable, routes, sendCap, receiveOn, endpoints, focused, inbox,
                 delivered, doubleInit>>

NewTable(t) ==
  /\ Goes(t, "newTable", "endpoint")
  /\ sendTable' = <<>> /\ statics' = statics \cup {"table"}
  /\ doubleInit' = (doubleInit \/ "table" \in statics)
  /\ UNCHANGED <<routes, sendCap, receiveOn, endpoints, focused, inbox, delivered>>

\* ipc::create_endpoint: a fresh object, its SEND capability last in the table.
CreateEndpoint(t) ==
  /\ Goes(t, "endpoint", "grant")
  /\ endpoints' = endpoints + 1
  /\ sendTable' = Append(sendTable, endpoints')
  /\ sendCap' = [sendCap EXCEPT ![t] = Len(sendTable')]
  /\ UNCHANGED <<statics, routes, receiveOn, focused, inbox, delivered, doubleInit>>

\* The object behind a capability of the table.
Resolved(t) == sendTable[sendCap[t]]

\* The endpoint is resolved again and RECEIVE on it granted to the thread; a
\* capability that is gone is a kernel panic.
GrantReceive(t) ==
  /\ Goes(t, "grant", IF sendCap[t] \in DOMAIN sendTable THEN "checkRoutes" ELSE "panic")
  /\ receiveOn' = IF sendCap[t] \in DOMAIN sendTable
                  THEN [receiveOn EXCEPT ![t] = Resolved(t)] ELSE receiveOn
  /\ UNCHANGED <<statics, sendTable, routes, sendCap, endpoints, focused, inbox, delivered, doubleInit>>

\* registry_mut, then the push of the new entry.
CheckRoutes(t) ==
  /\ Goes(t, "checkRoutes", IF "routes" \notin statics THEN "newRoutes" ELSE "push")
  /\ UNCHANGED <<statics, sendTable, routes, sendCap, receiveOn, endpoints, focused, inbox,
                 delivered, doubleInit>>

NewRoutes(t) ==
  /\ Goes(t, "newRoutes", "push")
  /\ routes' = <<>> /\ statics' = statics \cup {"routes"}
  /\ doubleInit' = (doubleInit \/ "routes" \in statics)
  /\ UNCHANGED <<sendTable, sendCap, receiveOn, endpoints, focused, inbox, delivered>>

PushRoute(t) ==
  /\ Goes(t, "push", "registered")
  /\ routes' = Append(routes, [surface |-> t, cap |-> sendCap[t]])
  /\ UNCHANGED <<statics, sendTable, sendCap, receiveOn, endpoints, focused, inbox,
                 delivered, doubleInit>>

\* set_focus, by a set-up thread or by a click.
SetFocus(t) ==
  /\ rpc[t] = "registered" /\ focused # t
  /\ focused' = t
  /\ UNCHANGED <<rpc, statics, sendTable, routes, sendCap, receiveOn, endpoints, inbox, delivered, doubleInit>>

\* A mutant: the first entry is taken whatever the focus.
RouteOf_First(s) == IF routes = <<>> THEN 0 ELSE 1

\* The entry of the focused surface, if there is one.
RouteOf(s) ==
  LET mine == {i \in DOMAIN routes : routes[i].surface = s}
  IN IF mine = {} THEN 0 ELSE CHOOSE i \in mine : \A j \in mine : i <= j

\* deliver_key_event: dropped without focus, without an entry for it, with a
\* capability that does not resolve, or when the mailbox is full.  The message
\* is marked with the surface it is meant for.
DeliverKey ==
  LET i == RouteOf(focused)
      e == sendTable[routes[i].cap]
  IN /\ delivered < MaxDelivered
     /\ focused # NoOwner
     /\ i # 0
     /\ routes[i].cap \in DOMAIN sendTable
     /\ inbox[e] = NoOwner
     /\ inbox' = [inbox EXCEPT ![e] = focused]
     /\ delivered' = delivered + 1
     /\ UNCHANGED <<rpc, statics, sendTable, routes, sendCap, receiveOn, endpoints, focused, doubleInit>>

\* The window receives the key.
ReceiveKey(t) ==
  /\ rpc[t] = "registered" /\ receiveOn[t] # 0
  /\ inbox[receiveOn[t]] # NoOwner
  /\ inbox' = [inbox EXCEPT ![receiveOn[t]] = NoOwner]
  /\ UNCHANGED <<rpc, statics, sendTable, routes, sendCap, receiveOn, endpoints, focused,
                 delivered, doubleInit>>

RouteNext ==
  \/ DeliverKey
  \/ \E t \in Owners : CheckTable(t) \/ NewTable(t) \/ CreateEndpoint(t) \/ GrantReceive(t)
       \/ CheckRoutes(t) \/ NewRoutes(t) \/ PushRoute(t) \/ SetFocus(t) \/ ReceiveKey(t)

RouteSpec == RouteInit /\ [][RouteNext]_routeVars

----------------------------------------------------------------------------
\* A key is only ever waiting where the window it was meant for, and no other,
\* receives: "provably NEVER to the other window" (input_routing.rs:12-14), and
\* no registration panics.  It holds while the two statics, which are tested
\* and then set with interrupts enabled (input_routing.rs:37-56), are not
\* initialised twice by two set-up threads at once.
KeysReachTheirWindow ==
  ~doubleInit =>
    /\ \A e \in DOMAIN inbox : inbox[e] # NoOwner =>
         {t \in Owners : receiveOn[t] = e} = {inbox[e]}
    /\ \A t \in Owners : rpc[t] # "panic"
=============================================================================
