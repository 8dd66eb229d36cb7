------------------------------- MODULE DeviceBus -------------------------------
(***************************************************************************)
(* runtime/agent_runtime.cpp and runtime/route_table.h: the devices, the    *)
(* routes between their ports and the shared mutex over both.  A frame is   *)
(* dispatched by calling the devices at the other end of its routes with    *)
(* the lock held for reading; these emit frames of their own, so that a     *)
(* thread nests as many read locks as the frame has come hops.              *)
(*                                                                          *)
(* stack[t] is what thread t has still to do, calls it is in the middle of  *)
(* included.  ReadersPass tells whether the mutex lets a reader in while a  *)
(* writer waits, as glibc's does and others do not.                         *)
(***************************************************************************)
EXTENDS Sequences, Enumerations

CONSTANTS Threads, ReadersPass

ASSUME BusAssumption == ReadersPass \in BOOLEAN

VARIABLES registered,   \* devices_, as the set of its keys
          routes,       \* route_table_: for each source port its destinations
          readers,      \* how many read locks each thread holds
          writer,       \* the thread that holds the write lock, or "none"
          stack

busVars == <<registered, routes, readers, writer, stack>>

Op(op, arg) == [op |-> op, arg |-> arg]
At(t, op) == stack[t] # <<>> /\ Head(stack[t]).op = op
Arg(t) == Head(stack[t]).arg
GoesOn(t, ops) == stack' = [stack EXCEPT ![t] = ops \o Tail(@)]

-----------------------------------------------------------------------------
\* The route table

AddRoute(table, from, to) ==
  IF \E i \in DOMAIN table[from] : table[from][i].to = to THEN table
  ELSE [table EXCEPT ![from] = Append(@, [to |-> to, enabled |-> TRUE])]

SetEnabled(table, from, to, enabled) ==
  [table EXCEPT ![from] = [i \in DOMAIN @ |->
     IF @[i].to = to THEN [@[i] EXCEPT !.enabled = enabled] ELSE @[i]]]

\* The enabled routes, in their order.
Lookup(table, from) ==
  LET on == {i \in DOMAIN table[from] : table[from][i].enabled}
  IN [p \in 1 .. Cardinality(on) |-> table[from][Ascending(on)[p]]]

NoRoutes(table) == [from \in DOMAIN table |-> <<>>]

-----------------------------------------------------------------------------
\* The mutex

Writing == {"register", "add_route", "set_route", "empty"}
WriterWaits == \E t \in Threads : stack[t] # <<>> /\ Head(stack[t]).op \in Writing
CanRead == writer = "none" /\ (ReadersPass \/ ~WriterWaits)

Alone == writer = "none" /\ \A t \in Threads : readers[t] = 0

\* A read lock where a write lock is needed.
AmongReaders == writer = "none"

CanWrite == Alone

-----------------------------------------------------------------------------
\* The operations, each the next thing thread t has to do

Register(t) ==
  /\ At(t, "register") /\ CanWrite
  /\ registered' = registered \cup {Arg(t)} /\ GoesOn(t, <<>>)
  /\ UNCHANGED <<routes, readers, writer>>

AddRouteCall(t) ==
  /\ At(t, "add_route") /\ CanWrite
  /\ routes' = AddRoute(routes, Arg(t).from, Arg(t).to) /\ GoesOn(t, <<>>)
  /\ UNCHANGED <<registered, readers, writer>>

SetRouteEnabled(t) ==
  /\ At(t, "set_route") /\ CanWrite
  /\ routes' = SetEnabled(routes, Arg(t).from, Arg(t).to, Arg(t).enabled) /\ GoesOn(t, <<>>)
  /\ UNCHANGED <<registered, readers, writer>>

\* DispatchFrame keeps its lock until every destination has been called.
DispatchFrame(t) ==
  /\ At(t, "dispatch") /\ CanRead
  /\ LET found == Lookup(routes, Arg(t))
     IN IF found = <<>> THEN GoesOn(t, <<>>) /\ UNCHANGED readers
        ELSE /\ readers' = [readers EXCEPT ![t] = @ + 1]
             /\ GoesOn(t, [i \in DOMAIN found |-> Op("deliver", found[i].to)] \o <<Op("unlock", "-")>>)
  /\ UNCHANGED <<registered, routes, writer>>

\* A device that is no longer there is passed over; received is what the call
\* of OnInput makes the device do.
Deliver(t, received) ==
  /\ At(t, "deliver")
  /\ GoesOn(t, IF Arg(t).device \in registered THEN received ELSE <<>>)
  /\ UNCHANGED <<registered, routes, readers, writer>>

Unlock(t) ==
  /\ At(t, "unlock")
  /\ readers' = [readers EXCEPT ![t] = @ - 1] /\ GoesOn(t, <<>>)
  /\ UNCHANGED <<registered, routes, writer>>

\* StartAll holds a read lock while a device starts.
StartDevice(t, device) ==
  /\ At(t, "start") /\ Arg(t) = device /\ CanRead
  /\ GoesOn(t, <<>>)
  /\ UNCHANGED <<registered, routes, readers, writer>>

\* Shutdown empties the bus under the write lock, and gives it back before it
\* stops the devices.
GivenBack(t) == "none"

\* Holds it until the last device has stopped.
HeldOn(t) == t

LockWhileStopping(t) == GivenBack(t)

EmptyBus(t) ==
  /\ At(t, "empty") /\ CanWrite
  /\ registered' = {} /\ routes' = NoRoutes(routes)
  /\ writer' = LockWhileStopping(t) /\ GoesOn(t, <<>>)
  /\ UNCHANGED readers

BusStep(t) ==
  Register(t) \/ AddRouteCall(t) \/ SetRouteEnabled(t) \/ DispatchFrame(t) \/ Unlock(t) \/ EmptyBus(t)
=============================================================================
