------------------------- MODULE SocketConnections --------------------------
(***************************************************************************)
(* The connections of the Socket.IO server (internal/socket): the manager  *)
(* that tracks them and limits the devices of a user, the onConnection     *)
(* handler, the heartbeat sweep, the fan-out of notify events and the      *)
(* shutdown. Every connection runs on goroutines of its own.               *)
(*                                                                         *)
(* The library is external. Its Disconnect on an open socket runs the      *)
(* disconnect callback in the calling goroutine and does nothing on a      *)
(* closed one; a client may leave at any moment, also while onConnection   *)
(* has not registered the callback yet. A socket that was tracked connects *)
(* once.                                                                   *)
(***************************************************************************)
EXTENDS Integers, Sequences, FiniteSets, SequencesExt

CONSTANTS
    Sockets,
    Slot,       \* the metaid and the connection type a socket connects with
    Identity,   \* the metaid of a slot, or None
    Limit,      \* devices of a slot
    Timeout,    \* heartbeatTimeout
    Period,     \* of the sweep
    Events, Targets,   \* notify events and the TargetIds of each
    None,
    MaxTime,    \* bound: ticks
    MaxLeaves   \* bound: clients that leave, and the shutdown

ASSUME SocketAssumption ==
    /\ IsFiniteSet(Sockets) /\ None \notin Sockets
    /\ DOMAIN Slot = Sockets
    /\ \A s \in Sockets : Limit[Slot[s]] \in Nat \ {0}
    /\ {Timeout, Period, MaxTime} \subseteq Nat \ {0} /\ MaxLeaves \in Nat
    /\ DOMAIN Targets = Events
    /\ \A e \in Events : IsFiniteSet(ToSet(Targets[e]))

VARIABLES
    now,
    open,       \* sockets of the library that are connected
    stage,      \* progress of onConnection
    tracked,    \* ConnectionManager.connections
    born,       \* ConnectedAt, as the number of the Add
    lastPing,
    evicts,     \* toDisconnect of a running Add
    leaving,    \* sockets whose disconnect callback runs
    sweep,      \* stale connections the sweep has not disconnected yet
    nextSweep,
    phase,      \* of Shutdown
    leaves,     \* how many of those happened
    clearing,   \* connections DisconnectAll has not disconnected yet
    route,      \* identities and sockets an event has left: [stage, left, batch]
    got,        \* history: how often a socket was sent an event
    audience,   \* history: sockets an event was meant for when it was taken
    heard,      \* history: when the client last pinged
    late,       \* history: open ones that are silent for longer than Timeout,
                \* or were when the sweep in progress listed them
    leftEarly   \* history: sockets closed before their callback was registered

conns == <<open, stage, tracked, born, lastPing, evicts, leaving>>
sweeping == <<sweep, nextSweep>>
ending == <<phase, clearing, leaves>>
routing == <<route, got, audience>>
clients == <<heard, late, leftEarly>>
svars == <<now, conns, sweeping, ending, routing, clients>>

InitS ==
    /\ now = 0
    /\ open = {} /\ tracked = {} /\ leaving = {}
    /\ stage = [s \in Sockets |-> "none"]
    /\ born = [s \in Sockets |-> 0]
    /\ lastPing = [s \in Sockets |-> 0] /\ heard = [s \in Sockets |-> 0]
    /\ evicts = [s \in Sockets |-> None]
    /\ sweep = {} /\ nextSweep = Period
    /\ phase = "up" /\ clearing = {} /\ leaves = 0
    /\ route = [e \in Events |-> [stage |-> "queued", left |-> <<>>, batch |-> {}]]
    /\ got = [e \in Events |-> [s \in Sockets |-> 0]]
    /\ audience = [e \in Events |-> {}]
    /\ late = {} /\ leftEarly = {}

-----------------------------------------------------------------------------
(* The library and the clients.                                            *)

\* A closed socket runs its disconnect callback if it has one by now.
Close(closed) ==
    LET closing == closed \cap open
    IN  /\ open' = open \ closed
        /\ leaving' = leaving \cup {s \in closing : stage[s] = "ready"}
        /\ leftEarly' = leftEarly \cup {s \in closing : stage[s] # "ready"}

Connect(s) ==
    /\ stage[s] = "none" /\ phase # "closed"
    /\ stage' = [stage EXCEPT ![s] = "new"]
    /\ open' = open \cup {s}
    /\ UNCHANGED <<now, tracked, born, lastPing, evicts, leaving, sweeping, ending, routing,
                   clients>>

ClientLeaves(s) ==
    /\ s \in open /\ leaves < MaxLeaves
    /\ leaves' = leaves + 1
    /\ Close({s})
    /\ UNCHANGED <<now, stage, tracked, born, lastPing, evicts, sweeping, phase, clearing, routing,
                   heard, late>>

\* Mutant: the time of the ping is not stored.
PingTime_Dropped(s) == lastPing[s]

PingTime(s) == now

\* The ping handler: UpdatePing.
Ping(s) ==
    /\ s \in open /\ stage[s] = "ready"
    /\ lastPing' = [lastPing EXCEPT ![s] = PingTime(s)]
    /\ heard' = [heard EXCEPT ![s] = now]
    /\ late' = IF s \in sweep THEN late ELSE late \ {s}
    /\ UNCHANGED <<now, open, stage, tracked, born, evicts, leaving, sweeping, ending, routing,
                   leftEarly>>

\* Local work takes no time: a tick passes when no handler, sweep or fan-out runs.
Tick ==
    /\ now < MaxTime
    /\ \A s \in Sockets : stage[s] \notin {"new", "added", "evicting"}
    /\ leaving = {} /\ sweep = {}
    /\ \A e \in Events : route[e].stage # "routing"
    /\ phase = "up" => now < nextSweep
    /\ now' = now + 1
    /\ late' = (late \cap open) \cup {s \in open : now' - heard[s] > Timeout}
    /\ UNCHANGED <<conns, sweeping, ending, routing, heard, leftEarly>>

-----------------------------------------------------------------------------
(* onConnection and the manager.                                           *)

\* A socket without metaid is disconnected.
Reject(s) ==
    /\ stage[s] = "new" /\ Identity[Slot[s]] = None
    /\ stage' = [stage EXCEPT ![s] = "none"]
    /\ open' = open \ {s}
    /\ UNCHANGED <<now, tracked, born, lastPing, evicts, leaving, sweeping, ending, routing,
                   clients>>

SameSlot(s) == {x \in tracked : Slot[x] = Slot[s]}

\* Mutant: the youngest goes.
Oldest_Youngest(among) == CHOOSE x \in among : \A y \in among : born[x] >= born[y]

Oldest(among) == CHOOSE x \in among : \A y \in among : born[x] <= born[y]

\* Mutant: one device too many.
Evicted_OffByOne(s) ==
    IF Cardinality(SameSlot(s)) > Limit[Slot[s]] THEN Oldest(SameSlot(s)) ELSE None

Evicted(s) ==
    IF Cardinality(SameSlot(s)) >= Limit[Slot[s]] THEN Oldest(SameSlot(s)) ELSE None

Victim(s) == Evicted(s)

\* Add, up to Unlock.
Add(s) ==
    /\ stage[s] = "new" /\ Identity[Slot[s]] # None
    /\ tracked' = (tracked \ {Evicted(s)}) \cup {s}
    /\ born' = [born EXCEPT ![s] = 1 + Cardinality({x \in Sockets : born[x] > 0})]
    /\ lastPing' = [lastPing EXCEPT ![s] = now]
    /\ heard' = [heard EXCEPT ![s] = now]
    /\ evicts' = [evicts EXCEPT ![s] = Victim(s)]
    /\ stage' = [stage EXCEPT ![s] = "added"]
    /\ UNCHANGED <<now, open, leaving, sweeping, ending, routing, late, leftEarly>>

\* ... the Disconnect of the evicted one ...
Evict(s) ==
    /\ stage[s] = "added" /\ evicts[s] # None
    /\ stage' = [stage EXCEPT ![s] = "evicting"]
    /\ Close({evicts[s]})
    /\ UNCHANGED <<now, tracked, born, lastPing, evicts, sweeping, ending, routing, heard, late>>

\* ... and, when its callback has returned, the registration of the handlers.
RegisterHandlers(s) ==
    /\ \/ stage[s] = "added" /\ evicts[s] = None
       \/ stage[s] = "evicting" /\ evicts[s] \notin leaving
    /\ stage' = [stage EXCEPT ![s] = "ready"]
    /\ evicts' = [evicts EXCEPT ![s] = None]
    /\ UNCHANGED <<now, open, tracked, born, lastPing, leaving, sweeping, ending, routing, clients>>

\* Mutant: the youngest connection of the slot is removed instead.
Removed_Youngest(s) == IF SameSlot(s) = {} THEN s ELSE Oldest_Youngest(SameSlot(s))

Removed(s) == s

\* The disconnect callback: Remove.
Disconnected(s) ==
    /\ s \in leaving
    /\ tracked' = tracked \ {Removed(s)}
    /\ leaving' = leaving \ {s}
    /\ UNCHANGED <<now, open, stage, born, lastPing, evicts, sweeping, ending, routing, clients>>

-----------------------------------------------------------------------------
(* The sweep, Shutdown and the fan-out.                                    *)

\* Mutant: a connection is given another period.
Stale_Late(s) == now - lastPing[s] > Timeout + Period

Stale(s) == now - lastPing[s] > Timeout

StartSweep ==
    /\ phase = "up" /\ now >= nextSweep /\ sweep = {}
    /\ sweep' = {s \in tracked : Stale(s)}
    /\ nextSweep' = now + Period
    /\ UNCHANGED <<now, conns, ending, routing, clients>>

SweepOne(s) ==
    /\ s \in sweep
    /\ sweep' = sweep \ {s}
    /\ Close({s})
    /\ UNCHANGED <<now, stage, tracked, born, lastPing, evicts, nextSweep, ending, routing,
                   heard, late>>

\* DisconnectAll empties the map ...
Shutdown ==
    /\ phase = "up" /\ leaves < MaxLeaves
    /\ leaves' = leaves + 1
    /\ phase' = "clearing"
    /\ clearing' = tracked
    /\ tracked' = {}
    /\ UNCHANGED <<now, open, stage, born, lastPing, evicts, leaving, sweeping, routing, clients>>

\* ... and disconnects what was in it.
DisconnectOne(s) ==
    /\ s \in clearing
    /\ clearing' = clearing \ {s}
    /\ Close({s})
    /\ UNCHANGED <<now, stage, tracked, born, lastPing, evicts, sweeping, phase, leaves, routing,
                   heard, late>>

CloseServer ==
    /\ phase = "clearing" /\ clearing = {}
    /\ phase' = "closed"
    /\ Close(open)
    /\ UNCHANGED <<now, stage, tracked, born, lastPing, evicts, sweeping, clearing, leaves, routing,
                   heard, late>>

SocketsOf(id) == {s \in tracked : Identity[Slot[s]] = id}

\* notifyEventTargetIds: each identity once. Names that differ in case are one.
TargetIds(e) == SetToSeq(ToSet(Targets[e]))

\* routeNotifyEvent, on the goroutine of the aggregator's channel.
TakeEvent(e) ==
    /\ route[e].stage = "queued"
    /\ route' = [route EXCEPT ![e] = [stage |-> "routing", left |-> TargetIds(e), batch |-> {}]]
    /\ audience' = [audience EXCEPT ![e] =
          {s \in tracked \cap open : Identity[Slot[s]] \in ToSet(Targets[e])}]
    /\ UNCHANGED <<now, conns, sweeping, ending, got, clients>>

\* Mutant: one device of the user gets the message.
Recipients_One(id) == {s \in SocketsOf(id) : \A x \in SocketsOf(id) : born[s] >= born[x]}

Recipients(id) == SocketsOf(id)

\* SendToUser: a copy of the connections of the next identity ...
LookUp(e) ==
    /\ route[e].left # <<>> /\ route[e].batch = {}
    /\ route' = [route EXCEPT ![e].batch = Recipients(Head(route[e].left)),
                              ![e].left = Tail(@)]
    /\ UNCHANGED <<now, conns, sweeping, ending, got, audience, clients>>

\* ... to which the message is emitted one by one.
Emit(e, s) ==
    /\ s \in route[e].batch
    /\ route' = [route EXCEPT ![e].batch = @ \ {s}]
    /\ got' = [got EXCEPT ![e][s] = IF s \in open THEN @ + 1 ELSE @]
    /\ UNCHANGED <<now, conns, sweeping, ending, audience, clients>>

Sent(e) == route[e].stage = "routing" /\ route[e].left = <<>> /\ route[e].batch = {}

FinishEvent(e) ==
    /\ Sent(e)
    /\ route' = [route EXCEPT ![e].stage = "done"]
    /\ got' = [got EXCEPT ![e] = [s \in Sockets |-> 0]]
    /\ audience' = [audience EXCEPT ![e] = {}]
    /\ UNCHANGED <<now, conns, sweeping, ending, clients>>

-----------------------------------------------------------------------------
Handler(s) == Add(s) \/ Evict(s) \/ RegisterHandlers(s) \/ Reject(s)

NextS ==
    \/ \E s \in Sockets :
          \/ Connect(s) \/ ClientLeaves(s) \/ Ping(s)
          \/ Handler(s) \/ Disconnected(s)
          \/ SweepOne(s) \/ DisconnectOne(s)
    \/ Tick \/ StartSweep \/ Shutdown \/ CloseServer
    \/ \E e \in Events :
          TakeEvent(e) \/ LookUp(e) \/ FinishEvent(e) \/ \E s \in Sockets : Emit(e, s)

SpecS == InitS /\ [][NextS]_svars

-----------------------------------------------------------------------------
(* Properties.                                                             *)

\* No more devices of one type than the limit, however connections race.
WithinDeviceLimit == \A s \in Sockets : Cardinality(SameSlot(s)) <= Limit[Slot[s]]

\* The limit makes the oldest device give way: a connection that another one
\* replaced is older than all that stay.
OldestGivesWay ==
    [][\A s \in Sockets : Add(s) =>
          \A x \in tracked \ tracked', y \in tracked' :
              Slot[y] = Slot[x] => born[x] < born'[y]]_svars

Doomed == {evicts[s] : s \in Sockets} \cup clearing \cup sweep

\* An open connection that completed its handshake is tracked, so it counts and
\* gets messages, unless somebody is about to disconnect it. A closed one leaves
\* the presence map when its callback has run; one closed before its callback was
\* registered stays until it is evicted.
TrackedAreOpen ==
    /\ \A s \in open : stage[s] \in {"added", "evicting", "ready"} => s \in tracked \cup Doomed
    /\ tracked \subseteq open \cup leaving \cup leftEarly

\* The sweep disconnects no client whose heartbeat was kept up when the sweep
\* listed its connections, although it disconnects from that list later. One that
\* was late before and has pinged since counts as kept up.
OnlySilentAreTimedOut ==
    [][\A s \in Sockets : SweepOne(s) /\ s \in open => s \in late]_svars

\* A silent client is disconnected one sweep after its timeout at the latest.
SilentIsDisconnected ==
    \A s \in open \cap tracked : phase = "up" => now <= heard[s] + Timeout + Period

\* docs/SIMPLEMSG_DELIVERY_CONTRACT.md: a message goes to every device of every
\* alias, once each, although connections come and go while it is sent.
EveryDeviceOnce ==
    \A e \in Events : Sent(e) => \A s \in audience[e] \cap open \cap tracked : got[e][s] = 1

=============================================================================
