---------------------- MODULE SocketConnectionsProofs ----------------------
(***************************************************************************)
(* Proofs about SocketConnections for every set of sockets, slots and      *)
(* identities, every limit, timeout and period.                            *)
(***************************************************************************)
EXTENDS SocketConnections, FiniteSetTheorems, WellFoundedInduction, TLAPS

\* The part of the state the proofs speak of has its type.
Typed ==
    /\ now \in Nat /\ nextSweep \in Nat
    /\ {open, tracked, leaving, sweep, clearing, late, leftEarly} \subseteq SUBSET Sockets
    /\ stage \in [Sockets -> {"none", "new", "added", "evicting", "ready"}]
    /\ born \in [Sockets -> Nat]
    /\ lastPing \in [Sockets -> Nat] /\ heard \in [Sockets -> Nat]
    /\ evicts \in [Sockets -> Sockets \cup {None}]
    /\ phase \in {"up", "clearing", "closed"}

\* What a connection was given before the manager tracked it: nothing.
Untouched ==
    \A s \in Sockets : stage[s] \in {"none", "new"} =>
        /\ s \notin tracked \cup sweep \cup clearing \cup leaving
        /\ evicts[s] = None /\ born[s] = 0
        /\ \A x \in Sockets : evicts[x] # s

\* A socket whose callback runs is closed, a running eviction has closed its
\* victim, one that entered onConnection is open or was closed early, and only
\* Shutdown clears the map.
Handshake ==
    /\ phase = "up" => clearing = {}
    /\ leaving \cap open = {}
    /\ \A s \in Sockets : stage[s] = "evicting" => evicts[s] \notin open
    /\ \A s \in Sockets : stage[s] = "ready" => evicts[s] = None
    /\ \A s \in Sockets : stage[s] = "new" => s \in open \cup leftEarly

\* Ages are distinct and count the connections that were ever tracked.
Born == {s \in Sockets : born[s] > 0}

Ages ==
    /\ tracked \subseteq Born
    /\ \A s \in Sockets : born[s] <= Cardinality(Born)
    /\ \A s, x \in Born : born[s] = born[x] => s = x

\* What the manager knows of a heartbeat is what the client sent.
Heartbeats ==
    /\ \A s \in tracked : lastPing[s] = heard[s]
    /\ \A s \in tracked \cap open : now - heard[s] > Timeout => s \in late
    /\ sweep \cap open \subseteq late

\* No clock tick passes a sweep that is due, and an open connection a sweep left alone
\* was not stale at that sweep.
Sweeps ==
    /\ phase = "up" => now <= nextSweep
    /\ nextSweep <= now + Period
    /\ sweep # {} => now = nextSweep - Period
    /\ \A s \in (tracked \cap open) \ sweep : nextSweep - Period <= heard[s] + Timeout

-----------------------------------------------------------------------------
(* Slots.                                                                  *)

\* The connections of one slot are finitely many.
LEMMA SlotFinite ==
    ASSUME NEW s, Typed
    PROVE  IsFiniteSet(SameSlot(s)) /\ Cardinality(SameSlot(s)) \in Nat
<1>1. SameSlot(s) \in SUBSET Sockets
  BY DEF SameSlot, Typed
<1> QED
  BY <1>1, SocketAssumption, FS_Subset, FS_CardinalityType

\* So are the connections that were ever tracked.
LEMMA BornFinite == IsFiniteSet(Born) /\ Cardinality(Born) \in Nat
<1>1. Born \in SUBSET Sockets
  BY DEF Born
<1>2. IsFiniteSet(Born)
  BY <1>1, SocketAssumption, FS_Subset
<1> QED
  BY <1>2, FS_CardinalityType

\* Of some connections one is the oldest.
LEMMA OldestExists ==
    ASSUME NEW among \in SUBSET Sockets, among # {}, born \in [Sockets -> Nat]
    PROVE  Oldest(among) \in among /\ \A y \in among : born[Oldest(among)] <= born[y]
<1> DEFINE ages == {born[x] : x \in among}
<1>1. ages \in SUBSET Nat /\ ages # {}
  OBVIOUS
<1> DEFINE younger == {ss \in Nat \X Nat : ss[1] < ss[2]}
<1>2. IsWellFoundedOn(younger, Nat)
  BY NatLessThanWellFounded DEF OpToRel
<1>3. PICK age \in ages : \A b \in ages : ~(<<b, age>> \in younger)
  <2> HIDE DEF ages, younger
  <2>1. ages \subseteq Nat /\ ages # {}
    BY <1>1
  <2> QED
    BY <2>1, <1>2, WFMin, Zenon
<1>4. PICK x \in among : born[x] = age
  OBVIOUS
<1>5. ASSUME NEW y \in among PROVE born[x] <= born[y]
  <2>1. born[y] \in ages
    OBVIOUS
  <2>2. ~(<<born[y], age>> \in younger)
    <3> HIDE DEF ages, younger
    <3> QED
      BY <2>1, <1>3
  <2> QED
    BY <2>2, <1>1, <1>4
<1> QED
  BY <1>5 DEF Oldest

\* A full slot gives up its oldest connection, another one none.
LEMMA EvictedIs ==
    ASSUME NEW s \in Sockets, Typed
    PROVE  \/ Evicted(s) = None /\ Cardinality(SameSlot(s)) < Limit[Slot[s]]
           \/ /\ Evicted(s) \in SameSlot(s)
              /\ \A y \in SameSlot(s) : born[Evicted(s)] <= born[y]
<1>1. Limit[Slot[s]] \in Nat \ {0} /\ Cardinality(SameSlot(s)) \in Nat
  BY SocketAssumption, SlotFinite
<1>2. SameSlot(s) \in SUBSET Sockets /\ born \in [Sockets -> Nat]
  BY DEF SameSlot, Typed
<1>3. CASE Cardinality(SameSlot(s)) >= Limit[Slot[s]]
  <2>1. SameSlot(s) # {}
    BY <1>1, <1>3, FS_EmptySet
  <2> QED
    BY <1>2, <1>3, <2>1, OldestExists DEF Evicted
<1>4. CASE Cardinality(SameSlot(s)) < Limit[Slot[s]]
  BY <1>1, <1>4 DEF Evicted
<1> QED
  BY <1>1, <1>3, <1>4

-----------------------------------------------------------------------------
(* The initial state.                                                      *)

SInv ==
    /\ Typed /\ Untouched /\ Handshake /\ Ages /\ Heartbeats /\ Sweeps
    /\ WithinDeviceLimit /\ TrackedAreOpen /\ SilentIsDisconnected

\* The induction starts.
LEMMA InitSInv == InitS => SInv
<1> SUFFICES ASSUME InitS PROVE SInv
  OBVIOUS
<1> USE SocketAssumption DEF InitS
<1>1. Typed
  BY DEF Typed
<1>2. Untouched /\ Handshake
  BY DEF Untouched, Handshake
<1>3. Born = {} /\ Cardinality(Born) = 0
  <2>1. Born = {}
    BY DEF Born
  <2> QED
    BY <2>1, FS_EmptySet
<1>4. Ages
  BY <1>3 DEF Ages
<1>5. Heartbeats /\ Sweeps
  BY DEF Heartbeats, Sweeps
<1>6. ASSUME NEW s \in Sockets PROVE Cardinality(SameSlot(s)) <= Limit[Slot[s]]
  <2>1. SameSlot(s) = {}
    BY DEF SameSlot
  <2> QED
    BY <2>1, FS_EmptySet
<1>7. TrackedAreOpen /\ SilentIsDisconnected
  BY DEF TrackedAreOpen, SilentIsDisconnected
<1> QED
  BY <1>1, <1>2, <1>4, <1>5, <1>6, <1>7 DEF SInv, WithinDeviceLimit

-----------------------------------------------------------------------------
(* Steps.                                                                  *)

\* The types are kept.
LEMMA TypedStep == Typed /\ [NextS]_svars => Typed'
<1> SUFFICES ASSUME Typed, [NextS]_svars PROVE Typed'
  OBVIOUS
<1> USE SocketAssumption DEF Typed, conns, sweeping, ending, routing, clients
<1>1. CASE UNCHANGED svars
  BY <1>1 DEF svars
<1>2. ASSUME NEW s \in Sockets, Connect(s) PROVE Typed'
  BY <1>2 DEF Connect
<1>3. ASSUME NEW s \in Sockets, ClientLeaves(s) PROVE Typed'
  BY <1>3 DEF ClientLeaves, Close
<1>4. ASSUME NEW s \in Sockets, Ping(s) PROVE Typed'
  BY <1>4 DEF Ping, PingTime
<1>5. ASSUME NEW s \in Sockets, Add(s) PROVE Typed'
  <2>1. Evicted(s) \in Sockets \cup {None}
    BY EvictedIs DEF SameSlot
  <2>2. 1 + Cardinality({x \in Sockets : born[x] > 0}) \in Nat
    BY BornFinite DEF Born
  <2> QED
    BY <1>5, <2>1, <2>2 DEF Add, Victim
<1>6. ASSUME NEW s \in Sockets, Evict(s) PROVE Typed'
  BY <1>6 DEF Evict, Close
<1>7. ASSUME NEW s \in Sockets, RegisterHandlers(s) PROVE Typed'
  BY <1>7 DEF RegisterHandlers
<1>8. ASSUME NEW s \in Sockets, Reject(s) PROVE Typed'
  BY <1>8 DEF Reject
<1>9. ASSUME NEW s \in Sockets, Disconnected(s) PROVE Typed'
  BY <1>9 DEF Disconnected
<1>10. ASSUME NEW s \in Sockets, SweepOne(s) PROVE Typed'
  BY <1>10 DEF SweepOne, Close
<1>11. ASSUME NEW s \in Sockets, DisconnectOne(s) PROVE Typed'
  BY <1>11 DEF DisconnectOne, Close
<1>12. CASE Tick
  BY <1>12 DEF Tick
<1>13. CASE StartSweep
  BY <1>13 DEF StartSweep
<1>14. CASE Shutdown
  BY <1>14 DEF Shutdown
<1>15. CASE CloseServer
  BY <1>15 DEF CloseServer, Close
<1>16. ASSUME UNCHANGED <<now, conns, sweeping, ending, clients>> PROVE Typed'
  BY <1>16
<1> QED
  BY <1>1, <1>2, <1>3, <1>4, <1>5, <1>6, <1>7, <1>8, <1>9, <1>10, <1>11, <1>12, <1>13, <1>14,
     <1>15, <1>16 DEF NextS, Handler, TakeEvent, LookUp, FinishEvent, Emit

\* A socket that was never tracked stays without a trace.
LEMMA UntouchedStep == Typed /\ Untouched /\ [NextS]_svars => Untouched'
<1> SUFFICES ASSUME Typed, Untouched, [NextS]_svars PROVE Untouched'
  OBVIOUS
<1> USE SocketAssumption DEF Typed, Untouched, conns, sweeping, ending, routing, clients
<1>1. CASE UNCHANGED svars
  BY <1>1 DEF svars
<1>2. ASSUME NEW s \in Sockets, Connect(s) PROVE Untouched'
  BY <1>2 DEF Connect
<1>3. ASSUME NEW s \in Sockets, ClientLeaves(s) PROVE Untouched'
  BY <1>3 DEF ClientLeaves, Close
<1>4. ASSUME NEW s \in Sockets, Ping(s) PROVE Untouched'
  BY <1>4 DEF Ping, PingTime
<1>5. ASSUME NEW s \in Sockets, Add(s) PROVE Untouched'
  <2>1. Evicted(s) \in tracked \cup {None}
    BY EvictedIs DEF SameSlot
  <2>2. ASSUME NEW x \in Sockets, stage'[x] \in {"none", "new"}
        PROVE  stage[x] \in {"none", "new"} /\ x # s /\ x # Evicted(s)
    BY <1>5, <2>1, <2>2 DEF Add
  <2>3. UNCHANGED <<sweep, clearing, leaving>>
    BY <1>5 DEF Add
  <2>4. /\ tracked' \subseteq tracked \cup {s}
        /\ \A x \in Sockets : x # s => born'[x] = born[x] /\ evicts'[x] = evicts[x]
        /\ evicts'[s] = Evicted(s)
    BY <1>5 DEF Add, Victim
  <2> QED
    BY <2>2, <2>3, <2>4
<1>6. ASSUME NEW s \in Sockets, Evict(s) PROVE Untouched'
  BY <1>6 DEF Evict, Close
<1>7. ASSUME NEW s \in Sockets, RegisterHandlers(s) PROVE Untouched'
  BY <1>7 DEF RegisterHandlers
<1>8. ASSUME NEW s \in Sockets, Reject(s) PROVE Untouched'
  BY <1>8 DEF Reject
<1>9. ASSUME NEW s \in Sockets, Disconnected(s) PROVE Untouched'
  BY <1>9 DEF Disconnected, Removed
<1>10. ASSUME NEW s \in Sockets, SweepOne(s) PROVE Untouched'
  BY <1>10 DEF SweepOne, Close
<1>11. ASSUME NEW s \in Sockets, DisconnectOne(s) PROVE Untouched'
  BY <1>11 DEF DisconnectOne, Close
<1>12. CASE Tick
  BY <1>12 DEF Tick
<1>13. CASE StartSweep
  BY <1>13 DEF StartSweep, Stale
<1>14. CASE Shutdown
  BY <1>14 DEF Shutdown
<1>15. CASE CloseServer
  BY <1>15 DEF CloseServer, Close
<1>16. ASSUME UNCHANGED <<now, conns, sweeping, ending, clients>> PROVE Untouched'
  BY <1>16
<1> QED
  BY <1>1, <1>2, <1>3, <1>4, <1>5, <1>6, <1>7, <1>8, <1>9, <1>10, <1>11, <1>12, <1>13,
     <1>14, <1>15, <1>16 DEF NextS, Handler, TakeEvent, LookUp, FinishEvent, Emit

\* The order of a handshake is kept.
LEMMA HandshakeStep == Typed /\ Untouched /\ Handshake /\ [NextS]_svars => Handshake'
<1> SUFFICES ASSUME Typed, Untouched, Handshake, [NextS]_svars PROVE Handshake'
  OBVIOUS
<1> USE SocketAssumption DEF Typed, Untouched, Handshake, conns, sweeping, ending, routing, clients
<1>1. CASE UNCHANGED svars
  BY <1>1 DEF svars
<1>2. ASSUME NEW s \in Sockets, Connect(s) PROVE Handshake'
  BY <1>2 DEF Connect
<1>3. ASSUME NEW s \in Sockets, ClientLeaves(s) PROVE Handshake'
  BY <1>3 DEF ClientLeaves, Close
<1>4. ASSUME NEW s \in Sockets, Ping(s) PROVE Handshake'
  BY <1>4 DEF Ping, PingTime
<1>5. ASSUME NEW s \in Sockets, Add(s) PROVE Handshake'
  BY <1>5, EvictedIs DEF Add, Victim, SameSlot
<1>6. ASSUME NEW s \in Sockets, Evict(s) PROVE Handshake'
  BY <1>6 DEF Evict, Close
<1>7. ASSUME NEW s \in Sockets, RegisterHandlers(s) PROVE Handshake'
  BY <1>7 DEF RegisterHandlers
<1>8. ASSUME NEW s \in Sockets, Reject(s) PROVE Handshake'
  BY <1>8 DEF Reject
<1>9. ASSUME NEW s \in Sockets, Disconnected(s) PROVE Handshake'
  BY <1>9 DEF Disconnected, Removed
<1>10. ASSUME NEW s \in Sockets, SweepOne(s) PROVE Handshake'
  BY <1>10 DEF SweepOne, Close
<1>11. ASSUME NEW s \in Sockets, DisconnectOne(s) PROVE Handshake'
  BY <1>11 DEF DisconnectOne, Close
<1>12. CASE Tick
  BY <1>12 DEF Tick
<1>13. CASE StartSweep
  BY <1>13 DEF StartSweep, Stale
<1>14. CASE Shutdown
  BY <1>14 DEF Shutdown
<1>15. CASE CloseServer
  BY <1>15 DEF CloseServer, Close
<1>16. ASSUME UNCHANGED <<now, conns, sweeping, ending, clients>> PROVE Handshake'
  BY <1>16
<1> QED
  BY <1>1, <1>2, <1>3, <1>4, <1>5, <1>6, <1>7, <1>8, <1>9, <1>10, <1>11, <1>12, <1>13,
     <1>14, <1>15, <1>16 DEF NextS, Handler, TakeEvent, LookUp, FinishEvent, Emit

\* Only Add gives a connection its age, and it is the youngest.
AgesGrow(s) ==
    /\ s \notin Born
    /\ born' = [born EXCEPT ![s] = 1 + Cardinality(Born)]
    /\ Born' = Born \cup {s}
    /\ Cardinality(Born') = 1 + Cardinality(Born)

\* What an addition to the registry does to the ages.
LEMMA AddAges == ASSUME NEW s \in Sockets, Typed, Untouched, Add(s) PROVE AgesGrow(s)
<1> USE DEF Typed
<1>1. s \notin Born
  BY DEF Untouched, Born, Add
<1>2. born' = [born EXCEPT ![s] = 1 + Cardinality(Born)]
  BY DEF Add, Born
<1>3. Born' = Born \cup {s}
  BY <1>2, BornFinite DEF Born
<1>4. Cardinality(Born \cup {s}) = Cardinality(Born) + 1
  BY <1>1, BornFinite, FS_AddElement
<1> QED
  BY <1>1, <1>2, <1>3, <1>4, BornFinite DEF AgesGrow

\* The ages stay distinct and bounded by the count.
LEMMA AgesStep == Typed /\ Untouched /\ Ages /\ [NextS]_svars => Ages'
<1> SUFFICES ASSUME Typed, Untouched, Ages, [NextS]_svars PROVE Ages'
  OBVIOUS
<1>1. ASSUME NEW s \in Sockets, Add(s) PROVE Ages'
  <2>1. AgesGrow(s)
    BY <1>1, AddAges
  <2>2. tracked' \subseteq tracked \cup {s} /\ Cardinality(Born) \in Nat
    BY <1>1, BornFinite DEF Add
  <2>3. tracked' \subseteq Born'
    BY <2>1, <2>2 DEF AgesGrow, Ages
  <2>4. \A x \in Sockets : born'[x] <= Cardinality(Born')
    BY <2>1, <2>2 DEF AgesGrow, Ages, Typed
  <2>5. \A x, y \in Born' : born'[x] = born'[y] => x = y
    BY <2>1, <2>2 DEF AgesGrow, Ages, Typed, Born
  <2> QED
    BY <2>3, <2>4, <2>5 DEF Ages
<1>2. ASSUME UNCHANGED born, tracked' \subseteq tracked PROVE Ages'
  BY <1>2 DEF Ages, Born
<1> QED
  BY <1>1, <1>2 DEF NextS, Handler, svars, conns, Connect, ClientLeaves, Ping, Evict, RegisterHandlers,
     Reject, Disconnected, SweepOne, DisconnectOne, Tick, StartSweep, Shutdown, CloseServer,
     TakeEvent, LookUp, FinishEvent, Emit

\* A set that loses a member and gains one does not grow.
LEMMA Exchange ==
    ASSUME NEW set, IsFiniteSet(set), NEW gone \in set, NEW come
    PROVE  LET new == (set \ {gone}) \cup {come}
           IN  Cardinality(new) \in Nat /\ Cardinality(new) <= Cardinality(set)
<1> DEFINE rest == set \ {gone}
<1>1. IsFiniteSet(rest) /\ Cardinality(rest) = Cardinality(set) - 1
  BY FS_RemoveElement
<1>2. Cardinality(rest) \in Nat /\ Cardinality(set) \in Nat
  BY <1>1, FS_CardinalityType
<1>3. /\ IsFiniteSet(rest \cup {come})
      /\ Cardinality(rest \cup {come}) <= Cardinality(rest) + 1
  <2> HIDE DEF rest
  <2>1. /\ IsFiniteSet(rest \cup {come})
        /\ Cardinality(rest \cup {come}) =
              IF come \in rest THEN Cardinality(rest) ELSE Cardinality(rest) + 1
    BY <1>1, FS_AddElement
  <2> QED
    BY <1>2, <2>1
<1>4. Cardinality(rest \cup {come}) \in Nat
  BY <1>3, FS_CardinalityType
<1> QED
  BY <1>1, <1>2, <1>3, <1>4

\* However many connections race, Add never leaves a slot above its limit.
LEMMA LimitStep == Typed /\ WithinDeviceLimit /\ [NextS]_svars => WithinDeviceLimit'
<1> SUFFICES ASSUME Typed, WithinDeviceLimit, [NextS]_svars, NEW x \in Sockets
             PROVE  Cardinality(SameSlot(x))' <= Limit[Slot[x]]
  BY DEF WithinDeviceLimit
<1>1. Limit[Slot[x]] \in Nat \ {0} /\ Cardinality(SameSlot(x)) <= Limit[Slot[x]]
  BY SocketAssumption DEF WithinDeviceLimit
<1>2. IsFiniteSet(SameSlot(x)) /\ Cardinality(SameSlot(x)) \in Nat
  BY SlotFinite
<1>3. ASSUME SameSlot(x)' \subseteq SameSlot(x) PROVE Cardinality(SameSlot(x))' <= Limit[Slot[x]]
  BY <1>1, <1>2, <1>3, FS_Subset, FS_CardinalityType
<1>4. ASSUME NEW s \in Sockets, Add(s) PROVE Cardinality(SameSlot(x))' <= Limit[Slot[x]]
  <2>1. CASE Slot[s] # Slot[x]
    BY <1>3, <1>4, <2>1 DEF Add, SameSlot
  <2>2. CASE Slot[s] = Slot[x]
    <3>1. SameSlot(s) = SameSlot(x) /\ Limit[Slot[s]] = Limit[Slot[x]]
      BY <2>2 DEF SameSlot
    <3>2. SameSlot(x)' = (SameSlot(x) \ {Evicted(s)}) \cup {s}
      BY <1>4, <2>2 DEF Add, SameSlot
    <3>3. CASE Evicted(s) \in SameSlot(x)
      BY <1>1, <1>2, <3>2, <3>3, Exchange
    <3>4. CASE Evicted(s) = None /\ Cardinality(SameSlot(x)) < Limit[Slot[x]]
      <4>1. SameSlot(x)' = SameSlot(x) \cup {s}
        BY <3>2, <3>4, SocketAssumption DEF SameSlot, Typed
      <4>2. Cardinality(SameSlot(x) \cup {s}) <= Cardinality(SameSlot(x)) + 1
        BY <1>2, FS_AddElement
      <4>3. Cardinality(SameSlot(x) \cup {s}) \in Nat
        BY <1>2, FS_AddElement, FS_CardinalityType
      <4> QED
        BY <1>1, <1>2, <3>4, <4>1, <4>2, <4>3
    <3> QED
      BY <3>1, <3>3, <3>4, EvictedIs
  <2> QED
    BY <2>1, <2>2
<1>5. ASSUME tracked' \subseteq tracked PROVE Cardinality(SameSlot(x))' <= Limit[Slot[x]]
  BY <1>3, <1>5 DEF SameSlot
<1> QED
  BY <1>4, <1>5 DEF NextS, Handler, svars, conns, Connect, ClientLeaves, Ping, Evict, RegisterHandlers,
     Reject, Disconnected, SweepOne, DisconnectOne, Tick, StartSweep, Shutdown, CloseServer,
     TakeEvent, LookUp, FinishEvent, Emit

\* TrackedAreOpen is kept.
LEMMA PresenceStep == Typed /\ Untouched /\ Handshake /\ TrackedAreOpen /\ [NextS]_svars => TrackedAreOpen'
<1> SUFFICES ASSUME Typed, Untouched, Handshake, TrackedAreOpen, [NextS]_svars PROVE TrackedAreOpen'
  OBVIOUS
<1> USE SocketAssumption DEF Typed, Untouched, Handshake, TrackedAreOpen, Doomed, conns, sweeping, ending, routing, clients
<1>1. CASE UNCHANGED svars
  BY <1>1 DEF svars
<1>2. ASSUME NEW s \in Sockets, Connect(s) PROVE TrackedAreOpen'
  BY <1>2 DEF Connect
<1>3. ASSUME NEW s \in Sockets, ClientLeaves(s) PROVE TrackedAreOpen'
  BY <1>3 DEF ClientLeaves, Close
<1>4. ASSUME NEW s \in Sockets, Ping(s) PROVE TrackedAreOpen'
  BY <1>4 DEF Ping, PingTime
<1>5. ASSUME NEW s \in Sockets, Add(s) PROVE TrackedAreOpen'
  BY <1>5, EvictedIs DEF Add, Victim, SameSlot
<1>6. ASSUME NEW s \in Sockets, Evict(s) PROVE TrackedAreOpen'
  BY <1>6 DEF Evict, Close
<1>7. ASSUME NEW s \in Sockets, RegisterHandlers(s) PROVE TrackedAreOpen'
  BY <1>7 DEF RegisterHandlers
<1>8. ASSUME NEW s \in Sockets, Reject(s) PROVE TrackedAreOpen'
  BY <1>8 DEF Reject
<1>9. ASSUME NEW s \in Sockets, Disconnected(s) PROVE TrackedAreOpen'
  BY <1>9 DEF Disconnected, Removed
<1>10. ASSUME NEW s \in Sockets, SweepOne(s) PROVE TrackedAreOpen'
  BY <1>10 DEF SweepOne, Close
<1>11. ASSUME NEW s \in Sockets, DisconnectOne(s) PROVE TrackedAreOpen'
  BY <1>11 DEF DisconnectOne, Close
<1>12. CASE Tick
  BY <1>12 DEF Tick
<1>13. CASE StartSweep
  BY <1>13 DEF StartSweep, Stale
<1>14. CASE Shutdown
  BY <1>14 DEF Shutdown
<1>15. CASE CloseServer
  BY <1>15 DEF CloseServer, Close
<1>16. ASSUME UNCHANGED <<now, conns, sweeping, ending, clients>> PROVE TrackedAreOpen'
  BY <1>16
<1> QED
  BY <1>1, <1>2, <1>3, <1>4, <1>5, <1>6, <1>7, <1>8, <1>9, <1>10, <1>11, <1>12, <1>13,
     <1>14, <1>15, <1>16 DEF NextS, Handler, TakeEvent, LookUp, FinishEvent, Emit

\* The manager goes on knowing each heartbeat of an open socket.
LEMMA HeartbeatStep == Typed /\ Untouched /\ Heartbeats /\ [NextS]_svars => Heartbeats'
<1> SUFFICES ASSUME Typed, Untouched, Heartbeats, [NextS]_svars PROVE Heartbeats'
  OBVIOUS
<1> USE SocketAssumption DEF Typed, Untouched, Heartbeats, conns, sweeping, ending, routing, clients
<1>1. CASE UNCHANGED svars
  BY <1>1 DEF svars
<1>2. ASSUME NEW s \in Sockets, Connect(s) PROVE Heartbeats'
  BY <1>2 DEF Connect
<1>3. ASSUME NEW s \in Sockets, ClientLeaves(s) PROVE Heartbeats'
  BY <1>3 DEF ClientLeaves, Close
<1>4. ASSUME NEW s \in Sockets, Ping(s) PROVE Heartbeats'
  BY <1>4 DEF Ping, PingTime
<1>5. ASSUME NEW s \in Sockets, Add(s) PROVE Heartbeats'
  BY <1>5 DEF Add, Victim, SameSlot
<1>6. ASSUME NEW s \in Sockets, Evict(s) PROVE Heartbeats'
  BY <1>6 DEF Evict, Close
<1>7. ASSUME NEW s \in Sockets, RegisterHandlers(s) PROVE Heartbeats'
  BY <1>7 DEF RegisterHandlers
<1>8. ASSUME NEW s \in Sockets, Reject(s) PROVE Heartbeats'
  BY <1>8 DEF Reject
<1>9. ASSUME NEW s \in Sockets, Disconnected(s) PROVE Heartbeats'
  BY <1>9 DEF Disconnected, Removed
<1>10. ASSUME NEW s \in Sockets, SweepOne(s) PROVE Heartbeats'
  BY <1>10 DEF SweepOne, Close
<1>11. ASSUME NEW s \in Sockets, DisconnectOne(s) PROVE Heartbeats'
  BY <1>11 DEF DisconnectOne, Close
<1>12. CASE Tick
  BY <1>12 DEF Tick
<1>13. CASE StartSweep
  BY <1>13 DEF StartSweep, Stale
<1>14. CASE Shutdown
  BY <1>14 DEF Shutdown
<1>15. CASE CloseServer
  BY <1>15 DEF CloseServer, Close
<1>16. ASSUME UNCHANGED <<now, conns, sweeping, ending, clients>> PROVE Heartbeats'
  BY <1>16
<1> QED
  BY <1>1, <1>2, <1>3, <1>4, <1>5, <1>6, <1>7, <1>8, <1>9, <1>10, <1>11, <1>12, <1>13,
     <1>14, <1>15, <1>16 DEF NextS, Handler, TakeEvent, LookUp, FinishEvent, Emit

\* No tick passes a sweep, and a sweep spares only those that are not stale.
LEMMA SweepsStep == Typed /\ Untouched /\ Heartbeats /\ Sweeps /\ [NextS]_svars => Sweeps'
<1> SUFFICES ASSUME Typed, Untouched, Heartbeats, Sweeps, [NextS]_svars PROVE Sweeps'
  OBVIOUS
<1> USE SocketAssumption DEF Typed, Untouched, Heartbeats, Sweeps, conns, sweeping, ending, routing, clients
<1>1. CASE UNCHANGED svars
  BY <1>1 DEF svars
<1>2. ASSUME NEW s \in Sockets, Connect(s) PROVE Sweeps'
  BY <1>2 DEF Connect
<1>3. ASSUME NEW s \in Sockets, ClientLeaves(s) PROVE Sweeps'
  BY <1>3 DEF ClientLeaves, Close
<1>4. ASSUME NEW s \in Sockets, Ping(s) PROVE Sweeps'
  BY <1>4 DEF Ping, PingTime
<1>5. ASSUME NEW s \in Sockets, Add(s) PROVE Sweeps'
  BY <1>5 DEF Add, Victim, SameSlot
<1>6. ASSUME NEW s \in Sockets, Evict(s) PROVE Sweeps'
  BY <1>6 DEF Evict, Close
<1>7. ASSUME NEW s \in Sockets, RegisterHandlers(s) PROVE Sweeps'
  BY <1>7 DEF RegisterHandlers
<1>8. ASSUME NEW s \in Sockets, Reject(s) PROVE Sweeps'
  BY <1>8 DEF Reject
<1>9. ASSUME NEW s \in Sockets, Disconnected(s) PROVE Sweeps'
  BY <1>9 DEF Disconnected, Removed
<1>10. ASSUME NEW s \in Sockets, SweepOne(s) PROVE Sweeps'
  BY <1>10 DEF SweepOne, Close
<1>11. ASSUME NEW s \in Sockets, DisconnectOne(s) PROVE Sweeps'
  BY <1>11 DEF DisconnectOne, Close
<1>12. CASE Tick
  BY <1>12 DEF Tick
<1>13. CASE StartSweep
  BY <1>13 DEF StartSweep, Stale
<1>14. CASE Shutdown
  BY <1>14 DEF Shutdown
<1>15. CASE CloseServer
  BY <1>15 DEF CloseServer, Close
<1>16. ASSUME UNCHANGED <<now, conns, sweeping, ending, clients>> PROVE Sweeps'
  BY <1>16
<1> QED
  BY <1>1, <1>2, <1>3, <1>4, <1>5, <1>6, <1>7, <1>8, <1>9, <1>10, <1>11, <1>12, <1>13,
     <1>14, <1>15, <1>16 DEF NextS, Handler, TakeEvent, LookUp, FinishEvent, Emit

\* SilentIsDisconnected is kept.
LEMMA SilentStep == Typed /\ Untouched /\ Heartbeats /\ Sweeps /\ SilentIsDisconnected /\ [NextS]_svars => SilentIsDisconnected'
<1> SUFFICES ASSUME Typed, Untouched, Heartbeats, Sweeps, SilentIsDisconnected, [NextS]_svars PROVE SilentIsDisconnected'
  OBVIOUS
<1> USE SocketAssumption DEF Typed, Untouched, Heartbeats, Sweeps, SilentIsDisconnected, conns, sweeping, ending, routing, clients
<1>1. CASE UNCHANGED svars
  BY <1>1 DEF svars
<1>2. ASSUME NEW s \in Sockets, Connect(s) PROVE SilentIsDisconnected'
  BY <1>2 DEF Connect
<1>3. ASSUME NEW s \in Sockets, ClientLeaves(s) PROVE SilentIsDisconnected'
  BY <1>3 DEF ClientLeaves, Close
<1>4. ASSUME NEW s \in Sockets, Ping(s) PROVE SilentIsDisconnected'
  BY <1>4 DEF Ping, PingTime
<1>5. ASSUME NEW s \in Sockets, Add(s) PROVE SilentIsDisconnected'
  BY <1>5 DEF Add, Victim, SameSlot
<1>6. ASSUME NEW s \in Sockets, Evict(s) PROVE SilentIsDisconnected'
  BY <1>6 DEF Evict, Close
<1>7. ASSUME NEW s \in Sockets, RegisterHandlers(s) PROVE SilentIsDisconnected'
  BY <1>7 DEF RegisterHandlers
<1>8. ASSUME NEW s \in Sockets, Reject(s) PROVE SilentIsDisconnected'
  BY <1>8 DEF Reject
<1>9. ASSUME NEW s \in Sockets, Disconnected(s) PROVE SilentIsDisconnected'
  BY <1>9 DEF Disconnected, Removed
<1>10. ASSUME NEW s \in Sockets, SweepOne(s) PROVE SilentIsDisconnected'
  BY <1>10 DEF SweepOne, Close
<1>11. ASSUME NEW s \in Sockets, DisconnectOne(s) PROVE SilentIsDisconnected'
  BY <1>11 DEF DisconnectOne, Close
<1>12. CASE Tick
  BY <1>12 DEF Tick
<1>13. CASE StartSweep
  BY <1>13 DEF StartSweep, Stale
<1>14. CASE Shutdown
  BY <1>14 DEF Shutdown
<1>15. CASE CloseServer
  BY <1>15 DEF CloseServer, Close
<1>16. ASSUME UNCHANGED <<now, conns, sweeping, ending, clients>> PROVE SilentIsDisconnected'
  BY <1>16
<1> QED
  BY <1>1, <1>2, <1>3, <1>4, <1>5, <1>6, <1>7, <1>8, <1>9, <1>10, <1>11, <1>12, <1>13,
     <1>14, <1>15, <1>16 DEF NextS, Handler, TakeEvent, LookUp, FinishEvent, Emit

-----------------------------------------------------------------------------
\* The inductive step, from the lemmas on its parts.
THEOREM StepSInv == SInv /\ [NextS]_svars => SInv'
BY TypedStep, UntouchedStep, HandshakeStep, AgesStep, HeartbeatStep, SweepsStep, LimitStep,
   PresenceStep, SilentStep DEF SInv

\* The inductive invariant holds for every set of sockets, slots and limits.
THEOREM SocketInvariant == SpecS => []SInv
BY InitSInv, StepSInv, PTL DEF SpecS

\* ConnectionManager.Add keeps every user within the devices of each type,
\* however many of the user's connections race.
THEOREM DevicesAreLimited == SpecS => []WithinDeviceLimit
<1>1. SInv => WithinDeviceLimit
  BY DEF SInv
<1> QED
  BY <1>1, SocketInvariant, PTL

\* The connections of the manager and those of the library agree, but for the
\* ones about to be disconnected and those closed before their callback existed.
THEOREM PresenceIsAccurate == SpecS => []TrackedAreOpen
<1>1. SInv => TrackedAreOpen
  BY DEF SInv
<1> QED
  BY <1>1, SocketInvariant, PTL

\* A client that stops its heartbeat is disconnected within its timeout and one
\* period of the sweep.
THEOREM SilenceIsNoticed == SpecS => []SilentIsDisconnected
<1>1. SInv => SilentIsDisconnected
  BY DEF SInv
<1> QED
  BY <1>1, SocketInvariant, PTL

\* The sweep only disconnects a client that was silent for too long.
THEOREM PunctualAreKept == SpecS => OnlySilentAreTimedOut
<1>1. SInv => \A s \in Sockets : SweepOne(s) /\ s \in open => s \in late
  BY DEF SInv, Heartbeats, SweepOne
<1>2. SInv /\ [NextS]_svars => [\A s \in Sockets : SweepOne(s) /\ s \in open => s \in late]_svars
  BY <1>1
<1> QED
  BY <1>2, SocketInvariant, PTL DEF SpecS, OnlySilentAreTimedOut

\* Of the devices of a slot Add gives up one that is older than all that stay.
THEOREM OldestIsEvicted == SpecS => OldestGivesWay
<1> DEFINE Older == \A s \in Sockets : Add(s) =>
              \A x \in tracked \ tracked', y \in tracked' : Slot[y] = Slot[x] => born[x] < born'[y]
<1>1. ASSUME SInv, NEW s \in Sockets, Add(s), NEW x \in tracked \ tracked', NEW y \in tracked',
             Slot[y] = Slot[x]
      PROVE  born[x] < born'[y]
  <2>1. Typed /\ Ages /\ AgesGrow(s)
    BY <1>1, AddAges DEF SInv
  <2>2. x = Evicted(s) /\ (y = s \/ (y \in tracked /\ y # x))
    BY <1>1 DEF Add
  <2>3. x \in Sockets /\ y \in Sockets /\ x \in Born /\ born[x] \in Nat
    BY <1>1, <2>1 DEF Typed, Ages, Add
  <2>4. CASE y = s
    BY <2>1, <2>3, <2>4, BornFinite DEF AgesGrow, Ages, Typed
  <2>5. CASE y \in tracked /\ y # x /\ y # s
    <3>1. x \in SameSlot(s) /\ \A z \in SameSlot(s) : born[x] <= born[z]
      BY <1>1, <2>1, <2>2, <2>3, EvictedIs, SocketAssumption
    <3>2. y \in SameSlot(s)
      BY <1>1, <2>5, <3>1 DEF SameSlot
    <3>3. born[x] # born[y] /\ born[y] \in Nat
      BY <2>1, <2>3, <2>5 DEF Ages, Typed
    <3>4. born'[y] = born[y]
      BY <2>1, <2>3, <2>5 DEF AgesGrow, Typed
    <3> QED
      BY <2>3, <3>1, <3>2, <3>3, <3>4
  <2> QED
    BY <2>2, <2>4, <2>5
<1>2. SInv /\ [NextS]_svars => [Older]_svars
  BY <1>1
<1> QED
  BY <1>2, SocketInvariant, PTL DEF SpecS, OldestGivesWay

(***************************************************************************)
(* An event reaches every device of every target once, while connections   *)
(* come and go, for every set of sockets, identities and events.           *)
(***************************************************************************)

Ids(e) == ToSet(Targets[e])

\* The identity of s is still to be looked up for e.
Pending(e, s) == \E i \in DOMAIN route[e].left : route[e].left[i] = Identity[Slot[s]]

\* The state of the routing has its type, identities are left once each, and
\* nothing is in hand before an event is taken and after it is done.
Routed(e) ==
    /\ e \in DOMAIN route /\ e \in DOMAIN got /\ e \in DOMAIN audience
    /\ route[e] \in [stage : {"queued", "routing", "done"}, left : Seq(Ids(e)),
                     batch : SUBSET Sockets]
    /\ IsInjective(route[e].left)
    /\ got[e] \in [Sockets -> Nat]
    /\ route[e].stage # "routing" => route[e].left = <<>> /\ route[e].batch = {}
    /\ route[e].stage = "queued" => \A s \in Sockets : got[e][s] = 0

\* Whoever is in the audience has been through Add.
Present(e) == \A s \in Sockets : s \in audience[e] => stage[s] \notin {"none", "new"}

\* Before the identity of s is looked up and while s is in the batch, it was
\* sent nothing; afterwards once, if it was there from the start and still is.
Served(e, s) ==
    /\ Pending(e, s) => s \notin route[e].batch
    /\ Pending(e, s) \/ s \in route[e].batch => got[e][s] = 0
    /\ ~Pending(e, s) /\ s \notin route[e].batch /\ s \in audience[e] \cap open \cap tracked
         => got[e][s] = 1

Fanned(e) ==
    /\ Routed(e) /\ Present(e)
    /\ route[e].stage = "routing" => \A s \in Sockets : Served(e, s)

FanInv == \A e \in Events : Fanned(e)

-----------------------------------------------------------------------------
(* Sequences of identities *)

\* The identities of an event are listed once each.
LEMMA TargetsListed ==
    ASSUME NEW e \in Events
    PROVE  /\ TargetIds(e) \in Seq(Ids(e)) /\ IsInjective(TargetIds(e))
           /\ \A id \in Ids(e) : \E i \in DOMAIN TargetIds(e) : TargetIds(e)[i] = id
<1> DEFINE S == Ids(e)
<1>1. IsFiniteSet(S)
  BY SocketAssumption DEF Ids
<1> HIDE DEF S
<1> DEFINE n == Cardinality(S)
<1>2. n \in Nat /\ ExistsBijection(1..n, S)
  BY <1>1, FS_CardinalityType
<1>3. PICK b \in Bijection(1..n, S) : TRUE
  BY <1>2 DEF ExistsBijection
<1>4. b \in [1..n -> S] /\ IsInjective(b)
  BY <1>3 DEF Bijection, Injection, IsInjective
<1> DEFINE f == SetToSeq(S)
<1>5. f \in [1..n -> S] /\ IsInjective(f)
  BY <1>4 DEF SetToSeq
<1>6. f \in Injection(1..n, S)
  BY <1>5 DEF Injection, IsInjective
<1>7. Cardinality(1..n) = n /\ IsFiniteSet(1..n)
  BY <1>2, FS_Interval
<1> HIDE DEF f, n
<1>8. f \in Surjection(1..n, S)
  <2>1. Cardinality(1..n) = Cardinality(S) <=> f \in Surjection(1..n, S)
    BY <1>1, <1>6, FS_Injection
  <2> QED
    BY <2>1, <1>7 DEF n
<1>9. \A id \in S : \E i \in 1..n : f[i] = id
  BY <1>8 DEF Surjection
<1>10. f \in Seq(S) /\ DOMAIN f = 1..n
  BY <1>2, <1>5
<1> QED
  BY <1>5, <1>9, <1>10 DEF TargetIds, Ids, S, f

\* The first identity is taken off: those left are the others.
LEMMA TakenOff ==
    ASSUME NEW S, NEW q \in Seq(S), q # <<>>, IsInjective(q)
    PROVE  /\ Tail(q) \in Seq(S) /\ IsInjective(Tail(q))
           /\ \A x : (\E i \in DOMAIN Tail(q) : Tail(q)[i] = x)
                       <=> x # Head(q) /\ \E i \in DOMAIN q : q[i] = x
<1>1. /\ Tail(q) \in Seq(S) /\ Len(Tail(q)) = Len(q) - 1 /\ Len(q) \in Nat /\ Len(q) > 0
      /\ \A i \in 1..Len(Tail(q)) : Tail(q)[i] = q[i + 1]
      /\ Head(q) = q[1] /\ DOMAIN q = 1..Len(q) /\ DOMAIN Tail(q) = 1..Len(Tail(q))
  OBVIOUS
<1>2. \A a, b \in 1..Len(q) : q[a] = q[b] => a = b
  BY <1>1 DEF IsInjective
<1>3. IsInjective(Tail(q))
  <2> SUFFICES ASSUME NEW a \in 1..Len(Tail(q)), NEW b \in 1..Len(Tail(q)), Tail(q)[a] = Tail(q)[b]
               PROVE  a = b
    BY <1>1 DEF IsInjective
  <2>1. a + 1 \in 1..Len(q) /\ b + 1 \in 1..Len(q) /\ q[a + 1] = q[b + 1]
    BY <1>1
  <2>2. a + 1 = b + 1
    BY <1>2, <2>1
  <2> QED
    BY <2>2
<1>4. ASSUME NEW x, NEW i \in DOMAIN Tail(q), Tail(q)[i] = x
      PROVE  x # Head(q) /\ \E j \in DOMAIN q : q[j] = x
  <2>1. i \in 1..Len(Tail(q)) /\ i + 1 \in 1..Len(q) /\ q[i + 1] = x /\ i + 1 # 1
    BY <1>1, <1>4
  <2>2. 1 \in 1..Len(q)
    BY <1>1
  <2>3. x # q[1]
    BY <1>2, <2>1, <2>2
  <2> QED
    BY <1>1, <2>1, <2>3
<1>5. ASSUME NEW x, x # Head(q), NEW j \in DOMAIN q, q[j] = x
      PROVE  \E i \in DOMAIN Tail(q) : Tail(q)[i] = x
  <2>1. j \in 1..Len(q) /\ j # 1
    BY <1>1, <1>5
  <2>2. j - 1 \in 1..Len(Tail(q)) /\ (j - 1) + 1 = j
    BY <1>1, <2>1
  <2>3. Tail(q)[j - 1] = q[j]
    BY <1>1, <2>2
  <2> QED
    BY <1>1, <1>5, <2>2, <2>3
<1> QED
  BY <1>1, <1>3, <1>4, <1>5

-----------------------------------------------------------------------------
(* Steps *)

\* No event is taken at first.
LEMMA InitFan == InitS => FanInv
<1> SUFFICES ASSUME InitS, NEW e \in Events PROVE Fanned(e)
  BY DEF FanInv
<1>1. Routed(e)
  BY DEF InitS, Routed, IsInjective
<1>2. Present(e)
  BY DEF InitS, Present
<1>3. route[e].stage = "queued"
  BY DEF InitS
<1> QED
  BY <1>1, <1>2, <1>3 DEF Fanned

\* A socket that was tracked is not opened or tracked again.
LEMMA NobodyReturns ==
    ASSUME Typed, [NextS]_svars, NEW s \in Sockets, stage[s] \notin {"none", "new"}
    PROVE  /\ stage'[s] \notin {"none", "new"}
           /\ s \in open' => s \in open
           /\ s \in tracked' => s \in tracked
<1> USE DEF Typed
<1>1. CASE UNCHANGED svars
  BY <1>1 DEF svars, conns
<1>2. CASE \E x \in Sockets : Connect(x) \/ ClientLeaves(x) \/ Ping(x)
  BY <1>2 DEF Connect, ClientLeaves, Ping, Close
<1>3. CASE \E x \in Sockets : Add(x)
  BY <1>3 DEF Add
<1>4. CASE \E x \in Sockets : Evict(x) \/ RegisterHandlers(x) \/ Reject(x)
  BY <1>4 DEF Evict, RegisterHandlers, Reject, Close
<1>5. CASE \E x \in Sockets : Disconnected(x) \/ SweepOne(x) \/ DisconnectOne(x)
  BY <1>5 DEF Disconnected, SweepOne, DisconnectOne, Close
<1>6. CASE Tick \/ StartSweep \/ Shutdown \/ CloseServer
  BY <1>6 DEF Tick, StartSweep, Shutdown, CloseServer, Close, conns
<1>7. CASE \E e \in Events : TakeEvent(e) \/ LookUp(e) \/ FinishEvent(e) \/ \E x \in Sockets : Emit(e, x)
  BY <1>7 DEF TakeEvent, LookUp, FinishEvent, Emit, conns
<1> QED
  BY <1>1, <1>2, <1>3, <1>4, <1>5, <1>6, <1>7 DEF NextS, Handler

\* An event whose routing stands still, while connections come and go.
LEMMA StillStep ==
    ASSUME Typed, [NextS]_svars, NEW e \in Events, Fanned(e),
           e \in DOMAIN route', e \in DOMAIN got', e \in DOMAIN audience',
           route'[e] = route[e], got'[e] = got[e], audience'[e] = audience[e]
    PROVE  Fanned(e)'
<1>1. Routed(e)'
  BY DEF Fanned, Routed
<1>2. Present(e)'
  BY NobodyReturns DEF Fanned, Present
<1>3. ASSUME route[e].stage = "routing", NEW s \in Sockets PROVE Served(e, s)'
  <2>1. Served(e, s) /\ Pending(e, s)' = Pending(e, s)
    BY <1>3 DEF Fanned, Pending
  <2>2. s \in audience[e] \cap open' \cap tracked' => s \in audience[e] \cap open \cap tracked
    BY NobodyReturns DEF Fanned, Present
  <2> QED
    BY <2>1, <2>2 DEF Served
<1> QED
  BY <1>1, <1>2, <1>3 DEF Fanned

\* An event is taken: all identities are left, and nothing was sent.
LEMMA TakeStep ==
    ASSUME SInv, NEW e \in Events, Fanned(e), TakeEvent(e)
    PROVE  Fanned(e)'
<1>1. /\ route'[e] = [stage |-> "routing", left |-> TargetIds(e), batch |-> {}]
      /\ e \in DOMAIN route' /\ e \in DOMAIN audience' /\ e \in DOMAIN got'
      /\ audience'[e] = {s \in tracked \cap open : Identity[Slot[s]] \in Ids(e)}
      /\ got' = got /\ stage' = stage
      /\ route[e].stage = "queued"
  BY DEF TakeEvent, Fanned, Routed, Ids, conns
<1>2. /\ TargetIds(e) \in Seq(Ids(e)) /\ IsInjective(TargetIds(e))
      /\ \A id \in Ids(e) : \E i \in DOMAIN TargetIds(e) : TargetIds(e)[i] = id
  BY TargetsListed
<1>3. got[e] \in [Sockets -> Nat] /\ \A s \in Sockets : got[e][s] = 0
  BY <1>1 DEF Fanned, Routed
<1>4. Routed(e)'
  BY <1>1, <1>2, <1>3 DEF Routed
<1>5. Present(e)'
  BY <1>1 DEF Present, SInv, Untouched
<1>6. ASSUME NEW s \in Sockets PROVE Served(e, s)'
  <2>1. s \in audience'[e] => Pending(e, s)'
    BY <1>1, <1>2 DEF Pending
  <2> QED
    BY <1>1, <1>3, <2>1 DEF Served
<1> QED
  BY <1>4, <1>5, <1>6 DEF Fanned

\* The next identity is looked up: its connections are the batch.
LEMMA LookUpStep ==
    ASSUME SInv, NEW e \in Events, Fanned(e), LookUp(e)
    PROVE  Fanned(e)'
<1> DEFINE q == route[e].left
<1>1. /\ q # <<>> /\ q \in Seq(Ids(e)) /\ IsInjective(q)
      /\ route[e].stage = "routing" /\ route[e].batch = {}
      /\ e \in DOMAIN route /\ e \in DOMAIN got /\ e \in DOMAIN audience
      /\ got[e] \in [Sockets -> Nat]
  BY DEF LookUp, Fanned, Routed
<1>2. /\ route'[e].stage = "routing" /\ route'[e].left = Tail(q)
      /\ route'[e].batch = {s \in tracked : Identity[Slot[s]] = Head(q)}
      /\ DOMAIN route' = DOMAIN route
      /\ route'[e] = [stage |-> "routing", left |-> Tail(q),
                      batch |-> {s \in tracked : Identity[Slot[s]] = Head(q)}]
      /\ got' = got /\ audience' = audience /\ UNCHANGED <<stage, open, tracked>>
  <2>1. route[e] \in [stage : {"queued", "routing", "done"}, left : Seq(Ids(e)),
                      batch : SUBSET Sockets]
    BY DEF Fanned, Routed
  <2>2. /\ route' = [route EXCEPT ![e].batch = Recipients(Head(route[e].left)),
                                  ![e].left = Tail(@)]
        /\ got' = got /\ audience' = audience /\ UNCHANGED <<stage, open, tracked>>
    BY DEF LookUp, conns
  <2> QED
    BY <1>1, <2>1, <2>2 DEF Recipients, SocketsOf
<1>3. /\ Tail(q) \in Seq(Ids(e)) /\ IsInjective(Tail(q))
      /\ \A x : (\E i \in DOMAIN Tail(q) : Tail(q)[i] = x)
                   <=> x # Head(q) /\ \E i \in DOMAIN q : q[i] = x
  <2> HIDE DEF q
  <2> QED
    BY <1>1, TakenOff
<1>4. tracked \subseteq Sockets
  BY DEF SInv, Typed
<1>5. Routed(e)'
  BY <1>1, <1>2, <1>3, <1>4 DEF Routed
<1>6. Present(e)'
  BY <1>2 DEF Fanned, Present
<1>7. ASSUME NEW s \in Sockets PROVE Served(e, s)'
  <2>1. Pending(e, s)' <=> Identity[Slot[s]] # Head(q) /\ Pending(e, s)
    <3>1. Pending(e, s)' <=> \E i \in DOMAIN Tail(q) : Tail(q)[i] = Identity[Slot[s]]
      BY <1>2 DEF Pending
    <3>2. Pending(e, s) <=> \E i \in DOMAIN q : q[i] = Identity[Slot[s]]
      BY DEF Pending
    <3> HIDE DEF q
    <3>3. (\E i \in DOMAIN Tail(q) : Tail(q)[i] = Identity[Slot[s]])
             <=> Identity[Slot[s]] # Head(q) /\ \E i \in DOMAIN q : q[i] = Identity[Slot[s]]
      BY <1>3
    <3> QED
      BY <3>1, <3>2, <3>3
  <2>2. Identity[Slot[s]] = Head(q) => Pending(e, s)
    BY <1>1 DEF Pending
  <2>3. Served(e, s)
    BY <1>1 DEF Fanned
  <2> QED
    BY <1>1, <1>2, <2>1, <2>2, <2>3 DEF Served
<1> QED
  BY <1>5, <1>6, <1>7 DEF Fanned

\* A connection of the batch is sent the event.
LEMMA EmitStep ==
    ASSUME SInv, NEW e \in Events, Fanned(e), NEW x \in Sockets, Emit(e, x)
    PROVE  Fanned(e)'
<1>1. /\ x \in route[e].batch /\ route[e].stage = "routing"
      /\ route[e] \in [stage : {"queued", "routing", "done"}, left : Seq(Ids(e)),
                       batch : SUBSET Sockets]
      /\ e \in DOMAIN route /\ e \in DOMAIN got /\ e \in DOMAIN audience
      /\ got[e] \in [Sockets -> Nat] /\ IsInjective(route[e].left)
  BY DEF Emit, Fanned, Routed
<1>2. /\ route'[e] = [route[e] EXCEPT !.batch = @ \ {x}]
      /\ got'[e] = [got[e] EXCEPT ![x] = IF x \in open THEN @ + 1 ELSE @]
      /\ DOMAIN route' = DOMAIN route /\ DOMAIN got' = DOMAIN got
      /\ audience' = audience /\ UNCHANGED <<stage, open, tracked>>
  BY <1>1 DEF Emit, conns
<1>3. /\ route'[e].stage = "routing" /\ route'[e].left = route[e].left
      /\ route'[e].batch = route[e].batch \ {x}
      /\ route'[e] \in [stage : {"queued", "routing", "done"}, left : Seq(Ids(e)),
                        batch : SUBSET Sockets]
  BY <1>1, <1>2
<1>4. /\ got'[e] \in [Sockets -> Nat]
      /\ \A s \in Sockets : got'[e][s] = IF s = x /\ x \in open THEN got[e][s] + 1 ELSE got[e][s]
  BY <1>1, <1>2
<1>5. Routed(e)'
  BY <1>1, <1>2, <1>3, <1>4 DEF Routed
<1>6. Present(e)'
  BY <1>2 DEF Fanned, Present
<1>7. ASSUME NEW s \in Sockets PROVE Served(e, s)'
  <2>1. Pending(e, s)' <=> Pending(e, s)
    BY <1>3 DEF Pending
  <2>2. Served(e, s) /\ Served(e, x)
    BY <1>1 DEF Fanned
  <2>3. CASE s # x
    BY <1>2, <1>3, <1>4, <2>1, <2>2, <2>3 DEF Served
  <2>4. CASE s = x
    <3>1. ~Pending(e, s) /\ got[e][s] = 0
      BY <1>1, <2>2, <2>4 DEF Served
    <3>2. got'[e][s] = IF s \in open THEN 1 ELSE 0
      BY <1>4, <2>4, <3>1
    <3> QED
      BY <1>2, <1>3, <2>1, <2>4, <3>1, <3>2 DEF Served
  <2> QED
    BY <2>3, <2>4
<1> QED
  BY <1>5, <1>6, <1>7 DEF Fanned

\* The event is done.
LEMMA FinishStep ==
    ASSUME NEW e \in Events, Fanned(e), FinishEvent(e)
    PROVE  Fanned(e)'
<1>1. /\ route[e] \in [stage : {"queued", "routing", "done"}, left : Seq(Ids(e)),
                       batch : SUBSET Sockets]
      /\ e \in DOMAIN route /\ e \in DOMAIN got /\ e \in DOMAIN audience
      /\ IsInjective(route[e].left) /\ route[e].left = <<>> /\ route[e].batch = {}
  BY DEF FinishEvent, Sent, Fanned, Routed
<1>2. /\ route'[e] = [route[e] EXCEPT !.stage = "done"]
      /\ got'[e] = [s \in Sockets |-> 0] /\ audience'[e] = {}
      /\ DOMAIN route' = DOMAIN route /\ DOMAIN got' = DOMAIN got
      /\ DOMAIN audience' = DOMAIN audience
  BY <1>1 DEF FinishEvent
<1>3. Routed(e)' /\ Present(e)' /\ route'[e].stage = "done"
  BY <1>1, <1>2 DEF Routed, Present
<1> QED
  BY <1>3 DEF Fanned

\* The events that a step is not about.
LEMMA Elsewhere ==
    ASSUME FanInv, NEW e \in Events, NEW x \in Events, x # e,
           TakeEvent(e) \/ LookUp(e) \/ FinishEvent(e) \/ \E s \in Sockets : Emit(e, s)
    PROVE  /\ x \in DOMAIN route' /\ x \in DOMAIN got' /\ x \in DOMAIN audience'
           /\ route'[x] = route[x] /\ got'[x] = got[x] /\ audience'[x] = audience[x]
<1>1. /\ x \in DOMAIN route /\ x \in DOMAIN got /\ x \in DOMAIN audience
  BY DEF FanInv, Fanned, Routed
<1>2. CASE TakeEvent(e)
  BY <1>1, <1>2 DEF TakeEvent
<1>3. CASE LookUp(e)
  BY <1>1, <1>3 DEF LookUp
<1>4. CASE FinishEvent(e)
  BY <1>1, <1>4 DEF FinishEvent
<1>5. CASE \E s \in Sockets : Emit(e, s)
  BY <1>1, <1>5 DEF Emit
<1> QED
  BY <1>2, <1>3, <1>4, <1>5

\* Every step of the server, the library and the clients.
LEMMA FanStep == SInv /\ FanInv /\ [NextS]_svars => FanInv'
<1> SUFFICES ASSUME SInv, FanInv, [NextS]_svars, NEW x \in Events PROVE Fanned(x)'
  BY DEF FanInv
<1>1. Typed /\ Fanned(x)
  BY DEF SInv, FanInv
<1>2. CASE UNCHANGED routing
  <2>1. /\ x \in DOMAIN route' /\ x \in DOMAIN got' /\ x \in DOMAIN audience'
        /\ route' = route /\ got' = got /\ audience' = audience
    BY <1>1, <1>2 DEF routing, Fanned, Routed
  <2> QED
    BY <1>1, <2>1, StillStep
<1>3. ASSUME NEW e \in Events,
             TakeEvent(e) \/ LookUp(e) \/ FinishEvent(e) \/ \E s \in Sockets : Emit(e, s)
      PROVE  Fanned(x)'
  <2>1. CASE x = e
    BY <1>1, <1>3, <2>1, TakeStep, LookUpStep, FinishStep, EmitStep
  <2>2. CASE x # e
    BY <1>1, <1>3, <2>2, Elsewhere, StillStep
  <2> QED
    BY <2>1, <2>2
<1>4. \/ UNCHANGED routing
      \/ \E e \in Events :
            TakeEvent(e) \/ LookUp(e) \/ FinishEvent(e) \/ \E s \in Sockets : Emit(e, s)
  BY DEF NextS, Handler, svars, Connect, ClientLeaves, Ping, Add, Evict, RegisterHandlers, Reject,
         Disconnected, SweepOne, DisconnectOne, Tick, StartSweep, Shutdown, CloseServer
<1> QED
  BY <1>2, <1>3, <1>4

-----------------------------------------------------------------------------
\* A message goes to every device of every alias of its targets, once each,
\* although connections come and go while it is sent (routeNotifyEvent).
THEOREM MessagesReachEveryDevice == SpecS => []EveryDeviceOnce
<1>1. SInv /\ FanInv => EveryDeviceOnce
  <2> SUFFICES ASSUME SInv, FanInv, NEW e \in Events, Sent(e),
                      NEW s \in audience[e] \cap open \cap tracked
               PROVE  got[e][s] = 1
    BY DEF EveryDeviceOnce
  <2>1. s \in Sockets
    BY DEF SInv, Typed
  <2>2. Served(e, s) /\ ~Pending(e, s)
    BY <2>1 DEF Sent, FanInv, Fanned, Pending
  <2> QED
    BY <2>2 DEF Served, Sent
<1> QED
  BY <1>1, SocketInvariant, InitFan, FanStep, PTL DEF SpecS

=============================================================================
