----------------------------- MODULE RelayProofs -----------------------------
(***************************************************************************)
(* Proofs about the Relay server for any number of connections: the        *)
(* registrations, the hand-over of a client, and what is left after a      *)
(* stop.                                                                   *)
(***************************************************************************)
EXTENDS Relay, TLAPS

\* What the argument needs to know of finite sets.  The library proves it, but a library in
\* scope slows every step down: the lemmas assume it, and CountingHolds, at the end,
\* discharges it.
Counting ==
  /\ Cardinality({}) = 0
  /\ \A S : IsFiniteSet(S) => Cardinality(S) \in Nat
  /\ \A S, T : IsFiniteSet(T) /\ S \subseteq T =>
       IsFiniteSet(S) /\ Cardinality(S) <= Cardinality(T)
  /\ \A S, x : IsFiniteSet(S) /\ x \notin S => Cardinality(S \cup {x}) = Cardinality(S) + 1

\* Places of a Host thread that has registered; its registration may be in the map.
Present == {"announcing", "polling", "receiving", "pinging", "matched", "pumping", "leaving"}
\* Places of a client thread that has taken its registration out of the map.
HasTaken == {"sending", "handed"}

\* Only threads that are past Register and before the end of Leave are in the map, and a
\* client has cloned only senders of such threads or of threads that have gone on since.
RegisteredInv ==
  /\ \A h \in Hosts : at[h] \notin ClientPlaces
  /\ \A h \in waiting : at[h] \in Present
  /\ \A c \in Clients : claim[c] # None => at[claim[c]] \in Present \cup {"closing", "ended"}
  /\ \A c \in Clients : at[c] \in {"verifying", "taking"} \cup HasTaken => claim[c] # None

\* A registration that was taken is out of the map and belongs to one client, and what a
\* Host finds in its channel, or has taken from it, is that client.
TakenInv ==
  /\ \A c \in Clients : at[c] \in HasTaken => claim[c] \notin waiting
  /\ \A c, d \in Clients : at[c] \in HasTaken /\ at[d] \in HasTaken /\ claim[c] = claim[d] => c = d
  /\ \A h \in Hosts : channel[h] # <<>> =>
       \E c \in Clients : channel[h] = <<c>> /\ at[c] = "handed" /\ claim[c] = h
  /\ \A h \in Hosts : peer[h] # None =>
       /\ at[h] \in {"matched", "pumping"}
       /\ at[peer[h]] = "handed" /\ claim[peer[h]] = h /\ channel[h] = <<>>
  /\ \A h \in Hosts : at[h] \in {"matched", "pumping"} => peer[h] # None

\* An open stream has an owner: its own thread, or the Host thread it was handed to.
SocketInv ==
  /\ \A c \in Conns : at[c] \in {"unborn", "ended"} => ~socket[c]
  /\ \A c \in Clients : at[c] = "handed" /\ socket[c] =>
       at[claim[c]] # "ended" /\ (channel[claim[c]] = <<c>> \/ peer[claim[c]] = c)
  /\ main = "ended" => \A c \in Conns : IsOver(c)

\* The types that the argument needs.
Typed ==
  /\ at \in [Conns -> Places] /\ socket \in [Conns -> BOOLEAN]
  /\ routes \in [Conns -> SUBSET Routes] /\ waiting \subseteq Hosts
  /\ claim \in [Clients -> Hosts \cup {None}]
  /\ channel \in [Hosts -> Seq(Clients)]
  /\ peer \in [Hosts -> Clients \cup {None}]

IInv == Typed /\ RegisteredInv /\ RoutesAreDisjoint /\ TakenInv /\ SocketInv

USE DEF Conns, HostPlaces, ClientPlaces, Places, Present, HasTaken, Goto, state

\* A connection is of one kind, and None is not one.
LEMMA Apart == Hosts \cap Clients = {} /\ None \notin Hosts /\ None \notin Clients
BY RelayAssumption

\* The invariant holds when run() starts.
LEMMA InitIInv == Counting /\ Init => IInv
<1> SUFFICES ASSUME Counting, Init PROVE IInv
  OBVIOUS
<1> USE RelayAssumption DEF Init
<1>1. Typed
  <2>1. <<>> \in Seq(Clients)
    OBVIOUS
  <2> QED
    BY <2>1 DEF Typed
<1>2. RegisteredInv /\ TakenInv /\ SocketInv
  BY DEF RegisteredInv, TakenInv, SocketInv
<1>3. RoutesAreDisjoint
  BY DEF Counting, RoutesAreDisjoint
<1> QED
  BY <1>1, <1>2, <1>3 DEF IInv

----------------------------------------------------------------------------
\* Registrations that leave the map, or stay in it with their routes, stay disjoint.
LEMMA DisjointShrinks ==
  ASSUME Counting, Typed, RoutesAreDisjoint, waiting' \subseteq waiting,
         \A h \in waiting : routes'[h] = routes[h]
  PROVE  RoutesAreDisjoint'
<1>1. IsFiniteSet(waiting)
  BY RelayAssumption DEF Typed, Counting
<1>2. Cardinality(waiting') <= Cardinality(waiting)
  BY <1>1 DEF Counting
<1>3. Cardinality(waiting') \in Nat /\ Cardinality(waiting) \in Nat
  BY <1>1 DEF Counting
<1>4. Cardinality(waiting') <= MaxWaiting
  BY <1>2, <1>3, RelayAssumption DEF RoutesAreDisjoint
<1> QED
  BY <1>4 DEF RoutesAreDisjoint

\* A thread goes on from one of its places to another and touches nothing that is shared.
LEMMA MoveIInv ==
  ASSUME Counting, IInv, NEW c \in Conns, NEW p \in Places, at' = [at EXCEPT ![c] = p],
         UNCHANGED <<main, socket, waiting, claim, channel, peer>>,
         routes' \in [Conns -> SUBSET Routes],
         p \notin HasTaken, ~IsOver(c), p \notin {"unborn", "ended"},
         c \in Hosts => /\ p \notin ClientPlaces
                        /\ c \in waiting => p \in Present
                        /\ at[c] \in Present \cup {"closing"} => p \in Present \cup {"closing"}
                        /\ peer[c] # None <=> p \in {"matched", "pumping"},
         c \in Clients /\ p \in {"verifying", "taking"} => claim[c] # None
  PROVE  Typed' /\ RegisteredInv' /\ TakenInv' /\ SocketInv'
<1> USE Apart DEF IInv, IsOver
<1>1. Typed'
  BY DEF Typed
<1>2. at'[c] = p /\ \A d \in Conns : d # c => at'[d] = at[d]
  BY DEF Typed
<1>3. at[c] \notin {"unborn", "ended", "handed"}
  OBVIOUS
<1>4. RegisteredInv'
  BY <1>2, <1>3 DEF Typed, RegisteredInv
<1>5. TakenInv'
  <2>1. \A d \in Clients : at'[d] \in HasTaken => at[d] \in HasTaken
    BY <1>2
  <2>2. \A d \in Clients : at[d] = "handed" => at'[d] = "handed"
    BY <1>2, <1>3
  <2>3. \A h \in Hosts : peer[h] # None => at'[h] \in {"matched", "pumping"}
    BY <1>2 DEF TakenInv
  <2>4. (\A d \in Clients : at[d] \in HasTaken => claim[d] \notin waiting)'
    BY <2>1 DEF TakenInv
  <2>5. (\A d, e \in Clients :
           at[d] \in HasTaken /\ at[e] \in HasTaken /\ claim[d] = claim[e] => d = e)'
    BY <2>1 DEF TakenInv
  <2>6. (\A h \in Hosts : channel[h] # <<>> =>
           \E d \in Clients : channel[h] = <<d>> /\ at[d] = "handed" /\ claim[d] = h)'
    BY <2>2 DEF TakenInv
  <2>7. (\A h \in Hosts : peer[h] # None =>
           /\ at[h] \in {"matched", "pumping"}
           /\ at[peer[h]] = "handed" /\ claim[peer[h]] = h /\ channel[h] = <<>>)'
    BY <2>2, <2>3 DEF TakenInv, Typed
  <2>8. (\A h \in Hosts : at[h] \in {"matched", "pumping"} => peer[h] # None)'
    BY <1>2 DEF TakenInv
  <2> QED
    BY <2>4, <2>5, <2>6, <2>7, <2>8 DEF TakenInv
<1>6. SocketInv'
  BY <1>2, <1>3 DEF SocketInv, Typed, RegisteredInv
<1> QED
  BY <1>1, <1>4, <1>5, <1>6

----------------------------------------------------------------------------
(* The thread inside run() and the worker of any connection.               *)

\* The thread inside run() moves: it takes registrations away, and it ends when every worker
\* is over.
LEMMA MainIInv ==
  ASSUME Counting, IInv, RequestStop \/ CheckStop \/ AcceptNothing \/ ClearWaiting \/ Join
  PROVE  IInv'
<1> USE DEF IInv, RequestStop, CheckStop, AcceptNothing, ClearWaiting, Join
<1>1. RoutesAreDisjoint'
  BY DisjointShrinks
<1>2. waiting' \subseteq waiting /\ UNCHANGED <<at, socket, routes, claim, channel, peer>>
  OBVIOUS
<1>3. main' = "ended" => \A c \in Conns : IsOver(c)
  BY DEF SocketInv
<1>4. Typed' /\ RegisteredInv'
  BY <1>2 DEF Typed, RegisteredInv
<1>5. TakenInv' /\ SocketInv'
  BY <1>2, <1>3 DEF TakenInv, SocketInv, IsOver
<1> QED
  BY <1>1, <1>4, <1>5

\* A connection is dropped at the limit or starts with an open stream and nothing shared.
LEMMA AcceptIInv ==
  ASSUME Counting, IInv, NEW c \in Conns, Accept(c)
  PROVE  IInv'
<1> USE Apart DEF IInv
<1>1. RoutesAreDisjoint'
  BY DisjointShrinks DEF Accept
<1>2. UNCHANGED <<routes, waiting, claim, channel, peer>> /\ at[c] = "unborn" /\ main' # "ended"
  BY DEF Accept
<1>3. /\ at' \in [Conns -> Places] /\ socket' \in [Conns -> BOOLEAN]
      /\ at'[c] \in {"hello", "ended"} /\ (at'[c] = "ended" => ~socket'[c])
      /\ \A d \in Conns : d # c => at'[d] = at[d] /\ socket'[d] = socket[d]
  <2>1. ~socket[c]
    BY <1>2 DEF SocketInv
  <2>2. CASE IsFull
    BY <2>1, <2>2 DEF Accept, Typed
  <2>3. CASE ~IsFull
    BY <2>3, ZenonT(60) DEF Accept, Typed
  <2> QED
    BY <2>2, <2>3
<1>4. Typed'
  BY <1>2, <1>3 DEF Typed
<1>5. RegisteredInv'
  BY <1>2, <1>3, ZenonT(60) DEF RegisteredInv, Typed
<1>6. TakenInv'
  <2>1. \A d \in Clients : at'[d] \in HasTaken <=> at[d] \in HasTaken
    BY <1>2, <1>3
  <2>2. \A d \in Clients : at[d] = "handed" => at'[d] = "handed"
    BY <1>2, <1>3
  <2>3. \A h \in Hosts : peer[h] # None => at'[h] \in {"matched", "pumping"}
    BY <1>2, <1>3 DEF TakenInv
  <2>4. \A h \in Hosts : at'[h] \in {"matched", "pumping"} => peer[h] # None
    BY <1>2, <1>3 DEF TakenInv
  <2> QED
    BY <1>2, <2>1, <2>2, <2>3, <2>4 DEF TakenInv, Typed
<1>7. SocketInv'
  <2>1. \A d \in Conns : at'[d] \in {"unborn", "ended"} => ~socket'[d]
    BY <1>3 DEF SocketInv
  <2>2. ASSUME NEW d \in Clients, at'[d] = "handed", socket'[d]
        PROVE  at'[claim[d]] # "ended" /\ (channel[claim[d]] = <<d>> \/ peer[claim[d]] = d)
    <3>1. at[d] = "handed" /\ socket[d]
      BY <1>3, <2>2
    <3>2. claim[d] \in Hosts /\ at[claim[d]] # "unborn"
      BY <3>1, SMTT(60) DEF RegisteredInv, Typed
    <3> QED
      BY <1>2, <1>3, <3>1, <3>2 DEF SocketInv
  <2> QED
    BY <1>2, <2>1, <2>2 DEF SocketInv
<1> QED
  BY <1>1, <1>4, <1>5, <1>6, <1>7

\* A thread that ends closes its own stream and, in a Host thread, the ones in its channel.
LEMMA CloseIInv ==
  ASSUME Counting, IInv, NEW c \in Conns, Close(c)
  PROVE  IInv'
<1> USE Apart DEF IInv
<1>1. RoutesAreDisjoint'
  BY DisjointShrinks DEF Close
<1>2. UNCHANGED <<main, routes, waiting, claim, peer>> /\ at[c] = "closing"
  BY DEF Close
<1>3. /\ at' \in [Conns -> Places] /\ at'[c] = "ended"
      /\ \A d \in Conns : d # c => at'[d] = at[d]
  BY DEF Close, Typed
<1>4. /\ socket' \in [Conns -> BOOLEAN] /\ ~socket'[c]
      /\ \A d \in Conns : socket'[d] => socket[d]
      /\ \A d \in Clients : c \in Hosts /\ channel[c] = <<d>> => ~socket'[d]
  <2>1. socket' = [d \in Conns |->
                     /\ socket[d] /\ d # c
                     /\ ~(c \in Hosts /\ \E n \in 1..Len(channel[c]) : channel[c][n] = d)]
    BY DEF Close
  <2>2. ASSUME NEW d \in Clients, c \in Hosts, channel[c] = <<d>> PROVE ~socket'[d]
    <3>1. 1 \in 1..Len(channel[c]) /\ channel[c][1] = d
      BY <2>2
    <3> QED
      BY <2>1, <2>2, <3>1, Zenon
  <2>3. socket' \in [Conns -> BOOLEAN] /\ ~socket'[c] /\ \A d \in Conns : socket'[d] => socket[d]
    BY <2>1, Zenon
  <2> QED
    BY <2>2, <2>3
<1>5. \A h \in Hosts : channel'[h] = IF h = c THEN <<>> ELSE channel[h]
  BY DEF Close
<1>6. Typed'
  <2>1. channel' \in [Hosts -> Seq(Clients)]
    <3>1. <<>> \in Seq(Clients)
      OBVIOUS
    <3> QED
      BY <3>1 DEF Close, Typed
  <2> QED
    BY <1>2, <1>3, <1>4, <2>1 DEF Typed
<1>7. RegisteredInv'
  <2>1. \A h \in Hosts : at'[h] \notin ClientPlaces
    BY <1>3 DEF RegisteredInv
  <2>2. c \notin waiting /\ \A h \in waiting : at[h] \in Present /\ h \in Conns
    BY <1>2 DEF RegisteredInv, Typed
  <2>3. \A h \in waiting' : at'[h] \in Present
    BY <1>2, <1>3, <2>2
  <2>4. ASSUME NEW d \in Clients, claim[d] # None
        PROVE  at'[claim[d]] \in Present \cup {"closing", "ended"}
    <3>1. claim[d] \in Conns /\ at[claim[d]] \in Present \cup {"closing", "ended"}
      BY <2>4 DEF RegisteredInv, Typed
    <3> QED
      BY <1>3, <3>1
  <2>5. \A d \in Clients : at'[d] \in {"verifying", "taking"} \cup HasTaken => claim[d] # None
    BY <1>3 DEF RegisteredInv
  <2> QED
    BY <1>2, <2>1, <2>3, <2>4, <2>5 DEF RegisteredInv
<1>8. \A h \in Hosts : peer[h] # None => h # c
  BY <1>2 DEF TakenInv
<1>9. TakenInv'
  <2>1. \A d \in Clients : at'[d] \in HasTaken => at[d] \in HasTaken
    BY <1>3
  <2>2. \A d \in Clients : at[d] = "handed" => at'[d] = "handed"
    BY <1>2, <1>3
  <2>3. \A h \in Hosts : peer[h] # None => at'[h] \in {"matched", "pumping"}
    BY <1>3, <1>8 DEF TakenInv
  <2>4. \A h \in Hosts : at'[h] \in {"matched", "pumping"} => peer[h] # None
    BY <1>2, <1>3 DEF TakenInv
  <2> QED
    BY <1>2, <1>5, <1>8, <2>1, <2>2, <2>3, <2>4 DEF TakenInv, Typed
<1>10. SocketInv'
  <2>1. \A d \in Conns : at'[d] \in {"unborn", "ended"} => ~socket'[d]
    BY <1>3, <1>4 DEF SocketInv
  <2>2. ASSUME NEW d \in Clients, at'[d] = "handed", socket'[d]
        PROVE  at'[claim[d]] # "ended" /\ (channel'[claim[d]] = <<d>> \/ peer[claim[d]] = d)
    <3>1. at[d] = "handed" /\ socket[d]
      BY <1>3, <1>4, <2>2
    <3>2. claim[d] \in Hosts
      BY <3>1 DEF RegisteredInv, Typed
    <3>3. at[claim[d]] # "ended" /\ (channel[claim[d]] = <<d>> \/ peer[claim[d]] = d)
      BY <3>1 DEF SocketInv
    <3>4. claim[d] # c
      BY <1>4, <1>8, <2>2, <3>2, <3>3
    <3> QED
      BY <1>3, <1>5, <3>2, <3>3, <3>4
  <2>3. main' = "ended" => \A d \in Conns : IsOver(d)'
    BY <1>2, <1>3 DEF SocketInv, IsOver
  <2> QED
    BY <1>2, <2>1, <2>2, <2>3 DEF SocketInv
<1> QED
  BY <1>1, <1>6, <1>7, <1>9, <1>10

\* Hello changes the routes of a connection that is not registered.
LEMMA HelloIInv ==
  ASSUME Counting, IInv, NEW c \in Conns, Hello(c) \/ Refused(c)
  PROVE  IInv'
<1> USE Apart
<1>1. \A h \in waiting : routes'[h] = routes[h]
  BY ZenonT(60) DEF IInv, RegisteredInv, Typed, Hello, Refused
<1>2. RoutesAreDisjoint'
  BY <1>1, DisjointShrinks DEF IInv, Hello, Refused
<1>3. routes' \in [Conns -> SUBSET Routes]
  <2>1. routes' = routes \/ \E rs \in SUBSET Routes : routes' = [routes EXCEPT ![c] = rs]
    BY RelayAssumption, ZenonT(60) DEF Hello, Refused
  <2>2. routes \in [Conns -> SUBSET Routes]
    BY DEF IInv, Typed
  <2> HIDE DEF Conns
  <2> QED
    BY <2>1, <2>2
<1>4. PICK p \in {"closing", "registering", "claiming"} :
        /\ at' = [at EXCEPT ![c] = p]
        /\ p = "registering" => c \in Hosts
        /\ p = "claiming" => c \notin Hosts
  BY DEF Hello, Refused
<1>5. /\ at[c] \in {"hello", "refusing"} /\ c \notin waiting
      /\ c \in Hosts => peer[c] = None
  BY DEF IInv, RegisteredInv, TakenInv, Hello, Refused
<1>6. Typed' /\ RegisteredInv' /\ TakenInv' /\ SocketInv'
  BY <1>3, <1>4, <1>5, MoveIInv, ZenonT(60) DEF Hello, Refused, IsOver
<1> QED
  BY <1>2, <1>6 DEF IInv

----------------------------------------------------------------------------
(* A Host connection.                                                      *)

\* A registration enters the map when its routes are free and there is room.
LEMMA RegisterIInv ==
  ASSUME Counting, IInv, NEW h \in Hosts, Register(h)
  PROVE  IInv'
<1> USE Apart DEF IInv
<1>1. at[h] = "registering" /\ h \notin waiting /\ peer[h] = None
  BY DEF Register, RegisteredInv, TakenInv
<1>2. UNCHANGED <<main, socket, routes, claim, channel, peer>>
  BY DEF Register
<1>3. CASE Refuse(h)
  <2>1. RoutesAreDisjoint'
    BY <1>2, <1>3, DisjointShrinks, SMTT(60) DEF Refuse
  <2>2. Typed' /\ RegisteredInv' /\ TakenInv' /\ SocketInv'
    <3>1. PICK p \in {"refusing"} : at' = [at EXCEPT ![h] = p]
      BY <1>3 DEF Refuse
    <3>2. waiting' = waiting /\ routes' \in [Conns -> SUBSET Routes]
      BY <1>2, <1>3 DEF Refuse, Typed
    <3> HIDE DEF IInv
    <3> QED
      BY <1>1, <1>2, <3>1, <3>2, MoveIInv, ZenonT(60) DEF IsOver
  <2> QED
    BY <2>1, <2>2
<1>4. CASE /\ Cardinality(waiting) < MaxWaiting /\ ~RoutesOverlap(h)
           /\ waiting' = waiting \cup {h} /\ at' = [at EXCEPT ![h] = "announcing"]
  <2>1. IsFiniteSet(waiting)
    BY RelayAssumption DEF Typed, Counting
  <2>2. Cardinality(waiting') = Cardinality(waiting) + 1 /\ Cardinality(waiting) \in Nat
    BY <1>1, <1>4, <2>1 DEF Counting
  <2>3. Cardinality(waiting') <= MaxWaiting
    BY <1>4, <2>2, RelayAssumption
  <2>4. RoutesAreDisjoint'
    BY <1>2, <1>4, <2>3 DEF RoutesAreDisjoint, RoutesOverlap
  <2>5. /\ at' \in [Conns -> Places] /\ at'[h] = "announcing"
        /\ \A d \in Conns : d # h => at'[d] = at[d]
    BY <1>4 DEF Typed
  <2>6. Typed'
    BY <1>2, <1>4, <2>5 DEF Typed
  <2>7. RegisteredInv'
    BY <1>1, <1>2, <1>4, <2>5 DEF RegisteredInv, Typed
  <2>8. \A c \in Clients : at'[c] = at[c] /\ claim[c] # h
    BY <1>1, <2>5 DEF RegisteredInv
  <2>9. TakenInv'
    BY <1>1, <1>2, <1>4, <2>5, <2>8, SMTT(60) DEF TakenInv, Typed
  <2>10. SocketInv'
    <3>1. \A d \in Conns : at'[d] \in {"unborn", "ended"} => ~socket[d]
      BY <2>5 DEF SocketInv
    <3>2. \A d \in Clients : at[d] = "handed" => claim[d] \in Hosts /\ claim[d] # h
      BY <2>8 DEF RegisteredInv, Typed
    <3>3. \A d \in Clients : at'[d] = "handed" /\ socket[d] =>
            at'[claim[d]] # "ended" /\ (channel[claim[d]] = <<d>> \/ peer[claim[d]] = d)
      BY <2>5, <2>8, <3>2 DEF SocketInv
    <3>4. main # "ended"
      BY <1>1 DEF SocketInv, IsOver
    <3> QED
      BY <1>2, <3>1, <3>3, <3>4, Zenon DEF SocketInv
  <2> QED
    BY <2>4, <2>6, <2>7, <2>9, <2>10
<1> QED
  BY <1>3, <1>4 DEF Register

\* A Host thread takes a client from its channel.
LEMMA ReceiveIInv ==
  ASSUME Counting, IInv, NEW h \in Hosts, at[h] = "receiving", channel[h] # <<>>,
         peer' = [peer EXCEPT ![h] = Head(channel[h])],
         channel' = [channel EXCEPT ![h] = Tail(@)],
         at' = [at EXCEPT ![h] = "matched"],
         UNCHANGED <<main, socket, routes, waiting, claim>>
  PROVE  IInv'
<1> USE Apart DEF IInv
<1>1. PICK c \in Clients : channel[h] = <<c>> /\ at[c] = "handed" /\ claim[c] = h
  BY DEF TakenInv
<1>2. channel'[h] = <<>> /\ peer'[h] = c
  BY <1>1 DEF Typed
<1>3. \A g \in Hosts : g # h => channel'[g] = channel[g] /\ peer'[g] = peer[g]
  BY DEF Typed
<1>4. at'[h] = "matched" /\ \A d \in Conns : d # h => at'[d] = at[d]
  BY DEF Typed
<1>5. Typed'
  <2>1. channel' \in [Hosts -> Seq(Clients)]
    BY <1>1 DEF Typed
  <2>2. peer' \in [Hosts -> Clients \cup {None}]
    BY <1>1 DEF Typed
  <2> QED
    BY <2>1, <2>2 DEF Typed
<1>6. RoutesAreDisjoint'
  BY DisjointShrinks
<1>7. RegisteredInv'
  BY <1>4 DEF RegisteredInv, Typed
<1>8. \A d \in Clients : at'[d] = at[d]
  BY <1>4
<1>9. TakenInv'
  <2>1. \A d \in Clients : at'[d] \in HasTaken => claim'[d] \notin waiting'
    BY <1>8 DEF TakenInv
  <2>2. \A d, e \in Clients :
          at'[d] \in HasTaken /\ at'[e] \in HasTaken /\ claim'[d] = claim'[e] => d = e
    BY <1>8 DEF TakenInv
  <2>3. \A g \in Hosts : channel'[g] # <<>> =>
          \E d \in Clients : channel'[g] = <<d>> /\ at'[d] = "handed" /\ claim'[d] = g
    BY <1>2, <1>3, <1>8 DEF TakenInv
  <2>4. \A g \in Hosts : peer'[g] # None =>
          /\ at'[g] \in {"matched", "pumping"}
          /\ at'[peer'[g]] = "handed" /\ claim'[peer'[g]] = g /\ channel'[g] = <<>>
    BY <1>1, <1>2, <1>3, <1>4, <1>8, SMTT(60) DEF TakenInv, Typed
  <2>5. \A g \in Hosts : at'[g] \in {"matched", "pumping"} => peer'[g] # None
    BY <1>2, <1>3, <1>4 DEF TakenInv
  <2> QED
    BY <2>1, <2>2, <2>3, <2>4, <2>5 DEF TakenInv
<1>10. SocketInv'
  <2>1. \A d \in Clients : at[d] = "handed" => claim[d] \in Hosts
    BY DEF RegisteredInv, Typed
  <2>2. \A d \in Clients : at[d] = "handed" /\ claim[d] = h => d = c
    BY <1>1 DEF TakenInv
  <2>3. \A d \in Conns : at'[d] \in {"unborn", "ended"} => ~socket'[d]
    BY <1>4 DEF SocketInv
  <2>4. \A d \in Clients : at'[d] = "handed" /\ socket'[d] =>
          at'[claim'[d]] # "ended" /\ (channel'[claim'[d]] = <<d>> \/ peer'[claim'[d]] = d)
    BY <1>2, <1>3, <1>4, <1>8, <2>1, <2>2, SMTT(60) DEF SocketInv
  <2>5. main' # "ended"
    BY DEF SocketInv, IsOver
  <2> QED
    BY <2>3, <2>4, <2>5 DEF SocketInv
<1> QED
  BY <1>5, <1>6, <1>7, <1>9, <1>10

\* A Host thread drops the stream of its client.
LEMMA DropPeerIInv ==
  ASSUME Counting, IInv, NEW h \in Hosts, at[h] \in {"matched", "pumping"}, DropPeer(h), peer[h] # None,
         UNCHANGED <<main, routes, waiting, claim, channel>>
  PROVE  IInv'
<1> USE Apart DEF IInv
<1>1. peer[h] \in Clients
  BY DEF Typed
<1>2. at'[h] = "leaving" /\ \A d \in Conns : d # h => at'[d] = at[d]
  BY DEF DropPeer, Typed
<1>3. peer'[h] = None /\ \A g \in Hosts : g # h => peer'[g] = peer[g]
  BY DEF DropPeer, Typed
<1>4. ~socket'[peer[h]] /\ \A d \in Conns : d # peer[h] => socket'[d] = socket[d]
  BY <1>1 DEF DropPeer, Typed
<1>5. Typed'
  BY DEF DropPeer, Typed
<1>6. RoutesAreDisjoint'
  BY DisjointShrinks
<1>7. RegisteredInv'
  BY <1>2, ZenonT(60) DEF RegisteredInv, Typed
<1>8. \A d \in Clients : at'[d] = at[d]
  BY <1>2
<1>9. TakenInv'
  <2>1. \A g \in Hosts : peer'[g] # None => peer'[g] = peer[g] /\ at'[g] = at[g]
    BY <1>2, <1>3
  <2>2. \A g \in Hosts : at'[g] \in {"matched", "pumping"} => peer'[g] # None
    BY <1>2, <1>3 DEF TakenInv
  <2> QED
    BY <1>8, <2>1, <2>2 DEF TakenInv, Typed
<1>10. SocketInv'
  <2>1. \A d \in Clients : at[d] = "handed" => claim[d] \in Hosts
    BY DEF RegisteredInv, Typed
  <2>2. \A d \in Clients : at[d] = "handed" /\ claim[d] = h => d = peer[h]
    BY <1>1, SMTT(60) DEF TakenInv
  <2> QED
    BY <1>1, <1>2, <1>3, <1>4, <1>8, <2>1, <2>2, SMTT(60) DEF SocketInv, IsOver
<1> QED
  BY <1>5, <1>6, <1>7, <1>9, <1>10

\* The other steps of a Host thread: HostWaiting, the stop flag, Ping, the tunnel.
LEMMA HostIInv ==
  ASSUME Counting, IInv, NEW h \in Hosts,
         Announce(h) \/ Poll(h) \/ Receive(h) \/ Ping(h) \/ Match(h) \/ PumpEnds(h)
  PROVE  IInv'
<1> USE Apart
<1>1. at[h] \in Present
  BY DEF Announce, Poll, Receive, Ping, Match, PumpEnds
<1>2. UNCHANGED <<main, routes, waiting, claim>>
  BY DEF Announce, Poll, Receive, Ping, Match, PumpEnds
<1>3. RoutesAreDisjoint'
  BY <1>2, DisjointShrinks DEF IInv
<1>4. CASE /\ Announce(h) \/ Poll(h) \/ Ping(h) \/ (Receive(h) /\ channel[h] = <<>>)
  <2>1. PICK p \in Present \ {"matched", "pumping"} : at' = [at EXCEPT ![h] = p]
    BY <1>4, SMTT(60) DEF Announce, Poll, Ping, Receive
  <2>2. UNCHANGED <<socket, channel, peer>>
    BY <1>4, SMTT(60) DEF Announce, Poll, Ping, Receive
  <2>3. peer[h] = None /\ routes' \in [Conns -> SUBSET Routes]
    BY <1>2, <1>4, SMTT(60) DEF Announce, Poll, Ping, Receive, IInv, TakenInv, Typed
  <2>4. Typed' /\ RegisteredInv' /\ TakenInv' /\ SocketInv'
    BY <1>1, <1>2, <2>1, <2>2, <2>3, MoveIInv, ZenonT(60) DEF IsOver
  <2> QED
    BY <1>3, <2>4, SMTT(60) DEF IInv
<1>5. CASE Receive(h) /\ channel[h] # <<>>
  BY <1>5, ReceiveIInv DEF Receive
<1>6. CASE Match(h) /\ at' = [at EXCEPT ![h] = "pumping"] /\ UNCHANGED <<socket, peer>>
  <2>1. PICK p \in {"pumping"} : at' = [at EXCEPT ![h] = p]
    BY <1>6, SMTT(60)
  <2>2. channel' = channel /\ routes' \in [Conns -> SUBSET Routes] /\ peer[h] # None
    BY <1>2, <1>6, SMTT(60) DEF Match, IInv, Typed, TakenInv
  <2>3. Typed' /\ RegisteredInv' /\ TakenInv' /\ SocketInv'
    BY <1>1, <1>2, <1>6, <2>1, <2>2, MoveIInv, ZenonT(60) DEF IsOver
  <2> QED
    BY <1>3, <2>3 DEF IInv
<1>7. CASE (Match(h) \/ PumpEnds(h)) /\ DropPeer(h)
  <2>1. at[h] \in {"matched", "pumping"} /\ channel' = channel /\ peer[h] # None
    BY <1>7 DEF Match, PumpEnds, IInv, TakenInv
  <2> QED
    BY <1>2, <1>7, <2>1, DropPeerIInv, ZenonT(60)
<1> QED
  BY <1>4, <1>5, <1>6, <1>7 DEF Match, PumpEnds

\* remove_waiting_host.
LEMMA LeaveIInv ==
  ASSUME Counting, IInv, NEW h \in Hosts, Leave(h)
  PROVE  IInv'
<1> USE Apart DEF IInv, Leave
<1>1. RoutesAreDisjoint'
  BY DisjointShrinks
<1>2. at'[h] = "closing" /\ \A d \in Conns : d # h => at'[d] = at[d]
  BY DEF Typed
<1>3. Typed'
  BY DEF Typed
<1>4. RegisteredInv'
  BY <1>2 DEF RegisteredInv, Typed
<1>5. peer[h] = None /\ \A d \in Clients : at'[d] = at[d]
  BY <1>2, SMTT(60) DEF TakenInv
<1>6. TakenInv'
  BY <1>2, <1>5, SMTT(60) DEF TakenInv, Typed
<1>7. SocketInv'
  <2>1. \A d \in Conns : at'[d] \in {"unborn", "ended"} => ~socket'[d]
    BY <1>2 DEF SocketInv
  <2>2. \A d \in Clients : at'[d] = "handed" /\ socket'[d] =>
          at'[claim'[d]] # "ended" /\ (channel'[claim'[d]] = <<d>> \/ peer'[claim'[d]] = d)
    BY <1>2, <1>5, SMTT(60) DEF SocketInv, RegisteredInv, Typed
  <2>3. main' # "ended"
    BY DEF SocketInv, IsOver
  <2> QED
    BY <2>1, <2>2, <2>3, SMTT(60) DEF SocketInv
<1> QED
  BY <1>1, <1>3, <1>4, <1>6, <1>7

----------------------------------------------------------------------------
(* A client connection.                                                    *)

\* A refusal, a failed proof, and a Host that is gone.
LEMMA ClientMoveIInv ==
  ASSUME Counting, IInv, NEW c \in Clients, NEW p \in {"refusing", "closing", "taking"},
         at' = [at EXCEPT ![c] = p], ~IsOver(c), p = "taking" => at[c] = "verifying",
         UNCHANGED <<main, routes, socket, waiting, claim, channel, peer>>
  PROVE  IInv'
<1> USE Apart
<1>1. RoutesAreDisjoint'
  BY DisjointShrinks DEF IInv
<1>2. (p = "taking" => claim[c] # None) /\ routes' \in [Conns -> SUBSET Routes]
  BY SMTT(60) DEF IInv, RegisteredInv, Typed
<1>3. Typed' /\ RegisteredInv' /\ TakenInv' /\ SocketInv'
  BY <1>2, MoveIInv, ZenonT(60)
<1> QED
  BY <1>1, <1>3 DEF IInv

\* A client clones the sender of a registration that is in the map.
LEMMA ClaimIInv ==
  ASSUME Counting, IInv, NEW c \in Clients, Claim(c)
  PROVE  IInv'
<1> USE Apart
<1>1. at[c] = "claiming" /\ UNCHANGED <<main, socket, routes, channel, peer>>
  BY DEF Claim
<1>2. CASE Refuse(c) /\ UNCHANGED claim
  BY <1>1, <1>2, ClientMoveIInv, ZenonT(60) DEF Refuse, IsOver
<1>3. ASSUME NEW h \in waiting, claim' = [claim EXCEPT ![c] = h],
             at' = [at EXCEPT ![c] = "verifying"], waiting' = waiting
      PROVE  IInv'
  <2> USE DEF IInv
  <2>1. RoutesAreDisjoint'
    BY <1>1, <1>3, DisjointShrinks
  <2>2. at'[c] = "verifying" /\ \A d \in Conns : d # c => at'[d] = at[d]
    BY <1>3 DEF Typed
  <2>3. claim'[c] = h /\ \A d \in Clients : d # c => claim'[d] = claim[d]
    BY <1>3 DEF Typed
  <2>4. Typed'
    <3>1. at' \in [Conns -> Places]
      BY <1>3 DEF Typed
    <3>2. h \in Hosts \cup {None} /\ claim \in [Clients -> Hosts \cup {None}]
      BY DEF Typed
    <3>3. claim' \in [Clients -> Hosts \cup {None}]
      BY <1>3, <3>2
    <3> HIDE DEF Places, Conns
    <3> QED
      BY <1>1, <1>3, <3>1, <3>3, Zenon DEF Typed
  <2>5. RegisteredInv'
    <3>1. h \in Hosts /\ at'[h] = at[h] /\ at[h] \in Present
      BY <2>2 DEF RegisteredInv, Typed
    <3>2. /\ \A g \in Hosts : at'[g] \notin ClientPlaces
          /\ \A g \in waiting' : at'[g] \in Present
      BY <1>3, <2>2 DEF RegisteredInv, Typed
    <3>3. ASSUME NEW d \in Clients, claim'[d] # None
          PROVE  at'[claim'[d]] \in Present \cup {"closing", "ended"}
      <4>1. CASE d = c
        BY <2>3, <3>1, <4>1
      <4>2. CASE d # c
        <5>1. claim'[d] = claim[d] /\ claim[d] \in Hosts
          BY <2>3, <3>3, <4>2 DEF Typed
        <5>2. at'[claim[d]] = at[claim[d]]
          BY <2>2, <5>1
        <5> QED
          BY <3>3, <5>1, <5>2 DEF RegisteredInv
      <4> QED
        BY <4>1, <4>2
    <3>4. \A d \in Clients :
            at'[d] \in {"verifying", "taking"} \cup HasTaken => claim'[d] # None
      BY <2>2, <2>3, <3>1 DEF RegisteredInv
    <3> QED
      BY <3>2, <3>3, <3>4 DEF RegisteredInv
  <2>6. /\ \A d \in Clients : at'[d] \in HasTaken => at[d] \in HasTaken /\ claim'[d] = claim[d]
        /\ \A d \in Clients : at[d] = "handed" => at'[d] = "handed" /\ claim'[d] = claim[d]
        /\ \A g \in Hosts : at'[g] = at[g]
    BY <1>1, <2>2, <2>3, SMTT(60)
  <2>7. TakenInv'
    BY <1>1, <1>3, <2>6, SMTT(60) DEF TakenInv, Typed
  <2>8. SocketInv'
    <3>1. \A d \in Conns : at'[d] \in {"unborn", "ended"} => ~socket[d]
      BY <2>2 DEF SocketInv
    <3>2. main # "ended"
      BY <1>1 DEF SocketInv, IsOver
    <3>3. ASSUME NEW d \in Clients, at'[d] = "handed", socket[d]
          PROVE  /\ at'[claim'[d]] # "ended"
                 /\ channel[claim'[d]] = <<d>> \/ peer[claim'[d]] = d
      <4>1. d # c /\ at[d] = "handed" /\ claim'[d] = claim[d]
        BY <2>2, <2>3, <3>3
      <4>2. claim[d] \in Hosts
        BY <4>1 DEF RegisteredInv, Typed
      <4> QED
        BY <2>6, <3>3, <4>1, <4>2 DEF SocketInv
    <3> QED
      BY <1>1, <3>1, <3>2, <3>3, Zenon DEF SocketInv
  <2> QED
    BY <2>1, <2>4, <2>5, <2>7, <2>8
<1> QED
  BY <1>2, <1>3 DEF Claim, Serving

\* A client takes the registration it has found again out of the map.
LEMMA TakeIInv ==
  ASSUME Counting, IInv, NEW c \in Clients, Take(c)
  PROVE  IInv'
<1> USE Apart
<1>1. at[c] = "taking" /\ UNCHANGED <<main, socket, routes, claim, channel, peer>>
  BY DEF Take
<1>2. CASE Refuse(c)
  BY <1>1, <1>2, ClientMoveIInv, ZenonT(60) DEF Refuse, IsOver
<1>3. CASE /\ claim[c] \in waiting /\ waiting' = waiting \ {claim[c]}
           /\ at' = [at EXCEPT ![c] = "sending"]
  <2> USE DEF IInv
  <2>1. RoutesAreDisjoint'
    BY <1>1, <1>3, DisjointShrinks
  <2>2. at'[c] = "sending" /\ \A d \in Conns : d # c => at'[d] = at[d]
    BY <1>3 DEF Typed
  <2>3. Typed'
    BY <1>1, <1>3 DEF Typed
  <2>4. RegisteredInv'
    BY <1>1, <1>3, <2>2, SMTT(60) DEF RegisteredInv, Typed
  <2>5. \A d \in Clients : d # c /\ at[d] \in HasTaken => claim[d] # claim[c]
    BY <1>3 DEF TakenInv
  <2>6. \A d \in Clients : at[d] = "handed" => at'[d] = "handed"
    BY <1>1, <2>2
  <2>7. \A g \in Hosts : at'[g] = at[g]
    BY <2>2, SMTT(60)
  <2>8. TakenInv'
    BY <1>1, <1>3, <2>2, <2>5, <2>6, <2>7, SMTT(60) DEF TakenInv, Typed
  <2>9. SocketInv'
    BY <1>1, <1>3, <2>2, SMTT(60) DEF SocketInv, IsOver, RegisteredInv, Typed
  <2> QED
    BY <2>1, <2>3, <2>4, <2>8, <2>9
<1> QED
  BY <1>2, <1>3 DEF Take

\* The stream of a client moves into the channel of the Host it has taken.
LEMMA SendIInv ==
  ASSUME Counting, IInv, NEW c \in Clients, Send(c)
  PROVE  IInv'
<1> USE Apart
<1>1. at[c] = "sending" /\ UNCHANGED <<main, socket, routes, waiting, claim, peer>>
  BY DEF Send
<1>2. CASE at' = [at EXCEPT ![c] = "closing"] /\ UNCHANGED channel
  BY <1>1, <1>2, ClientMoveIInv, ZenonT(60) DEF IsOver
<1>3. CASE /\ at[claim[c]] # "ended" /\ channel[claim[c]] = <<>>
           /\ channel' = [channel EXCEPT ![claim[c]] = <<c>>]
           /\ at' = [at EXCEPT ![c] = "handed"]
  <2> USE DEF IInv
  <2>1. claim[c] \in Hosts
    BY <1>1 DEF RegisteredInv, Typed
  <2>2. at'[c] = "handed" /\ \A d \in Conns : d # c => at'[d] = at[d]
    BY <1>3 DEF Typed
  <2>3. channel'[claim[c]] = <<c>> /\ \A g \in Hosts : g # claim[c] => channel'[g] = channel[g]
    BY <1>3, <2>1 DEF Typed
  <2>4. Typed'
    <3>1. <<c>> \in Seq(Clients)
      OBVIOUS
    <3> QED
      BY <1>1, <1>3, <3>1, ZenonT(60) DEF Typed
  <2>5. RoutesAreDisjoint'
    BY <1>1, DisjointShrinks
  <2>6. RegisteredInv'
    BY <1>1, <2>2, ZenonT(60) DEF RegisteredInv, Typed
  <2>7. \A d \in Clients : d # c /\ at[d] \in HasTaken => claim[d] # claim[c]
    BY <1>1 DEF TakenInv
  <2>8. /\ \A d \in Clients : at'[d] \in HasTaken => at[d] \in HasTaken
        /\ \A d \in Clients : at[d] = "handed" => at'[d] = "handed"
        /\ \A g \in Hosts : at'[g] = at[g]
    BY <1>1, <2>2
  <2>9. peer[claim[c]] = None
    BY <1>1, <2>1, <2>7 DEF TakenInv, Typed
  <2>10. TakenInv'
    <3>1. ASSUME NEW h \in Hosts, channel'[h] # <<>>
          PROVE  \E d \in Clients : channel'[h] = <<d>> /\ at'[d] = "handed" /\ claim[d] = h
      <4>1. CASE h = claim[c]
        BY <2>2, <2>3, <4>1, Zenon
      <4>2. CASE h # claim[c]
        <5>1. channel'[h] = channel[h]
          BY <2>3, <4>2, Zenon
        <5>2. PICK d \in Clients : channel[h] = <<d>> /\ at[d] = "handed" /\ claim[d] = h
          BY <3>1, <5>1, Zenon DEF TakenInv
        <5> QED
          BY <2>8, <5>1, <5>2, Zenon
      <4> QED
        BY <4>1, <4>2, Zenon
    <3>2. \A h \in Hosts : peer[h] # None =>
            /\ at'[h] \in {"matched", "pumping"}
            /\ at'[peer[h]] = "handed" /\ claim[peer[h]] = h /\ channel'[h] = <<>>
      <4> SUFFICES ASSUME NEW h \in Hosts, peer[h] # None
                   PROVE  /\ at'[h] \in {"matched", "pumping"}
                          /\ at'[peer[h]] = "handed" /\ claim[peer[h]] = h /\ channel'[h] = <<>>
        OBVIOUS
      <4>1. /\ at[h] \in {"matched", "pumping"} /\ peer[h] \in Clients
            /\ at[peer[h]] = "handed" /\ claim[peer[h]] = h /\ channel[h] = <<>>
        BY DEF TakenInv, Typed
      <4>2. channel'[h] = <<>>
        BY <2>3, <2>9, <4>1
      <4> QED
        BY <2>8, <4>1, <4>2
    <3>3. /\ \A d \in Clients : at'[d] \in HasTaken => claim[d] \notin waiting
          /\ \A d, e \in Clients :
               at'[d] \in HasTaken /\ at'[e] \in HasTaken /\ claim[d] = claim[e] => d = e
      <4> HIDE DEF HasTaken
      <4> QED
        BY <2>8, Zenon DEF TakenInv
    <3>4. \A h \in Hosts : at'[h] \in {"matched", "pumping"} => peer[h] # None
      BY <2>8, Zenon DEF TakenInv
    <3> HIDE DEF HasTaken, IInv
    <3> QED
      BY <1>1, <3>1, <3>2, <3>3, <3>4, Zenon DEF TakenInv
  <2>11. SocketInv'
    <3>1. \A d \in Conns : at'[d] \in {"unborn", "ended"} => ~socket[d]
      BY <2>2 DEF SocketInv
    <3>2. ASSUME NEW d \in Clients, at'[d] = "handed", socket[d]
          PROVE  at'[claim[d]] # "ended" /\ (channel'[claim[d]] = <<d>> \/ peer[claim[d]] = d)
      <4>1. CASE d = c
        BY <1>3, <2>1, <2>3, <2>8, <4>1, SMTT(60)
      <4>2. CASE d # c
        <5>1. at[d] = "handed" /\ claim[d] # claim[c]
          BY <2>2, <2>7, <3>2, <4>2, SMTT(60)
        <5>2. claim[d] \in Hosts
          BY <5>1 DEF RegisteredInv, Typed
        <5> QED
          BY <2>3, <2>8, <3>2, <5>1, <5>2, SMTT(60) DEF SocketInv
      <4> QED
        BY <4>1, <4>2
    <3>3. main # "ended"
      BY <1>1 DEF SocketInv, IsOver
    <3> QED
      BY <1>1, <3>1, <3>2, <3>3, ZenonT(60) DEF SocketInv
  <2> QED
    BY <2>4, <2>5, <2>6, <2>10, <2>11
<1> QED
  BY <1>2, <1>3 DEF Send

----------------------------------------------------------------------------
\* Every step of every thread keeps the invariant.
LEMMA NextIInv == Counting /\ IInv /\ [Next]_vars => IInv'
<1> SUFFICES ASSUME Counting, IInv, [Next]_vars PROVE IInv'
  OBVIOUS
<1>1. CASE RequestStop \/ MainStep
  BY <1>1, MainIInv, AcceptIInv DEF MainStep
<1>2. ASSUME NEW c \in Conns, WorkerStep(c) PROVE IInv'
  <2>1. CASE Hello(c) \/ Refused(c) \/ Close(c)
    BY <2>1, HelloIInv, CloseIInv
  <2>2. CASE /\ c \in Hosts
             /\ \/ Register(c) \/ Announce(c) \/ Poll(c) \/ Receive(c) \/ Ping(c) \/ Match(c)
                \/ PumpStops(c) \/ Leave(c)
    BY <2>2, RegisterIInv, HostIInv, LeaveIInv DEF PumpStops
  <2>3. CASE c \in Clients /\ Verify(c)
    <3>1. PICK p \in {"taking", "closing"} : at' = [at EXCEPT ![c] = p]
      BY <2>3 DEF Verify
    <3> QED
      BY <2>3, <3>1, ClientMoveIInv, ZenonT(60) DEF Verify, IsOver
  <2>4. CASE c \in Clients /\ (Claim(c) \/ Take(c) \/ Send(c))
    BY <2>4, ClaimIInv, TakeIInv, SendIInv
  <2> QED
    BY <1>2, <2>1, <2>2, <2>3, <2>4 DEF WorkerStep
<1>3. ASSUME NEW h \in Hosts, PumpEnds(h) PROVE IInv'
  BY <1>3, HostIInv
<1>4. CASE UNCHANGED vars
  <2>1. Typed'
    BY <1>4, Zenon DEF vars, IInv, Typed
  <2>2. RegisteredInv' /\ RoutesAreDisjoint'
    BY <1>4, Zenon DEF vars, IInv, RegisteredInv, RoutesAreDisjoint
  <2>3. TakenInv'
    <3>1. TakenInv
      BY DEF IInv
    <3>2. /\ at' = at /\ claim' = claim /\ waiting' = waiting /\ channel' = channel
          /\ peer' = peer
      BY <1>4, Zenon DEF vars
    <3> QED BY <3>1, <3>2 DEF TakenInv
  <2>4. SocketInv'
    BY <1>4, Zenon DEF vars, IInv, SocketInv, IsOver
  <2> QED
    BY <2>1, <2>2, <2>3, <2>4, Zenon DEF IInv
<1> QED
  BY <1>1, <1>2, <1>3, <1>4 DEF Next

-----------------------------------------------------------------------------
(* The results.                                                            *)

Library == INSTANCE FiniteSetTheorems

\* The library's finite sets and their cardinalities are those of the model.
LEMMA SameSets ==
  /\ \A S : Library!IsFiniteSet(S) <=> IsFiniteSet(S)
  /\ \A S : Library!Cardinality(S) = Cardinality(S)
BY DEF Library!IsFiniteSet, IsFiniteSet, Library!Cardinality, Cardinality

\* What the lemmas assumed of finite sets.
LEMMA CountingHolds == Counting
<1>1. /\ Library!Cardinality({}) = 0
      /\ \A S : Library!IsFiniteSet(S) => Library!Cardinality(S) \in Nat
  BY Library!FS_EmptySet, Library!FS_CardinalityType
<1>2. \A S, T : Library!IsFiniteSet(T) /\ S \subseteq T =>
        Library!IsFiniteSet(S) /\ Library!Cardinality(S) <= Library!Cardinality(T)
  BY Library!FS_Subset
<1>3. \A S, x : Library!IsFiniteSet(S) /\ x \notin S =>
        Library!Cardinality(S \cup {x}) = Library!Cardinality(S) + 1
  BY Library!FS_AddElement
<1> QED
  BY <1>1, <1>2, <1>3, SameSets, Zenon DEF Counting

\* The invariant holds in every state of every behaviour.
THEOREM RelayInvariant == Spec => []IInv
<1>1. Init => IInv
  BY CountingHolds, InitIInv
<1>2. IInv /\ [Next]_vars => IInv'
  BY CountingHolds, NextIInv
<1> QED
  BY <1>1, <1>2, PTL DEF Spec

\* The waiting registrations serve disjoint routes and respect MAX_WAITING_HOSTS (handle_host),
\* for any number of Hosts that register, leave and are taken at the same time.
THEOREM RoutesAreDisjointAlways == Spec => []RoutesAreDisjoint
<1>1. IInv => RoutesAreDisjoint
  BY DEF IInv
<1> QED
  BY <1>1, RelayInvariant, PTL

\* The send of handle_client never blocks, and no Host gets a second client, for any number of
\* clients that have cloned the sender of one registration.
THEOREM OneClientPerHostAlways == Spec => []OneClientPerHost
<1>1. IInv => OneClientPerHost
  <2> SUFFICES ASSUME IInv, NEW c \in Clients, at[c] = "sending"
               PROVE  /\ claim[c] \notin waiting
                      /\ channel[claim[c]] = <<>> /\ peer[claim[c]] = None
                      /\ \A d \in Clients \ {c} : claim[d] = claim[c] => at[d] \notin HasTaken
    BY DEF OneClientPerHost
  <2>1. claim[c] \in Hosts
    BY DEF IInv, RegisteredInv, Typed
  <2>2. \A d \in Clients \ {c} : claim[d] = claim[c] => at[d] \notin HasTaken
    BY DEF IInv, TakenInv
  <2>3. channel[claim[c]] = <<>>
    BY <2>1, <2>2 DEF IInv, TakenInv
  <2>4. peer[claim[c]] = None
    BY <2>1, <2>2 DEF IInv, TakenInv, Typed
  <2> QED
    BY <2>2, <2>3, <2>4 DEF IInv, TakenInv
<1> QED
  BY <1>1, RelayInvariant, PTL

\* run() returns after a stop with nothing registered and no stream open, however many
\* connections were being served.
THEOREM EndedIsCleanAlways == Spec => []EndedIsClean
<1>1. IInv => EndedIsClean
  <2> SUFFICES ASSUME IInv, main = "ended" PROVE waiting = {} /\ \A c \in Conns : ~socket[c]
    BY DEF EndedIsClean
  <2> USE Apart DEF IInv
  <2>1. \A c \in Conns : at[c] \in {"unborn", "ended", "handed"}
    BY DEF SocketInv, IsOver
  <2>2. waiting = {}
    BY <2>1, ZenonT(60) DEF RegisteredInv, Typed
  <2>3. \A h \in Hosts : at[h] \in {"unborn", "ended"}
    BY <2>1 DEF RegisteredInv
  <2>4. \A c \in Clients : at[c] = "handed" => at[claim[c]] = "ended"
    BY <2>3, SMTT(60) DEF RegisteredInv, Typed
  <2> QED
    BY <2>1, <2>2, <2>3, <2>4 DEF SocketInv
<1> QED
  BY <1>1, RelayInvariant, PTL

=============================================================================
