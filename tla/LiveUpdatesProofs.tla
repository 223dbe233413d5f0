------------------------- MODULE LiveUpdatesProofs -------------------------
(* Theorems about LiveUpdates, for every set of subscriptions, every limit *)
(* and every bound.                                                        *)
EXTENDS LiveUpdates, FiniteSetTheorems, TLAPS

LEMMA ClientIdsAreNat == ClientIds \subseteq Nat /\ None \notin ClientIds
  BY BoundAssumption DEF ClientIds, None

(* A client's table is finite, so its size is a number.                    *)
LEMMA SizeIsNat ==
    ASSUME NEW S \in SUBSET Subs
    PROVE  IsFiniteSet(S) /\ Cardinality(S) \in Nat
  BY SubsAssumption, FS_Subset, FS_CardinalityType

(* What addClient does to the tables.                                      *)
LEMMA AddClientType ==
    ASSUME TypeOK, AddClient
    PROVE  /\ adding' \in BOOLEAN
           /\ clients' \in SUBSET ClientIds
           /\ clients \subseteq clients'
           /\ socket' \in [ClientIds -> {"free", "connecting", "open", "closed"}]
  BY DEF TypeOK, AddClient, Unused

LEMMA SubscribeType ==
    ASSUME TypeOK, NEW s \in Subs, Subscribe(s)
    PROVE  /\ subs' \in [ClientIds -> SUBSET Subs]
           /\ pending' \in Seq(Subs)
           /\ adding' \in BOOLEAN
           /\ retries' \in Nat
           /\ backlog' \in Int
           /\ clients' \in SUBSET ClientIds
           /\ clients \subseteq clients'
           /\ socket' \in [ClientIds -> {"free", "connecting", "open", "closed"}]
<1>1. CASE IsSubscribed(s)
  BY <1>1 DEF TypeOK, Subscribe, gui
<1>2. CASE TrySubscribe(s) /\ UNCHANGED <<gui, clients, socket>>
  BY <1>2 DEF TypeOK, TrySubscribe, gui
<1>3. CASE /\ AddClient
           /\ pending' = Append(pending, s)
           /\ backlog' = backlog + 1
           /\ UNCHANGED <<subs, retries>>
  BY <1>3, AddClientType DEF TypeOK
<1> QED
  BY <1>1, <1>2, <1>3 DEF Subscribe

(* The backlog without its newest element.                                 *)
LEMMA RestType ==
    ASSUME TypeOK, pending # << >>
    PROVE  /\ Len(pending) \in Nat \ {0}
           /\ pending[Len(pending)] \in Subs
           /\ SubSeq(pending, 1, Len(pending) - 1) \in Seq(Subs)
           /\ Len(SubSeq(pending, 1, Len(pending) - 1)) = Len(pending) - 1
           /\ \A i \in 1 .. Len(pending) - 1 :
                 SubSeq(pending, 1, Len(pending) - 1)[i] = pending[i]
<1> DEFINE n == Len(pending)
<1>1. pending \in Seq(Subs) /\ n \in Nat \ {0} /\ DOMAIN pending = 1 .. n
  BY DEF TypeOK
<1>2. n \in DOMAIN pending /\ n - 1 \in Nat /\ 1 .. n - 1 \subseteq 1 .. n
  BY <1>1
<1>3. \A i \in 1 .. n : pending[i] \in Subs
  BY <1>1
<1>4. SubSeq(pending, 1, n - 1) = [i \in 1 .. n - 1 |-> pending[i]]
  <2>1. (n - 1) - 1 + 1 = n - 1
    BY <1>2
  <2>2. \A i \in 1 .. n - 1 : 1 + i - 1 = i
    BY <1>2
  <2> HIDE DEF n
  <2> QED
    BY <2>1, <2>2, <1>1, <1>2
<1> HIDE DEF n
<1>5. [i \in 1 .. n - 1 |-> pending[i]] \in Seq(Subs)
  BY <1>2, <1>3
<1>6. Len([i \in 1 .. n - 1 |-> pending[i]]) = n - 1
  BY <1>2
<1> QED
  BY <1>1, <1>2, <1>3, <1>4, <1>5, <1>6 DEF n

(* The events left once the first is handled: none of another client's is  *)
(* lost.                                                                   *)
LEMMA TailType ==
    ASSUME TypeOK, posted # << >>
    PROVE  /\ Head(posted) \in Event
           /\ Tail(posted) \in Seq(Event)
           /\ \A e \in Event \ {Head(posted)} :
                 (\E i \in DOMAIN posted : posted[i] = e)
                 => \E i \in DOMAIN Tail(posted) : Tail(posted)[i] = e
<1>1. Head(posted) \in Event /\ Tail(posted) \in Seq(Event) /\ Head(posted) = posted[1]
  BY DEF TypeOK
<1>2. ASSUME NEW e \in Event \ {Head(posted)}, NEW i \in DOMAIN posted, posted[i] = e
      PROVE  \E j \in DOMAIN Tail(posted) : Tail(posted)[j] = e
  <2>1. i \in 1 .. Len(posted) /\ i # 1 /\ Len(posted) \in Nat
    BY <1>1, <1>2 DEF TypeOK
  <2>2. i - 1 \in DOMAIN Tail(posted) /\ Tail(posted)[i - 1] = e
    BY <1>2, <2>1 DEF TypeOK
  <2> QED
    BY <2>2
<1> QED
  BY <1>1, <1>2

(* An event is posted behind those that are there.                         *)
LEMMA PostType ==
    ASSUME TypeOK, NEW e \in Event
    PROVE  /\ Append(posted, e) \in Seq(Event)
           /\ \E i \in DOMAIN Append(posted, e) : Append(posted, e)[i] = e
           /\ \A d \in Event : (\E i \in DOMAIN posted : posted[i] = d)
                 => \E i \in DOMAIN Append(posted, e) : Append(posted, e)[i] = d
<1>1. /\ Append(posted, e) \in Seq(Event) /\ Len(posted) \in Nat
      /\ DOMAIN Append(posted, e) = 1 .. Len(posted) + 1
      /\ DOMAIN posted = 1 .. Len(posted)
      /\ Append(posted, e)[Len(posted) + 1] = e
      /\ \A i \in 1 .. Len(posted) : Append(posted, e)[i] = posted[i]
  BY DEF TypeOK
<1>2. Len(posted) + 1 \in 1 .. Len(posted) + 1 /\ 1 .. Len(posted) \subseteq 1 .. Len(posted) + 1
  BY <1>1
<1> QED
  BY <1>1, <1>2

LEMMA OrdersType ==
    ASSUME NEW S \in SUBSET Subs, NEW q \in Orders(S)
    PROVE  /\ q \in Seq(Subs) /\ Len(q) = Cardinality(S)
           /\ DOMAIN q = 1 .. Len(q)
           /\ \A i \in DOMAIN q : q[i] \in S
           /\ \A s \in S : \E i \in DOMAIN q : q[i] = s
           /\ \A i, j \in DOMAIN q : q[i] = q[j] => i = j
  BY SizeIsNat DEF Orders

LEMMA CloseType ==
    ASSUME TypeOK, OnConnectionClose
    PROVE  TypeOK'
<1> DEFINE id == Head(posted).id
<1>1. Head(posted) \in Event /\ Tail(posted) \in Seq(Event)
  BY TailType DEF OnConnectionClose
<1>2. id \in ClientIds
  BY <1>1 DEF Event
<1>3. subs[id] \in SUBSET Subs /\ Cardinality(subs[id]) \in Nat
  BY <1>2, SizeIsNat DEF TypeOK
<1> HIDE DEF id
<1>4. CASE id \notin clients
  BY <1>1, <1>2, <1>4 DEF TypeOK, OnConnectionClose, gui, id
<1>5. CASE id \in clients
  <2>1. /\ EraseClient(id)
        /\ posted' = Tail(posted)
        /\ socket' = [socket EXCEPT ![id] = "free"]
        /\ UNCHANGED <<joined, stopping, filling, take, faults, joins>>
    BY <1>5 DEF OnConnectionClose, id
  <2>2. /\ joined' \in SUBSET Subs /\ clients' \in SUBSET ClientIds
        /\ open' \in SUBSET clients' /\ subs' \in [ClientIds -> SUBSET Subs]
        /\ adding' \in BOOLEAN /\ stopping' \in BOOLEAN
        /\ filling' \in ClientIds \cup {None} /\ take' \in 0 .. MaxSubscriptions
        /\ posted' \in Seq(Event)
        /\ socket' \in [ClientIds -> {"free", "connecting", "open", "closed"}]
        /\ faults' \in Nat /\ joins' \in Nat
    BY <1>1, <2>1 DEF TypeOK, EraseClient
  <2>4. pending' \in Seq(Subs) /\ retries' \in Nat /\ backlog' \in Int /\ moving' \in SUBSET Subs
    <3>1. CASE stopping
      BY <1>5, <3>1 DEF TypeOK, OnConnectionClose, id
    <3>2. CASE ~stopping /\ id \notin open
      <4>1. PICK q \in Orders(subs[id]) : pending' = pending \o q
        BY <1>5, <3>2 DEF OnConnectionClose, id
      <4>2. q \in Seq(Subs)
        BY <1>3, OrdersType
      <4>3. /\ backlog' = backlog + Cardinality(subs[id])
            /\ retries' = retries + 1
            /\ UNCHANGED moving
        BY <1>5, <3>2 DEF OnConnectionClose, id
      <4> QED
        BY <1>3, <4>1, <4>2, <4>3 DEF TypeOK
    <3>3. CASE ~stopping /\ id \in open
      BY <1>3, <1>5, <3>3 DEF TypeOK, OnConnectionClose, id
    <3> QED
      BY <3>1, <3>2, <3>3
  <2> QED
    BY <2>2, <2>4 DEF TypeOK
<1> QED
  BY <1>4, <1>5

LEMMA FillNextType ==
    ASSUME TypeOK, FillNext
    PROVE  TypeOK'
<1> DEFINE last == pending[Len(pending)]
           rest == SubSeq(pending, 1, Len(pending) - 1)
<1>1. last \in Subs /\ rest \in Seq(Subs)
  BY RestType DEF FillNext
<1>2. filling \in ClientIds /\ take - 1 \in 0 .. MaxSubscriptions /\ 0 \in 0 .. MaxSubscriptions
  BY LimitAssumption DEF TypeOK, FillNext
<1>3. /\ pending' \in {pending, rest}
      /\ subs' \in {subs, [subs EXCEPT ![filling] = @ \cup {last}]}
      /\ take' \in {take, take - 1, 0}
      /\ backlog' \in {backlog, backlog - 1}
  BY DEF FillNext
<1>4. subs' \in [ClientIds -> SUBSET Subs]
  BY <1>1, <1>2, <1>3 DEF TypeOK
<1>5. take' \in 0 .. MaxSubscriptions
  BY <1>2, <1>3 DEF TypeOK
<1>6. backlog' \in Int
  BY <1>3 DEF TypeOK
<1>7. pending' \in Seq(Subs)
  BY <1>1, <1>3 DEF TypeOK
<1> QED
  BY <1>4, <1>5, <1>6, <1>7 DEF TypeOK, FillNext

(* Every reachable state has its type; no client is filled with more at a  *)
(* time than its limit.                                                    *)
THEOREM TypeCorrect == Spec => []TypeOK
<1>1. Init => TypeOK
  <2>1. 0 \in 0 .. MaxSubscriptions
    BY LimitAssumption
  <2>2. Init => /\ subs \in [ClientIds -> SUBSET Subs]
                /\ socket \in [ClientIds -> {"free", "connecting", "open", "closed"}]
                /\ pending \in Seq(Subs) /\ posted \in Seq(Event)
    BY DEF Init
  <2>3. Init => /\ joined \in SUBSET Subs /\ clients \in SUBSET ClientIds
                /\ open \in SUBSET clients /\ moving \in SUBSET Subs
                /\ adding \in BOOLEAN /\ stopping \in BOOLEAN
                /\ filling \in ClientIds \cup {None}
    BY DEF Init
  <2>4. Init => /\ retries \in Nat /\ take \in 0 .. MaxSubscriptions /\ faults \in Nat
                /\ joins \in Nat /\ backlog \in Int
    BY <2>1 DEF Init
  <2> QED
    BY <2>2, <2>3, <2>4 DEF TypeOK
<1>2. TypeOK /\ [Next]_vars => TypeOK'
  <2> SUFFICES ASSUME TypeOK, [Next]_vars PROVE TypeOK'
    OBVIOUS
  <2>1. ASSUME NEW s \in Subs, Join(s) PROVE TypeOK'
    BY <2>1, SubscribeType DEF TypeOK, Join
  <2>2. ASSUME NEW s \in Subs, Part(s) PROVE TypeOK'
    BY <2>2 DEF TypeOK, Part, Unsubscribe, gui
  <2>3. CASE Stop
    BY <2>3 DEF TypeOK, Stop, gui
  <2>4. CASE OnConnectionOpen
    <3>1. Head(posted) \in Event /\ Tail(posted) \in Seq(Event)
      BY <2>4, TailType DEF OnConnectionOpen
    <3>2. Head(posted).id \in ClientIds
      BY <3>1 DEF Event
    <3>3. PendingSubsToTake \in 0 .. MaxSubscriptions
      BY LimitAssumption DEF PendingSubsToTake, TypeOK
    <3>5. take' \in 0 .. MaxSubscriptions /\ filling' \in ClientIds \cup {None}
      BY <2>4, <3>2, <3>3 DEF TypeOK, OnConnectionOpen
    <3> QED
      BY <2>4, <3>1, <3>2, <3>5 DEF TypeOK, OnConnectionOpen
  <2>5. CASE FillNext
    BY <2>5, FillNextType
  <2>6. CASE FillDone
    <3>1. /\ adding' \in BOOLEAN /\ clients' \in SUBSET ClientIds /\ clients \subseteq clients'
          /\ socket' \in [ClientIds -> {"free", "connecting", "open", "closed"}]
      BY <2>6, AddClientType DEF TypeOK, FillDone
    <3>2. take' \in 0 .. MaxSubscriptions
      BY <2>6, LimitAssumption DEF FillDone
    <3> QED
      BY <2>6, <3>1, <3>2 DEF TypeOK, FillDone
  <2>7. CASE OnConnectionClose
    BY <2>7, CloseType
  <2>8. CASE MoveNext
    <3>1. PICK s \in moving : moving' = moving \ {s} /\ Subscribe(s)
      BY <2>8 DEF MoveNext
    <3>2. s \in Subs
      BY DEF TypeOK
    <3> QED
      BY <2>8, <3>1, <3>2, SubscribeType DEF TypeOK, MoveNext
  <2>9. CASE RetryTimer
    <3>1. retries' \in Nat
      BY <2>9 DEF TypeOK, RetryTimer
    <3> QED
      BY <2>9, <3>1, AddClientType DEF TypeOK, RetryTimer
  <2>10. ASSUME NEW c \in ClientIds, SocketOpens(c) PROVE TypeOK'
    <3>1. [what |-> "open", id |-> c] \in Event
      BY DEF Event
    <3> QED
      BY <2>10, <3>1, PostType DEF TypeOK, SocketOpens, gui
  <2>11. ASSUME NEW c \in ClientIds, SocketCloses(c) PROVE TypeOK'
    <3>1. [what |-> "close", id |-> c] \in Event
      BY DEF Event
    <3>2. faults' \in Nat
      BY <2>11 DEF TypeOK, SocketCloses
    <3> QED
      BY <2>11, <3>1, <3>2, PostType DEF TypeOK, SocketCloses, gui
  <2>12. CASE UNCHANGED vars
    BY <2>12 DEF TypeOK, vars, gui
  <2> QED
    BY <2>1, <2>2, <2>3, <2>4, <2>5, <2>6, <2>7, <2>8, <2>9, <2>10, <2>11, <2>12
       DEF Next, Application, Manager, Sockets
<1> QED
  BY <1>1, <1>2, PTL DEF Spec

-----------------------------------------------------------------------------
(* A subscription is in one place.                                         *)

(* While onConnectionOpen runs, its client is open and nothing else goes   *)
(* on; a client that is not there carries nothing.                         *)
Tables ==
    /\ filling # None => filling \in open /\ moving = {} /\ ~adding
    /\ \A c \in ClientIds \ clients : subs[c] = {}

(* A new client carries nothing.                                           *)
LEMMA AddClientPlaces ==
    ASSUME TypeOK, Tables, AddClient, subs' = subs
    PROVE  /\ \A t \in Subs : Carried(t)' <=> Carried(t)
           /\ \A c \in clients' \ clients : subs[c] = {}
           /\ \A c \in ClientIds \ clients' : subs[c] = {}
<1>1. CASE UNCHANGED <<adding, clients, socket>>
  BY <1>1 DEF Tables, Carried
<1>2. CASE \E id \in Unused : clients' = clients \cup {id}
  BY <1>2 DEF TypeOK, Tables, Carried, Unused
<1> QED
  BY <1>1, <1>2 DEF AddClient

LEMMA AppendWaits ==
    ASSUME TypeOK, NEW s \in Subs, pending' = Append(pending, s), ~Waits(s), OnePlaceEach
    PROVE  /\ \A t \in Subs : Waits(t)' <=> Waits(t) \/ t = s
           /\ \A t \in Subs : \A i, j \in DOMAIN pending' :
                 pending'[i] = t /\ pending'[j] = t => i = j
<1>1. /\ Len(pending) \in Nat /\ DOMAIN pending = 1 .. Len(pending)
      /\ DOMAIN pending' = 1 .. Len(pending) + 1
      /\ pending'[Len(pending) + 1] = s
      /\ \A i \in 1 .. Len(pending) : pending'[i] = pending[i]
  BY DEF TypeOK
<1>2. \A i \in DOMAIN pending' : i \in DOMAIN pending \/ i = Len(pending) + 1
  BY <1>1
<1>3. DOMAIN pending \subseteq DOMAIN pending' /\ Len(pending) + 1 \in DOMAIN pending'
  BY <1>1
<1>4. \A i \in DOMAIN pending : pending'[i] = pending[i] /\ pending[i] # s
  BY <1>1 DEF Waits
<1>5. \A t \in Subs : Waits(t)' <=> Waits(t) \/ t = s
  BY <1>1, <1>2, <1>3, <1>4 DEF Waits
<1>6. \A t \in Subs : \A i, j \in DOMAIN pending' : pending'[i] = t /\ pending'[j] = t => i = j
  BY <1>1, <1>2, <1>3, <1>4 DEF OnePlaceEach
<1> QED
  BY <1>5, <1>6

LEMMA SubscribePlaces ==
    ASSUME TypeOK, Tables, OnePlaceEach, NEW s \in Subs, Subscribe(s),
           moving' = moving \ {s}
    PROVE  /\ OnePlaceEach'
           /\ \A c \in ClientIds \ clients' : subs'[c] = {}
<1>1. CASE IsSubscribed(s)
  <2>1. UNCHANGED <<subs, pending, clients>>
    BY <1>1 DEF Subscribe, gui
  <2> QED
    BY <2>1 DEF OnePlaceEach, Carried, Waits, Tables
<1>2. CASE ~IsSubscribed(s) /\ TrySubscribe(s) /\ UNCHANGED <<gui, clients, socket>>
  <2>1. PICK c \in clients : subs' = [subs EXCEPT ![c] = @ \cup {s}]
    BY <1>2 DEF TrySubscribe
  <2>2. UNCHANGED <<pending, clients>>
    BY <1>2 DEF gui
  <2>3. \A d \in clients : s \notin subs[d]
    BY <1>2 DEF IsSubscribed, Carried
  <2>4. \A d \in clients : subs'[d] = IF d = c THEN subs[d] \cup {s} ELSE subs[d]
    BY <2>1 DEF TypeOK
  <2>5. \A d \in ClientIds \ clients' : subs'[d] = {}
    BY <2>1, <2>2 DEF TypeOK, Tables
  <2>6. ~Waits(s)
    BY <1>2 DEF IsSubscribed
  <2>7. \A t \in Subs : Carried(t)' => Carried(t) \/ t = s
    BY <2>2, <2>4 DEF Carried
  <2>8. \A t \in Subs : Waits(t)' <=> Waits(t)
    BY <2>2 DEF Waits
  <2>9. ASSUME NEW t \in Subs, NEW d \in clients, NEW e \in clients,
               t \in subs'[d], t \in subs'[e]
        PROVE  d = e
    <3>1. CASE t = s
      BY <2>3, <2>4, <2>9, <3>1
    <3>2. CASE t # s
      <4>1. ASSUME NEW f \in clients, t \in subs'[f] PROVE t \in subs[f]
        <5>1. subs'[f] = subs[f] \/ subs'[f] = subs[f] \cup {s}
          BY <2>4
        <5> QED
          BY <3>2, <4>1, <5>1
      <4>2. t \in subs[d] /\ t \in subs[e]
        BY <2>9, <4>1
      <4> QED
        BY <4>2 DEF OnePlaceEach
    <3> QED
      BY <3>1, <3>2
  <2>10. \A t \in Subs : \A i, j \in DOMAIN pending' : pending'[i] = t /\ pending'[j] = t => i = j
    BY <2>2 DEF OnePlaceEach
  <2> QED
    BY <2>2, <2>5, <2>6, <2>7, <2>8, <2>9, <2>10 DEF OnePlaceEach
<1>3. CASE /\ ~IsSubscribed(s)
           /\ AddClient
           /\ pending' = Append(pending, s)
           /\ UNCHANGED <<subs, retries>>
  <2>1. /\ \A t \in Subs : Carried(t)' <=> Carried(t)
        /\ \A c \in clients' \ clients : subs[c] = {}
        /\ \A c \in ClientIds \ clients' : subs[c] = {}
    BY <1>3, AddClientPlaces
  <2>2. /\ \A t \in Subs : Waits(t)' <=> Waits(t) \/ t = s
        /\ \A t \in Subs : \A i, j \in DOMAIN pending' :
              pending'[i] = t /\ pending'[j] = t => i = j
    BY <1>3, AppendWaits DEF IsSubscribed
  <2>3. ~Carried(s) /\ subs' = subs
    BY <1>3 DEF IsSubscribed
  <2>4. \A t \in Subs : \A c, d \in clients' : t \in subs'[c] /\ t \in subs'[d] => c = d
    BY <2>1, <2>3 DEF OnePlaceEach
  <2> QED
    BY <2>1, <2>2, <2>3, <2>4 DEF OnePlaceEach
<1> QED
  BY <1>1, <1>2, <1>3 DEF Subscribe

(* The backlog without its newest element holds everything else once.      *)
LEMMA RestWaits ==
    ASSUME TypeOK, OnePlaceEach, pending # << >>,
           pending' = SubSeq(pending, 1, Len(pending) - 1)
    PROVE  /\ \A t \in Subs : Waits(t)' <=> Waits(t) /\ t # pending[Len(pending)]
           /\ \A t \in Subs : \A i, j \in DOMAIN pending' :
                 pending'[i] = t /\ pending'[j] = t => i = j
<1> DEFINE n == Len(pending)
<1>1. n \in Nat \ {0} /\ DOMAIN pending = 1 .. n /\ pending[n] \in Subs
  BY RestType DEF TypeOK
<1>2. DOMAIN pending' = 1 .. n - 1 /\ \A i \in 1 .. n - 1 : pending'[i] = pending[i]
  BY RestType
<1> HIDE DEF n
<1>3. n \in DOMAIN pending /\ 1 .. n - 1 \subseteq 1 .. n /\ n \notin 1 .. n - 1
      /\ \A i \in 1 .. n : i = n \/ i \in 1 .. n - 1
  BY <1>1
<1>4. \A i \in 1 .. n - 1 : pending[i] # pending[n]
  BY <1>1, <1>3 DEF OnePlaceEach
<1>5. \A t \in Subs : Waits(t)' <=> Waits(t) /\ t # pending[n]
  BY <1>1, <1>2, <1>3, <1>4 DEF Waits
<1>6. \A t \in Subs : \A i, j \in DOMAIN pending' : pending'[i] = t /\ pending'[j] = t => i = j
  BY <1>1, <1>2, <1>3 DEF OnePlaceEach
<1> QED
  BY <1>5, <1>6 DEF n

LEMMA FillNextPlaces ==
    ASSUME TypeOK, Tables, OnePlaceEach, FillNext
    PROVE  OnePlaceEach' /\ Tables'
<1> DEFINE last == pending[Len(pending)]
<1>0. /\ last \in Subs /\ Waits(last) /\ filling \in clients /\ clients \subseteq ClientIds
      /\ filling # None
  <2>1. Len(pending) \in DOMAIN pending /\ last \in Subs
    BY RestType DEF FillNext, TypeOK
  <2> QED
    BY <2>1 DEF Waits, Tables, TypeOK, FillNext
<1>1. /\ UNCHANGED <<clients, open, adding, filling, moving>>
      /\ moving = {}
  BY <1>0 DEF FillNext, Tables
<1>2. ~Carried(last)
  BY <1>0 DEF OnePlaceEach
<1>3. CASE UNCHANGED <<pending, subs>>
  BY <1>1, <1>3 DEF OnePlaceEach, Tables, Carried, Waits
<1>4. CASE /\ pending' = SubSeq(pending, 1, Len(pending) - 1)
           /\ subs' \in {subs, [subs EXCEPT ![filling] = @ \cup {last}]}
  <2>1. /\ \A t \in Subs : Waits(t)' <=> Waits(t) /\ t # last
        /\ \A t \in Subs : \A i, j \in DOMAIN pending' :
              pending'[i] = t /\ pending'[j] = t => i = j
    BY <1>4, RestWaits DEF FillNext
  <2>2. /\ \A d \in clients : subs'[d] = subs[d] \/ (d = filling /\ subs'[d] = subs[d] \cup {last})
        /\ \A d \in ClientIds \ clients : subs'[d] = subs[d]
    BY <1>0, <1>4 DEF TypeOK
  <2>3. \A d \in clients : last \notin subs[d]
    BY <1>2 DEF Carried
  <2>4. \A t \in Subs : \A c, d \in clients' : t \in subs'[c] /\ t \in subs'[d] => c = d
    BY <1>1, <2>2, <2>3 DEF OnePlaceEach
  <2>5. \A t \in Subs : Carried(t)' => Carried(t) \/ t = last
    BY <1>1, <2>2 DEF Carried
  <2>6. Tables'
    BY <1>1, <2>2 DEF Tables
  <2> HIDE DEF last
  <2> QED
    BY <1>1, <2>1, <2>4, <2>5, <2>6 DEF OnePlaceEach
<1> QED
  BY <1>3, <1>4 DEF FillNext

(* A failed client's subscriptions join the backlog, where they were not.  *)
LEMMA ConcatWaits ==
    ASSUME TypeOK, OnePlaceEach, NEW id \in clients, NEW q \in Orders(subs[id]),
           pending' = pending \o q
    PROVE  /\ \A t \in Subs : Waits(t)' <=> Waits(t) \/ t \in subs[id]
           /\ \A t \in Subs : \A i, j \in DOMAIN pending' :
                 pending'[i] = t /\ pending'[j] = t => i = j
<1> DEFINE n == Len(pending)
           m == Len(q)
<1>1. subs[id] \in SUBSET Subs
  BY DEF TypeOK
<1>2. /\ q \in Seq(Subs) /\ DOMAIN q = 1 .. m /\ m \in Nat
      /\ \A i \in 1 .. m : q[i] \in subs[id]
      /\ \A s \in subs[id] : \E i \in 1 .. m : q[i] = s
      /\ \A i, j \in 1 .. m : q[i] = q[j] => i = j
  BY <1>1, OrdersType
<1>3. /\ n \in Nat /\ DOMAIN pending = 1 .. n
      /\ DOMAIN pending' = 1 .. n + m
      /\ \A i \in 1 .. n + m : pending'[i] = IF i <= n THEN pending[i] ELSE q[i - n]
  BY <1>2 DEF TypeOK
<1> HIDE DEF n, m
<1>4. \A i \in 1 .. n + m : \/ i \in 1 .. n /\ pending'[i] = pending[i]
                            \/ i > n /\ i - n \in 1 .. m /\ pending'[i] = q[i - n]
  BY <1>2, <1>3
<1>5. \A i \in 1 .. n : i \in 1 .. n + m /\ pending'[i] = pending[i]
  BY <1>2, <1>3
<1>6. \A j \in 1 .. m : n + j \in 1 .. n + m /\ pending'[n + j] = q[j]
  <2> TAKE j \in 1 .. m
  <2>1. n + j \in 1 .. n + m /\ ~(n + j <= n) /\ (n + j) - n = j
    BY <1>2, <1>3
  <2> QED
    BY <1>3, <2>1
<1>7. \A t \in subs[id] : \A i \in 1 .. n : pending[i] # t
  BY <1>1, <1>3 DEF OnePlaceEach, Carried, Waits
<1>8. \A t \in Subs : Waits(t)' <=> Waits(t) \/ t \in subs[id]
  <2> TAKE t \in Subs
  <2>1. Waits(t)' => Waits(t) \/ t \in subs[id]
    BY <1>2, <1>3, <1>4 DEF Waits
  <2>2. Waits(t) => Waits(t)'
    BY <1>3, <1>5 DEF Waits
  <2>3. t \in subs[id] => Waits(t)'
    <3>1. ASSUME NEW j \in 1 .. m, q[j] = t
          PROVE  n + j \in DOMAIN pending' /\ pending'[n + j] = t
      BY <1>3, <1>6, <3>1
    <3> QED
      BY <1>2, <3>1 DEF Waits
  <2> QED
    BY <2>1, <2>2, <2>3
<1>9. ASSUME NEW t \in Subs, NEW i \in 1 .. n + m, NEW j \in 1 .. n + m,
             pending'[i] = t, pending'[j] = t
      PROVE  i = j
  <2>1. CASE i \in 1 .. n /\ j \in 1 .. n
    BY <1>3, <1>5, <1>9, <2>1 DEF OnePlaceEach
  <2>2. CASE i > n /\ j > n
    <3>1. i - n \in 1 .. m /\ j - n \in 1 .. m /\ q[i - n] = q[j - n]
      BY <1>2, <1>3, <1>4, <1>9, <2>2
    <3>2. i - n = j - n
      BY <1>2, <3>1
    <3> QED
      BY <1>2, <1>3, <3>2
  <2>3. CASE i \in 1 .. n /\ j > n
    BY <1>2, <1>3, <1>4, <1>5, <1>7, <1>9, <2>3
  <2>4. CASE i > n /\ j \in 1 .. n
    BY <1>2, <1>3, <1>4, <1>5, <1>7, <1>9, <2>4
  <2> QED
    BY <1>4, <2>1, <2>2, <2>3, <2>4
<1> QED
  BY <1>3, <1>8, <1>9

LEMMA ClosePlaces ==
    ASSUME TypeOK, Tables, OnePlaceEach, OnConnectionClose
    PROVE  OnePlaceEach' /\ Tables'
<1> DEFINE id == Head(posted).id
<1>0. filling = None /\ moving = {} /\ UNCHANGED filling
  BY DEF OnConnectionClose, Idle
<1>1. CASE id \notin clients
  BY <1>0, <1>1 DEF OnConnectionClose, OnePlaceEach, Tables, Carried, Waits, gui
<1>2. CASE id \in clients
  <2>1. clients' = clients \ {id} /\ \A c \in ClientIds : subs'[c] = IF c = id THEN {} ELSE subs[c]
    BY <1>2 DEF OnConnectionClose, EraseClient, TypeOK
  <2>2. Tables'
    BY <1>0, <2>1 DEF Tables
  <2>3. \A t \in Subs : Carried(t)' => Carried(t) /\ t \notin subs[id]
    <3> HIDE DEF id
    <3> QED
      BY <1>2, <2>1 DEF Carried, OnePlaceEach, TypeOK
  <2>4. \A t \in Subs : \A c, d \in clients' : t \in subs'[c] /\ t \in subs'[d] => c = d
    <3> HIDE DEF id
    <3> QED
      BY <2>1 DEF OnePlaceEach, TypeOK
  <2>5. \A t \in subs[id] : ~Waits(t) /\ t \in Subs
    <3> HIDE DEF id
    <3> QED
      BY <1>2 DEF OnePlaceEach, Carried, TypeOK
  <2>6. CASE \/ UNCHANGED <<pending, moving>>
             \/ UNCHANGED pending /\ moving' = subs[id]
    <3>1. \A t \in Subs : Waits(t)' <=> Waits(t)
      BY <2>6 DEF Waits
    <3>2. \A t \in Subs : \A i, j \in DOMAIN pending' : pending'[i] = t /\ pending'[j] = t => i = j
      BY <2>6 DEF OnePlaceEach
    <3>3. moving' \in {{}, subs[id]}
      BY <1>0, <2>6
    <3> HIDE DEF id
    <3> QED
      BY <2>2, <2>3, <2>4, <2>5, <3>1, <3>2, <3>3 DEF OnePlaceEach
  <2>7. CASE UNCHANGED moving /\ \E q \in Orders(subs[id]) : pending' = pending \o q
    <3>1. PICK q \in Orders(subs[id]) : pending' = pending \o q
      BY <2>7
    <3>2. /\ \A t \in Subs : Waits(t)' <=> Waits(t) \/ t \in subs[id]
          /\ \A t \in Subs : \A i, j \in DOMAIN pending' :
                pending'[i] = t /\ pending'[j] = t => i = j
      BY <1>2, <3>1, ConcatWaits
    <3>3. moving' = {}
      BY <1>0, <2>7
    <3> HIDE DEF id
    <3> QED
      BY <2>2, <2>3, <2>4, <3>2, <3>3 DEF OnePlaceEach
  <2> QED
    BY <1>2, <2>6, <2>7 DEF OnConnectionClose
<1> QED
  BY <1>1, <1>2

(* Every subscription is in one place: on one client, once in the backlog, *)
(* or being moved.                                                         *)
THEOREM OnePlace == Spec => [](OnePlaceEach /\ Tables)
<1>1. Init => OnePlaceEach /\ Tables
  BY DEF Init, OnePlaceEach, Tables, Carried, Waits
<1>2. TypeOK /\ OnePlaceEach /\ Tables /\ [Next]_vars => OnePlaceEach' /\ Tables'
  <2> SUFFICES ASSUME TypeOK, OnePlaceEach, Tables, [Next]_vars PROVE OnePlaceEach' /\ Tables'
    OBVIOUS
  <2>1. ASSUME NEW s \in Subs, Join(s) PROVE OnePlaceEach' /\ Tables'
    <3>1. Subscribe(s) /\ moving' = moving \ {s} /\ filling' = None
      BY <2>1 DEF Join, Idle
    <3>2. OnePlaceEach' /\ \A c \in ClientIds \ clients' : subs'[c] = {}
      BY <3>1, SubscribePlaces
    <3> QED
      BY <3>1, <3>2 DEF Tables
  <2>2. ASSUME NEW s \in Subs, Part(s) PROVE OnePlaceEach' /\ Tables'
    <3>1. /\ UNCHANGED <<clients, open, pending, adding, filling, moving>>
          /\ \A c \in ClientIds : subs'[c] \subseteq subs[c]
      BY <2>2 DEF Part, Unsubscribe, TypeOK, gui
    <3>2. \A t \in Subs : Carried(t)' => Carried(t)
      BY <3>1 DEF Carried, TypeOK
    <3>3. \A t \in Subs : Waits(t)' <=> Waits(t)
      BY <3>1 DEF Waits
    <3>4. Tables'
      BY <3>1 DEF Tables
    <3>5. \A t \in Subs : \A c, d \in clients' : t \in subs'[c] /\ t \in subs'[d] => c = d
      BY <3>1 DEF OnePlaceEach, TypeOK
    <3>6. \A t \in Subs : \A i, j \in DOMAIN pending' : pending'[i] = t /\ pending'[j] = t => i = j
      BY <3>1 DEF OnePlaceEach
    <3> QED
      BY <3>1, <3>2, <3>3, <3>4, <3>5, <3>6 DEF OnePlaceEach
  <2>3. CASE Stop
    BY <2>3 DEF Stop, OnePlaceEach, Tables, Carried, Waits, gui
  <2>4. CASE OnConnectionOpen
    <3>1. UNCHANGED <<clients, subs, pending, moving>> /\ moving = {} /\ filling = None
      BY <2>4 DEF OnConnectionOpen, Idle
    <3>2. OnePlaceEach'
      BY <3>1 DEF OnePlaceEach, Carried, Waits
    <3>3. filling' = None \/ (filling' \in open' /\ ~adding')
      BY <2>4, <3>1 DEF OnConnectionOpen
    <3>4. Tables'
      BY <3>1, <3>3 DEF Tables
    <3> QED
      BY <3>2, <3>4
  <2>5. CASE FillNext
    BY <2>5, FillNextPlaces
  <2>6. CASE FillDone
    <3>1. UNCHANGED <<subs, pending, moving>> /\ filling' = None
      BY <2>6 DEF FillDone
    <3>2. CASE UNCHANGED clients
      BY <3>1, <3>2 DEF OnePlaceEach, Tables, Carried, Waits
    <3>3. CASE AddClient
      BY <3>1, <3>3, AddClientPlaces DEF OnePlaceEach, Tables, Waits
    <3> QED
      BY <2>6, <3>2, <3>3 DEF FillDone
  <2>7. CASE OnConnectionClose
    BY <2>7, ClosePlaces
  <2>8. CASE MoveNext
    <3>1. PICK s \in moving : moving' = moving \ {s} /\ Subscribe(s)
      BY <2>8 DEF MoveNext
    <3>2. s \in Subs /\ filling = None /\ filling' = None
      BY <2>8, <3>1 DEF MoveNext, TypeOK, Tables
    <3>3. OnePlaceEach' /\ \A c \in ClientIds \ clients' : subs'[c] = {}
      BY <3>1, <3>2, SubscribePlaces
    <3> QED
      BY <3>2, <3>3 DEF Tables
  <2>9. CASE RetryTimer
    <3>1. UNCHANGED <<subs, pending, moving, filling>> /\ filling = None /\ AddClient
      BY <2>9 DEF RetryTimer, Idle
    <3> QED
      BY <3>1, AddClientPlaces DEF OnePlaceEach, Tables, Waits
  <2>10. ASSUME NEW c \in ClientIds, SocketOpens(c) \/ SocketCloses(c)
         PROVE  OnePlaceEach' /\ Tables'
    BY <2>10 DEF SocketOpens, SocketCloses, OnePlaceEach, Tables, Carried, Waits, gui
  <2>11. CASE UNCHANGED vars
    BY <2>11 DEF OnePlaceEach, Tables, Carried, Waits, vars, gui
  <2> QED
    BY <2>1, <2>2, <2>3, <2>4, <2>5, <2>6, <2>7, <2>8, <2>9, <2>10, <2>11
       DEF Next, Application, Manager, Sockets
<1> QED
  BY <1>1, <1>2, TypeCorrect, PTL DEF Spec

-----------------------------------------------------------------------------
(* A backlog always has somebody to wait for.                              *)

LEMMA AddClientPursues ==
    ASSUME TypeOK, AddingEnds, AddClient, UNCHANGED <<open, posted>>
    PROVE  /\ AddingEnds'
           /\ ~stopping => \E c \in clients' \ open' : OnItsWay(c)'
<1>1. CASE adding
  BY <1>1 DEF AddClient, AddingEnds, OnItsWay, OpenIsPosted, CloseIsPosted
<1>2. CASE ~adding /\ stopping
  BY <1>2 DEF AddClient, AddingEnds
<1>3. CASE ~adding /\ ~stopping
  <2>1. PICK id \in Unused : /\ clients' = clients \cup {id}
                             /\ socket' = [socket EXCEPT ![id] = "connecting"]
    BY <1>3 DEF AddClient
  <2>2. id \in clients' \ open' /\ socket'[id] = "connecting"
    BY <2>1 DEF Unused, TypeOK
  <2> QED
    BY <2>2 DEF AddingEnds, OnItsWay
<1> QED
  BY <1>1, <1>2, <1>3

(* Handling one client's event leaves every other client on its way.       *)
LEMMA OthersStayOnTheirWay ==
    ASSUME TypeOK, posted # << >>, posted' = Tail(posted),
           NEW c \in ClientIds, c # Head(posted).id, socket'[c] = socket[c], OnItsWay(c)
    PROVE  OnItsWay(c)'
<1> DEFINE o == [what |-> "open", id |-> c]
           x == [what |-> "close", id |-> c]
<1>1. o \in Event \ {Head(posted)} /\ x \in Event \ {Head(posted)}
  BY DEF Event
<1>2. /\ (\E i \in DOMAIN posted : posted[i] = o)
             => \E i \in DOMAIN Tail(posted) : Tail(posted)[i] = o
      /\ (\E i \in DOMAIN posted : posted[i] = x)
             => \E i \in DOMAIN Tail(posted) : Tail(posted)[i] = x
  BY <1>1, TailType
<1> QED
  BY <1>2 DEF OnItsWay, OpenIsPosted, CloseIsPosted

LEMMA SubscribePursues ==
    ASSUME TypeOK, AddingEnds, BacklogIsPursued, NEW s \in Subs, Subscribe(s),
           filling = None, UNCHANGED <<open, posted, stopping, filling>>
    PROVE  AddingEnds' /\ BacklogIsPursued'
<1>1. CASE UNCHANGED <<gui, clients, socket>>
  BY <1>1 DEF AddingEnds, BacklogIsPursued, OnItsWay, OpenIsPosted, CloseIsPosted, gui
<1>2. CASE AddClient
  BY <1>2, AddClientPursues DEF BacklogIsPursued
<1> QED
  BY <1>1, <1>2 DEF Subscribe

LEMMA OpenPursues ==
    ASSUME TypeOK, AddingEnds, BacklogIsPursued, OnConnectionOpen
    PROVE  AddingEnds' /\ BacklogIsPursued'
<1> DEFINE id == Head(posted).id
<1>1. filling = None /\ UNCHANGED <<clients, socket, pending, retries, stopping>>
  BY DEF OnConnectionOpen, Idle
<1>2. CASE id \notin clients
  <2>1. UNCHANGED <<open, adding, filling>>
    BY <1>2 DEF OnConnectionOpen
  <2>2. \A c \in clients \ open : OnItsWay(c) => OnItsWay(c)'
    BY <1>1, <1>2, OthersStayOnTheirWay DEF OnConnectionOpen, TypeOK
  <2> QED
    BY <1>1, <2>1, <2>2 DEF AddingEnds, BacklogIsPursued
<1>3. CASE id \in clients
  <2>1. ~adding' /\ filling' = id /\ id \in ClientIds
    BY <1>3 DEF OnConnectionOpen, TypeOK
  <2>2. filling' # None
    BY <2>1, ClientIdsAreNat
  <2> QED
    BY <2>1, <2>2 DEF AddingEnds, BacklogIsPursued
<1> QED
  BY <1>2, <1>3

LEMMA ClosePursues ==
    ASSUME TypeOK, AddingEnds, BacklogIsPursued, OnConnectionClose
    PROVE  AddingEnds' /\ BacklogIsPursued'
<1> DEFINE id == Head(posted).id
<1>1. filling = None /\ UNCHANGED <<stopping, filling>>
  BY DEF OnConnectionClose, Idle
<1>2. ASSUME NEW c \in clients \ open, c # id, OnItsWay(c) PROVE OnItsWay(c)'
  <2>1. c \in ClientIds /\ socket'[c] = socket[c]
    BY <1>2 DEF OnConnectionClose, TypeOK
  <2> QED
    BY <1>2, <2>1, OthersStayOnTheirWay DEF OnConnectionClose
<1>3. CASE id \notin clients
  <2>1. UNCHANGED <<clients, open, adding, pending, retries>>
    BY <1>3 DEF OnConnectionClose, gui
  <2>2. \A c \in clients \ open : OnItsWay(c) => OnItsWay(c)'
    BY <1>2, <1>3
  <2> QED
    BY <1>1, <2>1, <2>2 DEF AddingEnds, BacklogIsPursued
<1>4. CASE id \in clients
  <2>1. ~adding' /\ clients' = clients \ {id} /\ open' = open \ {id}
    BY <1>4 DEF OnConnectionClose, EraseClient
  <2>2. AddingEnds'
    BY <2>1 DEF AddingEnds
  <2>3. CASE stopping
    BY <1>1, <2>2, <2>3 DEF BacklogIsPursued
  <2>4. CASE ~stopping /\ id \notin open
    <3>1. retries' > 0
      BY <1>4, <2>4 DEF OnConnectionClose, TypeOK
    <3> QED
      BY <2>2, <3>1 DEF BacklogIsPursued
  <2>5. CASE ~stopping /\ id \in open
    <3>1. UNCHANGED <<pending, retries>>
      BY <1>4, <2>5 DEF OnConnectionClose
    <3>2. \A c \in clients \ open : c # id
      BY <2>5
    <3> QED
      BY <1>1, <1>2, <2>1, <2>2, <3>1, <3>2 DEF BacklogIsPursued
  <2> QED
    BY <2>3, <2>4, <2>5
<1> QED
  BY <1>3, <1>4

LEMMA SocketPursues ==
    ASSUME TypeOK, AddingEnds, BacklogIsPursued, NEW d \in ClientIds, NEW e \in Event,
           posted' = Append(posted, e), e.id = d,
           e.what \in {"open", "close"},
           \A c \in ClientIds \ {d} : socket'[c] = socket[c],
           UNCHANGED <<clients, open, gui, stopping, filling>>
    PROVE  AddingEnds' /\ BacklogIsPursued'
<1>1. ASSUME NEW c \in clients \ open, OnItsWay(c) PROVE OnItsWay(c)'
  <2>1. c \in ClientIds /\ [what |-> "open", id |-> c] \in Event /\ [what |-> "close", id |-> c] \in Event
    BY DEF TypeOK, Event
  <2>2. CASE c = d
    <3>1. e = [what |-> "open", id |-> c] \/ e = [what |-> "close", id |-> c]
      BY <2>2 DEF Event
    <3> QED
      BY <3>1, PostType DEF OnItsWay, OpenIsPosted, CloseIsPosted
  <2>3. CASE c # d
    BY <1>1, <2>1, <2>3, PostType DEF OnItsWay, OpenIsPosted, CloseIsPosted
  <2> QED
    BY <2>2, <2>3
<1> QED
  BY <1>1 DEF AddingEnds, BacklogIsPursued, gui

(* A backlog always waits for a client on its way or for a timer that will *)
(* add one, and the flag that holds back further clients for a client      *)
(* whose end will clear it.                                                *)
THEOREM BacklogPursued == Spec => [](BacklogIsPursued /\ AddingEnds)
<1>1. Init => BacklogIsPursued /\ AddingEnds
  BY DEF Init, BacklogIsPursued, AddingEnds
<1>2. TypeOK /\ Tables /\ BacklogIsPursued /\ AddingEnds /\ [Next]_vars
        => BacklogIsPursued' /\ AddingEnds'
  <2> SUFFICES ASSUME TypeOK, Tables, BacklogIsPursued, AddingEnds, [Next]_vars
               PROVE  BacklogIsPursued' /\ AddingEnds'
    OBVIOUS
  <2>1. ASSUME NEW s \in Subs, Join(s) PROVE BacklogIsPursued' /\ AddingEnds'
    BY <2>1, SubscribePursues DEF Join, Idle
  <2>2. CASE \/ \E s \in Subs : Part(s)
             \/ Stop
    BY <2>2 DEF Part, Stop, AddingEnds, BacklogIsPursued, OnItsWay, OpenIsPosted,
                CloseIsPosted, gui
  <2>3. CASE OnConnectionOpen
    BY <2>3, OpenPursues
  <2>4. CASE FillNext
    <3>1. filling' # None /\ ~adding'
      BY <2>4 DEF FillNext, Tables
    <3> QED
      BY <3>1 DEF BacklogIsPursued, AddingEnds
  <2>5. CASE FillDone
    <3>1. ~adding /\ UNCHANGED <<open, posted, pending, stopping>>
      BY <2>5 DEF FillDone, Tables
    <3>2. CASE pending = << >>
      BY <2>5, <3>1, <3>2 DEF FillDone, BacklogIsPursued, AddingEnds
    <3>3. CASE pending # << >>
      BY <2>5, <3>1, <3>3, AddClientPursues DEF FillDone, BacklogIsPursued
    <3> QED
      BY <3>2, <3>3
  <2>6. CASE OnConnectionClose
    BY <2>6, ClosePursues
  <2>7. CASE MoveNext
    <3>1. PICK s \in moving : Subscribe(s)
      BY <2>7 DEF MoveNext
    <3>2. s \in Subs /\ filling = None
      BY <3>1 DEF TypeOK, Tables
    <3> QED
      BY <2>7, <3>1, <3>2, SubscribePursues DEF MoveNext
  <2>8. CASE RetryTimer
    BY <2>8, AddClientPursues DEF RetryTimer, BacklogIsPursued
  <2>9. ASSUME NEW c \in ClientIds, SocketOpens(c) PROVE BacklogIsPursued' /\ AddingEnds'
    <3>1. [what |-> "open", id |-> c] \in Event
      BY DEF Event
    <3> QED
      BY <2>9, <3>1, SocketPursues DEF SocketOpens, TypeOK
  <2>10. ASSUME NEW c \in ClientIds, SocketCloses(c) PROVE BacklogIsPursued' /\ AddingEnds'
    <3>1. [what |-> "close", id |-> c] \in Event
      BY DEF Event
    <3> QED
      BY <2>10, <3>1, SocketPursues DEF SocketCloses, TypeOK
  <2>11. CASE UNCHANGED vars
    BY <2>11 DEF AddingEnds, BacklogIsPursued, OnItsWay, OpenIsPosted, CloseIsPosted, vars, gui
  <2> QED
    BY <2>1, <2>2, <2>3, <2>4, <2>5, <2>6, <2>7, <2>8, <2>9, <2>10, <2>11
       DEF Next, Application, Manager, Sockets
<1> QED
  BY <1>1, <1>2, TypeCorrect, OnePlace, PTL DEF Spec

-----------------------------------------------------------------------------
(* Nothing that is wanted is lost.                                         *)

(* A client is there until the manager has handled its close.              *)
EveryEndIsTold ==
    \A c \in clients : socket[c] \in {"connecting", "open"} \/ CloseIsPosted(c)

Held(s) == Waits(s) \/ s \in moving \/ Carried(s)
WantedIsHeld == ~stopping => \A s \in joined : Held(s)

LEMMA AddClientTold ==
    ASSUME TypeOK, EveryEndIsTold, AddClient, UNCHANGED posted
    PROVE  EveryEndIsTold'
<1>1. CASE UNCHANGED <<clients, socket>>
  BY <1>1 DEF EveryEndIsTold, CloseIsPosted
<1>2. CASE \E id \in Unused : /\ clients' = clients \cup {id}
                              /\ socket' = [socket EXCEPT ![id] = "connecting"]
  BY <1>2 DEF EveryEndIsTold, CloseIsPosted, Unused, TypeOK
<1> QED
  BY <1>1, <1>2 DEF AddClient

LEMMA AppendHolds ==
    ASSUME TypeOK, NEW s \in Subs, pending' = Append(pending, s)
    PROVE  Waits(s)' /\ \A t \in Subs : Waits(t) => Waits(t)'
<1>1. /\ Len(pending) \in Nat /\ DOMAIN pending = 1 .. Len(pending)
      /\ DOMAIN pending' = 1 .. Len(pending) + 1
      /\ pending'[Len(pending) + 1] = s
      /\ \A i \in 1 .. Len(pending) : pending'[i] = pending[i]
  BY DEF TypeOK
<1>2. Len(pending) + 1 \in DOMAIN pending' /\ DOMAIN pending \subseteq DOMAIN pending'
  BY <1>1
<1> QED
  BY <1>1, <1>2 DEF Waits

LEMMA SubscribeHolds ==
    ASSUME TypeOK, NEW s \in Subs, Subscribe(s), moving' = moving \ {s}
    PROVE  Held(s)' /\ \A t \in Subs : Held(t) => Held(t)'
<1>1. CASE IsSubscribed(s) /\ UNCHANGED <<subs, pending, clients>>
  BY <1>1 DEF IsSubscribed, Held, Waits, Carried
<1>2. CASE TrySubscribe(s) /\ UNCHANGED <<pending, clients>>
  <2>1. PICK c \in clients : subs' = [subs EXCEPT ![c] = @ \cup {s}]
    BY <1>2 DEF TrySubscribe
  <2>2. s \in subs'[c] /\ \A d \in clients : subs[d] \subseteq subs'[d]
    BY <2>1 DEF TypeOK
  <2>3. Carried(s)' /\ \A t \in Subs : Carried(t) => Carried(t)'
    BY <1>2, <2>2 DEF Carried
  <2> QED
    BY <1>2, <2>3 DEF Held, Waits
<1>3. CASE AddClient /\ pending' = Append(pending, s) /\ UNCHANGED subs
  <2>1. clients \subseteq clients'
    BY <1>3, AddClientType
  <2>2. \A t \in Subs : Carried(t) => Carried(t)'
    BY <1>3, <2>1 DEF Carried
  <2> QED
    BY <1>3, <2>2, AppendHolds DEF Held
<1> QED
  BY <1>1, <1>2, <1>3 DEF Subscribe, gui

LEMMA FillNextHolds ==
    ASSUME TypeOK, Tables, FillNext
    PROVE  \A t \in Subs : Held(t) => Held(t)'
<1> DEFINE n == Len(pending)
           last == pending[n]
           rest == SubSeq(pending, 1, n - 1)
<1>1. /\ n \in Nat \ {0} /\ DOMAIN pending = 1 .. n
      /\ last \in Subs /\ rest \in Seq(Subs) /\ DOMAIN rest = 1 .. n - 1
      /\ \A i \in 1 .. n - 1 : rest[i] = pending[i]
  BY RestType DEF FillNext, TypeOK
<1>2. filling \in clients /\ UNCHANGED <<clients, moving>>
  BY DEF FillNext, Tables, TypeOK
<1>3. \A d \in clients : subs[d] \subseteq subs'[d]
  BY <1>2 DEF FillNext, TypeOK
<1>4. \A t \in Subs : Carried(t) => Carried(t)'
  BY <1>2, <1>3 DEF Carried
<1>5. CASE UNCHANGED pending
  BY <1>2, <1>4, <1>5 DEF Held, Waits
<1>6. CASE pending' = rest /\ pending' # pending
  <2>0. PICK newest \in Subs : newest = last
    BY <1>1
  <2>1. \/ Carried(newest) \/ \E i \in DOMAIN rest : rest[i] = newest
        \/ subs' = [subs EXCEPT ![filling] = @ \cup {newest}]
    BY <1>6, <2>0 DEF FillNext
  <2>2. subs' = [subs EXCEPT ![filling] = @ \cup {newest}] => Carried(newest)'
    <3>1. subs' = [subs EXCEPT ![filling] = @ \cup {newest}] => newest \in subs'[filling]
      BY <1>2 DEF TypeOK
    <3> QED
      BY <1>2, <3>1 DEF Carried
  <2> HIDE DEF rest, last
  <2>3. Carried(newest)' \/ \E i \in DOMAIN rest : rest[i] = newest
    BY <1>1, <1>4, <2>1, <2>2
  <2>4. ASSUME NEW t \in Subs, NEW i \in 1 .. n, pending[i] = t
        PROVE  Waits(t)' \/ Carried(t)'
    <3>1. CASE i = n
      BY <1>6, <2>0, <2>3, <2>4, <3>1 DEF Waits, last
    <3>2. CASE i \in 1 .. n - 1
      BY <1>1, <1>6, <2>4, <3>2 DEF Waits
    <3> HIDE DEF n
    <3>3. i = n \/ i \in 1 .. n - 1
      BY <1>1
    <3> QED
      BY <3>1, <3>2, <3>3
  <2>5. \A t \in Subs : Waits(t) => Waits(t)' \/ Carried(t)'
    BY <1>1, <2>4 DEF Waits
  <2> QED
    BY <1>2, <1>4, <2>5 DEF Held
<1> QED
  BY <1>5, <1>6 DEF FillNext

LEMMA CloseHolds ==
    ASSUME TypeOK, Tables, OnConnectionClose, ~stopping
    PROVE  \A t \in Subs : Held(t) => Held(t)'
<1> DEFINE id == Head(posted).id
<1>0. moving = {}
  BY DEF OnConnectionClose, Idle
<1>1. CASE id \notin clients
  BY <1>1 DEF OnConnectionClose, gui, Held, Waits, Carried
<1>2. CASE id \in clients
  <2>1. clients' = clients \ {id} /\ \A c \in ClientIds \ {id} : subs'[c] = subs[c]
    BY <1>2 DEF OnConnectionClose, EraseClient, TypeOK
  <2>2. \A t \in Subs : Carried(t) => Carried(t)' \/ t \in subs[id]
    <3> HIDE DEF id
    <3> QED
      BY <2>1 DEF Carried, TypeOK
  <2>3. CASE id \in open
    <3>1. moving' = subs[id] /\ pending' = pending
      BY <1>2, <2>3 DEF OnConnectionClose
    <3>2. \A t \in Subs : Waits(t) => Waits(t)'
      BY <3>1 DEF Waits
    <3> QED
      BY <1>0, <2>2, <3>1, <3>2 DEF Held
  <2>4. CASE id \notin open
    <3>1. PICK q \in Orders(subs[id]) : pending' = pending \o q
      BY <1>2, <2>4 DEF OnConnectionClose
    <3> HIDE DEF id
    <3>2. /\ q \in Seq(Subs) /\ DOMAIN q = 1 .. Len(q) /\ Len(q) \in Nat
          /\ \A s \in subs[id] : \E i \in DOMAIN q : q[i] = s
      BY <1>2, OrdersType DEF TypeOK
    <3>3. /\ Len(pending) \in Nat /\ DOMAIN pending = 1 .. Len(pending)
          /\ DOMAIN pending' = 1 .. Len(pending) + Len(q)
          /\ \A i \in 1 .. Len(pending) + Len(q) :
                pending'[i] = IF i <= Len(pending) THEN pending[i] ELSE q[i - Len(pending)]
      BY <3>1, <3>2 DEF TypeOK
    <3>4. ASSUME NEW i \in DOMAIN pending
          PROVE  i \in DOMAIN pending' /\ pending'[i] = pending[i]
      BY <3>2, <3>3
    <3>5. ASSUME NEW j \in DOMAIN q
          PROVE  \E i \in DOMAIN pending' : pending'[i] = q[j]
      <4>1. /\ Len(pending) + j \in 1 .. Len(pending) + Len(q)
            /\ ~(Len(pending) + j <= Len(pending)) /\ (Len(pending) + j) - Len(pending) = j
        BY <3>2, <3>3
      <4>2. pending'[Len(pending) + j] = q[j]
        BY <3>3, <4>1
      <4> QED
        BY <3>3, <4>1, <4>2
    <3>6. \A t \in Subs : Waits(t) => Waits(t)'
      BY <3>4 DEF Waits
    <3>7. \A t \in subs[id] : Waits(t)'
      BY <3>2, <3>5 DEF Waits
    <3> QED
      BY <1>0, <2>2, <3>6, <3>7 DEF Held
  <2> QED
    BY <2>3, <2>4
<1> QED
  BY <1>1, <1>2

LEMMA EndsAreTold ==
    ASSUME TypeOK, EveryEndIsTold, [Next]_vars
    PROVE  EveryEndIsTold'
<1>1. CASE UNCHANGED <<clients, socket, posted>>
  BY <1>1 DEF EveryEndIsTold, CloseIsPosted
<1>2. CASE AddClient /\ UNCHANGED posted
  BY <1>2, AddClientTold
<1>3. CASE OnConnectionOpen
  <2>1. \A c \in clients : [what |-> "close", id |-> c] \in Event \ {Head(posted)}
    BY <1>3 DEF OnConnectionOpen, TypeOK, Event
  <2>2. \A c \in clients : CloseIsPosted(c) => CloseIsPosted(c)'
    BY <1>3, <2>1, TailType DEF OnConnectionOpen, CloseIsPosted
  <2> QED
    BY <1>3, <2>2 DEF OnConnectionOpen, EveryEndIsTold
<1>4. CASE OnConnectionClose
  <2> DEFINE id == Head(posted).id
  <2>1. clients' = clients \ {id}
    BY <1>4 DEF OnConnectionClose, EraseClient
  <2>2. \A c \in clients' : /\ [what |-> "close", id |-> c] \in Event \ {Head(posted)}
                            /\ socket'[c] = socket[c]
    BY <1>4, <2>1 DEF OnConnectionClose, TypeOK, Event
  <2>3. \A c \in clients' : CloseIsPosted(c) => CloseIsPosted(c)'
    BY <1>4, <2>2, TailType DEF OnConnectionClose, CloseIsPosted
  <2> QED
    BY <2>1, <2>2, <2>3 DEF EveryEndIsTold
<1>5. ASSUME NEW c \in ClientIds, SocketOpens(c) PROVE EveryEndIsTold'
  <2>1. [what |-> "open", id |-> c] \in Event
    BY DEF Event
  <2>2. \A d \in clients : CloseIsPosted(d) => CloseIsPosted(d)'
    <3>1. \A d \in clients : [what |-> "close", id |-> d] \in Event
      BY DEF TypeOK, Event
    <3> DEFINE e == [what |-> "open", id |-> c]
    <3>2. posted' = Append(posted, e) /\ e \in Event
      BY <1>5, <2>1 DEF SocketOpens
    <3> HIDE DEF e
    <3>3. \A d \in Event : (\E i \in DOMAIN posted : posted[i] = d)
                             => \E i \in DOMAIN posted' : posted'[i] = d
      BY <3>2, PostType
    <3> QED
      BY ONLY <3>1, <3>3 DEF CloseIsPosted
  <2>3. UNCHANGED clients /\ \A d \in clients : socket'[d] = IF d = c THEN "open" ELSE socket[d]
    BY <1>5 DEF SocketOpens, TypeOK
  <2> QED
    BY <2>2, <2>3 DEF EveryEndIsTold
<1>6. ASSUME NEW c \in ClientIds, SocketCloses(c) PROVE EveryEndIsTold'
  <2>1. [what |-> "close", id |-> c] \in Event
    BY DEF Event
  <2>2. CloseIsPosted(c)' /\ \A d \in clients : CloseIsPosted(d) => CloseIsPosted(d)'
    <3>1. \A d \in clients : [what |-> "close", id |-> d] \in Event
      BY DEF TypeOK, Event
    <3> DEFINE e == [what |-> "close", id |-> c]
    <3>2. posted' = Append(posted, e) /\ e \in Event
      BY <1>6, <2>1 DEF SocketCloses
    <3> HIDE DEF e
    <3>3. /\ \E i \in DOMAIN posted' : posted'[i] = e
          /\ \A d \in Event : (\E i \in DOMAIN posted : posted[i] = d)
                                => \E i \in DOMAIN posted' : posted'[i] = d
      BY <3>2, PostType
    <3> QED
      BY ONLY <3>1, <3>3 DEF CloseIsPosted, e
  <2>3. UNCHANGED clients /\ \A d \in clients : socket'[d] = IF d = c THEN "closed" ELSE socket[d]
    BY <1>6 DEF SocketCloses, TypeOK
  <2> QED
    BY <2>2, <2>3 DEF EveryEndIsTold
<1>7. ASSUME NEW s \in Subs, Subscribe(s), UNCHANGED posted PROVE EveryEndIsTold'
  BY <1>1, <1>2, <1>7 DEF Subscribe
<1>8. CASE Application
  BY <1>1, <1>7, <1>8 DEF Application, Join, Part, Stop
<1>9. CASE MoveNext
  BY <1>7, <1>9 DEF MoveNext, TypeOK
<1>10. CASE FillNext \/ FillDone \/ RetryTimer
  BY <1>1, <1>2, <1>10 DEF FillNext, FillDone, RetryTimer
<1> QED
  BY <1>1, <1>3, <1>4, <1>5, <1>6, <1>8, <1>9, <1>10 DEF Next, Manager, Sockets, vars

LEMMA WantedStaysHeld ==
    ASSUME TypeOK, Tables, WantedIsHeld, [Next]_vars
    PROVE  WantedIsHeld'
<1> SUFFICES ASSUME ~stopping' PROVE \A s \in joined' : Held(s)'
  BY DEF WantedIsHeld
<1>0. ~stopping
  BY DEF Next, Application, Manager, Sockets, Join, Part, Stop, OnConnectionOpen, FillNext,
         FillDone, OnConnectionClose, MoveNext, RetryTimer, SocketOpens, SocketCloses, vars
<1>1. joined \in SUBSET Subs /\ \A s \in joined : Held(s)
  BY <1>0 DEF WantedIsHeld, TypeOK
<1>2. ASSUME NEW s \in Subs, Join(s) PROVE \A t \in joined' : Held(t)'
  <2>1. Subscribe(s) /\ moving' = moving \ {s} /\ joined' = joined \cup {s}
    BY <1>2 DEF Join, Idle
  <2> QED
    BY <1>1, <2>1, SubscribeHolds
<1>3. ASSUME NEW s \in Subs, Part(s) PROVE \A t \in joined' : Held(t)'
  <2>1. /\ joined' = joined \ {s} /\ UNCHANGED <<clients, pending, moving>>
        /\ \A c \in clients : subs[c] \ {s} \subseteq subs'[c]
    BY <1>3 DEF Part, Unsubscribe, TypeOK, gui
  <2> QED
    BY <1>1, <2>1 DEF Held, Waits, Carried
<1>4. CASE UNCHANGED <<joined, clients, subs, pending, moving>>
  BY <1>1, <1>4 DEF Held, Waits, Carried
<1>5. CASE FillNext
  BY <1>1, <1>5, FillNextHolds DEF FillNext
<1>6. CASE AddClient /\ UNCHANGED <<joined, subs, pending, moving>>
  <2>1. clients \subseteq clients'
    BY <1>6, AddClientType
  <2> QED
    BY <1>1, <1>6, <2>1 DEF Held, Waits, Carried
<1>7. CASE OnConnectionClose
  BY <1>0, <1>1, <1>7, CloseHolds DEF OnConnectionClose
<1>8. CASE MoveNext
  <2>1. PICK s \in moving : moving' = moving \ {s} /\ Subscribe(s)
    BY <1>8 DEF MoveNext
  <2>2. s \in Subs /\ joined' = joined
    BY <1>8 DEF MoveNext, TypeOK
  <2> QED
    BY <1>1, <2>1, <2>2, SubscribeHolds
<1>9. CASE Stop \/ OnConnectionOpen \/ UNCHANGED vars
  BY <1>4, <1>9 DEF Stop, OnConnectionOpen, vars, gui
<1>10. CASE FillDone \/ RetryTimer
  BY <1>4, <1>6, <1>10 DEF FillDone, RetryTimer
<1>11. ASSUME NEW c \in ClientIds, SocketOpens(c) \/ SocketCloses(c)
       PROVE  \A t \in joined' : Held(t)'
  BY <1>4, <1>11 DEF SocketOpens, SocketCloses, gui
<1> QED
  BY <1>2, <1>3, <1>5, <1>7, <1>8, <1>9, <1>10, <1>11 DEF Next, Application, Manager, Sockets

(* Whatever fails and closes, what the application wants waits in the      *)
(* backlog, is being moved or is on a client whose socket is alive or      *)
(* whose end the manager will be told of.                                  *)
THEOREM NothingLost == Spec => []NothingIsLost
<1>1. Init => EveryEndIsTold /\ WantedIsHeld
  BY DEF Init, EveryEndIsTold, WantedIsHeld
<1>2. TypeOK /\ Tables /\ EveryEndIsTold /\ WantedIsHeld /\ [Next]_vars
        => EveryEndIsTold' /\ WantedIsHeld'
  BY EndsAreTold, WantedStaysHeld
<1>3. EveryEndIsTold /\ WantedIsHeld => NothingIsLost
  BY DEF EveryEndIsTold, WantedIsHeld, Held, Carried, NothingIsLost
<1> QED
  BY <1>1, <1>2, <1>3, TypeCorrect, OnePlace, PTL DEF Spec

-----------------------------------------------------------------------------
(* The limit of a client and the counter of the backlog.                   *)

LEMMA OneMoreFits ==
    ASSUME TypeOK, NEW c \in clients, NEW s \in Subs, HasRoom(c)
    PROVE  Cardinality(subs[c] \cup {s}) <= MaxSubscriptions
<1>1. subs[c] \in SUBSET Subs
  BY DEF TypeOK
<1>2. IsFiniteSet(subs[c]) /\ Cardinality(subs[c]) \in Nat
  BY <1>1, SizeIsNat
<1>3. Cardinality(subs[c] \cup {s}) \in {Cardinality(subs[c]), Cardinality(subs[c]) + 1}
  BY <1>2, FS_AddElement
<1> QED
  BY <1>2, <1>3, LimitAssumption DEF HasRoom

LEMMA AddClientFits ==
    ASSUME TypeOK, Tables, WithinLimit, AddClient, subs' = subs
    PROVE  WithinLimit'
<1>1. \A c \in clients' \ clients : subs[c] = {}
  BY AddClientPlaces
<1>2. Cardinality({}) <= MaxSubscriptions
  BY FS_EmptySet, LimitAssumption
<1> QED
  BY <1>1, <1>2 DEF WithinLimit

LEMMA SubscribeFits ==
    ASSUME TypeOK, Tables, WithinLimit, NEW s \in Subs, Subscribe(s)
    PROVE  WithinLimit'
<1>1. CASE TrySubscribe(s) /\ UNCHANGED clients
  <2>1. PICK c \in clients : HasRoom(c) /\ subs' = [subs EXCEPT ![c] = @ \cup {s}]
    BY <1>1 DEF TrySubscribe
  <2>2. \A d \in clients : subs'[d] = IF d = c THEN subs[c] \cup {s} ELSE subs[d]
    BY <2>1 DEF TypeOK
  <2>3. Cardinality(subs[c] \cup {s}) <= MaxSubscriptions
    BY <2>1, OneMoreFits
  <2> QED
    BY <1>1, <2>2, <2>3 DEF WithinLimit
<1>2. CASE UNCHANGED <<subs, clients>>
  BY <1>2 DEF WithinLimit
<1>3. CASE AddClient /\ UNCHANGED subs
  BY <1>3, AddClientFits
<1> QED
  BY <1>1, <1>2, <1>3 DEF Subscribe

(* No client ever carries more than its limit, also when one that is being *)
(* filled was given subscriptions before it opened.                        *)
THEOREM LimitKept == Spec => []WithinLimit
<1>1. Init => WithinLimit
  BY DEF Init, WithinLimit
<1>2. TypeOK /\ Tables /\ WithinLimit /\ [Next]_vars => WithinLimit'
  <2> SUFFICES ASSUME TypeOK, Tables, WithinLimit, [Next]_vars PROVE WithinLimit'
    OBVIOUS
  <2>1. CASE UNCHANGED <<subs, clients>>
    BY <2>1 DEF WithinLimit
  <2>2. CASE AddClient /\ UNCHANGED subs
    BY <2>2, AddClientFits
  <2>3. ASSUME NEW s \in Subs, Part(s) PROVE WithinLimit'
    <3>1. ASSUME NEW c \in clients PROVE Cardinality(subs'[c]) <= MaxSubscriptions
      <4>1. subs[c] \in SUBSET Subs /\ subs'[c] \subseteq subs[c]
        BY <2>3 DEF Part, Unsubscribe, TypeOK
      <4>2. /\ Cardinality(subs[c]) \in Nat /\ Cardinality(subs'[c]) \in Nat
            /\ Cardinality(subs'[c]) <= Cardinality(subs[c])
        BY <4>1, SizeIsNat, FS_Subset
      <4> QED
        BY <4>2, LimitAssumption DEF WithinLimit
    <3> QED
      BY <2>3, <3>1 DEF Part, WithinLimit
  <2>4. CASE FillNext
    <3>1. filling \in clients /\ UNCHANGED clients
      BY <2>4 DEF FillNext, Tables, TypeOK
    <3>2. pending[Len(pending)] \in Subs
      BY <2>4, RestType DEF FillNext
    <3>3. CASE HasRoom(filling) /\ subs' = [subs EXCEPT ![filling] = @ \cup {pending[Len(pending)]}]
      <4>1. Cardinality(subs[filling] \cup {pending[Len(pending)]}) <= MaxSubscriptions
        BY <3>1, <3>2, <3>3, OneMoreFits
      <4>2. \A d \in clients : subs'[d] = IF d = filling THEN subs[d] \cup {pending[Len(pending)]}
                                          ELSE subs[d]
        BY <3>1, <3>3 DEF TypeOK
      <4> QED
        BY <3>1, <4>1, <4>2 DEF WithinLimit
    <3> QED
      BY <2>1, <2>4, <3>1, <3>3 DEF FillNext
  <2>5. CASE OnConnectionClose
    <3>1. CASE Head(posted).id \notin clients
      BY <2>1, <2>5, <3>1 DEF OnConnectionClose
    <3>2. CASE Head(posted).id \in clients
      <4>1. clients' \subseteq clients /\ \A c \in clients' : subs'[c] = subs[c]
        BY <2>5, <3>2 DEF OnConnectionClose, EraseClient, TypeOK
      <4> QED
        BY <4>1 DEF WithinLimit
    <3> QED
      BY <3>1, <3>2
  <2>6. ASSUME NEW s \in Subs, Join(s) PROVE WithinLimit'
    BY <2>6, SubscribeFits DEF Join
  <2>7. CASE MoveNext
    <3>1. PICK s \in Subs : Subscribe(s)
      BY <2>7 DEF MoveNext, TypeOK
    <3> QED
      BY <3>1, SubscribeFits
  <2>8. CASE FillDone \/ RetryTimer
    BY <2>1, <2>2, <2>8 DEF FillDone, RetryTimer
  <2>9. CASE Stop \/ OnConnectionOpen \/ UNCHANGED vars
    BY <2>1, <2>9 DEF Stop, OnConnectionOpen, vars
  <2>10. ASSUME NEW c \in ClientIds, SocketOpens(c) \/ SocketCloses(c) PROVE WithinLimit'
    BY <2>1, <2>10 DEF SocketOpens, SocketCloses
  <2> QED
    BY <2>3, <2>4, <2>5, <2>6, <2>7, <2>8, <2>9, <2>10
       DEF Next, Application, Manager, Sockets
<1> QED
  BY <1>1, <1>2, TypeCorrect, OnePlace, PTL DEF Spec

(* The debug counter of the backlog is its length: the branch of the loop  *)
(* that takes a subscription away without counting is never taken, because *)
(* a subscription is in one place.                                         *)
THEOREM BacklogCounted == Spec => []BacklogCountIsExact
<1>1. Init => BacklogCountIsExact
  BY DEF Init, BacklogCountIsExact
<1>2. TypeOK /\ OnePlaceEach /\ BacklogCountIsExact /\ [Next]_vars => BacklogCountIsExact'
  <2> SUFFICES ASSUME TypeOK, OnePlaceEach, BacklogCountIsExact, [Next]_vars
               PROVE  BacklogCountIsExact'
    OBVIOUS
  <2>1. CASE UNCHANGED <<pending, backlog>>
    BY <2>1 DEF BacklogCountIsExact
  <2>2. ASSUME NEW s \in Subs, Subscribe(s) PROVE BacklogCountIsExact'
    <3>1. CASE pending' = Append(pending, s) /\ backlog' = backlog + 1
      BY <3>1 DEF BacklogCountIsExact, TypeOK
    <3> QED
      BY <2>1, <2>2, <3>1 DEF Subscribe, gui
  <2>3. CASE FillNext
    <3> DEFINE n == Len(pending)
               rest == SubSeq(pending, 1, n - 1)
    <3>1. /\ n \in Nat \ {0} /\ DOMAIN pending = 1 .. n /\ pending[n] \in Subs
          /\ Len(rest) = n - 1 /\ DOMAIN rest = 1 .. n - 1
          /\ \A i \in 1 .. n - 1 : rest[i] = pending[i]
      BY <2>3, RestType DEF FillNext, TypeOK
    <3>2. ~Carried(pending[n]) /\ \A i \in DOMAIN rest : rest[i] # pending[n]
      <4> HIDE DEF rest, n
      <4>1. n \in DOMAIN pending /\ \A i \in 1 .. n - 1 : i \in DOMAIN pending /\ i # n
        BY <3>1
      <4>2. \A i \in 1 .. n - 1 : pending[i] # pending[n]
        BY <3>1, <4>1 DEF OnePlaceEach
      <4>3. ~Carried(pending[n])
        BY <3>1, <4>1 DEF OnePlaceEach, Waits
      <4> QED
        BY <3>1, <4>2, <4>3
    <3>3. \/ pending' = rest /\ backlog' = backlog - 1
          \/ UNCHANGED <<pending, backlog>>
      BY <2>3, <3>2 DEF FillNext
    <3>4. CASE pending' = rest /\ backlog' = backlog - 1
      <4> HIDE DEF rest
      <4>1. Len(pending') = n - 1
        BY <3>1, <3>4
      <4> QED
        BY <3>4, <4>1 DEF BacklogCountIsExact
    <3> QED
      BY <2>1, <3>3, <3>4
  <2>4. CASE OnConnectionClose
    <3> DEFINE id == Head(posted).id
    <3>1. CASE \E q \in Orders(subs[id]) : /\ pending' = pending \o q
                                           /\ backlog' = backlog + Cardinality(subs[id])
      <4>1. PICK q \in Orders(subs[id]) : pending' = pending \o q
        BY <3>1
      <4>2. id \in ClientIds
        BY <2>4, TailType DEF OnConnectionClose, Event
      <4>3. q \in Seq(Subs) /\ Len(q) = Cardinality(subs[id])
        BY <4>2, OrdersType DEF TypeOK
      <4>4. Len(pending \o q) = Len(pending) + Len(q)
        <5>1. pending \in Seq(Subs)
          BY DEF TypeOK
        <5>2. q \in Seq(Subs)
          BY <4>3
        <5> QED
          BY ONLY <5>1, <5>2
      <4> QED
        BY <3>1, <4>1, <4>3, <4>4 DEF BacklogCountIsExact
    <3> QED
      BY <2>1, <2>4, <3>1 DEF OnConnectionClose, gui
  <2>5. ASSUME NEW s \in Subs, Join(s) \/ Part(s) PROVE BacklogCountIsExact'
    BY <2>1, <2>2, <2>5 DEF Join, Part, gui
  <2>6. CASE MoveNext
    BY <2>2, <2>6 DEF MoveNext, TypeOK
  <2>7. CASE FillDone \/ RetryTimer
    BY <2>1, <2>7 DEF FillDone, RetryTimer
  <2>8. CASE Stop \/ OnConnectionOpen \/ UNCHANGED vars
    BY <2>1, <2>8 DEF Stop, OnConnectionOpen, vars, gui
  <2>9. ASSUME NEW c \in ClientIds, SocketOpens(c) \/ SocketCloses(c)
        PROVE  BacklogCountIsExact'
    BY <2>1, <2>9 DEF SocketOpens, SocketCloses, gui
  <2> QED
    BY <2>3, <2>4, <2>5, <2>6, <2>7, <2>8, <2>9 DEF Next, Application, Manager, Sockets
<1> QED
  BY <1>1, <1>2, TypeCorrect, OnePlace, PTL DEF Spec
=============================================================================
