---------------------------- MODULE LiveUpdates ----------------------------
(***************************************************************************)
(* BasicPubSubManager and BasicPubSubClient (src/src/providers/            *)
(* liveupdates), the live-update managers of 7TV, BTTV, Kick and the Twitch*)
(* PubSub.  A manager spreads subscriptions over websocket clients that    *)
(* carry at most MaxSubscriptions each, and keeps the ones that fit nowhere*)
(* in a backlog until another client is open.                              *)
(*                                                                         *)
(* Everything of the manager runs on the GUI thread.  The sockets live on  *)
(* the thread of their pool and tell the manager that they opened or       *)
(* closed by posting to the GUI thread, in order (BasicPubSubListener).    *)
(* The two loops of the handlers are modelled one iteration per step, so   *)
(* that a socket may change state in the middle of one; no other handler   *)
(* runs before the loop has ended (Idle).                                  *)
(***************************************************************************)
EXTENDS Integers, Sequences, FiniteSets

CONSTANTS
    Subs,              \* subscriptions the application may ask for
    MaxSubscriptions,  \* what one client may carry
    MaxClients,        \* bound: clients there can be at the same time
    MaxFaults,         \* bound: how often a socket is refused or lost
    MaxJoins           \* bound: how often the application asks for a subscription

ASSUME SubsAssumption == IsFiniteSet(Subs)
ASSUME LimitAssumption == MaxSubscriptions \in Nat \ {0}
ASSUME BoundAssumption == MaxClients \in Nat /\ MaxFaults \in Nat /\ MaxJoins \in Nat

(* nextId_ counts up; here an id is used again once its client is gone and *)
(* nothing can refer to it any more.                                       *)
ClientIds == 1 .. MaxClients
None == 0

VARIABLES
    joined,    \* what the application wants: joinedChannels, subscribedEmoteSets, ...
    clients,   \* the keys of clients_
    open,      \* clients whose open_ is set
    subs,      \* subscriptions_ of each client
    pending,   \* pendingSubscriptions_, a vector used as a stack
    adding,    \* addingClient_
    stopping,  \* stopping_; the pool is gone from then on
    retries,   \* single-shot timers running that will call addClient
    filling,   \* the client whose onConnectionOpen is in its loop, or None
    take,      \* pendingSubsToTake of that loop
    moving,    \* what the loop of onConnectionClose has still to subscribe
    posted,    \* open and close events posted to the GUI thread
    socket,    \* each client's socket as the pool's thread sees it
    faults,    \* sockets refused or lost so far
    joins,     \* calls of Join so far
    backlog    \* DebugCount of LiveUpdatesSubscriptionBacklog

gui == <<pending, adding, retries, backlog>>
vars == <<joined, clients, open, subs, gui, stopping, filling, take, moving,
          posted, socket, faults, joins>>

Event == [what : {"open", "close"}, id : ClientIds]

TypeOK ==
    /\ joined \in SUBSET Subs
    /\ clients \in SUBSET ClientIds
    /\ open \in SUBSET clients
    /\ subs \in [ClientIds -> SUBSET Subs]
    /\ pending \in Seq(Subs)
    /\ adding \in BOOLEAN
    /\ stopping \in BOOLEAN
    /\ retries \in Nat
    /\ filling \in ClientIds \cup {None}
    /\ take \in 0 .. MaxSubscriptions
    /\ moving \in SUBSET Subs
    /\ posted \in Seq(Event)
    /\ socket \in [ClientIds -> {"free", "connecting", "open", "closed"}]
    /\ faults \in Nat
    /\ joins \in Nat
    /\ backlog \in Int

Init ==
    /\ joined = {} /\ clients = {} /\ open = {} /\ moving = {}
    /\ subs = [c \in ClientIds |-> {}]
    /\ pending = << >> /\ posted = << >>
    /\ adding = FALSE /\ stopping = FALSE
    /\ retries = 0 /\ take = 0 /\ faults = 0 /\ joins = 0 /\ backlog = 0
    /\ filling = None
    /\ socket = [c \in ClientIds |-> "free"]

-----------------------------------------------------------------------------
(* What the manager's helpers compute.                                     *)

Idle == filling = None /\ moving = {}

Waits(s) == \E i \in DOMAIN pending : pending[i] = s
Carried(s) == \E c \in clients : s \in subs[c]
(* Mutant: only the clients are asked *)
IsSubscribedOnAClient(s) == Carried(s)

IsSubscribed(s) == Carried(s) \/ Waits(s)

HasRoom(c) == Cardinality(subs[c]) < MaxSubscriptions

Unused == {id \in ClientIds \ clients : socket[id] = "free"}

AddClient ==
    IF adding \/ stopping
    THEN UNCHANGED <<adding, clients, socket>>
    ELSE \E id \in Unused :
            /\ \A other \in Unused : id <= other
            /\ adding' = TRUE
            /\ clients' = clients \cup {id}
            /\ socket' = [socket EXCEPT ![id] = "connecting"]

(* A client's table is walked in no particular order, so any client with   *)
(* room may be the one that takes the subscription.                        *)
TrySubscribe(s) ==
    \E c \in clients :
        /\ HasRoom(c)
        /\ subs' = [subs EXCEPT ![c] = @ \cup {s}]

Subscribe(s) ==
    IF IsSubscribed(s)
    THEN UNCHANGED <<subs, gui, clients, socket>>
    ELSE \/ TrySubscribe(s) /\ UNCHANGED <<gui, clients, socket>>
         \/ /\ \A c \in clients : ~HasRoom(c)
            /\ AddClient
            /\ pending' = Append(pending, s)
            /\ backlog' = backlog + 1
            /\ UNCHANGED <<subs, retries>>

(* Only the clients are asked, until one had it: the backlog is not looked *)
(* at.                                                                     *)
Unsubscribe(s) ==
    IF Carried(s)
    THEN \E c \in clients : s \in subs[c] /\ subs' = [subs EXCEPT ![c] = @ \ {s}]
    ELSE UNCHANGED subs

(* Mutant: the subscriptions of a client that failed are not kept *)
KeepNothing(S) == {<< >>}

(* An unordered_set is walked in some order.                               *)
Orders(S) ==
    {q \in [1 .. Cardinality(S) -> S] :
        /\ \A s \in S : \E i \in DOMAIN q : q[i] = s
        /\ \A i, j \in DOMAIN q : q[i] = q[j] => i = j}

-----------------------------------------------------------------------------
(* The application: joinChannel and partChannel, subscribeUser and         *)
(* unsubscribeEmoteSet, which subscribe once per name they track.          *)

Join(s) ==
    /\ Idle /\ s \notin joined /\ joins < MaxJoins
    /\ joins' = joins + 1
    /\ joined' = joined \cup {s}
    /\ Subscribe(s)
    /\ UNCHANGED <<open, stopping, filling, take, moving, posted, faults>>

Part(s) ==
    /\ Idle /\ s \in joined
    /\ joined' = joined \ {s}
    /\ Unsubscribe(s)
    /\ UNCHANGED <<clients, open, gui, stopping, filling, take, moving, posted,
                   socket, faults, joins>>

Stop ==
    /\ Idle /\ ~stopping
    /\ stopping' = TRUE
    /\ UNCHANGED <<joined, clients, open, subs, gui, filling, take, moving,
                   posted, socket, faults, joins>>

-----------------------------------------------------------------------------
(* The handlers of the manager.                                            *)

(* Mutant: the whole backlog *)
PendingSubsToTakeAll == Len(pending)

PendingSubsToTake ==
    IF Len(pending) < MaxSubscriptions THEN Len(pending) ELSE MaxSubscriptions

OnConnectionOpen ==
    /\ Idle /\ posted # << >> /\ Head(posted).what = "open"
    /\ posted' = Tail(posted)
    /\ LET id == Head(posted).id IN
        IF id \notin clients
        THEN UNCHANGED <<open, adding, filling, take>>
        ELSE /\ adding' = FALSE
             /\ open' = open \cup {id}
             /\ filling' = id
             /\ take' = PendingSubsToTake
    /\ UNCHANGED <<joined, clients, subs, pending, retries, backlog, stopping,
                   moving, socket, faults, joins>>

(* One turn of the loop: the newest of the backlog goes to the client.     *)
FillNext ==
    /\ filling # None /\ take > 0 /\ pending # << >>
    /\ LET last == pending[Len(pending)]
           rest == SubSeq(pending, 1, Len(pending) - 1)
       IN \/ /\ Carried(last) \/ \E i \in DOMAIN rest : rest[i] = last
             /\ pending' = rest
             /\ UNCHANGED <<subs, take, backlog>>
          \/ /\ ~Carried(last) /\ \A i \in DOMAIN rest : rest[i] # last
             /\ HasRoom(filling)
             /\ pending' = rest
             /\ subs' = [subs EXCEPT ![filling] = @ \cup {last}]
             /\ backlog' = backlog - 1
             /\ take' = take - 1
          \/ /\ ~Carried(last) /\ \A i \in DOMAIN rest : rest[i] # last
             /\ ~HasRoom(filling)
             /\ take' = 0
             /\ UNCHANGED <<pending, subs, backlog>>
    /\ UNCHANGED <<joined, clients, open, adding, retries, stopping, filling,
                   moving, posted, socket, faults, joins>>

(* Mutant: the rest of the backlog is left for later *)
FillDoneAlone ==
    /\ filling # None /\ (take = 0 \/ pending = << >>)
    /\ filling' = None /\ take' = 0
    /\ UNCHANGED <<joined, clients, open, subs, gui, stopping, moving, posted,
                   socket, faults, joins>>

FillDone ==
    /\ filling # None /\ (take = 0 \/ pending = << >>)
    /\ filling' = None /\ take' = 0
    /\ IF pending = << >> THEN UNCHANGED <<adding, clients, socket>> ELSE AddClient
    /\ UNCHANGED <<joined, open, subs, pending, retries, backlog, stopping, moving,
                   posted, faults, joins>>

EraseClient(id) ==
    /\ clients' = clients \ {id}
    /\ open' = open \ {id}
    /\ subs' = [subs EXCEPT ![id] = {}]
    /\ adding' = FALSE

OnConnectionClose ==
    /\ Idle /\ posted # << >> /\ Head(posted).what = "close"
    /\ posted' = Tail(posted)
    /\ LET id == Head(posted).id IN
        /\ socket' = [socket EXCEPT ![id] = "free"]
        /\ IF id \notin clients
           THEN UNCHANGED <<clients, open, subs, gui, moving>>
           ELSE /\ EraseClient(id)
                /\ \/ stopping /\ UNCHANGED <<pending, retries, backlog, moving>>
                   \/ /\ ~stopping /\ id \notin open
                      /\ \E q \in Orders(subs[id]) : pending' = pending \o q
                      /\ backlog' = backlog + Cardinality(subs[id])
                      /\ retries' = retries + 1
                      /\ UNCHANGED moving
                   \/ /\ ~stopping /\ id \in open
                      /\ moving' = subs[id]
                      /\ UNCHANGED <<pending, retries, backlog>>
    /\ UNCHANGED <<joined, stopping, filling, take, faults, joins>>

(* One turn of the loop over a closed client's subscriptions.              *)
MoveNext ==
    /\ \E s \in moving : moving' = moving \ {s} /\ Subscribe(s)
    /\ UNCHANGED <<joined, open, stopping, filling, take, posted, faults, joins>>

(* Mutant: the timer finds nothing to do *)
RetryTimerForgets ==
    /\ Idle /\ retries > 0
    /\ retries' = retries - 1
    /\ UNCHANGED <<joined, clients, open, subs, pending, adding, backlog, stopping,
                   filling, take, moving, posted, socket, faults, joins>>

RetryTimer ==
    /\ Idle /\ retries > 0
    /\ retries' = retries - 1
    /\ AddClient
    /\ UNCHANGED <<joined, open, subs, pending, backlog, stopping, filling, take,
                   moving, posted, faults, joins>>

-----------------------------------------------------------------------------
(* The sockets, on the thread of their pool.  A socket may fail or close   *)
(* in every state: refused, lost, closed by the server or by the client    *)
(* itself (a 7TV "Reconnect", a missed heartbeat), or with the pool.       *)

SocketOpens(c) ==
    /\ socket[c] = "connecting"
    /\ socket' = [socket EXCEPT ![c] = "open"]
    /\ posted' = Append(posted, [what |-> "open", id |-> c])
    /\ UNCHANGED <<joined, clients, open, subs, gui, stopping, filling, take,
                   moving, faults, joins>>

SocketCloses(c) ==
    /\ socket[c] \in {"connecting", "open"}
    /\ \/ stopping /\ UNCHANGED faults
       \/ ~stopping /\ faults < MaxFaults /\ faults' = faults + 1
    /\ socket' = [socket EXCEPT ![c] = "closed"]
    /\ posted' = Append(posted, [what |-> "close", id |-> c])
    /\ UNCHANGED <<joined, clients, open, subs, gui, stopping, filling, take,
                   moving, joins>>

Application == \/ \E s \in Subs : Join(s) \/ Part(s)
               \/ Stop
Manager == \/ OnConnectionOpen \/ FillNext \/ FillDone
           \/ OnConnectionClose \/ MoveNext
           \/ RetryTimer
Sockets == \E c \in ClientIds : SocketOpens(c) \/ SocketCloses(c)

Next == Application \/ Manager \/ Sockets

Spec == Init /\ [][Next]_vars

(* The event loop runs what is posted to it, timers fire and a connection  *)
(* attempt that is not refused succeeds.  Nothing is asked of the          *)
(* application, and no fault ever has to happen.                           *)
Fairness ==
    /\ WF_vars(OnConnectionOpen \/ FillNext \/ FillDone)
    /\ WF_vars(OnConnectionClose \/ MoveNext)
    /\ WF_vars(RetryTimer)
    /\ \A c \in ClientIds : WF_vars(SocketOpens(c))

FairSpec == Spec /\ Fairness

-----------------------------------------------------------------------------
(* What must hold.                                                         *)

CloseIsPosted(c) == \E i \in DOMAIN posted : posted[i] = [what |-> "close", id |-> c]
OpenIsPosted(c) == \E i \in DOMAIN posted : posted[i] = [what |-> "open", id |-> c]
OnItsWay(c) == socket[c] = "connecting" \/ OpenIsPosted(c) \/ CloseIsPosted(c)

(* A subscription is in one place: on one client, once in the backlog, or  *)
(* in the hands of the loop that moves a closed client's subscriptions.    *)
(* Nothing in the code enforces it; isSubscribed, asked before every       *)
(* insertion, is what it rests on (the backlog of a client that failed is  *)
(* appended without asking).                                               *)
OnePlaceEach ==
    \A s \in Subs :
        /\ \A c, d \in clients : s \in subs[c] /\ s \in subs[d] => c = d
        /\ \A i, j \in DOMAIN pending : pending[i] = s /\ pending[j] = s => i = j
        /\ Carried(s) => ~Waits(s) /\ s \notin moving
        /\ Waits(s) => s \notin moving

(* No client carries more than the server accepts of one connection.       *)
WithinLimit == \A c \in clients : Cardinality(subs[c]) <= MaxSubscriptions

(* What the application wants is never forgotten while sockets fail and    *)
(* close: it is in the backlog, being moved, or on a client whose socket   *)
(* is alive or whose end the manager has yet to be told of.                *)
NothingIsLost ==
    ~stopping => \A s \in joined :
        \/ Waits(s)
        \/ s \in moving
        \/ \E c \in clients : /\ s \in subs[c]
                              /\ socket[c] \in {"connecting", "open"} \/ CloseIsPosted(c)

(* A backlog never waits for nobody: a client that has yet to open is on   *)
(* its way, its result is posted, or a timer will add one.  addingClient_  *)
(* is cleared by the close of any client, so it says neither that one is   *)
(* on its way nor that none is.                                            *)
BacklogIsPursued ==
    pending # << >> /\ ~stopping /\ filling = None =>
        \/ retries > 0
        \/ \E c \in clients \ open : OnItsWay(c)

(* While the flag that holds back further clients is set, a client is on   *)
(* its way whose open or close will clear it.                              *)
AddingEnds == adding => \E c \in clients \ open : OnItsWay(c)

(* The debug counter of the backlog is its length: the loop that fills a   *)
(* new client skips a subscription somebody else carries without counting  *)
(* it down, which is right only because there never is one.                *)
BacklogCountIsExact == backlog = Len(pending)

(* Once failures have ended, every subscription that stays wanted reaches  *)
(* a client whose socket is open.                                          *)
WantedIsServed ==
    \A s \in Subs : s \in joined ~>
        \/ s \notin joined
        \/ stopping
        \/ \E c \in open : s \in subs[c] /\ socket[c] = "open"
=============================================================================
