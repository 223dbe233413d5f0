------------------------- MODULE ReadConnectionPool -------------------------
(***************************************************************************)
(* The connections that read Twitch chat.  The pool is one of two kinds    *)
(* (TwitchReadConnectionPool.cpp), chosen when the application starts:     *)
(*   "single"     one connection whose joins go through a rate limit       *)
(*   "multi"      as many connections as needed, each with a bounded       *)
(*                number of channels and no rate limit                     *)
(* and beside the pool TwitchIrcServer.cpp keeps                           *)
(*   "anonymous"  one connection with a rate limit that is opened for its  *)
(*                first channel and closed after its last                  *)
(* A behaviour is that of one of the three.  All of it runs on the GUI     *)
(* thread, so that every handler is one action; what interleaves is the    *)
(* server, the timers and the user who opens and closes channels.          *)
(***************************************************************************)
EXTENDS IrcConnection, Naturals, FiniteSets, Sequences

CONSTANTS
  Budget,          \* JOIN_RATELIMIT_BUDGET
  PerConnection,   \* CHANNELS_PER_CONNECTION
  MaxConnections,  \* bound: ids of connections; an id is used again
  MaxQueue,        \* bound: joins that wait when a channel is opened
  MaxFaults        \* bound: losses, refusals, silences and reconnects

ASSUME NamesAssumption == IsFiniteSet(Names)

ASSUME BoundsAssumption ==
  /\ Budget \in Nat \ {0}
  /\ PerConnection \in Nat \ {0}
  /\ MaxConnections \in Nat \ {0}
  /\ MaxQueue \in Nat
  /\ MaxFaults \in Nat

Ids == 1 .. MaxConnections
Sole == 1   \* the connection of the kinds that have one

VARIABLES
  kind,      \* which of the three
  live,      \* the ids of connections_
  conn,      \* their connections
  held,      \* Connection::channels, or the channels of the one connection
  bucket,    \* the RatelimitBucket: queue, budget and running timers
  ever,      \* connect() was called: everConnected
  started,   \* anonymousReadConnectionStarted_
  ensures,   \* posted calls of ensureAnonymousReadConnection()
  faults

vars == <<kind, live, conn, held, bucket, ever, started, ensures, faults>>

Channels == UNION {held[i] : i \in live}

Init ==
  /\ kind \in {"single", "multi", "anonymous"}
  /\ live = (IF kind = "multi" THEN {} ELSE {Sole})
  /\ conn = [i \in Ids |-> NewConnection]
  /\ held = [i \in Ids |-> {}]
  /\ bucket = [queue |-> <<>>, budget |-> Budget, running |-> 0]
  /\ ever = FALSE
  /\ started = FALSE
  /\ ensures = 0
  /\ faults = 0

Fault == faults < MaxFaults /\ faults' = faults + 1

----------------------------------------------------------------------------
(* The rate limit *)

\* handleOne(), k times: each takes a name and starts a timer.
Handled(b, k) ==
  [queue |-> SubSeq(b.queue, k + 1, Len(b.queue)),
   budget |-> b.budget - k, running |-> b.running + k]

\* actuallyJoin() for the names that are taken: those still in the map.
Taken(b, k) == {b.queue[j] : j \in 1 .. k} \cap held[Sole]

\* Mutant: one look at the budget for all of the names.
SendOnce(b, names) ==
  [b |-> [b EXCEPT !.queue = @ \o names],
   k |-> IF b.budget > 0 THEN Len(names) ELSE 0]

\* send() for each of names: one handleOne() each while there is budget.
Send(b, names) ==
  [b |-> [b EXCEPT !.queue = @ \o names],
   k |-> IF b.budget < Len(names) THEN b.budget ELSE Len(names)]

\* A timer of handleOne() expires.
CooldownEnds ==
  /\ bucket.running > 0
  /\ LET b == [bucket EXCEPT !.budget = @ + 1, !.running = @ - 1]
         k == IF b.queue = <<>> THEN 0 ELSE 1
     IN /\ bucket' = Handled(b, k)
        /\ conn' = [conn EXCEPT ![Sole] = SendJoins(@, Taken(b, k))]
  /\ UNCHANGED <<kind, live, held, ever, started, ensures, faults>>

----------------------------------------------------------------------------
(* Channels are opened and closed *)

\* onChannelCreated() of the single pool.
CreateSingle(name) ==
  /\ kind = "single"
  /\ held' = [held EXCEPT ![Sole] = @ \cup {name}]
  /\ LET sent == Send(bucket, <<name>>)
     IN IF conn[Sole].status = "connected"
        THEN /\ bucket' = Handled(sent.b, sent.k)
             /\ conn' = [conn EXCEPT ![Sole] =
                   SendJoins(@, {sent.b.queue[j] : j \in 1 .. sent.k} \cap held'[Sole])]
        ELSE UNCHANGED <<bucket, conn>>
  /\ UNCHANGED <<live, ever, started, ensures, faults>>

\* ensureAnonymousReadConnection()
MustStart == conn[Sole].status # "connected" /\ ~started
Ensured(c) == IF MustStart THEN Open(c) ELSE c

\* getOrAddAnonymousChannel()
CreateAnonymous(name) ==
  /\ kind = "anonymous"
  /\ held' = [held EXCEPT ![Sole] = @ \cup {name}]
  /\ started' = (started \/ MustStart)
  /\ LET sent == Send(bucket, <<name>>)
     IN IF conn[Sole].status = "connected"
        THEN /\ bucket' = Handled(sent.b, sent.k)
             /\ conn' = [conn EXCEPT ![Sole] =
                   SendJoins(@, {sent.b.queue[j] : j \in 1 .. sent.k} \cap held'[Sole])]
        ELSE /\ conn' = [conn EXCEPT ![Sole] = Ensured(@)]
             /\ UNCHANGED bucket
  /\ UNCHANGED <<live, ever, ensures, faults>>

\* Mutant: off by one in the bound of a connection.
HasRoomForOneMore(i) == Cardinality(held[i]) <= PerConnection

HasRoom(i) == Cardinality(held[i]) < PerConnection

\* getOrCreate(): any connection with room, else a new one.
GetOrCreate(i, created) ==
  IF \E j \in live : HasRoom(j)
  THEN i \in live /\ HasRoom(i) /\ ~created
  ELSE i \notin live /\ (\A j \in Ids \ live : i <= j) /\ created

\* onChannelCreated() of the pool of several connections.
CreateMulti(name) ==
  /\ kind = "multi"
  /\ \E i \in Ids, created \in BOOLEAN :
        /\ GetOrCreate(i, created)
        /\ live' = live \cup {i}
        /\ held' = [held EXCEPT ![i] = @ \cup {name}]
        /\ conn' = [conn EXCEPT ![i] =
              IF created /\ ever THEN Open(Close(@)) ELSE SendJoins(@, {name})]
  /\ UNCHANGED <<bucket, ever, started, ensures, faults>>

Create(name) ==
  /\ name \notin Channels
  /\ Len(bucket.queue) <= MaxQueue
  /\ CreateSingle(name) \/ CreateAnonymous(name) \/ CreateMulti(name)
  /\ UNCHANGED kind

\* The destroyed handler of the single pool.
DestroySingle(i, name) ==
  /\ kind = "single"
  /\ conn' = [conn EXCEPT ![i] = SendPart(@, name)]
  /\ UNCHANGED <<live, started>>

\* The destroyed handler of the pool of several: an empty one is erased.
DestroyMulti(i, name) ==
  /\ kind = "multi"
  /\ live' = (IF held[i] = {name} THEN live \ {i} ELSE live)
  /\ conn' = [conn EXCEPT ![i] =
        IF held[i] = {name} THEN NewConnection ELSE SendPart(@, name)]
  /\ UNCHANGED started

\* The destroyed handler of getOrAddAnonymousChannel().
DestroyAnonymous(i, name) ==
  /\ kind = "anonymous"
  /\ started' = (started /\ held[i] # {name})
  /\ conn' = [conn EXCEPT ![i] =
        IF held[i] = {name} THEN Close(@) ELSE SendPart(@, name)]
  /\ UNCHANGED live

Destroy(name) ==
  /\ \E i \in live :
        /\ name \in held[i]
        /\ held' = [held EXCEPT ![i] = @ \ {name}]
        /\ DestroySingle(i, name) \/ DestroyMulti(i, name) \/ DestroyAnonymous(i, name)
  /\ UNCHANGED <<kind, bucket, ever, ensures, faults>>

----------------------------------------------------------------------------
(* Connections *)

\* TwitchIrcServer::connect(): disconnect(), then reconnect().  The first
\* call is made by Application::initialize().
Connect ==
  /\ kind # "anonymous"
  /\ IF ever THEN Fault ELSE UNCHANGED faults
  /\ ever' = TRUE
  /\ conn' = [i \in Ids |-> IF i \in live THEN Open(Close(conn[i])) ELSE conn[i]]
  /\ UNCHANGED <<kind, live, held, bucket, started, ensures>>

\* reconnectAnonymousChannels()
ReconnectAnonymous ==
  /\ kind = "anonymous" /\ held[Sole] # {}
  /\ started' = FALSE
  /\ conn' = [conn EXCEPT ![Sole] = Close(@)]
  /\ ensures' = ensures + 1
  /\ UNCHANGED <<kind, live, held, bucket, ever>>

\* It is called when the user asks for a reload of an anonymous channel.
Reload == Fault /\ ReconnectAnonymous

\* The posted call of reconnectAnonymousChannels().
Ensure ==
  /\ ensures > 0
  /\ ensures' = ensures - 1
  /\ started' = (started \/ MustStart)
  /\ conn' = [conn EXCEPT ![Sole] = Ensured(@)]
  /\ UNCHANGED <<kind, live, held, bucket, ever, faults>>

\* The server sends RECONNECT on a connection of a pool.
RequestedPool(i) ==
  /\ kind # "anonymous"
  /\ conn' = [conn EXCEPT ![i] = Open(Close(@))]
  /\ UNCHANGED <<kind, live, held, bucket, ever, started, ensures>>

\* The same on the anonymous connection, which does nothing without channels.
RequestedAnonymous(i) ==
  \/ ReconnectAnonymous
  \/ /\ kind = "anonymous" /\ held[i] = {}
     /\ conn' = [conn EXCEPT ![i] = Received(@, FALSE)]
     /\ UNCHANGED <<kind, live, held, bucket, ever, started, ensures>>

Requested(i) ==
  /\ Fault
  /\ conn[i].status = "connected" /\ ~conn[i].deaf
  /\ RequestedPool(i) \/ RequestedAnonymous(i)

\* Mutant: joins that still wait are taken to cover every channel.
RejoinIdle(order) == Send(bucket, IF bucket.queue = <<>> THEN order ELSE <<>>)

\* Every channel is queued.
Rejoin(order) == Send(bucket, order)

\* The orders in which a map may be walked.
Orders(names) ==
  {s \in [1 .. Cardinality(names) -> names] :
      \A name \in names : \E j \in DOMAIN s : s[j] = name}

\* onConnected() of a connection of the pool of several.
ConnectedMulti(i) ==
  /\ kind = "multi"
  /\ conn' = [conn EXCEPT ![i] = SendJoins(Welcomed(@), held[i])]
  /\ UNCHANGED bucket

\* onConnected() of the single pool, and onAnonymousReadConnected().
ConnectedLimited(i) ==
  /\ kind # "multi"
  /\ \E order \in Orders(held[i]) :
        LET sent == Rejoin(order)
        IN /\ bucket' = Handled(sent.b, sent.k)
           /\ conn' = [conn EXCEPT ![i] = SendJoins(Welcomed(@), Taken(sent.b, sent.k))]

\* The server welcomes the client.
Connected(i) ==
  /\ conn[i].status = "connecting"
  /\ ConnectedMulti(i) \/ ConnectedLimited(i)
  /\ UNCHANGED <<kind, live, held, ever, started, ensures, faults>>

\* Communi's disconnected signal, for a socket that was up.
Started(i) == IF conn[i].status = "connected" THEN FALSE ELSE started

\* The socket fails, or never gets through.
Lost(i) ==
  /\ Fault
  /\ conn[i].status # "off"
  /\ conn' = [conn EXCEPT ![i] = Unconnected(@)]
  /\ started' = Started(i)
  /\ UNCHANGED <<kind, live, held, bucket, ever, ensures>>

\* The peer falls silent and the socket stays as it is.
Silenced(i) ==
  /\ Fault
  /\ conn[i].status = "connected" /\ ~conn[i].deaf
  /\ conn' = [conn EXCEPT ![i].deaf = TRUE]
  /\ UNCHANGED <<kind, live, held, bucket, ever, started, ensures>>

Hear(i) ==
  /\ conn[i].status = "connected" /\ ~conn[i].deaf
  /\ \E isPong \in BOOLEAN : conn' = [conn EXCEPT ![i] = Received(@, isPong)]
  /\ UNCHANGED <<kind, live, held, bucket, ever, started, ensures, faults>>

\* A peer that is not deaf answers a PING before the timer expires again.
Ping(i) ==
  /\ conn[i].status = "connected" /\ conn[i].ping
  /\ conn[i].waiting /\ ~conn[i].recent => conn[i].deaf
  /\ conn' = [conn EXCEPT ![i] = PingTimeout(@)]
  /\ started' = (IF conn'[i].status = "off" THEN FALSE ELSE started)
  /\ UNCHANGED <<kind, live, held, bucket, ever, ensures, faults>>

Retry(i) ==
  /\ conn[i].retry
  /\ conn' = [conn EXCEPT ![i] = RetryTimeout(@)]
  /\ UNCHANGED <<kind, live, held, bucket, ever, started, ensures, faults>>

Next ==
  \/ \E name \in Names : Create(name) \/ Destroy(name)
  \/ Connect \/ Reload \/ Ensure \/ CooldownEnds
  \/ \E i \in live : \/ Requested(i) \/ Connected(i) \/ Lost(i) \/ Silenced(i)
                     \/ Hear(i) \/ Ping(i) \/ Retry(i)

Spec == Init /\ [][Next]_vars

(***************************************************************************)
(* Timers of Qt expire, the first connect() is made, posted calls run, and *)
(* a server that is asked to connect answers (a refusal is a fault).       *)
(***************************************************************************)
Fairness ==
  /\ WF_vars(Connect /\ ~ever) /\ WF_vars(Ensure) /\ WF_vars(CooldownEnds)
  /\ \A i \in Ids : /\ WF_vars(i \in live /\ Connected(i))
                    /\ WF_vars(i \in live /\ Ping(i))
                    /\ WF_vars(i \in live /\ Retry(i))

FairSpec == Spec /\ Fairness

----------------------------------------------------------------------------
(* Properties *)

\* Each variable keeps its type, and the timers of the rate limit are the
\* budget that is out.
TypeOK ==
  /\ kind \in {"single", "multi", "anonymous"}
  /\ live \subseteq Ids
  /\ conn \in [Ids -> Connection]
  /\ held \in [Ids -> SUBSET Names]
  /\ bucket \in [queue : Seq(Names), budget : 0 .. Budget, running : 0 .. Budget]
  /\ ever \in BOOLEAN /\ started \in BOOLEAN
  /\ ensures \in 0 .. MaxFaults /\ faults \in 0 .. MaxFaults

\* At most Budget joins are sent within one cooldown, and while joins wait
\* every unit of the budget has a timer running that will send one
\* (RatelimitBucket::send, handleOne).
RateKept ==
  /\ bucket.budget + bucket.running = Budget
  /\ bucket.queue # <<>> => bucket.running = Budget

\* A connection that should be up and is not has a timer or a posted call
\* that opens it (the handlers of connectionLost, getOrCreate with
\* everConnected, ensureAnonymousReadConnection): whatever order losses,
\* silences, reconnects and closed channels come in.
LossIsPursued ==
  \A i \in live :
     /\ conn[i].status = "off"
     /\ IF kind = "anonymous" THEN held[i] # {} ELSE ever
     => conn[i].retry \/ ensures > 0

\* On a connection that is up every channel is joined or waits for its turn,
\* and nothing is joined that was closed (onConnected, onChannelCreated, the
\* destroyed handlers, actuallyJoin looking into the map).
JoinedOrQueued ==
  \A i \in live :
     conn[i].status = "connected" =>
        /\ conn[i].joined \subseteq held[i]
        /\ held[i] \subseteq conn[i].joined
             \cup {bucket.queue[j] : j \in 1 .. Len(bucket.queue)}

\* A channel is read on one connection only, no connection has more channels
\* than its bound, and none of several is kept without channels (getOrCreate
\* and the destroyed handler of the pool of several connections).
PoolIsTidy ==
  /\ \A i, j \in live : i # j => held[i] \cap held[j] = {}
  /\ kind = "multi" =>
        \A i \in live : held[i] # {} /\ Cardinality(held[i]) <= PerConnection
  /\ \A i \in Ids \ live : held[i] = {} /\ conn[i] = NewConnection

Heard == UNION {conn[i].joined : i \in {j \in live : ~conn[j].deaf}}

\* A channel that stays open is in the end joined on a connection whose peer
\* listens, through losses, silent peers, reconnects and the rate limit.
EveryChannelIsHeard ==
  \A name \in Names : name \in Channels ~> (name \in Heard \/ name \notin Channels)
=============================================================================
