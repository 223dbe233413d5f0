-------------------------- MODULE SeventvChannels --------------------------
(***************************************************************************)
(* Which 7TV users and emote sets the application is subscribed to, and    *)
(* which emotes a channel shows.  A channel learns its 7TV user and set    *)
(* from a load, or from a push of 7TV that says that the user switched.    *)
(* Taking new ids subscribes to them, giving up old ones drops each that   *)
(* no other channel uses.                                                  *)
(*                                                                         *)
(* Loads are answered on the GUI thread.  A push is handled on the thread  *)
(* of its websocket: TwitchIrcServer walks its channels holding            *)
(* channelMutex and a reference to the channel it is at (KickChatServer    *)
(* has no mutex), and the channel writes its members there and posts the   *)
(* rest to the GUI thread.                                                 *)
(***************************************************************************)
EXTENDS Integers, Sequences, FiniteSets

CONSTANTS
    Listed,     \* channels in TwitchIrcServer::channels
    Anonymous,  \* channels in TwitchIrcServer::anonymousChannels
    Kick,       \* channels in KickChatServer
    Users,      \* 7TV user ids
    Sets,       \* 7TV emote set ids
    MaxPushes,  \* bound: pushes of 7TV
    None        \* an empty id

Twitch == Listed \cup Anonymous

Channels == Twitch \cup Kick

ASSUME ChannelsAssumption ==
    /\ Listed \cap Anonymous = {} /\ Twitch \cap Kick = {}
    /\ None \notin Channels
ASSUME IdsAssumption == None \notin Users /\ None \notin Sets /\ Users \cap Sets = {}
ASSUME BoundAssumption == MaxPushes \in Nat

VARIABLES
    chan,        \* state, seventvUserID_, seventvEmoteSetID_ and the set shown
    subscribed,  \* subscribedUsers and subscribedEmoteSets
    dropping,    \* ids the GUI thread is about to give to dropSeventvChannel
    pushing,     \* the visit of the socket's thread to a channel
    stuck,       \* that thread waits for a mutex it holds
    jobs,        \* what that thread posted to the GUI thread
    fetches,     \* getEmoteSet() requests on their way
    pushes       \* pushes so far

vars == <<chan, subscribed, dropping, pushing, stuck, jobs, fetches, pushes>>

(* "dying": the GUI thread let go of the channel while the socket's thread *)
(* refers to it, so that it is destroyed there.                            *)
States == {"none", "open", "dying", "destroyed"}

Channel == [state : States, user : Users \cup {None}, set : Sets \cup {None},
            shown : Sets \cup {None}]

Unborn == [state |-> "none", user |-> None, set |-> None, shown |-> None]

Visit == [chan : Channels, set : Sets, old : SUBSET Sets]

Job == [chan : Channels, old : SUBSET Sets]

Fetch == [chan : Channels, set : Sets]

TypeOK ==
    /\ chan \in [Channels -> Channel]
    /\ subscribed \in SUBSET (Users \cup Sets)
    /\ dropping \in SUBSET (Users \cup Sets)
    /\ pushing \in Visit \cup {None}
    /\ stuck \in BOOLEAN
    /\ jobs \in Seq(Job)
    /\ fetches \in SUBSET Fetch
    /\ pushes \in 0 .. MaxPushes

Init ==
    /\ chan = [c \in Channels |-> Unborn]
    /\ subscribed = {}
    /\ dropping = {}
    /\ pushing = None
    /\ stuck = FALSE
    /\ jobs = << >>
    /\ fetches = {}
    /\ pushes = 0

-----------------------------------------------------------------------------

Ids(c) == {chan[c].user, chan[c].set} \ {None}

(* std::weak_ptr::lock() *)
Alive(c) == chan[c].state \in {"open", "dying"}

(* The walk over a list of Twitch channels holds channelMutex.  A channel  *)
(* that dies there never lets go of it: its destructor takes it again.     *)
MutexFree == ~stuck /\ (pushing # None => pushing.chan \in Kick)

GuiFree == dropping = {}

PostedFor(c) == \E i \in DOMAIN jobs : jobs[i].chan = c

Referred(c) == pushing # None /\ pushing.chan = c

(* A channel object is created.  A destroyed one may stand for a new one,  *)
(* except a Kick channel, which leaves behind what it had.                 *)
Open(c) ==
    /\ GuiFree
    /\ chan[c].state \in IF c \in Twitch THEN {"none", "destroyed"} ELSE {"none"}
    /\ ~PostedFor(c) /\ ~Referred(c)
    /\ \A f \in fetches : f.chan # c
    /\ chan' = [chan EXCEPT ![c] = [Unborn EXCEPT !.state = "open"]]
    /\ UNCHANGED <<subscribed, dropping, pushing, stuck, jobs, fetches, pushes>>

(* Mutant: empty ids are given up like any other *)
GivenUpEmptyToo(c, user, set) == {chan[c].user, chan[c].set} \ {user, set}

(* TwitchChannel::updateSeventvData: oldUserID and oldEmoteSetID *)
GivenUp(c, user, set) == Ids(c) \ {user, set}

(* SeventvEventAPI::subscribeUser: sets, so that a name is taken once *)
SubscribeUser(ids) == subscribed \cup (ids \ {None})

(* SeventvEventAPI::unsubscribeUser, unsubscribeEmoteSet *)
Unsubscribe(ids) == subscribed \ ids

(* TwitchChannel::updateSeventvData and KickChannel::updateSeventvData on  *)
(* the GUI thread, in the answer of a load, which sets the emotes first.   *)
Loaded(c, user, set) ==
    /\ GuiFree
    /\ chan[c].state = "open"
    /\ chan' = [chan EXCEPT ![c] = [@ EXCEPT !.user = user, !.set = set, !.shown = set]]
    /\ \/ /\ user = chan[c].user /\ set = chan[c].set
          /\ UNCHANGED <<subscribed, dropping>>
       \/ /\ user # chan[c].user \/ set # chan[c].set
          /\ subscribed' = SubscribeUser({user, set})
          /\ dropping' = GivenUp(c, user, set)
    /\ UNCHANGED <<pushing, stuck, jobs, fetches, pushes>>

(* Mutant: only the emote sets of the channels are compared *)
NeededAsSet(id) == \E c \in Listed : Alive(c) /\ id = chan[c].set

(* TwitchIrcServer::dropSeventvChannel: only `channels` are looked at *)
Needed(id) == \E c \in Listed : Alive(c) /\ id \in {chan[c].user, chan[c].set}

(* TwitchIrcServer::dropSeventvChannel *)
DropSeventvChannel ==
    /\ ~GuiFree
    /\ MutexFree
    /\ subscribed' = Unsubscribe({id \in dropping : ~Needed(id)})
    /\ dropping' = {}
    /\ UNCHANGED <<chan, pushing, stuck, jobs, fetches, pushes>>

(* Mutant: the destructor of a Twitch channel is that of a Kick channel *)
ReleasedKept(c) == {}

(* What ~TwitchChannel drops.  ~KickChannel drops none of the two.         *)
Released(c) == IF c \in Twitch THEN Ids(c) ELSE {}

(* The last reference on the GUI thread goes, and with it the channel,     *)
(* unless the socket's thread holds one.                                   *)
Close(c) ==
    /\ GuiFree
    /\ chan[c].state = "open"
    /\ \/ /\ Referred(c)
          /\ chan' = [chan EXCEPT ![c].state = "dying"]
          /\ UNCHANGED dropping
       \/ /\ ~Referred(c)
          /\ chan' = [chan EXCEPT ![c].state = "destroyed"]
          /\ dropping' = Released(c)
    /\ UNCHANGED <<subscribed, pushing, stuck, jobs, fetches, pushes>>

-----------------------------------------------------------------------------
(* The thread of the websocket: updateSeventvUser in two steps, since the  *)
(* GUI thread may write the same members in between.  Anonymous channels   *)
(* are not walked.  A load of the set is requested in either case.         *)

Push(c, set) ==
    /\ pushes < MaxPushes
    /\ pushing = None /\ ~stuck
    /\ c \in Listed \cup Kick
    /\ chan[c].state = "open" /\ chan[c].user # None
    /\ \/ /\ set = chan[c].set
          /\ fetches' = fetches \cup {[chan |-> c, set |-> set]}
          /\ UNCHANGED pushing
       \/ /\ set # chan[c].set
          /\ pushing' = [chan |-> c, set |-> set, old |-> {chan[c].set} \ {None}]
          /\ UNCHANGED fetches
    /\ pushes' = pushes + 1
    /\ UNCHANGED <<chan, subscribed, dropping, stuck, jobs>>

(* A channel that dies here is destroyed by this thread: a Kick channel is *)
(* gone, a Twitch channel waits for the mutex its own thread holds.        *)
PushIsDone ==
    /\ pushing # None
    /\ LET c == pushing.chan
           dies == chan[c].state = "dying"
       IN  /\ chan' = [chan EXCEPT
                          ![c].set = pushing.set,
                          ![c].state = IF dies /\ c \in Kick THEN "destroyed" ELSE @]
           /\ jobs' = Append(jobs, [chan |-> c, old |-> pushing.old])
           /\ fetches' = fetches \cup {[chan |-> c, set |-> pushing.set]}
           /\ stuck' = (dies /\ c \in Twitch)
    /\ pushing' = None
    /\ UNCHANGED <<subscribed, dropping, pushes>>

-----------------------------------------------------------------------------
(* The GUI thread: what was posted *)

(* The posted half of updateSeventvData reads the members as they are by   *)
(* then.  It refers to the channel by a plain pointer: if the channel is   *)
(* gone, it reads what its memory still holds.                             *)
RunJob ==
    /\ GuiFree
    /\ jobs # << >>
    /\ subscribed' = SubscribeUser(Ids(Head(jobs).chan))
    /\ dropping' = Head(jobs).old
    /\ jobs' = Tail(jobs)
    /\ UNCHANGED <<chan, stuck, pushing, fetches, pushes>>

(* The answers of getEmoteSet() come in any order, and are not compared    *)
(* with the set the channel has by then.  A failure empties the emotes.    *)
Fetched(f) ==
    /\ GuiFree
    /\ fetches' = fetches \ {f}
    /\ chan' = IF Alive(f.chan)
               THEN [chan EXCEPT ![f.chan].shown = f.set]
               ELSE chan
    /\ UNCHANGED <<subscribed, dropping, stuck, pushing, jobs, pushes>>

FetchFails(f) ==
    /\ GuiFree
    /\ fetches' = fetches \ {f}
    /\ chan' = IF Alive(f.chan)
               THEN [chan EXCEPT ![f.chan].shown = None]
               ELSE chan
    /\ UNCHANGED <<subscribed, dropping, stuck, pushing, jobs, pushes>>

-----------------------------------------------------------------------------

GuiThread ==
    \/ \E c \in Channels :
          \/ Open(c) \/ Close(c)
          \/ \E user \in Users, set \in Sets \cup {None} : Loaded(c, user, set)
    \/ DropSeventvChannel
    \/ RunJob
    \/ \E f \in fetches : Fetched(f) \/ FetchFails(f)

SocketThread ==
    \/ \E c \in Channels, set \in Sets : Push(c, set)
    \/ PushIsDone

Next == GuiThread \/ SocketThread

Spec == Init /\ [][Next]_vars

-----------------------------------------------------------------------------
(* Properties *)

(* The ids a channel may rely on: all it has, unless what subscribes them  *)
(* is yet to run.                                                          *)
ReliesOn(c) == IF chan[c].state = "open" /\ ~PostedFor(c) THEN Ids(c) ELSE {}

Shared == INSTANCE SharedSubscriptions
    WITH Users <- Listed, Names <- Users \cup Sets,
         needed <- [c \in Listed |-> ReliesOn(c)]

(* Among the channels of TwitchIrcServer sharing is safe: whatever the two *)
(* threads, loads, pushes and destructors interleave to, no channel loses  *)
(* a user or set that it has taken, and what a posted half subscribes late *)
(* is never dropped in between.                                            *)
ListedAreServed == Shared!Spec

(* TwitchIrcServer.hpp:131 on dropSeventvChannel: "Checks if any channel   *)
(* still needs this `userID` or `emoteSetID`."                             *)
EveryChannelIsServed == \A c \in Channels : ReliesOn(c) \subseteq subscribed

(* TwitchIrcServer.hpp:132: "If not, it unsubscribes from the respective   *)
(* messages."  While all changes come from loads, what is subscribed is    *)
(* used by a channel, left behind by a Kick channel that was destroyed, or *)
(* about to be dropped.                                                    *)
LeftBehind(c) == c \in Kick /\ chan[c].state = "destroyed"

NothingLingers ==
    pushes = 0 =>
        subscribed \subseteq
            dropping \cup UNION {Ids(c) : c \in {d \in Channels : Alive(d) \/ LeftBehind(d)}}

=============================================================================
