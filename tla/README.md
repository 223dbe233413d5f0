# Formal models of the chat client

TLA+ models of the concurrent core of this repository (a Chatterino fork, C++/Qt): the code that
keeps subscriptions, connections and joined channels alive while they fail, and two components on top
of it in which answers, notifications and the user race. Each module is translated from the source files
it names; `PROJECT.json` maps every definition to its lines, lists the hazards the properties are
aimed at, and names the model-checking runs and the theorems.

To repeat a run: `tlc -config EventSubCore.cfg MCEventSubController.tla` (and likewise for the
others); to repeat a proof: `tlapm EventSubControllerProofs.tla`.

## 1. The system

The client shows chat channels of Twitch, Kick and YouTube. What is displayed comes from IRC, from
websocket feeds and from HTTP APIs. Qt's event loop (the *GUI thread*) owns channels, managers and
nearly all state; websockets and EventSub sessions run on `io_context` threads of their own; HTTP
answers arrive as callbacks on the GUI thread.

### Inventory of the parts with state worth modelling

| Part (source below `src/src`) | State | Operations | Interacts with | What is hard | What makes it correct |
|---|---|---|---|---|---|
| **EventSub controller** `providers/twitch/eventsub/{Controller,Connection}` | map request → {state, refCount, connection, id, timer}; list of connections | `subscribe`, `removeRef`, `setQuitting`, the answers to create and delete calls, `retrySubscription`, `reconnectConnection` | channels hold handles; Helix answers on the GUI thread; sessions and timers on the IO thread | two threads on one map, each handler only partly under the mutex; answers for sessions that are gone; retries | counts are the live handles; a wanted subscription is being pursued or reported failed; a subscription Twitch serves is deleted, not forgotten |
| **EventSub session** `lib/twitch-eventsub-ws/src/session.cpp` | handshake, welcome, keepalive | welcome, notification, reconnect by URL, fail | tells its Connection | loss at any time | the listener is told of the end |
| **Live updates** `providers/liveupdates` | clients and what each carries, backlog, `addingClient_`, retry timers | `subscribe`, `unsubscribe`, `onConnectionOpen`, `onConnectionClose`, timers, `stop` | inherited by the 7TV, BTTV, Kick and PubSub managers; one socket per client | sockets that fail before, during and after being filled | one place per subscription, limit per client, nothing wanted is lost, the backlog is never left waiting for nobody |
| **Websocket pool** `common/websockets` | per connection: stream, queue, read/write/close under way, health timer, endpoints | handle: `sendText`, `sendBinary`, `close`; handlers of each asynchronous operation | listener of the caller; Boost.Beast | completions in any order, cancelled operations that had completed, silent peers | the listener hears open, messages, close in that order and close for certain; messages in order |
| **7TV channel tracking** `TwitchChannel`, `KickChannel`, `TwitchIrcServer::dropSeventvChannel`, `SeventvEventAPI` | 7TV user and emote set of each channel, sets of subscribed ids | loads, pushes, `updateSeventvData`, `dropSeventvChannel`, destruction of channels | live updates (pushes come on the socket's thread) | ids shared by channels; a push that changes a channel in two halves on two threads | an id that a channel relies on is subscribed; what nobody uses is dropped |
| **IRC read connections** `TwitchReadConnectionPool`, `TwitchIrcServer` (anonymous connection), `RatelimitBucket`, `IrcConnection2` | channels per connection, queue and budget of joins, retry and ping timers | channel created/destroyed, connected, lost, RECONNECT, timers | `TwitchIrcServer` | losses nobody announces, reconnects while joins are queued | a lost connection is pursued, each channel is joined on one connection and heard in the end, within the rate |
| **AutoMod reviews** `controllers/automod` | entries with action and generation, account generation, notifications seen | hold and update notifications, approve, deny, punish, retry, answers, account change, prune | Helix, EventSub | an answer and a notification of one event in any order, two calls in a row, an account that changes between them | one punishment per decision, under the account that decided; entries end up true |
| **Message history** `messages/LimitedQueue.hpp`, `common/Channel.cpp`, `TwitchChannel` (recent messages, public logs), `ChannelView` | ring with a limit that may be raised, paging cursor, a filtered copy in each view | push, fill in, add at the start, raise and reset the limit, load a page, open and close views | recent-messages and log services, every view | ring and copies change while a page is on its way | order, copies equal to the channel, paging skips nothing |
| **Endpoint order** `websockets/detail/BalancedResolverResults.cpp` | two cursors | advance, reset | websocket connection | pure | each endpoint once, families alternate |
| **Kick, YouTube, recent messages, emote and badge providers, accounts, HTTP, images, settings, windows, plugins, user interface ...** | see `components` in `PROJECT.json` | | | decoding, caching, layout | |

A feed travels like this: a channel takes a handle (EventSub) or joins (live updates) on the GUI
thread; the manager assigns it to a connection or opens one; the connection's thread reports its
open, messages and end by posting to the manager; the manager moves what was lost to another
connection. `EventSubController`, `LiveUpdates` and `WebSocketConnection` are the layers of that path;
`SeventvChannels` is a user of the live updates, `AutoModReview` of EventSub and Helix, and
`ReadConnectionPool` and `MessageHistory` are the same for plain chat.

## 2. Modules

| Module | Role |
|---|---|
| `EventSubController` | the controller, its Connections and sessions, Helix and Twitch as environment |
| `MCEventSubController` | requests for TLC, symmetry |
| `EventSubControllerProofs` | type correctness, the reference counts, what ties subscriptions to sessions, the pursuit of held requests, the ids of one account |
| `LiveUpdates` | `BasicPubSubManager` with its clients, the sockets as environment |
| `MCLiveUpdates` | symmetry for TLC |
| `LiveUpdatesProofs` | all its safety properties |
| `WebSocketContract` | abstract: what a user of the pool may rely on |
| `WebSocketConnection` | one connection of the pool, shown to implement the contract |
| `MCWebSocketConnection` | instance for TLC |
| `WebSocketConnectionProofs` | type correctness with the queue invariant, the listener is never forgotten, the health check, and that the connection implements the contract |
| `SharedSubscriptions` | abstract: users share named subscriptions and never lose one they rely on |
| `SeventvChannels` | the 7TV ids of all channels, loads, pushes on the socket's thread and destructors |
| `MCSeventvChannels` | symmetry for TLC |
| `SeventvChannelsProofs` | types, nothing lingers, and that the listed channels implement `SharedSubscriptions` |
| `IrcConnection` | operators: what each event does to one connection of `IrcConnection2` |
| `ReadConnectionPool` | the two kinds of pool and the anonymous connection, with their rate limit |
| `ReadConnectionPoolProofs` | all its safety properties |
| `AutoModReview` | `AutoModReviewController` with Twitch as environment |
| `AutoModReviewProofs` | types, one punishment, its account, what entries show and what becomes of them |
| `MessageRing` | operators: `LimitedQueue` and what `Channel` does with it |
| `MessageHistory` | one channel, its loads and the views that copy it |
| `MCMessageHistory` | views, filters and days for TLC |
| `MessageRingProofs` | what the operators on rings return, and when the copy of a view serves it |
| `MessageHistoryProofs` | types, exact copies, the order of the history, that paging skips nothing, and that the newest messages are shown |

Definitions marked "Mutant" in the comments are plausible errors of the code next to the definition
they change. They are used by no specification: each shows that some property notices that error.

### EventSubController

*State.* `entry` is `Controller::subscriptions`; an absent key is the record `Missing`. `conn` are
Connection objects with their Session (`open`, `ready` after the welcome, `user` and `auth` as the
code claims them, `subs` what `reconnectConnection` will make again), `connections` the list that is
searched in order. `posted` is the queue of the `io_context`, `calls` the Helix calls on their way,
`twitch` what Twitch serves. A Twitch subscription id is represented by the session it was made on,
which together with the key identifies it. A `weak_ptr` to a session is (connection, generation): a
reconnect by URL replaces the Session under the same Connection, and the old pointer then finds
nothing.

*Steps.* One per critical section. `subscribe()` on the IO thread takes the mutex, looks for a
connection and may go on to `retrySubscription()`, which takes it again: `IoSubscribe` and
`FinishRetry`, with `retrying` holding what is left to do. `reconnectConnection()` subscribes what was
lost one by one (`resubscribing`). Between such halves the GUI thread may act, the IO thread may not
(`IoFree`). A timer is queued when it expires and then runs even if it is destroyed (`fired`).
The mutex guards the entries and not the Connections. `markRequestSubscribed()` and
`markRequestUnsubscribed()` hold it while they take the listener of a session by a plain pointer and write
to it: `CreateSucceeds`/`DeleteIsAnswered` find the listener, `MarkRequestSubscribed`/`MarkRequestUnsubscribed`
write, and with the mutex held in between (`marking`) the IO thread takes no section of its own, but a session may
end. `reconnectConnection()` gives the Connection up without the mutex and resets the entries under it:
`SessionEnds` and `ResetSubscriptions`, with `resetting` in between. A write to a Connection that is gone by then
is undefined in C++; the model takes the outcome that nothing of it remains. Such a race of a write of the GUI
thread with the very instruction that tests `subs.empty()` comes to one order or the other. Not split: in
`IoSubscribe` the search for a session, on the IO thread like the sessions themselves, belongs to the step that
holds the mutex.
`isAppAboutToQuit()` and `Controller::quitting` are one flag. `assert`s are not guards.

*Environment.* `Faults` chooses what goes wrong: calls refused, calls or answers lost, sessions closed,
reconnects by URL, quitting. Twitch makes a subscription once per session, answers `conflict`
to a second, and forgets a session's subscriptions when it ends.

*Bounds.* `MaxPosted`: the application asks for nothing new while that much is on its way (handlers
are not bounded). `MaxGen`: reconnects by URL of one Connection object. `Conns`: a Connection nothing
refers to is used again for a new one, and a session is opened only if one is free. `CallIds`: a call
waits for a free slot. Two handles are enough for taking while dropping; two requests for sharing a
session; three sessions for one lost while another is opened.

### LiveUpdates

*State.* Named as in the code: `clients`, `subs` (each client's `subscriptions_`), `pending` (a vector
used as a stack), `adding`, `stopping`, `retries` (timers running). `joined` is what the owner of the
manager tracks. `socket` is the socket as its own thread sees it; `posted` the events on their way.

*Steps.* The handlers of the manager run on the GUI thread. The loops of `onConnectionOpen` and
`onConnectionClose` take one turn per step, so that sockets change in the middle of them, and no other
handler of the manager runs meanwhile (`Idle`).

*Bounds.* `MaxJoins` bounds the churn, `MaxFaults` what fails before `stop()` (after it, every socket
closes), `MaxClients` the clients at one time: ids are used again once nothing can refer to them.
`MaxClients` also limits `AddClient`, so it must not be reached: there is one run for safety and liveness, and
it has five for three subscriptions. With three subscriptions and two per client a client being filled may already
carry some, one may be full, and one subscription may be left over; those are the cases the loops tell apart.

### WebSocketConnection and WebSocketContract

*State.* The members of `WebSocketConnectionHelper`, what is under way (`connecting`, `reading`,
`writing`, `closing`, `armed`/`due` for the timer), and the stream, reduced to what the code can see
and what decides how operations end: `down`, `open` (`is_open()`), `closing` (a close frame was sent),
`over`. `told` is the last callback; `accepted` and `wire` record what was sent and what arrived.

*Steps.* One per handler on the pool's single thread: what the handle posted, or the completion of an
operation with success or error. An operation cancelled by `closeImpl()` may have completed before,
so success stays possible. A close frame waits behind a message being written. `PeerDies` may happen
at any time and brings no error.

*Refinement.* `WebSocketContract` has three variables: the listener hears *open* at most once,
messages only after it, *close* last; the server receives a prefix of what was accepted, in order.
`KeepsContract == Contract!Spec` instantiates it with the variables of the same name.

*Bounds.* Two endpoints (one fails, one is left), two messages (one being written, one queued), two
closes (the user's and the pool's).

### SeventvChannels and SharedSubscriptions

*State.* `chan` holds each channel's `seventvUserID_`, `seventvEmoteSetID_` and the set it shows,
`subscribed` the two sets of `SeventvEventAPI`. `pushing` is the visit of the socket's thread to a
channel in `forEachChannel()`, `jobs` what it posted to the GUI thread, `dropping` the ids the GUI
thread has given up and not yet looked at, `fetches` the emote sets being loaded. A channel is `dying`
when the GUI thread has let go of it while the other thread still refers to it.

*Steps.* Loads and closing run on the GUI thread. A push reads the old ids, writes the new ones and
posts the subscription: `Push`, `PushIsDone` and `RunJob`, between which the GUI thread may act.
`channelMutex` is part of the guards; `stuck` is set where the thread of the socket destroys a
channel and takes the mutex it already holds.

*Refinement.* `ListedAreServed == Shared!Spec`: for the channels of `TwitchIrcServer::channels` the
code implements `SharedSubscriptions`, with `needed` mapped to the ids of an open channel whose posted
half has run. It does not for Kick and anonymous channels (`EveryChannelIsServed`, violated).

*Bounds.* `MaxPushes`. Two pushes are enough for two changes of one channel or of two that share a set;
two listed channels and a Kick channel for every kind of sharing; two sets to switch between.

`fetches` and the set a channel shows are there because the handlers change them; no property reads them. The
answers of `getEmoteSet()` are not compared with the set the channel has by then, so that nothing more can be said than
that a channel may show an earlier set of its own (section 3), and no text of the repository says otherwise.

### IrcConnection and ReadConnectionPool

*State.* Each connection is a record named as in `IrcConnection2`; `deaf` is a peer that is gone
without the socket noticing, `joined` the channels joined on this socket. `held` are the channels
assigned to a connection, `bucket` the `RatelimitBucket` (queue, budget, cooldown timers). `kind`
chooses the pool of one connection, the pool of several, or the anonymous connection.

*Steps.* All of it runs on the GUI thread, so a handler is an action; the server, the timers and the
user interleave. Delays (backoff, cooldown) are left out: a timer may expire at any time.

*Bounds.* `MaxQueue`: no channel is opened while more joins wait (reconnects queue all channels
regardless). `MaxConnections`: ids, used again; three channels at two per connection need two.
`MaxFaults`: losses, refusals, silences and RECONNECTs; two of them make one arrive while the first is
being repaired. A budget of one makes every second join wait.

### AutoModReview

*State.* `entries`, `order`, `generation` are the members of the controller; `calls` the calls of the
Twitch API with `cause`, the generation of the decision a punishment follows (history, read by the
properties only); `twitch`, `notes` and `seen` what Twitch did, its notifications, and those handled.

*Steps.* Everything runs on the GUI thread. Twitch carries out a call and the answer may be lost; the
notification may be handled before or after the answer. The account may change, and change back, at
any point. `PerformSecondary` is shared by the three places that start a punishment.

*Bounds.* `MaxItems = 1` with two messages drops entries with calls on their way. `MaxGeneration` and
`MaxSwitches` bound what the user does, `Reviewed` which messages the user acts on; two decisions (or one and a
retry) and one change of account. The proofs need none of these values.

### MessageRing and MessageHistory

*State.* A message is its time. `ring` is `Channel::messages_` with its limit; each view has `copy`
(its `channel_`) with its `date` (`lastDate_`), `shown` and `ownsRaisedMessageLimit_`; `logs` is `olderLogs_`: the days known, the
cursor where the next page ends, the anchor that says whether the cursor is still good. `link` and
`lastUp` decide what is asked for after a reconnect.

*Steps.* Each handler of the GUI thread is an action and includes what every view does with the
signals it emits. A message of a new date is preceded by a day separator in each copy that gets it (`OnNewDate`): the
channel does not have it, and in a full copy it takes the place of a message. `FillOne` goes through
`LimitedQueue::insertBefore`/`insertAfter` on a ring that may be full, in which case the first element is dropped. A ring may hold one message as two objects: a
page is compared with the channel alone, and the copy of a filtered view keeps what its channel has
dropped; so a gap is filled by object and not by message, as the code compares pointers.

*Bounds.* `DayOf` gives the UTC days of at most five messages, two of them old, and `DateOf` their local dates, which begin
later than the days; a limit of two makes the ring full at once, so that a separator pushes a message out of the copy; two
pages of two; `RecentLimit` of two lets a reconnect miss messages; `MaxEvents` allows for one loss, clear
or change of views besides the chat and the paging. With either of the two views alone two such events
were checked as well (about 750 000 states each), with the same result.

## 3. Runs and what they show

| Run | Instance | Properties | Shows |
|---|---|---|---|
| `eventsub_core` | one request, two handles, two sessions, every fault | `TypeOK`, `RefCountIsHandles`, `IdsAreDeleted` | counts are live handles; with one account, an id leaves an entry only into a delete call while Twitch serves it |
| `eventsub_sessions` | two requests that share sessions which close and reconnect | `CoverIsKept`, `OneConnectionOnItsWay` | what is recorded for a Subscribed request stays recorded until the request is made again; never two sessions being opened for one token |
| `eventsub_live` | fair; one request, two handles, calls refused and lost | `InterestIsPursued`, `EverySubscriptionSettles` | a wanted request always has a timer, a posted handler or a call ahead, and ends subscribed or failed |
| `eventsub_lost` | sessions close | `InterestIsPursued` **violated** | see below |
| `liveupdates` | fair; three subscriptions, two per client, two faults, four joins | `TypeOK`, `OnePlaceEach`, `NothingIsLost`, `BacklogIsPursued`, `WantedIsServed` | safety of the manager; once failures end, what stays wanted reaches an open socket |
| `websocket` | fair; TLS, two endpoints, two messages, two closes | `TypeOK`, `StillListening`, `OpenIsWatched`, `KeepsContract`, `CloseEnds`, `DeadPeerIsNoticed`, `SentOrEnded` | the connection implements the contract, always ends when closed, notices a dead peer, and delivers or reports |
| `seventv` | two listed channels, a Kick channel, one user, two sets, two pushes | `TypeOK`, `NothingLingers`, `ListedAreServed` | sharing is safe among listed channels on both threads; without pushes nothing stays subscribed but what Kick channels leave |
| `seventv_kick` | same without pushes | `EveryChannelIsServed` **violated** | see below |
| `read_connections` | fair; three channels, budget 1, two per connection, two faults, each kind of pool | `TypeOK`, `LossIsPursued`, `JoinedOrQueued`, `PoolIsTidy`, `EveryChannelIsHeard` | losses of every kind are repaired and each open channel is heard in the end |
| `automod_review` | fair; two messages, queue of one, two accounts | `TypeOK`, `OnePunishment`, `PunisherIsDenier`, `ShownIsRunning`, `SettledIsRight`, `PunishmentFollows`, `EveryActionSettles` | no decision punishes twice or under another account; entries end up showing what Twitch did |
| `history` | fair; five messages of two days, limit 2, a plain and a filtered view | `TypeOK`, `HistoryIsOrdered`, `CopyIsExact`, `NewestAreShown`, `NothingIsSkipped`, `LoadEnds` | order and copies hold under all interleavings; a view shows its newest messages, less one for each day separator its copy got; paging skips nothing within the limits named below |
| `history_reader` | same | `NothingDisappears` **violated** | see below |

`CHECK_DEADLOCK FALSE` appears where the system may really stop: after quitting (`eventsub_core`),
after `stop()` or when the bounds of churn and faults are used up (`liveupdates`), when a connection is
destroyed (`websocket`), when every channel is destroyed or the mutex deadlock is reached
(`seventv`, `seventv_kick`), and when the chat is over (`history`, `history_reader`).

### Findings

* **A request without pursuit** (`eventsub_lost`). A create answered after its session is gone is
  dropped: its entry stays Subscribing, holders wait and nothing is pending.
* **Kick and anonymous channels lose their 7TV subscriptions** (`seventv_kick`). The header says that
  `dropSeventvChannel()` looks whether *any* channel still needs an id; it looks at the listed Twitch
  channels only.
* **Read history disappears** (`history_reader`). `Channel.hpp` promises that nothing is pushed out
  while the limit is raised; `fillInMissingMessages()` after a reconnect inserts into the full ring
  and drops the oldest messages.

Seen while modelling, in the models, and not stated by a run:

* EventSub: `IdsAreDeleted` holds for the requests of one account, whose sessions follow one another (also
  checked with two requests, 2.8 million states), and not for two accounts. With `Requests <- TwoOwners` and a
  session that closes, TLC finds this: a request's last handle is dropped and its delete is sent; the
  session closes before the answer, and `reconnectConnection()` sets the entry to Subscribing although nobody
  holds it (with one account no session is ready, and the retry erases the entry); a session opened for
  the other account is ready and not claimed yet, so the request is subscribed there; the answer of the old delete then
  erases the entry with its new id, and Twitch keeps serving a subscription nobody can delete.
* EventSub: a request may be set to Subscribed and be recorded nowhere, so that the loss of its session goes unnoticed and it
  is never made again (`SubscribedIsCovered`; `tlc -config EventSubOvertaken.cfg MCEventSubController.tla`
  shows it in twelve states). `markRequestSubscribed()` takes the listener of the session (Controller.cpp:705); on the IO
  thread the session ends, its Connection has recorded nothing (290) and is dropped; then the GUI thread writes to the Connection it
  found (711) and sets the entry to Subscribed (713-716). `CoverIsKept` is what holds: a request that becomes Subscribed
  while its Connection is there is recorded, and from then on stays so.
* EventSub: dropping the last handle while its create is on its way and taking the request again sends
  a second create on the same session, so that the Conflict the code takes for a mistake of its own
  happens; and a session belongs to nobody until the first answer, so creates of two accounts may
  share one.
* Live updates: a subscription parted while it waits in the backlog is made all the same.
* 7TV: the socket's thread may destroy a channel in `forEachChannel()` and take `channelMutex` a second
  time (`stuck`); a channel's set written by the GUI thread in the middle of a push stays subscribed;
  two loads of emote sets may be shown in the wrong order.
* AutoMod: after a denial whose answer is lost, the punishment follows if the notification comes
  first and does not if the failed answer does.
* History: with every day separator a copy that is full loses a message which its channel still has among its newest, so that the
  view shows one message less than its limit allows.
* History: a filtered view shows a message twice when a page brings one it had kept past the channel's
  limit; messages pushed out while a page is on its way leave a hole; a view that raised the limit
  and is closed leaves it to nobody to reset unless another view owns it; a reconnect that comes while
  the missed messages of the one before are still being loaded asks for nothing.

### Fairness

Only what the runtime does by itself is fair. *EventSub*: the IO thread runs its queue and timers
expire (WF); a welcome competes with posted handlers for the IO thread and is queued with them, so it
is SF; each call slot is eventually answered (Helix calls have a timeout) and the answer handled.
*Live updates*: handlers and timers of the Qt event loop run, and an attempt to connect that is not
refused succeeds (WF). *Websocket*: the pool's thread runs posted functions and completions (WF); the
steps of connecting have timeouts of 30 s, a write or close handshake ends by the timeouts of Beast
and TCP; a read ends only when `closeImpl()` has cancelled it, therefore `WF(isClosing /\ OnReadDone)`.
*Read connections*: the application calls `connect()` once, posted calls and timers run, an attempt
that is not refused succeeds (WF, for each connection). *AutoMod*: Twitch handles a call or it times
out, and the answer is handled (WF). *History*: the request to the log service is answered or fails (WF).
Nothing is assumed of the user, of a peer, of notifications, or of faults: they may stop at any time.

## 4. Proofs

For every value of the constants, with TLAPS:

* **`EventSubControllerProofs`** - `TypeCorrect` (`Spec => []TypeOK`) and `CountsAreHandles`
  (`Spec => []RefCountIsHandles`), one step per action. Assumptions: the named ones of the module (finitely many
  handles, `None` outside of the other sets). The counts need the types and the lemma that adding or
  removing one handle changes the number of holders of its key by one and of no other.
  In the same module, about the sessions: `CoverStays` (`Spec => CoverIsKept`), `OneIsOnItsWay`
  (`Spec => []OneConnectionOnItsWay`), `HeldIsPursued` (`SessionsStay => (Spec => []InterestIsPursued)`) and
  `ServedIdsAreDeleted` (`OneAccount => (Spec => IdsAreDeleted)`). The
  first of these rests on what each action does to the references of an entry (`RefsKept`: only the answer of a
  create makes one Subscribed) and to what Connections have recorded (`CoversAsBefore`), and on `OneAtATime`: the IO thread is
  in one handler, so that a Connection that was given up is not replaced before its requests are reset. The second
  needs that nothing refers to a session before Twitch has greeted it (`AwaitedAreNew`), so that no answer can clear the
  token it was opened for. The third assumes that sessions neither close nor move; without that it is false
  (`eventsub_lost`). Its invariant says what an entry in each state relies on
  (`OnItsWay`: Subscribing and Retrying are held and pursued, Unsubscribing has its delete under way) and that
  each create is on a session that is still the same, so that an answer of success is never thrown away. The fourth assumes
  one account, any number of requests, with every fault; with two accounts it is false (section 3). Its invariant has two parts.
  `AccountInv`: at most one session is open, and the one being given up is not, every session fits every request, Twitch serves only open
  sessions, and the IO thread is in the middle of a handler only while no session is ready. `FreeHasNoId`: an entry nobody
  holds has no id, and is in progress only for the handler the IO thread is in. Together they say that no answer can
  give such an entry an id, and that an id is only ever replaced by itself.
* **`LiveUpdatesProofs`** - `TypeCorrect`, `OnePlace`, `BacklogPursued`, `NothingLost`, `LimitKept`, `BacklogCounted`. `OnePlaceEach` is inductive only together with a statement on the tables
  (clients that are gone carry nothing; while a client is filled it is open, nothing is being moved and `adding` is not set).
  `BacklogIsPursued` needs `AddingEnds`: the flag may be cleared by the close of any client, so that it
  proves only one direction. `NothingIsLost` follows from two stronger facts: a closed client that is
  still listed has its close posted, and what is joined is in one of the three places (`WantedIsHeld`).
  `LimitKept` and `BacklogCounted` are about the limit of a client and the debug counter of the backlog,
  which follows from `OnePlaceEach`: the branch that skips without counting is never taken.
* **`WebSocketConnectionProofs`** - `TypeCorrect` (with the invariant of the queue: `onWriteDone()` pops
  it, which gives a sequence again only if it was not empty), `Listening` (with the
  strengthening that a set `isClosing` means that the close is under way or was told) and `Watched`.
  In the same module `ContractKept` (`Spec => KeepsContract`, the refinement: one step per action, each a
  step of the contract or a stutter) and `NothingIsReordered`, the invariant it rests on: the messages
  queued and those still posted are the last ones accepted, in order, and while anything can be written the wire
  has exactly the ones before them (`InOrder`); the message being written is the front of the queue; and `run()` is the first thing posted, so that nothing is told before it (`Stages`).
* **`SeventvChannelsProofs`** - `TypeCorrect`, `NoneLingers`, `SharingIsSafe` (`Spec => ListedAreServed`,
  the refinement, one lemma per action that says which abstract step it is) and `ListedHaveTheirs`
  (what listed channels rely on is subscribed, which is the invariant the refinement rests on).
* **`ReadConnectionPoolProofs`** - `InvariantHolds`, and from it `TypeCorrect`, `RateIsKept`, `LossesArePursued`,
  `ChannelsAreJoined`, `PoolStaysTidy`. The invariant adds to the four properties what single
  connections satisfy whatever happens to them (`Sane`) and, for the anonymous
  connection, what the flag `started` means. The lemmas on the rate limit say which names a burst of joins
  takes from the queue and that budget and running timers add up.
* **`AutoModReviewProofs`** - `InvariantHolds`, and from it `TypeCorrect`, `PunishedOnce`, `PunisherDenied`,
  `ShownWhileRunning`. The invariant speaks of the calls alone (`CallsOk`: a generation identifies a
  call, a punishment has the denial it follows) and of one entry and the calls (`EntryOk`: a call of the entry's generation is the
  one it waits for or has seen answered; once a punishment follows a denial, no entry has that
  denial's generation any more). `PunishedOnce` is inductive because of that last part: whichever of answer and notification comes
  second finds another generation. `SettledRight` and `DenialFollowed` rest on a second invariant on
  top of it (`ShownAndTold`): notifications and answers say what Twitch did (`NotesTell`, `AnswersTell`), an entry whose message was
  told to be resolved shows that or waits for a punishment (`EntriesShow`), and each denial that worked and was to be followed by a
  punishment was followed, is still waited for, or its entry shows that it failed (`AllFollowed`).
* **`MessageRingProofs`** - `FillInOrder` and the facts about `MessageRing` that the next module cites. The operators on
  rings are recursive functions over sequences of any length. `SeriesExists` shows, by induction over the index, that there
  is a series of results for such a recursion; what `Without` and `Filled` return is then proved along that
  series (`WithoutMembers`, `WithoutAscends`, `FillInOrder`). The second half is about a channel and the copy of a view. A copy
  need not be in order and may hold a message twice (one that its channel dropped and a page brought back), so
  it is not what the channel has left for the view. What is kept instead is `Serves`: there is a message g from which on the copy is exactly
  what the channel has for the view, and either these are as many as can be shown, or the copy also has all that
  the channel has before g, and enough room for what would push that out. `AddServes`, `FillServes`,
  `PageServes`, `ResetServes` and `PushServes` show that each change of a channel, with the change its signal
  makes of the copy, keeps that, moving g on where the channel drops its oldest.
* **`MessageHistoryProofs`** - `TypeCorrect`, `CopiesAreExact`, `HistoryOrder`, `NothingSkipped`, `NewestShown`. Four
  inductive invariants, each on top of the ones before.
  `HistoryInv`: types, limits, and that the copy of a view that began as one of the whole channel is the ring, until it was
  cleared or got a day separator; each signal does
  to the copy what the channel does to its ring. `OrderInv`: while a request for older messages is on its way, the ring has no gap
  in front of the cursor (`Gapless`), so that a line of the page that is newer than something the ring has is one it has already
  and is left out; missed messages that are still to be filled in reach up to the cursor. `SkipInv`:
  everything older than the anchor is in front of the cursor, on a day that is not done (`ReachInv`), the page on its way is of
  the next day, and no day that can be reached lies between the cursor's and the next one (`NothingBetween`, which is where
  "the list lacks at most one day" is needed). `ShownInv`: a ring with a raised limit is full, no copy has a raised limit unless its
  channel has, and the copy of every view that was not cleared and got no separator serves it (`Serves`). The first two are needed since a page
  raises the limit of both: were one of them raised alone, it would keep what the other drops.

Only model-checked: the liveness properties (no prover for fairness and ENABLED is at hand), and of `NewestAreShown`
the case of a view whose copy got day separators; `NewestShown` is the case of none. Every other safety
property of the passing runs is stated by a theorem; `HeldIsPursued` and `ServedIdsAreDeleted` under the hypotheses named
above, which are those of the runs. The three violation runs (section 3) are TLC's alone: their properties are false.

## 5. What the models leave out

Payloads, texts and logging. *EventSub*: the handshake of a session before its welcome, the messages
made of notifications. *Live updates*: the content of subscriptions and the resume sessions of
7TV; debug counters. *Websocket*: the bytes of TLS and HTTP, a second
`async_ping` while one waits, the creation and shutdown of the pool's thread (one second, then
leaked), which endpoint is next. After `close()` during a
TCP connect the endpoints that are left are still tried, since `tryConnect()` does not look at
`isClosing`, and shutdown waits for them; and a failed read leaves the health timer running until it
next expires. *7TV*: presence, cosmetics, and what a Kick push does besides its ids. *Read connections*: the write
connection, the delays of the backoff, the answers of the server to a JOIN. *AutoMod*: the messages
shown in channels, highlights, and whether a punishment is a ban or a timeout. *History*: the system messages a channel has
itself (those of connections and the dates in front of pages and missed messages, which go to channel and copies alike), threads,
replaced messages, and the time the log service takes to know a message, of which only the order matters.

`NothingIsSkipped` holds within limits that the source's comments name or that the model showed to be needed: the
list of days lacks at most one day, and no reconnect filled in messages meanwhile. `CopyIsExact`
excepts views that were cleared or opened on a raised channel, and those whose copy got a day separator.

### Not modelled

All other components are listed in `PROJECT.json` with the reason. Most of the code base decodes answers,
builds messages, keeps one cache behind one request, or draws: its lines have no order of events that could go wrong
other than the order of two answers.

## 6. Plan

Done, in this order: EventSub controller (the component with most threads and most failure), live
updates (shared by four feeds), websocket connection (below every client of the live updates and the
sockets of plugins), 7TV channels with the refinement of shared subscriptions, IRC read connections, AutoMod
reviews, message history; proofs of the safety of all of them.

Left:

1. Composition: `LiveUpdates` over `WebSocketContract` in place of its own sockets; the shutdown of the
   pool over several connections.
2. EventSub as implementation of an abstract "held requests are subscribed" specification without loss
   of sessions.
3. `BalancedResolverResults`; the token change of PubSub clients; the resume sessions of 7TV.
