----------------------------- MODULE MessageHistory -----------------------------
(***************************************************************************)
(* The messages of one Twitch channel and the views that show them.  The   *)
(* channel's ring gets messages at its end while it is connected, those    *)
(* that were missed when the connection is back, and older ones from the   *)
(* public logs, page by page, when somebody scrolls to the top: then the   *)
(* limit of the ring is raised until the view that asked for them is       *)
(* scrolled down again.  Every view keeps a filtered copy of the channel,  *)
(* fed by the channel's signals, and the list it shows.  When a new day    *)
(* has begun, the copy gets a separator that the channel does not have.    *)
(*                                                                         *)
(* All of it runs on the GUI thread, so that every handler is one action;  *)
(* what interleaves is the chat, the services that answer, and the user.   *)
(* The behaviours start when the recent messages have been loaded, or      *)
(* could not be.                                                           *)
(***************************************************************************)
EXTENDS MessageRing, FiniteSets, FiniteSetsExt

CONSTANTS
  Views,
  Hidden,        \* [Views -> set of messages the filters of a view hide]
  DayOf,         \* the UTC day of every message: its length bounds the chat
  DateOf,        \* its local date
  Before,        \* how many messages were sent before the behaviour starts
  PageSize,      \* publicLogsPageSize
  Pages,         \* the 10 pages one request may take
  RecentLimit,   \* twitchMessageHistoryLimit
  MaxEvents      \* bound: losses, clears, and views opened or closed

Last_ == Len(DayOf)
Times == 1 .. Last_
Days  == Range(DayOf)

ASSUME HistoryAssumption ==
  /\ IsFiniteSet(Views)
  /\ Hidden \in [Views -> SUBSET Nat]
  /\ DayOf \in Seq(Nat \ {0})
  /\ \A s, t \in Times : s <= t => DayOf[s] <= DayOf[t]
  /\ DateOf \in [Times -> Nat]
  /\ Before \in Times
  /\ {PageSize, Pages, RecentLimit} \subseteq Nat \ {0}
  /\ MaxEvents \in Nat

None == 0

\* A day separator in the copy of a view; the messages are the numbers from 1.
Separator == 0

VARIABLES
  now,      \* how many messages were sent to the chat so far
  link,     \* the connection: "up", "silent" (lost unnoticed), "down" (disconnected_)
  lastUp,   \* lastConnectedAt_
  recent,   \* the request for missed messages on its way (loadingRecentMessages_)
  ring,     \* Channel::messages_
  view,     \* the views
  logged,   \* the messages the log service knows, once they are sent
  logs,     \* TwitchChannel::olderLogs_
  events

vars == <<now, link, lastUp, recent, ring, view, logged, logs, events>>

NoRequest == [asked |-> FALSE, after |-> 0, before |-> 0]

\* A view: open or not, its copy of the channel (channel_) with its lastDate_, the
\* list it shows (messages_, whose limit is that of the copy),
\* ownsRaisedMessageLimit_ and loadedOlderLogsBecauseChatFits_.  "exact",
\* "cleared" and "dated" are history: the copy began as one of the whole channel;
\* messages were cleared since; how many separators the copy got.
ClosedView == [open |-> FALSE, copy |-> EmptyRing, date |-> 0, shown |-> <<>>,
               owns |-> FALSE, fitted |-> FALSE, exact |-> FALSE, cleared |-> FALSE,
               dated |-> 0]

\* "cursor" is where the next page ends: a day, and the first message that is
\* not older.  "day", "left" and "wanted" belong to the page on its way.
FirstLogs == [phase |-> "idle", exhausted |-> FALSE, listed |-> FALSE, days |-> {},
              doneFrom |-> None, cursor |-> [day |-> None, before |-> 0],
              anchor |-> None, day |-> None, left |-> 0, wanted |-> 0]

Oldest == IF ring.msgs = <<>> THEN None ELSE Head(ring.msgs)

Included(w, s) == Without(s, Hidden[w])

\* The days that may be today: the one of the next message may have begun already.
Current(Of) == {Of[now]} \union (IF now < Last_ THEN {Of[now + 1]} ELSE {})

\* ChannelView::setChannel: a new copy with the newest messages of the channel,
\* made on the date d.
Opened(w, r, d) ==
  LET msgs == Newest(Included(w, r.msgs), DefaultLimit)
  IN  [ClosedView EXCEPT !.open = TRUE, !.copy = [EmptyRing EXCEPT !.msgs = msgs],
                         !.date = d, !.shown = msgs,
                         !.exact = ~r.raised /\ Hidden[w] = {}]

Init ==
  /\ now = Before
  /\ link = "up"
  /\ lastUp = 0
  /\ recent = NoRequest
  /\ \E n \in {0, DefaultLimit} :
        ring = [EmptyRing EXCEPT !.msgs = Newest([t \in 1 .. now |-> t], n)]
  /\ \E S \in SUBSET Views, d \in Current(DateOf) :
        view = [w \in Views |-> IF w \in S THEN Opened(w, ring, d) ELSE ClosedView]
  /\ logged \in {{}, Times}
  /\ logs = FirstLogs
  /\ events = 0

Eventful == /\ events < MaxEvents
            /\ events' = events + 1

-----------------------------------------------------------------------------
(* What a view does with the signals of its channel *)

\* Mutant: the copy of a view keeps its limit.
OnGrowIgnored(v, by) == v

\* messageLimitGrown.
OnGrow(v, by) == [v EXCEPT !.copy = Grow(@, by)]

\* messageLimitReset, which the copy passes on only if it was raised itself.
OnReset(v) ==
  IF v.copy.raised
  THEN [v EXCEPT !.copy = Reset(@), !.shown = Newest(@, DefaultLimit), !.owns = FALSE]
  ELSE v

\* messageAppended: the message, or a separator, goes into the copy and the list.
Added(v, m) ==
  LET copy == Push(v.copy, m)
  IN  [v EXCEPT !.copy = copy, !.shown = Newest(Append(@, m), copy.limit)]

\* The copy has another date than today.
OnNewDate(v, d) == [Added(v, Separator) EXCEPT !.date = d, !.dated = @ + 1]

\* messageAppended of the channel, on the date d, for a message the view includes.
OnAppend(v, m, d) == Added(IF v.date # d THEN OnNewDate(v, d) ELSE v, m)

\* messagesAddedAtStart: what the copy took is shown as far as there is room.
OnStart(v, s) ==
  [v EXCEPT !.copy = PushFront(@, s),
            !.shown = Newest(Fitting(v.copy, s), v.copy.limit - Len(@)) \o @]

\* Mutant: the messages are filled into the copy and the list is not renewed.
OnFillUnseen(v, s) == [v EXCEPT !.copy = FillIn(@, s)]

\* filledInMessages: the list is made anew from the copy if that took some.
OnFill(v, s) ==
  IF FillIsTold(v.copy, s)
  THEN LET copy == FillIn(v.copy, s)
       IN  [v EXCEPT !.copy = copy, !.shown = copy.msgs]
  ELSE v

\* messagesCleared, or the user clears the view: the copy stays as it is.
OnClear(v) == [v EXCEPT !.shown = <<>>, !.exact = FALSE, !.cleared = TRUE]

Each(vs, Op(_, _)) == [w \in Views |-> IF vs[w].open THEN Op(w, vs[w]) ELSE vs[w]]

\* Channel::growMessageLimit, addMessagesAtStart and resetMessageLimit, each
\* with the signal it invokes.
GrownViews(vs, by) == Each(vs, LAMBDA w, v: OnGrow(v, by))
ResetViews(vs) == Each(vs, LAMBDA w, v: IF ring.raised THEN OnReset(v) ELSE v)

\* ChannelView::releaseRaisedMessageLimit.
ReleasedRing(w) == IF view[w].owns THEN Reset(ring) ELSE ring
ReleasedViews(w) ==
  IF view[w].owns THEN ResetViews([view EXCEPT ![w].owns = FALSE]) ELSE view

-----------------------------------------------------------------------------
(* The chat and the connection *)

\* Somebody writes: the channel gets the message if it is connected.
Say ==
  /\ now < Last_
  /\ now' = now + 1
  /\ IF link = "up"
     THEN /\ ring' = Push(ring, now')
          /\ view' = Each(GrownViews(view, RoomForOne(ring)),
                          LAMBDA w, v: IF now' \in Hidden[w] THEN v ELSE OnAppend(v, now', DateOf[now']))
     ELSE UNCHANGED <<ring, view>>
  /\ UNCHANGED <<link, lastUp, recent, logged, logs, events>>

\* The connection is gone; markConnected() was called for the last time with
\* some message that came before.
Lose ==
  /\ link = "up"
  /\ Eventful
  /\ link' = "silent"
  /\ lastUp' \in lastUp .. now
  /\ UNCHANGED <<now, recent, ring, view, logged, logs>>

\* markDisconnected().
Notice ==
  /\ link = "silent"
  /\ link' = "down"
  /\ UNCHANGED <<now, lastUp, recent, ring, view, logged, logs, events>>

\* The channel is joined again: loadRecentMessagesReconnect(), unless it runs.
Rejoin ==
  /\ link = "down"
  /\ link' = "up"
  /\ lastUp' = now
  /\ recent' = IF recent.asked THEN recent
               ELSE [asked |-> TRUE, after |-> lastUp, before |-> now]
  /\ UNCHANGED <<now, ring, view, logged, logs, events>>

\* The messages of S in their order.
Ascending(S) == Without([t \in 1 .. now |-> t], (1 .. now) \ S)

\* What the recent messages service answers: the newest of the time asked for.
Missed == Newest(Ascending(recent.after + 1 .. recent.before), RecentLimit)

RecentAnswer ==
  /\ recent.asked
  /\ recent' = NoRequest
  /\ ring' = FillIn(ring, Missed)
  /\ view' = IF FillIsTold(ring, Missed)
             THEN Each(view, LAMBDA w, v: OnFill(v, Included(w, Missed)))
             ELSE view
  /\ UNCHANGED <<now, link, lastUp, logged, logs, events>>

RecentFails ==
  /\ recent.asked
  /\ recent' = NoRequest
  /\ UNCHANGED <<now, link, lastUp, ring, view, logged, logs, events>>

-----------------------------------------------------------------------------
(* Older messages: one request takes up to Pages pages *)

StartOf(d) == Cardinality({t \in Times : DayOf[t] < d}) + 1

NotDone(l, d) == l.doneFrom = None \/ d < l.doneFrom

\* The day of the next page: that of the cursor if it is newer than the list,
\* or else the newest one of the list that is not done.
NextDay(l) ==
  LET c      == l.cursor.day
      listed == {d \in l.days : d <= c /\ NotDone(l, d)}
  IN  IF NotDone(l, c) /\ \A d \in l.days : d < c THEN c
      ELSE IF listed # {} THEN Max(listed)
      ELSE None

\* No request is on its way.
Idle(l) == [l EXCEPT !.phase = "idle", !.day = None, !.left = 0, !.wanted = 0]

\* Mutant: the end of the logs leaves the flag set that a request is on its way.
FetchForgets(l, left, wanted) ==
  IF NextDay(l) = None THEN [l EXCEPT !.phase = "forgotten", !.exhausted = TRUE]
  ELSE [l EXCEPT !.phase = "page", !.day = NextDay(l), !.left = left, !.wanted = wanted]

\* TwitchChannel::fetchOlderLogPage.
Fetch(l, left, wanted) ==
  IF NextDay(l) = None THEN [Idle(l) EXCEPT !.exhausted = TRUE]
  ELSE [l EXCEPT !.phase = "page", !.day = NextDay(l), !.left = left, !.wanted = wanted]

\* Mutant: only the cursor starts over, not what is done.
CursorOnly(d) ==
  IF logs.anchor = Oldest /\ logs.cursor.day # None THEN logs
  ELSE [logs EXCEPT !.anchor = Oldest,
          !.cursor = IF Oldest = None THEN [day |-> d, before |-> now + 1]
                     ELSE [day |-> DayOf[Oldest], before |-> Oldest]]

\* Page back from the oldest message; if it is not the one the last request
\* stopped at, start over.
Anchored(d) ==
  IF logs.anchor = Oldest /\ logs.cursor.day # None THEN logs
  ELSE [logs EXCEPT !.anchor = Oldest,
          !.cursor = IF Oldest = None THEN [day |-> d, before |-> now + 1]
                     ELSE [day |-> DayOf[Oldest], before |-> Oldest],
          !.doneFrom = None,
          !.exhausted = FALSE]

\* TwitchChannel::loadOlderMessagesFromLogs() for a view, which becomes "asking"
\* if it returns true.
LoadOlder(w, asking) ==
  /\ logs.phase = "idle"
  /\ ~recent.asked
  /\ \E d \in Current(DayOf) :
       LET l == Anchored(d)
       IN  /\ logs' = IF l.exhausted THEN l
                      ELSE IF l.listed THEN Fetch(l, Pages, PageSize)
                      ELSE [l EXCEPT !.phase = "list"]
           /\ view' = IF l.exhausted THEN view ELSE [view EXCEPT ![w] = asking]
  /\ UNCHANGED <<now, link, lastUp, recent, ring, logged, events>>

ListAnswer ==
  /\ logs.phase = "list"
  /\ logged # {}
  /\ logs' = Fetch([logs EXCEPT !.listed = TRUE, !.days = {DayOf[t] : t \in logged \cap 1 .. now}],
                   Pages, PageSize)
  /\ UNCHANGED <<now, link, lastUp, recent, ring, view, logged, events>>

\* 404: the channel is not logged.
ListNotFound ==
  /\ logs.phase = "list"
  /\ logged = {}
  /\ logs' = [Idle(logs) EXCEPT !.listed = TRUE, !.exhausted = TRUE]
  /\ UNCHANGED <<now, link, lastUp, recent, ring, view, logged, events>>

\* The list of days or a page could not be loaded.
RequestFails ==
  /\ logs.phase \in {"list", "page"}
  /\ logs' = Idle(logs)
  /\ UNCHANGED <<now, link, lastUp, recent, ring, view, logged, events>>

\* The lines of the page: the newest of its day before the cursor.
Lines ==
  LET end == IF logs.day = logs.cursor.day THEN logs.cursor.before ELSE StartOf(logs.day + 1)
  IN  Newest(Ascending({t \in logged : StartOf(logs.day) <= t /\ t < end}), logs.wanted)

\* The cursor after these lines: a short page was the last one of its day.
Behind(lines) ==
  IF Len(lines) < logs.wanted
  THEN [logs EXCEPT !.doneFrom = logs.day,
                    !.cursor = [day |-> logs.day, before |-> StartOf(logs.day)]]
  ELSE [logs EXCEPT !.cursor = [day |-> logs.day, before |-> Head(lines)]]

\* Mutant: what the ring has already is added again.
AllLines == Lines

\* The lines that findMessageByID() does not find in the channel.
Built == MissingIn(ring, Lines)

\* A page is answered, 404 being a page without lines.  The ring grows by what
\* does not fit; a page that was not enough is followed by another one.
PageAnswer ==
  /\ logs.phase = "page"
  /\ LET free == ring.limit - Len(ring.msgs)
         by   == Max({0, Len(Built) - free})
         l    == IF Built = <<>> THEN Behind(Lines)
                 ELSE [Behind(Lines) EXCEPT !.anchor = Head(Built)]
     IN  /\ ring' = PushFront(Grow(ring, by), Built)
         /\ view' = Each(GrownViews(view, by), LAMBDA w, v: OnStart(v, Included(w, Built)))
         /\ logs' = IF Len(Built) < logs.wanted /\ logs.left > 1
                    THEN Fetch(l, logs.left - 1, logs.wanted - Len(Built))
                    ELSE Idle(l)
  /\ UNCHANGED <<now, link, lastUp, recent, logged, events>>

-----------------------------------------------------------------------------
(* The user *)

\* ChannelView::updateOlderLogMessages() at the top.
ScrollToTop(w) ==
  /\ view[w].open
  /\ LoadOlder(w, [view[w] EXCEPT !.owns = TRUE])

\* ChannelView::loadOlderLogsIfChatFits().
ChatFits(w) ==
  /\ view[w].open
  /\ ~view[w].fitted
  /\ LoadOlder(w, [view[w] EXCEPT !.fitted = TRUE])

\* ChannelView::updateOlderLogMessages() at the bottom.
ScrollToBottom(w) ==
  /\ view[w].open
  /\ view[w].owns
  /\ ring' = ReleasedRing(w)
  /\ view' = ReleasedViews(w)
  /\ UNCHANGED <<now, link, lastUp, recent, logged, logs, events>>

\* ChannelView::setChannel(), of a new view or when the filters change.
Open(w) ==
  /\ Eventful
  /\ ring' = ReleasedRing(w)
  /\ \E d \in Current(DateOf) :
        view' = [ReleasedViews(w) EXCEPT ![w] = Opened(w, ring', d)]
  /\ UNCHANGED <<now, link, lastUp, recent, logged, logs>>

\* ChannelView::~ChannelView().
Close(w) ==
  /\ view[w].open
  /\ Eventful
  /\ ring' = ReleasedRing(w)
  /\ view' = [ReleasedViews(w) EXCEPT ![w] = ClosedView]
  /\ UNCHANGED <<now, link, lastUp, recent, logged, logs>>

\* Channel::clearMessages(), which a plugin may call.
Clear ==
  /\ Eventful
  /\ ring' = [Reset(ring) EXCEPT !.msgs = <<>>]
  /\ view' = Each(ResetViews(view), LAMBDA w, v: OnClear(v))
  /\ UNCHANGED <<now, link, lastUp, recent, logged, logs>>

\* ChannelView::clearMessages(), a command of the user.
ClearView(w) ==
  /\ view[w].open
  /\ Eventful
  /\ view' = [view EXCEPT ![w] = OnClear(@)]
  /\ UNCHANGED <<now, link, lastUp, recent, ring, logged, logs>>

Answer == ListAnswer \/ ListNotFound \/ PageAnswer

Next ==
  \/ Say \/ Lose \/ Notice \/ Rejoin
  \/ RecentAnswer \/ RecentFails
  \/ Answer \/ RequestFails
  \/ Clear
  \/ \E w \in Views :
        ScrollToTop(w) \/ ChatFits(w) \/ ScrollToBottom(w) \/ Open(w) \/ Close(w) \/ ClearView(w)

\* Every request of the log service has a timeout: it is answered or fails.
Spec == Init /\ [][Next]_vars /\ WF_vars(RequestFails \/ Answer)

-----------------------------------------------------------------------------
(* Properties *)

\* The variables have their types, no ring holds more than its limit, and a
\* limit that was not raised is the default one.
TypeOK ==
  /\ now \in Times
  /\ link \in {"up", "silent", "down"}
  /\ lastUp \in 0 .. now
  /\ recent \in [asked: BOOLEAN, after: 0 .. now, before: 0 .. now]
  /\ ring \in Ring
  /\ \A r \in {ring} \union {view[w].copy : w \in Views} :
        /\ Messages(r) \subseteq 0 .. now
        /\ Len(r.msgs) <= r.limit
        /\ r.limit >= DefaultLimit
        /\ ~r.raised => r.limit = DefaultLimit
  /\ Separator \notin Messages(ring)
  /\ \A w \in Views : Len(view[w].shown) <= view[w].copy.limit
  /\ logged \subseteq Times
  /\ logs.phase \in {"idle", "list", "page"}
  /\ logs.days \subseteq Days
  /\ events \in 0 .. MaxEvents

\* The channel has its messages in their order and none of them twice, whatever
\* is appended, filled in and added at the start meanwhile.
HistoryIsOrdered ==
  \A i, j \in DOMAIN ring.msgs : i < j => ring.msgs[i] < ring.msgs[j]

\* The copy of a view without filters that was opened on a channel whose limit
\* was not raised is the channel's ring, with its limit, until a clear or until
\* a new day puts a separator into the copy.
CopyIsExact == \A w \in Views : view[w].exact /\ view[w].dated = 0 => view[w].copy = ring

\* The view shows the newest n messages that the channel has for it.
HasNewest(w, n) == Range(Newest(Included(w, ring.msgs), n)) \subseteq Range(view[w].shown)

\* Whatever its filters and whenever it was opened, a view that was not cleared
\* shows its copy, and with it the newest messages that the channel has for it:
\* DefaultLimit of them, but for one with every separator that the copy got.
NewestAreShown ==
  \A w \in Views : view[w].open /\ ~view[w].cleared =>
     /\ view[w].shown = view[w].copy.msgs
     /\ HasNewest(w, DefaultLimit - view[w].dated)

\* The days the list of days lacks.
Unlisted == {DayOf[t] : t \in 1 .. now} \ logs.days

\* While the oldest message is the one the paging stopped at, every logged
\* message that is older can still be reached by it: nothing is skipped by the
\* cursor or by the days that count as done, and "exhausted" is the end.  The
\* list of days may lack one day, as the source allows for, and no messages were
\* filled in yet.
NothingIsSkipped ==
  (/\ logs.phase = "idle" /\ logs.listed
   /\ Cardinality(Unlisted) <= 1
   /\ lastUp = 0
   /\ Oldest # None /\ logs.anchor = Oldest /\ logs.cursor.day # None) =>
     \A t \in logged : t < Oldest =>
        /\ ~logs.exhausted
        /\ t < logs.cursor.before
        /\ NotDone(logs, DayOf[t])

\* "While raised, new messages also raise it instead of pushing the oldest ones
\* out, so nothing disappears while someone reads the history."
NothingDisappears ==
  [][ring.raised /\ ring'.raised => Messages(ring) \subseteq Messages(ring')]_vars

\* A request for older messages ends, through any number of its pages.
LoadEnds == logs.phase # "idle" ~> logs.phase = "idle"
=============================================================================
