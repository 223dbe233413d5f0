------------------------- MODULE EventSubController -------------------------
(***************************************************************************)
(* The EventSub controller of providers/twitch/eventsub: it shares Twitch  *)
(* EventSub subscriptions between the handles the application holds, makes *)
(* them on websocket sessions it opens when none fits, retries them, and   *)
(* makes them again when a session is lost.                                *)
(*                                                                         *)
(* Two threads act on one subscription map.  The GUI thread runs           *)
(* subscribe(), removeRef() (a handle dies) and every Helix answer.  The   *)
(* IO thread runs what was posted to it, retry timers and session events.  *)
(* subscriptionsMutex makes each critical section one step; a handler that *)
(* takes the mutex twice is two steps, with `retrying` and `resubscribing` *)
(* holding what the IO thread still has to do before its next handler.     *)
(* The mutex guards the entries, not the Connections.  The GUI thread      *)
(* finds the listener of a session and writes to it in two steps, with the *)
(* mutex held (`marking`); the IO thread takes the listener away without   *)
(* the mutex, and resets the entries of its requests in a step of its own  *)
(* (`resetting`).                                                          *)
(*                                                                         *)
(* The asserts of the code are not guards: release builds do not have      *)
(* them.  The properties at the end say which of them hold.                *)
(***************************************************************************)
EXTENDS Integers, Sequences, FiniteSets

CONSTANTS
    Keys,      \* request identities (type, version, conditions)
    Owners,    \* Twitch accounts requests are made for
    Requests,  \* the SubscriptionRequest values the application uses
    Handles,   \* SubscriptionHandle objects
    Conns,     \* Connection objects; one is reused when nothing refers to it
    CallIds,   \* slots for Helix calls in flight
    MaxPosted, \* bound: the application waits while this much is posted
    MaxGen,    \* bound: reconnects by URL of one Connection
    Faults,    \* what goes wrong: subset of FaultKinds
    None

FaultKinds == {"refuse", "lose", "close", "reconnect", "quit"}

ASSUME RequestsAssumption ==
    Requests \subseteq [key : Keys, owner : Owners, alt : BOOLEAN]
ASSUME BoundsAssumption ==
    /\ MaxPosted \in Nat \ {0}
    /\ MaxGen \in Nat
    /\ Faults \subseteq FaultKinds
ASSUME HandlesAssumption == IsFiniteSet(Handles)
ASSUME NoneAssumption ==
    /\ None \notin Requests
    /\ None \notin Owners
    /\ None \notin Conns
    /\ None \notin BOOLEAN
    /\ None \notin [c : Conns, gen : Nat]
    /\ None \notin [req : Requests, fired : BOOLEAN]
    /\ None \notin [op : {"create", "delete"}, req : Requests, on : [c : Conns, gen : Nat]]

VARIABLES
    entry,         \* Controller::subscriptions
    handle,        \* the request of each live handle, None for a dead one
    quitting,      \* Controller::quitting
    posted,        \* handlers queued on the io_context, in order
    marking,       \* answer the GUI thread records, holding the mutex and a listener
    retrying,      \* request whose retrySubscription() the IO thread is about to call
    resetting,     \* lost Connection whose requests reconnectConnection() is about to reset
    resubscribing, \* what reconnectConnection() still has to subscribe()
    conn,          \* Connection objects with their Session
    connections,   \* Controller::connections without its dead entries
    calls,         \* Helix calls in flight, with Twitch's answer once there is one
    twitch         \* subscriptions Twitch has, by session

vars == <<entry, handle, quitting, posted, marking, retrying, resetting,
          resubscribing, conn, connections, calls, twitch>>

ioVars == <<posted, retrying, resetting, resubscribing>>

(* std::weak_ptr<lib::Session>: after a reconnect by URL the Connection    *)
(* lives on in another Session, which the old pointer does not reach.      *)
Weak == [c : Conns, gen : 0 .. MaxGen]

States == {"Missing", "Unsubscribed", "Failed", "Subscribing", "Retrying",
           "Subscribed", "Unsubscribing"}

Entry == [state : States, refCount : Int, connection : Weak \cup {None},
          id : Conns \cup {None},
          timer : [req : Requests, fired : BOOLEAN] \cup {None}]

(* No such key in the map.  Twitch's subscription id is the session the    *)
(* subscription was made on: with the key, that identifies it.             *)
Missing == [state |-> "Missing", refCount |-> 0, connection |-> None,
            id |-> None, timer |-> None]

(* Mutant: an insertion that replaces the entry *)
TouchReplaces(e) == [Missing EXCEPT !.state = "Unsubscribed"]

(* Mutant: every subscribe() starts from a clean id *)
TouchForgetsId(e) ==
    [e EXCEPT !.id = None, !.state = IF @ = "Missing" THEN "Unsubscribed" ELSE @]

(* std::unordered_map::operator[] *)
Touch(e) == IF e.state = "Missing" THEN [e EXCEPT !.state = "Unsubscribed"] ELSE e

Connection == [open : BOOLEAN, ready : BOOLEAN, gen : 0 .. MaxGen,
               user : Owners \cup {None}, auth : BOOLEAN \cup {None},
               subs : SUBSET Requests]

Closed == [open |-> FALSE, ready |-> FALSE, gen |-> 0, user |-> None,
           auth |-> None, subs |-> {}]

Task == [op : {"subscribe", "retry", "timer"}, req : Requests]

Answers == {None, "ok", "conflict", "noSession", "forwarded", "refused"}

Marking == [op : {"create", "delete"}, req : Requests, on : Weak]

Call == [n : CallIds, op : {"create", "delete"}, req : Requests, on : Weak,
         answer : Answers]

-----------------------------------------------------------------------------

(* weak_ptr::lock() and getListener() both give something *)
Live(w) == w # None /\ conn[w.c].open /\ conn[w.c].gen = w.gen

KeysOf(reqs) == {r.key : r \in reqs}

CanHandle(c, req) ==
    /\ conn[c].user \in {None, req.owner}
    /\ conn[c].auth \in {None, req.alt}

(* Positions in Controller::connections; the first one is taken. *)
Viable(req) ==
    {i \in DOMAIN connections : CanHandle(connections[i], req) /\ conn[connections[i]].ready}

(* Mutant: only sessions that already serve the owner are waited for *)
NotReadyForOwner(req) == {c \in Conns : conn[c].open /\ conn[c].user = req.owner /\ ~conn[c].ready}

NotReady(req) == {c \in Conns : conn[c].open /\ CanHandle(c, req) /\ ~conn[c].ready}

FreeCalls == {n \in CallIds : \A call \in calls : call.n # n}

(* Mutant: the id is cleared before the delete is built from it *)
NewCallAfterClear(op, req, on) ==
    [n |-> CHOOSE n \in FreeCalls : TRUE, op |-> op, req |-> req,
     on |-> IF op = "delete" THEN [on EXCEPT !.c = None] ELSE on, answer |-> None]

NewCall(op, req, on) ==
    [n |-> CHOOSE n \in FreeCalls : TRUE, op |-> op, req |-> req, on |-> on,
     answer |-> None]

(* The Connection c is there: its session has it, or reconnectConnection(). *)
Exists(c) == conn[c].open \/ resetting = c

(* A Connection object nothing refers to any more can stand for a new one. *)
Unreferenced(c) ==
    /\ ~conn[c].open
    /\ \A k \in Keys : entry[k].id # c /\ (entry[k].connection # None => entry[k].connection.c # c)
    /\ \A call \in calls : call.on.c # c

(* Controller::clearConnections: c has just ended *)
Without(c) ==
    LET i == CHOOSE i \in DOMAIN connections : connections[i] = c
    IN  [j \in 1 .. Len(connections) - 1 |-> connections[IF j < i THEN j ELSE j + 1]]

IoFree == retrying = None /\ resetting = None /\ resubscribing = {}

MutexIsFree == marking = None

-----------------------------------------------------------------------------

Init ==
    /\ entry = [k \in Keys |-> Missing]
    /\ handle = [h \in Handles |-> None]
    /\ quitting = FALSE
    /\ posted = <<>>
    /\ marking = None
    /\ retrying = None
    /\ resetting = None
    /\ resubscribing = {}
    /\ conn = [c \in Conns |-> Closed]
    /\ connections = <<>>
    /\ calls = {}
    /\ twitch = [c \in Conns |-> {}]

-----------------------------------------------------------------------------
(* GUI thread: the application *)

(* Mutant: an entry that is there was subscribed once *)
NeedsSubscribingOnlyFirst(e) == e.state \in {"Missing", "Failed"}

NeedsSubscribing(e) == e.state \in {"Missing", "Unsubscribed", "Failed"}

(* Controller::subscribe(request): the handle h it returns is h.           *)
Subscribe(h, req) ==
    LET e == entry[req.key]
        counted == [e EXCEPT !.refCount = @ + 1]
    IN  /\ handle[h] = None
        /\ ~quitting
        /\ Len(posted) + Cardinality(calls) < MaxPosted
        /\ handle' = [handle EXCEPT ![h] = req]
        /\ \/ /\ NeedsSubscribing(e)
              /\ entry' = [entry EXCEPT ![req.key] = [counted EXCEPT !.state = "Subscribing"]]
              /\ posted' = Append(posted, [op |-> "subscribe", req |-> req])
           \/ /\ ~NeedsSubscribing(e)
              /\ entry' = [entry EXCEPT ![req.key] = counted]
              /\ UNCHANGED posted
        /\ UNCHANGED <<quitting, marking, retrying, resetting, resubscribing, conn,
                       connections, calls, twitch>>

(* ~RawSubscriptionHandle and Controller::removeRef *)
RemoveRef(h) ==
    LET req == handle[h]
        e == [entry[req.key] EXCEPT !.refCount = @ - 1]
    IN  /\ handle[h] # None
        /\ handle' = [handle EXCEPT ![h] = None]
        /\ \/ /\ quitting
              /\ UNCHANGED <<entry, calls>>
           \/ /\ ~quitting
              /\ e.refCount > 0
              /\ entry' = [entry EXCEPT ![req.key] = e]
              /\ UNCHANGED calls
           \/ /\ ~quitting
              /\ e.refCount <= 0
              /\ e.id = None
              /\ entry' = [entry EXCEPT ![req.key] = Missing]
              /\ UNCHANGED calls
           \/ /\ ~quitting
              /\ e.refCount <= 0
              /\ e.id # None
              /\ FreeCalls # {}
              /\ entry' = [entry EXCEPT ![req.key] =
                              [e EXCEPT !.state = "Unsubscribing", !.timer = None, !.id = None]]
              /\ calls' = calls \cup {NewCall("delete", req, [c |-> e.id, gen |-> 0])}
        /\ UNCHANGED <<quitting, marking, ioVars, conn, connections, twitch>>

SetQuitting ==
    /\ "quit" \in Faults
    /\ ~quitting
    /\ quitting' = TRUE
    /\ UNCHANGED <<entry, handle, marking, ioVars, conn, connections, calls, twitch>>

-----------------------------------------------------------------------------
(* GUI thread: answers of Helix *)

(* Connection::markRequestSubscribed *)
Record(c, req) ==
    [c EXCEPT !.user = req.owner,
              !.subs = IF req.key \in KeysOf(@) THEN @ ELSE @ \cup {req}]

(* Controller::markRequestSubscribed up to the look at the listener: if    *)
(* the request is still waited for and its session has one, the GUI thread *)
(* goes on to record it.                                                   *)
CreateSucceeds(call) ==
    LET accepted == /\ ~quitting
                    /\ entry[call.req.key].state \in {"Subscribing", "Retrying"}
                    /\ Live(call.on)
    IN  /\ call.op = "create" /\ call.answer = "ok"
        /\ \/ /\ accepted
              /\ marking' = [op |-> "create", req |-> call.req, on |-> call.on]
           \/ /\ ~accepted
              /\ UNCHANGED marking
        /\ calls' = calls \ {call}
        /\ UNCHANGED <<entry, handle, quitting, ioVars, conn, connections, twitch>>

(* The rest of it.  The listener found may have left its session, and its  *)
(* Connection may be gone: what is written to it then is lost.             *)
MarkRequestSubscribed ==
    LET req == marking.req
        on == marking.on
    IN  /\ marking # None /\ marking.op = "create"
        /\ conn' = IF Exists(on.c) THEN [conn EXCEPT ![on.c] = Record(@, req)] ELSE conn
        /\ entry' = [entry EXCEPT ![req.key] =
                        [@ EXCEPT !.connection = on, !.id = on.c, !.state = "Subscribed"]]
        /\ marking' = None
        /\ UNCHANGED <<handle, quitting, ioVars, connections, calls, twitch>>

(* NoSession, Forwarded and unknown errors: retrySubscription is posted.   *)
CreateIsRetried(call) ==
    /\ call.op = "create" /\ call.answer \in {"noSession", "forwarded"}
    /\ posted' = Append(posted, [op |-> "retry", req |-> call.req])
    /\ calls' = calls \ {call}
    /\ UNCHANGED <<entry, handle, quitting, marking, retrying, resetting, resubscribing, conn,
                   connections, twitch>>

(* Every other error: Controller::markRequestFailed *)
CreateFails(call) ==
    /\ call.op = "create" /\ call.answer \in {"conflict", "refused"}
    /\ entry' = IF quitting THEN entry ELSE [entry EXCEPT ![call.req.key].state = "Failed"]
    /\ calls' = calls \ {call}
    /\ UNCHANGED <<handle, quitting, marking, ioVars, conn, connections, twitch>>

(* Mutant: clear() instead of erase() *)
ForgetAll(c, req) == [c EXCEPT !.subs = {}, !.user = None, !.auth = None]

(* Connection::markRequestUnsubscribed *)
Forget(c, req) ==
    LET rest == {r \in c.subs : r.key # req.key}
    IN  IF rest = {} THEN [c EXCEPT !.subs = {}, !.user = None, !.auth = None]
                     ELSE [c EXCEPT !.subs = rest]

(* The end of Controller::markRequestUnsubscribed *)
Release(req) ==
    LET e == Touch(entry[req.key])
    IN  \/ /\ e.refCount = 0
           /\ entry' = [entry EXCEPT ![req.key] = Missing]
           /\ UNCHANGED posted
        \/ /\ e.refCount # 0
           /\ entry' = [entry EXCEPT ![req.key] =
                           [e EXCEPT !.state = "Subscribing", !.connection = None]]
           /\ posted' = Append(posted, [op |-> "subscribe", req |-> req])

(* Controller::markRequestUnsubscribed, on success and on failure alike:   *)
(* it ends here, or goes on to write to the listener it found.             *)
DeleteIsAnswered(call) ==
    LET req == call.req
        on == entry[req.key].connection
    IN  /\ call.op = "delete" /\ call.answer # None
        /\ calls' = calls \ {call}
        /\ \/ /\ quitting
              /\ UNCHANGED <<entry, posted, marking>>
           \/ /\ ~quitting /\ ~Live(on)
              /\ Release(req)
              /\ UNCHANGED marking
           \/ /\ ~quitting /\ Live(on)
              /\ marking' = [op |-> "delete", req |-> req, on |-> on]
              /\ UNCHANGED <<entry, posted>>
        /\ UNCHANGED <<handle, quitting, retrying, resetting, resubscribing, conn, connections,
                       twitch>>

MarkRequestUnsubscribed ==
    LET req == marking.req
        c == marking.on.c
    IN  /\ marking # None /\ marking.op = "delete"
        /\ conn' = IF Exists(c) THEN [conn EXCEPT ![c] = Forget(@, req)] ELSE conn
        /\ Release(req)
        /\ marking' = None
        /\ UNCHANGED <<handle, quitting, retrying, resetting, resubscribing, connections, calls,
                       twitch>>

-----------------------------------------------------------------------------
(* IO thread: Controller::subscribe(request, isRetry).  `e' is the entry   *)
(* after its first critical section.  The IO thread either sends a create  *)
(* to Helix or, after opening a session if none is on its way, goes on to  *)
(* retrySubscription, which takes the mutex again.                         *)

CreateConnection(c, req) ==
    /\ conn' = [conn EXCEPT ![c] = [Closed EXCEPT !.open = TRUE, !.auth = req.alt]]
    /\ connections' = Append(connections, c)

SendCreate(req) ==
    \E i \in Viable(req) :
        LET c == connections[i]
            claimed == IF conn[c].auth = None THEN req.alt ELSE conn[c].auth
        IN  /\ \A j \in Viable(req) : i <= j
            /\ FreeCalls # {}
            /\ conn' = [conn EXCEPT ![c].auth = claimed]
            /\ calls' = calls \cup {NewCall("create", req, [c |-> c, gen |-> conn[c].gen])}
            /\ UNCHANGED <<retrying, connections>>

WaitForConnection(req) ==
    /\ Viable(req) = {}
    /\ retrying' = req
    /\ \/ /\ NotReady(req) # {}
          /\ UNCHANGED <<conn, connections>>
       \/ /\ NotReady(req) = {}
          /\ \E c \in Conns : Unreferenced(c)
          /\ CreateConnection(CHOOSE c \in Conns : Unreferenced(c), req)
    /\ UNCHANGED calls

IoSubscribe(req, isRetry) ==
    LET e == Touch(entry[req.key])
    IN  /\ entry' = [entry EXCEPT ![req.key] =
                        [e EXCEPT !.timer = IF isRetry THEN None ELSE @]]
        /\ SendCreate(req) \/ WaitForConnection(req)
        /\ UNCHANGED <<handle, quitting, marking, resetting, twitch>>

(* Controller::retrySubscription *)
RetrySubscription(req) ==
    LET e == Touch(entry[req.key])
    IN  /\ \/ /\ quitting
              /\ UNCHANGED entry
           \/ /\ ~quitting
              /\ e.refCount = 0
              /\ entry' = [entry EXCEPT ![req.key] = Missing]
           \/ /\ ~quitting
              /\ e.refCount # 0
              /\ entry' = [entry EXCEPT ![req.key] =
                              [e EXCEPT !.state = "Retrying",
                                        !.timer = [req |-> req, fired |-> FALSE]]]
        /\ UNCHANGED <<handle, quitting, marking, resetting, conn, connections, calls, twitch>>

(* The IO thread finishes the handler it is in before it takes the next. *)

FinishRetry ==
    /\ retrying # None
    /\ RetrySubscription(retrying)
    /\ retrying' = None
    /\ UNCHANGED <<posted, resubscribing>>

Resubscribe(req) ==
    /\ retrying = None
    /\ req \in resubscribing
    /\ IoSubscribe(req, FALSE)
    /\ resubscribing' = resubscribing \ {req}
    /\ UNCHANGED posted

RunSubscribe ==
    /\ IoFree /\ posted # <<>>
    /\ Head(posted).op = "subscribe"
    /\ IoSubscribe(Head(posted).req, FALSE)
    /\ posted' = Tail(posted)
    /\ UNCHANGED resubscribing

RunRetry ==
    /\ IoFree /\ posted # <<>>
    /\ Head(posted).op = "retry"
    /\ RetrySubscription(Head(posted).req)
    /\ posted' = Tail(posted)
    /\ UNCHANGED <<retrying, resubscribing>>

(* The handler of a timer that passed: it is queued when the timer         *)
(* expires, and a timer destroyed after that no longer cancels it.         *)
RunTimer ==
    /\ IoFree /\ posted # <<>>
    /\ Head(posted).op = "timer"
    /\ posted' = Tail(posted)
    /\ UNCHANGED resubscribing
    /\ \/ /\ ~quitting
          /\ IoSubscribe(Head(posted).req, TRUE)
       \/ /\ quitting
          /\ UNCHANGED <<entry, handle, quitting, marking, retrying, resetting, conn, connections,
                         calls, twitch>>

TimerExpires(k) ==
    LET t == entry[k].timer
    IN  /\ t # None
        /\ ~t.fired
        /\ entry' = [entry EXCEPT ![k].timer = [t EXCEPT !.fired = TRUE]]
        /\ posted' = Append(posted, [op |-> "timer", req |-> t.req])
        /\ UNCHANGED <<handle, quitting, marking, retrying, resetting, resubscribing, conn,
                       connections, calls, twitch>>

-----------------------------------------------------------------------------
(* IO thread: session events *)

Welcome(c) ==
    /\ IoFree
    /\ conn[c].open /\ ~conn[c].ready
    /\ conn' = [conn EXCEPT ![c].ready = TRUE]
    /\ UNCHANGED <<entry, handle, quitting, marking, ioVars, connections, calls, twitch>>

(* Session::fail, a keepalive timeout or a close, then                     *)
(* Connection::onClose and reconnectConnection() without a URL, up to its  *)
(* lock: the session gives its listener away, and a Connection that has    *)
(* recorded nothing is dropped.                                            *)
SessionEnds(c) ==
    LET kept == ~quitting /\ conn[c].subs # {}
    IN  /\ "close" \in Faults
        /\ IoFree
        /\ conn[c].open
        /\ connections' = Without(c)
        /\ twitch' = [twitch EXCEPT ![c] = {}]
        /\ \/ /\ kept
              /\ conn' = [conn EXCEPT ![c].open = FALSE, ![c].ready = FALSE]
              /\ resetting' = c
           \/ /\ ~kept
              /\ conn' = [conn EXCEPT ![c] = Closed]
              /\ UNCHANGED resetting
        /\ UNCHANGED <<entry, handle, quitting, posted, marking, retrying, resubscribing, calls>>

(* The section of reconnectConnection() under the mutex.  The set of       *)
(* requests is the Connection's own: what was recorded meanwhile is in it. *)
ResetSubscriptions ==
    LET lost == conn[resetting].subs
        Reset(k) == IF k \in KeysOf(lost) /\ entry[k].state # "Missing"
                    THEN [entry[k] EXCEPT !.connection = None, !.state = "Subscribing"]
                    ELSE entry[k]
    IN  /\ resetting # None
        /\ entry' = [k \in Keys |-> Reset(k)]
        /\ conn' = [conn EXCEPT ![resetting] = Closed]
        /\ resetting' = None
        /\ resubscribing' = lost
        /\ UNCHANGED <<handle, quitting, posted, marking, retrying, connections, calls, twitch>>

(* session_reconnect, then reconnectConnection() with a URL: the           *)
(* Connection moves to a new Session, and keeps its session id and its     *)
(* subscriptions.  Without subscriptions it is dropped.                    *)
SessionReconnects(c) ==
    /\ "reconnect" \in Faults
    /\ IoFree
    /\ conn[c].open /\ conn[c].ready
    /\ conn[c].gen < MaxGen
    /\ \/ /\ conn[c].subs = {} \/ quitting
          /\ conn' = [conn EXCEPT ![c] = Closed]
          /\ connections' = Without(c)
          /\ twitch' = [twitch EXCEPT ![c] = {}]
       \/ /\ conn[c].subs # {} /\ ~quitting
          /\ conn' = [conn EXCEPT ![c].gen = @ + 1]
          /\ connections' = Append(Without(c), c)
          /\ UNCHANGED twitch
    /\ UNCHANGED <<entry, handle, quitting, marking, ioVars, calls>>

-----------------------------------------------------------------------------
(* Twitch, as the code uses it: a session has a subscription at most once, *)
(* loses its subscriptions when it ends, and keeps them over a reconnect.  *)

Answered(call, a) == calls' = (calls \ {call}) \cup {[call EXCEPT !.answer = a]}

TwitchCreates(call) ==
    LET c == call.on.c  k == call.req.key
    IN  /\ call.op = "create" /\ call.answer = None
        /\ \/ /\ ~conn[c].open
              /\ Answered(call, "noSession")
              /\ UNCHANGED twitch
           \/ /\ conn[c].open /\ k \in twitch[c]
              /\ Answered(call, "conflict")
              /\ UNCHANGED twitch
           \/ /\ conn[c].open /\ k \notin twitch[c]
              /\ Answered(call, "ok")
              /\ twitch' = [twitch EXCEPT ![c] = @ \cup {k}]
        /\ UNCHANGED <<entry, handle, quitting, marking, ioVars, conn, connections>>

TwitchDeletes(call) ==
    /\ call.op = "delete" /\ call.answer = None
    /\ Answered(call, "ok")
    /\ twitch' = [twitch EXCEPT ![call.on.c] = @ \ {call.req.key}]
    /\ UNCHANGED <<entry, handle, quitting, marking, ioVars, conn, connections>>

(* 400, 401, 403, 429: nothing happens at Twitch. *)
TwitchRefuses(call) ==
    /\ "refuse" \in Faults
    /\ call.answer = None
    /\ Answered(call, "refused")
    /\ UNCHANGED <<entry, handle, quitting, marking, ioVars, conn, connections, twitch>>

(* The network loses a create, or its answer. *)
TwitchIsLost(call) ==
    /\ "lose" \in Faults
    /\ call.op = "create" /\ call.answer = None
    /\ Answered(call, "forwarded")
    /\ \/ UNCHANGED twitch
       \/ /\ conn[call.on.c].open
          /\ twitch' = [twitch EXCEPT ![call.on.c] = @ \cup {call.req.key}]
    /\ UNCHANGED <<entry, handle, quitting, marking, ioVars, conn, connections>>

-----------------------------------------------------------------------------

(* The GUI thread answers and calls when it is not within a handler.       *)
Application ==
    /\ MutexIsFree
    /\ \/ \E h \in Handles : RemoveRef(h) \/ \E req \in Requests : Subscribe(h, req)
       \/ SetQuitting

HelixAnswers(call) ==
    /\ MutexIsFree
    /\ CreateSucceeds(call) \/ CreateIsRetried(call) \/ CreateFails(call) \/ DeleteIsAnswered(call)

MarkRequest == MarkRequestSubscribed \/ MarkRequestUnsubscribed

(* The IO thread goes on with its handler, or takes the next one posted.   *)
(* Whichever it is takes the mutex.                                        *)
RunHandler ==
    /\ MutexIsFree
    /\ \/ FinishRetry \/ RunSubscribe \/ RunRetry \/ RunTimer \/ ResetSubscriptions
       \/ \E req \in Requests : Resubscribe(req)

SessionFaults == \E c \in Conns : SessionEnds(c) \/ SessionReconnects(c)

TwitchAnswers(call) == TwitchCreates(call) \/ TwitchDeletes(call)

TwitchFaults(call) == TwitchRefuses(call) \/ TwitchIsLost(call)

Next ==
    \/ Application
    \/ MarkRequest
    \/ RunHandler
    \/ \E k \in Keys : TimerExpires(k)
    \/ \E c \in Conns : Welcome(c)
    \/ SessionFaults
    \/ \E call \in calls : HelixAnswers(call) \/ TwitchAnswers(call) \/ TwitchFaults(call)

Spec == Init /\ [][Next]_vars

(* The IO thread runs what is queued, in order; a welcome it is busy for   *)
(* is queued too, hence SF.  A timer expires, Twitch greets a session, and *)
(* every Helix call is answered; the network does not lose the calls of a  *)
(* slot for ever (SF).  The GUI thread finishes the answer it is recording *)
(* and takes the answers in their order, so that none waits behind others  *)
(* for ever (SF).  Nothing is assumed of the application.                  *)
Fairness ==
    /\ WF_vars(RunHandler)
    /\ WF_vars(MarkRequest)
    /\ \A k \in Keys : WF_vars(TimerExpires(k))
    /\ \A c \in Conns : SF_vars(Welcome(c))
    /\ \A n \in CallIds :
          /\ SF_vars(\E call \in calls : call.n = n /\ HelixAnswers(call))
          /\ SF_vars(\E call \in calls : call.n = n /\ TwitchAnswers(call))

FairSpec == Spec /\ Fairness

-----------------------------------------------------------------------------
(* Properties *)

TypeOK ==
    /\ entry \in [Keys -> Entry]
    /\ handle \in [Handles -> Requests \cup {None}]
    /\ quitting \in BOOLEAN
    /\ posted \in Seq(Task)
    /\ marking \in Marking \cup {None}
    /\ retrying \in Requests \cup {None}
    /\ resetting \in Conns \cup {None}
    /\ resubscribing \in SUBSET Requests
    /\ conn \in [Conns -> Connection]
    /\ connections \in Seq(Conns)
    /\ calls \in SUBSET Call
    /\ twitch \in [Conns -> SUBSET Keys]

Holders(k) == {h \in Handles : handle[h] # None /\ handle[h].key = k}

(* removeRef's `assert(subscription.refCount >= 0)` and more: whatever the *)
(* two threads do, an entry counts exactly the handles that are alive, so  *)
(* it is neither dropped under a holder nor kept for nobody.               *)
RefCountIsHandles ==
    ~quitting => \A k \in Keys : entry[k].refCount = Cardinality(Holders(k))

Covered(k) == \E c \in Conns : Exists(c) /\ k \in KeysOf(conn[c].subs)

(* What reconnectConnection() subscribes again is what the lost Connection *)
(* has recorded.  A request that becomes Subscribed is recorded, if its    *)
(* Connection is still there when it is written to; and as long as it      *)
(* shows as Subscribed it stays recorded, whatever other requests, answers *)
(* and sessions do, so that the loss of its session cannot go unnoticed.   *)
CoverIsKept ==
    [][~quitting => \A k \in Keys :
         /\ entry'[k].state = "Subscribed"
         /\ IF entry[k].state = "Subscribed" THEN Covered(k) ELSE Exists(marking.on.c)
         => Covered(k)']_vars

(* Every request shown as Subscribed is recorded.  It fails: see README.   *)
SubscribedIsCovered ==
    ~quitting => \A k \in Keys : entry[k].state = "Subscribed" => Covered(k)

(* "There should only ever be 0 or 1" open but not ready connections for a *)
(* request: at most one session per Helix token is on its way.             *)
OneConnectionOnItsWay ==
    \A c, d \in Conns :
        /\ conn[c].open /\ ~conn[c].ready
        /\ conn[d].open /\ ~conn[d].ready
        /\ conn[c].auth = conn[d].auth
        => c = d

Pursued(k) ==
    \/ marking # None /\ marking.req.key = k
    \/ entry[k].timer # None
    \/ retrying # None /\ retrying.key = k
    \/ k \in KeysOf(resubscribing)
    \/ resetting # None /\ k \in KeysOf(conn[resetting].subs)
    \/ \E i \in DOMAIN posted : posted[i].req.key = k
    \/ \E call \in calls : call.req.key = k

(* While someone holds a request that is neither made nor given up, a      *)
(* timer, a posted handler or a Helix call will take it further.           *)
InterestIsPursued ==
    ~quitting => \A k \in Keys :
        entry[k].refCount > 0 /\ entry[k].state \notin {"Subscribed", "Failed"} => Pursued(k)

(* As long as Twitch has the subscription an entry's id stands for, the id  *)
(* leaves the entry only into a delete call.  So it is while every request *)
(* is of one account, whose sessions follow one another; a request that    *)
(* moves to a session of another account loses it (see the README).        *)
IdsAreDeleted ==
    [][\A k \in Keys : LET c == entry[k].id IN
         /\ c # None
         /\ k \in twitch[c] /\ k \in twitch'[c]
         /\ entry'[k].id # c
         => \E call \in calls' \ calls :
              call.op = "delete" /\ call.req.key = k /\ call.on.c = c]_vars

(* Every held request is eventually subscribed or given up as Failed.      *)
EverySubscriptionSettles ==
    \A k \in Keys : []<>(entry[k].refCount = 0 \/ entry[k].state \in {"Subscribed", "Failed"})

=============================================================================
