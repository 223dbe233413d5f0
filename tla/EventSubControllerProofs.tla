---------------------- MODULE EventSubControllerProofs ----------------------
(***************************************************************************)
(* Theorems about EventSubController, for every value of its constants.    *)
(* First its types and the counts of references.  Then what ties the       *)
(* subscriptions to the sessions: what shows as Subscribed stays recorded  *)
(* on its Connection, sessions are not opened twice, as long as no session *)
(* ends a request somebody holds is always taken further, and the ids of   *)
(* one account's subscriptions are not forgotten while Twitch has the      *)
(* subscription.                                                           *)
(***************************************************************************)
EXTENDS EventSubController, FiniteSetTheorems, TLAPS

(* The session a new call is for, and the slot it takes, have their types. *)
LEMMA NewCallType ==
    ASSUME NEW op \in {"create", "delete"}, NEW req \in Requests, NEW on \in Weak,
           FreeCalls # {}
    PROVE  NewCall(op, req, on) \in Call
<1>1. (CHOOSE n \in FreeCalls : TRUE) \in FreeCalls
  OBVIOUS
<1>2. (CHOOSE n \in FreeCalls : TRUE) \in CallIds
  BY <1>1 DEF FreeCalls
<1> QED
  BY <1>2 DEF NewCall, Call, Answers

LEMMA WithoutType ==
    ASSUME connections \in Seq(Conns), NEW c
    PROVE  Without(c) \in Seq(Conns)
<1> DEFINE i == CHOOSE i \in DOMAIN connections : connections[i] = c
<1> DEFINE s == [j \in 1 .. Len(connections) - 1 |-> connections[IF j < i THEN j ELSE j + 1]]
<1>1. ASSUME NEW j \in 1 .. Len(connections) - 1
      PROVE  connections[IF j < i THEN j ELSE j + 1] \in Conns
  <2> HIDE DEF i
  <2> QED
    OBVIOUS
<1>2. s \in [1 .. Len(connections) - 1 -> Conns]
  <2> HIDE DEF i
  <2> QED
    BY <1>1
<1>3. CASE Len(connections) = 0
  <2> QED
    BY <1>2, <1>3, 1 .. -1 = {} DEF Without
<1>4. CASE Len(connections) # 0
  <2>1. Len(connections) - 1 \in Nat
    BY <1>4
  <2>2. s \in Seq(Conns)
    <3> HIDE DEF s
    <3> QED
      BY <1>2, <2>1
  <2> QED
    BY <2>2 DEF Without
<1> QED
  BY <1>3, <1>4

LEMMA AppendType ==
    ASSUME NEW s \in Seq(Task), NEW op \in {"subscribe", "retry", "timer"}, NEW req \in Requests
    PROVE  Append(s, [op |-> op, req |-> req]) \in Seq(Task)
<1>1. [op |-> op, req |-> req] \in Task
  BY DEF Task
<1> QED
  BY <1>1

LEMMA TouchType ==
    ASSUME NEW e \in Entry
    PROVE  /\ Touch(e) \in Entry
           /\ Touch(e).refCount = e.refCount /\ Touch(e).timer = e.timer
           /\ Touch(e).id = e.id /\ Touch(e).connection = e.connection
  BY DEF Touch, Entry, States

LEMMA ClosedType == Closed \in Connection
<1>1. 0 \in 0 .. MaxGen
  BY BoundsAssumption
<1> QED
  BY <1>1, Zenon DEF Closed, Connection

LEMMA ForgetType ==
    ASSUME NEW c \in Connection, NEW req \in Requests
    PROVE  Forget(c, req) \in Connection
  BY DEF Forget, Connection

(* What the IO thread's subscribe() does to the types, whoever calls it.   *)
LEMMA IoSubscribeType ==
    ASSUME TypeOK, NEW req \in Requests, NEW isRetry \in BOOLEAN,
           IoSubscribe(req, isRetry)
    PROVE  /\ entry' \in [Keys -> Entry]
           /\ retrying' \in Requests \cup {None}
           /\ conn' \in [Conns -> Connection]
           /\ connections' \in Seq(Conns)
           /\ calls' \in SUBSET Call
           /\ twitch' = twitch /\ handle' = handle /\ quitting' = quitting
           /\ marking' = marking /\ resetting' = resetting
<1>0. req.key \in Keys /\ req.alt \in BOOLEAN
  BY RequestsAssumption
<1>1. entry' \in [Keys -> Entry]
  <2>1. Touch(entry[req.key]) \in Entry
    BY <1>0, TouchType DEF TypeOK
  <2>2. [Touch(entry[req.key]) EXCEPT !.timer = IF isRetry THEN None ELSE @] \in Entry
    BY <2>1 DEF Entry
  <2> QED
    BY <1>0, <2>2 DEF TypeOK, IoSubscribe
<1>2. CASE SendCreate(req)
  <2>1. PICK i \in Viable(req) :
          LET c == connections[i]
              claimed == IF conn[c].auth = None THEN req.alt ELSE conn[c].auth
          IN  /\ FreeCalls # {}
              /\ conn' = [conn EXCEPT ![c].auth = claimed]
              /\ calls' = calls \cup {NewCall("create", req, [c |-> c, gen |-> conn[c].gen])}
              /\ UNCHANGED <<retrying, connections>>
    BY <1>2 DEF SendCreate
  <2> DEFINE c == connections[i]
  <2>2. c \in Conns
    BY DEF TypeOK, Viable
  <2>3. conn[c] \in Connection /\ [c |-> c, gen |-> conn[c].gen] \in Weak
    BY <2>2 DEF TypeOK, Connection, Weak
  <2>4. NewCall("create", req, [c |-> c, gen |-> conn[c].gen]) \in Call
    BY <2>1, <2>3, NewCallType
  <2>5. conn' \in [Conns -> Connection]
    BY <1>0, <2>1, <2>2, <2>3 DEF TypeOK, Connection
  <2> QED
    BY <1>1, <2>1, <2>4, <2>5 DEF TypeOK, IoSubscribe
<1>3. CASE WaitForConnection(req)
  <2>1. conn' \in [Conns -> Connection] /\ connections' \in Seq(Conns)
    <3>1. CASE UNCHANGED <<conn, connections>>
      BY <3>1 DEF TypeOK
    <3>2. CASE /\ \E c \in Conns : Unreferenced(c)
               /\ CreateConnection(CHOOSE c \in Conns : Unreferenced(c), req)
      <4> DEFINE c == CHOOSE c \in Conns : Unreferenced(c)
      <4>1. c \in Conns
        BY <3>2
      <4>2. [Closed EXCEPT !.open = TRUE, !.auth = req.alt] \in Connection
        BY <1>0, ClosedType DEF Connection
      <4> HIDE DEF c
      <4> QED
        BY <3>2, <4>1, <4>2 DEF TypeOK, CreateConnection
    <3> QED
      BY <1>3, <3>1, <3>2 DEF WaitForConnection
  <2> QED
    BY <1>1, <1>3, <2>1 DEF TypeOK, IoSubscribe, WaitForConnection
<1> QED
  BY <1>2, <1>3 DEF IoSubscribe

LEMMA RetrySubscriptionType ==
    ASSUME TypeOK, NEW req \in Requests, RetrySubscription(req)
    PROVE  /\ entry' \in [Keys -> Entry]
           /\ UNCHANGED <<handle, quitting, marking, resetting, conn, connections, calls, twitch>>
<1>1. req.key \in Keys
  BY RequestsAssumption
<1>2. Touch(entry[req.key]) \in Entry
  BY <1>1, TouchType DEF TypeOK
<1>3. Missing \in Entry
  BY DEF Missing, Entry, States
<1>4. [Touch(entry[req.key]) EXCEPT !.state = "Retrying",
                                    !.timer = [req |-> req, fired |-> FALSE]] \in Entry
  BY <1>2 DEF Entry, States
<1>5. entry' \in [Keys -> Entry]
  BY <1>1, <1>2, <1>3, <1>4 DEF TypeOK, RetrySubscription
<1>6. UNCHANGED <<handle, quitting, marking, resetting, conn, connections, calls, twitch>>
  BY Zenon DEF RetrySubscription
<1> QED
  BY <1>5, <1>6

-----------------------------------------------------------------------------
(* One step per action: each keeps the types. *)

LEMMA ReleaseType ==
    ASSUME TypeOK, NEW req \in Requests, Release(req)
    PROVE  entry' \in [Keys -> Entry] /\ posted' \in Seq(Task)
<1>0. req.key \in Keys /\ entry[req.key] \in Entry
  BY RequestsAssumption DEF TypeOK
<1> DEFINE e == Touch(entry[req.key])
<1>1. e \in Entry
  BY <1>0, TouchType
<1>2. [e EXCEPT !.state = "Subscribing", !.connection = None] \in Entry
  <2> HIDE DEF e
  <2> QED
    BY <1>1 DEF Entry, States
<1>3. entry' \in [Keys -> Entry]
  <2>1. Missing \in Entry
    BY DEF Missing, Entry, States
  <2> QED
    BY <1>0, <1>2, <2>1 DEF TypeOK, Release
<1>4. posted' \in Seq(Task)
  <2>1. posted \in Seq(Task) /\ Append(posted, [op |-> "subscribe", req |-> req]) \in Seq(Task)
    BY AppendType DEF TypeOK
  <2>2. posted' = posted \/ posted' = Append(posted, [op |-> "subscribe", req |-> req])
    BY DEF Release
  <2> QED
    BY <2>1, <2>2
<1> QED
  BY <1>3, <1>4

LEMMA ApplicationType == TypeOK /\ Application => TypeOK'
<1>1. ASSUME TypeOK, NEW h \in Handles, NEW req \in Requests, Subscribe(h, req)
      PROVE  TypeOK'
  <2>1. req.key \in Keys /\ entry[req.key] \in Entry
    BY <1>1, RequestsAssumption DEF TypeOK
  <2> DEFINE counted == [entry[req.key] EXCEPT !.refCount = @ + 1]
  <2>2. counted \in Entry
    BY <2>1 DEF Entry
  <2>3. [counted EXCEPT !.state = "Subscribing"] \in Entry
    <3> HIDE DEF counted
    <3> QED
      BY <2>2 DEF Entry, States
  <2>4. entry' \in [Keys -> Entry] /\ posted' \in Seq(Task)
    <3>1. \/ entry' = [entry EXCEPT ![req.key] = counted] /\ posted' = posted
          \/ /\ entry' = [entry EXCEPT ![req.key] = [counted EXCEPT !.state = "Subscribing"]]
             /\ posted' = Append(posted, [op |-> "subscribe", req |-> req])
      BY <1>1 DEF Subscribe
    <3>2. posted \in Seq(Task) /\ entry \in [Keys -> Entry]
      BY <1>1 DEF TypeOK
    <3>3. Append(posted, [op |-> "subscribe", req |-> req]) \in Seq(Task)
      BY <3>2, AppendType
    <3> HIDE DEF counted
    <3> QED
      BY <2>1, <2>2, <2>3, <3>1, <3>2, <3>3
  <2> QED
    BY <1>1, <2>4 DEF TypeOK, Subscribe
<1>2. ASSUME TypeOK, NEW h \in Handles, RemoveRef(h)
      PROVE  TypeOK'
  <2> DEFINE req == handle[h]
  <2> DEFINE e == [entry[req.key] EXCEPT !.refCount = @ - 1]
  <2>1. req \in Requests /\ req.key \in Keys
    BY <1>2, RequestsAssumption DEF TypeOK, RemoveRef
  <2>2. e \in Entry
    <3>1. entry[req.key] \in Entry
      BY <1>2, <2>1 DEF TypeOK
    <3> QED
      BY <3>1 DEF Entry
  <2>3. [e EXCEPT !.state = "Unsubscribing", !.timer = None, !.id = None] \in Entry
    BY <2>2 DEF Entry, States
  <2>4. Missing \in Entry
    BY DEF Missing, Entry, States
  <2>5. entry' \in [Keys -> Entry]
    BY <1>2, <2>1, <2>2, <2>3, <2>4 DEF TypeOK, RemoveRef
  <2>6. calls' \in SUBSET Call
    <3>1. CASE UNCHANGED calls
      BY <1>2, <3>1 DEF TypeOK
    <3>2. CASE /\ e.id # None
               /\ FreeCalls # {}
               /\ calls' = calls \cup {NewCall("delete", req, [c |-> e.id, gen |-> 0])}
      <4>1. [c |-> e.id, gen |-> 0] \in Weak
        BY <2>2, <3>2, BoundsAssumption DEF Weak, Entry
      <4>2. NewCall("delete", req, [c |-> e.id, gen |-> 0]) \in Call
        BY <2>1, <3>2, <4>1, NewCallType
      <4> QED
        BY <1>2, <3>2, <4>2 DEF TypeOK
    <3> QED
      BY <1>2, <3>1, <3>2 DEF RemoveRef
  <2> QED
    BY <1>2, <2>5, <2>6 DEF TypeOK, RemoveRef, ioVars
<1>3. TypeOK /\ SetQuitting => TypeOK'
  BY DEF TypeOK, SetQuitting, ioVars
<1> QED
  BY <1>1, <1>2, <1>3 DEF Application

LEMMA HelixAnswersType ==
    ASSUME TypeOK, NEW call \in calls, HelixAnswers(call)
    PROVE  TypeOK'
<1>0. call \in Call /\ call.req \in Requests /\ call.req.key \in Keys /\ call.on \in Weak
  BY RequestsAssumption DEF TypeOK, Call
<1>1. entry[call.req.key] \in Entry
  BY <1>0 DEF TypeOK
<1>2. CASE CreateSucceeds(call)
  <2>1. [op |-> "create", req |-> call.req, on |-> call.on] \in Marking
    BY <1>0 DEF Marking
  <2> QED
    BY <1>2, <2>1 DEF TypeOK, CreateSucceeds, ioVars
<1>3. CASE CreateIsRetried(call)
  <2>1. [op |-> "retry", req |-> call.req] \in Task
    BY <1>0 DEF Task
  <2> QED
    BY <1>3, <2>1 DEF TypeOK, CreateIsRetried
<1>4. CASE CreateFails(call)
  <2>1. [entry[call.req.key] EXCEPT !.state = "Failed"] \in Entry
    BY <1>1 DEF Entry, States
  <2>2. entry' \in [Keys -> Entry]
    BY <1>0, <1>4, <2>1 DEF TypeOK, CreateFails
  <2> QED
    BY <1>4, <2>2 DEF TypeOK, CreateFails, ioVars
<1>5. CASE DeleteIsAnswered(call)
  <2> DEFINE on == entry[call.req.key].connection
  <2>1. Live(on) => [op |-> "delete", req |-> call.req, on |-> on] \in Marking
    BY <1>0, <1>1 DEF Live, Entry, Marking
  <2>2. CASE Release(call.req) /\ UNCHANGED marking
    BY <1>0, <1>5, <2>2, ReleaseType DEF TypeOK, DeleteIsAnswered
  <2>3. CASE UNCHANGED <<entry, posted>>
    BY <1>5, <2>1, <2>3 DEF TypeOK, DeleteIsAnswered
  <2> QED
    BY <1>5, <2>2, <2>3 DEF DeleteIsAnswered
<1> QED
  BY <1>2, <1>3, <1>4, <1>5 DEF HelixAnswers

LEMMA MarkRequestType == TypeOK /\ MarkRequest => TypeOK'
<1> SUFFICES ASSUME TypeOK, MarkRequest PROVE TypeOK'
  OBVIOUS
<1> DEFINE req == marking.req
<1> DEFINE on == marking.on
<1>0. marking \in Marking
  BY DEF TypeOK, MarkRequest, MarkRequestSubscribed, MarkRequestUnsubscribed
<1>1. /\ req \in Requests /\ req.key \in Keys /\ req.owner \in Owners
      /\ on \in Weak /\ on.c \in Conns
      /\ entry[req.key] \in Entry /\ conn[on.c] \in Connection
  BY <1>0, RequestsAssumption DEF TypeOK, Marking, Weak
<1>2. CASE MarkRequestSubscribed
  <2>1. [entry[req.key] EXCEPT !.connection = on, !.id = on.c, !.state = "Subscribed"] \in Entry
    BY <1>1 DEF Entry, States
  <2>2. Record(conn[on.c], req) \in Connection
    BY <1>1 DEF Record, Connection
  <2>3. entry' \in [Keys -> Entry] /\ conn' \in [Conns -> Connection]
    BY <1>1, <1>2, <2>1, <2>2 DEF TypeOK, MarkRequestSubscribed
  <2> QED
    BY <1>2, <2>3 DEF TypeOK, MarkRequestSubscribed, ioVars
<1>3. CASE MarkRequestUnsubscribed
  <2>1. Forget(conn[on.c], req) \in Connection
    BY <1>1, ForgetType
  <2>2. conn' \in [Conns -> Connection]
    BY <1>1, <1>3, <2>1 DEF TypeOK, MarkRequestUnsubscribed
  <2>3. Release(req)
    BY <1>3 DEF MarkRequestUnsubscribed
  <2> QED
    BY <1>1, <1>3, <2>2, <2>3, ReleaseType DEF TypeOK, MarkRequestUnsubscribed
<1> QED
  BY <1>2, <1>3 DEF MarkRequest

LEMMA RunHandlerType == TypeOK /\ RunHandler => TypeOK'
<1>0. TypeOK /\ posted # <<>> => Head(posted) \in Task /\ Head(posted).req \in Requests /\ Tail(posted) \in Seq(Task)
  <2>1. TypeOK /\ posted # <<>> => Head(posted) \in Task /\ Tail(posted) \in Seq(Task)
    BY DEF TypeOK
  <2> QED
    BY <2>1 DEF Task
<1>1. TypeOK /\ FinishRetry => TypeOK'
  <2> SUFFICES ASSUME TypeOK, FinishRetry PROVE TypeOK'
    OBVIOUS
  <2>1. retrying \in Requests /\ RetrySubscription(retrying)
    BY Zenon DEF TypeOK, FinishRetry
  <2>2. retrying' = None /\ UNCHANGED <<posted, resubscribing>>
    BY Zenon DEF FinishRetry
  <2> QED
    BY <2>1, <2>2, RetrySubscriptionType DEF TypeOK
<1>2. ASSUME TypeOK, NEW req \in Requests, Resubscribe(req)
      PROVE  TypeOK'
  <2>1. IoSubscribe(req, FALSE)
    BY <1>2 DEF Resubscribe
  <2> QED
    BY <1>2, <2>1, IoSubscribeType DEF TypeOK, Resubscribe
<1>3. TypeOK /\ RunSubscribe => TypeOK'
  <2> SUFFICES ASSUME TypeOK, RunSubscribe PROVE TypeOK'
    OBVIOUS
  <2>1. Head(posted).req \in Requests /\ Tail(posted) \in Seq(Task)
    BY <1>0 DEF RunSubscribe
  <2>2. IoSubscribe(Head(posted).req, FALSE)
    BY DEF RunSubscribe
  <2> QED
    BY <2>1, <2>2, IoSubscribeType DEF TypeOK, RunSubscribe
<1>4. TypeOK /\ RunRetry => TypeOK'
  <2> SUFFICES ASSUME TypeOK, RunRetry PROVE TypeOK'
    OBVIOUS
  <2>1. Head(posted).req \in Requests /\ Tail(posted) \in Seq(Task)
    BY <1>0 DEF RunRetry
  <2>2. RetrySubscription(Head(posted).req)
    BY DEF RunRetry
  <2>3. posted' = Tail(posted) /\ UNCHANGED <<retrying, resubscribing>>
    BY DEF RunRetry
  <2> QED
    BY <2>1, <2>2, <2>3, RetrySubscriptionType DEF TypeOK
<1>5. TypeOK /\ RunTimer => TypeOK'
  <2> SUFFICES ASSUME TypeOK, RunTimer PROVE TypeOK'
    OBVIOUS
  <2>1. Head(posted).req \in Requests /\ Tail(posted) \in Seq(Task)
    BY <1>0 DEF RunTimer
  <2>2. CASE IoSubscribe(Head(posted).req, TRUE)
    BY <2>1, <2>2, IoSubscribeType DEF TypeOK, RunTimer
  <2>3. CASE UNCHANGED <<entry, handle, quitting, marking, retrying, resetting, conn, connections,
                         calls, twitch>>
    BY <2>1, <2>3 DEF TypeOK, RunTimer
  <2> QED
    BY <2>2, <2>3 DEF RunTimer
<1>6. TypeOK /\ ResetSubscriptions => TypeOK'
  <2> SUFFICES ASSUME TypeOK, ResetSubscriptions PROVE TypeOK'
    OBVIOUS
  <2> DEFINE lost == conn[resetting].subs
  <2>1. /\ resetting # None /\ resetting' = None
        /\ conn' = [conn EXCEPT ![resetting] = Closed]
        /\ resubscribing' = lost
        /\ UNCHANGED <<handle, quitting, posted, marking, retrying, connections, calls, twitch>>
    BY Zenon DEF ResetSubscriptions
  <2>2. resetting \in Conns /\ conn[resetting] \in Connection
    BY <2>1, Zenon DEF TypeOK
  <2>3. conn' \in [Conns -> Connection]
    BY <2>1, <2>2, ClosedType, Zenon DEF TypeOK
  <2>4. entry' \in [Keys -> Entry]
    <3>1. ASSUME NEW k \in Keys
          PROVE  /\ entry[k] \in Entry
                 /\ [entry[k] EXCEPT !.connection = None, !.state = "Subscribing"] \in Entry
      BY DEF TypeOK, Entry, States
    <3>2. entry' = [k \in Keys |->
                      IF k \in KeysOf(lost) /\ entry[k].state # "Missing"
                      THEN [entry[k] EXCEPT !.connection = None, !.state = "Subscribing"]
                      ELSE entry[k]]
      BY Zenon DEF ResetSubscriptions
    <3> HIDE DEF lost
    <3>3. ASSUME NEW k \in Keys
          PROVE  (IF k \in KeysOf(lost) /\ entry[k].state # "Missing"
                  THEN [entry[k] EXCEPT !.connection = None, !.state = "Subscribing"]
                  ELSE entry[k]) \in Entry
      BY <3>1, Zenon
    <3> QED
      BY <3>2, <3>3, Zenon
  <2>5. resubscribing' \in SUBSET Requests
    BY <2>1, <2>2 DEF Connection
  <2> QED
    BY <2>1, <2>3, <2>4, <2>5, Zenon DEF TypeOK
<1> QED
  BY <1>1, <1>2, <1>3, <1>4, <1>5, <1>6 DEF RunHandler

LEMMA TimerExpiresType ==
    ASSUME TypeOK, NEW k \in Keys, TimerExpires(k)
    PROVE  TypeOK'
<1> DEFINE t == entry[k].timer
<1>1. t \in [req : Requests, fired : BOOLEAN] /\ entry[k] \in Entry
  BY DEF TypeOK, TimerExpires, Entry
<1>2. [t EXCEPT !.fired = TRUE] \in [req : Requests, fired : BOOLEAN]
  BY <1>1
<1>3. [entry[k] EXCEPT !.timer = [t EXCEPT !.fired = TRUE]] \in Entry
  BY <1>1, <1>2 DEF Entry
<1>4. entry' \in [Keys -> Entry]
  BY <1>3 DEF TypeOK, TimerExpires
<1>5. [op |-> "timer", req |-> t.req] \in Task
  BY <1>1 DEF Task
<1> QED
  BY <1>4, <1>5 DEF TypeOK, TimerExpires

LEMMA SessionType ==
    ASSUME TypeOK, NEW c \in Conns, Welcome(c) \/ SessionEnds(c) \/ SessionReconnects(c)
    PROVE  TypeOK'
<1>0. conn[c] \in Connection /\ connections \in Seq(Conns) /\ Without(c) \in Seq(Conns)
  BY WithoutType DEF TypeOK
<1>1. CASE Welcome(c)
  <2>1. [conn[c] EXCEPT !.ready = TRUE] \in Connection
    BY <1>0 DEF Connection
  <2> QED
    BY <1>1, <2>1 DEF TypeOK, Welcome, ioVars
<1>2. CASE SessionEnds(c)
  <2>1. [conn[c] EXCEPT !.open = FALSE, !.ready = FALSE] \in Connection
    BY <1>0 DEF Connection
  <2>2. [conn EXCEPT ![c].open = FALSE, ![c].ready = FALSE] \in [Conns -> Connection]
    BY <2>1 DEF TypeOK
  <2>3. conn' \in [Conns -> Connection]
    BY <1>2, <2>2, ClosedType DEF TypeOK, SessionEnds
  <2>4. resetting' \in Conns \cup {None}
    BY <1>2 DEF TypeOK, SessionEnds
  <2> QED
    BY <1>0, <1>2, <2>3, <2>4 DEF TypeOK, SessionEnds
<1>3. CASE SessionReconnects(c)
  <2>1. conn[c].gen < MaxGen => [conn[c] EXCEPT !.gen = @ + 1] \in Connection
    <3> DEFINE gen == conn[c].gen + 1
    <3>1. conn[c].gen \in 0 .. MaxGen
      BY <1>0 DEF Connection
    <3>2. conn[c].gen < MaxGen => gen \in 0 .. MaxGen
      BY <3>1, BoundsAssumption
    <3> HIDE DEF gen
    <3>3. conn[c].gen < MaxGen => [conn[c] EXCEPT !.gen = gen] \in Connection
      BY <1>0, <3>2 DEF Connection
    <3> QED
      BY <3>3 DEF gen
  <2>2. conn' \in [Conns -> Connection]
    BY <1>3, <2>1, ClosedType DEF TypeOK, SessionReconnects
  <2>3. connections' \in Seq(Conns)
    BY <1>0, <1>3 DEF SessionReconnects
  <2> QED
    BY <1>3, <2>2, <2>3 DEF TypeOK, SessionReconnects, ioVars
<1> QED
  BY <1>1, <1>2, <1>3

LEMMA TwitchType ==
    ASSUME TypeOK, NEW call \in calls, TwitchAnswers(call) \/ TwitchFaults(call)
    PROVE  TypeOK'
<1>0. call \in Call /\ call.req.key \in Keys /\ call.on.c \in Conns
  BY RequestsAssumption DEF TypeOK, Call, Weak
<1>1. ASSUME NEW a \in Answers, Answered(call, a)
      PROVE  calls' \in SUBSET Call
  <2>1. [call EXCEPT !.answer = a] \in Call
    BY <1>0 DEF Call
  <2> QED
    BY <1>1, <2>1 DEF TypeOK, Answered
<1>2. CASE TwitchCreates(call)
  BY <1>0, <1>1, <1>2 DEF TypeOK, TwitchCreates, Answers, ioVars
<1>3. CASE TwitchDeletes(call)
  BY <1>0, <1>1, <1>3 DEF TypeOK, TwitchDeletes, Answers, ioVars
<1>4. CASE TwitchRefuses(call)
  BY <1>0, <1>1, <1>4 DEF TypeOK, TwitchRefuses, Answers, ioVars
<1>5. CASE TwitchIsLost(call)
  BY <1>0, <1>1, <1>5 DEF TypeOK, TwitchIsLost, Answers, ioVars
<1> QED
  BY <1>2, <1>3, <1>4, <1>5 DEF TwitchAnswers, TwitchFaults

(* Every variable keeps its type: entries have a state of the code's enum, *)
(* calls and handlers refer to requests and Connection objects that exist. *)
THEOREM TypeCorrect == Spec => []TypeOK
<1>1. Init => TypeOK
  <2>1. Missing \in Entry
    BY DEF Missing, Entry, States
  <2>2. Closed \in Connection
    BY ClosedType
  <2> SUFFICES ASSUME Init PROVE TypeOK
    OBVIOUS
  <2>3. entry \in [Keys -> Entry] /\ conn \in [Conns -> Connection]
    BY <2>1, <2>2 DEF Init
  <2>4. posted \in Seq(Task) /\ connections \in Seq(Conns)
    BY DEF Init
  <2>5. calls \in SUBSET Call /\ twitch \in [Conns -> SUBSET Keys] /\ resubscribing \in SUBSET Requests
    BY DEF Init
  <2>6. handle \in [Handles -> Requests \cup {None}] /\ quitting \in BOOLEAN
    BY DEF Init
  <2> QED
    BY <2>3, <2>4, <2>5, <2>6 DEF Init, TypeOK
<1>2. TypeOK /\ [Next]_vars => TypeOK'
  <2> SUFFICES ASSUME TypeOK, [Next]_vars PROVE TypeOK'
    OBVIOUS
  <2>1. CASE Next
    BY <2>1, ApplicationType, MarkRequestType, RunHandlerType, TimerExpiresType, SessionType,
       HelixAnswersType, TwitchType
       DEF Next, SessionFaults
  <2>2. CASE UNCHANGED vars
    BY <2>2 DEF TypeOK, vars, ioVars
  <2> QED
    BY <2>1, <2>2
<1> QED
  BY <1>1, <1>2, PTL DEF Spec

-----------------------------------------------------------------------------
(* What the GUI thread records is of a request and a session that exist,   *)
(* and the IO thread resets an entry or leaves it as it is.                *)

LEMMA MarkingType ==
    ASSUME TypeOK, marking # None
    PROVE  /\ marking \in Marking
           /\ marking.req \in Requests /\ marking.req.key \in Keys
           /\ marking.on \in Weak /\ marking.on.c \in Conns
           /\ entry[marking.req.key] \in Entry
<1>1. marking \in Marking
  BY DEF TypeOK
<1> QED
  BY <1>1, RequestsAssumption DEF TypeOK, Marking, Weak

LEMMA MarkingIsSomething == None \notin Marking
<1>1. ASSUME NEW w \in Weak
      PROVE  w \in [c : Conns, gen : Nat]
  BY BoundsAssumption DEF Weak
<1>2. SUFFICES ASSUME None \in Marking
               PROVE  FALSE
  OBVIOUS
<1>3. None \in [op : {"create", "delete"}, req : Requests, on : [c : Conns, gen : Nat]]
  BY <1>1, <1>2 DEF Marking
<1>4. QED
  BY <1>3, NoneAssumption

WasReset(e) == [e EXCEPT !.connection = None, !.state = "Subscribing"]

LEMMA ResetEntries ==
    ASSUME ResetSubscriptions, NEW k \in Keys
    PROVE  \/ entry'[k] = entry[k]
           \/ /\ k \in KeysOf(conn[resetting].subs) /\ entry[k].state # "Missing"
              /\ entry'[k] = WasReset(entry[k])
<1>1. entry' = [j \in Keys |->
                  IF j \in KeysOf(conn[resetting].subs) /\ entry[j].state # "Missing"
                  THEN WasReset(entry[j]) ELSE entry[j]]
  BY Zenon DEF ResetSubscriptions, WasReset
<1> QED
  BY <1>1, Zenon

LEMMA ResetMoves ==
    ASSUME TypeOK, ResetSubscriptions
    PROVE  /\ resetting \in Conns /\ resetting # None /\ resetting' = None
           /\ conn' = [conn EXCEPT ![resetting] = Closed]
           /\ resubscribing' = conn[resetting].subs
           /\ UNCHANGED <<handle, quitting, posted, marking, retrying, connections, calls, twitch>>
  BY Zenon DEF TypeOK, ResetSubscriptions

-----------------------------------------------------------------------------
(* The reference count.  Only subscribe() and removeRef() change a count   *)
(* or a handle; everything else keeps both, where an erased entry is one   *)
(* whose count was 0.                                                      *)

CountsKept ==
    /\ handle' = handle
    /\ quitting => quitting'
    /\ ~quitting => \A k \in Keys : entry'[k].refCount = entry[k].refCount

LEMMA MissingCount == Missing.refCount = 0
  BY DEF Missing

LEMMA HoldersCount ==
    ASSUME NEW k \in Keys
    PROVE  IsFiniteSet(Holders(k)) /\ Cardinality(Holders(k)) \in Nat
<1>1. Holders(k) \subseteq Handles
  BY DEF Holders
<1> QED
  BY <1>1, HandlesAssumption, FS_Subset, FS_CardinalityType

LEMMA CountsKeptSuffices == RefCountIsHandles /\ CountsKept => RefCountIsHandles'
<1> SUFFICES ASSUME RefCountIsHandles, CountsKept, ~quitting', NEW k \in Keys
             PROVE  entry'[k].refCount = Cardinality(Holders(k)')
  BY DEF RefCountIsHandles
<1>1. Holders(k)' = Holders(k)
  BY DEF CountsKept, Holders
<1> QED
  BY <1>1 DEF RefCountIsHandles, CountsKept

LEMMA SubscribeCounts ==
    ASSUME TypeOK, RefCountIsHandles, NEW h \in Handles, NEW req \in Requests, Subscribe(h, req)
    PROVE  RefCountIsHandles'
<1>0. req.key \in Keys /\ req # None /\ ~quitting /\ ~quitting'
  BY RequestsAssumption, NoneAssumption DEF Subscribe
<1>1. SUFFICES ASSUME NEW k \in Keys
               PROVE  entry'[k].refCount = Cardinality(Holders(k)')
  BY DEF RefCountIsHandles
<1>2. handle' = [handle EXCEPT ![h] = req] /\ handle[h] = None /\ handle \in [Handles -> Requests \cup {None}]
  BY DEF Subscribe, TypeOK
<1>3. entry[k].refCount = Cardinality(Holders(k)) /\ entry[k] \in Entry
  BY <1>0 DEF RefCountIsHandles, TypeOK
<1>4. CASE k = req.key
  <2>1. Holders(k)' = Holders(k) \cup {h} /\ h \notin Holders(k)
    BY <1>0, <1>2, <1>4 DEF Holders
  <2>2. Cardinality(Holders(k)') = Cardinality(Holders(k)) + 1
    BY <2>1, HoldersCount, FS_AddElement
  <2>3. \/ entry' = [entry EXCEPT ![k] = [entry[k] EXCEPT !.refCount = @ + 1]]
        \/ entry' = [entry EXCEPT ![k] = [[entry[k] EXCEPT !.refCount = @ + 1] EXCEPT !.state = "Subscribing"]]
    BY <1>4 DEF Subscribe
  <2>4. entry'[k].refCount = entry[k].refCount + 1
    BY <1>3, <2>3 DEF TypeOK, Entry
  <2> QED
    BY <1>3, <2>2, <2>4
<1>5. CASE k # req.key
  <2>1. Holders(k)' = Holders(k)
    BY <1>0, <1>2, <1>5 DEF Holders
  <2>2. entry'[k] = entry[k]
    BY <1>0, <1>5 DEF Subscribe, TypeOK
  <2> QED
    BY <1>3, <2>1, <2>2
<1> QED
  BY <1>4, <1>5

LEMMA RemoveRefCounts ==
    ASSUME TypeOK, RefCountIsHandles, NEW h \in Handles, RemoveRef(h)
    PROVE  RefCountIsHandles'
<1> DEFINE req == handle[h]
<1>0. req \in Requests /\ req.key \in Keys /\ req # None
  BY RequestsAssumption DEF TypeOK, RemoveRef
<1>1. SUFFICES ASSUME ~quitting, NEW k \in Keys
               PROVE  entry'[k].refCount = Cardinality(Holders(k)')
  BY DEF RefCountIsHandles, RemoveRef
<1>2. handle' = [handle EXCEPT ![h] = None] /\ handle \in [Handles -> Requests \cup {None}]
  BY DEF RemoveRef, TypeOK
<1>3. entry[k].refCount = Cardinality(Holders(k)) /\ entry[k] \in Entry
  BY <1>1 DEF RefCountIsHandles, TypeOK
<1>4. CASE k = req.key
  <2>1. Holders(k)' = Holders(k) \ {h} /\ h \in Holders(k)
    BY <1>0, <1>2, <1>4 DEF Holders
  <2>2. Cardinality(Holders(k)') = Cardinality(Holders(k)) - 1 /\ Cardinality(Holders(k)') \in Nat
    BY <2>1, HoldersCount, FS_RemoveElement, FS_CardinalityType
  <2> DEFINE e == [entry[k] EXCEPT !.refCount = @ - 1]
  <2>3. e.refCount = Cardinality(Holders(k)') /\ e \in Entry
    BY <1>3, <2>2 DEF Entry
  <2>4. \/ entry' = [entry EXCEPT ![k] = e]
        \/ e.refCount <= 0 /\ entry' = [entry EXCEPT ![k] = Missing]
        \/ entry' = [entry EXCEPT ![k] =
                        [e EXCEPT !.state = "Unsubscribing", !.timer = None, !.id = None]]
    BY <1>1, <1>4 DEF RemoveRef
  <2>5. e.refCount <= 0 => Missing.refCount = e.refCount
    <3>1. e.refCount \in Nat
      BY <2>2, <2>3
    <3> HIDE DEF e
    <3> QED
      BY <3>1, MissingCount
  <2>6. [e EXCEPT !.state = "Unsubscribing", !.timer = None, !.id = None].refCount = e.refCount
    <3> HIDE DEF e
    <3> QED
      BY <2>3 DEF Entry
  <2>7. entry'[k].refCount = e.refCount
    <3> HIDE DEF e
    <3> QED
      BY <2>4, <2>5, <2>6 DEF TypeOK
  <2> QED
    BY <2>3, <2>7
<1>5. CASE k # req.key
  <2>1. Holders(k)' = Holders(k)
    BY <1>0, <1>2, <1>5 DEF Holders
  <2>2. entry'[k] = entry[k]
    BY <1>0, <1>5 DEF RemoveRef, TypeOK
  <2> QED
    BY <1>3, <2>1, <2>2
<1> QED
  BY <1>4, <1>5

LEMMA ReleaseCounts ==
    ASSUME TypeOK, NEW req \in Requests, Release(req)
    PROVE  \A k \in Keys : entry'[k].refCount = entry[k].refCount
<1> DEFINE k == req.key
<1> DEFINE e == Touch(entry[k])
<1>0. k \in Keys /\ entry \in [Keys -> Entry]
  BY RequestsAssumption DEF TypeOK
<1>1. e \in Entry /\ e.refCount = entry[k].refCount
  BY <1>0, TouchType
<1>2. \/ e.refCount = 0 /\ entry' = [entry EXCEPT ![k] = Missing]
      \/ entry' = [entry EXCEPT ![k] = [e EXCEPT !.state = "Subscribing", !.connection = None]]
  BY DEF Release
<1> HIDE DEF e
<1>3. [e EXCEPT !.state = "Subscribing", !.connection = None].refCount = e.refCount
  BY <1>1 DEF Entry
<1>4. entry'[k].refCount = entry[k].refCount
  BY <1>0, <1>1, <1>2, <1>3, MissingCount
<1> QED
  BY <1>0, <1>2, <1>4

LEMMA HelixAnswersCounts ==
    ASSUME TypeOK, NEW call \in calls, HelixAnswers(call)
    PROVE  CountsKept
<1>0. call.req.key \in Keys /\ entry[call.req.key] \in Entry
  BY RequestsAssumption DEF TypeOK, Call
<1>1. CASE CreateSucceeds(call)
  BY <1>1 DEF CountsKept, CreateSucceeds
<1>2. CASE CreateIsRetried(call)
  BY <1>2 DEF CountsKept, CreateIsRetried
<1>3. CASE CreateFails(call)
  BY <1>0, <1>3 DEF CountsKept, TypeOK, Entry, CreateFails
<1>4. CASE DeleteIsAnswered(call)
  <2>1. CASE UNCHANGED entry
    BY <1>4, <2>1 DEF CountsKept, DeleteIsAnswered
  <2>2. CASE Release(call.req)
    <3>1. call.req \in Requests
      BY DEF TypeOK, Call
    <3> QED
      BY <1>4, <2>2, <3>1, ReleaseCounts DEF CountsKept, DeleteIsAnswered
  <2> QED
    BY <1>4, <2>1, <2>2 DEF DeleteIsAnswered
<1> QED
  BY <1>1, <1>2, <1>3, <1>4 DEF HelixAnswers

LEMMA MarkRequestCounts == TypeOK /\ MarkRequest => CountsKept
<1> SUFFICES ASSUME TypeOK, MarkRequest PROVE CountsKept
  OBVIOUS
<1> DEFINE k == marking.req.key
<1>0. marking # None
  BY DEF MarkRequest, MarkRequestSubscribed, MarkRequestUnsubscribed
<1>1. k \in Keys /\ entry[k] \in Entry /\ marking.req \in Requests
  BY <1>0, MarkingType
<1>2. CASE MarkRequestSubscribed
  <2> DEFINE e == [entry[k] EXCEPT !.connection = marking.on, !.id = marking.on.c,
                                   !.state = "Subscribed"]
  <2>1. entry' = [entry EXCEPT ![k] = e] /\ UNCHANGED <<handle, quitting>>
    BY <1>2 DEF MarkRequestSubscribed
  <2>2. e.refCount = entry[k].refCount
    BY <1>1 DEF Entry
  <2> HIDE DEF e
  <2> QED
    BY <1>1, <2>1, <2>2 DEF CountsKept, TypeOK
<1>3. CASE MarkRequestUnsubscribed
  <2>1. Release(marking.req) /\ UNCHANGED <<handle, quitting>>
    BY <1>3 DEF MarkRequestUnsubscribed
  <2> QED
    BY <1>1, <2>1, ReleaseCounts DEF CountsKept
<1> QED
  BY <1>2, <1>3 DEF MarkRequest

LEMMA IoSubscribeCounts ==
    ASSUME TypeOK, NEW req \in Requests, NEW isRetry \in BOOLEAN, IoSubscribe(req, isRetry)
    PROVE  CountsKept
<1> DEFINE e == Touch(entry[req.key])
<1>1. req.key \in Keys /\ e \in Entry /\ e.refCount = entry[req.key].refCount
  BY RequestsAssumption, TouchType DEF TypeOK
<1>2. entry' = [entry EXCEPT ![req.key] = [e EXCEPT !.timer = IF isRetry THEN None ELSE @]]
  BY DEF IoSubscribe
<1> HIDE DEF e
<1>3. [e EXCEPT !.timer = IF isRetry THEN None ELSE @].refCount = e.refCount
  BY <1>1 DEF Entry
<1> QED
  BY <1>1, <1>2, <1>3 DEF CountsKept, IoSubscribe, TypeOK

LEMMA RetrySubscriptionCounts ==
    ASSUME TypeOK, NEW req \in Requests, RetrySubscription(req)
    PROVE  CountsKept
<1> DEFINE e == Touch(entry[req.key])
<1>1. req.key \in Keys /\ e \in Entry /\ e.refCount = entry[req.key].refCount
  BY RequestsAssumption, TouchType DEF TypeOK
<1> DEFINE retried == [e EXCEPT !.state = "Retrying", !.timer = [req |-> req, fired |-> FALSE]]
<1>2. \/ entry' = entry
      \/ e.refCount = 0 /\ entry' = [entry EXCEPT ![req.key] = Missing]
      \/ entry' = [entry EXCEPT ![req.key] = retried]
  BY DEF RetrySubscription
<1>3. retried.refCount = e.refCount
  <2> HIDE DEF e
  <2> QED
    BY <1>1 DEF Entry
<1> HIDE DEF e, retried
<1> QED
  BY <1>1, <1>2, <1>3 DEF CountsKept, RetrySubscription, TypeOK, Missing

LEMMA RunHandlerCounts == TypeOK /\ RunHandler => CountsKept
<1> SUFFICES ASSUME TypeOK, RunHandler PROVE CountsKept
  OBVIOUS
<1>0. posted # <<>> => Head(posted).req \in Requests
  <2>1. posted # <<>> => Head(posted) \in Task
    BY DEF TypeOK
  <2> QED
    BY <2>1 DEF Task
<1>1. CASE FinishRetry
  BY <1>1, RetrySubscriptionCounts DEF FinishRetry, TypeOK
<1>2. ASSUME NEW req \in Requests, Resubscribe(req)
      PROVE  CountsKept
  BY <1>2, IoSubscribeCounts DEF Resubscribe
<1>3. CASE RunSubscribe
  BY <1>0, <1>3, IoSubscribeCounts DEF RunSubscribe
<1>4. CASE RunRetry
  BY <1>0, <1>4, RetrySubscriptionCounts DEF RunRetry
<1>5. CASE RunTimer
  <2>1. CASE IoSubscribe(Head(posted).req, TRUE)
    BY <1>0, <1>5, <2>1, IoSubscribeCounts DEF RunTimer
  <2>2. CASE UNCHANGED <<entry, handle, quitting, marking, retrying, resetting, conn, connections,
                         calls, twitch>>
    BY <2>2 DEF CountsKept
  <2> QED
    BY <1>5, <2>1, <2>2 DEF RunTimer
<1>6. CASE ResetSubscriptions
  <2>1. handle' = handle /\ quitting' = quitting
    BY <1>6, ResetMoves
  <2>2. ASSUME NEW k \in Keys
        PROVE  entry'[k].refCount = entry[k].refCount
    <3>1. entry[k] \in Entry
      BY DEF TypeOK
    <3>2. WasReset(entry[k]).refCount = entry[k].refCount
      BY <3>1 DEF Entry, WasReset
    <3> QED
      BY <1>6, <3>2, ResetEntries
  <2> QED
    BY <2>1, <2>2 DEF CountsKept
<1> QED
  BY <1>1, <1>2, <1>3, <1>4, <1>5, <1>6 DEF RunHandler

LEMMA TimerExpiresCounts ==
    ASSUME TypeOK, NEW k \in Keys, TimerExpires(k)
    PROVE  CountsKept
  BY DEF CountsKept, TimerExpires, TypeOK, Entry

LEMMA SessionCounts ==
    ASSUME TypeOK, NEW c \in Conns, Welcome(c) \/ SessionEnds(c) \/ SessionReconnects(c)
    PROVE  CountsKept
<1>1. CASE Welcome(c)
  BY <1>1 DEF CountsKept, Welcome
<1>2. CASE SessionEnds(c)
  BY <1>2 DEF CountsKept, SessionEnds
<1>3. CASE SessionReconnects(c)
  BY <1>3 DEF CountsKept, SessionReconnects
<1> QED
  BY <1>1, <1>2, <1>3

LEMMA TwitchCounts ==
    ASSUME NEW call \in calls, TwitchAnswers(call) \/ TwitchFaults(call)
    PROVE  CountsKept
  BY DEF CountsKept, TwitchAnswers, TwitchFaults, TwitchCreates, TwitchDeletes, TwitchRefuses,
         TwitchIsLost

(* Until the application quits, an entry counts exactly the handles that   *)
(* are alive for its request, over every interleaving of the two threads:  *)
(* removeRef() never drops a count below 0 and never drops an entry that   *)
(* another handle needs.                                                   *)
THEOREM CountsAreHandles == Spec => []RefCountIsHandles
<1>1. Init => RefCountIsHandles
  <2> SUFFICES ASSUME Init, NEW k \in Keys
               PROVE  entry[k].refCount = Cardinality(Holders(k))
    BY DEF RefCountIsHandles
  <2>1. Holders(k) = {}
    BY DEF Init, Holders
  <2> QED
    BY <2>1, FS_EmptySet DEF Init, Missing
<1>2. TypeOK /\ RefCountIsHandles /\ [Next]_vars => RefCountIsHandles'
  <2> SUFFICES ASSUME TypeOK, RefCountIsHandles, [Next]_vars PROVE RefCountIsHandles'
    OBVIOUS
  <2>1. CASE Application
    <3>1. CASE SetQuitting
      BY <3>1 DEF RefCountIsHandles, SetQuitting
    <3> QED
      BY <2>1, <3>1, SubscribeCounts, RemoveRefCounts DEF Application
  <2>2. CASE RunHandler
    BY <2>2, RunHandlerCounts, CountsKeptSuffices
  <2>3. CASE \E k \in Keys : TimerExpires(k)
    BY <2>3, TimerExpiresCounts, CountsKeptSuffices
  <2>4. CASE \E c \in Conns : Welcome(c) \/ SessionEnds(c) \/ SessionReconnects(c)
    BY <2>4, SessionCounts, CountsKeptSuffices
  <2>5. CASE \E call \in calls : HelixAnswers(call) \/ TwitchAnswers(call) \/ TwitchFaults(call)
    BY <2>5, HelixAnswersCounts, TwitchCounts, CountsKeptSuffices
  <2>6. CASE UNCHANGED vars
    BY <2>6, CountsKeptSuffices DEF CountsKept, vars, ioVars
  <2>7. CASE MarkRequest
    BY <2>7, MarkRequestCounts, CountsKeptSuffices
  <2> QED
    BY <2>1, <2>2, <2>3, <2>4, <2>5, <2>6, <2>7 DEF Next, SessionFaults
<1> QED
  BY <1>1, <1>2, TypeCorrect, PTL DEF Spec

-----------------------------------------------------------------------------
(* What the actions do to the references of the entries.  Only recording   *)
(* the answer of a create makes an entry Subscribed and gives it a session.*)

RefersAsBefore(k) ==
    /\ entry'[k].state = "Subscribed" => entry[k].state = "Subscribed"
    /\ entry'[k].id \in {entry[k].id, None}
    /\ entry'[k].connection \in {entry[k].connection, None}

RefsKept == \A k \in Keys : RefersAsBefore(k)

(* It is enough to look at the one entry an action writes.                 *)
LEMMA OneEntry ==
    ASSUME TypeOK, NEW k \in Keys, NEW e \in Entry, entry' = [entry EXCEPT ![k] = e],
           e.state = "Subscribed" => entry[k].state = "Subscribed",
           e.id \in {entry[k].id, None}, e.connection \in {entry[k].connection, None}
    PROVE  RefsKept
  BY DEF RefsKept, RefersAsBefore, TypeOK

LEMMA MissingRefersToNothing ==
    /\ Missing \in Entry /\ Missing.state = "Missing"
    /\ Missing.id = None /\ Missing.connection = None
    /\ Missing.refCount = 0 /\ Missing.timer = None
  BY DEF Missing, Entry, States

LEMMA TouchRefersAsBefore ==
    ASSUME NEW e \in Entry
    PROVE  /\ Touch(e) \in Entry /\ Touch(e).id = e.id /\ Touch(e).connection = e.connection
           /\ Touch(e).refCount = e.refCount /\ Touch(e).timer = e.timer
           /\ Touch(e).state = IF e.state = "Missing" THEN "Unsubscribed" ELSE e.state
  BY DEF Touch, Entry, States

LEMMA IoSubscribeRefs ==
    ASSUME TypeOK, NEW req \in Requests, NEW isRetry \in BOOLEAN, IoSubscribe(req, isRetry)
    PROVE  RefsKept
<1>1. req.key \in Keys /\ entry[req.key] \in Entry
  BY RequestsAssumption DEF TypeOK
<1>2. PICK t \in Entry : t = Touch(entry[req.key])
  BY <1>1, TouchRefersAsBefore
<1>3. PICK e \in Entry : /\ entry' = [entry EXCEPT ![req.key] = e]
                         /\ e.id = t.id /\ e.connection = t.connection /\ e.state = t.state
  <2>1. [t EXCEPT !.timer = IF isRetry THEN None ELSE @] \in Entry
    BY DEF Entry
  <2>2. entry' = [entry EXCEPT ![req.key] = [t EXCEPT !.timer = IF isRetry THEN None ELSE @]]
    BY <1>2 DEF IoSubscribe
  <2>3. QED
    BY <2>1, <2>2 DEF Entry
<1>4. t.id = entry[req.key].id /\ t.connection = entry[req.key].connection
      /\ (t.state = "Subscribed" => entry[req.key].state = "Subscribed")
  BY <1>1, <1>2, TouchRefersAsBefore
<1>5. QED
  BY <1>1, <1>3, <1>4, OneEntry

LEMMA RetrySubscriptionRefs ==
    ASSUME TypeOK, NEW req \in Requests, RetrySubscription(req)
    PROVE  RefsKept
<1>1. req.key \in Keys /\ entry[req.key] \in Entry
  BY RequestsAssumption DEF TypeOK
<1>2. PICK t \in Entry : t = Touch(entry[req.key])
  BY <1>1, TouchRefersAsBefore
<1>3. t.id = entry[req.key].id /\ t.connection = entry[req.key].connection
  BY <1>1, <1>2, TouchRefersAsBefore
<1>4. CASE entry' = entry
  BY <1>4 DEF RefsKept, RefersAsBefore
<1>5. CASE entry' = [entry EXCEPT ![req.key] = Missing]
  BY <1>1, <1>5, MissingRefersToNothing, OneEntry
<1>6. CASE entry' = [entry EXCEPT ![req.key] =
                        [t EXCEPT !.state = "Retrying", !.timer = [req |-> req, fired |-> FALSE]]]
  <2>1. PICK e \in Entry : /\ e = [t EXCEPT !.state = "Retrying",
                                            !.timer = [req |-> req, fired |-> FALSE]]
                           /\ e.id = t.id /\ e.connection = t.connection /\ e.state = "Retrying"
    <3> DEFINE x == [t EXCEPT !.state = "Retrying", !.timer = [req |-> req, fired |-> FALSE]]
    <3>1. x \in Entry /\ x.id = t.id /\ x.connection = t.connection /\ x.state = "Retrying"
      BY DEF Entry, States
    <3>2. QED
      BY <3>1
  <2>2. QED
    BY <1>1, <1>3, <1>6, <2>1, OneEntry
<1>7. QED
  BY <1>2, <1>4, <1>5, <1>6 DEF RetrySubscription

LEMMA RunHandlerRefs == TypeOK /\ RunHandler => RefsKept
<1> SUFFICES ASSUME TypeOK, RunHandler PROVE RefsKept
  OBVIOUS
<1>0. posted # <<>> => Head(posted).req \in Requests
  <2>1. posted # <<>> => Head(posted) \in Task
    BY DEF TypeOK
  <2>2. QED
    BY <2>1 DEF Task
<1>1. CASE FinishRetry
  BY <1>1, RetrySubscriptionRefs DEF FinishRetry, TypeOK
<1>2. ASSUME NEW req \in Requests, Resubscribe(req)
      PROVE  RefsKept
  BY <1>2, IoSubscribeRefs DEF Resubscribe
<1>3. CASE RunSubscribe
  BY <1>0, <1>3, IoSubscribeRefs DEF RunSubscribe
<1>4. CASE RunRetry
  BY <1>0, <1>4, RetrySubscriptionRefs DEF RunRetry
<1>5. CASE RunTimer
  <2>1. CASE IoSubscribe(Head(posted).req, TRUE)
    BY <1>0, <1>5, <2>1, IoSubscribeRefs DEF RunTimer
  <2>2. CASE entry' = entry
    BY <2>2 DEF RefsKept, RefersAsBefore
  <2>3. QED
    BY <1>5, <2>1, <2>2 DEF RunTimer
<1>6. CASE ResetSubscriptions
  <2>1. ASSUME NEW k \in Keys
        PROVE  RefersAsBefore(k)
    <3>1. entry[k] \in Entry
      BY DEF TypeOK
    <3>2. /\ WasReset(entry[k]).id = entry[k].id /\ WasReset(entry[k]).connection = None
          /\ WasReset(entry[k]).state = "Subscribing"
      BY <3>1 DEF Entry, WasReset
    <3>3. QED
      BY <1>6, <3>2, ResetEntries DEF RefersAsBefore
  <2>2. QED
    BY <2>1 DEF RefsKept
<1>7. QED
  BY <1>1, <1>2, <1>3, <1>4, <1>5, <1>6 DEF RunHandler

LEMMA ApplicationRefs == TypeOK /\ Application => RefsKept
<1> SUFFICES ASSUME TypeOK, Application PROVE RefsKept
  OBVIOUS
<1>1. ASSUME NEW h \in Handles, NEW req \in Requests, Subscribe(h, req)
      PROVE  RefsKept
  <2>1. req.key \in Keys /\ entry[req.key] \in Entry
    BY RequestsAssumption DEF TypeOK
  <2>2. PICK e \in Entry : /\ e = [entry[req.key] EXCEPT !.refCount = @ + 1]
                           /\ e.id = entry[req.key].id
                           /\ e.connection = entry[req.key].connection
                           /\ e.state = entry[req.key].state
    <3> DEFINE x == [entry[req.key] EXCEPT !.refCount = @ + 1]
    <3>1. /\ x \in Entry /\ x.id = entry[req.key].id /\ x.state = entry[req.key].state
          /\ x.connection = entry[req.key].connection
      BY <2>1 DEF Entry
    <3>2. QED
      BY <3>1
  <2>3. PICK f \in Entry : /\ f = [e EXCEPT !.state = "Subscribing"]
                           /\ f.id = e.id /\ f.connection = e.connection
                           /\ f.state = "Subscribing"
    <3> DEFINE x == [e EXCEPT !.state = "Subscribing"]
    <3>1. x \in Entry /\ x.id = e.id /\ x.connection = e.connection /\ x.state = "Subscribing"
      BY DEF Entry, States
    <3>2. QED
      BY <3>1
  <2>4. \/ entry' = [entry EXCEPT ![req.key] = e]
        \/ entry' = [entry EXCEPT ![req.key] = f]
    BY <1>1, <2>2, <2>3 DEF Subscribe
  <2>5. QED
    BY <2>1, <2>2, <2>3, <2>4, OneEntry
<1>2. ASSUME NEW h \in Handles, RemoveRef(h)
      PROVE  RefsKept
  <2> DEFINE req == handle[h]
  <2>1. req.key \in Keys /\ entry[req.key] \in Entry
    BY <1>2, RequestsAssumption DEF TypeOK, RemoveRef
  <2>2. PICK e \in Entry : /\ e = [entry[req.key] EXCEPT !.refCount = @ - 1]
                           /\ e.id = entry[req.key].id
                           /\ e.connection = entry[req.key].connection
                           /\ e.state = entry[req.key].state
    <3> DEFINE x == [entry[req.key] EXCEPT !.refCount = @ - 1]
    <3>1. /\ x \in Entry /\ x.id = entry[req.key].id /\ x.state = entry[req.key].state
          /\ x.connection = entry[req.key].connection
      BY <2>1 DEF Entry
    <3>2. QED
      BY <3>1
  <2>3. PICK f \in Entry : /\ f = [e EXCEPT !.state = "Unsubscribing", !.timer = None, !.id = None]
                           /\ f.id = None /\ f.connection = e.connection
                           /\ f.state = "Unsubscribing"
    <3> DEFINE x == [e EXCEPT !.state = "Unsubscribing", !.timer = None, !.id = None]
    <3>1. x \in Entry /\ x.id = None /\ x.connection = e.connection /\ x.state = "Unsubscribing"
      BY DEF Entry, States
    <3>2. QED
      BY <3>1
  <2>4. \/ entry' = entry
        \/ entry' = [entry EXCEPT ![req.key] = e]
        \/ entry' = [entry EXCEPT ![req.key] = Missing]
        \/ entry' = [entry EXCEPT ![req.key] = f]
    BY <1>2, <2>2, <2>3 DEF RemoveRef
  <2>5. CASE entry' = entry
    BY <2>5 DEF RefsKept, RefersAsBefore
  <2>6. CASE entry' = [entry EXCEPT ![req.key] = e]
    BY <2>1, <2>2, <2>6, OneEntry
  <2>7. CASE entry' = [entry EXCEPT ![req.key] = Missing]
    BY <2>1, <2>7, MissingRefersToNothing, OneEntry
  <2>8. CASE entry' = [entry EXCEPT ![req.key] = f]
    BY <2>1, <2>2, <2>3, <2>8, OneEntry
  <2>9. QED
    BY <2>4, <2>5, <2>6, <2>7, <2>8
<1>3. CASE SetQuitting
  BY <1>3 DEF SetQuitting, RefsKept, RefersAsBefore
<1>4. QED
  BY <1>1, <1>2, <1>3 DEF Application

LEMMA ReleaseRefs ==
    ASSUME TypeOK, NEW req \in Requests, Release(req)
    PROVE  RefsKept
<1>0. req.key \in Keys /\ entry[req.key] \in Entry
  BY RequestsAssumption DEF TypeOK
<1>1. PICK d \in Entry : d = Touch(entry[req.key])
  BY <1>0, TouchRefersAsBefore
<1>2. d.id = entry[req.key].id
  BY <1>0, <1>1, TouchRefersAsBefore
<1>3. PICK e \in Entry : /\ e = [d EXCEPT !.state = "Subscribing", !.connection = None]
                         /\ e.id = d.id /\ e.state = "Subscribing" /\ e.connection = None
  <2> DEFINE x == [d EXCEPT !.state = "Subscribing", !.connection = None]
  <2>1. x \in Entry /\ x.id = d.id /\ x.state = "Subscribing" /\ x.connection = None
    BY DEF Entry, States
  <2>2. QED
    BY <2>1
<1>4. \/ entry' = [entry EXCEPT ![req.key] = Missing]
      \/ entry' = [entry EXCEPT ![req.key] = e]
  BY <1>1, <1>3 DEF Release
<1>5. CASE entry' = [entry EXCEPT ![req.key] = Missing]
  BY <1>0, <1>5, MissingRefersToNothing, OneEntry
<1>6. CASE entry' = [entry EXCEPT ![req.key] = e]
  BY <1>0, <1>2, <1>3, <1>6, OneEntry
<1>7. QED
  BY <1>4, <1>5, <1>6

LEMMA HelixAnswersRefs ==
    ASSUME TypeOK, NEW call \in calls, HelixAnswers(call)
    PROVE  RefsKept
<1>0. call.req.key \in Keys /\ entry[call.req.key] \in Entry
  BY RequestsAssumption DEF TypeOK, Call
<1>1. CASE CreateIsRetried(call)
  BY <1>1 DEF CreateIsRetried, RefsKept, RefersAsBefore
<1>2. CASE CreateFails(call)
  <2>1. PICK e \in Entry : /\ e = [entry[call.req.key] EXCEPT !.state = "Failed"]
                           /\ e.id = entry[call.req.key].id /\ e.state = "Failed"
                           /\ e.connection = entry[call.req.key].connection
    <3> DEFINE x == [entry[call.req.key] EXCEPT !.state = "Failed"]
    <3>1. /\ x \in Entry /\ x.id = entry[call.req.key].id /\ x.state = "Failed"
          /\ x.connection = entry[call.req.key].connection
      BY <1>0 DEF Entry, States
    <3>2. QED
      BY <3>1
  <2>2. entry' = entry \/ entry' = [entry EXCEPT ![call.req.key] = e]
    BY <1>2, <2>1 DEF CreateFails
  <2>3. CASE entry' = entry
    BY <2>3 DEF RefsKept, RefersAsBefore
  <2>4. CASE entry' = [entry EXCEPT ![call.req.key] = e]
    BY <1>0, <2>1, <2>4, OneEntry
  <2>5. QED
    BY <2>2, <2>3, <2>4
<1>3. CASE DeleteIsAnswered(call)
  <2>1. CASE entry' = entry
    BY <2>1 DEF RefsKept, RefersAsBefore
  <2>2. CASE Release(call.req)
    <3>1. call.req \in Requests
      BY DEF TypeOK, Call
    <3>2. QED
      BY <2>2, <3>1, ReleaseRefs
  <2>3. QED
    BY <1>3, <2>1, <2>2 DEF DeleteIsAnswered
<1>4. CASE CreateSucceeds(call)
  BY <1>4 DEF CreateSucceeds, RefsKept, RefersAsBefore
<1>5. QED
  BY <1>1, <1>2, <1>3, <1>4 DEF HelixAnswers

LEMMA MarkRequestUnsubscribedRefs == TypeOK /\ MarkRequestUnsubscribed => RefsKept
<1> SUFFICES ASSUME TypeOK, MarkRequestUnsubscribed PROVE RefsKept
  OBVIOUS
<1>1. marking # None /\ Release(marking.req)
  BY DEF MarkRequestUnsubscribed
<1>2. marking.req \in Requests
  BY <1>1, MarkingType
<1>3. QED
  BY <1>1, <1>2, ReleaseRefs

LEMMA TimerExpiresRefs ==
    ASSUME TypeOK, NEW k \in Keys, TimerExpires(k)
    PROVE  RefsKept
<1> DEFINE x == [entry[k] EXCEPT !.timer = [entry[k].timer EXCEPT !.fired = TRUE]]
<1>1. entry[k] \in Entry /\ entry[k].timer \in [req : Requests, fired : BOOLEAN]
  BY DEF TypeOK, TimerExpires, Entry
<1>2. [entry[k].timer EXCEPT !.fired = TRUE] \in [req : Requests, fired : BOOLEAN]
  BY <1>1
<1>3. /\ x \in Entry /\ x.id = entry[k].id /\ x.state = entry[k].state
      /\ x.connection = entry[k].connection
  BY <1>1, <1>2 DEF Entry
<1>4. entry' = [entry EXCEPT ![k] = x]
  BY DEF TimerExpires
<1> HIDE DEF x
<1>5. QED
  BY <1>3, <1>4, OneEntry

LEMMA SessionRefs ==
    ASSUME TypeOK, NEW c \in Conns, Welcome(c) \/ SessionEnds(c) \/ SessionReconnects(c)
    PROVE  RefsKept
<1>1. CASE Welcome(c)
  BY <1>1 DEF Welcome, RefsKept, RefersAsBefore
<1>2. CASE SessionEnds(c)
  BY <1>2 DEF SessionEnds, RefsKept, RefersAsBefore
<1>3. CASE SessionReconnects(c)
  BY <1>3 DEF SessionReconnects, RefsKept, RefersAsBefore
<1>4. QED
  BY <1>1, <1>2, <1>3

LEMMA TwitchRefs ==
    ASSUME NEW call \in calls, TwitchAnswers(call) \/ TwitchFaults(call)
    PROVE  RefsKept
  BY DEF RefsKept, RefersAsBefore, TwitchAnswers, TwitchFaults, TwitchCreates, TwitchDeletes,
         TwitchRefuses, TwitchIsLost

-----------------------------------------------------------------------------
(* What the IO thread's subscribe() does to the sessions: nothing, it      *)
(* claims a ready one and sends a create on it, or it opens one where no   *)
(* session that could serve the request is on its way.                     *)

Claims(c, req) ==
    /\ conn[c].ready
    /\ conn' = [conn EXCEPT ![c].auth = IF @ = None THEN req.alt ELSE @]
    /\ \E call \in Call : /\ calls' = calls \cup {call}
                          /\ call.op = "create" /\ call.req = req
                          /\ call.on.c = c /\ call.on.gen = conn[c].gen

Opens(c, req) ==
    /\ Unreferenced(c)
    /\ NotReady(req) = {}
    /\ conn' = [conn EXCEPT ![c] = [Closed EXCEPT !.open = TRUE, !.auth = req.alt]]
    /\ calls' = calls

LEMMA IoSubscribeConns ==
    ASSUME TypeOK, NEW req \in Requests, NEW isRetry, IoSubscribe(req, isRetry)
    PROVE  \/ UNCHANGED <<conn, calls>>
           \/ \E c \in Conns : Claims(c, req) \/ Opens(c, req)
<1>1. CASE SendCreate(req)
  <2>1. PICK i \in Viable(req) :
          LET c == connections[i]
              claimed == IF conn[c].auth = None THEN req.alt ELSE conn[c].auth
          IN  /\ FreeCalls # {}
              /\ conn' = [conn EXCEPT ![c].auth = claimed]
              /\ calls' = calls \cup {NewCall("create", req, [c |-> c, gen |-> conn[c].gen])}
    BY <1>1 DEF SendCreate
  <2>2. PICK c \in Conns : c = connections[i] /\ conn[c].ready
    BY DEF TypeOK, Viable
  <2>3. PICK w \in Weak : w = [c |-> c, gen |-> conn[c].gen]
    BY DEF TypeOK, Connection, Weak
  <2>4. PICK call \in Call : call = NewCall("create", req, w)
    BY <2>1, NewCallType
  <2>5. call.op = "create" /\ call.req = req /\ call.on = w
    BY <2>4 DEF NewCall
  <2>6. calls' = calls \cup {call}
    BY <2>1, <2>2, <2>3, <2>4
  <2>7. conn' = [conn EXCEPT ![c].auth = IF @ = None THEN req.alt ELSE @]
    BY <2>1, <2>2
  <2>8. Claims(c, req)
    BY <2>2, <2>3, <2>5, <2>6, <2>7 DEF Claims
  <2>9. QED
    BY <2>8
<1>2. CASE WaitForConnection(req)
  <2>1. CASE UNCHANGED <<conn, connections>>
    BY <1>2, <2>1 DEF WaitForConnection
  <2>2. CASE /\ NotReady(req) = {}
             /\ \E c \in Conns : Unreferenced(c)
             /\ CreateConnection(CHOOSE c \in Conns : Unreferenced(c), req)
    <3>1. PICK c \in Conns : c = (CHOOSE d \in Conns : Unreferenced(d)) /\ Unreferenced(c)
      BY <2>2
    <3>2. CreateConnection(c, req)
      BY <2>2, <3>1
    <3>3. Opens(c, req)
      BY <1>2, <2>2, <3>1, <3>2 DEF CreateConnection, WaitForConnection, Opens
    <3>4. QED
      BY <3>3
  <2>3. QED
    BY <1>2, <2>1, <2>2 DEF WaitForConnection
<1>3. QED
  BY <1>1, <1>2 DEF IoSubscribe

(* The IO thread is in one handler: what it has still to do belongs to it. *)
OneAtATime == resetting # None => retrying = None /\ resubscribing = {}

LEMMA OneHandlerAtATime == Spec => []OneAtATime
<1>1. Init => OneAtATime
  BY DEF Init, OneAtATime
<1>2. OneAtATime /\ [Next]_vars => OneAtATime'
  <2> SUFFICES ASSUME OneAtATime, [Next]_vars PROVE OneAtATime'
    OBVIOUS
  <2>1. ASSUME UNCHANGED <<resetting, retrying, resubscribing>>
        PROVE  OneAtATime'
    BY <2>1 DEF OneAtATime
  <2>2. CASE Application \/ MarkRequest \/ \E k \in Keys : TimerExpires(k)
    <3>1. CASE Application
      <4>1. ASSUME NEW h \in Handles, RemoveRef(h)
            PROVE  UNCHANGED <<resetting, retrying, resubscribing>>
        BY <4>1 DEF RemoveRef, ioVars
      <4>2. ASSUME NEW h \in Handles, NEW req \in Requests, Subscribe(h, req)
            PROVE  UNCHANGED <<resetting, retrying, resubscribing>>
        BY <4>2 DEF Subscribe
      <4>3. QED
        BY <2>1, <3>1, <4>1, <4>2 DEF Application, SetQuitting, ioVars
    <3>2. CASE MarkRequest
      BY <2>1, <3>2 DEF MarkRequest, MarkRequestSubscribed, MarkRequestUnsubscribed, ioVars
    <3>3. CASE \E k \in Keys : TimerExpires(k)
      BY <2>1, <3>3 DEF TimerExpires
    <3>4. QED
      BY <2>2, <3>1, <3>2, <3>3
  <2>3. CASE RunHandler
    <3>1. CASE ResetSubscriptions
      <4>1. resetting' = None
        BY <3>1, Zenon DEF ResetSubscriptions
      <4>2. QED
        BY <4>1 DEF OneAtATime
    <3>2. ASSUME NEW req \in Requests, Resubscribe(req)
          PROVE  resetting' = None
      BY <3>2 DEF Resubscribe, IoSubscribe, OneAtATime
    <3>3. CASE RunSubscribe \/ RunRetry \/ RunTimer \/ FinishRetry
      <4>1. resetting' = None
        BY <3>3 DEF RunSubscribe, RunRetry, RunTimer, FinishRetry, IoSubscribe,
                    RetrySubscription, OneAtATime, IoFree
      <4>2. QED
        BY <4>1 DEF OneAtATime
    <3>4. QED
      BY <2>3, <3>1, <3>2, <3>3 DEF RunHandler, OneAtATime
  <2>4. ASSUME NEW c \in Conns, Welcome(c) \/ SessionEnds(c) \/ SessionReconnects(c)
        PROVE  OneAtATime'
    BY <2>4 DEF Welcome, SessionEnds, SessionReconnects, IoFree, ioVars, OneAtATime
  <2>5. ASSUME NEW call \in calls,
               HelixAnswers(call) \/ TwitchAnswers(call) \/ TwitchFaults(call)
        PROVE  OneAtATime'
    <3>1. UNCHANGED <<resetting, retrying, resubscribing>>
      BY <2>5 DEF HelixAnswers, CreateSucceeds, CreateIsRetried, CreateFails, DeleteIsAnswered,
                  TwitchAnswers, TwitchFaults, TwitchCreates, TwitchDeletes, TwitchRefuses,
                  TwitchIsLost, ioVars
    <3>2. QED
      BY <2>1, <3>1
  <2>6. CASE UNCHANGED vars
    BY <2>1, <2>6 DEF vars
  <2>7. QED
    BY <2>2, <2>3, <2>4, <2>5, <2>6 DEF Next, SessionFaults
<1>3. QED
  BY <1>1, <1>2, PTL DEF Spec

LEMMA RunHandlerMarksNothing == RunHandler => marking = None /\ marking' = None
<1> SUFFICES ASSUME RunHandler PROVE marking = None /\ marking' = None
  OBVIOUS
<1>1. marking = None
  BY DEF RunHandler, MutexIsFree
<1>2. CASE ResetSubscriptions
  BY <1>1, <1>2, Zenon DEF ResetSubscriptions
<1>3. ASSUME NEW req, NEW isRetry, IoSubscribe(req, isRetry)
      PROVE  marking' = marking
  BY <1>3 DEF IoSubscribe
<1>4. ASSUME NEW req, RetrySubscription(req)
      PROVE  marking' = marking
  BY <1>4, Zenon DEF RetrySubscription
<1>5. marking' = marking
  BY <1>1, <1>2, <1>3, <1>4, Zenon
     DEF RunHandler, FinishRetry, Resubscribe, RunSubscribe, RunRetry, RunTimer
<1>6. QED
  BY <1>1, <1>5

LEMMA RunHandlerConns ==
    ASSUME TypeOK, OneAtATime, RunHandler
    PROVE  \/ UNCHANGED <<conn, calls, resetting>>
           \/ /\ resetting = None /\ resetting' = None
              /\ \E c \in Conns, req \in Requests : Claims(c, req) \/ Opens(c, req)
           \/ ResetSubscriptions
<1>0. posted # <<>> => Head(posted).req \in Requests
  <2>1. posted # <<>> => Head(posted) \in Task
    BY DEF TypeOK
  <2>2. QED
    BY <2>1 DEF Task
<1>1. CASE FinishRetry
  BY <1>1 DEF FinishRetry, RetrySubscription
<1>2. ASSUME NEW req \in Requests, NEW isRetry, IoSubscribe(req, isRetry), resetting = None
      PROVE  \/ UNCHANGED <<conn, calls, resetting>>
             \/ /\ resetting = None /\ resetting' = None
                /\ \E c \in Conns : Claims(c, req) \/ Opens(c, req)
  <2>1. resetting' = resetting
    BY <1>2 DEF IoSubscribe
  <2>2. \/ UNCHANGED <<conn, calls>>
        \/ \E c \in Conns : Claims(c, req) \/ Opens(c, req)
    BY <1>2, IoSubscribeConns
  <2>3. QED
    BY <1>2, <2>1, <2>2
<1>3. ASSUME NEW req \in Requests, Resubscribe(req)
      PROVE  IoSubscribe(req, FALSE) /\ resetting = None
  BY <1>3 DEF Resubscribe, OneAtATime
<1>4. CASE RunSubscribe
  BY <1>0, <1>2, <1>4 DEF RunSubscribe, IoFree
<1>5. CASE RunRetry
  BY <1>5 DEF RunRetry, RetrySubscription
<1>6. CASE RunTimer
  <2>1. CASE IoSubscribe(Head(posted).req, TRUE)
    BY <1>0, <1>2, <1>6, <2>1 DEF RunTimer, IoFree
  <2>2. QED
    BY <1>6, <2>1 DEF RunTimer
<1>7. QED
  BY <1>1, <1>2, <1>3, <1>4, <1>5, <1>6 DEF RunHandler

-----------------------------------------------------------------------------
(* What shows as Subscribed stays recorded.                                *)

(* A Connection that is there stays, with all it has recorded for k.       *)
CoversAsBefore(k) ==
    \A c \in Conns : Exists(c) /\ k \in KeysOf(conn[c].subs)
                     => Exists(c)' /\ k \in KeysOf(conn'[c].subs)

(* The step of CoverIsKept for k.                                          *)
CoverStep(k) ==
    /\ entry'[k].state = "Subscribed"
    /\ IF entry[k].state = "Subscribed" THEN Covered(k) ELSE Exists(marking.on.c)
    => Covered(k)'

LEMMA CoveredAsBefore ==
    ASSUME NEW k \in Keys, entry'[k].state = "Subscribed" =>
              entry[k].state = "Subscribed" /\ CoversAsBefore(k)
    PROVE  CoverStep(k)
<1> SUFFICES ASSUME entry'[k].state = "Subscribed", Covered(k)
             PROVE  Covered(k)'
  BY DEF CoverStep
<1>1. PICK c \in Conns : Exists(c) /\ k \in KeysOf(conn[c].subs)
  BY DEF Covered
<1>2. Exists(c)' /\ k \in KeysOf(conn'[c].subs)
  BY <1>1 DEF CoversAsBefore
<1>3. QED
  BY <1>2 DEF Covered

LEMMA ConnsStay ==
    ASSUME UNCHANGED <<conn, resetting>>, NEW k \in Keys
    PROVE  CoversAsBefore(k)
  BY DEF CoversAsBefore, Exists

LEMMA RunHandlerCovers ==
    ASSUME TypeOK, OneAtATime, RunHandler, NEW k \in Keys
    PROVE  CoverStep(k)
<1>1. entry'[k].state = "Subscribed" => entry[k].state = "Subscribed"
  BY RunHandlerRefs DEF RefsKept, RefersAsBefore
<1>2. CASE UNCHANGED <<conn, calls, resetting>>
  BY <1>1, <1>2, ConnsStay, CoveredAsBefore
<1>3. ASSUME NEW c \in Conns, NEW req \in Requests, Claims(c, req), resetting' = resetting
      PROVE  CoverStep(k)
  <2>1. \A d \in Conns : conn'[d].open = conn[d].open /\ conn'[d].subs = conn[d].subs
    BY <1>3 DEF Claims, TypeOK, Connection
  <2>2. CoversAsBefore(k)
    BY <1>3, <2>1 DEF CoversAsBefore, Exists
  <2>3. QED
    BY <1>1, <2>2, CoveredAsBefore
<1>4. ASSUME NEW c \in Conns, NEW req \in Requests, Opens(c, req), resetting = None,
             resetting' = None
      PROVE  CoverStep(k)
  <2>1. ~Exists(c)
    BY <1>4, NoneAssumption DEF Opens, Unreferenced, Exists
  <2>2. \A d \in Conns \ {c} : conn'[d] = conn[d]
    BY <1>4 DEF Opens, TypeOK
  <2>3. CoversAsBefore(k)
    BY <1>4, <2>1, <2>2 DEF CoversAsBefore, Exists
  <2>4. QED
    BY <1>1, <2>3, CoveredAsBefore
<1>5. CASE ResetSubscriptions
  <2>1. /\ resetting \in Conns /\ resetting # None /\ resetting' = None
        /\ conn' = [conn EXCEPT ![resetting] = Closed]
    BY <1>5, ResetMoves
  <2>2. entry'[k].state = "Subscribed" =>
           entry'[k] = entry[k] /\ k \notin KeysOf(conn[resetting].subs)
    <3>1. entry[k] \in Entry
      BY DEF TypeOK
    <3>2. WasReset(entry[k]).state = "Subscribing"
      BY <3>1 DEF WasReset, Entry
    <3>3. ASSUME k \in KeysOf(conn[resetting].subs), entry'[k].state = "Subscribed"
          PROVE  FALSE
      <4>1. entry[k].state # "Missing"
        BY <1>1, <3>3
      <4>2. entry'[k] = WasReset(entry[k])
        BY <1>5, <3>3, <4>1, Zenon DEF ResetSubscriptions, WasReset
      <4>3. QED
        BY <3>2, <3>3, <4>2
    <3>4. QED
      BY <1>5, <3>2, <3>3, ResetEntries
  <2>3. \A d \in Conns \ {resetting} : conn'[d] = conn[d]
    BY <2>1 DEF TypeOK
  <2>4. k \notin KeysOf(conn[resetting].subs) => CoversAsBefore(k)
    BY <2>1, <2>3 DEF CoversAsBefore, Exists
  <2>5. QED
    BY <2>2, <2>4, <1>1, CoveredAsBefore
<1>6. QED
  BY <1>2, <1>3, <1>4, <1>5, RunHandlerConns

(* The request that is recorded is recorded at once, and nothing else      *)
(* changes.                                                                *)
LEMMA MarkRequestSubscribedCovers ==
    ASSUME TypeOK, MarkRequestSubscribed, NEW k \in Keys
    PROVE  CoverStep(k)
<1>1. /\ marking # None /\ marking.req \in Requests /\ marking.req.key \in Keys
      /\ marking.on.c \in Conns
  BY MarkingType DEF MarkRequestSubscribed
<1>2. PICK c \in Conns : c = marking.on.c
  BY <1>1
<1>3. PICK r : r = Record(conn[c], marking.req)
  OBVIOUS
<1>4. conn[c] \in Connection
  BY DEF TypeOK
<1>5. r.open = conn[c].open /\ conn[c].subs \subseteq r.subs /\ marking.req.key \in KeysOf(r.subs)
  BY <1>3, <1>4 DEF Record, KeysOf, Connection
<1>6. resetting' = resetting
  BY DEF MarkRequestSubscribed, ioVars
<1>7. conn' = IF Exists(c) THEN [conn EXCEPT ![c] = r] ELSE conn
  BY <1>2, <1>3 DEF MarkRequestSubscribed
<1>8. CoversAsBefore(k)
  BY <1>4, <1>5, <1>6, <1>7 DEF CoversAsBefore, Exists, KeysOf, TypeOK
<1>9. CASE k # marking.req.key
  <2>1. entry'[k] = entry[k]
    BY <1>1, <1>9 DEF MarkRequestSubscribed, TypeOK
  <2>2. QED
    BY <1>8, <2>1, CoveredAsBefore
<1>10. CASE k = marking.req.key
  <2>1. Exists(c) => Covered(k)'
    BY <1>5, <1>6, <1>7, <1>10 DEF Covered, Exists, TypeOK
  <2>2. Covered(k) => Covered(k)'
    BY <1>8 DEF Covered, CoversAsBefore
  <2>3. QED
    BY <1>2, <2>1, <2>2 DEF CoverStep
<1>11. QED
  BY <1>9, <1>10

(* A request that is forgotten no longer shows as Subscribed.              *)
LEMMA MarkRequestUnsubscribedCovers ==
    ASSUME TypeOK, MarkRequestUnsubscribed, NEW k \in Keys
    PROVE  CoverStep(k)
<1>1. /\ marking # None /\ marking.req \in Requests /\ marking.req.key \in Keys
      /\ marking.on.c \in Conns /\ entry[marking.req.key] \in Entry
  BY MarkingType DEF MarkRequestUnsubscribed
<1>2. entry'[k].state = "Subscribed" => entry[k].state = "Subscribed"
  BY MarkRequestUnsubscribedRefs DEF RefsKept, RefersAsBefore
<1>3. PICK e \in Entry : e = Touch(entry[marking.req.key])
  BY <1>1, TouchRefersAsBefore
<1>4. entry'[k].state = "Subscribed" => k # marking.req.key
  <2> DEFINE x == [e EXCEPT !.state = "Subscribing", !.connection = None]
  <2>1. \/ entry' = [entry EXCEPT ![marking.req.key] = Missing]
        \/ entry' = [entry EXCEPT ![marking.req.key] = x]
    BY <1>3 DEF MarkRequestUnsubscribed, Release
  <2>2. x.state = "Subscribing"
    BY DEF Entry
  <2> HIDE DEF x
  <2>3. QED
    BY <1>1, <2>1, <2>2, MissingRefersToNothing DEF TypeOK
<1>5. PICK c \in Conns : c = marking.on.c
  BY <1>1
<1>6. conn[c] \in Connection
  BY DEF TypeOK
<1>7. PICK f : f = Forget(conn[c], marking.req)
  OBVIOUS
<1>8. k # marking.req.key =>
         f.open = conn[c].open /\ (k \in KeysOf(conn[c].subs) => k \in KeysOf(f.subs))
  <2>1. ASSUME k # marking.req.key, NEW r \in conn[c].subs, r.key = k
        PROVE  r \in f.subs
    <3>1. r \in {s \in conn[c].subs : s.key # marking.req.key}
      BY <2>1
    <3>2. QED
      BY <1>6, <1>7, <3>1 DEF Forget, Connection
  <2>2. f.open = conn[c].open
    BY <1>6, <1>7 DEF Forget, Connection
  <2>3. QED
    BY <2>1, <2>2 DEF KeysOf
<1>9. conn' = IF Exists(c) THEN [conn EXCEPT ![c] = f] ELSE conn
  BY <1>5, <1>7 DEF MarkRequestUnsubscribed
<1>10. resetting' = resetting
  BY DEF MarkRequestUnsubscribed
<1>11. k # marking.req.key => CoversAsBefore(k)
  BY <1>8, <1>9, <1>10 DEF CoversAsBefore, Exists, TypeOK
<1>12. QED
  BY <1>2, <1>4, <1>11, CoveredAsBefore

(* A session that ends leaves what it recorded to reconnectConnection().   *)
LEMMA SessionCovers ==
    ASSUME TypeOK, NEW c \in Conns, Welcome(c) \/ SessionEnds(c) \/ SessionReconnects(c),
           ~quitting, NEW k \in Keys
    PROVE  CoverStep(k)
<1>1. entry'[k].state = "Subscribed" => entry[k].state = "Subscribed"
  BY SessionRefs DEF RefsKept, RefersAsBefore
<1>2. conn \in [Conns -> Connection]
  BY DEF TypeOK
<1>3. CASE Welcome(c)
  <2>1. /\ resetting' = resetting
        /\ \A d \in Conns : conn'[d].open = conn[d].open /\ conn'[d].subs = conn[d].subs
    BY <1>2, <1>3 DEF Welcome, ioVars, Connection
  <2>2. CoversAsBefore(k)
    BY <2>1 DEF CoversAsBefore, Exists
  <2>3. QED
    BY <1>1, <2>2, CoveredAsBefore
<1>4. CASE SessionEnds(c)
  <2>1. resetting = None
    BY <1>4 DEF SessionEnds, IoFree
  <2>2. CASE conn[c].subs # {}
    <3>1. /\ resetting' = c
          /\ \A d \in Conns \ {c} : conn'[d] = conn[d]
          /\ conn'[c].subs = conn[c].subs
      BY <1>2, <1>4, <2>2 DEF SessionEnds, Connection
    <3>2. CoversAsBefore(k)
      BY <2>1, <3>1, NoneAssumption DEF CoversAsBefore, Exists
    <3>3. QED
      BY <1>1, <3>2, CoveredAsBefore
  <2>3. CASE conn[c].subs = {}
    <3>1. resetting' = resetting /\ \A d \in Conns \ {c} : conn'[d] = conn[d]
      BY <1>2, <1>4, <2>3 DEF SessionEnds
    <3>2. k \notin KeysOf(conn[c].subs)
      BY <2>3 DEF KeysOf
    <3>3. CoversAsBefore(k)
      BY <3>1, <3>2 DEF CoversAsBefore, Exists
    <3>4. QED
      BY <1>1, <3>3, CoveredAsBefore
  <2>4. QED
    BY <2>2, <2>3
<1>5. CASE SessionReconnects(c)
  <2>1. resetting' = resetting /\ \A d \in Conns \ {c} : conn'[d] = conn[d]
    BY <1>2, <1>5 DEF SessionReconnects, ioVars
  <2>2. conn[c].subs # {} => conn'[c].open = conn[c].open /\ conn'[c].subs = conn[c].subs
    BY <1>2, <1>5 DEF SessionReconnects, Connection
  <2>3. k \in KeysOf(conn[c].subs) => conn[c].subs # {}
    BY DEF KeysOf
  <2>4. CoversAsBefore(k)
    BY <2>1, <2>2, <2>3 DEF CoversAsBefore, Exists
  <2>5. QED
    BY <1>1, <2>4, CoveredAsBefore
<1>6. QED
  BY <1>3, <1>4, <1>5

(* A request that becomes Subscribed while its Connection is still there   *)
(* is recorded on it, and stays recorded while it shows as Subscribed:     *)
(* over every interleaving of the two halves in which answers are recorded *)
(* and sessions given up with each other and with everything else.         *)
THEOREM CoverStays == Spec => CoverIsKept
<1>1. TypeOK /\ OneAtATime /\ [Next]_vars => [~quitting => \A k \in Keys : CoverStep(k)]_vars
  <2> SUFFICES ASSUME TypeOK, OneAtATime, Next, ~quitting, NEW k \in Keys
               PROVE  CoverStep(k)
    OBVIOUS
  <2>1. ASSUME RefsKept, UNCHANGED <<conn, resetting>>
        PROVE  CoverStep(k)
    BY <2>1, ConnsStay, CoveredAsBefore DEF RefsKept, RefersAsBefore
  <2>2. CASE Application
    <3>1. ASSUME NEW h \in Handles, RemoveRef(h)
          PROVE  UNCHANGED <<conn, resetting>>
      BY <3>1 DEF RemoveRef, ioVars
    <3>2. ASSUME NEW h \in Handles, NEW req \in Requests, Subscribe(h, req)
          PROVE  UNCHANGED <<conn, resetting>>
      BY <3>2 DEF Subscribe
    <3>3. UNCHANGED <<conn, resetting>>
      BY <2>2, <3>1, <3>2 DEF Application, SetQuitting, ioVars
    <3>4. QED
      BY <2>1, <2>2, <3>3, ApplicationRefs
  <2>3. CASE RunHandler
    BY <2>3, RunHandlerCovers
  <2>4. CASE MarkRequest
    BY <2>4, MarkRequestSubscribedCovers, MarkRequestUnsubscribedCovers DEF MarkRequest
  <2>5. ASSUME NEW l \in Keys, TimerExpires(l)
        PROVE  CoverStep(k)
    <3>1. UNCHANGED <<conn, resetting>>
      BY <2>5 DEF TimerExpires
    <3>2. QED
      BY <2>1, <2>5, <3>1, TimerExpiresRefs
  <2>6. ASSUME NEW c \in Conns, Welcome(c) \/ SessionEnds(c) \/ SessionReconnects(c)
        PROVE  CoverStep(k)
    BY <2>6, SessionCovers
  <2>7. ASSUME NEW call \in calls, HelixAnswers(call)
        PROVE  CoverStep(k)
    <3>1. UNCHANGED <<conn, resetting>>
      BY <2>7 DEF HelixAnswers, CreateSucceeds, CreateIsRetried, CreateFails, DeleteIsAnswered,
                  ioVars
    <3>2. QED
      BY <2>1, <2>7, <3>1, HelixAnswersRefs
  <2>8. ASSUME NEW call \in calls, TwitchAnswers(call) \/ TwitchFaults(call)
        PROVE  CoverStep(k)
    <3>1. UNCHANGED <<conn, resetting>>
      BY <2>8 DEF TwitchAnswers, TwitchFaults, TwitchCreates, TwitchDeletes, TwitchRefuses,
                  TwitchIsLost, ioVars
    <3>2. QED
      BY <2>1, <2>8, <3>1, TwitchRefs
  <2>9. QED
    BY <2>2, <2>3, <2>4, <2>5, <2>6, <2>7, <2>8 DEF Next, SessionFaults
<1>2. Spec => [][~quitting => \A k \in Keys : CoverStep(k)]_vars
  BY <1>1, TypeCorrect, OneHandlerAtATime, PTL DEF Spec
<1>3. QED
  BY <1>2 DEF CoverIsKept, CoverStep

-----------------------------------------------------------------------------
(* One session on its way.                                                 *)

Awaited(c) == conn[c].open /\ ~conn[c].ready

Unmentioned(c) ==
    /\ \A k \in Keys : /\ entry[k].id # c
                       /\ entry[k].connection # None => entry[k].connection.c # c
    /\ \A call \in calls : call.on.c # c
    /\ marking # None => marking.on.c # c

(* Nothing refers to a session before Twitch has greeted it, so that no    *)
(* answer can change what it was opened for.                               *)
AwaitedAreNew ==
    \A c \in Conns : Awaited(c) =>
       conn[c].user = None /\ conn[c].auth # None /\ Unmentioned(c)

AwaitedAsBefore == \A c \in Conns : Awaited(c)' => Awaited(c) /\ conn'[c] = conn[c]

MentionsAsBefore == \A c \in Conns : Awaited(c) /\ Unmentioned(c) => Unmentioned(c)'

(* A call is on a session that an earlier one was on, that is ready, or    *)
(* that an entry has its subscription on; what is recorded is recorded on  *)
(* a session a call or an entry refers to.                                 *)
CallsAsBefore ==
    /\ \A call \in calls' :
          \/ \E old \in calls : old.on.c = call.on.c
          \/ conn[call.on.c].ready
          \/ \E k \in Keys : entry[k].id = call.on.c
    /\ marking' # None =>
          \/ marking' = marking
          \/ \E old \in calls : old.on = marking'.on
          \/ \E k \in Keys : entry[k].connection # None /\ entry[k].connection = marking'.on

LEMMA MentionedAsBefore == RefsKept /\ CallsAsBefore => MentionsAsBefore
<1> SUFFICES ASSUME RefsKept, CallsAsBefore, NEW c \in Conns, Awaited(c), Unmentioned(c)
             PROVE  Unmentioned(c)'
  BY DEF MentionsAsBefore
<1>1. ASSUME NEW k \in Keys
      PROVE  /\ entry'[k].id # c
             /\ entry'[k].connection # None => entry'[k].connection.c # c
  BY NoneAssumption DEF RefsKept, RefersAsBefore, Unmentioned
<1>2. ASSUME NEW call \in calls'
      PROVE  call.on.c # c
  BY DEF CallsAsBefore, Unmentioned, Awaited
<1>3. marking' # None => marking'.on.c # c
  BY DEF CallsAsBefore, Unmentioned
<1>4. QED
  BY <1>1, <1>2, <1>3 DEF Unmentioned

LEMMA NoneIsAdded ==
    AwaitedAreNew /\ OneConnectionOnItsWay /\ AwaitedAsBefore /\ MentionsAsBefore
      => (AwaitedAreNew /\ OneConnectionOnItsWay)'
<1> SUFFICES ASSUME AwaitedAreNew, OneConnectionOnItsWay, AwaitedAsBefore, MentionsAsBefore
             PROVE  (AwaitedAreNew /\ OneConnectionOnItsWay)'
  OBVIOUS
<1>1. AwaitedAreNew'
  <2> SUFFICES ASSUME NEW c \in Conns, Awaited(c)'
               PROVE  conn'[c].user = None /\ conn'[c].auth # None /\ Unmentioned(c)'
    BY DEF AwaitedAreNew
  <2>1. Awaited(c) /\ conn'[c] = conn[c]
    BY DEF AwaitedAsBefore
  <2>2. conn[c].user = None /\ conn[c].auth # None /\ Unmentioned(c)
    BY <2>1 DEF AwaitedAreNew
  <2>3. QED
    BY <2>1, <2>2 DEF MentionsAsBefore
<1>2. OneConnectionOnItsWay'
  <2> SUFFICES ASSUME NEW c \in Conns, NEW d \in Conns, Awaited(c)', Awaited(d)',
                      conn'[c].auth = conn'[d].auth
               PROVE  c = d
    BY DEF OneConnectionOnItsWay, Awaited
  <2>1. Awaited(c) /\ conn'[c] = conn[c] /\ Awaited(d) /\ conn'[d] = conn[d]
    BY DEF AwaitedAsBefore
  <2>2. QED
    BY <2>1 DEF OneConnectionOnItsWay, Awaited
<1>3. QED
  BY <1>1, <1>2

(* A session is opened only when none on its way could serve the request.  *)
LEMMA OpensOne ==
    ASSUME TypeOK, AwaitedAreNew, OneConnectionOnItsWay, RefsKept,
           NEW c \in Conns, NEW req \in Requests, Opens(c, req), marking' = None
    PROVE  (AwaitedAreNew /\ OneConnectionOnItsWay)'
<1>0. req.alt \in BOOLEAN /\ req.alt # None
  BY RequestsAssumption, NoneAssumption
<1>1. /\ conn'[c] = [Closed EXCEPT !.open = TRUE, !.auth = req.alt]
      /\ \A d \in Conns \ {c} : conn'[d] = conn[d]
      /\ calls' = calls /\ Unreferenced(c) /\ NotReady(req) = {}
  BY DEF Opens, TypeOK
<1>2. conn'[c].user = None /\ conn'[c].auth = req.alt
  BY <1>1 DEF Closed
<1>3. CallsAsBefore
  BY <1>1 DEF CallsAsBefore
<1>4. Unmentioned(c)'
  <2>1. ASSUME NEW k \in Keys
        PROVE  /\ entry'[k].id # c
               /\ entry'[k].connection # None => entry'[k].connection.c # c
    BY <1>1, NoneAssumption DEF RefsKept, RefersAsBefore, Unreferenced
  <2>2. \A call \in calls' : call.on.c # c
    BY <1>1 DEF Unreferenced
  <2>3. QED
    BY <2>1, <2>2 DEF Unmentioned
<1>5. ASSUME NEW d \in Conns \ {c}, Awaited(d)'
      PROVE  /\ Awaited(d) /\ conn'[d] = conn[d] /\ Unmentioned(d)'
             /\ conn[d].user = None /\ conn[d].auth # None /\ conn[d].auth # req.alt
  <2>1. conn'[d] = conn[d] /\ Awaited(d)
    BY <1>1, <1>5 DEF Awaited
  <2>2. conn[d].user = None /\ conn[d].auth # None /\ Unmentioned(d)
    BY <2>1 DEF AwaitedAreNew
  <2>3. Unmentioned(d)'
    BY <1>3, <2>1, <2>2, MentionedAsBefore DEF MentionsAsBefore
  <2>4. ~CanHandle(d, req)
    BY <1>1, <2>1 DEF NotReady, Awaited
  <2>5. conn[d].auth # req.alt
    BY <2>2, <2>4 DEF CanHandle
  <2>6. QED
    BY <2>1, <2>2, <2>3, <2>5
<1>6. AwaitedAreNew'
  <2> SUFFICES ASSUME NEW d \in Conns, Awaited(d)'
               PROVE  conn'[d].user = None /\ conn'[d].auth # None /\ Unmentioned(d)'
    BY DEF AwaitedAreNew
  <2>1. CASE d = c
    BY <1>0, <1>2, <1>4, <2>1
  <2>2. CASE d # c
    BY <1>5, <2>2
  <2>3. QED
    BY <2>1, <2>2
<1>7. OneConnectionOnItsWay'
  <2> SUFFICES ASSUME NEW d \in Conns, NEW e \in Conns, Awaited(d)', Awaited(e)',
                      conn'[d].auth = conn'[e].auth
               PROVE  d = e
    BY DEF OneConnectionOnItsWay, Awaited
  <2>1. CASE d = c /\ e # c
    BY <1>2, <1>5, <2>1
  <2>2. CASE d # c /\ e = c
    BY <1>2, <1>5, <2>2
  <2>3. CASE d # c /\ e # c
    <3>1. Awaited(d) /\ conn'[d] = conn[d] /\ Awaited(e) /\ conn'[e] = conn[e]
      BY <1>5, <2>3
    <3>2. QED
      BY <3>1 DEF OneConnectionOnItsWay, Awaited
  <2>4. QED
    BY <2>1, <2>2, <2>3
<1>8. QED
  BY <1>6, <1>7

(* An answer refers to nothing new.                                        *)
LEMMA AnswersReferAsBefore ==
    ASSUME TypeOK, NEW call \in calls, HelixAnswers(call)
    PROVE  RefsKept /\ CallsAsBefore /\ conn' = conn
<1>1. conn' = conn /\ calls' \subseteq calls
  BY DEF HelixAnswers, CreateSucceeds, CreateIsRetried, CreateFails, DeleteIsAnswered
<1>2. call.req.key \in Keys
  BY RequestsAssumption DEF TypeOK, Call
<1>3. \/ marking' = marking
      \/ marking'.on = call.on
      \/ /\ marking'.on = entry[call.req.key].connection
         /\ entry[call.req.key].connection # None
  BY DEF HelixAnswers, CreateSucceeds, CreateIsRetried, CreateFails, DeleteIsAnswered, Live
<1>4. CallsAsBefore
  BY <1>1, <1>2, <1>3 DEF CallsAsBefore
<1>5. QED
  BY <1>1, <1>4, HelixAnswersRefs

(* It is recorded on a session somebody refers to, hence none on its way.  *)
LEMMA MarksAreForOthers ==
    ASSUME TypeOK, AwaitedAreNew, MarkRequest
    PROVE  AwaitedAsBefore /\ MentionsAsBefore
<1>1. /\ marking # None /\ marking.req \in Requests /\ marking.req.key \in Keys
      /\ marking.on \in Weak /\ marking.on.c \in Conns /\ marking' = None
      /\ entry[marking.req.key] \in Entry
  BY MarkingType DEF MarkRequest, MarkRequestSubscribed, MarkRequestUnsubscribed
<1>2. PICK c \in Conns : c = marking.on.c
  BY <1>1
<1>3. ~Awaited(c)
  BY <1>1, <1>2 DEF AwaitedAreNew, Unmentioned
<1>4. conn[c] \in Connection
  BY DEF TypeOK
<1>5. /\ conn'[c].open = conn[c].open /\ conn'[c].ready = conn[c].ready
      /\ \A d \in Conns \ {c} : conn'[d] = conn[d]
  <2>1. PICK r, f : r = Record(conn[c], marking.req) /\ f = Forget(conn[c], marking.req)
    OBVIOUS
  <2>2. /\ r.open = conn[c].open /\ r.ready = conn[c].ready
        /\ f.open = conn[c].open /\ f.ready = conn[c].ready
    BY <1>4, <2>1 DEF Record, Forget, Connection
  <2>3. conn' = conn \/ conn' = [conn EXCEPT ![c] = r] \/ conn' = [conn EXCEPT ![c] = f]
    BY <1>2, <2>1 DEF MarkRequest, MarkRequestSubscribed, MarkRequestUnsubscribed
  <2>4. QED
    BY <2>2, <2>3 DEF TypeOK
<1>6. AwaitedAsBefore
  BY <1>3, <1>5 DEF AwaitedAsBefore, Awaited
<1>7. calls' = calls \/ calls' \subseteq calls
  BY DEF MarkRequest, MarkRequestSubscribed, MarkRequestUnsubscribed
<1>8. CASE MarkRequestSubscribed
  <2>1. ASSUME NEW d \in Conns, Awaited(d), Unmentioned(d)
        PROVE  Unmentioned(d)'
    <3>1. d # c
      BY <1>3, <2>1
    <3>2. ASSUME NEW k \in Keys
          PROVE  /\ entry'[k].id # d
                 /\ entry'[k].connection # None => entry'[k].connection.c # d
      <4>1. CASE k = marking.req.key
        <5>1. entry'[k] = [entry[k] EXCEPT !.connection = marking.on, !.id = c,
                                           !.state = "Subscribed"]
          BY <1>1, <1>2, <1>8, <4>1 DEF MarkRequestSubscribed, TypeOK
        <5>2. entry'[k].id = c /\ entry'[k].connection = marking.on
          BY <1>1, <4>1, <5>1 DEF Entry
        <5>3. QED
          BY <1>2, <3>1, <5>2
      <4>2. CASE k # marking.req.key
        <5>1. entry'[k] = entry[k]
          BY <1>1, <1>8, <4>2 DEF MarkRequestSubscribed, TypeOK
        <5>2. QED
          BY <2>1, <5>1 DEF Unmentioned
      <4>3. QED
        BY <4>1, <4>2
    <3>3. QED
      BY <1>1, <1>7, <2>1, <3>2 DEF Unmentioned
  <2>2. QED
    BY <1>6, <2>1 DEF MentionsAsBefore
<1>9. CASE MarkRequestUnsubscribed
  <2>1. RefsKept /\ CallsAsBefore
    BY <1>1, <1>7, <1>9, MarkRequestUnsubscribedRefs DEF CallsAsBefore
  <2>2. QED
    BY <1>6, <2>1, MentionedAsBefore
<1>10. QED
  BY <1>8, <1>9 DEF MarkRequest

(* The sessions on their way are new, and of different kinds of token.     *)
LEMMA AwaitedStayNew == Spec => [](AwaitedAreNew /\ OneConnectionOnItsWay)
<1> DEFINE Inv == AwaitedAreNew /\ OneConnectionOnItsWay
<1>1. Init => Inv
  BY DEF Init, Closed, AwaitedAreNew, Awaited, OneConnectionOnItsWay
<1>2. TypeOK /\ OneAtATime /\ Inv /\ [Next]_vars => Inv'
  <2> SUFFICES ASSUME TypeOK, OneAtATime, Inv, [Next]_vars PROVE Inv'
    OBVIOUS
  <2>1. ASSUME RefsKept, CallsAsBefore, conn' = conn
        PROVE  Inv'
    BY <2>1, MentionedAsBefore, NoneIsAdded DEF AwaitedAsBefore, Awaited
  <2>2. CASE Application
    <3>1. conn' = conn
      <4>1. ASSUME NEW h \in Handles, RemoveRef(h) PROVE conn' = conn
        BY <4>1 DEF RemoveRef
      <4>2. ASSUME NEW h \in Handles, NEW req \in Requests, Subscribe(h, req)
            PROVE  conn' = conn
        BY <4>2 DEF Subscribe
      <4>3. QED
        BY <2>2, <4>1, <4>2 DEF Application, SetQuitting
    <3>2. CallsAsBefore
      <4>1. ASSUME NEW h \in Handles, RemoveRef(h)
            PROVE  CallsAsBefore
        <5>1. handle[h].key \in Keys
          BY <4>1, RequestsAssumption DEF TypeOK, RemoveRef
        <5>2. PICK e \in Entry : e = [entry[handle[h].key] EXCEPT !.refCount = @ - 1]
                                 /\ e.id = entry[handle[h].key].id
          <6>1. PICK f \in Entry : f = entry[handle[h].key]
            BY <5>1 DEF TypeOK
          <6> DEFINE x == [f EXCEPT !.refCount = @ - 1]
          <6>2. x \in Entry /\ x.id = f.id
            BY DEF Entry
          <6>3. QED
            BY <6>1, <6>2
        <5>3. \/ calls' = calls
              \/ calls' = calls \cup {NewCall("delete", handle[h], [c |-> e.id, gen |-> 0])}
          BY <4>1, <5>2 DEF RemoveRef
        <5>4. NewCall("delete", handle[h], [c |-> e.id, gen |-> 0]).on.c = entry[handle[h].key].id
          BY <5>2 DEF NewCall
        <5>5. marking' = marking
          BY <4>1 DEF RemoveRef
        <5>6. QED
          BY <5>1, <5>3, <5>4, <5>5 DEF CallsAsBefore
      <4>2. ASSUME NEW h \in Handles, NEW req \in Requests, Subscribe(h, req)
            PROVE  CallsAsBefore
        BY <4>2 DEF Subscribe, CallsAsBefore
      <4>3. SetQuitting => CallsAsBefore
        BY DEF SetQuitting, CallsAsBefore
      <4>4. QED
        BY <2>2, <4>1, <4>2, <4>3 DEF Application
    <3>3. QED
      BY <2>1, <2>2, <3>1, <3>2, ApplicationRefs
  <2>3. CASE RunHandler
    <3>1. RefsKept /\ marking' = None
      BY <2>3, RunHandlerRefs, RunHandlerMarksNothing
    <3>2. CASE UNCHANGED <<conn, calls>>
      BY <2>1, <3>1, <3>2 DEF CallsAsBefore
    <3>3. ASSUME NEW c \in Conns, NEW req \in Requests, Claims(c, req)
          PROVE  Inv'
      <4>1. CallsAsBefore
        BY <3>1, <3>3 DEF Claims, CallsAsBefore
      <4>2. AwaitedAsBefore
        BY <3>3 DEF Claims, AwaitedAsBefore, Awaited, TypeOK, Connection
      <4>3. QED
        BY <3>1, <4>1, <4>2, MentionedAsBefore, NoneIsAdded
    <3>4. ASSUME NEW c \in Conns, NEW req \in Requests, Opens(c, req)
          PROVE  Inv'
      BY <3>1, <3>4, OpensOne
    <3>5. CASE ResetSubscriptions
      <4>1. /\ resetting \in Conns /\ conn' = [conn EXCEPT ![resetting] = Closed]
            /\ calls' = calls
        BY <3>5, ResetMoves
      <4>2. AwaitedAsBefore
        BY <4>1 DEF AwaitedAsBefore, Awaited, TypeOK, Closed
      <4>3. CallsAsBefore
        BY <3>1, <4>1 DEF CallsAsBefore
      <4>4. QED
        BY <3>1, <4>2, <4>3, MentionedAsBefore, NoneIsAdded
    <3>6. QED
      BY <2>3, <3>2, <3>3, <3>4, <3>5, RunHandlerConns
  <2>4. CASE \E k \in Keys : TimerExpires(k)
    <3>1. conn' = conn /\ CallsAsBefore
      BY <2>4 DEF TimerExpires, CallsAsBefore
    <3>2. QED
      BY <2>1, <2>4, <3>1, TimerExpiresRefs
  <2>5. ASSUME NEW c \in Conns, Welcome(c) \/ SessionEnds(c) \/ SessionReconnects(c)
        PROVE  Inv'
    <3>1. CallsAsBefore
      BY <2>5 DEF Welcome, SessionEnds, SessionReconnects, CallsAsBefore
    <3>2. ~Awaited(c)' /\ \A d \in Conns \ {c} : conn'[d] = conn[d]
      <4>1. CASE Welcome(c)
        BY <4>1 DEF Welcome, Awaited, TypeOK, Connection
      <4>2. CASE SessionEnds(c)
        BY <4>2 DEF SessionEnds, Awaited, TypeOK, Closed, Connection
      <4>3. CASE SessionReconnects(c)
        <5>1. conn[c].ready
          BY <4>3 DEF SessionReconnects
        <5>2. conn' = [conn EXCEPT ![c] = Closed] \/ conn' = [conn EXCEPT ![c].gen = @ + 1]
          BY <4>3 DEF SessionReconnects
        <5>3. conn \in [Conns -> Connection] /\ ~Closed.open
          BY DEF TypeOK, Closed
        <5>4. CASE conn' = [conn EXCEPT ![c] = Closed]
          BY <5>3, <5>4 DEF Awaited
        <5>5. CASE conn' = [conn EXCEPT ![c].gen = @ + 1]
          BY <5>1, <5>3, <5>5 DEF Awaited, Connection
        <5>6. QED
          BY <5>2, <5>4, <5>5
      <4>4. QED
        BY <2>5, <4>1, <4>2, <4>3
    <3>3. AwaitedAsBefore
      BY <3>2 DEF AwaitedAsBefore, Awaited
    <3>4. QED
      BY <2>5, <3>1, <3>3, SessionRefs, MentionedAsBefore, NoneIsAdded
  <2>6. ASSUME NEW call \in calls, HelixAnswers(call)
        PROVE  Inv'
    BY <2>1, <2>6, AnswersReferAsBefore
  <2>6a. CASE MarkRequest
    BY <2>6a, MarksAreForOthers, NoneIsAdded
  <2>7. ASSUME NEW call \in calls, TwitchAnswers(call) \/ TwitchFaults(call)
        PROVE  Inv'
    <3>1. conn' = conn /\ marking' = marking /\ \E a \in Answers : Answered(call, a)
      BY <2>7 DEF TwitchAnswers, TwitchFaults, TwitchCreates, TwitchDeletes, TwitchRefuses,
                  TwitchIsLost, Answers
    <3>2. CallsAsBefore
      BY <3>1 DEF Answered, CallsAsBefore, TypeOK, Call
    <3>3. QED
      BY <2>1, <2>7, <3>1, <3>2, TwitchRefs
  <2>8. CASE UNCHANGED vars
    <3>1. RefsKept /\ CallsAsBefore /\ conn' = conn
      BY <2>8 DEF vars, RefsKept, RefersAsBefore, CallsAsBefore
    <3>2. QED
      BY <2>1, <3>1
  <2>9. QED
    BY <2>2, <2>3, <2>4, <2>5, <2>6, <2>6a, <2>7, <2>8 DEF Next, SessionFaults
<1>3. QED
  BY <1>1, <1>2, TypeCorrect, OneHandlerAtATime, PTL DEF Spec

(* "There should only ever be 0 or 1" open but not ready connections for a *)
(* request: however requests, retries and lost sessions interleave, no two *)
(* sessions for the same kind of token are on their way at once.           *)
THEOREM OneIsOnItsWay == Spec => []OneConnectionOnItsWay
  BY AwaitedStayNew, PTL

-----------------------------------------------------------------------------
(* A request somebody holds is taken further, as long as sessions do not   *)
(* end.                                                                    *)

SessionsStay == Faults \cap {"close", "reconnect"} = {}

PostedFor(k) == \E i \in DOMAIN posted : posted[i].req.key = k
DeleteIsSent(k) ==
    \/ \E call \in calls : call.op = "delete" /\ call.req.key = k
    \/ marking # None /\ marking.op = "delete" /\ marking.req.key = k

(* What an entry in each of its states can rely on.                        *)
OnItsWay(k) ==
    /\ entry[k].state \in {"Missing", "Unsubscribed"} => entry[k].refCount = 0
    /\ entry[k].state \in {"Subscribing", "Retrying"} => entry[k].refCount > 0 /\ Pursued(k)
    /\ entry[k].state = "Unsubscribing" => DeleteIsSent(k)

AllOnTheirWay ==
    /\ resetting = None
    /\ ~quitting => \A k \in Keys : OnItsWay(k)

(* A create is on a session that is still the same.                        *)
CreatesAreLive == \A call \in calls : call.op = "create" => Live(call.on)

LEMMA OnItsWayIsPursued ==
    ASSUME TypeOK, NEW k \in Keys, OnItsWay(k),
           entry[k].refCount > 0, entry[k].state \notin {"Subscribed", "Failed"}
    PROVE  Pursued(k)
<1>1. entry[k].state \in States
  BY DEF TypeOK, Entry
<1>2. CASE entry[k].state = "Unsubscribing"
  BY <1>2 DEF OnItsWay, DeleteIsSent, Pursued
<1>3. CASE entry[k].state \in {"Missing", "Unsubscribed"}
  BY <1>3 DEF OnItsWay
<1>4. CASE entry[k].state \in {"Subscribing", "Retrying"}
  BY <1>4 DEF OnItsWay
<1>5. QED
  BY <1>1, <1>2, <1>3, <1>4 DEF States

(* Appending keeps what is posted, and adds one.                           *)
LEMMA PostedMore ==
    ASSUME posted \in Seq(Task), NEW t \in Task, posted' = Append(posted, t), NEW k
    PROVE  (PostedFor(k) => PostedFor(k)') /\ (t.req.key = k => PostedFor(k)')
<1>1. /\ \A i \in DOMAIN posted : i \in DOMAIN posted' /\ posted'[i] = posted[i]
      /\ Len(posted) + 1 \in DOMAIN posted' /\ posted'[Len(posted) + 1] = t
  OBVIOUS
<1>2. QED
  BY <1>1 DEF PostedFor

(* Taking the first keeps what is posted for other keys.                   *)
LEMMA PostedLess ==
    ASSUME posted \in Seq(Task), posted # <<>>, posted' = Tail(posted), NEW k,
           Head(posted).req.key # k, PostedFor(k)
    PROVE  PostedFor(k)'
<1>1. PICK i \in DOMAIN posted : posted[i].req.key = k
  BY DEF PostedFor
<1>2. i # 1 /\ i - 1 \in DOMAIN posted' /\ posted'[i - 1] = posted[i]
  BY <1>1
<1>3. QED
  BY <1>1, <1>2 DEF PostedFor

(* An entry that keeps its state and its holders needs what pursued it.    *)
LEMMA StaysOnItsWay ==
    ASSUME NEW k \in Keys, OnItsWay(k),
           entry'[k].state = entry[k].state, entry'[k].refCount = entry[k].refCount,
           Pursued(k) => Pursued(k)', DeleteIsSent(k) => DeleteIsSent(k)'
    PROVE  OnItsWay(k)'
  BY DEF OnItsWay

(* Everything that pursues k stays.                                        *)
LEMMA PursuitStays ==
    ASSUME NEW k \in Keys, resetting = None,
           marking # None /\ marking.req.key = k => marking' = marking,
           entry[k].timer # None => entry'[k].timer # None,
           retrying # None /\ retrying.key = k => retrying' = retrying,
           resubscribing \subseteq resubscribing' \/ k \notin KeysOf(resubscribing),
           PostedFor(k) => PostedFor(k)',
           \A call \in calls : call.req.key = k =>
              \E new \in calls' : new.req.key = k /\ new.op = call.op
    PROVE  /\ Pursued(k) => Pursued(k)'
           /\ DeleteIsSent(k) => DeleteIsSent(k)'
<1>1. KeysOf(resubscribing) \subseteq KeysOf(resubscribing') \/ k \notin KeysOf(resubscribing)
  BY DEF KeysOf
<1>2. ASSUME Pursued(k) PROVE Pursued(k)'
  <2>1. CASE entry[k].timer # None
    BY <2>1 DEF Pursued
  <2>2. CASE retrying # None /\ retrying.key = k
    BY <2>2 DEF Pursued
  <2>3. CASE k \in KeysOf(resubscribing)
    BY <1>1, <2>3 DEF Pursued
  <2>4. CASE PostedFor(k)
    BY <2>4 DEF Pursued, PostedFor
  <2>5. CASE \E call \in calls : call.req.key = k
    BY <2>5 DEF Pursued
  <2>6. CASE marking # None /\ marking.req.key = k
    BY <2>6 DEF Pursued
  <2>7. QED
    BY <1>2, <2>1, <2>2, <2>3, <2>4, <2>5, <2>6 DEF Pursued, PostedFor
<1>3. ASSUME DeleteIsSent(k) PROVE DeleteIsSent(k)'
  BY <1>3 DEF DeleteIsSent
<1>4. QED
  BY <1>2, <1>3

(* A count is never negative.                                              *)
LEMMA EntriesCount ==
    ASSUME RefCountIsHandles, ~quitting, NEW k \in Keys
    PROVE  entry[k].refCount \in Nat
  BY HoldersCount DEF RefCountIsHandles

LEMMA SubscribeOnItsWay ==
    ASSUME TypeOK, RefCountIsHandles, AllOnTheirWay, NEW h \in Handles, NEW req \in Requests, Subscribe(h, req),
           NEW k \in Keys
    PROVE  OnItsWay(k)'
<1>1. OnItsWay(k) /\ ~quitting /\ req.key \in Keys
  BY RequestsAssumption DEF AllOnTheirWay, Subscribe
<1>2. PICK e \in Entry : e = entry[req.key]
  BY <1>1 DEF TypeOK
<1>3. PICK f \in Entry : f = [e EXCEPT !.refCount = @ + 1]
  <2> DEFINE x == [e EXCEPT !.refCount = @ + 1]
  <2>1. x \in Entry
    BY DEF Entry
  <2>2. QED
    BY <2>1
<1>4. f.refCount = e.refCount + 1 /\ f.state = e.state /\ f.timer = e.timer /\ e.refCount \in Int
  BY <1>3 DEF Entry
<1>5. UNCHANGED <<marking, retrying, resubscribing, calls>> /\ resetting = None
  BY DEF Subscribe, AllOnTheirWay
<1>6. [op |-> "subscribe", req |-> req] \in Task /\ posted \in Seq(Task)
  BY DEF Task, TypeOK
<1>7. posted' = posted \/ posted' = Append(posted, [op |-> "subscribe", req |-> req])
  BY DEF Subscribe
<1>8. PostedFor(k) => PostedFor(k)'
  BY <1>6, <1>7, PostedMore DEF PostedFor
<1>9. CASE k # req.key
  <2>1. entry'[k] = entry[k]
    BY <1>9 DEF Subscribe, TypeOK
  <2>2. QED
    BY <1>1, <1>5, <1>8, <2>1, PursuitStays, StaysOnItsWay
<1>10. CASE k = req.key /\ NeedsSubscribing(e)
  <2>1. entry'[k] = [f EXCEPT !.state = "Subscribing"]
    BY <1>1, <1>2, <1>3, <1>10 DEF Subscribe, TypeOK
  <2>2. posted' = Append(posted, [op |-> "subscribe", req |-> req])
    BY <1>2, <1>10 DEF Subscribe
  <2>3. PostedFor(k)'
    BY <1>6, <1>10, <2>2, PostedMore
  <2>4. entry'[k].state = "Subscribing" /\ entry'[k].refCount = e.refCount + 1
    BY <1>4, <2>1 DEF Entry
  <2>5. e.refCount \in Nat
    BY <1>1, <1>2, <1>10, EntriesCount
  <2>6. QED
    BY <2>3, <2>4, <2>5 DEF OnItsWay, Pursued, PostedFor
<1>11. CASE k = req.key /\ ~NeedsSubscribing(e)
  <2>1. entry'[k] = f
    BY <1>1, <1>2, <1>3, <1>11 DEF Subscribe, TypeOK
  <2>2. (Pursued(k) => Pursued(k)') /\ (DeleteIsSent(k) => DeleteIsSent(k)')
    BY <1>2, <1>4, <1>5, <1>8, <1>11, <2>1, PursuitStays
  <2>3. e.state \notin {"Missing", "Unsubscribed"}
    BY <1>11 DEF NeedsSubscribing
  <2>4. QED
    BY <1>1, <1>2, <1>4, <1>11, <2>1, <2>2, <2>3 DEF OnItsWay
<1>12. QED
  BY <1>9, <1>10, <1>11

LEMMA RemoveRefOnItsWay ==
    ASSUME TypeOK, RefCountIsHandles, AllOnTheirWay, NEW h \in Handles, RemoveRef(h), ~quitting,
           NEW k \in Keys
    PROVE  OnItsWay(k)'
<1> DEFINE req == handle[h]
<1>1. OnItsWay(k) /\ req \in Requests /\ req # None /\ req.key \in Keys
  BY RequestsAssumption, NoneAssumption DEF AllOnTheirWay, TypeOK, RemoveRef
<1>2. PICK e \in Entry : e = entry[req.key]
  BY <1>1 DEF TypeOK
<1>3. PICK f \in Entry : f = [e EXCEPT !.refCount = @ - 1]
  <2> DEFINE x == [e EXCEPT !.refCount = @ - 1]
  <2>1. x \in Entry
    BY DEF Entry
  <2>2. QED
    BY <2>1
<1>4. f.refCount = e.refCount - 1 /\ f.state = e.state /\ f.timer = e.timer /\ e.refCount \in Int
  BY <1>3 DEF Entry
<1>5. /\ UNCHANGED <<marking, posted, retrying, resubscribing>> /\ calls \subseteq calls'
      /\ resetting = None
  BY DEF RemoveRef, ioVars, AllOnTheirWay
<1>6. PostedFor(k) => PostedFor(k)'
  BY <1>5 DEF PostedFor
<1>7. CASE k # req.key
  <2>1. entry'[k] = entry[k]
    BY <1>1, <1>7 DEF RemoveRef, TypeOK
  <2>2. QED
    BY <1>1, <1>5, <1>6, <2>1, PursuitStays, StaysOnItsWay
<1>8. CASE k = req.key /\ f.refCount > 0
  <2>1. entry' = [entry EXCEPT ![req.key] = f]
    <3>1. f = [entry[handle[h].key] EXCEPT !.refCount = @ - 1]
      BY <1>2, <1>3
    <3>2. ~(f.refCount <= 0)
      BY <1>8 DEF Entry
    <3>3. QED
      BY <3>1, <3>2 DEF RemoveRef
  <2>1a. entry'[k] = f
    BY <1>1, <1>8, <2>1 DEF TypeOK
  <2>2. (Pursued(k) => Pursued(k)') /\ (DeleteIsSent(k) => DeleteIsSent(k)')
    BY <1>2, <1>4, <1>5, <1>6, <1>8, <2>1a, PursuitStays
  <2>3. e.state \notin {"Missing", "Unsubscribed"}
    BY <1>1, <1>2, <1>4, <1>8 DEF OnItsWay
  <2>4. QED
    BY <1>1, <1>2, <1>4, <1>8, <2>1a, <2>2, <2>3 DEF OnItsWay
<1>9. CASE k = req.key /\ ~(f.refCount > 0) /\ f.id = None
  <2>1. entry'[k] = Missing
    BY <1>1, <1>2, <1>3, <1>9 DEF RemoveRef, TypeOK
  <2>2. QED
    BY <2>1, MissingRefersToNothing DEF OnItsWay
<1>10. CASE k = req.key /\ ~(f.refCount > 0) /\ f.id # None
  <2>1. /\ entry'[k] = [f EXCEPT !.state = "Unsubscribing", !.timer = None, !.id = None]
        /\ calls' = calls \cup {NewCall("delete", req, [c |-> f.id, gen |-> 0])}
    BY <1>1, <1>2, <1>3, <1>10 DEF RemoveRef, TypeOK
  <2>2. entry'[k].state = "Unsubscribing"
    BY <2>1 DEF Entry
  <2>3. DeleteIsSent(k)'
    <3>1. PICK new : new = NewCall("delete", req, [c |-> f.id, gen |-> 0])
      OBVIOUS
    <3>2. new.op = "delete" /\ new.req = req
      BY <3>1 DEF NewCall
    <3>3. new \in calls'
      BY <2>1, <3>1
    <3>4. QED
      BY <1>10, <3>2, <3>3 DEF DeleteIsSent
  <2>4. QED
    BY <2>2, <2>3 DEF OnItsWay
<1>11. QED
  BY <1>7, <1>8, <1>9, <1>10

(* The end of markRequestUnsubscribed(): a request somebody holds is       *)
(* subscribed again.                                                       *)
LEMMA ReleaseOnItsWay ==
    ASSUME TypeOK, RefCountIsHandles, ~quitting, NEW req \in Requests, Release(req)
    PROVE  OnItsWay(req.key)'
<1>1. req.key \in Keys /\ posted \in Seq(Task)
  BY RequestsAssumption DEF TypeOK
<1>2. PICK e \in Entry : e = entry[req.key]
  BY <1>1 DEF TypeOK
<1>3. PICK d \in Entry : d = Touch(e) /\ d.refCount = e.refCount
  BY TouchRefersAsBefore
<1>4. CASE d.refCount = 0
  <2>1. entry'[req.key] = Missing
    BY <1>1, <1>2, <1>3, <1>4 DEF Release, TypeOK
  <2>2. QED
    BY <2>1, MissingRefersToNothing DEF OnItsWay
<1>5. CASE d.refCount # 0
  <2>1. /\ entry'[req.key] = [d EXCEPT !.state = "Subscribing", !.connection = None]
        /\ posted' = Append(posted, [op |-> "subscribe", req |-> req])
    BY <1>1, <1>2, <1>3, <1>5 DEF Release, TypeOK
  <2>2. [op |-> "subscribe", req |-> req] \in Task
    BY DEF Task
  <2>3. PostedFor(req.key)'
    BY <1>1, <2>1, <2>2, PostedMore
  <2>4. entry'[req.key].state = "Subscribing" /\ entry'[req.key].refCount = e.refCount
    BY <1>3, <2>1 DEF Entry
  <2>5. e.refCount > 0
    BY <1>1, <1>2, <1>3, <1>5, EntriesCount
  <2>6. QED
    BY <2>3, <2>4, <2>5 DEF OnItsWay, Pursued, PostedFor
<1>6. QED
  BY <1>4, <1>5

LEMMA ReleasePosts ==
    ASSUME TypeOK, NEW req \in Requests, Release(req), NEW k \in Keys, k # req.key
    PROVE  entry'[k] = entry[k] /\ (PostedFor(k) => PostedFor(k)')
<1>1. [op |-> "subscribe", req |-> req] \in Task /\ posted \in Seq(Task) /\ req.key \in Keys
  BY RequestsAssumption DEF Task, TypeOK
<1>2. entry'[k] = entry[k]
  BY <1>1 DEF Release, TypeOK
<1>3. posted' = posted \/ posted' = Append(posted, [op |-> "subscribe", req |-> req])
  BY DEF Release
<1>4. CASE posted' = posted
  BY <1>2, <1>4 DEF PostedFor
<1>5. CASE posted' = Append(posted, [op |-> "subscribe", req |-> req])
  BY <1>1, <1>2, <1>5, PostedMore
<1>6. QED
  BY <1>3, <1>4, <1>5

LEMMA HelixAnswersOnItsWay ==
    ASSUME TypeOK, RefCountIsHandles, AllOnTheirWay, CreatesAreLive, ~quitting,
           NEW call \in calls, HelixAnswers(call), NEW k \in Keys
    PROVE  OnItsWay(k)'
<1>1. /\ OnItsWay(k) /\ call.req \in Requests /\ call.req.key \in Keys /\ posted \in Seq(Task)
      /\ resetting = None /\ marking = None
  BY RequestsAssumption DEF AllOnTheirWay, TypeOK, Call, HelixAnswers, MutexIsFree
<1>2. PICK e \in Entry : e = entry[call.req.key]
  BY <1>1 DEF TypeOK
<1>3. calls' = calls \ {call} /\ UNCHANGED <<retrying, resubscribing>>
  BY DEF HelixAnswers, CreateSucceeds, CreateIsRetried, CreateFails, DeleteIsAnswered, ioVars
<1>4. CASE k # call.req.key
  <2>1. entry'[k] = entry[k] /\ (PostedFor(k) => PostedFor(k)')
    <3>1. CASE Release(call.req)
      BY <1>1, <1>4, <3>1, ReleasePosts
    <3>2. CASE CreateSucceeds(call)
      BY <3>2 DEF CreateSucceeds, ioVars, PostedFor
    <3>3. CASE CreateFails(call)
      BY <1>1, <1>4, <3>3 DEF CreateFails, ioVars, PostedFor, TypeOK
    <3>4. CASE CreateIsRetried(call)
      <4>1. [op |-> "retry", req |-> call.req] \in Task
        BY <1>1 DEF Task
      <4>2. QED
        BY <1>1, <3>4, <4>1, PostedMore DEF CreateIsRetried
    <3>5. QED
      BY <3>1, <3>2, <3>3, <3>4 DEF HelixAnswers, DeleteIsAnswered, PostedFor
  <2>2. QED
    BY <1>1, <1>3, <1>4, <2>1, PursuitStays, StaysOnItsWay
<1>5. CASE CreateSucceeds(call) /\ k = call.req.key
  <2>1. DeleteIsSent(k) => DeleteIsSent(k)'
    BY <1>1, <1>3, <1>5 DEF CreateSucceeds, DeleteIsSent
  <2>2. entry' = entry
    BY <1>5 DEF CreateSucceeds
  <2>3. CASE e.state \in {"Subscribing", "Retrying"}
    <3>1. Live(call.on)
      BY <1>5 DEF CreateSucceeds, CreatesAreLive
    <3>2. marking' = [op |-> "create", req |-> call.req, on |-> call.on]
      BY <1>2, <1>5, <2>3, <3>1 DEF CreateSucceeds
    <3>3. marking' \in Marking
      BY <1>1, <3>2 DEF Marking, TypeOK, Call
    <3>4. marking' # None /\ marking'.req.key = k
      BY <1>5, <3>2, <3>3, MarkingIsSomething
    <3>5. Pursued(k)'
      BY <3>4 DEF Pursued
    <3>6. QED
      BY <1>1, <2>1, <2>2, <3>5 DEF OnItsWay
  <2>4. CASE e.state \notin {"Subscribing", "Retrying"}
    BY <1>1, <1>2, <1>5, <2>1, <2>2, <2>4 DEF OnItsWay
  <2>5. QED
    BY <2>3, <2>4
<1>6. CASE CreateIsRetried(call) /\ k = call.req.key
  <2>1. [op |-> "retry", req |-> call.req] \in Task
    BY <1>1 DEF Task
  <2>2. PostedFor(k)' /\ entry' = entry
    BY <1>1, <1>6, <2>1, PostedMore DEF CreateIsRetried
  <2>3. DeleteIsSent(k) => DeleteIsSent(k)'
    BY <1>1, <1>3, <1>6 DEF CreateIsRetried, DeleteIsSent
  <2>4. QED
    BY <1>1, <2>2, <2>3 DEF OnItsWay, Pursued, PostedFor
<1>7. CASE CreateFails(call) /\ k = call.req.key
  <2>1. entry'[k] = [e EXCEPT !.state = "Failed"]
    BY <1>1, <1>2, <1>7 DEF CreateFails, TypeOK
  <2>2. entry'[k].state = "Failed"
    BY <2>1 DEF Entry
  <2>3. QED
    BY <2>2 DEF OnItsWay
<1>8. CASE DeleteIsAnswered(call) /\ k = call.req.key
  <2>1. CASE Release(call.req)
    BY <1>1, <1>8, <2>1, ReleaseOnItsWay
  <2>2. ASSUME NEW w, w = entry[k].connection, Live(w), entry' = entry,
               marking' = [op |-> "delete", req |-> call.req, on |-> w]
        PROVE  OnItsWay(k)'
    <3>1. w \in Weak
      BY <2>2 DEF Live, TypeOK, Entry
    <3>2. marking' \in Marking
      BY <1>1, <2>2, <3>1 DEF Marking
    <3>3. marking' # None /\ marking'.req.key = k /\ marking'.op = "delete"
      BY <1>8, <2>2, <3>2, MarkingIsSomething
    <3>4. Pursued(k)' /\ DeleteIsSent(k)'
      BY <3>3 DEF Pursued, DeleteIsSent
    <3>5. QED
      BY <1>1, <2>2, <3>4 DEF OnItsWay
  <2>3. QED
    BY <1>8, <2>1, <2>2 DEF DeleteIsAnswered
<1>9. QED
  BY <1>4, <1>5, <1>6, <1>7, <1>8 DEF HelixAnswers

(* What is recorded is made, or is released.                               *)
LEMMA MarkRequestOnItsWay ==
    ASSUME TypeOK, RefCountIsHandles, AllOnTheirWay, ~quitting, MarkRequest, NEW k \in Keys
    PROVE  OnItsWay(k)'
<1>1. /\ OnItsWay(k) /\ resetting = None /\ marking # None /\ marking.req \in Requests
      /\ marking.req.key \in Keys /\ entry[marking.req.key] \in Entry
  BY MarkingType DEF AllOnTheirWay, MarkRequest, MarkRequestSubscribed, MarkRequestUnsubscribed
<1>2. UNCHANGED <<calls, retrying, resubscribing>>
  BY DEF MarkRequest, MarkRequestSubscribed, MarkRequestUnsubscribed, ioVars
<1>3. CASE k # marking.req.key
  <2>1. entry'[k] = entry[k] /\ (PostedFor(k) => PostedFor(k)')
    <3>1. CASE MarkRequestSubscribed
      BY <1>1, <1>3, <3>1 DEF MarkRequestSubscribed, ioVars, PostedFor, TypeOK
    <3>2. CASE MarkRequestUnsubscribed
      BY <1>1, <1>3, <3>2, ReleasePosts DEF MarkRequestUnsubscribed
    <3>3. QED
      BY <3>1, <3>2 DEF MarkRequest
  <2>2. QED
    BY <1>1, <1>2, <1>3, <2>1, PursuitStays, StaysOnItsWay
<1>4. CASE k = marking.req.key /\ MarkRequestSubscribed
  <2>1. PICK w, c : w = marking.on /\ c = w.c
    OBVIOUS
  <2>2. entry'[k] = [entry[k] EXCEPT !.connection = w, !.id = c, !.state = "Subscribed"]
    BY <1>1, <1>4, <2>1 DEF MarkRequestSubscribed, TypeOK
  <2>3. entry'[k].state = "Subscribed"
    BY <1>1, <1>4, <2>2 DEF Entry
  <2>4. QED
    BY <2>3 DEF OnItsWay
<1>5. CASE k = marking.req.key /\ MarkRequestUnsubscribed
  BY <1>1, <1>5, ReleaseOnItsWay DEF MarkRequestUnsubscribed
<1>6. QED
  BY <1>3, <1>4, <1>5 DEF MarkRequest

(* The request subscribe() is called for gets a call, or what is left of   *)
(* the handler takes it further; it leaves all others alone.               *)
LEMMA IoSubscribeOnItsWay ==
    ASSUME TypeOK, AllOnTheirWay, ~quitting, NEW req \in Requests, NEW isRetry \in BOOLEAN,
           IoSubscribe(req, isRetry), NEW k \in Keys,
           k # req.key => /\ retrying # None /\ retrying.key = k => retrying' = retrying
                          /\ PostedFor(k) => PostedFor(k)'
                          /\ k \in KeysOf(resubscribing) => k \in KeysOf(resubscribing')
    PROVE  OnItsWay(k)'
<1>1. OnItsWay(k) /\ req.key \in Keys /\ req # None
  BY RequestsAssumption, NoneAssumption DEF AllOnTheirWay
<1>2. PICK e \in Entry : e = entry[req.key]
  BY <1>1 DEF TypeOK
<1>3. PICK t \in Entry : t = Touch(e) /\ t.refCount = e.refCount
                         /\ t.state = IF e.state = "Missing" THEN "Unsubscribed" ELSE e.state
  BY TouchRefersAsBefore
<1>4. PICK f \in Entry : f.state = t.state /\ f.refCount = t.refCount
                         /\ entry' = [entry EXCEPT ![req.key] = f]
  <2> DEFINE x == [t EXCEPT !.timer = IF isRetry THEN None ELSE @]
  <2>1. x \in Entry /\ x.state = t.state /\ x.refCount = t.refCount
    BY DEF Entry
  <2>2. entry' = [entry EXCEPT ![req.key] = x]
    BY <1>2, <1>3 DEF IoSubscribe
  <2>3. QED
    BY <2>1, <2>2
<1>5. /\ calls \subseteq calls'
      /\ retrying' = req \/ \E new \in calls' : new.req = req
  <2>1. CASE SendCreate(req)
    <3>1. PICK c, w : calls' = calls \cup {NewCall("create", req, w)} /\ c = w
      BY <2>1 DEF SendCreate
    <3>2. NewCall("create", req, w).req = req
      BY DEF NewCall
    <3>3. QED
      BY <3>1, <3>2
  <2>2. CASE WaitForConnection(req)
    BY <2>2 DEF WaitForConnection
  <2>3. QED
    BY <2>1, <2>2 DEF IoSubscribe
<1>5a. marking' = marking /\ resetting = None
  BY DEF IoSubscribe, AllOnTheirWay
<1>6. CASE k # req.key
  <2>1. entry'[k] = entry[k]
    BY <1>1, <1>4, <1>6 DEF TypeOK
  <2>2. ASSUME Pursued(k) PROVE Pursued(k)'
    <3>1. CASE entry[k].timer # None
      BY <2>1, <3>1 DEF Pursued
    <3>2. CASE retrying # None /\ retrying.key = k
      BY <1>6, <3>2 DEF Pursued
    <3>3. CASE k \in KeysOf(resubscribing)
      BY <1>6, <3>3 DEF Pursued
    <3>4. CASE PostedFor(k)
      BY <1>6, <3>4 DEF Pursued, PostedFor
    <3>5. CASE \E call \in calls : call.req.key = k
      BY <1>5, <3>5 DEF Pursued
    <3>6. CASE marking # None /\ marking.req.key = k
      BY <1>5a, <3>6 DEF Pursued
    <3>7. QED
      BY <1>5a, <2>2, <3>1, <3>2, <3>3, <3>4, <3>5, <3>6 DEF Pursued, PostedFor
  <2>3. DeleteIsSent(k) => DeleteIsSent(k)'
    BY <1>5, <1>5a DEF DeleteIsSent
  <2>4. QED
    BY <1>1, <2>1, <2>2, <2>3, StaysOnItsWay
<1>7. CASE k = req.key
  <2>1. entry'[k] = f
    BY <1>1, <1>4, <1>7 DEF TypeOK
  <2>2. Pursued(k)'
    BY <1>1, <1>5, <1>7 DEF Pursued
  <2>3. DeleteIsSent(k) => DeleteIsSent(k)'
    BY <1>5, <1>5a DEF DeleteIsSent
  <2>4. QED
    BY <1>1, <1>2, <1>3, <1>4, <1>7, <2>1, <2>2, <2>3 DEF OnItsWay
<1>8. QED
  BY <1>6, <1>7

(* A request somebody holds gets a timer; an entry nobody holds is erased. *)
LEMMA RetryOnItsWay ==
    ASSUME TypeOK, RefCountIsHandles, AllOnTheirWay, ~quitting, NEW req \in Requests,
           RetrySubscription(req), NEW k \in Keys, UNCHANGED resubscribing,
           k # req.key => /\ retrying # None /\ retrying.key = k => retrying' = retrying
                          /\ PostedFor(k) => PostedFor(k)'
    PROVE  OnItsWay(k)'
<1>1. OnItsWay(k) /\ req.key \in Keys
  BY RequestsAssumption DEF AllOnTheirWay
<1>2. PICK e \in Entry : e = entry[req.key]
  BY <1>1 DEF TypeOK
<1>3. PICK t \in Entry : t = Touch(e) /\ t.refCount = e.refCount
  BY TouchRefersAsBefore
<1>4. calls' = calls /\ marking' = marking /\ resetting = None
  BY DEF RetrySubscription, AllOnTheirWay
<1>5. CASE k # req.key
  <2>1. entry'[k] = entry[k]
    BY <1>1, <1>5 DEF RetrySubscription, TypeOK
  <2>2. QED
    BY <1>1, <1>4, <1>5, <2>1, PursuitStays, StaysOnItsWay
<1>6. CASE k = req.key /\ t.refCount = 0
  <2>1. entry'[k] = Missing
    BY <1>1, <1>2, <1>3, <1>6 DEF RetrySubscription, TypeOK
  <2>2. QED
    BY <2>1, MissingRefersToNothing DEF OnItsWay
<1>7. CASE k = req.key /\ t.refCount # 0
  <2>1. PICK timer : timer = [req |-> req, fired |-> FALSE]
    OBVIOUS
  <2>2. timer # None
    <3>1. timer \in [req : Requests, fired : BOOLEAN]
      BY <2>1
    <3>2. QED
      BY <3>1, NoneAssumption
  <2>3. entry'[k] = [t EXCEPT !.state = "Retrying", !.timer = timer]
    BY <1>1, <1>2, <1>3, <1>7, <2>1 DEF RetrySubscription, TypeOK
  <2>4. entry'[k].state = "Retrying" /\ entry'[k].timer = timer /\ entry'[k].refCount = t.refCount
    BY <2>3 DEF Entry
  <2>5. t.refCount > 0
    BY <1>1, <1>2, <1>3, <1>7, EntriesCount
  <2>6. QED
    BY <2>2, <2>4, <2>5 DEF OnItsWay, Pursued
<1>8. QED
  BY <1>5, <1>6, <1>7

LEMMA RunHandlerOnItsWay ==
    ASSUME TypeOK, RefCountIsHandles, AllOnTheirWay, ~quitting, RunHandler, NEW k \in Keys
    PROVE  OnItsWay(k)'
<1>1. posted \in Seq(Task) /\ (posted # <<>> => Head(posted).req \in Requests)
  <2>1. posted \in Seq(Task) /\ (posted # <<>> => Head(posted) \in Task)
    BY DEF TypeOK
  <2>2. QED
    BY <2>1 DEF Task
<1>2. IoFree => retrying = None /\ resubscribing = {}
  BY DEF IoFree
<1>3. posted # <<>> /\ posted' = Tail(posted) /\ k # Head(posted).req.key
        => (PostedFor(k) => PostedFor(k)')
  BY <1>1, PostedLess
<1>4. CASE FinishRetry
  <2>1. retrying \in Requests
    BY <1>4 DEF FinishRetry, TypeOK
  <2>2. PostedFor(k) => PostedFor(k)'
    BY <1>4 DEF FinishRetry, PostedFor
  <2>3. QED
    BY <1>4, <2>1, <2>2, RetryOnItsWay DEF FinishRetry
<1>5. CASE RunSubscribe
  <2>1. IoSubscribe(Head(posted).req, FALSE) /\ posted # <<>> /\ posted' = Tail(posted)
        /\ retrying = None /\ UNCHANGED resubscribing
    BY <1>5, <1>2 DEF RunSubscribe
  <2>2. QED
    BY <1>1, <1>3, <2>1, IoSubscribeOnItsWay
<1>6. CASE RunRetry
  <2>1. RetrySubscription(Head(posted).req) /\ posted # <<>> /\ posted' = Tail(posted)
        /\ UNCHANGED <<retrying, resubscribing>>
    BY <1>6 DEF RunRetry
  <2>2. QED
    BY <1>1, <1>3, <2>1, RetryOnItsWay
<1>7. CASE RunTimer
  <2>1. IoSubscribe(Head(posted).req, TRUE) /\ posted # <<>> /\ posted' = Tail(posted)
        /\ retrying = None /\ UNCHANGED resubscribing
    BY <1>7, <1>2 DEF RunTimer
  <2>2. QED
    BY <1>1, <1>3, <2>1, IoSubscribeOnItsWay
<1>8. ASSUME NEW req \in Requests, Resubscribe(req)
      PROVE  OnItsWay(k)'
  <2>1. retrying = None /\ IoSubscribe(req, FALSE) /\ resubscribing' = resubscribing \ {req}
        /\ UNCHANGED posted
    BY <1>8 DEF Resubscribe
  <2>2. k # req.key /\ k \in KeysOf(resubscribing) => k \in KeysOf(resubscribing')
    BY <2>1 DEF KeysOf
  <2>3. PostedFor(k) => PostedFor(k)'
    BY <2>1 DEF PostedFor
  <2>4. QED
    BY <2>1, <2>2, <2>3, IoSubscribeOnItsWay
<1>9. ~ResetSubscriptions
  BY Zenon DEF ResetSubscriptions, AllOnTheirWay
<1>10. QED
  BY <1>4, <1>5, <1>6, <1>7, <1>8, <1>9 DEF RunHandler

LEMMA TimerExpiresOnItsWay ==
    ASSUME TypeOK, AllOnTheirWay, ~quitting, NEW l \in Keys, TimerExpires(l), NEW k \in Keys
    PROVE  OnItsWay(k)'
<1>1. OnItsWay(k) /\ entry[l] \in Entry
  BY DEF AllOnTheirWay, TypeOK
<1>2. PICK e \in Entry : e = entry[l]
  BY <1>1
<1>3. PICK t : t = [e.timer EXCEPT !.fired = TRUE]
  OBVIOUS
<1>4. e.timer \in [req : Requests, fired : BOOLEAN]
  BY <1>2 DEF TimerExpires, Entry
<1>5. t \in [req : Requests, fired : BOOLEAN] /\ t # None
  BY <1>3, <1>4, NoneAssumption
<1>6. entry' = [entry EXCEPT ![l] = [e EXCEPT !.timer = t]]
  BY <1>2, <1>3 DEF TimerExpires
<1>7. /\ entry'[k].state = entry[k].state /\ entry'[k].refCount = entry[k].refCount
      /\ entry[k].timer # None => entry'[k].timer # None
  <2>1. CASE k = l
    <3>1. entry'[k] = [e EXCEPT !.timer = t]
      BY <1>6, <2>1 DEF TypeOK
    <3>2. QED
      BY <1>2, <1>5, <2>1, <3>1 DEF Entry
  <2>2. CASE k # l
    BY <1>6, <2>2 DEF TypeOK
  <2>3. QED
    BY <2>1, <2>2
<1>8. PostedFor(k) => PostedFor(k)'
  <2>1. [op |-> "timer", req |-> e.timer.req] \in Task
    BY <1>4 DEF Task
  <2>2. posted \in Seq(Task) /\ posted' = Append(posted, [op |-> "timer", req |-> e.timer.req])
    BY <1>2 DEF TimerExpires, TypeOK
  <2>3. QED
    BY <2>1, <2>2, PostedMore
<1>9. UNCHANGED <<marking, retrying, resubscribing, calls>> /\ resetting = None
  BY DEF TimerExpires, AllOnTheirWay
<1>10. QED
  BY <1>1, <1>7, <1>8, <1>9, PursuitStays, StaysOnItsWay

LEMMA TwitchOnItsWay ==
    ASSUME TypeOK, AllOnTheirWay, ~quitting, NEW call \in calls,
           TwitchAnswers(call) \/ TwitchFaults(call), NEW k \in Keys
    PROVE  OnItsWay(k)'
<1>1. OnItsWay(k) /\ call \in Call
  BY DEF AllOnTheirWay, TypeOK
<1>2. UNCHANGED <<entry, marking, posted, retrying, resubscribing>> /\ resetting = None
  BY DEF AllOnTheirWay, TwitchAnswers, TwitchFaults, TwitchCreates, TwitchDeletes, TwitchRefuses, TwitchIsLost,
         ioVars
<1>3. PICK a \in Answers : Answered(call, a)
  BY DEF TwitchAnswers, TwitchFaults, TwitchCreates, TwitchDeletes, TwitchRefuses, TwitchIsLost,
         Answers
<1>4. PICK new \in calls' : new.req = call.req /\ new.op = call.op
  <2> DEFINE x == [call EXCEPT !.answer = a]
  <2>1. x \in calls'
    BY <1>3 DEF Answered
  <2>2. x.req = call.req /\ x.op = call.op
    BY <1>1 DEF Call
  <2>3. QED
    BY <2>1, <2>2
<1>5. \A old \in calls : old.req.key = k => \E n \in calls' : n.req.key = k /\ n.op = old.op
  BY <1>3, <1>4 DEF Answered
<1>6. PostedFor(k) => PostedFor(k)'
  BY <1>2 DEF PostedFor
<1>7. QED
  BY <1>1, <1>2, <1>5, <1>6, PursuitStays, StaysOnItsWay

-----------------------------------------------------------------------------
(* The sessions creates are on stay while no session ends.                 *)

SessionsHold ==
    /\ CreatesAreLive
    /\ \A c \in Conns : conn[c].ready => conn[c].open
    /\ resetting = None

(* No session closes, and none moves.                                      *)
SessionsAsBefore ==
    \A c \in Conns : conn[c].open => conn'[c].open /\ conn'[c].gen = conn[c].gen

CreatesAsBefore ==
    \A call \in calls' : call.op = "create" =>
       \/ \E old \in calls : old.op = "create" /\ old.on = call.on
       \/ conn[call.on.c].ready /\ call.on # None /\ call.on.gen = conn[call.on.c].gen

LEMMA CreatesStayLive ==
    TypeOK /\ TypeOK' /\ SessionsHold /\ SessionsAsBefore /\ CreatesAsBefore => CreatesAreLive'
<1> SUFFICES ASSUME TypeOK, TypeOK', SessionsHold, SessionsAsBefore, CreatesAsBefore,
                    NEW call \in calls', call.op = "create"
             PROVE  Live(call.on)'
  BY DEF CreatesAreLive
<1>1. call.on \in Weak
  BY DEF TypeOK, Call
<1>2. call.on.c \in Conns
  BY <1>1 DEF Weak
<1>3. call.on # None /\ conn[call.on.c].open /\ conn[call.on.c].gen = call.on.gen
  BY <1>2 DEF CreatesAsBefore, SessionsHold, CreatesAreLive, Live
<1>4. QED
  BY <1>2, <1>3 DEF Live, SessionsAsBefore

LEMMA QuittingStays == [Next]_vars /\ quitting => quitting'
<1> SUFFICES ASSUME [Next]_vars, quitting PROVE quitting'
  OBVIOUS
<1>1. CASE Application
  BY <1>1 DEF Application, Subscribe, RemoveRef, SetQuitting
<1>2. CASE RunHandler
  <2>1. ResetSubscriptions => quitting'
    BY Zenon DEF ResetSubscriptions
  <2>2. QED
    BY <1>2, <2>1 DEF RunHandler, FinishRetry, RetrySubscription, Resubscribe, IoSubscribe,
                      RunSubscribe, RunRetry, RunTimer
<1>2a. CASE MarkRequest
  BY <1>2a DEF MarkRequest, MarkRequestSubscribed, MarkRequestUnsubscribed
<1>3. ASSUME NEW c \in Conns, Welcome(c) \/ SessionEnds(c) \/ SessionReconnects(c)
      PROVE  quitting'
  BY <1>3 DEF Welcome, SessionEnds, SessionReconnects
<1>4. ASSUME NEW call \in calls, HelixAnswers(call)
      PROVE  quitting'
  BY <1>4 DEF HelixAnswers, CreateSucceeds, CreateIsRetried, CreateFails, DeleteIsAnswered
<1>5. ASSUME NEW call \in calls, TwitchAnswers(call) \/ TwitchFaults(call)
      PROVE  quitting'
  BY <1>5 DEF TwitchAnswers, TwitchFaults, TwitchCreates, TwitchDeletes, TwitchRefuses,
              TwitchIsLost
<1>6. QED
  BY <1>1, <1>2, <1>2a, <1>3, <1>4, <1>5 DEF Next, SessionFaults, TimerExpires, vars

(* Recording changes what a session is used for, not the session.          *)
LEMMA MarkRequestKeepsSessions ==
    ASSUME TypeOK, MarkRequest, NEW c \in Conns
    PROVE  /\ conn'[c].open = conn[c].open /\ conn'[c].gen = conn[c].gen
           /\ conn'[c].ready = conn[c].ready
<1>1. conn[c] \in Connection
  BY DEF TypeOK
<1>2. PICK r, f : r = Record(conn[c], marking.req) /\ f = Forget(conn[c], marking.req)
  OBVIOUS
<1>3. /\ r.open = conn[c].open /\ r.gen = conn[c].gen /\ r.ready = conn[c].ready
      /\ f.open = conn[c].open /\ f.gen = conn[c].gen /\ f.ready = conn[c].ready
  BY <1>1, <1>2 DEF Record, Forget, Connection
<1>4. conn'[c] = conn[c] \/ conn'[c] = r \/ conn'[c] = f
  <2>1. CASE conn' = conn
    BY <2>1
  <2>2. ASSUME NEW d, conn' = [conn EXCEPT ![d] = Record(@, marking.req)]
        PROVE  conn'[c] = conn[c] \/ conn'[c] = r
    BY <1>2, <2>2 DEF TypeOK
  <2>3. ASSUME NEW d, conn' = [conn EXCEPT ![d] = Forget(@, marking.req)]
        PROVE  conn'[c] = conn[c] \/ conn'[c] = f
    BY <1>2, <2>3 DEF TypeOK
  <2>4. QED
    BY <2>1, <2>2, <2>3 DEF MarkRequest, MarkRequestSubscribed, MarkRequestUnsubscribed
<1>5. QED
  BY <1>3, <1>4

LEMMA SessionsStayTheSame ==
    ASSUME SessionsStay, TypeOK, TypeOK', OneAtATime, SessionsHold, [Next]_vars
    PROVE  SessionsHold'
<1> DEFINE ReadyIsOpen == \A c \in Conns : conn[c].ready => conn[c].open
<1>0. resetting' = None
  <2>1. ~SessionFaults /\ resetting = None
    BY DEF SessionsStay, SessionFaults, SessionEnds, SessionReconnects, SessionsHold
  <2>2. RunHandler => resetting' = None
    BY <2>1, RunHandlerConns, ResetMoves
  <2>3. Application => resetting' = resetting
    <3>1. ASSUME NEW h \in Handles, RemoveRef(h) PROVE resetting' = resetting
      BY <3>1 DEF RemoveRef, ioVars
    <3>2. ASSUME NEW h \in Handles, NEW req \in Requests, Subscribe(h, req)
          PROVE  resetting' = resetting
      BY <3>2 DEF Subscribe
    <3>3. QED
      BY <3>1, <3>2 DEF Application, SetQuitting, ioVars
  <2>4. MarkRequest => resetting' = resetting
    BY DEF MarkRequest, MarkRequestSubscribed, MarkRequestUnsubscribed, ioVars
  <2>5. ASSUME NEW call \in calls, HelixAnswers(call)
        PROVE  resetting' = resetting
    BY <2>5 DEF HelixAnswers, CreateSucceeds, CreateIsRetried, CreateFails, DeleteIsAnswered, ioVars
  <2>6. ASSUME NEW call \in calls, TwitchAnswers(call) \/ TwitchFaults(call)
        PROVE  resetting' = resetting
    BY <2>6 DEF TwitchAnswers, TwitchFaults, TwitchCreates, TwitchDeletes, TwitchRefuses,
                TwitchIsLost, ioVars
  <2>7. QED
    BY <2>1, <2>2, <2>3, <2>4, <2>5, <2>6 DEF Next, TimerExpires, Welcome, ioVars, vars
<1>1. ASSUME conn' = conn,
             \A call \in calls' : call.op = "create" =>
                \E old \in calls : old.op = "create" /\ old.on = call.on
      PROVE  SessionsHold'
  <2>1. SessionsAsBefore /\ CreatesAsBefore
    BY <1>1 DEF SessionsAsBefore, CreatesAsBefore
  <2>2. QED
    BY <1>0, <1>1, <2>1, CreatesStayLive DEF SessionsHold
<1>2. CASE Application
  <2>1. ASSUME NEW h \in Handles, RemoveRef(h)
        PROVE  SessionsHold'
    <3>1. conn' = conn /\ \A call \in calls' : call \in calls \/ call.op = "delete"
      BY <2>1 DEF RemoveRef, NewCall
    <3>2. QED
      BY <1>1, <3>1
  <2>2. ASSUME NEW h \in Handles, NEW req \in Requests, Subscribe(h, req)
        PROVE  SessionsHold'
    BY <1>1, <2>2 DEF Subscribe
  <2>3. QED
    BY <1>1, <1>2, <2>1, <2>2 DEF Application, SetQuitting
<1>3. CASE RunHandler
  <2>1. CASE UNCHANGED <<conn, calls>>
    BY <1>1, <2>1
  <2>2. ASSUME NEW c \in Conns, NEW req \in Requests, Claims(c, req)
        PROVE  SessionsHold'
    <3>1. SessionsAsBefore /\ ReadyIsOpen'
      BY <2>2 DEF Claims, SessionsAsBefore, SessionsHold, TypeOK, Connection
    <3>2. CreatesAsBefore
      <4>1. PICK call \in Call : /\ calls' = calls \cup {call}
                                 /\ call.on.c = c /\ call.on.gen = conn[c].gen
        BY <2>2 DEF Claims
      <4>2. call.on # None
        BY NoneAssumption, <4>1 DEF Call, Weak, TypeOK, Connection
      <4>3. conn[c].ready
        BY <2>2 DEF Claims
      <4>4. QED
        BY <4>1, <4>2, <4>3 DEF CreatesAsBefore
    <3>3. QED
      BY <1>0, <3>1, <3>2, CreatesStayLive DEF SessionsHold
  <2>3. ASSUME NEW c \in Conns, NEW req \in Requests, Opens(c, req)
        PROVE  SessionsHold'
    <3>1. SessionsAsBefore /\ ReadyIsOpen'
      BY <2>3 DEF Opens, Unreferenced, SessionsAsBefore, SessionsHold, TypeOK, Closed
    <3>2. CreatesAsBefore
      BY <2>3 DEF Opens, CreatesAsBefore
    <3>3. QED
      BY <1>0, <3>1, <3>2, CreatesStayLive DEF SessionsHold
  <2>4. ~ResetSubscriptions
    BY ResetMoves DEF SessionsHold
  <2>5. QED
    BY <1>3, <2>1, <2>2, <2>3, <2>4, RunHandlerConns
<1>4. CASE \E k \in Keys : TimerExpires(k)
  BY <1>1, <1>4 DEF TimerExpires
<1>5. ASSUME NEW c \in Conns, Welcome(c)
      PROVE  SessionsHold'
  <2>1. SessionsAsBefore /\ ReadyIsOpen'
    BY <1>5 DEF Welcome, SessionsAsBefore, SessionsHold, TypeOK, Connection
  <2>2. CreatesAsBefore
    BY <1>5 DEF Welcome, CreatesAsBefore
  <2>3. QED
    BY <1>0, <2>1, <2>2, CreatesStayLive DEF SessionsHold
<1>6. ~SessionFaults
  BY DEF SessionsStay, SessionFaults, SessionEnds, SessionReconnects
<1>7. ASSUME NEW call \in calls, HelixAnswers(call)
      PROVE  SessionsHold'
  <2>1. calls' = calls \ {call} /\ conn' = conn
    BY <1>7 DEF HelixAnswers, CreateSucceeds, CreateIsRetried, CreateFails, DeleteIsAnswered
  <2>2. QED
    BY <1>1, <2>1
<1>7a. CASE MarkRequest
  <2>1. calls' = calls
    BY <1>7a DEF MarkRequest, MarkRequestSubscribed, MarkRequestUnsubscribed
  <2>2. \A c \in Conns : /\ conn'[c].open = conn[c].open /\ conn'[c].gen = conn[c].gen
                         /\ conn'[c].ready = conn[c].ready
    BY <1>7a, MarkRequestKeepsSessions
  <2>3. SessionsAsBefore /\ CreatesAsBefore
    BY <2>1, <2>2 DEF SessionsAsBefore, CreatesAsBefore
  <2>4. QED
    BY <1>0, <2>2, <2>3, CreatesStayLive DEF SessionsHold
<1>8. ASSUME NEW call \in calls, TwitchAnswers(call) \/ TwitchFaults(call)
      PROVE  SessionsHold'
  <2>1. conn' = conn /\ \E a \in Answers : Answered(call, a)
    BY <1>8 DEF TwitchAnswers, TwitchFaults, TwitchCreates, TwitchDeletes, TwitchRefuses,
                TwitchIsLost, Answers
  <2>2. \A new \in calls' : new \in calls \/ (new.op = call.op /\ new.on = call.on)
    BY <2>1 DEF Answered, TypeOK, Call
  <2>3. QED
    BY <1>1, <2>1, <2>2
<1>9. CASE UNCHANGED vars
  BY <1>1, <1>9 DEF vars
<1>10. QED
  BY <1>2, <1>3, <1>4, <1>5, <1>6, <1>7, <1>7a, <1>8, <1>9 DEF Next

(* While no session ends, a request somebody holds that is neither made    *)
(* nor given up always has a timer, a posted handler or a Helix call that  *)
(* will take it further: refusals, lost calls, retries and handles that    *)
(* come and go cannot strand it.                                           *)
THEOREM HeldIsPursued == SessionsStay => (Spec => []InterestIsPursued)
<1> SUFFICES ASSUME SessionsStay PROVE Spec => []InterestIsPursued
  OBVIOUS
<1>1. Init => SessionsHold /\ AllOnTheirWay
  BY DEF Init, SessionsHold, CreatesAreLive, AllOnTheirWay, OnItsWay, Missing, Closed
<1>2. /\ TypeOK /\ TypeOK' /\ OneAtATime /\ RefCountIsHandles /\ SessionsHold /\ AllOnTheirWay
      /\ [Next]_vars
      => (SessionsHold /\ AllOnTheirWay)'
  <2> SUFFICES ASSUME TypeOK, TypeOK', OneAtATime, RefCountIsHandles, SessionsHold, AllOnTheirWay, [Next]_vars
               PROVE  (SessionsHold /\ AllOnTheirWay)'
    OBVIOUS
  <2>1. SessionsHold'
    BY SessionsStayTheSame
  <2>2. AllOnTheirWay'
    <3> SUFFICES ASSUME ~quitting', NEW k \in Keys
                 PROVE  OnItsWay(k)'
      BY <2>1 DEF AllOnTheirWay, SessionsHold
    <3>1. ~quitting /\ OnItsWay(k)
      <4>1. quitting => quitting'
        BY QuittingStays
      <4>2. QED
        BY <4>1 DEF AllOnTheirWay
    <3>2. CASE Application
      <4>1. ~SetQuitting
        BY DEF SetQuitting
      <4>2. QED
        BY <3>1, <3>2, <4>1, SubscribeOnItsWay, RemoveRefOnItsWay DEF Application
    <3>3. CASE RunHandler
      BY <3>1, <3>3, RunHandlerOnItsWay
    <3>4. CASE \E l \in Keys : TimerExpires(l)
      BY <3>1, <3>4, TimerExpiresOnItsWay
    <3>5. ASSUME UNCHANGED <<entry, marking, ioVars, calls>>
          PROVE  OnItsWay(k)'
      BY <3>1, <3>5 DEF OnItsWay, Pursued, DeleteIsSent, ioVars, AllOnTheirWay
    <3>6. ASSUME NEW c \in Conns, Welcome(c)
          PROVE  OnItsWay(k)'
      BY <3>5, <3>6 DEF Welcome
    <3>7. ~SessionFaults
      BY DEF SessionsStay, SessionFaults, SessionEnds, SessionReconnects
    <3>8. ASSUME NEW call \in calls, HelixAnswers(call)
          PROVE  OnItsWay(k)'
      BY <3>1, <3>8, HelixAnswersOnItsWay DEF SessionsHold
    <3>8a. CASE MarkRequest
      BY <3>1, <3>8a, MarkRequestOnItsWay
    <3>9. ASSUME NEW call \in calls, TwitchAnswers(call) \/ TwitchFaults(call)
          PROVE  OnItsWay(k)'
      BY <3>1, <3>9, TwitchOnItsWay
    <3>10. CASE UNCHANGED vars
      BY <3>5, <3>10 DEF vars, ioVars
    <3>11. QED
      BY <3>2, <3>3, <3>4, <3>6, <3>7, <3>8, <3>8a, <3>9, <3>10 DEF Next
  <2>3. QED
    BY <2>1, <2>2
<1>3. TypeOK /\ AllOnTheirWay => InterestIsPursued
  BY OnItsWayIsPursued DEF AllOnTheirWay, InterestIsPursued
<1>4. QED
  BY <1>1, <1>2, <1>3, TypeCorrect, OneHandlerAtATime, CountsAreHandles, PTL DEF Spec

-----------------------------------------------------------------------------
(* The requests of one account: its sessions follow one another, and an id *)
(* stands for a subscription of the only session there is.                 *)

OneAccount == \A r, s \in Requests : r.owner = s.owner /\ r.alt = s.alt

OneSession == \A c, d \in Conns : conn[c].open /\ conn[d].open => c = d

(* Twitch has subscriptions of open sessions only.                         *)
OpenServe == \A c \in Conns : twitch[c] # {} => conn[c].open

OpenAreListed ==
    \A c \in Conns : conn[c].open => \E i \in DOMAIN connections : connections[i] = c

ReadyAreOpen == \A c \in Conns : conn[c].ready => conn[c].open

(* Every session can serve every request.                                  *)
Compatible == \A c \in Conns, r \in Requests : CanHandle(c, r)

(* The IO thread is in the middle of a handler only while there is no      *)
(* session a create can be sent on.                                        *)
NoneIsReady == \A c \in Conns : ~conn[c].ready

BusyWithoutSession == IoFree \/ NoneIsReady

(* What reconnectConnection() is about to reset has no session any more.   *)
LostIsClosed == \A c \in Conns : resetting = c => ~conn[c].open

AccountInv ==
    /\ OneSession /\ OpenServe /\ OpenAreListed /\ ReadyAreOpen
    /\ Compatible /\ BusyWithoutSession /\ LostIsClosed

ToRetry(k) ==
    \/ k \in KeysOf(resubscribing)
    \/ retrying # None /\ retrying.key = k

InProgress(e) == e.state \in {"Subscribing", "Retrying"}

(* An entry nobody holds has no id, and no answer can give it one: it is   *)
(* in progress only for the handler the IO thread is in, which drops it.   *)
FreeNow(k) == entry[k].refCount = 0 => entry[k].id = None /\ (InProgress(entry[k]) => ToRetry(k))

FreeHasNoId == ~quitting => \A k \in Keys : FreeNow(k)

(* A step that opens and ends no session and keeps the IO thread's place.  *)
LEMMA CalmSteps ==
    ASSUME AccountInv, Compatible', IoFree' \/ NoneIsReady, connections' = connections,
           resetting' \in {resetting, None},
           \A c \in Conns : /\ conn'[c].open = conn[c].open
                            /\ conn'[c].ready = conn[c].ready
                            /\ twitch'[c] # {} => twitch[c] # {} \/ conn[c].open
    PROVE  AccountInv'
<1>1. OneSession' /\ OpenServe' /\ ReadyAreOpen'
  BY DEF AccountInv, OneSession, OpenServe, ReadyAreOpen
<1>2. OpenAreListed'
  BY DEF AccountInv, OpenAreListed
<1>3. BusyWithoutSession'
  BY DEF BusyWithoutSession, NoneIsReady
<1>4. LostIsClosed'
  BY NoneAssumption DEF AccountInv, LostIsClosed
<1>5. QED
  BY <1>1, <1>2, <1>3, <1>4 DEF AccountInv

LEMMA ConnOfAccount ==
    ASSUME OneAccount, NEW r \in Requests, NEW req \in Requests
    PROVE  req.owner = r.owner /\ req.alt = r.alt
  BY DEF OneAccount

LEMMA MarkRequestFits ==
    ASSUME OneAccount, TypeOK, Compatible, MarkRequest
    PROVE  Compatible'
<1>1. /\ conn \in [Conns -> Connection] /\ marking.req \in Requests /\ marking.req.owner \in Owners
      /\ marking.on.c \in Conns
  BY MarkingType, RequestsAssumption DEF TypeOK, MarkRequest, MarkRequestSubscribed,
                                         MarkRequestUnsubscribed
<1>2. PICK d \in Conns : d = marking.on.c
  BY <1>1
<1>3. PICK y \in Connection : y = conn[d]
  BY <1>1
<1>4. PICK r : r = Record(y, marking.req)
  OBVIOUS
<1>5. PICK f : f = Forget(y, marking.req)
  OBVIOUS
<1>6. /\ r.user = marking.req.owner /\ r.auth = y.auth
      /\ f.user \in {y.user, None} /\ f.auth \in {y.auth, None}
  BY <1>4, <1>5 DEF Record, Forget, Connection
<1>7. conn' = conn \/ conn' = [conn EXCEPT ![d] = r] \/ conn' = [conn EXCEPT ![d] = f]
  BY <1>2, <1>3, <1>4, <1>5 DEF MarkRequest, MarkRequestSubscribed, MarkRequestUnsubscribed
<1> SUFFICES ASSUME NEW c \in Conns, NEW req \in Requests
             PROVE  CanHandle(c, req)'
  BY DEF Compatible
<1>8. CanHandle(c, req)
  BY DEF Compatible
<1>9. conn'[c] = conn[c] \/ (c = d /\ (conn'[c] = r \/ conn'[c] = f))
  BY <1>1, <1>7
<1>10. marking.req.owner = req.owner
  BY <1>1, ConnOfAccount
<1>11. QED
  BY <1>3, <1>6, <1>8, <1>9, <1>10 DEF CanHandle

(* The IO thread's subscribe() opens a session only when there is none.    *)
LEMMA IoSubscribeOfAccount ==
    ASSUME OneAccount, TypeOK, AccountInv, NEW req \in Requests, NEW isRetry,
           IoSubscribe(req, isRetry), resubscribing' \subseteq resubscribing,
           resetting = None
    PROVE  AccountInv'
<1>1. /\ conn \in [Conns -> Connection] /\ connections \in Seq(Conns)
      /\ twitch' = twitch /\ resetting' = resetting
  BY DEF TypeOK, IoSubscribe
<1>2. CASE SendCreate(req)
  <2>1. PICK i \in Viable(req) :
          LET c == connections[i]
              claimed == IF conn[c].auth = None THEN req.alt ELSE conn[c].auth
          IN  conn' = [conn EXCEPT ![c].auth = claimed]
    BY <1>2 DEF SendCreate
  <2>2. PICK c \in Conns : c = connections[i]
    BY DEF TypeOK, Viable
  <2>3. PICK a : a \in {conn[c].auth, req.alt} /\ conn' = [conn EXCEPT ![c].auth = a]
    BY <2>1, <2>2
  <2>4. retrying' = retrying /\ connections' = connections
    BY <1>2 DEF SendCreate
  <2>5. \A d \in Conns : /\ conn'[d].open = conn[d].open /\ conn'[d].ready = conn[d].ready
                         /\ conn'[d].user = conn[d].user
                         /\ conn'[d].auth \in {conn[d].auth, req.alt}
    BY <1>1, <2>3 DEF Connection
  <2>6. Compatible'
    <3> SUFFICES ASSUME NEW d \in Conns, NEW r \in Requests
                 PROVE  CanHandle(d, r)'
      BY DEF Compatible
    <3>1. CanHandle(d, r) /\ req.alt = r.alt
      BY ConnOfAccount DEF AccountInv, Compatible
    <3>2. QED
      BY <2>5, <3>1 DEF CanHandle
  <2>7. IoFree' \/ NoneIsReady
    BY <1>1, <2>4 DEF AccountInv, BusyWithoutSession, IoFree
  <2>8. QED
    BY <1>1, <2>4, <2>5, <2>6, <2>7, CalmSteps
<1>3. CASE WaitForConnection(req)
  <2>1. NoneIsReady
    <3> SUFFICES ASSUME NEW c \in Conns, conn[c].ready
                 PROVE  FALSE
      BY DEF NoneIsReady
    <3>1. PICK i \in DOMAIN connections : connections[i] = c
      BY DEF AccountInv, ReadyAreOpen, OpenAreListed
    <3>2. CanHandle(c, req)
      BY DEF AccountInv, Compatible
    <3>3. i \in Viable(req)
      BY <3>1, <3>2 DEF Viable
    <3>4. QED
      BY <1>3, <3>3 DEF WaitForConnection
  <2>2. CASE UNCHANGED <<conn, connections>>
    <3>1. Compatible'
      BY <2>2 DEF AccountInv, Compatible, CanHandle
    <3>2. QED
      BY <1>1, <2>1, <2>2, <3>1, CalmSteps
  <2>3. CASE /\ NotReady(req) = {}
             /\ \E c \in Conns : Unreferenced(c)
             /\ CreateConnection(CHOOSE c \in Conns : Unreferenced(c), req)
    <3>1. PICK c \in Conns : c = (CHOOSE d \in Conns : Unreferenced(d))
      BY <2>3
    <3>2. \A d \in Conns : ~conn[d].open
      <4> SUFFICES ASSUME NEW d \in Conns, conn[d].open
                   PROVE  FALSE
        OBVIOUS
      <4>1. CanHandle(d, req) /\ ~conn[d].ready
        BY <2>1 DEF AccountInv, Compatible, NoneIsReady
      <4>2. QED
        BY <2>3, <4>1 DEF NotReady
    <3>3. /\ conn' = [conn EXCEPT ![c] = [Closed EXCEPT !.open = TRUE, !.auth = req.alt]]
          /\ connections' = Append(connections, c)
      BY <2>3, <3>1 DEF CreateConnection
    <3>4. /\ \A d \in Conns \ {c} : conn'[d] = conn[d]
          /\ ~conn'[c].ready /\ conn'[c].user = None /\ conn'[c].auth = req.alt /\ conn'[c].open
      BY <1>1, <3>3 DEF Closed
    <3>5. OneSession' /\ OpenServe' /\ ReadyAreOpen' /\ NoneIsReady'
      BY <1>1, <2>1, <3>2, <3>4 DEF AccountInv, OneSession, OpenServe, ReadyAreOpen, NoneIsReady
    <3>6. OpenAreListed'
      <4>1. Len(connections) + 1 \in DOMAIN connections'
            /\ connections'[Len(connections) + 1] = c
        BY <1>1, <3>3
      <4>2. QED
        BY <3>2, <3>4, <4>1 DEF OpenAreListed
    <3>7. Compatible'
      <4> SUFFICES ASSUME NEW d \in Conns, NEW r \in Requests
                   PROVE  CanHandle(d, r)'
        BY DEF Compatible
      <4>1. CanHandle(d, r) /\ req.alt = r.alt
        BY ConnOfAccount DEF AccountInv, Compatible
      <4>2. QED
        BY <3>4, <4>1 DEF CanHandle
    <3>8. LostIsClosed'
      BY <1>1, NoneAssumption DEF LostIsClosed
    <3>9. QED
      BY <3>5, <3>6, <3>7, <3>8 DEF AccountInv, BusyWithoutSession
  <2>4. QED
    BY <1>3, <2>2, <2>3 DEF WaitForConnection
<1>4. QED
  BY <1>2, <1>3 DEF IoSubscribe

LEMMA RunHandlerOfAccount ==
    ASSUME OneAccount, TypeOK, OneAtATime, AccountInv, RunHandler
    PROVE  AccountInv'
<1>0. posted # <<>> => Head(posted).req \in Requests
  <2>1. posted # <<>> => Head(posted) \in Task
    BY DEF TypeOK
  <2>2. QED
    BY <2>1 DEF Task
<1>1. ASSUME UNCHANGED <<conn, connections, twitch, resetting>>, IoFree => IoFree'
      PROVE  AccountInv'
  <2>1. Compatible' /\ (IoFree' \/ NoneIsReady)
    BY <1>1 DEF AccountInv, Compatible, CanHandle, BusyWithoutSession
  <2>2. QED
    BY <1>1, <2>1, CalmSteps
<1>2. CASE FinishRetry
  BY <1>1, <1>2 DEF FinishRetry, RetrySubscription, IoFree
<1>3. ASSUME NEW req \in Requests, Resubscribe(req)
      PROVE  AccountInv'
  BY <1>3, IoSubscribeOfAccount DEF Resubscribe, OneAtATime
<1>4. CASE RunSubscribe
  BY <1>0, <1>4, IoSubscribeOfAccount DEF RunSubscribe, IoFree
<1>5. CASE RunRetry
  BY <1>1, <1>5 DEF RunRetry, RetrySubscription, IoFree
<1>6. CASE RunTimer
  BY <1>0, <1>1, <1>6, IoSubscribeOfAccount DEF RunTimer, IoFree
<1>7. CASE ResetSubscriptions
  <2>1. /\ resetting \in Conns /\ resetting' = None
        /\ conn' = [conn EXCEPT ![resetting] = Closed]
        /\ connections' = connections /\ twitch' = twitch
    BY <1>7, ResetMoves
  <2>2. NoneIsReady
    BY <2>1, NoneAssumption DEF AccountInv, BusyWithoutSession, IoFree
  <2>3. ~Closed.open /\ ~Closed.ready /\ Closed.user = None /\ Closed.auth = None
    BY DEF Closed
  <2>4. \A c \in Conns : /\ conn'[c].open = conn[c].open /\ conn'[c].ready = conn[c].ready
                         /\ conn'[c].user \in {conn[c].user, None}
                         /\ conn'[c].auth \in {conn[c].auth, None}
    <3> SUFFICES ASSUME NEW c \in Conns
                 PROVE  /\ conn'[c].open = conn[c].open /\ conn'[c].ready = conn[c].ready
                        /\ conn'[c].user \in {conn[c].user, None}
                        /\ conn'[c].auth \in {conn[c].auth, None}
      OBVIOUS
    <3>1. conn[c] \in Connection /\ (conn'[c] = conn[c] \/ (c = resetting /\ conn'[c] = Closed))
      BY <2>1 DEF TypeOK
    <3>2. c = resetting => ~conn[c].open /\ ~conn[c].ready
      BY <2>2 DEF AccountInv, LostIsClosed, NoneIsReady
    <3>3. Closed.open = FALSE /\ Closed.ready = FALSE
      BY DEF Closed
    <3>4. conn[c].open \in BOOLEAN /\ conn[c].ready \in BOOLEAN
      BY <3>1 DEF Connection
    <3>5. conn'[c].open = conn[c].open /\ conn'[c].ready = conn[c].ready
      BY <3>1, <3>2, <3>3, <3>4
    <3>6. QED
      BY <2>3, <3>1, <3>5
  <2>5. Compatible'
    BY <2>4 DEF AccountInv, Compatible, CanHandle
  <2>6. QED
    BY <2>1, <2>2, <2>4, <2>5, CalmSteps
<1>8. QED
  BY <1>2, <1>3, <1>4, <1>5, <1>6, <1>7 DEF RunHandler

(* A session that ends was the only one.                                   *)
LEMMA SessionsOfAccount ==
    ASSUME TypeOK, AccountInv, NEW c \in Conns,
           Welcome(c) \/ SessionEnds(c) \/ SessionReconnects(c)
    PROVE  AccountInv'
<1>1. conn \in [Conns -> Connection] /\ connections \in Seq(Conns) /\ twitch \in [Conns -> SUBSET Keys]
  BY DEF TypeOK
<1>2. \A d \in Conns \ {c} : ~conn[d].open /\ ~conn[d].ready /\ twitch[d] = {}
  <2>1. conn[c].open
    BY DEF Welcome, SessionEnds, SessionReconnects
  <2>2. QED
    BY <2>1 DEF AccountInv, OneSession, OpenServe, ReadyAreOpen
<1>3. ASSUME ~conn'[c].open, ~conn'[c].ready, \A d \in Conns \ {c} : conn'[d] = conn[d],
             conn'[c].user \in {conn[c].user, None}, conn'[c].auth \in {conn[c].auth, None},
             twitch' = [twitch EXCEPT ![c] = {}]
      PROVE  AccountInv'
  <2>1. \A d \in Conns : ~conn'[d].open /\ ~conn'[d].ready /\ twitch'[d] = {}
    BY <1>1, <1>2, <1>3
  <2>2. Compatible'
    <3> SUFFICES ASSUME NEW d \in Conns, NEW r \in Requests
                 PROVE  CanHandle(d, r)'
      BY DEF Compatible
    <3>1. CanHandle(d, r)
      BY DEF AccountInv, Compatible
    <3>2. QED
      BY <1>3, <3>1 DEF CanHandle
  <2>3. QED
    BY <2>1, <2>2 DEF AccountInv, OneSession, OpenServe, OpenAreListed, ReadyAreOpen,
                      BusyWithoutSession, NoneIsReady, LostIsClosed
<1>3a. ASSUME conn' = [conn EXCEPT ![c] = Closed], twitch' = [twitch EXCEPT ![c] = {}]
       PROVE  AccountInv'
  <2>1. ~Closed.open /\ ~Closed.ready /\ Closed.user = None /\ Closed.auth = None
    BY DEF Closed
  <2>2. conn'[c] = Closed /\ \A d \in Conns \ {c} : conn'[d] = conn[d]
    BY <1>1, <1>3a
  <2>3. QED
    BY <1>3, <1>3a, <2>1, <2>2
<1>4. ASSUME twitch' = twitch, UNCHANGED ioVars, IoFree, conn'[c].open,
             \A d \in Conns \ {c} : conn'[d] = conn[d],
             conn'[c].user = conn[c].user, conn'[c].auth = conn[c].auth,
             \E i \in DOMAIN connections' : connections'[i] = c
      PROVE  AccountInv'
  <2>1. OneSession' /\ ReadyAreOpen' /\ OpenAreListed' /\ OpenServe'
    BY <1>2, <1>4 DEF AccountInv, OneSession, ReadyAreOpen, OpenAreListed, OpenServe
  <2>2. Compatible'
    BY <1>4 DEF AccountInv, Compatible, CanHandle
  <2>3. BusyWithoutSession'
    BY <1>4 DEF BusyWithoutSession, IoFree, ioVars
  <2>4. LostIsClosed'
    BY <1>4, NoneAssumption DEF LostIsClosed, IoFree, ioVars
  <2>5. QED
    BY <2>1, <2>2, <2>3, <2>4 DEF AccountInv
<1>5. CASE Welcome(c)
  <2>1. /\ conn'[c].open /\ conn'[c].user = conn[c].user /\ conn'[c].auth = conn[c].auth
        /\ \A d \in Conns \ {c} : conn'[d] = conn[d]
    BY <1>1, <1>5 DEF Welcome, Connection
  <2>2. \E i \in DOMAIN connections' : connections'[i] = c
    BY <1>5 DEF Welcome, AccountInv, OpenAreListed
  <2>3. QED
    BY <1>4, <1>5, <2>1, <2>2 DEF Welcome
<1>6. CASE SessionEnds(c)
  <2>1. CASE conn' = [conn EXCEPT ![c] = Closed]
    BY <1>3a, <1>6, <2>1 DEF SessionEnds
  <2>2. CASE conn' = [conn EXCEPT ![c].open = FALSE, ![c].ready = FALSE]
    <3>1. /\ ~conn'[c].open /\ ~conn'[c].ready /\ \A d \in Conns \ {c} : conn'[d] = conn[d]
          /\ conn'[c].user = conn[c].user /\ conn'[c].auth = conn[c].auth
      BY <1>1, <2>2 DEF Connection
    <3>2. QED
      BY <1>3, <1>6, <3>1 DEF SessionEnds
  <2>3. QED
    BY <1>6, <2>1, <2>2 DEF SessionEnds
<1>7. CASE SessionReconnects(c)
  <2>1. CASE conn' = [conn EXCEPT ![c] = Closed] /\ twitch' = [twitch EXCEPT ![c] = {}]
    BY <1>3a, <2>1
  <2>2. CASE /\ conn' = [conn EXCEPT ![c].gen = @ + 1]
             /\ connections' = Append(Without(c), c)
             /\ twitch' = twitch
    <3>1. /\ conn'[c].open /\ conn'[c].user = conn[c].user /\ conn'[c].auth = conn[c].auth
          /\ \A d \in Conns \ {c} : conn'[d] = conn[d]
      BY <1>1, <1>7, <2>2 DEF SessionReconnects, Connection
    <3>2. \E i \in DOMAIN connections' : connections'[i] = c
      <4>1. PICK s \in Seq(Conns) : s = Without(c)
        BY <1>1, WithoutType
      <4>2. Len(s) + 1 \in DOMAIN Append(s, c) /\ Append(s, c)[Len(s) + 1] = c
        OBVIOUS
      <4>3. QED
        BY <2>2, <4>1, <4>2
    <3>3. UNCHANGED ioVars /\ IoFree
      BY <1>7 DEF SessionReconnects
    <3>4. QED
      BY <1>4, <2>2, <3>1, <3>2, <3>3
  <2>3. QED
    BY <1>7, <2>1, <2>2 DEF SessionReconnects
<1>8. QED
  BY <1>5, <1>6, <1>7

(* What holds of the sessions of one account.                              *)
LEMMA AccountInvKept ==
    ASSUME OneAccount, TypeOK, OneAtATime, AccountInv, [Next]_vars
    PROVE  AccountInv'
<1>1. ASSUME UNCHANGED <<conn, connections, twitch, ioVars>>
      PROVE  AccountInv'
  <2>1. Compatible' /\ (IoFree' \/ NoneIsReady)
    BY <1>1 DEF AccountInv, Compatible, CanHandle, BusyWithoutSession, IoFree, ioVars
  <2>2. resetting' = resetting
    BY <1>1 DEF ioVars
  <2>3. QED
    BY <1>1, <2>1, <2>2, CalmSteps
<1>2. CASE Application
  <2>1. UNCHANGED <<conn, connections, twitch, retrying, resetting, resubscribing>>
    <3>1. ASSUME NEW h \in Handles, RemoveRef(h)
          PROVE  UNCHANGED <<conn, connections, twitch, retrying, resetting, resubscribing>>
      BY <3>1 DEF RemoveRef, ioVars
    <3>2. ASSUME NEW h \in Handles, NEW req \in Requests, Subscribe(h, req)
          PROVE  UNCHANGED <<conn, connections, twitch, retrying, resetting, resubscribing>>
      BY <3>2 DEF Subscribe
    <3>3. QED
      BY <1>2, <3>1, <3>2 DEF Application, SetQuitting, ioVars
  <2>2. Compatible' /\ (IoFree' \/ NoneIsReady)
    BY <2>1 DEF AccountInv, Compatible, CanHandle, BusyWithoutSession, IoFree
  <2>3. QED
    BY <2>1, <2>2, CalmSteps
<1>3. CASE RunHandler
  BY <1>3, RunHandlerOfAccount
<1>4. CASE \E k \in Keys : TimerExpires(k)
  <2>1. UNCHANGED <<conn, connections, twitch, retrying, resetting, resubscribing>>
    BY <1>4 DEF TimerExpires
  <2>2. Compatible' /\ (IoFree' \/ NoneIsReady)
    BY <2>1 DEF AccountInv, Compatible, CanHandle, BusyWithoutSession, IoFree
  <2>3. QED
    BY <2>1, <2>2, CalmSteps
<1>5. ASSUME NEW c \in Conns, Welcome(c) \/ SessionEnds(c) \/ SessionReconnects(c)
      PROVE  AccountInv'
  BY <1>5, SessionsOfAccount
<1>6. ASSUME NEW call \in calls, HelixAnswers(call)
      PROVE  AccountInv'
  <2>1. UNCHANGED <<conn, connections, twitch, retrying, resetting, resubscribing>>
    BY <1>6 DEF HelixAnswers, CreateSucceeds, CreateIsRetried, CreateFails, DeleteIsAnswered, ioVars
  <2>2. Compatible' /\ (IoFree' \/ NoneIsReady)
    BY <2>1 DEF AccountInv, Compatible, CanHandle, BusyWithoutSession, IoFree
  <2>3. QED
    BY <2>1, <2>2, CalmSteps
<1>6a. CASE MarkRequest
  <2>1. UNCHANGED <<connections, twitch, retrying, resetting, resubscribing>>
    BY <1>6a DEF MarkRequest, MarkRequestSubscribed, MarkRequestUnsubscribed, ioVars
  <2>2. Compatible' /\ (IoFree' \/ NoneIsReady)
    BY <1>6a, <2>1, MarkRequestFits DEF AccountInv, BusyWithoutSession, IoFree
  <2>3. \A c \in Conns : conn'[c].open = conn[c].open /\ conn'[c].ready = conn[c].ready
    BY <1>6a, MarkRequestKeepsSessions
  <2>4. QED
    BY <2>1, <2>2, <2>3, CalmSteps
<1>7. ASSUME NEW call \in calls, TwitchAnswers(call) \/ TwitchFaults(call)
      PROVE  AccountInv'
  <2>1. UNCHANGED <<conn, connections, retrying, resetting, resubscribing>>
    BY <1>7 DEF TwitchAnswers, TwitchFaults, TwitchCreates, TwitchDeletes, TwitchRefuses,
                TwitchIsLost, ioVars
  <2>2. Compatible' /\ (IoFree' \/ NoneIsReady)
    BY <2>1 DEF AccountInv, Compatible, CanHandle, BusyWithoutSession, IoFree
  <2>3. twitch \in [Conns -> SUBSET Keys] /\ call.on.c \in Conns
    BY DEF TypeOK, Call, Weak
  <2>4. \A c \in Conns : twitch'[c] # {} => twitch[c] # {} \/ conn[c].open
    BY <1>7, <2>3 DEF TwitchAnswers, TwitchFaults, TwitchCreates, TwitchDeletes, TwitchRefuses,
                      TwitchIsLost
  <2>5. QED
    BY <2>1, <2>2, <2>4, CalmSteps
<1>8. CASE UNCHANGED vars
  BY <1>1, <1>8 DEF vars, ioVars
<1>9. QED
  BY <1>2, <1>3, <1>4, <1>5, <1>6, <1>6a, <1>7, <1>8 DEF Next, SessionFaults

-----------------------------------------------------------------------------
(* What the actions do to the entry of a key.                              *)

(* Same holders, same id, and in progress only if it was.                  *)
GoesOn(k) ==
    /\ entry'[k].refCount = entry[k].refCount
    /\ entry'[k].id = entry[k].id
    /\ InProgress(entry'[k]) => InProgress(entry[k])

(* Somebody holds it, and it keeps its id.                                 *)
IsHeld(k) == entry'[k].refCount # 0 /\ entry'[k].id = entry[k].id

(* Nobody held it, and it is erased.                                       *)
IsDropped(k) == ~quitting /\ entry[k].refCount = 0 /\ entry'[k] = Missing

(* One entry is written, the others stay.                                  *)
LEMMA OthersGoOn ==
    ASSUME entry \in [Keys -> Entry], NEW l \in Keys, NEW e, entry' = [entry EXCEPT ![l] = e],
           NEW k \in Keys \ {l}
    PROVE  GoesOn(k) /\ entry'[k] = entry[k]
  BY DEF GoesOn

LEMMA IoSubscribeGoesOn ==
    ASSUME TypeOK, NEW req \in Requests, NEW isRetry, IoSubscribe(req, isRetry),
           NEW k \in Keys
    PROVE  GoesOn(k)
<1>1. req.key \in Keys /\ entry \in [Keys -> Entry]
  BY RequestsAssumption DEF TypeOK
<1>2. PICK t \in Entry : t = Touch(entry[req.key])
  BY <1>1, TouchRefersAsBefore
<1>3. PICK e : /\ entry' = [entry EXCEPT ![req.key] = e]
               /\ e.id = t.id /\ e.refCount = t.refCount /\ e.state = t.state
  <2>1. PICK z : z = IF isRetry THEN None ELSE t.timer
    OBVIOUS
  <2> DEFINE x == [t EXCEPT !.timer = z]
  <2>2. x.id = t.id /\ x.refCount = t.refCount /\ x.state = t.state
    BY DEF Entry
  <2>3. entry' = [entry EXCEPT ![req.key] = x]
    BY <1>2, <2>1 DEF IoSubscribe
  <2>4. QED
    BY <2>2, <2>3
<1>4. CASE k # req.key
  BY <1>1, <1>3, <1>4, OthersGoOn
<1>5. CASE k = req.key
  <2>1. entry'[k] = e
    BY <1>1, <1>3, <1>5
  <2>2. e.id = entry[k].id /\ e.refCount = entry[k].refCount
        /\ e.state = IF entry[k].state = "Missing" THEN "Unsubscribed" ELSE entry[k].state
    BY <1>1, <1>2, <1>3, <1>5, TouchRefersAsBefore
  <2>3. QED
    BY <2>1, <2>2 DEF GoesOn, InProgress
<1>6. QED
  BY <1>4, <1>5

LEMMA RetryGoesOn ==
    ASSUME TypeOK, NEW req \in Requests, RetrySubscription(req), NEW k \in Keys
    PROVE  \/ IsHeld(k) \/ IsDropped(k)
           \/ GoesOn(k) /\ (quitting \/ k # req.key)
<1>1. req.key \in Keys /\ entry \in [Keys -> Entry]
  BY RequestsAssumption DEF TypeOK
<1>2. PICK t \in Entry : t = Touch(entry[req.key])
  BY <1>1, TouchRefersAsBefore
<1>3. t.id = entry[req.key].id /\ t.refCount = entry[req.key].refCount
  BY <1>1, <1>2, TouchRefersAsBefore
<1>4. CASE quitting /\ entry' = entry
  BY <1>4 DEF GoesOn
<1>5. CASE ~quitting /\ t.refCount = 0 /\ entry' = [entry EXCEPT ![req.key] = Missing]
  <2>1. CASE k = req.key
    BY <1>1, <1>3, <1>5, <2>1 DEF IsDropped
  <2>2. CASE k # req.key
    BY <1>1, <1>5, <2>2, OthersGoOn
  <2>3. QED
    BY <2>1, <2>2
<1>6. CASE /\ t.refCount # 0
           /\ entry' = [entry EXCEPT ![req.key] =
                           [t EXCEPT !.state = "Retrying", !.timer = [req |-> req, fired |-> FALSE]]]
  <2>1. PICK z : z = [req |-> req, fired |-> FALSE]
    OBVIOUS
  <2> DEFINE x == [t EXCEPT !.state = "Retrying", !.timer = z]
  <2>2. x.id = t.id /\ x.refCount = t.refCount
    BY DEF Entry
  <2>3. entry' = [entry EXCEPT ![req.key] = x]
    BY <1>6, <2>1
  <2> HIDE DEF x
  <2>4. CASE k = req.key
    BY <1>1, <1>3, <1>6, <2>2, <2>3, <2>4 DEF IsHeld
  <2>5. CASE k # req.key
    BY <1>1, <2>3, <2>5, OthersGoOn
  <2>6. QED
    BY <2>4, <2>5
<1>7. QED
  BY <1>2, <1>4, <1>5, <1>6 DEF RetrySubscription

(* A handler leaves what is still to be retried, and takes up nothing that *)
(* nobody holds.                                                           *)
LEMMA RunHandlerOfEntries ==
    ASSUME TypeOK, AccountInv, RunHandler, ~ResetSubscriptions, ~quitting, NEW k \in Keys
    PROVE  \/ IsHeld(k) \/ IsDropped(k)
           \/ GoesOn(k) /\ (ToRetry(k) => ToRetry(k)')
<1>0. posted # <<>> => Head(posted).req \in Requests
  <2>1. posted # <<>> => Head(posted) \in Task
    BY DEF TypeOK
  <2>2. QED
    BY <2>1 DEF Task
<1>1. IoFree => ~ToRetry(k)
  BY DEF IoFree, ToRetry, KeysOf
<1>2. CASE FinishRetry
  <2>1. retrying \in Requests
    BY <1>2 DEF TypeOK, FinishRetry
  <2>2. k # retrying.key => (ToRetry(k) => ToRetry(k)')
    BY <1>2 DEF FinishRetry, ToRetry
  <2>3. QED
    BY <1>2, <2>1, <2>2, RetryGoesOn DEF FinishRetry
<1>3. ASSUME NEW req \in Requests, Resubscribe(req)
      PROVE  GoesOn(k) /\ (ToRetry(k) => ToRetry(k)')
  <2>1. GoesOn(k)
    BY <1>3, IoSubscribeGoesOn DEF Resubscribe
  <2>2. retrying' = req
    <3>1. NoneIsReady
      BY <1>3 DEF Resubscribe, AccountInv, BusyWithoutSession, IoFree
    <3>2. Viable(req) = {}
      BY <3>1 DEF NoneIsReady, Viable, TypeOK
    <3>3. ~SendCreate(req)
      BY <3>2 DEF SendCreate
    <3>4. QED
      BY <1>3, <3>3 DEF Resubscribe, IoSubscribe, WaitForConnection
  <2>3. req # None /\ retrying = None /\ resubscribing' = resubscribing \ {req}
    BY <1>3, NoneAssumption DEF Resubscribe
  <2>4. QED
    BY <2>1, <2>2, <2>3 DEF ToRetry, KeysOf
<1>4. CASE RunSubscribe
  BY <1>0, <1>1, <1>4, IoSubscribeGoesOn DEF RunSubscribe
<1>5. CASE RunRetry
  BY <1>0, <1>1, <1>5, RetryGoesOn DEF RunRetry
<1>6. CASE RunTimer
  BY <1>0, <1>1, <1>6, IoSubscribeGoesOn DEF RunTimer
<1>7. QED
  BY <1>2, <1>3, <1>4, <1>5, <1>6 DEF RunHandler

(* The end of a delete keeps the entry for a holder, or drops it.          *)
LEMMA ReleaseOfEntries ==
    ASSUME TypeOK, ~quitting, NEW req \in Requests, Release(req), NEW k \in Keys
    PROVE  IsHeld(k) \/ IsDropped(k) \/ GoesOn(k)
<1>1. req.key \in Keys /\ entry \in [Keys -> Entry]
  BY RequestsAssumption DEF TypeOK
<1>2. PICK t \in Entry : t = Touch(entry[req.key])
  BY <1>1, TouchRefersAsBefore
<1>3. t.id = entry[req.key].id /\ t.refCount = entry[req.key].refCount
  BY <1>1, <1>2, TouchRefersAsBefore
<1>4. CASE t.refCount = 0 /\ entry' = [entry EXCEPT ![req.key] = Missing]
  <2>1. CASE k = req.key
    BY <1>1, <1>3, <1>4, <2>1 DEF IsDropped
  <2>2. CASE k # req.key
    BY <1>1, <1>4, <2>2, OthersGoOn
  <2>3. QED
    BY <2>1, <2>2
<1>5. CASE /\ t.refCount # 0
           /\ entry' = [entry EXCEPT ![req.key] =
                           [t EXCEPT !.state = "Subscribing", !.connection = None]]
  <2> DEFINE x == [t EXCEPT !.state = "Subscribing", !.connection = None]
  <2>1. x.id = t.id /\ x.refCount = t.refCount
    BY DEF Entry
  <2>2. entry' = [entry EXCEPT ![req.key] = x]
    BY <1>5
  <2> HIDE DEF x
  <2>3. CASE k = req.key
    BY <1>1, <1>3, <1>5, <2>1, <2>2, <2>3 DEF IsHeld
  <2>4. CASE k # req.key
    BY <1>1, <2>2, <2>4, OthersGoOn
  <2>5. QED
    BY <2>3, <2>4
<1>6. QED
  BY <1>2, <1>4, <1>5 DEF Release

LEMMA AnswersOfEntries ==
    ASSUME TypeOK, ~quitting, NEW call \in calls, HelixAnswers(call), NEW k \in Keys
    PROVE  IsHeld(k) \/ IsDropped(k) \/ GoesOn(k)
<1>1. /\ call.req \in Requests /\ call.req.key \in Keys /\ entry \in [Keys -> Entry]
  BY RequestsAssumption DEF TypeOK, Call
<1>2. CASE CreateIsRetried(call) \/ CreateSucceeds(call)
  BY <1>2 DEF CreateIsRetried, CreateSucceeds, GoesOn
<1>3. CASE CreateFails(call)
  <2>1. PICK y \in Entry : y = entry[call.req.key]
    BY <1>1
  <2> DEFINE x == [y EXCEPT !.state = "Failed"]
  <2>2. x.id = y.id /\ x.refCount = y.refCount /\ x.state = "Failed"
    BY DEF Entry
  <2>3. entry' = [entry EXCEPT ![call.req.key] = x]
    BY <1>3, <2>1 DEF CreateFails
  <2> HIDE DEF x
  <2>4. CASE k = call.req.key
    BY <1>1, <2>1, <2>2, <2>3, <2>4 DEF GoesOn, InProgress
  <2>5. CASE k # call.req.key
    BY <1>1, <2>3, <2>5, OthersGoOn
  <2>6. QED
    BY <2>4, <2>5
<1>4. CASE DeleteIsAnswered(call)
  <2>1. CASE Release(call.req)
    BY <1>1, <2>1, ReleaseOfEntries
  <2>2. CASE entry' = entry
    BY <2>2 DEF GoesOn
  <2>3. QED
    BY <1>4, <2>1, <2>2 DEF DeleteIsAnswered
<1>5. QED
  BY <1>2, <1>3, <1>4 DEF HelixAnswers

LEMMA TimerOfEntries ==
    ASSUME TypeOK, NEW l \in Keys, TimerExpires(l), NEW k \in Keys
    PROVE  GoesOn(k)
<1>1. entry \in [Keys -> Entry]
  BY DEF TypeOK
<1>2. PICK y \in Entry : y = entry[l]
  BY <1>1
<1>3. PICK z : z = [entry[l].timer EXCEPT !.fired = TRUE]
  OBVIOUS
<1> DEFINE x == [y EXCEPT !.timer = z]
<1>4. x.id = y.id /\ x.refCount = y.refCount /\ x.state = y.state
  BY DEF Entry
<1>5. entry' = [entry EXCEPT ![l] = x]
  BY <1>2, <1>3 DEF TimerExpires
<1> HIDE DEF x
<1>6. CASE k = l
  BY <1>1, <1>2, <1>4, <1>5, <1>6 DEF GoesOn, InProgress
<1>7. CASE k # l
  BY <1>1, <1>5, <1>7, OthersGoOn
<1>8. QED
  BY <1>6, <1>7

(* The requests of a lost session are resubscribed.                        *)
LEMMA ResetOfEntries ==
    ASSUME TypeOK, ResetSubscriptions, NEW k \in Keys
    PROVE  /\ entry'[k].refCount = entry[k].refCount /\ entry'[k].id = entry[k].id
           /\ InProgress(entry'[k]) => InProgress(entry[k]) \/ ToRetry(k)'
<1>1. PICK y \in Entry : y = entry[k]
  BY DEF TypeOK
<1>2. resubscribing' = conn[resetting].subs
  BY ResetMoves
<1>3. PICK x : x = WasReset(y)
  OBVIOUS
<1>4. x.id = y.id /\ x.refCount = y.refCount
  BY <1>3 DEF WasReset, Entry
<1>5. \/ entry'[k] = y
      \/ k \in KeysOf(conn[resetting].subs) /\ entry'[k] = x
  BY <1>1, <1>3, ResetEntries
<1>6. CASE entry'[k] = y
  BY <1>1, <1>6
<1>7. CASE k \in KeysOf(conn[resetting].subs) /\ entry'[k] = x
  BY <1>1, <1>2, <1>4, <1>7 DEF ToRetry, KeysOf
<1>8. QED
  BY <1>5, <1>6, <1>7

(* An id of k that Twitch serves leaves the entry only into a delete.      *)
IdIsDeleted(k) ==
    LET c == entry[k].id
    IN  /\ c # None
        /\ k \in twitch[c] /\ k \in twitch'[c]
        /\ entry'[k].id # c
        => \E call \in calls' \ calls :
             call.op = "delete" /\ call.req.key = k /\ call.on.c = c

HasNoId(e) == e.id = None /\ ~InProgress(e)

LEMMA SubscribeOfEntries ==
    ASSUME TypeOK, RefCountIsHandles, NEW h \in Handles, NEW req \in Requests, Subscribe(h, req),
           NEW k \in Keys
    PROVE  (IsHeld(k) \/ GoesOn(k)) /\ UNCHANGED <<retrying, resubscribing>>
<1>1. req.key \in Keys /\ entry \in [Keys -> Entry] /\ ~quitting
  BY RequestsAssumption DEF TypeOK, Subscribe
<1>2. PICK y \in Entry : y = entry[req.key] /\ y.refCount \in Nat
  BY <1>1, EntriesCount
<1> DEFINE n == y.refCount + 1
           x == [y EXCEPT !.refCount = n]
           w == [x EXCEPT !.state = "Subscribing"]
<1>3. n # 0 /\ x.id = y.id /\ x.refCount = n /\ w.id = y.id /\ w.refCount = n
  BY <1>2 DEF Entry
<1>4. PICK z : z.id = y.id /\ z.refCount # 0 /\ entry' = [entry EXCEPT ![req.key] = z]
  <2>1. entry' = [entry EXCEPT ![req.key] = w] \/ entry' = [entry EXCEPT ![req.key] = x]
    BY <1>2 DEF Subscribe
  <2> HIDE DEF x, w
  <2>2. QED
    BY <1>3, <2>1
<1>5. CASE k = req.key
  BY <1>1, <1>2, <1>4, <1>5 DEF IsHeld, Subscribe
<1>6. CASE k # req.key
  BY <1>1, <1>4, <1>6, OthersGoOn DEF Subscribe
<1>7. QED
  BY <1>5, <1>6

(* The last handle takes the id into a delete, if there is one.            *)
LEMMA RemoveRefOfEntries ==
    ASSUME TypeOK, RefCountIsHandles, NEW h \in Handles, RemoveRef(h), NEW k \in Keys
    PROVE  /\ IdIsDeleted(k)
           /\ ~quitting => IsHeld(k) \/ GoesOn(k) \/ HasNoId(entry'[k])
           /\ UNCHANGED <<quitting, retrying, resubscribing>>
<1> DEFINE req == handle[h]
<1>1. req \in Requests /\ req.key \in Keys /\ entry \in [Keys -> Entry] /\ calls \in SUBSET Call
  BY RequestsAssumption DEF TypeOK, RemoveRef
<1> HIDE DEF req
<1>2. PICK y \in Entry : y = entry[req.key]
  BY <1>1
<1> DEFINE n == y.refCount - 1
           x == [y EXCEPT !.refCount = n]
<1>3. n \in Int /\ x.id = y.id /\ x.refCount = n
  BY <1>2 DEF Entry
<1>4. UNCHANGED <<quitting, retrying, resubscribing>>
  BY DEF RemoveRef, ioVars
<1>5. CASE k # req.key \/ quitting
  <2>1. GoesOn(k) /\ entry'[k] = entry[k]
    <3>1. CASE quitting
      BY <1>1, <1>5, <3>1 DEF RemoveRef, GoesOn
    <3>2. CASE ~quitting
      <4>1. PICK z : entry' = [entry EXCEPT ![req.key] = z]
        BY <3>2 DEF RemoveRef, req
      <4>2. QED
        BY <1>1, <1>5, <3>2, <4>1, OthersGoOn
    <3>3. QED
      BY <3>1, <3>2
  <2>2. QED
    BY <1>4, <2>1 DEF IdIsDeleted
<1>6. CASE k = req.key /\ ~quitting
  <2>1. CASE n > 0 /\ entry' = [entry EXCEPT ![req.key] = x]
    <3>1. entry'[k] = x
      BY <1>1, <1>6, <2>1
    <3> HIDE DEF x
    <3>2. QED
      BY <1>2, <1>3, <1>4, <1>6, <2>1, <3>1 DEF IsHeld, IdIsDeleted
  <2>2. CASE y.id = None /\ entry' = [entry EXCEPT ![req.key] = Missing]
    <3>1. entry'[k] = Missing
      BY <1>1, <1>6, <2>2
    <3>2. QED
      BY <1>2, <1>4, <1>6, <2>2, <3>1, MissingRefersToNothing
         DEF HasNoId, InProgress, IdIsDeleted
  <2>3. CASE /\ y.id # None
             /\ FreeCalls # {}
             /\ entry' = [entry EXCEPT ![req.key] =
                             [x EXCEPT !.state = "Unsubscribing", !.timer = None, !.id = None]]
             /\ calls' = calls \cup {NewCall("delete", req, [c |-> y.id, gen |-> 0])}
    <3> DEFINE w == [x EXCEPT !.state = "Unsubscribing", !.timer = None, !.id = None]
               call == NewCall("delete", req, [c |-> y.id, gen |-> 0])
    <3>1. w.id = None /\ w.state = "Unsubscribing"
      BY <1>2, <1>3 DEF Entry
    <3>2. call.op = "delete" /\ call.req = req /\ call.on.c = y.id
      BY DEF NewCall
    <3>3. call \notin calls
      <4>1. call.n \in FreeCalls
        BY <2>3 DEF NewCall
      <4>2. QED
        BY <4>1 DEF FreeCalls
    <3>4. entry'[k] = w
      BY <1>1, <1>6, <2>3
    <3>5. calls' = calls \cup {call}
      BY <2>3
    <3> HIDE DEF w, call
    <3>6. HasNoId(entry'[k])
      BY <3>1, <3>4 DEF HasNoId, InProgress
    <3>7. call \in calls' \ calls
      BY <3>3, <3>5
    <3>8. IdIsDeleted(k)
      BY <1>2, <1>6, <3>2, <3>7 DEF IdIsDeleted
    <3>9. QED
      BY <1>4, <3>6, <3>8
  <2>4. QED
    <3>1. \/ n > 0 /\ entry' = [entry EXCEPT ![req.key] = x]
          \/ x.id = None /\ entry' = [entry EXCEPT ![req.key] = Missing]
          \/ /\ x.id # None
             /\ FreeCalls # {}
             /\ entry' = [entry EXCEPT ![req.key] =
                             [x EXCEPT !.state = "Unsubscribing", !.timer = None, !.id = None]]
             /\ calls' = calls \cup {NewCall("delete", req, [c |-> x.id, gen |-> 0])}
      BY <1>2, <1>3, <1>6 DEF RemoveRef, req
    <3>2. QED
      BY <1>3, <2>1, <2>2, <2>3, <3>1
<1>7. QED
  BY <1>5, <1>6

(* While an answer is recorded the IO thread opens no session, so that the *)
(* id an entry gets is that of the one open session, if there is one; and  *)
(* the entry is one somebody holds.                                        *)
MarkInv ==
    marking # None =>
       /\ ~quitting
       /\ \A c \in Conns : conn[c].open => c = marking.on.c
       /\ marking.op = "create" => entry[marking.req.key].refCount # 0

(* Only the answer of a create on a session that Twitch has greeted is     *)
(* accepted, when the IO thread has no request to retry.                   *)
LEMMA AcceptedIsHeld ==
    ASSUME TypeOK, AccountInv, AwaitedAreNew, FreeHasNoId, ~quitting,
           NEW call \in calls, InProgress(entry[call.req.key]), Live(call.on)
    PROVE  entry[call.req.key].refCount # 0
<1>1. call.req.key \in Keys /\ call.on.c \in Conns
  BY RequestsAssumption DEF TypeOK, Call, Weak
<1>2. SUFFICES ASSUME entry[call.req.key].refCount = 0
               PROVE  FALSE
  OBVIOUS
<1>3. ToRetry(call.req.key)
  BY <1>1, <1>2 DEF FreeHasNoId, FreeNow
<1>4. ~IoFree
  BY <1>3 DEF IoFree, ToRetry, KeysOf
<1>5. ~conn[call.on.c].ready
  BY <1>1, <1>4 DEF AccountInv, BusyWithoutSession, NoneIsReady
<1>6. Awaited(call.on.c)
  BY <1>5 DEF Awaited, Live
<1>7. QED
  BY <1>1, <1>6 DEF AwaitedAreNew, Unmentioned

LEMMA AnswersMark ==
    ASSUME TypeOK, AccountInv, AwaitedAreNew, FreeHasNoId, NEW call \in calls, HelixAnswers(call)
    PROVE  MarkInv'
<1>1. /\ call.req \in Requests /\ call.req.key \in Keys /\ call.on \in Weak
      /\ entry[call.req.key] \in Entry
  BY RequestsAssumption DEF TypeOK, Call
<1>2. conn' = conn /\ quitting' = quitting
  BY DEF HelixAnswers, CreateSucceeds, CreateIsRetried, CreateFails, DeleteIsAnswered
<1>3. CASE marking' = None
  BY <1>3 DEF MarkInv
<1>4. ASSUME NEW w, Live(w), w \in Weak, ~quitting, marking'.on = w,
             marking'.op = "create" => entry'[marking'.req.key].refCount # 0
      PROVE  MarkInv'
  <2>1. w.c \in Conns /\ conn[w.c].open
    BY <1>4 DEF Live, Weak
  <2>2. \A c \in Conns : conn[c].open => c = w.c
    BY <2>1 DEF AccountInv, OneSession
  <2>3. QED
    BY <1>2, <1>4, <2>2 DEF MarkInv
<1>5. CASE CreateSucceeds(call)
  <2>1. CASE /\ ~quitting /\ InProgress(entry[call.req.key]) /\ Live(call.on)
             /\ marking' = [op |-> "create", req |-> call.req, on |-> call.on]
    <3>1. entry' = entry
      BY <1>5 DEF CreateSucceeds
    <3>2. entry[call.req.key].refCount # 0
      BY <2>1, AcceptedIsHeld
    <3>3. QED
      BY <1>1, <1>4, <2>1, <3>1, <3>2
  <2>2. QED
    BY <1>3, <1>5, <2>1 DEF CreateSucceeds, InProgress, HelixAnswers, MutexIsFree
<1>6. CASE DeleteIsAnswered(call)
  <2>1. ASSUME NEW w, w = entry[call.req.key].connection, ~quitting, Live(w),
               marking' = [op |-> "delete", req |-> call.req, on |-> w]
        PROVE  MarkInv'
    <3>1. w \in Weak
      BY <1>1, <2>1 DEF Live, Entry
    <3>2. QED
      BY <1>4, <2>1, <3>1
  <2>2. QED
    BY <1>3, <1>6, <2>1 DEF DeleteIsAnswered, HelixAnswers, MutexIsFree
<1>7. QED
  BY <1>3, <1>5, <1>6 DEF HelixAnswers, CreateIsRetried, CreateFails, MutexIsFree

LEMMA MarkInvKept ==
    ASSUME TypeOK, AccountInv, AwaitedAreNew, FreeHasNoId, MarkInv, [Next]_vars
    PROVE  MarkInv'
<1>1. ASSUME marking' = None
      PROVE  MarkInv'
  BY <1>1 DEF MarkInv
<1>2. ASSUME marking' = marking, quitting' = quitting,
             \A k \in Keys : entry'[k].refCount = entry[k].refCount,
             \A c \in Conns : conn'[c].open => conn[c].open
      PROVE  MarkInv'
  <2>1. marking # None => marking.req.key \in Keys
    BY MarkingType
  <2>2. QED
    BY <1>2, <2>1 DEF MarkInv
<1>3. CASE Application
  <2>1. ASSUME NEW h \in Handles, RemoveRef(h) PROVE marking' = marking
    BY <2>1 DEF RemoveRef
  <2>2. ASSUME NEW h \in Handles, NEW req \in Requests, Subscribe(h, req)
        PROVE  marking' = marking
    BY <2>2 DEF Subscribe
  <2>3. QED
    BY <1>1, <1>3, <2>1, <2>2 DEF Application, MutexIsFree, SetQuitting
<1>4. CASE MarkRequest
  BY <1>1, <1>4 DEF MarkRequest, MarkRequestSubscribed, MarkRequestUnsubscribed
<1>5. CASE RunHandler
  BY <1>1, <1>5, RunHandlerMarksNothing
<1>6. ASSUME NEW k \in Keys, TimerExpires(k)
      PROVE  MarkInv'
  <2>1. \A l \in Keys : entry'[l].refCount = entry[l].refCount
    BY <1>6, TimerOfEntries DEF GoesOn
  <2>2. UNCHANGED <<marking, quitting, conn>>
    BY <1>6 DEF TimerExpires
  <2>3. QED
    BY <1>2, <2>1, <2>2
<1>7. ASSUME NEW c \in Conns, Welcome(c) \/ SessionEnds(c) \/ SessionReconnects(c)
      PROVE  MarkInv'
  <2>1. UNCHANGED <<entry, marking, quitting>>
    BY <1>7 DEF Welcome, SessionEnds, SessionReconnects
  <2>2. conn[c].open /\ \A d \in Conns \ {c} : conn'[d] = conn[d]
    BY <1>7 DEF Welcome, SessionEnds, SessionReconnects, TypeOK
  <2>3. QED
    BY <1>2, <2>1, <2>2
<1>8. ASSUME NEW call \in calls, HelixAnswers(call)
      PROVE  MarkInv'
  BY <1>8, AnswersMark
<1>9. ASSUME NEW call \in calls, TwitchAnswers(call) \/ TwitchFaults(call)
      PROVE  MarkInv'
  <2>1. UNCHANGED <<entry, marking, quitting, conn>>
    BY <1>9 DEF TwitchAnswers, TwitchFaults, TwitchCreates, TwitchDeletes, TwitchRefuses,
                TwitchIsLost
  <2>2. QED
    BY <1>2, <2>1
<1>10. CASE UNCHANGED vars
  BY <1>2, <1>10 DEF vars
<1>11. QED
  BY <1>3, <1>4, <1>5, <1>6, <1>7, <1>8, <1>9, <1>10 DEF Next, SessionFaults

(* Only a held entry is given an id, that of the one open session.         *)
LEMMA MarkedOfEntries ==
    ASSUME TypeOK, AccountInv, MarkInv, MarkRequestSubscribed, NEW k \in Keys
    PROVE  /\ IdIsDeleted(k)
           /\ GoesOn(k) \/ entry'[k].refCount # 0
<1>1. /\ marking # None /\ marking.op = "create" /\ marking.req.key \in Keys
      /\ marking.on.c \in Conns /\ entry \in [Keys -> Entry]
  BY MarkingType DEF MarkRequestSubscribed, TypeOK
<1>2. PICK y \in Entry : y = entry[marking.req.key]
  BY <1>1
<1> DEFINE x == [y EXCEPT !.connection = marking.on, !.id = marking.on.c, !.state = "Subscribed"]
<1>3. x.id = marking.on.c /\ x.refCount = y.refCount
  BY DEF Entry
<1>4. entry' = [entry EXCEPT ![marking.req.key] = x]
  BY <1>2 DEF MarkRequestSubscribed
<1> HIDE DEF x
<1>5. CASE k # marking.req.key
  BY <1>1, <1>4, <1>5, OthersGoOn DEF IdIsDeleted
<1>6. CASE k = marking.req.key
  <2>1. entry'[k] = x
    BY <1>1, <1>4, <1>6
  <2>2. y.refCount # 0
    BY <1>1, <1>2 DEF MarkInv
  <2>3. ASSUME entry[k].id # None, k \in twitch[entry[k].id]
        PROVE  entry[k].id = marking.on.c
    <3>1. entry[k].id \in Conns
      BY <1>1, <2>3 DEF Entry
    <3>2. conn[entry[k].id].open
      BY <2>3, <3>1 DEF AccountInv, OpenServe
    <3>3. QED
      BY <1>1, <3>1, <3>2 DEF MarkInv
  <2>4. IdIsDeleted(k)
    BY <1>3, <2>1, <2>3 DEF IdIsDeleted
  <2>5. QED
    BY <1>3, <2>1, <2>2, <2>4
<1>7. QED
  BY <1>5, <1>6

(* The id of an entry that goes on, that is held or that nobody held stays *)
(* or is none.                                                             *)
LEMMA KeptIdIsDeleted ==
    ASSUME FreeHasNoId, NEW k \in Keys, IsHeld(k) \/ IsDropped(k) \/ entry'[k].id = entry[k].id
    PROVE  IdIsDeleted(k)
<1>1. CASE IsDropped(k)
  BY <1>1 DEF IsDropped, FreeHasNoId, FreeNow, IdIsDeleted
<1>2. CASE entry'[k].id = entry[k].id
  BY <1>2 DEF IdIsDeleted
<1>3. QED
  BY <1>1, <1>2 DEF IsHeld

LEMMA FreeStaysFree ==
    ASSUME FreeHasNoId, ~quitting, NEW k \in Keys,
           \/ IsHeld(k) \/ IsDropped(k) \/ entry'[k].refCount # 0 \/ HasNoId(entry'[k])
           \/ GoesOn(k) /\ (ToRetry(k) => ToRetry(k)')
    PROVE  FreeNow(k)'
<1>1. FreeNow(k)
  BY DEF FreeHasNoId, FreeNow
<1>2. CASE IsDropped(k)
  BY <1>2, MissingRefersToNothing DEF IsDropped, FreeNow, InProgress
<1>3. QED
  BY <1>1, <1>2 DEF FreeNow, IsHeld, HasNoId, GoesOn

(* While the application quits, the IO thread drops nothing.               *)
LEMMA RunHandlerQuitting ==
    ASSUME TypeOK, RunHandler, quitting, NEW k \in Keys
    PROVE  entry'[k].id = entry[k].id
<1>0. posted # <<>> => Head(posted).req \in Requests
  <2>1. posted # <<>> => Head(posted) \in Task
    BY DEF TypeOK
  <2>2. QED
    BY <2>1 DEF Task
<1>1. CASE entry' = entry
  BY <1>1
<1>2. ASSUME NEW req \in Requests, NEW isRetry, IoSubscribe(req, isRetry)
      PROVE  entry'[k].id = entry[k].id
  BY <1>2, IoSubscribeGoesOn DEF GoesOn
<1>3. CASE ResetSubscriptions
  BY <1>3, ResetOfEntries
<1>4. QED
  BY <1>0, <1>1, <1>2, <1>3 DEF RunHandler, FinishRetry, RunRetry, RetrySubscription, RunSubscribe,
                          RunTimer, Resubscribe

(* One step, one key: its id goes into a delete, and if nobody holds it    *)
(* any more it has none.                                                   *)
LEMMA StepOfEntries ==
    ASSUME OneAccount, TypeOK, RefCountIsHandles, AwaitedAreNew, AccountInv, FreeHasNoId,
           OneAtATime, MarkInv,
           [Next]_vars, NEW k \in Keys
    PROVE  IdIsDeleted(k) /\ (~quitting' => FreeNow(k)')
<1>0. quitting => quitting'
  BY QuittingStays
<1>2. ASSUME ~quitting,
             IsHeld(k) \/ IsDropped(k) \/ (GoesOn(k) /\ (ToRetry(k) => ToRetry(k)'))
      PROVE  IdIsDeleted(k) /\ FreeNow(k)'
  BY <1>2, KeptIdIsDeleted, FreeStaysFree DEF GoesOn
<1>3. ASSUME entry' = entry, UNCHANGED <<retrying, resubscribing>>
      PROVE  IdIsDeleted(k) /\ (~quitting' => FreeNow(k)')
  <2>1. IdIsDeleted(k)
    BY <1>3 DEF IdIsDeleted
  <2>2. ~quitting => FreeNow(k)
    BY DEF FreeHasNoId, FreeNow
  <2>3. QED
    BY <1>0, <1>3, <2>1, <2>2 DEF FreeNow, ToRetry
<1>4. ASSUME quitting, entry' = entry
      PROVE  IdIsDeleted(k) /\ (~quitting' => FreeNow(k)')
  BY <1>0, <1>4 DEF IdIsDeleted
<1>5. CASE Application
  <2>1. ASSUME NEW h \in Handles, NEW req \in Requests, Subscribe(h, req)
        PROVE  IdIsDeleted(k) /\ (~quitting' => FreeNow(k)')
    <3>1. ~quitting
      BY <2>1 DEF Subscribe
    <3>2. (IsHeld(k) \/ GoesOn(k)) /\ UNCHANGED <<retrying, resubscribing>>
      BY <2>1, SubscribeOfEntries
    <3>3. ToRetry(k) => ToRetry(k)'
      BY <3>2 DEF ToRetry
    <3>4. QED
      BY <1>2, <3>1, <3>2, <3>3
  <2>2. ASSUME NEW h \in Handles, RemoveRef(h)
        PROVE  IdIsDeleted(k) /\ (~quitting' => FreeNow(k)')
    <3>1. /\ IdIsDeleted(k)
          /\ ~quitting => IsHeld(k) \/ GoesOn(k) \/ HasNoId(entry'[k])
          /\ UNCHANGED <<quitting, retrying, resubscribing>>
      BY <2>2, RemoveRefOfEntries
    <3>2. ToRetry(k) => ToRetry(k)'
      BY <3>1 DEF ToRetry
    <3>3. QED
      BY <1>0, <3>1, <3>2, FreeStaysFree
  <2>3. ASSUME SetQuitting
        PROVE  IdIsDeleted(k) /\ (~quitting' => FreeNow(k)')
    BY <1>3, <2>3 DEF SetQuitting, ioVars
  <2>4. QED
    BY <1>5, <2>1, <2>2, <2>3 DEF Application
<1>6. CASE RunHandler
  <2>1. CASE ~quitting /\ ~ResetSubscriptions
    <3>1. IsHeld(k) \/ IsDropped(k) \/ (GoesOn(k) /\ (ToRetry(k) => ToRetry(k)'))
      BY <1>6, <2>1, RunHandlerOfEntries
    <3>2. QED
      BY <1>2, <2>1, <3>1
  <2>2. CASE quitting
    <3>1. entry'[k].id = entry[k].id
      BY <1>6, <2>2, RunHandlerQuitting
    <3>2. QED
      BY <1>0, <2>2, <3>1 DEF IdIsDeleted
  <2>3. CASE ~quitting /\ ResetSubscriptions
    <3>1. /\ entry'[k].refCount = entry[k].refCount /\ entry'[k].id = entry[k].id
          /\ InProgress(entry'[k]) => InProgress(entry[k]) \/ ToRetry(k)'
      BY <2>3, ResetOfEntries
    <3>2. ~ToRetry(k)
      BY <2>3, ResetMoves DEF OneAtATime, ToRetry, KeysOf
    <3>3. IdIsDeleted(k)
      BY <3>1 DEF IdIsDeleted
    <3>4. FreeNow(k)'
      BY <2>3, <3>1, <3>2 DEF FreeHasNoId, FreeNow
    <3>5. QED
      BY <3>3, <3>4
  <2>4. QED
    BY <2>1, <2>2, <2>3
<1>7. ASSUME NEW l \in Keys, TimerExpires(l)
      PROVE  IdIsDeleted(k) /\ (~quitting' => FreeNow(k)')
  <2>1. GoesOn(k)
    BY <1>7, TimerOfEntries
  <2>2. UNCHANGED <<retrying, resubscribing>>
    BY <1>7 DEF TimerExpires
  <2>3. ToRetry(k) => ToRetry(k)'
    BY <2>2 DEF ToRetry
  <2>4. QED
    BY <1>0, <1>2, <2>1, <2>3 DEF GoesOn, IdIsDeleted
<1>8. ASSUME NEW c \in Conns, Welcome(c) \/ SessionEnds(c) \/ SessionReconnects(c)
      PROVE  IdIsDeleted(k) /\ (~quitting' => FreeNow(k)')
  BY <1>3, <1>8 DEF Welcome, SessionEnds, SessionReconnects, ioVars
<1>9. CASE MarkRequest
  <2>1. /\ UNCHANGED <<retrying, resubscribing>> /\ marking # None /\ marking.req \in Requests
        /\ ~quitting
    BY <1>9, MarkingType DEF MarkRequest, MarkRequestSubscribed, MarkRequestUnsubscribed, ioVars,
                             MarkInv
  <2>2. ToRetry(k) => ToRetry(k)'
    BY <2>1 DEF ToRetry
  <2>3. CASE MarkRequestSubscribed
    BY <2>1, <2>2, <2>3, MarkedOfEntries, FreeStaysFree
  <2>4. CASE MarkRequestUnsubscribed
    <3>1. IsHeld(k) \/ IsDropped(k) \/ GoesOn(k)
      BY <2>1, <2>4, ReleaseOfEntries DEF MarkRequestUnsubscribed
    <3>2. QED
      BY <1>2, <2>1, <2>2, <3>1
  <2>5. QED
    BY <1>9, <2>3, <2>4 DEF MarkRequest
<1>10. ASSUME NEW call \in calls, HelixAnswers(call)
       PROVE  IdIsDeleted(k) /\ (~quitting' => FreeNow(k)')
  <2>1. UNCHANGED <<retrying, resubscribing>>
    BY <1>10 DEF HelixAnswers, CreateSucceeds, CreateIsRetried, CreateFails, DeleteIsAnswered, ioVars
  <2>2. ToRetry(k) => ToRetry(k)'
    BY <2>1 DEF ToRetry
  <2>3. CASE ~quitting
    <3>1. IsHeld(k) \/ IsDropped(k) \/ GoesOn(k)
      BY <1>10, <2>3, AnswersOfEntries
    <3>2. QED
      BY <1>2, <2>2, <2>3, <3>1
  <2>4. CASE quitting
    <3>1. entry' = entry
      BY <1>10, <2>4 DEF HelixAnswers, CreateSucceeds, CreateIsRetried, CreateFails,
                         DeleteIsAnswered
    <3>2. QED
      BY <1>4, <2>4, <3>1
  <2>5. QED
    BY <2>3, <2>4
<1>11. ASSUME NEW call \in calls, TwitchAnswers(call) \/ TwitchFaults(call)
       PROVE  IdIsDeleted(k) /\ (~quitting' => FreeNow(k)')
  <2>1. entry' = entry /\ UNCHANGED <<retrying, resubscribing>>
    BY <1>11 DEF TwitchAnswers, TwitchFaults, TwitchCreates, TwitchDeletes, TwitchRefuses,
                 TwitchIsLost, ioVars
  <2>2. QED
    BY <1>3, <2>1
<1>12. CASE UNCHANGED vars
  BY <1>3, <1>12 DEF vars, ioVars
<1>13. QED
  BY <1>5, <1>6, <1>7, <1>8, <1>9, <1>10, <1>11, <1>12 DEF Next, SessionFaults

(* While every request is of one account, the id of a subscription Twitch  *)
(* has leaves the entry only into a delete call: no interleaving of late   *)
(* answers, retries, lost sessions and handles that go makes the           *)
(* application forget a subscription it could still delete.                *)
THEOREM ServedIdsAreDeleted == OneAccount => (Spec => IdsAreDeleted)
<1> SUFFICES ASSUME OneAccount PROVE Spec => IdsAreDeleted
  OBVIOUS
<1> DEFINE Inv == AccountInv /\ FreeHasNoId /\ MarkInv
<1>1. Init => Inv
  <2> SUFFICES ASSUME Init PROVE Inv
    OBVIOUS
  <2>1. \A c \in Conns : /\ ~conn[c].open /\ ~conn[c].ready /\ conn[c].user = None
                         /\ conn[c].auth = None /\ twitch[c] = {}
    BY DEF Init, Closed
  <2>2. AccountInv
    BY <2>1 DEF AccountInv, OneSession, OpenServe, OpenAreListed, ReadyAreOpen, Compatible,
                CanHandle, BusyWithoutSession, NoneIsReady, LostIsClosed
  <2>3. FreeHasNoId
    BY MissingRefersToNothing DEF Init, FreeHasNoId, FreeNow, InProgress
  <2>4. MarkInv
    BY DEF Init, MarkInv
  <2>5. QED
    BY <2>2, <2>3, <2>4
<1>2. /\ TypeOK /\ OneAtATime /\ RefCountIsHandles /\ AwaitedAreNew /\ Inv /\ [Next]_vars
      => Inv' /\ [\A k \in Keys : IdIsDeleted(k)]_vars
  <2> SUFFICES ASSUME TypeOK, OneAtATime, RefCountIsHandles, AwaitedAreNew, Inv, [Next]_vars
               PROVE  Inv' /\ \A k \in Keys : IdIsDeleted(k)
    OBVIOUS
  <2>1. AccountInv'
    BY AccountInvKept
  <2>2. \A k \in Keys : IdIsDeleted(k) /\ (~quitting' => FreeNow(k)')
    BY StepOfEntries
  <2>3. FreeHasNoId'
    BY <2>2 DEF FreeHasNoId, FreeNow
  <2>4. MarkInv'
    BY MarkInvKept
  <2>5. QED
    BY <2>1, <2>2, <2>3, <2>4
<1>3. Spec => [][\A k \in Keys : IdIsDeleted(k)]_vars
  BY <1>1, <1>2, TypeCorrect, OneHandlerAtATime, CountsAreHandles, AwaitedStayNew, PTL DEF Spec
<1>4. QED
  BY <1>3 DEF IdsAreDeleted, IdIsDeleted
=============================================================================
