------------------------- MODULE SeventvChannelsProofs -------------------------
(* Theorems about SeventvChannels, for every set of channels, users and emote  *)
(* sets and every number of pushes.                                            *)
EXTENDS SeventvChannels, TLAPS

LEMMA ChannelType ==
    ASSUME TypeOK, NEW c \in Channels
    PROVE  /\ chan[c] \in Channel
           /\ Ids(c) \in SUBSET (Users \cup Sets)
           /\ {chan[c].set} \ {None} \in SUBSET Sets
  BY DEF TypeOK, Channel, Ids

LEMMA JobsType ==
    ASSUME TypeOK, jobs # << >>
    PROVE  /\ Head(jobs) \in Job /\ Tail(jobs) \in Seq(Job)
           /\ Head(jobs).chan \in Channels /\ Head(jobs).old \in SUBSET Sets
           /\ \A c \in Channels \ {Head(jobs).chan} :
                 PostedFor(c) <=> \E i \in DOMAIN Tail(jobs) : Tail(jobs)[i].chan = c
<1>1. /\ jobs \in Seq(Job) /\ Len(jobs) \in Nat \ {0}
      /\ Head(jobs) \in Job /\ Head(jobs) = jobs[1] /\ Tail(jobs) \in Seq(Job)
      /\ DOMAIN jobs = 1 .. Len(jobs) /\ DOMAIN Tail(jobs) = 1 .. Len(jobs) - 1
      /\ \A i \in 1 .. Len(jobs) - 1 : Tail(jobs)[i] = jobs[i + 1]
  BY DEF TypeOK
<1>2. ASSUME NEW c \in Channels \ {Head(jobs).chan},
             NEW i \in DOMAIN jobs, jobs[i].chan = c
      PROVE  \E j \in DOMAIN Tail(jobs) : Tail(jobs)[j].chan = c
  <2>1. i - 1 \in 1 .. Len(jobs) - 1 /\ (i - 1) + 1 = i
    BY <1>1, <1>2
  <2> QED
    BY <1>1, <1>2, <2>1
<1>3. ASSUME NEW c \in Channels, NEW j \in DOMAIN Tail(jobs), Tail(jobs)[j].chan = c
      PROVE  PostedFor(c)
  <2>1. j + 1 \in DOMAIN jobs
    BY <1>1
  <2> QED
    BY <1>1, <1>3, <2>1 DEF PostedFor
<1> QED
  BY <1>1, <1>2, <1>3 DEF PostedFor, Job

LEMMA PostType ==
    ASSUME TypeOK, NEW job \in Job, jobs' = Append(jobs, job)
    PROVE  /\ jobs' \in Seq(Job)
           /\ PostedFor(job.chan)'
           /\ \A c \in Channels \ {job.chan} : PostedFor(c)' <=> PostedFor(c)
<1>1. /\ jobs' \in Seq(Job) /\ Len(jobs) \in Nat
      /\ DOMAIN jobs = 1 .. Len(jobs) /\ DOMAIN jobs' = 1 .. Len(jobs) + 1
      /\ jobs'[Len(jobs) + 1] = job
      /\ \A i \in 1 .. Len(jobs) : jobs'[i] = jobs[i]
  BY DEF TypeOK
<1>2. /\ Len(jobs) + 1 \in 1 .. Len(jobs) + 1
      /\ 1 .. Len(jobs) + 1 = 1 .. Len(jobs) \cup {Len(jobs) + 1}
  BY <1>1
<1>3. \E i \in DOMAIN jobs' : jobs'[i].chan = job.chan
  BY <1>1, <1>2
<1>4. ASSUME NEW c \in Channels, c # job.chan
      PROVE  (\E i \in DOMAIN jobs' : jobs'[i].chan = c) <=> (\E i \in DOMAIN jobs : jobs[i].chan = c)
  BY <1>1, <1>2, <1>4
<1> QED
  BY <1>1, <1>3, <1>4 DEF PostedFor

-----------------------------------------------------------------------------
(* Types *)

LEMMA OpenType == ASSUME TypeOK, NEW c \in Channels, Open(c) PROVE TypeOK'
  BY DEF TypeOK, Open, Channel, Unborn, States

LEMMA LoadedType ==
    ASSUME TypeOK, NEW c \in Channels, NEW user \in Users, NEW set \in Sets \cup {None},
           Loaded(c, user, set)
    PROVE  TypeOK'
<1>1. chan' \in [Channels -> Channel]
  BY DEF TypeOK, Loaded, Channel
<1>2. subscribed' \in SUBSET (Users \cup Sets) /\ dropping' \in SUBSET (Users \cup Sets)
  BY ChannelType DEF TypeOK, Loaded, SubscribeUser, GivenUp
<1> QED
  BY <1>1, <1>2 DEF TypeOK, Loaded

LEMMA DropType == ASSUME TypeOK, DropSeventvChannel PROVE TypeOK'
  BY DEF TypeOK, DropSeventvChannel, Unsubscribe

LEMMA CloseType == ASSUME TypeOK, NEW c \in Channels, Close(c) PROVE TypeOK'
<1>1. chan' \in [Channels -> Channel]
  BY DEF TypeOK, Close, Channel, States
<1>2. dropping' \in SUBSET (Users \cup Sets)
  BY ChannelType DEF TypeOK, Close, Released
<1> QED
  BY <1>1, <1>2 DEF TypeOK, Close

LEMMA PushType == ASSUME TypeOK, NEW c \in Channels, NEW set \in Sets, Push(c, set) PROVE TypeOK'
<1>1. pushes' \in 0 .. MaxPushes
  BY BoundAssumption DEF TypeOK, Push
<1>2. pushing' \in Visit \cup {None}
  BY ChannelType DEF TypeOK, Push, Visit
<1>3. fetches' \in SUBSET Fetch
  BY DEF TypeOK, Push, Fetch
<1> QED
  BY <1>1, <1>2, <1>3 DEF TypeOK, Push

LEMMA PushIsDoneType == ASSUME TypeOK, PushIsDone PROVE TypeOK'
<1>1. pushing \in Visit /\ pushing.chan \in Channels /\ pushing.set \in Sets /\ pushing.old \in SUBSET Sets
  BY DEF TypeOK, PushIsDone, Visit
<1>2. chan' \in [Channels -> Channel]
  <2>1. chan[pushing.chan] \in Channel
    BY <1>1, ChannelType
  <2>2. PICK state \in States :
          chan' = [chan EXCEPT ![pushing.chan].set = pushing.set, ![pushing.chan].state = state]
    BY <2>1 DEF PushIsDone, Channel, States
  <2>3. \A d \in Channel : [[d EXCEPT !.set = pushing.set] EXCEPT !.state = state] \in Channel
    BY <1>1 DEF Channel
  <2> QED
    BY <1>1, <2>1, <2>2, <2>3 DEF TypeOK
<1>6. stuck' \in BOOLEAN
  BY DEF PushIsDone
<1>3. [chan |-> pushing.chan, old |-> pushing.old] \in Job
  BY <1>1 DEF Job
<1>4. jobs' \in Seq(Job)
  BY <1>3, PostType DEF PushIsDone
<1>5. fetches' \in SUBSET Fetch
  BY <1>1 DEF TypeOK, PushIsDone, Fetch
<1> QED
  BY <1>2, <1>4, <1>5, <1>6 DEF TypeOK, PushIsDone

LEMMA RunJobType == ASSUME TypeOK, RunJob PROVE TypeOK'
  BY JobsType, ChannelType DEF TypeOK, RunJob, SubscribeUser

LEMMA FetchedType ==
    ASSUME TypeOK, NEW f \in fetches, Fetched(f) \/ FetchFails(f)
    PROVE  TypeOK'
<1>1. f.chan \in Channels /\ f.set \in Sets
  BY DEF TypeOK, Fetch
<1>2. chan' \in [Channels -> Channel]
  BY <1>1 DEF TypeOK, Fetched, FetchFails, Channel
<1> QED
  BY <1>2 DEF TypeOK, Fetched, FetchFails

(* Each variable keeps its type.                                               *)
THEOREM TypeCorrect == Spec => []TypeOK
<1>1. Init => TypeOK
  <2> SUFFICES ASSUME Init PROVE TypeOK
    OBVIOUS
  <2>1. Unborn \in Channel
    BY DEF Unborn, Channel, States
  <2>2. chan \in [Channels -> Channel]
    BY <2>1 DEF Init
  <2>3. jobs \in Seq(Job)
    BY DEF Init
  <2>4. pushes \in 0 .. MaxPushes
    BY BoundAssumption DEF Init
  <2> QED
    BY <2>2, <2>3, <2>4 DEF Init, TypeOK
<1>2. TypeOK /\ [Next]_vars => TypeOK'
  <2> SUFFICES ASSUME TypeOK, [Next]_vars PROVE TypeOK'
    OBVIOUS
  <2>1. CASE GuiThread
    BY <2>1, OpenType, LoadedType, DropType, CloseType, RunJobType, FetchedType DEF GuiThread
  <2>2. CASE SocketThread
    BY <2>2, PushType, PushIsDoneType DEF SocketThread
  <2>3. CASE UNCHANGED vars
    BY <2>3 DEF TypeOK, vars
  <2> QED
    BY <2>1, <2>2, <2>3 DEF Next
<1> QED
  BY <1>1, <1>2, PTL DEF Spec

-----------------------------------------------------------------------------
(* Nothing lingers *)

(* The channels that account for what is subscribed.                           *)
InUse(c) == Alive(c) \/ LeftBehind(c)

(* Before the first push nothing comes from the thread of the socket.          *)
Quiet == pushes = 0 => pushing = None /\ jobs = << >> /\ fetches = {}

(* updateSeventvData, the destructors and dropSeventvChannel: while no push    *)
(* has come, what is subscribed is in use, left behind by a Kick channel or    *)
(* about to be dropped.                                                        *)
THEOREM NoneLingers == Spec => []NothingLingers
<1>1. Init => Quiet /\ NothingLingers
  BY DEF Init, Quiet, NothingLingers
<1>2. TypeOK /\ Quiet /\ NothingLingers /\ [Next]_vars => Quiet' /\ NothingLingers'
  <2> SUFFICES ASSUME TypeOK, Quiet, NothingLingers, [Next]_vars, pushes' = 0
               PROVE  /\ pushing' = None /\ jobs' = << >> /\ fetches' = {}
                      /\ NothingLingers'
    BY DEF Quiet, NothingLingers
  <2>1. pushes \in Nat
    BY BoundAssumption DEF TypeOK
  <2>2. ASSUME NEW c \in Channels, NEW set \in Sets, Push(c, set) PROVE FALSE
    BY <2>1, <2>2 DEF Push
  <2>3. pushes = 0 \/ PushIsDone
    BY <2>2 DEF Next, GuiThread, SocketThread, Open, Close, Loaded, DropSeventvChannel,
       RunJob, Fetched, FetchFails, vars
  <2>4. pushes = 0
    BY <2>3 DEF PushIsDone
  <2>5. pushing = None /\ jobs = << >> /\ fetches = {}
    BY <2>4 DEF Quiet
  <2>6. \A c \in Channels : ~Referred(c)
    BY <2>5 DEF Referred
  <2>7. ASSUME NEW id \in subscribed
        PROVE  id \in dropping \/ \E c \in Channels : InUse(c) /\ id \in Ids(c)
    BY <2>4 DEF NothingLingers, InUse
  <2>8. SUFFICES ASSUME NEW id \in subscribed'
                 PROVE  id \in dropping' \/ \E c \in Channels : InUse(c)' /\ id \in Ids(c)'
    <3>1. CASE UNCHANGED vars
      BY <2>5, <2>8, <3>1 DEF NothingLingers, InUse, vars
    <3>2. CASE GuiThread
      BY <2>5, <2>8, <3>2 DEF NothingLingers, InUse, GuiThread, Open, Close, Loaded,
         DropSeventvChannel, RunJob, Fetched, FetchFails
    <3> QED
      BY <2>2, <2>5, <3>1, <3>2 DEF Next, SocketThread, PushIsDone
  <2>9. ASSUME NEW c \in Channels, Open(c)
        PROVE  id \in dropping' \/ \E d \in Channels : InUse(d)' /\ id \in Ids(d)'
    <3>1. id \in subscribed /\ dropping' = dropping /\ ~Alive(c) /\ ~LeftBehind(c)
          /\ \A d \in Channels : d # c => chan'[d] = chan[d]
      BY <2>9, ChannelsAssumption DEF Open, Alive, LeftBehind, TypeOK
    <3> QED
      BY <2>7, <3>1 DEF InUse, Alive, LeftBehind, Ids
  <2>10. ASSUME NEW c \in Channels, NEW user \in Users, NEW set \in Sets \cup {None},
                Loaded(c, user, set)
         PROVE  id \in dropping' \/ \E d \in Channels : InUse(d)' /\ id \in Ids(d)'
    <3>1. /\ chan'[c].user = user /\ chan'[c].set = set /\ chan'[c].state = chan[c].state
          /\ chan[c].state = "open" /\ dropping = {}
          /\ \A d \in Channels : d # c => chan'[d] = chan[d]
      BY <2>10, ChannelType DEF Loaded, TypeOK, GuiFree, Channel
    <3>2. Alive(c)' /\ Ids(c)' = {user, set} \ {None}
      BY <3>1 DEF Alive, Ids
    <3>3. CASE user = chan[c].user /\ set = chan[c].set
      <4>1. id \in subscribed /\ dropping' = {}
        BY <2>10, <3>1, <3>3 DEF Loaded
      <4> QED
        BY <2>7, <3>1, <3>3, <4>1 DEF InUse, Alive, LeftBehind, Ids
    <3>4. CASE user # chan[c].user \/ set # chan[c].set
      <4>1. /\ subscribed' = subscribed \cup ({user, set} \ {None})
            /\ dropping' = Ids(c) \ {user, set}
        BY <2>10, <3>4 DEF Loaded, SubscribeUser, GivenUp
      <4>2. CASE id \in {user, set} \ {None}
        BY <3>2, <4>2 DEF InUse
      <4>3. CASE id \notin {user, set} \ {None}
        <5>1. PICK d \in Channels : InUse(d) /\ id \in Ids(d)
          BY <2>7, <3>1, <4>1, <4>3
        <5>2. CASE d = c
          BY <4>1, <4>3, <5>1, <5>2 DEF Ids
        <5>3. CASE d # c
          BY <3>1, <5>1, <5>3 DEF InUse, Alive, LeftBehind, Ids
        <5> QED
          BY <5>2, <5>3
      <4> QED
        BY <4>2, <4>3
    <3> QED
      BY <3>3, <3>4
  <2>11. ASSUME DropSeventvChannel
         PROVE  id \in dropping' \/ \E d \in Channels : InUse(d)' /\ id \in Ids(d)'
    <3>1. /\ id \in subscribed /\ (id \in dropping => Needed(id)) /\ chan' = chan
      BY <2>11 DEF DropSeventvChannel, Unsubscribe
    <3>2. Needed(id) => \E d \in Channels : InUse(d) /\ id \in Ids(d)
      <4>1. ASSUME Needed(id) PROVE \E d \in Channels : InUse(d) /\ id \in Ids(d)
        <5>1. PICK d \in Listed : Alive(d) /\ id \in {chan[d].user, chan[d].set}
          BY <4>1 DEF Needed
        <5>2. id # None
          BY <3>1, IdsAssumption DEF TypeOK
        <5> QED
          BY <5>1, <5>2 DEF InUse, Ids, Channels, Twitch
      <4> QED
        BY <4>1
    <3> QED
      BY <2>7, <3>1, <3>2 DEF InUse, Alive, LeftBehind, Ids
  <2>12. ASSUME NEW c \in Channels, Close(c)
         PROVE  id \in dropping' \/ \E d \in Channels : InUse(d)' /\ id \in Ids(d)'
    <3>1. /\ id \in subscribed /\ dropping = {} /\ dropping' = Released(c)
          /\ chan' = [chan EXCEPT ![c].state = "destroyed"]
      BY <2>6, <2>12 DEF Close, GuiFree
    <3>2. /\ \A d \in Channels : d # c => chan'[d] = chan[d]
          /\ chan'[c].state = "destroyed" /\ chan'[c].user = chan[c].user /\ chan'[c].set = chan[c].set
      BY <3>1, ChannelType DEF TypeOK, Channel
    <3>3. PICK d \in Channels : InUse(d) /\ id \in Ids(d)
      BY <2>7, <3>1
    <3>4. CASE d # c
      BY <3>2, <3>3, <3>4 DEF InUse, Alive, LeftBehind, Ids
    <3>5. CASE d = c /\ c \in Twitch
      BY <3>1, <3>3, <3>5 DEF Released
    <3>6. CASE d = c /\ c \in Kick
      BY <3>2, <3>3, <3>6 DEF InUse, LeftBehind, Ids
    <3> QED
      BY <3>4, <3>5, <3>6 DEF Channels
  <2>13. CASE UNCHANGED vars
    BY <2>7, <2>13 DEF vars, InUse, Alive, LeftBehind, Ids
  <2> QED
    BY <2>2, <2>5, <2>9, <2>10, <2>11, <2>12, <2>13
       DEF Next, GuiThread, SocketThread, PushIsDone, RunJob
<1> QED
  BY <1>1, <1>2, TypeCorrect, PTL DEF Spec

-----------------------------------------------------------------------------
(* The refinement *)

(* What a channel relies on when the channel itself does not change, nor       *)
(* whether something is posted for it.                                         *)
LEMMA SameReliance ==
    ASSUME NEW c \in Channels, chan'[c] = chan[c], PostedFor(c)' <=> PostedFor(c)
    PROVE  ReliesOn(c)' = ReliesOn(c)
  BY DEF ReliesOn, Ids

(* A step after which one channel relies on other names, all subscribed, and   *)
(* nothing is dropped.                                                         *)
LEMMA TakeStep ==
    ASSUME TypeOK, TypeOK', NEW c \in Channels, subscribed \subseteq subscribed',
           ReliesOn(c)' \subseteq subscribed',
           \A d \in Channels : d # c => ReliesOn(d)' = ReliesOn(d)
    PROVE  [Shared!Next]_(Shared!vars)
<1> DEFINE more == subscribed'
<1>1. subscribed' = subscribed \cup more /\ more \in SUBSET (Users \cup Sets)
  BY DEF TypeOK
<1>2. CASE c \in Listed
  <2>1. [d \in Listed |-> ReliesOn(d)'] =
           [[d \in Listed |-> ReliesOn(d)] EXCEPT ![c] = ReliesOn(c)']
    BY <1>2 DEF Channels, Twitch
  <2>2. Shared!Take(c)
    BY <1>1, <2>1 DEF Shared!Take
  <2> QED
    BY <1>2, <2>2 DEF Shared!Next
<1>3. CASE c \notin Listed
  <2>1. [d \in Listed |-> ReliesOn(d)'] = [d \in Listed |-> ReliesOn(d)]
    BY <1>3 DEF Channels, Twitch
  <2>2. Shared!Subscribe
    BY <1>1, <2>1 DEF Shared!Subscribe
  <2> QED
    BY <2>2 DEF Shared!Next
<1> QED
  BY <1>2, <1>3

(* The same for a step that leaves alone what every channel relies on.         *)
LEMMA SubscribeStep ==
    ASSUME TypeOK, TypeOK', subscribed \subseteq subscribed',
           \A d \in Channels : ReliesOn(d)' = ReliesOn(d)
    PROVE  [Shared!Next]_(Shared!vars)
<1>1. subscribed' = subscribed \cup subscribed' /\ subscribed' \in SUBSET (Users \cup Sets)
  BY DEF TypeOK
<1>2. [d \in Listed |-> ReliesOn(d)'] = [d \in Listed |-> ReliesOn(d)]
  BY DEF Channels, Twitch
<1>3. Shared!Subscribe
  BY <1>1, <1>2 DEF Shared!Subscribe
<1> QED
  BY <1>3 DEF Shared!Next

LEMMA OpenRefines ==
    ASSUME TypeOK, TypeOK', NEW c \in Channels, Open(c)
    PROVE  [Shared!Next]_(Shared!vars)
<1>1. subscribed' = subscribed /\ jobs' = jobs /\ chan'[c] = [Unborn EXCEPT !.state = "open"]
      /\ \A d \in Channels : d # c => chan'[d] = chan[d]
  BY DEF Open, TypeOK
<1>2. \A d \in Channels : PostedFor(d)' <=> PostedFor(d)
  BY <1>1 DEF PostedFor
<1>3. ReliesOn(c)' = {}
  BY <1>1 DEF ReliesOn, Ids, Unborn
<1>4. \A d \in Channels : d # c => ReliesOn(d)' = ReliesOn(d)
  BY <1>1, <1>2, SameReliance
<1> QED
  BY <1>1, <1>3, <1>4, TakeStep

LEMMA LoadedRefines ==
    ASSUME TypeOK, TypeOK', NEW c \in Channels, NEW user \in Users,
           NEW set \in Sets \cup {None}, Loaded(c, user, set)
    PROVE  [Shared!Next]_(Shared!vars)
<1>1. /\ chan[c].state = "open" /\ chan'[c].state = "open"
      /\ chan'[c].user = user /\ chan'[c].set = set /\ jobs' = jobs
      /\ \A d \in Channels : d # c => chan'[d] = chan[d]
  BY ChannelType DEF Loaded, TypeOK, Channel
<1>2. \A d \in Channels : PostedFor(d)' <=> PostedFor(d)
  BY <1>1 DEF PostedFor
<1>3. \A d \in Channels : d # c => ReliesOn(d)' = ReliesOn(d)
  BY <1>1, <1>2, SameReliance
<1>4. CASE user = chan[c].user /\ set = chan[c].set
  <2>1. ReliesOn(c)' = ReliesOn(c) /\ subscribed' = subscribed
    BY <1>1, <1>2, <1>4 DEF ReliesOn, Ids, Loaded
  <2> QED
    BY <1>3, <2>1, SubscribeStep
<1>5. CASE user # chan[c].user \/ set # chan[c].set
  <2>1. subscribed' = subscribed \cup ({user, set} \ {None})
    BY <1>5 DEF Loaded, SubscribeUser
  <2>2. ReliesOn(c)' \subseteq {user, set} \ {None}
    BY <1>1 DEF ReliesOn, Ids
  <2> QED
    BY <1>3, <2>1, <2>2, TakeStep
<1> QED
  BY <1>4, <1>5

LEMMA DropRefines ==
    ASSUME TypeOK, DropSeventvChannel
    PROVE  [Shared!Next]_(Shared!vars)
<1> DEFINE fewer == {id \in dropping : ~Needed(id)}
<1>1. subscribed' = subscribed \ fewer /\ fewer \in SUBSET (Users \cup Sets)
  BY DEF DropSeventvChannel, Unsubscribe, TypeOK
<1>2. \A d \in Channels : ReliesOn(d)' = ReliesOn(d)
  BY DEF DropSeventvChannel, ReliesOn, Ids, PostedFor
<1>3. [d \in Listed |-> ReliesOn(d)'] = [d \in Listed |-> ReliesOn(d)]
  BY <1>2 DEF Channels, Twitch
<1>4. \A d \in Listed : ReliesOn(d) \cap fewer = {}
  BY DEF ReliesOn, Ids, Needed, Alive
<1> HIDE DEF fewer
<1>5. Shared!Unsubscribe
  BY <1>1, <1>3, <1>4 DEF Shared!Unsubscribe
<1> QED
  BY <1>5 DEF Shared!Next

LEMMA CloseRefines ==
    ASSUME TypeOK, TypeOK', NEW c \in Channels, Close(c)
    PROVE  [Shared!Next]_(Shared!vars)
<1>1. /\ subscribed' = subscribed /\ jobs' = jobs
      /\ chan'[c].state # "open"
      /\ \A d \in Channels : d # c => chan'[d] = chan[d]
  BY ChannelType DEF Close, TypeOK, Channel
<1>2. \A d \in Channels : PostedFor(d)' <=> PostedFor(d)
  BY <1>1 DEF PostedFor
<1>3. ReliesOn(c)' = {}
  BY <1>1 DEF ReliesOn
<1>4. \A d \in Channels : d # c => ReliesOn(d)' = ReliesOn(d)
  BY <1>1, <1>2, SameReliance
<1> QED
  BY <1>1, <1>3, <1>4, TakeStep

LEMMA PushIsDoneRefines ==
    ASSUME TypeOK, TypeOK', PushIsDone
    PROVE  [Shared!Next]_(Shared!vars)
<1>1. PICK job \in Job : job = [chan |-> pushing.chan, old |-> pushing.old]
  BY DEF PushIsDone, TypeOK, Visit, Job
<1>2. PICK c \in Channels : c = pushing.chan /\ job.chan = c
  BY <1>1 DEF PushIsDone, TypeOK, Visit
<1>3. subscribed' = subscribed /\ jobs' = Append(jobs, job)
      /\ \A d \in Channels : d # c => chan'[d] = chan[d]
  BY <1>1, <1>2 DEF PushIsDone, TypeOK
<1>4. /\ PostedFor(c)'
      /\ \A d \in Channels : d # c => (PostedFor(d)' <=> PostedFor(d))
  BY <1>2, <1>3, PostType
<1>5. ReliesOn(c)' = {}
  BY <1>4 DEF ReliesOn
<1>6. \A d \in Channels : d # c => ReliesOn(d)' = ReliesOn(d)
  BY <1>3, <1>4, SameReliance
<1> QED
  BY <1>3, <1>5, <1>6, TakeStep

LEMMA RunJobRefines ==
    ASSUME TypeOK, TypeOK', RunJob
    PROVE  [Shared!Next]_(Shared!vars)
<1>1. PICK e \in Channels : e = Head(jobs).chan
  BY JobsType DEF RunJob
<1>2. /\ subscribed' = subscribed \cup (Ids(e) \ {None}) /\ chan' = chan /\ jobs' = Tail(jobs)
      /\ \A d \in Channels : d # e => (PostedFor(d)' <=> PostedFor(d))
  BY <1>1, JobsType DEF RunJob, SubscribeUser, PostedFor
<1>3. \A d \in Channels : d # e => ReliesOn(d)' = ReliesOn(d)
  BY <1>2, SameReliance
<1>4. ReliesOn(e)' \subseteq Ids(e) \ {None}
  BY <1>2 DEF ReliesOn, Ids
<1> QED
  BY <1>2, <1>3, <1>4, TakeStep

LEMMA FetchedRefines ==
    ASSUME TypeOK, TypeOK', NEW f \in fetches, Fetched(f) \/ FetchFails(f)
    PROVE  [Shared!Next]_(Shared!vars)
<1>1. f.chan \in Channels
  BY DEF TypeOK, Fetch
<1>2. /\ subscribed' = subscribed /\ jobs' = jobs
      /\ \A d \in Channels : /\ chan'[d].state = chan[d].state
                             /\ chan'[d].user = chan[d].user /\ chan'[d].set = chan[d].set
  BY <1>1, ChannelType DEF Fetched, FetchFails, TypeOK, Channel
<1>3. \A d \in Channels : ReliesOn(d)' = ReliesOn(d)
  BY <1>2 DEF ReliesOn, Ids, PostedFor
<1> QED
  BY <1>2, <1>3, SubscribeStep

LEMMA PushRefines ==
    ASSUME TypeOK, TypeOK', NEW c \in Channels, NEW set \in Sets, Push(c, set)
    PROVE  [Shared!Next]_(Shared!vars)
<1>1. subscribed' = subscribed /\ jobs' = jobs /\ chan' = chan
  BY DEF Push
<1>2. \A d \in Channels : ReliesOn(d)' = ReliesOn(d)
  BY <1>1 DEF ReliesOn, Ids, PostedFor
<1> QED
  BY <1>1, <1>2, SubscribeStep

(* updateSeventvData, updateSeventvUser and dropSeventvChannel, on the GUI     *)
(* thread and the thread of the socket, implement what sharing subscriptions   *)
(* promises to the channels of TwitchIrcServer.                                *)
THEOREM SharingIsSafe == Spec => ListedAreServed
<1>1. Init => Shared!Init
  <2> SUFFICES ASSUME Init PROVE Shared!Init
    OBVIOUS
  <2>1. \A c \in Channels : ReliesOn(c) = {}
    BY DEF Init, ReliesOn, Ids, Unborn
  <2> QED
    BY <2>1 DEF Init, Shared!Init, Channels, Twitch
<1>2. TypeOK /\ TypeOK' /\ [Next]_vars => [Shared!Next]_(Shared!vars)
  <2> SUFFICES ASSUME TypeOK, TypeOK', [Next]_vars PROVE [Shared!Next]_(Shared!vars)
    OBVIOUS
  <2>1. CASE GuiThread
    BY <2>1, OpenRefines, CloseRefines, LoadedRefines, DropRefines, RunJobRefines, FetchedRefines
       DEF GuiThread
  <2>2. CASE SocketThread
    BY <2>2, PushRefines, PushIsDoneRefines DEF SocketThread
  <2>3. CASE UNCHANGED vars
    <3>1. \A d \in Channels : ReliesOn(d)' = ReliesOn(d)
      BY <2>3 DEF vars, ReliesOn, Ids, PostedFor
    <3> QED
      BY <2>3, <3>1, SubscribeStep DEF vars
  <2> QED
    BY <2>1, <2>2, <2>3 DEF Next
<1> QED
  BY <1>1, <1>2, TypeCorrect, PTL DEF Spec, ListedAreServed, Shared!Spec

(* A channel of TwitchIrcServer is subscribed to all it relies on.             *)
THEOREM ListedHaveTheirs == Spec => [](\A c \in Listed : ReliesOn(c) \subseteq subscribed)
<1> DEFINE Served == \A c \in Listed : [d \in Listed |-> ReliesOn(d)][c] \subseteq subscribed
<1>1. Shared!Init => Served
  BY DEF Shared!Init
<1>2. Served /\ [Shared!Next]_(Shared!vars) => Served'
  BY DEF Shared!Next, Shared!Take, Shared!Subscribe, Shared!Unsubscribe, Shared!vars
<1>3. Served => \A c \in Listed : ReliesOn(c) \subseteq subscribed
  OBVIOUS
<1> HIDE DEF Served
<1> QED
  BY <1>1, <1>2, <1>3, SharingIsSafe, PTL DEF ListedAreServed, Shared!Spec
=============================================================================
