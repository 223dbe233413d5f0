------------------------ MODULE ReadConnectionPoolProofs ------------------------
(* Theorems about ReadConnectionPool, for every set of channels, budget,     *)
(* number of channels to a connection and bound on the faults.               *)
EXTENDS ReadConnectionPool, FiniteSetTheorems, TLAPS

(* A connection that is on its way or up does not expect to be lost, and     *)
(* nothing is joined before the welcome.                                     *)
Sane(c) ==
  /\ c \in Connection
  /\ c.status # "off" => ~c.expected
  /\ c.status # "connected" => c.joined = {}

(* What the inductive invariant needs besides the properties of the module.  *)
Support ==
  /\ \A i \in Ids : Sane(conn[i])
  /\ kind # "multi" => live = {Sole}
  /\ kind = "multi" => bucket.queue = << >> /\ bucket.running = 0
  /\ kind = "anonymous" /\ started /\ conn[Sole].status = "off" => conn[Sole].retry
  /\ ensures <= faults
  /\ kind # "anonymous" => ensures = 0

IInv == TypeOK /\ RateKept /\ LossIsPursued /\ JoinedOrQueued /\ PoolIsTidy /\ Support

-----------------------------------------------------------------------------
(* The connection *)

(* A step of a connection that joins nothing: d is c after it.               *)
Quiet(c, d) ==
  /\ Sane(d)
  /\ d.status = "connected" => c.status = "connected" /\ d.joined = c.joined

LEMMA NewIsSane == Sane(NewConnection) /\ NewConnection.status = "off"
  BY DEF Sane, NewConnection, Connection

LEMMA OpenIsQuiet ==
    ASSUME NEW c, Sane(c)
    PROVE  Quiet(c, Open(c)) /\ Open(c).status # "off"
  BY DEF Quiet, Sane, Open, Connection

LEMMA UnconnectedIsQuiet ==
    ASSUME NEW c, c \in Connection
    PROVE  /\ Quiet(c, Unconnected(c)) /\ Unconnected(c).status = "off"
           /\ ~c.expected => Unconnected(c).retry
  BY DEF Quiet, Sane, Unconnected, SmartReconnect, Connection

LEMMA CloseIsQuiet ==
    ASSUME NEW c, Sane(c)
    PROVE  Quiet(c, Close(c)) /\ Close(c).status = "off"
<1> DEFINE closing == [c EXCEPT !.expected = TRUE]
<1>1. closing \in Connection /\ closing.status = c.status
  BY DEF Sane, Connection
<1>2. CASE c.status = "off"
  BY <1>2 DEF Quiet, Sane, Close, Connection
<1>3. CASE c.status # "off"
  <2>1. Quiet(closing, Unconnected(closing)) /\ Unconnected(closing).status = "off"
    BY <1>1, UnconnectedIsQuiet
  <2>2. Close(c) = Unconnected(closing)
    BY <1>3 DEF Close
  <2> QED
    BY <2>1, <2>2 DEF Quiet
<1> QED
  BY <1>2, <1>3

LEMMA ReopenIsQuiet ==
    ASSUME NEW c, Sane(c)
    PROVE  Quiet(c, Open(Close(c))) /\ Open(Close(c)).status # "off"
<1>1. Sane(Close(c)) /\ Close(c).status = "off"
  BY CloseIsQuiet DEF Quiet
<1>2. Quiet(Close(c), Open(Close(c))) /\ Open(Close(c)).status # "off"
  BY <1>1, OpenIsQuiet
<1> QED
  BY <1>1, <1>2 DEF Quiet

LEMMA SmartReconnectIsQuiet ==
    ASSUME NEW c, Sane(c)
    PROVE  Quiet(c, SmartReconnect(c)) /\ SmartReconnect(c).retry
  BY DEF Quiet, Sane, SmartReconnect, Connection

LEMMA ReceivedIsQuiet ==
    ASSUME NEW c, Sane(c), NEW isPong \in BOOLEAN
    PROVE  Quiet(c, Received(c, isPong)) /\ Received(c, isPong).status = c.status
  BY DEF Quiet, Sane, Received, Connection

LEMMA PingTimeoutIsQuiet ==
    ASSUME NEW c, Sane(c), c.status # "off"
    PROVE  /\ Quiet(c, PingTimeout(c))
           /\ PingTimeout(c).status = "off" => PingTimeout(c).retry
<1>1. CASE c.recent \/ ~c.waiting
  BY <1>1 DEF PingTimeout, Quiet, Sane, Connection
<1>2. CASE ~c.recent /\ c.waiting
  <2>1. Quiet(c, Close(c)) /\ Sane(Close(c))
    BY CloseIsQuiet DEF Quiet
  <2>2. Quiet(Close(c), SmartReconnect(Close(c))) /\ SmartReconnect(Close(c)).retry
    BY <2>1, SmartReconnectIsQuiet
  <2>3. PingTimeout(c) = SmartReconnect(Close(c))
    BY <1>2 DEF PingTimeout
  <2> QED
    BY <2>1, <2>2, <2>3 DEF Quiet
<1> QED
  BY <1>1, <1>2

LEMMA RetryTimeoutIsQuiet ==
    ASSUME NEW c, Sane(c)
    PROVE  Quiet(c, RetryTimeout(c)) /\ RetryTimeout(c).status # "off"
  BY DEF Quiet, Sane, RetryTimeout, Open, Connection

LEMMA DeafIsQuiet ==
    ASSUME NEW c, Sane(c)
    PROVE  Quiet(c, [c EXCEPT !.deaf = TRUE])
  BY DEF Quiet, Sane, Connection

LEMMA JoinsAreSane ==
    ASSUME NEW c, Sane(c), NEW names \in SUBSET Names
    PROVE  /\ Sane(SendJoins(c, names)) /\ SendJoins(c, names).status = c.status
           /\ SendJoins(c, names).retry = c.retry
           /\ c.status = "connected" => SendJoins(c, names).joined = c.joined \cup names
  BY DEF Sane, SendJoins, Connection

LEMMA PartIsSane ==
    ASSUME NEW c, Sane(c), NEW name \in Names
    PROVE  /\ Sane(SendPart(c, name)) /\ SendPart(c, name).status = c.status
           /\ SendPart(c, name).retry = c.retry
           /\ SendPart(c, name).joined = c.joined \ {name}
  BY DEF Sane, SendPart, Connection

LEMMA WelcomedIsSane ==
    ASSUME NEW c, Sane(c), c.status = "connecting"
    PROVE  Sane(Welcomed(c)) /\ Welcomed(c).status = "connected" /\ Welcomed(c).joined = {}
  BY DEF Sane, Welcomed, Connection

-----------------------------------------------------------------------------
(* Steps that change connections only, and join nothing *)

LEMMA SoleIsId == Sole \in Ids /\ Ids \subseteq Nat
  BY BoundsAssumption DEF Sole, Ids

(* What such a step keeps, whichever connections it changes.                 *)
LEMMA QuietStep ==
    ASSUME IInv, UNCHANGED <<kind, live, held, bucket>>,
           conn' \in [Ids -> Connection],
           \A j \in Ids : \/ conn'[j] = conn[j]
                          \/ j \in live /\ Quiet(conn[j], conn'[j])
    PROVE  /\ RateKept' /\ JoinedOrQueued' /\ PoolIsTidy'
           /\ \A j \in Ids : Sane(conn'[j])
           /\ kind' # "multi" => live' = {Sole}
           /\ kind' = "multi" => bucket'.queue = << >> /\ bucket'.running = 0
           /\ live' \subseteq Ids /\ held' \in [Ids -> SUBSET Names]
           /\ kind' \in {"single", "multi", "anonymous"}
           /\ bucket' \in [queue : Seq(Names), budget : 0 .. Budget, running : 0 .. Budget]
<1>1. \A j \in Ids : Sane(conn'[j])
  BY DEF IInv, Support, Quiet
<1>2. RateKept'
  BY DEF IInv, RateKept
<1>3. ASSUME NEW i \in live', conn'[i].status = "connected"
      PROVE  /\ conn'[i].joined \subseteq held'[i]
             /\ held'[i] \subseteq conn'[i].joined
                  \cup {bucket'.queue[j] : j \in 1 .. Len(bucket'.queue)}
  <2>1. i \in live /\ i \in Ids
    BY DEF IInv, TypeOK
  <2>2. conn[i].status = "connected" /\ conn[i].joined = conn'[i].joined
    BY <1>3, <2>1 DEF Quiet
  <2> QED
    BY <2>1, <2>2 DEF IInv, JoinedOrQueued
<1>4. PoolIsTidy'
  BY DEF IInv, PoolIsTidy
<1> QED
  BY <1>1, <1>2, <1>3, <1>4 DEF JoinedOrQueued, IInv, Support, TypeOK

LEMMA ConnectStep == IInv /\ Connect => IInv'
<1> SUFFICES ASSUME IInv, Connect PROVE IInv'
  OBVIOUS
<1>1. conn' = [i \in Ids |-> IF i \in live THEN Open(Close(conn[i])) ELSE conn[i]]
  BY DEF Connect
<1>2. \A j \in Ids : Sane(conn[j])
  BY DEF IInv, Support
<1>3. \A j \in live : Quiet(conn[j], conn'[j]) /\ conn'[j].status # "off"
  BY <1>1, <1>2, ReopenIsQuiet DEF IInv, TypeOK
<1>4. conn' \in [Ids -> Connection]
  BY <1>1, <1>2, <1>3 DEF Quiet, Sane
<1>5. /\ RateKept' /\ JoinedOrQueued' /\ PoolIsTidy'
      /\ \A j \in Ids : Sane(conn'[j])
      /\ kind' # "multi" => live' = {Sole}
      /\ kind' = "multi" => bucket'.queue = << >> /\ bucket'.running = 0
      /\ live' \subseteq Ids /\ held' \in [Ids -> SUBSET Names]
      /\ kind' \in {"single", "multi", "anonymous"}
      /\ bucket' \in [queue : Seq(Names), budget : 0 .. Budget, running : 0 .. Budget]
  <2>1. UNCHANGED <<kind, live, held, bucket>>
    BY DEF Connect
  <2>2. \A j \in Ids : conn'[j] = conn[j] \/ (j \in live /\ Quiet(conn[j], conn'[j]))
    BY <1>1, <1>3
  <2> QED
    BY <1>4, <2>1, <2>2, QuietStep
<1>6. LossIsPursued'
  BY <1>3 DEF LossIsPursued, Connect
<1>7. faults' \in 0 .. MaxFaults /\ faults <= faults' /\ ever' \in BOOLEAN
  BY BoundsAssumption DEF IInv, TypeOK, Connect, Fault
<1>8. TypeOK' /\ Support'
  BY <1>4, <1>5, <1>7, BoundsAssumption DEF TypeOK, Support, IInv, Connect
<1> QED
  BY <1>5, <1>6, <1>8 DEF IInv

(* A step that changes one connection quietly, and the rest of what it must  *)
(* say to keep the invariant.                                                *)
LEMMA OneQuietStep ==
    ASSUME IInv, UNCHANGED <<kind, live, held, bucket, ever>>,
           NEW i \in live, NEW d, Quiet(conn[i], d),
           conn' = [conn EXCEPT ![i] = d],
           started' \in BOOLEAN, ensures' \in 0 .. MaxFaults, faults' \in 0 .. MaxFaults,
           ensures' <= faults',
           kind # "anonymous" => ensures' = 0,
           kind = "anonymous" =>
              /\ d.status = "off" /\ held[i] # {} => d.retry \/ ensures' > 0
              /\ d.status = "off" /\ started' => d.retry,
           kind # "anonymous" /\ d.status = "off" /\ ever => d.retry
    PROVE  IInv'
<1>1. i \in Ids /\ d \in Connection /\ conn'[i] = d
  BY DEF IInv, TypeOK, Quiet, Sane
<1>2. conn' \in [Ids -> Connection]
  BY <1>1 DEF IInv, TypeOK
<1>3. \A j \in Ids : conn'[j] = conn[j] \/ (j \in live /\ Quiet(conn[j], conn'[j]))
  BY <1>1 DEF IInv, TypeOK
<1>4. /\ RateKept' /\ JoinedOrQueued' /\ PoolIsTidy'
      /\ \A j \in Ids : Sane(conn'[j])
      /\ kind' # "multi" => live' = {Sole}
      /\ kind' = "multi" => bucket'.queue = << >> /\ bucket'.running = 0
      /\ live' \subseteq Ids /\ held' \in [Ids -> SUBSET Names]
      /\ kind' \in {"single", "multi", "anonymous"}
      /\ bucket' \in [queue : Seq(Names), budget : 0 .. Budget, running : 0 .. Budget]
  BY <1>2, <1>3, QuietStep
<1>5. LossIsPursued'
  <2>1. CASE kind = "anonymous"
    <3>1. live = {i}
      BY <2>1 DEF IInv, Support
    <3> QED
      BY <1>1, <2>1, <3>1 DEF LossIsPursued
  <2>2. CASE kind # "anonymous"
    <3>1. ASSUME NEW j \in live, j # i PROVE conn'[j] = conn[j]
      BY <3>1 DEF IInv, TypeOK
    <3> QED
      BY <1>1, <2>2, <3>1 DEF LossIsPursued, IInv, Support
  <2> QED
    BY <2>1, <2>2
<1>6. kind' = "anonymous" /\ started' /\ conn'[Sole].status = "off" => conn'[Sole].retry
  <2>1. kind = "anonymous" => i = Sole
    BY DEF IInv, Support
  <2> QED
    BY <1>1, <2>1
<1>7. TypeOK'
  BY <1>2, <1>4 DEF TypeOK, IInv
<1>8. Support'
  BY <1>4, <1>6 DEF Support
<1> QED
  BY <1>4, <1>5, <1>7, <1>8 DEF IInv

LEMMA LiveIsSane ==
    ASSUME IInv, NEW i \in live
    PROVE  /\ i \in Ids /\ Sane(conn[i])
           /\ kind = "anonymous" => i = Sole
           /\ kind # "anonymous" => ensures = 0
           /\ kind = "anonymous" /\ conn[i].status = "off" /\ held[i] # {}
                => conn[i].retry \/ ensures > 0
           /\ kind = "anonymous" /\ conn[i].status = "off" /\ started => conn[i].retry
           /\ kind # "anonymous" /\ conn[i].status = "off" /\ ever => conn[i].retry
  BY SoleIsId DEF IInv, TypeOK, Support, LossIsPursued

LEMMA FaultType ==
    ASSUME IInv
    PROVE  /\ ensures \in Nat /\ faults \in 0 .. MaxFaults /\ ensures <= faults
           /\ ensures \in 0 .. MaxFaults /\ started \in BOOLEAN
           /\ Fault => faults' \in 0 .. MaxFaults /\ faults' = faults + 1
           /\ \A n \in Nat : n <= faults => n \in 0 .. MaxFaults
  BY BoundsAssumption DEF IInv, TypeOK, Support, Fault

LEMMA EnsureStep == IInv /\ Ensure => IInv'
<1> SUFFICES ASSUME IInv, Ensure PROVE IInv'
  OBVIOUS
<1>1. kind = "anonymous" /\ live = {Sole} /\ Sole \in live
  BY DEF Ensure, IInv, Support, TypeOK
<1>2. Sane(conn[Sole])
  BY <1>1, LiveIsSane
<1>3. ensures' \in 0 .. MaxFaults /\ ensures' <= faults /\ faults' = faults
  BY FaultType DEF Ensure
<1>4. faults' \in 0 .. MaxFaults /\ started' \in BOOLEAN
  BY FaultType, <1>3 DEF Ensure, MustStart
<1>5. CASE MustStart
  <2>1. Quiet(conn[Sole], Open(conn[Sole])) /\ Open(conn[Sole]).status # "off"
    BY <1>2, OpenIsQuiet
  <2>2. conn' = [conn EXCEPT ![Sole] = Open(conn[Sole])]
    BY <1>5 DEF Ensure, Ensured
  <2>3. UNCHANGED <<kind, live, held, bucket, ever>>
    BY DEF Ensure
  <2> QED
    BY <1>1, <1>3, <1>4, <2>1, <2>2, <2>3, OneQuietStep
<1>6. CASE ~MustStart
  <2>1. Quiet(conn[Sole], conn[Sole])
    BY <1>2 DEF Quiet
  <2>2. conn' = [conn EXCEPT ![Sole] = conn[Sole]]
    BY <1>6 DEF Ensure, Ensured
  <2>3. conn[Sole].status = "off" => started
    BY <1>6 DEF MustStart
  <2>4. conn[Sole].status = "off" => conn[Sole].retry
    BY <1>1, <2>3, LiveIsSane
  <2>5. UNCHANGED <<kind, live, held, bucket, ever>>
    BY DEF Ensure
  <2> QED
    BY <1>1, <1>3, <1>4, <2>1, <2>2, <2>4, <2>5, OneQuietStep
<1> QED
  BY <1>5, <1>6

LEMMA ReconnectAnonymousStep ==
    ASSUME IInv, Fault, ReconnectAnonymous
    PROVE  IInv'
<1>1. kind = "anonymous" /\ live = {Sole} /\ Sole \in live
  BY DEF ReconnectAnonymous, IInv, Support
<1>2. Sane(conn[Sole])
  BY <1>1, LiveIsSane
<1>3. Quiet(conn[Sole], Close(conn[Sole]))
  BY <1>2, CloseIsQuiet
<1>4. /\ ensures' = ensures + 1 /\ ~started'
      /\ conn' = [conn EXCEPT ![Sole] = Close(conn[Sole])]
      /\ UNCHANGED <<kind, live, held, bucket, ever>>
  BY DEF ReconnectAnonymous
<1>5. /\ ensures' \in 0 .. MaxFaults /\ faults' \in 0 .. MaxFaults
      /\ ensures' <= faults' /\ ensures' > 0
  <2>1. /\ ensures \in Nat /\ faults \in Nat /\ faults' = faults + 1
        /\ ensures <= faults /\ faults' \in 0 .. MaxFaults /\ MaxFaults \in Nat
    BY FaultType, BoundsAssumption
  <2> QED
    BY <2>1, <1>4
<1> QED
  BY <1>1, <1>3, <1>4, <1>5, OneQuietStep DEF ReconnectAnonymous

LEMMA RequestedStep ==
    ASSUME IInv, NEW i \in live, Requested(i)
    PROVE  IInv'
<1>1. Fault /\ conn[i].status = "connected" /\ i \in Ids /\ Sane(conn[i])
  BY LiveIsSane DEF Requested
<1>2. /\ faults' \in 0 .. MaxFaults /\ ensures \in 0 .. MaxFaults /\ ensures <= faults'
      /\ started \in BOOLEAN
  BY <1>1, FaultType
<1>3. CASE RequestedPool(i)
  <2>1. Quiet(conn[i], Open(Close(conn[i]))) /\ Open(Close(conn[i])).status # "off"
    BY <1>1, ReopenIsQuiet
  <2>2. /\ conn' = [conn EXCEPT ![i] = Open(Close(conn[i]))]
        /\ kind # "anonymous" /\ ensures = 0
        /\ UNCHANGED <<kind, live, held, bucket, ever, started, ensures>>
    BY <1>3, LiveIsSane DEF RequestedPool
  <2> QED
    BY <1>2, <2>1, <2>2, OneQuietStep
<1>4. CASE ReconnectAnonymous
  BY <1>1, <1>4, ReconnectAnonymousStep
<1>5. CASE /\ kind = "anonymous" /\ held[i] = {}
           /\ conn' = [conn EXCEPT ![i] = Received(@, FALSE)]
           /\ UNCHANGED <<kind, live, held, bucket, ever, started, ensures>>
  <2>1. Quiet(conn[i], Received(conn[i], FALSE)) /\ Received(conn[i], FALSE).status # "off"
    BY <1>1, ReceivedIsQuiet
  <2> QED
    BY <1>2, <1>5, <2>1, OneQuietStep
<1> QED
  BY <1>3, <1>4, <1>5 DEF Requested, RequestedAnonymous

LEMMA LostStep ==
    ASSUME IInv, NEW i \in live, Lost(i)
    PROVE  IInv'
<1>1. Sane(conn[i]) /\ ~conn[i].expected
  BY LiveIsSane DEF Lost, Sane
<1>2. Quiet(conn[i], Unconnected(conn[i])) /\ Unconnected(conn[i]).retry
  BY <1>1, UnconnectedIsQuiet DEF Sane
<1>3. /\ faults' \in 0 .. MaxFaults /\ ensures \in 0 .. MaxFaults /\ ensures <= faults'
      /\ started' \in BOOLEAN
  <2>1. started' \in BOOLEAN
    BY FaultType DEF Lost, Started
  <2> QED
    BY <2>1, FaultType DEF Lost
<1>4. /\ conn' = [conn EXCEPT ![i] = Unconnected(conn[i])]
      /\ UNCHANGED <<kind, live, held, bucket, ever, ensures>>
  BY DEF Lost
<1> QED
  BY <1>2, <1>3, <1>4, LiveIsSane, OneQuietStep

LEMMA SilencedStep ==
    ASSUME IInv, NEW i \in live, Silenced(i)
    PROVE  IInv'
<1> DEFINE d == [conn[i] EXCEPT !.deaf = TRUE]
<1>1. Sane(conn[i]) /\ conn[i].status = "connected"
  BY LiveIsSane DEF Silenced
<1>2. Quiet(conn[i], d) /\ d.status # "off"
  BY <1>1, DeafIsQuiet DEF Sane, Connection
<1>3. /\ faults' \in 0 .. MaxFaults /\ ensures \in 0 .. MaxFaults /\ ensures <= faults'
      /\ started \in BOOLEAN
  BY FaultType DEF Silenced
<1>4. /\ conn' = [conn EXCEPT ![i] = d]
      /\ UNCHANGED <<kind, live, held, bucket, ever, ensures, started>>
  BY DEF Silenced
<1> HIDE DEF d
<1> QED
  BY <1>2, <1>3, <1>4, LiveIsSane, OneQuietStep

LEMMA HearStep ==
    ASSUME IInv, NEW i \in live, Hear(i)
    PROVE  IInv'
<1>1. Sane(conn[i]) /\ conn[i].status = "connected"
  BY LiveIsSane DEF Hear
<1>2. PICK isPong \in BOOLEAN : conn' = [conn EXCEPT ![i] = Received(conn[i], isPong)]
  BY DEF Hear
<1>3. Quiet(conn[i], Received(conn[i], isPong)) /\ Received(conn[i], isPong).status # "off"
  BY <1>1, ReceivedIsQuiet
<1>4. /\ faults' \in 0 .. MaxFaults /\ ensures \in 0 .. MaxFaults /\ ensures <= faults'
      /\ started \in BOOLEAN
      /\ UNCHANGED <<kind, live, held, bucket, ever, ensures, started>>
  BY FaultType DEF Hear
<1> QED
  BY <1>2, <1>3, <1>4, LiveIsSane, OneQuietStep

LEMMA PingStep ==
    ASSUME IInv, NEW i \in live, Ping(i)
    PROVE  IInv'
<1>1. Sane(conn[i]) /\ conn[i].status = "connected"
  BY LiveIsSane DEF Ping
<1>2. /\ Quiet(conn[i], PingTimeout(conn[i]))
      /\ PingTimeout(conn[i]).status = "off" => PingTimeout(conn[i]).retry
  BY <1>1, PingTimeoutIsQuiet
<1>3. /\ faults' \in 0 .. MaxFaults /\ ensures \in 0 .. MaxFaults /\ ensures <= faults'
      /\ started' \in BOOLEAN
      /\ conn' = [conn EXCEPT ![i] = PingTimeout(conn[i])]
      /\ UNCHANGED <<kind, live, held, bucket, ever, ensures>>
  BY FaultType DEF Ping
<1> QED
  BY <1>2, <1>3, LiveIsSane, OneQuietStep

LEMMA RetryStep ==
    ASSUME IInv, NEW i \in live, Retry(i)
    PROVE  IInv'
<1>1. Sane(conn[i])
  BY LiveIsSane
<1>2. Quiet(conn[i], RetryTimeout(conn[i])) /\ RetryTimeout(conn[i]).status # "off"
  BY <1>1, RetryTimeoutIsQuiet
<1>3. /\ faults' \in 0 .. MaxFaults /\ ensures \in 0 .. MaxFaults /\ ensures <= faults'
      /\ started' \in BOOLEAN
      /\ conn' = [conn EXCEPT ![i] = RetryTimeout(conn[i])]
      /\ UNCHANGED <<kind, live, held, bucket, ever, ensures>>
  BY FaultType DEF Retry
<1> QED
  BY <1>2, <1>3, LiveIsSane, OneQuietStep

-----------------------------------------------------------------------------
(* The rate limit *)

(* The names in a queue.                                                     *)
NamesIn(q) == {q[j] : j \in 1 .. Len(q)}

LEMMA HandledType ==
    ASSUME NEW b \in [queue : Seq(Names), budget : 0 .. Budget, running : 0 .. Budget],
           NEW k \in Nat, k <= Len(b.queue), k <= b.budget, b.budget + b.running = Budget
    PROVE  /\ Handled(b, k) \in [queue : Seq(Names), budget : 0 .. Budget, running : 0 .. Budget]
           /\ Handled(b, k).budget = b.budget - k
           /\ Handled(b, k).running = b.running + k
           /\ Len(Handled(b, k).queue) = Len(b.queue) - k
           /\ NamesIn(b.queue) = {b.queue[j] : j \in 1 .. k} \cup NamesIn(Handled(b, k).queue)
<1> DEFINE q == b.queue
           n == Len(b.queue)
           rest == SubSeq(b.queue, k + 1, Len(b.queue))
<1>1. q \in Seq(Names) /\ n \in Nat /\ k <= n /\ q \in [1 .. n -> Names]
  OBVIOUS
<1>2. rest \in Seq(Names) /\ Len(rest) = n - k /\ \A j \in 1 .. n - k : rest[j] = q[k + j]
  <2>1. rest = [j \in 1 .. n - k |-> q[k + j]]
    <3>1. rest = [j \in 1 .. (n - (k + 1) + 1) |-> q[(k + 1) + j - 1]]
      BY <1>1
    <3>2. n - (k + 1) + 1 = n - k /\ \A j \in Int : (k + 1) + j - 1 = k + j
      BY <1>1
    <3> HIDE DEF rest, q, n
    <3> QED
      BY <3>1, <3>2
  <2>2. n - k \in Nat /\ \A j \in 1 .. n - k : k + j \in 1 .. n
    BY <1>1
  <2>3. rest \in [1 .. n - k -> Names]
    BY <1>1, <2>1, <2>2
  <2> HIDE DEF rest, q, n
  <2>4. rest \in Seq(Names)
    BY <2>2, <2>3
  <2>5. Len(rest) = n - k
    BY <2>1, <2>2
  <2> QED
    BY <2>1, <2>4, <2>5
<1>3. NamesIn(q) = {q[j] : j \in 1 .. k} \cup NamesIn(rest)
  <2> HIDE DEF rest, q, n
  <2>1. ASSUME NEW x \in NamesIn(q) PROVE x \in {q[j] : j \in 1 .. k} \cup NamesIn(rest)
    <3>1. PICK j \in 1 .. n : x = q[j]
      BY DEF NamesIn, q, n
    <3>2. CASE j <= k
      BY <3>1, <3>2
    <3>3. CASE j > k
      <4>1. j - k \in 1 .. n - k /\ k + (j - k) = j
        BY <1>1, <3>1, <3>3
      <4>2. rest[j - k] = x
        BY <1>2, <3>1, <4>1
      <4> QED
        BY <1>2, <4>1, <4>2 DEF NamesIn
    <3> QED
      BY <1>1, <3>1, <3>2, <3>3
  <2>2. ASSUME NEW j \in 1 .. k PROVE q[j] \in NamesIn(q)
    <3>1. j \in 1 .. n
      BY <1>1
    <3> QED
      BY <3>1 DEF NamesIn, q, n
  <2>3. ASSUME NEW j \in 1 .. Len(rest) PROVE rest[j] \in NamesIn(q)
    <3>1. j \in 1 .. n - k /\ k + j \in 1 .. n
      BY <1>1, <1>2
    <3> QED
      BY <1>2, <3>1 DEF NamesIn, q, n
  <2> QED
    BY <2>1, <2>2, <2>3 DEF NamesIn
<1>4. b.budget - k \in 0 .. Budget /\ b.running + k \in 0 .. Budget
  BY BoundsAssumption
<1> QED
  BY <1>2, <1>3, <1>4 DEF Handled, q, n, rest

LEMMA SendType ==
    ASSUME NEW b \in [queue : Seq(Names), budget : 0 .. Budget, running : 0 .. Budget],
           b.budget + b.running = Budget, b.queue # << >> => b.running = Budget,
           NEW names \in Seq(Names)
    PROVE  LET sent == Send(b, names)
               after == Handled(sent.b, sent.k)
               first == {sent.b.queue[j] : j \in 1 .. sent.k}
           IN  /\ after \in [queue : Seq(Names), budget : 0 .. Budget, running : 0 .. Budget]
               /\ after.budget + after.running = Budget
               /\ after.queue # << >> => after.running = Budget
               /\ first \cup NamesIn(after.queue) = NamesIn(b.queue) \cup NamesIn(names)
               /\ first \subseteq Names
<1> DEFINE sent == Send(b, names)
           k == sent.k
           q == b.queue \o names
           after == Handled(sent.b, sent.k)
<1>1. b.queue \in Seq(Names) /\ Len(b.queue) \in Nat /\ Len(names) \in Nat
  OBVIOUS
<1>2. q \in Seq(Names) /\ Len(q) = Len(b.queue) + Len(names)
      /\ \A j \in 1 .. Len(q) : q[j] = IF j <= Len(b.queue) THEN b.queue[j] ELSE names[j - Len(b.queue)]
  <2>1. ASSUME NEW s \in Seq(Names), NEW t \in Seq(Names)
        PROVE  /\ s \o t \in Seq(Names) /\ Len(s \o t) = Len(s) + Len(t)
               /\ \A j \in 1 .. Len(s \o t) : (s \o t)[j] = IF j <= Len(s) THEN s[j] ELSE t[j - Len(s)]
    OBVIOUS
  <2> QED
    BY <1>1, <2>1
<1>3. sent.b = [b EXCEPT !.queue = q] /\ k = IF b.budget < Len(names) THEN b.budget ELSE Len(names)
  BY DEF Send
<1>4. /\ sent.b \in [queue : Seq(Names), budget : 0 .. Budget, running : 0 .. Budget]
      /\ sent.b.queue = q /\ sent.b.budget = b.budget /\ sent.b.running = b.running
  <2> HIDE DEF q, sent
  <2> QED
    BY <1>2, <1>3
<1>5. k \in Nat /\ k <= Len(q) /\ k <= b.budget
  <2> HIDE DEF q, sent, k
  <2>1. b.budget \in Nat
    BY BoundsAssumption
  <2> QED
    BY <1>1, <1>2, <1>3, <2>1
<1>6. /\ after \in [queue : Seq(Names), budget : 0 .. Budget, running : 0 .. Budget]
      /\ after.budget = b.budget - k /\ after.running = b.running + k
      /\ Len(after.queue) = Len(q) - k
      /\ NamesIn(q) = {q[j] : j \in 1 .. k} \cup NamesIn(after.queue)
  <2> HIDE DEF q
  <2>1. ASSUME NEW a \in [queue : Seq(Names), budget : 0 .. Budget, running : 0 .. Budget],
               a.queue = q, a.budget = b.budget, a.running = b.running
        PROVE  /\ Handled(a, k) \in [queue : Seq(Names), budget : 0 .. Budget, running : 0 .. Budget]
               /\ Handled(a, k).budget = b.budget - k
               /\ Handled(a, k).running = b.running + k
               /\ Len(Handled(a, k).queue) = Len(q) - k
               /\ NamesIn(q) = {q[j] : j \in 1 .. k} \cup NamesIn(Handled(a, k).queue)
    <3> HIDE DEF k
    <3>1. k \in Nat /\ k <= Len(a.queue) /\ k <= a.budget /\ a.budget + a.running = Budget
      BY <1>5, <2>1
    <3>2. /\ Handled(a, k) \in [queue : Seq(Names), budget : 0 .. Budget, running : 0 .. Budget]
          /\ Handled(a, k).budget = a.budget - k
          /\ Handled(a, k).running = a.running + k
          /\ Len(Handled(a, k).queue) = Len(a.queue) - k
          /\ NamesIn(a.queue) = {a.queue[j] : j \in 1 .. k} \cup NamesIn(Handled(a, k).queue)
      BY ONLY <2>1, <3>1, HandledType
    <3> QED
      BY <2>1, <3>2
  <2> QED
    BY <1>4, <2>1
<1>7. after.budget + after.running = Budget
  <2> HIDE DEF after, k
  <2>1. b.budget \in Nat /\ b.running \in Nat
    BY BoundsAssumption
  <2> QED
    BY <1>5, <1>6, <2>1
<1>8. ASSUME after.queue # << >> PROVE after.running = Budget
  <2> HIDE DEF after, k, q
  <2>1. b.budget \in Nat /\ b.running \in Nat /\ Budget \in Nat
    BY BoundsAssumption
  <2>2. CASE b.queue # << >>
    <3>1. b.running = Budget /\ b.budget = 0
      BY <2>1, <2>2
    <3> QED
      BY <1>1, <1>3, <1>5, <1>6, <2>1, <3>1
  <2>3. CASE b.queue = << >>
    <3>1. Len(b.queue) = 0
      BY <2>3
    <3>2. after.queue \in Seq(Names)
      BY <1>6
    <3>3. Len(after.queue) # 0
      BY <1>8, <3>2
    <3>4. k # Len(names)
      BY <1>1, <1>2, <1>6, <3>1, <3>3
    <3>5. k = b.budget
      BY <1>3, <3>4
    <3> QED
      BY <1>6, <2>1, <3>5
  <2> QED
    BY <2>2, <2>3
<1>9. NamesIn(q) = NamesIn(b.queue) \cup NamesIn(names)
  <2> HIDE DEF q
  <2>1. ASSUME NEW j \in 1 .. Len(q) PROVE q[j] \in NamesIn(b.queue) \cup NamesIn(names)
    <3>1. CASE j <= Len(b.queue)
      <4>1. j \in 1 .. Len(b.queue) /\ q[j] = b.queue[j]
        BY <1>1, <1>2, <3>1
      <4> QED
        BY <4>1 DEF NamesIn
    <3>2. CASE j > Len(b.queue)
      <4>1. j - Len(b.queue) \in 1 .. Len(names) /\ q[j] = names[j - Len(b.queue)]
        BY <1>1, <1>2, <3>2
      <4> QED
        BY <4>1 DEF NamesIn
    <3> QED
      BY <1>1, <1>2, <3>1, <3>2
  <2>2. ASSUME NEW j \in 1 .. Len(b.queue) PROVE b.queue[j] \in NamesIn(q)
    <3>1. j \in 1 .. Len(q) /\ q[j] = b.queue[j]
      BY <1>1, <1>2
    <3> QED
      BY <3>1 DEF NamesIn
  <2>3. ASSUME NEW j \in 1 .. Len(names) PROVE names[j] \in NamesIn(q)
    <3> DEFINE m == Len(b.queue) + j
    <3>1. m \in 1 .. Len(q) /\ ~(m <= Len(b.queue)) /\ m - Len(b.queue) = j
      BY <1>1, <1>2
    <3>2. q[m] = names[j]
      BY <1>2, <3>1
    <3> HIDE DEF m
    <3> QED
      BY <3>1, <3>2 DEF NamesIn
  <2> QED
    BY <2>1, <2>2, <2>3 DEF NamesIn
<1>10. {q[j] : j \in 1 .. k} \subseteq Names
  <2>1. \A j \in 1 .. Len(q) : q[j] \in Names
    BY <1>2
  <2> HIDE DEF q, k
  <2> QED
    BY <1>2, <1>5, <2>1
<1> QED
  BY <1>4, <1>6, <1>7, <1>8, <1>9, <1>10

LEMMA OrdersType ==
    ASSUME NEW S \in SUBSET Names, NEW q \in Orders(S)
    PROVE  q \in Seq(Names) /\ NamesIn(q) = S
<1>1. Cardinality(S) \in Nat
  BY NamesAssumption, FS_Subset, FS_CardinalityType
<1>2. /\ q \in [1 .. Cardinality(S) -> S]
      /\ \A name \in S : \E j \in DOMAIN q : q[j] = name
  BY DEF Orders
<1>3. q \in Seq(S) /\ Len(q) = Cardinality(S)
  BY <1>1, <1>2
<1>4. NamesIn(q) = S
  BY <1>1, <1>2, <1>3 DEF NamesIn
<1> QED
  BY <1>1, <1>2, <1>3, <1>4

BucketType == [queue : Seq(Names), budget : 0 .. Budget, running : 0 .. Budget]

(* A step of the one connection, its channels and its rate limit: what it    *)
(* must say to keep the invariant.                                           *)
LEMMA LimitedStep ==
    ASSUME IInv, kind # "multi", UNCHANGED <<kind, live, ever, ensures, faults>>,
           NEW H \in SUBSET Names, held' = [held EXCEPT ![Sole] = H],
           NEW c, Sane(c), conn' = [conn EXCEPT ![Sole] = c],
           bucket' \in BucketType, bucket'.budget + bucket'.running = Budget,
           bucket'.queue # << >> => bucket'.running = Budget,
           c.status = "connected" =>
              c.joined \subseteq H /\ H \subseteq c.joined \cup NamesIn(bucket'.queue),
           started' \in BOOLEAN,
           kind = "anonymous" /\ c.status = "off" =>
              (H # {} => c.retry \/ ensures > 0) /\ (started' => c.retry),
           kind # "anonymous" /\ c.status = "off" /\ ever => c.retry
    PROVE  IInv'
<1>1. live = {Sole} /\ Sole \in Ids
  BY SoleIsId DEF IInv, Support
<1>2. /\ conn' \in [Ids -> Connection] /\ held' \in [Ids -> SUBSET Names]
      /\ conn'[Sole] = c /\ held'[Sole] = H
      /\ \A j \in Ids \ live : conn'[j] = conn[j] /\ held'[j] = held[j]
  BY <1>1 DEF IInv, TypeOK, Sane
<1>3. TypeOK'
  BY <1>2 DEF IInv, TypeOK, BucketType
<1>4. RateKept'
  BY DEF RateKept
<1>5. LossIsPursued'
  BY <1>1, <1>2 DEF LossIsPursued
<1>6. JoinedOrQueued'
  BY <1>1, <1>2 DEF JoinedOrQueued, NamesIn
<1>7. PoolIsTidy'
  BY <1>1, <1>2 DEF PoolIsTidy, IInv
<1>8. Support'
  BY <1>1, <1>2 DEF Support, IInv
<1> QED
  BY <1>3, <1>4, <1>5, <1>6, <1>7, <1>8 DEF IInv

(* What holds of the one connection before such a step.                      *)
LEMMA SoleBefore ==
    ASSUME IInv, kind # "multi"
    PROVE  /\ Sole \in live /\ Sole \in Ids /\ live = {Sole}
           /\ Sane(conn[Sole]) /\ held[Sole] \in SUBSET Names
           /\ bucket \in BucketType /\ bucket.budget + bucket.running = Budget
           /\ bucket.queue # << >> => bucket.running = Budget
           /\ conn[Sole].status = "connected" =>
                 /\ conn[Sole].joined \subseteq held[Sole]
                 /\ held[Sole] \subseteq conn[Sole].joined \cup NamesIn(bucket.queue)
           /\ Channels = held[Sole]
  BY SoleIsId DEF IInv, TypeOK, Support, RateKept, JoinedOrQueued, BucketType, NamesIn, Channels

LEMMA CooldownStep == IInv /\ CooldownEnds => IInv'
<1> SUFFICES ASSUME IInv, CooldownEnds PROVE IInv'
  OBVIOUS
<1>1. kind # "multi" /\ bucket.running > 0
  BY DEF IInv, Support, CooldownEnds
<1> DEFINE b == [bucket EXCEPT !.budget = @ + 1, !.running = @ - 1]
           k == IF b.queue = << >> THEN 0 ELSE 1
           c == SendJoins(conn[Sole], Taken(b, k))
           H == held[Sole]
<1>2. bucket' = Handled(b, k) /\ conn' = [conn EXCEPT ![Sole] = c]
  BY DEF CooldownEnds
<1>3. bucket \in BucketType /\ bucket.budget + bucket.running = Budget
      /\ (bucket.queue # << >> => bucket.running = Budget)
  BY <1>1, SoleBefore
<1>4. b \in BucketType /\ b.queue = bucket.queue /\ b.budget = bucket.budget + 1
      /\ b.running = bucket.running - 1 /\ b.budget + b.running = Budget
  <2>1. bucket.budget + 1 \in 0 .. Budget /\ bucket.running - 1 \in 0 .. Budget
        /\ bucket.budget \in Nat /\ bucket.running \in Nat
    BY <1>1, <1>3, BoundsAssumption DEF BucketType
  <2>2. b.queue = bucket.queue /\ b.budget = bucket.budget + 1 /\ b.running = bucket.running - 1
    BY <1>3 DEF BucketType
  <2>3. b \in BucketType
    BY <1>3, <2>1 DEF BucketType
  <2> HIDE DEF b
  <2> QED
    BY <1>3, <2>1, <2>2, <2>3
<1> HIDE DEF b
<1>5. /\ b.queue \in Seq(Names) /\ Len(b.queue) \in Nat /\ b.budget \in Nat /\ b.running \in Nat
      /\ b.queue = << >> <=> Len(b.queue) = 0
  BY <1>4, BoundsAssumption DEF BucketType
<1>6. k \in Nat /\ k <= Len(b.queue) /\ k <= b.budget
  <2>1. b.budget >= 1
    BY <1>3, <1>4, BoundsAssumption DEF BucketType
  <2> QED
    BY <1>5, <2>1
<1>7. /\ bucket' \in BucketType
      /\ bucket'.budget = b.budget - k /\ bucket'.running = b.running + k
      /\ Len(bucket'.queue) = Len(b.queue) - k
      /\ NamesIn(b.queue) = {b.queue[j] : j \in 1 .. k} \cup NamesIn(bucket'.queue)
  <2> HIDE DEF k
  <2> QED
    BY <1>2, <1>4, <1>6, HandledType DEF BucketType
<1>8. bucket'.budget + bucket'.running = Budget
  <2> HIDE DEF k
  <2> QED
    BY <1>4, <1>5, <1>6, <1>7
<1>9. ASSUME bucket'.queue # << >> PROVE bucket'.running = Budget
  <2>1. bucket'.queue \in Seq(Names)
    BY <1>7 DEF BucketType
  <2>2. Len(bucket'.queue) # 0
    BY <1>9, <2>1
  <2>3. b.queue # << >> /\ k = 1
    BY <1>5, <1>7, <2>2
  <2>4. bucket.running = Budget /\ b.running = Budget - 1
    BY <1>3, <1>4, <2>3
  <2> QED
    BY <1>7, <2>3, <2>4, BoundsAssumption
<1>10. Taken(b, k) = {b.queue[j] : j \in 1 .. k} \cap H
  BY DEF Taken
<1>11. Sane(conn[Sole]) /\ H \in SUBSET Names /\ Sole \in live
  BY <1>1, SoleBefore
<1>12. /\ Sane(c) /\ c.status = conn[Sole].status /\ c.retry = conn[Sole].retry
       /\ c.status = "connected" => c.joined = conn[Sole].joined \cup Taken(b, k)
  BY <1>10, <1>11, JoinsAreSane
<1>13. c.status = "connected" =>
          c.joined \subseteq H /\ H \subseteq c.joined \cup NamesIn(bucket'.queue)
  <2> HIDE DEF c, k
  <2> QED
    BY <1>1, <1>4, <1>7, <1>10, <1>12, SoleBefore
<1>14. held' = [held EXCEPT ![Sole] = H]
  BY DEF CooldownEnds, IInv, TypeOK
<1>15. /\ started' \in BOOLEAN
       /\ kind = "anonymous" /\ c.status = "off" =>
              (H # {} => c.retry \/ ensures > 0) /\ (started' => c.retry)
       /\ kind # "anonymous" /\ c.status = "off" /\ ever => c.retry
  <2> HIDE DEF c, H
  <2>1. started' = started /\ started \in BOOLEAN
    BY DEF CooldownEnds, IInv, TypeOK
  <2> QED
    BY <1>11, <1>12, <2>1, LiveIsSane DEF H
<1>16. UNCHANGED <<kind, live, ever, ensures, faults>>
  BY DEF CooldownEnds
<1> HIDE DEF c, H, k
<1> QED
  BY <1>1, <1>2, <1>7, <1>8, <1>9, <1>11, <1>12, <1>13, <1>14, <1>15, <1>16, LimitedStep

(* Names are queued and those with a budget are joined, on a connection that *)
(* is up.                                                                    *)
LEMMA JoinSent ==
    ASSUME IInv, kind # "multi", NEW names \in Seq(Names), NEW H \in SUBSET Names,
           NEW c, Sane(c), c.status = "connected", c.joined \subseteq H,
           H \subseteq c.joined \cup NamesIn(bucket.queue) \cup NamesIn(names)
    PROVE  LET sent == Send(bucket, names)
               after == Handled(sent.b, sent.k)
               d == SendJoins(c, {sent.b.queue[j] : j \in 1 .. sent.k} \cap H)
           IN  /\ after \in BucketType /\ after.budget + after.running = Budget
               /\ after.queue # << >> => after.running = Budget
               /\ Sane(d) /\ d.status = "connected"
               /\ d.joined \subseteq H /\ H \subseteq d.joined \cup NamesIn(after.queue)
<1> DEFINE sent == Send(bucket, names)
           after == Handled(sent.b, sent.k)
           first == {sent.b.queue[j] : j \in 1 .. sent.k}
           d == SendJoins(c, first \cap H)
<1>1. bucket \in BucketType /\ bucket.budget + bucket.running = Budget
      /\ (bucket.queue # << >> => bucket.running = Budget)
  BY SoleBefore
<1>2. /\ after \in BucketType /\ after.budget + after.running = Budget
      /\ after.queue # << >> => after.running = Budget
      /\ first \cup NamesIn(after.queue) = NamesIn(bucket.queue) \cup NamesIn(names)
  BY <1>1, SendType DEF BucketType
<1> HIDE DEF sent, after, first
<1>3. Sane(d) /\ d.status = "connected" /\ d.joined = c.joined \cup (first \cap H)
  BY JoinsAreSane
<1> HIDE DEF d
<1>4. d.joined \subseteq H /\ H \subseteq d.joined \cup NamesIn(after.queue)
  BY <1>2, <1>3
<1> QED
  BY <1>2, <1>3, <1>4 DEF sent, after, first, d

LEMMA OneName == ASSUME NEW name \in Names PROVE << name >> \in Seq(Names) /\ NamesIn(<< name >>) = {name}
  BY DEF NamesIn

LEMMA CreateConnected ==
    ASSUME IInv, kind # "multi", NEW name \in Names,
           held' = [held EXCEPT ![Sole] = @ \cup {name}],
           conn[Sole].status = "connected",
           UNCHANGED <<kind, live, ever, ensures, faults>>, started' \in BOOLEAN,
           LET sent == Send(bucket, << name >>)
           IN  /\ bucket' = Handled(sent.b, sent.k)
               /\ conn' = [conn EXCEPT ![Sole] =
                     SendJoins(@, {sent.b.queue[j] : j \in 1 .. sent.k} \cap held'[Sole])]
    PROVE  IInv'
<1> DEFINE sent == Send(bucket, << name >>)
           after == Handled(sent.b, sent.k)
           H == held[Sole] \cup {name}
           d == SendJoins(conn[Sole], {sent.b.queue[j] : j \in 1 .. sent.k} \cap H)
<1>1. /\ Sole \in Ids /\ Sane(conn[Sole]) /\ H \in SUBSET Names
      /\ conn[Sole].joined \subseteq H
      /\ H \subseteq conn[Sole].joined \cup NamesIn(bucket.queue) \cup NamesIn(<< name >>)
  BY SoleBefore, OneName
<1>2. held' = [held EXCEPT ![Sole] = H] /\ held'[Sole] = H
  BY <1>1 DEF IInv, TypeOK
<1> HIDE DEF H
<1>3. /\ after \in BucketType /\ after.budget + after.running = Budget
      /\ after.queue # << >> => after.running = Budget
      /\ Sane(d) /\ d.status = "connected"
      /\ d.joined \subseteq H /\ H \subseteq d.joined \cup NamesIn(after.queue)
  BY <1>1, OneName, JoinSent
<1>4. bucket' = after /\ conn' = [conn EXCEPT ![Sole] = d]
  BY <1>2
<1> HIDE DEF d, after
<1> QED
  BY <1>1, <1>2, <1>3, <1>4, LimitedStep

LEMMA CreateSingleStep ==
    ASSUME IInv, NEW name \in Names, CreateSingle(name), UNCHANGED kind
    PROVE  IInv'
<1>1. kind = "single" /\ started' = started /\ started \in BOOLEAN
      /\ UNCHANGED <<live, ever, ensures, faults>>
      /\ held' = [held EXCEPT ![Sole] = @ \cup {name}]
  BY DEF CreateSingle, IInv, TypeOK
<1>2. CASE conn[Sole].status = "connected"
  BY <1>1, <1>2, CreateConnected DEF CreateSingle
<1>3. CASE conn[Sole].status # "connected"
  <2> DEFINE H == held[Sole] \cup {name}
  <2>1. bucket' = bucket /\ conn' = conn
    BY <1>3 DEF CreateSingle
  <2>2. held' = [held EXCEPT ![Sole] = H] /\ H \in SUBSET Names
    BY <1>1, SoleBefore
  <2>3. conn' = [conn EXCEPT ![Sole] = conn[Sole]] /\ Sane(conn[Sole])
    BY <1>1, <2>1, SoleBefore DEF IInv, TypeOK
  <2>4. /\ bucket' \in BucketType /\ bucket'.budget + bucket'.running = Budget
        /\ bucket'.queue # << >> => bucket'.running = Budget
    BY <1>1, <2>1, SoleBefore
  <2>5. conn[Sole].status = "off" /\ ever => conn[Sole].retry
    BY <1>1, SoleBefore, LiveIsSane
  <2> HIDE DEF H
  <2> QED
    BY <1>1, <1>3, <2>2, <2>3, <2>4, <2>5, LimitedStep
<1> QED
  BY <1>2, <1>3

LEMMA CreateAnonymousStep ==
    ASSUME IInv, NEW name \in Names, CreateAnonymous(name), UNCHANGED kind
    PROVE  IInv'
<1>1. kind = "anonymous" /\ started' \in BOOLEAN
      /\ started' = (started \/ MustStart)
      /\ UNCHANGED <<live, ever, ensures, faults>>
      /\ held' = [held EXCEPT ![Sole] = @ \cup {name}]
  BY DEF CreateAnonymous, IInv, TypeOK, MustStart
<1>2. CASE conn[Sole].status = "connected"
  BY <1>1, <1>2, CreateConnected DEF CreateAnonymous
<1>3. CASE conn[Sole].status # "connected"
  <2> DEFINE H == held[Sole] \cup {name}
             d == Ensured(conn[Sole])
  <2>1. bucket' = bucket /\ conn' = [conn EXCEPT ![Sole] = d]
    BY <1>3 DEF CreateAnonymous
  <2>2. held' = [held EXCEPT ![Sole] = H] /\ H \in SUBSET Names
    BY <1>1, SoleBefore
  <2>3. Sane(conn[Sole]) /\ Sole \in live
    BY <1>1, SoleBefore
  <2>4. Sane(d) /\ d.status # "connected" /\ (d.status = "off" => d.retry)
    <3>1. CASE MustStart
      <4>1. Quiet(conn[Sole], d) /\ d.status # "off"
        BY <2>3, <3>1, OpenIsQuiet DEF Ensured
      <4> QED
        BY <1>3, <4>1 DEF Quiet
    <3>2. CASE ~MustStart
      <4>1. started
        BY <1>3, <3>2 DEF MustStart
      <4> QED
        BY <1>1, <1>3, <2>3, <3>2, <4>1, LiveIsSane DEF Ensured
    <3> QED
      BY <3>1, <3>2
  <2>5. /\ bucket' \in BucketType /\ bucket'.budget + bucket'.running = Budget
        /\ bucket'.queue # << >> => bucket'.running = Budget
    BY <1>1, <2>1, SoleBefore
  <2> HIDE DEF H, d
  <2> QED
    BY <1>1, <2>1, <2>2, <2>4, <2>5, LimitedStep
<1> QED
  BY <1>2, <1>3

LEMMA ConnectedLimitedStep ==
    ASSUME IInv, NEW i \in live, Connected(i), ConnectedLimited(i)
    PROVE  IInv'
<1>1. kind # "multi" /\ i = Sole /\ conn[Sole].status = "connecting"
      /\ UNCHANGED <<kind, live, held, ever, started, ensures, faults>>
  BY SoleBefore DEF Connected, ConnectedLimited
<1> DEFINE H == held[Sole]
           c == Welcomed(conn[Sole])
<1>2. PICK order \in Orders(H) :
        LET sent == Rejoin(order)
        IN  /\ bucket' = Handled(sent.b, sent.k)
            /\ conn' = [conn EXCEPT ![Sole] = SendJoins(c, Taken(sent.b, sent.k))]
  BY <1>1 DEF ConnectedLimited
<1>3. H \in SUBSET Names /\ Sane(conn[Sole])
  BY <1>1, SoleBefore
<1>4. order \in Seq(Names) /\ NamesIn(order) = H
  BY <1>3, OrdersType
<1>5. Sane(c) /\ c.status = "connected" /\ c.joined = {}
  BY <1>1, <1>3, WelcomedIsSane
<1> DEFINE sent == Send(bucket, order)
           after == Handled(sent.b, sent.k)
           d == SendJoins(c, {sent.b.queue[j] : j \in 1 .. sent.k} \cap H)
<1>6. bucket' = after /\ conn' = [conn EXCEPT ![Sole] = d]
  BY <1>2 DEF Rejoin, Taken
<1>7. held' = [held EXCEPT ![Sole] = H] /\ started' \in BOOLEAN
  BY <1>1 DEF IInv, TypeOK
<1> HIDE DEF H, c
<1>8. /\ after \in BucketType /\ after.budget + after.running = Budget
      /\ after.queue # << >> => after.running = Budget
      /\ Sane(d) /\ d.status = "connected"
      /\ d.joined \subseteq H /\ H \subseteq d.joined \cup NamesIn(after.queue)
  BY <1>1, <1>3, <1>4, <1>5, JoinSent
<1> HIDE DEF after, d
<1> QED
  BY <1>1, <1>3, <1>6, <1>7, <1>8, LimitedStep

LEMMA DestroySoleStep ==
    ASSUME IInv, kind # "multi", NEW name \in Names, NEW d, Sane(d),
           UNCHANGED <<kind, live, bucket, ever, ensures, faults>>,
           held' = [held EXCEPT ![Sole] = @ \ {name}],
           conn' = [conn EXCEPT ![Sole] = d],
           d.status = "connected" =>
              conn[Sole].status = "connected" /\ d.joined = conn[Sole].joined \ {name},
           d.status = "off" => \/ conn[Sole].status = "off" /\ d.retry = conn[Sole].retry
                               \/ kind = "anonymous" /\ held[Sole] = {name},
           started' \in BOOLEAN, started' => started,
           kind = "anonymous" /\ held[Sole] = {name} => ~started'
    PROVE  IInv'
<1> DEFINE H == held[Sole] \ {name}
<1>1. /\ Sole \in live /\ H \in SUBSET Names
      /\ bucket' \in BucketType /\ bucket'.budget + bucket'.running = Budget
      /\ bucket'.queue # << >> => bucket'.running = Budget
  BY SoleBefore
<1>2. held' = [held EXCEPT ![Sole] = H]
  OBVIOUS
<1>3. d.status = "connected" =>
        d.joined \subseteq H /\ H \subseteq d.joined \cup NamesIn(bucket'.queue)
  BY SoleBefore
<1>4. /\ kind = "anonymous" /\ d.status = "off" =>
              (H # {} => d.retry \/ ensures > 0) /\ (started' => d.retry)
      /\ kind # "anonymous" /\ d.status = "off" /\ ever => d.retry
  BY <1>1, LiveIsSane
<1> HIDE DEF H
<1> QED
  BY <1>1, <1>2, <1>3, <1>4, LimitedStep

-----------------------------------------------------------------------------
(* The pool of several connections *)

LEMMA MultiBefore ==
    ASSUME IInv, kind = "multi"
    PROVE  /\ live \in SUBSET Ids /\ ensures = 0
           /\ bucket.queue = << >> /\ bucket.running = 0 /\ NamesIn(bucket.queue) = {}
           /\ \A i \in Ids : Sane(conn[i]) /\ held[i] \in SUBSET Names
           /\ \A i \in live :
                 /\ held[i] # {} /\ Cardinality(held[i]) <= PerConnection
                 /\ conn[i].status = "connected" => conn[i].joined = held[i]
                 /\ conn[i].status = "off" /\ ever => conn[i].retry
           /\ \A i \in Ids \ live : held[i] = {} /\ conn[i] = NewConnection
           /\ \A i, j \in live : i # j => held[i] \cap held[j] = {}
<1>1. bucket.queue = << >> /\ NamesIn(bucket.queue) = {}
  BY DEF IInv, Support, NamesIn
<1>2. ASSUME NEW i \in live, conn[i].status = "connected" PROVE conn[i].joined = held[i]
  BY <1>1, <1>2 DEF IInv, JoinedOrQueued, NamesIn
<1> QED
  BY <1>1, <1>2 DEF IInv, TypeOK, Support, PoolIsTidy, LossIsPursued

LEMMA MultiStep ==
    ASSUME IInv, kind = "multi", UNCHANGED <<kind, bucket, ever, started, ensures, faults>>,
           NEW i \in Ids, live' \in SUBSET Ids, \A j \in Ids : j # i => (j \in live' <=> j \in live),
           NEW H \in SUBSET Names, held' = [held EXCEPT ![i] = H],
           NEW c, Sane(c), conn' = [conn EXCEPT ![i] = c],
           i \in live' =>
              /\ c.status = "connected" => c.joined = H
              /\ c.status = "off" /\ ever => c.retry
              /\ H # {} /\ Cardinality(H) <= PerConnection
              /\ \A j \in live : j # i => held[j] \cap H = {},
           i \notin live' => H = {} /\ c = NewConnection
    PROVE  IInv'
<1>1. /\ conn' \in [Ids -> Connection] /\ held' \in [Ids -> SUBSET Names]
      /\ conn'[i] = c /\ held'[i] = H
      /\ \A j \in Ids : j # i => conn'[j] = conn[j] /\ held'[j] = held[j]
  BY DEF IInv, TypeOK, Sane
<1>2. TypeOK'
  BY <1>1 DEF IInv, TypeOK
<1>3. RateKept'
  BY DEF RateKept, IInv
<1>4. LossIsPursued'
  BY <1>1, MultiBefore DEF LossIsPursued
<1>5. JoinedOrQueued'
  BY <1>1, MultiBefore DEF JoinedOrQueued
<1>6. PoolIsTidy'
  <2>1. \A j, k \in live' : j # k => held'[j] \cap held'[k] = {}
    BY <1>1, MultiBefore
  <2>2. \A j \in live' : held'[j] # {} /\ Cardinality(held'[j]) <= PerConnection
    BY <1>1, MultiBefore
  <2>3. \A j \in Ids \ live' : held'[j] = {} /\ conn'[j] = NewConnection
    BY <1>1, MultiBefore
  <2> QED
    BY <2>1, <2>2, <2>3 DEF PoolIsTidy
<1>7. Support'
  BY <1>1 DEF Support, IInv
<1> QED
  BY <1>2, <1>3, <1>4, <1>5, <1>6, <1>7 DEF IInv

LEMMA CreateMultiStep ==
    ASSUME IInv, NEW name \in Names, name \notin Channels, CreateMulti(name), UNCHANGED kind
    PROVE  IInv'
<1>1. kind = "multi" /\ UNCHANGED <<kind, bucket, ever, started, ensures, faults>>
  BY DEF CreateMulti
<1>2. PICK i \in Ids, created \in BOOLEAN :
        /\ GetOrCreate(i, created)
        /\ live' = live \cup {i}
        /\ held' = [held EXCEPT ![i] = @ \cup {name}]
        /\ conn' = [conn EXCEPT ![i] =
              IF created /\ ever THEN Open(Close(@)) ELSE SendJoins(@, {name})]
  BY DEF CreateMulti
<1> DEFINE H == held[i] \cup {name}
           c == IF created /\ ever THEN Open(Close(conn[i])) ELSE SendJoins(conn[i], {name})
<1>3. /\ Sane(conn[i]) /\ held[i] \in SUBSET Names /\ live \in SUBSET Ids
      /\ i \notin live => held[i] = {} /\ conn[i] = NewConnection
  BY <1>1, MultiBefore
<1>4. (i \in live /\ HasRoom(i) /\ ~created) \/ (i \notin live /\ created)
  BY <1>2 DEF GetOrCreate
<1>5. H \in SUBSET Names /\ held' = [held EXCEPT ![i] = H] /\ conn' = [conn EXCEPT ![i] = c]
  BY <1>2, <1>3
<1>6. H # {} /\ Cardinality(H) <= PerConnection
  <2>1. /\ IsFiniteSet(held[i]) /\ Cardinality(held[i]) \in Nat
        /\ Cardinality(H) = IF name \in held[i] THEN Cardinality(held[i]) ELSE Cardinality(held[i]) + 1
    BY <1>3, NamesAssumption, FS_Subset, FS_CardinalityType, FS_AddElement
  <2>2. Cardinality(held[i]) < PerConnection
    <3>1. CASE i \in live
      BY <1>4, <3>1 DEF HasRoom
    <3>2. CASE i \notin live
      BY <1>3, <3>2, FS_EmptySet, BoundsAssumption
    <3> QED
      BY <3>1, <3>2
  <2> HIDE DEF H
  <2>3. Cardinality(H) <= PerConnection
    BY <2>1, <2>2, BoundsAssumption
  <2> QED
    BY <2>3 DEF H
<1>7. \A j \in live : j # i => held[j] \cap H = {}
  <2>1. \A j \in live : name \notin held[j]
    BY DEF Channels
  <2> QED
    BY <1>1, <1>3, <2>1, MultiBefore
<1>8. /\ Sane(c)
      /\ c.status = "connected" => c.joined = H
      /\ c.status = "off" /\ ever => c.retry
  <2>1. CASE created /\ ever
    <3>1. Quiet(conn[i], Open(Close(conn[i]))) /\ Open(Close(conn[i])).status # "off"
      BY <1>3, ReopenIsQuiet
    <3>2. conn[i].status = "off" /\ c = Open(Close(conn[i]))
      BY <1>3, <1>4, <2>1, NewIsSane
    <3> QED
      BY <3>1, <3>2 DEF Quiet
  <2>2. CASE ~(created /\ ever)
    <3>1. c = SendJoins(conn[i], {name})
      BY <2>2
    <3>2. /\ Sane(c) /\ c.status = conn[i].status /\ c.retry = conn[i].retry
          /\ conn[i].status = "connected" => c.joined = conn[i].joined \cup {name}
      BY <1>3, <3>1, JoinsAreSane
    <3>3. CASE i \in live
      BY <1>1, <3>2, <3>3, MultiBefore
    <3>4. CASE i \notin live
      BY <1>3, <1>4, <2>2, <3>2, <3>4, NewIsSane
    <3> HIDE DEF c
    <3> QED
      BY <3>2, <3>3, <3>4
  <2> QED
    BY <2>1, <2>2
<1>9. live' \in SUBSET Ids /\ i \in live' /\ \A j \in Ids : j # i => (j \in live' <=> j \in live)
  BY <1>2, <1>3
<1> HIDE DEF H, c
<1> QED
  BY <1>1, <1>5, <1>6, <1>7, <1>8, <1>9, MultiStep

LEMMA ConnectedMultiStep ==
    ASSUME IInv, NEW i \in live, Connected(i), ConnectedMulti(i)
    PROVE  IInv'
<1> DEFINE c == SendJoins(Welcomed(conn[i]), held[i])
<1>1. kind = "multi" /\ conn[i].status = "connecting"
      /\ UNCHANGED <<kind, live, held, bucket, ever, started, ensures, faults>>
      /\ conn' = [conn EXCEPT ![i] = c]
  BY DEF Connected, ConnectedMulti
<1>2. i \in Ids /\ Sane(conn[i]) /\ held[i] \in SUBSET Names /\ live \in SUBSET Ids
  BY <1>1, MultiBefore
<1>3. Sane(Welcomed(conn[i])) /\ Welcomed(conn[i]).status = "connected" /\ Welcomed(conn[i]).joined = {}
  BY <1>1, <1>2, WelcomedIsSane
<1>4. Sane(c) /\ c.status = "connected" /\ c.joined = held[i]
  <2> DEFINE w == Welcomed(conn[i])
  <2> HIDE DEF w
  <2>1. Sane(w) /\ w.status = "connected" /\ w.joined = {}
    BY <1>3 DEF w
  <2>2. /\ Sane(SendJoins(w, held[i])) /\ SendJoins(w, held[i]).status = "connected"
        /\ SendJoins(w, held[i]).joined = w.joined \cup held[i]
    BY <1>2, <2>1, JoinsAreSane
  <2>3. w.joined \cup held[i] = held[i]
    BY <2>1
  <2> QED
    BY <2>2, <2>3 DEF w
<1>5. held' = [held EXCEPT ![i] = held[i]]
  BY <1>1 DEF IInv, TypeOK
<1>6. /\ held[i] # {} /\ Cardinality(held[i]) <= PerConnection
      /\ \A j \in live : j # i => held[j] \cap held[i] = {}
  BY <1>1, MultiBefore
<1> HIDE DEF c
<1> QED
  BY <1>1, <1>2, <1>4, <1>5, <1>6, MultiStep

LEMMA DestroyMultiStep ==
    ASSUME IInv, NEW i \in live, NEW name \in held[i],
           held' = [held EXCEPT ![i] = @ \ {name}], DestroyMulti(i, name),
           UNCHANGED <<kind, bucket, ever, ensures, faults>>
    PROVE  IInv'
<1> DEFINE H == held[i] \ {name}
           c == IF held[i] = {name} THEN NewConnection ELSE SendPart(conn[i], name)
<1>1. kind = "multi" /\ started' = started
      /\ live' = (IF held[i] = {name} THEN live \ {i} ELSE live)
      /\ conn' = [conn EXCEPT ![i] = c]
  BY DEF DestroyMulti
<1>2. /\ i \in Ids /\ Sane(conn[i]) /\ held[i] \in SUBSET Names /\ live \in SUBSET Ids
      /\ name \in Names /\ H \in SUBSET Names
  BY <1>1, MultiBefore
<1>3. /\ live' \in SUBSET Ids /\ \A j \in Ids : j # i => (j \in live' <=> j \in live)
      /\ i \in live' <=> held[i] # {name}
  BY <1>1, <1>2
<1>4. i \notin live' => H = {} /\ c = NewConnection
  BY <1>3
<1>5. Sane(c)
  BY <1>2, NewIsSane, PartIsSane
<1>6. i \in live' =>
        /\ c.status = "connected" => c.joined = H
        /\ c.status = "off" /\ ever => c.retry
  <2> SUFFICES ASSUME i \in live'
               PROVE  /\ c.status = "connected" => c.joined = H
                      /\ c.status = "off" /\ ever => c.retry
    OBVIOUS
  <2>1. c = SendPart(conn[i], name)
    BY <1>3
  <2>2. c.status = conn[i].status /\ c.retry = conn[i].retry /\ c.joined = conn[i].joined \ {name}
    <3>1. /\ SendPart(conn[i], name).status = conn[i].status
          /\ SendPart(conn[i], name).retry = conn[i].retry
          /\ SendPart(conn[i], name).joined = conn[i].joined \ {name}
      BY <1>2, PartIsSane
    <3> HIDE DEF c
    <3> QED
      BY <2>1, <3>1
  <2> HIDE DEF c
  <2> QED
    BY <1>1, <2>2, MultiBefore
<1>7. i \in live' => H # {} /\ Cardinality(H) <= PerConnection
  <2>1. i \in live' => H # {}
    BY <1>3
  <2>2. IsFiniteSet(held[i]) /\ Cardinality(held[i]) \in Nat
    BY <1>2, NamesAssumption, FS_Subset, FS_CardinalityType
  <2>3. Cardinality(H) <= Cardinality(held[i]) /\ Cardinality(H) \in Nat
    BY <2>2, FS_Subset, FS_CardinalityType
  <2>4. Cardinality(held[i]) <= PerConnection
    BY <1>1, MultiBefore
  <2> HIDE DEF H
  <2> QED
    BY <2>1, <2>2, <2>3, <2>4, BoundsAssumption
<1>8. \A j \in live : j # i => held[j] \cap H = {}
  BY <1>1, MultiBefore
<1>9. held' = [held EXCEPT ![i] = H]
  OBVIOUS
<1>10. UNCHANGED <<kind, bucket, ever, started, ensures, faults>>
  BY <1>1
<1> HIDE DEF H, c
<1> QED
  BY <1>1, <1>2, <1>3, <1>4, <1>5, <1>6, <1>7, <1>8, <1>9, <1>10, MultiStep

LEMMA DestroyStep == ASSUME IInv, NEW name \in Names, Destroy(name) PROVE IInv'
<1>1. PICK i \in live :
        /\ name \in held[i]
        /\ held' = [held EXCEPT ![i] = @ \ {name}]
        /\ DestroySingle(i, name) \/ DestroyMulti(i, name) \/ DestroyAnonymous(i, name)
  BY DEF Destroy
<1>2. UNCHANGED <<kind, bucket, ever, ensures, faults>> /\ started \in BOOLEAN
  BY DEF Destroy, IInv, TypeOK
<1>3. Sane(conn[i]) /\ i \in Ids
  BY LiveIsSane
<1>4. /\ Sane(SendPart(conn[i], name)) /\ SendPart(conn[i], name).status = conn[i].status
      /\ SendPart(conn[i], name).retry = conn[i].retry
      /\ SendPart(conn[i], name).joined = conn[i].joined \ {name}
  BY <1>3, PartIsSane
<1>5. CASE DestroySingle(i, name)
  <2>1. kind = "single" /\ i = Sole /\ live' = live /\ started' = started
        /\ conn' = [conn EXCEPT ![i] = SendPart(conn[i], name)]
    BY <1>5, SoleBefore DEF DestroySingle
  <2> QED
    BY <1>1, <1>2, <1>4, <2>1, DestroySoleStep
<1>6. CASE DestroyMulti(i, name)
  BY <1>1, <1>2, <1>6, DestroyMultiStep
<1>7. CASE DestroyAnonymous(i, name)
  <2>1. kind = "anonymous" /\ i = Sole /\ live' = live
        /\ started' = (started /\ held[i] # {name})
        /\ conn' = [conn EXCEPT ![i] = IF held[i] = {name} THEN Close(conn[i]) ELSE SendPart(conn[i], name)]
    BY <1>7, SoleBefore DEF DestroyAnonymous
  <2>2. CASE held[i] = {name}
    <3>1. Quiet(conn[i], Close(conn[i])) /\ Close(conn[i]).status = "off"
      BY <1>3, CloseIsQuiet
    <3>2. Sane(Close(conn[i])) /\ ~started'
      BY <2>1, <2>2, <3>1 DEF Quiet
    <3>3. conn' = [conn EXCEPT ![Sole] = Close(conn[i])]
      BY <2>1, <2>2
    <3> QED
      BY <1>1, <1>2, <2>1, <2>2, <3>1, <3>2, <3>3, DestroySoleStep
  <2>3. CASE held[i] # {name}
    <3>1. conn' = [conn EXCEPT ![Sole] = SendPart(conn[i], name)] /\ started' = started
      BY <1>2, <2>1, <2>3
    <3> QED
      BY <1>1, <1>2, <1>4, <2>1, <2>3, <3>1, DestroySoleStep
  <2> QED
    BY <2>2, <2>3
<1> QED
  BY <1>1, <1>5, <1>6, <1>7

LEMMA CreateStep == ASSUME IInv, NEW name \in Names, Create(name) PROVE IInv'
  BY CreateSingleStep, CreateAnonymousStep, CreateMultiStep DEF Create

-----------------------------------------------------------------------------
(* The invariant and what follows from it *)

LEMMA InitHolds == Init => IInv
<1> SUFFICES ASSUME Init PROVE IInv
  OBVIOUS
<1>1. TypeOK
  <2>1. NewConnection \in Connection
    BY NewIsSane DEF Sane
  <2>2. bucket \in [queue : Seq(Names), budget : 0 .. Budget, running : 0 .. Budget]
    <3>1. << >> \in Seq(Names) /\ Budget \in 0 .. Budget /\ 0 \in 0 .. Budget
      BY BoundsAssumption
    <3> QED
      BY <3>1 DEF Init
  <2>3. live \subseteq Ids /\ kind \in {"single", "multi", "anonymous"}
    BY SoleIsId DEF Init
  <2>4. conn \in [Ids -> Connection] /\ held \in [Ids -> SUBSET Names]
    BY <2>1 DEF Init
  <2>5. ever \in BOOLEAN /\ started \in BOOLEAN
    BY DEF Init
  <2>6. ensures \in 0 .. MaxFaults /\ faults \in 0 .. MaxFaults
    BY BoundsAssumption DEF Init
  <2> QED
    BY <2>2, <2>3, <2>4, <2>5, <2>6 DEF TypeOK
<1>2. RateKept
  BY BoundsAssumption DEF Init, RateKept
<1>3. LossIsPursued
  <2> SUFFICES ASSUME NEW i \in live
               PROVE  ~(IF kind = "anonymous" THEN held[i] # {} ELSE ever)
    BY DEF LossIsPursued
  <2>1. i \in Ids
    BY SoleIsId DEF Init
  <2> QED
    BY <2>1 DEF Init
<1>4. JoinedOrQueued
  BY <1>1, NewIsSane DEF Init, JoinedOrQueued, TypeOK
<1>5. PoolIsTidy
  BY SoleIsId DEF Init, PoolIsTidy
<1>6. Support
  BY NewIsSane, SoleIsId, BoundsAssumption DEF Init, Support
<1> QED
  BY <1>1, <1>2, <1>3, <1>4, <1>5, <1>6 DEF IInv

LEMMA StutterStep == IInv /\ UNCHANGED vars => IInv'
  BY DEF IInv, TypeOK, RateKept, LossIsPursued, JoinedOrQueued, PoolIsTidy, Support, vars

(* Every step of the system keeps the invariant.                             *)
THEOREM InvariantHolds == Spec => []IInv
<1>1. ASSUME IInv, [Next]_vars PROVE IInv'
  <2>1. ASSUME NEW name \in Names, Create(name) \/ Destroy(name) PROVE IInv'
    BY <1>1, <2>1, CreateStep, DestroyStep
  <2>2. ASSUME Reload PROVE IInv'
    BY <1>1, <2>2, ReconnectAnonymousStep DEF Reload
  <2>3. ASSUME NEW i \in live, Connected(i) PROVE IInv'
    BY <1>1, <2>3, ConnectedMultiStep, ConnectedLimitedStep DEF Connected
  <2>4. ASSUME NEW i \in live,
               \/ Requested(i) \/ Lost(i) \/ Silenced(i)
               \/ Hear(i) \/ Ping(i) \/ Retry(i)
        PROVE  IInv'
    BY <1>1, <2>4, RequestedStep, LostStep, SilencedStep, HearStep, PingStep, RetryStep
  <2> QED
    BY <1>1, <2>1, <2>2, <2>3, <2>4, ConnectStep, EnsureStep, CooldownStep, StutterStep DEF Next
<1> QED
  BY <1>1, InitHolds, PTL DEF Spec

(* Each variable keeps its type.                                             *)
THEOREM TypeCorrect == Spec => []TypeOK
<1>1. IInv => TypeOK
  BY DEF IInv
<1> QED
  BY <1>1, InvariantHolds, PTL

(* RatelimitBucket: at most Budget joins in a cooldown, and while joins wait *)
(* every unit of the budget has a timer that will send one.                  *)
THEOREM RateIsKept == Spec => []RateKept
<1>1. IInv => RateKept
  BY DEF IInv
<1> QED
  BY <1>1, InvariantHolds, PTL

(* The handlers of connectionLost, connect() and the anonymous connection:   *)
(* a connection that should be up and is not has a timer or a posted call    *)
(* that opens it.                                                            *)
THEOREM LossesArePursued == Spec => []LossIsPursued
<1>1. IInv => LossIsPursued
  BY DEF IInv
<1> QED
  BY <1>1, InvariantHolds, PTL

(* onConnected, onChannelCreated and actuallyJoin: on a connection that is   *)
(* up every channel is joined or waits for its turn, and no closed one is.   *)
THEOREM ChannelsAreJoined == Spec => []JoinedOrQueued
<1>1. IInv => JoinedOrQueued
  BY DEF IInv
<1> QED
  BY <1>1, InvariantHolds, PTL

(* getOrCreate and the destroyed handlers: a channel is read once, and no    *)
(* connection of several is over its bound or without channels.              *)
THEOREM PoolStaysTidy == Spec => []PoolIsTidy
<1>1. IInv => PoolIsTidy
  BY DEF IInv
<1> QED
  BY <1>1, InvariantHolds, PTL
=============================================================================
