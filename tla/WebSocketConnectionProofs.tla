--------------------- MODULE WebSocketConnectionProofs ---------------------
(***************************************************************************)
(* Proofs about WebSocketConnection, for any messages, endpoints and       *)
(* bounds: its types, proved one conjunct at a time, that a listener who   *)
(* waits is told in the end, and that a connection implements              *)
(* WebSocketContract.                                                      *)
(***************************************************************************)
EXTENDS WebSocketConnection, TLAPS

(* What trySend() leaves.                                                  *)
LEMMA TrySendType ==
    ASSUME QueuesOK, NEW st, NEW queue \in Seq(Messages), NEW sending \in BOOLEAN,
           TrySend(st, queue, sending)
    PROVE  /\ queuedMessages' \in Seq(Messages)
           /\ isSending' \in BOOLEAN
           /\ writing' \in Messages \cup {None}
<1>1. queuedMessages' = queue
  BY DEF TrySend
<1>2. CASE queue = << >> \/ sending \/ st # "open"
  BY <1>1, <1>2 DEF TrySend, QueuesOK
<1>3. CASE ~(queue = << >> \/ sending \/ st # "open")
  <2>1. isSending' = TRUE /\ writing' = Head(queue) /\ queue # << >>
    BY <1>3 DEF TrySend
  <2>2. Head(queue) \in Messages
    BY <2>1
  <2>3. QED
    BY <1>1, <2>1, <2>2
<1>4. QED
  BY <1>2, <1>3

LEMMA QueuesStep == TypeOK /\ WriteIsFront /\ [Next]_vars => QueuesOK'
<1>1. SUFFICES ASSUME TypeOK, WriteIsFront, [Next]_vars PROVE QueuesOK'
  OBVIOUS
<1>2. QED
  <2> USE <1>1, NoneAssumption DEF QueuesOK, TypeOK
  <2>1. CASE \E m \in Messages : SendText(m)
    BY <2>1 DEF SendText, Posts, ends, out, health, record
  <2>2. CASE Close
    BY <2>2 DEF Close, Posts, ends, out, health, record
  <2>3. CASE Run
    BY <2>3 DEF Run, Posted, ConnectFails, Connect, Fail, CloseImpl, Detach,
       ends, out, health, record
  <2>4. CASE RunSend
    <3>1. /\ TrySend(stream, Append(queuedMessages, Head(posts).m), isSending)
          /\ posts # << >> /\ Head(posts).op = "send" /\ posts' = Tail(posts)
          /\ accepted' = accepted /\ wire' = wire
      BY <2>4 DEF RunSend, Posted, record
    <3>2. Head(posts) \in Posts /\ posts' \in Seq(Posts)
      BY <3>1
    <3>3. Append(queuedMessages, Head(posts).m) \in Seq(Messages)
      BY <3>1, <3>2 DEF Posts
    <3>4. QED
      BY <3>1, <3>2, <3>3, TrySendType
  <2>5. CASE RunClose
    BY <2>5 DEF RunClose, Posted, CloseImpl, ends, out, health, record
  <2>6. CASE OnResolve
    BY <2>6 DEF OnResolve, TryConnect, ConnectFails, Connect, Fail,
       CloseImpl, Detach, ends, out, health, record
  <2>7. CASE OnTcpHandshake
    BY <2>7 DEF OnTcpHandshake, TryConnect, ConnectFails, Connect, Fail,
       CloseImpl, Detach, ends, out, health, record
  <2>8. CASE OnTlsHandshake
    BY <2>8 DEF OnTlsHandshake, ConnectFails, Connect, Fail, CloseImpl,
       Detach, ends, out, health, record
  <2>9. CASE OnWsHandshake
    <3>1. posts' = posts /\ accepted' = accepted /\ wire' = wire
      BY <2>9 DEF OnWsHandshake, record
    <3>2. UNCHANGED out \/ TrySend("open", queuedMessages, isSending)
      BY <2>9 DEF OnWsHandshake
    <3>3. QED
      BY <3>1, <3>2, TrySendType DEF out
  <2>10. CASE OnReadDone
    BY <2>10 DEF OnReadDone, AfterError, Fail, CloseImpl, Detach, ends, out,
       health, record
  <2>11. CASE OnWriteDone
    <3>1. posts' = posts /\ accepted' = accepted /\ wire' \in {wire, Append(wire, writing)}
      BY <2>11 DEF OnWriteDone, record
    <3>2. writing \in Messages
      BY <2>11 DEF OnWriteDone
    <3>3. wire' \in Seq(Messages)
      <4>1. wire \in Seq(Messages) /\ Append(wire, writing) \in Seq(Messages)
        BY <3>2
      <4>2. QED
        BY <3>1, <4>1
    <3>4. \/ TrySend(stream, Tail(queuedMessages), FALSE)
          \/ queuedMessages' = Tail(queuedMessages) /\ isSending' = FALSE /\ writing' = None
      BY <2>11 DEF OnWriteDone
    <3>5. CASE queuedMessages # << >>
      <4>1. Tail(queuedMessages) \in Seq(Messages)
        BY <3>5
      <4>2. QED
        BY <3>1, <3>3, <3>4, <4>1, TrySendType
    <3>6. QED
      BY <3>2, <3>5, NoneAssumption DEF WriteIsFront
  <2>12. CASE OnCloseDone
    BY <2>12 DEF OnCloseDone, Detach, ends, out, health, record
  <2>13. CASE HealthTimerExpires
    BY <2>13 DEF HealthTimerExpires, ends, out, health, record
  <2>14. CASE OnHealthCheck
    BY <2>14 DEF OnHealthCheck, Fail, CloseImpl, Detach, ends, out, health,
       record
  <2>15. CASE OnPong
    BY <2>15 DEF OnPong, ends, out, health, record
  <2>16. CASE PeerDies
    BY <2>16 DEF PeerDies, ends, out, health, record
  <2>17. CASE UNCHANGED vars
    BY <2>17 DEF vars, ends, out, health, record
  <2>99. QED
    BY <2>1, <2>2, <2>3, <2>4, <2>5, <2>6, <2>7, <2>8, <2>9, <2>10, <2>11,
       <2>12, <2>13, <2>14, <2>15, <2>16, <2>17 DEF Next

LEMMA ControlStep == TypeOK /\ WriteIsFront /\ [Next]_vars => ControlOK'
<1>1. SUFFICES ASSUME TypeOK, WriteIsFront, [Next]_vars PROVE ControlOK'
  OBVIOUS
<1>2. QED
  <2> USE <1>1 DEF ControlOK, TypeOK
  <2>1. CASE \E m \in Messages : SendText(m)
    BY <2>1 DEF SendText, Posts, ends, out, health, record
  <2>2. CASE Close
    BY <2>2 DEF Close, Posts, ends, out, health, record
  <2>3. CASE Run
    BY <2>3 DEF Run, Posted, ConnectFails, Connect, Fail, CloseImpl, Detach,
       ends, out, health, record
  <2>4. CASE RunSend
    BY <2>4 DEF RunSend, Posted, TrySend, Posts, ends, out, health, record
  <2>5. CASE RunClose
    BY <2>5 DEF RunClose, Posted, CloseImpl, ends, out, health, record
  <2>6. CASE OnResolve
    BY <2>6 DEF OnResolve, TryConnect, ConnectFails, Connect, Fail,
       CloseImpl, Detach, ends, out, health, record
  <2>7. CASE OnTcpHandshake
    BY <2>7 DEF OnTcpHandshake, TryConnect, ConnectFails, Connect, Fail,
       CloseImpl, Detach, ends, out, health, record
  <2>8. CASE OnTlsHandshake
    BY <2>8 DEF OnTlsHandshake, ConnectFails, Connect, Fail, CloseImpl,
       Detach, ends, out, health, record
  <2>9. CASE OnWsHandshake
    BY <2>9 DEF OnWsHandshake, TrySend, Fail, Detach, ends, out, health, record
  <2>10. CASE OnReadDone
    BY <2>10 DEF OnReadDone, AfterError, Fail, CloseImpl, Detach, ends, out,
       health, record
  <2>11. CASE OnWriteDone
    BY <2>11 DEF OnWriteDone, TrySend, AfterError, Fail, CloseImpl, Detach,
       ends, out, health, record
  <2>12. CASE OnCloseDone
    BY <2>12 DEF OnCloseDone, Detach, ends, out, health, record
  <2>13. CASE HealthTimerExpires
    BY <2>13 DEF HealthTimerExpires, ends, out, health, record
  <2>14. CASE OnHealthCheck
    BY <2>14 DEF OnHealthCheck, Fail, CloseImpl, Detach, ends, out, health,
       record
  <2>15. CASE OnPong
    BY <2>15 DEF OnPong, ends, out, health, record
  <2>16. CASE PeerDies
    BY <2>16 DEF PeerDies, ends, out, health, record
  <2>17. CASE UNCHANGED vars
    BY <2>17 DEF vars, ends, out, health, record
  <2>99. QED
    BY <2>1, <2>2, <2>3, <2>4, <2>5, <2>6, <2>7, <2>8, <2>9, <2>10, <2>11,
       <2>12, <2>13, <2>14, <2>15, <2>16, <2>17 DEF Next

LEMMA StagesStep == TypeOK /\ WriteIsFront /\ [Next]_vars => StagesOK'
<1>1. SUFFICES ASSUME TypeOK, WriteIsFront, [Next]_vars PROVE StagesOK'
  OBVIOUS
<1>2. QED
  <2> USE <1>1 DEF StagesOK, Streams, Steps, TypeOK
  <2>1. CASE \E m \in Messages : SendText(m)
    BY <2>1 DEF SendText, Posts, ends, out, health, record
  <2>2. CASE Close
    BY <2>2 DEF Close, Posts, ends, out, health, record
  <2>3. CASE Run
    BY <2>3 DEF Run, Posted, ConnectFails, Connect, Fail, CloseImpl, Detach,
       ends, out, health, record
  <2>4. CASE RunSend
    BY <2>4 DEF RunSend, Posted, TrySend, Posts, ends, out, health, record
  <2>5. CASE RunClose
    BY <2>5 DEF RunClose, Posted, CloseImpl, ends, out, health, record
  <2>6. CASE OnResolve
    BY <2>6 DEF OnResolve, TryConnect, ConnectFails, Connect, Fail,
       CloseImpl, Detach, ends, out, health, record
  <2>7. CASE OnTcpHandshake
    BY <2>7 DEF OnTcpHandshake, TryConnect, ConnectFails, Connect, Fail,
       CloseImpl, Detach, ends, out, health, record
  <2>8. CASE OnTlsHandshake
    BY <2>8 DEF OnTlsHandshake, ConnectFails, Connect, Fail, CloseImpl,
       Detach, ends, out, health, record
  <2>9. CASE OnWsHandshake
    BY <2>9 DEF OnWsHandshake, TrySend, Fail, Detach, ends, out, health, record
  <2>10. CASE OnReadDone
    BY <2>10 DEF OnReadDone, AfterError, Fail, CloseImpl, Detach, ends, out,
       health, record
  <2>11. CASE OnWriteDone
    BY <2>11 DEF OnWriteDone, TrySend, AfterError, Fail, CloseImpl, Detach,
       ends, out, health, record
  <2>12. CASE OnCloseDone
    BY <2>12 DEF OnCloseDone, Detach, ends, out, health, record
  <2>13. CASE HealthTimerExpires
    BY <2>13 DEF HealthTimerExpires, ends, out, health, record
  <2>14. CASE OnHealthCheck
    BY <2>14 DEF OnHealthCheck, Fail, CloseImpl, Detach, ends, out, health,
       record
  <2>15. CASE OnPong
    BY <2>15 DEF OnPong, ends, out, health, record
  <2>16. CASE PeerDies
    BY <2>16 DEF PeerDies, ends, out, health, record
  <2>17. CASE UNCHANGED vars
    BY <2>17 DEF vars, ends, out, health, record
  <2>99. QED
    BY <2>1, <2>2, <2>3, <2>4, <2>5, <2>6, <2>7, <2>8, <2>9, <2>10, <2>11,
       <2>12, <2>13, <2>14, <2>15, <2>16, <2>17 DEF Next

LEMMA CountersStep == TypeOK /\ WriteIsFront /\ [Next]_vars => CountersOK'
<1>1. SUFFICES ASSUME TypeOK, WriteIsFront, [Next]_vars PROVE CountersOK'
  OBVIOUS
<1>2. QED
  <2> USE <1>1, BoundAssumption DEF CountersOK, TypeOK
  <2>1. CASE \E m \in Messages : SendText(m)
    BY <2>1 DEF SendText, Posts, ends, out, health, record
  <2>2. CASE Close
    BY <2>2 DEF Close, Posts, ends, out, health, record
  <2>3. CASE Run
    BY <2>3 DEF Run, Posted, ConnectFails, Connect, Fail, CloseImpl, Detach,
       ends, out, health, record
  <2>4. CASE RunSend
    BY <2>4 DEF RunSend, Posted, TrySend, Posts, ends, out, health, record
  <2>5. CASE RunClose
    BY <2>5 DEF RunClose, Posted, CloseImpl, ends, out, health, record
  <2>6. CASE OnResolve
    BY <2>6 DEF OnResolve, TryConnect, ConnectFails, Connect, Fail,
       CloseImpl, Detach, ends, out, health, record
  <2>7. CASE OnTcpHandshake
    BY <2>7 DEF OnTcpHandshake, TryConnect, ConnectFails, Connect, Fail,
       CloseImpl, Detach, ends, out, health, record
  <2>8. CASE OnTlsHandshake
    BY <2>8 DEF OnTlsHandshake, ConnectFails, Connect, Fail, CloseImpl,
       Detach, ends, out, health, record
  <2>9. CASE OnWsHandshake
    BY <2>9 DEF OnWsHandshake, TrySend, Fail, Detach, ends, out, health, record
  <2>10. CASE OnReadDone
    <3>1. pings' \in {pings, 0} /\ endpoints' = endpoints /\ closeCalls' = closeCalls
      BY <2>10 DEF OnReadDone, record
    <3>2. QED
      BY <3>1
  <2>11. CASE OnWriteDone
    BY <2>11 DEF OnWriteDone, TrySend, AfterError, Fail, CloseImpl, Detach,
       ends, out, health, record
  <2>12. CASE OnCloseDone
    BY <2>12 DEF OnCloseDone, Detach, ends, out, health, record
  <2>13. CASE HealthTimerExpires
    BY <2>13 DEF HealthTimerExpires, ends, out, health, record
  <2>14. CASE OnHealthCheck
    BY <2>14 DEF OnHealthCheck, Fail, CloseImpl, Detach, ends, out, health,
       record
  <2>15. CASE OnPong
    BY <2>15 DEF OnPong, ends, out, health, record
  <2>16. CASE PeerDies
    BY <2>16 DEF PeerDies, ends, out, health, record
  <2>17. CASE UNCHANGED vars
    BY <2>17 DEF vars, ends, out, health, record
  <2>99. QED
    BY <2>1, <2>2, <2>3, <2>4, <2>5, <2>6, <2>7, <2>8, <2>9, <2>10, <2>11,
       <2>12, <2>13, <2>14, <2>15, <2>16, <2>17 DEF Next

(* A message behind the one being written leaves that one in front.        *)
LEMMA WriteIsFrontAppend ==
    ASSUME QueuesOK, WriteIsFront, NEW m \in Messages,
           TrySend(stream, Append(queuedMessages, m), isSending)
    PROVE  WriteIsFront'
<1>0. Append(queuedMessages, m) \in Seq(Messages)
  BY DEF QueuesOK
<1>1. PICK queue \in Seq(Messages) :
          /\ queue = Append(queuedMessages, m)
          /\ TrySend(stream, queue, isSending)
  BY ONLY <1>0, TrySend(stream, Append(queuedMessages, m), isSending)
<1>2. queue # << >> /\ Head(queue) \in Messages
  BY <1>1 DEF QueuesOK
<1>3. queuedMessages # << >> => Head(queue) = Head(queuedMessages)
  BY <1>1 DEF QueuesOK
<1>4. QED
  BY <1>1, <1>2, <1>3, NoneAssumption DEF TrySend, WriteIsFront

LEMMA WriteIsFrontStep == TypeOK /\ WriteIsFront /\ [Next]_vars => WriteIsFront'
<1>1. SUFFICES ASSUME TypeOK, WriteIsFront, [Next]_vars PROVE WriteIsFront'
  OBVIOUS
<1>2. QED
  <2> USE <1>1 DEF WriteIsFront
  <2>1. CASE \E m \in Messages : SendText(m)
    BY <2>1 DEF SendText, Posts, ends, out, health, record
  <2>2. CASE Close
    BY <2>2 DEF Close, Posts, ends, out, health, record
  <2>3. CASE Run
    BY <2>3 DEF Run, Posted, ConnectFails, Connect, Fail, CloseImpl, Detach,
       ends, out, health, record
  <2>4. CASE RunSend
    <3>1. /\ TrySend(stream, Append(queuedMessages, Head(posts).m), isSending)
          /\ posts # << >> /\ Head(posts).op = "send"
      BY <2>4 DEF RunSend, Posted
    <3>2. Head(posts) \in Posts
      BY <3>1 DEF TypeOK, QueuesOK
    <3>3. Head(posts).m \in Messages
      BY <3>1, <3>2 DEF Posts
    <3>4. QED
      BY <3>1, <3>3, WriteIsFrontAppend DEF TypeOK
  <2>5. CASE RunClose
    BY <2>5 DEF RunClose, Posted, CloseImpl, ends, out, health, record
  <2>6. CASE OnResolve
    BY <2>6 DEF OnResolve, TryConnect, ConnectFails, Connect, Fail,
       CloseImpl, Detach, ends, out, health, record
  <2>7. CASE OnTcpHandshake
    BY <2>7 DEF OnTcpHandshake, TryConnect, ConnectFails, Connect, Fail,
       CloseImpl, Detach, ends, out, health, record
  <2>8. CASE OnTlsHandshake
    BY <2>8 DEF OnTlsHandshake, ConnectFails, Connect, Fail, CloseImpl,
       Detach, ends, out, health, record
  <2>9. CASE OnWsHandshake
    <3>1. UNCHANGED out \/ TrySend("open", queuedMessages, isSending)
      BY <2>9 DEF OnWsHandshake
    <3>2. QED
      BY <3>1, NoneAssumption DEF TrySend, out, TypeOK, QueuesOK
  <2>10. CASE OnReadDone
    BY <2>10 DEF OnReadDone, AfterError, Fail, CloseImpl, Detach, ends, out,
       health, record
  <2>11. CASE OnWriteDone
    <3>1. \/ TrySend(stream, Tail(queuedMessages), FALSE)
          \/ queuedMessages' = Tail(queuedMessages) /\ isSending' = FALSE /\ writing' = None
      BY <2>11 DEF OnWriteDone
    <3>2. queuedMessages # << >>
      BY <2>11, NoneAssumption DEF OnWriteDone
    <3>3. Tail(queuedMessages) \in Seq(Messages)
      BY <3>2 DEF TypeOK, QueuesOK
    <3>4. CASE TrySend(stream, Tail(queuedMessages), FALSE)
      <4> DEFINE rest == Tail(queuedMessages)
      <4>1. PICK r \in Seq(Messages) : r = rest /\ TrySend(stream, r, FALSE)
        BY <3>3, <3>4
      <4>2. r # << >> => Head(r) \in Messages
        OBVIOUS
      <4>3. QED
        BY <4>1, <4>2, NoneAssumption DEF TrySend
    <3>5. QED
      BY <3>1, <3>4
  <2>12. CASE OnCloseDone
    BY <2>12 DEF OnCloseDone, Detach, ends, out, health, record
  <2>13. CASE HealthTimerExpires
    BY <2>13 DEF HealthTimerExpires, ends, out, health, record
  <2>14. CASE OnHealthCheck
    BY <2>14 DEF OnHealthCheck, Fail, CloseImpl, Detach, ends, out, health,
       record
  <2>15. CASE OnPong
    BY <2>15 DEF OnPong, ends, out, health, record
  <2>16. CASE PeerDies
    BY <2>16 DEF PeerDies, ends, out, health, record
  <2>17. CASE UNCHANGED vars
    BY <2>17 DEF vars, ends, out, health, record
  <2>99. QED
    BY <2>1, <2>2, <2>3, <2>4, <2>5, <2>6, <2>7, <2>8, <2>9, <2>10, <2>11,
       <2>12, <2>13, <2>14, <2>15, <2>16, <2>17 DEF Next

(* Every reachable state is type-correct, and the message being written is *)
(* the front of the queue: that is why onWriteDone() always finds one to   *)
(* remove.                                                                 *)
THEOREM TypeCorrect == Spec => [](TypeOK /\ WriteIsFront)
<1>1. Init => TypeOK /\ WriteIsFront
  <2> SUFFICES ASSUME Init PROVE TypeOK /\ WriteIsFront
    OBVIOUS
  <2>1. QueuesOK
    <3>1. posts = <<[op |-> "run", m |-> None]>> /\ [op |-> "run", m |-> None] \in Posts
      BY DEF Init, Posts
    <3>2. posts \in Seq(Posts)
      BY <3>1
    <3>3. << >> \in Seq(Messages)
      OBVIOUS
    <3>4. /\ queuedMessages = << >> /\ accepted = << >> /\ wire = << >>
          /\ isSending = FALSE /\ writing = None
      BY DEF Init
    <3>5. QED
      BY <3>2, <3>3, <3>4 DEF QueuesOK
  <2>2. ControlOK
    BY DEF Init, ControlOK
  <2>3. StagesOK
    BY DEF Init, StagesOK, Streams, Steps
  <2>4. CountersOK
    BY BoundAssumption DEF Init, CountersOK
  <2>5. QED
    BY <2>1, <2>2, <2>3, <2>4 DEF TypeOK, WriteIsFront, Init
<1>2. TypeOK /\ WriteIsFront /\ [Next]_vars => (TypeOK /\ WriteIsFront)'
  BY WriteIsFrontStep, QueuesStep, ControlStep, StagesStep, CountersStep DEF
     TypeOK
<1>3. QED
  BY <1>1, <1>2, PTL DEF Spec

(* The close is under way, or over and then nobody listens.                *)
ClosingIsTold == isClosing => (closing \/ ~listener)

LEMMA FailTells == ASSUME NEW st, Fail(st) PROVE listener' = FALSE
  BY DEF Fail, Detach

(* A listener that waits for news always has something under way whose end *)
(* it will be told.  That isClosing is only set while the close is under   *)
(* way or told is needed for the handlers that return because of it.       *)
THEOREM Listening == Spec => [](StillListening /\ ClosingIsTold)
<1> DEFINE Inv == StillListening /\ ClosingIsTold
<1>1. Init => Inv
  BY DEF Init, StillListening, ClosingIsTold
<1>2. TypeOK /\ Inv /\ [Next]_vars => Inv'
  <2> SUFFICES ASSUME TypeOK, Inv, [Next]_vars PROVE Inv'
    OBVIOUS
  <2> USE DEF StillListening, ClosingIsTold, TypeOK, QueuesOK, ControlOK
  <2>1. CASE \E m \in Messages : SendText(m)
    BY <2>1 DEF SendText, Posts, ends, out, health, record
  <2>2. CASE Close
    <3>1. PICK p \in Posts : posts' = Append(posts, p)
      BY <2>2 DEF Close, Posts
    <3>2. \A i \in DOMAIN posts : i \in DOMAIN posts' /\ posts'[i] = posts[i]
      BY <3>1
    <3>3. UNCHANGED <<listener, isClosing, connecting, reading, closing>>
      BY <2>2 DEF Close, ends
    <3>4. QED
      BY <3>2, <3>3
  <2>3. CASE Run
    BY <2>3 DEF Run, Posted, ConnectFails, Connect, Fail, CloseImpl, Detach,
       ends, out, health, record
  <2>4. CASE RunSend
    <3>1. posts # << >> /\ Head(posts).op = "send" /\ posts' = Tail(posts)
      BY <2>4 DEF RunSend, Posted
    <3>2. \A i \in DOMAIN posts : posts[i].op = "run" =>
             i - 1 \in DOMAIN posts' /\ posts'[i - 1] = posts[i]
      BY <3>1
    <3>3. UNCHANGED <<listener, isClosing, connecting, reading, closing>>
      BY <2>4 DEF RunSend, ends
    <3>4. QED
      BY <3>2, <3>3
  <2>5. CASE RunClose
    BY <2>5 DEF RunClose, Posted, CloseImpl, ends, out, health, record
  <2>6. CASE OnResolve
    BY <2>6 DEF OnResolve, TryConnect, ConnectFails, Connect, Fail,
       CloseImpl, Detach, ends, out, health, record
  <2>7. CASE OnTcpHandshake
    BY <2>7 DEF OnTcpHandshake, TryConnect, ConnectFails, Connect, Fail,
       CloseImpl, Detach, ends, out, health, record
  <2>8. CASE OnTlsHandshake
    BY <2>8 DEF OnTlsHandshake, ConnectFails, Connect, Fail, CloseImpl,
       Detach, ends, out, health, record
  <2>9. CASE OnWsHandshake
    BY <2>9 DEF OnWsHandshake, TrySend, Fail, Detach, ends, out, health, record
  <2>10. CASE OnReadDone
    <3>1. CASE ~listener \/ isClosing
      <4>1. UNCHANGED <<listener, isClosing, closing>> \/ listener' = FALSE
        BY <2>10, <3>1, FailTells DEF OnReadDone, ends
      <4>2. QED
        BY <3>1, <4>1
    <3>2. CASE listener /\ ~isClosing
      <4>1. \/ listener' = FALSE
            \/ UNCHANGED <<listener, isClosing, closing, reading, posts, connecting>>
        BY <2>10, <3>2, FailTells DEF OnReadDone
      <4>2. CASE listener' = FALSE
        BY <4>2
      <4>3. CASE UNCHANGED <<listener, isClosing, closing, reading, posts, connecting>>
        <5>1. StillListening'
          BY <4>3
        <5>2. QED
          BY <4>3, <5>1
      <4>4. QED
        BY <4>1, <4>2, <4>3
    <3>3. QED
      BY <3>1, <3>2
  <2>11. CASE OnWriteDone
    BY <2>11 DEF OnWriteDone, TrySend, AfterError, Fail, CloseImpl, Detach,
       ends, out, health, record
  <2>12. CASE OnCloseDone
    BY <2>12 DEF OnCloseDone, Detach, ends, out, health, record
  <2>13. CASE HealthTimerExpires
    BY <2>13 DEF HealthTimerExpires, ends, out, health, record
  <2>14. CASE OnHealthCheck
    BY <2>14 DEF OnHealthCheck, Fail, CloseImpl, Detach, ends, out, health,
       record
  <2>15. CASE OnPong
    BY <2>15 DEF OnPong, ends, out, health, record
  <2>16. CASE PeerDies
    BY <2>16 DEF PeerDies, ends, out, health, record
  <2>17. CASE UNCHANGED vars
    BY <2>17 DEF vars, ends, out, health, record
  <2>99. QED
    BY <2>1, <2>2, <2>3, <2>4, <2>5, <2>6, <2>7, <2>8, <2>9, <2>10, <2>11,
       <2>12, <2>13, <2>14, <2>15, <2>16, <2>17 DEF Next
<1>3. QED
  BY <1>1, <1>2, TypeCorrect, PTL DEF Spec

(* An open connection that is wanted has a health check ahead.             *)
THEOREM Watched == Spec => [](OpenIsWatched)
<1> DEFINE Inv == OpenIsWatched
<1>1. Init => Inv
  BY DEF Init, OpenIsWatched
<1>2. TypeOK /\ Inv /\ [Next]_vars => Inv'
  <2> SUFFICES ASSUME TypeOK, Inv, [Next]_vars PROVE Inv'
    OBVIOUS
  <2> USE DEF OpenIsWatched, TypeOK, QueuesOK, ControlOK
  <2>1. CASE \E m \in Messages : SendText(m)
    BY <2>1 DEF SendText, Posts, ends, out, health, record
  <2>2. CASE Close
    BY <2>2 DEF Close, Posts, ends, out, health, record
  <2>3. CASE Run
    <3>1. listener' = FALSE \/ UNCHANGED <<listener, isClosing, armed>>
      BY <2>3, FailTells DEF Run, ConnectFails, Connect, ends
    <3>2. reading' = reading /\ due' = due
      BY <2>3 DEF Run
    <3>3. QED
      BY <3>1, <3>2
  <2>4. CASE RunSend
    BY <2>4 DEF RunSend, Posted, TrySend, Posts, ends, out, health, record
  <2>5. CASE RunClose
    BY <2>5 DEF RunClose, Posted, CloseImpl, ends, out, health, record
  <2>6. CASE OnResolve
    BY <2>6 DEF OnResolve, TryConnect, ConnectFails, Connect, Fail,
       CloseImpl, Detach, ends, out, health, record
  <2>7. CASE OnTcpHandshake
    BY <2>7 DEF OnTcpHandshake, TryConnect, ConnectFails, Connect, Fail,
       CloseImpl, Detach, ends, out, health, record
  <2>8. CASE OnTlsHandshake
    BY <2>8 DEF OnTlsHandshake, ConnectFails, Connect, Fail, CloseImpl,
       Detach, ends, out, health, record
  <2>9. CASE OnWsHandshake
    BY <2>9 DEF OnWsHandshake, TrySend, Fail, Detach, ends, out, health, record
  <2>10. CASE OnReadDone
    BY <2>10 DEF OnReadDone, AfterError, Fail, CloseImpl, Detach, ends, out,
       health, record
  <2>11. CASE OnWriteDone
    <3>1. listener' = FALSE \/ UNCHANGED <<listener, isClosing, armed>>
      BY <2>11, FailTells DEF OnWriteDone, ends
    <3>2. reading' = reading /\ due' = due
      BY <2>11 DEF OnWriteDone
    <3>3. QED
      BY <3>1, <3>2
  <2>12. CASE OnCloseDone
    BY <2>12 DEF OnCloseDone, Detach, ends, out, health, record
  <2>13. CASE HealthTimerExpires
    BY <2>13 DEF HealthTimerExpires, ends, out, health, record
  <2>14. CASE OnHealthCheck
    <3>1. \/ listener' = FALSE
          \/ armed' = TRUE
          \/ isClosing /\ isClosing' = isClosing
      BY <2>14, FailTells DEF OnHealthCheck
    <3>2. QED
      BY <3>1
  <2>15. CASE OnPong
    BY <2>15 DEF OnPong, ends, out, health, record
  <2>16. CASE PeerDies
    BY <2>16 DEF PeerDies, ends, out, health, record
  <2>17. CASE UNCHANGED vars
    BY <2>17 DEF vars, ends, out, health, record
  <2>99. QED
    BY <2>1, <2>2, <2>3, <2>4, <2>5, <2>6, <2>7, <2>8, <2>9, <2>10, <2>11,
       <2>12, <2>13, <2>14, <2>15, <2>16, <2>17 DEF Next
<1>3. QED
  BY <1>1, <1>2, TypeCorrect, PTL DEF Spec

-----------------------------------------------------------------------------
(* That a connection implements WebSocketContract rests on two facts:      *)
(* before the connection is open nothing is written, read or told; and as  *)
(* long as something may still be written, what the server has, what is    *)
(* queued and what is posted are together what was given to the handle.    *)

(* Before the connection is open.                                          *)

RunIsPosted == \E i \in DOMAIN posts : posts[i].op = "run"

(* The connection may still become open.                                   *)
Waiting == connecting # "none" \/ RunIsPosted

RunIsFirst == \A i \in DOMAIN posts : posts[i].op = "run" => i = 1 /\ connecting = "none"

NothingYet ==
    Waiting => /\ writing = None /\ stream # "open" /\ ~reading
               /\ listener => told = "nothing"

ToldInOrder ==
    /\ listener => told # "close"
    /\ listener /\ reading => told \in {"open", "message"}

Stages == RunIsFirst /\ NothingYet /\ ToldInOrder

(* What a post that is not run() leaves: run() is where it was.            *)
LEMMA PostKeepsRun ==
    ASSUME QueuesOK, NEW p \in Posts, p.op # "run", posts' = Append(posts, p),
           RunIsFirst, connecting' = connecting
    PROVE  RunIsFirst' /\ (RunIsPosted' <=> RunIsPosted)
<1>1. /\ DOMAIN posts' = 1 .. Len(posts) + 1 /\ DOMAIN posts = 1 .. Len(posts)
      /\ \A i \in DOMAIN posts : posts'[i] = posts[i]
      /\ posts'[Len(posts) + 1] = p
  BY DEF QueuesOK
<1>2. \A i \in DOMAIN posts' : posts'[i].op = "run" => i \in DOMAIN posts /\ posts[i].op = "run"
  BY <1>1
<1>3. QED
  BY <1>1, <1>2 DEF RunIsFirst, RunIsPosted

(* Once the first function is taken, run() is not among the posted ones.   *)
LEMMA TakenPost ==
    ASSUME QueuesOK, RunIsFirst, posts # << >>, posts' = Tail(posts)
    PROVE  ~RunIsPosted' /\ RunIsFirst'
<1>1. \A i \in DOMAIN posts' : i + 1 \in DOMAIN posts /\ i + 1 # 1 /\ posts'[i] = posts[i + 1]
  BY DEF QueuesOK
<1>2. QED
  BY <1>1 DEF RunIsFirst, RunIsPosted

LEMMA SameRun ==
    ASSUME posts' = posts, RunIsFirst, connecting' = connecting \/ ~RunIsPosted
    PROVE  RunIsFirst' /\ (RunIsPosted' <=> RunIsPosted)
  BY DEF RunIsFirst, RunIsPosted

(* While a step of connecting is under way, run() has been called.         *)
LEMMA RunWasCalled == RunIsFirst /\ connecting # "none" => ~RunIsPosted
  BY DEF RunIsFirst, RunIsPosted

LEMMA StagesKept == TypeOK /\ WriteIsFront /\ Stages /\ [Next]_vars => Stages'
<1>1. SUFFICES ASSUME TypeOK, WriteIsFront, Stages, [Next]_vars PROVE Stages'
  OBVIOUS
<1> USE <1>1 DEF Stages, NothingYet, ToldInOrder, Waiting, TypeOK, ControlOK
<1>2. CASE \E m \in Messages : SendText(m)
  <2>1. PICK m \in Messages : SendText(m)
    BY <1>2
  <2>2. [op |-> "send", m |-> m] \in Posts
    BY DEF Posts
  <2>3. RunIsFirst' /\ (RunIsPosted' <=> RunIsPosted)
    BY <2>1, <2>2, PostKeepsRun DEF SendText
  <2>4. QED
    BY <2>1, <2>3 DEF SendText, ends, out
<1>3. CASE Close
  <2>1. [op |-> "close", m |-> None] \in Posts
    BY DEF Posts
  <2>2. RunIsFirst' /\ (RunIsPosted' <=> RunIsPosted)
    BY <1>3, <2>1, PostKeepsRun DEF Close
  <2>3. QED
    BY <1>3, <2>2 DEF Close, ends, out
<1>4. CASE Run
  <2>1. RunIsPosted
    <3>1. posts # << >> /\ Head(posts).op = "run"
      BY <1>4 DEF Run, Posted
    <3>2. 1 \in DOMAIN posts /\ Head(posts) = posts[1]
      BY <3>1 DEF QueuesOK
    <3>3. QED
      BY <3>1, <3>2 DEF RunIsPosted
  <2>2. ~RunIsPosted' /\ RunIsFirst'
    BY <1>4, TakenPost DEF Run, Posted
  <2>3. QED
    BY <1>4, <2>1, <2>2 DEF Run, ConnectFails, Connect, Fail, CloseImpl, Detach, ends, out
<1>5. CASE RunSend
  <2>1. ~RunIsPosted' /\ RunIsFirst'
    BY <1>5, TakenPost DEF RunSend, Posted
  <2>2. UNCHANGED <<listener, told, stream, connecting, reading>>
    BY <1>5 DEF RunSend, ends
  <2>3. Waiting => writing' = None
    BY <1>5 DEF RunSend, TrySend
  <2>4. QED
    BY <2>1, <2>2, <2>3
<1>6. CASE RunClose
  <2>1. ~RunIsPosted' /\ RunIsFirst'
    BY <1>6, TakenPost DEF RunClose, Posted
  <2>2. QED
    BY <1>6, <2>1 DEF RunClose, CloseImpl, ends, out
<1>7. CASE OnResolve
  <2>1. RunIsFirst' /\ (RunIsPosted' <=> RunIsPosted)
    BY <1>7, RunWasCalled, SameRun DEF OnResolve
  <2>2. QED
    BY <1>7, <2>1 DEF OnResolve, TryConnect, ConnectFails, Connect, Fail, CloseImpl, Detach,
       ends, out
<1>8. CASE OnTcpHandshake
  <2>1. RunIsFirst' /\ (RunIsPosted' <=> RunIsPosted)
    BY <1>8, RunWasCalled, SameRun DEF OnTcpHandshake
  <2>2. QED
    BY <1>8, <2>1 DEF OnTcpHandshake, TryConnect, ConnectFails, Connect, Fail, CloseImpl,
       Detach, ends, out
<1>9. CASE OnTlsHandshake
  <2>1. RunIsFirst' /\ (RunIsPosted' <=> RunIsPosted)
    BY <1>9, RunWasCalled, SameRun DEF OnTlsHandshake
  <2>2. QED
    BY <1>9, <2>1 DEF OnTlsHandshake, ConnectFails, Connect, Fail, CloseImpl, Detach, ends, out
<1>10. CASE OnWsHandshake
  <2>1. RunIsFirst' /\ ~RunIsPosted' /\ connecting' = "none"
    BY <1>10, RunWasCalled, SameRun DEF OnWsHandshake
  <2>2. ToldInOrder'
    BY <1>10 DEF OnWsHandshake, Fail, Detach, ends
  <2>3. QED
    BY <2>1, <2>2
<1>11. CASE OnReadDone
  <2>1. posts' = posts /\ connecting' = connecting /\ UNCHANGED out
    BY <1>11 DEF OnReadDone
  <2>2. RunIsFirst' /\ (RunIsPosted' <=> RunIsPosted)
    BY <2>1, SameRun
  <2>3. ~Waiting'
    BY <1>11, <2>1, <2>2 DEF OnReadDone
  <2>4. \/ listener' = FALSE
        \/ UNCHANGED ends /\ reading' = FALSE
        \/ listener' = listener /\ told' = "message"
    BY <1>11, FailTells DEF OnReadDone
  <2>5. ToldInOrder'
    BY <2>4 DEF ends
  <2>6. QED
    BY <2>2, <2>3, <2>5
<1>12. CASE OnWriteDone
  <2>1. posts' = posts /\ connecting' = connecting /\ reading' = reading
    BY <1>12 DEF OnWriteDone
  <2>2. RunIsFirst' /\ (RunIsPosted' <=> RunIsPosted)
    BY <2>1, SameRun
  <2>3. ~Waiting'
    BY <1>12, <2>1, <2>2 DEF OnWriteDone
  <2>4. listener' = FALSE \/ UNCHANGED ends
    BY <1>12, FailTells DEF OnWriteDone
  <2>5. ToldInOrder'
    BY <2>1, <2>4 DEF ends
  <2>6. QED
    BY <2>2, <2>3, <2>5
<1>13. CASE OnCloseDone
  <2>1. RunIsFirst' /\ (RunIsPosted' <=> RunIsPosted)
    BY <1>13, SameRun DEF OnCloseDone
  <2>2. QED
    BY <1>13, <2>1 DEF OnCloseDone, Detach, out
<1>14. CASE HealthTimerExpires
  <2>1. RunIsFirst' /\ (RunIsPosted' <=> RunIsPosted)
    BY <1>14, SameRun DEF HealthTimerExpires
  <2>2. QED
    BY <1>14, <2>1 DEF HealthTimerExpires, ends, out
<1>15. CASE OnHealthCheck
  <2>1. RunIsFirst' /\ (RunIsPosted' <=> RunIsPosted)
    BY <1>15, SameRun DEF OnHealthCheck
  <2>2. QED
    BY <1>15, <2>1 DEF OnHealthCheck, Fail, CloseImpl, Detach, ends, out
<1>16. CASE OnPong
  <2>1. RunIsFirst' /\ (RunIsPosted' <=> RunIsPosted)
    BY <1>16, SameRun DEF OnPong
  <2>2. QED
    BY <1>16, <2>1 DEF OnPong, ends, out
<1>17. CASE PeerDies
  <2>1. RunIsFirst' /\ (RunIsPosted' <=> RunIsPosted)
    BY <1>17, SameRun DEF PeerDies
  <2>2. QED
    BY <1>17, <2>1 DEF PeerDies, ends, out
<1>18. CASE UNCHANGED vars
  <2>1. RunIsFirst' /\ (RunIsPosted' <=> RunIsPosted)
    BY <1>18, SameRun DEF vars
  <2>2. QED
    BY <1>18, <2>1 DEF vars, ends, out
<1>19. QED
  BY <1>2, <1>3, <1>4, <1>5, <1>6, <1>7, <1>8, <1>9, <1>10, <1>11, <1>12, <1>13, <1>14,
     <1>15, <1>16, <1>17, <1>18 DEF Next

-----------------------------------------------------------------------------
(* Where the messages are.                                                 *)

(* Something may still be written.                                         *)
Moving == writing # None \/ stream = "open" \/ Waiting

(* c[i] messages were accepted before the i-th post.  The first of them    *)
(* reached the server or were lost, the last are queued.                   *)
Placed(c) ==
    /\ c \in [1 .. Len(posts) + 1 -> 0 .. Len(accepted)]
    /\ c[Len(posts) + 1] = Len(accepted)
    /\ \A i \in 1 .. Len(posts) :
          IF posts[i].op = "send"
          THEN c[i + 1] = c[i] + 1 /\ accepted[c[i] + 1] = posts[i].m
          ELSE c[i + 1] = c[i]
    /\ Len(queuedMessages) <= c[1]
    /\ \A j \in 1 .. Len(queuedMessages) :
          queuedMessages[j] = accepted[c[1] - Len(queuedMessages) + j]
    /\ Moving => Len(wire) + Len(queuedMessages) = c[1]

InOrder == \E c \in [1 .. Len(posts) + 1 -> 0 .. Len(accepted)] : Placed(c)

LEMMA NothingMoves ==
    ASSUME UNCHANGED <<posts, queuedMessages, accepted, wire>>, Moving' => Moving, InOrder
    PROVE  InOrder'
  BY DEF InOrder, Placed

(* Something is posted, a message or a close.                              *)
LEMMA PostPlaced ==
    ASSUME QueuesOK, InOrder, Moving' => Moving, UNCHANGED <<queuedMessages, wire>>,
           NEW p \in Posts, posts' = Append(posts, p), accepted' \in Seq(Messages),
           IF p.op = "send" THEN accepted' = Append(accepted, p.m) ELSE accepted' = accepted
    PROVE  InOrder'
<1>1. PICK c \in [1 .. Len(posts) + 1 -> 0 .. Len(accepted)] : Placed(c)
  BY DEF InOrder
<1>2. /\ Len(posts') = Len(posts) + 1 /\ Len(posts) \in Nat
      /\ \A i \in 1 .. Len(posts) : posts'[i] = posts[i]
      /\ posts'[Len(posts) + 1] = p
  BY DEF QueuesOK
<1>3. /\ Len(accepted) \in Nat
      /\ Len(accepted') = IF p.op = "send" THEN Len(accepted) + 1 ELSE Len(accepted)
      /\ \A i \in 1 .. Len(accepted) : accepted'[i] = accepted[i]
      /\ p.op = "send" => accepted'[Len(accepted) + 1] = p.m
  <2>1. accepted \in Seq(Messages)
    BY DEF QueuesOK
  <2>2. CASE p.op = "send"
    <3>1. accepted' = Append(accepted, p.m) /\ p.m \in Messages
      BY <2>2 DEF Posts
    <3>2. QED
      BY <2>1, <2>2, <3>1
  <2>3. CASE p.op # "send"
    BY <2>1, <2>3
  <2>4. QED
    BY <2>2, <2>3
<1>4. PICK d \in [1 .. Len(posts') + 1 -> 0 .. Len(accepted')] :
          \A i \in 1 .. Len(posts') + 1 :
             d[i] = IF i <= Len(posts) + 1 THEN c[i] ELSE Len(accepted')
  <2> DEFINE e == [i \in 1 .. Len(posts') + 1 |->
                     IF i <= Len(posts) + 1 THEN c[i] ELSE Len(accepted')]
  <2>1. e \in [1 .. Len(posts') + 1 -> 0 .. Len(accepted')]
    BY <1>1, <1>2, <1>3
  <2>2. QED
    BY <2>1
<1>5. d[Len(posts') + 1] = Len(accepted')
  BY <1>2, <1>4
<1>6. ASSUME NEW i \in 1 .. Len(posts')
      PROVE  IF posts'[i].op = "send"
             THEN d[i + 1] = d[i] + 1 /\ accepted'[d[i] + 1] = posts'[i].m
             ELSE d[i + 1] = d[i]
  <2>1. CASE i <= Len(posts)
    <3>1. posts'[i] = posts[i] /\ d[i] = c[i] /\ d[i + 1] = c[i + 1] /\ i \in 1 .. Len(posts)
      BY <1>2, <1>4, <2>1
    <3>2. IF posts[i].op = "send"
          THEN c[i + 1] = c[i] + 1 /\ accepted[c[i] + 1] = posts[i].m
          ELSE c[i + 1] = c[i]
      BY <1>1, <3>1 DEF Placed
    <3>3. c[i] \in 0 .. Len(accepted) /\ c[i + 1] \in 0 .. Len(accepted)
      BY <1>1, <1>2, <3>1
    <3>4. QED
      BY <1>3, <3>1, <3>2, <3>3
  <2>2. CASE i = Len(posts) + 1
    <3>1. posts'[i] = p /\ d[i] = Len(accepted) /\ d[i + 1] = Len(accepted')
      BY <1>1, <1>2, <1>4, <2>2 DEF Placed
    <3>2. QED
      BY <1>3, <3>1
  <2>3. QED
    BY <1>2, <2>1, <2>2
<1>7. d[1] = c[1] /\ c[1] \in 0 .. Len(accepted)
  <2>1. 1 \in 1 .. Len(posts) + 1 /\ 1 \in 1 .. Len(posts') + 1
    BY <1>2
  <2>2. QED
    BY <1>1, <1>2, <1>4, <2>1
<1>8. /\ Len(queuedMessages') <= d[1]
      /\ \A j \in 1 .. Len(queuedMessages') :
            queuedMessages'[j] = accepted'[d[1] - Len(queuedMessages') + j]
      /\ Moving' => Len(wire') + Len(queuedMessages') = d[1]
  <2>1. /\ Len(queuedMessages) <= c[1]
        /\ \A j \in 1 .. Len(queuedMessages) :
              queuedMessages[j] = accepted[c[1] - Len(queuedMessages) + j]
        /\ Moving => Len(wire) + Len(queuedMessages) = c[1]
    BY <1>1 DEF Placed
  <2>2. \A j \in 1 .. Len(queuedMessages) :
           c[1] - Len(queuedMessages) + j \in 1 .. Len(accepted)
    BY <1>3, <1>7, <2>1 DEF QueuesOK
  <2>3. QED
    BY <1>3, <1>7, <2>1, <2>2
<1>9. Placed(d)'
  BY <1>4, <1>5, <1>6, <1>8 DEF Placed
<1>10. QED
  BY <1>4, <1>9 DEF InOrder

(* The first post is taken; a message joins the queue.                     *)
LEMMA TakePlaced ==
    ASSUME QueuesOK, InOrder, Moving' => Moving, UNCHANGED <<accepted, wire>>,
           posts # << >>, posts' = Tail(posts), queuedMessages' \in Seq(Messages),
           IF Head(posts).op = "send"
           THEN queuedMessages' = Append(queuedMessages, Head(posts).m)
           ELSE queuedMessages' = queuedMessages
    PROVE  InOrder'
<1>1. PICK c \in [1 .. Len(posts) + 1 -> 0 .. Len(accepted)] : Placed(c)
  BY DEF InOrder
<1>2. /\ Len(posts') = Len(posts) - 1 /\ Len(posts) \in Nat /\ Len(posts) >= 1
      /\ \A i \in 1 .. Len(posts) - 1 : posts'[i] = posts[i + 1]
      /\ Head(posts) = posts[1]
  BY DEF QueuesOK
<1>3. PICK d \in [1 .. Len(posts') + 1 -> 0 .. Len(accepted')] :
          \A i \in 1 .. Len(posts') + 1 : d[i] = c[i + 1]
  <2> DEFINE e == [i \in 1 .. Len(posts') + 1 |-> c[i + 1]]
  <2>1. e \in [1 .. Len(posts') + 1 -> 0 .. Len(accepted')]
    BY <1>1, <1>2
  <2>2. QED
    BY <2>1
<1>4. d[Len(posts') + 1] = Len(accepted')
  BY <1>1, <1>2, <1>3 DEF Placed
<1>5. ASSUME NEW i \in 1 .. Len(posts')
      PROVE  IF posts'[i].op = "send"
             THEN d[i + 1] = d[i] + 1 /\ accepted'[d[i] + 1] = posts'[i].m
             ELSE d[i + 1] = d[i]
  <2>1. i + 1 \in 1 .. Len(posts) /\ posts'[i] = posts[i + 1]
    BY <1>2
  <2>2. d[i] = c[i + 1] /\ d[i + 1] = c[(i + 1) + 1]
    BY <1>2, <1>3
  <2>3. QED
    BY <1>1, <2>1, <2>2 DEF Placed
<1>6. /\ IF posts[1].op = "send"
         THEN c[2] = c[1] + 1 /\ accepted[c[1] + 1] = posts[1].m
         ELSE c[2] = c[1]
      /\ d[1] = c[2] /\ c[1] \in 0 .. Len(accepted) /\ c[2] \in 0 .. Len(accepted)
  <2>1. 1 \in 1 .. Len(posts) /\ 1 + 1 = 2 /\ 1 \in 1 .. Len(posts') + 1
    BY <1>2
  <2>2. 1 \in 1 .. Len(posts) + 1 /\ 2 \in 1 .. Len(posts) + 1
    BY <1>2
  <2>3. IF posts[1].op = "send"
        THEN c[1 + 1] = c[1] + 1 /\ accepted[c[1] + 1] = posts[1].m
        ELSE c[1 + 1] = c[1]
    BY <1>1, <2>1 DEF Placed
  <2>4. d[1] = c[1 + 1]
    BY <1>3, <2>1
  <2>5. c[1] \in 0 .. Len(accepted) /\ c[2] \in 0 .. Len(accepted)
    BY <1>1, <2>2
  <2>6. QED
    BY <2>1, <2>3, <2>4, <2>5
<1>7. /\ Len(queuedMessages) \in Nat
      /\ IF posts[1].op = "send"
         THEN /\ Len(queuedMessages') = Len(queuedMessages) + 1
              /\ queuedMessages'[Len(queuedMessages) + 1] = posts[1].m
         ELSE Len(queuedMessages') = Len(queuedMessages)
      /\ \A j \in 1 .. Len(queuedMessages) : queuedMessages'[j] = queuedMessages[j]
  <2>1. queuedMessages \in Seq(Messages)
    BY DEF QueuesOK
  <2>2. CASE posts[1].op = "send"
    <3>1. PICK m : m = posts[1].m /\ queuedMessages' = Append(queuedMessages, m)
      BY <1>2, <2>2
    <3>2. m \in Messages
      <4>1. posts[1] \in Posts
        BY <1>2 DEF QueuesOK
      <4>2. QED
        BY <2>2, <3>1, <4>1 DEF Posts
    <3>3. QED
      BY <2>1, <2>2, <3>1, <3>2
  <2>3. CASE posts[1].op # "send"
    BY <1>2, <2>1, <2>3
  <2>4. QED
    BY <2>2, <2>3
<1>8. /\ Len(queuedMessages) <= c[1]
      /\ \A j \in 1 .. Len(queuedMessages) :
            queuedMessages[j] = accepted[c[1] - Len(queuedMessages) + j]
      /\ Moving => Len(wire) + Len(queuedMessages) = c[1]
  BY <1>1 DEF Placed
<1>9. Len(queuedMessages') <= d[1]
  BY <1>6, <1>7, <1>8
<1>10. ASSUME NEW j \in 1 .. Len(queuedMessages')
       PROVE  queuedMessages'[j] = accepted'[d[1] - Len(queuedMessages') + j]
  <2>1. CASE j <= Len(queuedMessages)
    <3>1. j \in 1 .. Len(queuedMessages)
      BY <1>7, <2>1
    <3>2. d[1] - Len(queuedMessages') = c[1] - Len(queuedMessages)
      <4>1. CASE posts[1].op = "send"
        <5>1. d[1] = c[1] + 1 /\ Len(queuedMessages') = Len(queuedMessages) + 1
          BY <1>6, <1>7, <4>1
        <5>2. c[1] \in Nat /\ Len(queuedMessages) \in Nat
          BY <1>6, <1>7
        <5>3. QED
          BY <5>1, <5>2
      <4>2. CASE posts[1].op # "send"
        BY <1>6, <1>7, <4>2
      <4>3. QED
        BY <4>1, <4>2
    <3>3. QED
      BY <1>7, <1>8, <3>1, <3>2
  <2>2. CASE j > Len(queuedMessages)
    <3>1. posts[1].op = "send" /\ j = Len(queuedMessages) + 1
      BY <1>7, <2>2
    <3>2. d[1] - Len(queuedMessages') + j = c[1] + 1
      BY <1>6, <1>7, <3>1
    <3>3. QED
      BY <1>6, <1>7, <3>1, <3>2
  <2>3. QED
    BY <1>7, <2>1, <2>2
<1>11. Len(wire) \in Nat
  BY DEF QueuesOK
<1>12. Moving' => Len(wire') + Len(queuedMessages') = d[1]
  BY <1>6, <1>7, <1>8, <1>11
<1>13. Placed(d)'
  BY <1>3, <1>4, <1>5, <1>9, <1>10, <1>12 DEF Placed
<1>14. QED
  BY <1>3, <1>13 DEF InOrder

(* The message in front leaves the queue, and reached the server if more   *)
(* may be written.                                                         *)
LEMMA WrittenPlaced ==
    ASSUME QueuesOK, InOrder, Moving, UNCHANGED <<posts, accepted>>,
           queuedMessages # << >>, queuedMessages' = Tail(queuedMessages),
           Moving' => \E m \in Messages : wire' = Append(wire, m)
    PROVE  InOrder'
<1>1. PICK c \in [1 .. Len(posts) + 1 -> 0 .. Len(accepted)] : Placed(c)
  BY DEF InOrder
<1>2. /\ Len(queuedMessages) \in Nat /\ Len(queuedMessages) >= 1
      /\ Len(queuedMessages') = Len(queuedMessages) - 1
      /\ \A j \in 1 .. Len(queuedMessages) - 1 : queuedMessages'[j] = queuedMessages[j + 1]
  BY DEF QueuesOK
<1>3. c[1] \in 0 .. Len(accepted)
  <2>1. Len(posts) \in Nat
    BY DEF QueuesOK
  <2>2. 1 \in 1 .. Len(posts) + 1
    BY <2>1
  <2>3. QED
    BY <1>1, <2>2
<1>4. /\ Len(queuedMessages) <= c[1]
      /\ \A j \in 1 .. Len(queuedMessages) :
            queuedMessages[j] = accepted[c[1] - Len(queuedMessages) + j]
      /\ Len(wire) + Len(queuedMessages) = c[1]
  BY <1>1 DEF Placed
<1>5. Len(wire) \in Nat /\ (Moving' => Len(wire') = Len(wire) + 1)
  BY DEF QueuesOK
<1>6. Moving' => Len(wire') + Len(queuedMessages') = c[1]
  <2>1. (Len(wire) + 1) + (Len(queuedMessages) - 1) = c[1]
    BY <1>2, <1>4, <1>5
  <2>2. QED
    BY <1>2, <1>5, <2>1
<1>7. Len(queuedMessages') <= c[1]
  BY <1>2, <1>3, <1>4
<1>8. ASSUME NEW j \in 1 .. Len(queuedMessages')
      PROVE  queuedMessages'[j] = accepted'[c[1] - Len(queuedMessages') + j]
  <2>1. /\ j + 1 \in 1 .. Len(queuedMessages)
        /\ c[1] - Len(queuedMessages) + (j + 1) = c[1] - Len(queuedMessages') + j
    BY <1>2, <1>3
  <2>2. QED
    BY <1>2, <1>4, <2>1
<1>9. Placed(c)'
  BY <1>1, <1>6, <1>7, <1>8 DEF Placed
<1>10. QED
  BY <1>1, <1>9 DEF InOrder

(* Only the handlers that write can set something going that was not.      *)
LEMMA InOrderKept ==
    TypeOK /\ WriteIsFront /\ Stages /\ InOrder /\ [Next]_vars => InOrder'
<1>1. SUFFICES ASSUME TypeOK, WriteIsFront, Stages, InOrder, [Next]_vars PROVE InOrder'
  OBVIOUS
<1>2. QueuesOK /\ QueuesOK'
  BY <1>1, QueuesStep DEF TypeOK
<1>3. RunIsFirst /\ RunIsFirst' /\ NothingYet
  BY <1>1, StagesKept DEF Stages
<1> USE DEF Moving, Waiting
<1>4. ASSUME UNCHANGED <<posts, accepted, wire, out, connecting>>, stream' = "open" => stream = "open"
      PROVE  InOrder'
  <2>1. RunIsPosted' <=> RunIsPosted
    BY <1>4 DEF RunIsPosted
  <2>2. QED
    BY <1>1, <1>4, <2>1, NothingMoves DEF out
<1>5. ASSUME UNCHANGED <<posts, accepted, wire, out>>, stream' = "open" => stream = "open",
             connecting # "none"
      PROVE  InOrder'
  BY <1>1, <1>5, NothingMoves DEF out
<1>6. CASE \E m \in Messages : SendText(m)
  <2>1. PICK m \in Messages : SendText(m)
    BY <1>6
  <2>2. PICK p \in Posts : p = [op |-> "send", m |-> m]
    BY DEF Posts
  <2>3. RunIsPosted' <=> RunIsPosted
    BY <1>2, <1>3, <2>1, <2>2, PostKeepsRun DEF SendText
  <2>4. Moving' => Moving
    BY <2>1, <2>3 DEF SendText, out
  <2>5. posts' = Append(posts, p) /\ accepted' = Append(accepted, p.m) /\ p.op = "send"
    BY <2>1, <2>2 DEF SendText
  <2>6. UNCHANGED <<queuedMessages, wire>>
    BY <2>1 DEF SendText, out
  <2>7. QED
    BY <1>1, <1>2, <2>4, <2>5, <2>6, PostPlaced DEF QueuesOK
<1>7. CASE Close
  <2>1. PICK p \in Posts : p = [op |-> "close", m |-> None]
    BY DEF Posts
  <2>2. RunIsPosted' <=> RunIsPosted
    BY <1>2, <1>3, <1>7, <2>1, PostKeepsRun DEF Close
  <2>3. Moving' => Moving
    BY <1>7, <2>2 DEF Close, out
  <2>4. posts' = Append(posts, p) /\ p.op # "send" /\ UNCHANGED <<queuedMessages, wire, accepted>>
    BY <1>7, <2>1 DEF Close, out
  <2>5. QED
    BY <1>1, <1>2, <2>3, <2>4, PostPlaced DEF QueuesOK
<1>8. CASE Run
  <2>1. posts # << >> /\ Head(posts).op = "run" /\ posts' = Tail(posts)
    BY <1>8 DEF Run, Posted
  <2>2. Moving
    <3>1. 1 \in DOMAIN posts /\ Head(posts) = posts[1]
      BY <1>2, <2>1 DEF QueuesOK
    <3>2. QED
      BY <2>1, <3>1 DEF RunIsPosted
  <2>3. UNCHANGED <<queuedMessages, wire, accepted>>
    BY <1>8 DEF Run, out, record
  <2>4. QED
    BY <1>1, <1>2, <2>1, <2>2, <2>3, TakePlaced DEF QueuesOK
<1>9. CASE RunSend
  <2>1. posts # << >> /\ Head(posts).op = "send" /\ posts' = Tail(posts)
    BY <1>9 DEF RunSend, Posted
  <2>2. /\ UNCHANGED <<wire, accepted, stream, connecting>>
        /\ queuedMessages' = Append(queuedMessages, Head(posts).m)
        /\ writing' # None => writing # None \/ stream = "open"
    BY <1>9 DEF RunSend, TrySend, record
  <2>3. ~RunIsPosted'
    BY <1>2, <1>3, <2>1, TakenPost
  <2>4. Moving' => Moving
    BY <2>2, <2>3
  <2>5. QED
    BY <1>1, <1>2, <2>1, <2>2, <2>4, TakePlaced DEF QueuesOK
<1>10. CASE RunClose
  <2>1. posts # << >> /\ Head(posts).op = "close" /\ posts' = Tail(posts)
    BY <1>10 DEF RunClose, Posted
  <2>2. /\ UNCHANGED <<queuedMessages, writing, wire, accepted, connecting>>
        /\ stream' = "open" => stream = "open"
    BY <1>10 DEF RunClose, CloseImpl, out, record
  <2>3. ~RunIsPosted'
    BY <1>2, <1>3, <2>1, TakenPost
  <2>4. Moving' => Moving
    BY <2>2, <2>3
  <2>5. QED
    BY <1>1, <1>2, <2>1, <2>2, <2>4, TakePlaced DEF QueuesOK
<1>11. CASE OnResolve
  BY <1>5, <1>11 DEF OnResolve, TryConnect, ConnectFails, Connect, Fail, CloseImpl, record
<1>12. CASE OnTcpHandshake
  BY <1>5, <1>12 DEF OnTcpHandshake, TryConnect, ConnectFails, Connect, Fail, CloseImpl, record
<1>13. CASE OnTlsHandshake
  BY <1>5, <1>13 DEF OnTlsHandshake, ConnectFails, Connect, Fail, CloseImpl, record
<1>14. CASE OnWsHandshake
  <2>1. Moving /\ UNCHANGED <<posts, queuedMessages, accepted, wire>>
    BY <1>14 DEF OnWsHandshake, TrySend, out, record
  <2>2. QED
    BY <1>1, <2>1, NothingMoves
<1>15. CASE OnReadDone
  <2>1. UNCHANGED <<posts, accepted, wire, out, connecting>>
    BY <1>15 DEF OnReadDone, record
  <2>2. stream' = "open" => stream = "open"
    BY <1>15 DEF OnReadDone, Fail, CloseImpl, AfterError
  <2>3. QED
    BY <1>4, <2>1, <2>2
<1>16. CASE OnWriteDone
  <2>1. writing # None /\ writing \in Messages
    BY <1>2, <1>16 DEF OnWriteDone, QueuesOK
  <2>2. UNCHANGED <<posts, accepted, connecting>> /\ queuedMessages' = Tail(queuedMessages)
    BY <1>16 DEF OnWriteDone, TrySend, record
  <2>3. queuedMessages # << >>
    BY <1>1, <2>1 DEF WriteIsFront
  <2>4. ~Waiting'
    <3>1. ~Waiting
      BY <1>3, <2>1 DEF NothingYet
    <3>2. RunIsPosted' <=> RunIsPosted
      BY <2>2 DEF RunIsPosted
    <3>3. QED
      BY <2>2, <3>1, <3>2
  <2>5. wire' = Append(wire, writing) \/ (writing' = None /\ stream' # "open")
    <3>1. CASE /\ stream # "open" /\ UNCHANGED wire
               /\ stream' = IF closing THEN "closing" ELSE stream
               /\ TrySend(stream, Tail(queuedMessages), FALSE)
      BY <3>1 DEF TrySend
    <3>2. CASE writing' = None /\ Fail(AfterError)
      BY <3>2 DEF Fail, CloseImpl, AfterError
    <3>3. QED
      BY <1>16, <3>1, <3>2 DEF OnWriteDone
  <2>6. Moving' => wire' = Append(wire, writing)
    BY <2>4, <2>5
  <2>7. QED
    BY <1>1, <1>2, <2>1, <2>2, <2>3, <2>6, WrittenPlaced
<1>17. CASE OnCloseDone
  BY <1>4, <1>17 DEF OnCloseDone, record
<1>18. CASE HealthTimerExpires
  BY <1>4, <1>18 DEF HealthTimerExpires, record
<1>19. CASE OnHealthCheck
  <2>1. UNCHANGED <<posts, accepted, wire, out, connecting>>
    BY <1>19 DEF OnHealthCheck, record
  <2>2. stream' = "open" => stream = "open"
    BY <1>19 DEF OnHealthCheck, Fail, CloseImpl
  <2>3. QED
    BY <1>4, <2>1, <2>2
<1>20. CASE OnPong
  BY <1>4, <1>20 DEF OnPong, record
<1>21. CASE PeerDies
  BY <1>4, <1>21 DEF PeerDies, record
<1>22. CASE UNCHANGED vars
  BY <1>4, <1>22 DEF vars, record
<1>23. QED
  BY <1>1, <1>6, <1>7, <1>8, <1>9, <1>10, <1>11, <1>12, <1>13, <1>14, <1>15, <1>16, <1>17,
     <1>18, <1>19, <1>20, <1>21, <1>22 DEF Next

-----------------------------------------------------------------------------
(* The invariant: before the connection is open nothing happened, the      *)
(* listener is told in order, and no message is skipped.                   *)
IInv == TypeOK /\ WriteIsFront /\ Stages /\ InOrder

(* The invariant holds in every reachable state: what the server received, *)
(* what is queued and what is posted follow the order of the calls.        *)
THEOREM NothingIsReordered == Spec => []IInv
<1>1. Init => Stages /\ InOrder
  <2> SUFFICES ASSUME Init PROVE Stages /\ InOrder
    OBVIOUS
  <2>1. posts = <<[op |-> "run", m |-> None]>>
    BY DEF Init
  <2>2. Stages
    BY <2>1 DEF Init, Stages, RunIsFirst, NothingYet, ToldInOrder
  <2>3. InOrder
    <3>1. /\ Len(posts) = 1 /\ posts[1].op = "run"
          /\ Len(accepted) = 0 /\ Len(queuedMessages) = 0 /\ Len(wire) = 0
      BY <2>1 DEF Init
    <3>2. PICK c \in [1 .. 2 -> 0 .. 0] : \A i \in 1 .. 2 : c[i] = 0
      <4>1. [i \in 1 .. 2 |-> 0] \in [1 .. 2 -> 0 .. 0]
        OBVIOUS
      <4>2. QED
        BY <4>1
    <3>3. Placed(c)
      BY <3>1, <3>2 DEF Placed
    <3>4. QED
      BY <3>1, <3>2, <3>3 DEF InOrder
  <2>4. QED
    BY <2>2, <2>3
<1>2. TypeOK /\ WriteIsFront /\ Stages /\ InOrder /\ [Next]_vars => (Stages /\ InOrder)'
  BY StagesKept, InOrderKept
<1>3. QED
  BY <1>1, <1>2, TypeCorrect, PTL DEF Spec, IInv

-----------------------------------------------------------------------------
(* Every step keeps the contract.                                          *)

LEMMA DetachKeepsContract ==
    ASSUME ToldInOrder, UNCHANGED <<accepted, wire>>, UNCHANGED ends \/ Detach
    PROVE  [Contract!Next]_Contract!vars
  BY DEF ToldInOrder, Detach, ends, Contract!Next, Contract!OnClose, Contract!vars

(* The message being written is the next one the server expects.           *)
LEMMA WritingIsNext ==
    ASSUME IInv, writing # None
    PROVE  Len(wire) < Len(accepted) /\ writing = accepted[Len(wire) + 1]
<1>1. /\ Len(queuedMessages) \in Nat /\ Len(queuedMessages) >= 1 /\ writing = queuedMessages[1]
      /\ Len(wire) \in Nat
  BY DEF IInv, TypeOK, QueuesOK, WriteIsFront
<1>2. PICK c \in [1 .. Len(posts) + 1 -> 0 .. Len(accepted)] : Placed(c)
  BY DEF IInv, InOrder
<1>3. c[1] \in 0 .. Len(accepted) /\ Len(accepted) \in Nat
  <2>1. Len(posts) \in Nat /\ Len(accepted) \in Nat
    BY DEF IInv, TypeOK, QueuesOK
  <2>2. 1 \in 1 .. Len(posts) + 1
    BY <2>1
  <2>3. QED
    BY <1>2, <2>1, <2>2
<1>4. /\ Len(wire) + Len(queuedMessages) = c[1]
      /\ queuedMessages[1] = accepted[c[1] - Len(queuedMessages) + 1]
  BY <1>1, <1>2 DEF Placed, Moving
<1>5. QED
  BY <1>1, <1>3, <1>4

LEMMA StepKeepsContract == IInv /\ [Next]_vars => [Contract!Next]_Contract!vars
<1>1. SUFFICES ASSUME IInv, [Next]_vars PROVE [Contract!Next]_Contract!vars
  OBVIOUS
<1>2. ToldInOrder /\ NothingYet /\ ControlOK /\ StagesOK
  BY <1>1 DEF IInv, Stages, TypeOK
<1>3. CASE \E m \in Messages : SendText(m)
  BY <1>3 DEF SendText, ends, Contract!Next, Contract!Send
<1>4. CASE Close
  BY <1>4 DEF Close, ends, Contract!vars
<1>5. CASE Run
  <2>1. UNCHANGED <<accepted, wire>> /\ (UNCHANGED ends \/ Detach)
    BY <1>5 DEF Run, ConnectFails, Connect, Fail, record
  <2>2. QED
    BY <1>2, <2>1, DetachKeepsContract
<1>6. CASE RunSend
  BY <1>6 DEF RunSend, ends, record, Contract!vars
<1>7. CASE RunClose
  BY <1>7 DEF RunClose, ends, record, Contract!vars
<1>8. CASE OnResolve
  <2>1. UNCHANGED <<accepted, wire>> /\ (UNCHANGED ends \/ Detach)
    BY <1>8 DEF OnResolve, TryConnect, ConnectFails, Connect, Fail, record
  <2>2. QED
    BY <1>2, <2>1, DetachKeepsContract
<1>9. CASE OnTcpHandshake
  <2>1. UNCHANGED <<accepted, wire>> /\ (UNCHANGED ends \/ Detach)
    BY <1>9 DEF OnTcpHandshake, TryConnect, ConnectFails, Connect, Fail, record
  <2>2. QED
    BY <1>2, <2>1, DetachKeepsContract
<1>10. CASE OnTlsHandshake
  <2>1. UNCHANGED <<accepted, wire>> /\ (UNCHANGED ends \/ Detach)
    BY <1>10 DEF OnTlsHandshake, ConnectFails, Connect, Fail, record
  <2>2. QED
    BY <1>2, <2>1, DetachKeepsContract
<1>11. CASE OnWsHandshake
  <2>1. UNCHANGED <<accepted, wire>>
    BY <1>11 DEF OnWsHandshake, record
  <2>2. \/ UNCHANGED ends \/ Detach
        \/ listener /\ told' = "open"
    BY <1>11 DEF OnWsHandshake, Fail
  <2>3. CASE listener /\ told' = "open"
    <3>1. told = "nothing"
      BY <1>2, <1>11, <2>3 DEF OnWsHandshake, NothingYet, Waiting
    <3>2. QED
      BY <2>1, <2>3, <3>1 DEF Contract!Next, Contract!OnOpen
  <2>4. QED
    BY <1>2, <2>1, <2>2, <2>3, DetachKeepsContract
<1>12. CASE OnReadDone
  <2>1. UNCHANGED <<accepted, wire>>
    BY <1>12 DEF OnReadDone, record
  <2>2. \/ UNCHANGED ends \/ Detach
        \/ listener /\ reading /\ told' = "message"
    BY <1>12 DEF OnReadDone, Fail
  <2>3. CASE listener /\ reading /\ told' = "message"
    <3>1. told \in {"open", "message"}
      BY <1>2, <2>3 DEF ToldInOrder
    <3>2. QED
      BY <2>1, <2>3, <3>1 DEF Contract!Next, Contract!OnMessage, Contract!vars
  <2>4. QED
    BY <1>2, <2>1, <2>2, <2>3, DetachKeepsContract
<1>13. CASE OnWriteDone
  <2>1. /\ writing # None /\ accepted' = accepted
        /\ wire' = wire \/ wire' = Append(wire, writing)
        /\ UNCHANGED ends \/ Detach
    BY <1>13 DEF OnWriteDone, Fail, record
  <2>2. CASE wire' = wire
    BY <1>2, <2>1, <2>2, DetachKeepsContract
  <2>3. CASE wire' = Append(wire, writing)
    <3>1. Len(wire) < Len(accepted) /\ writing = accepted[Len(wire) + 1]
      BY <1>1, <2>1, WritingIsNext
    <3>2. told' \in {told, "close"}
      BY <2>1 DEF Detach, ends
    <3>3. QED
      BY <2>1, <2>3, <3>1, <3>2 DEF Contract!Next, Contract!Deliver
  <2>4. QED
    BY <2>1, <2>2, <2>3
<1>14. CASE OnCloseDone
  <2>1. UNCHANGED <<accepted, wire>> /\ Detach
    BY <1>14 DEF OnCloseDone, record
  <2>2. QED
    BY <1>2, <2>1, DetachKeepsContract
<1>15. CASE HealthTimerExpires
  BY <1>15 DEF HealthTimerExpires, ends, record, Contract!vars
<1>16. CASE OnHealthCheck
  <2>1. UNCHANGED <<accepted, wire>> /\ (UNCHANGED ends \/ Detach)
    BY <1>16 DEF OnHealthCheck, Fail, record
  <2>2. QED
    BY <1>2, <2>1, DetachKeepsContract
<1>17. CASE OnPong
  BY <1>17 DEF OnPong, ends, record, Contract!vars
<1>18. CASE PeerDies
  BY <1>18 DEF PeerDies, ends, record, Contract!vars
<1>19. CASE UNCHANGED vars
  BY <1>19 DEF vars, ends, record, Contract!vars
<1>20. QED
  BY <1>1, <1>3, <1>4, <1>5, <1>6, <1>7, <1>8, <1>9, <1>10, <1>11, <1>12, <1>13, <1>14,
     <1>15, <1>16, <1>17, <1>18, <1>19 DEF Next

(* A connection implements the contract of the pool: open at most once,    *)
(* messages only after it, the close last; and what the server receives    *)
(* is what was sent through the handle, in order and without gaps.         *)
THEOREM ContractKept == Spec => KeepsContract
<1>1. Init => Contract!Init
  BY DEF Init, Contract!Init
<1>2. QED
  BY <1>1, StepKeepsContract, NothingIsReordered, PTL DEF Spec, KeepsContract, Contract!Spec
=============================================================================
