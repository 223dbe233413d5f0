------------------------------ MODULE MessageRing ------------------------------
(***************************************************************************)
(* The messages a channel keeps: a ring with a limit, and the operations   *)
(* of Channel on it.  A message is the time at which the server received   *)
(* it, so messages are ordered like numbers.  A ring may hold a message    *)
(* twice, as two objects: the copy of a view keeps what its channel has    *)
(* dropped, and gets it again with a page of older ones.  The system       *)
(* messages that a channel keeps as well ("connected", the dates of pages  *)
(* and of missed messages) go to the channel and its copies alike and are  *)
(* left out; what a copy alone gets is in MessageHistory.                  *)
(***************************************************************************)
EXTENDS Integers, Sequences, SequencesExt

CONSTANT DefaultLimit      \* Channel::defaultMessageLimit_

ASSUME LimitAssumption == DefaultLimit \in Nat \ {0}

Ring == [msgs: Seq(Nat), limit: Nat, raised: BOOLEAN]

EmptyRing == [msgs |-> <<>>, limit |-> DefaultLimit, raised |-> FALSE]

\* The newest n messages of s: what is left of a ring whose front is dropped.
Newest(s, n) == IF Len(s) <= n THEN s ELSE SubSeq(s, Len(s) - n + 1, Len(s))

\* The elements of s that are not in S, in their order.
Without(s, S) ==
  LET first[i \in 0 .. Len(s)] ==
        IF i = 0 THEN <<>>
        ELSE IF s[i] \in S THEN first[i - 1] ELSE Append(first[i - 1], s[i])
  IN  first[Len(s)]

Full(r) == Len(r.msgs) >= r.limit

Messages(r) == Range(r.msgs)

-----------------------------------------------------------------------------
(* Limits *)

\* Channel::growMessageLimit(by).
Grow(r, by) ==
  IF by = 0 THEN r ELSE [r EXCEPT !.limit = @ + by, !.raised = TRUE]

\* By how much a new message raises the limit of a ring that is raised already.
RoomForOne(r) == IF r.raised /\ Full(r) THEN 1 ELSE 0

\* Channel::resetMessageLimit(): the oldest messages go.
Reset(r) ==
  IF r.raised THEN [EmptyRing EXCEPT !.msgs = Newest(r.msgs, DefaultLimit)] ELSE r

-----------------------------------------------------------------------------
(* Adding messages *)

\* Channel::addMessage(m): a raised ring grows, any other drops its oldest.
Push(r, m) ==
  LET g == Grow(r, RoomForOne(r))
  IN  [g EXCEPT !.msgs = Newest(Append(@, m), g.limit)]

\* Mutant: pushFront does not ask for the space that is left.
AllFit(r, s) == s

\* What LimitedQueue::pushFront takes of s: the newest that fit.
Fitting(r, s) == Newest(s, r.limit - Len(r.msgs))

\* Channel::addMessagesAtStart(s).
PushFront(r, s) == [r EXCEPT !.msgs = Fitting(r, s) \o @]

\* boost::circular_buffer::insert: a full buffer drops its first element,
\* which is the new one when it was inserted at the front.
Put(s, i, m, limit) == Newest(InsertAt(s, i, m), limit)

\* The messages of the ring as the objects they are, told apart by their place.
Snapshot(r) == [i \in DOMAIN r.msgs |-> [msg |-> r.msgs[i], at |-> i]]

\* A message that is filled in.
New(m) == [msg |-> m, at |-> 0]

\* Where the messages of the ring are that come after m.
Later(r, m) == {i \in DOMAIN r.msgs : m < r.msgs[i]}

\* One message that is missing goes in front of the first one of the snapshot
\* that comes after it, or behind the last one.  Nothing happens when the ring
\* has dropped that one meanwhile.
FillOne(r, f, m) ==
  LET later  == Later(r, m)
      needle == IF later = {} THEN f.last ELSE Snapshot(r)[Min(later)]
      i      == SelectInSeq(f.objs, LAMBDA x: x = needle)
      place  == IF later = {} THEN i + 1 ELSE i
  IN  [objs |-> IF i = 0 THEN f.objs ELSE Put(f.objs, place, New(m), r.limit),
       last |-> IF later = {} THEN New(m) ELSE f.last]

\* The objects of the ring when the messages of s, which it lacks, are filled in.
Filled(r, s) ==
  LET first[i \in 0 .. Len(s)] ==
        IF i = 0 THEN [objs |-> Snapshot(r), last |-> Last(Snapshot(r))]
        ELSE FillOne(r, first[i - 1], s[i])
  IN  first[Len(s)].objs

\* The messages of s that the ring does not have.
MissingIn(r, s) == Without(s, Messages(r))

\* Channel::fillInMissingMessages(s).
FillIn(r, s) ==
  IF r.msgs = <<>> THEN PushFront(r, s)
  ELSE LET filled == Filled(r, MissingIn(r, s))
       IN  [r EXCEPT !.msgs = [i \in DOMAIN filled |-> filled[i].msg]]

\* Whether fillInMissingMessages(s) tells the views of it.
FillIsTold(r, s) == s # <<>> /\ (r.msgs = <<>> \/ MissingIn(r, s) # <<>>)
=============================================================================
