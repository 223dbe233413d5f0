-------------------------- MODULE MessageHistoryProofs --------------------------
(***************************************************************************)
(* Theorems about MessageHistory, for every set of views with any filters, *)
(* every distribution of the messages over days, and all limits.           *)
(*                                                                         *)
(* There are four inductive invariants, each on top of the ones before:    *)
(*   HistoryInv  types, limits, and copies that are exact;                 *)
(*   OrderInv    while a page is on its way the ring has no gap in front   *)
(*               of the cursor, so that what a page adds is older than all *)
(*               it has; missed messages reach up to the cursor;           *)
(*   SkipInv     what is older than the anchor is in front of the cursor   *)
(*               on a day that is not done, and the next day passes over   *)
(*               none of these days;                                       *)
(*   ShownInv    a raised ring is full, no copy is raised unless the ring  *)
(*               is, and the copy of every view that was not cleared and   *)
(*               got no day separator serves (MessageRingProofs).          *)
(***************************************************************************)
EXTENDS MessageHistory, MessageRingProofs

-----------------------------------------------------------------------------
(* Views *)

ViewRec == [open: BOOLEAN, copy: Ring, date: Nat, shown: Seq(Nat), owns: BOOLEAN,
            fitted: BOOLEAN, exact: BOOLEAN, cleared: BOOLEAN, dated: Nat]

\* A view when n messages were sent: unless it was cleared, it shows its copy, with
\* the separators.
ViewOk(v, n) ==
  /\ v \in ViewRec
  /\ RingOk(v.copy, 0 .. n)
  /\ v.shown \in Seq(0 .. n)
  /\ Len(v.shown) <= v.copy.limit
  /\ ~v.cleared => v.shown = v.copy.msgs

\* The view u is the view v with another copy and another list.
Follows(u, v, copy, shown) ==
  /\ u \in ViewRec
  /\ u.copy = copy /\ u.shown = shown
  /\ u.open = v.open /\ u.exact = v.exact /\ u.cleared = v.cleared
  /\ u.date = v.date /\ u.dated = v.dated

LEMMA ViewWith ==
  ASSUME NEW v \in ViewRec, NEW c \in Ring, NEW s \in Seq(Nat),
         NEW u, u = [v EXCEPT !.copy = c, !.shown = s]
  PROVE  Follows(u, v, c, s)
<1>1. u \in ViewRec
  BY DEF ViewRec
<1>2. u.copy = c /\ u.shown = s
  BY DEF ViewRec
<1>3. u.open = v.open /\ u.exact = v.exact /\ u.cleared = v.cleared
  BY DEF ViewRec
<1>4. u.date = v.date /\ u.dated = v.dated
  BY DEF ViewRec
<1> QED
  BY <1>1, <1>2, <1>3, <1>4 DEF Follows

\* messageLimitGrown.
LEMMA OnGrowFacts ==
  ASSUME NEW n \in Nat, NEW v, ViewOk(v, n), NEW by \in Nat
  PROVE  /\ ViewOk(OnGrow(v, by), n)
         /\ Follows(OnGrow(v, by), v, Grow(v.copy, by), v.shown)
<1> DEFINE u == OnGrow(v, by)
           c == Grow(v.copy, by)
<1>1. v \in ViewRec /\ RingOk(v.copy, 0 .. n) /\ v.shown \in Seq(0 .. n) /\ v.shown \in Seq(Nat)
      /\ Len(v.shown) <= v.copy.limit /\ v.copy.limit \in Nat /\ Len(v.shown) \in Nat
  BY DEF ViewOk, ViewRec, RingOk, Ring
<1>2. RingOk(c, 0 .. n) /\ c.limit = v.copy.limit + by /\ c.msgs = v.copy.msgs
  <2> DEFINE r == v.copy
             M == 0 .. n
  <2>1. RingOk(r, M)
    BY <1>1
  <2> HIDE DEF r, M
  <2>2. RingOk(Grow(r, by), M) /\ Grow(r, by).limit = r.limit + by /\ Grow(r, by).msgs = r.msgs
    BY <2>1, GrowFacts
  <2> QED
    BY <2>2 DEF r, M
<1>3. u = [v EXCEPT !.copy = c, !.shown = v.shown]
  BY <1>1 DEF OnGrow, ViewRec
<1> HIDE DEF u, c
<1>4. c \in Ring
  BY <1>2 DEF RingOk
<1>5. Follows(u, v, c, v.shown)
  BY <1>1, <1>3, <1>4, ViewWith
<1>6. ~u.cleared => u.shown = u.copy.msgs
  BY <1>2, <1>5 DEF ViewOk, Follows
<1>7. ViewOk(u, n)
  BY <1>1, <1>2, <1>5, <1>6 DEF ViewOk, Follows
<1> QED
  BY <1>5, <1>7 DEF u, c

\* A message, or a separator, goes into the copy and into the list.
LEMMA AddedFacts ==
  ASSUME NEW n \in Nat, NEW v, ViewOk(v, n), NEW m \in 0 .. n
  PROVE  /\ ViewOk(Added(v, m), n)
         /\ Follows(Added(v, m), v, Push(v.copy, m),
                    Newest(Append(v.shown, m), Push(v.copy, m).limit))
<1> DEFINE u == Added(v, m)
           M == 0 .. n
           c == Push(v.copy, m)
           a == Append(v.shown, m)
           s == Newest(a, c.limit)
<1>1. v \in ViewRec /\ RingOk(v.copy, M) /\ v.shown \in Seq(M) /\ m \in M /\ M \subseteq Nat
  BY DEF ViewOk
<1>2. u = [v EXCEPT !.copy = c, !.shown = s]
  BY <1>1 DEF Added, ViewRec
<1> HIDE DEF u, M
<1>3. RingOk(c, M) /\ a \in Seq(M) /\ c.msgs = Newest(Append(v.copy.msgs, m), c.limit)
  <2> DEFINE r == v.copy
  <2>1. RingOk(r, M) /\ m \in M /\ M \subseteq Nat
    BY <1>1
  <2> HIDE DEF r
  <2>2. RingOk(Push(r, m), M) /\ Push(r, m).msgs = Newest(Append(r.msgs, m), Push(r, m).limit)
    BY <2>1, PushFacts
  <2> QED
    BY <1>1, <2>2 DEF r
<1>9. ~v.cleared => s = c.msgs
  BY <1>3 DEF ViewOk
<1> HIDE DEF c, a
<1>4. c \in Ring /\ c.limit \in Nat
  BY <1>3 DEF RingOk, Ring
<1>5. s \in Seq(M) /\ Len(s) <= c.limit
  BY <1>3, <1>4, NewestFacts
<1> HIDE DEF s
<1>6. s \in Seq(Nat)
  BY <1>1, <1>5, SeqMonotonic
<1>7. Follows(u, v, c, s)
  BY <1>1, <1>2, <1>4, <1>6, ViewWith
<1>8. ViewOk(u, n)
  BY <1>3, <1>5, <1>7, <1>9 DEF ViewOk, Follows, M
<1> QED
  BY <1>7, <1>8 DEF u, c, a, s

\* The copy of a view gets a separator, on another date than the last.
LEMMA OnNewDateFacts ==
  ASSUME NEW n \in Nat, NEW v, ViewOk(v, n), NEW d \in Nat
  PROVE  LET u == OnNewDate(v, d)
         IN  /\ ViewOk(u, n)
             /\ u.open = v.open /\ u.exact = v.exact /\ u.cleared = v.cleared
             /\ u.dated # 0 /\ u.copy = Push(v.copy, Separator)
<1> DEFINE a == Added(v, Separator)
           u == [a EXCEPT !.date = d, !.dated = @ + 1]
<1>1. Separator \in 0 .. n
  BY DEF Separator
<1>2. ViewOk(a, n) /\ Follows(a, v, Push(v.copy, Separator),
                             Newest(Append(v.shown, Separator), Push(v.copy, Separator).limit))
  BY <1>1, AddedFacts
<1>3. u = OnNewDate(v, d)
  BY DEF OnNewDate
<1> HIDE DEF a
<1>4. a \in ViewRec /\ a.dated \in Nat
  BY <1>2 DEF ViewOk, ViewRec
<1>5. u \in ViewRec
  <2> DEFINE k == a.dated + 1
  <2>1. u = [a EXCEPT !.date = d, !.dated = k] /\ k \in Nat
    BY <1>4
  <2> HIDE DEF k, u
  <2> QED
    BY <1>4, <2>1 DEF ViewRec
<1>6. u.copy = a.copy /\ u.shown = a.shown
  BY <1>4 DEF ViewRec
<1>7. u.open = a.open /\ u.exact = a.exact /\ u.cleared = a.cleared
  BY <1>4 DEF ViewRec
<1>8. u.dated = a.dated + 1
  BY <1>4 DEF ViewRec
<1> HIDE DEF u
<1>9. ViewOk(u, n)
  BY <1>2, <1>5, <1>6, <1>7 DEF ViewOk
<1>10. u.copy = Push(v.copy, Separator)
  BY <1>2, <1>6 DEF Follows
<1>11. u.open = v.open /\ u.exact = v.exact /\ u.cleared = v.cleared
  BY <1>2, <1>7 DEF Follows
<1>12. u.dated # 0
  BY <1>4, <1>8
<1> QED
  BY <1>3, <1>9, <1>10, <1>11, <1>12

\* messageAppended: a view of the same date takes the message alone; any other has
\* got a separator afterwards.
LEMMA OnAppendFacts ==
  ASSUME NEW n \in Nat, NEW v, ViewOk(v, n), NEW m \in 0 .. n, NEW d \in Nat
  PROVE  LET u == OnAppend(v, m, d)
         IN  /\ ViewOk(u, n)
             /\ u.open = v.open /\ u.exact = v.exact /\ u.cleared = v.cleared
             /\ u.dated = 0 => v.dated = 0 /\ u.copy = Push(v.copy, m)
             /\ u.copy.raised = v.copy.raised
<1> DEFINE b == OnNewDate(v, d)
           o == IF v.date # d THEN b ELSE v
           u == Added(o, m)
           M == 0 .. n
<1>1. u = OnAppend(v, m, d)
  BY DEF OnAppend
<1>2. /\ ViewOk(b, n)
      /\ b.open = v.open /\ b.exact = v.exact /\ b.cleared = v.cleared
      /\ b.dated # 0 /\ b.copy = Push(v.copy, Separator)
  BY OnNewDateFacts
<1>3. o = v \/ o = b
  OBVIOUS
<1>4. ViewOk(o, n) /\ M \subseteq Nat /\ m \in M /\ Separator \in M
  BY <1>2, <1>3 DEF Separator
<1> HIDE DEF b, o, M
<1>5. ViewOk(u, n) /\ Follows(u, o, Push(o.copy, m),
                             Newest(Append(o.shown, m), Push(o.copy, m).limit))
  BY <1>4, AddedFacts DEF M
<1> HIDE DEF u
<1>6. /\ u.open = o.open /\ u.exact = o.exact /\ u.cleared = o.cleared
      /\ u.dated = o.dated /\ u.copy = Push(o.copy, m)
  BY <1>5 DEF Follows
<1>7. u.open = v.open /\ u.exact = v.exact /\ u.cleared = v.cleared
  BY <1>2, <1>3, <1>6
<1>8. u.dated = 0 => v.dated = 0 /\ u.copy = Push(v.copy, m)
  BY <1>2, <1>3, <1>6
<1>9. u.copy.raised = v.copy.raised
  <2> DEFINE c == v.copy
             e == o.copy
  <2>1. RingOk(c, M) /\ RingOk(e, M)
    BY <1>4 DEF ViewOk, M
  <2>2. e = c \/ e = Push(c, Separator)
    BY <1>2, <1>3
  <2>3. u.copy = Push(e, m)
    BY <1>6
  <2> HIDE DEF c, e
  <2>4. Push(e, m).raised = e.raised
    BY <1>4, <2>1, PushFacts
  <2>5. Push(c, Separator).raised = c.raised
    BY <1>4, <2>1, PushFacts
  <2> QED
    BY <2>2, <2>3, <2>4, <2>5 DEF c
<1> QED
  BY <1>1, <1>5, <1>7, <1>8, <1>9

\* messagesAddedAtStart.
LEMMA OnStartFacts ==
  ASSUME NEW n \in Nat, NEW v, ViewOk(v, n), NEW s \in Seq(0 .. n)
  PROVE  /\ ViewOk(OnStart(v, s), n)
         /\ Follows(OnStart(v, s), v, PushFront(v.copy, s),
                    Newest(Fitting(v.copy, s), v.copy.limit - Len(v.shown)) \o v.shown)
<1> DEFINE u == OnStart(v, s)
           M == 0 .. n
           c == PushFront(v.copy, s)
           f == Fitting(v.copy, s)
           k == v.copy.limit - Len(v.shown)
           a == Newest(f, k)
           q == a \o v.shown
<1>1. v \in ViewRec /\ RingOk(v.copy, M) /\ v.shown \in Seq(M) /\ s \in Seq(M) /\ M \subseteq Nat
      /\ Len(v.shown) <= v.copy.limit
  BY DEF ViewOk
<1>2. v.copy.limit \in Nat /\ Len(v.shown) \in Nat
  BY <1>1 DEF RingOk, Ring
<1>3. k \in Nat
  BY <1>1, <1>2
<1>4. u = [v EXCEPT !.copy = c, !.shown = q]
  <2> HIDE DEF M
  <2> QED
    BY DEF OnStart
<1> HIDE DEF u, M
<1>5. /\ RingOk(c, M) /\ c.limit = v.copy.limit /\ f \in Seq(M)
      /\ c.msgs = f \o v.copy.msgs /\ Len(f) + Len(v.copy.msgs) <= v.copy.limit
  <2> HIDE DEF c, f
  <2>1. RingOk(PushFront(v.copy, s), M) /\ PushFront(v.copy, s).limit = v.copy.limit
        /\ Fitting(v.copy, s) \in Seq(M)
        /\ PushFront(v.copy, s).msgs = Fitting(v.copy, s) \o v.copy.msgs
        /\ Len(Fitting(v.copy, s)) + Len(v.copy.msgs) <= v.copy.limit
    <3> DEFINE r == v.copy
    <3>1. RingOk(r, M) /\ s \in Seq(M) /\ M \subseteq Nat
      BY <1>1
    <3> HIDE DEF r
    <3>2. RingOk(PushFront(r, s), M) /\ PushFront(r, s).limit = r.limit
          /\ Fitting(r, s) \in Seq(M)
          /\ PushFront(r, s).msgs = Fitting(r, s) \o r.msgs
          /\ Len(Fitting(r, s)) + Len(r.msgs) <= r.limit
      BY <3>1, PushFrontFacts
    <3> QED
      BY <3>2 DEF r
  <2> QED
    BY <2>1 DEF c, f
<1> HIDE DEF c, f
<1>6. a \in Seq(M) /\ Len(a) <= k
  <2> HIDE DEF k
  <2> QED
    BY <1>3, <1>5, NewestFacts
<1>11. ~v.cleared => q = c.msgs
  <2>1. SUFFICES ASSUME ~v.cleared
                 PROVE  q = c.msgs
    OBVIOUS
  <2>2. v.shown = v.copy.msgs
    BY <2>1 DEF ViewOk
  <2>3. Len(f) <= k
    <3>1. Len(f) \in Nat
      BY <1>5
    <3> QED
      BY <1>2, <1>5, <2>2, <3>1
  <2>4. a = f
    BY <2>3 DEF Newest
  <2> QED
    BY <1>5, <2>2, <2>4
<1> HIDE DEF a
<1>7. q \in Seq(M) /\ Len(q) <= c.limit
  <2>1. q \in Seq(M) /\ Len(q) = Len(a) + Len(v.shown) /\ Len(a) \in Nat
    BY <1>1, <1>6
  <2> QED
    BY <1>2, <1>5, <1>6, <2>1
<1> HIDE DEF q
<1>8. q \in Seq(Nat) /\ c \in Ring
  BY <1>1, <1>5, <1>7, SeqMonotonic DEF RingOk
<1>9. Follows(u, v, c, q)
  BY <1>1, <1>4, <1>8, ViewWith
<1>10. ViewOk(u, n)
  BY <1>5, <1>7, <1>9, <1>11 DEF ViewOk, Follows, M
<1> QED
  BY <1>9, <1>10 DEF u, c, q, a, f, k

\* filledInMessages.
LEMMA OnFillFacts ==
  ASSUME NEW n \in Nat, NEW v, ViewOk(v, n), NEW s \in Seq(0 .. n)
  PROVE  /\ ViewOk(OnFill(v, s), n)
         /\ ~FillIsTold(v.copy, s) => OnFill(v, s) = v
         /\ FillIsTold(v.copy, s) =>
              Follows(OnFill(v, s), v, FillIn(v.copy, s), FillIn(v.copy, s).msgs)
<1> DEFINE u == OnFill(v, s)
           M == 0 .. n
           c == FillIn(v.copy, s)
<1>1. v \in ViewRec /\ RingOk(v.copy, M) /\ s \in Seq(M) /\ M \subseteq Nat
  BY DEF ViewOk
<1>2. CASE ~FillIsTold(v.copy, s)
  <2>1. u = v
    BY <1>2 DEF OnFill
  <2> QED
    BY <1>2, <2>1
<1>3. CASE FillIsTold(v.copy, s)
  <2>1. u = [v EXCEPT !.copy = c, !.shown = c.msgs]
    BY <1>3 DEF OnFill
  <2> HIDE DEF u, M
  <2>2. RingOk(c, M)
    BY <1>1, FillInFacts
  <2> HIDE DEF c
  <2>3. c \in Ring /\ c.msgs \in Seq(M) /\ c.msgs \in Seq(Nat) /\ Len(c.msgs) <= c.limit
    BY <2>2 DEF RingOk, Ring
  <2>4. Follows(u, v, c, c.msgs)
    BY <1>1, <2>1, <2>3, ViewWith
  <2>5. ViewOk(u, n)
    BY <2>2, <2>3, <2>4 DEF ViewOk, Follows, M
  <2> QED
    BY <1>3, <2>4, <2>5 DEF u, c
<1> QED
  BY <1>2, <1>3

\* messagesCleared, or a view is cleared.
LEMMA OnClearFacts ==
  ASSUME NEW n \in Nat, NEW v, ViewOk(v, n)
  PROVE  /\ ViewOk(OnClear(v), n)
         /\ OnClear(v).open = v.open /\ OnClear(v).exact = FALSE /\ OnClear(v).cleared = TRUE
         /\ OnClear(v).copy = v.copy
<1> DEFINE u == OnClear(v)
<1>1. v \in ViewRec /\ RingOk(v.copy, 0 .. n) /\ v.copy.limit \in Nat
  BY DEF ViewOk, ViewRec, Ring
<1>a. <<>> \in Seq(Nat)
  OBVIOUS
<1>2. u \in ViewRec
  BY <1>1, <1>a DEF OnClear, ViewRec
<1>3. u.copy = v.copy /\ u.shown = <<>> /\ u.open = v.open
  BY <1>1 DEF OnClear, ViewRec
<1>4. u.exact = FALSE /\ u.cleared = TRUE
  BY <1>1 DEF OnClear, ViewRec
<1> HIDE DEF u
<1>5. u.shown \in Seq(0 .. n) /\ Len(u.shown) = 0
  BY <1>3
<1>6. ViewOk(u, n)
  BY <1>1, <1>2, <1>3, <1>4, <1>5 DEF ViewOk
<1> QED
  BY <1>3, <1>4, <1>6 DEF u

\* messageLimitReset.
LEMMA OnResetFacts ==
  ASSUME NEW n \in Nat, NEW v, ViewOk(v, n)
  PROVE  /\ ViewOk(OnReset(v), n)
         /\ ~v.copy.raised => OnReset(v) = v
         /\ v.copy.raised =>
              Follows(OnReset(v), v, Reset(v.copy), Newest(v.shown, DefaultLimit))
<1> DEFINE u == OnReset(v)
           M == 0 .. n
           c == Reset(v.copy)
           s == Newest(v.shown, DefaultLimit)
<1>1. v \in ViewRec /\ RingOk(v.copy, M) /\ v.shown \in Seq(M) /\ M \subseteq Nat
  BY DEF ViewOk
<1>2. CASE ~v.copy.raised
  <2>1. u = v
    BY <1>2 DEF OnReset
  <2> QED
    BY <1>2, <2>1
<1>3. CASE v.copy.raised
  <2>1. u = [v EXCEPT !.copy = c, !.shown = s, !.owns = FALSE]
    BY <1>3 DEF OnReset
  <2> HIDE DEF u, M
  <2>2. RingOk(c, M) /\ c.limit = DefaultLimit /\ c.msgs = Newest(v.copy.msgs, DefaultLimit)
    BY <1>1, ResetFacts
  <2>10. ~v.cleared => s = c.msgs
    BY <2>2 DEF ViewOk
  <2>3. s \in Seq(M) /\ Len(s) <= DefaultLimit
    BY <1>1, LimitAssumption, NewestFacts
  <2> HIDE DEF c, s
  <2>4. c \in Ring /\ s \in Seq(Nat)
    BY <1>1, <2>2, <2>3, SeqMonotonic DEF RingOk
  <2>5. u \in ViewRec
    BY <1>1, <2>1, <2>4 DEF ViewRec
  <2>6. u.copy = c /\ u.shown = s
    BY <1>1, <2>1 DEF ViewRec
  <2>7. u.open = v.open /\ u.exact = v.exact /\ u.cleared = v.cleared
    BY <1>1, <2>1 DEF ViewRec
  <2>11. u.date = v.date /\ u.dated = v.dated
    BY <1>1, <2>1 DEF ViewRec
  <2>8. Follows(u, v, c, s)
    BY <2>5, <2>6, <2>7, <2>11 DEF Follows
  <2>9. ViewOk(u, n)
    BY <2>2, <2>3, <2>5, <2>6, <2>7, <2>10 DEF ViewOk, M
  <2> QED
    BY <1>3, <2>8, <2>9 DEF u, c, s
<1> QED
  BY <1>2, <1>3

\* A view on a channel with ring r that is opened.
LEMMA OpenedFacts ==
  ASSUME NEW n \in Nat, NEW w \in Views, NEW r, RingOk(r, 1 .. n), NEW d \in Nat
  PROVE  LET msgs == Newest(Included(w, r.msgs), DefaultLimit)
         IN  /\ ViewOk(Opened(w, r, d), n)
             /\ Opened(w, r, d) = [open |-> TRUE,
                                   copy |-> [msgs |-> msgs, limit |-> DefaultLimit, raised |-> FALSE],
                                   date |-> d, shown |-> msgs, owns |-> FALSE, fitted |-> FALSE,
                                   exact |-> (~r.raised /\ Hidden[w] = {}), cleared |-> FALSE,
                                   dated |-> 0]
             /\ Included(w, r.msgs) \in Seq(1 .. n)
             /\ msgs \in Seq(1 .. n)
<1> DEFINE M == 1 .. n
           i == Included(w, r.msgs)
           msgs == Newest(i, DefaultLimit)
           c == [msgs |-> msgs, limit |-> DefaultLimit, raised |-> FALSE]
           u == Opened(w, r, d)
<1>1. r.msgs \in Seq(M) /\ M \subseteq Nat /\ DefaultLimit \in Nat
  BY LimitAssumption DEF RingOk
<1> HIDE DEF M, u
<1>3. i \in Seq(M)
  BY <1>1, WithoutMembers DEF Included
<1> HIDE DEF i
<1>4. msgs \in Seq(M) /\ Len(msgs) <= DefaultLimit
  BY <1>1, <1>3, NewestFacts
<1> HIDE DEF msgs
<1>5. msgs \in Seq(Nat)
  BY <1>1, <1>4, SeqMonotonic
<1>2. u = [open |-> TRUE, copy |-> c, date |-> d, shown |-> msgs, owns |-> FALSE, fitted |-> FALSE,
           exact |-> (~r.raised /\ Hidden[w] = {}), cleared |-> FALSE, dated |-> 0]
  <2> DEFINE b == ~r.raised /\ Hidden[w] = {}
             e == [EmptyRing EXCEPT !.msgs = msgs]
  <2>1. e = c
    <3>1. EmptyRing \in Ring /\ EmptyRing.limit = DefaultLimit /\ EmptyRing.raised = FALSE
      BY <1>1 DEF EmptyRing, Ring
    <3>2. e \in Ring /\ e.msgs = msgs /\ e.limit = DefaultLimit /\ e.raised = FALSE
      BY <1>5, <3>1 DEF Ring
    <3>3. c \in Ring /\ c.msgs = msgs /\ c.limit = DefaultLimit /\ c.raised = FALSE
      BY <1>1, <1>5 DEF Ring
    <3> HIDE DEF e, c
    <3> QED
      BY <3>2, <3>3, RingEqual
  <2>2. u = [ClosedView EXCEPT !.open = TRUE, !.copy = e, !.date = d, !.shown = msgs, !.exact = b]
    BY DEF Opened, u, msgs, i
  <2> HIDE DEF u, b, e, c, msgs
  <2>3. u = [open |-> TRUE, copy |-> e, date |-> d, shown |-> msgs, owns |-> FALSE, fitted |-> FALSE,
             exact |-> b, cleared |-> FALSE, dated |-> 0]
    BY <2>2 DEF ClosedView
  <2> QED
    BY <2>1, <2>3 DEF b
<1>6. RingOk(c, M)
  BY <1>1, <1>4, <1>5 DEF RingOk, Ring
<1>7. c \in Ring /\ c.limit = DefaultLimit /\ c.msgs = msgs
  BY <1>1, <1>5 DEF Ring
<1> HIDE DEF c
<1>8. u \in ViewRec
  BY <1>2, <1>5, <1>7 DEF ViewRec
<1>9. u.copy = c /\ u.shown = msgs
  BY <1>2
<1>10. ViewOk(u, n)
  <2> DEFINE N == 0 .. n
  <2>1. M \subseteq N
    BY DEF M
  <2> HIDE DEF N
  <2>2. RingOk(c, N) /\ msgs \in Seq(N)
    BY <1>4, <1>6, <2>1, RingOkGrows, SeqMonotonic
  <2> QED
    BY <1>4, <1>7, <1>8, <1>9, <2>2 DEF ViewOk, N
<1> QED
  BY <1>2, <1>3, <1>4, <1>10 DEF u, c, msgs, i, M

LEMMA ClosedFacts ==
  ASSUME NEW n \in Nat
  PROVE  ViewOk(ClosedView, n) /\ ~ClosedView.open /\ ~ClosedView.exact
<1>1. EmptyRing = [msgs |-> <<>>, limit |-> DefaultLimit, raised |-> FALSE] /\ DefaultLimit \in Nat
  BY LimitAssumption DEF EmptyRing
<1>2. RingOk(EmptyRing, 0 .. n) /\ EmptyRing \in Ring /\ EmptyRing.limit = DefaultLimit
      /\ EmptyRing.msgs = <<>>
  BY <1>1 DEF RingOk, Ring
<1> DEFINE v == ClosedView
<1>3. v = [open |-> FALSE, copy |-> EmptyRing, date |-> 0, shown |-> <<>>, owns |-> FALSE,
           fitted |-> FALSE, exact |-> FALSE, cleared |-> FALSE, dated |-> 0]
  BY DEF ClosedView
<1> HIDE DEF v
<1>4. v \in ViewRec
  BY <1>2, <1>3 DEF ViewRec
<1>5. v.copy = EmptyRing /\ v.shown = <<>> /\ v.open = FALSE /\ v.exact = FALSE
  BY <1>3
<1>6. v.shown \in Seq(0 .. n) /\ Len(v.shown) = 0
  BY <1>5
<1>7. ViewOk(v, n)
  BY <1>1, <1>2, <1>4, <1>5, <1>6 DEF ViewOk
<1> QED
  BY <1>5, <1>7 DEF v

\* Messages are among what a copy may have.
LEMMA WithSeparators ==
  ASSUME NEW n \in Nat, NEW s \in Seq(1 .. n)
  PROVE  s \in Seq(0 .. n)
<1>1. 1 .. n \subseteq 0 .. n
  OBVIOUS
<1> QED
  BY <1>1, SeqMonotonic

\* More messages may have been sent.
LEMMA ViewOkGrows ==
  ASSUME NEW n \in Nat, NEW m \in Nat, n <= m, NEW v, ViewOk(v, n)
  PROVE  ViewOk(v, m)
<1> DEFINE N == 0 .. n
           M == 0 .. m
<1>1. N \subseteq M
  OBVIOUS
<1>2. v \in ViewRec /\ RingOk(v.copy, N) /\ v.shown \in Seq(N) /\ Len(v.shown) <= v.copy.limit
      /\ (~v.cleared => v.shown = v.copy.msgs)
  BY DEF ViewOk
<1> HIDE DEF N, M
<1>3. RingOk(v.copy, M) /\ v.shown \in Seq(M)
  BY <1>1, <1>2, RingOkGrows, SeqMonotonic
<1> QED
  BY <1>2, <1>3 DEF ViewOk, M

-----------------------------------------------------------------------------
(* The older logs *)

\* A bounded set of natural numbers has a greatest element.
LEMMA Greatest ==
  ASSUME NEW n \in Nat, NEW S, S \subseteq 0 .. n, S # {}
  PROVE  Max(S) \in S /\ \A x \in S : x <= Max(S)
<1> DEFINE R == {n - x : x \in S}
<1>1. R \subseteq Nat /\ R # {}
  <2>1. \A x \in S : x \in 0 .. n
    OBVIOUS
  <2>2. \A x \in S : n - x \in Nat
    BY <2>1
  <2> QED
    BY <2>2
<1>2. PICK m \in R : \A x \in R : m <= x
  <2>1. Min(R) \in R /\ \A x \in R : Min(R) <= x
    <3> HIDE DEF R
    <3> QED
      BY <1>1, Least
  <2> QED
    BY <2>1
<1>3. PICK g \in S : m = n - g
  OBVIOUS
<1>4. \A x \in S : g >= x
  <2>1. TAKE x \in S
  <2>2. n - x \in R
    OBVIOUS
  <2>3. n - g <= n - x /\ x \in 0 .. n /\ g \in 0 .. n
    BY <1>2, <1>3, <2>2
  <2> QED
    BY <2>3
<1>5. Max(S) \in S /\ \A x \in S : Max(S) >= x
  BY <1>4 DEF Max
<1> QED
  BY <1>5

LogsRec ==
  [phase: {"idle", "list", "page"}, exhausted: BOOLEAN, listed: BOOLEAN, days: SUBSET Days,
   doneFrom: Nat, cursor: [day: Nat, before: Nat], anchor: Nat, day: Nat, left: Nat, wanted: Nat]

\* Of two states of the paging, that they have read the same.
SameLogs(l, k) ==
  /\ l.listed = k.listed /\ l.days = k.days /\ l.doneFrom = k.doneFrom
  /\ l.cursor = k.cursor /\ l.anchor = k.anchor

LEMMA DaysAreNumbers ==
  /\ Days \subseteq Nat \ {0} /\ Last_ \in Nat
  /\ \A t \in Times : DayOf[t] \in Days /\ DayOf[t] \in Nat \ {0}
<1>1. DayOf \in Seq(Nat \ {0})
  BY HistoryAssumption
<1>2. DOMAIN DayOf = Times /\ Last_ \in Nat
  BY <1>1 DEF Times, Last_
<1>3. \A t \in Times : DayOf[t] \in Nat \ {0}
  BY <1>1, <1>2
<1>4. Days = {DayOf[t] : t \in Times}
  BY <1>2 DEF Days, Range
<1> QED
  BY <1>2, <1>3, <1>4

\* The next day is not newer than the one of the cursor.
LEMMA NextDayFacts ==
  ASSUME NEW l \in LogsRec
  PROVE  /\ NextDay(l) \in Nat
         /\ NextDay(l) <= l.cursor.day
<1> DEFINE c == l.cursor.day
           listed == {d \in l.days : d <= c /\ NotDone(l, d)}
<1>1. c \in Nat /\ l.days \subseteq Days
  BY DEF LogsRec
<1>2. listed \subseteq 0 .. c
  <2>1. SUFFICES ASSUME NEW d \in l.days, d <= c
                 PROVE  d \in 0 .. c
    BY DEF listed
  <2>2. d \in Nat
    BY <1>1, DaysAreNumbers
  <2> HIDE DEF c
  <2> QED
    BY <1>1, <2>1, <2>2
<1>3. listed # {} => Max(listed) \in 0 .. c
  <2> HIDE DEF listed, c
  <2> QED
    BY <1>1, <1>2, Greatest
<1>4. NextDay(l) = IF NotDone(l, c) /\ \A d \in l.days : d < c THEN c
                   ELSE IF listed # {} THEN Max(listed) ELSE None
  BY DEF NextDay
<1> HIDE DEF listed, c
<1>5. None \in 0 .. c
  BY <1>1 DEF None
<1>6. NextDay(l) \in 0 .. c
  BY <1>1, <1>3, <1>4, <1>5
<1> QED
  BY <1>1, <1>6 DEF c

\* The next day is a matter of what the paging has read.
LEMMA NextDaySame ==
  ASSUME NEW k, NEW l, SameLogs(k, l)
  PROVE  NextDay(k) = NextDay(l)
BY DEF SameLogs, NextDay, NotDone

\* No request is on its way.
LEMMA IdleFacts ==
  ASSUME NEW l \in LogsRec
  PROVE  /\ Idle(l) \in LogsRec /\ Idle(l).phase = "idle"
         /\ SameLogs(Idle(l), l) /\ Idle(l).exhausted = l.exhausted
<1> DEFINE f == Idle(l)
<1>1. f = [l EXCEPT !.phase = "idle", !.day = 0, !.left = 0, !.wanted = 0]
  BY DEF Idle, None
<1> HIDE DEF f
<1>2. f \in LogsRec
  BY <1>1 DEF LogsRec
<1>3. f.phase = "idle" /\ f.exhausted = l.exhausted
  BY <1>1 DEF LogsRec
<1>4. f.listed = l.listed /\ f.days = l.days /\ f.doneFrom = l.doneFrom
  BY <1>1 DEF LogsRec
<1>5. f.cursor = l.cursor /\ f.anchor = l.anchor
  BY <1>1 DEF LogsRec
<1> QED
  BY <1>2, <1>3, <1>4, <1>5 DEF f, SameLogs

\* What a page that is asked for, or the end of the logs, makes of the paging.
Fetched(l, left, wanted, f) ==
  /\ f \in LogsRec
  /\ SameLogs(f, l)
  /\ \/ /\ f.phase = "idle" /\ f.exhausted = TRUE
        /\ NextDay(l) = None
     \/ /\ f.phase = "page" /\ f.exhausted = l.exhausted
        /\ f.day = NextDay(l) /\ f.day # None /\ f.day <= f.cursor.day
        /\ f.left = left /\ f.wanted = wanted

LEMMA FetchFacts ==
  ASSUME NEW l \in LogsRec, NEW left \in Nat, NEW wanted \in Nat \ {0}
  PROVE  Fetched(l, left, wanted, Fetch(l, left, wanted))
<1> DEFINE f == Fetch(l, left, wanted)
           d == NextDay(l)
<1>1. d \in Nat /\ d <= l.cursor.day
  BY NextDayFacts
<1>2. CASE d = None
  <2> DEFINE i == Idle(l)
  <2>1. f = [i EXCEPT !.exhausted = TRUE]
    BY <1>2 DEF Fetch
  <2>2. i \in LogsRec /\ i.phase = "idle" /\ SameLogs(i, l)
    BY IdleFacts
  <2> HIDE DEF i, f, d
  <2>3. f \in LogsRec
    BY <2>1, <2>2 DEF LogsRec
  <2>4. f.phase = "idle" /\ f.exhausted = TRUE
    BY <2>1, <2>2 DEF LogsRec
  <2>5. SameLogs(f, i)
    <3>1. f.listed = i.listed /\ f.days = i.days /\ f.doneFrom = i.doneFrom
      BY <2>1, <2>2 DEF LogsRec
    <3>2. f.cursor = i.cursor /\ f.anchor = i.anchor
      BY <2>1, <2>2 DEF LogsRec
    <3> QED
      BY <3>1, <3>2 DEF SameLogs
  <2>6. SameLogs(f, l)
    BY <2>2, <2>5 DEF SameLogs
  <2>7. Fetched(l, left, wanted, f)
    BY <1>2, <2>3, <2>4, <2>6 DEF Fetched, d
  <2> QED
    BY <2>7 DEF f
<1>3. CASE d # None
  <2>1. f = [l EXCEPT !.phase = "page", !.day = d, !.left = left, !.wanted = wanted]
    BY <1>3 DEF Fetch
  <2> HIDE DEF f, d
  <2>2. f \in LogsRec
    BY <1>1, <2>1 DEF LogsRec
  <2>3. f.phase = "page" /\ f.exhausted = l.exhausted
    BY <2>1 DEF LogsRec
  <2>4. f.day = d /\ f.left = left /\ f.wanted = wanted
    BY <2>1 DEF LogsRec
  <2>5. f.listed = l.listed /\ f.days = l.days /\ f.doneFrom = l.doneFrom
    BY <2>1 DEF LogsRec
  <2>6. f.cursor = l.cursor /\ f.anchor = l.anchor
    BY <2>1 DEF LogsRec
  <2>7. Fetched(l, left, wanted, f)
    BY <1>1, <1>3, <2>2, <2>3, <2>4, <2>5, <2>6 DEF Fetched, SameLogs, d
  <2> QED
    BY <2>7 DEF f
<1> QED
  BY <1>2, <1>3

\* The messages of S that were sent, in their order.
LEMMA AscendingFacts ==
  ASSUME now \in Nat, NEW S
  PROVE  /\ Ascending(S) \in Seq(1 .. now)
         /\ Ascends(Ascending(S))
         /\ Range(Ascending(S)) = S \cap (1 .. now)
<1> DEFINE s == [t \in 1 .. now |-> t]
           C == (1 .. now) \ S
<1>1. /\ s \in Seq(1 .. now) /\ s \in Seq(Nat) /\ Len(s) = now /\ DOMAIN s = 1 .. now
      /\ \A t \in 1 .. now : s[t] = t
  OBVIOUS
<1>2. Ascending(S) = Without(s, C)
  BY DEF Ascending
<1> HIDE DEF s, C
<1>3. Ascends(s)
  BY <1>1 DEF Ascends
<1>4. Range(s) = 1 .. now
  BY <1>1 DEF Range
<1>5. /\ Without(s, C) \in Seq(1 .. now) /\ Range(Without(s, C)) = Range(s) \ C
  BY <1>1, WithoutMembers
<1>6. Ascends(Without(s, C))
  BY <1>1, <1>3, WithoutAscends
<1> QED
  BY <1>2, <1>4, <1>5, <1>6 DEF C

\* The newest n messages of those of S that were sent.
LEMMA NewestOfSent ==
  ASSUME now \in Nat, NEW S, NEW n \in Nat
  PROVE  LET q == Newest(Ascending(S), n)
         IN  /\ q \in Seq(1 .. now) /\ q \in Seq(Nat)
             /\ Ascends(q)
             /\ Range(q) \subseteq S \cap (1 .. now)
             /\ \A x \in Range(q), y \in S \cap (1 .. now) : x <= y => y \in Range(q)
             /\ Len(q) <= n
             /\ Len(q) < n => Range(q) = S \cap (1 .. now)
<1> DEFINE a == Ascending(S)
           q == Newest(a, n)
<1>1. a \in Seq(1 .. now) /\ Ascends(a) /\ Range(a) = S \cap (1 .. now)
  BY AscendingFacts
<1>2. 1 .. now \subseteq Nat
  OBVIOUS
<1> HIDE DEF a
<1>3. a \in Seq(Nat)
  BY <1>1, <1>2, SeqMonotonic
<1>4. q \in Seq(1 .. now) /\ Len(q) = IF Len(a) <= n THEN Len(a) ELSE n
  BY <1>1, NewestFacts
<1>5. Range(q) \subseteq Range(a) /\ (Len(a) <= n => q = a)
  BY <1>1, NewestMembers
<1>6. Ascends(q) /\ \A x \in Range(q), y \in Range(a) : x <= y => y \in Range(q)
  BY <1>1, <1>3, NewestAscends
<1>7. Len(a) \in Nat
  BY <1>1
<1> HIDE DEF q
<1>8. q \in Seq(Nat)
  BY <1>2, <1>4, SeqMonotonic
<1>9. Len(q) <= n /\ (Len(q) < n => Len(a) <= n)
  BY <1>4, <1>7
<1> QED
  BY <1>1, <1>4, <1>5, <1>6, <1>8, <1>9 DEF q, a

-----------------------------------------------------------------------------
(* The views of a channel *)

Viewed(vs, n) == vs \in [Views -> ViewRec] /\ \A w \in Views : ViewOk(vs[w], n)

\* A view that was changed in nothing but what the user may do with it.
LEMMA FollowsSame ==
  ASSUME NEW n, NEW v, ViewOk(v, n), NEW u, Follows(u, v, v.copy, v.shown)
  PROVE  ViewOk(u, n)
BY DEF ViewOk, Follows

\* Channel::growMessageLimit, with what every view does of it.
LEMMA GrownViewsFacts ==
  ASSUME NEW n \in Nat, NEW vs, Viewed(vs, n), NEW by \in Nat
  PROVE  /\ Viewed(GrownViews(vs, by), n)
         /\ \A w \in Views :
              GrownViews(vs, by)[w] = IF vs[w].open THEN OnGrow(vs[w], by) ELSE vs[w]
<1> DEFINE us == GrownViews(vs, by)
<1>1. us = [w \in Views |-> IF vs[w].open THEN OnGrow(vs[w], by) ELSE vs[w]]
  BY DEF GrownViews, Each
<1>2. ASSUME NEW w \in Views
      PROVE  us[w] \in ViewRec /\ ViewOk(us[w], n)
  <2>1. ViewOk(vs[w], n)
    BY DEF Viewed
  <2> DEFINE v == vs[w]
  <2> HIDE DEF v
  <2>2. ViewOk(OnGrow(v, by), n)
    BY <2>1, OnGrowFacts DEF v
  <2>3. ViewOk(us[w], n)
    BY <1>1, <2>1, <2>2 DEF v
  <2> QED
    BY <2>3 DEF ViewOk
<1> HIDE DEF us
<1>3. us \in [Views -> ViewRec]
  BY <1>1, <1>2
<1> QED
  BY <1>1, <1>2, <1>3 DEF Viewed, us

\* Channel::resetMessageLimit, with what every view does of it.
LEMMA ResetViewsFacts ==
  ASSUME NEW n \in Nat, NEW vs, Viewed(vs, n)
  PROVE  /\ Viewed(ResetViews(vs), n)
         /\ \A w \in Views :
              ResetViews(vs)[w] = IF vs[w].open /\ ring.raised THEN OnReset(vs[w]) ELSE vs[w]
<1> DEFINE us == ResetViews(vs)
<1>1. us = [w \in Views |-> IF vs[w].open THEN (IF ring.raised THEN OnReset(vs[w]) ELSE vs[w])
                            ELSE vs[w]]
  BY DEF ResetViews, Each
<1>2. ASSUME NEW w \in Views
      PROVE  us[w] \in ViewRec /\ ViewOk(us[w], n)
  <2>1. ViewOk(vs[w], n)
    BY DEF Viewed
  <2> DEFINE v == vs[w]
  <2> HIDE DEF v
  <2>2. ViewOk(OnReset(v), n)
    BY <2>1, OnResetFacts DEF v
  <2>3. ViewOk(us[w], n)
    BY <1>1, <2>1, <2>2 DEF v
  <2> QED
    BY <2>3 DEF ViewOk
<1> HIDE DEF us
<1>3. us \in [Views -> ViewRec]
  BY <1>1, <1>2
<1> QED
  BY <1>1, <1>2, <1>3 DEF Viewed, us

\* What releasing the raised limit for one view makes of a view v.
ReleasedCopy(w, v) ==
  IF view[w].owns /\ ring.raised /\ v.open /\ v.copy.raised THEN Reset(v.copy) ELSE v.copy
ReleasedList(w, v) ==
  IF view[w].owns /\ ring.raised /\ v.open /\ v.copy.raised
  THEN Newest(v.shown, DefaultLimit) ELSE v.shown

LEMMA ReleasedViewsFacts ==
  ASSUME NEW n \in Nat, Viewed(view, n), NEW w \in Views
  PROVE  /\ Viewed(ReleasedViews(w), n)
         /\ \A x \in Views : Follows(ReleasedViews(w)[x], view[x],
                                     ReleasedCopy(w, view[x]), ReleasedList(w, view[x]))
<1> DEFINE us == ReleasedViews(w)
<1>1. view \in [Views -> ViewRec] /\ \A x \in Views : ViewOk(view[x], n)
  BY DEF Viewed
<1>2. \A x \in Views : Follows(view[x], view[x], view[x].copy, view[x].shown)
  BY <1>1 DEF Follows
<1>3. CASE ~view[w].owns
  <2>1. us = view
    BY <1>3 DEF ReleasedViews
  <2>2. \A x \in Views : ReleasedCopy(w, view[x]) = view[x].copy
                         /\ ReleasedList(w, view[x]) = view[x].shown
    BY <1>3 DEF ReleasedCopy, ReleasedList
  <2> QED
    BY <1>2, <2>1, <2>2
<1>4. CASE view[w].owns
  <2> DEFINE vs == [view EXCEPT ![w].owns = FALSE]
  <2>1. us = ResetViews(vs)
    BY <1>4 DEF ReleasedViews
  <2>2. ASSUME NEW x \in Views
        PROVE  /\ vs[x] \in ViewRec /\ ViewOk(vs[x], n)
               /\ Follows(vs[x], view[x], view[x].copy, view[x].shown)
    <3>1. CASE x # w
      <4>1. vs[x] = view[x]
        BY <1>1, <3>1
      <4> QED
        BY <1>1, <1>2, <4>1
    <3>2. CASE x = w
      <4> DEFINE v == view[w]
                 u == vs[w]
      <4>1. u = [v EXCEPT !.owns = FALSE] /\ v \in ViewRec
        BY <1>1
      <4> HIDE DEF u, v
      <4>2. u \in ViewRec
        BY <4>1 DEF ViewRec
      <4>3. u.copy = v.copy /\ u.shown = v.shown
        BY <4>1 DEF ViewRec
      <4>4. u.open = v.open /\ u.exact = v.exact /\ u.cleared = v.cleared
        BY <4>1 DEF ViewRec
      <4>8. u.date = v.date /\ u.dated = v.dated
        BY <4>1 DEF ViewRec
      <4>5. Follows(u, v, v.copy, v.shown)
        BY <4>2, <4>3, <4>4, <4>8 DEF Follows
      <4>6. ViewOk(v, n)
        BY <1>1 DEF v
      <4>7. ViewOk(u, n)
        BY <4>5, <4>6, FollowsSame
      <4> QED
        BY <3>2, <4>2, <4>5, <4>7 DEF u, v
    <3> QED
      BY <3>1, <3>2
  <2>3. Viewed(vs, n)
    <3>1. vs \in [Views -> ViewRec]
      <4>1. vs = [x \in Views |-> vs[x]]
        BY <1>1
      <4> HIDE DEF vs
      <4> QED
        BY <2>2, <4>1
    <3> HIDE DEF vs
    <3> QED
      BY <2>2, <3>1 DEF Viewed
  <2> HIDE DEF vs, us
  <2>4. /\ Viewed(us, n)
        /\ \A x \in Views : us[x] = IF vs[x].open /\ ring.raised THEN OnReset(vs[x]) ELSE vs[x]
    BY <2>1, <2>3, ResetViewsFacts
  <2>5. ASSUME NEW x \in Views
        PROVE  Follows(us[x], view[x], ReleasedCopy(w, view[x]), ReleasedList(w, view[x]))
    <3> DEFINE v == view[x]
               u == vs[x]
    <3>1. ViewOk(u, n) /\ Follows(u, v, v.copy, v.shown)
      BY <2>2
    <3>2. us[x] = IF u.open /\ ring.raised THEN OnReset(u) ELSE u
      BY <2>4
    <3>3. u.copy = v.copy /\ u.shown = v.shown /\ u.open = v.open
      BY <3>1 DEF Follows
    <3> HIDE DEF u, v
    <3>4. CASE u.open /\ ring.raised /\ u.copy.raised
      <4>1. Follows(us[x], u, Reset(u.copy), Newest(u.shown, DefaultLimit))
        BY <3>1, <3>2, <3>4, OnResetFacts
      <4>2. /\ ReleasedCopy(w, v) = Reset(u.copy)
            /\ ReleasedList(w, v) = Newest(u.shown, DefaultLimit)
        BY <1>4, <3>3, <3>4 DEF ReleasedCopy, ReleasedList
      <4>3. Follows(us[x], v, ReleasedCopy(w, v), ReleasedList(w, v))
        BY <3>1, <4>1, <4>2 DEF Follows
      <4> QED
        BY <4>3 DEF v
    <3>5. CASE ~(u.open /\ ring.raised /\ u.copy.raised)
      <4>1. us[x] = u
        <5>1. CASE u.open /\ ring.raised
          BY <3>1, <3>2, <3>5, <5>1, OnResetFacts
        <5>2. CASE ~(u.open /\ ring.raised)
          BY <3>2, <5>2
        <5> QED
          BY <5>1, <5>2
      <4>2. ReleasedCopy(w, v) = v.copy /\ ReleasedList(w, v) = v.shown
        BY <3>3, <3>5 DEF ReleasedCopy, ReleasedList
      <4> QED
        BY <3>1, <4>1, <4>2 DEF v
    <3> QED
      BY <3>4, <3>5
  <2> QED
    BY <2>4, <2>5 DEF us
<1> QED
  BY <1>3, <1>4

\* Nothing is filled in when the views are not told.
LEMMA FillInNothing ==
  ASSUME NEW M, M \subseteq Nat, NEW r, RingOk(r, M), NEW s \in Seq(M), ~FillIsTold(r, s)
  PROVE  FillIn(r, s) = r
<1> DEFINE g == FillIn(r, s)
<1>1. RingOk(g, M) /\ g.limit = r.limit /\ g.raised = r.raised
  <2>1. RingOk(FillIn(r, s), M) /\ FillIn(r, s).limit = r.limit /\ FillIn(r, s).raised = r.raised
    BY FillInFacts
  <2> QED
    BY <2>1
<1>2. g \in Ring /\ r \in Ring /\ r.msgs \in Seq(M)
  BY <1>1 DEF RingOk
<1>3. g.msgs = r.msgs
  <2>1. CASE r.msgs = <<>>
    <3>1. s = <<>>
      BY <2>1 DEF FillIsTold
    <3>2. FillIn(r, s) = PushFront(r, s)
      BY <2>1 DEF FillIn
    <3>3. PushFront(r, s).msgs = Fitting(r, s) \o r.msgs /\ r.limit - Len(r.msgs) \in Nat
      BY PushFrontFacts
    <3>4. Fitting(r, s) = <<>>
      <4> DEFINE n == r.limit - Len(r.msgs)
      <4>1. Len(s) <= n
        BY <3>1, <3>3
      <4> HIDE DEF n
      <4>2. Newest(s, n) = <<>>
        BY <3>1, <4>1 DEF Newest
      <4> QED
        BY <4>2 DEF Fitting, n
    <3> QED
      BY <2>1, <3>2, <3>3, <3>4
  <2>2. CASE r.msgs # <<>>
    <3> DEFINE t == MissingIn(r, s)
               filled == Filled(r, t)
    <3>1. t = <<>>
      <4>1. CASE s # <<>>
        BY <2>2, <4>1 DEF FillIsTold
      <4>2. CASE s = <<>>
        <5>1. t \in Seq(M) /\ Range(t) = Range(s) \ Messages(r)
          BY WithoutMembers DEF MissingIn
        <5>2. Range(t) = {}
          <6>1. Range(s) = {}
            BY <4>2 DEF Range
          <6> QED
            BY <5>1, <6>1
        <5> HIDE DEF t
        <5>3. Len(t) = 0
          <6>1. SUFFICES ASSUME Len(t) # 0
                         PROVE  FALSE
            OBVIOUS
          <6>2. 1 \in DOMAIN t
            BY <5>1, <6>1
          <6> QED
            BY <5>2, <6>2 DEF Range
        <5> QED
          BY <5>1, <5>3
      <4> QED
        BY <4>1, <4>2
    <3>2. g = [r EXCEPT !.msgs = [i \in DOMAIN filled |-> filled[i].msg]]
      BY <2>2 DEF FillIn
    <3> HIDE DEF t
    <3>3. t \in Seq(M) /\ Len(t) = 0
      BY <3>1
    <3>4. PICK f \in Filling(r, t, M) : TRUE
      BY <2>2, <3>3, FilledSteps
    <3>5. filled = First(r).objs
      BY <3>3, <3>4 DEF Filling
    <3>6. filled = Snapshot(r)
      BY <3>5 DEF First
    <3>7. DOMAIN filled = DOMAIN r.msgs /\ \A i \in DOMAIN r.msgs : filled[i].msg = r.msgs[i]
      BY <3>6, SnapshotFacts
    <3> HIDE DEF filled
    <3>8. [i \in DOMAIN filled |-> filled[i].msg] = r.msgs
      <4>1. DOMAIN r.msgs = 1 .. Len(r.msgs) /\ r.msgs = [i \in DOMAIN r.msgs |-> r.msgs[i]]
        BY <1>2
      <4> QED
        BY <3>7, <4>1
    <3> QED
      BY <1>2, <3>2, <3>8 DEF Ring
  <2> QED
    BY <2>1, <2>2
<1> HIDE DEF g
<1>4. g = r
  BY <1>1, <1>2, <1>3, RingEqual
<1> QED
  BY <1>4 DEF g

\* A copy that has grown with its channel takes the next message as its channel does.
LEMMA PushAfterGrow ==
  ASSUME NEW M, NEW r, RingOk(r, M), NEW m
  PROVE  Push(Grow(r, RoomForOne(r)), m) = Push(r, m)
<1> DEFINE by == RoomForOne(r)
           h == Grow(r, by)
<1>1. by \in 0 .. 1
  BY DEF RoomForOne
<1>2. r \in Ring /\ r.limit \in Nat /\ Len(r.msgs) \in Nat /\ Len(r.msgs) <= r.limit
  BY DEF RingOk, Ring
<1>3. RoomForOne(h) = 0 \/ h = r
  <2>1. CASE by = 0
    BY <2>1 DEF Grow
  <2>2. CASE by # 0
    <3>1. by = 1 /\ by \in Nat
      BY <1>1, <2>2
    <3> HIDE DEF by
    <3>2. h.msgs = r.msgs /\ h.limit = r.limit + by
      BY <3>1, GrowFacts
    <3> HIDE DEF h
    <3>3. ~Full(h)
      BY <1>2, <3>1, <3>2 DEF Full
    <3> QED
      BY <3>3 DEF RoomForOne
  <2> QED
    BY <2>1, <2>2
<1>4. CASE h = r
  BY <1>4
<1>5. CASE RoomForOne(h) = 0
  <2>1. Grow(h, RoomForOne(h)) = h
    BY <1>5 DEF Grow
  <2>2. Push(h, m) = [h EXCEPT !.msgs = Newest(Append(@, m), h.limit)]
    BY <2>1 DEF Push
  <2>3. Push(r, m) = [h EXCEPT !.msgs = Newest(Append(@, m), h.limit)]
    BY DEF Push
  <2> QED
    BY <2>2, <2>3
<1> QED
  BY <1>3, <1>4, <1>5

-----------------------------------------------------------------------------
(* The types, and the copies of the whole channel *)

\* The types of the variables, with those of the views and of the paging.
TypeInv ==
  /\ now \in Times
  /\ link \in {"up", "silent", "down"}
  /\ lastUp \in 0 .. now
  /\ recent \in [asked: BOOLEAN, after: 0 .. now, before: 0 .. now]
  /\ RingOk(ring, 1 .. now)
  /\ Viewed(view, now)
  /\ logged \in {{}, Times}
  /\ logs \in LogsRec
  /\ logs.phase = "page" => logs.wanted # 0
  /\ events \in 0 .. MaxEvents

\* A view whose copy began as one of the whole channel is open and hides nothing.
\* Until it gets a separator it has the channel's ring: what the channel does to
\* its ring, the view does to its copy when it is told.
IsExact(v, H, r) ==
  v.exact => v.open /\ H = {} /\ (v.dated = 0 => v.copy = r)

Exact(vs, r) == \A w \in Views : IsExact(vs[w], Hidden[w], r)

CopyInv == Exact(view, ring)

HistoryInv == TypeInv /\ CopyInv

LEMMA ViewedIf ==
  ASSUME NEW n, NEW vs, vs = [w \in Views |-> vs[w]], \A w \in Views : ViewOk(vs[w], n)
  PROVE  Viewed(vs, n)
<1>1. \A w \in Views : vs[w] \in ViewRec
  BY DEF ViewOk
<1>2. vs \in [Views -> ViewRec]
  BY <1>1
<1> QED
  BY <1>2 DEF Viewed

LEMMA Numbers ==
  ASSUME TypeInv
  PROVE  /\ now \in Nat /\ now <= Last_ /\ Last_ \in Nat
         /\ Times = 1 .. Last_ /\ 1 .. now \subseteq Nat /\ 1 .. now \subseteq Times
BY DaysAreNumbers DEF TypeInv, Times

\* A message of the chat reaches the ring and every view that includes it.
LEMMA SayKeeps ==
  ASSUME HistoryInv, Say
  PROVE  HistoryInv'
<1> DEFINE by == RoomForOne(ring)
           n == now + 1
           gs == GrownViews(view, by)
           d == DateOf[n]
<1>1. TypeInv /\ Exact(view, ring)
  BY DEF HistoryInv, CopyInv
<1>2. now' = n /\ n \in Times /\ n \in Nat /\ now \in Nat /\ now <= n /\ n \in 1 .. n
  <2>1. now' = now + 1 /\ now < Last_
    BY DEF Say
  <2>2. now \in Nat /\ Last_ \in Nat /\ Times = 1 .. Last_
    BY <1>1, Numbers
  <2> QED
    BY <2>1, <2>2
<1>3. UNCHANGED <<link, lastUp, recent, logged, logs, events>>
  BY DEF Say
<1>4. RingOk(ring, 1 .. now) /\ Viewed(view, now) /\ RingOk(ring, 1 .. n)
  <2>1. 1 .. now \subseteq 1 .. n
    BY <1>2
  <2> QED
    BY <1>1, <2>1, RingOkGrows DEF TypeInv
<1>5. /\ link \in {"up", "silent", "down"} /\ lastUp \in 0 .. n
      /\ recent \in [asked: BOOLEAN, after: 0 .. n, before: 0 .. n]
      /\ logged \in {{}, Times} /\ logs \in LogsRec
      /\ (logs.phase = "page" => logs.wanted # 0)
      /\ events \in 0 .. MaxEvents
  <2>1. 0 .. now \subseteq 0 .. n
    BY <1>2
  <2> HIDE DEF n
  <2> QED
    BY <1>1, <2>1 DEF TypeInv
<1>6. RingOk(ring', 1 .. n) /\ Viewed(view', n) /\ Exact(view', ring')
  <2>1. CASE link # "up"
    <3>1. ring' = ring /\ view' = view
      BY <2>1 DEF Say
    <3>2. \A w \in Views : ViewOk(view[w], n)
      <4>1. TAKE w \in Views
      <4>2. ViewOk(view[w], now)
        BY <1>4 DEF Viewed
      <4> DEFINE v == view[w]
      <4> HIDE DEF v, n
      <4>3. ViewOk(v, n)
        BY <1>2, <4>2, ViewOkGrows DEF v
      <4> QED
        BY <4>3 DEF v
    <3>3. Viewed(view, n)
      BY <1>4, <3>2 DEF Viewed
    <3> QED
      BY <1>1, <1>4, <3>1, <3>3
  <2>2. CASE link = "up"
    <3>1. ring' = Push(ring, n)
      BY <1>2, <2>2 DEF Say
    <3>2. view' = [w \in Views |-> IF gs[w].open
                                   THEN IF n \in Hidden[w] THEN gs[w] ELSE OnAppend(gs[w], n, d)
                                   ELSE gs[w]]
      BY <1>2, <2>2 DEF Say, Each
    <3>3. by \in 0 .. 1 /\ by \in Nat
      BY DEF RoomForOne
    <3>4. RingOk(ring', 1 .. n)
      <4> HIDE DEF n
      <4>1. 1 .. n \subseteq Nat
        BY <1>2
      <4>2. RingOk(Push(ring, n), 1 .. n)
        BY <1>2, <1>4, <4>1, PushFacts
      <4> QED
        BY <3>1, <4>2
    <3>9. d \in Nat
      BY <1>2, HistoryAssumption
    <3> HIDE DEF n, by, d
    <3>5. Viewed(gs, now) /\ \A w \in Views :
            gs[w] = IF view[w].open THEN OnGrow(view[w], by) ELSE view[w]
      BY <1>2, <1>4, <3>3, GrownViewsFacts
    <3> HIDE DEF gs
    <3>6. ASSUME NEW w \in Views
          PROVE  /\ ViewOk(view'[w], n)
                 /\ IsExact(view'[w], Hidden[w], Push(ring, n))
      <4> DEFINE v == view[w]
                 g == gs[w]
                 u == view'[w]
      <4>1. ViewOk(v, now) /\ ViewOk(g, now)
        BY <1>4, <3>5 DEF Viewed
      <4>2. g = IF v.open THEN OnGrow(v, by) ELSE v
        BY <3>5
      <4>3. u = IF g.open THEN IF n \in Hidden[w] THEN g ELSE OnAppend(g, n, d) ELSE g
        BY <3>2
      <4>4. IsExact(v, Hidden[w], ring)
        BY <1>1 DEF Exact
      <4> HIDE DEF v, g, u
      <4>5. ViewOk(g, n)
        BY <1>2, <4>1, ViewOkGrows
      <4>6. LET o == OnAppend(g, n, d)
            IN  /\ ViewOk(o, n) /\ o.open = g.open /\ o.exact = g.exact
                /\ o.dated = 0 => g.dated = 0 /\ o.copy = Push(g.copy, n)
        <5>1. n \in 0 .. n
          BY <1>2
        <5> QED
          BY <1>2, <3>9, <4>5, <5>1, OnAppendFacts
      <4>7. v.open => Follows(g, v, Grow(v.copy, by), v.shown)
        BY <1>2, <3>3, <4>1, <4>2, OnGrowFacts
      <4>8. ViewOk(u, n)
        BY <4>3, <4>5, <4>6
      <4>9. ASSUME u.exact
            PROVE  u.open /\ Hidden[w] = {} /\ (u.dated = 0 => u.copy = Push(ring, n))
        <5>1. g.exact
          BY <4>3, <4>6, <4>9
        <5>2. v.exact
          BY <4>2, <4>7, <5>1 DEF Follows
        <5>3. v.open /\ Hidden[w] = {} /\ (v.dated = 0 => v.copy = ring)
          BY <4>4, <5>2 DEF IsExact
        <5>4. g.open /\ g.dated = v.dated /\ (v.dated = 0 => g.copy = Grow(ring, by))
          BY <4>7, <5>3 DEF Follows
        <5>5. u = OnAppend(g, n, d)
          BY <4>3, <5>3, <5>4
        <5>6. u.open /\ (u.dated = 0 => u.copy = Push(Grow(ring, by), n))
          BY <4>6, <5>4, <5>5
        <5>7. Push(Grow(ring, by), n) = Push(ring, n)
          BY <1>4, PushAfterGrow DEF by
        <5> QED
          BY <5>3, <5>6, <5>7
      <4> QED
        BY <4>8, <4>9 DEF u, IsExact
    <3>7. Viewed(view', n)
      <4>1. view' = [w \in Views |-> view'[w]]
        BY <3>2
      <4> DEFINE vs == view'
      <4>2. vs = [w \in Views |-> vs[w]] /\ \A w \in Views : ViewOk(vs[w], n)
        BY <3>6, <4>1
      <4> HIDE DEF vs
      <4>3. Viewed(vs, n)
        BY <4>2, ViewedIf
      <4> QED
        BY <4>3 DEF vs
    <3>8. Exact(view', ring')
      BY <3>1, <3>6 DEF Exact
    <3> QED
      BY <3>4, <3>7, <3>8
  <2> QED
    BY <2>1, <2>2 DEF Say
<1> HIDE DEF n
<1> QED
  BY <1>2, <1>3, <1>5, <1>6 DEF HistoryInv, TypeInv, CopyInv

\* The connection is lost, noticed and made again, or the missed messages could
\* not be loaded.
LEMMA LinkKeeps ==
  ASSUME HistoryInv, Lose \/ Notice \/ Rejoin \/ RecentFails
  PROVE  HistoryInv'
<1>1. TypeInv /\ Exact(view, ring) /\ now \in Nat
  BY Numbers DEF HistoryInv, CopyInv
<1>2. UNCHANGED <<now, ring, view, logged, logs>>
  BY DEF Lose, Notice, Rejoin, RecentFails
<1>3. link' \in {"up", "silent", "down"}
  BY <1>1 DEF Lose, Notice, Rejoin, RecentFails, TypeInv
<1>4. lastUp' \in 0 .. now
  BY <1>1 DEF Lose, Notice, Rejoin, RecentFails, TypeInv
<1>5. recent' \in [asked: BOOLEAN, after: 0 .. now, before: 0 .. now]
  <2>1. NoRequest \in [asked: BOOLEAN, after: 0 .. now, before: 0 .. now]
    BY <1>1 DEF NoRequest
  <2>2. [asked |-> TRUE, after |-> lastUp, before |-> now]
           \in [asked: BOOLEAN, after: 0 .. now, before: 0 .. now]
    BY <1>1 DEF TypeInv
  <2>3. recent \in [asked: BOOLEAN, after: 0 .. now, before: 0 .. now]
    BY <1>1 DEF TypeInv
  <2> QED
    BY <2>1, <2>2, <2>3 DEF Lose, Notice, Rejoin, RecentFails
<1>6. events' \in 0 .. MaxEvents
  <2>1. events \in 0 .. MaxEvents /\ MaxEvents \in Nat
    BY <1>1, HistoryAssumption DEF TypeInv
  <2> QED
    BY <2>1 DEF Lose, Notice, Rejoin, RecentFails, Eventful
<1> QED
  BY <1>1, <1>2, <1>3, <1>4, <1>5, <1>6 DEF HistoryInv, TypeInv, CopyInv

\* What was missed, in the order of the chat.
LEMMA MissedFacts ==
  ASSUME TypeInv
  PROVE  /\ Missed \in Seq(1 .. now) /\ Ascends(Missed)
         /\ Range(Missed) \subseteq 1 .. recent.before
         /\ \A x \in Range(Missed), y \in 1 .. recent.before : x <= y => y \in Range(Missed)
<1> DEFINE S == recent.after + 1 .. recent.before
<1>1. now \in Nat /\ RecentLimit \in Nat
  BY Numbers, HistoryAssumption
<1>2. recent.after \in 0 .. now /\ recent.before \in 0 .. now
  BY DEF TypeInv
<1>3. Missed = Newest(Ascending(S), RecentLimit)
  BY DEF Missed
<1>4. S \cap (1 .. now) = S /\ S \subseteq 1 .. recent.before
  BY <1>1, <1>2
<1>5. \A x \in S, y \in 1 .. recent.before : x <= y => y \in S
  BY <1>1, <1>2
<1> HIDE DEF S
<1>6. LET q == Newest(Ascending(S), RecentLimit)
      IN  /\ q \in Seq(1 .. now) /\ Ascends(q)
          /\ Range(q) \subseteq S \cap (1 .. now)
          /\ \A x \in Range(q), y \in S \cap (1 .. now) : x <= y => y \in Range(q)
  BY <1>1, NewestOfSent
<1> QED
  BY <1>3, <1>4, <1>5, <1>6

\* A view that hides nothing includes everything.
LEMMA IncludesAll ==
  ASSUME NEW A, NEW s \in Seq(A), NEW w \in Views
  PROVE  /\ Included(w, s) \in Seq(A)
         /\ Hidden[w] = {} => Included(w, s) = s
<1>1. Included(w, s) \in Seq(A)
  BY WithoutMembers DEF Included
<1>2. ASSUME Hidden[w] = {}
      PROVE  Included(w, s) = s
  <2>1. Range(s) \cap Hidden[w] = {}
    BY <1>2
  <2> QED
    BY <2>1, WithoutNothing DEF Included
<1> QED
  BY <1>1, <1>2

\* The messages that were missed are filled into the ring and into every copy.
LEMMA RecentAnswerKeeps ==
  ASSUME HistoryInv, RecentAnswer
  PROVE  HistoryInv'
<1> DEFINE s == Missed
<1>1. TypeInv /\ Exact(view, ring)
  BY DEF HistoryInv, CopyInv
<1>2. /\ now \in Nat /\ 1 .. now \subseteq Nat /\ RingOk(ring, 1 .. now) /\ Viewed(view, now)
      /\ s \in Seq(1 .. now)
  BY <1>1, Numbers, MissedFacts DEF TypeInv
<1>3. ring' = FillIn(ring, s) /\ UNCHANGED <<now, link, lastUp, logged, logs, events>>
  BY DEF RecentAnswer
<1>4. recent' \in [asked: BOOLEAN, after: 0 .. now, before: 0 .. now]
  <2>1. NoRequest \in [asked: BOOLEAN, after: 0 .. now, before: 0 .. now]
    BY <1>2 DEF NoRequest
  <2> QED
    BY <2>1 DEF RecentAnswer
<1>5. view' = IF FillIsTold(ring, s)
              THEN [w \in Views |-> IF view[w].open THEN OnFill(view[w], Included(w, s)) ELSE view[w]]
              ELSE view
  BY DEF RecentAnswer, Each
<1> HIDE DEF s
<1>6. RingOk(ring', 1 .. now)
  <2>1. RingOk(FillIn(ring, s), 1 .. now)
    BY <1>2, FillInFacts
  <2> QED
    BY <1>3, <2>1
<1>7. Viewed(view', now) /\ Exact(view', ring')
  <2>1. CASE ~FillIsTold(ring, s)
    <3>1. FillIn(ring, s) = ring
      BY <1>2, <2>1, FillInNothing
    <3> QED
      BY <1>1, <1>2, <1>3, <1>5, <2>1, <3>1
  <2>2. CASE FillIsTold(ring, s)
    <3>1. ASSUME NEW w \in Views
          PROVE  /\ ViewOk(view'[w], now)
                 /\ IsExact(view'[w], Hidden[w], ring')
      <4> DEFINE v == view[w]
                 u == view'[w]
                 q == Included(w, s)
      <4>1. ViewOk(v, now)
        BY <1>2 DEF Viewed
      <4>2. u = IF v.open THEN OnFill(v, q) ELSE v
        BY <1>5, <2>2
      <4>3. IsExact(v, Hidden[w], ring)
        BY <1>1 DEF Exact
      <4>4. q \in Seq(0 .. now) /\ (Hidden[w] = {} => q = s)
        BY <1>2, IncludesAll, WithSeparators
      <4> HIDE DEF v, u, q
      <4>5. /\ ViewOk(OnFill(v, q), now)
            /\ ~FillIsTold(v.copy, q) => OnFill(v, q) = v
            /\ FillIsTold(v.copy, q) =>
                 Follows(OnFill(v, q), v, FillIn(v.copy, q), FillIn(v.copy, q).msgs)
        BY <1>2, <4>1, <4>4, OnFillFacts
      <4>6. ViewOk(u, now)
        BY <4>1, <4>2, <4>5
      <4>7. ASSUME u.exact
            PROVE  u.open /\ Hidden[w] = {} /\ (u.dated = 0 => u.copy = ring')
        <5>1. v.exact
          BY <4>2, <4>5, <4>7 DEF Follows
        <5>2. v.open /\ Hidden[w] = {} /\ (v.dated = 0 => v.copy = ring) /\ q = s
          BY <4>3, <4>4, <5>1 DEF IsExact
        <5>3. u = OnFill(v, s) /\ u.open = v.open /\ u.dated = v.dated
          BY <4>2, <4>5, <5>2 DEF Follows
        <5>4. ASSUME u.dated = 0
              PROVE  u.copy = ring'
          <6>1. v.copy = ring
            BY <5>2, <5>3, <5>4
          <6>2. Follows(OnFill(v, s), v, FillIn(ring, s), FillIn(ring, s).msgs)
            BY <2>2, <4>5, <5>2, <6>1
          <6> QED
            BY <1>3, <5>3, <6>2 DEF Follows
        <5> QED
          BY <5>2, <5>3, <5>4
      <4> QED
        BY <4>6, <4>7 DEF u, IsExact
    <3>2. Viewed(view', now)
      <4> DEFINE vs == view'
      <4>1. vs = [w \in Views |-> vs[w]]
        BY <1>5, <2>2
      <4>2. \A w \in Views : ViewOk(vs[w], now)
        BY <3>1
      <4> HIDE DEF vs
      <4>3. Viewed(vs, now)
        BY <4>1, <4>2, ViewedIf
      <4> QED
        BY <4>3 DEF vs
    <3> QED
      BY <3>1, <3>2 DEF Exact
  <2> QED
    BY <2>1, <2>2
<1> QED
  BY <1>1, <1>3, <1>4, <1>6, <1>7 DEF HistoryInv, TypeInv, CopyInv


-----------------------------------------------------------------------------
(* The pages *)

\* A day starts with the first message that is not of an earlier day.
LEMMA StartOfFacts ==
  /\ \A d \in Nat : StartOf(d) \in Nat \ {0}
  /\ \A d, e \in Nat : d <= e => StartOf(d) <= StartOf(e)
  /\ \A t \in Times : StartOf(DayOf[t]) <= t
<1> DEFINE Earlier(d) == {t \in Times : DayOf[t] < d}
<1>1. Last_ \in Nat /\ Times = 1 .. Last_ /\ \A t \in Times : DayOf[t] \in Nat
  BY DaysAreNumbers DEF Times
<1>2. IsFiniteSet(Times)
  BY <1>1, FS_Interval
<1>3. \A d \in Nat : IsFiniteSet(Earlier(d)) /\ Cardinality(Earlier(d)) \in Nat
  <2>1. TAKE d \in Nat
  <2>2. Earlier(d) \subseteq Times
    OBVIOUS
  <2> QED
    BY <1>2, <2>2, FS_Subset, FS_CardinalityType
<1>4. \A d \in Nat : StartOf(d) \in Nat \ {0}
  BY <1>3 DEF StartOf
<1>5. \A d, e \in Nat : d <= e => StartOf(d) <= StartOf(e)
  <2>1. TAKE d, e \in Nat
  <2>2. HAVE d <= e
  <2>3. Earlier(d) \subseteq Earlier(e)
    BY <1>1, <2>2
  <2>4. Cardinality(Earlier(d)) <= Cardinality(Earlier(e))
    BY <1>3, <2>3, FS_Subset
  <2> QED
    BY <1>3, <2>4 DEF StartOf
<1>6. \A t \in Times : StartOf(DayOf[t]) <= t
  <2>1. TAKE t \in Times
  <2>2. t \in Nat /\ t >= 1 /\ DayOf[t] \in Nat
    BY <1>1
  <2>3. Earlier(DayOf[t]) \subseteq 1 .. t - 1
    <3>1. SUFFICES ASSUME NEW s \in Times, DayOf[s] < DayOf[t]
                   PROVE  s \in 1 .. t - 1
      OBVIOUS
    <3>2. ~ (t <= s)
      <4>1. t <= s => DayOf[t] <= DayOf[s]
        BY HistoryAssumption
      <4> QED
        BY <1>1, <3>1, <4>1
    <3> QED
      BY <1>1, <2>2, <3>2
  <2>4. IsFiniteSet(1 .. t - 1) /\ Cardinality(1 .. t - 1) = t - 1
    <3> DEFINE b == t - 1
    <3>1. b \in Nat
      BY <2>2
    <3> HIDE DEF b
    <3>2. IsFiniteSet(1 .. b) /\ Cardinality(1 .. b) = IF 1 > b THEN 0 ELSE b - 1 + 1
      BY <3>1, FS_Interval
    <3>3. Cardinality(1 .. b) = b
      BY <3>1, <3>2
    <3> QED
      BY <3>2, <3>3 DEF b
  <2>5. Cardinality(Earlier(DayOf[t])) <= t - 1
    BY <2>3, <2>4, FS_Subset
  <2>6. Cardinality(Earlier(DayOf[t])) \in Nat
    BY <1>3, <2>2
  <2> QED
    BY <2>2, <2>5, <2>6 DEF StartOf
<1> QED
  BY <1>4, <1>5, <1>6

\* The oldest message is one of the ring, and no message of it is older.
LEMMA OldestFacts ==
  ASSUME TypeInv
  PROVE  /\ Oldest \in 0 .. now
         /\ ring.msgs # <<>> => /\ Oldest = ring.msgs[1] /\ Oldest # None /\ Oldest \in 1 .. now
                                /\ Oldest \in Messages(ring)
                                /\ Oldest \in Times
         /\ ring.msgs = <<>> => Oldest = None
<1>1. ring.msgs \in Seq(1 .. now) /\ now \in Nat /\ 1 .. now \subseteq Times
  BY Numbers DEF TypeInv, RingOk
<1>2. ASSUME ring.msgs # <<>>
      PROVE  /\ Oldest = ring.msgs[1] /\ Oldest # None /\ Oldest \in 1 .. now
             /\ Oldest \in Messages(ring) /\ Oldest \in Times
  <2>1. 1 \in DOMAIN ring.msgs /\ ring.msgs[1] \in 1 .. now
    BY <1>1, <1>2
  <2>2. Oldest = ring.msgs[1]
    BY <1>1, <1>2 DEF Oldest
  <2>3. ring.msgs[1] \in Messages(ring)
    BY <2>1 DEF Messages, Range
  <2> QED
    BY <1>1, <2>1, <2>2, <2>3 DEF None
<1> QED
  BY <1>1, <1>2 DEF Oldest, None

\* Paging back starts over at the oldest message, or goes on where it stopped.
AnchoredAt(l, d) ==
  /\ l \in LogsRec
  /\ l.phase = logs.phase /\ l.listed = logs.listed /\ l.days = logs.days
  /\ \/ l = logs /\ logs.anchor = Oldest /\ logs.cursor.day # None
     \/ /\ l.anchor = Oldest
        /\ l.cursor.day = IF Oldest = None THEN d ELSE DayOf[Oldest]
        /\ l.cursor.before = IF Oldest = None THEN now + 1 ELSE Oldest
        /\ l.doneFrom = None /\ ~l.exhausted

LEMMA AnchoredFacts ==
  ASSUME TypeInv, NEW d \in Nat
  PROVE  AnchoredAt(Anchored(d), d)
<1>1. Oldest \in Nat /\ now \in Nat /\ logs \in LogsRec
  BY OldestFacts, Numbers DEF TypeInv
<1>2. CASE logs.anchor = Oldest /\ logs.cursor.day # None
  BY <1>1, <1>2 DEF Anchored, AnchoredAt
<1>3. CASE ~(logs.anchor = Oldest /\ logs.cursor.day # None)
  <2> DEFINE c == IF Oldest = None THEN [day |-> d, before |-> now + 1]
                  ELSE [day |-> DayOf[Oldest], before |-> Oldest]
             o == Oldest
             l == Anchored(d)
  <2>1. l = [logs EXCEPT !.anchor = o, !.cursor = c, !.doneFrom = None, !.exhausted = FALSE]
    BY <1>3 DEF Anchored
  <2>2. /\ c \in [day: Nat, before: Nat]
        /\ c.day = IF Oldest = None THEN d ELSE DayOf[Oldest]
        /\ c.before = IF Oldest = None THEN now + 1 ELSE Oldest
    <3>1. CASE Oldest = None
      BY <1>1, <3>1
    <3>2. CASE Oldest # None
      <4>1. Oldest \in Times
        BY <3>2, OldestFacts
      <4>2. DayOf[Oldest] \in Nat
        BY <4>1, DaysAreNumbers
      <4> QED
        BY <1>1, <3>2, <4>2
    <3> QED
      BY <3>1, <3>2
  <2>3. o \in Nat
    BY <1>1
  <2> HIDE DEF c, o, l
  <2>4. l \in LogsRec
    BY <1>1, <2>1, <2>2, <2>3 DEF LogsRec, None
  <2>5. l.phase = logs.phase /\ l.listed = logs.listed /\ l.days = logs.days
    BY <1>1, <2>1 DEF LogsRec
  <2>6. l.anchor = o /\ l.cursor = c
    BY <1>1, <2>1 DEF LogsRec
  <2>8. l.doneFrom = None /\ ~l.exhausted
    BY <1>1, <2>1 DEF LogsRec
  <2>7. AnchoredAt(l, d)
    BY <2>2, <2>4, <2>5, <2>6, <2>8 DEF AnchoredAt, o
  <2> QED
    BY <2>7 DEF l
<1> QED
  BY <1>2, <1>3

\* The lines of a page are messages of its day, in order, and no more than wanted.
LEMMA LinesFacts ==
  ASSUME TypeInv
  PROVE  /\ Lines \in Seq(1 .. now) /\ Ascends(Lines)
         /\ Len(Lines) <= logs.wanted
         /\ \A x \in Range(Lines) :
              /\ StartOf(logs.day) <= x
              /\ logs.day = logs.cursor.day => x < logs.cursor.before
              /\ logs.day # logs.cursor.day => x < StartOf(logs.day + 1)
         /\ Len(Lines) < logs.wanted =>
              \A x \in logged \cap (1 .. now) :
                (/\ StartOf(logs.day) <= x
                 /\ logs.day = logs.cursor.day => x < logs.cursor.before
                 /\ logs.day # logs.cursor.day => x < StartOf(logs.day + 1)) => x \in Range(Lines)
<1> DEFINE end == IF logs.day = logs.cursor.day THEN logs.cursor.before ELSE StartOf(logs.day + 1)
           S == {t \in logged : StartOf(logs.day) <= t /\ t < end}
           n == logs.wanted
<1>1. now \in Nat /\ n \in Nat
  BY Numbers DEF TypeInv, LogsRec
<1>2. Lines = Newest(Ascending(S), n)
  BY DEF Lines
<1>3. \A x \in S : StartOf(logs.day) <= x /\ x < end
  OBVIOUS
<1>6. \A x \in logged : StartOf(logs.day) <= x /\ x < end => x \in S
  OBVIOUS
<1> HIDE DEF S, n
<1>4. LET q == Newest(Ascending(S), n)
      IN  /\ q \in Seq(1 .. now) /\ Ascends(q)
          /\ Range(q) \subseteq S \cap (1 .. now)
          /\ Len(q) <= n
          /\ Len(q) < n => Range(q) = S \cap (1 .. now)
  BY <1>1, NewestOfSent
<1>5. \A x \in Range(Lines) : StartOf(logs.day) <= x /\ x < end
  BY <1>2, <1>3, <1>4
<1>7. Len(Lines) < n =>
        \A x \in logged \cap (1 .. now) : StartOf(logs.day) <= x /\ x < end => x \in Range(Lines)
  BY <1>2, <1>4, <1>6
<1> QED
  BY <1>2, <1>4, <1>5, <1>7 DEF n

\* Where the next page ends when these were the lines of this one.
LEMMA BehindFacts ==
  ASSUME TypeInv, logs.phase = "page"
  PROVE  LET l == Behind(Lines)
         IN  /\ l \in LogsRec
             /\ l.anchor = logs.anchor
             /\ l.listed = logs.listed /\ l.days = logs.days /\ l.exhausted = logs.exhausted
             /\ l.cursor.day = logs.day
             /\ \/ /\ Len(Lines) < logs.wanted
                   /\ l.cursor.before = StartOf(logs.day) /\ l.doneFrom = logs.day
                \/ /\ Lines # <<>> /\ l.cursor.before = Lines[1] /\ Lines[1] \in Range(Lines)
                   /\ l.doneFrom = logs.doneFrom
<1> DEFINE l == Behind(Lines)
           d == logs.day
           start == StartOf(d)
<1>1. logs \in LogsRec /\ d \in Nat /\ logs.wanted \in Nat \ {0}
  BY DEF TypeInv, LogsRec
<1>2. start \in Nat
  BY <1>1, StartOfFacts
<1>3. Lines \in Seq(1 .. now) /\ now \in Nat
  BY LinesFacts, Numbers
<1>4. CASE Len(Lines) < logs.wanted
  <2> DEFINE c == [day |-> d, before |-> start]
  <2>1. c \in [day: Nat, before: Nat] /\ c.day = d /\ c.before = start
    BY <1>1, <1>2
  <2>2. l = [logs EXCEPT !.doneFrom = d, !.cursor = c]
    BY <1>4 DEF Behind
  <2> HIDE DEF l, c
  <2>3. l \in LogsRec
    BY <1>1, <2>1, <2>2 DEF LogsRec
  <2>4. l.anchor = logs.anchor /\ l.cursor = c /\ l.doneFrom = d
    BY <1>1, <2>2 DEF LogsRec
  <2>5. l.listed = logs.listed /\ l.days = logs.days /\ l.exhausted = logs.exhausted
    BY <1>1, <2>2 DEF LogsRec
  <2> QED
    BY <1>4, <2>1, <2>3, <2>4, <2>5 DEF l
<1>5. CASE ~(Len(Lines) < logs.wanted)
  <2> DEFINE h == Lines[1]
             c == [day |-> d, before |-> h]
  <2>1. Len(Lines) \in Nat \ {0}
    BY <1>1, <1>3, <1>5
  <2>2. Lines # <<>> /\ h \in 1 .. now /\ h \in Nat /\ h \in Range(Lines) /\ Head(Lines) = h
    <3>1. 1 \in DOMAIN Lines /\ Lines # <<>>
      BY <1>3, <2>1
    <3> QED
      BY <1>3, <3>1 DEF Range
  <2>3. c \in [day: Nat, before: Nat] /\ c.day = d /\ c.before = h
    BY <1>1, <2>2
  <2>4. l = [logs EXCEPT !.cursor = c]
    BY <1>5, <2>2 DEF Behind
  <2> HIDE DEF l, c
  <2>5. l \in LogsRec
    BY <1>1, <2>3, <2>4 DEF LogsRec
  <2>6. l.anchor = logs.anchor /\ l.cursor = c /\ l.doneFrom = logs.doneFrom
    BY <1>1, <2>4 DEF LogsRec
  <2>7. l.listed = logs.listed /\ l.days = logs.days /\ l.exhausted = logs.exhausted
    BY <1>1, <2>4 DEF LogsRec
  <2> QED
    BY <2>2, <2>3, <2>5, <2>6, <2>7 DEF l
<1> QED
  BY <1>4, <1>5

\* The lines that the ring lacks.
LEMMA BuiltFacts ==
  ASSUME TypeInv
  PROVE  /\ Built \in Seq(1 .. now) /\ Ascends(Built)
         /\ Range(Built) = Range(Lines) \ Messages(ring)
<1> DEFINE s == Lines
           S == Messages(ring)
<1>1. s \in Seq(1 .. now) /\ Ascends(s) /\ 1 .. now \subseteq Nat
  BY LinesFacts, Numbers
<1>2. s \in Seq(Nat)
  BY <1>1, SeqMonotonic
<1>3. Built = Without(s, S)
  BY DEF Built, MissingIn
<1> HIDE DEF s, S
<1>4. Without(s, S) \in Seq(1 .. now) /\ Range(Without(s, S)) = Range(s) \ S
  BY <1>1, WithoutMembers
<1>5. Ascends(Without(s, S))
  BY <1>1, <1>2, WithoutAscends
<1> QED
  BY <1>3, <1>4, <1>5 DEF s, S

\* By how much the ring grows for a page.
PageRoom == Max({0, Len(Built) - (ring.limit - Len(ring.msgs))})

\* What a page does to the paging: it goes on behind the lines of the page, and
\* takes the oldest of the new ones for the oldest of the channel.
PagedBy(l) ==
  /\ l \in LogsRec
  /\ l.phase \in {"idle", "page"}
  /\ l.phase = "page" => l.wanted # 0 /\ l.day # None /\ l.day <= l.cursor.day
  /\ l.phase = "page" => l.day = NextDay(l) /\ l.exhausted = logs.exhausted
  /\ l.exhausted => logs.exhausted \/ NextDay(l) = None
  /\ l.listed = logs.listed /\ l.days = logs.days
  /\ l.cursor = Behind(Lines).cursor /\ l.doneFrom = Behind(Lines).doneFrom
  /\ l.anchor = IF Built = <<>> THEN logs.anchor ELSE Built[1]

\* The page is put in front of the ring, all of it.
LEMMA PageFacts ==
  ASSUME TypeInv, PageAnswer
  PROVE  /\ PageRoom \in Nat
         /\ ring' = PushFront(Grow(ring, PageRoom), Built)
         /\ RingOk(ring', 1 .. now)
         /\ ring'.msgs = Built \o ring.msgs
         /\ PagedBy(logs')
         /\ view' = [w \in Views |-> IF GrownViews(view, PageRoom)[w].open
                                     THEN OnStart(GrownViews(view, PageRoom)[w], Included(w, Built))
                                     ELSE GrownViews(view, PageRoom)[w]]
         /\ UNCHANGED <<now, link, lastUp, recent, logged, events>>
<1> DEFINE by == PageRoom
           h == Grow(ring, by)
           b == Built
           q == Behind(Lines)
           l == IF b = <<>> THEN q ELSE [q EXCEPT !.anchor = Head(b)]
<1>1. /\ logs.phase = "page"
      /\ ring' = PushFront(h, b)
      /\ logs' = IF Len(b) < logs.wanted /\ logs.left > 1
                 THEN Fetch(l, logs.left - 1, logs.wanted - Len(b))
                 ELSE Idle(l)
      /\ UNCHANGED <<now, link, lastUp, recent, logged, events>>
  BY DEF PageAnswer, PageRoom
<1>2. view' = [w \in Views |-> IF GrownViews(view, PageRoom)[w].open
                               THEN OnStart(GrownViews(view, PageRoom)[w], Included(w, Built))
                               ELSE GrownViews(view, PageRoom)[w]]
  BY DEF PageAnswer, PageRoom, Each
<1>3. b \in Seq(1 .. now) /\ now \in Nat /\ 1 .. now \subseteq Nat /\ RingOk(ring, 1 .. now)
  BY BuiltFacts, Numbers DEF TypeInv
<1>4. ring.limit \in Nat /\ Len(ring.msgs) \in Nat /\ Len(b) \in Nat /\ Len(ring.msgs) <= ring.limit
  BY <1>3 DEF RingOk, Ring
<1>5. by \in Nat /\ Len(b) <= ring.limit + by - Len(ring.msgs)
  <2> DEFINE a == Len(b) - (ring.limit - Len(ring.msgs))
  <2>1. a \in Int
    BY <1>4
  <2>2. by = Max({0, a})
    BY DEF PageRoom
  <2> HIDE DEF a, by
  <2>3. by = IF a > 0 THEN a ELSE 0
    BY <2>1, <2>2, MaxWithZero
  <2>4. by \in Nat /\ a <= by
    BY <2>1, <2>3
  <2> HIDE DEF b
  <2> QED
    BY <1>4, <2>4 DEF a
<1> HIDE DEF by, b
<1>6. RingOk(h, 1 .. now) /\ h.msgs = ring.msgs /\ h.limit = ring.limit + by
  BY <1>3, <1>5, GrowFacts
<1> HIDE DEF h
<1>7. RingOk(ring', 1 .. now) /\ ring'.msgs = b \o ring.msgs
  <2>1. RingOk(PushFront(h, b), 1 .. now) /\ PushFront(h, b).msgs = Fitting(h, b) \o h.msgs
    BY <1>3, <1>6, PushFrontFacts
  <2>2. Fitting(h, b) = b
    <3> DEFINE k == h.limit - Len(h.msgs)
    <3>1. Len(b) <= k
      BY <1>4, <1>5, <1>6
    <3> HIDE DEF k
    <3>2. Newest(b, k) = b
      BY <3>1 DEF Newest
    <3> QED
      BY <3>2 DEF Fitting, k
  <2> QED
    BY <1>1, <1>6, <2>1, <2>2
<1>8. PagedBy(logs')
  <2>1. q \in LogsRec /\ q.anchor = logs.anchor
        /\ q.listed = logs.listed /\ q.days = logs.days /\ q.exhausted = logs.exhausted
    BY <1>1, BehindFacts
  <2>2. /\ l \in LogsRec /\ l.cursor = q.cursor
        /\ l.anchor = IF b = <<>> THEN logs.anchor ELSE b[1]
        /\ l.doneFrom = q.doneFrom /\ l.listed = logs.listed /\ l.days = logs.days
        /\ l.exhausted = logs.exhausted
    <3>1. CASE b = <<>>
      BY <2>1, <3>1
    <3>2. CASE b # <<>>
      <4> DEFINE a == Head(b)
      <4>1. a \in 1 .. now /\ a \in Nat /\ a = b[1]
        BY <1>3, <3>2
      <4> HIDE DEF a, q
      <4>2. [q EXCEPT !.anchor = a] \in LogsRec
        BY <2>1, <4>1 DEF LogsRec
      <4>3. [q EXCEPT !.anchor = a].anchor = a /\ [q EXCEPT !.anchor = a].cursor = q.cursor
        BY <2>1 DEF LogsRec
      <4>4. /\ [q EXCEPT !.anchor = a].doneFrom = q.doneFrom /\ [q EXCEPT !.anchor = a].listed = q.listed
            /\ [q EXCEPT !.anchor = a].days = q.days /\ [q EXCEPT !.anchor = a].exhausted = q.exhausted
        BY <2>1 DEF LogsRec
      <4>5. l = [q EXCEPT !.anchor = a]
        BY <3>2 DEF a
      <4> HIDE DEF l
      <4> QED
        BY <2>1, <3>2, <4>1, <4>2, <4>3, <4>4, <4>5
    <3> QED
      BY <3>1, <3>2
  <2>3. logs.wanted \in Nat /\ logs.left \in Nat
    BY DEF TypeInv, LogsRec
  <2> HIDE DEF l, q
  <2>4. CASE Len(b) < logs.wanted /\ logs.left > 1
    <3> DEFINE left == logs.left - 1
               wanted == logs.wanted - Len(b)
    <3>1. left \in Nat /\ wanted \in Nat \ {0}
      BY <1>4, <2>3, <2>4
    <3>2. logs' = Fetch(l, left, wanted)
      BY <1>1, <2>4
    <3> HIDE DEF left, wanted
    <3>3. Fetched(l, left, wanted, logs')
      BY <2>2, <3>1, <3>2, FetchFacts
    <3>4. NextDay(logs') = NextDay(l)
      BY <3>3, NextDaySame DEF Fetched
    <3>5. /\ logs' \in LogsRec /\ logs'.phase \in {"idle", "page"}
          /\ logs'.phase = "page" => /\ logs'.wanted # 0 /\ logs'.day # None
                                     /\ logs'.day <= logs'.cursor.day
                                     /\ logs'.day = NextDay(logs') /\ logs'.exhausted = l.exhausted
          /\ logs'.exhausted => l.exhausted \/ NextDay(logs') = None
      BY <3>1, <3>3, <3>4 DEF Fetched
    <3>6. SameLogs(logs', l)
      BY <3>3 DEF Fetched
    <3> QED
      BY <2>2, <3>5, <3>6 DEF SameLogs, PagedBy, b, q
  <2>5. CASE ~(Len(b) < logs.wanted /\ logs.left > 1)
    <3>1. logs' = Idle(l)
      BY <1>1, <2>5
    <3>2. logs' \in LogsRec /\ logs'.phase = "idle" /\ SameLogs(logs', l)
          /\ logs'.exhausted = l.exhausted
      BY <2>2, <3>1, IdleFacts
    <3>3. /\ logs'.cursor = l.cursor /\ logs'.anchor = l.anchor /\ logs'.doneFrom = l.doneFrom
          /\ logs'.listed = l.listed /\ logs'.days = l.days
      BY <3>2 DEF SameLogs
    <3>4. logs'.phase # "page"
      BY <3>2
    <3> QED
      BY <2>2, <3>2, <3>3, <3>4 DEF PagedBy, b, q
  <2> QED
    BY <2>4, <2>5
<1> QED
  BY <1>1, <1>2, <1>5, <1>7, <1>8 DEF h, b, by


\* A page reaches the ring and every view.
LEMMA PageAnswerKeeps ==
  ASSUME HistoryInv, PageAnswer
  PROVE  HistoryInv'
<1> DEFINE by == PageRoom
           b  == Built
           gs == GrownViews(view, by)
<1>1. TypeInv /\ Exact(view, ring)
  BY DEF HistoryInv, CopyInv
<1>2. /\ by \in Nat
      /\ ring' = PushFront(Grow(ring, by), b)
      /\ RingOk(ring', 1 .. now)
      /\ PagedBy(logs')
      /\ UNCHANGED <<now, link, lastUp, recent, logged, events>>
  BY <1>1, PageFacts
<1>3. view' = [w \in Views |-> IF gs[w].open THEN OnStart(gs[w], Included(w, b)) ELSE gs[w]]
  BY <1>1, PageFacts
<1>4. now \in Nat /\ b \in Seq(1 .. now) /\ Viewed(view, now)
  BY <1>1, Numbers, BuiltFacts DEF TypeInv
<1> HIDE DEF by, b
<1>5. Viewed(gs, now) /\ \A w \in Views :
        gs[w] = IF view[w].open THEN OnGrow(view[w], by) ELSE view[w]
  BY <1>2, <1>4, GrownViewsFacts
<1> HIDE DEF gs
<1>6. ASSUME NEW w \in Views
      PROVE  /\ ViewOk(view'[w], now)
             /\ IsExact(view'[w], Hidden[w], ring')
  <2> DEFINE v == view[w]
             g == gs[w]
             u == view'[w]
             q == Included(w, b)
  <2>1. ViewOk(v, now) /\ ViewOk(g, now)
    BY <1>4, <1>5 DEF Viewed
  <2>2. g = IF v.open THEN OnGrow(v, by) ELSE v
    BY <1>5
  <2>3. u = IF g.open THEN OnStart(g, q) ELSE g
    BY <1>3
  <2>4. IsExact(v, Hidden[w], ring)
    BY <1>1 DEF Exact
  <2>5. q \in Seq(0 .. now) /\ (Hidden[w] = {} => q = b)
    BY <1>4, IncludesAll, WithSeparators
  <2> HIDE DEF v, g, u, q
  <2>6. /\ ViewOk(OnStart(g, q), now)
        /\ Follows(OnStart(g, q), g, PushFront(g.copy, q),
                   Newest(Fitting(g.copy, q), g.copy.limit - Len(g.shown)) \o g.shown)
    BY <1>4, <2>1, <2>5, OnStartFacts
  <2>7. v.open => Follows(g, v, Grow(v.copy, by), v.shown)
    BY <1>2, <1>4, <2>1, <2>2, OnGrowFacts
  <2>8. ViewOk(u, now)
    BY <2>1, <2>3, <2>6
  <2>9. ASSUME u.exact
        PROVE  u.open /\ Hidden[w] = {} /\ (u.dated = 0 => u.copy = ring')
    <3>1. g.exact
      BY <2>3, <2>6, <2>9 DEF Follows
    <3>2. v.exact
      BY <2>2, <2>7, <3>1 DEF Follows
    <3>3. v.open /\ Hidden[w] = {} /\ (v.dated = 0 => v.copy = ring) /\ q = b
      BY <2>4, <2>5, <3>2 DEF IsExact
    <3>4. g.open /\ g.dated = v.dated /\ (v.dated = 0 => g.copy = Grow(ring, by))
      BY <2>7, <3>3 DEF Follows
    <3>5. u = OnStart(g, b)
      BY <2>3, <3>3, <3>4
    <3> QED
      BY <1>2, <2>6, <3>3, <3>4, <3>5 DEF Follows
  <2> QED
    BY <2>8, <2>9 DEF u, IsExact
<1>7. Viewed(view', now)
  <2> DEFINE vs == view'
  <2>1. vs = [w \in Views |-> vs[w]]
    BY <1>3
  <2>2. \A w \in Views : ViewOk(vs[w], now)
    BY <1>6
  <2> HIDE DEF vs
  <2>3. Viewed(vs, now)
    BY <2>1, <2>2, ViewedIf
  <2> QED
    BY <2>3 DEF vs
<1>8. Exact(view', ring')
  BY <1>6 DEF Exact
<1> QED
  BY <1>1, <1>2, <1>7, <1>8 DEF HistoryInv, TypeInv, CopyInv, PagedBy

\* What a request does to the paging: it starts where the oldest message is, and
\* asks for the list of days or for a page of one of them.
Asks(l, k) ==
  /\ k \in LogsRec
  /\ SameLogs(k, l)
  /\ k.phase = "page" => /\ k.wanted # 0 /\ k.day # None /\ k.day <= k.cursor.day
                         /\ k.day = NextDay(k) /\ k.listed /\ ~k.exhausted
  /\ k.phase = "list" => ~k.listed /\ ~k.exhausted
  /\ k.exhausted => l.exhausted \/ (k.listed /\ NextDay(k) = None)

\* The paging is about to begin, or at its end.
LEMMA LoadOlderFacts ==
  ASSUME TypeInv, NEW w \in Views, NEW asking, LoadOlder(w, asking)
  PROVE  /\ logs.phase = "idle" /\ ~recent.asked
         /\ \E d \in Nat \ {0}, l \in LogsRec :
              StartOf(d) <= now + 1 /\ DayOf[now] <= d /\ AnchoredAt(l, d) /\ Asks(l, logs')
         /\ view' = view \/ view' = [view EXCEPT ![w] = asking]
         /\ UNCHANGED <<now, link, lastUp, recent, ring, logged, events>>
<1>1. PICK d \in Current(DayOf) : LET l == Anchored(d)
         IN  /\ logs' = IF l.exhausted THEN l
                        ELSE IF l.listed THEN Fetch(l, Pages, PageSize)
                        ELSE [l EXCEPT !.phase = "list"]
             /\ view' = IF l.exhausted THEN view ELSE [view EXCEPT ![w] = asking]
  BY DEF LoadOlder
<1>2. d \in Nat \ {0} /\ StartOf(d) <= now + 1 /\ DayOf[now] <= d
  <2>1. now \in Nat /\ now \in Times /\ (now < Last_ => now + 1 \in Times)
    BY Numbers DEF TypeInv, Times
  <2>2. PICK t \in Times : d = DayOf[t] /\ t <= now + 1 /\ now <= t
    BY <2>1 DEF Current
  <2>3. t \in Nat /\ DayOf[t] \in Nat \ {0}
    BY DaysAreNumbers DEF Times
  <2>4. StartOf(DayOf[t]) <= t /\ StartOf(DayOf[t]) \in Nat
    BY <2>3, StartOfFacts
  <2>5. DayOf[now] <= DayOf[t]
    BY <2>1, <2>2, HistoryAssumption
  <2> QED
    BY <2>1, <2>2, <2>3, <2>4, <2>5
<1> DEFINE l == Anchored(d)
<1>3. logs.phase = "idle" /\ ~recent.asked /\ UNCHANGED <<now, link, lastUp, recent, ring, logged, events>>
  BY DEF LoadOlder
<1>4. AnchoredAt(l, d) /\ l \in LogsRec /\ l.phase = "idle"
  <2>1. AnchoredAt(l, d)
    BY <1>2, AnchoredFacts
  <2> HIDE DEF l
  <2> QED
    BY <1>3, <2>1 DEF AnchoredAt
<1>5. /\ logs' = IF l.exhausted THEN l
                 ELSE IF l.listed THEN Fetch(l, Pages, PageSize) ELSE [l EXCEPT !.phase = "list"]
      /\ view' = view \/ view' = [view EXCEPT ![w] = asking]
  BY <1>1
<1> HIDE DEF l
<1>6. Asks(l, logs')
  <2>1. CASE logs' = l /\ l.exhausted
    BY <1>4, <2>1 DEF Asks, SameLogs
  <2>2. CASE logs' = Fetch(l, Pages, PageSize) /\ ~l.exhausted /\ l.listed
    <3>1. Pages \in Nat /\ PageSize \in Nat \ {0}
      BY HistoryAssumption
    <3>2. Fetched(l, Pages, PageSize, logs')
      BY <1>4, <2>2, <3>1, FetchFacts
    <3>3. logs' \in LogsRec /\ SameLogs(logs', l) /\ logs'.listed
      BY <2>2, <3>2 DEF Fetched, SameLogs
    <3>4. NextDay(logs') = NextDay(l)
      BY <3>3, NextDaySame
    <3>5. logs'.phase = "page" =>
            /\ logs'.wanted # 0 /\ logs'.day # None /\ logs'.day <= logs'.cursor.day
            /\ logs'.day = NextDay(logs') /\ ~logs'.exhausted
      BY <2>2, <3>1, <3>2, <3>4 DEF Fetched
    <3>6. logs'.phase # "list" /\ (logs'.exhausted => NextDay(logs') = None)
      BY <2>2, <3>2, <3>4 DEF Fetched
    <3> QED
      BY <3>3, <3>5, <3>6 DEF Asks
  <2>3. CASE logs' = [l EXCEPT !.phase = "list"] /\ ~l.exhausted /\ ~l.listed
    <3>1. logs' \in LogsRec
      BY <1>4, <2>3 DEF LogsRec
    <3>2. logs'.phase = "list" /\ SameLogs(logs', l) /\ ~logs'.exhausted /\ ~logs'.listed
      BY <1>4, <2>3 DEF LogsRec, SameLogs
    <3> QED
      BY <3>1, <3>2 DEF Asks
  <2> QED
    BY <1>5, <2>1, <2>2, <2>3
<1> QED
  BY <1>2, <1>3, <1>4, <1>5, <1>6

\* Older messages are asked for, for a view.
LEMMA LoadOlderKeeps ==
  ASSUME HistoryInv, NEW w \in Views, ScrollToTop(w) \/ ChatFits(w)
  PROVE  HistoryInv'
<1>1. TypeInv /\ Exact(view, ring)
  BY DEF HistoryInv, CopyInv
<1> DEFINE v == view[w]
           a == [v EXCEPT !.owns = TRUE]
           b == [v EXCEPT !.fitted = TRUE]
<1>2. PICK u \in {a, b} : LoadOlder(w, u)
  BY DEF ScrollToTop, ChatFits
<1>3. /\ logs' \in LogsRec /\ (logs'.phase = "page" => logs'.wanted # 0)
      /\ view' = view \/ view' = [view EXCEPT ![w] = u]
      /\ UNCHANGED <<now, link, lastUp, recent, ring, logged, events>>
  <2> HIDE DEF a, b
  <2>1. /\ \E d \in Nat \ {0}, l \in LogsRec :
             StartOf(d) <= now + 1 /\ DayOf[now] <= d /\ AnchoredAt(l, d) /\ Asks(l, logs')
        /\ view' = view \/ view' = [view EXCEPT ![w] = u]
        /\ UNCHANGED <<now, link, lastUp, recent, ring, logged, events>>
    BY <1>1, <1>2, LoadOlderFacts
  <2> QED
    BY <2>1 DEF Asks
<1>4. Viewed(view, now) /\ ViewOk(v, now)
  BY <1>1 DEF TypeInv, Viewed
<1>5. Follows(u, v, v.copy, v.shown) /\ ViewOk(u, now)
  <2> HIDE DEF v
  <2>1. v \in ViewRec
    BY <1>4 DEF ViewOk
  <2>2. u \in ViewRec
    BY <2>1 DEF ViewRec
  <2>3. u.copy = v.copy /\ u.shown = v.shown
    BY <2>1 DEF ViewRec
  <2>4. u.open = v.open /\ u.exact = v.exact /\ u.cleared = v.cleared
    BY <2>1 DEF ViewRec
  <2>6. u.date = v.date /\ u.dated = v.dated
    BY <2>1 DEF ViewRec
  <2>5. Follows(u, v, v.copy, v.shown)
    BY <2>2, <2>3, <2>4, <2>6 DEF Follows
  <2> HIDE DEF a, b
  <2> QED
    BY <1>4, <2>5, FollowsSame
<1>6. Viewed(view', now) /\ Exact(view', ring)
  <2>1. CASE view' = view
    BY <1>1, <1>4, <2>1
  <2>2. CASE view' = [view EXCEPT ![w] = u]
    <3> HIDE DEF v, a, b
    <3>1. u \in ViewRec
      BY <1>5 DEF Follows
    <3>2. view' \in [Views -> ViewRec] /\ \A x \in Views : view'[x] = IF x = w THEN u ELSE view[x]
      BY <1>4, <2>2, <3>1 DEF Viewed
    <3>3. \A x \in Views : ViewOk(view'[x], now)
      BY <1>4, <1>5, <3>2 DEF Viewed
    <3>4. Exact(view', ring)
      BY <1>1, <1>5, <3>2 DEF Exact, IsExact, Follows, v
    <3> QED
      BY <3>2, <3>3, <3>4 DEF Viewed
  <2> QED
    BY <1>3, <2>1, <2>2
<1> QED
  BY <1>1, <1>3, <1>6 DEF HistoryInv, TypeInv, CopyInv

\* The list of days is there: what it makes of the paging.
LEMMA ListFacts ==
  ASSUME TypeInv, ListAnswer \/ ListNotFound \/ RequestFails
  PROVE  /\ logs' \in LogsRec
         /\ logs'.cursor = logs.cursor /\ logs'.anchor = logs.anchor
         /\ logs'.phase = "page" => /\ logs.phase = "list"
                                    /\ logs'.wanted # 0
                                    /\ logs'.day # None /\ logs'.day <= logs'.cursor.day
         /\ logs'.phase # "list"
         /\ UNCHANGED <<now, link, lastUp, recent, ring, view, logged, events>>
<1>1. logs \in LogsRec /\ now \in Nat /\ 1 .. now \subseteq Times
  BY Numbers DEF TypeInv
<1>2. CASE ListAnswer
  <2> DEFINE days == {DayOf[t] : t \in logged \cap 1 .. now}
             l == [logs EXCEPT !.listed = TRUE, !.days = days]
  <2>1. /\ logs' = Fetch(l, Pages, PageSize) /\ logs.phase = "list"
        /\ UNCHANGED <<now, link, lastUp, recent, ring, view, logged, events>>
    BY <1>2 DEF ListAnswer
  <2>2. days \subseteq Days
    BY <1>1, DaysAreNumbers
  <2> HIDE DEF days
  <2>3. l \in LogsRec
    BY <1>1, <2>2 DEF LogsRec
  <2>4. l.cursor = logs.cursor /\ l.anchor = logs.anchor
    BY <1>1 DEF LogsRec
  <2>5. Pages \in Nat /\ PageSize \in Nat \ {0}
    BY HistoryAssumption
  <2> HIDE DEF l
  <2>6. Fetched(l, Pages, PageSize, logs')
    BY <2>1, <2>3, <2>5, FetchFacts
  <2> QED
    BY <2>1, <2>4, <2>5, <2>6 DEF Fetched, SameLogs
<1>3. CASE ListNotFound
  <2> DEFINE i == Idle(logs)
  <2>1. /\ logs' = [i EXCEPT !.listed = TRUE, !.exhausted = TRUE]
        /\ UNCHANGED <<now, link, lastUp, recent, ring, view, logged, events>>
    BY <1>3 DEF ListNotFound
  <2>2. i \in LogsRec /\ i.phase = "idle" /\ i.cursor = logs.cursor /\ i.anchor = logs.anchor
    BY <1>1, IdleFacts DEF SameLogs
  <2> HIDE DEF i
  <2>3. logs' \in LogsRec
    BY <2>1, <2>2 DEF LogsRec
  <2>4. logs'.phase = "idle" /\ logs'.cursor = i.cursor /\ logs'.anchor = i.anchor
    BY <2>1, <2>2 DEF LogsRec
  <2> QED
    BY <2>1, <2>2, <2>3, <2>4
<1>4. CASE RequestFails
  <2>1. logs' = Idle(logs) /\ UNCHANGED <<now, link, lastUp, recent, ring, view, logged, events>>
    BY <1>4 DEF RequestFails
  <2>2. Idle(logs) \in LogsRec /\ Idle(logs).phase = "idle"
        /\ Idle(logs).cursor = logs.cursor /\ Idle(logs).anchor = logs.anchor
    BY <1>1, IdleFacts DEF SameLogs
  <2> QED
    BY <2>1, <2>2
<1> QED
  BY <1>2, <1>3, <1>4

\* The list of days is there or not, or a request fails.
LEMMA ListKeeps ==
  ASSUME HistoryInv, ListAnswer \/ ListNotFound \/ RequestFails
  PROVE  HistoryInv'
<1>1. TypeInv /\ Exact(view, ring)
  BY DEF HistoryInv, CopyInv
<1>2. /\ logs' \in LogsRec /\ (logs'.phase = "page" => logs'.wanted # 0)
      /\ UNCHANGED <<now, link, lastUp, recent, ring, view, logged, events>>
  BY <1>1, ListFacts
<1> QED
  BY <1>1, <1>2 DEF HistoryInv, TypeInv, CopyInv

\* The raised limit is given back: the copies of the whole channel go along.
LEMMA ReleasedKeeps ==
  ASSUME HistoryInv, NEW w \in Views
  PROVE  /\ now \in Nat /\ 1 .. now \subseteq Nat
         /\ RingOk(ReleasedRing(w), 1 .. now)
         /\ Viewed(ReleasedViews(w), now)
         /\ Exact(ReleasedViews(w), ReleasedRing(w))
<1> DEFINE r == ReleasedRing(w)
           vs == ReleasedViews(w)
<1>1. TypeInv /\ Exact(view, ring)
  BY DEF HistoryInv, CopyInv
<1>2. now \in Nat /\ 1 .. now \subseteq Nat /\ RingOk(ring, 1 .. now) /\ Viewed(view, now)
  BY <1>1, Numbers DEF TypeInv
<1>3. RingOk(r, 1 .. now)
  <2>1. RingOk(Reset(ring), 1 .. now)
    BY <1>2, ResetFacts
  <2> QED
    BY <1>2, <2>1 DEF ReleasedRing
<1>4. /\ Viewed(vs, now)
      /\ \A x \in Views : Follows(vs[x], view[x], ReleasedCopy(w, view[x]), ReleasedList(w, view[x]))
  BY <1>2, ReleasedViewsFacts
<1> HIDE DEF vs
<1>5. Exact(vs, r)
  <2>1. SUFFICES ASSUME NEW x \in Views, vs[x].exact
                 PROVE  vs[x].open /\ Hidden[x] = {} /\ (vs[x].dated = 0 => vs[x].copy = r)
    BY DEF Exact, IsExact
  <2>2. /\ vs[x].copy = ReleasedCopy(w, view[x]) /\ vs[x].open = view[x].open
        /\ view[x].exact /\ vs[x].dated = view[x].dated
    BY <1>4, <2>1 DEF Follows
  <2>3. view[x].open /\ Hidden[x] = {} /\ (view[x].dated = 0 => view[x].copy = ring)
    BY <1>1, <2>2 DEF Exact, IsExact
  <2>4. view[x].dated = 0 => ReleasedCopy(w, view[x]) = r
    BY <2>3 DEF ReleasedCopy, ReleasedRing, Reset
  <2> QED
    BY <2>2, <2>3, <2>4
<1> QED
  BY <1>2, <1>3, <1>4, <1>5 DEF vs

\* A view that is opened on the channel takes the whole of it, or is not exact.
LEMMA OpenedExact ==
  ASSUME NEW n \in Nat, NEW w \in Views, NEW r, RingOk(r, 1 .. n), NEW d \in Nat,
         Opened(w, r, d).exact
  PROVE  Opened(w, r, d).open /\ Hidden[w] = {} /\ Opened(w, r, d).copy = r
<1> DEFINE msgs == Newest(Included(w, r.msgs), DefaultLimit)
           c == [msgs |-> msgs, limit |-> DefaultLimit, raised |-> FALSE]
           v == Opened(w, r, d)
<1>1. /\ v = [open |-> TRUE, copy |-> c, date |-> d, shown |-> msgs, owns |-> FALSE, fitted |-> FALSE,
              exact |-> (~r.raised /\ Hidden[w] = {}), cleared |-> FALSE, dated |-> 0]
      /\ msgs \in Seq(1 .. n)
  BY OpenedFacts
<1>2. r \in Ring /\ r.msgs \in Seq(1 .. n) /\ Len(r.msgs) <= r.limit /\ (~r.raised => r.limit = DefaultLimit)
  BY DEF RingOk
<1>3. v.open /\ v.copy = c /\ ~r.raised /\ Hidden[w] = {}
  <2> DEFINE e == ~r.raised /\ Hidden[w] = {}
  <2>1. v.exact
    OBVIOUS
  <2> HIDE DEF msgs, c, e, v
  <2>2. v = [open |-> TRUE, copy |-> c, date |-> d, shown |-> msgs, owns |-> FALSE, fitted |-> FALSE,
             exact |-> e, cleared |-> FALSE, dated |-> 0]
    BY <1>1 DEF e
  <2>3. v.open /\ v.copy = c
    BY <2>2
  <2>4. v.exact = e
    BY <2>2
  <2> QED
    BY <2>1, <2>3, <2>4 DEF e
<1> HIDE DEF msgs
<1>4. msgs = r.msgs
  <2>1. Included(w, r.msgs) = r.msgs
    BY <1>2, <1>3, IncludesAll
  <2> QED
    BY <1>2, <1>3, <2>1 DEF msgs, Newest
<1>5. c \in Ring
  <2>1. r.msgs \in Seq(Nat)
    BY <1>2 DEF Ring
  <2> QED
    BY <1>4, <2>1, LimitAssumption DEF Ring
<1>6. c = r
  <2>1. c.msgs = r.msgs /\ c.limit = r.limit /\ c.raised = r.raised
    BY <1>2, <1>3, <1>4 DEF Ring
  <2> HIDE DEF c
  <2> QED
    BY <1>2, <1>5, <2>1, RingEqual
<1> QED
  BY <1>3, <1>6

\* A date is a number.
LEMMA Dates ==
  ASSUME TypeInv, NEW d \in Current(DateOf)
  PROVE  d \in Nat
<1>1. now \in Nat /\ now \in Times /\ (now < Last_ => now + 1 \in Times)
  BY Numbers DEF TypeInv, Times
<1>2. PICK t \in Times : d = DateOf[t]
  BY <1>1 DEF Current
<1> QED
  BY <1>2, HistoryAssumption

\* The limit is released, a view is opened or closed.
LEMMA ReleaseKeeps ==
  ASSUME HistoryInv, NEW w \in Views, ScrollToBottom(w) \/ Open(w) \/ Close(w)
  PROVE  HistoryInv'
<1> DEFINE vs == ReleasedViews(w)
<1>1. TypeInv
  BY DEF HistoryInv
<1>2. /\ now \in Nat /\ 1 .. now \subseteq Nat
      /\ RingOk(ReleasedRing(w), 1 .. now)
      /\ Viewed(vs, now)
      /\ Exact(vs, ReleasedRing(w))
  BY ReleasedKeeps
<1>3. /\ ring' = ReleasedRing(w)
      /\ UNCHANGED <<now, link, lastUp, recent, logged, logs>>
      /\ \/ view' = vs
         \/ \E d \in Current(DateOf) : view' = [vs EXCEPT ![w] = Opened(w, ring', d)]
         \/ view' = [vs EXCEPT ![w] = ClosedView]
  BY DEF ScrollToBottom, Open, Close
<1>4. events' \in 0 .. MaxEvents
  <2>1. events \in 0 .. MaxEvents /\ MaxEvents \in Nat
    BY <1>1, HistoryAssumption DEF TypeInv
  <2> QED
    BY <2>1 DEF ScrollToBottom, Open, Close, Eventful
<1>5. RingOk(ring', 1 .. now)
  BY <1>2, <1>3
<1> HIDE DEF vs
<1>6. ASSUME NEW u, view' = [vs EXCEPT ![w] = u], ViewOk(u, now),
             IsExact(u, Hidden[w], ring')
      PROVE  Viewed(view', now) /\ Exact(view', ring')
  <2>1. u \in ViewRec /\ vs \in [Views -> ViewRec]
    BY <1>2, <1>6 DEF ViewOk, Viewed
  <2>2. view' \in [Views -> ViewRec] /\ \A x \in Views : view'[x] = IF x = w THEN u ELSE vs[x]
    BY <1>6, <2>1
  <2>3. \A x \in Views : ViewOk(view'[x], now)
    BY <1>2, <1>6, <2>2 DEF Viewed
  <2>4. Exact(view', ring')
    BY <1>2, <1>3, <1>6, <2>2 DEF Exact
  <2> QED
    BY <2>2, <2>3, <2>4 DEF Viewed
<1>7. Viewed(view', now) /\ Exact(view', ring')
  <2>1. CASE view' = vs
    BY <1>2, <1>3, <2>1
  <2>2. CASE \E d \in Current(DateOf) : view' = [vs EXCEPT ![w] = Opened(w, ring', d)]
    <3>6. PICK d \in Current(DateOf) : view' = [vs EXCEPT ![w] = Opened(w, ring', d)]
      BY <2>2
    <3>7. d \in Nat
      BY <1>1, Dates
    <3> DEFINE r == ring'
               u == Opened(w, r, d)
    <3>1. RingOk(r, 1 .. now)
      BY <1>5
    <3> HIDE DEF r
    <3>2. ViewOk(Opened(w, r, d), now)
      BY <1>2, <3>1, <3>7, OpenedFacts
    <3>3. Opened(w, r, d).exact =>
            Opened(w, r, d).open /\ Hidden[w] = {} /\ Opened(w, r, d).copy = r
      BY <1>2, <3>1, <3>7, OpenedExact
    <3>4. ViewOk(u, now) /\ IsExact(u, Hidden[w], r)
      BY <3>2, <3>3 DEF IsExact
    <3>5. view' = [vs EXCEPT ![w] = u]
      BY <3>6 DEF r
    <3> HIDE DEF u
    <3> QED
      BY <1>6, <3>4, <3>5 DEF r
  <2>3. CASE view' = [vs EXCEPT ![w] = ClosedView]
    <3>1. ViewOk(ClosedView, now) /\ IsExact(ClosedView, Hidden[w], ring')
      BY <1>2, ClosedFacts DEF IsExact
    <3> QED
      BY <1>6, <2>3, <3>1
  <2> QED
    BY <1>3, <2>1, <2>2, <2>3
<1> QED
  BY <1>1, <1>3, <1>4, <1>5, <1>7 DEF HistoryInv, TypeInv, CopyInv

\* The channel is cleared.
LEMMA ClearKeeps ==
  ASSUME HistoryInv, Clear
  PROVE  HistoryInv'
<1> DEFINE vs == ResetViews(view)
<1>1. TypeInv /\ Exact(view, ring)
  BY DEF HistoryInv, CopyInv
<1>2. now \in Nat /\ 1 .. now \subseteq Nat /\ RingOk(ring, 1 .. now) /\ Viewed(view, now)
  BY <1>1, Numbers DEF TypeInv
<1>3. /\ ring' = [Reset(ring) EXCEPT !.msgs = <<>>]
      /\ view' = [w \in Views |-> IF vs[w].open THEN OnClear(vs[w]) ELSE vs[w]]
      /\ UNCHANGED <<now, link, lastUp, recent, logged, logs>>
  BY DEF Clear, Each
<1>4. events' \in 0 .. MaxEvents
  <2>1. events \in 0 .. MaxEvents /\ MaxEvents \in Nat
    BY <1>1, HistoryAssumption DEF TypeInv
  <2>2. Eventful
    BY DEF Clear
  <2> QED
    BY <2>1, <2>2 DEF Eventful
<1>5. RingOk(ring', 1 .. now)
  <2> DEFINE r == Reset(ring)
             g == ring'
             q == <<>>
  <2>1. RingOk(Reset(ring), 1 .. now)
    BY <1>2, ResetFacts
  <2>2. RingOk(r, 1 .. now) /\ g = [r EXCEPT !.msgs = q]
    BY <1>3, <2>1
  <2>3. q \in Seq(1 .. now) /\ Len(q) <= r.limit
    BY <2>2 DEF RingOk, Ring
  <2> HIDE DEF r, g, q
  <2>4. RingOk(g, 1 .. now)
    BY <1>2, <2>2, <2>3, WithMessages
  <2> QED
    BY <2>4 DEF g
<1>6. /\ Viewed(vs, now)
      /\ \A w \in Views : vs[w] = IF view[w].open /\ ring.raised THEN OnReset(view[w]) ELSE view[w]
  BY <1>2, ResetViewsFacts
<1> HIDE DEF vs
<1>7. ASSUME NEW w \in Views
      PROVE  ViewOk(view'[w], now) /\ ~view'[w].exact
  <2> DEFINE v == vs[w]
             u == view'[w]
             o == view[w]
  <2>1. ViewOk(v, now) /\ ViewOk(o, now)
    BY <1>2, <1>6 DEF Viewed
  <2>2. u = IF v.open THEN OnClear(v) ELSE v
    BY <1>3
  <2>3. v = IF o.open /\ ring.raised THEN OnReset(o) ELSE o
    BY <1>6
  <2>4. o.exact => o.open
    BY <1>1 DEF Exact, IsExact
  <2> HIDE DEF v, u, o
  <2>5. ViewOk(OnClear(v), now) /\ OnClear(v).exact = FALSE
    BY <1>2, <2>1, OnClearFacts
  <2>6. o.copy.raised => Follows(OnReset(o), o, Reset(o.copy), Newest(o.shown, DefaultLimit))
    BY <1>2, <2>1, OnResetFacts
  <2>7. ~o.copy.raised => OnReset(o) = o
    BY <1>2, <2>1, OnResetFacts
  <2>8. v.open = o.open /\ v.exact = o.exact
    BY <2>3, <2>6, <2>7 DEF Follows
  <2>9. ViewOk(u, now) /\ ~u.exact
    BY <2>1, <2>2, <2>4, <2>5, <2>8
  <2> QED
    BY <2>9 DEF u
<1>8. Viewed(view', now)
  <2> DEFINE us == view'
  <2>1. us = [w \in Views |-> us[w]]
    BY <1>3
  <2>2. \A w \in Views : ViewOk(us[w], now)
    BY <1>7
  <2> HIDE DEF us
  <2>3. Viewed(us, now)
    BY <2>1, <2>2, ViewedIf
  <2> QED
    BY <2>3 DEF us
<1>9. Exact(view', ring')
  BY <1>7 DEF Exact, IsExact
<1> QED
  BY <1>1, <1>3, <1>4, <1>5, <1>8, <1>9 DEF HistoryInv, TypeInv, CopyInv

\* A view is cleared.
LEMMA ClearViewKeeps ==
  ASSUME HistoryInv, NEW w \in Views, ClearView(w)
  PROVE  HistoryInv'
<1> DEFINE v == view[w]
           u == OnClear(v)
<1>1. TypeInv /\ Exact(view, ring) /\ now \in Nat
  BY Numbers DEF HistoryInv, CopyInv
<1>2. view' = [view EXCEPT ![w] = u] /\ UNCHANGED <<now, link, lastUp, recent, ring, logged, logs>>
  BY DEF ClearView
<1>3. events' \in 0 .. MaxEvents
  <2>1. events \in 0 .. MaxEvents /\ MaxEvents \in Nat
    BY <1>1, HistoryAssumption DEF TypeInv
  <2> QED
    BY <2>1 DEF ClearView, Eventful
<1>4. Viewed(view, now) /\ ViewOk(v, now)
  BY <1>1 DEF TypeInv, Viewed
<1> HIDE DEF v
<1>5. ViewOk(OnClear(v), now) /\ OnClear(v).exact = FALSE
  BY <1>1, <1>4, OnClearFacts
<1>6. ViewOk(u, now) /\ ~u.exact /\ u \in ViewRec
  BY <1>5 DEF ViewOk
<1> HIDE DEF u
<1>7. view' \in [Views -> ViewRec] /\ \A x \in Views : view'[x] = IF x = w THEN u ELSE view[x]
  BY <1>2, <1>4, <1>6 DEF Viewed
<1>8. \A x \in Views : ViewOk(view'[x], now)
  BY <1>4, <1>6, <1>7 DEF Viewed
<1>9. Exact(view', ring) /\ Viewed(view', now)
  BY <1>1, <1>6, <1>7, <1>8 DEF Exact, IsExact, Viewed
<1> QED
  BY <1>1, <1>2, <1>3, <1>9 DEF HistoryInv, TypeInv, CopyInv

\* The behaviours start with the recent messages, and with views of them.
LEMMA Starts ==
  ASSUME Init
  PROVE  HistoryInv /\ Ascends(ring.msgs)
<1>1. now = Before /\ now \in Times /\ now \in Nat /\ Last_ \in Nat /\ Times = 1 .. Last_
  BY HistoryAssumption, DaysAreNumbers DEF Init, Times
<1>2. PICK n \in {0, DefaultLimit} : ring = [EmptyRing EXCEPT !.msgs = Newest([t \in 1 .. now |-> t], n)]
  BY DEF Init
<1>3. DefaultLimit \in Nat \ {0} /\ n \in Nat /\ n <= DefaultLimit
  BY LimitAssumption
<1> DEFINE all == [t \in 1 .. now |-> t]
           msgs == Newest(all, n)
<1>4. all \in Seq(1 .. now) /\ Ascends(all)
  BY <1>1 DEF Ascends
<1>5. msgs \in Seq(1 .. now) /\ Len(msgs) <= DefaultLimit
  <2> HIDE DEF all
  <2>1. Newest(all, n) \in Seq(1 .. now)
        /\ Len(Newest(all, n)) = IF Len(all) <= n THEN Len(all) ELSE n
    BY <1>3, <1>4, NewestFacts
  <2>2. Len(all) \in Nat
    BY <1>4
  <2> QED
    BY <1>3, <2>1, <2>2
<1>6. Ascends(msgs)
  <2> HIDE DEF all
  <2>1. all \in Seq(Nat)
    BY <1>1, <1>4, SeqMonotonic
  <2> QED
    BY <1>3, <1>4, <2>1, NewestAscends
<1>7. ring = [msgs |-> msgs, limit |-> DefaultLimit, raised |-> FALSE]
  BY <1>2 DEF EmptyRing
<1> HIDE DEF all, msgs
<1>8. ring.msgs = msgs /\ RingOk(ring, 1 .. now)
  <2>1. 1 .. now \subseteq Nat
    BY <1>1
  <2>2. msgs \in Seq(Nat)
    BY <1>5, <2>1, SeqMonotonic
  <2> QED
    BY <1>3, <1>5, <1>7, <2>2 DEF RingOk, Ring
<1>9. PICK S \in SUBSET Views, d \in Current(DateOf) :
        view = [w \in Views |-> IF w \in S THEN Opened(w, ring, d) ELSE ClosedView]
  BY DEF Init
<1>15. d \in Nat
  <2>1. PICK t \in Times : d = DateOf[t]
    BY <1>1 DEF Current
  <2> QED
    BY <2>1, HistoryAssumption
<1>10. ASSUME NEW w \in Views
       PROVE  /\ ViewOk(view[w], now)
              /\ IsExact(view[w], Hidden[w], ring)
  <2>1. CASE w \in S
    <3>1. ViewOk(Opened(w, ring, d), now)
      BY <1>1, <1>8, <1>15, OpenedFacts
    <3>2. Opened(w, ring, d).exact =>
            Opened(w, ring, d).open /\ Hidden[w] = {} /\ Opened(w, ring, d).copy = ring
      BY <1>1, <1>8, <1>15, OpenedExact
    <3>3. view[w] = Opened(w, ring, d)
      BY <1>9, <2>1
    <3> QED
      BY <3>1, <3>2, <3>3 DEF IsExact
  <2>2. CASE w \notin S
    <3>1. view[w] = ClosedView
      BY <1>9, <2>2
    <3> QED
      BY <1>1, <3>1, ClosedFacts DEF IsExact
  <2> QED
    BY <2>1, <2>2
<1>11. Viewed(view, now) /\ Exact(view, ring)
  <2>1. view = [w \in Views |-> view[w]]
    BY <1>9
  <2>2. Viewed(view, now)
    <3> DEFINE vs == view
    <3>1. vs = [w \in Views |-> vs[w]] /\ \A w \in Views : ViewOk(vs[w], now)
      BY <1>10, <2>1
    <3> HIDE DEF vs
    <3>2. Viewed(vs, now)
      BY <3>1, ViewedIf
    <3> QED
      BY <3>2 DEF vs
  <2> QED
    BY <1>10, <2>2 DEF Exact
<1>12. logs \in LogsRec /\ logs.phase = "idle"
  <2>1. FirstLogs \in LogsRec /\ FirstLogs.phase = "idle"
    BY DEF FirstLogs, LogsRec, None
  <2> QED
    BY <2>1 DEF Init
<1>13. /\ link = "up" /\ lastUp = 0 /\ recent = NoRequest
       /\ logged \in {{}, Times} /\ events = 0 /\ MaxEvents \in Nat
  BY HistoryAssumption DEF Init
<1>14. recent \in [asked: BOOLEAN, after: 0 .. now, before: 0 .. now]
  BY <1>1, <1>13 DEF NoRequest
<1> QED
  BY <1>1, <1>6, <1>8, <1>11, <1>12, <1>13, <1>14 DEF HistoryInv, TypeInv, CopyInv

LEMMA HistoryInvStays ==
  ASSUME HistoryInv, [Next]_vars
  PROVE  HistoryInv'
<1>1. CASE Next
  BY <1>1, SayKeeps, LinkKeeps, RecentAnswerKeeps, ListKeeps, PageAnswerKeeps, ClearKeeps,
     LoadOlderKeeps, ReleaseKeeps, ClearViewKeeps DEF Next, Answer
<1>2. CASE UNCHANGED vars
  BY <1>2 DEF vars, HistoryInv, TypeInv, CopyInv
<1> QED
  BY <1>1, <1>2

LEMMA HistoryInvHolds == Spec => []HistoryInv
<1>1. Init => HistoryInv
  BY Starts
<1>2. HistoryInv /\ [Next]_vars => HistoryInv'
  BY HistoryInvStays
<1> QED
  BY <1>1, <1>2, PTL DEF Spec

\* Whatever is said, missed, loaded or cleared, the ring and the copy of every
\* view hold messages that were sent, and no more than their limits, which are
\* never below the default one and are it unless they were raised.
THEOREM TypeCorrect == Spec => []TypeOK
<1>1. HistoryInv => TypeOK
  <2>1. SUFFICES ASSUME HistoryInv
                 PROVE  TypeOK
    OBVIOUS
  <2>2. TypeInv
    BY <2>1 DEF HistoryInv
  <2>3. /\ now \in Times /\ link \in {"up", "silent", "down"} /\ lastUp \in 0 .. now
        /\ recent \in [asked: BOOLEAN, after: 0 .. now, before: 0 .. now]
        /\ events \in 0 .. MaxEvents /\ logged \subseteq Times
    BY <2>2 DEF TypeInv
  <2>4. logs.phase \in {"idle", "list", "page"} /\ logs.days \subseteq Days
    BY <2>2 DEF TypeInv, LogsRec
  <2>5. \A r : RingOk(r, 0 .. now) =>
          /\ Messages(r) \subseteq 0 .. now /\ Len(r.msgs) <= r.limit
          /\ r.limit >= DefaultLimit /\ (~r.raised => r.limit = DefaultLimit)
    <3>1. SUFFICES ASSUME NEW r, RingOk(r, 0 .. now)
                   PROVE  /\ Messages(r) \subseteq 0 .. now /\ Len(r.msgs) <= r.limit
                          /\ r.limit >= DefaultLimit /\ (~r.raised => r.limit = DefaultLimit)
      OBVIOUS
    <3>2. r.msgs \in Seq(0 .. now)
      BY <3>1 DEF RingOk
    <3>3. Messages(r) \subseteq 0 .. now
      <4> DEFINE M == 0 .. now
                 q == r.msgs
      <4>1. q \in Seq(M)
        BY <3>2
      <4> HIDE DEF M, q
      <4>2. Range(q) \subseteq M
        BY <4>1 DEF Range
      <4> QED
        BY <4>2 DEF Messages, M, q
    <3> QED
      BY <3>1, <3>3 DEF RingOk
  <2>6. RingOk(ring, 0 .. now) /\ ring \in Ring /\ Separator \notin Messages(ring)
    <3>1. RingOk(ring, 1 .. now) /\ 1 .. now \subseteq 0 .. now
      BY <2>2 DEF TypeInv
    <3>2. ring.msgs \in Seq(1 .. now) /\ ring \in Ring
      BY <3>1 DEF RingOk
    <3>3. Separator \notin Messages(ring)
      <4> DEFINE q == ring.msgs
                 N == 1 .. now
      <4>1. q \in Seq(N) /\ 0 \notin N
        BY <3>2
      <4> HIDE DEF q, N
      <4>2. Range(q) \subseteq N
        BY <4>1 DEF Range
      <4> QED
        BY <4>1, <4>2 DEF Messages, Separator, q
    <3> QED
      BY <3>1, <3>2, <3>3, RingOkGrows
  <2>7. \A w \in Views : RingOk(view[w].copy, 0 .. now) /\ Len(view[w].shown) <= view[w].copy.limit
    BY <2>2 DEF TypeInv, Viewed, ViewOk
  <2> QED
    BY <2>3, <2>4, <2>5, <2>6, <2>7 DEF TypeOK
<1> QED
  BY <1>1, HistoryInvHolds, PTL

\* The copy of a view without filters that was opened on a channel whose limit
\* was not raised stays the channel's ring, with its limit, until a clear or a day
\* separator: what the channel does to its ring, and tells, has the same outcome in
\* the view.
THEOREM CopiesAreExact == Spec => []CopyIsExact
<1>1. HistoryInv => CopyIsExact
  BY DEF HistoryInv, CopyInv, Exact, IsExact, CopyIsExact
<1> QED
  BY <1>1, HistoryInvHolds, PTL


-----------------------------------------------------------------------------
(* The order of the messages *)

\* The messages of S that are older than b have no gap between them, nor to b.
Gapless(S, b) == \A x \in S, t \in Nat : x <= t /\ t < b => t \in S

Loading == logs.phase \in {"list", "page"}

\* The cursor is not behind the oldest message of the last page, nor in front of
\* its day.
CursorInv ==
  /\ logs.cursor.before <= now + 1
  /\ logs.anchor # None => logs.cursor.before <= logs.anchor
  /\ logs.cursor.day # None => StartOf(logs.cursor.day) <= logs.cursor.before
  /\ Loading => logs.cursor.day # None
  /\ logs.phase = "page" => logs.day # None /\ logs.day <= logs.cursor.day

\* While older messages are on their way, the ring has every message between its
\* oldest one and the cursor: what the page brings that the ring lacks is older
\* than all it has.  Missed messages, should they be filled in meanwhile, reach
\* up to the cursor.
GapInv ==
  Loading => /\ Gapless(Messages(ring), logs.cursor.before)
             /\ recent.asked => logs.cursor.before <= recent.before + 1

OrderInv == CursorInv /\ GapInv /\ Ascends(ring.msgs)

\* What the cursor is compared with are numbers.
LEMMA CursorNumbers ==
  ASSUME TypeInv
  PROVE  /\ logs.cursor.before \in Nat /\ logs.cursor.day \in Nat
         /\ logs.anchor \in Nat /\ logs.day \in Nat
         /\ recent.before \in Nat /\ now \in Nat
         /\ Messages(ring) \subseteq 1 .. now
         /\ ring.msgs \in Seq(1 .. now) /\ ring.msgs \in Seq(Nat)
<1>1. now \in Nat
  BY Numbers
<1>2. RingOk(ring, 1 .. now) /\ logs \in LogsRec /\ recent.before \in 0 .. now
  BY DEF TypeInv
<1>3. ring.msgs \in Seq(1 .. now) /\ ring.msgs \in Seq(Nat)
  BY <1>2 DEF RingOk, Ring
<1>4. Messages(ring) \subseteq 1 .. now
  <2> DEFINE M == 1 .. now
             q == ring.msgs
  <2>1. q \in Seq(M)
    BY <1>3
  <2> HIDE DEF M, q
  <2>2. Range(q) \subseteq M
    BY <2>1 DEF Range
  <2> QED
    BY <2>2 DEF Messages, M, q
<1>5. logs.cursor \in [day: Nat, before: Nat] /\ logs.anchor \in Nat /\ logs.day \in Nat
  BY <1>2 DEF LogsRec
<1> QED
  BY <1>1, <1>2, <1>3, <1>4, <1>5

\* The newest of the messages of T have no gap where T has none.
LEMMA GaplessAbove ==
  ASSUME NEW T, NEW S \in SUBSET T, NEW b \in Nat, Gapless(T, b),
         \A x \in S, y \in T : x <= y => y \in S
  PROVE  Gapless(S, b)
BY DEF Gapless

\* What an action leaves in order that does not touch the paging.
LEMMA OrderKept ==
  ASSUME TypeInv, OrderInv, logs' = logs, now' \in Nat, now <= now',
         Ascends(ring'.msgs),
         Loading => Gapless(Messages(ring'), logs.cursor.before),
         Loading /\ recent'.asked => logs.cursor.before <= recent'.before + 1
  PROVE  OrderInv'
<1>1. logs.cursor.before \in Nat /\ now \in Nat /\ logs.cursor.before <= now' + 1
  BY CursorNumbers DEF OrderInv, CursorInv
<1>2. CursorInv'
  BY <1>1 DEF OrderInv, CursorInv, Loading
<1>3. GapInv'
  BY DEF GapInv, Loading
<1>4. Ascends(ring.msgs)'
  OBVIOUS
<1> QED
  BY <1>2, <1>3, <1>4 DEF OrderInv

\* A message is appended.
LEMMA SayOrdered ==
  ASSUME TypeInv, OrderInv, Say
  PROVE  OrderInv'
<1> DEFINE n == now + 1
           b == logs.cursor.before
           S == Messages(ring)
           s == ring.msgs
           a == Append(s, n)
           k == ring.limit + RoomForOne(ring)
<1>1. now' = n /\ UNCHANGED <<recent, logs>> /\ (link # "up" => UNCHANGED ring)
  BY DEF Say
<1>2. /\ now \in Nat /\ n \in Nat /\ b \in Nat /\ b <= n /\ S \subseteq 1 .. now
      /\ s \in Seq(1 .. now) /\ s \in Seq(Nat)
      /\ Ascends(s) /\ (Loading => Gapless(S, b))
  BY CursorNumbers DEF OrderInv, CursorInv, GapInv
<1>3. Ascends(ring'.msgs) /\ (Loading => Gapless(Messages(ring'), b))
  <2>1. CASE link # "up"
    BY <1>1, <1>2, <2>1
  <2>2. CASE link = "up"
    <3>1. RingOk(ring, 1 .. n) /\ n \in 1 .. n /\ 1 .. n \subseteq Nat
      <4>1. RingOk(ring, 1 .. now) /\ 1 .. now \subseteq 1 .. n /\ n \in 1 .. n /\ 1 .. n \subseteq Nat
        BY <1>2 DEF TypeInv
      <4> HIDE DEF n
      <4> QED
        BY <4>1, RingOkGrows
    <3>2. ring'.msgs = Newest(a, k) /\ k \in Nat
      <4>1. ring' = Push(ring, n)
        BY <1>1, <2>2 DEF Say
      <4>2. ring.limit \in Nat /\ RoomForOne(ring) \in Nat
        BY <3>1 DEF RingOk, Ring, RoomForOne
      <4> HIDE DEF n
      <4>3. Push(ring, n).msgs = Newest(Append(ring.msgs, n), ring.limit + RoomForOne(ring))
        BY <3>1, PushFacts
      <4> QED
        BY <4>1, <4>2, <4>3
    <3>3. Messages(ring') = Range(Newest(a, k))
      BY <3>2 DEF Messages
    <3>4. a \in Seq(Nat) /\ Ascends(a) /\ Range(a) = S \union {n}
      <4>1. a \in Seq(Nat) /\ Len(a) = Len(s) + 1 /\ Len(s) \in Nat
            /\ \A i \in 1 .. Len(s) : a[i] = s[i] /\ a[i] < n
        <5>1. \A i \in 1 .. Len(s) : s[i] \in 1 .. now
          BY <1>2
        <5> QED
          BY <1>2, <5>1
      <4>2. a[Len(s) + 1] = n
        BY <1>2
      <4>3. DOMAIN a = 1 .. Len(s) + 1 /\ DOMAIN s = 1 .. Len(s)
        BY <1>2, <4>1
      <4> HIDE DEF a, n
      <4>4. Ascends(a)
        <5>1. SUFFICES ASSUME NEW i \in DOMAIN a, NEW j \in DOMAIN a, i < j
                       PROVE  a[i] < a[j]
          BY DEF Ascends
        <5>2. i \in 1 .. Len(s)
          BY <4>1, <4>3, <5>1
        <5>3. CASE j \in 1 .. Len(s)
          <6>1. s[i] < s[j]
            BY <1>2, <4>3, <5>1, <5>2, <5>3 DEF Ascends
          <6> QED
            BY <4>1, <5>2, <5>3, <6>1
        <5>4. CASE j = Len(s) + 1
          BY <4>1, <4>2, <5>2, <5>4
        <5> QED
          BY <4>1, <4>3, <5>1, <5>3, <5>4
      <4>5. Range(a) = Range(s) \union {n}
        <5>1. ASSUME NEW x \in Range(a)
              PROVE  x \in Range(s) \union {n}
          <6>1. PICK i \in DOMAIN a : x = a[i]
            BY <5>1 DEF Range
          <6>2. CASE i \in 1 .. Len(s)
            BY <4>1, <4>3, <6>1, <6>2 DEF Range
          <6>3. CASE i = Len(s) + 1
            BY <4>2, <6>1, <6>3
          <6> QED
            BY <4>1, <4>3, <6>1, <6>2, <6>3
        <5>2. ASSUME NEW x \in Range(s)
              PROVE  x \in Range(a)
          <6>1. PICK i \in DOMAIN s : x = s[i]
            BY <5>2 DEF Range
          <6>2. i \in DOMAIN a /\ a[i] = x
            BY <4>1, <4>3, <6>1
          <6> QED
            BY <6>2 DEF Range
        <5>3. n \in Range(a)
          <6>1. Len(s) + 1 \in DOMAIN a
            BY <4>1, <4>3
          <6> QED
            BY <4>2, <6>1 DEF Range
        <5> QED
          BY <5>1, <5>2, <5>3
      <4> QED
        BY <4>1, <4>4, <4>5 DEF Messages
    <3> HIDE DEF a, k
    <3>5. /\ Ascends(Newest(a, k))
          /\ \A x \in Range(Newest(a, k)), y \in Range(a) : x <= y => y \in Range(Newest(a, k))
      BY <3>2, <3>4, NewestAscends
    <3>6. Range(Newest(a, k)) \subseteq Range(a)
      BY <3>2, <3>4, NewestMembers
    <3>7. ASSUME Loading
          PROVE  Gapless(Messages(ring'), b)
      <4>1. Gapless(Range(a), b)
        BY <1>2, <3>4, <3>7 DEF Gapless
      <4> DEFINE T == Range(a)
                 R == Range(Newest(a, k))
      <4> HIDE DEF T, R, b
      <4>2. R \in SUBSET T /\ Gapless(T, b) /\ \A x \in R, y \in T : x <= y => y \in R
        BY <3>5, <3>6, <4>1 DEF T, R
      <4>3. Gapless(R, b)
        BY <1>2, <4>2, GaplessAbove
      <4> QED
        BY <3>3, <4>3 DEF R
    <3> QED
      BY <3>2, <3>5, <3>7
  <2> QED
    BY <2>1, <2>2
<1>4. Loading /\ recent'.asked => logs.cursor.before <= recent'.before + 1
  BY <1>1 DEF OrderInv, GapInv
<1>5. now' \in Nat /\ now <= now'
  BY <1>1, <1>2
<1> QED
  BY <1>1, <1>3, <1>4, <1>5, OrderKept

\* The connection and the clearing of a view leave the ring alone.
LEMMA LinkOrdered ==
  ASSUME TypeInv, OrderInv,
         \/ Lose \/ Notice \/ Rejoin \/ RecentFails
         \/ \E w \in Views : ClearView(w)
  PROVE  OrderInv'
<1>1. UNCHANGED <<now, ring, logs>>
  BY DEF Lose, Notice, Rejoin, RecentFails, ClearView
<1>2. now \in Nat /\ logs.cursor.before <= now + 1
  BY CursorNumbers DEF OrderInv, CursorInv
<1>3. Loading /\ recent'.asked => logs.cursor.before <= recent'.before + 1
  <2>1. CASE UNCHANGED recent
    BY <2>1 DEF OrderInv, GapInv
  <2>2. CASE recent' = NoRequest
    BY <2>2 DEF NoRequest
  <2>3. CASE recent' = [asked |-> TRUE, after |-> lastUp, before |-> now]
    BY <1>2, <2>3
  <2> QED
    BY <2>1, <2>2, <2>3 DEF Lose, Notice, Rejoin, RecentFails, ClearView
<1>4. Ascends(ring'.msgs) /\ (Loading => Gapless(Messages(ring'), logs.cursor.before))
  BY <1>1 DEF OrderInv, GapInv
<1>5. now' \in Nat /\ now <= now' /\ logs' = logs
  BY <1>1, <1>2
<1> QED
  BY <1>3, <1>4, <1>5, OrderKept

\* Messages that were missed are filled in.
LEMMA RecentAnswerOrdered ==
  ASSUME TypeInv, OrderInv, RecentAnswer
  PROVE  OrderInv'
<1> DEFINE s == Missed
           b == logs.cursor.before
           S == Messages(ring)
           R == Range(s)
           T == S \union R
           g == FillIn(ring, s)
           e == recent.before
<1>1. recent.asked /\ recent' = NoRequest /\ ring' = g /\ UNCHANGED <<now, logs>>
  BY DEF RecentAnswer
<1>2. /\ now \in Nat /\ b \in Nat /\ e \in Nat /\ Ascends(ring.msgs)
      /\ (Loading => Gapless(S, b) /\ b <= e + 1)
  BY <1>1, CursorNumbers DEF OrderInv, GapInv
<1>3. /\ s \in Seq(1 .. now) /\ Ascends(s)
      /\ R \subseteq 1 .. e
      /\ \A x \in R, y \in 1 .. e : x <= y => y \in R
  BY MissedFacts
<1>4. FilledWell(ring, s, g)
  <2>1. RingOk(ring, 1 .. now) /\ 1 .. now \subseteq Nat
    BY <1>2 DEF TypeInv
  <2> HIDE DEF s
  <2> QED
    BY <1>2, <1>3, <2>1, FillInOrder
<1>5. /\ Ascends(g.msgs)
      /\ Messages(g) \subseteq T
      /\ \A x \in Messages(g), y \in T : x <= y => y \in Messages(g)
  BY <1>4 DEF FilledWell
<1> HIDE DEF g, b, S, R, e, s
<1>6. ASSUME Loading
      PROVE  Gapless(Messages(ring'), b)
  <2>1. Gapless(T, b)
    <3>1. SUFFICES ASSUME NEW x \in T, NEW t \in Nat, x <= t, t < b
                   PROVE  t \in T
      BY DEF Gapless
    <3>2. CASE x \in S
      BY <1>2, <1>6, <3>1, <3>2 DEF Gapless
    <3>3. CASE x \in R
      <4>1. t \in 1 .. e
        BY <1>2, <1>3, <1>6, <3>1, <3>3
      <4> QED
        BY <1>3, <3>1, <3>3, <4>1
    <3> QED
      BY <3>1, <3>2, <3>3
  <2> DEFINE G == Messages(g)
  <2> HIDE DEF T, G
  <2>2. G \in SUBSET T /\ \A x \in G, y \in T : x <= y => y \in G
    BY <1>5 DEF G
  <2>3. Gapless(G, b)
    BY <1>2, <2>1, <2>2, GaplessAbove
  <2> QED
    BY <1>1, <2>3 DEF G
<1>7. ~recent'.asked
  BY <1>1 DEF NoRequest
<1>8. now' \in Nat /\ now <= now' /\ logs' = logs /\ Ascends(ring'.msgs)
  BY <1>1, <1>2, <1>5
<1> QED
  BY <1>6, <1>7, <1>8, OrderKept DEF b

\* When the limit of the ring is given back, or the channel is cleared, the ring
\* keeps its newest messages, or all of them, or none.
LEMMA ResetKeeps ==
  ASSUME TypeInv,
         Clear \/ \E w \in Views : ScrollToBottom(w) \/ Open(w) \/ Close(w)
  PROVE  /\ \/ ring'.msgs = ring.msgs
            \/ ring'.msgs = Newest(ring.msgs, DefaultLimit)
            \/ ring'.msgs = <<>>
         /\ Messages(ring') \subseteq Messages(ring)
         /\ UNCHANGED <<now, lastUp, recent, logs, logged>>
<1> DEFINE s == ring.msgs
           q == Newest(s, DefaultLimit)
<1>1. UNCHANGED <<now, lastUp, recent, logs, logged>>
  BY DEF Clear, ScrollToBottom, Open, Close
<1>2. RingOk(ring, 1 .. now) /\ 1 .. now \subseteq Nat /\ s \in Seq(Nat)
  BY CursorNumbers DEF TypeInv
<1>3. Reset(ring).msgs = q /\ RingOk(Reset(ring), 1 .. now)
  BY <1>2, ResetFacts
<1>4. ring'.msgs = s \/ ring'.msgs = q \/ ring'.msgs = <<>>
  <2>1. CASE Clear
    <3> DEFINE r == Reset(ring)
    <3>1. r \in Ring
      BY <1>3 DEF RingOk
    <3>2. ring' = [r EXCEPT !.msgs = <<>>]
      BY <2>1 DEF Clear
    <3> HIDE DEF r
    <3>3. ring'.msgs = <<>>
      BY <3>1, <3>2 DEF Ring
    <3> QED
      BY <3>3
  <2>2. CASE \E w \in Views : ScrollToBottom(w) \/ Open(w) \/ Close(w)
    <3>1. PICK w \in Views : ring' = ReleasedRing(w)
      BY <2>2 DEF ScrollToBottom, Open, Close
    <3>2. ring' = ring \/ ring' = Reset(ring)
      BY <3>1 DEF ReleasedRing
    <3> QED
      BY <1>3, <3>2
  <2> QED
    BY <2>1, <2>2
<1>5. Range(q) \subseteq Range(s)
  <2>1. DefaultLimit \in Nat
    BY LimitAssumption
  <2> HIDE DEF s
  <2> QED
    BY <1>2, <2>1, NewestMembers
<1>6. Messages(ring') \subseteq Messages(ring)
  <2>1. Range(<<>>) = {}
    BY DEF Range
  <2> HIDE DEF q
  <2> QED
    BY <1>4, <1>5, <2>1 DEF Messages
<1> QED
  BY <1>1, <1>4, <1>6

\* The limit of the ring is given back, or the channel is cleared.
LEMMA ResetOrdered ==
  ASSUME TypeInv, OrderInv,
         Clear \/ \E w \in Views : ScrollToBottom(w) \/ Open(w) \/ Close(w)
  PROVE  OrderInv'
<1> DEFINE b == logs.cursor.before
           s == ring.msgs
           q == Newest(s, DefaultLimit)
<1>1. /\ UNCHANGED <<now, recent, logs>>
      /\ ring'.msgs = s \/ ring'.msgs = q \/ ring'.msgs = <<>>
  BY ResetKeeps
<1>2. /\ now \in Nat /\ b \in Nat /\ Ascends(s) /\ s \in Seq(Nat)
      /\ (Loading => Gapless(Messages(ring), b))
  BY CursorNumbers DEF OrderInv, GapInv
<1>5. /\ Ascends(q) /\ Range(q) \subseteq Range(s)
      /\ \A x \in Range(q), y \in Range(s) : x <= y => y \in Range(q)
  <2>1. DefaultLimit \in Nat
    BY LimitAssumption
  <2> HIDE DEF s
  <2> QED
    BY <1>2, <2>1, NewestAscends, NewestMembers
<1> HIDE DEF b, q
<1>6. Ascends(ring'.msgs)
  BY <1>1, <1>2, <1>5 DEF Ascends
<1>7. ASSUME Loading
      PROVE  Gapless(Messages(ring'), b)
  <2> DEFINE T == Range(s)
             G == Range(ring'.msgs)
  <2>1. Gapless(T, b)
    BY <1>2, <1>7 DEF Messages
  <2>2. G \in SUBSET T /\ \A x \in G, y \in T : x <= y => y \in G
    <3>1. Range(<<>>) = {}
      BY DEF Range
    <3> QED
      BY <1>1, <1>5, <3>1
  <2> HIDE DEF T, G
  <2>3. Gapless(G, b)
    BY <1>2, <2>1, <2>2, GaplessAbove
  <2> QED
    BY <2>3 DEF G, Messages
<1>8. Loading /\ recent'.asked => b <= recent'.before + 1
  BY <1>1 DEF OrderInv, GapInv, b
<1>9. now' \in Nat /\ now <= now' /\ logs' = logs
  BY <1>1, <1>2
<1> QED
  BY <1>6, <1>7, <1>8, <1>9, OrderKept DEF b

\* The list of days is there or not, or a request fails.
LEMMA ListOrdered ==
  ASSUME TypeInv, OrderInv, ListAnswer \/ ListNotFound \/ RequestFails
  PROVE  OrderInv'
<1>1. /\ logs' \in LogsRec
      /\ logs'.cursor = logs.cursor /\ logs'.anchor = logs.anchor
      /\ logs'.phase = "page" => /\ logs.phase = "list"
                                 /\ logs'.wanted # 0
                                 /\ logs'.day # None /\ logs'.day <= logs'.cursor.day
      /\ logs'.phase # "list"
      /\ UNCHANGED <<now, link, lastUp, recent, ring, view, logged, events>>
  BY ListFacts
<1>2. Loading' => Loading
  BY <1>1 DEF Loading
<1>3. CursorInv'
  BY <1>1, <1>2 DEF OrderInv, CursorInv
<1>4. GapInv'
  <2>1. UNCHANGED <<ring, recent>> /\ logs'.cursor = logs.cursor /\ GapInv
    BY <1>1 DEF OrderInv
  <2> QED
    BY <1>2, <2>1 DEF GapInv
<1> QED
  BY <1>1, <1>3, <1>4 DEF OrderInv

\* Paging begins at the oldest message, which has nothing older to be compared with.
LEMMA LoadOlderOrdered ==
  ASSUME TypeInv, OrderInv, NEW w \in Views, ScrollToTop(w) \/ ChatFits(w)
  PROVE  OrderInv'
<1>1. PICK u \in {[view[w] EXCEPT !.owns = TRUE], [view[w] EXCEPT !.fitted = TRUE]} : LoadOlder(w, u)
  BY DEF ScrollToTop, ChatFits
<1>2. /\ ~recent.asked /\ UNCHANGED <<now, recent, ring>>
      /\ \E d \in Nat \ {0}, l \in LogsRec :
           StartOf(d) <= now + 1 /\ DayOf[now] <= d /\ AnchoredAt(l, d) /\ Asks(l, logs')
  BY <1>1, LoadOlderFacts
<1>3. PICK d \in Nat \ {0}, l \in LogsRec :
         StartOf(d) <= now + 1 /\ DayOf[now] <= d /\ AnchoredAt(l, d) /\ Asks(l, logs')
  BY <1>2
<1>4. /\ logs'.cursor = l.cursor /\ logs'.anchor = l.anchor
      /\ logs'.phase = "page" => logs'.day # None /\ logs'.day <= logs'.cursor.day
  BY <1>3 DEF Asks, SameLogs
<1> DEFINE c == l.cursor
<1>5. /\ now \in Nat /\ logs.cursor.before \in Nat /\ Oldest \in 0 .. now
      /\ Messages(ring) \subseteq 1 .. now /\ Ascends(ring.msgs) /\ ring.msgs \in Seq(1 .. now)
  BY CursorNumbers, OldestFacts DEF OrderInv
<1>6. /\ c.day # None
      /\ c.before <= now + 1 /\ StartOf(c.day) <= c.before
      /\ l.anchor = Oldest
      /\ Oldest # None => c.before <= Oldest
  <2>1. CASE l = logs /\ logs.anchor = Oldest /\ logs.cursor.day # None
    BY <2>1 DEF OrderInv, CursorInv
  <2>2. CASE /\ l.anchor = Oldest
             /\ c.day = IF Oldest = None THEN d ELSE DayOf[Oldest]
             /\ c.before = IF Oldest = None THEN now + 1 ELSE Oldest
    <3>1. CASE Oldest = None
      BY <1>3, <1>5, <2>2, <3>1 DEF None
    <3>2. CASE Oldest # None
      <4>1. Oldest \in Times
        BY <3>2, OldestFacts
      <4>2. DayOf[Oldest] \in Nat \ {0} /\ StartOf(DayOf[Oldest]) <= Oldest
        BY <4>1, DaysAreNumbers, StartOfFacts
      <4> QED
        BY <1>5, <2>2, <3>2, <4>2 DEF None
    <3> QED
      BY <3>1, <3>2
  <2> QED
    BY <1>3, <2>1, <2>2 DEF AnchoredAt
<1>7. l \in LogsRec /\ c.before \in Nat
  BY DEF LogsRec
<1>8. Gapless(Messages(ring), c.before)
  <2>1. \A x \in Messages(ring) : c.before <= x
    <3>1. TAKE x \in Messages(ring)
    <3>2. PICK i \in DOMAIN ring.msgs : x = ring.msgs[i]
      BY DEF Messages, Range
    <3>3. 1 \in DOMAIN ring.msgs /\ (1 < i \/ i = 1) /\ ring.msgs # <<>>
      BY <1>5, <3>2
    <3>4. Oldest = ring.msgs[1] /\ Oldest # None
      BY <3>3, OldestFacts
    <3>5. Oldest <= x
      BY <1>5, <3>2, <3>3, <3>4 DEF Ascends
    <3>6. x \in Nat
      BY <1>5
    <3> QED
      BY <1>5, <1>6, <1>7, <3>4, <3>5, <3>6
  <2>2. \A x \in Messages(ring) : x \in Nat
    BY <1>5
  <2> QED
    BY <1>7, <2>1, <2>2 DEF Gapless
<1> HIDE DEF c
<1>9. logs'.cursor = c
  BY <1>4 DEF c
<1>10. CursorInv'
  BY <1>2, <1>4, <1>6, <1>9 DEF CursorInv
<1>11. GapInv'
  BY <1>2, <1>8, <1>9 DEF GapInv
<1>12. Ascends(ring.msgs)'
  BY <1>2, <1>5
<1> QED
  BY <1>10, <1>11, <1>12 DEF OrderInv

\* A page brings what is older than the whole ring: a line that is not is in front
\* of the cursor, and the ring has all that is between its oldest and the cursor.
LEMMA PageOrdered ==
  ASSUME TypeInv, OrderInv, PageAnswer
  PROVE  OrderInv'
<1> DEFINE b == logs.cursor.before
           S == Messages(ring)
           L == Range(Lines)
           q == Behind(Lines)
           e == q.cursor.before
           day == logs.day
<1>1. /\ logs.phase = "page" /\ Loading
      /\ now \in Nat /\ b \in Nat /\ day \in Nat /\ logs.cursor.day \in Nat /\ logs.anchor \in Nat
      /\ Ascends(ring.msgs) /\ ring.msgs \in Seq(Nat) /\ S \subseteq 1 .. now
      /\ Gapless(S, b) /\ (recent.asked => b <= recent.before + 1)
      /\ b <= now + 1 /\ (logs.anchor # None => b <= logs.anchor)
      /\ day # None /\ day <= logs.cursor.day /\ StartOf(logs.cursor.day) <= b
      /\ recent.before \in Nat
  <2>1. logs.phase = "page" /\ Loading
    BY DEF PageAnswer, Loading
  <2>2. /\ b <= now + 1 /\ (logs.anchor # None => b <= logs.anchor)
        /\ day # None /\ day <= logs.cursor.day
        /\ logs.cursor.day # None /\ StartOf(logs.cursor.day) <= b
    BY <2>1 DEF OrderInv, CursorInv
  <2>3. Gapless(S, b) /\ (recent.asked => b <= recent.before + 1) /\ Ascends(ring.msgs)
    BY <2>1 DEF OrderInv, GapInv
  <2> QED
    BY <2>1, <2>2, <2>3, CursorNumbers
<1>2. /\ UNCHANGED <<now, recent>>
      /\ ring'.msgs = Built \o ring.msgs
      /\ PagedBy(logs')
  BY PageFacts
<1>3. StartOf(day) \in Nat /\ StartOf(day) <= b /\ (day # logs.cursor.day => StartOf(day + 1) <= b)
      /\ StartOf(day + 1) \in Nat
  <2>1. StartOf(day) \in Nat /\ StartOf(logs.cursor.day) \in Nat /\ StartOf(day + 1) \in Nat
    <3>1. day \in Nat /\ day + 1 \in Nat /\ logs.cursor.day \in Nat
      BY <1>1
    <3> HIDE DEF day
    <3> QED
      BY <3>1, StartOfFacts
  <2>2. StartOf(day) <= StartOf(logs.cursor.day)
    BY <1>1, StartOfFacts
  <2>3. day # logs.cursor.day => day + 1 <= logs.cursor.day /\ day + 1 \in Nat
    BY <1>1
  <2>4. day # logs.cursor.day => StartOf(day + 1) <= StartOf(logs.cursor.day)
    BY <1>1, <2>3, StartOfFacts
  <2> QED
    BY <1>1, <2>1, <2>2, <2>4
<1>4. /\ Lines \in Seq(1 .. now) /\ Ascends(Lines)
      /\ \A x \in L : x \in 1 .. now /\ StartOf(day) <= x /\ x < b
  <2>1. /\ Lines \in Seq(1 .. now) /\ Ascends(Lines)
        /\ \A x \in L : /\ StartOf(day) <= x
                        /\ day = logs.cursor.day => x < b
                        /\ day # logs.cursor.day => x < StartOf(day + 1)
    BY LinesFacts
  <2>2. \A x \in L : x \in 1 .. now
    <3> DEFINE s == Lines
               M == 1 .. now
    <3>1. s \in Seq(M)
      BY <2>1
    <3> HIDE DEF s, M
    <3>2. \A x \in Range(s) : x \in M
      BY <3>1 DEF Range
    <3> QED
      BY <3>2 DEF s, M
  <2> HIDE DEF L, b, day
  <2>3. \A x \in L : x < b
    <3>1. TAKE x \in L
    <3>2. x \in Nat
      BY <2>2
    <3> QED
      BY <1>1, <1>3, <2>1, <3>2
  <2> QED
    BY <2>1, <2>2, <2>3
<1>5. /\ q \in LogsRec /\ q.cursor.day = day /\ e \in Nat
      /\ StartOf(day) <= e /\ e <= b
      /\ \A x \in L : e <= x
  <2>1. /\ q \in LogsRec /\ q.cursor.day = day
        /\ \/ e = StartOf(day)
           \/ Lines # <<>> /\ e = Lines[1] /\ Lines[1] \in L
    BY <1>1, BehindFacts
  <2>2. e \in Nat
    BY <2>1 DEF LogsRec
  <2> HIDE DEF e, L, b, day, q
  <2>3. CASE e = StartOf(day)
    BY <1>3, <1>4, <2>1, <2>2, <2>3
  <2>4. CASE Lines # <<>> /\ e = Lines[1] /\ Lines[1] \in L
    <3>1. StartOf(day) <= e /\ e <= b
      BY <1>1, <1>3, <1>4, <2>2, <2>4
    <3>2. \A x \in L : e <= x
      <4>1. TAKE x \in L
      <4>2. PICK i \in DOMAIN Lines : x = Lines[i]
        BY DEF L, Range
      <4>3. 1 \in DOMAIN Lines /\ (1 < i \/ i = 1)
        BY <1>4, <4>2
      <4>4. x \in Nat
        BY <1>4
      <4> QED
        BY <1>4, <2>2, <2>4, <4>2, <4>3, <4>4 DEF Ascends
    <3> QED
      BY <2>1, <2>2, <3>1, <3>2
  <2> QED
    BY <2>1, <2>3, <2>4
<1>6. /\ Built \in Seq(1 .. now) /\ Ascends(Built) /\ Range(Built) = L \ S
      /\ Built \in Seq(Nat)
  <2>1. Built \in Seq(1 .. now) /\ Ascends(Built) /\ Range(Built) = L \ S
    BY BuiltFacts
  <2>2. 1 .. now \subseteq Nat
    BY <1>1
  <2> QED
    BY <2>1, <2>2, SeqMonotonic
<1> HIDE DEF e, L, b, day, q, S
<1>7. \A x \in Range(Built), y \in S : x < y
  <2>1. TAKE x \in Range(Built), y \in S
  <2>2. x \in L /\ x \notin S /\ x \in Nat /\ x < b /\ y \in Nat
    BY <1>1, <1>4, <1>6
  <2>3. ~ (y <= x)
    BY <1>1, <2>2 DEF Gapless
  <2> QED
    BY <2>2, <2>3
<1>8. Ascends(ring'.msgs)
  <2> DEFINE s == Built
             t == ring.msgs
  <2>1. s \in Seq(Nat) /\ t \in Seq(Nat) /\ Ascends(s) /\ Ascends(t)
        /\ \A x \in Range(s), y \in Range(t) : x < y
    BY <1>1, <1>6, <1>7 DEF S, Messages
  <2> HIDE DEF s, t
  <2>2. Ascends(s \o t)
    BY <2>1, ConcatAscends
  <2> QED
    BY <1>2, <2>2 DEF s, t
<1>9. Messages(ring') = Range(Built) \union S
  <2>1. Messages(ring') = Range(Built \o ring.msgs)
    BY <1>2 DEF Messages
  <2> DEFINE s == Built
             t == ring.msgs
  <2>2. s \in Seq(Nat) /\ t \in Seq(Nat)
    BY <1>1, <1>6
  <2> HIDE DEF s, t
  <2>3. Range(s \o t) = Range(s) \union Range(t)
    BY <2>2, ConcatMembers
  <2> QED
    BY <2>1, <2>3 DEF s, t, S, Messages
<1>10. Gapless(Messages(ring'), e)
  <2>1. SUFFICES ASSUME NEW x \in Messages(ring'), NEW t \in Nat, x <= t, t < e
                 PROVE  t \in Messages(ring')
    BY DEF Gapless
  <2>2. x \notin L
    BY <1>4, <1>5, <2>1
  <2>3. x \in S
    BY <1>6, <1>9, <2>1, <2>2
  <2>4. t < b
    BY <1>1, <1>5, <2>1
  <2> QED
    BY <1>1, <1>9, <2>1, <2>3, <2>4 DEF Gapless
<1>11. /\ logs'.cursor = q.cursor /\ logs'.phase \in {"idle", "page"}
       /\ logs'.phase = "page" => logs'.day # None /\ logs'.day <= logs'.cursor.day
       /\ logs'.anchor = IF Built = <<>> THEN logs.anchor ELSE Built[1]
  BY <1>2 DEF PagedBy, q
<1>12. logs'.anchor # None => e <= logs'.anchor
  <2>1. CASE Built = <<>>
    BY <1>1, <1>5, <1>11, <2>1
  <2>2. CASE Built # <<>>
    <3>1. 1 \in DOMAIN Built
      BY <1>6, <2>2
    <3>2. Built[1] \in Range(Built)
      BY <3>1 DEF Range
    <3>3. Built[1] \in L
      BY <1>6, <3>2
    <3> QED
      BY <1>5, <1>11, <2>2, <3>3
  <2> QED
    BY <2>1, <2>2
<1>13. CursorInv'
  <2>1. e <= now' + 1
    BY <1>1, <1>2, <1>5
  <2>2. logs'.cursor.before = e /\ logs'.cursor.day = day
    BY <1>5, <1>11 DEF e
  <2> QED
    BY <1>1, <1>5, <1>11, <1>12, <2>1, <2>2 DEF CursorInv
<1>14. GapInv'
  <2>1. recent'.asked => e <= recent'.before + 1
    BY <1>1, <1>2, <1>5
  <2>2. logs'.cursor.before = e
    BY <1>11 DEF e
  <2> QED
    BY <1>10, <2>1, <2>2 DEF GapInv
<1>15. Ascends(ring.msgs)'
  BY <1>8
<1> QED
  BY <1>13, <1>14, <1>15 DEF OrderInv

LEMMA OrderInvHolds == Spec => []OrderInv
<1>1. Init => OrderInv
  <2>1. SUFFICES ASSUME Init
                 PROVE  OrderInv
    OBVIOUS
  <2>2. Ascends(ring.msgs) /\ now \in Nat
    <3>1. HistoryInv /\ Ascends(ring.msgs)
      BY <2>1, Starts
    <3> QED
      BY <3>1, Numbers DEF HistoryInv
  <2>3. /\ logs.phase = "idle" /\ logs.cursor.before = 0 /\ logs.cursor.day = None
        /\ logs.anchor = None
    <3>1. logs = FirstLogs
      BY <2>1 DEF Init
    <3> QED
      BY <3>1 DEF FirstLogs
  <2>4. CursorInv /\ GapInv
    BY <2>2, <2>3 DEF CursorInv, GapInv, Loading
  <2> QED
    BY <2>2, <2>4 DEF OrderInv
<1>2. HistoryInv /\ OrderInv /\ [Next]_vars => OrderInv'
  <2>1. SUFFICES ASSUME TypeInv, OrderInv, [Next]_vars
                 PROVE  OrderInv'
    BY DEF HistoryInv
  <2>2. CASE Next
    BY <2>1, <2>2, SayOrdered, LinkOrdered, RecentAnswerOrdered, ListOrdered, PageOrdered,
       ResetOrdered, LoadOlderOrdered DEF Next, Answer
  <2>3. CASE UNCHANGED vars
    BY <2>1, <2>3 DEF vars, OrderInv, CursorInv, GapInv, Loading
  <2> QED
    BY <2>1, <2>2, <2>3
<1> QED
  BY <1>1, <1>2, HistoryInvHolds, PTL DEF Spec

\* The channel keeps its messages in the order of the chat, and none of them twice:
\* what is appended, filled in and put in front comes to its place, though the
\* service that is asked for missed messages and the pages of older ones know
\* nothing of each other.
THEOREM HistoryOrder == Spec => []HistoryIsOrdered
<1>1. OrderInv => HistoryIsOrdered
  BY DEF OrderInv, Ascends, HistoryIsOrdered
<1> QED
  BY <1>1, OrderInvHolds, PTL


-----------------------------------------------------------------------------
(* What the paging can still reach *)

SentDays == {DayOf[t] : t \in 1 .. now}

\* No two days that messages were sent on are missing in the list.
FewUnlisted == \A u, c \in SentDays \ logs.days : u = c

\* The list of days is one of the first days; the page on its way is of the next
\* day; a cursor is not behind its day.
PagingInv ==
  /\ logs.days \subseteq SentDays
  /\ \A u \in SentDays \ logs.days, d \in logs.days : d < u
  /\ logs.phase = "list" => ~logs.listed
  /\ logs.phase = "page" => logs.listed /\ logs.day = NextDay(logs)
  /\ Loading => ~logs.exhausted
  /\ logs.anchor <= now
  /\ logs.anchor # None => logs.cursor.day \in SentDays
  /\ logs.cursor.day # None =>
       \A t \in Times : t < logs.cursor.before => DayOf[t] <= logs.cursor.day

\* Until the channel was joined again nothing is filled in, and the ring has
\* nothing in front of the cursor while older messages are on their way.
QuietInv ==
  lastUp = 0 => /\ ~recent.asked
                /\ Loading => \A x \in Messages(ring) : logs.cursor.before <= x

\* What is older than the message the paging stopped at is in front of the cursor,
\* on a day that is not done, and the logs do not count as exhausted.
Reachable ==
  \A t \in 1 .. now : t < logs.anchor =>
    ~logs.exhausted /\ t < logs.cursor.before /\ NotDone(logs, DayOf[t])

ReachInv ==
  logged = Times /\ lastUp = 0 /\ (logs.listed => FewUnlisted) => Reachable

SkipInv == PagingInv /\ QuietInv /\ ReachInv

\* The days on which messages were sent are numbers, in the order of the messages.
LEMMA SentFacts ==
  ASSUME TypeInv
  PROVE  /\ 1 .. now \subseteq Times /\ now \in Nat /\ Times \subseteq Nat
         /\ \A t \in Times : DayOf[t] \in Nat \ {0}
         /\ \A s, t \in Times : s <= t => DayOf[s] <= DayOf[t]
         /\ SentDays \subseteq Nat \ {0}
         /\ \A t \in 1 .. now : DayOf[t] \in SentDays
         /\ \A u \in SentDays : \E t \in 1 .. now : u = DayOf[t]
<1>1. 1 .. now \subseteq Times /\ now \in Nat /\ Times \subseteq Nat
  BY Numbers
<1>2. \A t \in Times : DayOf[t] \in Nat \ {0}
  BY DaysAreNumbers
<1>3. \A s, t \in Times : s <= t => DayOf[s] <= DayOf[t]
  BY HistoryAssumption
<1> QED
  BY <1>1, <1>2, <1>3 DEF SentDays

\* A message is older than the start of a day if it is of an earlier day.
LEMMA StartOfDay ==
  ASSUME NEW t \in Times, NEW d \in Nat
  PROVE  t < StartOf(d) <=> DayOf[t] < d
<1>1. Last_ \in Nat /\ Times = 1 .. Last_ /\ (\A s \in Times : DayOf[s] \in Nat) /\ t \in Nat
  BY DaysAreNumbers DEF Times
<1>2. StartOf(d) \in Nat /\ StartOf(DayOf[t]) \in Nat /\ StartOf(DayOf[t]) <= t
  BY <1>1, StartOfFacts
<1>3. ASSUME ~ (DayOf[t] < d)
      PROVE  ~ (t < StartOf(d))
  <2>1. d <= DayOf[t]
    BY <1>1, <1>3
  <2>2. StartOf(d) <= StartOf(DayOf[t])
    BY <1>1, <2>1, StartOfFacts
  <2> QED
    BY <1>1, <1>2, <2>2
<1>4. ASSUME DayOf[t] < d
      PROVE  t < StartOf(d)
  <2> DEFINE E == {s \in Times : DayOf[s] < d}
  <2>1. 1 .. t \subseteq E
    <3>1. SUFFICES ASSUME NEW s \in 1 .. t
                   PROVE  s \in Times /\ DayOf[s] < d
      OBVIOUS
    <3>2. s \in Times /\ s <= t
      BY <1>1, <3>1
    <3>3. DayOf[s] <= DayOf[t]
      BY <3>2, HistoryAssumption
    <3> QED
      BY <1>1, <1>4, <3>2, <3>3
  <2>2. IsFiniteSet(E)
    <3>1. IsFiniteSet(Times)
      BY <1>1, FS_Interval
    <3>2. E \subseteq Times
      OBVIOUS
    <3> QED
      BY <3>1, <3>2, FS_Subset
  <2>3. Cardinality(1 .. t) = t
    <3>1. Cardinality(1 .. t) = IF 1 > t THEN 0 ELSE t - 1 + 1
      BY <1>1, FS_Interval
    <3> QED
      BY <1>1, <3>1
  <2>4. Cardinality(1 .. t) <= Cardinality(E) /\ Cardinality(E) \in Nat
    BY <2>1, <2>2, FS_Subset, FS_CardinalityType
  <2>5. StartOf(d) = Cardinality(E) + 1
    BY DEF StartOf
  <2> HIDE DEF E
  <2> QED
    BY <1>1, <2>3, <2>4, <2>5
<1> QED
  BY <1>3, <1>4

\* The next day is not done, and it is the day of the cursor or a listed one; no
\* listed day that is not done is passed over.
LEMMA NextDayOf ==
  ASSUME NEW l \in LogsRec
  PROVE  /\ NextDay(l) # None => /\ NotDone(l, NextDay(l))
                                 /\ NextDay(l) = l.cursor.day \/ NextDay(l) \in l.days
         /\ \A u \in l.days : NotDone(l, u) /\ u <= l.cursor.day => NextDay(l) # None /\ u <= NextDay(l)
         /\ (NotDone(l, l.cursor.day) /\ \A d \in l.days : d < l.cursor.day) =>
               NextDay(l) = l.cursor.day
<1> DEFINE c == l.cursor.day
           listed == {d \in l.days : d <= c /\ NotDone(l, d)}
           first == NotDone(l, c) /\ \A d \in l.days : d < c
<1>1. c \in Nat /\ l.days \subseteq Days /\ l.days \subseteq Nat \ {0}
  BY DaysAreNumbers DEF LogsRec
<1>2. NextDay(l) = IF first THEN c ELSE IF listed # {} THEN Max(listed) ELSE None
  BY DEF NextDay
<1>3. listed \subseteq 0 .. c
  BY <1>1
<1>4. listed # {} => Max(listed) \in listed /\ \A x \in listed : x <= Max(listed)
  <2> HIDE DEF listed, c
  <2> QED
    BY <1>1, <1>3, Greatest
<1>5. \A u \in listed : u \in l.days /\ u \in Nat \ {0} /\ NotDone(l, u)
  BY <1>1
<1>6. \A u \in l.days : NotDone(l, u) /\ u <= c => u \in listed
  OBVIOUS
<1>7. NextDay(l) # None => /\ NotDone(l, NextDay(l))
                           /\ NextDay(l) = c \/ NextDay(l) \in l.days
  <2> HIDE DEF listed
  <2> QED
    BY <1>2, <1>4, <1>5
<1>8. ASSUME NEW u \in l.days, NotDone(l, u), u <= c
      PROVE  NextDay(l) # None /\ u <= NextDay(l)
  <2>1. u \in listed /\ u \in Nat \ {0}
    BY <1>1, <1>6, <1>8
  <2>2. CASE first
    <3>1. NextDay(l) = c /\ u < c
      BY <1>2, <1>8, <2>2
    <3> QED
      BY <1>1, <2>1, <3>1 DEF None
  <2>3. CASE ~first
    <3> HIDE DEF listed, first
    <3>1. NextDay(l) = Max(listed) /\ Max(listed) \in listed /\ u <= Max(listed)
      BY <1>2, <1>4, <2>1, <2>3
    <3> QED
      BY <1>5, <3>1 DEF None
  <2> QED
    BY <2>2, <2>3
<1>9. first => NextDay(l) = c
  BY <1>2
<1> QED
  BY <1>7, <1>8, <1>9

\* With one day that the list lacks, no day that can be reached is passed over.
LEMMA NothingBetween ==
  ASSUME TypeInv, NEW l \in LogsRec, l.days = logs.days,
         \A u \in SentDays \ logs.days, d \in logs.days : d < u,
         FewUnlisted, l.cursor.day \in SentDays,
         NEW u \in SentDays, u <= l.cursor.day, NotDone(l, u)
  PROVE  NextDay(l) # None /\ u <= NextDay(l)
<1> DEFINE c == l.cursor.day
<1>1. c \in Nat \ {0} /\ u \in Nat \ {0} /\ c \in SentDays /\ u <= c
  BY SentFacts
<1>2. CASE u \in l.days
  BY <1>2, NextDayOf
<1>3. CASE u \notin l.days
  <2>1. \A d \in l.days : d < u /\ d \in Nat
    <3>1. l.days \subseteq Nat
      BY DaysAreNumbers DEF LogsRec
    <3> QED
      BY <1>3, <3>1
  <2>2. \A d \in l.days : d < c
    BY <1>1, <2>1
  <2>3. c \notin l.days
    BY <1>1, <2>2
  <2>4. c = u
    BY <1>1, <1>3, <2>3 DEF FewUnlisted
  <2>5. NextDay(l) = c
    BY <2>2, <2>4, NextDayOf
  <2> QED
    BY <1>1, <2>4, <2>5 DEF None
<1> QED
  BY <1>2, <1>3

\* A pushed message is the only new one of a ring.
LEMMA PushMembers ==
  ASSUME NEW M, M \subseteq Nat, NEW r, RingOk(r, M), NEW m \in M
  PROVE  Messages(Push(r, m)) \subseteq Messages(r) \union {m}
<1> DEFINE s == r.msgs
           a == Append(s, m)
           k == r.limit + RoomForOne(r)
<1>1. s \in Seq(M) /\ k \in Nat
  <2>1. r.limit \in Nat /\ RoomForOne(r) \in Nat
    BY DEF RingOk, Ring, RoomForOne
  <2> QED
    BY <2>1 DEF RingOk
<1>2. Push(r, m).msgs = Newest(a, k)
  BY PushFacts
<1> HIDE DEF s, k
<1>3. a \in Seq(M) /\ Range(a) \subseteq Range(s) \union {m}
  <2>1. a \in Seq(M) /\ Len(a) = Len(s) + 1 /\ Len(s) \in Nat /\ DOMAIN s = 1 .. Len(s)
        /\ \A i \in 1 .. Len(s) : a[i] = s[i]
    BY <1>1
  <2>2. a[Len(s) + 1] = m /\ DOMAIN a = 1 .. Len(s) + 1
    BY <1>1
  <2> HIDE DEF a
  <2>3. \A i \in DOMAIN a : i \in DOMAIN s \/ i = Len(s) + 1
    BY <2>1, <2>2
  <2> QED
    BY <2>1, <2>2, <2>3 DEF Range
<1> HIDE DEF a
<1>4. Range(Newest(a, k)) \subseteq Range(a)
  BY <1>1, <1>3, NewestMembers
<1> QED
  BY <1>2, <1>3, <1>4 DEF Messages, s

\* A message more does not change what can be reached.
LEMMA SaySkips ==
  ASSUME TypeInv, OrderInv, SkipInv, Say
  PROVE  SkipInv'
<1> DEFINE n == now + 1
<1>1. /\ now' = n /\ now < Last_ /\ UNCHANGED <<lastUp, recent, logged, logs>>
      /\ ring' = ring \/ ring' = Push(ring, n)
  BY DEF Say
<1>2. now \in Nat /\ n \in Nat /\ n \in Times /\ 1 .. now \subseteq 1 .. n /\ n \in 1 .. n
      /\ (\A t \in 1 .. n : t \in 1 .. now \/ t = n)
  BY <1>1, Numbers
<1>3. /\ 1 .. now \subseteq Times /\ Times \subseteq Nat
      /\ \A t \in Times : DayOf[t] \in Nat \ {0}
      /\ \A s, t \in Times : s <= t => DayOf[s] <= DayOf[t]
  BY SentFacts
<1>4. SentDays \subseteq SentDays' /\ \A u \in SentDays' : u \in SentDays \/ u = DayOf[n]
  <2> HIDE DEF n
  <2> QED
    BY <1>1, <1>2 DEF SentDays
<1>5. PagingInv'
  <2>1. /\ logs.days \subseteq SentDays
        /\ \A u \in SentDays \ logs.days, d \in logs.days : d < u
        /\ logs.phase = "list" => ~logs.listed
        /\ logs.phase = "page" => logs.listed /\ logs.day = NextDay(logs)
        /\ Loading => ~logs.exhausted
        /\ logs.anchor <= now /\ logs.anchor \in Nat
        /\ logs.anchor # None => logs.cursor.day \in SentDays
        /\ logs.cursor.day # None =>
             \A t \in Times : t < logs.cursor.before => DayOf[t] <= logs.cursor.day
    BY CursorNumbers DEF SkipInv, PagingInv
  <2>2. ASSUME NEW u \in SentDays' \ logs.days, NEW d \in logs.days
        PROVE  d < u
    <3>1. CASE u \in SentDays
      BY <2>1, <3>1
    <3>2. CASE u = DayOf[n]
      <4>1. PICK t \in 1 .. now : d = DayOf[t]
        BY <2>1, SentFacts
      <4>2. t \in Times /\ t <= n /\ u # d
        BY <1>2, <1>3, <2>2
      <4>3. DayOf[t] <= DayOf[n] /\ DayOf[t] \in Nat /\ DayOf[n] \in Nat
        BY <1>2, <1>3, <4>2
      <4> QED
        BY <3>2, <4>1, <4>2, <4>3
    <3> QED
      BY <1>4, <3>1, <3>2
  <2>3. logs'.anchor <= now'
    BY <1>1, <1>2, <2>1
  <2> HIDE DEF n
  <2> QED
    BY <1>1, <1>4, <2>1, <2>2, <2>3 DEF PagingInv, Loading
<1>6. QuietInv'
  <2>1. SUFFICES ASSUME lastUp = 0
                 PROVE  /\ ~recent'.asked
                        /\ Loading' => \A x \in Messages(ring') : logs'.cursor.before <= x
    BY <1>1 DEF QuietInv
  <2>2. ~recent.asked /\ (Loading => \A x \in Messages(ring) : logs.cursor.before <= x)
    BY <2>1 DEF SkipInv, QuietInv
  <2>3. logs.cursor.before <= n
    BY DEF OrderInv, CursorInv
  <2>4. Messages(ring') \subseteq Messages(ring) \union {n}
    <3>1. CASE ring' = ring
      BY <3>1
    <3>2. CASE ring' = Push(ring, n)
      <4>1. RingOk(ring, 1 .. now) /\ 1 .. n \subseteq Nat
        BY <1>2 DEF TypeInv
      <4> HIDE DEF n
      <4>2. RingOk(ring, 1 .. n)
        BY <1>2, <4>1, RingOkGrows
      <4>3. Messages(Push(ring, n)) \subseteq Messages(ring) \union {n}
        BY <1>2, <4>1, <4>2, PushMembers
      <4> QED
        BY <3>2, <4>3
    <3> QED
      BY <1>1, <3>1, <3>2
  <2> HIDE DEF n
  <2> QED
    BY <1>1, <2>2, <2>3, <2>4 DEF Loading
<1>7. ReachInv'
  <2>1. SUFFICES ASSUME logged = Times, lastUp = 0, logs.listed => FewUnlisted'
                 PROVE  Reachable'
    BY <1>1 DEF ReachInv
  <2>2. FewUnlisted' => FewUnlisted
    BY <1>1, <1>4 DEF FewUnlisted
  <2>3. Reachable
    BY <2>1, <2>2 DEF SkipInv, ReachInv
  <2>4. logs.anchor <= now /\ logs.anchor \in Nat
    BY CursorNumbers DEF SkipInv, PagingInv
  <2>5. \A t \in 1 .. n : t < logs.anchor => t \in 1 .. now
    BY <1>2, <2>4
  <2> HIDE DEF n
  <2> QED
    BY <1>1, <2>3, <2>5 DEF Reachable
<1> QED
  BY <1>5, <1>6, <1>7 DEF SkipInv

\* Nor does the connection, until the channel is joined again, nor a view.
LEMMA LinkSkips ==
  ASSUME TypeInv, SkipInv,
         \/ Lose \/ Notice \/ Rejoin \/ RecentFails \/ RecentAnswer
         \/ \E w \in Views : ClearView(w)
  PROVE  SkipInv'
<1>1. UNCHANGED <<now, logs, logged>>
  BY DEF Lose, Notice, Rejoin, RecentFails, RecentAnswer, ClearView
<1>2. now \in Nat /\ now # 0 /\ lastUp \in Nat
  BY Numbers DEF TypeInv, Times
<1>3. lastUp' = 0 => /\ lastUp = 0
                     /\ recent' = recent \/ recent' = NoRequest
                     /\ UNCHANGED ring
  <2>1. CASE RecentAnswer
    BY <2>1 DEF RecentAnswer, SkipInv, QuietInv
  <2>2. CASE Lose
    <3>1. lastUp' \in lastUp .. now /\ UNCHANGED <<recent, ring>>
      BY <2>2 DEF Lose
    <3> QED
      BY <1>2, <3>1
  <2>3. CASE Rejoin
    BY <1>2, <2>3 DEF Rejoin
  <2>4. CASE Notice \/ RecentFails \/ \E w \in Views : ClearView(w)
    BY <2>4 DEF Notice, RecentFails, ClearView
  <2> QED
    BY <2>1, <2>2, <2>3, <2>4
<1>4. PagingInv'
  BY <1>1 DEF SkipInv, PagingInv, SentDays, Loading
<1>5. QuietInv'
  BY <1>1, <1>3 DEF SkipInv, QuietInv, Loading, NoRequest
<1>6. ReachInv'
  BY <1>1, <1>3 DEF SkipInv, ReachInv, FewUnlisted, Reachable, SentDays
<1> QED
  BY <1>4, <1>5, <1>6 DEF SkipInv

\* Nor does what the ring forgets.
LEMMA ResetSkips ==
  ASSUME TypeInv, SkipInv,
         Clear \/ \E w \in Views : ScrollToBottom(w) \/ Open(w) \/ Close(w)
  PROVE  SkipInv'
<1>1. /\ UNCHANGED <<now, lastUp, recent, logs, logged>>
      /\ Messages(ring') \subseteq Messages(ring)
  BY ResetKeeps
<1>2. PagingInv'
  BY <1>1 DEF SkipInv, PagingInv, SentDays, Loading
<1>3. QuietInv'
  BY <1>1 DEF SkipInv, QuietInv, Loading
<1>4. ReachInv'
  BY <1>1 DEF SkipInv, ReachInv, FewUnlisted, Reachable, SentDays
<1> QED
  BY <1>2, <1>3, <1>4 DEF SkipInv

\* What a request for older messages finds at its begin can be reached.
LEMMA LoadOlderSkips ==
  ASSUME TypeInv, OrderInv, SkipInv, NEW w \in Views, ScrollToTop(w) \/ ChatFits(w)
  PROVE  SkipInv'
<1>1. PICK a \in {[view[w] EXCEPT !.owns = TRUE], [view[w] EXCEPT !.fitted = TRUE]} : LoadOlder(w, a)
  BY DEF ScrollToTop, ChatFits
<1>2. /\ ~recent.asked /\ logs.phase = "idle" /\ UNCHANGED <<now, lastUp, recent, ring, logged>>
      /\ \E d \in Nat \ {0}, l \in LogsRec :
           StartOf(d) <= now + 1 /\ DayOf[now] <= d /\ AnchoredAt(l, d) /\ Asks(l, logs')
  BY <1>1, LoadOlderFacts
<1>3. PICK d \in Nat \ {0}, l \in LogsRec :
         StartOf(d) <= now + 1 /\ DayOf[now] <= d /\ AnchoredAt(l, d) /\ Asks(l, logs')
  BY <1>2
<1> DEFINE k == logs'
           c == l.cursor
<1>4. /\ k \in LogsRec
      /\ k.listed = l.listed /\ k.days = l.days /\ k.doneFrom = l.doneFrom
      /\ k.cursor = c /\ k.anchor = l.anchor
      /\ k.phase = "page" => k.day = NextDay(k) /\ k.listed /\ ~k.exhausted
      /\ k.phase = "list" => ~k.listed /\ ~k.exhausted
      /\ k.exhausted => l.exhausted \/ (k.listed /\ NextDay(k) = None)
  BY <1>3 DEF Asks, SameLogs
<1>5. /\ 1 .. now \subseteq Times /\ now \in Nat /\ now \in Times /\ Times \subseteq Nat
      /\ \A t \in Times : DayOf[t] \in Nat \ {0}
      /\ \A s, t \in Times : s <= t => DayOf[s] <= DayOf[t]
      /\ \A t \in 1 .. now : DayOf[t] \in SentDays
      /\ Oldest \in 0 .. now /\ (Oldest # None => Oldest \in 1 .. now)
  BY SentFacts, OldestFacts DEF TypeInv
<1>6. /\ l.days = logs.days /\ l.listed = logs.listed /\ l.anchor = Oldest
      /\ \/ l = logs /\ logs.cursor.day # None
         \/ /\ c.day = IF Oldest = None THEN d ELSE DayOf[Oldest]
            /\ c.before = IF Oldest = None THEN now + 1 ELSE Oldest
            /\ l.doneFrom = None /\ ~l.exhausted
  BY <1>3 DEF AnchoredAt
<1>7. /\ logs.days \subseteq SentDays
      /\ \A u \in SentDays \ logs.days, x \in logs.days : x < u
      /\ logs.anchor # None => logs.cursor.day \in SentDays
      /\ logs.cursor.day # None =>
           \A t \in Times : t < logs.cursor.before => DayOf[t] <= logs.cursor.day
  BY DEF SkipInv, PagingInv
<1>8. /\ Oldest # None => c.day \in SentDays
      /\ \A t \in Times : t < c.before => DayOf[t] <= c.day
  <2>1. CASE l = logs /\ logs.cursor.day # None
    BY <1>6, <1>7, <2>1
  <2>2. CASE Oldest = None /\ c.day = d /\ c.before = now + 1
    <3>1. \A t \in Times : t < now + 1 => DayOf[t] <= d
      <4>1. TAKE t \in Times
      <4>2. HAVE t < now + 1
      <4>3. DayOf[t] <= DayOf[now] /\ DayOf[t] \in Nat /\ DayOf[now] \in Nat
        BY <1>5, <4>2
      <4> QED
        BY <1>3, <4>3
    <3> QED
      BY <2>2, <3>1
  <2>3. CASE Oldest # None /\ c.day = DayOf[Oldest] /\ c.before = Oldest
    BY <1>5, <2>3
  <2> QED
    BY <1>6, <2>1, <2>2, <2>3
<1> HIDE DEF k, c
<1>9. PagingInv'
  <2>1. /\ k.days \subseteq SentDays
        /\ \A u \in SentDays \ k.days, x \in k.days : x < u
        /\ k.anchor <= now
        /\ k.anchor # None => k.cursor.day \in SentDays
        /\ \A t \in Times : t < k.cursor.before => DayOf[t] <= k.cursor.day
    BY <1>4, <1>5, <1>6, <1>7, <1>8
  <2>2. SentDays' = SentDays
    BY <1>2 DEF SentDays
  <2> QED
    BY <1>2, <1>4, <2>1, <2>2 DEF PagingInv, Loading, k
<1>10. QuietInv'
  <2>1. OrderInv'
    BY LoadOlderOrdered
  <2>2. k.anchor # None => k.cursor.before <= k.anchor
    BY <2>1 DEF OrderInv, CursorInv, k
  <2>3. k.cursor.before \in Nat
    BY <1>4 DEF LogsRec
  <2>4. \A x \in Messages(ring) : k.cursor.before <= x
    <3>1. TAKE x \in Messages(ring)
    <3>2. Ascends(ring.msgs) /\ ring.msgs \in Seq(1 .. now)
      BY CursorNumbers DEF OrderInv
    <3>3. PICK i \in DOMAIN ring.msgs : x = ring.msgs[i]
      BY DEF Messages, Range
    <3>4. 1 \in DOMAIN ring.msgs /\ (1 < i \/ i = 1) /\ ring.msgs # <<>>
      BY <3>2, <3>3
    <3>5. Oldest = ring.msgs[1] /\ Oldest # None
      BY <3>4, OldestFacts
    <3>6. Oldest <= x /\ x \in Nat /\ Oldest \in Nat
      BY <1>5, <3>2, <3>3, <3>4, <3>5 DEF Ascends
    <3> QED
      BY <1>4, <1>6, <2>2, <2>3, <3>5, <3>6
  <2> QED
    BY <1>2, <2>4 DEF QuietInv, k
<1>11. ReachInv'
  <2>1. SUFFICES ASSUME logged = Times, lastUp = 0, logs'.listed => FewUnlisted'
                 PROVE  Reachable'
    BY <1>2 DEF ReachInv
  <2>2. k.listed => FewUnlisted
    BY <1>2, <1>4, <1>6, <2>1 DEF FewUnlisted, SentDays, k
  <2>3. ASSUME NEW t \in 1 .. now, t < k.anchor
        PROVE  ~k.exhausted /\ t < k.cursor.before /\ NotDone(k, DayOf[t])
    <3>1. Oldest # None /\ t < Oldest /\ t \in Times /\ Oldest \in 1 .. now
      BY <1>4, <1>5, <1>6, <2>3 DEF None
    <3>2. ~l.exhausted /\ t < c.before /\ NotDone(l, DayOf[t])
      <4>1. CASE l = logs
        <5>1. Reachable
          BY <1>4, <1>6, <2>1, <2>2 DEF SkipInv, ReachInv
        <5> QED
          BY <1>4, <2>3, <4>1, <5>1 DEF Reachable, c
      <4>2. CASE /\ c.before = IF Oldest = None THEN now + 1 ELSE Oldest
                 /\ l.doneFrom = None /\ ~l.exhausted
        BY <3>1, <4>2 DEF NotDone
      <4> QED
        BY <1>6, <4>1, <4>2
    <3>3. NotDone(k, DayOf[t])
      BY <1>4, <3>2 DEF NotDone
    <3>4. ASSUME k.exhausted
          PROVE  FALSE
      <4>1. k.listed /\ NextDay(k) = None
        BY <1>4, <3>2, <3>4
      <4> DEFINE u == DayOf[t]
      <4>2. /\ k.days = logs.days /\ FewUnlisted /\ k.cursor.day \in SentDays
            /\ u \in SentDays /\ u <= k.cursor.day /\ NotDone(k, u)
        BY <1>4, <1>5, <1>6, <1>8, <2>2, <3>1, <3>2, <3>3, <4>1
      <4> HIDE DEF u
      <4>3. NextDay(k) # None
        BY <1>4, <1>7, <4>2, NothingBetween
      <4> QED
        BY <4>1, <4>3
    <3> QED
      BY <1>4, <3>2, <3>3, <3>4
  <2> QED
    BY <1>2, <2>3 DEF Reachable, k
<1> QED
  BY <1>9, <1>10, <1>11 DEF SkipInv

\* The list of days is there: which ones, and what is asked for next.
LEMMA ListAnswered ==
  ASSUME TypeInv, ListAnswer
  PROVE  /\ logs.phase = "list" /\ logs' \in LogsRec
         /\ logs'.listed /\ logs'.days = SentDays
         /\ logs'.cursor = logs.cursor /\ logs'.anchor = logs.anchor
         /\ logs'.doneFrom = logs.doneFrom
         /\ logs'.phase # "list"
         /\ logs'.phase = "page" => logs'.day = NextDay(logs') /\ logs'.exhausted = logs.exhausted
         /\ logs'.exhausted => logs.exhausted \/ NextDay(logs') = None
<1> DEFINE days == {DayOf[t] : t \in logged \cap 1 .. now}
           l == [logs EXCEPT !.listed = TRUE, !.days = days]
<1>1. logs \in LogsRec /\ now \in Nat /\ 1 .. now \subseteq Times
  BY Numbers DEF TypeInv
<1>2. logs' = Fetch(l, Pages, PageSize) /\ logs.phase = "list" /\ logged # {}
  BY DEF ListAnswer
<1>3. days = SentDays /\ days \subseteq Days
  <2>1. logged = Times
    BY <1>2 DEF TypeInv
  <2>2. days = SentDays
    BY <1>1, <2>1 DEF SentDays
  <2> QED
    BY <1>1, <2>2, DaysAreNumbers DEF SentDays
<1> HIDE DEF days
<1>4. l \in LogsRec
  BY <1>1, <1>3 DEF LogsRec
<1>5. l.cursor = logs.cursor /\ l.anchor = logs.anchor /\ l.doneFrom = logs.doneFrom
  BY <1>1 DEF LogsRec
<1>6. l.listed /\ l.days = days /\ l.exhausted = logs.exhausted
  BY <1>1 DEF LogsRec
<1>7. Pages \in Nat /\ PageSize \in Nat \ {0}
  BY HistoryAssumption
<1> HIDE DEF l
<1>8. Fetched(l, Pages, PageSize, logs')
  BY <1>2, <1>4, <1>7, FetchFacts
<1>9. SameLogs(logs', l) /\ NextDay(logs') = NextDay(l)
  BY <1>8, NextDaySame DEF Fetched
<1>10. /\ logs' \in LogsRec /\ logs'.phase # "list"
       /\ logs'.phase = "page" => logs'.day = NextDay(l) /\ logs'.exhausted = l.exhausted
       /\ logs'.exhausted => l.exhausted \/ NextDay(l) = None
  BY <1>8 DEF Fetched
<1> QED
  BY <1>2, <1>3, <1>5, <1>6, <1>9, <1>10 DEF SameLogs

\* The list of days, or none, or a failed request, leaves what could be reached.
LEMMA ListSkips ==
  ASSUME TypeInv, SkipInv, ListAnswer \/ ListNotFound \/ RequestFails
  PROVE  SkipInv'
<1>1. /\ logs' \in LogsRec
      /\ logs'.cursor = logs.cursor /\ logs'.anchor = logs.anchor
      /\ logs'.phase # "list"
      /\ UNCHANGED <<now, lastUp, recent, ring, logged>>
      /\ logs.phase \in {"list", "page"}
  BY ListFacts DEF ListAnswer, ListNotFound, RequestFails
<1>2. /\ logs.days \subseteq SentDays
      /\ \A u \in SentDays \ logs.days, x \in logs.days : x < u
      /\ logs.phase = "list" => ~logs.listed
      /\ ~logs.exhausted
      /\ logs.anchor <= now
      /\ logs.anchor # None => logs.cursor.day \in SentDays
      /\ logs.cursor.day # None =>
           \A t \in Times : t < logs.cursor.before => DayOf[t] <= logs.cursor.day
  BY <1>1 DEF SkipInv, PagingInv, Loading
<1>3. SentDays' = SentDays
  BY <1>1 DEF SentDays
<1>4. QuietInv'
  BY <1>1 DEF SkipInv, QuietInv, Loading
<1>5. CASE ListAnswer
  <2> DEFINE k == logs'
  <2>1. /\ logs.phase = "list" /\ k.listed /\ k.days = SentDays /\ k.doneFrom = logs.doneFrom
        /\ k.phase = "page" => k.day = NextDay(k) /\ k.exhausted = logs.exhausted
        /\ k.exhausted => logs.exhausted \/ NextDay(k) = None
    BY <1>5, ListAnswered
  <2>2. PagingInv'
    BY <1>1, <1>2, <1>3, <2>1 DEF PagingInv, Loading
  <2>3. ReachInv'
    <3>1. SUFFICES ASSUME logged = Times, lastUp = 0
                   PROVE  Reachable'
      BY <1>1 DEF ReachInv
    <3>2. Reachable
      BY <1>2, <2>1, <3>1 DEF SkipInv, ReachInv
    <3>3. k \in LogsRec /\ k.cursor = logs.cursor /\ k.anchor = logs.anchor /\ k.phase # "list"
      BY <1>1
    <3> HIDE DEF k
    <3>4. ASSUME NEW t \in 1 .. now, t < k.anchor
          PROVE  ~k.exhausted /\ t < k.cursor.before /\ NotDone(k, DayOf[t])
      <4> DEFINE u == DayOf[t]
      <4>1. t < logs.cursor.before /\ NotDone(logs, u) /\ t \in Times /\ u \in SentDays
            /\ logs.anchor # None
        <5>1. t \in Times /\ u \in SentDays /\ t \in Nat
          BY SentFacts
        <5>2. logs.anchor # None
          BY <3>3, <3>4, <5>1 DEF None
        <5> QED
          BY <3>2, <3>3, <3>4, <5>1, <5>2 DEF Reachable
      <4>2. NotDone(k, u)
        BY <2>1, <4>1 DEF NotDone
      <4>3. u <= k.cursor.day
        <5>1. logs.cursor.day \in SentDays
          BY <1>2, <4>1
        <5>2. logs.cursor.day # None
          BY <5>1, SentFacts DEF None
        <5> QED
          BY <1>2, <3>3, <4>1, <5>2
      <4> HIDE DEF u
      <4>4. NextDay(k) # None
        <5>1. u \in k.days
          BY <2>1, <4>1
        <5> QED
          BY <3>3, <4>2, <4>3, <5>1, NextDayOf
      <4> QED
        BY <1>2, <2>1, <3>3, <4>1, <4>2, <4>4 DEF u
    <3> QED
      BY <1>1, <3>4 DEF Reachable, k
  <2> QED
    BY <1>4, <2>2, <2>3 DEF SkipInv
<1>6. CASE RequestFails
  <2>1. logs' = Idle(logs) /\ logs \in LogsRec
    BY <1>6 DEF RequestFails, TypeInv
  <2>2. /\ logs'.listed = logs.listed /\ logs'.days = logs.days /\ logs'.doneFrom = logs.doneFrom
        /\ logs'.phase = "idle" /\ logs'.exhausted = logs.exhausted
    BY <2>1, IdleFacts DEF SameLogs
  <2>3. PagingInv'
    BY <1>1, <1>2, <1>3, <2>2 DEF PagingInv, Loading
  <2>4. ReachInv'
    BY <1>1, <1>3, <2>2 DEF SkipInv, ReachInv, FewUnlisted, Reachable, NotDone
  <2> QED
    BY <1>4, <2>3, <2>4 DEF SkipInv
<1>7. CASE ListNotFound
  <2> DEFINE i == Idle(logs)
  <2>1. logs' = [i EXCEPT !.listed = TRUE, !.exhausted = TRUE] /\ logged = {}
    BY <1>7 DEF ListNotFound
  <2>2. i \in LogsRec /\ i.days = logs.days /\ i.phase = "idle"
    BY IdleFacts DEF SameLogs, TypeInv
  <2> HIDE DEF i
  <2>3. logs'.days = logs.days /\ logs'.phase = "idle"
    BY <2>1, <2>2 DEF LogsRec
  <2>4. PagingInv'
    BY <1>1, <1>2, <1>3, <2>3 DEF PagingInv, Loading
  <2>5. ReachInv'
    <3>1. now \in Times
      BY DEF TypeInv
    <3> QED
      BY <1>1, <2>1, <3>1 DEF ReachInv
  <2> QED
    BY <1>4, <2>4, <2>5 DEF SkipInv
<1> QED
  BY <1>5, <1>6, <1>7

\* A page reaches what is older than its oldest new line, or, without a new one,
\* ends its day: nothing between it and the page before was passed over.
LEMMA PageSkips ==
  ASSUME TypeInv, OrderInv, SkipInv, PageAnswer
  PROVE  SkipInv'
<1> DEFINE k == logs'
           b == logs.cursor.before
           c == logs.cursor.day
           day == logs.day
           e == k.cursor.before
           L == Range(Lines)
           S == Messages(ring)
           h == Built[1]
           x1 == Lines[1]
<1>1. /\ logs \in LogsRec /\ logs.phase = "page" /\ Loading
      /\ b \in Nat /\ c \in Nat /\ day \in Nat /\ now \in Nat
      /\ day # None /\ day <= c /\ c # None
  <2>1. logs.phase = "page" /\ Loading
    BY DEF PageAnswer, Loading
  <2> QED
    BY <2>1, CursorNumbers DEF TypeInv, OrderInv, CursorInv
<1>2. /\ logs.days \subseteq SentDays
      /\ \A u \in SentDays \ logs.days, x \in logs.days : x < u
      /\ logs.listed /\ day = NextDay(logs) /\ ~logs.exhausted
      /\ logs.anchor <= now
      /\ logs.anchor # None => c \in SentDays
      /\ \A t \in Times : t < b => DayOf[t] <= c
  BY <1>1 DEF SkipInv, PagingInv
<1>3. /\ UNCHANGED <<now, lastUp, recent, logged>>
      /\ ring'.msgs = Built \o ring.msgs
      /\ PagedBy(k)
  BY PageFacts DEF PageAnswer
<1>4. /\ k \in LogsRec /\ k.phase \in {"idle", "page"}
      /\ k.phase = "page" => k.day = NextDay(k) /\ ~k.exhausted
      /\ k.exhausted => NextDay(k) = None
      /\ k.listed /\ k.days = logs.days
      /\ k.anchor = IF Built = <<>> THEN logs.anchor ELSE h
  BY <1>2, <1>3 DEF PagedBy
<1>5. /\ k.cursor.day = day /\ e \in Nat
      /\ \/ Len(Lines) < logs.wanted /\ e = StartOf(day) /\ k.doneFrom = day
         \/ Lines # <<>> /\ e = x1 /\ x1 \in L /\ k.doneFrom = logs.doneFrom
  <2>1. k.cursor = Behind(Lines).cursor /\ k.doneFrom = Behind(Lines).doneFrom
    BY <1>3 DEF PagedBy
  <2>2. k.cursor.before \in Nat
    BY <1>4 DEF LogsRec
  <2> QED
    BY <1>1, <2>1, <2>2, BehindFacts
<1>6. /\ 1 .. now \subseteq Times /\ Times \subseteq Nat
      /\ \A t \in Times : DayOf[t] \in Nat \ {0}
      /\ \A s, t \in Times : s <= t => DayOf[s] <= DayOf[t]
      /\ SentDays \subseteq Nat \ {0}
      /\ \A t \in 1 .. now : DayOf[t] \in SentDays
  BY SentFacts
<1>7. \A t \in Times : /\ t < StartOf(day) <=> DayOf[t] < day
                       /\ t < StartOf(day + 1) <=> DayOf[t] < day + 1
  <2>1. day \in Nat /\ day + 1 \in Nat
    BY <1>1
  <2> HIDE DEF day
  <2> QED
    BY <2>1, StartOfDay
<1>8. /\ Lines \in Seq(1 .. now) /\ Ascends(Lines) /\ L \subseteq 1 .. now
      /\ \A x \in L : DayOf[x] = day /\ (day = c => x < b)
      /\ Len(Lines) < logs.wanted =>
           \A t \in logged \cap (1 .. now) : DayOf[t] = day /\ (day = c => t < b) => t \in L
  <2>1. /\ Lines \in Seq(1 .. now) /\ Ascends(Lines)
        /\ \A x \in L : /\ StartOf(day) <= x
                        /\ day = c => x < b
                        /\ day # c => x < StartOf(day + 1)
        /\ Len(Lines) < logs.wanted =>
             \A x \in logged \cap (1 .. now) :
               (/\ StartOf(day) <= x
                /\ day = c => x < b
                /\ day # c => x < StartOf(day + 1)) => x \in L
    BY LinesFacts
  <2>2. L \subseteq 1 .. now
    <3> DEFINE s == Lines
               M == 1 .. now
    <3>1. s \in Seq(M)
      BY <2>1
    <3> HIDE DEF s, M
    <3>2. Range(s) \subseteq M
      BY <3>1 DEF Range
    <3> QED
      BY <3>2 DEF s, M
  <2>3. StartOf(day) \in Nat
    <3>1. day \in Nat
      BY <1>1
    <3> HIDE DEF day
    <3> QED
      BY <3>1, StartOfFacts
  <2> HIDE DEF L, day, b, c
  <2>4. ASSUME NEW x \in L
        PROVE  DayOf[x] = day
    <3>1. x \in Times /\ x \in Nat /\ DayOf[x] \in Nat
      BY <1>6, <2>2
    <3>2. ~(DayOf[x] < day)
      BY <1>7, <2>1, <2>3, <3>1
    <3>3. DayOf[x] < day + 1
      <4>1. CASE day = c
        <5>1. DayOf[x] <= c
          BY <1>2, <2>1, <3>1, <4>1
        <5> QED
          BY <1>1, <3>1, <4>1, <5>1
      <4>2. CASE day # c
        BY <1>7, <2>1, <3>1, <4>2
      <4> QED
        BY <4>1, <4>2
    <3> QED
      BY <1>1, <3>1, <3>2, <3>3
  <2>5. ASSUME Len(Lines) < logs.wanted, NEW t \in logged \cap (1 .. now), DayOf[t] = day,
               day = c => t < b
        PROVE  t \in L
    <3>1. t \in Times /\ t \in Nat
      BY <1>6
    <3>2. StartOf(day) <= t /\ t < StartOf(day + 1)
      BY <1>1, <1>7, <2>3, <2>5, <3>1
    <3> QED
      BY <2>1, <2>5, <3>2
  <2> QED
    BY <2>1, <2>2, <2>4, <2>5
<1>9. Built \in Seq(1 .. now) /\ Ascends(Built) /\ Range(Built) = L \ S
      /\ (Built # <<>> => h \in L /\ h \in 1 .. now)
  <2>1. Built \in Seq(1 .. now) /\ Ascends(Built) /\ Range(Built) = L \ S
    BY BuiltFacts
  <2>2. Built # <<>> => 1 \in DOMAIN Built
    BY <2>1
  <2>3. Built # <<>> => h \in Range(Built)
    BY <2>2 DEF Range
  <2> QED
    BY <1>8, <2>1, <2>3
<1>10. \A x \in L : Lines # <<>> /\ x1 \in L /\ x1 <= x
  <2>1. TAKE x \in L
  <2>2. PICK i \in DOMAIN Lines : x = Lines[i]
    BY DEF Range
  <2>3. 1 \in DOMAIN Lines /\ (1 < i \/ i = 1) /\ Lines # <<>>
    BY <1>8, <2>2
  <2>4. x1 \in L
    BY <2>3 DEF Range
  <2>5. x1 \in Nat /\ x \in Nat
    BY <1>6, <1>8, <2>4
  <2> HIDE DEF L
  <2>6. x1 <= x
    <3>1. 1 < i => Lines[1] < Lines[i]
      BY <1>8, <2>2, <2>3 DEF Ascends
    <3> QED
      BY <2>2, <2>3, <2>5, <3>1
  <2> QED
    BY <2>3, <2>4, <2>6
<1> HIDE DEF k, b, c, day, e, L, S, h, x1
<1>11. k.anchor # None => day \in SentDays
  <2>1. CASE Built = <<>>
    <3>1. day = c \/ day \in logs.days
      BY <1>1, <1>2, NextDayOf DEF c, day
    <3> QED
      BY <1>2, <1>4, <2>1, <3>1
  <2>2. CASE Built # <<>>
    <3>1. h \in 1 .. now /\ DayOf[h] = day
      BY <1>8, <1>9, <2>2
    <3> QED
      BY <1>6, <3>1
  <2> QED
    BY <2>1, <2>2
<1>12. \A t \in Times : t < e => DayOf[t] <= day
  <2>1. TAKE t \in Times
  <2>2. HAVE t < e
  <2>3. DayOf[t] \in Nat /\ t \in Nat
    BY <1>6
  <2>4. CASE e = StartOf(day)
    BY <1>1, <1>7, <2>2, <2>3, <2>4
  <2>5. CASE e = x1 /\ x1 \in L
    <3>1. x1 \in Times /\ DayOf[x1] = day /\ x1 \in Nat
      BY <1>6, <1>8, <2>5
    <3> QED
      BY <1>6, <2>2, <2>3, <2>5, <3>1
  <2> QED
    BY <1>5, <2>4, <2>5
<1>13. PagingInv'
  <2>1. k.anchor <= now
    BY <1>1, <1>2, <1>4, <1>9
  <2>2. SentDays' = SentDays
    BY <1>3 DEF SentDays
  <2> QED
    BY <1>2, <1>3, <1>4, <1>5, <1>11, <1>12, <2>1, <2>2 DEF PagingInv, Loading, k, e
<1>14. S \subseteq 1 .. now /\ (lastUp = 0 => ~recent.asked /\ \A x \in S : b <= x)
  BY <1>1, CursorNumbers DEF SkipInv, QuietInv, S, b
<1>15. QuietInv'
  <2>1. SUFFICES ASSUME lastUp = 0, NEW x \in Messages(ring')
                 PROVE  e <= x
    BY <1>3, <1>14 DEF QuietInv, k, e
  <2>2. x \in L \/ x \in S
    <3>1. Messages(ring') \subseteq Range(Built) \union S
      <4> DEFINE s == Built
                 t == ring.msgs
      <4>1. s \in Seq(1 .. now) /\ t \in Seq(1 .. now) /\ ring'.msgs = s \o t
        BY <1>3, <1>9, CursorNumbers
      <4> HIDE DEF s, t
      <4>2. Range(s \o t) \subseteq Range(s) \union Range(t)
        BY <4>1, ConcatMembers
      <4> QED
        BY <4>1, <4>2 DEF s, t, S, Messages
    <3> QED
      BY <1>9, <2>1, <3>1
  <2>3. ASSUME NEW y \in L
        PROVE  e <= y
    <3>1. y \in Times /\ y \in Nat /\ DayOf[y] = day
      BY <1>6, <1>8
    <3>2. CASE e = StartOf(day)
      BY <1>1, <1>5, <1>7, <3>1, <3>2
    <3>3. CASE e = x1
      BY <1>10, <3>3
    <3> QED
      BY <1>5, <3>2, <3>3
  <2>4. e <= b
    <3>1. OrderInv /\ CursorInv
      BY DEF OrderInv
    <3>2. StartOf(c) <= b
      BY <1>1, <3>1 DEF CursorInv, c, b
    <3>3. StartOf(day) \in Nat /\ StartOf(c) \in Nat /\ StartOf(day) <= StartOf(c)
      BY <1>1, StartOfFacts
    <3>4. CASE e = StartOf(day)
      BY <1>1, <3>2, <3>3, <3>4
    <3>5. CASE e = x1 /\ x1 \in L
      <4>1. x1 \in 1 .. now /\ x1 \in Times /\ x1 \in Nat /\ DayOf[x1] = day
        BY <1>6, <1>8, <3>5
      <4>2. CASE day = c
        BY <1>1, <1>8, <3>5, <4>1, <4>2
      <4>3. CASE day # c
        <5>1. DayOf[x1] < c
          BY <1>1, <4>1, <4>3
        <5>2. x1 < StartOf(c)
          BY <1>1, <4>1, <5>1, StartOfDay
        <5> QED
          BY <1>1, <3>2, <3>3, <3>5, <4>1, <5>2
      <4> QED
        BY <4>2, <4>3
    <3> QED
      BY <1>5, <3>4, <3>5
  <2>5. x \in S => b <= x /\ x \in Nat
    BY <1>1, <1>14, <2>1
  <2> QED
    BY <1>1, <1>5, <2>2, <2>3, <2>4, <2>5
<1>16. ASSUME logged = Times, lastUp = 0, FewUnlisted, NEW t \in 1 .. now, t < k.anchor
       PROVE  t < e /\ NotDone(k, DayOf[t]) /\ ~k.exhausted
  <2> DEFINE u == DayOf[t]
  <2>1. t \in Times /\ t \in Nat /\ u \in Nat \ {0} /\ u \in SentDays /\ t \in logged \cap (1 .. now)
    BY <1>6, <1>16
  <2>2. k.anchor # None
    BY <1>4, <1>16, <2>1 DEF None, LogsRec
  <2>3. t < e /\ NotDone(k, u)
    <3> HIDE DEF u
    <3>1. CASE Built = <<>>
      <4>1. k.anchor = logs.anchor /\ logs.anchor # None /\ t < logs.anchor
        BY <1>4, <1>16, <2>2, <3>1
      <4>2. t < b /\ NotDone(logs, u)
        <5>1. Reachable
          BY <1>16 DEF SkipInv, ReachInv
        <5> QED
          BY <4>1, <5>1 DEF Reachable, b, u
      <4>3. u <= day
        <5>1. u <= logs.cursor.day /\ logs.cursor.day \in SentDays
          BY <1>2, <2>1, <4>1, <4>2 DEF c, u
        <5>2. u <= NextDay(logs)
          BY <1>1, <1>2, <1>16, <2>1, <4>2, <5>1, NothingBetween
        <5> QED
          BY <1>2, <5>2
      <4>4. L = {}
        <5>1. Range(Built) = {}
          BY <3>1 DEF Range
        <5>2. L \subseteq S
          BY <1>9, <5>1
        <5>3. ASSUME NEW x \in L
              PROVE  FALSE
          <6>1. x \in S /\ b <= x /\ x \in Nat /\ x \in Times /\ DayOf[x] = day
            BY <1>6, <1>8, <1>14, <1>16, <5>2
          <6>2. day # c
            BY <1>1, <1>8, <6>1
          <6>3. day < c
            BY <1>1, <6>2
          <6>4. x < StartOf(c) /\ StartOf(c) \in Nat /\ StartOf(c) <= b
            <7>1. CursorInv
              BY DEF OrderInv
            <7> QED
              BY <1>1, <6>1, <6>3, <7>1, StartOfDay, StartOfFacts DEF CursorInv, c, b
          <6> QED
            BY <1>1, <6>1, <6>4
        <5> QED
          BY <5>3
      <4>5. Len(Lines) < logs.wanted /\ e = StartOf(day) /\ k.doneFrom = day
        BY <1>5, <4>4
      <4>6. u # day
        BY <1>8, <2>1, <4>2, <4>4, <4>5 DEF u
      <4>7. u < day
        BY <1>1, <2>1, <4>3, <4>6
      <4> QED
        BY <1>7, <2>1, <4>5, <4>7 DEF NotDone, u
    <3>2. CASE Built # <<>>
      <4>1. h \in L /\ t < h /\ DayOf[h] = day /\ h \in Times /\ h \in Nat
        BY <1>4, <1>6, <1>8, <1>9, <1>16, <3>2
      <4>2. u <= day
        BY <1>6, <2>1, <4>1 DEF u
      <4>3. NotDone(logs, day)
        BY <1>1, <1>2, NextDayOf
      <4>4. L \cap S = {}
        <5>1. SUFFICES ASSUME NEW x \in L, x \in S
                       PROVE  FALSE
          OBVIOUS
        <5>2. b <= x /\ x \in Nat /\ x \in Times /\ DayOf[x] = day
          BY <1>6, <1>8, <1>14, <1>16, <5>1
        <5>3. day < c
          BY <1>1, <1>8, <5>1, <5>2
        <5>4. x < StartOf(c) /\ StartOf(c) \in Nat /\ StartOf(c) <= b
          <6>1. CursorInv
            BY DEF OrderInv
          <6> QED
            BY <1>1, <5>2, <5>3, <6>1, StartOfDay, StartOfFacts DEF CursorInv, c, b
        <5> QED
          BY <1>1, <5>2, <5>4
      <4>5. t < x1
        <5>1. x1 \in L /\ x1 \in Range(Built)
          BY <1>9, <1>10, <4>1, <4>4
        <5>3. x1 \in Nat
          BY <1>6, <1>8, <5>1
        <5>2. h <= x1
          <6>1. PICK i \in DOMAIN Built : x1 = Built[i]
            BY <5>1 DEF Range
          <6>2. 1 \in DOMAIN Built /\ (1 < i \/ i = 1)
            BY <1>9, <6>1
          <6>3. 1 < i => Built[1] < Built[i]
            BY <1>9, <6>1, <6>2 DEF Ascends
          <6> QED
            BY <4>1, <5>3, <6>1, <6>2, <6>3 DEF h
        <5> QED
          BY <2>1, <4>1, <5>2, <5>3
      <4>6. CASE Len(Lines) < logs.wanted /\ e = StartOf(day) /\ k.doneFrom = day
        <5>1. t < b \/ day # c
          BY <1>1, <1>8, <2>1, <4>1
        <5>2. u # day
          <6>1. SUFFICES ASSUME u = day
                         PROVE  FALSE
            OBVIOUS
          <6>2. t \in L
            BY <1>8, <2>1, <4>6, <5>1, <6>1 DEF u
          <6> QED
            <7>1. x1 <= t /\ x1 \in Nat
              BY <1>6, <1>8, <1>10, <6>2
            <7> QED
              BY <2>1, <4>5, <7>1
        <5>3. u < day
          BY <1>1, <2>1, <4>2, <5>2
        <5> QED
          BY <1>7, <2>1, <4>6, <5>3 DEF NotDone, u
      <4>7. CASE e = x1 /\ k.doneFrom = logs.doneFrom
        <5>1. NotDone(k, u)
          <6>1. logs.doneFrom \in Nat
            BY <1>1 DEF LogsRec
          <6> QED
            BY <1>1, <2>1, <4>2, <4>3, <4>7, <6>1 DEF NotDone
        <5> QED
          BY <4>5, <4>7, <5>1
      <4> QED
        BY <1>5, <4>6, <4>7
    <3> QED
      BY <3>1, <3>2
  <2>4. ~k.exhausted
    <3>1. u <= day
      BY <1>12, <2>1, <2>3
    <3> HIDE DEF u
    <3>2. k.cursor.day \in SentDays /\ u <= k.cursor.day
      BY <1>5, <1>11, <2>2, <3>1
    <3>3. NextDay(k) # None
      BY <1>2, <1>4, <1>16, <2>1, <2>3, <3>2, NothingBetween
    <3> QED
      BY <1>4, <3>3
  <2> QED
    BY <2>3, <2>4
<1>17. ReachInv'
  <2>1. SUFFICES ASSUME logged = Times, lastUp = 0, FewUnlisted
                 PROVE  Reachable'
    <3>1. k.listed /\ (FewUnlisted' => FewUnlisted)
      BY <1>3, <1>4 DEF FewUnlisted, SentDays, k
    <3> QED
      BY <1>3, <3>1 DEF ReachInv, k
  <2> QED
    BY <1>3, <1>16, <2>1 DEF Reachable, k, e
<1> QED
  BY <1>13, <1>15, <1>17 DEF SkipInv

LEMMA SkipInvHolds == Spec => []SkipInv
<1>1. Init => SkipInv
  <2>1. SUFFICES ASSUME Init
                 PROVE  SkipInv
    OBVIOUS
  <2>2. now \in Nat /\ TypeInv
    <3>1. HistoryInv
      BY <2>1, Starts
    <3> QED
      BY <3>1, Numbers DEF HistoryInv
  <2>3. /\ logs.phase = "idle" /\ logs.days = {} /\ ~logs.listed /\ ~logs.exhausted
        /\ logs.anchor = 0 /\ logs.cursor.day = None
    BY <2>1 DEF Init, FirstLogs, None
  <2>4. ~recent.asked
    BY <2>1 DEF Init, NoRequest
  <2>5. PagingInv
    BY <2>2, <2>3 DEF PagingInv, Loading, None
  <2>6. QuietInv
    BY <2>3, <2>4 DEF QuietInv, Loading
  <2>7. ReachInv
    <3>1. Reachable
      BY <2>2, <2>3 DEF Reachable
    <3> QED
      BY <3>1 DEF ReachInv
  <2> QED
    BY <2>5, <2>6, <2>7 DEF SkipInv
<1>2. HistoryInv /\ OrderInv /\ SkipInv /\ [Next]_vars => SkipInv'
  <2>1. SUFFICES ASSUME TypeInv, OrderInv, SkipInv, [Next]_vars
                 PROVE  SkipInv'
    BY DEF HistoryInv
  <2>2. CASE Next
    BY <2>1, <2>2, SaySkips, LinkSkips, ListSkips, PageSkips, ResetSkips, LoadOlderSkips
       DEF Next, Answer
  <2>3. CASE UNCHANGED vars
    BY <2>1, <2>3 DEF vars, SkipInv, PagingInv, QuietInv, ReachInv, Reachable, FewUnlisted,
       SentDays, Loading, NotDone, NextDay
  <2> QED
    BY <2>1, <2>2, <2>3
<1> QED
  BY <1>1, <1>2, HistoryInvHolds, OrderInvHolds, PTL DEF Spec

\* Between two requests, paging back can still reach every logged message that is
\* older than what the channel has: whatever was said, cleared, released or asked
\* for again meanwhile, the cursor and the days that count as done skip nothing.
THEOREM NothingSkipped == Spec => []NothingIsSkipped
<1>1. TypeInv /\ SkipInv => NothingIsSkipped
  <2>1. SUFFICES ASSUME TypeInv, SkipInv, lastUp = 0, Cardinality(Unlisted) <= 1,
                        logs.anchor = Oldest,
                        NEW t \in logged, t < Oldest
                 PROVE  ~logs.exhausted /\ t < logs.cursor.before /\ NotDone(logs, DayOf[t])
    BY DEF NothingIsSkipped
  <2>2. Unlisted = SentDays \ logs.days
    BY DEF Unlisted, SentDays
  <2>3. FewUnlisted
    <3>1. SUFFICES ASSUME NEW u \in Unlisted, NEW c \in Unlisted, u # c
                   PROVE  FALSE
      BY <2>2 DEF FewUnlisted
    <3>2. IsFiniteSet(Unlisted)
      <4>1. Unlisted \subseteq 0 .. DayOf[now]
        <5>1. SUFFICES ASSUME NEW d \in Unlisted
                       PROVE  d \in 0 .. DayOf[now]
          OBVIOUS
        <5>2. PICK s \in 1 .. now : d = DayOf[s]
          BY DEF Unlisted
        <5>3. /\ s \in Times /\ now \in Times /\ s <= now
              /\ DayOf[s] \in Nat /\ DayOf[now] \in Nat /\ DayOf[s] <= DayOf[now]
          BY <2>1, SentFacts DEF TypeInv
        <5> QED
          BY <5>2, <5>3
      <4>2. IsFiniteSet(0 .. DayOf[now])
        <5>1. DayOf[now] \in Int
          BY <2>1, SentFacts DEF TypeInv
        <5> DEFINE n == DayOf[now]
        <5> HIDE DEF n
        <5> QED
          BY <5>1, FS_Interval DEF n
      <4> QED
        BY <4>1, <4>2, FS_Subset
    <3>3. Cardinality({u, c}) = 2
      <4>1. IsFiniteSet({u}) /\ Cardinality({u}) = 1
        BY FS_Singleton
      <4>2. Cardinality({u} \union {c}) = Cardinality({u}) + 1
        BY <3>1, <4>1, FS_AddElement
      <4>3. {u} \union {c} = {u, c}
        OBVIOUS
      <4> QED
        BY <4>1, <4>2, <4>3
    <3>4. Cardinality({u, c}) <= Cardinality(Unlisted) /\ Cardinality(Unlisted) \in Nat
      BY <3>1, <3>2, FS_Subset, FS_CardinalityType
    <3> QED
      BY <2>1, <3>3, <3>4
  <2>4. logged = Times
    BY <2>1 DEF TypeInv
  <2>5. Reachable
    BY <2>1, <2>3, <2>4 DEF SkipInv, ReachInv
  <2>6. t \in 1 .. now /\ t < logs.anchor
    <3>1. Oldest \in 0 .. now /\ now \in Nat /\ t \in Nat /\ t # 0
      BY <2>1, <2>4, OldestFacts, Numbers
    <3> QED
      BY <2>1, <3>1
  <2> QED
    BY <2>5, <2>6 DEF Reachable
<1> QED
  BY <1>1, HistoryInvHolds, SkipInvHolds, PTL DEF HistoryInv

-----------------------------------------------------------------------------
(* The newest messages are shown *)

\* The view was not cleared and its copy got no separator.
Plain(v) == ~v.cleared /\ v.dated = 0

\* Such a view, if it is open, has enough of its channel; and the limit of no view is
\* raised without that of the channel.
Shows(r, v, H) ==
  v.open => /\ Plain(v) => Enough(r, v.copy, H)
            /\ v.copy.raised => r.raised

ShownInv == RaisedFull(ring) /\ \A w \in Views : Shows(ring, view[w], Hidden[w])

\* What the proofs about an action know before it.
LEMMA ShownFacts ==
  ASSUME HistoryInv, OrderInv, ShownInv
  PROVE  /\ now \in Nat /\ 1 .. now \subseteq Nat /\ RingOk(ring, 1 .. now) /\ Viewed(view, now)
         /\ 0 .. now \subseteq Nat /\ RingOk(ring, 0 .. now)
         /\ Ascends(ring.msgs) /\ RaisedFull(ring)
         /\ \A w \in Views : Shows(ring, view[w], Hidden[w])
<1>1. /\ now \in Nat /\ 1 .. now \subseteq Nat /\ RingOk(ring, 1 .. now) /\ Viewed(view, now)
      /\ Ascends(ring.msgs) /\ RaisedFull(ring)
      /\ \A w \in Views : Shows(ring, view[w], Hidden[w])
  BY Numbers DEF HistoryInv, TypeInv, OrderInv, ShownInv
<1>2. 1 .. now \subseteq 0 .. now /\ 0 .. now \subseteq Nat
  BY <1>1
<1>3. RingOk(ring, 0 .. now)
  BY <1>1, <1>2, RingOkGrows
<1> QED
  BY <1>1, <1>2, <1>3

\* A message of the chat.
LEMMA SayShown ==
  ASSUME HistoryInv, OrderInv, ShownInv, Say
  PROVE  ShownInv'
<1> DEFINE by == RoomForOne(ring)
           m == now + 1
           M == 0 .. m
           d == DateOf[m]
           gs == GrownViews(view, by)
<1>1. /\ now \in Nat /\ RingOk(ring, 0 .. now) /\ Viewed(view, now)
      /\ Ascends(ring.msgs) /\ RaisedFull(ring)
      /\ \A w \in Views : Shows(ring, view[w], Hidden[w])
  BY ShownFacts
<1>2. CASE link # "up"
  <2>1. ring' = ring /\ view' = view
    BY <1>2 DEF Say
  <2> QED
    BY <1>1, <2>1 DEF ShownInv
<1>3. CASE link = "up"
  <2>1. now' = m /\ ring' = Push(ring, m)
    BY <1>3 DEF Say
  <2>2. view' = [w \in Views |-> IF gs[w].open
                                 THEN IF m \in Hidden[w] THEN gs[w] ELSE OnAppend(gs[w], m, d)
                                 ELSE gs[w]]
    BY <1>3, <2>1 DEF Say, Each
  <2>3. m \in Nat /\ now <= m /\ M \subseteq Nat /\ m \in M /\ 0 .. now \subseteq M
        /\ \A x \in 0 .. now : x < m
    BY <1>1
  <2>9. d \in Nat
    <3>1. now < Last_ /\ TypeInv
      BY DEF Say, HistoryInv
    <3>2. m \in Times
      BY <1>1, <3>1, Numbers
    <3> QED
      BY <3>2, HistoryAssumption
  <2>4. by \in 0 .. 1 /\ by \in Nat /\ (by # 0 => ring.raised)
    BY DEF RoomForOne
  <2> HIDE DEF by, m, d, M
  <2>5. Viewed(gs, now) /\ \A w \in Views :
          gs[w] = IF view[w].open THEN OnGrow(view[w], by) ELSE view[w]
    BY <1>1, <2>4, GrownViewsFacts
  <2> HIDE DEF gs
  <2>6. RingOk(ring, M) /\ Older(ring.msgs, m)
    <3>1. RingOk(ring, M)
      BY <1>1, <2>3, RingOkGrows
    <3>2. ring.msgs \in Seq(0 .. now)
      BY <1>1 DEF RingOk
    <3>3. Range(ring.msgs) \subseteq 0 .. now
      <4> DEFINE q == ring.msgs
                 N == 0 .. now
      <4> HIDE DEF q, N
      <4>1. q \in Seq(N)
        BY <3>2 DEF q, N
      <4>2. Range(q) \subseteq N
        BY <4>1 DEF Range
      <4> QED
        BY <4>2 DEF q, N
    <3> QED
      BY <2>3, <3>1, <3>3 DEF Older
  <2>7. RaisedFull(ring') /\ ring'.raised = ring.raised
    BY <1>1, <2>1, <2>3, <2>6, SayFull
  <2>8. ASSUME NEW w \in Views
        PROVE  Shows(ring', view'[w], Hidden[w])
    <3> DEFINE v == view[w]
               g == gs[w]
               u == view'[w]
               H == Hidden[w]
               c == v.copy
    <3>1. ViewOk(v, now) /\ ViewOk(g, now)
      BY <1>1, <2>5 DEF Viewed
    <3>2. g = IF v.open THEN OnGrow(v, by) ELSE v
      BY <2>5
    <3>3. u = IF g.open THEN IF m \in H THEN g ELSE OnAppend(g, m, d) ELSE g
      BY <2>2
    <3>4. Shows(ring, v, H)
      BY <1>1
    <3> HIDE DEF v, g, u, H
    <3>5. ViewOk(g, m)
      BY <1>1, <2>3, <3>1, ViewOkGrows
    <3>6. LET o == OnAppend(g, m, d)
          IN  /\ o.open = g.open /\ o.cleared = g.cleared /\ o.copy.raised = g.copy.raised
              /\ o.dated = 0 => g.dated = 0 /\ o.copy = Push(g.copy, m)
      BY <2>3, <2>9, <3>5, OnAppendFacts DEF M
    <3>7. v.open => Follows(g, v, Grow(c, by), v.shown)
      BY <1>1, <2>4, <3>1, <3>2, OnGrowFacts
    <3>8. SUFFICES ASSUME u.open
                   PROVE  (Plain(u) => Enough(ring', u.copy, H)) /\ (u.copy.raised => ring'.raised)
      BY DEF Shows, u, H
    <3>9. v.open /\ g.open /\ u.copy.raised = Grow(c, by).raised
          /\ (Plain(u) => Plain(v) /\ u.copy = IF m \in H THEN Grow(c, by) ELSE Push(Grow(c, by), m))
      <4>1. g.open
        BY <3>3, <3>6, <3>8
      <4>2. v.open
        BY <3>2, <4>1
      <4>3. g.copy = Grow(c, by) /\ g.cleared = v.cleared /\ g.dated = v.dated
        BY <3>7, <4>2 DEF Follows
      <4>4. u.copy.raised = g.copy.raised /\ u.cleared = g.cleared
            /\ (u.dated = 0 => g.dated = 0 /\ u.copy = IF m \in H THEN g.copy ELSE Push(g.copy, m))
        BY <3>3, <3>6, <4>1
      <4> QED
        BY <4>1, <4>2, <4>3, <4>4 DEF Plain
    <3>10. RingOk(c, 0 .. now) /\ RingOk(c, M) /\ Older(c.msgs, m)
      <4>1. RingOk(c, 0 .. now)
        BY <3>1 DEF ViewOk
      <4> HIDE DEF c
      <4>2. RingOk(c, M) /\ c.msgs \in Seq(0 .. now)
        BY <2>3, <4>1, RingOkGrows DEF RingOk
      <4>3. Range(c.msgs) \subseteq 0 .. now
        <5> DEFINE q == c.msgs
                   N == 0 .. now
        <5> HIDE DEF q, N
        <5>1. q \in Seq(N)
          BY <4>2 DEF q, N
        <5>2. Range(q) \subseteq N
          BY <5>1 DEF Range
        <5> QED
          BY <5>2 DEF q, N
      <4> QED
        BY <2>3, <4>1, <4>2, <4>3 DEF Older
    <3>11. c.raised => ring.raised
      BY <3>4, <3>9 DEF Shows
    <3> HIDE DEF c
    <3>12. ASSUME Plain(u)
           PROVE  Enough(ring', u.copy, H)
      <4>1. Enough(ring, c, H)
        BY <3>4, <3>9, <3>12 DEF Shows, c
      <4>2. Enough(Push(ring, m), Taking(ring, c, m, H), H)
        BY <1>1, <2>3, <2>6, <3>10, <3>11, <4>1, SayEnough
      <4>3. u.copy = Taking(ring, c, m, H)
        BY <3>9, <3>12 DEF Taking, by
      <4> QED
        BY <2>1, <4>2, <4>3
    <3>13. ASSUME u.copy.raised
           PROVE  ring'.raised
      <4> DEFINE g1 == Grow(c, by)
      <4>1. RingOk(g1, M) /\ (g1.raised => c.raised \/ by # 0)
        BY <2>4, <3>10, GrowFacts
      <4>3. g1.raised
        BY <3>9, <3>13
      <4> HIDE DEF g1
      <4> QED
        BY <2>4, <2>7, <3>11, <4>1, <4>3
    <3> QED
      BY <3>12, <3>13
  <2> QED
    BY <2>7, <2>8 DEF ShownInv
<1> QED
  BY <1>2, <1>3

\* The missed messages are there.
LEMMA RecentAnswerShown ==
  ASSUME HistoryInv, OrderInv, ShownInv, RecentAnswer
  PROVE  ShownInv'
<1> DEFINE s == Missed
           M == 0 .. now
<1>1. /\ now \in Nat /\ M \subseteq Nat /\ RingOk(ring, M) /\ Viewed(view, now)
      /\ Ascends(ring.msgs) /\ RaisedFull(ring)
      /\ \A w \in Views : Shows(ring, view[w], Hidden[w])
  BY ShownFacts
<1>2. s \in Seq(M) /\ Ascends(s)
  <2>1. s \in Seq(1 .. now) /\ Ascends(s)
    BY MissedFacts DEF HistoryInv
  <2> QED
    BY <1>1, <2>1, WithSeparators
<1>3. ring' = FillIn(ring, s)
  BY DEF RecentAnswer
<1>4. view' = IF FillIsTold(ring, s)
              THEN [w \in Views |-> IF view[w].open THEN OnFill(view[w], Included(w, s)) ELSE view[w]]
              ELSE view
  BY DEF RecentAnswer, Each
<1> HIDE DEF s
<1>5. RaisedFull(ring') /\ ring'.raised = ring.raised
  <2> HIDE DEF M
  <2> QED
    BY <1>1, <1>2, <1>3, FillFull
<1>6. CASE ~FillIsTold(ring, s)
  <2>1. FillIn(ring, s) = ring
    BY <1>1, <1>2, <1>6, FillInNothing
  <2> QED
    BY <1>1, <1>3, <1>4, <1>6, <2>1 DEF ShownInv
<1>7. CASE FillIsTold(ring, s)
  <2>1. ASSUME NEW w \in Views
        PROVE  Shows(ring', view'[w], Hidden[w])
    <3> DEFINE v == view[w]
               u == view'[w]
               q == Included(w, s)
               c == v.copy
               H == Hidden[w]
    <3>1. ViewOk(v, now)
      BY <1>1 DEF Viewed
    <3>2. u = IF v.open THEN OnFill(v, q) ELSE v
      BY <1>4, <1>7
    <3>3. Shows(ring, v, H)
      BY <1>1
    <3>4. q \in Seq(M) /\ q = Without(s, H)
      BY <1>2, IncludesAll DEF Included
    <3> HIDE DEF v, u, q, H
    <3>5. /\ ~FillIsTold(c, q) => OnFill(v, q) = v
          /\ FillIsTold(c, q) => Follows(OnFill(v, q), v, FillIn(c, q), FillIn(c, q).msgs)
      BY <1>1, <3>1, <3>4, OnFillFacts
    <3>6. RingOk(c, M)
      BY <3>1 DEF ViewOk
    <3> HIDE DEF c, M
    <3>7. SUFFICES ASSUME u.open
                   PROVE  (Plain(u) => Enough(ring', u.copy, H)) /\ (u.copy.raised => ring'.raised)
      BY DEF Shows, u, H
    <3>8. v.open /\ (Plain(u) => Plain(v)) /\ u.copy = FillIn(c, q)
      <4>1. v.open
        BY <3>2, <3>7
      <4>2. CASE FillIsTold(c, q)
        BY <3>2, <3>5, <4>1, <4>2 DEF Follows, Plain
      <4>3. CASE ~FillIsTold(c, q)
        <5>1. FillIn(c, q) = c
          BY <1>1, <3>4, <3>6, <4>3, FillInNothing
        <5> QED
          BY <3>2, <3>5, <4>1, <4>3, <5>1 DEF c
      <4> QED
        BY <4>2, <4>3
    <3>9. ASSUME Plain(u)
          PROVE  Enough(ring', u.copy, H)
      <4>1. Enough(ring, c, H)
        BY <3>3, <3>8, <3>9 DEF Shows, c
      <4>2. Enough(FillIn(ring, s), FillIn(c, Without(s, H)), H)
        BY <1>1, <1>2, <3>6, <4>1, FillEnough
      <4> QED
        BY <1>3, <3>4, <3>8, <4>2
    <3>10. ASSUME u.copy.raised
           PROVE  ring'.raised
      <4>1. FillIn(c, q).raised = c.raised
        BY <1>1, <3>4, <3>6, FillInFacts
      <4>2. c.raised => ring.raised
        BY <3>3, <3>8 DEF Shows, c
      <4> QED
        BY <1>5, <3>8, <3>10, <4>1, <4>2
    <3> QED
      BY <3>9, <3>10
  <2> QED
    BY <1>5, <2>1 DEF ShownInv
<1> QED
  BY <1>6, <1>7

\* What is put in front of others that it ascends with is older than them.
LEMMA FrontIsOlder ==
  ASSUME NEW s \in Seq(Nat), NEW t \in Seq(Nat), Ascends(s \o t)
  PROVE  \A x \in Range(s), y \in Range(t) : x < y
<1> DEFINE u == s \o t
<1>1. Behinds(s, t, u)
  BY ConcatPlaces
<1>2. Ascends(u)
  OBVIOUS
<1> HIDE DEF u
<1>3. TAKE x \in Range(s), y \in Range(t)
<1>4. PICK i \in 1 .. Len(s) : x = s[i]
  BY InRange
<1>5. PICK j \in 1 .. Len(t) : y = t[j]
  BY InRange
<1>6. /\ i \in 1 .. Len(u) /\ u[i] = x /\ Len(s) + j \in 1 .. Len(u) /\ u[Len(s) + j] = y
      /\ DOMAIN u = 1 .. Len(u)
  BY <1>1, <1>4, <1>5 DEF Behinds
<1>7. i < Len(s) + j
  <2>1. Len(s) \in Nat /\ Len(t) \in Nat
    OBVIOUS
  <2> QED
    BY <1>4, <1>5, <2>1
<1> QED
  BY <1>2, <1>6, <1>7 DEF Ascends

\* A page of older messages is there.
LEMMA PageShown ==
  ASSUME HistoryInv, OrderInv, ShownInv, PageAnswer
  PROVE  ShownInv'
<1> DEFINE by == PageRoom
           b  == Built
           M == 0 .. now
           gs == GrownViews(view, by)
<1>1. /\ now \in Nat /\ M \subseteq Nat /\ RingOk(ring, M) /\ Viewed(view, now)
      /\ Ascends(ring.msgs) /\ RaisedFull(ring)
      /\ \A w \in Views : Shows(ring, view[w], Hidden[w])
  BY ShownFacts
<1>2. TypeInv
  BY DEF HistoryInv
<1>3. /\ by \in Nat /\ by = RoomFor(ring, b)
      /\ ring' = PushFront(Grow(ring, by), b)
      /\ ring'.msgs = b \o ring.msgs
  BY <1>2, PageFacts DEF PageRoom, RoomFor
<1>4. view' = [w \in Views |-> IF gs[w].open THEN OnStart(gs[w], Included(w, b)) ELSE gs[w]]
  BY <1>2, PageFacts
<1>5. b \in Seq(M) /\ Ascends(b)
  <2>1. b \in Seq(1 .. now) /\ Ascends(b)
    BY <1>2, BuiltFacts
  <2> QED
    BY <1>1, <2>1, WithSeparators
<1>6. \A x \in Range(b), y \in Range(ring.msgs) : x < y
  <2> DEFINE p == ring.msgs
  <2>1. OrderInv'
    BY <1>2, PageOrdered
  <2>2. Ascends(b \o p)
    BY <1>3, <2>1 DEF OrderInv
  <2>3. b \in Seq(Nat) /\ p \in Seq(Nat)
    BY <1>1, <1>5, SeqMonotonic DEF RingOk
  <2> HIDE DEF b, p
  <2>4. \A x \in Range(b), y \in Range(p) : x < y
    BY <2>2, <2>3, FrontIsOlder
  <2> QED
    BY <2>4 DEF p
<1> HIDE DEF by, b
<1>7. Viewed(gs, now) /\ \A w \in Views :
        gs[w] = IF view[w].open THEN OnGrow(view[w], by) ELSE view[w]
  BY <1>1, <1>3, GrownViewsFacts
<1> HIDE DEF gs, M
<1>8. RaisedFull(ring') /\ ring'.raised = (ring.raised \/ by # 0)
  <2>1. /\ M \subseteq Nat /\ RingOk(ring, M) /\ RaisedFull(ring) /\ b \in Seq(M)
        /\ by = RoomFor(ring, b)
    BY <1>1, <1>3, <1>5
  <2> HIDE DEF M
  <2>2. PagedWell(ring, b, by)
    BY ONLY <2>1, PagedFacts
  <2> QED
    BY ONLY <1>3, <2>2 DEF PagedWell
<1>9. ASSUME NEW w \in Views
      PROVE  Shows(ring', view'[w], Hidden[w])
  <2> DEFINE v == view[w]
             g == gs[w]
             u == view'[w]
             q == Included(w, b)
             c == v.copy
             H == Hidden[w]
  <2>1. ViewOk(v, now) /\ ViewOk(g, now)
    BY <1>1, <1>7 DEF Viewed
  <2>2. g = IF v.open THEN OnGrow(v, by) ELSE v
    BY <1>7
  <2>3. u = IF g.open THEN OnStart(g, q) ELSE g
    BY <1>4
  <2>4. Shows(ring, v, H)
    BY <1>1
  <2>5. q \in Seq(M) /\ q = Without(b, H)
    BY <1>5, IncludesAll DEF Included
  <2> HIDE DEF v, g, u, q, H
  <2>6. Follows(OnStart(g, q), g, PushFront(g.copy, q),
                Newest(Fitting(g.copy, q), g.copy.limit - Len(g.shown)) \o g.shown)
    BY <1>1, <2>1, <2>5, OnStartFacts DEF M
  <2>7. v.open => Follows(g, v, Grow(c, by), v.shown)
    BY <1>1, <1>3, <2>1, <2>2, OnGrowFacts
  <2>8. RingOk(c, M)
    BY <2>1 DEF ViewOk, M
  <2>9. SUFFICES ASSUME u.open
                 PROVE  (Plain(u) => Enough(ring', u.copy, H)) /\ (u.copy.raised => ring'.raised)
    BY DEF Shows, u, H
  <2>10. v.open /\ (Plain(u) => Plain(v)) /\ u.copy = PushFront(Grow(c, by), q)
    <3>1. g.open
      BY <2>3, <2>6, <2>9 DEF Follows
    <3>2. v.open
      BY <2>2, <3>1
    <3>3. g.copy = Grow(c, by) /\ g.cleared = v.cleared /\ g.dated = v.dated
      BY <2>7, <3>2 DEF Follows
    <3> QED
      BY <2>3, <2>6, <3>1, <3>2, <3>3 DEF Follows, Plain
  <2>11. c.raised => ring.raised
    BY <2>4, <2>10 DEF Shows
  <2> HIDE DEF c
  <2>12. ASSUME Plain(u)
         PROVE  Enough(ring', u.copy, H)
    <3>1. Enough(ring, c, H)
      BY <2>4, <2>10, <2>12 DEF Shows, c
    <3>2. Enough(PushFront(Grow(ring, by), b), PushFront(Grow(c, by), Without(b, H)), H)
      BY <1>1, <1>3, <1>5, <1>6, <2>8, <2>11, <3>1, PageEnough
    <3> QED
      BY <1>3, <2>5, <2>10, <3>2
  <2>13. ASSUME u.copy.raised
         PROVE  ring'.raised
    <3> DEFINE g1 == Grow(c, by)
    <3>1. RingOk(g1, M) /\ g1.raised = (c.raised \/ by # 0)
      <4>1. RingOk(c, M) /\ by \in Nat
        BY <1>3, <2>8
      <4> QED
        BY ONLY <4>1, GrowFacts
    <3> HIDE DEF g1
    <3>2. PushFront(g1, q).raised = g1.raised
      BY <1>1, <2>5, <3>1, PushFrontFacts
    <3>3. g1.raised
      BY <2>10, <2>13, <3>2 DEF g1
    <3> QED
      BY <1>8, <2>11, <3>1, <3>3
  <2> QED
    BY <2>12, <2>13
<1> QED
  BY <1>8, <1>9 DEF ShownInv

\* A ring that is reset, or cleared, is not raised.
LEMMA ResetFull ==
  ASSUME NEW M, M \subseteq Nat, NEW r, RingOk(r, M)
  PROVE  RaisedFull(Reset(r)) /\ Reset(r).raised = FALSE
BY ResetFacts DEF RaisedFull

\* The raised limit is given back.
LEMMA ReleasedShown ==
  ASSUME HistoryInv, OrderInv, ShownInv, NEW w \in Views
  PROVE  /\ RaisedFull(ReleasedRing(w))
         /\ \A x \in Views : Shows(ReleasedRing(w), ReleasedViews(w)[x], Hidden[x])
<1> DEFINE r == ReleasedRing(w)
           vs == ReleasedViews(w)
           M == 0 .. now
<1>1. /\ now \in Nat /\ M \subseteq Nat /\ RingOk(ring, M) /\ Viewed(view, now)
      /\ Ascends(ring.msgs) /\ RaisedFull(ring)
      /\ \A x \in Views : Shows(ring, view[x], Hidden[x])
  BY ShownFacts
<1>2. \A x \in Views : Follows(vs[x], view[x], ReleasedCopy(w, view[x]), ReleasedList(w, view[x]))
  BY <1>1, ReleasedViewsFacts
<1>3. r = ring \/ (view[w].owns /\ r = Reset(ring))
  BY DEF ReleasedRing
<1> HIDE DEF vs, M
<1>4. RaisedFull(r)
  BY <1>1, <1>3, ResetFull
<1>5. ASSUME NEW x \in Views
      PROVE  Shows(r, vs[x], Hidden[x])
  <2> DEFINE v == view[x]
             u == vs[x]
             c == v.copy
             H == Hidden[x]
  <2>1. u.copy = ReleasedCopy(w, v) /\ u.open = v.open /\ (Plain(u) => Plain(v))
    BY <1>2 DEF Follows, Plain
  <2>2. Shows(ring, v, H) /\ RingOk(c, M)
    BY <1>1 DEF Viewed, ViewOk, M
  <2> HIDE DEF v, u, H
  <2>3. SUFFICES ASSUME u.open
                 PROVE  (Plain(u) => Enough(r, u.copy, H)) /\ (u.copy.raised => r.raised)
    BY DEF Shows, u, H
  <2>4. v.open /\ (Plain(u) => Enough(ring, c, H)) /\ (c.raised => ring.raised)
    BY <2>1, <2>2, <2>3 DEF Shows
  <2>5. CASE view[w].owns /\ ring.raised
    <3>1. r = Reset(ring)
      BY <2>5 DEF ReleasedRing
    <3>2. u.copy = IF c.raised THEN Reset(c) ELSE c
      BY <2>1, <2>4, <2>5 DEF ReleasedCopy
    <3> HIDE DEF r, c
    <3>3. Plain(u) => Enough(Reset(ring), IF c.raised THEN Reset(c) ELSE c, H)
      BY <1>1, <2>2, <2>4, <2>5, ResetEnough
    <3>4. ~u.copy.raised
      BY <1>1, <2>2, <3>2, ResetFacts
    <3> QED
      BY <3>1, <3>2, <3>3, <3>4
  <2>6. CASE ~(view[w].owns /\ ring.raised)
    <3>1. r = ring
      BY <2>6 DEF ReleasedRing, Reset
    <3>2. u.copy = c
      BY <2>1, <2>6 DEF ReleasedCopy
    <3> QED
      BY <2>4, <3>1, <3>2
  <2> QED
    BY <2>5, <2>6
<1> QED
  BY <1>4, <1>5 DEF vs

\* A view that is opened shows the newest messages.
LEMMA OpenedShows ==
  ASSUME NEW n \in Nat, NEW w \in Views, NEW r, RingOk(r, 1 .. n), Ascends(r.msgs),
         NEW d \in Nat
  PROVE  Shows(r, Opened(w, r, d), Hidden[w])
<1> DEFINE msgs == Newest(Included(w, r.msgs), DefaultLimit)
           c == [msgs |-> msgs, limit |-> DefaultLimit, raised |-> FALSE]
           v == Opened(w, r, d)
           e == ~r.raised /\ Hidden[w] = {}
           H == Hidden[w]
           p == r.msgs
<1>1. v = [open |-> TRUE, copy |-> c, date |-> d, shown |-> msgs, owns |-> FALSE,
           fitted |-> FALSE, exact |-> e, cleared |-> FALSE, dated |-> 0]
  BY OpenedFacts
<1>2. p \in Seq(Nat)
  BY DEF RingOk, Ring
<1>3. msgs = Newest(Without(p, H), DefaultLimit)
  BY DEF Included
<1>4. v.copy = c
  <2> HIDE DEF c, v, e, msgs
  <2> QED
    BY <1>1
<1>5. v.copy.msgs = msgs /\ v.copy.limit = DefaultLimit /\ v.copy.raised = FALSE
  <2> HIDE DEF msgs, v
  <2> QED
    BY <1>4
<1> HIDE DEF msgs, v, c, H, p
<1>6. Serves(p, Newest(Without(p, H), DefaultLimit), DefaultLimit, H)
  <2>1. Ascends(p)
    BY DEF p
  <2> QED
    BY <1>2, <2>1, OpenServes
<1>7. Enough(r, v.copy, H)
  BY <1>3, <1>5, <1>6 DEF Enough, p
<1>8. Shows(r, v, H)
  BY <1>5, <1>7 DEF Shows
<1> QED
  BY <1>8 DEF v, H

\* The limit is released, a view is opened or closed.
LEMMA ReleaseShown ==
  ASSUME HistoryInv, OrderInv, ShownInv, NEW w \in Views, ScrollToBottom(w) \/ Open(w) \/ Close(w)
  PROVE  ShownInv'
<1> DEFINE vs == ReleasedViews(w)
<1>1. /\ now \in Nat /\ RingOk(ReleasedRing(w), 1 .. now) /\ Viewed(vs, now)
  BY ReleasedKeeps
<1>2. /\ RaisedFull(ReleasedRing(w))
      /\ \A x \in Views : Shows(ReleasedRing(w), vs[x], Hidden[x])
  BY ReleasedShown
<1>3. /\ ring' = ReleasedRing(w)
      /\ \/ view' = vs
         \/ \E d \in Current(DateOf) : view' = [vs EXCEPT ![w] = Opened(w, ring', d)]
         \/ view' = [vs EXCEPT ![w] = ClosedView]
  BY DEF ScrollToBottom, Open, Close
<1>4. Ascends(ring'.msgs)
  <2>1. OrderInv'
    BY ResetOrdered DEF HistoryInv
  <2> QED
    BY <2>1 DEF OrderInv
<1>5. ~ClosedView.open
  BY <1>1, ClosedFacts
<1>6. /\ \A d \in Current(DateOf) : Shows(ring', Opened(w, ring', d), Hidden[w])
      /\ Shows(ring', ClosedView, Hidden[w])
  <2> DEFINE r == ring'
  <2>1. RingOk(r, 1 .. now) /\ Ascends(r.msgs)
    BY <1>1, <1>3, <1>4
  <2> HIDE DEF r
  <2>2. \A d \in Current(DateOf) : Shows(r, Opened(w, r, d), Hidden[w])
    BY <1>1, <2>1, OpenedShows, Dates DEF HistoryInv
  <2> QED
    BY <1>5, <2>2 DEF r, Shows
<1>7. vs \in [Views -> ViewRec]
  BY <1>1 DEF Viewed
<1> HIDE DEF vs
<1>8. \A x \in Views : Shows(ring', view'[x], Hidden[x])
  BY <1>2, <1>3, <1>6, <1>7
<1> QED
  BY <1>2, <1>3, <1>8 DEF ShownInv

\* The channel is cleared, and with it every view.
LEMMA ClearShown ==
  ASSUME HistoryInv, OrderInv, ShownInv, Clear
  PROVE  ShownInv'
<1> DEFINE vs == ResetViews(view)
           r == Reset(ring)
<1>1. /\ now \in Nat /\ 0 .. now \subseteq Nat /\ RingOk(ring, 0 .. now) /\ Viewed(view, now)
      /\ \A w \in Views : Shows(ring, view[w], Hidden[w])
  BY ShownFacts
<1>2. /\ ring' = [r EXCEPT !.msgs = <<>>]
      /\ view' = [w \in Views |-> IF vs[w].open THEN OnClear(vs[w]) ELSE vs[w]]
  BY DEF Clear, Each
<1>3. r \in Ring /\ r.raised = FALSE
  BY <1>1, ResetFacts DEF RingOk
<1>4. /\ Viewed(vs, now)
      /\ \A w \in Views : vs[w] = IF view[w].open /\ ring.raised THEN OnReset(view[w]) ELSE view[w]
  BY <1>1, ResetViewsFacts
<1> HIDE DEF vs, r
<1>5. ring'.raised = FALSE
  BY <1>2, <1>3 DEF Ring
<1>6. ASSUME NEW w \in Views
      PROVE  Shows(ring', view'[w], Hidden[w])
  <2> DEFINE o == view[w]
             v == vs[w]
             u == view'[w]
             c == o.copy
  <2>1. ViewOk(v, now) /\ ViewOk(o, now)
    BY <1>1, <1>4 DEF Viewed
  <2>2. u = IF v.open THEN OnClear(v) ELSE v
    BY <1>2
  <2>3. v = IF o.open /\ ring.raised THEN OnReset(o) ELSE o
    BY <1>4
  <2>4. Shows(ring, o, Hidden[w])
    BY <1>1
  <2>11. RingOk(c, 0 .. now)
    BY <2>1 DEF ViewOk
  <2> HIDE DEF o, v, u
  <2>5. OnClear(v).open = v.open /\ OnClear(v).cleared = TRUE /\ OnClear(v).copy = v.copy
    BY <1>1, <2>1, OnClearFacts
  <2>6. /\ ~c.raised => OnReset(o) = o
        /\ c.raised => Follows(OnReset(o), o, Reset(c), Newest(o.shown, DefaultLimit))
    BY <1>1, <2>1, OnResetFacts
  <2>7. Reset(c).raised = FALSE
    <3> HIDE DEF c
    <3> QED
      BY <1>1, <2>11, ResetFacts
  <2>8. u.open => v.open /\ u.cleared /\ u.copy = v.copy
    BY <2>2, <2>5
  <2>9. v.open => ~v.copy.raised
    <3>1. SUFFICES ASSUME v.open
                   PROVE  ~v.copy.raised
      OBVIOUS
    <3>2. o.open
      BY <2>3, <2>6, <3>1 DEF Follows
    <3>3. c.raised => ring.raised
      BY <2>4, <3>2 DEF Shows
    <3>4. CASE c.raised
      BY <2>3, <2>6, <2>7, <3>2, <3>3, <3>4 DEF Follows
    <3>5. CASE ~c.raised
      BY <2>3, <2>6, <3>5
    <3> QED
      BY <3>4, <3>5
  <2>10. Shows(ring', u, Hidden[w])
    BY <2>8, <2>9 DEF Shows, Plain
  <2> QED
    BY <2>10 DEF u
<1> QED
  BY <1>5, <1>6 DEF ShownInv, RaisedFull

\* A view is cleared.
LEMMA ClearViewShown ==
  ASSUME HistoryInv, OrderInv, ShownInv, NEW w \in Views, ClearView(w)
  PROVE  ShownInv'
<1> DEFINE v == view[w]
           u == OnClear(v)
<1>1. /\ now \in Nat /\ Viewed(view, now) /\ RaisedFull(ring)
      /\ \A x \in Views : Shows(ring, view[x], Hidden[x])
  BY ShownFacts
<1>2. view' = [view EXCEPT ![w] = u] /\ ring' = ring
  BY DEF ClearView
<1>3. ViewOk(v, now) /\ view \in [Views -> ViewRec] /\ Shows(ring, v, Hidden[w])
  BY <1>1 DEF Viewed
<1> HIDE DEF v
<1>4. OnClear(v).open = v.open /\ OnClear(v).cleared = TRUE /\ OnClear(v).copy = v.copy
  BY <1>1, <1>3, OnClearFacts
<1>5. Shows(ring, u, Hidden[w])
  BY <1>3, <1>4 DEF Shows, Plain
<1> HIDE DEF u
<1>6. \A x \in Views : view'[x] = IF x = w THEN u ELSE view[x]
  BY <1>2, <1>3
<1> QED
  BY <1>1, <1>2, <1>5, <1>6 DEF ShownInv

\* Older messages are asked for, for a view.
LEMMA LoadOlderShown ==
  ASSUME HistoryInv, OrderInv, ShownInv, NEW w \in Views, ScrollToTop(w) \/ ChatFits(w)
  PROVE  ShownInv'
<1> DEFINE v == view[w]
           a == [v EXCEPT !.owns = TRUE]
           b == [v EXCEPT !.fitted = TRUE]
<1>1. /\ now \in Nat /\ Viewed(view, now) /\ RaisedFull(ring)
      /\ \A x \in Views : Shows(ring, view[x], Hidden[x])
  BY ShownFacts
<1>2. PICK u \in {a, b} : LoadOlder(w, u)
  BY DEF ScrollToTop, ChatFits
<1>3. (view' = view \/ view' = [view EXCEPT ![w] = u]) /\ ring' = ring
  <2> HIDE DEF a, b
  <2> QED
    BY <1>2, LoadOlderFacts DEF HistoryInv
<1>4. v \in ViewRec /\ view \in [Views -> ViewRec] /\ Shows(ring, v, Hidden[w])
  BY <1>1 DEF Viewed
<1>5. u.copy = v.copy /\ u.open = v.open /\ u.cleared = v.cleared /\ u.dated = v.dated
  <2> HIDE DEF v
  <2> QED
    BY <1>4 DEF ViewRec
<1> HIDE DEF v, a, b
<1>6. Shows(ring, u, Hidden[w])
  BY <1>4, <1>5 DEF Shows, Plain
<1>7. CASE view' = view
  BY <1>1, <1>3, <1>7 DEF ShownInv
<1>8. CASE view' = [view EXCEPT ![w] = u]
  <2>1. \A x \in Views : view'[x] = IF x = w THEN u ELSE view[x]
    BY <1>4, <1>8
  <2> QED
    BY <1>1, <1>3, <1>6, <2>1 DEF ShownInv
<1> QED
  BY <1>3, <1>7, <1>8

\* Every step keeps the invariant.
LEMMA ShownInvStays ==
  ASSUME HistoryInv, OrderInv, ShownInv, [Next]_vars
  PROVE  ShownInv'
<1>1. CASE Say \/ RecentAnswer \/ PageAnswer \/ Clear
  BY <1>1, SayShown, RecentAnswerShown, PageShown, ClearShown
<1>2. CASE Lose \/ Notice \/ Rejoin \/ RecentFails \/ ListAnswer \/ ListNotFound \/ RequestFails
           \/ UNCHANGED vars
  <2>1. ring' = ring /\ view' = view
    BY <1>2 DEF Lose, Notice, Rejoin, RecentFails, ListAnswer, ListNotFound, RequestFails, vars
  <2> QED
    BY <2>1 DEF ShownInv
<1>3. CASE \E w \in Views :
             ScrollToTop(w) \/ ChatFits(w) \/ ScrollToBottom(w) \/ Open(w) \/ Close(w) \/ ClearView(w)
  BY <1>3, LoadOlderShown, ReleaseShown, ClearViewShown
<1> QED
  BY <1>1, <1>2, <1>3 DEF Next, Answer

\* The behaviours start with views that were opened on a ring whose limit is not raised.
LEMMA ShownAtStart ==
  ASSUME Init
  PROVE  ShownInv
<1>1. HistoryInv /\ Ascends(ring.msgs)
  BY Starts
<1>2. now \in Nat /\ RingOk(ring, 1 .. now)
  BY <1>1, Numbers DEF HistoryInv, TypeInv
<1>3. PICK n \in {0, DefaultLimit} :
        ring = [EmptyRing EXCEPT !.msgs = Newest([t \in 1 .. now |-> t], n)]
  BY DEF Init
<1>4. ring.raised = FALSE
  BY <1>3 DEF EmptyRing
<1>5. PICK S \in SUBSET Views, d \in Current(DateOf) :
        view = [w \in Views |-> IF w \in S THEN Opened(w, ring, d) ELSE ClosedView]
  BY DEF Init
<1>7. d \in Nat
  BY <1>1, Dates DEF HistoryInv
<1>6. ASSUME NEW w \in Views
      PROVE  Shows(ring, view[w], Hidden[w])
  <2>1. CASE w \in S
    <3>1. Shows(ring, Opened(w, ring, d), Hidden[w])
      BY <1>1, <1>2, <1>7, OpenedShows
    <3> QED
      BY <1>5, <2>1, <3>1
  <2>2. CASE w \notin S
    <3>1. ~view[w].open
      BY <1>2, <1>5, <2>2, ClosedFacts
    <3> QED
      BY <3>1 DEF Shows
  <2> QED
    BY <2>1, <2>2
<1> QED
  BY <1>4, <1>6 DEF ShownInv, RaisedFull

\* What every view that was not cleared has of the channel, always.
LEMMA ShownInvHolds == Spec => []ShownInv
<1>1. Init => ShownInv
  BY ShownAtStart
<1>2. HistoryInv /\ OrderInv /\ ShownInv /\ [Next]_vars => ShownInv'
  BY ShownInvStays
<1> QED
  BY <1>1, <1>2, HistoryInvHolds, OrderInvHolds, PTL DEF Spec

\* Whatever its filters and whenever it was opened, a view that was not cleared shows
\* its copy; and if no new day put a separator into it, with it the newest messages
\* that the channel has for it: though limits are raised and given back, and though the
\* copy may have dropped, or got twice, what its channel has once, it never lacks one
\* of those.
THEOREM NewestShown ==
  Spec => [](\A w \in Views : view[w].open /\ ~view[w].cleared =>
                /\ view[w].shown = view[w].copy.msgs
                /\ view[w].dated = 0 => HasNewest(w, DefaultLimit))
<1> DEFINE P == \A w \in Views : view[w].open /\ ~view[w].cleared =>
                   /\ view[w].shown = view[w].copy.msgs
                   /\ view[w].dated = 0 => HasNewest(w, DefaultLimit)
<1>1. HistoryInv /\ OrderInv /\ ShownInv => P
  <2>1. SUFFICES ASSUME HistoryInv, OrderInv, ShownInv, NEW w \in Views,
                        view[w].open, ~view[w].cleared
                 PROVE  /\ view[w].shown = view[w].copy.msgs
                        /\ view[w].dated = 0 => HasNewest(w, DefaultLimit)
    OBVIOUS
  <2> DEFINE p == ring.msgs
             q == view[w].copy.msgs
             n == view[w].copy.limit
             H == Hidden[w]
  <2>2. /\ RingOk(ring, 1 .. now) /\ ViewOk(view[w], now) /\ Ascends(p) /\ now \in Nat
        /\ Shows(ring, view[w], H)
    BY <2>1, ShownFacts DEF Viewed
  <2>3. view[w].shown = q /\ RingOk(view[w].copy, 0 .. now)
    BY <2>1, <2>2 DEF ViewOk
  <2>4. p \in Seq(Nat) /\ q \in Seq(Nat)
    BY <2>2, <2>3 DEF RingOk, Ring
  <2>5. view[w].dated = 0 => Serves(p, q, n, H)
    BY <2>1, <2>2 DEF Shows, Enough, Plain
  <2>6. Included(w, p) = Without(p, H)
    BY DEF Included
  <2> HIDE DEF p, q, n, H
  <2>7. view[w].dated = 0 => Range(Newest(Without(p, H), DefaultLimit)) \subseteq Range(q)
    BY <2>2, <2>4, <2>5, ServesShows
  <2> QED
    BY <2>3, <2>6, <2>7 DEF p, q, HasNewest
<1> QED
  BY <1>1, HistoryInvHolds, OrderInvHolds, ShownInvHolds, PTL
================================================================================
