------------------------ MODULE AutoModReviewProofs ------------------------
(***************************************************************************)
(* Proofs about AutoModReview: its types, that a decision punishes once    *)
(* and under the account that denied, that an entry shows an action        *)
(* exactly while the answer that will be taken for it is awaited, and      *)
(* that it shows in the end what became of its message, with the           *)
(* punishment that was to follow.                                          *)
(*                                                                         *)
(* The invariant speaks of one entry and the calls at a time (EntryOk) and *)
(* of the calls alone (CallsOk).  A step of the controller answers a call, *)
(* makes a call of the next generation, or replaces an entry; the lemmas   *)
(* say what each of them leaves as it was.  The second part adds what the  *)
(* notifications say (NotesTell, AnswersTell), what an entry shows of them *)
(* (EntriesShow) and what has followed every denial (AllFollowed).         *)
(***************************************************************************)
EXTENDS AutoModReview, WellFoundedInduction, TLAPS

Running(e) == e.busy \/ e.state \in {"Approving", "Denying"}

\* The calls that are told apart from others by their generation alone.
CallsOk(cs, g) ==
  /\ \A c \in cs : /\ 1 <= c.gen /\ c.gen <= g
                   /\ 1 <= c.cause /\ c.cause <= c.gen
                   /\ c.action # "punish" => c.cause = c.gen
  /\ \A c, d \in cs : c.gen = d.gen => c = d
  /\ \A p \in cs : p.cause # p.gen =>
        \E d \in cs : /\ d.gen = p.cause /\ d.key = p.key /\ d.action = "denyPunish"
                      /\ d.account = p.account /\ d.accountGen = p.accountGen
  /\ \A p, q \in cs : p.action = "punish" /\ q.action = "punish" /\ p.cause = q.cause => p = q

\* What holds of the entry e of a key and the calls cs: a call of the entry's
\* generation is the one the entry waits for or has seen answered, and what
\* punishments have followed already is not the entry's generation any more.
EntryOk(k, e, cs, g) ==
  /\ e.gen <= g
  /\ \A c \in cs : e.gen = c.gen =>
        /\ k = c.key
        /\ c.action # "punish" => e.actorGen = c.accountGen
  /\ e.pending = "denyPunish" =>
        \E d \in cs : /\ d.key = k /\ d.gen = e.gen /\ d.action = "denyPunish"
                      /\ d.account = e.actor /\ d.accountGen = e.actorGen
  /\ \A p \in cs : p.cause # p.gen => e.gen # p.cause
  /\ Running(e) <=> \E c \in cs : c.key = k /\ ~c.done /\ c.gen = e.gen
  /\ e.busy => e.state = "Denied" /\ ~e.lapsed
  /\ e.busy => \A c \in cs : c.gen = e.gen => c.action = "punish"
  /\ e.lapsed => e.state = "Denied"
  /\ e.state \in {"Approving", "Denying"} => \A c \in cs : c.gen = e.gen => c.action # "punish"

UnknownIsNew == \A k \in Keys : k \notin Known => entries[k] = NewEntry

IInv ==
  /\ TypeOK
  /\ CallsOk(calls, generation)
  /\ \A k \in Keys : EntryOk(k, entries[k], calls, generation)
  /\ UnknownIsNew

-----------------------------------------------------------------------------
(* The calls and one entry *)

\* A new entry waits for nothing: its generation is that of no call.
LEMMA NewEntryOk ==
  ASSUME NEW k \in Keys, NEW cs \in SUBSET Call, NEW g \in Nat, CallsOk(cs, g)
  PROVE  NewEntry \in Entry /\ EntryOk(k, NewEntry, cs, g)
<1>1. \A c \in cs : c.gen \in Nat /\ c.cause \in Nat /\ 1 <= c.gen /\ 1 <= c.cause
  BY DEF CallsOk, Call
<1>2. NewEntry.gen = 0 /\ NewEntry.pending = "none" /\ NewEntry.state = "Open"
      /\ NewEntry.busy = FALSE /\ NewEntry.lapsed = FALSE
  BY DEF NewEntry
<1>3. NewEntry \in Entry
  BY DEF NewEntry, Entry, Decisions
<1> QED BY <1>1, <1>2, <1>3 DEF EntryOk, Running

\* What a call keeps when Twitch or the controller has handled it.
Same(c, d) ==
  /\ d.key = c.key /\ d.gen = c.gen /\ d.action = c.action /\ d.account = c.account
  /\ d.accountGen = c.accountGen /\ d.cause = c.cause

\* A call is replaced by itself with another answer, or marked as done.
LEMMA ReplacedCall ==
  ASSUME NEW cs \in SUBSET Call, NEW g \in Nat, CallsOk(cs, g),
         NEW c \in cs, NEW d \in Call, Same(c, d)
  PROVE  /\ (cs \ {c}) \cup {d} \in SUBSET Call
         /\ CallsOk((cs \ {c}) \cup {d}, g)
         /\ \A k \in Keys, e \in Entry :
               EntryOk(k, e, cs, g) /\ (e.gen # c.gen \/ d.done = c.done)
                 => EntryOk(k, e, (cs \ {c}) \cup {d}, g)
<1> DEFINE ds == (cs \ {c}) \cup {d}
<1>1. ds \in SUBSET Call
  OBVIOUS
<1>2. /\ \A x \in ds : \E y \in cs : Same(y, x) /\ (y = c <=> x = d) /\ (y # c => x = y)
      /\ \A y \in cs : \E x \in ds : Same(y, x) /\ (y = c <=> x = d) /\ (y # c => x = y)
  <2>1. \A y \in cs : y # c => ~Same(y, d)
    BY DEF CallsOk, Same
  <2>2. \A y \in cs : Same(y, y)
    BY DEF Same
  <2> QED BY <2>1, <2>2
<1>3. CallsOk(ds, g)
  <2>1. \A x \in ds : /\ 1 <= x.gen /\ x.gen <= g
                      /\ 1 <= x.cause /\ x.cause <= x.gen
                      /\ x.action # "punish" => x.cause = x.gen
    BY <1>2 DEF CallsOk, Same
  <2>2. \A x, y \in ds : x.gen = y.gen => x = y
    BY <1>2 DEF CallsOk, Same
  <2>3. \A p \in ds : p.cause # p.gen =>
           \E x \in ds : /\ x.gen = p.cause /\ x.key = p.key /\ x.action = "denyPunish"
                         /\ x.account = p.account /\ x.accountGen = p.accountGen
    <3> SUFFICES ASSUME NEW p \in ds, p.cause # p.gen
                 PROVE  \E x \in ds : /\ x.gen = p.cause /\ x.key = p.key
                                      /\ x.action = "denyPunish"
                                      /\ x.account = p.account /\ x.accountGen = p.accountGen
      OBVIOUS
    <3>1. PICK q \in cs : Same(q, p)
      BY <1>2
    <3>2. PICK y \in cs : /\ y.gen = q.cause /\ y.key = q.key /\ y.action = "denyPunish"
                          /\ y.account = q.account /\ y.accountGen = q.accountGen
      BY <3>1 DEF CallsOk, Same
    <3>3. PICK x \in ds : Same(y, x)
      BY <1>2
    <3> QED BY <3>1, <3>2, <3>3 DEF Same
  <2>4. \A p, q \in ds : p.action = "punish" /\ q.action = "punish" /\ p.cause = q.cause => p = q
    BY <1>2 DEF CallsOk, Same
  <2> QED BY <2>1, <2>2, <2>3, <2>4 DEF CallsOk
<1>4. ASSUME NEW k \in Keys, NEW e \in Entry, EntryOk(k, e, cs, g),
             e.gen # c.gen \/ d.done = c.done
      PROVE  EntryOk(k, e, ds, g)
  <2>1. e.gen <= g
    BY <1>4 DEF EntryOk
  <2>2. \A x \in ds : e.gen = x.gen =>
           k = x.key /\ (x.action # "punish" => e.actorGen = x.accountGen)
    BY <1>2, <1>4 DEF EntryOk, Same
  <2>3. ASSUME e.pending = "denyPunish"
        PROVE  \E x \in ds : /\ x.key = k /\ x.gen = e.gen /\ x.action = "denyPunish"
                             /\ x.account = e.actor /\ x.accountGen = e.actorGen
    <3>1. PICK y \in cs : /\ y.key = k /\ y.gen = e.gen /\ y.action = "denyPunish"
                          /\ y.account = e.actor /\ y.accountGen = e.actorGen
      BY <1>4, <2>3 DEF EntryOk
    <3>2. PICK x \in ds : Same(y, x)
      BY <1>2
    <3> QED BY <3>1, <3>2 DEF Same
  <2>4. \A p \in ds : p.cause # p.gen => e.gen # p.cause
    BY <1>2, <1>4 DEF EntryOk, Same
  <2>5. (\E x \in ds : x.key = k /\ ~x.done /\ x.gen = e.gen)
          <=> \E x \in cs : x.key = k /\ ~x.done /\ x.gen = e.gen
    <3>1. ASSUME NEW x \in ds, x.key = k, ~x.done, x.gen = e.gen
          PROVE  \E y \in cs : y.key = k /\ ~y.done /\ y.gen = e.gen
      <4>1. CASE x = d
        BY <3>1, <4>1, <1>4 DEF Same
      <4>2. CASE x # d
        BY <3>1, <4>2
      <4> QED BY <4>1, <4>2
    <3>2. ASSUME NEW y \in cs, y.key = k, ~y.done, y.gen = e.gen
          PROVE  \E x \in ds : x.key = k /\ ~x.done /\ x.gen = e.gen
      <4>1. CASE y = c
        BY <3>2, <4>1, <1>4 DEF Same
      <4>2. CASE y # c
        BY <3>2, <4>2
      <4> QED BY <4>1, <4>2
    <3> QED BY <3>1, <3>2
  <2>6. \A x \in ds : \E y \in cs : y.gen = x.gen /\ y.action = x.action
    BY <1>2 DEF Same
  <2> QED BY <1>4, <2>1, <2>2, <2>3, <2>4, <2>5, <2>6 DEF EntryOk
<1> QED BY <1>1, <1>3, <1>4

\* The generation moves on without a call.
LEMMA Weaken ==
  ASSUME NEW cs \in SUBSET Call, NEW g \in Nat, CallsOk(cs, g)
  PROVE  /\ CallsOk(cs, g + 1)
         /\ \A k \in Keys, e \in Entry : EntryOk(k, e, cs, g) => EntryOk(k, e, cs, g + 1)
<1>1. \A c \in cs : c.gen \in Nat
  BY DEF Call
<1>2. CallsOk(cs, g + 1)
  BY <1>1 DEF CallsOk
<1>3. ASSUME NEW k \in Keys, NEW e \in Entry, EntryOk(k, e, cs, g)
      PROVE  EntryOk(k, e, cs, g + 1)
  <2>1. e.gen \in Nat /\ e.gen <= g
    BY <1>3 DEF EntryOk, Entry
  <2> QED BY <1>3, <2>1 DEF EntryOk
<1> QED BY <1>2, <1>3

\* What is left of EntryOk for an entry that waits for no call.
Quiet(k, e, cs, g) ==
  /\ e.gen <= g
  /\ \A c \in cs : e.gen = c.gen =>
        /\ k = c.key
        /\ c.action # "punish" => e.actorGen = c.accountGen
        /\ c.done
  /\ \A p \in cs : p.cause # p.gen => e.gen # p.cause

\* An entry that shows no action is quiet, and so is one of a new generation.
LEMMA QuietEntries ==
  ASSUME NEW cs \in SUBSET Call, NEW g \in Nat, CallsOk(cs, g), NEW k \in Keys, NEW e \in Entry
  PROVE  /\ EntryOk(k, e, cs, g) /\ ~Running(e) => Quiet(k, e, cs, g)
         /\ e.gen = g + 1 => Quiet(k, e, cs, g + 1)
<1>1. \A c \in cs : c.gen \in Nat /\ c.cause \in Nat /\ c.gen <= g /\ c.cause <= c.gen /\ c.done \in BOOLEAN
  BY DEF Call, CallsOk
<1>2. EntryOk(k, e, cs, g) /\ ~Running(e) => Quiet(k, e, cs, g)
  BY DEF EntryOk, Quiet
<1>3. ASSUME e.gen = g + 1
      PROVE  Quiet(k, e, cs, g + 1)
  <2>1. \A c \in cs : e.gen # c.gen /\ e.gen # c.cause
    BY <1>1, <1>3
  <2> QED BY <1>3, <2>1 DEF Quiet
<1> QED BY <1>2, <1>3

\* A quiet entry may show any end of an action.
LEMMA QuietIsOk ==
  ASSUME NEW cs \in SUBSET Call, NEW g \in Nat, NEW k \in Keys, NEW e \in Entry, NEW f \in Entry,
         Quiet(k, e, cs, g), f.gen = e.gen, f.actorGen = e.actorGen,
         ~Running(f), f.pending # "denyPunish", f.lapsed => f.state = "Denied"
  PROVE  EntryOk(k, f, cs, g)
<1>1. f.busy \in BOOLEAN /\ ~f.busy /\ f.state \notin {"Approving", "Denying"}
  BY DEF Running, Entry
<1>2. \A c \in cs : f.gen = c.gen => c.done
  BY DEF Quiet
<1> QED BY <1>1, <1>2 DEF EntryOk, Quiet

\* A call of the next generation: a decision or a retry, which is its own
\* cause, or the punishment that a denial is followed by.
LEMMA NewCall ==
  ASSUME NEW cs \in SUBSET Call, NEW g \in Nat, CallsOk(cs, g),
         NEW n \in Call, n.gen = g + 1, ~n.done,
         \/ n.cause = n.gen
         \/ /\ n.action = "punish"
            /\ \E d \in cs : /\ d.gen = n.cause /\ d.key = n.key /\ d.action = "denyPunish"
                             /\ d.account = n.account /\ d.accountGen = n.accountGen
            /\ \A p \in cs : p.action = "punish" => p.cause # n.cause
  PROVE  /\ CallsOk(cs \cup {n}, g + 1)
         /\ \A k \in Keys, e \in Entry :
               EntryOk(k, e, cs, g) /\ (n.cause = n.gen \/ e.gen # n.cause)
                 => EntryOk(k, e, cs \cup {n}, g + 1)
<1> DEFINE ds == cs \cup {n}
<1>1. \A c \in cs : c.gen \in Nat /\ c.cause \in Nat /\ 1 <= c.gen /\ c.gen <= g /\ 1 <= c.cause
                   /\ c.cause <= c.gen
  BY DEF Call, CallsOk
<1>2. n.cause \in Nat /\ 1 <= n.cause /\ n.cause <= n.gen
  <2>1. n.cause \in Nat /\ n.gen \in Nat
    BY DEF Call
  <2>2. CASE n.cause = n.gen
    BY <2>1, <2>2
  <2>3. CASE n.cause # n.gen
    <3>1. PICK d \in cs : d.gen = n.cause
      BY <2>3
    <3> QED BY <1>1, <2>1, <3>1
  <2> QED BY <2>1, <2>2, <2>3
<1>3. CallsOk(ds, g + 1)
  <2>1. \A c \in ds : /\ 1 <= c.gen /\ c.gen <= g + 1
                      /\ 1 <= c.cause /\ c.cause <= c.gen
                      /\ c.action # "punish" => c.cause = c.gen
    BY <1>1, <1>2 DEF CallsOk
  <2>2. \A c, d \in ds : c.gen = d.gen => c = d
    BY <1>1 DEF CallsOk
  <2>3. \A p \in ds : p.cause # p.gen =>
          \E d \in ds : /\ d.gen = p.cause /\ d.key = p.key /\ d.action = "denyPunish"
                        /\ d.account = p.account /\ d.accountGen = p.accountGen
    <3>1. \A p \in cs : p.cause # p.gen =>
            \E d \in ds : /\ d.gen = p.cause /\ d.key = p.key /\ d.action = "denyPunish"
                          /\ d.account = p.account /\ d.accountGen = p.accountGen
      BY DEF CallsOk
    <3> QED BY <3>1
  <2>4. \A p, q \in ds : p.action = "punish" /\ q.action = "punish" /\ p.cause = q.cause => p = q
    <3>1. \A p \in cs : p.action = "punish" => p.cause # n.cause
      BY <1>1
    <3> QED BY <3>1 DEF CallsOk
  <2> QED BY <2>1, <2>2, <2>3, <2>4 DEF CallsOk
<1>4. ASSUME NEW k \in Keys, NEW e \in Entry, EntryOk(k, e, cs, g), n.cause = n.gen \/ e.gen # n.cause
      PROVE  EntryOk(k, e, ds, g + 1)
  <2>1. e.gen \in Nat /\ e.gen <= g /\ e.gen # n.gen
    BY <1>4 DEF EntryOk, Entry
  <2>2. \A c \in ds : e.gen = c.gen => c \in cs
    BY <2>1
  <2>3. \A p \in ds : p.cause # p.gen => e.gen # p.cause
    BY <1>4 DEF EntryOk
  <2>4. Running(e) <=> \E c \in ds : c.key = k /\ ~c.done /\ c.gen = e.gen
    BY <1>4, <2>2 DEF EntryOk
  <2>5. e.pending = "denyPunish" =>
           \E d \in ds : /\ d.key = k /\ d.gen = e.gen /\ d.action = "denyPunish"
                         /\ d.account = e.actor /\ d.accountGen = e.actorGen
    BY <1>4 DEF EntryOk
  <2>6. e.gen <= g + 1
    BY <2>1
  <2> QED BY <1>4, <2>2, <2>3, <2>4, <2>5, <2>6 DEF EntryOk
<1> QED BY <1>3, <1>4

\* The entry that waits for the new call.
LEMMA NewCallsEntry ==
  ASSUME NEW cs \in SUBSET Call, NEW g \in Nat, CallsOk(cs, g), NEW k \in Keys,
         NEW n \in Call, n.gen = g + 1, ~n.done, n.key = k,
         NEW f \in Entry, f.gen = g + 1,
         \/ /\ n.action = "punish" /\ f.pending = "punish"
            /\ f.busy /\ f.state = "Denied" /\ ~f.lapsed
         \/ /\ n.action # "punish" /\ f.pending = n.action
            /\ f.state \in {"Approving", "Denying"} /\ ~f.busy /\ ~f.lapsed
            /\ f.actor = n.account /\ f.actorGen = n.accountGen
  PROVE  EntryOk(k, f, cs \cup {n}, g + 1)
<1>1. \A c \in cs : c.gen \in Nat /\ c.cause \in Nat /\ c.gen <= g /\ c.cause <= g
  BY DEF Call, CallsOk
<1>2. \A c \in cs : c.gen # f.gen /\ c.cause # f.gen
  BY <1>1
<1>3. \A c \in cs \cup {n} : c.gen = f.gen => c = n
  BY <1>2
<1>4. Running(f)
  BY DEF Running
<1>5. f.gen <= g + 1
  OBVIOUS
<1>6. f.pending = "denyPunish" => n.action = "denyPunish" /\ f.actor = n.account /\ f.actorGen = n.accountGen
  OBVIOUS
<1>7. \A p \in cs \cup {n} : p.cause # p.gen => f.gen # p.cause
  BY <1>2
<1>8. \E c \in cs \cup {n} : c.key = k /\ ~c.done /\ c.gen = f.gen
  OBVIOUS
<1> QED BY <1>3, <1>4, <1>5, <1>6, <1>7, <1>8 DEF EntryOk

-----------------------------------------------------------------------------
(* The second call *)

\* What the entries and calls are after the second call of the key k.
Follows(k, o, cs, g, expected, cause) ==
  /\ o.entry \in Entry /\ o.gen \in Nat /\ o.gen >= g /\ cs \cup o.made \in SUBSET Call
  /\ CallsOk(cs \cup o.made, o.gen)
  /\ EntryOk(k, o.entry, cs \cup o.made, o.gen)
  /\ \A k2 \in Keys, e2 \in Entry :
        EntryOk(k2, e2, cs, g) /\ (expected # Nobody => e2.gen # cause)
          => EntryOk(k2, e2, cs \cup o.made, o.gen)

\* performSecondary() for a quiet entry of a retry, or of a denial that no
\* punishment has followed, leaves all entries as they should be.
LEMMA SecondaryOutcome ==
  ASSUME account \in Accounts \cup {Nobody}, accountGen \in Nat, Nobody \notin Accounts,
         NEW cs \in SUBSET Call, NEW g \in Nat, CallsOk(cs, g), NEW k \in Keys, NEW e \in Entry,
         Quiet(k, e, cs, g), NEW expected \in Accounts \cup {Nobody}, NEW cause \in Nat,
         expected # Nobody =>
           /\ e.state = "Denied"
           /\ \E d \in cs : /\ d.gen = cause /\ d.key = k /\ d.action = "denyPunish"
                            /\ d.account = expected /\ d.accountGen = e.actorGen
           /\ \A p \in cs : p.action = "punish" => p.cause # cause,
         expected = Nobody => e.state = "Denied",
         NEW o, o = PerformSecondary(k, e, g, expected, cause)
  PROVE  Follows(k, o, cs, g, expected, cause)
<1>1. CASE ~ActionsAllowed \/ AccountChanged(e, expected)
  <2> DEFINE f == [e EXCEPT !.state = "Denied", !.pending = "none", !.busy = FALSE,
                            !.lapsed = TRUE, !.punishes = TRUE, !.actor = Nobody]
  <2>1. o = [entry |-> f, gen |-> g, made |-> {}]
    BY <1>1 DEF PerformSecondary
  <2>2. f \in Entry /\ f.gen = e.gen /\ f.actorGen = e.actorGen /\ f.state = "Denied"
        /\ f.pending = "none" /\ f.busy = FALSE
    BY DEF Entry, Resolved
  <2>3. ~Running(f)
    BY <2>2 DEF Running
  <2>4. EntryOk(k, f, cs, g)
    BY <2>2, <2>3, QuietIsOk
  <2>5. cs \cup {} = cs
    OBVIOUS
  <2> QED BY <2>1, <2>2, <2>4, <2>5 DEF Follows
<1>2. CASE ~(~ActionsAllowed \/ AccountChanged(e, expected))
  <2> DEFINE f == [e EXCEPT !.busy = TRUE, !.lapsed = FALSE, !.punishes = TRUE,
                            !.pending = "punish", !.gen = g + 1]
             n == [key |-> k, gen |-> g + 1, action |-> "punish", account |-> account,
                   accountGen |-> accountGen, done |-> FALSE, answer |-> "",
                   cause |-> IF expected = Nobody THEN g + 1 ELSE cause]
  <2>1. o = [entry |-> f, gen |-> g + 1, made |-> {n}]
    BY <1>2 DEF PerformSecondary
  <2>2. f \in Entry /\ f.gen = g + 1 /\ f.busy /\ ~f.lapsed /\ f.pending = "punish"
        /\ f.state = e.state
    <3>1. \A h \in Nat : [e EXCEPT !.busy = TRUE, !.lapsed = FALSE, !.punishes = TRUE,
                                   !.pending = "punish", !.gen = h] \in Entry
      BY DEF Entry
    <3>2. f \in Entry
      <4>1. g + 1 \in Nat
        OBVIOUS
      <4> QED BY <3>1, <4>1, Zenon
    <3>3. /\ f.state = e.state /\ f.pending = "punish" /\ f.busy = TRUE /\ f.lapsed = FALSE
          /\ f.gen = g + 1
      BY DEF Entry
    <3> QED BY <3>2, <3>3
  <2>3. account \in Accounts
    BY <1>2 DEF ActionsAllowed
  <2>4. n \in Call
    <3>1. (IF expected = Nobody THEN g + 1 ELSE cause) \in Nat /\ g + 1 \in Nat
      OBVIOUS
    <3>2. \A h, i \in Nat :
             [key |-> k, gen |-> h, action |-> "punish", account |-> account,
              accountGen |-> accountGen, done |-> FALSE, answer |-> "", cause |-> i] \in Call
      BY <2>3 DEF Call
    <3> QED BY <3>1, <3>2
  <2>5. f.state = "Denied"
    BY <2>2
  <2>6. expected # Nobody => expected = account /\ e.actorGen = accountGen
    BY <1>2, <2>3 DEF AccountChanged
  <2>7. n.gen = g + 1 /\ ~n.done /\ n.key = k /\ n.action = "punish" /\ n.account = account
        /\ n.accountGen = accountGen
        /\ n.cause = IF expected = Nobody THEN g + 1 ELSE cause
    OBVIOUS
  <2> HIDE DEF f, n
  <2>8. /\ CallsOk(cs \cup {n}, g + 1)
        /\ \A k2 \in Keys, e2 \in Entry :
              EntryOk(k2, e2, cs, g) /\ (n.cause = n.gen \/ e2.gen # n.cause)
                => EntryOk(k2, e2, cs \cup {n}, g + 1)
    <3>1. \/ n.cause = n.gen
          \/ /\ n.action = "punish"
             /\ \E d \in cs : /\ d.gen = n.cause /\ d.key = n.key /\ d.action = "denyPunish"
                              /\ d.account = n.account /\ d.accountGen = n.accountGen
             /\ \A p \in cs : p.action = "punish" => p.cause # n.cause
      <4>1. CASE expected = Nobody
        BY <4>1, <2>7
      <4>2. CASE expected # Nobody
        BY <4>2, <2>6, <2>7
      <4> QED BY <4>1, <4>2
    <3> QED BY <3>1, <2>4, <2>7, NewCall
  <2>9. EntryOk(k, f, cs \cup {n}, g + 1)
    BY <2>2, <2>4, <2>5, <2>7, NewCallsEntry
  <2>10. cs \cup {n} \in SUBSET Call
    BY <2>4
  <2>11. o.entry = f /\ o.gen = g + 1 /\ o.made = {n} /\ g + 1 \in Nat /\ g + 1 >= g
    BY <2>1
  <2>12. \A k2 \in Keys, e2 \in Entry :
            EntryOk(k2, e2, cs, g) /\ (expected # Nobody => e2.gen # cause)
              => EntryOk(k2, e2, cs \cup {n}, g + 1)
    BY <2>7, <2>8
  <2> QED BY <2>2, <2>8, <2>9, <2>10, <2>11, <2>12 DEF Follows
<1> QED BY <1>1, <1>2

-----------------------------------------------------------------------------
(* Keeping and dropping entries *)

LEMMA Least ==
  ASSUME NEW T \in SUBSET Nat, T # {}
  PROVE  \E j \in T : \A h \in T : j <= h
<1>1. PICK j \in T : \A h \in T : ~(<<h, j>> \in OpToRel(<, Nat))
  BY WFMin, NatLessThanWellFounded, Zenon
<1>2. \A h \in T : ~(h < j)
  BY <1>1 DEF OpToRel
<1> QED BY <1>2

\* a and b are what keys has before and behind the place j.
CutAt(keys, j, a, b) ==
  /\ Len(a) = j - 1 /\ \A h \in 1 .. j - 1 : a[h] = keys[h]
  /\ Len(b) = Len(keys) - j /\ \A h \in 1 .. Len(keys) - j : b[h] = keys[j + h]

\* The keys that are kept: all but the one at some place.
LEMMA PrunedAt ==
  ASSUME MaxItems \in Nat \ {0}, NEW table, NEW keys \in Seq(Keys), ~(Len(keys) <= MaxItems)
  PROVE  \E j \in 1 .. Len(keys), a, b \in Seq(Keys) :
            Pruned(table, keys) = a \o b /\ CutAt(keys, j, a, b)
<1> DEFINE old == ResolvedAt(table, keys)
           i == IF old = {} THEN 1 ELSE CHOOSE j \in old : \A h \in old : j <= h
<1>1. old \in SUBSET Nat /\ old \subseteq 1 .. Len(keys) /\ Len(keys) \in Nat /\ Len(keys) >= 1
  BY DEF ResolvedAt
<1> HIDE DEF old
<1>2. i \in 1 .. Len(keys)
  <2>1. CASE old = {}
    BY <1>1, <2>1
  <2>2. CASE old # {}
    <3>1. \E j \in old : \A h \in old : j <= h
      BY <1>1, <2>2, Least
    <3>2. i \in old
      BY <2>2, <3>1
    <3> QED BY <1>1, <3>2
  <2> QED BY <2>1, <2>2
<1>3. Pruned(table, keys) = SubSeq(keys, 1, i - 1) \o SubSeq(keys, i + 1, Len(keys))
  BY DEF Pruned, old
<1> HIDE DEF i
<1>4. PICK j \in 1 .. Len(keys) : j = i
  BY <1>2
<1> DEFINE a == SubSeq(keys, 1, j - 1)
           b == SubSeq(keys, j + 1, Len(keys))
<1>5. /\ a \in Seq(Keys) /\ Len(a) = j - 1 /\ \A h \in 1 .. j - 1 : a[h] = keys[h]
      /\ b \in Seq(Keys) /\ Len(b) = Len(keys) - j
      /\ \A h \in 1 .. Len(keys) - j : b[h] = keys[j + h]
  <2>1. \A h \in 1 .. j - 1 : h \in 1 .. Len(keys)
    BY <1>1
  <2>2. \A h \in j + 1 .. Len(keys) : h \in 1 .. Len(keys)
    BY <1>1
  <2> QED BY <2>1, <2>2, <1>1
<1>6. Pruned(table, keys) = a \o b
  BY <1>3, <1>4
<1> HIDE DEF a, b
<1> QED BY <1>5, <1>6 DEF CutAt

\* One key too many is brought down to the bound, and prune() invents none.
LEMMA PrunedType ==
  ASSUME MaxItems \in Nat \ {0}, NEW table, NEW keys \in Seq(Keys)
  PROVE  /\ Pruned(table, keys) \in Seq(Keys)
         /\ Len(keys) <= MaxItems + 1 => Len(Pruned(table, keys)) <= MaxItems
         /\ \A i \in 1 .. Len(Pruned(table, keys)) :
               \E j \in 1 .. Len(keys) : keys[j] = Pruned(table, keys)[i]
<1>1. CASE Len(keys) <= MaxItems
  BY <1>1 DEF Pruned
<1>2. CASE ~(Len(keys) <= MaxItems)
  <2>1. PICK j \in 1 .. Len(keys), a \in Seq(Keys), b \in Seq(Keys) :
           Pruned(table, keys) = a \o b /\ CutAt(keys, j, a, b)
    BY <1>2, PrunedAt
  <2>2. /\ Len(a) = j - 1 /\ \A h \in 1 .. j - 1 : a[h] = keys[h]
        /\ Len(b) = Len(keys) - j /\ \A h \in 1 .. Len(keys) - j : b[h] = keys[j + h]
    BY <2>1 DEF CutAt
  <2>3. a \o b \in Seq(Keys) /\ Len(a \o b) = Len(a) + Len(b) /\ Len(keys) \in Nat
    OBVIOUS
  <2>4. ASSUME NEW h \in 1 .. Len(a \o b) PROVE \E i \in 1 .. Len(keys) : keys[i] = (a \o b)[h]
    <3>1. CASE h <= Len(a)
      BY <2>2, <2>3, <3>1
    <3>2. CASE ~(h <= Len(a))
      <4>1. h - Len(a) \in 1 .. Len(keys) - j /\ (a \o b)[h] = b[h - Len(a)]
        BY <2>2, <2>3, <3>2
      <4>2. keys[j + (h - Len(a))] = (a \o b)[h] /\ j + (h - Len(a)) \in 1 .. Len(keys)
        BY <2>2, <2>3, <4>1
      <4> QED BY <4>2
    <3> QED BY <3>1, <3>2
  <2>5. Len(keys) <= MaxItems + 1 => Len(a \o b) <= MaxItems
    BY <2>2, <2>3
  <2> QED BY <2>1, <2>3, <2>4, <2>5
<1> QED BY <1>1, <1>2

\* Entries that are as they should be are so when one of them is dropped.
LEMMA KeepStep ==
  ASSUME MaxItems \in Nat \ {0}, dropped \subseteq Keys,
         NEW table \in [Keys -> Entry], NEW keys \in Seq(Keys), Len(keys) <= MaxItems + 1,
         Keep(table, keys), NEW cs \in SUBSET Call, NEW g \in Nat, CallsOk(cs, g),
         \A k \in Keys : EntryOk(k, table[k], cs, g)
  PROVE  /\ order' \in Seq(Keys) /\ Len(order') <= MaxItems
         /\ entries' \in [Keys -> Entry] /\ dropped' \subseteq Keys
         /\ \A k \in Keys : EntryOk(k, entries'[k], cs, g)
         /\ UnknownIsNew'
<1> DEFINE known == {order'[j] : j \in 1 .. Len(order')}
<1>1. order' = Pruned(table, keys)
  BY DEF Keep
<1>2. entries' = [k \in Keys |-> IF k \in known THEN table[k] ELSE NewEntry]
  BY DEF Keep
<1>3. \A k \in Keys : NewEntry \in Entry /\ EntryOk(k, NewEntry, cs, g)
  BY NewEntryOk
<1>4. \A k \in Keys : entries'[k] = table[k] \/ entries'[k] = NewEntry
  BY <1>2
<1>5. entries' \in [Keys -> Entry]
  BY <1>2, <1>3
<1>6. \A k \in Keys : EntryOk(k, entries'[k], cs, g)
  BY <1>3, <1>4
<1>7. UnknownIsNew'
  BY <1>2 DEF UnknownIsNew, Known
<1>8. dropped' \subseteq Keys
  BY DEF Keep
<1>9. order' \in Seq(Keys) /\ Len(order') <= MaxItems
  BY <1>1, PrunedType
<1> QED BY <1>5, <1>6, <1>7, <1>8, <1>9

-----------------------------------------------------------------------------
(* The steps *)

\* The entry of one known key is replaced.
LEMMA ReplaceEntry ==
  ASSUME IInv, NEW key \in Keys, key \in Known, NEW f \in Entry,
         entries' = [entries EXCEPT ![key] = f], generation' \in Nat, calls' \in SUBSET Call,
         UNCHANGED <<order, dropped, world, twitch, notes, seen>>,
         CallsOk(calls', generation'), EntryOk(key, f, calls', generation'),
         \A k \in Keys \ {key} : EntryOk(k, entries[k], calls', generation')
  PROVE  IInv'
<1>1. entries \in [Keys -> Entry]
  BY DEF IInv, TypeOK
<1>2. entries' \in [Keys -> Entry] /\ \A k \in Keys : entries'[k] = IF k = key THEN f ELSE entries[k]
  BY <1>1
<1>3. \A k \in Keys : EntryOk(k, entries'[k], calls', generation')
  BY <1>2
<1>4. UnknownIsNew'
  BY <1>2 DEF IInv, UnknownIsNew, Known
<1>5. TypeOK'
  BY <1>2 DEF IInv, TypeOK, world
<1> QED BY <1>3, <1>4, <1>5 DEF IInv

LEMMA WorldStep == IInv /\ (SwitchAccount \/ ChangeRights) => IInv'
<1> SUFFICES ASSUME IInv, SwitchAccount \/ ChangeRights PROVE IInv'
  OBVIOUS
<1>1. UNCHANGED <<own, twitch, notes, seen>>
  BY DEF SwitchAccount, ChangeRights
<1>2. /\ account' \in Accounts \cup {Nobody} /\ rights' \in BOOLEAN
      /\ accountGen' \in 0 .. MaxSwitches
  <2>1. CASE SwitchAccount
    <3>1. account' \in Accounts \cup {Nobody} /\ rights' \in BOOLEAN
      BY <2>1 DEF SwitchAccount
    <3>2. accountGen' \in 0 .. MaxSwitches
      BY <2>1, BoundsAssumption DEF SwitchAccount, IInv, TypeOK
    <3> QED BY <3>1, <3>2
  <2>2. CASE ChangeRights
    BY <2>2 DEF ChangeRights, IInv, TypeOK
  <2> QED BY <2>1, <2>2
<1>3. TypeOK'
  BY <1>1, <1>2 DEF IInv, TypeOK, own
<1> QED BY <1>1, <1>3 DEF IInv, UnknownIsNew, Known, own

LEMMA TwitchStep ==
  ASSUME IInv, NEW key \in Keys, HoldMessage(key) \/ ResolveElsewhere(key)
  PROVE  IInv'
<1>1. UNCHANGED <<own, world, seen>>
  BY DEF HoldMessage, ResolveElsewhere
<1>2. PICK status \in Statuses \cup {"held"}, note \in Note :
         twitch' = [twitch EXCEPT ![key] = status] /\ notes' = notes \cup {note}
  <2>1. CASE HoldMessage(key)
    BY <2>1 DEF HoldMessage, Note
  <2>2. CASE ResolveElsewhere(key)
    BY <2>2 DEF ResolveElsewhere, Resolve, Note
  <2> QED BY <2>1, <2>2
<1>3. TypeOK'
  BY <1>1, <1>2 DEF IInv, TypeOK, own, world
<1> QED BY <1>1, <1>3 DEF IInv, UnknownIsNew, Known, own

\* A decision is made, or refused for lack of rights.
LEMMA DecisionStep ==
  ASSUME IInv, NEW key \in Keys, key \in Known, NEW action \in Decisions, NEW retrying \in BOOLEAN,
         PerformDecision(key, action, retrying),
         UNCHANGED <<order, dropped, world, twitch, notes, seen>>
  PROVE  IInv'
<1> DEFINE e == entries[key]
<1>1. /\ e \in Entry /\ generation \in Nat /\ calls \in SUBSET Call /\ accountGen \in Nat
      /\ EntryOk(key, e, calls, generation) /\ CallsOk(calls, generation)
      /\ \A k \in Keys : entries[k] \in Entry /\ EntryOk(k, entries[k], calls, generation)
  BY BoundsAssumption DEF IInv, TypeOK
<1>2. e.state \in {"Open", "Failed", "PermissionLost"}
  BY DEF PerformDecision
<1>3. e.busy = FALSE /\ e.lapsed = FALSE /\ ~Running(e)
  BY <1>1, <1>2 DEF EntryOk, Running, Entry
<1>4. CASE ~ActionsAllowed
  <2> DEFINE f == [e EXCEPT !.state = "PermissionLost", !.failed = action]
  <2>1. /\ entries' = [entries EXCEPT ![key] = f]
        /\ generation' = generation /\ calls' = calls \cup {}
    BY <1>4 DEF PerformDecision, Take
  <2>2. /\ f \in Entry /\ f.gen = e.gen /\ f.actor = e.actor /\ f.actorGen = e.actorGen
        /\ f.pending = e.pending /\ f.busy = e.busy /\ f.lapsed = e.lapsed
        /\ f.state = "PermissionLost"
    BY <1>1 DEF Entry
  <2> HIDE DEF f
  <2>3. EntryOk(key, f, calls, generation)
    BY <1>1, <1>3, <2>2 DEF EntryOk, Running
  <2>4. calls' = calls
    BY <2>1
  <2> QED BY <1>1, <2>1, <2>2, <2>3, <2>4, ReplaceEntry
<1>5. CASE ActionsAllowed
  <2> DEFINE state == IF action = "approve" THEN "Approving" ELSE "Denying"
             decided(x, h) == [e EXCEPT !.state = x, !.pending = action, !.failed = "none",
                                        !.actor = account, !.actorGen = accountGen,
                                        !.lapsed = FALSE, !.gen = h]
             f == decided(state, generation + 1)
             n == [key |-> key, gen |-> generation + 1, action |-> action, account |-> account,
                   accountGen |-> accountGen, cause |-> generation + 1, done |-> FALSE, answer |-> ""]
  <2>1. /\ entries' = [entries EXCEPT ![key] = f]
        /\ generation' = generation + 1 /\ calls' = calls \cup {n}
    BY <1>5 DEF PerformDecision, Take
  <2>2. account \in Accounts
    BY <1>5 DEF ActionsAllowed, IInv, TypeOK
  <2>3. generation + 1 \in Nat
    BY <1>1
  <2>4. state \in {"Approving", "Denying"}
    OBVIOUS
  <2>5. \A h \in Nat, x \in {"Approving", "Denying"} :
           /\ decided(x, h) \in Entry /\ decided(x, h).state = x /\ decided(x, h).pending = action
           /\ decided(x, h).actor = account /\ decided(x, h).actorGen = accountGen
           /\ decided(x, h).lapsed = FALSE /\ decided(x, h).busy = e.busy /\ decided(x, h).gen = h
    <3>1. e \in Entry /\ accountGen \in Nat
      BY <1>1
    <3> HIDE DEF e
    <3>2. \A h \in Nat, x \in {"Approving", "Denying"} : decided(x, h) \in Entry
      BY <2>2, <3>1 DEF Entry
    <3>3. \A h \in Nat, x \in {"Approving", "Denying"} :
             /\ decided(x, h).state = x /\ decided(x, h).pending = action
             /\ decided(x, h).actor = account /\ decided(x, h).actorGen = accountGen
             /\ decided(x, h).lapsed = FALSE /\ decided(x, h).busy = e.busy /\ decided(x, h).gen = h
      BY <3>1 DEF Entry
    <3> HIDE DEF decided
    <3> QED BY <3>2, <3>3
  <2>6. \A h \in Nat :
           [key |-> key, gen |-> h, action |-> action, account |-> account,
            accountGen |-> accountGen, cause |-> h, done |-> FALSE, answer |-> ""] \in Call
    BY <1>1, <2>2 DEF Call
  <2>7. n \in Call
    BY <2>3, <2>6, Zenon
  <2>8. /\ f \in Entry /\ f.state \in {"Approving", "Denying"} /\ f.pending = action
        /\ f.actor = account /\ f.actorGen = accountGen /\ f.lapsed = FALSE /\ f.busy = e.busy
        /\ f.gen = generation + 1
    <3> HIDE DEF state, decided
    <3> QED BY <2>3, <2>4, <2>5
  <2>9. /\ n.gen = generation + 1 /\ n.cause = n.gen /\ ~n.done /\ n.key = key
        /\ n.action = action /\ n.action # "punish" /\ n.account = account /\ n.accountGen = accountGen
    BY DEF Decisions
  <2> HIDE DEF f, n
  <2>10. /\ CallsOk(calls \cup {n}, generation + 1)
         /\ \A k \in Keys : EntryOk(k, entries[k], calls \cup {n}, generation + 1)
    BY <1>1, <2>7, <2>9, NewCall
  <2>11. EntryOk(key, f, calls \cup {n}, generation + 1)
    BY <1>1, <1>3, <2>7, <2>8, <2>9, NewCallsEntry
  <2>12. calls \cup {n} \in SUBSET Call
    BY <1>1, <2>7
  <2> QED BY <2>1, <2>3, <2>8, <2>10, <2>11, <2>12, ReplaceEntry
<1> QED BY <1>4, <1>5

LEMMA DecideStep ==
  ASSUME IInv, NEW key \in Reviewed, NEW action \in Decisions, Decide(key, action)
  PROVE  IInv'
<1>1. key \in Keys
  BY BoundsAssumption
<1>2. PerformDecision(key, action, FALSE) /\ key \in Known
      /\ UNCHANGED <<order, dropped, world, twitch, notes, seen>>
  BY DEF Decide
<1> QED BY <1>1, <1>2, DecisionStep

LEMMA RetryStep ==
  ASSUME IInv, NEW key \in Reviewed, Retry(key)
  PROVE  IInv'
<1> DEFINE e == entries[key]
           o == PerformSecondary(key, e, generation, Nobody, 0)
<1>1. /\ key \in Keys /\ key \in Known
      /\ UNCHANGED <<order, dropped, world, twitch, notes, seen>>
  BY BoundsAssumption DEF Retry
<1>2. /\ e \in Entry /\ generation \in Nat /\ calls \in SUBSET Call /\ accountGen \in Nat
      /\ account \in Accounts \cup {Nobody} /\ Nobody \notin Accounts
      /\ EntryOk(key, e, calls, generation) /\ CallsOk(calls, generation)
      /\ \A k \in Keys : entries[k] \in Entry /\ EntryOk(k, entries[k], calls, generation)
  BY <1>1, BoundsAssumption DEF IInv, TypeOK
<1>3. CASE e.lapsed /\ e.punishes
  <2>1. Take(key, o)
    BY <1>3 DEF Retry
  <2>2. e.state = "Denied" /\ ~e.busy
    BY <1>2, <1>3 DEF EntryOk, Entry
  <2>3. ~Running(e)
    BY <2>2 DEF Running
  <2>4. Quiet(key, e, calls, generation)
    BY <1>1, <1>2, <2>3, QuietEntries
  <2> HIDE DEF e, o
  <2>5. /\ o.entry \in Entry /\ o.gen \in Nat /\ calls \cup o.made \in SUBSET Call
        /\ CallsOk(calls \cup o.made, o.gen) /\ EntryOk(key, o.entry, calls \cup o.made, o.gen)
        /\ \A k \in Keys, f \in Entry :
              EntryOk(k, f, calls, generation) => EntryOk(k, f, calls \cup o.made, o.gen)
    <3>1. Follows(key, o, calls, generation, Nobody, 0)
      BY <1>1, <1>2, <2>2, <2>4, SecondaryOutcome DEF o
    <3> QED BY <3>1 DEF Follows
  <2> QED BY <1>1, <1>2, <2>1, <2>5, ReplaceEntry DEF Take
<1>4. CASE ~(e.lapsed /\ e.punishes)
  <2>1. e.failed \in Decisions /\ PerformDecision(key, e.failed, TRUE)
    BY <1>2, <1>4 DEF Retry, Entry
  <2> QED BY <1>1, <2>1, DecisionStep
<1> QED BY <1>3, <1>4

\* The keys to keep are those of the entries and one more at most.
LEMMA KeysToKeep ==
  ASSUME IInv, NEW key \in Keys
  PROVE  LET keys == IF key \in Known THEN order ELSE Append(order, key)
         IN  keys \in Seq(Keys) /\ Len(keys) <= MaxItems + 1
<1>1. order \in Seq(Keys) /\ Len(order) <= MaxItems /\ MaxItems \in Nat
  BY BoundsAssumption DEF IInv, TypeOK
<1>2. Append(order, key) \in Seq(Keys) /\ Len(Append(order, key)) = Len(order) + 1
  BY <1>1
<1> QED BY <1>1, <1>2

LEMMA HoldStep ==
  ASSUME IInv, NEW note \in notes, IngestHold(note)
  PROVE  IInv'
<1> DEFINE keys == IF note.key \in Known THEN order ELSE Append(order, note.key)
<1>1. note.key \in Keys
  BY DEF IInv, TypeOK, Note
<1>2. /\ Keep(entries, keys) /\ seen' = seen \cup {note}
      /\ UNCHANGED <<generation, calls, world, twitch, notes>>
  BY DEF IngestHold, RememberNotification
<1>3. keys \in Seq(Keys) /\ Len(keys) <= MaxItems + 1
  BY <1>1, KeysToKeep
<1> HIDE DEF keys
<1>4. /\ MaxItems \in Nat \ {0} /\ dropped \subseteq Keys /\ entries \in [Keys -> Entry]
      /\ calls \in SUBSET Call /\ generation \in Nat /\ CallsOk(calls, generation)
      /\ \A k \in Keys : EntryOk(k, entries[k], calls, generation)
  BY BoundsAssumption DEF IInv, TypeOK
<1>5. /\ order' \in Seq(Keys) /\ Len(order') <= MaxItems
      /\ entries' \in [Keys -> Entry] /\ dropped' \subseteq Keys
      /\ \A k \in Keys : EntryOk(k, entries'[k], calls, generation)
      /\ UnknownIsNew'
  BY <1>2, <1>3, <1>4, KeepStep
<1>6. TypeOK'
  BY <1>2, <1>5 DEF IInv, TypeOK, world
<1> QED BY <1>2, <1>4, <1>5, <1>6 DEF IInv

\* An update that starts nothing leaves its entry as it should be.
LEMMA PlainUpdate ==
  ASSUME generation \in Nat, NEW cs \in SUBSET Call, CallsOk(cs, generation), Nobody \notin Accounts,
         NEW k \in Keys, NEW e \in Entry, EntryOk(k, e, cs, generation),
         NEW status \in Statuses, NEW f,
         f = IF status = "denied" THEN UpdateDenied(e) ELSE UpdateResolved(e, status)
  PROVE  /\ f \in Entry
         /\ f.gen = generation + 1 \/ f.gen <= generation
         /\ f.gen = generation + 1 => EntryOk(k, f, cs, generation + 1)
         /\ f.gen <= generation => EntryOk(k, f, cs, generation)
<1>1. generation + 1 \in Nat /\ e.gen \in Nat /\ e.gen <= generation
      /\ ~(generation + 1 <= generation)
  BY DEF EntryOk, Entry
<1>2. ASSUME f \in Entry, f.gen = generation + 1, f.pending = "none", f.state \in Resolved, ~f.busy,
             f.lapsed => f.state = "Denied"
      PROVE  EntryOk(k, f, cs, generation + 1)
  <2>1. ~Running(f)
    BY <1>2 DEF Running, Resolved
  <2>2. Quiet(k, f, cs, generation + 1)
    BY <1>2, QuietEntries
  <2> QED BY <1>1, <1>2, <2>1, <2>2, QuietIsOk
<1>3. CASE status # "denied"
  <2> DEFINE resolved(x, h) ==
        [Cleared(e) EXCEPT !.state = x, !.busy = FALSE, !.lapsed = FALSE,
                           !.punishes = FALSE, !.actor = Nobody, !.gen = h]
  <2>1. f = resolved(Final(status), generation + 1)
    BY <1>3 DEF UpdateResolved
  <2>2. Final(status) \in Resolved
    BY DEF Final, Resolved
  <2>3. \A h \in Nat, x \in Resolved :
           /\ resolved(x, h) \in Entry /\ resolved(x, h).state = x /\ resolved(x, h).gen = h
           /\ resolved(x, h).pending = "none" /\ resolved(x, h).busy = FALSE
           /\ resolved(x, h).lapsed = FALSE
    BY DEF Cleared, Entry
  <2> HIDE DEF resolved
  <2>4. f \in Entry /\ f.gen = generation + 1 /\ f.pending = "none" /\ f.state \in Resolved /\ ~f.busy
        /\ ~f.lapsed
    BY <1>1, <2>1, <2>2, <2>3
  <2> QED BY <1>1, <1>2, <2>4
<1>4. CASE status = "denied"
  <2> DEFINE denied == [Cleared(e) EXCEPT !.state = "Denied"]
             moved(h) == [denied EXCEPT !.gen = h]
             fresh(h) == [denied EXCEPT !.lapsed = FALSE, !.punishes = FALSE, !.actor = Nobody,
                                        !.gen = h]
  <2>1. f = IF ~CompoundStarted(e) THEN fresh(generation + 1)
            ELSE IF e.busy THEN denied ELSE moved(generation + 1)
    BY <1>4 DEF UpdateDenied
  <2>2. /\ denied \in Entry /\ denied.state = "Denied" /\ denied.gen = e.gen /\ denied.pending = "none"
        /\ denied.busy = e.busy /\ denied.lapsed = e.lapsed /\ denied.actor = e.actor
        /\ denied.actorGen = e.actorGen
    BY DEF Cleared, Entry, Resolved
  <2>3. \A h \in Nat :
           /\ moved(h) \in Entry /\ moved(h).state = "Denied" /\ moved(h).gen = h
           /\ moved(h).pending = "none" /\ moved(h).busy = e.busy
    BY DEF Cleared, Entry, Resolved
  <2>4. \A h \in Nat :
           /\ fresh(h) \in Entry /\ fresh(h).state = "Denied" /\ fresh(h).gen = h
           /\ fresh(h).pending = "none" /\ fresh(h).busy = e.busy
    BY DEF Cleared, Entry, Resolved
  <2> HIDE DEF denied, moved, fresh
  <2>5. "Denied" \in Resolved
    BY DEF Resolved
  <2>6. CASE CompoundStarted(e) /\ e.busy
    <3>1. f = denied
      BY <2>1, <2>6
    <3>2. Running(e) /\ Running(f) /\ ~e.lapsed /\ f.state \notin {"Approving", "Denying"}
      BY <2>2, <2>6, <3>1 DEF Running, EntryOk
    <3>3. EntryOk(k, f, cs, generation)
      BY <2>2, <2>6, <3>1, <3>2 DEF EntryOk
    <3> QED BY <1>1, <2>2, <3>1, <3>3
  <2>7. CASE ~(CompoundStarted(e) /\ e.busy)
    <3>1. ~e.busy
      BY <2>7 DEF CompoundStarted
    <3>2. f \in Entry /\ f.gen = generation + 1 /\ f.pending = "none" /\ f.state = "Denied" /\ ~f.busy
      BY <1>1, <2>1, <2>3, <2>4, <2>7, <3>1
    <3> QED BY <1>1, <1>2, <2>5, <3>2
  <2> QED BY <2>6, <2>7
<1> QED BY <1>3, <1>4

\* No punishment has followed a denial whose generation the entry still has.
LEMMA NotYetPunished ==
  ASSUME NEW k \in Keys, NEW e \in Entry, NEW cs \in SUBSET Call, NEW g \in Nat, CallsOk(cs, g),
         \A p \in cs : p.cause # p.gen => e.gen # p.cause,
         NEW d \in cs, d.gen = e.gen, d.action = "denyPunish"
  PROVE  \A p \in cs : p.action = "punish" => p.cause # e.gen
<1> SUFFICES ASSUME NEW p \in cs, p.action = "punish", p.cause = e.gen PROVE FALSE
  OBVIOUS
<1>1. p.cause = p.gen
  OBVIOUS
<1>2. p = d
  BY <1>1 DEF CallsOk
<1> QED BY <1>2

LEMMA UpdateStep ==
  ASSUME IInv, NEW note \in notes, IngestUpdate(note)
  PROVE  IInv'
<1> DEFINE key == note.key
           old == entries[key]
           keys == IF key \in Known THEN order ELSE Append(order, key)
           starts == note.status = "denied" /\ StartsCompound(old, note.moderator)
           plain == IF note.status = "denied" THEN UpdateDenied(old)
                    ELSE UpdateResolved(old, note.status)
           confirmed(h) == [Cleared(old) EXCEPT !.state = "Denied", !.punishes = TRUE, !.gen = h]
           o == PerformSecondary(key, confirmed(generation + 1), generation + 1, old.actor, old.gen)
<1>1. /\ key \in Keys /\ note.status \in Statuses
      /\ seen' = seen \cup {note} /\ UNCHANGED <<world, twitch, notes>>
  BY DEF IngestUpdate, RememberNotification, IInv, TypeOK, Note
<1>2. /\ old \in Entry /\ generation \in Nat /\ calls \in SUBSET Call /\ accountGen \in Nat
      /\ account \in Accounts \cup {Nobody} /\ Nobody \notin Accounts
      /\ MaxItems \in Nat \ {0} /\ dropped \subseteq Keys /\ entries \in [Keys -> Entry]
      /\ EntryOk(key, old, calls, generation) /\ CallsOk(calls, generation)
      /\ \A k \in Keys : entries[k] \in Entry /\ EntryOk(k, entries[k], calls, generation)
  BY <1>1, BoundsAssumption DEF IInv, TypeOK
<1>3. /\ generation + 1 \in Nat /\ CallsOk(calls, generation + 1)
      /\ \A k \in Keys, e \in Entry :
            EntryOk(k, e, calls, generation) => EntryOk(k, e, calls, generation + 1)
  BY <1>2, Weaken
<1>4. CASE starts
  <2>1. /\ Take(key, o) /\ UNCHANGED <<order, dropped>>
    BY <1>4 DEF IngestUpdate
  <2>2. old.pending = "denyPunish" /\ old.actor # Nobody /\ old.actor \in Accounts \cup {Nobody}
        /\ old.gen \in Nat
    BY <1>2, <1>4 DEF StartsCompound, ConfirmsOurDecision, Entry
  <2>3. key \in Known
    BY <1>1, <2>2 DEF IInv, UnknownIsNew, NewEntry
  <2>4. PICK d \in calls : /\ d.key = key /\ d.gen = old.gen /\ d.action = "denyPunish"
                          /\ d.account = old.actor /\ d.accountGen = old.actorGen
    BY <1>2, <2>2 DEF EntryOk
  <2>5. \A p \in calls : p.action = "punish" => p.cause # old.gen
    <3>1. \A p \in calls : p.cause # p.gen => old.gen # p.cause
      BY <1>2 DEF EntryOk
    <3> QED BY <1>1, <1>2, <2>4, <3>1, NotYetPunished
  <2>6. \A h \in Nat : /\ confirmed(h) \in Entry /\ confirmed(h).state = "Denied"
                      /\ confirmed(h).gen = h /\ confirmed(h).actorGen = old.actorGen
    BY <1>2 DEF Cleared, Entry, Resolved
  <2>7. \A k \in Keys \ {key} : entries[k].gen # old.gen
    BY <1>2, <2>4 DEF EntryOk
  <2> HIDE DEF confirmed, key, old
  <2>8. Quiet(key, confirmed(generation + 1), calls, generation + 1)
    BY <1>1, <1>2, <1>3, <2>6, QuietEntries
  <2>9. /\ o.entry \in Entry /\ o.gen \in Nat /\ calls \cup o.made \in SUBSET Call
        /\ CallsOk(calls \cup o.made, o.gen) /\ EntryOk(key, o.entry, calls \cup o.made, o.gen)
        /\ \A k \in Keys, e \in Entry :
              EntryOk(k, e, calls, generation + 1) /\ e.gen # old.gen
                => EntryOk(k, e, calls \cup o.made, o.gen)
    <3> DEFINE c == confirmed(generation + 1)
    <3>1. c \in Entry /\ c.state = "Denied" /\ c.actorGen = old.actorGen
      BY <1>3, <2>6
    <3> HIDE DEF c
    <3>2. Quiet(key, c, calls, generation + 1)
      BY <2>8 DEF c
    <3>3. o = PerformSecondary(key, c, generation + 1, old.actor, old.gen)
      BY DEF c
    <3> HIDE DEF o
    <3> DEFINE actor == old.actor
               cause == old.gen
               g == generation + 1
    <3>4. /\ c.state = "Denied"
          /\ \E x \in calls : /\ x.gen = cause /\ x.key = key /\ x.action = "denyPunish"
                              /\ x.account = actor /\ x.accountGen = c.actorGen
          /\ \A p \in calls : p.action = "punish" => p.cause # cause
      BY <2>4, <2>5, <3>1
    <3>5. /\ g \in Nat /\ CallsOk(calls, g) /\ cause \in Nat /\ actor \in Accounts \cup {Nobody}
          /\ key \in Keys /\ calls \in SUBSET Call /\ accountGen \in Nat
          /\ account \in Accounts \cup {Nobody} /\ Nobody \notin Accounts
      BY <1>1, <1>2, <1>3, <2>2
    <3>6. Quiet(key, c, calls, g) /\ o = PerformSecondary(key, c, g, actor, cause)
      BY <3>2, <3>3
    <3> HIDE DEF actor, cause, g
    <3>7. Follows(key, o, calls, g, actor, cause)
      BY <3>1, <3>4, <3>5, <3>6, SecondaryOutcome
    <3> QED BY <3>7 DEF cause, g, Follows
  <2> HIDE DEF o
  <2>10. \A k \in Keys \ {key} : EntryOk(k, entries[k], calls \cup o.made, o.gen)
    BY <1>2, <1>3, <2>7, <2>9
  <2>11. UNCHANGED <<order, dropped, world, twitch, notes>>
    BY <1>1, <2>1
  <2>12. TypeOK'
    BY <1>1, <1>2, <2>1, <2>9 DEF IInv, TypeOK, Take, world
  <2>13. \A k \in Keys : entries'[k] = IF k = key THEN o.entry ELSE entries[k]
    BY <1>2, <2>1 DEF Take
  <2>14. UnknownIsNew'
    BY <2>1, <2>3, <2>13 DEF IInv, UnknownIsNew, Known
  <2>15. calls' = calls \cup o.made /\ generation' = o.gen
    BY <2>1 DEF Take
  <2>16. \A k \in Keys : EntryOk(k, entries'[k], calls', generation')
    BY <2>9, <2>10, <2>13, <2>15
  <2> QED BY <2>9, <2>12, <2>14, <2>15, <2>16 DEF IInv
<1>5. CASE ~starts
  <2> DEFINE table == [entries EXCEPT ![key] = plain]
  <2>1. /\ Keep(table, keys) /\ UNCHANGED calls
        /\ generation' = IF plain.gen > generation THEN plain.gen ELSE generation
    BY <1>5 DEF IngestUpdate
  <2>2. keys \in Seq(Keys) /\ Len(keys) <= MaxItems + 1
    BY <1>1, KeysToKeep
  <2>3. /\ plain \in Entry
        /\ plain.gen = generation + 1 \/ plain.gen <= generation
        /\ plain.gen = generation + 1 => EntryOk(key, plain, calls, generation + 1)
        /\ plain.gen <= generation => EntryOk(key, plain, calls, generation)
    <3> HIDE DEF key, old
    <3> QED BY <1>1, <1>2, PlainUpdate
  <2> HIDE DEF plain, keys, key
  <2>4. plain.gen \in Nat
    BY <2>3 DEF Entry
  <2>5. /\ generation' \in Nat /\ CallsOk(calls, generation')
        /\ EntryOk(key, plain, calls, generation')
        /\ \A k \in Keys : EntryOk(k, entries[k], calls, generation')
    <3>1. CASE plain.gen = generation + 1
      <4>1. generation' = generation + 1
        BY <1>2, <2>1, <3>1
      <4> QED BY <1>2, <1>3, <2>3, <3>1, <4>1
    <3>2. CASE plain.gen <= generation
      <4>1. generation' = generation
        BY <1>2, <2>1, <2>4, <3>2
      <4> QED BY <1>2, <2>3, <3>2, <4>1
    <3> QED BY <2>3, <3>1, <3>2
  <2>6. table \in [Keys -> Entry] /\ \A k \in Keys : EntryOk(k, table[k], calls, generation')
    BY <1>1, <1>2, <2>3, <2>5
  <2> HIDE DEF table
  <2>7. /\ order' \in Seq(Keys) /\ Len(order') <= MaxItems
        /\ entries' \in [Keys -> Entry] /\ dropped' \subseteq Keys
        /\ \A k \in Keys : EntryOk(k, entries'[k], calls, generation')
        /\ UnknownIsNew'
    BY <1>2, <2>1, <2>2, <2>5, <2>6, KeepStep
  <2>8. TypeOK'
    BY <1>1, <2>1, <2>5, <2>7 DEF IInv, TypeOK, world
  <2> QED BY <2>1, <2>5, <2>7, <2>8 DEF IInv
<1> QED BY <1>4, <1>5

\* Twitch handles a call: nothing the entries depend on changes.
LEMMA HandleStep ==
  ASSUME IInv, NEW call \in calls, HandleCall(call)
  PROVE  IInv'
<1> DEFINE Answers == {"ok", "processed", "notFound", "unauthorized", "unknown", "banned"}
<1>1. /\ calls \in SUBSET Call /\ generation \in Nat /\ CallsOk(calls, generation)
      /\ twitch \in [Keys -> Statuses \cup {"unsent", "held"}] /\ notes \subseteq Note
      /\ seen \subseteq notes /\ call \in Call
      /\ \A k \in Keys : entries[k] \in Entry /\ EntryOk(k, entries[k], calls, generation)
  BY DEF IInv, TypeOK
<1>2. UNCHANGED <<order, entries, generation, dropped, world, seen>>
  BY DEF HandleCall
<1>3. /\ \E answer \in Answers : Answered(call, answer)
      /\ \/ UNCHANGED <<twitch, notes>>
         \/ Resolve(call.key, "approved", call.account) \/ Resolve(call.key, "denied", call.account)
  <2>1. CASE call.action # "punish" /\ HandleDecision(call)
    BY <2>1 DEF HandleDecision
  <2>2. CASE call.action = "punish"
    BY <2>2 DEF HandleCall
  <2> QED BY <2>1, <2>2 DEF HandleCall
<1>4. PICK answer \in Answers : calls' = (calls \ {call}) \cup {[call EXCEPT !.answer = answer]}
  BY <1>3 DEF Answered
<1> DEFINE d == [call EXCEPT !.answer = answer]
<1>5. d \in Call /\ Same(call, d) /\ d.done = call.done
  BY <1>1 DEF Call, Same
<1> HIDE DEF d
<1>6. /\ calls' \in SUBSET Call /\ CallsOk(calls', generation)
      /\ \A k \in Keys : EntryOk(k, entries[k], calls', generation)
  <2>1. calls' = (calls \ {call}) \cup {d}
    BY <1>4 DEF d
  <2> QED BY <1>1, <1>5, <2>1, ReplacedCall
<1>7. call.key \in Keys /\ call.account \in Accounts
  BY <1>1 DEF Call
<1>8. /\ twitch' \in [Keys -> Statuses \cup {"unsent", "held"}] /\ notes' \subseteq Note
      /\ seen \subseteq notes'
  <2>1. ASSUME NEW status \in {"approved", "denied"}, Resolve(call.key, status, call.account)
        PROVE  /\ twitch' \in [Keys -> Statuses \cup {"unsent", "held"}] /\ notes' \subseteq Note
               /\ seen \subseteq notes'
    <3>1. status \in Statuses
      BY DEF Statuses
    <3>2. [key |-> call.key, status |-> status, moderator |-> call.account] \in Note
      BY <1>7, <3>1 DEF Note
    <3> QED BY <1>1, <1>7, <2>1, <3>1, <3>2 DEF Resolve
  <2> QED BY <1>1, <1>3, <2>1
<1>9. TypeOK'
  BY <1>2, <1>6, <1>8 DEF IInv, TypeOK, world
<1> QED BY <1>2, <1>6, <1>9 DEF IInv, UnknownIsNew, Known

\* The answer that an entry has waited for leaves it quiet.
LEMMA AnsweredIsQuiet ==
  ASSUME IInv, NEW call \in calls, IsCurrent(call), ~call.done,
         NEW cs, cs = (calls \ {call}) \cup {Done(call)}
  PROVE  /\ cs \in SUBSET Call /\ CallsOk(cs, generation) /\ Done(call) \in cs
         /\ Same(call, Done(call)) /\ entries[call.key].gen = call.gen
         /\ Quiet(call.key, entries[call.key], cs, generation)
         /\ \A k \in Keys \ {call.key} : /\ EntryOk(k, entries[k], cs, generation)
                                        /\ entries[k].gen # call.gen
         /\ Running(entries[call.key])
<1> DEFINE e == entries[call.key]
<1>1. /\ calls \in SUBSET Call /\ generation \in Nat /\ CallsOk(calls, generation)
      /\ call \in Call /\ call.key \in Keys /\ e.gen = call.gen
      /\ \A k \in Keys : entries[k] \in Entry /\ EntryOk(k, entries[k], calls, generation)
  BY DEF IInv, TypeOK, Call, IsCurrent
<1>2. Done(call) \in Call /\ Same(call, Done(call)) /\ Done(call).done = TRUE
  BY <1>1 DEF Done, Call, Same
<1>3. \A k \in Keys \ {call.key} : entries[k].gen # call.gen
  BY <1>1 DEF EntryOk
<1>4. /\ cs \in SUBSET Call /\ CallsOk(cs, generation)
      /\ \A k \in Keys \ {call.key} : EntryOk(k, entries[k], cs, generation)
  BY <1>1, <1>2, <1>3, ReplacedCall
<1>5. \A c \in calls : c.gen = call.gen => c = call
  BY <1>1 DEF CallsOk
<1>6. \A c \in cs : e.gen = c.gen => c = Done(call)
  BY <1>1, <1>5
<1>7. \A p \in cs : p.cause # p.gen => e.gen # p.cause
  <2>1. \A p \in calls : p.cause # p.gen => e.gen # p.cause
    BY <1>1 DEF EntryOk
  <2> QED BY <1>2, <2>1 DEF Same
<1>8. Quiet(call.key, e, cs, generation)
  <2>1. e.gen <= generation /\ (call.action # "punish" => e.actorGen = call.accountGen)
    BY <1>1 DEF EntryOk
  <2> QED BY <1>2, <1>6, <1>7, <2>1 DEF Quiet, Same
<1>9. Running(e)
  BY <1>1 DEF EntryOk
<1> QED BY <1>1, <1>2, <1>3, <1>4, <1>8, <1>9

\* An answer that ends the action of its entry.
LEMMA SettleStep ==
  ASSUME IInv, NEW call \in calls, ~call.done, NEW f \in Entry, Settle(call, f),
         UNCHANGED <<order, dropped, world, twitch, notes, seen>>,
         f.gen = entries[call.key].gen, f.actorGen = entries[call.key].actorGen,
         ~Running(f), f.pending # "denyPunish", f.lapsed => f.state = "Denied"
  PROVE  IInv'
<1> DEFINE cs == (calls \ {call}) \cup {Done(call)}
<1>1. /\ IsCurrent(call) /\ entries' = [entries EXCEPT ![call.key] = f]
      /\ calls' = cs /\ generation' = generation
  BY DEF Settle
<1>2. /\ calls \in SUBSET Call /\ generation \in Nat /\ call.key \in Keys /\ call.key \in Known
      /\ \A k \in Keys : entries[k] \in Entry
  BY <1>1 DEF IInv, TypeOK, Call, IsCurrent
<1>3. /\ cs \in SUBSET Call /\ CallsOk(cs, generation)
      /\ Quiet(call.key, entries[call.key], cs, generation)
      /\ \A k \in Keys \ {call.key} : EntryOk(k, entries[k], cs, generation)
  BY <1>1, AnsweredIsQuiet
<1> HIDE DEF cs
<1>4. EntryOk(call.key, f, cs, generation)
  BY <1>2, <1>3, QuietIsOk
<1> QED BY <1>1, <1>2, <1>3, <1>4, ReplaceEntry

\* An answer that is not taken marks its call as answered and no more.
LEMMA IgnoredStep ==
  ASSUME IInv, NEW call \in calls, Ignored(call),
         UNCHANGED <<order, dropped, world, twitch, notes, seen>>
  PROVE  IInv'
<1>1. /\ calls \in SUBSET Call /\ generation \in Nat /\ CallsOk(calls, generation)
      /\ call \in Call /\ call.key \in Keys /\ call.gen \in Nat
      /\ \A k \in Keys : entries[k] \in Entry /\ EntryOk(k, entries[k], calls, generation)
  BY DEF IInv, TypeOK, Call
<1>2. /\ calls' = (calls \ {call}) \cup {Done(call)} /\ UNCHANGED <<entries, generation>>
  BY DEF Ignored
<1>3. Done(call) \in Call /\ Same(call, Done(call))
  BY <1>1 DEF Done, Call, Same
<1>4. ASSUME NEW k \in Keys PROVE entries[k].gen # call.gen
  <2>1. CASE k # call.key
    BY <1>1, <2>1 DEF EntryOk
  <2>2. CASE k = call.key /\ call.key \in Known
    BY <2>2 DEF Ignored, IsCurrent
  <2>3. CASE k = call.key /\ call.key \notin Known
    <3>1. entries[k].gen = 0
      BY <2>3 DEF IInv, UnknownIsNew, NewEntry
    <3> QED BY <1>1, <3>1 DEF CallsOk
  <2> QED BY <2>1, <2>2, <2>3
<1>5. /\ calls' \in SUBSET Call /\ CallsOk(calls', generation)
      /\ \A k \in Keys : EntryOk(k, entries[k], calls', generation)
  BY <1>1, <1>2, <1>3, <1>4, ReplacedCall
<1>6. TypeOK'
  BY <1>2, <1>5 DEF IInv, TypeOK, world
<1> QED BY <1>2, <1>5, <1>6 DEF IInv, UnknownIsNew, Known

LEMMA SucceedsStep ==
  ASSUME IInv, NEW call \in calls, ~call.done, DecisionSucceeds(call),
         UNCHANGED <<order, dropped, world, twitch, notes, seen>>
  PROVE  IInv'
<1> DEFINE old == entries[call.key]
           entry == Cleared(old)
           denied == [entry EXCEPT !.state = "Denied"]
           o == PerformSecondary(call.key, denied, generation, call.account, call.gen)
           cs == (calls \ {call}) \cup {Done(call)}
<1>1. IsCurrent(call) /\ call.action # "punish"
  BY DEF DecisionSucceeds, Settle
<1>2. /\ call.key \in Keys /\ call.key \in Known /\ call.account \in Accounts /\ call.gen \in Nat
      /\ old \in Entry /\ generation \in Nat /\ accountGen \in Nat
      /\ account \in Accounts \cup {Nobody} /\ Nobody \notin Accounts
      /\ EntryOk(call.key, old, calls, generation)
      /\ \A k \in Keys : entries[k] \in Entry
  <2>1. /\ call \in Call /\ entries \in [Keys -> Entry] /\ generation \in Nat /\ accountGen \in Nat
        /\ account \in Accounts \cup {Nobody} /\ Nobody \notin Accounts
        /\ \A k \in Keys : EntryOk(k, entries[k], calls, generation)
    BY BoundsAssumption DEF IInv, TypeOK
  <2>2. /\ call.key \in Keys /\ call.account \in Accounts /\ call.gen \in Nat
        /\ call.key \in Known
    BY <1>1, <2>1 DEF Call, IsCurrent
  <2> QED BY <2>1, <2>2
<1>3. /\ cs \in SUBSET Call /\ CallsOk(cs, generation) /\ Done(call) \in cs
      /\ Same(call, Done(call)) /\ old.gen = call.gen
      /\ Quiet(call.key, old, cs, generation) /\ Running(old)
      /\ \A k \in Keys \ {call.key} : EntryOk(k, entries[k], cs, generation) /\ entries[k].gen # call.gen
  BY <1>1, AnsweredIsQuiet
<1>4. old.busy = FALSE /\ old.lapsed = FALSE
  <2>1. ~old.busy
    BY <1>1, <1>2, <1>3 DEF EntryOk
  <2>2. old.state # "Denied"
    BY <1>3, <2>1 DEF Running
  <2> QED BY <1>2, <2>1, <2>2 DEF EntryOk, Entry
<1>5. CASE call.action = "approve"
  <2> DEFINE f == [entry EXCEPT !.actor = Nobody, !.state = "Approved"]
  <2>1. Settle(call, f)
    BY <1>5 DEF DecisionSucceeds
  <2>2. /\ f \in Entry /\ f.gen = old.gen /\ f.actorGen = old.actorGen /\ f.state = "Approved"
        /\ f.pending = "none" /\ f.busy = old.busy /\ f.lapsed = old.lapsed
    BY <1>2 DEF Cleared, Entry, Resolved
  <2> HIDE DEF f
  <2>3. ~Running(f)
    BY <1>4, <2>2 DEF Running
  <2> QED BY <1>4, <2>1, <2>2, <2>3, SettleStep
<1>6. /\ denied \in Entry /\ denied.gen = old.gen /\ denied.actorGen = old.actorGen
      /\ denied.state = "Denied" /\ denied.pending = "none"
  BY <1>2 DEF Cleared, Entry, Resolved
<1>7. CASE call.action = "deny"
  <2> DEFINE f == [denied EXCEPT !.actor = Nobody]
  <2>1. Settle(call, f)
    BY <1>7 DEF DecisionSucceeds
  <2>2. /\ f \in Entry /\ f.gen = old.gen /\ f.actorGen = old.actorGen /\ f.state = "Denied"
        /\ f.pending = "none" /\ f.busy = old.busy /\ f.lapsed = old.lapsed
    BY <1>2 DEF Cleared, Entry, Resolved
  <2> HIDE DEF f
  <2>3. ~Running(f)
    BY <1>4, <2>2 DEF Running
  <2> QED BY <1>4, <2>1, <2>2, <2>3, SettleStep
<1>8. CASE call.action = "denyPunish"
  <2>1. /\ entries' = [entries EXCEPT ![call.key] = o.entry]
        /\ generation' = o.gen /\ calls' = cs \cup o.made
    BY <1>8 DEF DecisionSucceeds
  <2>2. /\ call.account # Nobody /\ call.account \in Accounts \cup {Nobody}
    BY <1>2
  <2>3. \E d \in cs : /\ d.gen = call.gen /\ d.key = call.key /\ d.action = "denyPunish"
                     /\ d.account = call.account /\ d.accountGen = denied.actorGen
    <3>1. old.actorGen = call.accountGen
      BY <1>1, <1>2, <1>3 DEF EntryOk
    <3>2. /\ Done(call).gen = call.gen /\ Done(call).key = call.key
          /\ Done(call).action = "denyPunish" /\ Done(call).account = call.account
          /\ Done(call).accountGen = denied.actorGen
      BY <1>3, <1>6, <1>8, <3>1 DEF Same
    <3> QED BY <1>3, <3>2
  <2>4. Quiet(call.key, denied, cs, generation)
    BY <1>3, <1>6 DEF Quiet
  <2>5. \A p \in cs : p.action = "punish" => p.cause # call.gen
    <3>1. \A p \in cs : p.cause # p.gen => old.gen # p.cause
      BY <1>3 DEF Quiet
    <3>2. Done(call).gen = old.gen /\ Done(call).action = "denyPunish"
      BY <1>3, <1>8 DEF Same
    <3>3. \A p \in cs : p.action = "punish" => p.cause # old.gen
      BY <1>2, <1>3, <3>1, <3>2, NotYetPunished
    <3> QED BY <1>3, <3>3
  <2> HIDE DEF cs, denied, old
  <2>6. Follows(call.key, o, cs, generation, call.account, call.gen)
    <3>1. o = PerformSecondary(call.key, denied, generation, call.account, call.gen)
      OBVIOUS
    <3> HIDE DEF o
    <3>2. /\ account \in Accounts \cup {Nobody} /\ accountGen \in Nat /\ Nobody \notin Accounts
          /\ cs \in SUBSET Call /\ generation \in Nat /\ CallsOk(cs, generation)
          /\ call.key \in Keys /\ call.gen \in Nat
      BY <1>2, <1>3
    <3>3. denied \in Entry /\ denied.state = "Denied"
      BY <1>6
    <3> QED BY <2>2, <2>3, <2>4, <2>5, <3>1, <3>2, <3>3, SecondaryOutcome
  <2> HIDE DEF o
  <2>7. /\ o.entry \in Entry /\ o.gen \in Nat /\ cs \cup o.made \in SUBSET Call
        /\ CallsOk(cs \cup o.made, o.gen) /\ EntryOk(call.key, o.entry, cs \cup o.made, o.gen)
        /\ \A k \in Keys \ {call.key} : EntryOk(k, entries[k], cs \cup o.made, o.gen)
    BY <1>2, <1>3, <2>6 DEF Follows
  <2> QED BY <1>2, <2>1, <2>7, ReplaceEntry
<1> QED BY <1>5, <1>7, <1>8 DEF DecisionSucceeds

LEMMA FailureStep ==
  ASSUME IInv, NEW call \in calls, ~call.done, HandleDecisionFailure(call),
         UNCHANGED <<order, dropped, world, twitch, notes, seen>>
  PROVE  IInv'
<1> DEFINE old == entries[call.key]
           final == CASE call.answer = "processed" -> "HandledElsewhere"
                      [] call.answer = "notFound" -> "Expired"
                      [] call.answer = "unauthorized" -> "PermissionLost"
                      [] OTHER -> "Failed"
           again == IF call.answer \in {"processed", "notFound"} THEN "none" ELSE call.action
           f == [old EXCEPT !.pending = "none", !.actor = Nobody, !.failed = again, !.state = final]
<1>1. Settle(call, f) /\ IsCurrent(call) /\ call.action # "punish"
  BY DEF HandleDecisionFailure, Settle
<1>2. /\ call.key \in Keys /\ old \in Entry /\ call.action \in Decisions \cup {"punish"}
      /\ EntryOk(call.key, old, calls, generation)
  BY <1>1 DEF IInv, TypeOK, Call
<1>3. old.gen = call.gen /\ Running(old)
  BY <1>1, AnsweredIsQuiet
<1>4. old.busy = FALSE /\ old.lapsed = FALSE
  <2>1. ~old.busy
    BY <1>1, <1>2, <1>3 DEF EntryOk
  <2>2. old.state # "Denied"
    BY <1>3, <2>1 DEF Running
  <2> QED BY <1>2, <2>1, <2>2 DEF EntryOk, Entry
<1>5. final \in {"HandledElsewhere", "Expired", "PermissionLost", "Failed"} /\ again \in Decisions \cup {"none"}
  BY <1>1, <1>2
<1> HIDE DEF final, again
<1>6. /\ f \in Entry /\ f.gen = old.gen /\ f.actorGen = old.actorGen /\ f.state = final
      /\ f.pending = "none" /\ f.busy = old.busy /\ f.lapsed = old.lapsed
  BY <1>2, <1>5 DEF Entry, Resolved
<1> HIDE DEF f
<1>7. ~Running(f)
  BY <1>4, <1>5, <1>6 DEF Running
<1> QED BY <1>1, <1>4, <1>6, <1>7, SettleStep

LEMMA PunishmentAnswered ==
  ASSUME IInv, NEW call \in calls, ~call.done, SecondaryAnswered(call),
         UNCHANGED <<order, dropped, world, twitch, notes, seen>>
  PROVE  IInv'
<1> DEFINE old == entries[call.key]
           f == [old EXCEPT !.state = "Denied", !.pending = "none", !.busy = FALSE,
                            !.punishes = TRUE, !.actor = Nobody,
                            !.lapsed = call.answer \notin {"ok", "banned"}]
<1>1. Settle(call, f) /\ IsCurrent(call)
  BY DEF SecondaryAnswered, Settle
<1>2. old \in Entry
  BY <1>1 DEF IInv, TypeOK, Call
<1>3. /\ f \in Entry /\ f.gen = old.gen /\ f.actorGen = old.actorGen /\ f.state = "Denied"
      /\ f.pending = "none" /\ f.busy = FALSE
  BY <1>2 DEF Entry, Resolved
<1> HIDE DEF f
<1>4. ~Running(f)
  BY <1>3 DEF Running
<1> QED BY <1>1, <1>3, <1>4, SettleStep

LEMMA AnswerStep ==
  ASSUME IInv, NEW call \in calls, Answer(call)
  PROVE  IInv'
<1>1. ~call.done /\ UNCHANGED <<order, dropped, world, twitch, notes, seen>>
  BY DEF Answer
<1>2. CASE Ignored(call)
  BY <1>1, <1>2, IgnoredStep
<1>3. CASE DecisionSucceeds(call)
  BY <1>1, <1>3, SucceedsStep
<1>4. CASE HandleDecisionFailure(call)
  BY <1>1, <1>4, FailureStep
<1>5. CASE SecondaryAnswered(call)
  BY <1>1, <1>5, PunishmentAnswered
<1> QED BY <1>2, <1>3, <1>4, <1>5 DEF Answer

LEMMA InitHolds == Init => IInv
<1> SUFFICES ASSUME Init PROVE IInv
  OBVIOUS
<1>1. CallsOk({}, 0) /\ {} \in SUBSET Call
  BY DEF CallsOk
<1>2. \A k \in Keys : NewEntry \in Entry /\ EntryOk(k, NewEntry, {}, 0)
  BY <1>1, NewEntryOk
<1>3. entries \in [Keys -> Entry] /\ \A k \in Keys : entries[k] = NewEntry
  BY <1>2 DEF Init
<1>4. order \in Seq(Keys) /\ Len(order) = 0
  BY DEF Init
<1>5. TypeOK
  <2>1. accountGen \in 0 .. MaxSwitches /\ Len(order) <= MaxItems /\ generation \in Nat
    BY <1>4, BoundsAssumption DEF Init
  <2>2. twitch \in [Keys -> Statuses \cup {"unsent", "held"}]
    BY DEF Init
  <2>3. account \in Accounts \cup {Nobody} /\ rights \in BOOLEAN
    BY DEF Init
  <2> QED BY <1>3, <1>4, <2>1, <2>2, <2>3 DEF Init, TypeOK
<1>6. UnknownIsNew
  BY <1>3 DEF UnknownIsNew
<1>7. calls = {} /\ generation = 0
  BY DEF Init
<1> QED BY <1>1, <1>2, <1>3, <1>5, <1>6, <1>7 DEF IInv

-----------------------------------------------------------------------------
(* The theorems *)

\* The entries, the calls and the order of the entries are consistent after
\* every step of AutoModReviewController.
THEOREM InvariantHolds == Spec => []IInv
<1>1. IInv /\ [Next]_vars => IInv'
  <2> SUFFICES ASSUME IInv, [Next]_vars PROVE IInv'
    OBVIOUS
  <2>1. CASE SwitchAccount \/ ChangeRights
    BY <2>1, WorldStep
  <2>2. ASSUME NEW key \in Keys, HoldMessage(key) \/ ResolveElsewhere(key) PROVE IInv'
    BY <2>2, TwitchStep
  <2>3. ASSUME NEW key \in Reviewed, Retry(key) PROVE IInv'
    BY <2>3, RetryStep
  <2>4. ASSUME NEW key \in Reviewed, NEW action \in Decisions, Decide(key, action) PROVE IInv'
    BY <2>4, DecideStep
  <2>5. ASSUME NEW note \in notes, IngestHold(note) PROVE IInv'
    BY <2>5, HoldStep
  <2>6. ASSUME NEW note \in notes, IngestUpdate(note) PROVE IInv'
    BY <2>6, UpdateStep
  <2>7. ASSUME NEW call \in calls, HandleCall(call) PROVE IInv'
    BY <2>7, HandleStep
  <2>8. ASSUME NEW call \in calls, Answer(call) PROVE IInv'
    BY <2>8, AnswerStep
  <2>9. CASE UNCHANGED vars
    BY <2>9 DEF IInv, TypeOK, UnknownIsNew, Known, vars, own, world
  <2> QED BY <2>1, <2>2, <2>3, <2>4, <2>5, <2>6, <2>7, <2>8, <2>9 DEF Next
<1> QED BY <1>1, InitHolds, PTL DEF Spec

\* Each variable keeps its type and prune() keeps the entries within
\* MAX_REVIEW_ITEMS.
THEOREM TypeCorrect == Spec => []TypeOK
<1>1. IInv => TypeOK
  BY DEF IInv
<1> QED BY <1>1, InvariantHolds, PTL

\* A decision is followed by one timeout or ban at most, whichever of its
\* answer and its notification comes first (performSecondary).
THEOREM PunishedOnce == Spec => []OnePunishment
<1>1. IInv => OnePunishment
  BY DEF IInv, CallsOk, OnePunishment, Punishments
<1> QED BY <1>1, InvariantHolds, PTL

\* A timeout or ban that follows a denial is made by the account that denied,
\* with no change of account in between (performSecondary).
THEOREM PunisherDenied == Spec => []PunisherIsDenier
<1>1. IInv => PunisherIsDenier
  BY DEF IInv, CallsOk, PunisherIsDenier, Punishments
<1> QED BY <1>1, InvariantHolds, PTL

\* An entry shows an action in progress exactly while the call whose answer
\* will be taken for it is out (actionGeneration).
THEOREM ShownWhileRunning == Spec => []ShownIsRunning
<1>1. IInv => ShownIsRunning
  <2> SUFFICES ASSUME IInv, NEW key \in Known
               PROVE  Running(entries[key]) <=>
                        \E c \in calls : c.key = key /\ ~c.done /\ c.gen = entries[key].gen
    BY DEF ShownIsRunning, Running
  <2>1. key \in Keys
    <3>1. order \in Seq(Keys)
      BY DEF IInv, TypeOK
    <3> QED BY <3>1 DEF Known
  <2> QED BY <2>1 DEF IInv, EntryOk
<1> QED BY <1>1, InvariantHolds, PTL

-----------------------------------------------------------------------------
(* Entries and what became of their messages *)

\* The notification of what became of a message has been taken.
Told(k) == \E n \in seen : n.key = k /\ n.status # "hold"

\* The state that shows it.
ShownFor(status) == IF status = "denied" THEN "Denied" ELSE Final(status)

\* Twitch resolves a message once, and tells it as it is.
NotesTell ==
  /\ \A n \in notes : n.status # "hold" => twitch[n.key] = n.status
  /\ \A k \in Keys : twitch[k] \in Statuses => \E n \in notes : n.key = k /\ n.status # "hold"
  /\ \A m, n \in notes : m.key = n.key /\ m.status # "hold" /\ n.status # "hold" => m = n

\* The account of a denial that worked is the moderator of its notification.
AnswersTell ==
  \A c \in calls : c.action = "denyPunish" /\ c.answer = "ok" =>
     [key |-> c.key, status |-> "denied", moderator |-> c.account] \in notes

\* An entry of which a punishment is or was made is that of a denied message,
\* and an entry that was told shows what it was told.
EntryShows(k, e, known) ==
  /\ CompoundStarted(e) => e.state = "Denied" /\ twitch[k] = "denied"
  /\ known /\ Told(k) => e.state = ShownFor(twitch[k])

EntriesShow == \A k \in Keys : EntryShows(k, entries[k], k \in Known)

\* The entry waits for the call d.
Waits(d) == ~d.done /\ entries[d.key].gen = d.gen

\* The call d has failed, or will when Twitch handles it.
Hopeless(d) == d.answer \notin {"", "ok"} \/ (d.answer = "" /\ twitch[d.key] \in Statuses)

Followed(d) ==
  \/ d.key \in dropped
  \/ Waits(d) /\ entries[d.key].pending = "denyPunish"
  \/ \E p \in Punishments : p.key = d.key /\ p.gen > d.gen
  \/ entries[d.key].lapsed
  \/ Hopeless(d)

AllFollowed == \A d \in calls : d.action = "denyPunish" => Followed(d)

SInv == NotesTell /\ AnswersTell /\ EntriesShow /\ AllFollowed

\* What a step does to a denial d that is d2 after it.
LEMMA FollowedStep ==
  ASSUME IInv, NEW d \in calls, Followed(d), NEW d2 \in calls', Same(d, d2), calls' \subseteq Call,
         d2.answer = d.answer, dropped \subseteq dropped', UNCHANGED twitch,
         \A p \in calls : \E q \in calls' : Same(p, q),
         \/ d.key \in dropped'
         \/ entries'[d.key] = entries[d.key] /\ d2.done = d.done
         \/ entries'[d.key].lapsed
         \/ \E q \in calls' : q.action = "punish" /\ q.key = d.key /\ q.gen > generation
         \/ Hopeless(d)
         \/ \E p \in Punishments : p.key = d.key /\ p.gen > d.gen
         \/ ~entries[d.key].lapsed /\ ~Waits(d)
  PROVE  Followed(d2)'
<1>1. /\ d2.key = d.key /\ d2.gen = d.gen /\ d.gen \in Nat /\ d.gen <= generation /\ generation \in Nat
      /\ \A q \in calls : q.gen \in Nat
  BY DEF Same, IInv, TypeOK, Call, CallsOk
<1>2. CASE \E p \in Punishments : p.key = d.key /\ p.gen > d.gen
  <2>1. PICK p \in calls : p.action = "punish" /\ p.key = d.key /\ p.gen > d.gen
    BY <1>2 DEF Punishments
  <2>2. PICK q \in calls' : Same(p, q)
    OBVIOUS
  <2>3. q \in Punishments' /\ q.key = d2.key /\ q.gen > d2.gen
    BY <1>1, <2>1, <2>2 DEF Same, Punishments
  <2> QED BY <2>3 DEF Followed
<1>3. CASE \E q \in calls' : q.action = "punish" /\ q.key = d.key /\ q.gen > generation
  <2>1. PICK q \in calls' : q.action = "punish" /\ q.key = d.key /\ q.gen > generation
    BY <1>3
  <2>2. q.gen \in Nat
    BY DEF Call
  <2> QED BY <1>1, <2>1, <2>2 DEF Followed, Punishments
<1>4. CASE Hopeless(d)
  <2>1. Hopeless(d2)'
    BY <1>1, <1>4 DEF Hopeless
  <2> QED BY <2>1 DEF Followed
<1>5. CASE entries'[d.key].lapsed \/ d.key \in dropped'
  BY <1>1, <1>5 DEF Followed
<1>6. CASE entries'[d.key] = entries[d.key] /\ d2.done = d.done /\ ~Hopeless(d)
           /\ ~\E p \in Punishments : p.key = d.key /\ p.gen > d.gen
  BY <1>1, <1>6 DEF Followed, Waits
<1>7. CASE ~entries[d.key].lapsed /\ ~Waits(d) /\ ~Hopeless(d)
           /\ ~\E p \in Punishments : p.key = d.key /\ p.gen > d.gen
  <2>1. d.key \in dropped
    BY <1>7 DEF Followed
  <2> QED BY <1>5, <2>1
<1> QED BY <1>2, <1>3, <1>4, <1>5, <1>6, <1>7

\* Only what is not resolved yet changes at Twitch.
LEMMA TwitchMoves ==
  ASSUME IInv, SInv, NEW key \in Keys, NEW note \in Note, NEW x, note.key = key,
         twitch[key] \in {"unsent", "held"}, twitch' = [twitch EXCEPT ![key] = x],
         notes' = notes \cup {note},
         (note.status = "hold" /\ x = "held") \/ (x \in Statuses /\ note.status = x),
         UNCHANGED <<order, entries, seen>>
  PROVE  /\ NotesTell' /\ EntriesShow'
         /\ \A k \in Keys : twitch[k] \in Statuses => twitch'[k] = twitch[k]
<1>1. /\ twitch \in [Keys -> Statuses \cup {"unsent", "held"}] /\ notes \subseteq Note
      /\ seen \subseteq notes
  BY DEF IInv, TypeOK
<1>2. twitch[key] \notin Statuses /\ {"held", "hold"} \cap Statuses = {}
  BY DEF Statuses
<1>3. \A k \in Keys : twitch'[k] = IF k = key THEN x ELSE twitch[k]
  BY <1>1
<1>4. \A n \in notes : n.status # "hold" => n.key # key /\ n.key \in Keys /\ n.status \in Statuses
  BY <1>1, <1>2 DEF SInv, NotesTell, Note
<1>5. NotesTell'
  <2>1. ASSUME NEW n \in notes', n.status # "hold" PROVE twitch'[n.key] = n.status
    BY <1>3, <1>4, <2>1 DEF SInv, NotesTell
  <2>2. ASSUME NEW k \in Keys, twitch'[k] \in Statuses
        PROVE  \E n \in notes' : n.key = k /\ n.status # "hold"
    <3>1. CASE k = key
      BY <1>2, <1>3, <2>2, <3>1
    <3>2. CASE k # key
      BY <1>3, <2>2, <3>2 DEF SInv, NotesTell
    <3> QED BY <3>1, <3>2
  <2>3. ASSUME NEW m \in notes', NEW n \in notes', m.key = n.key, m.status # "hold", n.status # "hold"
        PROVE  m = n
    BY <1>4, <2>3 DEF SInv, NotesTell
  <2> QED BY <2>1, <2>2, <2>3 DEF NotesTell
<1>6. \A k \in Keys : twitch[k] \in Statuses => twitch'[k] = twitch[k]
  BY <1>2, <1>3
<1>7. EntriesShow'
  <2> SUFFICES ASSUME NEW k \in Keys PROVE EntryShows(k, entries[k], k \in Known)'
    BY DEF EntriesShow
  <2>1. EntryShows(k, entries[k], k \in Known)
    BY DEF SInv, EntriesShow
  <2>2. Told(k)' = Told(k) /\ Known' = Known
    BY DEF Told, Known
  <2>3. Told(k) => twitch[k] \in Statuses
    BY <1>1, <1>4 DEF Told, SInv, NotesTell
  <2>4. twitch[k] = "denied" => twitch'[k] = "denied"
    BY <1>6 DEF Statuses
  <2> QED BY <1>6, <2>1, <2>2, <2>3, <2>4 DEF EntryShows, CompoundStarted
<1> QED BY <1>5, <1>6, <1>7

\* Nothing is told anew and no denial works anew.
LEMMA NotesStay ==
  ASSUME NotesTell, AnswersTell, UNCHANGED <<twitch, notes>>,
         \A c \in calls' : c.action = "denyPunish" /\ c.answer = "ok" =>
            \E d \in calls : Same(d, c) /\ d.answer = "ok"
  PROVE  NotesTell' /\ AnswersTell'
<1>1. NotesTell'
  BY DEF NotesTell
<1>2. ASSUME NEW c \in calls', c.action = "denyPunish" /\ c.answer = "ok"
      PROVE  [key |-> c.key, status |-> "denied", moderator |-> c.account] \in notes'
  <2>1. PICK d \in calls : Same(d, c) /\ d.answer = "ok"
    BY <1>2
  <2>2. [key |-> d.key, status |-> "denied", moderator |-> d.account] \in notes
    BY <1>2, <2>1 DEF AnswersTell, Same
  <2> QED BY <2>1, <2>2 DEF Same
<1> QED BY <1>1, <1>2 DEF AnswersTell

LEMMA WorldShows ==
  ASSUME SInv, SwitchAccount \/ ChangeRights \/ UNCHANGED vars
  PROVE  SInv'
<1>1. UNCHANGED <<order, entries, calls, dropped, twitch, notes, seen>>
  BY DEF SwitchAccount, ChangeRights, own, vars
<1>2. NotesTell' /\ AnswersTell'
  BY <1>1 DEF SInv, NotesTell, AnswersTell
<1>3. EntriesShow'
  BY <1>1 DEF SInv, EntriesShow, EntryShows, CompoundStarted, Told, Known
<1>4. AllFollowed'
  BY <1>1 DEF SInv, AllFollowed, Followed, Waits, Punishments, Hopeless
<1> QED BY <1>2, <1>3, <1>4 DEF SInv

\* A message is held, or resolved by somebody else.
LEMMA TwitchShows ==
  ASSUME IInv, SInv, NEW key \in Keys, HoldMessage(key) \/ ResolveElsewhere(key)
  PROVE  SInv'
<1>1. UNCHANGED <<order, entries, calls, dropped, seen>>
  BY DEF HoldMessage, ResolveElsewhere, own
<1>2. /\ NotesTell' /\ EntriesShow'
      /\ \A k \in Keys : twitch[k] \in Statuses => twitch'[k] = twitch[k]
  <2>1. CASE HoldMessage(key)
    <3> DEFINE note == [key |-> key, status |-> "hold", moderator |-> Other]
    <3>1. note \in Note /\ note.key = key /\ note.status = "hold"
      BY DEF Note
    <3>2. /\ twitch[key] = "unsent" /\ twitch' = [twitch EXCEPT ![key] = "held"]
          /\ notes' = notes \cup {note}
      BY <2>1 DEF HoldMessage
    <3> HIDE DEF note
    <3>3. \A x : twitch' = [twitch EXCEPT ![key] = x] /\ x = "held" =>
            /\ NotesTell' /\ EntriesShow'
            /\ \A k \in Keys : twitch[k] \in Statuses => twitch'[k] = twitch[k]
      BY <1>1, <3>1, <3>2, TwitchMoves
    <3> QED BY <3>2, <3>3
  <2>2. CASE ResolveElsewhere(key)
    <3>1. PICK status \in Statuses, moderator \in Accounts \cup {Other} :
             Resolve(key, status, moderator)
      BY <2>2 DEF ResolveElsewhere
    <3> DEFINE note == [key |-> key, status |-> status, moderator |-> moderator]
    <3>2. note \in Note /\ note.key = key /\ note.status = status
      BY DEF Note
    <3>3. /\ twitch[key] = "held" /\ twitch' = [twitch EXCEPT ![key] = status]
          /\ notes' = notes \cup {note}
      BY <3>1 DEF Resolve
    <3> HIDE DEF note
    <3> QED BY <1>1, <3>2, <3>3, TwitchMoves
  <2> QED BY <2>1, <2>2
<1>3. notes \subseteq notes'
  BY DEF HoldMessage, ResolveElsewhere, Resolve
<1>4. AnswersTell'
  BY <1>1, <1>3 DEF SInv, AnswersTell
<1>5. AllFollowed'
  <2> SUFFICES ASSUME NEW d \in calls, d.action = "denyPunish" PROVE Followed(d)'
    BY <1>1 DEF AllFollowed
  <2>1. Followed(d) /\ d.key \in Keys
    BY DEF SInv, AllFollowed, IInv, TypeOK, Call
  <2> QED BY <1>1, <1>2, <2>1 DEF Followed, Waits, Punishments, Hopeless
<1> QED BY <1>2, <1>4, <1>5 DEF SInv

\* Twitch carries a decision out, and tells it, or answers that it did not.
LEMMA HandleShows ==
  ASSUME IInv, SInv, NEW call \in calls, HandleCall(call)
  PROVE  SInv'
<1>1. /\ UNCHANGED <<order, entries, generation, dropped, seen>> /\ call.answer = ""
      /\ call \in Call /\ call.key \in Keys /\ call.account \in Accounts
      /\ calls \in SUBSET Call
  BY DEF HandleCall, IInv, TypeOK, Call
<1>2. PICK answer \in {"ok", "processed", "notFound", "unauthorized", "unknown", "banned"} :
         /\ calls' = (calls \ {call}) \cup {[call EXCEPT !.answer = answer]}
         /\ \/ UNCHANGED <<twitch, notes>> /\ (call.action # "punish" => answer # "ok")
            \/ call.action # "punish"
               /\ Resolve(call.key, IF call.action = "approve" THEN "approved" ELSE "denied",
                          call.account)
  <2>1. CASE call.action # "punish" /\ HandleDecision(call)
    BY <2>1 DEF HandleDecision, Answered
  <2>2. CASE call.action = "punish"
    BY <2>2 DEF HandleCall, Answered
  <2> QED BY <2>1, <2>2 DEF HandleCall
<1> DEFINE d == [call EXCEPT !.answer = answer]
<1>3. Same(call, d) /\ d.answer = answer /\ d.done = call.done
  BY <1>1 DEF Same, Call
<1>4. calls' = (calls \ {call}) \cup {d}
  BY <1>2
<1> HIDE DEF d
<1>5. /\ NotesTell' /\ EntriesShow' /\ notes \subseteq notes'
      /\ \A k \in Keys : twitch[k] \in Statuses => twitch'[k] = twitch[k]
      /\ d.action = "denyPunish" /\ answer = "ok"
           => [key |-> d.key, status |-> "denied", moderator |-> d.account] \in notes'
  <2>1. CASE UNCHANGED <<twitch, notes>> /\ (call.action # "punish" => answer # "ok")
    <3>1. NotesTell'
      BY <2>1 DEF SInv, NotesTell
    <3>2. EntriesShow'
      BY <1>1, <2>1 DEF SInv, EntriesShow, EntryShows, CompoundStarted, Told, Known
    <3> QED BY <1>3, <2>1, <3>1, <3>2 DEF Same
  <2>2. CASE call.action # "punish"
             /\ Resolve(call.key, IF call.action = "approve" THEN "approved" ELSE "denied",
                        call.account)
    <3>1. PICK status \in Statuses : /\ Resolve(call.key, status, call.account)
                                     /\ call.action = "denyPunish" => status = "denied"
      BY <2>2 DEF Statuses
    <3> DEFINE note == [key |-> call.key, status |-> status, moderator |-> call.account]
    <3>2. note \in Note /\ note.key = call.key /\ note.status = status
      BY <1>1 DEF Note
    <3>3. /\ twitch[call.key] = "held" /\ twitch' = [twitch EXCEPT ![call.key] = status]
          /\ notes' = notes \cup {note}
      BY <3>1 DEF Resolve
    <3>4. d.action = "denyPunish"
            => [key |-> d.key, status |-> "denied", moderator |-> d.account] \in notes'
      BY <1>3, <3>1, <3>3 DEF Same
    <3> HIDE DEF note
    <3>5. /\ NotesTell' /\ EntriesShow'
          /\ \A k \in Keys : twitch[k] \in Statuses => twitch'[k] = twitch[k]
      BY <1>1, <3>2, <3>3, TwitchMoves
    <3> QED BY <3>3, <3>4, <3>5
  <2> QED BY <1>2, <2>1, <2>2
<1>6. AnswersTell'
  BY <1>3, <1>4, <1>5 DEF SInv, AnswersTell
<1>7. ASSUME NEW c \in calls', c.action = "denyPunish"
      PROVE  Followed(c)'
  <2>1. PICK b \in calls : /\ Same(b, c) /\ b.done = c.done
                           /\ b = c \/ (b = call /\ c.answer = answer)
    <3>1. CASE c \in calls
      <4>1. Same(c, c)
        BY DEF Same
      <4> QED BY <3>1, <4>1
    <3>2. CASE c = d
      BY <1>3, <3>2
    <3> QED BY <1>4, <3>1, <3>2
  <2>2. /\ Followed(b) /\ b.key \in Keys /\ c.key = b.key /\ c.gen = b.gen /\ b.gen \in Nat
        /\ b.action = "denyPunish"
    BY <1>1, <1>7, <2>1 DEF SInv, AllFollowed, Same, Call
  <2>3. CASE \E p \in Punishments : p.key = b.key /\ p.gen > b.gen
    <3>1. PICK p \in calls : p.action = "punish" /\ p.key = b.key /\ p.gen > b.gen
      BY <2>3 DEF Punishments
    <3>2. PICK q \in calls' : Same(p, q)
      <4>1. Same(p, p)
        BY DEF Same
      <4> QED BY <1>3, <1>4, <4>1
    <3> QED BY <2>2, <3>1, <3>2 DEF Followed, Punishments, Same
  <2>4. CASE Hopeless(b)
    <3>1. CASE b = c
      BY <1>5, <2>2, <2>4, <3>1 DEF Followed, Hopeless
    <3>2. CASE b = call /\ c.answer = answer
      <4>1. twitch[call.key] \in Statuses
        BY <1>1, <2>4, <3>2 DEF Hopeless
      <4>2. ~Resolve(call.key, IF call.action = "approve" THEN "approved" ELSE "denied", call.account)
        BY <4>1 DEF Resolve, Statuses
      <4>3. answer # "ok"
        BY <1>2, <2>2, <3>2, <4>2
      <4> QED BY <1>2, <3>2, <4>3 DEF Followed, Hopeless
    <3> QED BY <2>1, <3>1, <3>2
  <2>5. CASE b.key \in dropped \/ (Waits(b) /\ entries[b.key].pending = "denyPunish")
             \/ entries[b.key].lapsed
    BY <1>1, <2>1, <2>2, <2>5 DEF Followed, Waits
  <2> QED BY <2>2, <2>3, <2>4, <2>5 DEF Followed
<1> QED BY <1>5, <1>6, <1>7 DEF SInv, AllFollowed

\* One entry is replaced by one that shows what became of its message.
LEMMA OneEntryShows ==
  ASSUME IInv, SInv, NEW key \in Keys, NEW f, entries' = [entries EXCEPT ![key] = f],
         UNCHANGED <<order, twitch>>, \A k \in Keys \ {key} : Told(k)' => Told(k),
         CompoundStarted(f) => f.state = "Denied" /\ twitch[key] = "denied",
         Told(key)' => f.state = ShownFor(twitch[key])
  PROVE  EntriesShow'
<1> SUFFICES ASSUME NEW k \in Keys PROVE EntryShows(k, entries[k], k \in Known)'
  BY DEF EntriesShow
<1>1. entries' [k] = IF k = key THEN f ELSE entries[k]
  BY DEF IInv, TypeOK
<1>2. EntryShows(k, entries[k], k \in Known)
  BY DEF SInv, EntriesShow
<1>3. Known' = Known /\ twitch' = twitch
  BY DEF Known
<1>4. CASE k = key
  BY <1>1, <1>3, <1>4 DEF EntryShows, CompoundStarted
<1>5. CASE k # key
  BY <1>1, <1>2, <1>3, <1>5 DEF EntryShows, CompoundStarted
<1> QED BY <1>4, <1>5

\* The second call leaves its entry denied, and is made or missed.
LEMMA SecondaryShows ==
  ASSUME NEW e \in Entry, e.state = "Denied", NEW key, NEW gen \in Nat, NEW expected, NEW cause,
         NEW o, o = PerformSecondary(key, e, gen, expected, cause)
  PROVE  /\ o.entry.state = "Denied"
         /\ \A c \in o.made : c.action = "punish" /\ c.key = key /\ c.gen = gen + 1
         /\ o.entry.lapsed \/ \E c \in o.made : TRUE
<1>1. CASE ~ActionsAllowed \/ AccountChanged(e, expected)
  <2> DEFINE f == [e EXCEPT !.state = "Denied", !.pending = "none", !.busy = FALSE,
                            !.lapsed = TRUE, !.punishes = TRUE, !.actor = Nobody]
  <2>1. o = [entry |-> f, gen |-> gen, made |-> {}]
    BY <1>1 DEF PerformSecondary
  <2>2. f.state = "Denied" /\ f.lapsed = TRUE
    BY DEF Entry
  <2> HIDE DEF f
  <2> QED BY <2>1, <2>2
<1>2. CASE ~(~ActionsAllowed \/ AccountChanged(e, expected))
  <2> DEFINE f == [e EXCEPT !.busy = TRUE, !.lapsed = FALSE, !.punishes = TRUE,
                            !.pending = "punish", !.gen = gen + 1]
             n == [key |-> key, gen |-> gen + 1, action |-> "punish", account |-> account,
                   accountGen |-> accountGen, done |-> FALSE, answer |-> "",
                   cause |-> IF expected = Nobody THEN gen + 1 ELSE cause]
  <2>1. o = [entry |-> f, gen |-> gen + 1, made |-> {n}]
    BY <1>2 DEF PerformSecondary
  <2>2. f.state = "Denied"
    BY DEF Entry
  <2>3. n.action = "punish" /\ n.key = key /\ n.gen = gen + 1
    OBVIOUS
  <2> HIDE DEF f, n
  <2> QED BY <2>1, <2>2, <2>3
<1> QED BY <1>1, <1>2

\* An entry the user may decide about has not been told anything.
LEMMA OpenIsUntold ==
  ASSUME IInv, SInv, NEW key \in Keys, key \in Known,
         entries[key].state \in {"Open", "Failed", "PermissionLost"}
  PROVE  /\ ~Told(key) /\ ~CompoundStarted(entries[key]) /\ ~entries[key].lapsed
         /\ \A d \in calls : d.key = key => ~Waits(d)
<1>1. EntryShows(key, entries[key], TRUE) /\ EntryOk(key, entries[key], calls, generation)
      /\ entries[key] \in Entry
  BY DEF SInv, EntriesShow, IInv, TypeOK
<1>2. \A k \in Keys : Told(k) => twitch[k] \in Statuses
  BY DEF Told, SInv, NotesTell, IInv, TypeOK, Note, Statuses
<1>3. ~Told(key)
  BY <1>1, <1>2 DEF EntryShows, ShownFor, Final, Statuses
<1>4. ~CompoundStarted(entries[key]) /\ ~entries[key].lapsed /\ ~Running(entries[key])
  BY <1>1 DEF EntryShows, CompoundStarted, Running
<1>5. \A d \in calls : d.key = key => ~Waits(d)
  BY <1>1, <1>4 DEF EntryOk, Waits
<1> QED BY <1>3, <1>4, <1>5

LEMMA DecisionShows ==
  ASSUME IInv, IInv', SInv, NEW key \in Keys, key \in Known, NEW action \in Decisions,
         NEW retrying \in BOOLEAN, PerformDecision(key, action, retrying),
         UNCHANGED <<order, dropped, world, twitch, notes, seen>>
  PROVE  SInv'
<1> DEFINE e == entries[key]
<1>1. /\ e \in Entry /\ generation \in Nat /\ calls \in SUBSET Call /\ calls' \in SUBSET Call
      /\ ~Told(key) /\ ~CompoundStarted(e) /\ ~e.lapsed
      /\ \A d \in calls : d.key = key => ~Waits(d)
  <2>1. e.state \in {"Open", "Failed", "PermissionLost"}
    BY DEF PerformDecision
  <2> QED BY <2>1, OpenIsUntold DEF IInv, TypeOK
<1>2. \A d \in calls : Same(d, d)
  BY DEF Same
<1>3. /\ \A k \in Keys \ {key} : entries'[k] = entries[k]
      /\ \A k \in Keys : Told(k)' = Told(k)
  BY DEF IInv, TypeOK, PerformDecision, Take, Told
<1>4. calls \subseteq calls'
  BY DEF PerformDecision, Take
<1>5. \A d \in calls : d.action = "denyPunish" => Followed(d)'
  <2> SUFFICES ASSUME NEW d \in calls, d.action = "denyPunish" PROVE Followed(d)'
    OBVIOUS
  <2>1. Followed(d) /\ d.key \in Keys
    BY <1>1 DEF SInv, AllFollowed, Call
  <2>2. entries'[d.key] = entries[d.key] \/ (~entries[d.key].lapsed /\ ~Waits(d))
    BY <1>1, <1>3, <2>1
  <2> QED BY <1>1, <1>2, <1>4, <2>1, <2>2, FollowedStep
<1>6. CASE ~ActionsAllowed
  <2> DEFINE f == [e EXCEPT !.state = "PermissionLost", !.failed = action]
  <2>1. entries' = [entries EXCEPT ![key] = f] /\ calls' = calls \cup {}
    BY <1>6 DEF PerformDecision, Take
  <2>2. f.busy = e.busy /\ f.lapsed = e.lapsed /\ f.punishes = e.punishes
    BY <1>1 DEF Entry
  <2> HIDE DEF f
  <2>3. ~CompoundStarted(f)
    BY <1>1, <2>2 DEF CompoundStarted
  <2>4. EntriesShow'
    BY <1>1, <1>3, <2>1, <2>3, OneEntryShows
  <2>5. calls' = calls
    BY <2>1
  <2>6. NotesTell' /\ AnswersTell'
    BY <1>2, <2>5, NotesStay DEF SInv
  <2> QED BY <1>5, <2>4, <2>5, <2>6 DEF SInv, AllFollowed
<1>7. CASE ActionsAllowed
  <2> DEFINE state == IF action = "approve" THEN "Approving" ELSE "Denying"
             f == [e EXCEPT !.state = state, !.pending = action, !.failed = "none",
                            !.actor = account, !.actorGen = accountGen,
                            !.lapsed = FALSE, !.gen = generation + 1]
  <2>1. PICK n : /\ entries' = [entries EXCEPT ![key] = f] /\ calls' = calls \cup {n}
                 /\ n = [key |-> key, gen |-> generation + 1, action |-> action,
                         account |-> account, accountGen |-> accountGen,
                         cause |-> generation + 1, done |-> FALSE, answer |-> ""]
    BY <1>7 DEF PerformDecision, Take
  <2>2. /\ f.busy = e.busy /\ f.lapsed = FALSE /\ f.punishes = e.punishes
        /\ f.gen = generation + 1 /\ f.pending = action
    BY <1>1 DEF Entry
  <2>3. n.key = key /\ n.gen = generation + 1 /\ n.action = action /\ ~n.done /\ n.answer = ""
    BY <2>1
  <2> HIDE DEF f
  <2>4. ~CompoundStarted(f)
    BY <1>1, <2>2 DEF CompoundStarted
  <2>5. EntriesShow'
    BY <1>1, <1>3, <2>1, <2>4, OneEntryShows
  <2>6. NotesTell' /\ AnswersTell'
    BY <1>2, <2>1, <2>3, NotesStay DEF SInv
  <2>7. n.action = "denyPunish" => Followed(n)'
    <3>1. entries'[key] = f
      BY <2>1 DEF IInv, TypeOK
    <3> QED BY <2>2, <2>3, <3>1 DEF Followed, Waits
  <2> QED BY <1>5, <2>1, <2>5, <2>6, <2>7 DEF SInv, AllFollowed
<1> QED BY <1>6, <1>7

LEMMA RetryShows ==
  ASSUME IInv, IInv', SInv, NEW key \in Reviewed, Retry(key)
  PROVE  SInv'
<1> DEFINE e == entries[key]
<1>1. /\ key \in Keys /\ key \in Known
      /\ UNCHANGED <<order, dropped, world, twitch, notes, seen>>
  BY BoundsAssumption DEF Retry
<1>2. /\ e \in Entry /\ generation \in Nat /\ calls \in SUBSET Call /\ calls' \in SUBSET Call
      /\ EntryOk(key, e, calls, generation) /\ EntryShows(key, e, TRUE)
  BY <1>1 DEF IInv, TypeOK, SInv, EntriesShow
<1>3. CASE e.lapsed /\ e.punishes
  <2>1. PICK o : /\ o = PerformSecondary(key, e, generation, Nobody, 0)
                 /\ entries' = [entries EXCEPT ![key] = o.entry]
                 /\ calls' = calls \cup o.made
    BY <1>3 DEF Retry, Take
  <2>2. e.state = "Denied" /\ CompoundStarted(e) /\ twitch[key] = "denied"
    BY <1>2, <1>3 DEF EntryShows, CompoundStarted
  <2>3. /\ o.entry.state = "Denied"
        /\ \A c \in o.made : c.action = "punish" /\ c.key = key /\ c.gen = generation + 1
        /\ o.entry.lapsed \/ \E c \in o.made : TRUE
    BY <1>2, <2>1, <2>2, SecondaryShows
  <2>4. EntriesShow'
    <3>1. \A k \in Keys : Told(k)' = Told(k)
      BY <1>1 DEF Told
    <3> QED BY <1>1, <1>2, <2>1, <2>2, <2>3, <3>1, OneEntryShows DEF ShownFor
  <2>5. \A d \in calls : Same(d, d) /\ d \in calls'
    BY <2>1 DEF Same
  <2>6. NotesTell' /\ AnswersTell'
    BY <1>1, <2>1, <2>3, <2>5, NotesStay DEF SInv
  <2>7. /\ \A k \in Keys \ {key} : entries'[k] = entries[k]
        /\ entries'[key] = o.entry
    BY <1>1, <2>1 DEF IInv, TypeOK
  <2>8. \A d \in calls : d.action = "denyPunish" => Followed(d)'
    <3> SUFFICES ASSUME NEW d \in calls, d.action = "denyPunish" PROVE Followed(d)'
      OBVIOUS
    <3>1. Followed(d) /\ d.key \in Keys
      BY <1>2 DEF SInv, AllFollowed, Call
    <3>2. \/ entries'[d.key] = entries[d.key]
          \/ entries'[d.key].lapsed
          \/ \E q \in calls' : q.action = "punish" /\ q.key = d.key /\ q.gen > generation
      BY <1>2, <2>1, <2>3, <2>7, <3>1
    <3> QED BY <1>1, <1>2, <2>5, <3>1, <3>2, FollowedStep
  <2> QED BY <2>1, <2>3, <2>4, <2>6, <2>8 DEF SInv, AllFollowed
<1>4. CASE ~(e.lapsed /\ e.punishes)
  <2>1. e.failed \in Decisions /\ PerformDecision(key, e.failed, TRUE)
    BY <1>2, <1>4 DEF Retry, Entry
  <2> QED BY <1>1, <2>1, DecisionShows
<1> QED BY <1>3, <1>4

LEMMA DecideShows ==
  ASSUME IInv, IInv', SInv, NEW key \in Reviewed, NEW action \in Decisions, Decide(key, action)
  PROVE  SInv'
<1>1. key \in Keys
  BY BoundsAssumption
<1>2. PerformDecision(key, action, FALSE) /\ key \in Known
      /\ UNCHANGED <<order, dropped, world, twitch, notes, seen>>
  BY DEF Decide
<1> QED BY <1>1, <1>2, DecisionShows

\* Entries that show what became of their messages do so when one is dropped.
LEMMA KeepShows ==
  ASSUME IInv, IInv', SInv, NEW table \in [Keys -> Entry], NEW keys \in Seq(Keys),
         Keep(table, keys), UNCHANGED <<calls, twitch, notes>>,
         \A k \in Known : \E i \in 1 .. Len(keys) : keys[i] = k,
         \A k \in Keys :
           /\ CompoundStarted(table[k]) => table[k].state = "Denied" /\ twitch[k] = "denied"
           /\ (\E i \in 1 .. Len(keys) : keys[i] = k) /\ Told(k)'
                => table[k].state = ShownFor(twitch[k]),
         \A d \in calls : d.action = "denyPunish" =>
           \/ table[d.key] = entries[d.key]
           \/ table[d.key].lapsed
           \/ Hopeless(d)
           \/ \E p \in Punishments : p.key = d.key /\ p.gen > d.gen
           \/ d.key \in dropped
           \/ ~entries[d.key].lapsed /\ ~Waits(d)
  PROVE  SInv'
<1>1. /\ order' = Pruned(table, keys)
      /\ entries' = [k \in Keys |-> IF k \in Known' THEN table[k] ELSE NewEntry]
      /\ dropped' = dropped \cup {k \in Keys : k \in {keys[i] : i \in 1 .. Len(keys)}
                                               /\ k \notin Known'}
  BY DEF Keep, Known
<1>2. \A k \in Keys : k \in Known' => \E i \in 1 .. Len(keys) : keys[i] = k
  BY <1>1, BoundsAssumption, PrunedType DEF Known
<1>3. EntriesShow'
  <2> SUFFICES ASSUME NEW k \in Keys PROVE EntryShows(k, entries[k], k \in Known)'
    BY DEF EntriesShow
  <2>1. CASE k \in Known'
    BY <1>1, <1>2, <2>1 DEF EntryShows, CompoundStarted
  <2>2. CASE k \notin Known'
    <3>1. entries'[k] = NewEntry
      BY <1>1, <2>2
    <3> QED BY <2>2, <3>1 DEF EntryShows, CompoundStarted, NewEntry
  <2> QED BY <2>1, <2>2
<1>4. \A d \in calls : Same(d, d)
  BY DEF Same
<1>5. NotesTell' /\ AnswersTell'
  BY <1>4, NotesStay DEF SInv
<1>6. AllFollowed'
  <2> SUFFICES ASSUME NEW d \in calls, d.action = "denyPunish" PROVE Followed(d)'
    BY DEF AllFollowed
  <2>1. Followed(d) /\ d.key \in Keys /\ calls' \subseteq Call
    BY DEF SInv, AllFollowed, IInv, TypeOK, Call
  <2>2. dropped \subseteq dropped'
    BY <1>1
  <2>3. \/ d.key \in dropped'
        \/ entries'[d.key] = entries[d.key]
        \/ entries'[d.key] = table[d.key]
    <3>1. CASE d.key \in Known'
      BY <1>1, <2>1, <3>1
    <3>2. CASE d.key \notin Known' /\ d.key \in {keys[i] : i \in 1 .. Len(keys)}
      BY <1>1, <2>1, <3>2
    <3>3. CASE d.key \notin Known' /\ d.key \notin {keys[i] : i \in 1 .. Len(keys)}
      <4>1. d.key \notin Known
        BY <3>3
      <4>2. entries[d.key] = NewEntry
        BY <2>1, <4>1 DEF IInv, UnknownIsNew
      <4> QED BY <1>1, <2>1, <3>3, <4>2
    <3> QED BY <3>1, <3>2, <3>3
  <2>4. \/ d.key \in dropped'
        \/ entries'[d.key] = entries[d.key]
        \/ entries'[d.key].lapsed
        \/ Hopeless(d)
        \/ \E p \in Punishments : p.key = d.key /\ p.gen > d.gen
        \/ ~entries[d.key].lapsed /\ ~Waits(d)
    BY <2>2, <2>3
  <2> QED BY <1>4, <2>1, <2>2, <2>4, FollowedStep
<1> QED BY <1>3, <1>5, <1>6 DEF SInv

\* The keys to keep are those of the entries and the one that is told about.
LEMMA KeysOfUpdate ==
  ASSUME order \in Seq(Keys), NEW key \in Keys
  PROVE  LET keys == IF key \in Known THEN order ELSE Append(order, key)
         IN  /\ keys \in Seq(Keys)
             /\ \A k \in Known : \E i \in 1 .. Len(keys) : keys[i] = k
             /\ \A i \in 1 .. Len(keys) : keys[i] \in Known \/ keys[i] = key
<1> DEFINE keys == IF key \in Known THEN order ELSE Append(order, key)
<1>1. CASE key \in Known
  BY <1>1 DEF Known
<1>2. CASE key \notin Known
  <2>1. /\ keys \in Seq(Keys) /\ Len(keys) = Len(order) + 1 /\ keys[Len(order) + 1] = key
        /\ \A i \in 1 .. Len(order) : keys[i] = order[i]
    BY <1>2
  <2>2. Len(order) \in Nat
    OBVIOUS
  <2> HIDE DEF keys
  <2>3. /\ \A k \in Known : \E i \in 1 .. Len(keys) : keys[i] = k
        /\ \A i \in 1 .. Len(keys) : keys[i] \in Known \/ keys[i] = key
    BY <2>1, <2>2 DEF Known
  <2> QED BY <2>1, <2>3 DEF keys
<1> QED BY <1>1, <1>2

LEMMA HoldShows ==
  ASSUME IInv, IInv', SInv, NEW note \in notes, IngestHold(note)
  PROVE  SInv'
<1> DEFINE keys == IF note.key \in Known THEN order ELSE Append(order, note.key)
<1>1. note.key \in Keys /\ order \in Seq(Keys) /\ entries \in [Keys -> Entry]
  BY DEF IInv, TypeOK, Note
<1>2. /\ Keep(entries, keys) /\ seen' = seen \cup {note} /\ note.status = "hold"
      /\ UNCHANGED <<calls, twitch, notes>> /\ ~Told(note.key)
  BY DEF IngestHold, RememberNotification, Told
<1>3. /\ keys \in Seq(Keys)
      /\ \A k \in Known : \E i \in 1 .. Len(keys) : keys[i] = k
      /\ \A i \in 1 .. Len(keys) : keys[i] \in Known \/ keys[i] = note.key
  BY <1>1, KeysOfUpdate
<1> HIDE DEF keys
<1>4. \A k \in Keys : Told(k)' => Told(k)
  BY <1>2 DEF Told
<1>5. ASSUME NEW k \in Keys
      PROVE  /\ CompoundStarted(entries[k]) => entries[k].state = "Denied" /\ twitch[k] = "denied"
             /\ (\E i \in 1 .. Len(keys) : keys[i] = k) /\ Told(k)'
                  => entries[k].state = ShownFor(twitch[k])
  <2>1. EntryShows(k, entries[k], k \in Known)
    BY DEF SInv, EntriesShow
  <2>2. (\E i \in 1 .. Len(keys) : keys[i] = k) => k \in Known \/ k = note.key
    BY <1>3
  <2> QED BY <1>2, <1>4, <2>1, <2>2 DEF EntryShows
<1> QED BY <1>1, <1>2, <1>3, <1>5, KeepShows

\* An entry that waits for a denial shows it, and no punishment.
LEMMA WaitingShows ==
  ASSUME IInv, SInv, NEW d \in calls, Waits(d), d.action # "punish"
  PROVE  /\ entries[d.key].state \in {"Approving", "Denying"}
         /\ ~CompoundStarted(entries[d.key]) /\ ~entries[d.key].lapsed /\ ~Told(d.key)
<1> DEFINE e == entries[d.key]
<1>1. /\ d.key \in Keys /\ e \in Entry /\ EntryOk(d.key, e, calls, generation) /\ d.gen \in Nat
      /\ EntryShows(d.key, e, d.key \in Known) /\ d.gen = e.gen /\ ~d.done
  BY DEF IInv, TypeOK, Call, SInv, EntriesShow, Waits
<1>2. Running(e) /\ ~e.busy
  BY <1>1 DEF EntryOk
<1>3. e.state \in {"Approving", "Denying"}
  BY <1>2 DEF Running
<1>4. d.key \in Known
  <2>1. e.gen # 0
    BY <1>1 DEF IInv, CallsOk
  <2> QED BY <1>1, <2>1 DEF IInv, UnknownIsNew, NewEntry
<1>5. Told(d.key) => twitch[d.key] \in Statuses
  BY DEF Told, SInv, NotesTell, IInv, TypeOK, Note, Statuses
<1> QED BY <1>1, <1>3, <1>4, <1>5 DEF EntryShows, CompoundStarted, ShownFor, Final, Statuses

\* A denial that worked while its entry waits for it is one that the
\* notification of it confirms.
LEMMA WorkedIsConfirmed ==
  ASSUME IInv, SInv, NEW note \in notes, note.status # "hold",
         NEW d \in calls, d.action = "denyPunish", d.key = note.key, Waits(d),
         entries[d.key].pending = "denyPunish", ~Hopeless(d)
  PROVE  note.status = "denied" /\ StartsCompound(entries[d.key], note.moderator)
<1> DEFINE e == entries[d.key]
<1>1. /\ note.key \in Keys /\ note.status \in Statuses /\ twitch[note.key] = note.status
      /\ d.account \in Accounts /\ Nobody \notin Accounts
  BY BoundsAssumption DEF IInv, TypeOK, Note, Statuses, SInv, NotesTell, Call
<1>2. d.answer = "ok"
  BY <1>1 DEF Hopeless
<1> DEFINE n == [key |-> d.key, status |-> "denied", moderator |-> d.account]
<1>3. n \in notes /\ n.key = d.key /\ n.status = "denied" /\ n.moderator = d.account
  BY <1>2 DEF SInv, AnswersTell
<1> HIDE DEF n
<1>4. note = n
  BY <1>3 DEF SInv, NotesTell
<1>5. PICK c \in calls : c.gen = e.gen /\ c.account = e.actor
  <2>1. EntryOk(d.key, e, calls, generation)
    BY <1>1 DEF IInv
  <2> QED BY <2>1 DEF EntryOk
<1>6. c = d
  BY <1>5 DEF Waits, IInv, CallsOk
<1>7. ~CompoundStarted(e)
  BY WaitingShows
<1> QED BY <1>1, <1>3, <1>4, <1>5, <1>6, <1>7 DEF StartsCompound, ConfirmsOurDecision

LEMMA UpdateShows ==
  ASSUME IInv, IInv', SInv, NEW note \in notes, IngestUpdate(note)
  PROVE  SInv'
<1> DEFINE key == note.key
           old == entries[key]
           keys == IF key \in Known THEN order ELSE Append(order, key)
           starts == note.status = "denied" /\ StartsCompound(old, note.moderator)
           plain == IF note.status = "denied" THEN UpdateDenied(old)
                    ELSE UpdateResolved(old, note.status)
           confirmed == [Cleared(old) EXCEPT !.state = "Denied", !.punishes = TRUE,
                                             !.gen = generation + 1]
           o == PerformSecondary(key, confirmed, generation + 1, old.actor, old.gen)
<1>1. /\ key \in Keys /\ note.status \in Statuses /\ note.status # "hold"
      /\ seen' = seen \cup {note} /\ UNCHANGED <<world, twitch, notes>>
      /\ twitch[key] = note.status
  BY DEF IngestUpdate, RememberNotification, IInv, TypeOK, Note, SInv, NotesTell, Statuses
<1>2. /\ old \in Entry /\ generation \in Nat /\ calls \in SUBSET Call /\ calls' \in SUBSET Call
      /\ entries \in [Keys -> Entry] /\ order \in Seq(Keys)
      /\ EntryShows(key, old, key \in Known)
  BY <1>1 DEF IInv, TypeOK, SInv, EntriesShow
<1>3. \A k \in Keys \ {key} : Told(k)' => Told(k)
  BY <1>1 DEF Told
<1>4. CASE starts
  <2>1. /\ Take(key, o) /\ UNCHANGED <<order, dropped>>
    BY <1>4 DEF IngestUpdate
  <2>2. confirmed \in Entry /\ confirmed.state = "Denied"
    <3>1. \A h \in Nat : /\ [Cleared(old) EXCEPT !.state = "Denied", !.punishes = TRUE, !.gen = h]
                              \in Entry
                         /\ [Cleared(old) EXCEPT !.state = "Denied", !.punishes = TRUE,
                                                 !.gen = h].state = "Denied"
      BY <1>2 DEF Cleared, Entry, Resolved
    <3>2. generation + 1 \in Nat
      BY <1>2
    <3> HIDE DEF old
    <3> QED BY <3>1, <3>2
  <2> HIDE DEF confirmed
  <2>3. /\ o.entry.state = "Denied"
        /\ \A c \in o.made : c.action = "punish" /\ c.key = key /\ c.gen = generation + 2
        /\ o.entry.lapsed \/ \E c \in o.made : TRUE
    <3>1. generation + 1 \in Nat /\ (generation + 1) + 1 = generation + 2
      BY <1>2
    <3> HIDE DEF key, old
    <3>2. /\ o.entry.state = "Denied"
          /\ \A c \in o.made : c.action = "punish" /\ c.key = key /\ c.gen = (generation + 1) + 1
          /\ o.entry.lapsed \/ \E c \in o.made : TRUE
      BY <2>2, <3>1, SecondaryShows
    <3> QED BY <3>1, <3>2
  <2> HIDE DEF o
  <2>4. /\ entries' = [entries EXCEPT ![key] = o.entry] /\ calls' = calls \cup o.made
    BY <2>1 DEF Take
  <2>5. EntriesShow'
    BY <1>1, <1>3, <1>4, <2>1, <2>3, <2>4, OneEntryShows DEF ShownFor
  <2>6. \A d \in calls : Same(d, d) /\ d \in calls'
    BY <2>4 DEF Same
  <2>7. NotesTell' /\ AnswersTell'
    BY <1>1, <2>3, <2>4, <2>6, NotesStay DEF SInv
  <2>8. /\ \A k \in Keys \ {key} : entries'[k] = entries[k]
        /\ entries'[key] = o.entry
    BY <1>1, <1>2, <2>4
  <2>9. \A d \in calls : d.action = "denyPunish" => Followed(d)'
    <3> SUFFICES ASSUME NEW d \in calls, d.action = "denyPunish" PROVE Followed(d)'
      OBVIOUS
    <3>1. Followed(d) /\ d.key \in Keys
      BY <1>2 DEF SInv, AllFollowed, Call
    <3>2. \/ entries'[d.key] = entries[d.key]
          \/ entries'[d.key].lapsed
          \/ \E q \in calls' : q.action = "punish" /\ q.key = d.key /\ q.gen > generation
      BY <1>2, <2>3, <2>4, <2>8, <3>1
    <3> QED BY <1>1, <1>2, <2>1, <2>6, <3>1, <3>2, FollowedStep
  <2> QED BY <2>3, <2>4, <2>5, <2>7, <2>9 DEF SInv, AllFollowed
<1>5. CASE ~starts
  <2> DEFINE table == [entries EXCEPT ![key] = plain]
  <2>1. Keep(table, keys) /\ UNCHANGED calls
    BY <1>5 DEF IngestUpdate
  <2>2. /\ keys \in Seq(Keys)
        /\ \A k \in Known : \E i \in 1 .. Len(keys) : keys[i] = k
        /\ \A i \in 1 .. Len(keys) : keys[i] \in Known \/ keys[i] = key
    BY <1>1, <1>2, KeysOfUpdate
  <2>3. plain \in Entry
    BY <1>1, <1>2, BoundsAssumption, PlainUpdate DEF IInv
  <2>4. /\ plain.state = ShownFor(note.status)
        /\ CompoundStarted(plain) => note.status = "denied"
        /\ old.lapsed => plain.lapsed
    <3>1. CASE note.status # "denied"
      <4>1. ~CompoundStarted(old)
        BY <1>1, <1>2, <3>1 DEF EntryShows
      <4>2. plain = UpdateResolved(old, note.status)
        BY <3>1
      <4>3. Final(note.status) \in Resolved
        BY DEF Final, Resolved
      <4>4. /\ plain.state = Final(note.status) /\ ~plain.busy /\ ~plain.lapsed /\ ~plain.punishes
        BY <1>2, <4>2, <4>3 DEF UpdateResolved, Cleared, Entry
      <4> QED BY <3>1, <4>1, <4>4 DEF CompoundStarted, ShownFor
    <3>2. CASE note.status = "denied"
      <4>1. plain = UpdateDenied(old)
        BY <3>2
      <4>2. plain.state = "Denied"
        BY <1>2, <4>1 DEF UpdateDenied, Cleared, Entry
      <4>3. old.lapsed => plain.lapsed
        BY <1>2, <4>1 DEF UpdateDenied, Cleared, Entry, CompoundStarted
      <4> QED BY <3>2, <4>2, <4>3 DEF ShownFor
    <3> QED BY <3>1, <3>2
  <2> HIDE DEF plain, keys
  <2>5. /\ table \in [Keys -> Entry] /\ table[key] = plain
        /\ \A k \in Keys \ {key} : table[k] = entries[k]
    BY <1>1, <1>2, <2>3
  <2> HIDE DEF table
  <2>6. ASSUME NEW k \in Keys
        PROVE  /\ CompoundStarted(table[k]) => table[k].state = "Denied" /\ twitch[k] = "denied"
               /\ (\E i \in 1 .. Len(keys) : keys[i] = k) /\ Told(k)'
                    => table[k].state = ShownFor(twitch[k])
    <3>1. CASE k = key
      BY <1>1, <2>4, <2>5, <3>1 DEF ShownFor
    <3>2. CASE k # key
      <4>1. EntryShows(k, entries[k], k \in Known)
        BY DEF SInv, EntriesShow
      <4>2. (\E i \in 1 .. Len(keys) : keys[i] = k) => k \in Known
        BY <2>2, <3>2
      <4> QED BY <1>3, <2>5, <3>2, <4>1, <4>2 DEF EntryShows
    <3> QED BY <3>1, <3>2
  <2>7. ASSUME NEW d \in calls, d.action = "denyPunish"
        PROVE  \/ table[d.key] = entries[d.key]
               \/ table[d.key].lapsed
               \/ Hopeless(d)
               \/ \E p \in Punishments : p.key = d.key /\ p.gen > d.gen
               \/ d.key \in dropped
               \/ ~entries[d.key].lapsed /\ ~Waits(d)
    <3>1. d.key \in Keys /\ Followed(d)
      BY <1>2, <2>7 DEF SInv, AllFollowed, Call
    <3>2. CASE d.key # key
      BY <2>5, <3>1, <3>2
    <3>3. CASE d.key = key
      <4>1. old.lapsed => table[d.key].lapsed
        BY <2>4, <2>5, <3>3
      <4>2. ASSUME Waits(d), entries[d.key].pending = "denyPunish", ~Hopeless(d) PROVE FALSE
        BY <1>1, <1>5, <2>7, <3>3, <4>2, WorkedIsConfirmed
      <4> QED BY <3>1, <3>3, <4>1, <4>2 DEF Followed
    <3> QED BY <3>2, <3>3
  <2> QED BY <1>1, <2>1, <2>2, <2>5, <2>6, <2>7, KeepShows
<1> QED BY <1>4, <1>5

\* An entry does not wait for an answer that is not taken.
LEMMA StaleIsNotWaited ==
  ASSUME IInv, NEW call \in calls, ~IsCurrent(call)
  PROVE  ~Waits(call)
<1>1. call.key \in Keys /\ call.gen \in Nat /\ 1 <= call.gen
  BY DEF IInv, TypeOK, Call, CallsOk
<1>2. CASE call.key \in Known
  BY <1>2 DEF IsCurrent, Waits
<1>3. CASE call.key \notin Known
  <2>1. entries[call.key] = NewEntry
    BY <1>1, <1>3 DEF IInv, UnknownIsNew
  <2>2. NewEntry.gen = 0
    BY DEF NewEntry
  <2> QED BY <1>1, <2>1, <2>2 DEF Waits
<1> QED BY <1>2, <1>3

\* What an answer leaves of the calls, and of the denials that were followed.
LEMMA AnswerFollowed ==
  ASSUME IInv, IInv', SInv, NEW call \in calls, ~call.done, call.answer # "",
         NEW made, \A c \in made : c.action = "punish",
         calls' = (calls \ {call}) \cup {Done(call)} \cup made,
         UNCHANGED <<order, dropped, twitch, notes, seen>>,
         \A k \in Keys : entries'[k] # entries[k] => k = call.key /\ IsCurrent(call),
         \/ ~IsCurrent(call)
         \/ call.action = "denyPunish" /\ call.answer = "ok" =>
              \/ entries'[call.key].lapsed
              \/ \E q \in calls' : q.action = "punish" /\ q.key = call.key /\ q.gen > generation
  PROVE  NotesTell' /\ AnswersTell' /\ AllFollowed'
<1>1. /\ calls \in SUBSET Call /\ calls' \in SUBSET Call /\ generation \in Nat
      /\ CallsOk(calls, generation)
      /\ \A k \in Keys : entries[k] \in Entry /\ EntryOk(k, entries[k], calls, generation)
  BY DEF IInv, TypeOK
<1>2. Same(call, Done(call)) /\ Done(call).answer = call.answer
  BY <1>1 DEF Done, Same, Call
<1>3. \A d \in calls : Same(d, d)
  BY DEF Same
<1>4. \A c \in calls' : \/ c.action = "punish"
                        \/ \E d \in calls : /\ Same(d, c) /\ d.answer = c.answer
                                            /\ d = c \/ (d = call /\ c = Done(call))
  BY <1>2, <1>3
<1>5. NotesTell' /\ AnswersTell'
  <2>1. \A c \in calls' : c.action = "denyPunish" /\ c.answer = "ok" =>
           \E d \in calls : Same(d, c) /\ d.answer = "ok"
    BY <1>4
  <2> QED BY <2>1, NotesStay DEF SInv
<1>6. \A p \in calls : \E q \in calls' : Same(p, q)
  BY <1>2, <1>3
<1>7. ASSUME NEW c \in calls', c.action = "denyPunish"
      PROVE  Followed(c)'
  <2>1. PICK d \in calls : /\ Same(d, c) /\ d.answer = c.answer
                           /\ d = c \/ (d = call /\ c = Done(call))
    BY <1>4, <1>7
  <2>2. Followed(d) /\ d.action = "denyPunish" /\ d.key \in Keys
    BY <1>1, <1>7, <2>1 DEF SInv, AllFollowed, Same, Call
  <2>3. \/ entries'[d.key] = entries[d.key] /\ c.done = d.done
        \/ entries'[d.key].lapsed
        \/ \E q \in calls' : q.action = "punish" /\ q.key = d.key /\ q.gen > generation
        \/ Hopeless(d)
        \/ ~entries[d.key].lapsed /\ ~Waits(d)
    <3>1. CASE d = call /\ IsCurrent(call)
      BY <2>2, <3>1 DEF Hopeless
    <3>2. CASE d = call /\ ~IsCurrent(call)
      <4>1. entries'[d.key] = entries[d.key]
        BY <2>2, <3>2
      <4>2. ~Waits(call)
        BY <3>2, StaleIsNotWaited
      <4> QED BY <3>2, <4>1, <4>2
    <3>3. CASE d # call /\ entries'[d.key] = entries[d.key]
      BY <2>1, <3>3
    <3>4. CASE d # call /\ entries'[d.key] # entries[d.key]
      <4>1. d.key = call.key /\ IsCurrent(call)
        BY <2>2, <3>4
      <4>2. entries[d.key].gen = call.gen
        BY <4>1 DEF IsCurrent
      <4>3. d.gen # call.gen
        BY <1>1, <3>4 DEF CallsOk
      <4>4. Running(entries[d.key])
        <5>1. EntryOk(d.key, entries[d.key], calls, generation)
          BY <1>1, <2>2
        <5> QED BY <4>1, <4>2, <5>1 DEF EntryOk
      <4>5. ~entries[d.key].lapsed
        BY <1>1, <2>2, <4>4 DEF EntryOk, Running
      <4> QED BY <4>2, <4>3, <4>5 DEF Waits
    <3> QED BY <3>1, <3>2, <3>3, <3>4
  <2> QED BY <1>1, <1>6, <2>1, <2>2, <2>3, FollowedStep
<1> QED BY <1>5, <1>7 DEF AllFollowed

\* An answer that ends the action of its entry.
LEMMA SettleShows ==
  ASSUME IInv, IInv', SInv, NEW call \in calls, ~call.done, call.answer # "",
         NEW f, Settle(call, f), UNCHANGED <<order, dropped, twitch, notes, seen>>,
         ~(call.action = "denyPunish" /\ call.answer = "ok"),
         CompoundStarted(f) => f.state = "Denied" /\ twitch[call.key] = "denied",
         Told(call.key) => f.state = ShownFor(twitch[call.key])
  PROVE  SInv'
<1>1. /\ IsCurrent(call) /\ call.key \in Keys
      /\ entries' = [entries EXCEPT ![call.key] = f]
      /\ calls' = (calls \ {call}) \cup {Done(call)} \cup {}
  BY DEF Settle, IInv, TypeOK, Call
<1>2. \A k \in Keys : entries'[k] # entries[k] => k = call.key
  BY <1>1 DEF IInv, TypeOK
<1>3. NotesTell' /\ AnswersTell' /\ AllFollowed'
  <2>1. PICK made : made = {}
    OBVIOUS
  <2>2. calls' = (calls \ {call}) \cup {Done(call)} \cup made
    BY <1>1, <2>1
  <2>3. /\ \A c \in made : c.action = "punish"
        /\ \A k \in Keys : entries'[k] # entries[k] => k = call.key /\ IsCurrent(call)
    BY <1>1, <1>2, <2>1
  <2> QED BY <2>2, <2>3, AnswerFollowed
<1>4. \A k \in Keys : Told(k)' = Told(k)
  BY DEF Told
<1>5. EntriesShow'
  BY <1>1, <1>4, OneEntryShows
<1> QED BY <1>3, <1>5 DEF SInv

\* An answer that is not taken.
LEMMA IgnoredShows ==
  ASSUME IInv, IInv', SInv, NEW call \in calls, ~call.done, call.answer # "", Ignored(call),
         UNCHANGED <<order, dropped, twitch, notes, seen>>
  PROVE  SInv'
<1>1. /\ calls' = (calls \ {call}) \cup {Done(call)} \cup {} /\ entries' = entries
      /\ ~IsCurrent(call)
  BY DEF Ignored
<1>2. NotesTell' /\ AnswersTell' /\ AllFollowed'
  <2>1. PICK made : made = {}
    OBVIOUS
  <2>2. calls' = (calls \ {call}) \cup {Done(call)} \cup made
    BY <1>1, <2>1
  <2>3. /\ \A c \in made : c.action = "punish"
        /\ \A k \in Keys : entries'[k] # entries[k] => k = call.key /\ IsCurrent(call)
    BY <1>1, <2>1
  <2> QED BY <1>1, <2>2, <2>3, AnswerFollowed
<1>3. EntriesShow'
  BY <1>1 DEF SInv, EntriesShow, EntryShows, CompoundStarted, Told, Known
<1> QED BY <1>2, <1>3 DEF SInv

LEMMA SucceedsShows ==
  ASSUME IInv, IInv', SInv, NEW call \in calls, ~call.done, call.answer # "",
         DecisionSucceeds(call), UNCHANGED <<order, dropped, world, twitch, notes, seen>>
  PROVE  SInv'
<1> DEFINE old == entries[call.key]
           entry == Cleared(old)
           denied == [entry EXCEPT !.state = "Denied"]
           o == PerformSecondary(call.key, denied, generation, call.account, call.gen)
<1>1. /\ IsCurrent(call) /\ call.action # "punish" /\ call.answer = "ok"
      /\ call.key \in Keys /\ old \in Entry /\ generation \in Nat
      /\ UNCHANGED <<order, dropped, twitch, notes, seen>>
  BY DEF DecisionSucceeds, Settle, IInv, TypeOK, Call
<1>2. ~CompoundStarted(old) /\ ~Told(call.key)
  <2>1. Waits(call)
    BY <1>1 DEF Waits, IsCurrent
  <2> QED BY <1>1, <2>1, WaitingShows
<1>3. CASE call.action = "approve"
  <2> DEFINE f == [entry EXCEPT !.actor = Nobody, !.state = "Approved"]
  <2>1. Settle(call, f)
    BY <1>3 DEF DecisionSucceeds
  <2>2. f.busy = old.busy /\ f.lapsed = old.lapsed /\ f.punishes = old.punishes
    BY <1>1 DEF Cleared, Entry
  <2> HIDE DEF f
  <2>3. ~CompoundStarted(f)
    BY <1>2, <2>2 DEF CompoundStarted
  <2> QED BY <1>1, <1>2, <1>3, <2>1, <2>3, SettleShows
<1>4. CASE call.action = "deny"
  <2> DEFINE f == [denied EXCEPT !.actor = Nobody]
  <2>1. Settle(call, f)
    BY <1>4 DEF DecisionSucceeds
  <2>2. f.busy = old.busy /\ f.lapsed = old.lapsed /\ f.punishes = old.punishes
    BY <1>1 DEF Cleared, Entry
  <2> HIDE DEF f
  <2>3. ~CompoundStarted(f)
    BY <1>2, <2>2 DEF CompoundStarted
  <2> QED BY <1>1, <1>2, <1>4, <2>1, <2>3, SettleShows
<1>5. CASE call.action = "denyPunish"
  <2>1. denied \in Entry /\ denied.state = "Denied"
    BY <1>1 DEF Cleared, Entry, Resolved
  <2> HIDE DEF denied
  <2>2. PICK p : /\ p = o /\ entries' = [entries EXCEPT ![call.key] = p.entry]
                 /\ calls' = (calls \ {call}) \cup {Done(call)} \cup p.made
    BY <1>5 DEF DecisionSucceeds, denied
  <2>3. /\ p.entry.state = "Denied"
        /\ \A c \in p.made : c.action = "punish" /\ c.key = call.key /\ c.gen = generation + 1
        /\ p.entry.lapsed \/ \E c \in p.made : TRUE
    <3>1. p = PerformSecondary(call.key, denied, generation, call.account, call.gen)
      BY <2>2
    <3> QED BY <1>1, <2>1, <3>1, SecondaryShows
  <2>4. twitch[call.key] = "denied"
    BY <1>1, <1>5 DEF SInv, AnswersTell, NotesTell
  <2>5. /\ \A k \in Keys : entries'[k] # entries[k] => k = call.key
        /\ entries'[call.key] = p.entry
    BY <1>1, <2>2 DEF IInv, TypeOK
  <2>6. \/ entries'[call.key].lapsed
        \/ \E q \in calls' : q.action = "punish" /\ q.key = call.key /\ q.gen > generation
    BY <1>1, <2>2, <2>3, <2>5
  <2>7. NotesTell' /\ AnswersTell' /\ AllFollowed'
    <3>1. \A c \in p.made : c.action = "punish"
      BY <2>3
    <3> QED BY <1>1, <2>2, <2>5, <2>6, <3>1, AnswerFollowed
  <2>8. \A k \in Keys : Told(k)' = Told(k)
    BY <1>1 DEF Told
  <2>9. EntriesShow'
    BY <1>1, <1>2, <2>2, <2>3, <2>4, <2>8, OneEntryShows
  <2> QED BY <2>7, <2>9 DEF SInv
<1> QED BY <1>3, <1>4, <1>5 DEF DecisionSucceeds

LEMMA FailureShows ==
  ASSUME IInv, IInv', SInv, NEW call \in calls, ~call.done, call.answer # "",
         HandleDecisionFailure(call), UNCHANGED <<order, dropped, world, twitch, notes, seen>>
  PROVE  SInv'
<1> DEFINE old == entries[call.key]
<1>1. PICK f : /\ Settle(call, f) /\ f.busy = old.busy /\ f.lapsed = old.lapsed
               /\ f.punishes = old.punishes
  <2>1. call.key \in Keys /\ old \in Entry
    BY DEF IInv, TypeOK, Call
  <2>2. PICK x, y : Settle(call, [old EXCEPT !.pending = "none", !.actor = Nobody,
                                             !.failed = x, !.state = y])
    BY DEF HandleDecisionFailure
  <2> DEFINE f == [old EXCEPT !.pending = "none", !.actor = Nobody, !.failed = x, !.state = y]
  <2>3. f.busy = old.busy /\ f.lapsed = old.lapsed /\ f.punishes = old.punishes
    BY <2>1 DEF Entry
  <2> HIDE DEF f
  <2> QED BY <2>2, <2>3 DEF f
<1>2. /\ IsCurrent(call) /\ call.action # "punish" /\ call.answer # "ok"
      /\ UNCHANGED <<order, dropped, twitch, notes, seen>>
  BY DEF HandleDecisionFailure, Settle
<1>3. ~CompoundStarted(old) /\ ~Told(call.key)
  <2>1. Waits(call)
    BY <1>2 DEF Waits, IsCurrent
  <2> QED BY <1>2, <2>1, WaitingShows
<1>4. ~CompoundStarted(f)
  BY <1>1, <1>3 DEF CompoundStarted
<1> QED BY <1>1, <1>2, <1>3, <1>4, SettleShows

LEMMA PunishmentShows ==
  ASSUME IInv, IInv', SInv, NEW call \in calls, ~call.done, call.answer # "",
         SecondaryAnswered(call), UNCHANGED <<order, dropped, world, twitch, notes, seen>>
  PROVE  SInv'
<1> DEFINE old == entries[call.key]
<1>1. /\ IsCurrent(call) /\ call.action = "punish" /\ call.key \in Keys /\ old \in Entry
      /\ EntryOk(call.key, old, calls, generation) /\ EntryShows(call.key, old, TRUE)
      /\ UNCHANGED <<order, dropped, twitch, notes, seen>>
  BY DEF SecondaryAnswered, Settle, IInv, TypeOK, Call, IsCurrent, SInv, EntriesShow
<1>2. old.gen = call.gen
  BY <1>1 DEF IsCurrent
<1>3. Running(old) /\ old.busy
  <2>1. Running(old)
    BY <1>1, <1>2 DEF EntryOk
  <2>2. old.state \notin {"Approving", "Denying"}
    BY <1>1, <1>2 DEF EntryOk
  <2> QED BY <2>1, <2>2 DEF Running
<1>4. twitch[call.key] = "denied"
  BY <1>1, <1>3 DEF EntryShows, CompoundStarted
<1>5. PICK f : Settle(call, f) /\ f.state = "Denied"
  <2> DEFINE f == [old EXCEPT !.state = "Denied", !.pending = "none", !.busy = FALSE,
                              !.punishes = TRUE, !.actor = Nobody,
                              !.lapsed = call.answer \notin {"ok", "banned"}]
  <2>1. Settle(call, f)
    BY DEF SecondaryAnswered
  <2>2. f.state = "Denied"
    BY <1>1 DEF Entry
  <2> HIDE DEF f
  <2> QED BY <2>1, <2>2
<1> QED BY <1>1, <1>4, <1>5, SettleShows DEF ShownFor

LEMMA AnswerShows ==
  ASSUME IInv, IInv', SInv, NEW call \in calls, Answer(call)
  PROVE  SInv'
<1>1. ~call.done /\ call.answer # "" /\ UNCHANGED <<order, dropped, world, twitch, notes, seen>>
  BY DEF Answer
<1>2. CASE Ignored(call)
  BY <1>1, <1>2, IgnoredShows
<1>3. CASE DecisionSucceeds(call)
  BY <1>1, <1>3, SucceedsShows
<1>4. CASE HandleDecisionFailure(call)
  BY <1>1, <1>4, FailureShows
<1>5. CASE SecondaryAnswered(call)
  BY <1>1, <1>5, PunishmentShows
<1> QED BY <1>2, <1>3, <1>4, <1>5 DEF Answer

\* What is told and what is shown agree after every step.
THEOREM ShownAndTold == Spec => []SInv
<1>1. Init => SInv
  <2> SUFFICES ASSUME Init PROVE SInv
    OBVIOUS
  <2>1. NotesTell /\ AnswersTell
    BY DEF Init, NotesTell, AnswersTell, Statuses
  <2>2. EntriesShow
    BY DEF Init, EntriesShow, EntryShows, Told, CompoundStarted, NewEntry
  <2>3. AllFollowed
    BY DEF Init, AllFollowed
  <2> QED BY <2>1, <2>2, <2>3 DEF SInv
<1>2. IInv /\ IInv' /\ SInv /\ [Next]_vars => SInv'
  <2> SUFFICES ASSUME IInv, IInv', SInv, [Next]_vars PROVE SInv'
    OBVIOUS
  <2>1. CASE SwitchAccount \/ ChangeRights \/ UNCHANGED vars
    BY <2>1, WorldShows
  <2>2. ASSUME NEW key \in Keys, HoldMessage(key) \/ ResolveElsewhere(key) PROVE SInv'
    BY <2>2, TwitchShows
  <2>3. ASSUME NEW key \in Reviewed, Retry(key) PROVE SInv'
    BY <2>3, RetryShows
  <2>4. ASSUME NEW key \in Reviewed, NEW action \in Decisions, Decide(key, action) PROVE SInv'
    BY <2>4, DecideShows
  <2>5. ASSUME NEW note \in notes, IngestHold(note) PROVE SInv'
    BY <2>5, HoldShows
  <2>6. ASSUME NEW note \in notes, IngestUpdate(note) PROVE SInv'
    BY <2>6, UpdateShows
  <2>7. ASSUME NEW call \in calls, HandleCall(call) PROVE SInv'
    BY <2>7, HandleShows
  <2>8. ASSUME NEW call \in calls, Answer(call) PROVE SInv'
    BY <2>8, AnswerShows
  <2> QED BY <2>1, <2>2, <2>3, <2>4, <2>5, <2>6, <2>7, <2>8 DEF Next
<1> QED BY <1>1, <1>2, InvariantHolds, PTL DEF Spec

\* An entry whose message was resolved, with nothing on its way, shows what
\* became of it: neither a late answer nor a late notification overwrites what
\* is known (ingestUpdate, actionGeneration).
THEOREM SettledRight == Spec => []SettledIsRight
<1>1. IInv /\ SInv => SettledIsRight
  <2> SUFFICES ASSUME IInv, SInv, NEW key \in Known, twitch[key] \in Statuses,
                      \A n \in notes : n.key = key => n \in seen \/ n.status = "hold"
               PROVE  entries[key].state = (IF twitch[key] = "denied" THEN "Denied"
                                            ELSE Final(twitch[key]))
    BY DEF SettledIsRight
  <2>1. key \in Keys
    BY DEF IInv, TypeOK, Known
  <2>2. Told(key)
    BY <2>1 DEF SInv, NotesTell, Told
  <2> QED BY <2>1, <2>2 DEF SInv, EntriesShow, EntryShows, ShownFor
<1> QED BY <1>1, InvariantHolds, ShownAndTold, PTL

\* A denial that was to be followed by a timeout or ban, and worked, is
\* followed by one or shown as failed, whichever of its answer and its
\* notification was first (performDecision, ingestUpdate, performSecondary).
THEOREM DenialFollowed == Spec => []PunishmentFollows
<1>1. SInv => PunishmentFollows
  BY DEF SInv, AllFollowed, Followed, Waits, Hopeless, PunishmentFollows
<1> QED BY <1>1, ShownAndTold, PTL
=============================================================================
