--------------------------- MODULE AutoModReview ---------------------------
(***************************************************************************)
(* The review of messages that AutoMod holds                               *)
(* (controllers/automod/AutoModReviewController.cpp).  A decision is a     *)
(* call of the Twitch API; denying with a punishment is two, the second    *)
(* made when the first is known to have worked: from its answer or from    *)
(* the notification that every moderator gets, whichever comes first.      *)
(* Answers are told apart by a generation, the current account may change  *)
(* at any time, and old entries are dropped.                               *)
(*                                                                         *)
(* A timeout and a ban differ only in what is sent, and are both "punish". *)
(* The messages shown in channels (publish) are left out.  All of it runs  *)
(* on the GUI thread.                                                      *)
(***************************************************************************)
EXTENDS Naturals, Sequences, FiniteSets

CONSTANTS
  Keys,           \* held messages
  Accounts,       \* accounts of the user
  Nobody,         \* no account: anonymous, or no id
  Other,          \* another moderator
  Reviewed,       \* bound: the messages the user acts on
  MaxItems,       \* MAX_REVIEW_ITEMS
  MaxGeneration,  \* bound: generations when the user acts
  MaxSwitches     \* bound: changes of the account and of its rights

ASSUME BoundsAssumption ==
  /\ MaxItems \in Nat \ {0} /\ MaxGeneration \in Nat /\ MaxSwitches \in Nat
  /\ Nobody \notin Accounts /\ Reviewed \subseteq Keys

VARIABLES
  order,       \* order_, the keys of entries_
  entries,     \* entries_
  generation,  \* actionGeneration_
  account,     \* the current account
  accountGen,  \* accountGeneration_
  rights,      \* the channel exists and the account moderates it
  calls,       \* the calls of the Twitch API so far
  twitch,      \* what has become of a message at Twitch
  notes,       \* notifications of Twitch
  seen,        \* notificationIDs_
  dropped      \* keys that were dropped once

own == <<order, entries, generation, calls, dropped>>
world == <<account, accountGen, rights>>
vars == <<own, world, twitch, notes, seen>>

Decisions == {"approve", "deny", "denyPunish"}
Resolved == {"Approved", "Denied", "HandledElsewhere", "Expired"}

\* actor is actionAccountID, actorGen actionAccountGeneration; busy, lapsed
\* and punishes are secondaryInProgress, secondaryFailed and whether
\* secondaryAction is set.
Entry ==
  [state : Resolved \cup {"Open", "Approving", "Denying", "Failed", "PermissionLost"},
   pending : Decisions \cup {"none", "punish"}, failed : Decisions \cup {"none"},
   actor : Accounts \cup {Nobody}, actorGen : Nat,
   busy : BOOLEAN, lapsed : BOOLEAN, punishes : BOOLEAN, gen : Nat]

NewEntry ==
  [state |-> "Open", pending |-> "none", failed |-> "none", actor |-> Nobody,
   actorGen |-> 0, busy |-> FALSE, lapsed |-> FALSE, punishes |-> FALSE, gen |-> 0]

\* cause is the generation of the decision a punishment follows, or its own
\* when the user asked for it; answer is "" while Twitch has not handled it.
Call ==
  [key : Keys, gen : Nat, action : Decisions \cup {"punish"}, account : Accounts,
   accountGen : Nat, cause : Nat, done : BOOLEAN,
   answer : {"", "ok", "processed", "notFound", "unauthorized", "unknown", "banned"}]

Statuses == {"approved", "denied", "expired", "other"}
Note == [key : Keys, status : Statuses \cup {"hold"}, moderator : Accounts \cup {Other}]

Known == {order[i] : i \in 1 .. Len(order)}

Init ==
  /\ order = <<>>
  /\ entries = [k \in Keys |-> NewEntry]
  /\ generation = 0
  /\ account \in Accounts
  /\ accountGen = 0
  /\ rights = TRUE
  /\ calls = {}
  /\ twitch = [k \in Keys |-> "unsent"]
  /\ notes = {}
  /\ seen = {}
  /\ dropped = {}

----------------------------------------------------------------------------
(* The account *)

\* updateActionsAllowed()
ActionsAllowed == account # Nobody /\ rights

\* currentUserChanged
SwitchAccount ==
  /\ accountGen < MaxSwitches
  /\ accountGen' = accountGen + 1
  /\ account' \in (Accounts \cup {Nobody}) \ {account}
  /\ rights' \in BOOLEAN
  /\ UNCHANGED <<own, twitch, notes, seen>>

\* userStateChanged of the channel, or the channel is closed.
ChangeRights ==
  /\ rights' = ~rights
  /\ UNCHANGED <<own, account, accountGen, twitch, notes, seen>>

----------------------------------------------------------------------------
(* The second call: outcomes are [entry, generation, calls] *)

\* Mutant: whoever is logged in punishes.
AccountNotAsked(entry, expected) == FALSE

\* expected is the account that denied, or Nobody for a retry.
AccountChanged(entry, expected) ==
  /\ expected # Nobody
  /\ \/ entry.actorGen # accountGen
     \/ account # Nobody /\ account # expected

\* performSecondary() for an entry that has reached generation gen.
PerformSecondary(key, entry, gen, expected, cause) ==
  IF ~ActionsAllowed \/ AccountChanged(entry, expected)
  THEN [entry |-> [entry EXCEPT !.state = "Denied", !.pending = "none", !.busy = FALSE,
                                !.lapsed = TRUE, !.punishes = TRUE, !.actor = Nobody],
        gen |-> gen, made |-> {}]
  ELSE [entry |-> [entry EXCEPT !.busy = TRUE, !.lapsed = FALSE, !.punishes = TRUE,
                                !.pending = "punish", !.gen = gen + 1],
        gen |-> gen + 1,
        made |-> {[key |-> key, gen |-> gen + 1, action |-> "punish", account |-> account,
                   accountGen |-> accountGen, done |-> FALSE, answer |-> "",
                   cause |-> IF expected = Nobody THEN gen + 1 ELSE cause]}]

Take(key, outcome) ==
  /\ entries' = [entries EXCEPT ![key] = outcome.entry]
  /\ generation' = outcome.gen
  /\ calls' = calls \cup outcome.made

----------------------------------------------------------------------------
(* Notifications *)

\* prune(): the oldest resolved entry goes, or else the oldest.
IsResolved(entry) ==   \* reviewGroup()
  ~entry.busy /\ ~entry.lapsed /\ entry.state \in Resolved

ResolvedAt(table, keys) == {i \in 1 .. Len(keys) : IsResolved(table[keys[i]])}

\* Mutant: off by one in the bound.
PrunedLate(table, keys) == IF Len(keys) <= MaxItems + 1 THEN keys ELSE Tail(keys)

Pruned(table, keys) ==
  IF Len(keys) <= MaxItems THEN keys
  ELSE LET old == ResolvedAt(table, keys)
           i == IF old = {} THEN 1 ELSE CHOOSE j \in old : \A h \in old : j <= h
       IN SubSeq(keys, 1, i - 1) \o SubSeq(keys, i + 1, Len(keys))

\* Entries that are not in order_ do not exist and read as new ones.
Keep(table, keys) ==
  /\ order' = Pruned(table, keys)
  /\ entries' = [k \in Keys |->
        IF k \in {order'[i] : i \in 1 .. Len(order')} THEN table[k] ELSE NewEntry]
  /\ dropped' = dropped \cup {k \in Keys : k \in {keys[i] : i \in 1 .. Len(keys)}
                                           /\ k \notin {order'[i] : i \in 1 .. Len(order')}}

\* rememberNotification()
RememberNotification(note) == note \notin seen /\ seen' = seen \cup {note}

\* ingestHold(); a session delivers in order, and one that began later may
\* never deliver the hold.
IngestHold(note) ==
  /\ note.status = "hold" /\ RememberNotification(note)
  /\ \A n \in seen : n.key # note.key
  /\ Keep(entries, IF note.key \in Known THEN order ELSE Append(order, note.key))
  /\ UNCHANGED <<generation, calls, world, twitch, notes>>

Final(status) ==
  CASE status = "approved" -> "Approved"
    [] status = "expired" -> "Expired"
    [] OTHER -> "HandledElsewhere"

Cleared(entry) == [entry EXCEPT !.pending = "none", !.failed = "none"]

\* Mutant: the running action keeps its generation.
UpdateResolvedInPlace(entry, status) ==
  [Cleared(entry) EXCEPT !.state = Final(status), !.busy = FALSE, !.lapsed = FALSE,
      !.punishes = FALSE, !.actor = Nobody]

\* ingestUpdate() for every status but denied.
UpdateResolved(entry, status) ==
  [Cleared(entry) EXCEPT !.state = Final(status), !.busy = FALSE, !.lapsed = FALSE,
      !.punishes = FALSE, !.actor = Nobody, !.gen = generation + 1]

CompoundStarted(entry) == entry.busy \/ entry.lapsed \/ entry.punishes

\* Mutant: every denial ends what is going on.
NoneConfirms(entry, moderator) == FALSE

\* confirmsOurDecision
ConfirmsOurDecision(entry, moderator) ==
  entry.pending = "denyPunish" /\ entry.actor # Nobody /\ moderator = entry.actor

\* Mutant: the generation moves on even while a punishment is on its way.
UpdateDeniedAlways(entry) ==
  LET denied == [Cleared(entry) EXCEPT !.state = "Denied", !.gen = generation + 1]
  IN IF CompoundStarted(entry) THEN denied
     ELSE [denied EXCEPT !.lapsed = FALSE, !.punishes = FALSE, !.actor = Nobody]

\* ingestUpdate() for a denial that confirms nothing of ours.
UpdateDenied(entry) ==
  LET denied == [Cleared(entry) EXCEPT !.state = "Denied"]
  IN IF ~CompoundStarted(entry)
     THEN [denied EXCEPT !.lapsed = FALSE, !.punishes = FALSE, !.actor = Nobody,
                         !.gen = generation + 1]
     ELSE IF entry.busy THEN denied ELSE [denied EXCEPT !.gen = generation + 1]

StartsCompound(entry, moderator) ==
  ConfirmsOurDecision(entry, moderator) /\ ~CompoundStarted(entry)

\* ingestUpdate()
IngestUpdate(note) ==
  /\ note.status # "hold" /\ RememberNotification(note)
  /\ LET key == note.key
         old == entries[key]
         keys == IF key \in Known THEN order ELSE Append(order, key)
         starts == note.status = "denied" /\ StartsCompound(old, note.moderator)
         plain == IF note.status = "denied" THEN UpdateDenied(old)
                  ELSE UpdateResolved(old, note.status)
         confirmed == [Cleared(old) EXCEPT !.state = "Denied", !.punishes = TRUE,
                                           !.gen = generation + 1]
         outcome == PerformSecondary(key, confirmed, generation + 1, old.actor, old.gen)
     IN IF starts
        THEN /\ Take(key, outcome)
             /\ UNCHANGED <<order, dropped>>   \* the key is known: nothing to prune
        ELSE /\ Keep([entries EXCEPT ![key] = plain], keys)
             /\ generation' = (IF plain.gen > generation THEN plain.gen ELSE generation)
             /\ UNCHANGED calls
  /\ UNCHANGED <<world, twitch, notes>>

----------------------------------------------------------------------------
(* What the user does *)

\* performDecision()
PerformDecision(key, action, retrying) ==
  LET entry == entries[key]
      gen == generation + 1
  IN /\ IF retrying THEN entry.state \in {"Failed", "PermissionLost"}
                    ELSE entry.state = "Open"
     /\ Take(key,
          IF ~ActionsAllowed
          THEN [entry |-> [entry EXCEPT !.state = "PermissionLost", !.failed = action],
                gen |-> generation, made |-> {}]
          ELSE [entry |-> [entry EXCEPT
                   !.state = IF action = "approve" THEN "Approving" ELSE "Denying",
                   !.pending = action, !.failed = "none", !.actor = account,
                   !.actorGen = accountGen, !.lapsed = FALSE, !.gen = gen],
                gen |-> gen,
                made |-> {[key |-> key, gen |-> gen, action |-> action,
                           account |-> account, accountGen |-> accountGen,
                           cause |-> gen, done |-> FALSE, answer |-> ""]}])

\* approve(), deny(), denyAndTimeout(), denyAndBan()
Decide(key, action) ==
  /\ key \in Known /\ generation < MaxGeneration
  /\ PerformDecision(key, action, FALSE)
  /\ UNCHANGED <<order, dropped, world, twitch, notes, seen>>

\* retry()
Retry(key) ==
  /\ key \in Known /\ generation < MaxGeneration
  /\ LET entry == entries[key]
     IN \/ /\ entry.lapsed /\ entry.punishes
           /\ Take(key, PerformSecondary(key, entry, generation, Nobody, 0))
        \/ /\ ~(entry.lapsed /\ entry.punishes)
           /\ entry.failed # "none"
           /\ PerformDecision(key, entry.failed, TRUE)
  /\ UNCHANGED <<order, dropped, world, twitch, notes, seen>>

----------------------------------------------------------------------------
(* Answers *)

\* Mutant: an answer is for the entry whatever has happened since.
IsCurrentByKey(call) == call.key \in Known

\* The check every answer begins with.
IsCurrent(call) == call.key \in Known /\ entries[call.key].gen = call.gen

Done(call) == [call EXCEPT !.done = TRUE]

Ignored(call) ==
  /\ ~IsCurrent(call)
  /\ calls' = (calls \ {call}) \cup {Done(call)}
  /\ UNCHANGED <<entries, generation>>

Settle(call, entry) ==
  /\ IsCurrent(call)
  /\ entries' = [entries EXCEPT ![call.key] = entry]
  /\ calls' = (calls \ {call}) \cup {Done(call)}
  /\ UNCHANGED generation

\* The success callback of manageAutoModMessages().
DecisionSucceeds(call) ==
  LET entry == Cleared(entries[call.key])
      denied == [entry EXCEPT !.state = "Denied"]
      outcome == PerformSecondary(call.key, denied, generation, call.account, call.gen)
  IN /\ call.action # "punish" /\ call.answer = "ok"
     /\ \/ /\ call.action = "approve"
           /\ Settle(call, [entry EXCEPT !.actor = Nobody, !.state = "Approved"])
        \/ /\ call.action = "deny"
           /\ Settle(call, [denied EXCEPT !.actor = Nobody])
        \/ /\ call.action = "denyPunish" /\ IsCurrent(call)
           /\ entries' = [entries EXCEPT ![call.key] = outcome.entry]
           /\ generation' = outcome.gen
           /\ calls' = (calls \ {call}) \cup {Done(call)} \cup outcome.made

\* Mutant: what Twitch has handled already is left to the notification.
LeaveDecisionFailure(call) ==
  /\ call.action # "punish" /\ call.answer # "ok"
  /\ Settle(call, [entries[call.key] EXCEPT
        !.pending = "none", !.actor = Nobody,
        !.state = IF call.answer = "processed" THEN @ ELSE "Failed"])

\* handleDecisionFailure()
HandleDecisionFailure(call) ==
  /\ call.action # "punish" /\ call.answer # "ok"
  /\ Settle(call, [entries[call.key] EXCEPT
        !.pending = "none", !.actor = Nobody,
        !.failed = IF call.answer \in {"processed", "notFound"} THEN "none" ELSE call.action,
        !.state = CASE call.answer = "processed" -> "HandledElsewhere"
                    [] call.answer = "notFound" -> "Expired"
                    [] call.answer = "unauthorized" -> "PermissionLost"
                    [] OTHER -> "Failed"])

\* The callbacks of banUser(), handleSecondaryFailure() among them: a user who
\* is banned already is no failure.
SecondaryAnswered(call) ==
  /\ call.action = "punish"
  /\ Settle(call, [entries[call.key] EXCEPT
        !.state = "Denied", !.pending = "none", !.busy = FALSE, !.punishes = TRUE,
        !.actor = Nobody, !.lapsed = call.answer \notin {"ok", "banned"}])

Answer(call) ==
  /\ ~call.done /\ call.answer # ""
  /\ \/ Ignored(call) \/ DecisionSucceeds(call)
     \/ HandleDecisionFailure(call) \/ SecondaryAnswered(call)
  /\ UNCHANGED <<order, dropped, world, twitch, notes, seen>>

----------------------------------------------------------------------------
(* Twitch *)

Resolve(key, status, moderator) ==
  /\ twitch[key] = "held"
  /\ twitch' = [twitch EXCEPT ![key] = status]
  /\ notes' = notes \cup {[key |-> key, status |-> status, moderator |-> moderator]}

Answered(call, answer) == calls' = (calls \ {call}) \cup {[call EXCEPT !.answer = answer]}

HoldMessage(key) ==
  /\ twitch[key] = "unsent"
  /\ twitch' = [twitch EXCEPT ![key] = "held"]
  /\ notes' = notes \cup {[key |-> key, status |-> "hold", moderator |-> Other]}
  /\ UNCHANGED <<own, world, seen>>

\* Another moderator, the user's other client, or the time; who it was is
\* read for denials only.
ResolveElsewhere(key) ==
  /\ \E status \in Statuses, moderator \in Accounts \cup {Other} :
        /\ status # "denied" => moderator = Other
        /\ Resolve(key, status, moderator)
  /\ UNCHANGED <<own, world, seen>>

\* A decision is carried out, and its answer may be lost; or it is refused.
HandleDecision(call) ==
  \/ /\ Resolve(call.key, IF call.action = "approve" THEN "approved" ELSE "denied", call.account)
     /\ \E answer \in {"ok", "unknown"} : Answered(call, answer)
  \/ /\ Answered(call, CASE twitch[call.key] = "held" -> "unauthorized"
                         [] twitch[call.key] = "expired" -> "notFound"
                         [] OTHER -> "processed")
     /\ UNCHANGED <<twitch, notes>>
  \/ Answered(call, "unknown") /\ UNCHANGED <<twitch, notes>>

HandleCall(call) ==
  /\ call.answer = ""
  /\ \/ call.action # "punish" /\ HandleDecision(call)
     \/ /\ call.action = "punish"
        /\ \E answer \in {"ok", "banned", "unknown"} : Answered(call, answer)
        /\ UNCHANGED <<twitch, notes>>
  /\ UNCHANGED <<order, entries, generation, dropped, world, seen>>

Next ==
  \/ SwitchAccount \/ ChangeRights
  \/ \E key \in Keys : HoldMessage(key) \/ ResolveElsewhere(key)
  \/ \E key \in Reviewed : Retry(key) \/ \E action \in Decisions : Decide(key, action)
  \/ \E note \in notes : IngestHold(note) \/ IngestUpdate(note)
  \/ \E call \in calls : HandleCall(call) \/ Answer(call)

Spec == Init /\ [][Next]_vars

(* Every call of the API is answered or times out, which is an answer too. *)
Fairness == WF_vars(\E call \in calls : HandleCall(call)) /\ WF_vars(\E call \in calls : Answer(call))

FairSpec == Spec /\ Fairness

----------------------------------------------------------------------------
(* Properties *)

\* Each variable keeps its type, and no more entries are kept than allowed.
TypeOK ==
  /\ order \in Seq(Keys) /\ Len(order) <= MaxItems
  /\ entries \in [Keys -> Entry]
  /\ generation \in Nat /\ accountGen \in 0 .. MaxSwitches
  /\ account \in Accounts \cup {Nobody} /\ rights \in BOOLEAN
  /\ calls \subseteq Call
  /\ twitch \in [Keys -> Statuses \cup {"unsent", "held"}]
  /\ notes \subseteq Note /\ seen \subseteq notes /\ dropped \subseteq Keys

Punishments == {c \in calls : c.action = "punish"}

\* One decision of the user is followed by at most one timeout or ban,
\* although its answer and its notification each may start it
\* (performDecision, ingestUpdate with compoundAlreadyStarted).
OnePunishment == \A p, q \in Punishments : p.cause = q.cause => p = q

\* A timeout or ban that the user did not ask to retry is made by the account
\* that denied, with no change of account since (performSecondary with
\* expectedModeratorID and actionAccountGeneration).
PunisherIsDenier ==
  \A p \in Punishments : p.cause # p.gen =>
     \E d \in calls : /\ d.gen = p.cause /\ d.key = p.key /\ d.action = "denyPunish"
                      /\ d.account = p.account /\ d.accountGen = p.accountGen

\* An entry shows an action in progress exactly while the call whose answer
\* will be taken for it is out, whatever notifications, other answers and
\* dropped entries come in between (actionGeneration).
ShownIsRunning ==
  \A key \in Known :
     (entries[key].busy \/ entries[key].state \in {"Approving", "Denying"})
       <=> \E c \in calls : c.key = key /\ ~c.done /\ c.gen = entries[key].gen

\* When nothing is on its way for a message, its entry shows what became of
\* it at Twitch: no late answer has overwritten the notification, and no
\* notification an answer that knew more (ingestUpdate, IsCurrent).
SettledIsRight ==
  \A key \in Known :
     /\ twitch[key] \in Statuses
     /\ \A n \in notes : n.key = key => n \in seen \/ n.status = "hold"
     /\ \A c \in calls : c.key = key => c.done
     => entries[key].state = (IF twitch[key] = "denied" THEN "Denied" ELSE Final(twitch[key]))

\* A denial that was to be followed by a punishment and was answered is
\* followed by one, or the entry says that it failed, unless the entry was
\* dropped (performDecision, ingestUpdate, performSecondary).
PunishmentFollows ==
  \A d \in calls :
     d.action = "denyPunish" /\ d.answer = "ok" /\ d.done /\ d.key \notin dropped
       => \/ \E p \in Punishments : p.key = d.key /\ p.gen > d.gen
          \/ entries[d.key].lapsed

\* Whatever the user starts comes to an end that is shown.
EveryActionSettles ==
  \A key \in Keys :
     (key \in Known /\ (entries[key].busy \/ entries[key].state \in {"Approving", "Denying"}))
       ~> ~(key \in Known /\ (entries[key].busy \/ entries[key].state \in {"Approving", "Denying"}))
=============================================================================
