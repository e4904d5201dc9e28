------------------------------- MODULE Alerts -------------------------------
(***************************************************************************)
(* Recovery alerts of one wallet (web/lib/alerts.ts and its routes under   *)
(* web/app/api/alerts): its contacts, a value of the store that is read,   *)
(* changed and written back whole; the list of wallets to watch, which     *)
(* must follow it; and the checks that tell every contact of a recovery    *)
(* once when it is first seen and once more in its last day.               *)
(*                                                                         *)
(* Every handler runs on its own; each call to the store, the chain or a   *)
(* messenger is a step, but for those that nobody else can tell apart.     *)
(* Who may change contacts is left out: a change here has its passkey.     *)
(***************************************************************************)
EXTENDS Integers, FiniteSets

CONSTANTS
  Email, Chat, Device, \* contacts: an address, a Telegram chat, a push subscription
  PUSH_MAX,            \* subscriptions kept, 8
  Start,               \* bound: contacts that earlier changes may have left
  Recovery,            \* requests that may start on the wallet, on one chain
  Handler,             \* bound: requests served at once
  None,
  MaxChanges,          \* bound: changes ever asked for
  MaxFaults            \* bound

Contact == Email \cup Chat \cup Device

\* Contacts as the code writes them: one email, one chat, a few subscriptions.
Contacts ==
  {c \in SUBSET Contact : /\ \A x, y \in c \cap Email : x = y
                          /\ \A x, y \in c \cap Chat : x = y
                          /\ Cardinality(c \cap Device) <= PUSH_MAX}

ASSUME AlertsAssumption ==
  /\ Email \cap Chat = {} /\ Email \cap Device = {} /\ Chat \cap Device = {}
  /\ None \notin Recovery \cup Chat /\ Start \subseteq Contacts
  /\ IsFiniteSet(Device) /\ PUSH_MAX \in Nat \ {0}
  /\ MaxChanges \in Nat /\ MaxFaults \in Nat

VARIABLES
  contacts, \* iws:alerts:w:<wallet>
  listed,   \* the wallet is in iws:alerts:wallets
  code,     \* tg:<code> is there
  first,    \* sent:<id>
  second,   \* soon:<id>
  handlers,
  stage,    \* chain and clock: how far each recovery is
  gone,     \* devices that unsubscribed
  torn,     \* history: two writes crossed, or one stopped halfway
  changes, faults

store == <<contacts, listed, code, first, second>>
world == <<stage, gone>>
vars == <<store, handlers, world, torn, changes, faults>>

Place == {"idle", "used", "linked", "tell", "told", "set", "list", "scan", "mark", "read"}

(* A handler: where it is; whom it tells now, and where it goes then; what *)
(* it writes now, what it was asked to write and whom it greets after      *)
(* that; for a check, the recoveries it still has to look at, those it     *)
(* takes to be in their last day, and the one it tells of.  Last, history: *)
(* emails and chats it told before it writes, and whether the contacts     *)
(* changed since it knew them.                                             *)
Handlers ==
  [at: Place, tell: Contacts, after: {"idle", "put", "greet", "mark"},
   write: Contacts, put: Contacts, greet: Contacts, chat: Chat \cup {None},
   about: SUBSET Recovery, soon: SUBSET Recovery, of: Recovery \cup {None},
   told: SUBSET Contact, stale: BOOLEAN]

Idle == [at |-> "idle", tell |-> {}, after |-> "idle", write |-> {}, put |-> {}, greet |-> {},
         chat |-> None, about |-> {}, soon |-> {}, of |-> None, told |-> {}, stale |-> FALSE]

Running == {r \in Recovery : stage[r] \in {"early", "soon"}}

Init ==
  /\ contacts \in Start /\ listed = (contacts # {})
  /\ code = FALSE
  /\ first = {} /\ second = {}
  /\ handlers = [h \in Handler |-> Idle]
  /\ stage = [r \in Recovery |-> "none"] /\ gone = {}
  /\ torn = FALSE
  /\ changes = 0 /\ faults = 0

-----------------------------------------------------------------------------
At(h, place) == handlers[h].at = place

Becomes(h, hd) == handlers' = [handlers EXCEPT ![h] = hd]

\* The next recovery, or the answer.
Marking(hd) ==
  IF hd.about = {} THEN Idle
  ELSE [Idle EXCEPT !.at = "mark", !.about = hd.about, !.soon = hd.soon]

\* Where a handler goes when a message is out, or a value written.
Onward(hd) ==
  CASE hd.after = "idle" -> Idle
    [] hd.after = "mark" -> Marking(hd)
    [] hd.after = "put" -> [hd EXCEPT !.at = "set", !.tell = {}, !.write = hd.put, !.put = {},
                                      !.after = IF hd.greet = {} THEN "idle" ELSE "greet"]
    [] hd.after = "greet" -> [Idle EXCEPT !.at = "tell", !.tell = hd.greet, !.stale = hd.stale]

\* notify: whoever there is to tell.
Telling(hd) == IF hd.tell = {} THEN Onward(hd) ELSE [hd EXCEPT !.at = "tell"]

Change(h) == At(h, "idle") /\ changes < MaxChanges /\ changes' = changes + 1

\* A change, decided on the contacts as they are now: whom to tell first, what to
\* write, whom to greet.
Decides(h, tell, put, greet) ==
  /\ Becomes(h, Telling([Idle EXCEPT !.tell = tell, !.put = put, !.greet = greet, !.after = "put"]))
  /\ UNCHANGED <<store, world, torn, faults>>

ChangeEmail(h, e) ==
  /\ Change(h)
  /\ Decides(h, IF (contacts \cap Email) \ {e} # {} THEN contacts ELSE {},
             (contacts \ Email) \cup {e}, {e})

\* Mutant: the email goes without a word.
EmailOffQuiet(h) == Change(h) /\ Decides(h, {}, contacts \ Email, {})

EmailOff(h) == Change(h) /\ Decides(h, contacts, contacts \ Email, {})

TelegramOff(h) == Change(h) /\ Decides(h, contacts, contacts \ Chat, {})

\* The newest subscriptions stay: d, and as many others as there is room for.
Newest(d) ==
  LET all == (contacts \cap Device) \cup {d}
  IN {c \in SUBSET all : d \in c /\ Cardinality(c) <= PUSH_MAX
                         /\ (c = all \/ Cardinality(c) = PUSH_MAX)}

Push(h, d) == Change(h) /\ \E c \in Newest(d) : Decides(h, {}, (contacts \ Device) \cup c, {d})

PushOff(h, d) == Change(h) /\ Decides(h, contacts, contacts \ {d}, {})

Test(h) == Change(h) /\ Decides(h, {}, contacts, contacts)

\* A link to the bot, with a code.
Telegram(h) ==
  /\ Change(h)
  /\ code' = TRUE
  /\ UNCHANGED <<contacts, listed, first, second, handlers, world, torn, faults>>

\* "/start <code>" from a chat: the code is read, then deleted.
Link(h, c) ==
  /\ Change(h) /\ code
  /\ Becomes(h, [Idle EXCEPT !.at = "used", !.chat = c])
  /\ UNCHANGED <<store, world, torn, faults>>

Take(h) ==
  /\ At(h, "used")
  /\ code' = FALSE
  /\ Becomes(h, [handlers[h] EXCEPT !.at = "linked"])
  /\ UNCHANGED <<contacts, listed, first, second, world, torn, changes, faults>>

\* Only the chat that the wallet leaves is told.
Linked(h) ==
  /\ At(h, "linked")
  /\ Decides(h, (contacts \cap Chat) \ {handlers[h].chat},
             (contacts \ Chat) \cup {handlers[h].chat}, {})
  /\ UNCHANGED changes

-----------------------------------------------------------------------------
\* Messages go out to all, one after the other, whoever is missed.  A subscription found
\* gone is not written back.
Sends(h, missed) ==
  LET hd == handlers[h]
  IN /\ At(h, "tell")
     /\ Becomes(h, [hd EXCEPT !.at = "told", !.tell = @ \ missed,
                              !.told = @ \cup (hd.tell \ Device),
                              !.write = hd.tell \ (gone \ missed)])
     /\ UNCHANGED <<store, world, torn, changes>>

Tell(h) == Sends(h, {}) /\ UNCHANGED faults

\* Subscriptions found gone are dropped, by writing back the contacts that were told.
Told(h) ==
  LET hd == handlers[h]
  IN /\ At(h, "told")
     /\ Becomes(h, IF hd.tell \subseteq hd.write THEN Onward([hd EXCEPT !.write = {}])
                   ELSE [hd EXCEPT !.at = "set"])
     /\ UNCHANGED <<store, world, torn, changes, faults>>

Others(h) == Handler \ {h}

Known(o) == handlers[o].at \in {"tell", "told", "set", "list"}

\* putContacts: the value, set or deleted.
Set(h) ==
  /\ At(h, "set")
  /\ contacts' = handlers[h].write
  /\ handlers' = [o \in Handler |->
       IF o = h THEN [handlers[o] EXCEPT !.at = "list", !.stale = FALSE]
       ELSE [handlers[o] EXCEPT !.stale = @ \/ (Known(o) /\ contacts' # contacts)]]
  /\ torn' = (torn \/ \E o \in Others(h) : At(o, "list"))
  /\ UNCHANGED <<listed, code, first, second, world, changes, faults>>

\* Mutant: a wallet with no contact left stays on the list.
ListAdds(h) ==
  /\ At(h, "list")
  /\ listed' = (listed \/ handlers[h].write # {})
  /\ torn' = (torn /\ (handlers[h].stale \/ \E o \in Others(h) : At(o, "list")))
  /\ Becomes(h, Onward(handlers[h]))
  /\ UNCHANGED <<contacts, code, first, second, world, changes, faults>>

\* putContacts: the wallet on the list, or off it.
List(h) ==
  /\ At(h, "list")
  /\ listed' = (handlers[h].write # {})
  /\ torn' = (torn /\ (handlers[h].stale \/ \E o \in Others(h) : At(o, "list")))
  /\ Becomes(h, Onward(handlers[h]))
  /\ UNCHANGED <<contacts, code, first, second, world, changes, faults>>

-----------------------------------------------------------------------------
\* A check reads the list and the clock.  The key that lets one begin only every 50 s
\* keeps no two apart that take up to 60 s.
Check(h) ==
  /\ At(h, "idle") /\ listed
  /\ Becomes(h, [Idle EXCEPT !.at = "scan", !.soon = {r \in Recovery : stage[r] = "soon"}])
  /\ UNCHANGED <<store, world, torn, changes, faults>>

Scan(h) ==
  /\ At(h, "scan")
  /\ Becomes(h, Marking([handlers[h] EXCEPT !.about = Running]))
  /\ UNCHANGED <<store, world, torn, changes, faults>>

\* Mutant: there is only the first alert.
MarkOnce(h, r) ==
  LET rest == [handlers[h] EXCEPT !.about = @ \ {r}]
  IN /\ At(h, "mark") /\ r \in handlers[h].about
     /\ first' = first \cup {r}
     /\ Becomes(h, IF r \notin first THEN [rest EXCEPT !.at = "read", !.of = r] ELSE Marking(rest))
     /\ UNCHANGED <<contacts, listed, code, second, world, torn, changes, faults>>

\* A recovery's first alert, or its last, is whoever's marks it first.
Mark(h, r) ==
  LET rest == [handlers[h] EXCEPT !.about = @ \ {r}]
      fresh == r \notin first
      last == ~fresh /\ r \in rest.soon /\ r \notin second
  IN /\ At(h, "mark") /\ r \in handlers[h].about
     /\ first' = first \cup {r}
     /\ second' = IF last THEN second \cup {r} ELSE second
     /\ Becomes(h, IF fresh \/ last THEN [rest EXCEPT !.at = "read", !.of = r] ELSE Marking(rest))
     /\ UNCHANGED <<contacts, listed, code, world, torn, changes, faults>>

Read(h) ==
  /\ At(h, "read")
  /\ Becomes(h, Telling([handlers[h] EXCEPT !.tell = contacts, !.after = "mark"]))
  /\ UNCHANGED <<store, world, torn, changes, faults>>

-----------------------------------------------------------------------------
CodeExpires ==
  /\ code /\ code' = FALSE
  /\ UNCHANGED <<contacts, listed, first, second, handlers, world, torn, changes, faults>>

Turns(r, from, to) ==
  /\ stage[r] \in from
  /\ stage' = [stage EXCEPT ![r] = to]
  /\ UNCHANGED <<store, handlers, gone, torn, changes, faults>>

Starts(r) == Turns(r, {"none"}, "early")

LastDay(r) == Turns(r, {"early"}, "soon")

\* Cancelled, or carried out.
Ends(r) == Turns(r, {"early", "soon"}, "over")

Unsubscribes(d) ==
  /\ d \notin gone /\ gone' = gone \cup {d}
  /\ UNCHANGED <<store, handlers, stage, torn, changes, faults>>

Fault == faults < MaxFaults /\ faults' = faults + 1

\* A server's time limit, a call to the store that failed, a node that does not answer.
Stop(h) ==
  /\ Fault /\ ~At(h, "idle")
  /\ torn' = (torn \/ At(h, "list"))
  /\ Becomes(h, Idle)
  /\ UNCHANGED <<store, world, changes>>

\* A message that does not go out: an error, and on to the next.
Misses(h) == Fault /\ \E x \in handlers[h].tell : Sends(h, {x})

-----------------------------------------------------------------------------
Changes(h) ==
  \/ \E e \in Email : ChangeEmail(h, e)
  \/ \E d \in Device : Push(h, d) \/ PushOff(h, d)
  \/ \E c \in Chat : Link(h, c)
  \/ EmailOff(h) \/ TelegramOff(h) \/ Test(h) \/ Telegram(h)

\* What a handler that runs does next.
Works(h) ==
  \/ Take(h) \/ Linked(h) \/ Tell(h) \/ Told(h) \/ Set(h) \/ List(h)
  \/ Scan(h) \/ Read(h) \/ \E r \in Recovery : Mark(h, r)

Next ==
  \/ \E h \in Handler : Changes(h) \/ Works(h) \/ Check(h) \/ Stop(h) \/ Misses(h)
  \/ \E r \in Recovery : Starts(r) \/ LastDay(r) \/ Ends(r)
  \/ \E d \in Device : Unsubscribes(d)
  \/ CodeExpires

\* A handler that runs goes on or stops; checks come again and again, and time passes.
Fairness ==
  /\ \A h \in Handler : WF_vars(Works(h))
  /\ WF_vars(\E h \in Handler : Check(h))
  /\ \A r \in Recovery : WF_vars(LastDay(r))

Spec == Init /\ [][Next]_vars /\ Fairness

-----------------------------------------------------------------------------
(***************************************************************************)
(* Properties.                                                             *)
(***************************************************************************)
\* One email, one chat and no more subscriptions than are kept, through every change,
\* pruning and lost update; no last alert without a first.
TypeOK ==
  /\ contacts \in Contacts /\ handlers \in [Handler -> Handlers]
  /\ listed \in BOOLEAN /\ code \in BOOLEAN /\ torn \in BOOLEAN
  /\ first \subseteq Recovery /\ second \subseteq first
  /\ stage \in [Recovery -> {"none", "early", "soon", "over"}] /\ gone \subseteq Device
  /\ changes \in 0..MaxChanges /\ faults \in 0..MaxFaults

\* The wallet is watched as long as it has a contact, unless two writes crossed or one
\* stopped halfway; the next write that runs alone makes up for that.
ContactsAreWatched ==
  torn \/ (\E h \in Handler : At(h, "list")) \/ (listed <=> contacts # {})

\* "Taking a contact away tells the old contacts first": an email or a chat goes only
\* after a message to it, or by a handler that others overtook, or where a device that
\* was to be greeted is gone: then the greeting is written back, and all else is lost.
NoneLeavesUntold ==
  [][\A h \in Handler : Set(h) =>
       \/ contacts \ contacts' \subseteq Device \cup handlers[h].told
       \/ handlers[h].stale
       \/ handlers[h].tell # {} /\ handlers[h].tell \subseteq gone]_vars

Hears(x, r) == \E h \in Handler : At(h, "told") /\ handlers[h].of = r /\ x \in handlers[h].tell

\* A recovery that no check has marked yet reaches every contact that stays, although a
\* handler stops, a node does not answer or a message is lost, once.
EveryRecoveryIsHeard ==
  \A r \in Recovery, x \in Contact :
    (r \in Running /\ r \notin first /\ listed /\ x \in contacts)
      ~> (Hears(x, r) \/ stage[r] = "over" \/ x \notin contacts \/ x \in gone \/ ~listed)
=============================================================================
