---------------------------- MODULE AlertsProofs ----------------------------
(***************************************************************************)
(* Proofs about Alerts: types, the list of watched wallets, and contacts   *)
(* that leave.                                                             *)
(***************************************************************************)
EXTENDS Alerts, FiniteSetTheorems, TLAPS

(***************************************************************************)
(* What a handler keeps by itself: a record it will greet from is one that *)
(* has no device, one device, or the contacts it just wrote; while it      *)
(* prunes before its change it writes only contacts it told.               *)
(***************************************************************************)
Narrow(set) == set \cap Device = {} \/ \E d \in Device : set = {d}

Own(hd) ==
  /\ hd.at \in {"used", "linked"} => hd.chat \in Chat
  /\ hd.after # "idle" => hd.at \in {"tell", "told", "set", "list"}
  /\ hd.after = "put" => /\ Narrow(hd.greet)
                         /\ hd.at # "tell" => hd.write \subseteq Device \cup hd.told
  /\ hd.after = "greet" => /\ hd.at \in {"set", "list"}
                           /\ Narrow(hd.greet) \/ hd.greet = hd.write

(***************************************************************************)
(* What a handler knows of the contacts as long as nobody else changed     *)
(* them: everything its change takes away has been told, or is about to    *)
(* be, or is a device.                                                     *)
(***************************************************************************)
Greeted(hd, away) == hd.tell # {} /\ hd.tell \subseteq away

Fresh(hd, now, away) ==
  /\ hd.after = "put" =>
       now \ hd.put \subseteq Device \cup hd.told \cup (IF hd.at = "tell" THEN hd.tell ELSE {})
  /\ hd.at = "tell" => now \subseteq hd.tell \/ Narrow(hd.tell)
  /\ hd.at = "told" => \/ now \ hd.write \subseteq Device \cup hd.told
                       \/ hd.tell \subseteq hd.write
                       \/ Greeted(hd, away)
  /\ hd.at = "set" => now \ hd.write \subseteq Device \cup hd.told \/ Greeted(hd, away)
  /\ hd.at = "list" => now = hd.write

Good(hd, now, away) == Own(hd) /\ (~hd.stale => Fresh(hd, now, away))

IInv ==
  /\ TypeOK
  /\ \A h \in Handler : Good(handlers[h], contacts, gone)
  /\ \A h \in Handler : At(h, "list") /\ handlers[h].stale => torn
  /\ ContactsAreWatched

-----------------------------------------------------------------------------
(***************************************************************************)
(* Sets of contacts.                                                       *)
(***************************************************************************)
LEMMA PartsAreContacts ==
  ASSUME NEW c \in Contacts, NEW d \in SUBSET c
  PROVE  d \in Contacts
<1>1. c \in SUBSET Contact /\ d \in SUBSET Contact
  BY DEF Contacts
<1>2. IsFiniteSet(Device)
  BY AlertsAssumption
<1>3. IsFiniteSet(c \cap Device)
  BY <1>2, FS_Subset
<1>4. Cardinality(d \cap Device) <= Cardinality(c \cap Device)
  <2>1. d \cap Device \in SUBSET (c \cap Device)
    OBVIOUS
  <2> QED BY <1>3, <2>1, FS_Subset
<1>5. Cardinality(d \cap Device) \in Nat /\ Cardinality(c \cap Device) \in Nat /\ PUSH_MAX \in Nat
  <2>1. IsFiniteSet(d \cap Device)
    BY <1>2, FS_Subset
  <2> QED BY <1>3, <2>1, FS_CardinalityType, AlertsAssumption
<1>6. Cardinality(c \cap Device) <= PUSH_MAX
  BY DEF Contacts
<1>7. Cardinality(d \cap Device) <= PUSH_MAX
  BY <1>4, <1>5, <1>6
<1>8. /\ \A x, y \in d \cap Email : x = y
      /\ \A x, y \in d \cap Chat : x = y
  BY DEF Contacts
<1> QED BY <1>1, <1>7, <1>8 DEF Contacts

LEMMA NoneAreContacts == {} \in Contacts
<1>1. {} \cap Device = {} /\ Cardinality({}) = 0
  BY FS_EmptySet
<1>2. 0 <= PUSH_MAX
  BY AlertsAssumption
<1>3. Cardinality({} \cap Device) <= PUSH_MAX
  BY <1>1, <1>2
<1> QED BY <1>3 DEF Contacts

LEMMA OneIsContacts ==
  ASSUME NEW x \in Contact
  PROVE  {x} \in Contacts
<1>1. Cardinality({x} \cap Device) <= PUSH_MAX
  <2>1. PUSH_MAX \in Nat \ {0}
    BY AlertsAssumption
  <2>2. CASE x \in Device
    <3>1. {x} \cap Device = {x}
      BY <2>2
    <3>2. Cardinality({x}) = 1
      BY FS_Singleton
    <3>3. 1 <= PUSH_MAX
      BY <2>1
    <3> QED BY <3>1, <3>2, <3>3
  <2>3. CASE x \notin Device
    <3>1. {x} \cap Device = {}
      BY <2>3
    <3>2. Cardinality({}) = 0
      BY FS_EmptySet
    <3>3. 0 <= PUSH_MAX
      BY <2>1
    <3> QED BY <3>1, <3>2, <3>3
  <2> QED BY <2>2, <2>3
<1> QED BY <1>1 DEF Contacts

LEMMA NewEmailIsContacts ==
  ASSUME NEW c \in Contacts, NEW e \in Email
  PROVE  (c \ Email) \cup {e} \in Contacts
<1> DEFINE n == (c \ Email) \cup {e}
<1> SUFFICES n \in Contacts
  OBVIOUS
<1>1. n \cap Email = {e} /\ n \cap Chat = c \cap Chat /\ n \cap Device = c \cap Device
  BY AlertsAssumption
<1>2. n \in SUBSET Contact
  BY DEF Contacts, Contact
<1>3. \A x, y \in n \cap Email : x = y
  BY <1>1
<1>4. (\A x, y \in n \cap Chat : x = y) /\ Cardinality(n \cap Device) <= PUSH_MAX
  BY <1>1 DEF Contacts
<1> HIDE DEF n
<1> QED BY <1>2, <1>3, <1>4 DEF Contacts

LEMMA NewChatIsContacts ==
  ASSUME NEW c \in Contacts, NEW t \in Chat
  PROVE  (c \ Chat) \cup {t} \in Contacts
<1> DEFINE n == (c \ Chat) \cup {t}
<1> SUFFICES n \in Contacts
  OBVIOUS
<1>1. n \cap Chat = {t} /\ n \cap Email = c \cap Email /\ n \cap Device = c \cap Device
  BY AlertsAssumption
<1>2. n \in SUBSET Contact
  BY DEF Contacts, Contact
<1>3. \A x, y \in n \cap Chat : x = y
  BY <1>1
<1>4. (\A x, y \in n \cap Email : x = y) /\ Cardinality(n \cap Device) <= PUSH_MAX
  BY <1>1 DEF Contacts
<1> HIDE DEF n
<1> QED BY <1>2, <1>3, <1>4 DEF Contacts

LEMMA NewDeviceIsContacts ==
  ASSUME NEW c \in Contacts, NEW s \in SUBSET Device, Cardinality(s) <= PUSH_MAX
  PROVE  (c \ Device) \cup s \in Contacts
<1> DEFINE n == (c \ Device) \cup s
<1> SUFFICES n \in Contacts
  OBVIOUS
<1>1. n \cap Device = s /\ n \cap Email = c \cap Email /\ n \cap Chat = c \cap Chat
  BY AlertsAssumption
<1>2. n \in SUBSET Contact
  BY DEF Contacts, Contact
<1>3. (\A x, y \in n \cap Email : x = y) /\ (\A x, y \in n \cap Chat : x = y)
  BY <1>1 DEF Contacts
<1>4. Cardinality(n \cap Device) <= PUSH_MAX
  BY <1>1
<1> HIDE DEF n
<1> QED BY <1>2, <1>3, <1>4 DEF Contacts

-----------------------------------------------------------------------------
(***************************************************************************)
(* Handlers: their types.                                                  *)
(***************************************************************************)
LEMMA IdleTyped == Idle \in Handlers
BY NoneAreContacts DEF Idle, Handlers, Place

LEMMA MarkingTyped ==
  ASSUME NEW hd \in Handlers
  PROVE  Marking(hd) \in Handlers
BY IdleTyped DEF Marking, Handlers, Place

LEMMA OnwardTyped ==
  ASSUME NEW hd \in Handlers
  PROVE  Onward(hd) \in Handlers
<1>1. CASE hd.after = "idle"
  BY <1>1, IdleTyped DEF Onward
<1>2. CASE hd.after = "mark"
  BY <1>2, MarkingTyped DEF Onward
<1>3. CASE hd.after = "put"
  BY <1>3, NoneAreContacts DEF Onward, Handlers, Place
<1>4. CASE hd.after = "greet"
  BY <1>4, IdleTyped DEF Onward, Handlers, Place
<1> QED BY <1>1, <1>2, <1>3, <1>4 DEF Handlers

LEMMA TellingTyped ==
  ASSUME NEW hd \in Handlers
  PROVE  Telling(hd) \in Handlers
<1>1. [hd EXCEPT !.at = "tell"] \in Handlers
  BY DEF Handlers, Place
<1> QED BY <1>1, OnwardTyped DEF Telling

-----------------------------------------------------------------------------
(***************************************************************************)
(* Handlers: what they know.                                               *)
(***************************************************************************)
\* A handler that neither tells nor writes.
LEMMA RestIsGood ==
  ASSUME NEW hd, hd.after = "idle", hd.at \notin {"tell", "told", "set", "list"},
         hd.at \in {"used", "linked"} => hd.chat \in Chat, NEW now, NEW away
  PROVE  Good(hd, now, away)
BY DEF Good, Own, Fresh

LEMMA IdleIsGood ==
  ASSUME NEW now, NEW away
  PROVE  Good(Idle, now, away)
BY RestIsGood DEF Idle

LEMMA MarkingIsGood ==
  ASSUME NEW hd \in Handlers, NEW now, NEW away
  PROVE  Good(Marking(hd), now, away) /\ Marking(hd).at # "list"
<1> DEFINE m == [Idle EXCEPT !.at = "mark", !.about = hd.about, !.soon = hd.soon]
<1>1. m.after = "idle" /\ m.at = "mark"
  BY DEF Idle
<1> HIDE DEF m
<1>2. Good(m, now, away)
  BY <1>1, RestIsGood
<1>3. Good(Idle, now, away) /\ Idle.at # "list"
  BY IdleIsGood DEF Idle
<1>4. Marking(hd) = IF hd.about = {} THEN Idle ELSE m
  BY DEF Marking, m
<1> QED BY <1>1, <1>2, <1>3, <1>4

LEMMA OnwardIsGood ==
  ASSUME NEW hd \in Handlers, NEW now, NEW away,
         hd.after = "put" => /\ Narrow(hd.greet) \/ hd.greet = hd.put
                             /\ ~hd.stale => now \ hd.put \subseteq Device \cup hd.told,
         hd.after = "greet" => Narrow(hd.greet) \/ (~hd.stale => now = hd.greet)
  PROVE  Good(Onward(hd), now, away) /\ Onward(hd).at # "list"
<1>1. CASE hd.after = "idle"
  BY <1>1, IdleIsGood DEF Onward, Idle
<1>2. CASE hd.after = "mark"
  BY <1>2, MarkingIsGood DEF Onward
<1>3. CASE hd.after = "put"
  <2> DEFINE p == [hd EXCEPT !.at = "set", !.tell = {}, !.write = hd.put, !.put = {},
                             !.after = IF hd.greet = {} THEN "idle" ELSE "greet"]
  <2>1. /\ p.at = "set" /\ p.write = hd.put /\ p.greet = hd.greet /\ p.told = hd.told
        /\ p.stale = hd.stale /\ p.after \in {"idle", "greet"}
    BY DEF Handlers
  <2>2. Onward(hd) = p
    BY <1>3 DEF Onward
  <2> HIDE DEF p
  <2>3. Own(p)
    BY <1>3, <2>1 DEF Own
  <2>4. ~p.stale => Fresh(p, now, away)
    BY <1>3, <2>1 DEF Fresh
  <2> QED BY <2>1, <2>2, <2>3, <2>4 DEF Good
<1>4. CASE hd.after = "greet"
  <2> DEFINE g == [Idle EXCEPT !.at = "tell", !.tell = hd.greet, !.stale = hd.stale]
  <2>1. g.at = "tell" /\ g.tell = hd.greet /\ g.stale = hd.stale /\ g.after = "idle"
    BY DEF Idle
  <2>2. Onward(hd) = g
    BY <1>4 DEF Onward
  <2> HIDE DEF g
  <2>3. Own(g)
    BY <2>1 DEF Own
  <2>4. ~g.stale => Fresh(g, now, away)
    BY <1>4, <2>1 DEF Fresh
  <2> QED BY <2>1, <2>2, <2>3, <2>4 DEF Good
<1> QED BY <1>1, <1>2, <1>3, <1>4 DEF Handlers

\* A change, or an alert, that starts with the contacts as they are.
LEMMA TellingIsGood ==
  ASSUME NEW hd \in Handlers, NEW now, NEW away,
         hd.after \in {"put", "mark"},
         now \subseteq hd.tell \/ Narrow(hd.tell),
         hd.after = "put" => /\ Narrow(hd.greet) \/ (hd.greet = hd.put /\ hd.tell = {})
                             /\ now \ hd.put \subseteq Device \cup hd.tell
  PROVE  Good(Telling(hd), now, away) /\ Telling(hd).at # "list"
<1>1. CASE hd.tell = {}
  BY <1>1, OnwardIsGood DEF Telling
<1>2. CASE hd.tell # {}
  <2> DEFINE t == [hd EXCEPT !.at = "tell"]
  <2>1. /\ t.at = "tell" /\ t.after = hd.after /\ t.tell = hd.tell /\ t.put = hd.put
        /\ t.greet = hd.greet /\ t.told = hd.told /\ t.stale = hd.stale
    BY DEF Handlers
  <2>2. Telling(hd) = t
    BY <1>2 DEF Telling
  <2> HIDE DEF t
  <2>3. Own(t)
    BY <1>2, <2>1 DEF Own
  <2>4. Fresh(t, now, away)
    BY <2>1 DEF Fresh
  <2> QED BY <2>1, <2>2, <2>3, <2>4 DEF Good
<1> QED BY <1>1, <1>2

-----------------------------------------------------------------------------
(***************************************************************************)
(* Steps.                                                                  *)
(***************************************************************************)
\* The variables that no other conjunct speaks of.
RestOK ==
  /\ listed \in BOOLEAN /\ code \in BOOLEAN
  /\ first \subseteq Recovery /\ second \subseteq first
  /\ stage \in [Recovery -> {"none", "early", "soon", "over"}] /\ gone \subseteq Device
  /\ changes \in 0..MaxChanges /\ faults \in 0..MaxFaults

LEMMA TypeParts ==
  TypeOK <=> /\ contacts \in Contacts /\ handlers \in [Handler -> Handlers]
             /\ torn \in BOOLEAN /\ RestOK
BY DEF TypeOK, RestOK

\* One handler goes on; the contacts and the list stay.
LEMMA HandlerKeeps ==
  ASSUME IInv, NEW h \in Handler, NEW hd \in Handlers, Becomes(h, hd),
         Good(hd, contacts, gone), hd.at # "list",
         UNCHANGED <<contacts, listed, gone>>, RestOK',
         torn' \in BOOLEAN, torn => torn', At(h, "list") => torn'
  PROVE  IInv'
<1>1. handlers \in [Handler -> Handlers] /\ contacts \in Contacts
  BY DEF IInv, TypeOK
<1>2. handlers'[h] = hd /\ \A o \in Handler : o # h => handlers'[o] = handlers[o]
  BY <1>1 DEF Becomes
<1>3. handlers' \in [Handler -> Handlers]
  BY <1>1 DEF Becomes
<1>4. TypeOK'
  BY <1>1, <1>3 DEF TypeOK, RestOK
<1>5. \A o \in Handler : Good(handlers'[o], contacts', gone')
  BY <1>2 DEF IInv
<1>6. \A o \in Handler : At(o, "list")' /\ handlers'[o].stale => torn'
  BY <1>2 DEF IInv, At
<1>7. ContactsAreWatched'
  <2>1. CASE torn'
    BY <2>1 DEF ContactsAreWatched
  <2>2. CASE \E o \in Handler : At(o, "list") /\ o # h
    BY <1>2, <2>2 DEF ContactsAreWatched, At
  <2>3. CASE listed <=> contacts # {}
    BY <2>3 DEF ContactsAreWatched
  <2> QED BY <2>1, <2>2, <2>3 DEF IInv, ContactsAreWatched
<1> QED BY <1>4, <1>5, <1>6, <1>7 DEF IInv

\* No handler moves, and nothing but chain, clocks and codes changes.
LEMMA WorldKeeps ==
  ASSUME IInv, UNCHANGED <<contacts, listed, handlers, torn>>, gone \subseteq gone', RestOK'
  PROVE  IInv'
<1>1. TypeOK'
  BY DEF IInv, TypeOK, RestOK
<1>2. \A o \in Handler : Good(handlers'[o], contacts', gone')
  <2> SUFFICES ASSUME NEW o \in Handler PROVE Good(handlers[o], contacts, gone')
    OBVIOUS
  <2>1. Good(handlers[o], contacts, gone)
    BY DEF IInv
  <2>2. Greeted(handlers[o], gone) => Greeted(handlers[o], gone')
    BY DEF Greeted
  <2> QED BY <2>1, <2>2 DEF Good, Fresh
<1>3. \A o \in Handler : At(o, "list")' /\ handlers'[o].stale => torn'
  BY DEF IInv, At
<1>4. ContactsAreWatched'
  BY DEF IInv, ContactsAreWatched, At
<1> QED BY <1>1, <1>2, <1>3, <1>4 DEF IInv

\* A change is decided.
LEMMA DecidesKeeps ==
  ASSUME IInv, NEW h \in Handler, NEW who \in Contacts, NEW next \in Contacts, NEW hello \in Contacts,
         Decides(h, who, next, hello), ~At(h, "list"), changes' \in 0..MaxChanges,
         who = contacts \/ who \cap Device = {},
         Narrow(hello) \/ (hello = next /\ who = {}),
         contacts \ next \subseteq Device \cup who
  PROVE  IInv'
<1> DEFINE hd == [Idle EXCEPT !.tell = who, !.put = next, !.greet = hello, !.after = "put"]
<1>1. hd \in Handlers
  BY IdleTyped DEF Handlers
<1>2. /\ hd.tell = who /\ hd.put = next /\ hd.greet = hello /\ hd.after = "put" /\ hd.told = {}
  BY DEF Idle
<1>3. Becomes(h, Telling(hd)) /\ UNCHANGED <<store, world, torn, faults>>
  BY DEF Decides
<1> HIDE DEF hd
<1>4. contacts \subseteq hd.tell \/ Narrow(hd.tell)
  BY <1>2 DEF Narrow
<1>5. Good(Telling(hd), contacts, gone) /\ Telling(hd).at # "list"
  BY <1>1, <1>2, <1>4, TellingIsGood
<1>6. Telling(hd) \in Handlers
  BY <1>1, TellingTyped
<1>7. RestOK' /\ torn \in BOOLEAN
  BY <1>3 DEF IInv, TypeOK, RestOK, store, world
<1> QED BY <1>3, <1>5, <1>6, <1>7, HandlerKeeps DEF store, world

\* All contacts are told before one goes.
LEMMA GoodbyeKeeps ==
  ASSUME IInv, NEW h \in Handler, NEW next \in Contacts,
         Decides(h, contacts, next, {}), ~At(h, "list"), changes' \in 0..MaxChanges
  PROVE  IInv'
<1>1. contacts \in Contacts
  BY DEF IInv, TypeOK
<1>2. PICK who \in Contacts : who = contacts
  BY <1>1
<1>3. PICK hello \in Contacts : hello = {}
  BY NoneAreContacts
<1>4. Decides(h, who, next, hello)
  BY <1>2, <1>3
<1>5. Narrow(hello) \/ (hello = next /\ who = {})
  BY <1>3 DEF Narrow
<1>6. who = contacts \/ who \cap Device = {}
  BY <1>2
<1>7. contacts \ next \subseteq Device \cup who
  BY <1>2
<1> QED BY <1>4, <1>5, <1>6, <1>7, DecidesKeeps

LEMMA ChangeKeeps ==
  ASSUME IInv, NEW h \in Handler, Changes(h)
  PROVE  IInv'
<1>1. /\ contacts \in Contacts /\ handlers \in [Handler -> Handlers] /\ torn \in BOOLEAN
      /\ RestOK
  BY DEF IInv, TypeOK, RestOK
<1>2. contacts \subseteq Contact /\ Email \subseteq Contact /\ Chat \subseteq Contact /\ Device \subseteq Contact
  BY <1>1 DEF Contacts, Contact
<1>3. Email \cap Device = {} /\ Chat \cap Device = {} /\ Email \cap Chat = {}
  BY AlertsAssumption
<1>4. Change(h) => ~At(h, "list") /\ changes' \in 0..MaxChanges
  BY <1>1, AlertsAssumption DEF Change, At, RestOK
<1>5. ASSUME NEW e \in Email, ChangeEmail(h, e) PROVE IInv'
  <2>1. PICK tell \in Contacts : tell = IF (contacts \cap Email) \ {e} # {} THEN contacts ELSE {}
    BY <1>1, NoneAreContacts
  <2>2. PICK put \in Contacts : put = (contacts \ Email) \cup {e}
    BY <1>1, NewEmailIsContacts
  <2>3. PICK hello \in Contacts : hello = {e}
    BY <1>2, OneIsContacts
  <2>4. tell = contacts \/ tell \cap Device = {}
    BY <2>1
  <2>6. contacts \ put \subseteq Device \cup tell
    BY <2>1, <2>2
  <2>5. Decides(h, tell, put, hello) /\ Change(h)
    BY <1>5, <2>1, <2>2, <2>3 DEF ChangeEmail
  <2>7. Narrow(hello) \/ (hello = put /\ tell = {})
    BY <1>3, <2>3 DEF Narrow
  <2> QED BY <1>4, <2>4, <2>5, <2>6, <2>7, DecidesKeeps
<1>6. CASE EmailOff(h)
  <2>1. PICK put \in Contacts : put = contacts \ Email
    BY <1>1, PartsAreContacts
  <2> QED BY <1>4, <1>6, <2>1, GoodbyeKeeps DEF EmailOff
<1>7. CASE TelegramOff(h)
  <2>1. PICK put \in Contacts : put = contacts \ Chat
    BY <1>1, PartsAreContacts
  <2> QED BY <1>4, <1>7, <2>1, GoodbyeKeeps DEF TelegramOff
<1>8. ASSUME NEW d \in Device, Push(h, d) PROVE IInv'
  <2>1. PICK c \in Newest(d) : Decides(h, {}, (contacts \ Device) \cup c, {d})
    BY <1>8 DEF Push
  <2> DEFINE put == (contacts \ Device) \cup c
  <2>2. c \in SUBSET Device /\ Cardinality(c) <= PUSH_MAX
    BY DEF Newest
  <2>3. put \in Contacts /\ {d} \in Contacts
    BY <1>1, <1>2, <2>2, NewDeviceIsContacts, OneIsContacts
  <2>4. Narrow({d})
    BY DEF Narrow
  <2>5. contacts \ put \subseteq Device \cup {}
    OBVIOUS
  <2>6. Change(h) /\ Decides(h, {}, put, {d})
    BY <1>8, <2>1 DEF Push
  <2> HIDE DEF put
  <2> QED BY <1>4, <2>3, <2>4, <2>5, <2>6, NoneAreContacts, DecidesKeeps
<1>9. ASSUME NEW d \in Device, PushOff(h, d) PROVE IInv'
  <2>1. PICK put \in Contacts : put = contacts \ {d}
    BY <1>1, PartsAreContacts
  <2> QED BY <1>4, <1>9, <2>1, GoodbyeKeeps DEF PushOff
<1>10. CASE Test(h)
  <2> DEFINE all == contacts
             none == {}
  <2>1. /\ contacts \ all \subseteq Device \cup none /\ all \in Contacts /\ none \in Contacts
        /\ none = contacts \/ none \cap Device = {}
        /\ Narrow(all) \/ (all = all /\ none = {})
    BY <1>1, NoneAreContacts
  <2>2. Change(h) /\ Decides(h, none, all, all)
    BY <1>10 DEF Test
  <2>3. ~At(h, "list") /\ changes' \in 0..MaxChanges
    BY <1>4, <2>2
  <2> HIDE DEF all, none
  <2> QED BY <2>1, <2>2, <2>3, DecidesKeeps
<1>11. CASE Telegram(h)
  <2>1. UNCHANGED <<contacts, listed, handlers, torn, gone>> /\ RestOK'
    BY <1>1, <1>4, <1>11 DEF Telegram, RestOK, world
  <2> QED BY <2>1, WorldKeeps
<1>12. ASSUME NEW c \in Chat, Link(h, c) PROVE IInv'
  <2> DEFINE hd == [Idle EXCEPT !.at = "used", !.chat = c]
  <2>1. hd \in Handlers
    BY IdleTyped DEF Handlers, Place
  <2>2. hd.at = "used" /\ hd.after = "idle" /\ hd.chat = c
    BY IdleTyped DEF Idle, Handlers
  <2>3. Becomes(h, hd) /\ Change(h) /\ UNCHANGED <<store, world, torn, faults>>
    BY <1>12 DEF Link
  <2> HIDE DEF hd
  <2>4. Good(hd, contacts, gone)
    BY <2>2, RestIsGood
  <2>5. RestOK'
    BY <1>1, <1>4, <2>3 DEF RestOK, store, world
  <2> QED BY <1>1, <1>4, <2>1, <2>2, <2>3, <2>4, <2>5, HandlerKeeps DEF store, world
<1> QED BY <1>5, <1>6, <1>7, <1>8, <1>9, <1>10, <1>11, <1>12 DEF Changes

-----------------------------------------------------------------------------
\* What a step may rest on.
LEMMA HandlerParts ==
  ASSUME IInv, NEW h \in Handler
  PROVE  /\ contacts \in Contacts /\ handlers \in [Handler -> Handlers] /\ torn \in BOOLEAN
         /\ RestOK
         /\ handlers[h] \in Handlers /\ Own(handlers[h])
         /\ ~handlers[h].stale => Fresh(handlers[h], contacts, gone)
         /\ At(h, "list") /\ handlers[h].stale => torn
BY DEF IInv, TypeOK, RestOK, Good

LEMMA TakeKeeps ==
  ASSUME IInv, NEW h \in Handler, Take(h)
  PROVE  IInv'
<1> DEFINE hd == [handlers[h] EXCEPT !.at = "linked"]
<1>1. handlers[h] \in Handlers /\ Own(handlers[h]) /\ RestOK /\ torn \in BOOLEAN
  BY HandlerParts
<1>2. hd \in Handlers /\ hd.at = "linked" /\ hd.after = handlers[h].after /\ hd.chat = handlers[h].chat
  BY <1>1 DEF Handlers, Place
<1>3. handlers[h].after = "idle" /\ handlers[h].chat \in Chat
  BY <1>1 DEF Take, At, Own
<1>4. Becomes(h, hd) /\ UNCHANGED <<contacts, listed, gone, torn>> /\ RestOK' /\ ~At(h, "list")
  BY <1>1 DEF Take, At, RestOK, world
<1> HIDE DEF hd
<1>5. Good(hd, contacts, gone)
  BY <1>2, <1>3, RestIsGood
<1> QED BY <1>1, <1>2, <1>4, <1>5, HandlerKeeps

LEMMA LinkedKeeps ==
  ASSUME IInv, NEW h \in Handler, Linked(h)
  PROVE  IInv'
<1>1. contacts \in Contacts /\ RestOK /\ ~At(h, "list") /\ handlers[h] \in Handlers
  BY HandlerParts DEF Linked, At
<1>2. contacts \subseteq Contact /\ Chat \subseteq Contact /\ Chat \cap Device = {}
  BY <1>1, AlertsAssumption DEF Contacts, Contact
<1>3. handlers[h].chat \in Chat
  BY HandlerParts DEF Linked, At, Own
<1>4. QED
  <2>1. PICK who \in Contacts : who = (contacts \cap Chat) \ {handlers[h].chat}
    BY <1>1, PartsAreContacts
  <2>2. PICK next \in Contacts : next = (contacts \ Chat) \cup {handlers[h].chat}
    BY <1>1, <1>3, NewChatIsContacts
  <2>3. PICK hello \in Contacts : hello = {}
    BY NoneAreContacts
  <2>4. Decides(h, who, next, hello) /\ changes' \in 0..MaxChanges
    BY <1>1, <2>1, <2>2, <2>3 DEF Linked, RestOK
  <2>5. who = contacts \/ who \cap Device = {}
    BY <1>2, <2>1
  <2>6. Narrow(hello) \/ (hello = next /\ who = {})
    BY <2>3 DEF Narrow
  <2>7. contacts \ next \subseteq Device \cup who
    BY <2>1, <2>2
  <2> QED BY <1>1, <2>4, <2>5, <2>6, <2>7, DecidesKeeps

LEMMA SendsKeeps ==
  ASSUME IInv, NEW h \in Handler, NEW missed, Sends(h, missed), faults' \in 0..MaxFaults
  PROVE  IInv'
<1> DEFINE old == handlers[h]
           hd == [old EXCEPT !.at = "told", !.tell = old.tell \ missed,
                             !.told = old.told \cup (old.tell \ Device),
                             !.write = old.tell \ (gone \ missed)]
<1>1. /\ old \in Handlers /\ Own(old) /\ RestOK /\ torn \in BOOLEAN
      /\ ~old.stale => Fresh(old, contacts, gone)
  BY HandlerParts
<1>2. old.at = "tell" /\ Becomes(h, hd) /\ UNCHANGED <<store, world, torn, changes>>
  BY DEF Sends, At
<1>3. old.tell \in Contacts /\ old.tell \in SUBSET Contact /\ old.told \in SUBSET Contact
  BY <1>1 DEF Handlers, Contacts
<1>4. old.tell \ missed \in Contacts /\ old.tell \ (gone \ missed) \in Contacts
  BY <1>3, PartsAreContacts
<1>5. hd \in Handlers
  BY <1>1, <1>3, <1>4 DEF Handlers, Place
<1>6. /\ hd.at = "told" /\ hd.tell = old.tell \ missed /\ hd.write = old.tell \ (gone \ missed)
      /\ hd.told = old.told \cup (old.tell \ Device) /\ hd.after = old.after /\ hd.put = old.put
      /\ hd.greet = old.greet /\ hd.stale = old.stale
  BY <1>1 DEF Handlers
<1> HIDE DEF hd
<1>7. Own(hd)
  BY <1>1, <1>2, <1>6 DEF Own
<1>8. ASSUME ~hd.stale PROVE Fresh(hd, contacts, gone)
  <2>1. Fresh(old, contacts, gone)
    BY <1>1, <1>6, <1>8
  <2>2. hd.after = "put" => contacts \ hd.put \subseteq Device \cup hd.told
    BY <1>2, <1>6, <2>1 DEF Fresh
  <2>3. \/ contacts \ hd.write \subseteq Device \cup hd.told
        \/ hd.tell \subseteq hd.write
        \/ Greeted(hd, gone)
    <3>1. CASE contacts \subseteq old.tell
      BY <1>6, <3>1
    <3>2. CASE old.tell \cap Device = {}
      BY <1>1, <1>6, <3>2 DEF RestOK
    <3>3. CASE \E d \in Device : old.tell = {d}
      BY <1>6, <3>3 DEF Greeted
    <3> QED BY <1>2, <2>1, <3>1, <3>2, <3>3 DEF Fresh, Narrow
  <2> QED BY <1>6, <2>2, <2>3 DEF Fresh
<1>9. RestOK' /\ ~At(h, "list")
  BY <1>1, <1>2 DEF RestOK, At, store, world
<1> QED BY <1>1, <1>2, <1>5, <1>6, <1>7, <1>8, <1>9, HandlerKeeps DEF Good, store, world

LEMMA ToldKeeps ==
  ASSUME IInv, NEW h \in Handler, Told(h)
  PROVE  IInv'
<1> DEFINE old == handlers[h]
           done == [old EXCEPT !.write = {}]
           set == [old EXCEPT !.at = "set"]
<1>1. /\ old \in Handlers /\ Own(old) /\ RestOK /\ torn \in BOOLEAN
      /\ ~old.stale => Fresh(old, contacts, gone)
  BY HandlerParts
<1>2. old.at = "told" /\ UNCHANGED <<store, world, torn, changes, faults>>
  BY DEF Told, At
<1>3. RestOK' /\ ~At(h, "list")
  BY <1>1, <1>2 DEF RestOK, At, store, world
<1>4. CASE old.tell \subseteq old.write
  <2>1. done \in Handlers
    BY <1>1, NoneAreContacts DEF Handlers
  <2>2. /\ done.after = old.after /\ done.greet = old.greet /\ done.stale = old.stale
        /\ done.put = old.put /\ done.told = old.told
    BY <1>1 DEF Handlers
  <2>3. Becomes(h, Onward(done))
    BY <1>4 DEF Told
  <2> HIDE DEF done
  <2>4. done.after = "put" => /\ Narrow(done.greet) \/ done.greet = done.put
                              /\ ~done.stale => contacts \ done.put \subseteq Device \cup done.told
    BY <1>1, <1>2, <2>2 DEF Own, Fresh
  <2>5. done.after # "greet"
    BY <1>1, <1>2, <2>2 DEF Own
  <2>6. Good(Onward(done), contacts, gone) /\ Onward(done).at # "list"
    BY <2>1, <2>4, <2>5, OnwardIsGood
  <2>7. Onward(done) \in Handlers
    BY <2>1, OnwardTyped
  <2> QED BY <1>1, <1>2, <1>3, <2>3, <2>6, <2>7, HandlerKeeps DEF store, world
<1>5. CASE ~(old.tell \subseteq old.write)
  <2>1. set \in Handlers
    BY <1>1 DEF Handlers, Place
  <2>2. /\ set.at = "set" /\ set.after = old.after /\ set.greet = old.greet /\ set.stale = old.stale
        /\ set.put = old.put /\ set.told = old.told /\ set.tell = old.tell /\ set.write = old.write
    BY <1>1 DEF Handlers
  <2>3. Becomes(h, set)
    BY <1>5 DEF Told
  <2> HIDE DEF set
  <2>4. Own(set)
    BY <1>1, <1>2, <2>2 DEF Own
  <2>5. ~set.stale => Fresh(set, contacts, gone)
    BY <1>1, <1>2, <1>5, <2>2 DEF Fresh, Greeted
  <2> QED BY <1>1, <1>2, <1>3, <2>1, <2>2, <2>3, <2>4, <2>5, HandlerKeeps DEF Good, store, world
<1> QED BY <1>4, <1>5

\* The value is written: whoever else knew the contacts is overtaken.
LEMMA SetKeeps ==
  ASSUME IInv, NEW h \in Handler, Set(h)
  PROVE  IInv'
<1> DEFINE old == handlers[h]
           hd == [old EXCEPT !.at = "list", !.stale = FALSE]
           Left(o) == [handlers[o] EXCEPT !.stale = @ \/ (Known(o) /\ contacts' # contacts)]
<1>1. /\ old \in Handlers /\ Own(old) /\ RestOK /\ torn \in BOOLEAN
      /\ handlers \in [Handler -> Handlers]
  BY HandlerParts
<1>2. /\ old.at = "set" /\ contacts' = old.write
      /\ handlers' = [o \in Handler |-> IF o = h THEN hd ELSE Left(o)]
      /\ torn' = (torn \/ \E o \in Others(h) : At(o, "list"))
      /\ UNCHANGED <<listed, code, first, second, world, changes, faults>>
  BY DEF Set, At
<1>3. hd \in Handlers /\ \A o \in Handler : Left(o) \in Handlers
  BY <1>1 DEF Handlers, Place
<1>4. handlers'[h] = hd /\ \A o \in Handler : o # h => handlers'[o] = Left(o)
  BY <1>2
<1>5. /\ hd.at = "list" /\ hd.stale = FALSE /\ hd.after = old.after /\ hd.greet = old.greet
      /\ hd.write = old.write /\ hd.put = old.put /\ hd.told = old.told
  BY <1>1 DEF Handlers
<1>6. \A o \in Handler :
        /\ Left(o).at = handlers[o].at /\ Left(o).after = handlers[o].after
        /\ Left(o).tell = handlers[o].tell /\ Left(o).write = handlers[o].write
        /\ Left(o).put = handlers[o].put /\ Left(o).greet = handlers[o].greet
        /\ Left(o).told = handlers[o].told /\ Left(o).chat = handlers[o].chat
        /\ Left(o).stale = (handlers[o].stale \/ (Known(o) /\ contacts' # contacts))
  BY <1>1 DEF Handlers
<1>7. TypeOK'
  <2>1. handlers' \in [Handler -> Handlers]
    BY <1>2, <1>3
  <2>2. contacts' \in Contacts
    BY <1>1, <1>2 DEF Handlers
  <2>3. torn' \in BOOLEAN
    BY <1>2
  <2>4. RestOK'
    BY <1>1, <1>2 DEF RestOK, world
  <2> HIDE DEF hd, Left
  <2> QED BY <2>1, <2>2, <2>3, <2>4 DEF TypeOK, RestOK
<1> HIDE DEF hd, Left
<1>8. Good(hd, contacts', gone')
  <2>1. Own(hd)
    BY <1>1, <1>2, <1>5 DEF Own
  <2>2. Fresh(hd, contacts', gone')
    BY <1>1, <1>2, <1>5 DEF Own, Fresh
  <2> QED BY <2>1, <2>2 DEF Good
<1>9. ASSUME NEW o \in Handler, o # h PROVE Good(Left(o), contacts', gone')
  <2>1. Own(Left(o))
    BY <1>6, HandlerParts DEF Own
  <2>2. ASSUME ~Left(o).stale PROVE Fresh(Left(o), contacts', gone')
    <3>1. CASE contacts' = contacts
      <4>1. Fresh(handlers[o], contacts, gone)
        BY <1>6, <2>2, HandlerParts
      <4>2. gone' = gone
        BY <1>2 DEF world
      <4> QED BY <1>6, <3>1, <4>1, <4>2 DEF Fresh, Greeted
    <3>2. CASE ~Known(o)
      BY <1>6, <2>1, <3>2 DEF Own, Fresh, Known
    <3> QED BY <1>6, <2>2, <3>1, <3>2
  <2> QED BY <2>1, <2>2 DEF Good
<1>10. \A o \in Handler : Good(handlers'[o], contacts', gone')
  BY <1>4, <1>8, <1>9
<1>11. \A o \in Handler : At(o, "list")' /\ handlers'[o].stale => torn'
  <2> SUFFICES ASSUME NEW o \in Handler, handlers'[o].at = "list", handlers'[o].stale
               PROVE  torn'
    BY DEF At
  <2>1. o # h
    BY <1>4, <1>5
  <2>2. At(o, "list")
    BY <1>4, <1>6, <2>1 DEF At
  <2> QED BY <1>2, <2>1, <2>2 DEF Others
<1>12. ContactsAreWatched'
  <2>1. At(h, "list")'
    BY <1>4, <1>5 DEF At
  <2> QED BY <2>1 DEF ContactsAreWatched
<1> QED BY <1>7, <1>10, <1>11, <1>12 DEF IInv

\* The list follows: right again, if the value is still the one written, and nobody else
\* is between the two writes.
LEMMA ListKeeps ==
  ASSUME IInv, NEW h \in Handler, List(h)
  PROVE  IInv'
<1> DEFINE old == handlers[h]
           hd == Onward(old)
<1>1. /\ old \in Handlers /\ Own(old) /\ RestOK /\ torn \in BOOLEAN /\ contacts \in Contacts
      /\ handlers \in [Handler -> Handlers]
      /\ ~old.stale => Fresh(old, contacts, gone)
      /\ old.at = "list" /\ old.stale => torn
  BY HandlerParts DEF At
<1>2. /\ old.at = "list" /\ listed' = (old.write # {}) /\ Becomes(h, hd)
      /\ torn' = (torn /\ (old.stale \/ \E o \in Others(h) : At(o, "list")))
      /\ UNCHANGED <<contacts, code, first, second, world, changes, faults>>
  BY DEF List, At
<1>3. Good(hd, contacts, gone) /\ hd.at # "list"
  <2>1. old.after = "put" => /\ Narrow(old.greet) \/ old.greet = old.put
                             /\ ~old.stale => contacts \ old.put \subseteq Device \cup old.told
    BY <1>1, <1>2 DEF Own, Fresh
  <2>2. old.after = "greet" => Narrow(old.greet) \/ (~old.stale => contacts = old.greet)
    BY <1>1, <1>2 DEF Own, Fresh
  <2> QED BY <1>1, <2>1, <2>2, OnwardIsGood
<1>4. hd \in Handlers
  BY <1>1, OnwardTyped
<1> HIDE DEF hd
<1>5. handlers'[h] = hd /\ \A o \in Handler : o # h => handlers'[o] = handlers[o]
  BY <1>1, <1>2 DEF Becomes
<1>6. TypeOK'
  <2>1. handlers' \in [Handler -> Handlers]
    BY <1>1, <1>2, <1>4 DEF Becomes
  <2>2. RestOK'
    BY <1>1, <1>2 DEF RestOK, world
  <2>3. torn' \in BOOLEAN
    BY <1>1, <1>2
  <2> QED BY <1>1, <1>2, <2>1, <2>2, <2>3 DEF TypeOK, RestOK
<1>7. \A o \in Handler : Good(handlers'[o], contacts', gone')
  BY <1>2, <1>3, <1>5 DEF IInv, world
<1>8. \A o \in Handler : At(o, "list")' /\ handlers'[o].stale => torn'
  <2> SUFFICES ASSUME NEW o \in Handler, handlers'[o].at = "list", handlers'[o].stale
               PROVE  torn'
    BY DEF At
  <2>1. o # h /\ handlers'[o] = handlers[o]
    BY <1>3, <1>5
  <2>2. At(o, "list") /\ torn
    BY <2>1 DEF At, IInv
  <2> QED BY <1>2, <2>1, <2>2 DEF Others
<1>9. ContactsAreWatched'
  <2>1. CASE \E o \in Others(h) : At(o, "list")
    BY <1>5, <2>1 DEF Others, At, ContactsAreWatched
  <2>2. CASE torn'
    BY <2>2 DEF ContactsAreWatched
  <2>3. CASE ~torn' /\ ~\E o \in Others(h) : At(o, "list")
    <3>1. ~old.stale
      BY <1>1, <1>2, <2>3
    <3>2. contacts = old.write
      BY <1>1, <1>2, <3>1 DEF Fresh
    <3> QED BY <1>2, <3>2 DEF ContactsAreWatched
  <2> QED BY <2>1, <2>2, <2>3
<1> QED BY <1>6, <1>7, <1>8, <1>9 DEF IInv

LEMMA CheckKeeps ==
  ASSUME IInv, NEW h \in Handler, Check(h)
  PROVE  IInv'
<1> DEFINE hd == [Idle EXCEPT !.at = "scan", !.soon = {r \in Recovery : stage[r] = "soon"}]
<1>1. RestOK /\ torn \in BOOLEAN
  BY HandlerParts
<1>2. hd \in Handlers
  BY IdleTyped DEF Handlers, Place
<1>3. hd.at = "scan" /\ hd.after = "idle"
  BY DEF Idle
<1>4. ~At(h, "list") /\ Becomes(h, hd) /\ UNCHANGED <<store, world, torn, changes, faults>>
  BY DEF Check, At
<1> HIDE DEF hd
<1>5. Good(hd, contacts, gone)
  BY <1>3, RestIsGood
<1>6. RestOK'
  BY <1>1, <1>4 DEF RestOK, store, world
<1> QED BY <1>1, <1>2, <1>3, <1>4, <1>5, <1>6, HandlerKeeps DEF store, world

LEMMA ScanKeeps ==
  ASSUME IInv, NEW h \in Handler, Scan(h)
  PROVE  IInv'
<1> DEFINE hd == [handlers[h] EXCEPT !.about = Running]
<1>1. RestOK /\ torn \in BOOLEAN /\ handlers[h] \in Handlers
  BY HandlerParts
<1>2. hd \in Handlers
  BY <1>1 DEF Handlers, Running
<1>3. ~At(h, "list") /\ Becomes(h, Marking(hd)) /\ UNCHANGED <<store, world, torn, changes, faults>>
  BY DEF Scan, At
<1> HIDE DEF hd
<1>4. Good(Marking(hd), contacts, gone) /\ Marking(hd).at # "list" /\ Marking(hd) \in Handlers
  BY <1>2, MarkingIsGood, MarkingTyped
<1>5. RestOK'
  BY <1>1, <1>3 DEF RestOK, store, world
<1> QED BY <1>1, <1>3, <1>4, <1>5, HandlerKeeps DEF store, world

LEMMA MarkKeeps ==
  ASSUME IInv, NEW h \in Handler, NEW r \in Recovery, Mark(h, r)
  PROVE  IInv'
<1> DEFINE rest == [handlers[h] EXCEPT !.about = @ \ {r}]
           hd == [rest EXCEPT !.at = "read", !.of = r]
<1>1. RestOK /\ torn \in BOOLEAN /\ handlers[h] \in Handlers /\ Own(handlers[h])
  BY HandlerParts
<1>2. rest \in Handlers
  BY <1>1 DEF Handlers
<1>3. hd \in Handlers /\ hd.at = "read" /\ hd.after = handlers[h].after
  BY <1>1 DEF Handlers, Place
<1>4. handlers[h].after = "idle" /\ ~At(h, "list")
  BY <1>1 DEF Mark, Own, At
<1>5. /\ Becomes(h, hd) \/ Becomes(h, Marking(rest))
      /\ UNCHANGED <<contacts, listed, code, world, torn, changes, faults>>
  BY DEF Mark
<1>6. first' = first \cup {r} /\ second' \subseteq second \cup first
  BY DEF Mark
<1> HIDE DEF rest, hd
<1>7. Good(hd, contacts, gone)
  BY <1>3, <1>4, RestIsGood
<1>8. Good(Marking(rest), contacts, gone) /\ Marking(rest).at # "list" /\ Marking(rest) \in Handlers
  BY <1>2, MarkingIsGood, MarkingTyped
<1>9. RestOK'
  BY <1>1, <1>5, <1>6 DEF RestOK, world
<1>10. CASE Becomes(h, hd)
  BY <1>1, <1>3, <1>4, <1>5, <1>7, <1>9, <1>10, HandlerKeeps DEF world
<1>11. CASE Becomes(h, Marking(rest))
  BY <1>1, <1>4, <1>5, <1>8, <1>9, <1>11, HandlerKeeps DEF world
<1> QED BY <1>5, <1>10, <1>11

LEMMA ReadKeeps ==
  ASSUME IInv, NEW h \in Handler, Read(h)
  PROVE  IInv'
<1> DEFINE hd == [handlers[h] EXCEPT !.tell = contacts, !.after = "mark"]
<1>1. RestOK /\ torn \in BOOLEAN /\ handlers[h] \in Handlers /\ contacts \in Contacts
  BY HandlerParts
<1>2. hd \in Handlers /\ hd.tell = contacts /\ hd.after = "mark"
  BY <1>1 DEF Handlers
<1>3. ~At(h, "list") /\ Becomes(h, Telling(hd)) /\ UNCHANGED <<store, world, torn, changes, faults>>
  BY DEF Read, At
<1> HIDE DEF hd
<1>4. Good(Telling(hd), contacts, gone) /\ Telling(hd).at # "list"
  BY <1>2, TellingIsGood
<1>5. Telling(hd) \in Handlers
  BY <1>2, TellingTyped
<1>6. RestOK'
  BY <1>1, <1>3 DEF RestOK, store, world
<1> QED BY <1>1, <1>3, <1>4, <1>5, <1>6, HandlerKeeps DEF store, world

LEMMA StopKeeps ==
  ASSUME IInv, NEW h \in Handler, Stop(h)
  PROVE  IInv'
<1>1. RestOK /\ torn \in BOOLEAN
  BY HandlerParts
<1>2. /\ Becomes(h, Idle) /\ UNCHANGED <<store, world, changes>> /\ torn' = (torn \/ At(h, "list"))
      /\ faults' \in 0..MaxFaults
  BY <1>1, AlertsAssumption DEF Stop, Fault, RestOK
<1>3. Good(Idle, contacts, gone) /\ Idle.at # "list" /\ Idle \in Handlers
  BY IdleIsGood, IdleTyped DEF Idle
<1>4. RestOK'
  BY <1>1, <1>2 DEF RestOK, store, world
<1>5. UNCHANGED <<contacts, listed, gone>> /\ torn' \in BOOLEAN /\ (torn => torn')
      /\ (At(h, "list") => torn')
  BY <1>2 DEF store, world
<1> QED BY <1>2, <1>3, <1>4, <1>5, HandlerKeeps

LEMMA WorksKeeps ==
  ASSUME IInv, NEW h \in Handler, Works(h)
  PROVE  IInv'
<1>1. CASE Tell(h)
  <2>1. faults' \in 0..MaxFaults
    BY <1>1, HandlerParts DEF Tell, RestOK
  <2>2. PICK missed : missed = {}
    OBVIOUS
  <2>3. Sends(h, missed)
    BY <1>1, <2>2 DEF Tell
  <2> QED BY <2>1, <2>3, SendsKeeps
<1> QED BY <1>1, TakeKeeps, LinkedKeeps, ToldKeeps, SetKeeps, ListKeeps, ScanKeeps, MarkKeeps,
           ReadKeeps DEF Works

LEMMA MissesKeeps ==
  ASSUME IInv, NEW h \in Handler, Misses(h)
  PROVE  IInv'
<1>1. faults \in 0..MaxFaults
  BY DEF IInv, TypeOK
<1>2. faults' \in 0..MaxFaults
  BY <1>1, AlertsAssumption DEF Misses, Fault
<1>3. PICK missed : Sends(h, missed)
  BY DEF Misses
<1> QED BY <1>2, <1>3, SendsKeeps

\* The chain, the clock and a push service.
LEMMA OutsideKeeps ==
  ASSUME IInv,
         \/ \E r \in Recovery : Starts(r) \/ LastDay(r) \/ Ends(r)
         \/ \E d \in Device : Unsubscribes(d)
         \/ CodeExpires
  PROVE  IInv'
<1>1. RestOK
  BY DEF IInv, TypeOK, RestOK
<1>2. ASSUME NEW r \in Recovery, Starts(r) \/ LastDay(r) \/ Ends(r) PROVE IInv'
  <2>1. /\ \E to \in {"early", "soon", "over"} : stage' = [stage EXCEPT ![r] = to]
        /\ UNCHANGED <<store, handlers, gone, torn, changes, faults>>
    BY <1>2 DEF Starts, LastDay, Ends, Turns
  <2>2. stage' \in [Recovery -> {"none", "early", "soon", "over"}]
    BY <1>1, <2>1 DEF RestOK
  <2>3. RestOK'
    BY <1>1, <2>1, <2>2 DEF RestOK, store
  <2> QED BY <2>1, <2>3, WorldKeeps DEF store
<1>3. ASSUME NEW d \in Device, Unsubscribes(d) PROVE IInv'
  <2>1. gone' = gone \cup {d} /\ UNCHANGED <<store, handlers, stage, torn, changes, faults>>
    BY <1>3 DEF Unsubscribes
  <2>2. RestOK'
    BY <1>1, <2>1 DEF RestOK, store
  <2> QED BY <2>1, <2>2, WorldKeeps DEF store
<1>4. CASE CodeExpires
  <2>1. code' = FALSE /\ UNCHANGED <<contacts, listed, first, second, handlers, world, torn, changes, faults>>
    BY <1>4 DEF CodeExpires
  <2>2. RestOK'
    BY <1>1, <2>1 DEF RestOK, world
  <2> QED BY <2>1, <2>2, WorldKeeps DEF world
<1> QED BY <1>2, <1>3, <1>4

LEMMA InitIsGood == Init => IInv
<1> SUFFICES ASSUME Init PROVE IInv
  OBVIOUS
<1>1. TypeOK
  <2>1. contacts \in Contacts
    BY AlertsAssumption DEF Init
  <2>2. handlers \in [Handler -> Handlers] /\ stage \in [Recovery -> {"none", "early", "soon", "over"}]
    BY IdleTyped DEF Init
  <2>3. changes \in 0..MaxChanges /\ faults \in 0..MaxFaults
    BY AlertsAssumption DEF Init
  <2> QED BY <2>1, <2>2, <2>3 DEF Init, TypeOK
<1>2. \A h \in Handler : Good(handlers[h], contacts, gone)
  BY IdleIsGood DEF Init
<1>3. \A h \in Handler : ~At(h, "list")
  BY DEF Init, Idle, At
<1>4. ContactsAreWatched
  BY DEF Init, ContactsAreWatched
<1> QED BY <1>1, <1>2, <1>3, <1>4 DEF IInv

LEMMA StepKeeps == IInv /\ [Next]_vars => IInv'
<1> SUFFICES ASSUME IInv, [Next]_vars PROVE IInv'
  OBVIOUS
<1>1. CASE UNCHANGED vars
  <2>1. RestOK'
    BY <1>1 DEF IInv, TypeOK, RestOK, vars, store, world
  <2> QED BY <1>1, <2>1, WorldKeeps DEF vars, store, world
<1>2. ASSUME NEW h \in Handler, Changes(h) \/ Works(h) \/ Check(h) \/ Stop(h) \/ Misses(h)
      PROVE  IInv'
  BY <1>2, ChangeKeeps, WorksKeeps, CheckKeeps, StopKeeps, MissesKeeps
<1> QED BY <1>1, <1>2, OutsideKeeps DEF Next

LEMMA Invariant == Spec => []IInv
<1> QED BY InitIsGood, StepKeeps, PTL DEF Spec

-----------------------------------------------------------------------------
(***************************************************************************)
(* Theorems.                                                               *)
(***************************************************************************)
\* Whatever changes, prunings and lost updates meet, what is written is one email, one
\* chat and no more subscriptions than are kept.
THEOREM AlertsTyped == Spec => []TypeOK
<1>1. IInv => TypeOK
  BY DEF IInv
<1> QED BY <1>1, Invariant, PTL

\* putContacts keeps the list of watched wallets in step with the contacts, unless two
\* writes cross or one stops halfway, and the next one that runs alone repairs it.
THEOREM ContactsStayWatched == Spec => []ContactsAreWatched
<1>1. IInv => ContactsAreWatched
  BY DEF IInv
<1> QED BY <1>1, Invariant, PTL

\* An email or a chat leaves only after a message to it, but for the two ways the
\* property names: another handler in between, and a greeting to a device that is gone.
THEOREM NoneIsRemovedUntold == Spec => NoneLeavesUntold
<1>1. ASSUME IInv, NEW h \in Handler, Set(h)
      PROVE  \/ contacts \ contacts' \subseteq Device \cup handlers[h].told
             \/ handlers[h].stale
             \/ handlers[h].tell # {} /\ handlers[h].tell \subseteq gone
  <2>1. handlers[h].at = "set" /\ contacts' = handlers[h].write
    BY <1>1 DEF Set, At
  <2>2. ~handlers[h].stale => Fresh(handlers[h], contacts, gone)
    BY <1>1, HandlerParts
  <2> QED BY <2>1, <2>2 DEF Fresh, Greeted
<1>2. IInv /\ [Next]_vars =>
        [\A h \in Handler : Set(h) =>
           \/ contacts \ contacts' \subseteq Device \cup handlers[h].told
           \/ handlers[h].stale
           \/ handlers[h].tell # {} /\ handlers[h].tell \subseteq gone]_vars
  BY <1>1
<1> QED BY <1>2, Invariant, PTL DEF Spec, NoneLeavesUntold
=============================================================================
