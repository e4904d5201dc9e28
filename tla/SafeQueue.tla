----------------------------- MODULE SafeQueue -----------------------------
(***************************************************************************)
(* A Safe's waiting transactions (web/app/api/safe/queue/route.ts), and    *)
(* the pages of its owners that share, sign, number, remove and execute    *)
(* them (web/lib/safe/share.ts, web/lib/safe/send.ts, TxPage, Waiting).    *)
(*                                                                         *)
(* The server keeps two JSON values per Safe, the queue and the dropped    *)
(* list.  A handler reads a value, waits, and writes the whole of it back: *)
(* every read and every write is a step, and handlers interleave between   *)
(* them.  Each owner has one page, with its browser's storage.             *)
(*                                                                         *)
(* Left out: Safe's own service, which only adds signatures to what a page *)
(* sees, the 30 days a value lives, and chain nodes that lag.              *)
(***************************************************************************)
EXTENDS Integers, FiniteSets, FiniteSetsExt

CONSTANTS
  Owner,
  Threshold,
  MAX,        \* the most transactions in a queue, 30
  DroppedMax, \* the most hashes on a dropped list, 100
  MaxTx,      \* bound: transactions ever made
  MaxCalls,   \* bound: HTTP calls in progress at once
  MaxBegun,   \* bound: HTTP calls ever
  MaxFaults   \* bound: kinds of trouble in one behaviour

ASSUME SafeAssumption ==
  /\ IsFiniteSet(Owner) /\ Threshold \in 1..Cardinality(Owner)
  /\ MAX \in Nat /\ DroppedMax \in Nat
  /\ MaxTx \in Nat /\ MaxCalls \in Nat /\ MaxBegun \in Nat /\ MaxFaults \in Nat

Tx == 1..MaxTx          \* a transaction stands for its hash
Call == 1..MaxCalls
Sigs == [Tx -> SUBSET Owner]
Nothing == [t \in Tx |-> {}]

VARIABLES
  made,      \* transactions made so far
  num,       \* the number each was made for
  nonce,     \* chain: the Safe's nonce
  queue,     \* queue:<chain>:<safe>: who signed each entry; {} = no entry
  dropped,   \* dropped:<chain>:<safe>
  calls,     \* the handlers in progress
  begun,     \* how many were begun, against MaxBegun
  page,      \* what each owner's page is doing
  local,     \* each browser's iws.waiting
  signed,    \* history: who signed what
  acked,     \* history: the signatures a POST answered ok for
  asked,     \* history: <<transaction, owner>>, a removal the server took on
  removed,   \* history: transactions a DELETE answered ok for
  clobbered, \* history: a handler wrote a value that had changed since it read it
  faults     \* history: what has gone wrong

server == <<queue, dropped>>
history == <<signed, acked, asked, removed>>
vars == <<begun, made, num, nonce, server, calls, page, local, history, clobbered, faults>>

NoCall == [kind |-> "none", at |-> "idle", tx |-> 0, by |-> {}, n |-> 0,
           q |-> Nothing, d |-> {}, stale |-> {}]
Idle == [at |-> "idle", tx |-> 0, view |-> {}, n |-> 0, call |-> 0, known |-> {}]

Handler == [kind : {"none", "get", "post", "delete"}, at : {"idle", "chain", "read", "queue", "dropped"},
            tx : {0} \cup Tx, by : SUBSET Owner, n : Nat, q : Sigs, d : SUBSET Tx,
            stale : SUBSET {"queue", "dropped"}]
Page == [at : {"idle", "picking", "opening", "ready", "sharing", "removing"}, tx : {0} \cup Tx,
         view : SUBSET Owner, n : Nat, call : {0} \cup Call, known : SUBSET Tx]

\* A number is never beyond the transactions made: each follows one that is waiting.
TypeOK ==
  /\ made \in {0} \cup Tx /\ num \in [Tx -> 0..MaxTx] /\ nonce \in 0..MaxTx
  /\ \A t \in 1..made : num[t] < made
  /\ queue \in Sigs /\ dropped \subseteq Tx
  /\ calls \in [Call -> Handler] /\ begun \in 0..MaxBegun /\ page \in [Owner -> Page]
  /\ local \in [Owner -> Sigs]
  /\ signed \in Sigs /\ acked \in Sigs
  /\ asked \subseteq Tx \X Owner /\ removed \subseteq Tx
  /\ clobbered \in BOOLEAN /\ faults \subseteq {"crash", "timeout"}

Init ==
  /\ begun = 0 /\ made = 0 /\ num = [t \in Tx |-> 0] /\ nonce = 0
  /\ queue = Nothing /\ dropped = {}
  /\ calls = [c \in Call |-> NoCall]
  /\ page = [p \in Owner |-> Idle]
  /\ local = [p \in Owner |-> Nothing]
  /\ signed = Nothing /\ acked = Nothing /\ asked = {} /\ removed = {}
  /\ clobbered = FALSE /\ faults = {}

-----------------------------------------------------------------------------
(***************************************************************************)
(* Helpers.                                                                *)
(***************************************************************************)
Entries(q) == {t \in Tx : q[t] # {}}

\* live: what the Safe's nonce has not passed.
Live(q, n) == [t \in Tx |-> IF num[t] >= n THEN q[t] ELSE {}]

\* Mutant: a removed transaction is over at the Safe's nonce, when it is next in line.
StillDroppedAfter(d, n) == {t \in d : num[t] > n}

StillDropped(d, n) == {t \in d : num[t] >= n}

\* Mutant: the signatures of a post replace those the queue has.
WithNewest(q, t, by) == [q EXCEPT ![t] = by]

WithSigs(q, t, by) == [q EXCEPT ![t] = @ \cup by]

\* A handler takes the first free place; places have no other meaning.
Start(c, call) ==
  /\ calls[c] = NoCall
  /\ \A d \in Call : calls[d] = NoCall => c <= d
  /\ begun < MaxBegun /\ begun' = begun + 1
  /\ calls' = [calls EXCEPT ![c] = call]

\* Call c writes a value: what others have read of it is old from here on.
Write(c, value, next) ==
  /\ calls' = [d \in Call |->
                 IF d = c THEN next
                 ELSE IF calls[d].at \in {"idle", "read"} THEN calls[d]
                 ELSE [calls[d] EXCEPT !.stale = @ \cup {value}]]
  /\ clobbered' = (clobbered \/ value \in calls[c].stale)

Waits(p, c) == page[p].call = c

\* The page that called goes on, if it still waits.
AnswerPage(c, P(_)) ==
  \/ \E p \in Owner : Waits(p, c) /\ P(p)
  \/ (\A p \in Owner : ~Waits(p, c)) /\ UNCHANGED <<made, num, page, local>>

-----------------------------------------------------------------------------
(***************************************************************************)
(* What a page does with a list: `ts' from the queue, `ds' dropped.        *)
(***************************************************************************)
\* Mutant: what is next in line is forgotten with what has passed.
PruneNext(p, n) == [t \in Tx |-> IF num[t] <= n THEN {} ELSE local[p][t]]

\* readWaiting takes what has passed out of the browser's storage.
Prune(p, n) == [t \in Tx |-> IF num[t] < n THEN {} ELSE local[p][t]]

\* readWaiting: queue and browser merged, without the dropped ones.
Waiting(p, n, ts, ds) ==
  [t \in Tx |-> IF t \in ds \/ num[t] < n THEN {} ELSE ts[t] \cup local[p][t]]

\* Mutant: only what this browser keeps counts as waiting.
FreshHere(p, n, ts, ds) == Max({n} \cup {num[t] + 1 : t \in Entries(Prune(p, n))})

\* Mutant: the last number queued is counted on top of the list.
FreshTwice(p, n, ts, ds) ==
  Max({n} \cup {num[t] + 2 : t \in Entries(Waiting(p, n, ts, ds))})

\* freshNonce, after the one waiting last.  The map `queued' never moves it: a
\* number is held there only while the list has it.
FreshNonce(p, n, ts, ds) ==
  Max({n} \cup {num[t] + 1 : t \in Entries(Waiting(p, n, ts, ds))})

\* Home's list is only shown; a send goes on to its number and its hash.
Picked(p, ts, ds, known) ==
  LET n == page[p].n IN
  /\ local' = [local EXCEPT ![p] = Prune(p, n)]
  /\ \/ page' = [page EXCEPT ![p] = Idle] /\ UNCHANGED <<made, num>>
     \/ /\ made < MaxTx
        /\ made' = made + 1
        /\ num' = [num EXCEPT ![made'] = FreshNonce(p, n, ts, ds)]
        /\ page' = [page EXCEPT ![p] = [Idle EXCEPT !.at = "ready", !.tx = made', !.n = n,
                                                     !.known = known]]

\* TxPage's load: the link's signatures and those of the list.
Opened(p, ts, ds) ==
  LET t == page[p].tx IN
  /\ page' = [page EXCEPT ![p].at = "ready", ![p].call = 0,
                          ![p].view = @ \cup Waiting(p, 0, ts, ds)[t]]
  /\ UNCHANGED <<made, num, local>>

GotList(p, ts, ds) ==
  \/ page[p].at = "picking" /\ Picked(p, ts, ds, page[p].known)
  \/ page[p].at = "opening" /\ Opened(p, ts, ds)

Done(p) == page' = [page EXCEPT ![p] = Idle] /\ UNCHANGED <<made, num, local>>

\* dropTx forgets the transaction here too.
Forget(p) ==
  /\ local' = [local EXCEPT ![p][page[p].tx] = {}]
  /\ page' = [page EXCEPT ![p] = Idle] /\ UNCHANGED <<made, num>>

\* A call fails or times out: a list is then the browser's own, an answer never comes.
GoesWithout(p) ==
  \/ page[p].at = "picking" /\ Picked(p, Nothing, {}, {})
  \/ page[p].at = "opening" /\ Opened(p, Nothing, {})
  \/ page[p].at \in {"sharing", "removing"} /\ Done(p)

-----------------------------------------------------------------------------
(***************************************************************************)
(* GET: read both values; ask the chain; drop what is all passed.          *)
(***************************************************************************)
\* What a list has left to drop, once the chain has answered.
Drops(q, d, n) ==
  {v \in {"queue", "dropped"} :
     \/ v = "queue" /\ Entries(q) # {} /\ Entries(Live(q, n)) = {}
     \/ v = "dropped" /\ d # {} /\ StillDropped(d, n) = {}}

AskChain(c) ==
  LET q == calls[c].q
      d == calls[c].d
      todo == Drops(q, d, nonce)
  IN
  /\ calls[c].kind = "get" /\ calls[c].at = "chain"
  /\ IF todo = {}
       THEN /\ calls' = [calls EXCEPT ![c] = NoCall]
            /\ AnswerPage(c, LAMBDA p : GotList(p, Live(q, nonce), StillDropped(d, nonce)))
       ELSE /\ calls' = [calls EXCEPT ![c].n = nonce,
                                      ![c].at = IF "queue" \in todo THEN "queue" ELSE "dropped"]
            /\ UNCHANGED <<made, num, page, local>>
  /\ UNCHANGED <<begun, nonce, server, history, clobbered, faults>>

AnswerList(c) ==
  AnswerPage(c, LAMBDA p : GotList(p, Live(calls[c].q, calls[c].n), StillDropped(calls[c].d, calls[c].n)))

DropQueue(c) ==
  LET more == "dropped" \in Drops(calls[c].q, calls[c].d, calls[c].n) IN
  /\ calls[c].kind = "get" /\ calls[c].at = "queue"
  /\ queue' = Nothing
  /\ Write(c, "queue", IF more THEN [calls[c] EXCEPT !.at = "dropped"] ELSE NoCall)
  /\ IF more THEN UNCHANGED <<made, num, page, local>> ELSE AnswerList(c)
  /\ UNCHANGED <<begun, nonce, dropped, history, faults>>

DropDropped(c) ==
  /\ calls[c].kind = "get" /\ calls[c].at = "dropped"
  /\ dropped' = {}
  /\ Write(c, "dropped", NoCall)
  /\ AnswerList(c)
  /\ UNCHANGED <<begun, nonce, queue, history, faults>>

-----------------------------------------------------------------------------
(***************************************************************************)
(* POST: the chain's nonce and its word on every signature came with the   *)
(* call; read the queue, merge, write it back whole.                       *)
(***************************************************************************)
ReadAndMerge(c) ==
  LET q == WithSigs(Live(queue, calls[c].n), calls[c].tx, calls[c].by) IN
  /\ calls[c].kind = "post" /\ calls[c].at = "read"
  /\ IF Cardinality(Entries(q)) <= MAX
       THEN /\ calls' = [calls EXCEPT ![c].at = "queue", ![c].q = q]
            /\ UNCHANGED <<made, num, page, local>>
       ELSE calls' = [calls EXCEPT ![c] = NoCall] /\ AnswerPage(c, Done)
  /\ UNCHANGED <<begun, nonce, server, history, clobbered, faults>>

StashMerged(c) ==
  /\ calls[c].kind = "post" /\ calls[c].at = "queue"
  /\ queue' = calls[c].q
  /\ Write(c, "queue", NoCall)
  /\ acked' = [acked EXCEPT ![calls[c].tx] = @ \cup calls[c].by]
  /\ AnswerPage(c, Done)
  /\ UNCHANGED <<begun, nonce, dropped, signed, asked, removed, faults>>

-----------------------------------------------------------------------------
(***************************************************************************)
(* DELETE, once the owner's signature is checked: read both values, write  *)
(* the queue, write the dropped list.                                      *)
(***************************************************************************)
ReadBoth(c) ==
  /\ calls[c].kind = "delete" /\ calls[c].at = "read"
  /\ calls' = [calls EXCEPT ![c].at = "queue", ![c].q = queue, ![c].d = dropped]
  /\ UNCHANGED <<begun, made, num, nonce, server, page, local, history, clobbered, faults>>

StashWithout(c) ==
  LET q == calls[c].q
      t == calls[c].tx
      next == [calls[c] EXCEPT !.at = "dropped"] IN
  /\ calls[c].kind = "delete" /\ calls[c].at = "queue"
  /\ IF q[t] # {}
       THEN queue' = [q EXCEPT ![t] = {}] /\ Write(c, "queue", next)
       ELSE calls' = [calls EXCEPT ![c] = next] /\ UNCHANGED <<queue, clobbered>>
  /\ UNCHANGED <<begun, made, num, nonce, dropped, page, local, history, faults>>

\* A full list is an error, after the queue was written.
StashDropped(c) ==
  LET d == calls[c].d \cup {calls[c].tx} IN
  /\ calls[c].kind = "delete" /\ calls[c].at = "dropped"
  /\ IF Cardinality(d) <= DroppedMax
       THEN /\ dropped' = d /\ Write(c, "dropped", NoCall)
            /\ removed' = removed \cup {calls[c].tx}
            /\ AnswerPage(c, Forget)
       ELSE /\ calls' = [calls EXCEPT ![c] = NoCall]
            /\ AnswerPage(c, Done)
            /\ UNCHANGED <<dropped, removed, clobbered>>
  /\ UNCHANGED <<begun, nonce, queue, signed, acked, asked, faults>>

-----------------------------------------------------------------------------
(***************************************************************************)
(* The pages.                                                              *)
(***************************************************************************)
Waitable == {t \in Tx : acked[t] # {}}

StartGet(c) == Start(c, [NoCall EXCEPT !.kind = "get", !.at = "chain", !.q = queue, !.d = dropped])

\* Home loads its list, or a send asks for a number: the chain's nonce first.
Look(p, c) ==
  /\ page[p].at = "idle"
  /\ StartGet(c)
  /\ page' = [page EXCEPT ![p] = [Idle EXCEPT !.at = "picking", !.n = nonce, !.call = c,
                                              !.known = Waitable]]
  /\ UNCHANGED <<made, num, nonce, server, local, history, clobbered, faults>>

\* A transaction's page, from the link of r's browser, which carries what r has.
Open(p, c, t, r) ==
  /\ page[p].at = "idle" /\ t <= made
  /\ StartGet(c)
  /\ page' = [page EXCEPT ![p] = [Idle EXCEPT !.at = "opening", !.tx = t, !.n = nonce, !.call = c,
                                              !.view = local[r][t]]]
  /\ UNCHANGED <<made, num, nonce, server, local, history, clobbered, faults>>

\* Reject: a transaction of just the fee, at the number of a waiting one.
Reject(p, t) ==
  /\ page[p].at = "ready" /\ page[p].tx = t /\ page[p].view # {} /\ num[t] >= page[p].n
  /\ made < MaxTx
  /\ made' = made + 1
  /\ num' = [num EXCEPT ![made'] = num[t]]
  /\ page' = [page EXCEPT ![p] = [Idle EXCEPT !.at = "ready", !.tx = made', !.n = page[p].n]]
  /\ UNCHANGED <<begun, nonce, server, calls, local, history, clobbered, faults>>

\* Sign, keep it here, post it with everything else known of it.  A number that
\* has passed is an error of the handler's first step.
Sign(p, c) ==
  LET t == page[p].tx
      all == local[p][t] \cup page[p].view \cup {p} IN
  /\ page[p].at = "ready" /\ p \notin page[p].view
  /\ local' = [local EXCEPT ![p][t] = all]
  /\ signed' = [signed EXCEPT ![t] = @ \cup {p}]
  /\ IF num[t] >= nonce
       THEN /\ Start(c, [NoCall EXCEPT !.kind = "post", !.at = "read", !.tx = t, !.by = all, !.n = nonce])
            /\ page' = [page EXCEPT ![p] = [Idle EXCEPT !.at = "sharing", !.tx = t, !.call = c]]
       ELSE page' = [page EXCEPT ![p] = Idle] /\ UNCHANGED <<begun, calls>>
  /\ UNCHANGED <<made, num, nonce, server, acked, asked, removed, clobbered, faults>>

\* Remove, with an owner's signature, from the page or from home's list.
Remove(p, c) ==
  LET t == page[p].tx IN
  /\ page[p].at = "ready" /\ page[p].view # {}
  /\ Start(c, [NoCall EXCEPT !.kind = "delete", !.at = "read", !.tx = t])
  /\ asked' = asked \cup {<<t, p>>}
  /\ page' = [page EXCEPT ![p] = [Idle EXCEPT !.at = "removing", !.tx = t, !.call = c]]
  /\ UNCHANGED <<made, num, nonce, server, local, signed, acked, removed, clobbered, faults>>

\* Execute: enough signatures, and the number is next; it lands if it still is.
Execute(p) ==
  LET t == page[p].tx IN
  /\ page[p].at = "ready" /\ Cardinality(page[p].view) >= Threshold
  /\ num[t] = page[p].n
  /\ nonce' = IF num[t] = nonce THEN nonce + 1 ELSE nonce
  /\ page' = [page EXCEPT ![p] = Idle]
  /\ UNCHANGED <<begun, made, num, server, calls, local, history, clobbered, faults>>

Leave(p) ==
  /\ page[p].at = "ready"
  /\ Done(p)
  /\ UNCHANGED <<begun, nonce, server, calls, history, clobbered, faults>>

-----------------------------------------------------------------------------
(***************************************************************************)
(* What goes wrong.                                                        *)
(***************************************************************************)
Happens(t) ==
  /\ t \notin faults /\ Cardinality(faults) < MaxFaults
  /\ faults' = faults \cup {t}

\* A handler's server stops, and its page gets an error.
Crash(c) ==
  /\ Happens("crash") /\ calls[c] # NoCall
  /\ calls' = [calls EXCEPT ![c] = NoCall]
  /\ AnswerPage(c, GoesWithout)
  /\ UNCHANGED <<begun, nonce, server, history, clobbered>>

\* The page stops waiting; the handler goes on.
TimesOut(p) ==
  /\ Happens("timeout") /\ page[p].call # 0
  /\ GoesWithout(p)
  /\ UNCHANGED <<begun, nonce, server, calls, history, clobbered>>

-----------------------------------------------------------------------------
Server(c) ==
  \/ AskChain(c) \/ DropQueue(c) \/ DropDropped(c)
  \/ ReadAndMerge(c) \/ StashMerged(c)
  \/ ReadBoth(c) \/ StashWithout(c) \/ StashDropped(c)

Pages(p) ==
  \/ \E c \in Call : Look(p, c) \/ Sign(p, c) \/ Remove(p, c)
  \/ \E c \in Call, t \in Tx, r \in Owner : Open(p, c, t, r)
  \/ \E t \in Tx : Reject(p, t)
  \/ Execute(p) \/ Leave(p)

Next ==
  \/ \E c \in Call : Server(c) \/ Crash(c)
  \/ \E p \in Owner : Pages(p) \/ TimesOut(p)

Spec == Init /\ [][Next]_vars

-----------------------------------------------------------------------------
(***************************************************************************)
(* Properties.                                                             *)
(***************************************************************************)
Ahead(t) == num[t] >= nonce
Asked(t) == \E p \in Owner : <<t, p>> \in asked

\* "Four places. One working is enough": whatever the server does, a signature stays
\* in the browser it was given in, and so in its links, until its number has passed
\* or its owner removes it there.
KeptByItsSigner ==
  \A t \in Tx : \A p \in signed[t] : Ahead(t) /\ <<t, p>> \notin asked => p \in local[p][t]

\* A signature the queue took is there until its number has passed or an owner removes
\* it, through crashes, timeouts and a moving chain; it takes two handlers at once,
\* one writing what the other has changed, to lose it.
TakenIsKept ==
  ~clobbered => \A t \in Tx : Ahead(t) /\ ~Asked(t) => acked[t] \subseteq queue[t]

\* What was removed stays on the dropped list "till the Safe's nonce passes it",
\* whoever shares it again; again but for two handlers at once.
RemovedStaysHidden ==
  ~clobbered => \A t \in removed : Ahead(t) => t \in dropped

\* A send is numbered after all that its Safe's queue had taken when its page began to
\* look, and that has not passed: "two waiting with one number, sending one kills the
\* other".  Two pages that look at once still clash.
NumberedAfterTheQueue ==
  ~clobbered => \A p \in Owner : page[p].at = "ready" =>
    \A t \in page[p].known : Ahead(t) /\ ~Asked(t) => num[t] < num[page[p].tx]
=============================================================================
