--------------------------- MODULE ScholarBalances ---------------------------
(***************************************************************************)
(* The projection of learn_token's mint and burn events into the table     *)
(* scholar_balances, behind the leaderboard: the journal of the events     *)
(* counted (lrn_balance_events), the running totals beside it, and the     *)
(* checkpoint in indexer_state.  Poll ticks overlap, since setInterval     *)
(* does not wait for the previous tick; an operator replays a range of     *)
(* ledgers or recomputes the totals meanwhile; the node forgets old        *)
(* ledgers, its answers fail, and the process dies between any two awaits. *)
(***************************************************************************)
EXTENDS Integers, Sequences, Totals

CONSTANTS
  Addresses,      \* holders of LRN
  Amounts,        \* amounts minted or burned at once
  Ticks,          \* poll ticks that can run at the same time
  Scripts,        \* backfill scripts that can run at the same time
  PageSize,       \* PAGE_SIZE
  MaxPages,       \* MAX_PAGES
  StartingLedger, \* INDEXER_CONFIG.startingLedger, STARTING_LEDGER
  ReplayFrom,     \* the values of --from an operator uses
  Retention,      \* ledgers the node keeps
  MinLrn,         \* PEER_REVIEW_MIN_LRN
  Reward,         \* PEER_REVIEW_LRN_REWARD
  MaxLedger, MaxEvents, MaxFailures, MaxRewards \* bounds of the exploration

ASSUME BalancesAssumption ==
  /\ Amounts \subseteq Nat \ {0}
  /\ PageSize \in Nat \ {0} /\ MaxPages \in Nat \ {0}
  /\ StartingLedger \in Nat /\ ReplayFrom \subseteq Nat \ {0}
  /\ Retention \in Nat \ {0} /\ MinLrn \in Int /\ Reward \in Nat
  /\ {MaxLedger, MaxEvents, MaxFailures, MaxRewards} \subseteq Nat

Workers == Ticks \cup Scripts

VARIABLES
  chain,      \* the events of learn_token, each with its place in the chain
  head,       \* the latest ledger
  oldest,     \* the oldest ledger the node still has
  journal,    \* lrn_balance_events
  balance,    \* scholar_balances.lrn_balance
  checkpoint, \* last_processed_ledger of the projection, 0 without a row
  sync,       \* the local variables of every running sync
  rebuilding, \* a transaction of rebuildScholarBalances is open
  snapshot,   \* the journal as that transaction sees it
  rewards,    \* peer review rewards an address received outside the journal
  failures    \* answers that failed, processes that died

chainVars == <<chain, head, oldest>>
rebuildVars == <<rebuilding, snapshot>>
tableVars == <<journal, balance, checkpoint, rewards>>
vars == <<chainVars, tableVars, sync, rebuildVars, failures>>

-----------------------------------------------------------------------------
(* A row of the journal is an event: event is its id, which orders the     *)
(* events of the chain as "<ledger>-<tx>-<index>" does.                    *)
Kinds == {"mint", "burn"}
Rows == [event : Nat, ledger : Nat, address : Addresses, kind : Kinds, amount : Amounts]
RowAmount == [r \in Rows |-> r.amount]

RowsOf(S, a, k) == {r \in S : r.address = a /\ r.kind = k}

\* SUM(delta) of the rows in S for address a
SumDelta(S, a) == Total(RowAmount, RowsOf(S, a, "mint")) - Total(RowAmount, RowsOf(S, a, "burn"))

Larger(x, y) == IF x < y THEN y ELSE x

\* the PageSize first of a set of events
Page(S) == {r \in S : Cardinality({q \in S : q.event < r.event}) < PageSize}

Ledgers(S) == {r.ledger : r \in S}
Highest(S, none) == IF S = {} THEN none ELSE CHOOSE l \in S : \A m \in S : m <= l

Idle == [pc |-> "idle", start |-> 0, end |-> 0, last |-> 0, cursor |-> 0, pages |-> 0,
         page |-> {}, persist |-> TRUE]

\* getLrnBalanceCheckpoint: the checkpoint, else the configured start, else
\* the highest ledger of the journal
ResumePoint ==
  IF checkpoint > 0 THEN checkpoint
  ELSE IF StartingLedger > 0 THEN StartingLedger
  ELSE Highest(Ledgers(journal), StartingLedger)

-----------------------------------------------------------------------------
Init ==
  /\ chain = {} /\ head = Larger(StartingLedger, 1) /\ oldest = 1
  /\ journal = {} /\ balance = [a \in Addresses |-> 0] /\ checkpoint = 0
  /\ sync = [w \in Workers |-> Idle]
  /\ rebuilding = FALSE /\ snapshot = {}
  /\ rewards = [a \in Addresses |-> 0]
  /\ failures = 0

\* A ledger closes with some mints and burns; nobody burns more than it has.
CloseLedger ==
  /\ head < MaxLedger
  /\ \E n \in 0 .. MaxEvents - Cardinality(chain) :
       \E es \in [1 .. n -> [address : Addresses, kind : Kinds, amount : Amounts]] :
         /\ chain' = chain \cup
              {[event |-> Cardinality(chain) + i, ledger |-> head + 1, address |-> es[i].address,
                kind |-> es[i].kind, amount |-> es[i].amount] : i \in 1 .. n}
         /\ \A r \in chain' : SumDelta({q \in chain' : q.event <= r.event}, r.address) >= 0
  /\ head' = head + 1
  /\ UNCHANGED <<oldest, tableVars, sync, rebuildVars, failures>>

\* The node drops its oldest ledger.
Prune ==
  /\ oldest + Retention <= head
  /\ oldest' = oldest + 1
  /\ UNCHANGED <<chain, head, tableVars, sync, rebuildVars, failures>>

-----------------------------------------------------------------------------
(* One sync.  A tick asks for the latest ledger and then for the           *)
(* checkpoint; a replay (the backfill script) starts where it is told, and *)
(* keeps the checkpoint out of it when it is also told where to end.       *)
Tick(w) ==
  /\ sync[w].pc = "idle"
  /\ sync' = [sync EXCEPT ![w] = [Idle EXCEPT !.pc = "resume", !.end = head]]
  /\ UNCHANGED <<chainVars, tableVars, rebuildVars, failures>>

Resume(w) ==
  LET s == sync[w] IN
  /\ s.pc = "resume"
  /\ sync' = [sync EXCEPT ![w] =
       IF ResumePoint + 1 > s.end THEN Idle
       ELSE [s EXCEPT !.pc = "fetch", !.start = ResumePoint + 1, !.last = ResumePoint]]
  /\ UNCHANGED <<chainVars, tableVars, rebuildVars, failures>>

\* Mutant: a replay from the beginning asks for ledger 0.
ReplayFromZero(w) ==
  /\ sync[w].pc = "idle"
  /\ \E from \in ReplayFrom, to \in 1 .. head, persist \in BOOLEAN :
       /\ from <= to /\ (persist => to = head)
       /\ sync' = [sync EXCEPT ![w] = [Idle EXCEPT !.pc = "fetch", !.start = from - 1, !.end = to,
                                                   !.last = from - 1, !.persist = persist]]
  /\ UNCHANGED <<chainVars, tableVars, rebuildVars, failures>>

Replay(w) ==
  /\ sync[w].pc = "idle"
  /\ \E from \in ReplayFrom, to \in 1 .. head, persist \in BOOLEAN :
       /\ from <= to /\ (persist => to = head)
       /\ sync' = [sync EXCEPT ![w] = [Idle EXCEPT !.pc = "fetch", !.start = from, !.end = to,
                                                   !.last = from - 1, !.persist = persist]]
  /\ UNCHANGED <<chainVars, tableVars, rebuildVars, failures>>

\* Mutant: the cursor is taken for the next ledger's first event.
FoundAfterNext(s) ==
  IF s.cursor = 0 THEN {r \in chain : Larger(s.start, oldest) <= r.ledger /\ r.ledger <= s.end}
  ELSE {r \in chain : r.event > s.cursor + 1}

\* fetchPage: a range outside the retention is cut to what the node has; a
\* cursor brings the following events, beyond the end of the range as well.
Start(s) == IF s.cursor = 0 THEN Larger(s.start, oldest) ELSE s.start
Found(s) ==
  IF s.cursor = 0 THEN {r \in chain : Start(s) <= r.ledger /\ r.ledger <= s.end}
  ELSE {r \in chain : r.event > s.cursor}
Retained(s) ==
  IF s.cursor = 0 THEN Start(s) <= s.end
  ELSE \A r \in chain : r.event = s.cursor => r.ledger >= oldest

Fetch(w) ==
  LET s == sync[w] IN
  /\ s.pc = "fetch" /\ Retained(s)
  /\ sync' = [sync EXCEPT ![w] =
       [s EXCEPT !.pc = "apply", !.start = Start(s), !.page = Page(Found(s)),
                 !.last = IF s.cursor = 0 THEN Start(s) - 1 ELSE s.last]]
  /\ UNCHANGED <<chainVars, tableVars, rebuildVars, failures>>

\* The node has nothing left of the range: the error ends the sync.
FetchRefused(w) ==
  /\ sync[w].pc = "fetch" /\ ~Retained(sync[w])
  /\ sync' = [sync EXCEPT ![w] = Idle]
  /\ UNCHANGED <<chainVars, tableVars, rebuildVars, failures>>

\* Mutant: the page is added without looking at the journal.
NewRowsUnchecked(page) == page

\* applyLrnBalanceDeltas: one statement journals the unknown events of the
\* page and adds exactly those to the balances.
NewRows(page) == {r \in page : \A j \in journal : j.event # r.event}

AfterPage(s) ==
  LET last == Larger(s.last, Highest(Ledgers(s.page), 0)) IN
  IF Cardinality(s.page) = PageSize /\ s.pages + 1 < MaxPages
  THEN [s EXCEPT !.pc = "fetch", !.cursor = Highest({r.event : r \in s.page}, 0),
                 !.pages = s.pages + 1, !.page = {}, !.last = last]
  ELSE [s EXCEPT !.pc = "checkpoint", !.cursor = 0, !.pages = 0, !.page = {}, !.last = last]

Apply(w) ==
  LET new == NewRows(sync[w].page) IN
  /\ sync[w].pc = "apply"
  /\ journal' = journal \cup new
  /\ balance' = [a \in Addresses |-> balance[a] + SumDelta(new, a)]
  /\ sync' = [sync EXCEPT ![w] = AfterPage(sync[w])]
  /\ UNCHANGED <<chainVars, checkpoint, rewards, rebuildVars, failures>>

\* updateIndexerState overwrites whatever is there.
Covered(s) == Larger(Larger(s.end, s.last), s.start - 1)

Finish(w) ==
  LET s == sync[w] IN
  /\ s.pc = "checkpoint"
  /\ checkpoint' = IF s.persist /\ Covered(s) >= s.start THEN Covered(s) ELSE checkpoint
  /\ sync' = [sync EXCEPT ![w] = Idle]
  /\ UNCHANGED <<chainVars, journal, balance, rewards, rebuildVars, failures>>

\* Mutant: the error is logged and the sync goes on to its checkpoint.
FailSwallowed(w) ==
  /\ sync[w].pc \in {"fetch", "apply", "checkpoint"} /\ failures < MaxFailures
  /\ sync' = [sync EXCEPT ![w].pc = "checkpoint", ![w].page = {}]
  /\ failures' = failures + 1
  /\ UNCHANGED <<chainVars, tableVars, rebuildVars>>

\* A remote call or a query fails, or the process dies: the sync is gone.
Fail(w) ==
  /\ sync[w].pc \in {"fetch", "apply", "checkpoint"} /\ failures < MaxFailures
  /\ sync' = [sync EXCEPT ![w] = Idle]
  /\ failures' = failures + 1
  /\ UNCHANGED <<chainVars, tableVars, rebuildVars>>

-----------------------------------------------------------------------------
(* rebuildScholarBalances.  Its transaction is READ COMMITTED: the sums    *)
(* are those of the statement's snapshot, and by the time they are written *)
(* others may have committed.  The second statement zeroes what has no     *)
(* journal.                                                                *)
HasRows(S, a) == \E r \in S : r.address = a

RebuildRead ==
  /\ ~rebuilding
  /\ rebuilding' = TRUE /\ snapshot' = journal
  /\ UNCHANGED <<chainVars, tableVars, sync, failures>>

Rebuilt(a, old) == IF HasRows(snapshot, a) \/ ~HasRows(journal, a) THEN SumDelta(snapshot, a) ELSE old

RebuildWrite ==
  /\ rebuilding
  /\ rebuilding' = FALSE /\ snapshot' = {}
  /\ balance' = [a \in Addresses |-> Rebuilt(a, balance[a])]
  /\ rewards' = [a \in Addresses |-> IF HasRows(snapshot, a) \/ ~HasRows(journal, a) THEN 0 ELSE rewards[a]]
  /\ UNCHANGED <<chainVars, journal, checkpoint, sync, failures>>

\* submitPeerReview pays its reward into the balance and not into the journal.
PeerReview(a) ==
  /\ Total(rewards, Addresses) < MaxRewards
  /\ balance[a] >= MinLrn
  /\ balance' = [balance EXCEPT ![a] = @ + Reward]
  /\ rewards' = [rewards EXCEPT ![a] = @ + Reward]
  /\ UNCHANGED <<chainVars, journal, checkpoint, sync, rebuildVars, failures>>

-----------------------------------------------------------------------------
Sync(w) == Fetch(w) \/ FetchRefused(w) \/ Apply(w) \/ Finish(w)
Poll(w) == Tick(w) \/ Resume(w) \/ Sync(w)

Next ==
  \/ CloseLedger \/ Prune \/ RebuildRead \/ RebuildWrite
  \/ \E w \in Ticks : Tick(w) \/ Resume(w)
  \/ \E w \in Scripts : Replay(w)
  \/ \E w \in Workers : Sync(w) \/ Fail(w)
  \/ \E a \in Addresses : PeerReview(a)

Spec == Init /\ [][Next]_vars

\* The operator recomputes the totals while no sync writes.
QuietNext == Next /\ (rebuilding => UNCHANGED journal)
QuietSpec == Init /\ [][QuietNext]_vars

\* The interval keeps firing, a call that does not fail is answered, and a
\* rebuild commits.
Fairness ==
  /\ \A w \in Ticks : WF_vars(Poll(w))
  /\ WF_vars(RebuildWrite)

FairQuietSpec == QuietSpec /\ Fairness

-----------------------------------------------------------------------------
(* Properties.                                                             *)
SyncStates ==
  [pc : {"idle", "resume", "fetch", "apply", "checkpoint"}, start : Nat, end : Nat, last : Nat,
   cursor : Nat, pages : Nat, page : SUBSET chain, persist : BOOLEAN]

\* What a sync holds comes from the chain, and so does the journal; a sync
\* never starts at ledger 0, which the node refuses.
TypeOK ==
  /\ chain \subseteq Rows /\ head \in Nat /\ oldest \in Nat
  /\ journal \subseteq chain /\ snapshot \subseteq journal /\ rebuilding \in BOOLEAN
  /\ balance \in [Addresses -> Int] /\ rewards \in [Addresses -> Nat]
  /\ checkpoint \in Nat /\ failures \in Nat
  /\ sync \in [Workers -> SyncStates]
  /\ \A w \in Workers : sync[w].pc \in {"fetch", "apply", "checkpoint"} => sync[w].start > 0

\* applyLrnBalanceDeltas counts every event exactly once, whatever overlaps,
\* fails halfway or is replayed: a balance is the sum of the journal, which
\* never holds an event twice, and the peer review rewards paid since the
\* totals were last recomputed.
CountedOnce ==
  /\ \A q, r \in journal : q.event = r.event => q = r
  /\ \A a \in Addresses : balance[a] = SumDelta(journal, a) + rewards[a]

\* Whatever overlaps, a recomputation and a sync included, no event is ever
\* counted twice: a balance stands for events of the journal, perhaps not for
\* all of them, and the rewards.
NeverTwice ==
  \A a \in Addresses : \E counted \in SUBSET journal :
    balance[a] = SumDelta(counted, a) + rewards[a]

\* Only a recomputation during which a sync committed loses events from the
\* totals, and the next one during which none did brings all of them back.
OverlapAloneLoses ==
  [][/\ CountedOnce => CountedOnce' \/ (RebuildWrite /\ snapshot # journal)
     /\ RebuildWrite /\ snapshot = journal => CountedOnce']_vars

\* The ledger a sync resumes from never passes an event that was not counted,
\* unless the node had dropped it: a tick that crashes between two pages is
\* made up for by a later one ("simply replays those pages on the next tick").
NothingSkipped ==
  \A r \in chain : StartingLedger < r.ledger /\ r.ledger <= ResumePoint =>
    r \in journal \/ r.ledger < oldest

\* Every mint and burn is counted eventually, unless the node drops it first.
EveryEventCounted ==
  \A e \in 1 .. MaxEvents :
    (\E r \in chain : r.event = e) ~>
      ((\E r \in journal : r.event = e) \/ (\E r \in chain : r.event = e /\ r.ledger < oldest))
=============================================================================
