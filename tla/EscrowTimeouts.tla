--------------------------- MODULE EscrowTimeouts ---------------------------
(***************************************************************************)
(* The reclaim of inactive escrows by the server.  Every proposal has a    *)
(* row of escrow_timeouts from the day it is submitted.  An hourly pass    *)
(* reads the active rows, oldest activity first, and treats them one after *)
(* the other: it mails a reminder shortly before the deadline, and after   *)
(* it calls reclaim_inactive of the contract, which keeps its own date.    *)
(* Passes may overlap with each other and with the scholar's activity.     *)
(* All calls go through one circuit breaker, for which a call the contract *)
(* refuses is a failure like any other.                                    *)
(***************************************************************************)
EXTENDS Integers, Sequences, FiniteSets

CONSTANTS
  Proposals,   \* proposals that have a row
  Linked,      \* those whose row names a course: scholarship applications
  Passes,      \* passes that can run at the same time
  RowWindow,   \* inactivity_window_days of the rows
  ChainWindow, \* inactivity_window of the contract, in days
  Reminder,    \* REMINDER_THRESHOLD_DAYS
  Threshold,   \* failureThreshold of the circuit breaker
  Tranches,    \* tranches of an escrow
  MaxFailures  \* bound of the exploration

ASSUME TimeoutAssumption ==
  /\ IsFiniteSet(Proposals) /\ Linked \subseteq Proposals
  /\ {RowWindow, ChainWindow, Threshold, Tranches} \subseteq Nat \ {0}
  /\ Reminder \in Nat /\ MaxFailures \in Nat

VARIABLES
  row,        \* escrow_timeouts; idle counts the days since last_activity_at
  older,      \* the pairs of rows of which the first has the older last_activity_at
  escrow,     \* the contract's record; idle counts the days since last_activity
  pass,       \* the local state of every pass: the rows it has still to treat, as it read them
  breaker,    \* stellarRpcCircuitBreaker; RESET is OPEN when the reset timeout is over
  inflight,   \* reclaims accepted by the node and not yet in a ledger
  warned,     \* scholars who got a reminder since their last activity
  overtaken,  \* scholars whose last activity came while a pass held their row
  lost,       \* reclaims that were accepted and never executed
  failures

historyVars == <<warned, overtaken, lost>>
rowVars == <<row, older>>
vars == <<rowVars, escrow, pass, breaker, inflight, historyVars, failures>>

-----------------------------------------------------------------------------
Cap == IF RowWindow > ChainWindow THEN RowWindow ELSE ChainWindow
Older(days) == IF days < Cap THEN days + 1 ELSE days

Active == {p \in Proposals : row[p].status = "active"}
Snapshots == [id : Proposals, idle : 0..Cap, reminded : BOOLEAN]
Snapshot(p) == [id |-> p, idle |-> row[p].idle, reminded |-> row[p].reminded]

\* last_activity_at = NOW()
Newest(p) == {o \in older : o[1] # p} \cup {<<q, p>> : q \in Proposals \ {p}}

\* ORDER BY last_activity_at ASC
Oldest(rows) ==
  {seq \in [1..Cardinality(rows) -> rows] :
     \A i, j \in 1..Cardinality(rows) : i < j => <<seq[i], seq[j]>> \in older}

At(s, pc) == pass[s].pc = pc
Current(s) == Head(pass[s].todo)
Holds(s, p) == \E i \in DOMAIN pass[s].todo : pass[s].todo[i].id = p
Goto(s, pc) == pass' = [pass EXCEPT ![s].pc = pc]

\* on to the next row; an error in one does not stop the others
NextRow(s) ==
  IF Len(pass[s].todo) > 1
  THEN pass' = [pass EXCEPT ![s].pc = "row", ![s].todo = Tail(@)]
  ELSE pass' = [pass EXCEPT ![s] = [pc |-> "idle", todo |-> <<>>]]

\* consecutiveFailures matter only while the breaker is closed
Closed == [state |-> "CLOSED", fails |-> 0]
Breaker(state) == [state |-> state, fails |-> Threshold]

Init ==
  /\ row = [p \in Proposals |-> [status |-> "none", idle |-> 0, reminded |-> FALSE]]
  /\ older = {}
  /\ escrow = [p \in Proposals |-> [funded |-> FALSE, rest |-> 0, idle |-> 0]]
  /\ pass = [s \in Passes |-> [pc |-> "idle", todo |-> <<>>]]
  /\ breaker = Closed
  /\ inflight = {} /\ warned = {} /\ overtaken = {} /\ lost = {}
  /\ failures = 0

-----------------------------------------------------------------------------
(* The scholar and the contract.                                           *)

Track(p) ==
  /\ row[p].status = "none"
  /\ row' = [row EXCEPT ![p].status = "active"] /\ older' = Newest(p)
  /\ UNCHANGED <<escrow, pass, breaker, inflight, historyVars, failures>>

\* A milestone is submitted, approved or rejected.
MarkActivityKeepingReminder(p) == \* Mutant: the reminder of the last period stays
  /\ p \in Active \cap Linked
  /\ row' = [row EXCEPT ![p].idle = 0] /\ older' = Newest(p)
  /\ warned' = warned \ {p}
  /\ overtaken' = IF \E s \in Passes : Holds(s, p) THEN overtaken \cup {p} ELSE overtaken \ {p}
  /\ UNCHANGED <<escrow, pass, breaker, inflight, lost, failures>>

MarkActivity(p) ==
  /\ p \in Active \cap Linked
  /\ row' = [row EXCEPT ![p].idle = 0, ![p].reminded = FALSE]
  /\ older' = Newest(p)
  /\ warned' = warned \ {p}
  /\ overtaken' = IF \E s \in Passes : Holds(s, p) THEN overtaken \cup {p} ELSE overtaken \ {p}
  /\ UNCHANGED <<escrow, pass, breaker, inflight, lost, failures>>

\* The proposal passed: create_escrow.  Most proposals never get here.
Fund(p) ==
  /\ row[p].status # "none" /\ ~escrow[p].funded
  /\ escrow' = [escrow EXCEPT ![p] = [funded |-> TRUE, rest |-> Tranches, idle |-> 0]]
  /\ UNCHANGED <<rowVars, pass, breaker, inflight, historyVars, failures>>

Release(p) ==
  /\ escrow[p].rest > 0
  /\ escrow' = [escrow EXCEPT ![p].rest = @ - 1, ![p].idle = 0]
  /\ UNCHANGED <<rowVars, pass, breaker, inflight, historyVars, failures>>

Aged(todo) == [i \in DOMAIN todo |-> [todo[i] EXCEPT !.idle = Older(@)]]

\* A pass measures the stale date it holds against the clock.
Day ==
  /\ row' = [p \in Proposals |-> IF p \in Active THEN [row[p] EXCEPT !.idle = Older(@)] ELSE row[p]]
  /\ escrow' = [p \in Proposals |-> IF escrow[p].rest > 0 THEN [escrow[p] EXCEPT !.idle = Older(@)] ELSE escrow[p]]
  /\ pass' = [s \in Passes |-> [pass[s] EXCEPT !.todo = Aged(@)]]
  /\ UNCHANGED <<older, breaker, inflight, historyVars, failures>>

\* reclaim_inactive, and what prepareTransaction finds out beforehand
CanReclaim(p) == escrow[p].rest > 0 /\ escrow[p].idle >= ChainWindow

\* All transactions of the server have its next sequence number.
Execute(p) ==
  /\ p \in inflight /\ CanReclaim(p)
  /\ escrow' = [escrow EXCEPT ![p].rest = 0, ![p].idle = 0]
  /\ inflight' = {} /\ lost' = lost \cup (inflight \ {p})
  /\ UNCHANGED <<rowVars, pass, breaker, warned, overtaken, failures>>

Expire(p) ==
  /\ p \in inflight
  /\ inflight' = inflight \ {p} /\ lost' = lost \cup {p}
  /\ UNCHANGED <<rowVars, escrow, pass, breaker, warned, overtaken, failures>>

-----------------------------------------------------------------------------
(* The circuit breaker.                                                    *)
OnSuccess == IF breaker.state \in {"CLOSED", "HALF_OPEN"} THEN Closed ELSE breaker

\* Mutant: it takes one failure more.
OnFailureLate ==
  CASE breaker.state = "CLOSED" /\ breaker.fails < Threshold -> [breaker EXCEPT !.fails = @ + 1]
    [] breaker.state = "CLOSED" /\ breaker.fails = Threshold -> Breaker("OPEN")
    [] breaker.state = "HALF_OPEN" -> Breaker("OPEN")
    [] OTHER -> breaker

OnFailure ==
  CASE breaker.state = "CLOSED" /\ breaker.fails + 1 < Threshold -> [breaker EXCEPT !.fails = @ + 1]
    [] breaker.state = "CLOSED" /\ breaker.fails + 1 = Threshold -> Breaker("OPEN")
    [] breaker.state = "HALF_OPEN" -> Breaker("OPEN")
    [] OTHER -> breaker

Elapse ==
  /\ breaker.state = "OPEN" /\ breaker' = Breaker("RESET")
  /\ UNCHANGED <<rowVars, escrow, pass, inflight, historyVars, failures>>

AdmitWhenClosed == breaker.state = "CLOSED" /\ UNCHANGED breaker \* Mutant: the breaker never probes

\* A call made while another one probes passes, too.
Admit ==
  \/ breaker.state \in {"CLOSED", "HALF_OPEN"} /\ UNCHANGED breaker
  \/ breaker.state = "RESET" /\ breaker' = Breaker("HALF_OPEN")

\* Another call of the server comes back.
OtherCall(ok) ==
  /\ breaker.state # "RESET"
  /\ breaker' = IF ok THEN OnSuccess ELSE OnFailure
  /\ failures' = IF ok THEN failures ELSE failures + 1
  /\ failures' <= MaxFailures
  /\ UNCHANGED <<rowVars, escrow, pass, inflight, historyVars>>

-----------------------------------------------------------------------------
(* A pass: processEscrowTimeouts.                                          *)
StartPass(s) ==
  /\ At(s, "idle") /\ Active # {}
  /\ \E rows \in Oldest(Active) :
       pass' = [pass EXCEPT ![s] = [pc |-> "row", todo |-> [i \in DOMAIN rows |-> Snapshot(rows[i])]]]
  /\ UNCHANGED <<rowVars, escrow, breaker, inflight, historyVars, failures>>

Expired(s) == Current(s).idle >= RowWindow
ToRemind(s) == ~Expired(s) /\ RowWindow - Current(s).idle <= Reminder /\ ~Current(s).reminded

LeaveRow(s) ==
  /\ At(s, "row") /\ ~Expired(s) /\ ~ToRemind(s)
  /\ NextRow(s)
  /\ UNCHANGED <<rowVars, escrow, breaker, inflight, historyVars, failures>>

Reclaim(s) ==
  /\ At(s, "row") /\ Expired(s)
  /\ Admit
  /\ Goto(s, "calling")
  /\ UNCHANGED <<rowVars, escrow, inflight, historyVars, failures>>

ReclaimSuspended(s) ==
  /\ At(s, "row") /\ Expired(s)
  /\ breaker.state = "OPEN"
  /\ NextRow(s)
  /\ UNCHANGED <<rowVars, escrow, breaker, inflight, historyVars, failures>>

CallAccepted(s) ==
  /\ At(s, "calling") /\ CanReclaim(Current(s).id)
  /\ inflight' = inflight \cup {Current(s).id}
  /\ breaker' = OnSuccess
  /\ Goto(s, "booking")
  /\ UNCHANGED <<rowVars, escrow, historyVars, failures>>

CallRefusedBooked(s) == \* Mutant: the row is updated whatever the answer was
  /\ At(s, "calling") /\ ~CanReclaim(Current(s).id)
  /\ breaker' = OnFailure
  /\ Goto(s, "booking")
  /\ UNCHANGED <<rowVars, escrow, inflight, historyVars, failures>>

CallRefused(s) ==
  /\ At(s, "calling") /\ ~CanReclaim(Current(s).id)
  /\ breaker' = OnFailure
  /\ NextRow(s)
  /\ UNCHANGED <<rowVars, escrow, inflight, historyVars, failures>>

\* The node does not answer, or its answer is lost.
CallFails(s) ==
  /\ At(s, "calling") /\ failures < MaxFailures
  /\ \/ UNCHANGED inflight
     \/ CanReclaim(Current(s).id) /\ inflight' = inflight \cup {Current(s).id}
  /\ breaker' = OnFailure
  /\ NextRow(s)
  /\ failures' = failures + 1
  /\ UNCHANGED <<rowVars, escrow, historyVars>>

BookReclaim(s) ==
  /\ At(s, "booking")
  /\ row' = [row EXCEPT ![Current(s).id].status = "reclaimed"]
  /\ NextRow(s)
  /\ UNCHANGED <<older, escrow, breaker, inflight, historyVars, failures>>

\* notifyEscrowTimeoutWarning
Warn(s) ==
  /\ At(s, "row") /\ ToRemind(s)
  /\ warned' = warned \cup {Current(s).id}
  /\ Goto(s, "marking")
  /\ UNCHANGED <<rowVars, escrow, breaker, inflight, overtaken, lost, failures>>

MarkReminded(s) ==
  /\ At(s, "marking")
  /\ row' = [row EXCEPT ![Current(s).id].reminded = TRUE]
  /\ NextRow(s)
  /\ UNCHANGED <<older, escrow, breaker, inflight, historyVars, failures>>

\* A query or the mail fails: the error ends this row, and the pass goes on.
RowFails(s) ==
  /\ At(s, "booking") \/ At(s, "marking") \/ (At(s, "row") /\ ToRemind(s))
  /\ failures < MaxFailures /\ failures' = failures + 1
  /\ NextRow(s)
  /\ UNCHANGED <<rowVars, escrow, breaker, inflight, historyVars>>

\* The process dies with its passes; the breaker starts anew.
Restart ==
  /\ failures < MaxFailures /\ failures' = failures + 1
  /\ pass' = [s \in Passes |-> [pc |-> "idle", todo |-> <<>>]]
  /\ breaker' = Closed
  /\ UNCHANGED <<rowVars, escrow, inflight, historyVars>>

-----------------------------------------------------------------------------
Proceed(s) ==
  LeaveRow(s) \/ Reclaim(s) \/ ReclaimSuspended(s) \/ CallAccepted(s) \/ CallRefused(s)
    \/ BookReclaim(s) \/ Warn(s) \/ MarkReminded(s)

Next ==
  \/ \E p \in Proposals : Track(p) \/ MarkActivity(p) \/ Fund(p) \/ Release(p) \/ Execute(p) \/ Expire(p)
  \/ \E s \in Passes : StartPass(s) \/ Proceed(s) \/ CallFails(s) \/ RowFails(s)
  \/ \E ok \in BOOLEAN : OtherCall(ok)
  \/ Day \/ Elapse \/ Restart

Spec == Init /\ [][Next]_vars

\* The timer starts passes for ever, a pass is not left half way, days and
\* timeouts go by, and a transaction executes or becomes invalid.
Fairness ==
  /\ \A s \in Passes : WF_vars(StartPass(s)) /\ WF_vars(Proceed(s))
  /\ \A p \in Proposals : WF_vars(Execute(p) \/ Expire(p))
  /\ WF_vars(Day) /\ WF_vars(Elapse)

FairSpec == Spec /\ Fairness

\* Neither a day nor the reset timeout goes by in the middle of a pass, as is
\* usual: it takes a few seconds.
PromptNext ==
  /\ Next
  /\ Day \/ Elapse => \A s \in Passes : At(s, "idle")

PromptSpec == Init /\ [][PromptNext]_vars /\ Fairness

-----------------------------------------------------------------------------
(* Properties.                                                             *)
TypeOK ==
  /\ row \in [Proposals -> [status : {"none", "active", "reclaimed"}, idle : 0..Cap, reminded : BOOLEAN]]
  /\ older \subseteq Proposals \X Proposals
  /\ escrow \in [Proposals -> [funded : BOOLEAN, rest : 0..Tranches, idle : 0..Cap]]
  /\ pass \in [Passes -> [pc : {"idle", "row", "calling", "booking", "marking"}, todo : Seq(Snapshots)]]
  /\ \A s \in Passes : At(s, "idle") <=> pass[s].todo = <<>>
  /\ breaker \in [state : {"CLOSED", "OPEN", "RESET", "HALF_OPEN"}, fails : 0..Threshold]
  /\ breaker.state = "CLOSED" => breaker.fails < Threshold
  /\ inflight \subseteq Proposals /\ warned \subseteq Proposals
  /\ overtaken \subseteq Proposals /\ lost \subseteq Proposals
  /\ failures \in Nat

\* A row that says reclaimed is right about the contract, or soon will be,
\* unless the transaction was lost after the node had accepted it.
BookedIsReclaimed ==
  \A p \in Proposals : row[p].status = "reclaimed" =>
    (escrow[p].funded /\ escrow[p].rest = 0) \/ p \in inflight \cup lost

\* A scholar whom the row calls reminded was reminded since the last activity,
\* also when passes overlap, unless that activity came in the middle of a pass.
RemindedIsWarned ==
  \A p \in Proposals : row[p].reminded => p \in warned \cup overtaken

\* escrows that should be reclaimed, and rows that never can be: their proposal
\* was not funded, or the escrow is spent
Overdue(p) == p \in Active /\ row[p].idle >= RowWindow /\ CanReclaim(p)
Dead == {p \in Active : escrow[p].rest = 0}

\* "If a scholar is inactive for 30 days, unspent funds automatically return
\* to the treasury."
InactiveIsReclaimed == \A p \in Proposals : []<>~Overdue(p)

\* That is so, whatever fails on the way, while every active row has an escrow
\* to reclaim: only dead rows can take the breaker's probe for ever.
InactiveIsReclaimedInTheEnd == \A p \in Proposals : []<>(~Overdue(p) \/ Dead # {})

\* The contract's side of this module, as InactivityWatch tells it.
Stage(p) ==
  CASE ~escrow[p].funded   -> "none"
    [] escrow[p].funded /\ escrow[p].rest = 0 -> "spent"
    [] escrow[p].funded /\ CanReclaim(p) -> "overdue"
    [] OTHER -> "open"

Contract == INSTANCE InactivityWatch WITH
  Grants <- Proposals,
  stage  <- [p \in Proposals |-> Stage(p)]

\* The server supposes no more of the contract than what MilestoneEscrow keeps:
\* what the reclaim is shown to do here, it does with the contract as it is.
SupposesWatch == Contract!Spec
=============================================================================
