--------------------------- MODULE MilestoneReview ---------------------------
(***************************************************************************)
(* The review of one scholar's milestone reports.  A report is a row of    *)
(* milestone_reports and, beside it, a milestone of the contract           *)
(* course_milestone.  Requests of the scholar and of administrators run    *)
(* concurrently: each reads the row, calls the contract, and then writes   *)
(* what it decided, one statement at a time, and may die between any two.  *)
(* An approval also mints the course certificate, pays the referral bonus  *)
(* and releases a tranche of the scholar's escrow.  The server does not    *)
(* wait for its transactions: the node accepts one that would succeed now, *)
(* and it executes later, fails, or never makes it into a ledger.  The     *)
(* server may be restarted, and run without the credentials to send any.   *)
(***************************************************************************)
EXTENDS Integers, Sequences, Totals

CONSTANTS
  Reports,     \* the milestones of the course
  Requests,    \* requests that can run at the same time
  Tranches,    \* tranches of the scholar's escrow
  MaxRequests, MaxFailures \* bounds of the exploration

ASSUME ReviewAssumption == IsFiniteSet(Reports) /\ IsFiniteSet(Requests) /\ Tranches \in Nat

VARIABLES
  status,     \* milestone_reports.status, "none" without a row
  audit,      \* milestone_audit_log, how often each decision is recorded for each report
  released,   \* escrows.tranches_released
  referral,   \* referrals.status
  chain,      \* the milestone in the contract
  rewarded,   \* how often the contract minted the reward
  paid,       \* tranches the contract released on account of each report
  inflight,   \* transactions accepted by the node and not yet in a ledger
  request,    \* the local state of every running request
  configured, \* the server's environment holds the credentials for course_milestone
  bonus,      \* the referral step that an approval leaves running behind it
  bonuses,    \* referral bonuses minted
  certified,  \* a certificate was minted
  decided,    \* how often each decision was written to each report
  overlapped, \* reports on which two requests ran at the same time
  lost,       \* reports of which a transaction failed or never executed
  unaudited,  \* reports of which a decision was written and its audit was not
  unbacked,   \* reports of which an appeal was granted without credentials
  begun, failures

rowVars == <<status, audit, released, referral>>
chainVars == <<chain, rewarded, paid>>
outcomeVars == <<bonuses, certified>>
historyVars == <<decided, overlapped, lost, unaudited, unbacked>>
serverVars == <<configured, begun, failures>>
vars == <<rowVars, chainVars, inflight, request, bonus, outcomeVars, historyVars, serverVars>>

-----------------------------------------------------------------------------
Statuses == {"none", "pending", "approved", "rejected", "appealed", "final_rejected"}
Milestones == {"NotStarted", "Pending", "Approved", "Rejected", "Appealed"}
Decisions == {"approved", "rejected", "appeal_approved", "appeal_rejected"}

\* batch is batchApproveMilestones; reject is rejectMilestone and
\* batchRejectMilestones, which do the same to every report; grant and deny
\* are the two sides of resolveAppeal.
Kinds == {"submit", "approve", "batch", "reject", "appeal", "grant", "deny"}
Approving == {"approve", "batch", "grant"}

\* the status a request must find the report in
Expected(kind) ==
  CASE kind \in {"approve", "batch", "reject"} -> "pending"
    [] kind = "appeal" -> "rejected"
    [] kind \in {"grant", "deny"} -> "appealed"

\* the audit entry a decision leaves, and the status it writes
Recorded(kind) ==
  CASE kind \in {"approve", "batch"} -> "approved" [] kind \in {"reject", "appeal"} -> "rejected"
    [] kind = "grant" -> "appeal_approved" [] kind = "deny" -> "appeal_rejected"

\* Mutant: the decision is stored where the status belongs.
WrittenAsRecorded(kind) == Recorded(kind)

Written(kind) ==
  CASE kind \in Approving -> "approved" [] kind = "reject" -> "rejected" [] kind = "deny" -> "final_rejected"

\* the statements a request executes, by what comes next
Pcs == {"idle", "find", "insert", "resubmit", "load", "call", "write", "audit", "progress", "mint",
        "escrow", "release", "book"}

NoRequest == [pc |-> "idle", kind |-> "submit", todo |-> <<>>, read |-> 0]
Report(h) == Head(request[h].todo)
ReportsOf(h) == {request[h].todo[i] : i \in DOMAIN request[h].todo}

At(h, pc) == request[h].pc = pc
Goto(h, pc) == request' = [request EXCEPT ![h].pc = pc]
Done(h) == request' = [request EXCEPT ![h] = NoRequest]

\* on to the next report of the batch, or the response
NextItem(h) ==
  IF Len(request[h].todo) > 1
  THEN request' = [request EXCEPT ![h].pc = "call", ![h].todo = Tail(@)]
  ELSE Done(h)

Approved == {r \in Reports : status[r] = "approved"}

Init ==
  /\ status = [r \in Reports |-> "none"] /\ audit = [r \in Reports |-> [d \in Decisions |-> 0]]
  /\ released = 0 /\ referral = "pending"
  /\ chain = [r \in Reports |-> "NotStarted"]
  /\ rewarded = [r \in Reports |-> 0] /\ paid = [r \in Reports |-> 0]
  /\ inflight = {}
  /\ request = [h \in Requests |-> NoRequest] /\ bonus = [h \in Requests |-> "idle"]
  /\ bonuses = 0 /\ certified = FALSE
  /\ decided = [r \in Reports |-> [d \in Decisions |-> 0]]
  /\ overlapped = {} /\ lost = {} /\ unaudited = {} /\ unbacked = {}
  /\ configured \in BOOLEAN /\ begun = 0 /\ failures = 0

-----------------------------------------------------------------------------
(* The chain.  All transactions are signed by the server's one account     *)
(* with its next sequence number, so that the first one to execute makes   *)
(* the others invalid.                                                     *)
Transactions == [kind : {"verify", "reject", "release"}, report : Reports]
Tx(kind, r) == [kind |-> kind, report |-> r]

\* what prepareTransaction simulates, and the contract demands
WouldSucceed(t) ==
  IF t.kind = "release" THEN Total(paid, Reports) < Tranches ELSE chain[t.report] = "Pending"

Execute(t) ==
  /\ t \in inflight /\ WouldSucceed(t)
  /\ chain' = CASE t.kind = "verify" -> [chain EXCEPT ![t.report] = "Approved"]
                [] t.kind = "reject" -> [chain EXCEPT ![t.report] = "Rejected"]
                [] t.kind = "release" -> chain
  /\ rewarded' = IF t.kind = "verify" THEN [rewarded EXCEPT ![t.report] = @ + 1] ELSE rewarded
  /\ paid' = IF t.kind = "release" THEN [paid EXCEPT ![t.report] = @ + 1] ELSE paid
  /\ inflight' = {}
  /\ lost' = lost \cup {u.report : u \in inflight \ {t}}
  /\ UNCHANGED <<rowVars, request, bonus, outcomeVars, decided, overlapped, unaudited, unbacked, serverVars>>

\* It fails in the ledger, or thirty seconds pass without one.
Expire(t) ==
  /\ t \in inflight
  /\ inflight' = inflight \ {t} /\ lost' = lost \cup {t.report}
  /\ UNCHANGED <<rowVars, chainVars, request, bonus, outcomeVars, decided, overlapped, unaudited, unbacked, serverVars>>

\* the scholar's own calls, from the wallet
SubmitOnChain(r) ==
  /\ chain[r] \notin {"Pending", "Approved"}
  /\ chain' = [chain EXCEPT ![r] = "Pending"]
  /\ UNCHANGED <<rowVars, rewarded, paid, inflight, request, bonus, outcomeVars, historyVars, serverVars>>

AppealOnChain(r) ==
  /\ chain[r] = "Rejected"
  /\ chain' = [chain EXCEPT ![r] = "Appealed"]
  /\ UNCHANGED <<rowVars, rewarded, paid, inflight, request, bonus, outcomeVars, historyVars, serverVars>>

-----------------------------------------------------------------------------
(* A request.                                                              *)
Begin(h, kind, todo) ==
  /\ At(h, "idle") /\ bonus[h] = "idle" /\ begun < MaxRequests
  /\ kind \notin {"batch", "reject"} => Len(todo) = 1
  /\ request' = [request EXCEPT ![h] =
       [pc |-> IF kind = "submit" THEN "find" ELSE "load", kind |-> kind, todo |-> todo, read |-> 0]]
  /\ overlapped' = overlapped \cup
       {r \in {todo[i] : i \in DOMAIN todo} : \E g \in Requests \ {h} : r \in ReportsOf(g)}
  /\ begun' = begun + 1
  /\ UNCHANGED <<rowVars, chainVars, inflight, bonus, outcomeVars, decided, lost, unaudited, unbacked, configured, failures>>

\* submitMilestoneReport, resubmitMilestoneReport: createReport looks for a
\* row and then inserts one, or puts a rejected one back to pending by its id.
FindReport(h) ==
  /\ At(h, "find")
  /\ CASE status[Report(h)] = "none" -> Goto(h, "insert")
       [] status[Report(h)] = "rejected" -> Goto(h, "resubmit")
       [] OTHER -> Done(h)
  /\ UNCHANGED <<rowVars, chainVars, inflight, bonus, outcomeVars, historyVars, serverVars>>

StoreReport(h) ==
  /\ At(h, "insert") \/ At(h, "resubmit")
  /\ status' = IF At(h, "resubmit") \/ status[Report(h)] = "none"
               THEN [status EXCEPT ![Report(h)] = "pending"] ELSE status
  /\ Done(h)
  /\ UNCHANGED <<audit, released, referral, chainVars, inflight, bonus, outcomeVars, historyVars, serverVars>>

\* Without credentials the decision on a report is answered with 503, and the one
\* on an appeal goes on to its row with no transaction, also when it is granted.
AfterReading(h) ==
  IF configured /\ request[h].kind # "appeal" THEN Goto(h, "call")
  ELSE IF request[h].kind \in {"appeal", "grant", "deny"} THEN Goto(h, "write")
  ELSE Done(h)

\* The reports of a request are read one after the other, before anything else.
Load(h) ==
  LET q == request[h] IN
  /\ At(h, "load")
  /\ IF status[q.todo[q.read + 1]] # Expected(q.kind) THEN Done(h)
     ELSE IF q.read + 1 < Len(q.todo) THEN request' = [request EXCEPT ![h].read = @ + 1]
     ELSE AfterReading(h)
  /\ UNCHANGED <<rowVars, chainVars, inflight, bonus, outcomeVars, historyVars, serverVars>>

\* callVerifyMilestone and emitRejectionEvent, retries included.
Call(h) == Tx(IF request[h].kind \in Approving THEN "verify" ELSE "reject", Report(h))

CallAccepted(h) ==
  /\ At(h, "call") /\ WouldSucceed(Call(h))
  /\ inflight' = inflight \cup {Call(h)}
  /\ Goto(h, "write")
  /\ UNCHANGED <<rowVars, chainVars, bonus, outcomeVars, historyVars, serverVars>>

\* An error ends the request, or this item of a batch; a denied appeal goes on
\* without its transaction.  An answer that is lost looks the same.
AfterRefusalWritten(h) == Goto(h, "write") \* Mutant: every kind of request goes on

AfterRefusal(h) == IF request[h].kind = "deny" THEN Goto(h, "write") ELSE NextItem(h)

CallRefused(h) ==
  /\ At(h, "call")
  /\ \/ ~WouldSucceed(Call(h)) /\ UNCHANGED <<inflight, failures>>
     \/ /\ failures < MaxFailures /\ failures' = failures + 1
        /\ \/ UNCHANGED inflight
           \/ WouldSucceed(Call(h)) /\ inflight' = inflight \cup {Call(h)}
  /\ AfterRefusal(h)
  /\ UNCHANGED <<rowVars, chainVars, bonus, outcomeVars, historyVars, configured, begun>>

\* one more decision of the request's kind on its report
OneMore(counts, h) == [counts EXCEPT ![Report(h)][Recorded(request[h].kind)] = @ + 1]

\* updateReportStatus overwrites whatever is there; submitAppeal, which makes
\* no call, is conditional.
Decide(h) ==
  /\ At(h, "write") /\ request[h].kind # "appeal"
  /\ status' = [status EXCEPT ![Report(h)] = Written(request[h].kind)]
  /\ decided' = OneMore(decided, h)
  /\ unbacked' = IF request[h].kind = "grant" /\ ~configured THEN unbacked \cup {Report(h)} ELSE unbacked
  /\ Goto(h, "audit")
  /\ UNCHANGED <<audit, released, referral, chainVars, inflight, bonus, outcomeVars,
                 overlapped, lost, unaudited, serverVars>>

Appeal(h) ==
  /\ At(h, "write") /\ request[h].kind = "appeal"
  /\ IF status[Report(h)] = "rejected"
     THEN /\ status' = [status EXCEPT ![Report(h)] = "appealed"]
          /\ decided' = OneMore(decided, h) /\ Goto(h, "audit")
     ELSE UNCHANGED <<status, decided>> /\ Done(h)
  /\ UNCHANGED <<audit, released, referral, chainVars, inflight, bonus, outcomeVars,
                 overlapped, lost, unaudited, unbacked, serverVars>>

\* Mutant: the batch, a copy of the single approval, lost its audit entry.
AuditSingle(h) ==
  /\ At(h, "audit")
  /\ audit' = IF request[h].kind = "batch" THEN audit ELSE OneMore(audit, h)
  /\ IF request[h].kind \in {"approve", "batch"} THEN Goto(h, "progress") ELSE NextItem(h)
  /\ UNCHANGED <<status, released, referral, chainVars, inflight, bonus, outcomeVars, historyVars, serverVars>>

\* addAuditEntry
Audit(h) ==
  /\ At(h, "audit")
  /\ audit' = OneMore(audit, h)
  /\ IF request[h].kind \in {"approve", "batch"} THEN Goto(h, "progress") ELSE NextItem(h)
  /\ UNCHANGED <<status, released, referral, chainVars, inflight, bonus, outcomeVars, historyVars, serverVars>>

\* mintCertificateIfComplete, which blocks nothing; an approval then starts
\* the referral step and goes on to the escrow.
AfterCertificate(h) ==
  IF request[h].kind = "approve"
  THEN Goto(h, "escrow") /\ bonus' = [bonus EXCEPT ![h] = "select"]
  ELSE NextItem(h) /\ UNCHANGED bonus

Progress(h) ==
  /\ At(h, "progress")
  /\ IF Approved = Reports THEN Goto(h, "mint") /\ UNCHANGED bonus ELSE AfterCertificate(h)
  /\ UNCHANGED <<rowVars, chainVars, inflight, outcomeVars, historyVars, serverVars>>

MintCertificate(h) ==
  /\ At(h, "mint")
  /\ certified' \in {certified, TRUE}
  /\ AfterCertificate(h)
  /\ UNCHANGED <<rowVars, chainVars, inflight, bonuses, historyVars, serverVars>>

\* The tranche: the row is read, the contract called, the row counted up.
FindEscrow(h) ==
  /\ At(h, "escrow")
  /\ IF released < Tranches THEN Goto(h, "release") ELSE Done(h)
  /\ UNCHANGED <<rowVars, chainVars, inflight, bonus, outcomeVars, historyVars, serverVars>>

ReleaseRetried(h) == \* Mutant: the call is retried when its answer is lost
  /\ At(h, "release") /\ WouldSucceed(Tx("release", Report(h)))
  /\ inflight' = inflight \cup {Tx("release", Report(h))}
  /\ Goto(h, "book") \/ UNCHANGED request
  /\ UNCHANGED <<rowVars, chainVars, bonus, outcomeVars, historyVars, serverVars>>

ReleaseAccepted(h) ==
  /\ At(h, "release") /\ WouldSucceed(Tx("release", Report(h)))
  /\ inflight' = inflight \cup {Tx("release", Report(h))}
  /\ Goto(h, "book")
  /\ UNCHANGED <<rowVars, chainVars, bonus, outcomeVars, historyVars, serverVars>>

ReleaseRefused(h) ==
  /\ At(h, "release")
  /\ \/ UNCHANGED inflight
     \/ WouldSucceed(Tx("release", Report(h))) /\ inflight' = inflight \cup {Tx("release", Report(h))}
  /\ Done(h)
  /\ UNCHANGED <<rowVars, chainVars, bonus, outcomeVars, historyVars, serverVars>>

BookTranche(h) ==
  /\ At(h, "book")
  /\ released' = released + 1
  /\ Done(h)
  /\ UNCHANGED <<status, audit, referral, chainVars, inflight, bonus, outcomeVars, historyVars, serverVars>>

\* A query fails: the request ends, or goes on to the next item of its batch.
Die(h) ==
  /\ request[h].pc \in Pcs \ {"idle", "call", "progress", "mint", "release"}
  /\ failures < MaxFailures /\ failures' = failures + 1
  /\ IF At(h, "load") THEN Done(h) ELSE NextItem(h)
  /\ unaudited' = IF At(h, "audit") THEN unaudited \cup {Report(h)} ELSE unaudited
  /\ UNCHANGED <<rowVars, chainVars, inflight, bonus, outcomeVars, decided, overlapped, lost, unbacked,
                 configured, begun>>

\* The process dies, and with it every request and every referral step left
\* behind; it comes back with the credentials or without them.
Restart ==
  /\ failures < MaxFailures /\ failures' = failures + 1
  /\ request' = [h \in Requests |-> NoRequest] /\ bonus' = [h \in Requests |-> "idle"]
  /\ configured' \in BOOLEAN
  /\ unaudited' = unaudited \cup {Report(h) : h \in {g \in Requests : At(g, "audit")}}
  /\ UNCHANGED <<rowVars, chainVars, inflight, outcomeVars, decided, overlapped, lost, unbacked, begun>>

-----------------------------------------------------------------------------
(* qualifyReferralIfFirstMilestone and rewardLrnBonus.                     *)
BonusAt(h, pc, next) == bonus[h] = pc /\ bonus' = [bonus EXCEPT ![h] = next]

SelectReferral(h) ==
  /\ BonusAt(h, "select", IF referral = "pending" THEN "count" ELSE "idle")
  /\ UNCHANGED <<rowVars, chainVars, inflight, request, outcomeVars, historyVars, serverVars>>

\* Mutant: any approved report will do.
CountSomeApproved(h) ==
  /\ BonusAt(h, "count", IF Cardinality(Approved) >= 1 THEN "qualify" ELSE "idle")
  /\ UNCHANGED <<rowVars, chainVars, inflight, request, outcomeVars, historyVars, serverVars>>

CountApproved(h) ==
  /\ BonusAt(h, "count", IF Cardinality(Approved) = 1 THEN "qualify" ELSE "idle")
  /\ UNCHANGED <<rowVars, chainVars, inflight, request, outcomeVars, historyVars, serverVars>>

QualifyReferral(h) ==
  /\ BonusAt(h, "qualify", "bonus")
  /\ referral' = IF referral = "pending" THEN "qualified" ELSE referral
  /\ UNCHANGED <<status, audit, released, chainVars, inflight, request, outcomeVars, historyVars, serverVars>>

\* Both mints and the last update, or only the first mint, or nothing.
PayBonus(h) ==
  /\ BonusAt(h, "bonus", "idle")
  /\ \/ bonuses' = bonuses + 1 /\ referral' = (IF referral = "qualified" THEN "rewarded" ELSE referral)
     \/ bonuses' \in {bonuses, bonuses + 1} /\ UNCHANGED referral
  /\ UNCHANGED <<status, audit, released, chainVars, inflight, request, certified, historyVars, serverVars>>

\* A query of the referral step fails, and nothing but the step ends.
BonusFails(h) ==
  /\ bonus[h] # "idle" /\ bonus' = [bonus EXCEPT ![h] = "idle"]
  /\ failures < MaxFailures /\ failures' = failures + 1
  /\ UNCHANGED <<rowVars, chainVars, inflight, request, outcomeVars, historyVars, configured, begun>>

-----------------------------------------------------------------------------
\* one report, or two different ones, as milestoneIdsSchema demands
Batches == {<<r>> : r \in Reports} \cup {b \in Reports \X Reports : b[1] # b[2]}

Step(h) ==
  \/ FindReport(h) \/ StoreReport(h) \/ Load(h) \/ CallAccepted(h) \/ CallRefused(h)
  \/ Decide(h) \/ Appeal(h) \/ Audit(h) \/ Progress(h) \/ MintCertificate(h)
  \/ FindEscrow(h) \/ ReleaseAccepted(h) \/ ReleaseRefused(h) \/ BookTranche(h) \/ Die(h)
  \/ SelectReferral(h) \/ CountApproved(h) \/ QualifyReferral(h) \/ PayBonus(h)
  \/ BonusFails(h)

Next ==
  \/ \E h \in Requests : Step(h)
  \/ \E h \in Requests, kind \in Kinds, todo \in Batches : Begin(h, kind, todo)
  \/ \E t \in inflight : Execute(t) \/ Expire(t)
  \/ \E r \in Reports : SubmitOnChain(r) \/ AppealOnChain(r)
  \/ Restart

Spec == Init /\ [][Next]_vars

-----------------------------------------------------------------------------
(* Properties.                                                             *)
TypeOK ==
  /\ status \in [Reports -> Statuses] /\ audit \in [Reports -> [Decisions -> Nat]]
  /\ released \in Nat /\ referral \in {"pending", "qualified", "rewarded"}
  /\ chain \in [Reports -> Milestones] /\ rewarded \in [Reports -> Nat] /\ paid \in [Reports -> Nat]
  /\ inflight \subseteq Transactions
  /\ request \in [Requests -> [pc : Pcs, kind : Kinds, todo : Seq(Reports), read : Nat]]
  /\ \A h \in Requests : At(h, "load") => request[h].read < Len(request[h].todo)
  /\ bonus \in [Requests -> {"idle", "select", "count", "qualify", "bonus"}]
  /\ bonuses \in Nat /\ certified \in BOOLEAN
  /\ decided \in [Reports -> [Decisions -> Nat]]
  /\ overlapped \subseteq Reports /\ lost \subseteq Reports
  /\ unaudited \subseteq Reports /\ unbacked \subseteq Reports
  /\ configured \in BOOLEAN /\ begun \in Nat /\ failures \in Nat

\* The contract rewarded the report exactly once, or its verification is on the
\* way, or one of its transactions was lost.
Earned(r) ==
  \/ r \in lost \/ Tx("verify", r) \in inflight
  \/ chain[r] = "Approved" /\ rewarded[r] = 1

\* Nothing an approval brings about - the status, a tranche, the certificate for
\* the whole course, the referral bonus - stands without the contract's reward,
\* however many requests worked on the reports at once and also when the
\* status was overwritten since.  An appeal granted by a server without
\* credentials is the one exception: it leaves a report approved, and may
\* complete the course, with no reward.  No tranche and no bonus follows it.
ApprovedIsRewarded ==
  /\ \A r \in Reports : status[r] = "approved" => Earned(r) \/ r \in unbacked
  /\ \A r \in Reports : paid[r] > 0 => Earned(r)
  /\ certified => \A r \in Reports : Earned(r) \/ r \in unbacked
  /\ bonuses > 0 => \E r \in Reports : Earned(r)

\* the requests that wrote a decision and have not recorded it yet
Recording(r, d) == {h \in Requests : At(h, "audit") /\ Report(h) = r /\ Recorded(request[h].kind) = d}

\* The audit log holds every decision exactly as often as it was taken, whichever
\* of the racing requests wrote the row last, also when a report is decided
\* again after a resubmission or an appeal, unless a request died between the
\* row and its entry; and the status in force is one that was decided.
DecisionsAreAudited ==
  \A r \in Reports \ unaudited :
    /\ \A d \in Decisions : decided[r][d] = audit[r][d] + Cardinality(Recording(r, d))
    /\ status[r] \in {"approved", "rejected", "final_rejected"} =>
         \E k \in Kinds \ {"submit", "appeal"} : Written(k) = status[r] /\ decided[r][Recorded(k)] > 0

\* One milestone releases one tranche at most, whatever is lost, repeated,
\* resubmitted or cut short, while no two requests work on it at once: the
\* contract's state checks, which refuse a second verification, cover the
\* release that follows it.
OneTrancheWithoutOverlap == \A r \in Reports \ overlapped : paid[r] <= 1

\* The referral bonus is minted once at most, also when several reports of the
\* scholar are approved at the same time.
OneBonusWithoutOverlap == overlapped = {} => bonuses <= 1
=============================================================================
