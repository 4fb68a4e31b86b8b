-------------------------- MODULE MilestoneEscrow ---------------------------
(***************************************************************************)
(* contracts/milestone_escrow: the treasury locks a scholarship, the admin *)
(* releases it tranche by tranche, a favourable ruling of the arbitration  *)
(* contract releases a tranche without the admin, and what is left of an   *)
(* inactive escrow goes back to the treasury.  The arbitration contract is *)
(* replaced behind a timelock.  Each call is one atomic transaction.       *)
(***************************************************************************)
EXTENDS Integers, FiniteSets, Totals

CONSTANTS
  Proposals,            \* ids that escrows are created for
  MilestoneIds,         \* numbers of a proposal's milestones
  Amounts,              \* amounts locked
  TrancheCounts,        \* numbers of tranches
  Contracts,            \* addresses of arbitration contracts
  NoContract,           \* ArbitrationConfig.address or a pending change absent
  DisputeIds,           \* ids of disputes, which every contract numbers anew
  NoRuling,             \* no outcome, or one that upholds the rejection
  InactivityWindow, ArbitrationTimelock,
  MaxTime               \* bound: last instant explored

\* What disputes are about.
Milestones == Proposals \X MilestoneIds

ASSUME EscrowAssumption ==
  /\ IsFiniteSet(Proposals) /\ IsFiniteSet(MilestoneIds)
  /\ IsFiniteSet(Contracts) /\ IsFiniteSet(DisputeIds)
  /\ Amounts \subseteq Nat \ {0} /\ TrancheCounts \subseteq Nat \ {0}
  /\ NoContract \notin Contracts /\ NoRuling \notin Milestones
  /\ InactivityWindow \in Nat /\ ArbitrationTimelock \in Nat /\ MaxTime \in Nat

VARIABLES
  now,          \* ledger timestamp
  escrows,      \* Escrow(proposal)
  arbitration,  \* ARBCFG.address
  pending,      \* ARBPEND
  used,         \* dispute ids with an ArbitrationDisputeUsed entry
  rulings,      \* external: the milestone each dispute releases, by contract
  held,         \* external: XLM held by the contract's address
  toScholar,    \* external: XLM paid to the scholar of each proposal
  toTreasury,   \* external: XLM returned to the treasury for each proposal
  lastPaid,     \* external: when the escrow was funded or last paid its scholar
  arbitrated    \* external: tranches released by rulings

configVars == <<arbitration, pending>>
paidVars   == <<held, toScholar, toTreasury, lastPaid, arbitrated>>
vars == <<now, escrows, configVars, used, rulings, paidVars>>

EscrowRecord ==
  [total: Nat, released: Nat, tranches: Nat, done: Nat, lastActivity: Nat]

\* An absent record; the total of a record is never zero.
NoEscrow == [total |-> 0, released |-> 0, tranches |-> 0, done |-> 0, lastActivity |-> 0]

PendingChange == [contract: Contracts \cup {NoContract}, readyAt: Nat]
NoChange == [contract |-> NoContract, readyAt |-> 0]

Init ==
  /\ now = 0 /\ used = {} /\ held = 0
  /\ escrows = [p \in Proposals |-> NoEscrow]
  /\ arbitration = NoContract /\ pending = NoChange
  /\ rulings = [dispute \in Contracts \X DisputeIds |-> NoRuling]
  /\ toScholar = [p \in Proposals |-> 0]
  /\ toTreasury = [p \in Proposals |-> 0]
  /\ lastPaid = [p \in Proposals |-> 0]
  /\ arbitrated = [p \in Proposals |-> 0]

Exists(p) == escrows[p].total > 0

-----------------------------------------------------------------------------
(* Locking and releasing *)

CreateEscrow(p, amount, tranches) ==
  /\ ~Exists(p)
  /\ escrows' = [escrows EXCEPT ![p] =
       [NoEscrow EXCEPT !.total = amount, !.tranches = tranches, !.lastActivity = now]]
  /\ held' = held + amount
  /\ lastPaid' = [lastPaid EXCEPT ![p] = now]
  /\ UNCHANGED <<now, configVars, used, rulings, toScholar, toTreasury, arbitrated>>

Remaining(p) == escrows[p].total - escrows[p].released

\* Mutant of NextTranche: the last tranche is like the others.
NextTrancheEven(p) == escrows[p].total \div escrows[p].tranches

\* The last tranche takes what rounding has left over.
NextTranche(p) ==
  IF escrows[p].done + 1 = escrows[p].tranches
    THEN Remaining(p)
    ELSE escrows[p].total \div escrows[p].tranches

\* Mutant of Payable: the total is not looked at.
PayableBeyondTotal(p) ==
  Exists(p) /\ escrows[p].done < escrows[p].tranches

\* AllTranchesReleased and Overpayment.
Payable(p) ==
  /\ Exists(p) /\ escrows[p].done < escrows[p].tranches
  /\ NextTranche(p) > 0 /\ NextTranche(p) <= Remaining(p)

PayScholar(p, amount) ==
  /\ held' = held - amount
  /\ toScholar' = [toScholar EXCEPT ![p] = @ + amount]
  /\ lastPaid' = [lastPaid EXCEPT ![p] = now]
  /\ UNCHANGED toTreasury

\* The part that both ways of releasing have in common.
Released(p) ==
  /\ Payable(p)
  /\ escrows' = [escrows EXCEPT ![p].released = @ + NextTranche(p), ![p].done = @ + 1,
                                ![p].lastActivity = now]
  /\ PayScholar(p, NextTranche(p))

ReleaseTranche(p) ==
  /\ Released(p)
  /\ UNCHANGED <<now, configVars, used, rulings, arbitrated>>

Releases(c, d, p) == \E m \in MilestoneIds : rulings[<<c, d>>] = <<p, m>>

\* The outcome's milestone is not looked at.
Favorable(p, d) ==
  arbitration # NoContract /\ d \notin used /\ Releases(arbitration, d, p)

\* Mutants of ReleaseViaArbitration: the dispute is not marked, and the release
\* does not count as activity.
ReleaseUnmarked(p, d) ==
  /\ Favorable(p, d)
  /\ Released(p)
  /\ arbitrated' = [arbitrated EXCEPT ![p] = @ + 1]
  /\ UNCHANGED <<now, configVars, used, rulings>>

ReleaseUnnoticed(p, d) ==
  /\ Favorable(p, d)
  /\ Payable(p)
  /\ escrows' = [escrows EXCEPT ![p].released = @ + NextTranche(p), ![p].done = @ + 1]
  /\ PayScholar(p, NextTranche(p))
  /\ used' = used \cup {d}
  /\ arbitrated' = [arbitrated EXCEPT ![p] = @ + 1]
  /\ UNCHANGED <<now, configVars, rulings>>

\* Open to anyone.
ReleaseViaArbitration(p, d) ==
  /\ Favorable(p, d)
  /\ Released(p)
  /\ used' = used \cup {d}
  /\ arbitrated' = [arbitrated EXCEPT ![p] = @ + 1]
  /\ UNCHANGED <<now, configVars, rulings>>

\* Mutant of ReclaimInactive: the transfer is made, the record is not closed.
ReclaimOpen(p) ==
  /\ Exists(p)
  /\ now - escrows[p].lastActivity >= InactivityWindow
  /\ Remaining(p) > 0
  /\ escrows' = [escrows EXCEPT ![p].lastActivity = now]
  /\ held' = held - Remaining(p)
  /\ toTreasury' = [toTreasury EXCEPT ![p] = @ + Remaining(p)]
  /\ UNCHANGED <<now, configVars, used, rulings, toScholar, lastPaid, arbitrated>>

ReclaimInactive(p) ==
  /\ Exists(p)
  /\ now - escrows[p].lastActivity >= InactivityWindow
  /\ Remaining(p) > 0
  /\ escrows' = [escrows EXCEPT ![p].released = escrows[p].total, ![p].lastActivity = now]
  /\ held' = held - Remaining(p)
  /\ toTreasury' = [toTreasury EXCEPT ![p] = @ + Remaining(p)]
  /\ UNCHANGED <<now, configVars, used, rulings, toScholar, lastPaid, arbitrated>>

-----------------------------------------------------------------------------
(* The arbitration contract *)

SetArbitrationContract(c) ==
  /\ arbitration = NoContract
  /\ arbitration' = c
  /\ UNCHANGED pending

QueueArbitrationChange(c) ==
  /\ arbitration # NoContract /\ pending = NoChange
  /\ pending' = [contract |-> c, readyAt |-> now + ArbitrationTimelock]
  /\ UNCHANGED arbitration

ExecuteArbitrationChange ==
  /\ pending # NoChange
  /\ now >= pending.readyAt
  /\ arbitration' = pending.contract
  /\ pending' = NoChange

CancelArbitrationChange ==
  /\ pending # NoChange
  /\ pending' = NoChange
  /\ UNCHANGED arbitration

ChangeArbitration ==
  /\ \/ \E c \in Contracts : SetArbitrationContract(c) \/ QueueArbitrationChange(c)
     \/ ExecuteArbitrationChange \/ CancelArbitrationChange
  /\ UNCHANGED <<now, escrows, used, rulings, paidVars>>

-----------------------------------------------------------------------------
(* The environment: what ReleaseRulings promises of an arbitration contract *)

Rule(c, d, m) ==
  /\ rulings[<<c, d>>] = NoRuling
  /\ \A e \in DisputeIds : rulings[<<c, e>>] # m
  /\ rulings' = [rulings EXCEPT ![<<c, d>>] = m]
  /\ UNCHANGED <<now, escrows, configVars, used, paidVars>>

Tick ==
  /\ now < MaxTime
  /\ now' = now + 1
  /\ UNCHANGED <<escrows, configVars, used, rulings, paidVars>>

-----------------------------------------------------------------------------

Next ==
  \/ Tick \/ ChangeArbitration
  \/ \E p \in Proposals, amount \in Amounts, tranches \in TrancheCounts :
       CreateEscrow(p, amount, tranches)
  \/ \E p \in Proposals : ReleaseTranche(p) \/ ReclaimInactive(p)
  \/ \E p \in Proposals, d \in DisputeIds : ReleaseViaArbitration(p, d)
  \/ \E c \in Contracts, d \in DisputeIds, m \in Milestones : Rule(c, d, m)

Spec == Init /\ [][Next]_vars

-----------------------------------------------------------------------------
(* Properties *)

\* Types; in particular the contract never owes more than it holds.
TypeOK ==
  /\ now \in Nat
  /\ escrows \in [Proposals -> EscrowRecord]
  /\ arbitration \in Contracts \cup {NoContract} /\ pending \in PendingChange
  /\ used \subseteq DisputeIds
  /\ rulings \in [Contracts \X DisputeIds -> Milestones \cup {NoRuling}]
  /\ held \in Nat
  /\ toScholar \in [Proposals -> Nat] /\ toTreasury \in [Proposals -> Nat]
  /\ lastPaid \in [Proposals -> Nat] /\ arbitrated \in [Proposals -> Nat]

\* The contract holds exactly what its records have not released, and each
\* record accounts for every unit paid to either side: one escrow is never paid
\* out of another.
EscrowsAreFunded ==
  /\ held = Total([p \in Proposals |-> Remaining(p)], Proposals)
  /\ \A p \in Proposals : toScholar[p] + toTreasury[p] = escrows[p].released

\* After k releases, by whichever way, the scholar has k equal tranches; the last
\* one brings the total, whatever the division left over.  A total of at least one
\* unit a tranche is always paid to the end: until a reclaim, the guards against
\* overpayment and empty tranches never refuse one.
TranchesAreEven ==
  \A p \in Proposals : Exists(p) =>
    /\ toScholar[p] = IF escrows[p].done = escrows[p].tranches
                        THEN escrows[p].total
                        ELSE escrows[p].done * (escrows[p].total \div escrows[p].tranches)
    /\ /\ toTreasury[p] = 0
       /\ escrows[p].total >= escrows[p].tranches
       /\ escrows[p].done < escrows[p].tranches
       => Payable(p)

\* The dispute ids that released a tranche of p in some contract, and the
\* milestones of p that they were about.
FavorableDisputes(p) == {d \in DisputeIds : \E c \in Contracts : Releases(c, d, p)}
ReleasedMilestones(p) ==
  {case \in Contracts \X MilestoneIds :
     \E d \in DisputeIds : rulings[<<case[1], d>>] = <<p, case[2]>>}

\* Arbitrated tranches are bought one by one: a dispute id, even when two
\* contracts used it, authorizes at most one, only for the proposal it was about,
\* and a contract no more of them than milestones of that proposal it decided,
\* although the escrow looks at none of these milestones.
OneReleasePerDispute ==
  \A p \in Proposals :
    /\ arbitrated[p] <= Cardinality(FavorableDisputes(p))
    /\ arbitrated[p] <= Cardinality(ReleasedMilestones(p))

\* Each arbitration contract, seen through its rulings: the environment above is
\* what ReleaseRulings promises, of every contract by itself.
Arbitration(c) == INSTANCE ReleaseRulings WITH
  Disputes <- DisputeIds,
  ruling   <- [d \in DisputeIds |-> rulings[<<c, d>>]]

\* Funds go back to the treasury only when the scholar's escrow has seen no
\* funding and no payment of either kind for the inactivity window.
ReclaimWaits ==
  [][\A p \in Proposals :
       toTreasury'[p] > toTreasury[p] => now >= lastPaid[p] + InactivityWindow]_vars

Payout == INSTANCE TranchePayout WITH
  Grants   <- Proposals,
  Sums     <- Amounts,
  funded   <- [p \in Proposals |-> escrows[p].total],
  scholar  <- toScholar,
  treasury <- toTreasury

\* The escrow implements TranchePayout: after a reclaim no late release of either
\* kind pays the scholar, and nothing is ever reclaimed twice.
ImplementsPayout == Payout!Spec

\* An escrow as the server's reclaim sees it.
Stage(p) ==
  CASE ~Exists(p) -> "none"
    [] Exists(p) /\ Remaining(p) = 0 -> "spent"
    [] Exists(p) /\ Remaining(p) > 0 /\ now - escrows[p].lastActivity >= InactivityWindow -> "overdue"
    [] OTHER -> "open"

Watch == INSTANCE InactivityWatch WITH
  Grants <- Proposals,
  stage  <- [p \in Proposals |-> Stage(p)]

\* What EscrowTimeouts supposes of this contract: every release of either kind
\* restarts the whole window, only the end of the window lets a reclaim through,
\* and a spent escrow is never paid from or reclaimed again.
ImplementsWatch == Watch!Spec
=============================================================================
