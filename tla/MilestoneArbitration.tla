------------------------ MODULE MilestoneArbitration ------------------------
(***************************************************************************)
(* contracts/milestone_arbitration: jurors stake LRN and are drawn onto    *)
(* panels; a scholar disputes a rejected milestone; the panel commits and  *)
(* then reveals its votes; anyone may resolve.  The minority and the       *)
(* silent are slashed in favour of the majority and the winning party.     *)
(* Each call is one atomic transaction.                                    *)
(***************************************************************************)
EXTENDS Integers, FiniteSets, Totals

CONSTANTS
  Jurors,              \* addresses that join the juror pool
  Proposals,           \* proposals and, within each, milestones that can be
  MilestoneIds,        \*   disputed
  NoMilestone,         \* the milestone of a dispute that was never opened
  MaxDisputes,         \* bound: disputes ever opened
  MaxTime,             \* bound: last instant explored
  Stakes,              \* amounts that jurors join with
  MinJurorStake, ScholarDisputeStake, PanelSize, Quorum, MaxPoolSize,
  CommitWindow, RevealWindow,
  NonParticipationSlashBps, MinoritySlashBps, MajorityRewardShareBps

BPS == 10000
Disputes == 0 .. MaxDisputes - 1
Milestones == Proposals \X MilestoneIds

ASSUME ArbitrationAssumption ==
  /\ IsFiniteSet(Jurors) /\ NoMilestone \notin Milestones
  /\ MaxDisputes \in Nat /\ MaxTime \in Nat /\ Stakes \subseteq Nat
  /\ MinJurorStake \in Nat \ {0} /\ ScholarDisputeStake \in Nat
  /\ PanelSize \in Nat \ {0} /\ Quorum \in Nat \ {0} /\ MaxPoolSize \in Nat
  /\ CommitWindow \in Nat /\ RevealWindow \in Nat
  /\ NonParticipationSlashBps \in 0 .. BPS /\ MinoritySlashBps \in 0 .. BPS
  /\ MajorityRewardShareBps \in 0 .. BPS

VARIABLES
  now,       \* ledger timestamp
  pool,      \* JPOOL
  stake,     \* JurorStake(juror), 0 when absent
  active,    \* JurorActiveCount(juror), 0 when absent
  nextId,    \* NEXTID
  disputes,  \* Dispute(id)
  disputed,  \* milestones that have a DisputeByMilestone entry
  ballot,    \* Vote(id, juror)
  held       \* external: LRN held by the contract's address

vars == <<now, pool, stake, active, nextId, disputes, disputed, ballot, held>>

Dispute ==
  [phase: {"None", "Active", "Resolved", "QuorumFailed"},
   milestone: Milestones \cup {NoMilestone},
   panel: SUBSET Jurors, commitBy: Nat, revealBy: Nat,
   votesFor: Nat, votesAgainst: Nat, outcome: {"None", "Release", "Uphold"}]

NoDispute ==
  [phase |-> "None", milestone |-> NoMilestone, panel |-> {}, commitBy |-> 0, revealBy |-> 0,
   votesFor |-> 0, votesAgainst |-> 0, outcome |-> "None"]

\* A commitment binds the juror to one vote and hides it.
Sealed == {"SealedFor", "SealedAgainst"}
Opened == {"For", "Against"}
Ballots == {"None"} \cup Sealed \cup Opened

Init ==
  /\ now = 0 /\ pool = {} /\ nextId = 0 /\ disputed = {} /\ held = 0
  /\ stake = [j \in Jurors |-> 0]
  /\ active = [j \in Jurors |-> 0]
  /\ disputes = [d \in Disputes |-> NoDispute]
  /\ ballot = [vote \in Disputes \X Jurors |-> "None"]

BpsOf(amount, bps) == (amount * bps) \div BPS

-----------------------------------------------------------------------------
(* The juror pool *)

JoinPanel(j, amount) ==
  /\ amount >= MinJurorStake
  /\ j \notin pool
  /\ Cardinality(pool) < MaxPoolSize
  /\ pool' = pool \cup {j}
  /\ stake' = [stake EXCEPT ![j] = amount]
  /\ active' = [active EXCEPT ![j] = 0]
  /\ held' = held + amount
  /\ UNCHANGED <<now, nextId, disputes, disputed, ballot>>

\* Mutant of LeavePanel: a juror walks away from a panel.
LeaveMidVote(j) ==
  /\ j \in pool
  /\ pool' = pool \ {j}
  /\ stake' = [stake EXCEPT ![j] = 0]
  /\ active' = [active EXCEPT ![j] = 0]
  /\ held' = held - stake[j]
  /\ UNCHANGED <<now, nextId, disputes, disputed, ballot>>

LeavePanel(j) ==
  /\ j \in pool
  /\ active[j] = 0
  /\ pool' = pool \ {j}
  /\ stake' = [stake EXCEPT ![j] = 0]
  /\ active' = [active EXCEPT ![j] = 0]
  /\ held' = held - stake[j]
  /\ UNCHANGED <<now, nextId, disputes, disputed, ballot>>

-----------------------------------------------------------------------------
(* Disputes and votes *)

\* select_panel: a hash draws among the jurors with a positive stake, so any
\* panel of them may come out.
Panels == {panel \in SUBSET {j \in pool : stake[j] > 0} : Cardinality(panel) = PanelSize}

\* The caller's rejected_at is stored nowhere and may be any recent instant, so
\* its window refuses nobody.  Bound: a dispute is opened only while the clock
\* leaves it time to run its course.
OpenDispute(m) ==
  /\ nextId \in Disputes
  /\ now + CommitWindow + RevealWindow < MaxTime
  /\ m \notin disputed
  /\ \E panel \in Panels :
       /\ disputes' = [disputes EXCEPT ![nextId] =
            [NoDispute EXCEPT !.phase = "Active", !.milestone = m, !.panel = panel,
                              !.commitBy = now + CommitWindow,
                              !.revealBy = now + CommitWindow + RevealWindow]]
       /\ active' = [j \in Jurors |-> IF j \in panel THEN active[j] + 1 ELSE active[j]]
  /\ disputed' = disputed \cup {m}
  /\ nextId' = nextId + 1
  /\ held' = held + ScholarDisputeStake
  /\ UNCHANGED <<now, pool, stake, ballot>>

CommitVote(d, j, sealed) ==
  /\ disputes[d].phase = "Active"
  /\ now <= disputes[d].commitBy
  /\ j \in disputes[d].panel
  /\ ballot[<<d, j>>] = "None"
  /\ ballot' = [ballot EXCEPT ![<<d, j>>] = sealed]
  /\ UNCHANGED <<now, pool, stake, active, nextId, disputes, disputed, held>>

\* Opens the ballot, provided that it is the committed one, and counts it.
Counted(d, j) ==
  \/ /\ ballot[<<d, j>>] = "SealedFor"
     /\ ballot' = [ballot EXCEPT ![<<d, j>>] = "For"]
     /\ disputes' = [disputes EXCEPT ![d].votesFor = @ + 1]
  \/ /\ ballot[<<d, j>>] = "SealedAgainst"
     /\ ballot' = [ballot EXCEPT ![<<d, j>>] = "Against"]
     /\ disputes' = [disputes EXCEPT ![d].votesAgainst = @ + 1]

\* Mutants of RevealVote: opened in the last instant of the commit window, and
\* counted although already resolved.
RevealEarly(d, j) ==
  /\ disputes[d].phase = "Active"
  /\ now >= disputes[d].commitBy /\ now <= disputes[d].revealBy
  /\ Counted(d, j)
  /\ UNCHANGED <<now, pool, stake, active, nextId, disputed, held>>

RevealAfterwards(d, j) ==
  /\ disputes[d].phase # "None"
  /\ now > disputes[d].commitBy
  /\ Counted(d, j)
  /\ UNCHANGED <<now, pool, stake, active, nextId, disputed, held>>

RevealVote(d, j) ==
  /\ disputes[d].phase = "Active"
  /\ now > disputes[d].commitBy /\ now <= disputes[d].revealBy
  /\ Counted(d, j)
  /\ UNCHANGED <<now, pool, stake, active, nextId, disputed, held>>

-----------------------------------------------------------------------------
(* Resolution *)

Revealed(d) == disputes[d].votesFor + disputes[d].votesAgainst

QuorumMet(d) == Revealed(d) >= Quorum

MayResolve(d) ==
  /\ disputes[d].phase = "Active"
  /\ Revealed(d) >= PanelSize \/ now > disputes[d].revealBy

Silent(d, j) == ballot[<<d, j>>] \notin Opened

Released(d) == disputes[d].votesFor > disputes[d].votesAgainst
Tied(d)     == disputes[d].votesFor = disputes[d].votesAgainst

\* Mutant of Outvoted: a tie upholds the rejection, so those who voted for the
\* release count as outvoted.
OutvotedInTie(d, j) == ballot[<<d, j>>] = IF Released(d) THEN "Against" ELSE "For"

\* Revealed a vote that lost; on a tie nobody did.
Outvoted(d, j) ==
  ~Tied(d) /\ ballot[<<d, j>>] = IF Released(d) THEN "Against" ELSE "For"

\* Mutant of Slash: computed from the stake a juror entered with.
SlashOfEntryStake(d, j) ==
  IF Silent(d, j) THEN BpsOf(MinJurorStake, NonParticipationSlashBps)
  ELSE IF QuorumMet(d) /\ Outvoted(d, j) THEN BpsOf(MinJurorStake, MinoritySlashBps)
  ELSE 0

Slash(d, j) ==
  IF Silent(d, j) THEN BpsOf(stake[j], NonParticipationSlashBps)
  ELSE IF QuorumMet(d) /\ Outvoted(d, j) THEN BpsOf(stake[j], MinoritySlashBps)
  ELSE 0

Slashed(d) == Total([j \in Jurors |-> Slash(d, j)], disputes[d].panel)

\* majority_jurors: whoever revealed and was not slashed, which includes an
\* outvoted juror whose stake is too small to slash.
Rewarded(d) == {j \in disputes[d].panel : ~Silent(d, j) /\ Slash(d, j) = 0}

\* What is shared out when the quorum is met: a losing scholar's stake as well.
Pot(d) == Slashed(d) + IF Released(d) THEN 0 ELSE ScholarDisputeStake

\* Each rewarded juror's part, rounded down.
Reward(d) ==
  IF Rewarded(d) = {} THEN 0
  ELSE BpsOf(Pot(d), MajorityRewardShareBps) \div Cardinality(Rewarded(d))

Closed(d, phase, outcome) ==
  /\ disputes' = [disputes EXCEPT ![d].phase = phase, ![d].outcome = outcome]
  /\ active' = [j \in Jurors |->
       IF j \in disputes[d].panel /\ active[j] > 0 THEN active[j] - 1 ELSE active[j]]
  /\ UNCHANGED <<now, pool, nextId, disputed, ballot>>

\* Mutant of ResolveWithQuorum: what rounding leaves over stays in the contract.
ResolveKeepingDust(d) ==
  /\ MayResolve(d) /\ QuorumMet(d)
  /\ stake' = [j \in Jurors |->
       IF j \notin disputes[d].panel THEN stake[j]
       ELSE stake[j] - Slash(d, j) + IF j \in Rewarded(d) THEN Reward(d) ELSE 0]
  /\ held' = held - (Pot(d) - BpsOf(Pot(d), MajorityRewardShareBps))
                  - IF Released(d) THEN ScholarDisputeStake ELSE 0
  /\ Closed(d, "Resolved", IF Released(d) THEN "Release" ELSE "Uphold")

\* The rest of the pot goes to the winning party and, as dust, to the treasury.
ResolveWithQuorum(d) ==
  /\ MayResolve(d) /\ QuorumMet(d)
  /\ stake' = [j \in Jurors |->
       IF j \notin disputes[d].panel THEN stake[j]
       ELSE stake[j] - Slash(d, j) + IF j \in Rewarded(d) THEN Reward(d) ELSE 0]
  /\ held' = held - (Pot(d) - Reward(d) * Cardinality(Rewarded(d)))
                  - IF Released(d) THEN ScholarDisputeStake ELSE 0
  /\ Closed(d, "Resolved", IF Released(d) THEN "Release" ELSE "Uphold")

\* The scholar is refunded, the silent are slashed to the treasury.
ResolveQuorumFailed(d) ==
  /\ MayResolve(d) /\ ~QuorumMet(d)
  /\ stake' = [j \in Jurors |->
       IF j \in disputes[d].panel THEN stake[j] - Slash(d, j) ELSE stake[j]]
  /\ held' = held - ScholarDisputeStake - Slashed(d)
  /\ Closed(d, "QuorumFailed", "None")

\* Mutant of Resolve: the quorum fallback is missing.
ResolveOnlyWithQuorum(d) == ResolveWithQuorum(d)

Resolve(d) == ResolveWithQuorum(d) \/ ResolveQuorumFailed(d)

\* get_release_outcome, as far as an escrow goes by it: the milestone that the
\* dispute releases.
ReleaseOutcome(d) ==
  IF disputes[d].outcome = "Release" THEN disputes[d].milestone ELSE NoMilestone

Tick ==
  /\ now < MaxTime
  /\ now' = now + 1
  /\ UNCHANGED <<pool, stake, active, nextId, disputes, disputed, ballot, held>>

-----------------------------------------------------------------------------

Next ==
  \/ Tick
  \/ \E j \in Jurors, amount \in Stakes : JoinPanel(j, amount)
  \/ \E j \in Jurors : LeavePanel(j)
  \/ \E m \in Milestones : OpenDispute(m)
  \/ \E d \in Disputes, j \in Jurors, sealed \in Sealed : CommitVote(d, j, sealed)
  \/ \E d \in Disputes, j \in Jurors : RevealVote(d, j)
  \/ \E d \in Disputes : Resolve(d)

Spec == Init /\ [][Next]_vars

\* Time passes, and somebody calls resolve, which is open to anyone, once it
\* may be called.
FairSpec == Spec /\ WF_vars(Tick) /\ \A d \in Disputes : WF_vars(Resolve(d))

-----------------------------------------------------------------------------
(* Properties *)

\* Types; in particular no stake is slashed below zero.
TypeOK ==
  /\ now \in Nat /\ pool \subseteq Jurors /\ disputed \subseteq Milestones
  /\ stake \in [Jurors -> Nat] /\ active \in [Jurors -> Nat]
  /\ nextId \in 0 .. MaxDisputes
  /\ disputes \in [Disputes -> Dispute]
  /\ ballot \in [Disputes \X Jurors -> Ballots]
  /\ held \in Nat

Running == {d \in Disputes : disputes[d].phase = "Active"}

\* The contract holds exactly the jurors' stakes and the stakes of the running
\* disputes: slashes, rewards, refunds and dust leave nothing over and nothing
\* missing, so every resolution and every departure can be paid.
StakesAreHeld ==
  held = Total(stake, Jurors) + ScholarDisputeStake * Cardinality(Running)

\* The running count of a juror's assignments is the number of running disputes
\* it sits on, and panel members stay in the pool until their last verdict.
AssignmentsAreCounted ==
  /\ \A j \in Jurors : active[j] = Cardinality({d \in Running : j \in disputes[d].panel})
  /\ \A d \in Running : disputes[d].panel \subseteq pool

Opening(d, vote) == {j \in Jurors : ballot[<<d, j>>] = vote}

\* What the escrow may rely on: a dispute authorizes a release only if, by the
\* ballots themselves, a quorum was opened and the majority is for it; the
\* ballots that decided stay as they are; and no second dispute releases the
\* same milestone.
OutcomeIsMajority ==
  \A d \in Disputes :
    LET for == Cardinality(Opening(d, "For"))
        against == Cardinality(Opening(d, "Against"))
    IN  /\ disputes[d].outcome # "None" => for + against >= Quorum
        /\ disputes[d].outcome = "Release" => for > against
        /\ disputes[d].outcome = "Uphold" => for <= against
        /\ ReleaseOutcome(d) # NoMilestone =>
             \A e \in Disputes : ReleaseOutcome(e) = ReleaseOutcome(d) => e = d

\* Votes are blind: once a ballot of a dispute is open nobody can commit to it.
VotesAreBlind ==
  [][\A d \in Disputes, j \in Jurors :
       (\E i \in Jurors : ballot[<<d, i>>] \in Opened)
         => (ballot[<<d, j>>] = "None" => ballot'[<<d, j>>] = "None")]_vars

\* A juror loses stake only through the resolution of a dispute of its own in
\* which it stayed silent, or was outvoted by a strict majority.
OnlyFaultIsSlashed ==
  [][\A j \in pool \cap pool' : stake'[j] < stake[j] =>
       \E d \in Running :
         /\ disputes'[d].phase # "Active" /\ j \in disputes[d].panel
         /\ \/ ballot[<<d, j>>] \notin Opened
            \/ 2 * Cardinality(Opening(d, ballot[<<d, j>>])) < Revealed(d)]_vars

\* A dispute never hangs: whatever jurors do or leave undone, it is resolved.
EveryDisputeEnds ==
  \A d \in Disputes : disputes[d].phase = "Active" ~> disputes[d].phase # "Active"

Rulings == INSTANCE ReleaseRulings WITH
  NoRuling <- NoMilestone,
  ruling   <- [d \in Disputes |-> ReleaseOutcome(d)]

\* What an escrow supposes of this contract: a dispute releases its milestone
\* once and for all, and no milestone is released by two disputes.
ImplementsRulings == Rulings!Spec

\* An outvoted juror never gains from the resolution.
OutvotedNeverGain ==
  [][\A d \in Running, j \in Jurors :
       disputes'[d].phase = "Resolved" /\ j \in disputes[d].panel /\ Outvoted(d, j)
         => stake'[j] <= stake[j]]_vars
=============================================================================
