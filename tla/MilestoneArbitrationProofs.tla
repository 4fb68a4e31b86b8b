--------------------- MODULE MilestoneArbitrationProofs ---------------------
(***************************************************************************)
(* Theorems about MilestoneArbitration, for every number of jurors and     *)
(* disputes, every size of panel and every stake, slash and reward.        *)
(***************************************************************************)
EXTENDS MilestoneArbitration, TotalsProofs

\* TypeOK but for the sign of held, which follows from StakesAreHeld.
Typed ==
  /\ now \in Nat /\ pool \subseteq Jurors /\ disputed \subseteq Milestones
  /\ stake \in [Jurors -> Nat] /\ active \in [Jurors -> Nat]
  /\ nextId \in 0 .. MaxDisputes
  /\ disputes \in [Disputes -> Dispute]
  /\ ballot \in [Disputes \X Jurors -> Ballots]
  /\ held \in Int

\* Who is not in the pool has nothing at stake.
OutsidersHaveNone == \A j \in Jurors : j \notin pool => stake[j] = 0

\* An id not handed out has no record.
FreshIds == \A d \in Disputes : d >= nextId => disputes[d] = NoDispute

\* The running disputes that a juror sits on.
SitsOn(j) == {d \in Running : j \in disputes[d].panel}

BookInv == StakesAreHeld /\ AssignmentsAreCounted /\ OutsidersHaveNone /\ FreshIds

\* The tally of a dispute is its open ballots, which are opened only after the
\* commit window; an outcome is the tally's.
TallyOK(d) ==
  /\ disputes[d].votesFor = Cardinality(Opening(d, "For"))
  /\ disputes[d].votesAgainst = Cardinality(Opening(d, "Against"))
  /\ (\E j \in Jurors : ballot[<<d, j>>] \in Opened)
       => disputes[d].phase # "None" /\ now > disputes[d].commitBy
  /\ disputes[d].phase \in {"None", "Active"} => disputes[d].outcome = "None"
  /\ disputes[d].outcome # "None" => Revealed(d) >= Quorum
  /\ disputes[d].outcome = "Release" => disputes[d].votesFor > disputes[d].votesAgainst
  /\ disputes[d].outcome = "Uphold" => disputes[d].votesFor <= disputes[d].votesAgainst

VoteInv == \A d \in Disputes : TallyOK(d)

IInv == Typed /\ BookInv /\ VoteInv

-----------------------------------------------------------------------------
(* Slashes and rewards *)

\* A share is at most the whole.
LEMMA BpsOfType ==
  ASSUME NEW amount \in Nat, NEW bps \in 0 .. BPS
  PROVE  BpsOf(amount, bps) \in 0 .. amount
<1> DEFINE share == amount * bps
<1>1. share \in Nat
  OBVIOUS
<1>2. share <= amount * 10000
  <2>1. PICK rest \in Nat : bps + rest = 10000
    <3>1. 10000 - bps \in Nat /\ bps + (10000 - bps) = 10000
      BY DEF BPS
    <3>2. QED
      BY <3>1
  <2>2. amount * (bps + rest) = amount * bps + amount * rest
    OBVIOUS
  <2>3. amount * rest \in Nat
    OBVIOUS
  <2>4. QED
    BY <1>1, <2>1, <2>2, <2>3
<1> HIDE DEF share
<1>3. share \div 10000 \in Nat /\ share \div 10000 <= amount
  BY <1>1, <1>2
<1>4. QED
  BY <1>3 DEF BpsOf, BPS, share

\* No slash exceeds the stake.
LEMMA SlashType ==
  ASSUME Typed, NEW d \in Disputes, NEW j \in Jurors
  PROVE  Slash(d, j) \in 0 .. stake[j]
<1>1. stake[j] \in Nat
  BY DEF Typed
<1>2. /\ BpsOf(stake[j], NonParticipationSlashBps) \in 0 .. stake[j]
      /\ BpsOf(stake[j], MinoritySlashBps) \in 0 .. stake[j]
  BY <1>1, BpsOfType, ArbitrationAssumption
<1>3. 0 \in 0 .. stake[j]
  BY <1>1
<1>4. QED
  BY <1>2, <1>3 DEF Slash

\* What a resolution collects and hands out are natural numbers.
LEMMA PotType ==
  ASSUME Typed, NEW d \in Disputes
  PROVE  /\ disputes[d].panel \subseteq Jurors
         /\ Slashed(d) \in Nat /\ Pot(d) \in Nat
         /\ IsFiniteSet(Rewarded(d)) /\ Rewarded(d) \subseteq Jurors
         /\ Cardinality(Rewarded(d)) \in Nat /\ Reward(d) \in Nat
<1>1. disputes[d].panel \subseteq Jurors
  BY DEF Typed, Dispute
<1>2. IsFiniteSet(disputes[d].panel) /\ Rewarded(d) \subseteq Jurors
  BY <1>1, ArbitrationAssumption, FS_Subset DEF Rewarded
<1>3. IsFiniteSet(Rewarded(d)) /\ Cardinality(Rewarded(d)) \in Nat
  BY <1>2, ArbitrationAssumption, FS_Subset, FS_CardinalityType
<1>4. Slashed(d) \in Nat
  <2> DEFINE slash == [j \in Jurors |-> Slash(d, j)]
  <2>1. \A j \in disputes[d].panel : slash[j] \in Nat
    <3>1. \A j \in Jurors : Slash(d, j) \in 0 .. stake[j] /\ stake[j] \in Nat
      BY SlashType DEF Typed
    <3>2. QED
      BY <1>1, <3>1
  <2> HIDE DEF slash
  <2>2. Total(slash, disputes[d].panel) \in Nat
    BY <1>2, <2>1, TotalType
  <2>3. QED
    BY <2>2 DEF Slashed, slash
<1>5. Pot(d) \in Nat
  BY <1>4, ArbitrationAssumption DEF Pot
<1>6. Reward(d) \in Nat
  <2>1. CASE Rewarded(d) = {}
    BY <2>1 DEF Reward
  <2>2. CASE Rewarded(d) # {}
    <3>1. Cardinality(Rewarded(d)) \in Nat \ {0}
      BY <1>3, <2>2, FS_EmptySet
    <3>2. BpsOf(Pot(d), MajorityRewardShareBps) \in Nat
      BY <1>5, BpsOfType, ArbitrationAssumption
    <3>3. BpsOf(Pot(d), MajorityRewardShareBps) \div Cardinality(Rewarded(d)) \in Nat
      BY <3>1, <3>2
    <3>4. QED
      BY <2>2, <3>3 DEF Reward
  <2>3. QED
    BY <2>1, <2>2
<1>7. QED
  BY <1>1, <1>2, <1>3, <1>4, <1>5, <1>6

\* When panel members are slashed and given their gains, the stakes together
\* change by the gains and by what was slashed.
LEMMA StakesMoved ==
  ASSUME Typed, NEW d \in Disputes, NEW gain \in [Jurors -> Nat],
         stake' \in [Jurors -> Int],
         \A j \in Jurors : stake'[j] =
           (stake[j] - IF j \in disputes[d].panel THEN Slash(d, j) ELSE 0) + gain[j]
  PROVE  /\ stake' \in [Jurors -> Nat]
         /\ Total(stake', Jurors) \in Nat /\ Total(stake, Jurors) \in Nat
         /\ Total(stake', Jurors) + Slashed(d) = Total(stake, Jurors) + Total(gain, Jurors)
<1> DEFINE loss == [j \in Jurors |-> IF j \in disputes[d].panel THEN Slash(d, j) ELSE 0]
           sum == [j \in Jurors |-> stake[j] + gain[j]]
<1>1. \A j \in Jurors : /\ stake[j] \in Nat /\ gain[j] \in Nat
                        /\ Slash(d, j) \in 0 .. stake[j]
  BY SlashType DEF Typed
<1>2. \A j \in Jurors : loss[j] \in Nat /\ loss[j] <= stake[j]
  BY <1>1
<1>3. \A j \in Jurors : stake'[j] = (stake[j] - loss[j]) + gain[j]
  OBVIOUS
<1>4. Total(loss, Jurors) = Slashed(d)
  <2> DEFINE slash == [j \in Jurors |-> Slash(d, j)]
  <2>1. disputes[d].panel \subseteq Jurors
    BY PotType
  <2>2. \A j \in Jurors : loss[j] = IF j \in disputes[d].panel THEN slash[j] ELSE 0
    OBVIOUS
  <2> HIDE DEF loss, slash
  <2>3. Total(loss, Jurors) = Total(slash, disputes[d].panel)
    BY <2>1, <2>2, TotalSupport
  <2>4. QED
    BY <2>3 DEF Slashed, slash
<1> HIDE DEF loss
<1>5. \A j \in Jurors : stake'[j] \in Nat /\ sum[j] \in Nat /\ sum[j] = stake[j] + gain[j]
                        /\ sum[j] = stake'[j] + loss[j]
  BY <1>1, <1>2, <1>3
<1>6. stake' \in [Jurors -> Nat]
  BY <1>5
<1> HIDE DEF sum
<1>7. Total(sum, Jurors) = Total(stake, Jurors) + Total(gain, Jurors)
  BY <1>1, <1>5, ArbitrationAssumption, TotalSum
<1>8. Total(sum, Jurors) = Total(stake', Jurors) + Total(loss, Jurors)
  BY <1>2, <1>5, ArbitrationAssumption, TotalSum
<1>9. Total(stake', Jurors) \in Nat /\ Total(stake, Jurors) \in Nat
  BY <1>1, <1>5, ArbitrationAssumption, TotalType
<1>10. QED
  BY <1>4, <1>6, <1>7, <1>8, <1>9

-----------------------------------------------------------------------------
(* Running disputes and their panels *)

\* Running disputes are finitely many.
LEMMA RunningFinite ==
  /\ IsFiniteSet(Running) /\ Cardinality(Running) \in Nat
  /\ \A j : IsFiniteSet(SitsOn(j)) /\ Cardinality(SitsOn(j)) \in Nat
<1>1. IsFiniteSet(Disputes)
  BY ArbitrationAssumption, FS_Interval DEF Disputes
<1>2. Running \subseteq Disputes /\ \A j : SitsOn(j) \subseteq Disputes
  BY DEF Running, SitsOn
<1>3. IsFiniteSet(Running) /\ \A j : IsFiniteSet(SitsOn(j))
  BY <1>1, <1>2, FS_Subset
<1>4. QED
  BY <1>3, FS_CardinalityType

\* A step that leaves the disputes alone leaves the panels alone.
LEMMA RunningSame ==
  ASSUME UNCHANGED disputes
  PROVE  Running' = Running /\ \A j \in Jurors : SitsOn(j)' = SitsOn(j)
BY DEF Running, SitsOn

\* The balance and the assignments survive a step that touches neither the
\* disputes nor the stakes.
LEMMA QuietBooks ==
  ASSUME BookInv, UNCHANGED <<pool, stake, active, nextId, disputes, held>>
  PROVE  BookInv'
<1>1. Running' = Running
  BY RunningSame
<1>2. StakesAreHeld' /\ AssignmentsAreCounted'
  BY <1>1 DEF BookInv, StakesAreHeld, AssignmentsAreCounted
<1>3. OutsidersHaveNone' /\ FreshIds'
  BY DEF BookInv, OutsidersHaveNone, FreshIds
<1>4. QED
  BY <1>2, <1>3 DEF BookInv

\* A change of the tally of a dispute is not a change of its panel or phase.
LEMMA TallyBooks ==
  ASSUME BookInv, NEW d \in Disputes, disputes[d].phase = "Active",
         \A q \in Disputes : q # d => disputes'[q] = disputes[q],
         disputes'[d].phase = "Active", disputes'[d].panel = disputes[d].panel,
         UNCHANGED <<pool, stake, active, nextId, held>>
  PROVE  BookInv'
<1>1. Running' = Running
  BY DEF Running
<1>2. \A q \in Running : disputes'[q].panel = disputes[q].panel
  BY DEF Running
<1>3. \A j \in Jurors : {q \in Running : j \in disputes'[q].panel}
                          = {q \in Running : j \in disputes[q].panel}
  BY <1>2
<1>4. AssignmentsAreCounted'
  BY <1>1, <1>2, <1>3 DEF BookInv, AssignmentsAreCounted
<1>5. StakesAreHeld'
  BY <1>1 DEF BookInv, StakesAreHeld
<1>6. FreshIds'
  <2> SUFFICES ASSUME NEW q \in Disputes, q >= nextId PROVE disputes'[q] = NoDispute
    BY DEF FreshIds
  <2>1. disputes[q] = NoDispute
    BY DEF BookInv, FreshIds
  <2>2. q # d
    BY <2>1 DEF NoDispute
  <2>3. QED
    BY <2>1, <2>2
<1>7. QED
  BY <1>4, <1>5, <1>6 DEF BookInv, OutsidersHaveNone

\* The sum of the stakes follows a single change.
LEMMA OneStake ==
  ASSUME Typed, NEW j \in Jurors, NEW amount \in Nat,
         stake' = [stake EXCEPT ![j] = amount]
  PROVE  /\ stake' \in [Jurors -> Nat]
         /\ Total(stake', Jurors) = Total(stake, Jurors) - stake[j] + amount
         /\ Total(stake, Jurors) \in Nat
<1> DEFINE new == [stake EXCEPT ![j] = amount]
<1>1. new \in [Jurors -> Nat] /\ stake \in [Jurors -> Nat]
  BY DEF Typed
<1>2. new[j] = amount /\ \A i \in Jurors : i # j => new[i] = stake[i]
  BY DEF Typed
<1> HIDE DEF new
<1>3. \A i \in Jurors : stake[i] \in Nat /\ new[i] \in Nat
  BY <1>1
<1>4. IsFiniteSet(Jurors)
  BY ArbitrationAssumption
<1>5. Total(new, Jurors) = Total(stake, Jurors) - stake[j] + new[j]
  BY <1>2, <1>3, <1>4, TotalChange
<1>6. Total(stake, Jurors) \in Nat
  BY <1>3, <1>4, TotalType
<1>7. stake' = new
  BY DEF new
<1>8. QED
  BY <1>1, <1>2, <1>5, <1>6, <1>7

\* A juror outside the pool sits on no running panel.
LEMMA OutsidersSitNowhere ==
  ASSUME BookInv, NEW j \in Jurors, j \notin pool
  PROVE  SitsOn(j) = {} /\ active[j] = 0
<1>1. SitsOn(j) = {}
  BY DEF BookInv, AssignmentsAreCounted, SitsOn
<1>2. active[j] = Cardinality(SitsOn(j))
  BY DEF BookInv, AssignmentsAreCounted, SitsOn
<1>3. QED
  BY <1>1, <1>2, FS_EmptySet

\* A juror without assignments sits on no running panel.
LEMMA FreeSitsNowhere ==
  ASSUME BookInv, NEW j \in Jurors, active[j] = 0
  PROVE  SitsOn(j) = {}
<1>1. active[j] = Cardinality(SitsOn(j))
  BY DEF BookInv, AssignmentsAreCounted, SitsOn
<1>2. QED
  BY <1>1, RunningFinite, FS_EmptySet

\* The books when one juror joins.
LEMMA JoinBooks ==
  ASSUME Typed, BookInv, NEW j \in Jurors, NEW amount \in Stakes, JoinPanel(j, amount)
  PROVE  BookInv' /\ stake' \in [Jurors -> Nat] /\ held' \in Int
<1>1. amount \in Nat /\ held \in Int
  BY ArbitrationAssumption DEF Typed
<1>2. /\ stake' \in [Jurors -> Nat] /\ Total(stake, Jurors) \in Nat
      /\ Total(stake', Jurors) = Total(stake, Jurors) - stake[j] + amount
  BY <1>1, OneStake DEF JoinPanel
<1>3. stake[j] = 0
  BY DEF JoinPanel, BookInv, OutsidersHaveNone
<1>4. Running' = Running
  BY RunningSame DEF JoinPanel
<1>5. StakesAreHeld'
  <2>1. held = Total(stake, Jurors) + ScholarDisputeStake * Cardinality(Running)
    BY DEF BookInv, StakesAreHeld
  <2>2. held' = held + amount
    BY DEF JoinPanel
  <2>3. ScholarDisputeStake * Cardinality(Running) \in Int
    BY ArbitrationAssumption, RunningFinite
  <2>4. held' = Total(stake', Jurors) + ScholarDisputeStake * Cardinality(Running)
    BY <1>1, <1>2, <1>3, <2>1, <2>2, <2>3
  <2>5. QED
    BY <1>4, <2>4 DEF StakesAreHeld
<1>6. AssignmentsAreCounted'
  <2>1. active[j] = 0
    BY OutsidersSitNowhere DEF JoinPanel
  <2>2. active' = active
    BY <2>1 DEF JoinPanel, Typed
  <2>3. disputes' = disputes /\ pool \subseteq pool'
    BY DEF JoinPanel
  <2>4. QED
    BY <1>4, <2>2, <2>3 DEF BookInv, AssignmentsAreCounted
<1>7. OutsidersHaveNone' /\ FreshIds'
  BY DEF JoinPanel, Typed, BookInv, OutsidersHaveNone, FreshIds
<1>8. held' \in Int
  BY <1>1 DEF JoinPanel
<1>9. QED
  BY <1>2, <1>5, <1>6, <1>7, <1>8 DEF BookInv

\* The books when one juror leaves.
LEMMA LeaveBooks ==
  ASSUME Typed, BookInv, NEW j \in Jurors, LeavePanel(j)
  PROVE  BookInv' /\ stake' \in [Jurors -> Nat] /\ held' \in Int
<1>1. held \in Int /\ stake[j] \in Nat
  BY DEF Typed
<1>2. /\ stake' \in [Jurors -> Nat] /\ Total(stake, Jurors) \in Nat
      /\ Total(stake', Jurors) = Total(stake, Jurors) - stake[j] + 0
  <2>1. stake' = [stake EXCEPT ![j] = 0]
    BY DEF LeavePanel
  <2>2. QED
    BY <2>1, OneStake
<1>3. Running' = Running
  BY RunningSame DEF LeavePanel
<1>4. StakesAreHeld'
  <2>1. held = Total(stake, Jurors) + ScholarDisputeStake * Cardinality(Running)
    BY DEF BookInv, StakesAreHeld
  <2>2. held' = held - stake[j]
    BY DEF LeavePanel
  <2>3. ScholarDisputeStake * Cardinality(Running) \in Int
    BY ArbitrationAssumption, RunningFinite
  <2>4. held' = Total(stake', Jurors) + ScholarDisputeStake * Cardinality(Running)
    BY <1>1, <1>2, <2>1, <2>2, <2>3
  <2>5. QED
    BY <1>3, <2>4 DEF StakesAreHeld
<1>5. AssignmentsAreCounted'
  <2>1. active' = active /\ disputes' = disputes
    BY DEF LeavePanel, Typed
  <2>2. SitsOn(j) = {}
    BY FreeSitsNowhere DEF LeavePanel
  <2>3. \A d \in Running : disputes[d].panel \subseteq pool'
    BY <2>2 DEF LeavePanel, BookInv, AssignmentsAreCounted, SitsOn
  <2>4. QED
    BY <1>3, <2>1, <2>3 DEF BookInv, AssignmentsAreCounted
<1>6. OutsidersHaveNone' /\ FreshIds'
  BY DEF LeavePanel, Typed, BookInv, OutsidersHaveNone, FreshIds
<1>7. held' \in Int
  BY <1>1 DEF LeavePanel
<1>8. QED
  BY <1>2, <1>4, <1>5, <1>6, <1>7 DEF BookInv

\* The record of a dispute just opened.
NewDispute(m, panel) ==
  [NoDispute EXCEPT !.phase = "Active", !.milestone = m, !.panel = panel,
                    !.commitBy = now + CommitWindow,
                    !.revealBy = now + CommitWindow + RevealWindow]

\* Its fields.
LEMMA OpenedRecord ==
  ASSUME NEW m, NEW panel, NEW r, r = NewDispute(m, panel)
  PROVE  /\ r.phase = "Active" /\ r.milestone = m
         /\ r.panel = panel /\ r.commitBy = now + CommitWindow
         /\ r.votesFor = 0 /\ r.votesAgainst = 0 /\ r.outcome = "None"
         /\ r = [phase |-> "Active", milestone |-> m, panel |-> panel,
                 commitBy |-> now + CommitWindow,
                 revealBy |-> now + CommitWindow + RevealWindow,
                 votesFor |-> 0, votesAgainst |-> 0, outcome |-> "None"]
BY DEF NewDispute, NoDispute

\* A new dispute adds its stake to the balance and one assignment to every member
\* of its panel.
LEMMA OpenBooks ==
  ASSUME Typed, BookInv, NEW m, NEW panel \in Panels, NEW r, r = NewDispute(m, panel),
         nextId \in Disputes, disputes' = [disputes EXCEPT ![nextId] = r],
         active' = [j \in Jurors |-> IF j \in panel THEN active[j] + 1 ELSE active[j]],
         nextId' = nextId + 1, held' = held + ScholarDisputeStake,
         UNCHANGED <<pool, stake>>
  PROVE  BookInv'
<1>1. r.phase = "Active" /\ r.panel = panel /\ panel \subseteq pool
  BY OpenedRecord DEF Panels
<1>2. /\ disputes'[nextId] = r
      /\ \A q \in Disputes : q # nextId => disputes'[q] = disputes[q]
  BY DEF Typed
<1>3. disputes[nextId] = NoDispute /\ nextId \in Nat
  <2>1. nextId \in Nat
    BY DEF Disputes
  <2>2. QED
    BY <2>1 DEF BookInv, FreshIds
<1>4. nextId \notin Running
  BY <1>3 DEF Running, NoDispute
<1>5. Running' = Running \cup {nextId}
  BY <1>1, <1>2 DEF Running
<1>6. StakesAreHeld'
  <2>1. Cardinality(Running') = Cardinality(Running) + 1
    BY <1>4, <1>5, RunningFinite, FS_AddElement
  <2>2. Cardinality(Running) \in Nat /\ ScholarDisputeStake \in Nat
    BY RunningFinite, ArbitrationAssumption
  <2>3. ScholarDisputeStake * (Cardinality(Running) + 1)
          = ScholarDisputeStake * Cardinality(Running) + ScholarDisputeStake
    BY <2>2
  <2>4. ScholarDisputeStake * Cardinality(Running) \in Nat
    BY <2>2
  <2>5. Total(stake, Jurors) \in Nat
    BY ArbitrationAssumption, TotalType DEF Typed
  <2>6. held' = Total(stake, Jurors) + ScholarDisputeStake * (Cardinality(Running) + 1)
    BY <2>2, <2>3, <2>4, <2>5 DEF BookInv, StakesAreHeld
  <2>7. QED
    BY <2>1, <2>6 DEF StakesAreHeld
<1>7. AssignmentsAreCounted'
  <2>1. ASSUME NEW j \in Jurors PROVE active'[j] = Cardinality(SitsOn(j)')
    <3>1. active[j] = Cardinality(SitsOn(j)) /\ active[j] \in Nat
      BY DEF BookInv, AssignmentsAreCounted, SitsOn, Typed
    <3>2. nextId \notin SitsOn(j) /\ IsFiniteSet(SitsOn(j))
      BY <1>4, RunningFinite DEF SitsOn
    <3>3. CASE j \in panel
      <4>1. SitsOn(j)' = SitsOn(j) \cup {nextId}
        BY <1>1, <1>2, <1>4, <1>5, <3>3 DEF SitsOn, Running
      <4>2. Cardinality(SitsOn(j)') = Cardinality(SitsOn(j)) + 1
        BY <3>2, <4>1, FS_AddElement
      <4>3. QED
        BY <3>1, <3>3, <4>2
    <3>4. CASE j \notin panel
      <4>1. SitsOn(j)' = SitsOn(j)
        BY <1>1, <1>2, <1>4, <1>5, <3>4 DEF SitsOn, Running
      <4>2. QED
        BY <3>1, <3>4, <4>1
    <3>5. QED
      BY <3>3, <3>4
  <2>2. ASSUME NEW d \in Running' PROVE disputes'[d].panel \subseteq pool'
    BY <1>1, <1>2, <1>5 DEF BookInv, AssignmentsAreCounted, Running
  <2>3. QED
    BY <2>1, <2>2 DEF AssignmentsAreCounted, SitsOn
<1>8. FreshIds'
  <2> SUFFICES ASSUME NEW q \in Disputes, q >= nextId + 1 PROVE disputes'[q] = NoDispute
    BY DEF FreshIds
  <2>1. q # nextId /\ q >= nextId
    <3>1. q \in Nat
      BY DEF Disputes
    <3>2. QED
      BY <1>3, <3>1
  <2>2. QED
    BY <1>2, <2>1 DEF BookInv, FreshIds
<1>9. OutsidersHaveNone'
  BY DEF BookInv, OutsidersHaveNone
<1>10. QED
  BY <1>6, <1>7, <1>8, <1>9 DEF BookInv

\* A resolution that pays out the dispute's stake and what was slashed, less what
\* the rewarded jurors gain, keeps the books.
LEMMA CloseBooks ==
  ASSUME Typed, BookInv, NEW d \in Disputes, disputes[d].phase = "Active",
         NEW phase, phase # "Active", NEW outcome, Closed(d, phase, outcome),
         NEW gain \in [Jurors -> Nat], \A j \in Jurors : j \notin pool => gain[j] = 0,
         stake' \in [Jurors -> Int],
         \A j \in Jurors : stake'[j] =
           (stake[j] - IF j \in disputes[d].panel THEN Slash(d, j) ELSE 0) + gain[j],
         held' = held - ScholarDisputeStake - Slashed(d) + Total(gain, Jurors)
  PROVE  BookInv' /\ stake' \in [Jurors -> Nat] /\ held' \in Int
<1>1. /\ stake' \in [Jurors -> Nat]
      /\ Total(stake', Jurors) \in Nat /\ Total(stake, Jurors) \in Nat
      /\ Total(stake', Jurors) + Slashed(d) = Total(stake, Jurors) + Total(gain, Jurors)
  BY StakesMoved
<1>2. /\ \A q \in Disputes : q # d => disputes'[q] = disputes[q]
      /\ disputes'[d].phase = phase
  BY DEF Closed, Typed, Dispute
<1>3. d \in Running /\ Running' = Running \ {d}
  BY <1>2 DEF Running
<1>4. Total(gain, Jurors) \in Nat /\ Slashed(d) \in Nat /\ held \in Int
  BY ArbitrationAssumption, TotalType, PotType DEF Typed
<1>5. held' \in Int
  BY <1>4, ArbitrationAssumption
<1>6. StakesAreHeld'
  <2>1. Cardinality(Running') = Cardinality(Running) - 1
    BY <1>3, RunningFinite, FS_RemoveElement
  <2>2. Cardinality(Running) \in Nat /\ ScholarDisputeStake \in Nat
    BY RunningFinite, ArbitrationAssumption
  <2>3. ScholarDisputeStake * (Cardinality(Running) - 1)
          = ScholarDisputeStake * Cardinality(Running) - ScholarDisputeStake
    BY <2>2
  <2>4. ScholarDisputeStake * Cardinality(Running) \in Nat
    BY <2>2
  <2>5. held = Total(stake, Jurors) + ScholarDisputeStake * Cardinality(Running)
    BY DEF BookInv, StakesAreHeld
  <2>6. held' = Total(stake', Jurors) + ScholarDisputeStake * (Cardinality(Running) - 1)
    BY <1>1, <1>4, <2>2, <2>3, <2>4, <2>5
  <2>7. QED
    BY <2>1, <2>6 DEF StakesAreHeld
<1>7. AssignmentsAreCounted'
  <2>1. ASSUME NEW j \in Jurors PROVE active'[j] = Cardinality(SitsOn(j)')
    <3>1. active[j] = Cardinality(SitsOn(j)) /\ active[j] \in Nat
      BY DEF BookInv, AssignmentsAreCounted, SitsOn, Typed
    <3>2. IsFiniteSet(SitsOn(j))
      BY RunningFinite
    <3>3. active'[j] = IF j \in disputes[d].panel /\ active[j] > 0 THEN active[j] - 1
                                                                     ELSE active[j]
      BY DEF Closed
    <3>4. CASE j \in disputes[d].panel
      <4>1. d \in SitsOn(j) /\ SitsOn(j)' = SitsOn(j) \ {d}
        BY <1>2, <1>3, <3>4 DEF SitsOn, Running
      <4>2. Cardinality(SitsOn(j)') = Cardinality(SitsOn(j)) - 1
        BY <3>2, <4>1, FS_RemoveElement
      <4>3. Cardinality(SitsOn(j)) # 0
        BY <3>2, <4>1, FS_EmptySet
      <4>4. QED
        BY <3>1, <3>3, <3>4, <4>2, <4>3
    <3>5. CASE j \notin disputes[d].panel
      <4>1. SitsOn(j)' = SitsOn(j)
        BY <1>2, <1>3, <3>5 DEF SitsOn, Running
      <4>2. QED
        BY <3>1, <3>3, <3>5, <4>1
    <3>6. QED
      BY <3>4, <3>5
  <2>2. ASSUME NEW q \in Running' PROVE disputes'[q].panel \subseteq pool'
    BY <1>2, <1>3 DEF BookInv, AssignmentsAreCounted, Running, Closed
  <2>3. QED
    BY <2>1, <2>2 DEF AssignmentsAreCounted, SitsOn
<1>8. OutsidersHaveNone'
  <2> SUFFICES ASSUME NEW j \in Jurors, j \notin pool PROVE stake'[j] = 0
    BY DEF OutsidersHaveNone, Closed
  <2>1. stake[j] = 0 /\ gain[j] = 0
    BY DEF BookInv, OutsidersHaveNone
  <2>2. j \notin disputes[d].panel
    BY <1>3 DEF BookInv, AssignmentsAreCounted
  <2>3. QED
    BY <2>1, <2>2
<1>9. FreshIds'
  <2> SUFFICES ASSUME NEW q \in Disputes, q >= nextId PROVE disputes'[q] = NoDispute
    BY DEF FreshIds, Closed
  <2>1. disputes[q] = NoDispute
    BY DEF BookInv, FreshIds
  <2>2. q # d
    BY <2>1 DEF NoDispute
  <2>3. QED
    BY <1>2, <2>1, <2>2
<1>10. QED
  BY <1>1, <1>5, <1>6, <1>7, <1>8, <1>9 DEF BookInv

\* The books when a dispute with quorum is resolved.
LEMMA QuorumBooks ==
  ASSUME Typed, BookInv, NEW d \in Disputes, ResolveWithQuorum(d)
  PROVE  BookInv' /\ stake' \in [Jurors -> Nat] /\ held' \in Int
<1> DEFINE gain == [j \in Jurors |-> IF j \in Rewarded(d) THEN Reward(d) ELSE 0]
           all == [j \in Jurors |-> Reward(d)]
           outcome == IF Released(d) THEN "Release" ELSE "Uphold"
<1>1. disputes[d].phase = "Active" /\ Closed(d, "Resolved", outcome)
  BY DEF ResolveWithQuorum, MayResolve
<1>2. /\ disputes[d].panel \subseteq pool /\ Rewarded(d) \subseteq disputes[d].panel
      /\ pool \subseteq Jurors
  BY <1>1 DEF BookInv, AssignmentsAreCounted, Running, Rewarded, Typed
<1>3. /\ Slashed(d) \in Nat /\ Pot(d) \in Nat /\ Reward(d) \in Nat /\ held \in Int
      /\ Cardinality(Rewarded(d)) \in Nat /\ IsFiniteSet(Rewarded(d))
      /\ Rewarded(d) \subseteq Jurors /\ ScholarDisputeStake \in Nat
  BY PotType, ArbitrationAssumption DEF Typed
<1>4. \A j \in Jurors : Slash(d, j) \in Nat /\ stake[j] \in Nat
  BY SlashType DEF Typed
<1>5. stake' = [j \in Jurors |->
        IF j \notin disputes[d].panel THEN stake[j]
        ELSE stake[j] - Slash(d, j) + IF j \in Rewarded(d) THEN Reward(d) ELSE 0]
  BY DEF ResolveWithQuorum
<1>6. gain \in [Jurors -> Nat] /\ \A j \in Jurors : j \notin pool => gain[j] = 0
  BY <1>2, <1>3
<1>7. \A j \in Jurors : stake'[j] =
        (stake[j] - IF j \in disputes[d].panel THEN Slash(d, j) ELSE 0) + gain[j]
  <2> SUFFICES ASSUME NEW j \in Jurors
               PROVE  stake'[j] = (stake[j] - IF j \in disputes[d].panel THEN Slash(d, j) ELSE 0)
                                    + gain[j]
    OBVIOUS
  <2>1. CASE j \in disputes[d].panel
    BY <1>3, <1>4, <1>5, <2>1
  <2>2. CASE j \notin disputes[d].panel
    <3>1. gain[j] = 0
      BY <1>2, <2>2
    <3>2. stake'[j] = stake[j]
      BY <1>5, <2>2
    <3> HIDE DEF gain
    <3>3. QED
      BY <1>4, <2>2, <3>1, <3>2
  <2>3. QED
    BY <2>1, <2>2
<1>8. stake' \in [Jurors -> Int]
  <2>1. \A j \in Jurors : stake'[j] \in Int
    BY <1>3, <1>4, <1>5
  <2>2. QED
    BY <1>5, <2>1
<1>9. Total(gain, Jurors) = Reward(d) * Cardinality(Rewarded(d))
  <2>1. \A j \in Jurors : gain[j] = IF j \in Rewarded(d) THEN all[j] ELSE 0
    OBVIOUS
  <2>2. \A j \in Rewarded(d) : all[j] = Reward(d)
    BY <1>3
  <2> HIDE DEF gain, all
  <2>3. Total(gain, Jurors) = Total(all, Rewarded(d))
    BY <1>3, <2>1, TotalSupport
  <2>4. Total(all, Rewarded(d)) = Cardinality(Rewarded(d)) * Reward(d)
    BY <1>3, <2>2, TotalConstant
  <2>5. QED
    BY <1>3, <2>3, <2>4
<1>10. held' = held - ScholarDisputeStake - Slashed(d) + Total(gain, Jurors)
  <2> DEFINE reward == Reward(d) * Cardinality(Rewarded(d))
  <2>1. reward \in Nat
    BY <1>3
  <2>2. held' = held - (Pot(d) - reward) - IF Released(d) THEN ScholarDisputeStake ELSE 0
    BY DEF ResolveWithQuorum
  <2>3. Pot(d) = Slashed(d) + IF Released(d) THEN 0 ELSE ScholarDisputeStake
    BY DEF Pot
  <2>4. Total(gain, Jurors) = reward
    BY <1>9
  <2> HIDE DEF reward, gain
  <2>5. QED
    BY <1>3, <2>1, <2>2, <2>3, <2>4
<1> HIDE DEF gain, outcome
<1>11. QED
  BY <1>1, <1>6, <1>7, <1>8, <1>10, CloseBooks

\* The books when a dispute without quorum is resolved.
LEMMA FailedBooks ==
  ASSUME Typed, BookInv, NEW d \in Disputes, ResolveQuorumFailed(d)
  PROVE  BookInv' /\ stake' \in [Jurors -> Nat] /\ held' \in Int
<1> DEFINE gain == [j \in Jurors |-> 0]
<1>1. disputes[d].phase = "Active" /\ Closed(d, "QuorumFailed", "None")
  BY DEF ResolveQuorumFailed, MayResolve
<1>2. Slashed(d) \in Nat /\ held \in Int /\ ScholarDisputeStake \in Nat
  BY PotType, ArbitrationAssumption DEF Typed
<1>3. \A j \in Jurors : Slash(d, j) \in Nat /\ stake[j] \in Nat
  BY SlashType DEF Typed
<1>4. stake' = [j \in Jurors |->
        IF j \in disputes[d].panel THEN stake[j] - Slash(d, j) ELSE stake[j]]
  BY DEF ResolveQuorumFailed
<1>5. gain \in [Jurors -> Nat] /\ \A j \in Jurors : j \notin pool => gain[j] = 0
  OBVIOUS
<1>6. \A j \in Jurors : stake'[j] =
        (stake[j] - IF j \in disputes[d].panel THEN Slash(d, j) ELSE 0) + gain[j]
  BY <1>3, <1>4
<1>7. stake' \in [Jurors -> Int]
  <2>1. \A j \in Jurors : stake'[j] \in Int
    BY <1>3, <1>4
  <2>2. QED
    BY <1>4, <2>1
<1>8. Total(gain, Jurors) = 0
  BY TotalZero
<1> HIDE DEF gain
<1>9. held' = held - ScholarDisputeStake - Slashed(d) + Total(gain, Jurors)
  BY <1>2, <1>8 DEF ResolveQuorumFailed
<1>10. QED
  BY <1>1, <1>5, <1>6, <1>7, <1>9, CloseBooks

-----------------------------------------------------------------------------
(* Ballots and tallies *)

\* The tally of a dispute holds as long as its record and its open ballots stay.
LEMMA TallySame ==
  ASSUME Typed, NEW d \in Disputes, TallyOK(d), disputes'[d] = disputes[d],
         \A j \in Jurors, vote \in Opened :
           ballot'[<<d, j>>] = vote <=> ballot[<<d, j>>] = vote,
         now' \in Nat, now' >= now
  PROVE  TallyOK(d)'
<1>1. /\ Opening(d, "For")' = Opening(d, "For")
      /\ Opening(d, "Against")' = Opening(d, "Against")
  BY DEF Opening, Opened
<1>2. (\E j \in Jurors : ballot'[<<d, j>>] \in Opened)
        => \E j \in Jurors : ballot[<<d, j>>] \in Opened
  OBVIOUS
<1>3. disputes[d].commitBy \in Nat /\ now \in Nat
  BY DEF Typed, Dispute
<1>4. now > disputes[d].commitBy => now' > disputes[d].commitBy
  BY <1>3
<1>5. QED
  BY <1>1, <1>2, <1>4 DEF TallyOK, Revealed

\* A step that leaves records and ballots alone.
LEMMA QuietVotes ==
  ASSUME Typed, VoteInv, UNCHANGED <<disputes, ballot>>, now' \in Nat, now' >= now
  PROVE  VoteInv'
BY TallySame DEF VoteInv

\* A commitment opens no ballot.
LEMMA CommitVotes ==
  ASSUME Typed, VoteInv, NEW d \in Disputes, NEW j \in Jurors, NEW sealed \in Sealed,
         CommitVote(d, j, sealed)
  PROVE  VoteInv'
<1> SUFFICES ASSUME NEW q \in Disputes PROVE TallyOK(q)'
  BY DEF VoteInv
<1>1. now' \in Nat /\ now' >= now /\ disputes' = disputes
  BY DEF CommitVote, Typed
<1>2. ASSUME NEW i \in Jurors, NEW vote \in Opened
      PROVE  ballot'[<<q, i>>] = vote <=> ballot[<<q, i>>] = vote
  <2>1. <<q, i>> \in Disputes \X Jurors /\ <<d, j>> \in Disputes \X Jurors
    OBVIOUS
  <2>2. CASE <<q, i>> = <<d, j>>
    BY <2>1, <2>2 DEF CommitVote, Typed, Sealed, Opened
  <2>3. CASE <<q, i>> # <<d, j>>
    BY <2>1, <2>3 DEF CommitVote, Typed
  <2>4. QED
    BY <2>2, <2>3
<1>3. QED
  BY <1>1, <1>2, TallySame DEF VoteInv

\* Opening a ballot adds it to the tally.
LEMMA RevealVotes ==
  ASSUME Typed, VoteInv, NEW d \in Disputes, NEW j \in Jurors, RevealVote(d, j)
  PROVE  /\ VoteInv' /\ disputes' \in [Disputes -> Dispute]
         /\ \A q \in Disputes : q # d => disputes'[q] = disputes[q]
         /\ disputes'[d].phase = "Active" /\ disputes'[d].panel = disputes[d].panel
         /\ ballot' \in [Disputes \X Jurors -> Ballots]
<1>1. PICK vote \in Opened :
        /\ ballot[<<d, j>>] \in Sealed
        /\ ballot' = [ballot EXCEPT ![<<d, j>>] = vote]
        /\ vote = "For" => disputes' = [disputes EXCEPT ![d].votesFor = @ + 1]
        /\ vote = "Against" => disputes' = [disputes EXCEPT ![d].votesAgainst = @ + 1]
  BY DEF RevealVote, Counted, Opened, Sealed
<1>2. <<d, j>> \in Disputes \X Jurors
  OBVIOUS
<1>3. ballot' \in [Disputes \X Jurors -> Ballots]
  BY <1>1, <1>2 DEF Typed, Ballots
<1>4. \A q \in Disputes, i \in Jurors :
        ballot'[<<q, i>>] = IF q = d /\ i = j THEN vote ELSE ballot[<<q, i>>]
  BY <1>1, <1>2 DEF Typed
<1>5. disputes[d] \in Dispute /\ disputes[d].phase = "Active"
  BY DEF Typed, RevealVote
<1>6. disputes[d].votesFor \in Nat /\ disputes[d].votesAgainst \in Nat
  BY <1>5 DEF Dispute
<1>7. disputes' \in [Disputes -> Dispute]
  <2>1. CASE vote = "For"
    <3>1. [disputes[d] EXCEPT !.votesFor = @ + 1] \in Dispute
      BY <1>5 DEF Dispute
    <3>2. QED
      BY <1>1, <2>1, <3>1 DEF Typed
  <2>2. CASE vote = "Against"
    <3>1. [disputes[d] EXCEPT !.votesAgainst = @ + 1] \in Dispute
      BY <1>5 DEF Dispute
    <3>2. QED
      BY <1>1, <2>2, <3>1 DEF Typed
  <2>3. QED
    BY <2>1, <2>2 DEF Opened
<1>8. /\ \A q \in Disputes : q # d => disputes'[q] = disputes[q]
      /\ disputes'[d].phase = "Active" /\ disputes'[d].panel = disputes[d].panel
      /\ disputes'[d].commitBy = disputes[d].commitBy
      /\ disputes'[d].outcome = disputes[d].outcome
      /\ disputes'[d].votesFor = IF vote = "For" THEN disputes[d].votesFor + 1
                                                 ELSE disputes[d].votesFor
      /\ disputes'[d].votesAgainst = IF vote = "Against" THEN disputes[d].votesAgainst + 1
                                                         ELSE disputes[d].votesAgainst
  BY <1>1, <1>5 DEF Typed, Dispute, Opened
<1>9. ASSUME NEW q \in Disputes, q # d PROVE TallyOK(q)'
  <2>1. \A i \in Jurors : ballot'[<<q, i>>] = ballot[<<q, i>>]
    BY <1>4, <1>9
  <2>2. now' \in Nat /\ now' >= now
    BY DEF RevealVote, Typed
  <2>3. QED
    BY <1>8, <1>9, <2>1, <2>2, TallySame DEF VoteInv
<1>10. TallyOK(d)'
  <2>1. ASSUME NEW v \in Opened
        PROVE  Cardinality(Opening(d, v)') = IF v = vote THEN Cardinality(Opening(d, v)) + 1
                                                         ELSE Cardinality(Opening(d, v))
    <3>1. IsFiniteSet(Opening(d, v))
      BY ArbitrationAssumption, FS_Subset DEF Opening
    <3>2. j \notin Opening(d, v)
      BY <1>1 DEF Opening, Sealed, Opened
    <3>3. CASE v = vote
      <4>1. Opening(d, v)' = Opening(d, v) \cup {j}
        BY <1>4, <3>3 DEF Opening
      <4>2. QED
        BY <3>1, <3>2, <3>3, <4>1, FS_AddElement
    <3>4. CASE v # vote
      <4>1. Opening(d, v)' = Opening(d, v)
        BY <1>4, <3>2, <3>4 DEF Opening
      <4>2. QED
        BY <3>4, <4>1
    <3>5. QED
      BY <3>3, <3>4
  <2>2. TallyOK(d) /\ "For" \in Opened /\ "Against" \in Opened
    BY DEF VoteInv, Opened
  <2>3. /\ disputes'[d].votesFor = Cardinality(Opening(d, "For")')
        /\ disputes'[d].votesAgainst = Cardinality(Opening(d, "Against")')
    BY <1>8, <2>1, <2>2 DEF TallyOK
  <2>4. disputes[d].outcome = "None"
    BY <1>5, <2>2 DEF TallyOK
  <2>5. now' > disputes'[d].commitBy
    BY <1>8 DEF RevealVote
  <2>6. QED
    BY <1>8, <2>3, <2>4, <2>5 DEF TallyOK
<1>11. QED
  BY <1>3, <1>7, <1>8, <1>9, <1>10 DEF VoteInv

\* A new dispute has no open ballots.
LEMMA OpenVotes ==
  ASSUME Typed, BookInv, VoteInv, NEW m, NEW panel, NEW r, r = NewDispute(m, panel),
         nextId \in Disputes, disputes' = [disputes EXCEPT ![nextId] = r],
         UNCHANGED <<now, ballot>>
  PROVE  VoteInv'
<1> SUFFICES ASSUME NEW d \in Disputes PROVE TallyOK(d)'
  BY DEF VoteInv
<1>1. now' \in Nat /\ now' >= now /\ TallyOK(d)
  BY DEF Typed, VoteInv
<1>2. CASE d # nextId
  <2>1. disputes'[d] = disputes[d]
    BY <1>2 DEF Typed
  <2>2. QED
    BY <1>1, <2>1, TallySame
<1>3. CASE d = nextId
  <2>1. disputes'[d] = r
    BY <1>3 DEF Typed
  <2>2. r.phase = "Active" /\ r.votesFor = 0 /\ r.votesAgainst = 0 /\ r.outcome = "None"
    BY OpenedRecord
  <2>3. disputes[d].phase = "None"
    <3>1. d >= nextId
      BY <1>3 DEF Disputes
    <3>2. QED
      BY <3>1 DEF BookInv, FreshIds, NoDispute
  <2>4. \A j \in Jurors : ballot[<<d, j>>] \notin Opened
    BY <1>1, <2>3 DEF TallyOK
  <2>5. Opening(d, "For")' = {} /\ Opening(d, "Against")' = {}
    BY <2>4 DEF Opening, Opened
  <2>6. Cardinality({}) = 0
    BY FS_EmptySet
  <2>7. QED
    BY <2>1, <2>2, <2>4, <2>5, <2>6 DEF TallyOK
<1>4. QED
  BY <1>2, <1>3

\* What a resolution does to the record.
LEMMA ClosedRecord ==
  ASSUME Typed, NEW d \in Disputes, NEW phase \in {"Resolved", "QuorumFailed"},
         NEW outcome \in {"None", "Release", "Uphold"}, Closed(d, phase, outcome)
  PROVE  /\ disputes' \in [Disputes -> Dispute]
         /\ \A q \in Disputes : q # d => disputes'[q] = disputes[q]
         /\ disputes'[d].phase = phase /\ disputes'[d].outcome = outcome
         /\ disputes'[d].votesFor = disputes[d].votesFor
         /\ disputes'[d].votesAgainst = disputes[d].votesAgainst
         /\ disputes'[d].commitBy = disputes[d].commitBy
         /\ disputes'[d].milestone = disputes[d].milestone
<1>1. disputes[d] \in Dispute
  BY DEF Typed
<1>2. [disputes[d] EXCEPT !.phase = phase, !.outcome = outcome] \in Dispute
  BY <1>1 DEF Dispute
<1>3. disputes' = [disputes EXCEPT ![d] =
        [disputes[d] EXCEPT !.phase = phase, !.outcome = outcome]]
  BY DEF Closed
<1>4. disputes' \in [Disputes -> Dispute]
  BY <1>2, <1>3 DEF Typed
<1>5. \A q \in Disputes : q # d => disputes'[q] = disputes[q]
  BY <1>3 DEF Typed
<1>6. disputes'[d] = [disputes[d] EXCEPT !.phase = phase, !.outcome = outcome]
  BY <1>3 DEF Typed
<1>7. QED
  BY <1>1, <1>4, <1>5, <1>6 DEF Dispute

\* A resolution keeps the tally and takes the outcome from it.
LEMMA CloseVotes ==
  ASSUME Typed, VoteInv, NEW d \in Disputes, disputes[d].phase = "Active",
         NEW phase \in {"Resolved", "QuorumFailed"},
         NEW outcome \in {"None", "Release", "Uphold"}, Closed(d, phase, outcome),
         outcome # "None" => Revealed(d) >= Quorum,
         outcome = "Release" => disputes[d].votesFor > disputes[d].votesAgainst,
         outcome = "Uphold" => disputes[d].votesFor <= disputes[d].votesAgainst
  PROVE  VoteInv' /\ disputes' \in [Disputes -> Dispute]
<1>1. /\ disputes' \in [Disputes -> Dispute]
      /\ \A q \in Disputes : q # d => disputes'[q] = disputes[q]
      /\ disputes'[d].phase = phase /\ disputes'[d].outcome = outcome
      /\ disputes'[d].votesFor = disputes[d].votesFor
      /\ disputes'[d].votesAgainst = disputes[d].votesAgainst
      /\ disputes'[d].commitBy = disputes[d].commitBy
  BY ClosedRecord
<1>2. ballot' = ballot /\ now' = now /\ now \in Nat
  BY DEF Closed, Typed
<1>3. ASSUME NEW q \in Disputes, q # d PROVE TallyOK(q)'
  <2>1. now' \in Nat /\ now' >= now
    BY <1>2
  <2>2. TallyOK(q) /\ disputes'[q] = disputes[q]
    BY <1>1, <1>3 DEF VoteInv
  <2>3. QED
    BY <1>2, <2>1, <2>2, TallySame
<1>4. TallyOK(d)'
  <2>1. TallyOK(d)
    BY DEF VoteInv
  <2>2. Opening(d, "For")' = Opening(d, "For") /\ Opening(d, "Against")' = Opening(d, "Against")
    BY <1>2 DEF Opening
  <2>3. QED
    BY <1>1, <1>2, <2>1, <2>2 DEF TallyOK, Revealed
<1>5. QED
  BY <1>1, <1>3, <1>4 DEF VoteInv

\* Both ways of resolving.
LEMMA ResolveVotes ==
  ASSUME Typed, VoteInv, NEW d \in Disputes, Resolve(d)
  PROVE  VoteInv' /\ disputes' \in [Disputes -> Dispute]
<1>1. disputes[d].votesFor \in Nat /\ disputes[d].votesAgainst \in Nat
  BY DEF Typed, Dispute
<1>2. CASE ResolveWithQuorum(d)
  <2> DEFINE outcome == IF Released(d) THEN "Release" ELSE "Uphold"
  <2>1. /\ disputes[d].phase = "Active" /\ Closed(d, "Resolved", outcome)
        /\ Revealed(d) >= Quorum
    BY <1>2 DEF ResolveWithQuorum, MayResolve, QuorumMet
  <2>2. /\ outcome \in {"None", "Release", "Uphold"}
        /\ outcome = "Release" => disputes[d].votesFor > disputes[d].votesAgainst
        /\ outcome = "Uphold" => disputes[d].votesFor <= disputes[d].votesAgainst
    BY <1>1 DEF Released
  <2> HIDE DEF outcome
  <2>3. QED
    BY <2>1, <2>2, CloseVotes
<1>3. CASE ResolveQuorumFailed(d)
  <2>1. disputes[d].phase = "Active" /\ Closed(d, "QuorumFailed", "None")
    BY <1>3 DEF ResolveQuorumFailed, MayResolve
  <2>2. QED
    BY <2>1, CloseVotes
<1>4. QED
  BY <1>2, <1>3 DEF Resolve

-----------------------------------------------------------------------------
(* The steps *)

\* A dispute is opened.
LEMMA OpenStep == ASSUME IInv, NEW m \in Milestones, OpenDispute(m) PROVE IInv'
<1>1. PICK panel \in Panels :
        /\ disputes' = [disputes EXCEPT ![nextId] = NewDispute(m, panel)]
        /\ active' = [j \in Jurors |-> IF j \in panel THEN active[j] + 1 ELSE active[j]]
  BY DEF OpenDispute, NewDispute
<1>2. /\ nextId \in Disputes /\ nextId' = nextId + 1
      /\ held' = held + ScholarDisputeStake /\ disputed' = disputed \cup {m}
      /\ UNCHANGED <<now, pool, stake, ballot>>
  BY DEF OpenDispute
<1>3. BookInv' /\ VoteInv'
  BY <1>1, <1>2, OpenBooks, OpenVotes DEF IInv
<1>4. Typed'
  <2> USE DEF IInv, Typed
  <2>1. PICK r : r = NewDispute(m, panel)
    OBVIOUS
  <2>2. r \in Dispute
    <3>1. panel \subseteq Jurors /\ now + CommitWindow \in Nat
          /\ now + CommitWindow + RevealWindow \in Nat
      BY ArbitrationAssumption DEF Panels
    <3>2. QED
      BY <2>1, <3>1, OpenedRecord DEF Dispute
  <2>3. disputes' \in [Disputes -> Dispute]
    BY <1>1, <2>1, <2>2
  <2>4. active' \in [Jurors -> Nat]
    BY <1>1
  <2>5. nextId' \in 0 .. MaxDisputes /\ held' \in Int
    BY <1>2, ArbitrationAssumption DEF Disputes
  <2>6. QED
    BY <1>2, <2>3, <2>4, <2>5
<1>5. QED
  BY <1>3, <1>4 DEF IInv

\* A dispute is resolved.
LEMMA ResolveStep == ASSUME IInv, NEW d \in Disputes, Resolve(d) PROVE IInv'
<1>1. VoteInv' /\ disputes' \in [Disputes -> Dispute]
  BY ResolveVotes DEF IInv
<1>2. BookInv' /\ stake' \in [Jurors -> Nat] /\ held' \in Int
  BY QuorumBooks, FailedBooks DEF IInv, Resolve
<1>3. PICK phase, outcome : Closed(d, phase, outcome)
  BY DEF Resolve, ResolveWithQuorum, ResolveQuorumFailed
<1>4. active' \in [Jurors -> Nat] /\ UNCHANGED <<now, pool, nextId, disputed, ballot>>
  <2>1. \A j \in Jurors : active[j] \in Nat
    BY DEF IInv, Typed
  <2>2. QED
    BY <1>3, <2>1 DEF Closed
<1>5. QED
  BY <1>1, <1>2, <1>4 DEF IInv, Typed

\* The invariant is inductive.
LEMMA ArbitrationStep == IInv /\ [Next]_vars => IInv'
<1> SUFFICES ASSUME IInv, [Next]_vars PROVE IInv'
  OBVIOUS
<1>1. now \in Nat /\ now >= now
  BY DEF IInv, Typed
<1>2. ASSUME NEW j \in Jurors, NEW amount \in Stakes, JoinPanel(j, amount) PROVE IInv'
  <2>1. BookInv' /\ stake' \in [Jurors -> Nat] /\ held' \in Int
    BY <1>2, JoinBooks DEF IInv
  <2>2. VoteInv'
    BY <1>1, <1>2, QuietVotes DEF IInv, JoinPanel
  <2>3. QED
    BY <1>2, <2>1, <2>2 DEF IInv, Typed, JoinPanel
<1>3. ASSUME NEW j \in Jurors, LeavePanel(j) PROVE IInv'
  <2>1. BookInv' /\ stake' \in [Jurors -> Nat] /\ held' \in Int
    BY <1>3, LeaveBooks DEF IInv
  <2>2. VoteInv'
    BY <1>1, <1>3, QuietVotes DEF IInv, LeavePanel
  <2>3. QED
    BY <1>3, <2>1, <2>2 DEF IInv, Typed, LeavePanel
<1>4. ASSUME NEW d \in Disputes, NEW j \in Jurors, NEW sealed \in Sealed,
             CommitVote(d, j, sealed)
      PROVE  IInv'
  <2>1. BookInv' /\ VoteInv'
    BY <1>4, QuietBooks, CommitVotes DEF IInv, CommitVote
  <2>2. ballot' \in [Disputes \X Jurors -> Ballots]
    BY <1>4 DEF IInv, Typed, CommitVote, Ballots
  <2>3. QED
    BY <1>4, <2>1, <2>2 DEF IInv, Typed, CommitVote
<1>5. ASSUME NEW d \in Disputes, NEW j \in Jurors, RevealVote(d, j) PROVE IInv'
  <2>1. /\ VoteInv' /\ disputes' \in [Disputes -> Dispute]
        /\ \A q \in Disputes : q # d => disputes'[q] = disputes[q]
        /\ disputes'[d].phase = "Active" /\ disputes'[d].panel = disputes[d].panel
        /\ ballot' \in [Disputes \X Jurors -> Ballots]
    BY <1>5, RevealVotes DEF IInv
  <2>2. /\ disputes[d].phase = "Active"
        /\ UNCHANGED <<now, pool, stake, active, nextId, disputed, held>>
    BY <1>5 DEF RevealVote
  <2>3. BookInv'
    BY <2>1, <2>2, TallyBooks DEF IInv
  <2>4. QED
    BY <2>1, <2>2, <2>3 DEF IInv, Typed
<1>6. CASE Tick
  <2>1. now' \in Nat /\ now' >= now
    BY <1>1, <1>6 DEF Tick
  <2>2. BookInv' /\ VoteInv'
    BY <1>6, <2>1, QuietBooks, QuietVotes DEF IInv, Tick
  <2>3. QED
    BY <1>6, <2>1, <2>2 DEF IInv, Typed, Tick
<1>7. CASE UNCHANGED vars
  <2>1. BookInv' /\ VoteInv'
    BY <1>1, <1>7, QuietBooks, QuietVotes DEF IInv, vars
  <2>2. QED
    BY <1>7, <2>1 DEF IInv, Typed, vars
<1>8. QED
  BY <1>2, <1>3, <1>4, <1>5, <1>6, <1>7, OpenStep, ResolveStep DEF Next

\* The invariant holds of an empty pool without disputes.
LEMMA ArbitrationInit == Init => IInv
<1> SUFFICES ASSUME Init PROVE IInv
  OBVIOUS
<1>1. NoDispute \in Dispute
  BY DEF NoDispute, Dispute
<1>2. 0 \in 0 .. MaxDisputes
  BY ArbitrationAssumption
<1>3. Typed
  BY <1>1, <1>2 DEF Init, Typed, Ballots
<1>4. Running = {} /\ \A j \in Jurors : SitsOn(j) = {}
  BY DEF Init, Running, SitsOn, NoDispute
<1>5. StakesAreHeld
  <2>1. Total(stake, Jurors) = 0
    BY TotalZero DEF Init
  <2>2. Cardinality(Running) = 0
    BY <1>4, FS_EmptySet
  <2>3. ScholarDisputeStake * 0 = 0
    BY ArbitrationAssumption
  <2>4. QED
    BY <2>1, <2>2, <2>3 DEF Init, StakesAreHeld
<1>6. AssignmentsAreCounted
  <2>1. \A j \in Jurors : active[j] = Cardinality(SitsOn(j))
    BY <1>4, FS_EmptySet DEF Init
  <2>2. QED
    BY <1>4, <2>1 DEF AssignmentsAreCounted, SitsOn
<1>7. BookInv
  BY <1>5, <1>6 DEF Init, BookInv, OutsidersHaveNone, FreshIds
<1>8. VoteInv
  <2> SUFFICES ASSUME NEW d \in Disputes PROVE TallyOK(d)
    BY DEF VoteInv
  <2>1. \A j \in Jurors : ballot[<<d, j>>] = "None"
    BY DEF Init
  <2>2. Cardinality(Opening(d, "For")) = 0 /\ Cardinality(Opening(d, "Against")) = 0
    <3>1. Opening(d, "For") = {} /\ Opening(d, "Against") = {}
      BY <2>1 DEF Opening
    <3>2. QED
      BY <3>1, FS_EmptySet
  <2>3. /\ disputes[d].votesFor = 0 /\ disputes[d].votesAgainst = 0
        /\ disputes[d].outcome = "None"
    BY DEF Init, NoDispute
  <2>4. ~ \E j \in Jurors : ballot[<<d, j>>] \in Opened
    BY <2>1 DEF Opened
  <2>5. QED
    BY <2>2, <2>3, <2>4 DEF TallyOK
<1>9. QED
  BY <1>3, <1>7, <1>8 DEF IInv

\* The books balance and every tally is its ballots, in every reachable state.
THEOREM ArbitrationInvariant == Spec => []IInv
BY ArbitrationInit, ArbitrationStep, PTL DEF Spec

-----------------------------------------------------------------------------
(* The properties *)

\* The contract holds exactly the jurors' stakes and the stakes of the running
\* disputes, whatever is slashed, rewarded, refunded or lost to rounding
\* (join_panel, leave_panel, open_dispute, resolve).
THEOREM StakesCorrect == Spec => []StakesAreHeld
<1>1. IInv => StakesAreHeld
  BY DEF IInv, BookInv
<1>2. QED
  BY <1>1, ArbitrationInvariant, PTL

\* A juror's active count is the number of running disputes it sits on, and no
\* panel member leaves before its last verdict (leave_panel, open_dispute,
\* resolve).
THEOREM AssignmentsCorrect == Spec => []AssignmentsAreCounted
<1>1. IInv => AssignmentsAreCounted
  BY DEF IInv, BookInv
<1>2. QED
  BY <1>1, ArbitrationInvariant, PTL

\* Every variable keeps its type: no slash takes a stake below zero, and no
\* payment the balance.
THEOREM ArbitrationTypeCorrect == Spec => []TypeOK
<1>1. IInv => TypeOK
  <2> SUFFICES ASSUME IInv PROVE TypeOK
    OBVIOUS
  <2>1. Total(stake, Jurors) \in Nat
    BY TotalType, ArbitrationAssumption DEF IInv, Typed
  <2>2. ScholarDisputeStake * Cardinality(Running) \in Nat
    <3>1. ScholarDisputeStake \in Nat /\ Cardinality(Running) \in Nat
      BY RunningFinite, ArbitrationAssumption
    <3>2. QED
      BY <3>1
  <2>3. held \in Nat
    BY <2>1, <2>2 DEF IInv, BookInv, StakesAreHeld
  <2>4. QED
    BY <2>3 DEF IInv, Typed, TypeOK
<1>2. QED
  BY <1>1, ArbitrationInvariant, PTL

\* Once a ballot of a dispute is open nobody commits to that dispute any more
\* (commit_vote, reveal_vote).
THEOREM BlindCorrect == Spec => VotesAreBlind
<1> DEFINE Kept(d, j) == ballot[<<d, j>>] = "None" => ballot'[<<d, j>>] = "None"
           IsOpen(d) == \E i \in Jurors : ballot[<<d, i>>] \in Opened
<1>1. IInv /\ [Next]_vars
        => [\A d \in Disputes, j \in Jurors : IsOpen(d) => Kept(d, j)]_vars
  <2> SUFFICES ASSUME IInv, Next, NEW d \in Disputes, NEW j \in Jurors, IsOpen(d)
               PROVE  Kept(d, j)
    BY DEF vars
  <2>1. now > disputes[d].commitBy /\ now \in Nat /\ disputes[d].commitBy \in Nat
    BY DEF IInv, VoteInv, TallyOK, Typed, Dispute
  <2>2. <<d, j>> \in Disputes \X Jurors /\ ballot \in [Disputes \X Jurors -> Ballots]
    BY DEF IInv, Typed
  <2>3. ASSUME NEW q \in Disputes, NEW i \in Jurors, NEW sealed \in Sealed,
               CommitVote(q, i, sealed)
        PROVE  Kept(d, j)
    <3>1. q # d
      BY <2>1, <2>3 DEF CommitVote
    <3>2. <<q, i>> # <<d, j>>
      BY <3>1
    <3>3. QED
      BY <2>2, <2>3, <3>2 DEF CommitVote
  <2>4. ASSUME NEW q \in Disputes, NEW i \in Jurors, RevealVote(q, i)
        PROVE  Kept(d, j)
    <3>1. ballot[<<q, i>>] # "None"
          /\ \E vote : ballot' = [ballot EXCEPT ![<<q, i>>] = vote]
      BY <2>4 DEF RevealVote, Counted
    <3>2. QED
      BY <2>2, <3>1
  <2>5. UNCHANGED ballot => Kept(d, j)
    OBVIOUS
  <2>6. QED
    BY <2>3, <2>4, <2>5
       DEF Next, Tick, JoinPanel, LeavePanel, OpenDispute, Resolve, ResolveWithQuorum,
           ResolveQuorumFailed, Closed
<1>2. QED
  BY <1>1, ArbitrationInvariant, PTL DEF Spec, VotesAreBlind

\* Whom a resolution slashes was silent or outvoted by a strict majority of the
\* opened ballots.
LEMMA SlashedForFault ==
  ASSUME IInv, NEW d \in Disputes, NEW j \in Jurors, Slash(d, j) > 0
  PROVE  \/ ballot[<<d, j>>] \notin Opened
         \/ 2 * Cardinality(Opening(d, ballot[<<d, j>>])) < Revealed(d)
<1>1. /\ disputes[d].votesFor \in Nat /\ disputes[d].votesAgainst \in Nat
      /\ disputes[d].votesFor = Cardinality(Opening(d, "For"))
      /\ disputes[d].votesAgainst = Cardinality(Opening(d, "Against"))
  BY DEF IInv, VoteInv, TallyOK, Typed, Dispute
<1>2. CASE Silent(d, j)
  BY <1>2 DEF Silent
<1>3. CASE ~Silent(d, j)
  <2>1. Outvoted(d, j)
    BY <1>3 DEF Slash
  <2>2. CASE Released(d)
    BY <1>1, <2>1, <2>2 DEF Outvoted, Released, Revealed
  <2>3. CASE ~Released(d)
    BY <1>1, <2>1, <2>3 DEF Outvoted, Released, Tied, Revealed
  <2>4. QED
    BY <2>2, <2>3
<1>4. QED
  BY <1>2, <1>3

\* A resolution takes stake from members of its panel, and no more than the slash.
LEMMA ResolutionTakes ==
  ASSUME IInv, NEW d \in Disputes, Resolve(d), NEW j \in Jurors, stake'[j] < stake[j]
  PROVE  /\ d \in Running /\ disputes'[d].phase # "Active"
         /\ j \in disputes[d].panel /\ Slash(d, j) > 0
<1>1. stake[j] \in Nat /\ Slash(d, j) \in Nat /\ Reward(d) \in Nat
  <2>1. Slash(d, j) \in 0 .. stake[j] /\ stake[j] \in Nat
    BY SlashType DEF IInv, Typed
  <2>2. QED
    BY <2>1, PotType DEF IInv
<1>2. /\ disputes[d].phase = "Active"
      /\ \E phase, outcome : phase # "Active" /\ Closed(d, phase, outcome)
  BY DEF Resolve, ResolveWithQuorum, ResolveQuorumFailed, MayResolve
<1>3. disputes'[d].phase # "Active"
  BY <1>2 DEF Closed, IInv, Typed, Dispute
<1>4. j \in disputes[d].panel /\ Slash(d, j) > 0
  <2>1. CASE ResolveWithQuorum(d)
    <3>1. stake'[j] = IF j \notin disputes[d].panel THEN stake[j]
                      ELSE stake[j] - Slash(d, j) + IF j \in Rewarded(d) THEN Reward(d) ELSE 0
      BY <2>1 DEF ResolveWithQuorum
    <3>2. QED
      BY <1>1, <3>1
  <2>2. CASE ResolveQuorumFailed(d)
    <3>1. stake'[j] = IF j \in disputes[d].panel THEN stake[j] - Slash(d, j) ELSE stake[j]
      BY <2>2 DEF ResolveQuorumFailed
    <3>2. QED
      BY <1>1, <3>1
  <2>3. QED
    BY <2>1, <2>2 DEF Resolve
<1>5. QED
  BY <1>2, <1>3, <1>4 DEF Running

\* A juror that stays in the pool loses stake only in the resolution of a dispute
\* it sat on silently, or in which a strict majority outvoted it (resolve).
THEOREM FaultCorrect == Spec => OnlyFaultIsSlashed
<1> DEFINE AtFault(d, j) ==
             /\ disputes'[d].phase # "Active" /\ j \in disputes[d].panel
             /\ \/ ballot[<<d, j>>] \notin Opened
                \/ 2 * Cardinality(Opening(d, ballot[<<d, j>>])) < Revealed(d)
           Loses(j) == stake'[j] < stake[j]
<1>1. IInv /\ [Next]_vars
        => [\A j \in pool \cap pool' : Loses(j) => \E d \in Running : AtFault(d, j)]_vars
  <2> SUFFICES ASSUME IInv, Next, NEW j \in pool \cap pool', Loses(j)
               PROVE  \E d \in Running : AtFault(d, j)
    BY DEF vars
  <2>1. j \in Jurors /\ stake \in [Jurors -> Nat] /\ stake[j] \in Nat
    BY DEF IInv, Typed
  <2>2. ASSUME NEW d \in Disputes, Resolve(d) PROVE \E q \in Running : AtFault(q, j)
    BY <2>1, <2>2, ResolutionTakes, SlashedForFault
  <2>3. stake'[j] # stake[j]
    BY <2>1
  <2>4. ASSUME NEW i \in Jurors, NEW amount \in Stakes, JoinPanel(i, amount) PROVE FALSE
    BY <2>1, <2>3, <2>4 DEF JoinPanel
  <2>5. ASSUME NEW i \in Jurors, LeavePanel(i) PROVE FALSE
    BY <2>1, <2>3, <2>5 DEF LeavePanel
  <2>6. \E d \in Disputes : Resolve(d)
    BY <2>3, <2>4, <2>5 DEF Next, Tick, OpenDispute, CommitVote, RevealVote
  <2>7. QED
    BY <2>2, <2>6
<1>2. QED
  BY <1>1, ArbitrationInvariant, PTL DEF Spec, OnlyFaultIsSlashed

\* A slash of at least one unit.
LEMMA SlashCounts ==
  ASSUME NEW amount \in Nat, NEW bps \in Nat, amount * bps >= BPS
  PROVE  BpsOf(amount, bps) > 0
<1> DEFINE product == amount * bps
<1>1. product \in Nat /\ product >= 10000
  BY DEF BPS
<1> HIDE DEF product
<1>2. product \div 10000 > 0
  BY <1>1
<1>3. QED
  BY <1>2 DEF BpsOf, BPS, product

\* Whoever is outvoted with a stake that a slash can be taken from loses by the
\* resolution: the only outvoted jurors that are rewarded (resolve_with_quorum
\* takes "not slashed" for "in the majority") are those whose slash rounds to
\* nothing.
THEOREM OutvotedLose ==
  Spec => [][\A d \in Running, j \in Jurors :
               /\ disputes'[d].phase = "Resolved" /\ j \in disputes[d].panel
               /\ Outvoted(d, j) /\ stake[j] * MinoritySlashBps >= BPS
               => stake'[j] < stake[j]]_vars
<1> DEFINE Loses(d, j) ==
             /\ disputes'[d].phase = "Resolved" /\ j \in disputes[d].panel
             /\ Outvoted(d, j) /\ stake[j] * MinoritySlashBps >= BPS
             => stake'[j] < stake[j]
<1>1. IInv /\ [Next]_vars => [\A d \in Running, j \in Jurors : Loses(d, j)]_vars
  <2> SUFFICES ASSUME IInv, Next, NEW d \in Running, NEW j \in Jurors,
                      disputes'[d].phase = "Resolved", j \in disputes[d].panel,
                      Outvoted(d, j), stake[j] * MinoritySlashBps >= BPS
               PROVE  stake'[j] < stake[j]
    BY DEF vars
  <2>1. d \in Disputes /\ disputes[d].phase = "Active"
    BY DEF Running
  <2>2. \E q \in Disputes : Resolve(q)
    <3>1. ASSUME NEW q \in Disputes, NEW i \in Jurors, RevealVote(q, i) PROVE FALSE
      <4>1. disputes'[d].phase = disputes[d].phase \/ (disputes'[q].phase = "Active" /\ q = d)
        BY <2>1, <3>1, RevealVotes DEF IInv
      <4>2. QED
        BY <2>1, <4>1
    <3>2. ASSUME NEW m \in Milestones, OpenDispute(m) PROVE FALSE
      <4>1. PICK panel \in Panels : disputes' = [disputes EXCEPT ![nextId] = NewDispute(m, panel)]
        BY <3>2 DEF OpenDispute, NewDispute
      <4>2. PICK r : r = NewDispute(m, panel)
        OBVIOUS
      <4>3. r.phase = "Active"
        BY <4>2, OpenedRecord
      <4>4. QED
        BY <2>1, <4>1, <4>2, <4>3 DEF IInv, Typed
    <3>3. QED
      BY <2>1, <3>1, <3>2 DEF Next, Tick, JoinPanel, LeavePanel, CommitVote
  <2>3. PICK q \in Disputes : Resolve(q)
    BY <2>2
  <2>4. q = d
    BY <2>1, <2>3 DEF Resolve, ResolveWithQuorum, ResolveQuorumFailed, Closed, IInv, Typed
  <2>5. ResolveWithQuorum(d)
    BY <2>1, <2>3, <2>4 DEF Resolve, ResolveQuorumFailed, Closed, IInv, Typed, Dispute
  <2>6. ~Silent(d, j) /\ QuorumMet(d)
    BY <2>5 DEF Outvoted, Silent, Opened, ResolveWithQuorum
  <2>7. Slash(d, j) > 0
    <3>1. stake[j] \in Nat /\ MinoritySlashBps \in Nat
      BY ArbitrationAssumption DEF IInv, Typed
    <3>2. BpsOf(stake[j], MinoritySlashBps) > 0
      BY <3>1, SlashCounts
    <3>3. QED
      BY <2>6, <3>2 DEF Slash
  <2>8. stake'[j] = stake[j] - Slash(d, j) + 0
    <3>1. Slash(d, j) # 0
      BY <2>7
    <3>2. j \notin Rewarded(d)
      BY <3>1 DEF Rewarded
    <3>3. QED
      BY <2>5, <3>2 DEF ResolveWithQuorum
  <2>9. Slash(d, j) \in 0 .. stake[j] /\ stake[j] \in Nat
    BY <2>1, SlashType DEF IInv, Typed
  <2>10. QED
    BY <2>7, <2>8, <2>9
<1>2. QED
  BY <1>1, ArbitrationInvariant, PTL DEF Spec

-----------------------------------------------------------------------------
(* The rulings *)

\* A dispute once opened is about a milestone, which is then marked as disputed
\* (DisputeByMilestone); no two disputes are about the same one.
CasesInv ==
  \A d \in Disputes :
    /\ disputes[d].phase # "None" => disputes[d].milestone \in Milestones \cap disputed
    /\ disputes[d].phase = "None" => disputes[d].milestone = NoMilestone
    /\ \A e \in Disputes : disputes[d].milestone = disputes[e].milestone
         => e = d \/ disputes[d].milestone = NoMilestone

\* Steps that open nothing keep every dispute's milestone.
LEMMA CasesKept ==
  ASSUME CasesInv, disputed' = disputed,
         \A d \in Disputes : /\ disputes'[d].milestone = disputes[d].milestone
                             /\ disputes'[d].phase = "None" <=> disputes[d].phase = "None"
  PROVE  CasesInv'
BY DEF CasesInv

\* A reveal changes the tally of a dispute, a resolution its phase and outcome.
LEMMA RecordKept ==
  ASSUME IInv, NEW d \in Disputes,
         (\E j \in Jurors : RevealVote(d, j)) \/ Resolve(d)
  PROVE  /\ disputed' = disputed
         /\ \A e \in Disputes :
              /\ disputes'[e].milestone = disputes[e].milestone
              /\ disputes'[e].phase = "None" <=> disputes[e].phase = "None"
<1>1. CASE \E j \in Jurors : RevealVote(d, j)
  BY <1>1 DEF RevealVote, Counted, IInv, Typed, Dispute
<1>2. CASE Resolve(d)
  <2>1. /\ disputes[d].phase = "Active"
        /\ \E phase \in {"Resolved", "QuorumFailed"}, outcome \in {"None", "Release", "Uphold"} :
             Closed(d, phase, outcome)
    BY <1>2 DEF Resolve, ResolveWithQuorum, ResolveQuorumFailed, MayResolve
  <2>2. PICK phase \in {"Resolved", "QuorumFailed"}, outcome \in {"None", "Release", "Uphold"} :
          Closed(d, phase, outcome)
    BY <2>1
  <2>3. /\ \A e \in Disputes : e # d => disputes'[e] = disputes[e]
        /\ disputes'[d].phase = phase /\ disputes'[d].milestone = disputes[d].milestone
    BY <2>2, ClosedRecord DEF IInv
  <2>4. disputed' = disputed
    BY <2>2 DEF Closed
  <2>5. QED
    BY <2>1, <2>3, <2>4
<1>3. QED
  BY <1>1, <1>2

\* open_dispute refuses a milestone that is disputed already, whatever came of it.
LEMMA CasesOpened ==
  ASSUME IInv, CasesInv, NEW m \in Milestones, OpenDispute(m)
  PROVE  CasesInv'
<1>1. PICK panel \in Panels : disputes' = [disputes EXCEPT ![nextId] = NewDispute(m, panel)]
  BY DEF OpenDispute, NewDispute
<1>2. PICK r : r = NewDispute(m, panel)
  OBVIOUS
<1>3. /\ nextId \in Disputes /\ m \notin disputed /\ disputed' = disputed \cup {m}
      /\ m # NoMilestone
  BY ArbitrationAssumption DEF OpenDispute
<1>4. r.phase = "Active" /\ r.milestone = m
  BY <1>2, OpenedRecord
<1>5. /\ disputes'[nextId] = r
      /\ \A e \in Disputes : e # nextId => disputes'[e] = disputes[e]
  BY <1>1, <1>2, <1>3 DEF IInv, Typed
<1>6. \A e \in Disputes : disputes[e].milestone # m
  BY <1>3 DEF CasesInv
<1>7. QED
  BY <1>3, <1>4, <1>5, <1>6 DEF CasesInv

\* Every step keeps the disputes apart.
LEMMA CasesStep == IInv /\ CasesInv /\ [Next]_vars => CasesInv'
<1> SUFFICES ASSUME IInv, CasesInv, [Next]_vars PROVE CasesInv'
  OBVIOUS
<1>1. ASSUME NEW m \in Milestones, OpenDispute(m) PROVE CasesInv'
  BY <1>1, CasesOpened
<1>2. ASSUME NEW d \in Disputes, NEW j \in Jurors, RevealVote(d, j) PROVE CasesInv'
  BY <1>2, RecordKept, CasesKept
<1>3. ASSUME NEW d \in Disputes, Resolve(d) PROVE CasesInv'
  BY <1>3, RecordKept, CasesKept
<1>4. CASE UNCHANGED <<disputes, disputed>>
  BY <1>4, CasesKept
<1>5. QED
  BY <1>1, <1>2, <1>3, <1>4 DEF Next, Tick, JoinPanel, LeavePanel, CommitVote, vars

\* Nothing is disputed after initialize.
LEMMA CasesInit == Init => CasesInv
BY DEF Init, CasesInv, NoDispute

\* A milestone is disputed once at most, and every dispute is about one
\* (open_dispute).
THEOREM CasesCorrect == Spec => [](IInv /\ CasesInv)
<1>1. IInv /\ CasesInv /\ [Next]_vars => (IInv /\ CasesInv)'
  BY ArbitrationStep, CasesStep
<1>2. Init => IInv /\ CasesInv
  BY ArbitrationInit, CasesInit
<1>3. QED
  BY <1>1, <1>2, PTL DEF Spec

\* A verdict has a quorum of opened ballots behind it, and a release a strict
\* majority of them; no two disputes release the same milestone (open_dispute,
\* reveal_vote, resolve).
THEOREM OutcomeCorrect == Spec => []OutcomeIsMajority
<1>1. IInv /\ CasesInv => OutcomeIsMajority
  BY DEF IInv, VoteInv, TallyOK, CasesInv, OutcomeIsMajority, Revealed, ReleaseOutcome
<1>2. QED
  BY <1>1, CasesCorrect, PTL

\* The answers of get_release_outcome: the state of ReleaseRulings.
Ruled == [d \in Disputes |-> ReleaseOutcome(d)]

\* A dispute is resolved in favour of its milestone, or rules nothing.
LEMMA ResolveRules ==
  ASSUME IInv, CasesInv, NEW d \in Disputes, Resolve(d)
  PROVE  Rulings!Next \/ Ruled' = Ruled
<1>1. /\ disputes[d].phase = "Active" /\ disputes[d].outcome = "None"
      /\ disputes[d].milestone \in Milestones
  BY DEF Resolve, ResolveWithQuorum, ResolveQuorumFailed, MayResolve,
         IInv, VoteInv, TallyOK, CasesInv
<1>2. /\ \A e \in Disputes : e # d => disputes'[e] = disputes[e]
      /\ disputes'[d].milestone = disputes[d].milestone
  BY DEF Resolve, ResolveWithQuorum, ResolveQuorumFailed, Closed, IInv, Typed, Dispute
<1>3. \A e \in Disputes : e # d => ReleaseOutcome(e)' = ReleaseOutcome(e)
  BY <1>2 DEF ReleaseOutcome
<1>4. ReleaseOutcome(d) = NoMilestone
  BY <1>1 DEF ReleaseOutcome
<1>5. CASE disputes'[d].outcome = "Release"
  <2>1. ReleaseOutcome(d)' = disputes[d].milestone
    BY <1>2, <1>5 DEF ReleaseOutcome
  <2>2. \A e \in Disputes : Ruled[e] # disputes[d].milestone
    BY <1>1, <1>4, ArbitrationAssumption DEF Ruled, ReleaseOutcome, CasesInv
  <2>3. Ruled' = [Ruled EXCEPT ![d] = disputes[d].milestone]
    BY <1>3, <2>1 DEF Ruled
  <2>4. Rulings!Rule(d, disputes[d].milestone)
    BY <1>4, <2>2, <2>3 DEF Rulings!Rule, Ruled
  <2>5. QED
    BY <1>1, <2>4 DEF Rulings!Next
<1>6. CASE disputes'[d].outcome # "Release"
  BY <1>3, <1>4, <1>6 DEF Ruled, ReleaseOutcome
<1>7. QED
  BY <1>5, <1>6

\* What get_release_outcome answers is decided once for every dispute, by its
\* resolution, and never the same milestone twice: the arbitration implements
\* ReleaseRulings, which is all that an escrow supposes of it.
THEOREM RulingsCorrect == Spec => ImplementsRulings
<1>1. Init => Rulings!Init
  BY DEF Init, Rulings!Init, ReleaseOutcome, NoDispute
<1>2. IInv /\ CasesInv /\ [Next]_vars => [Rulings!Next]_Ruled
  <2> SUFFICES ASSUME IInv, CasesInv, [Next]_vars PROVE Rulings!Next \/ Ruled' = Ruled
    OBVIOUS
  <2>1. ASSUME NEW d \in Disputes, Resolve(d) PROVE Rulings!Next \/ Ruled' = Ruled
    BY <2>1, ResolveRules
  <2>2. ASSUME NEW m \in Milestones, OpenDispute(m) PROVE Ruled' = Ruled
    <3>1. PICK panel \in Panels :
            disputes' = [disputes EXCEPT ![nextId] = NewDispute(m, panel)]
      BY <2>2 DEF OpenDispute, NewDispute
    <3>2. PICK r : r = NewDispute(m, panel)
      OBVIOUS
    <3>3. r.outcome = "None" /\ nextId \in Disputes
      BY <2>2, <3>2, OpenedRecord DEF OpenDispute
    <3>4. /\ disputes'[nextId] = r
          /\ \A e \in Disputes : e # nextId => disputes'[e] = disputes[e]
      BY <3>1, <3>2, <3>3 DEF IInv, Typed
    <3>5. disputes[nextId].outcome = "None"
      BY <3>3 DEF IInv, BookInv, FreshIds, NoDispute, Disputes
    <3>6. QED
      BY <3>3, <3>4, <3>5 DEF Ruled, ReleaseOutcome
  <2>3. ASSUME NEW d \in Disputes, NEW j \in Jurors, RevealVote(d, j) PROVE Ruled' = Ruled
    BY <2>3 DEF RevealVote, Counted, Ruled, ReleaseOutcome, IInv, Typed, Dispute
  <2>4. CASE UNCHANGED disputes
    BY <2>4 DEF Ruled, ReleaseOutcome
  <2>5. QED
    BY <2>1, <2>2, <2>3, <2>4 DEF Next, Tick, JoinPanel, LeavePanel, CommitVote, vars
<1>3. QED
  BY <1>1, <1>2, CasesCorrect, PTL DEF Spec, ImplementsRulings, Rulings!Spec, Ruled
=============================================================================
