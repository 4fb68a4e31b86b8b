----------------------- MODULE MilestoneEscrowProofs ------------------------
(***************************************************************************)
(* Theorems about MilestoneEscrow, for every number of escrows, disputes   *)
(* and arbitration contracts, every amount and every number of tranches.   *)
(***************************************************************************)
EXTENDS MilestoneEscrow, TotalsProofs

\* What a record and the payments made for it have to do with each other.
RecordOK(e, scholar, treasury, paidAt) ==
  /\ e \in EscrowRecord /\ scholar \in Nat /\ treasury \in Nat /\ paidAt \in Nat
  /\ scholar + treasury = e.released /\ e.released <= e.total
  /\ treasury > 0 => e.released = e.total
  /\ paidAt <= e.lastActivity
  /\ e.total = 0 => e = NoEscrow
  /\ e.total > 0 =>
       /\ e.tranches > 0 /\ e.done <= e.tranches
       /\ scholar = IF e.done = e.tranches THEN e.total
                                           ELSE e.done * (e.total \div e.tranches)

RecordInv ==
  \A p \in Proposals : RecordOK(escrows[p], toScholar[p], toTreasury[p], lastPaid[p])

RemainingOf == [p \in Proposals |-> Remaining(p)]

Funded == held = Total(RemainingOf, Proposals)

\* The disputes marked as used that some contract decided in favour of p.
UsedFor(p) == {d \in used : \E c \in Contracts : Releases(c, d, p)}

RulingInv == \A p \in Proposals : arbitrated[p] <= Cardinality(UsedFor(p))

\* A contract decides a milestone in one dispute at most.
CasesApart ==
  \A c \in Contracts, d \in DisputeIds, e \in DisputeIds :
    rulings[<<c, d>>] = rulings[<<c, e>>] => d = e \/ rulings[<<c, d>>] = NoRuling

\* The rest of TypeOK; that held is a natural number follows from Funded.
Typed ==
  /\ now \in Nat /\ held \in Int
  /\ escrows \in [Proposals -> EscrowRecord]
  /\ arbitration \in Contracts \cup {NoContract} /\ pending \in PendingChange
  /\ used \subseteq DisputeIds
  /\ rulings \in [Contracts \X DisputeIds -> Milestones \cup {NoRuling}]
  /\ toScholar \in [Proposals -> Nat] /\ toTreasury \in [Proposals -> Nat]
  /\ lastPaid \in [Proposals -> Nat] /\ arbitrated \in [Proposals -> Nat]

IInv == Typed /\ RecordInv /\ Funded /\ RulingInv /\ CasesApart

-----------------------------------------------------------------------------
(* One record *)

\* The updates of a record, written out.
LEMMA NewRecord ==
  ASSUME NEW total, NEW tranches, NEW at,
         NEW f, f = [NoEscrow EXCEPT !.total = total, !.tranches = tranches,
                                     !.lastActivity = at]
  PROVE  f = [total |-> total, released |-> 0, tranches |-> tranches, done |-> 0,
              lastActivity |-> at]
BY DEF NoEscrow

\* A record that pays a tranche is still a record.
LEMMA PaidRecord ==
  ASSUME NEW e \in EscrowRecord, NEW r, NEW k, NEW at,
         NEW f, f = [e EXCEPT !.released = r, !.done = k, !.lastActivity = at]
  PROVE  f = [total |-> e.total, released |-> r, tranches |-> e.tranches, done |-> k,
              lastActivity |-> at]
BY DEF EscrowRecord

\* So is one that is reclaimed.
LEMMA ClosedRecord ==
  ASSUME NEW e \in EscrowRecord, NEW r, NEW at,
         NEW f, f = [e EXCEPT !.released = r, !.lastActivity = at]
  PROVE  f = [total |-> e.total, released |-> r, tranches |-> e.tranches, done |-> e.done,
              lastActivity |-> at]
BY DEF EscrowRecord

\* A new record.
LEMMA CreatedRecord ==
  ASSUME NEW total \in Nat \ {0}, NEW tranches \in Nat \ {0}, NEW at \in Nat,
         NEW e, e = [total |-> total, released |-> 0, tranches |-> tranches, done |-> 0,
                     lastActivity |-> at]
  PROVE  RecordOK(e, 0, 0, at)
<1>1. e \in EscrowRecord
  BY DEF EscrowRecord
<1>3. /\ e.total = total /\ e.released = 0 /\ e.tranches = tranches /\ e.done = 0
      /\ e.lastActivity = at
  OBVIOUS
<1>4. /\ e.total \div e.tranches \in Nat /\ e.done # e.tranches
      /\ e.total # 0 /\ e.tranches > 0 /\ e.done <= e.tranches
      /\ e.released <= e.total /\ at <= e.lastActivity
  BY <1>3
<1> HIDE DEF EscrowRecord
<1>5. 0 = e.done * (e.total \div e.tranches)
  <2> DEFINE tranche == e.total \div e.tranches
  <2>1. tranche \in Nat
    BY <1>4
  <2> HIDE DEF tranche
  <2>2. 0 * tranche = 0
    BY <2>1
  <2>3. QED
    BY <1>3, <2>2 DEF tranche
<1>6. 0 + 0 = e.released
  BY <1>3
<1>7. QED
  BY <1>1, <1>4, <1>5, <1>6 DEF RecordOK

\* One more tranche, the last one or one of the others.
LEMMA ReleasedRecord ==
  ASSUME NEW e, NEW s, NEW t, NEW l, RecordOK(e, s, t, l), NEW at \in Nat,
         NEW amount,
         amount = IF e.done + 1 = e.tranches THEN e.total - e.released
                                             ELSE e.total \div e.tranches,
         e.total > 0, e.done < e.tranches, amount > 0, amount <= e.total - e.released,
         NEW f, f = [total |-> e.total, released |-> e.released + amount,
                     tranches |-> e.tranches, done |-> e.done + 1, lastActivity |-> at]
  PROVE  amount \in Nat /\ RecordOK(f, s + amount, t, at)
<1> DEFINE tranche == e.total \div e.tranches
<1>1. /\ e.total \in Nat /\ e.released \in Nat /\ e.tranches \in Nat /\ e.done \in Nat
      /\ e.lastActivity \in Nat /\ s \in Nat /\ t \in Nat
  BY DEF RecordOK, EscrowRecord
<1>2. tranche \in Nat
  BY <1>1
<1>3. /\ s = e.done * tranche /\ s + t = e.released /\ e.released <= e.total
      /\ t > 0 => e.released = e.total
  BY <1>1 DEF RecordOK
<1>4. amount = (IF e.done + 1 = e.tranches THEN e.total - e.released ELSE tranche)
  OBVIOUS
<1> HIDE DEF tranche
<1>5. (e.done + 1) * tranche = e.done * tranche + tranche
  BY <1>1, <1>2
<1>6. amount \in Nat
  <2>1. CASE e.done + 1 = e.tranches
    <3>1. amount = e.total - e.released
      BY <2>1
    <3>2. QED
      BY <1>1, <1>3, <3>1
  <2>2. CASE e.done + 1 # e.tranches
    BY <1>2, <1>4, <2>2
  <2>3. QED
    BY <2>1, <2>2
<1>7. e.released + amount \in Nat /\ e.done + 1 \in Nat
  BY <1>1, <1>6
<1>8. f \in EscrowRecord
  BY <1>1, <1>7 DEF EscrowRecord
<1>9. /\ f.total = e.total /\ f.released = e.released + amount /\ f.tranches = e.tranches
      /\ f.done = e.done + 1 /\ f.lastActivity = at
  OBVIOUS
<1>10. f.total \div f.tranches = tranche
  BY <1>9 DEF tranche
<1>11. t = 0 /\ f.total # 0 /\ f.total > 0 /\ f.tranches > 0 /\ f.done <= f.tranches
  BY <1>1, <1>3, <1>6, <1>9
<1>12. s + amount = IF f.done = f.tranches THEN f.total ELSE f.done * tranche
  BY <1>1, <1>2, <1>3, <1>4, <1>5, <1>9, <1>11
<1>13. /\ s + amount \in Nat /\ (s + amount) + t = f.released /\ f.released <= f.total
       /\ at <= f.lastActivity /\ ~(t > 0)
  BY <1>1, <1>3, <1>6, <1>9, <1>11
<1>14. QED
  BY <1>1, <1>6, <1>8, <1>10, <1>11, <1>12, <1>13 DEF RecordOK

\* The rest goes back to the treasury.
LEMMA ReclaimedRecord ==
  ASSUME NEW e, NEW s, NEW t, NEW l, RecordOK(e, s, t, l), NEW at \in Nat,
         e.total - e.released > 0, l <= at,
         NEW f, f = [total |-> e.total, released |-> e.total, tranches |-> e.tranches,
                     done |-> e.done, lastActivity |-> at]
  PROVE  e.total - e.released \in Nat /\ RecordOK(f, s, t + (e.total - e.released), l)
<1>1. /\ e.total \in Nat /\ e.released \in Nat /\ e.tranches \in Nat /\ e.done \in Nat
      /\ e.lastActivity \in Nat /\ s \in Nat /\ t \in Nat /\ l \in Nat
  BY DEF RecordOK, EscrowRecord
<1>2. /\ s + t = e.released /\ e.released <= e.total /\ e.total > 0
      /\ e.tranches > 0 /\ e.done <= e.tranches
      /\ s = IF e.done = e.tranches THEN e.total ELSE e.done * (e.total \div e.tranches)
  BY <1>1 DEF RecordOK
<1>4. f \in EscrowRecord
  BY <1>1 DEF EscrowRecord
<1>5. /\ f.total = e.total /\ f.released = e.total /\ f.tranches = e.tranches
      /\ f.done = e.done /\ f.lastActivity = at
  OBVIOUS
<1>6. /\ e.total - e.released \in Nat /\ t + (e.total - e.released) \in Nat
      /\ s + (t + (e.total - e.released)) = f.released /\ f.released <= f.total
      /\ f.total # 0 /\ l <= f.lastActivity
  BY <1>1, <1>2, <1>5
<1>7. QED
  BY <1>1, <1>2, <1>4, <1>5, <1>6 DEF RecordOK

-----------------------------------------------------------------------------
(* All records: a step that replaces one record and settles the difference *)

\* What is left of an escrow is never negative.
LEMMA LeftType ==
  ASSUME NEW e, NEW s, NEW t, NEW l, RecordOK(e, s, t, l)
  PROVE  e.total - e.released \in Nat
<1>1. e.total \in Nat /\ e.released \in Nat
  BY DEF RecordOK, EscrowRecord
<1>2. e.released <= e.total
  BY DEF RecordOK
<1>3. QED
  BY <1>1, <1>2

\* The types, records and books of everybody else survive a step on one record
\* that moves exactly the difference of what is left.
LEMMA RecordStep ==
  ASSUME Typed, RecordInv, Funded, NEW p \in Proposals,
         NEW e, NEW s, NEW t, NEW l, RecordOK(e, s, t, l),
         escrows' = [escrows EXCEPT ![p] = e],
         toScholar' = [toScholar EXCEPT ![p] = s],
         toTreasury' = [toTreasury EXCEPT ![p] = t],
         lastPaid' = [lastPaid EXCEPT ![p] = l],
         held' = held - Remaining(p) + (e.total - e.released)
  PROVE  /\ RecordInv' /\ Funded' /\ held' \in Int
         /\ escrows' \in [Proposals -> EscrowRecord]
         /\ toScholar' \in [Proposals -> Nat] /\ toTreasury' \in [Proposals -> Nat]
         /\ lastPaid' \in [Proposals -> Nat]
<1>1. e \in EscrowRecord /\ s \in Nat /\ t \in Nat /\ l \in Nat
  BY DEF RecordOK
<1>2. /\ escrows' \in [Proposals -> EscrowRecord]
      /\ toScholar' \in [Proposals -> Nat] /\ toTreasury' \in [Proposals -> Nat]
      /\ lastPaid' \in [Proposals -> Nat]
  BY <1>1 DEF Typed
<1>3. /\ escrows'[p] = e /\ toScholar'[p] = s /\ toTreasury'[p] = t /\ lastPaid'[p] = l
      /\ \A q \in Proposals : q # p =>
           /\ escrows'[q] = escrows[q] /\ toScholar'[q] = toScholar[q]
           /\ toTreasury'[q] = toTreasury[q] /\ lastPaid'[q] = lastPaid[q]
  BY DEF Typed
<1>4. RecordInv'
  <2> SUFFICES ASSUME NEW q \in Proposals
               PROVE  RecordOK(escrows'[q], toScholar'[q], toTreasury'[q], lastPaid'[q])
    BY DEF RecordInv
  <2>1. CASE q = p
    BY <1>3, <2>1
  <2>2. CASE q # p
    BY <1>3, <2>2 DEF RecordInv
  <2>3. QED
    BY <2>1, <2>2
<1>5. \A q \in Proposals : Remaining(q) \in Nat /\ Remaining(q)' \in Nat
  BY <1>4, LeftType DEF RecordInv, Remaining
<1>6. Remaining(p)' = e.total - e.released
  BY <1>3 DEF Remaining
<1>7. \A q \in Proposals : RemainingOf[q] \in Nat /\ RemainingOf'[q] \in Nat
  BY <1>5 DEF RemainingOf
<1>8. \A q \in Proposals : q # p => RemainingOf'[q] = RemainingOf[q]
  BY <1>3 DEF RemainingOf, Remaining
<1>9. Total(RemainingOf', Proposals) = Total(RemainingOf, Proposals) - RemainingOf[p] + RemainingOf'[p]
  <2>1. IsFiniteSet(Proposals)
    BY EscrowAssumption
  <2>2. QED
    BY <1>7, <1>8, <2>1, TotalChange
<1>10. RemainingOf[p] = Remaining(p) /\ RemainingOf'[p] = e.total - e.released
  BY <1>6 DEF RemainingOf
<1>11. Funded'
  BY <1>9, <1>10 DEF Funded
<1>12. held' \in Int
  BY <1>5, <1>6 DEF Typed
<1>13. QED
  BY <1>2, <1>4, <1>11, <1>12

\* A step that leaves the records alone.
LEMMA QuietStep ==
  ASSUME RecordInv, Funded, UNCHANGED <<escrows, held, toScholar, toTreasury, lastPaid>>
  PROVE  RecordInv' /\ Funded'
BY DEF RecordInv, Funded, RemainingOf, Remaining

-----------------------------------------------------------------------------
(* The rulings *)

\* The count of a proposal's arbitrated releases is safe as long as it does not
\* grow and no used dispute is forgotten.
LEMMA RulingKept ==
  ASSUME Typed, used' \subseteq DisputeIds, NEW p \in Proposals,
         arbitrated[p] <= Cardinality(UsedFor(p)), arbitrated'[p] = arbitrated[p],
         UsedFor(p) \subseteq UsedFor(p)'
  PROVE  arbitrated'[p] <= Cardinality(UsedFor(p)')
<1>1. UsedFor(p)' \subseteq DisputeIds
  BY DEF UsedFor
<1>2. IsFiniteSet(UsedFor(p)') /\ IsFiniteSet(UsedFor(p))
  BY <1>1, EscrowAssumption, FS_Subset
<1>3. Cardinality(UsedFor(p)) <= Cardinality(UsedFor(p)')
  BY <1>2, FS_Subset
<1>4. Cardinality(UsedFor(p)) \in Nat /\ Cardinality(UsedFor(p)') \in Nat
  BY <1>2, FS_CardinalityType
<1>5. arbitrated[p] \in Nat
  BY DEF Typed
<1>6. QED
  BY <1>3, <1>4, <1>5

\* A release by a ruling uses a dispute that was not used before.
LEMMA RulingUsed ==
  ASSUME Typed, RulingInv, NEW p \in Proposals, NEW d \in DisputeIds, Favorable(p, d),
         used' = used \cup {d}, arbitrated' = [arbitrated EXCEPT ![p] = @ + 1],
         UNCHANGED rulings
  PROVE  RulingInv'
<1> SUFFICES ASSUME NEW q \in Proposals
             PROVE  arbitrated'[q] <= Cardinality(UsedFor(q)')
  BY DEF RulingInv
<1>1. used' \subseteq DisputeIds /\ UsedFor(q) \subseteq UsedFor(q)'
  BY DEF Typed, UsedFor, Releases
<1>2. CASE q # p
  <2>1. arbitrated'[q] = arbitrated[q]
    BY <1>2 DEF Typed
  <2>2. QED
    BY <1>1, <2>1, RulingKept DEF RulingInv
<1>3. CASE q = p
  <2>1. d \notin UsedFor(p) /\ UsedFor(p)' = UsedFor(p) \cup {d}
    BY DEF Favorable, UsedFor, Releases, Typed
  <2>2. UsedFor(p) \subseteq DisputeIds
    BY DEF UsedFor, Typed
  <2>3. IsFiniteSet(UsedFor(p)) /\ Cardinality(UsedFor(p)) \in Nat
    BY <2>2, EscrowAssumption, FS_Subset, FS_CardinalityType
  <2>4. Cardinality(UsedFor(p)') = Cardinality(UsedFor(p)) + 1
    BY <2>1, <2>3, FS_AddElement
  <2>5. arbitrated[p] \in Nat /\ arbitrated'[p] = arbitrated[p] + 1
    BY DEF Typed
  <2>6. arbitrated[p] <= Cardinality(UsedFor(p))
    BY DEF RulingInv
  <2>7. QED
    BY <1>3, <2>3, <2>4, <2>5, <2>6
<1>4. QED
  BY <1>2, <1>3

\* A new ruling takes nothing away from the ones that were made, and is about a
\* milestone that its contract has not decided.
LEMMA RulingMade ==
  ASSUME Typed, RulingInv, CasesApart,
         NEW c \in Contracts, NEW d \in DisputeIds, NEW m \in Milestones, Rule(c, d, m)
  PROVE  RulingInv' /\ CasesApart'
<1>1. /\ used' = used /\ arbitrated' = arbitrated
      /\ rulings[<<c, d>>] = NoRuling /\ m # NoRuling
  BY EscrowAssumption DEF Rule, paidVars
<1>2. ASSUME NEW b \in Contracts, NEW f \in DisputeIds
      PROVE  rulings'[<<b, f>>] = IF <<b, f>> = <<c, d>> THEN m ELSE rulings[<<b, f>>]
  <2>1. <<b, f>> \in Contracts \X DisputeIds
    OBVIOUS
  <2>2. QED
    BY <2>1 DEF Rule, Typed
<1>3. ASSUME NEW q \in Proposals PROVE arbitrated'[q] <= Cardinality(UsedFor(q)')
  <2>1. \A b \in Contracts, f \in DisputeIds : Releases(b, f, q) => Releases(b, f, q)'
    <3> SUFFICES ASSUME NEW b \in Contracts, NEW f \in DisputeIds,
                        NEW k \in MilestoneIds, rulings[<<b, f>>] = <<q, k>>
                 PROVE  rulings'[<<b, f>>] = <<q, k>>
      BY DEF Releases
    <3>1. <<q, k>> # NoRuling
      BY EscrowAssumption DEF Milestones
    <3>2. QED
      BY <1>1, <1>2, <3>1
  <2>2. used' \subseteq DisputeIds /\ UsedFor(q) \subseteq UsedFor(q)'
    BY <1>1, <2>1 DEF Typed, UsedFor
  <2>3. QED
    BY <1>1, <2>2, RulingKept DEF RulingInv
<1>4. CasesApart'
  <2> SUFFICES ASSUME NEW b \in Contracts, NEW f \in DisputeIds, NEW e \in DisputeIds,
                      rulings'[<<b, f>>] = rulings'[<<b, e>>]
               PROVE  f = e \/ rulings'[<<b, f>>] = NoRuling
    BY DEF CasesApart
  <2>1. \A g \in DisputeIds : rulings[<<c, g>>] # m
    BY DEF Rule
  <2>2. QED
    BY <1>1, <1>2, <2>1 DEF CasesApart
<1>5. QED
  BY <1>3, <1>4 DEF RulingInv

-----------------------------------------------------------------------------
(* The steps *)

\* A new escrow brings the XLM that its record says.
LEMMA CreateStep ==
  ASSUME IInv, NEW p \in Proposals, NEW amount \in Amounts, NEW tranches \in TrancheCounts,
         CreateEscrow(p, amount, tranches)
  PROVE  IInv'
<1> USE DEF configVars
<1> DEFINE e == [total |-> amount, released |-> 0, tranches |-> tranches, done |-> 0,
                 lastActivity |-> now]
<1>1. amount \in Nat \ {0} /\ tranches \in Nat \ {0} /\ now \in Nat /\ held \in Int
  BY EscrowAssumption DEF IInv, Typed
<1>2. escrows' = [escrows EXCEPT ![p] = e]
  BY NewRecord DEF CreateEscrow
<1>3. RecordOK(e, 0, 0, now)
  BY <1>1, CreatedRecord
<1>4. escrows[p] = NoEscrow /\ toScholar[p] = 0 /\ toTreasury[p] = 0
  <2>1. RecordOK(escrows[p], toScholar[p], toTreasury[p], lastPaid[p])
    BY DEF IInv, RecordInv
  <2>2. escrows[p].total \in Nat /\ ~(escrows[p].total > 0)
    BY DEF IInv, Typed, EscrowRecord, CreateEscrow, Exists
  <2>3. escrows[p] = NoEscrow
    BY <2>1, <2>2 DEF RecordOK
  <2>4. escrows[p].released = 0
    BY <2>3 DEF NoEscrow
  <2>5. /\ toScholar[p] \in Nat /\ toTreasury[p] \in Nat
        /\ toScholar[p] + toTreasury[p] = 0
    BY <2>1, <2>4 DEF RecordOK
  <2>6. QED
    BY <2>3, <2>5
<1>5. /\ toScholar' = [toScholar EXCEPT ![p] = 0] /\ toTreasury' = [toTreasury EXCEPT ![p] = 0]
      /\ lastPaid' = [lastPaid EXCEPT ![p] = now]
  BY <1>4 DEF CreateEscrow, IInv, Typed
<1>6. held' = held - Remaining(p) + (e.total - e.released)
  <2>1. Remaining(p) = 0
    BY <1>4 DEF Remaining, NoEscrow
  <2>2. e.total - e.released = amount
    BY <1>1
  <2>3. held' = held + amount
    BY DEF CreateEscrow
  <2> HIDE DEF e
  <2>4. QED
    BY <1>1, <2>1, <2>2, <2>3
<1> HIDE DEF e
<1>7. /\ RecordInv' /\ Funded' /\ held' \in Int
      /\ escrows' \in [Proposals -> EscrowRecord]
      /\ toScholar' \in [Proposals -> Nat] /\ toTreasury' \in [Proposals -> Nat]
      /\ lastPaid' \in [Proposals -> Nat]
  BY <1>2, <1>3, <1>5, <1>6, RecordStep DEF IInv
<1>8. RulingInv' /\ CasesApart'
  BY DEF CreateEscrow, IInv, RulingInv, CasesApart, UsedFor, Releases
<1>9. Typed'
  BY <1>7 DEF CreateEscrow, IInv, Typed
<1>10. QED
  BY <1>7, <1>8, <1>9 DEF IInv

\* Either way of releasing pays one tranche out of what is left of the record.
LEMMA ReleasedStep ==
  ASSUME IInv, NEW p \in Proposals, Released(p)
  PROVE  /\ RecordInv' /\ Funded' /\ held' \in Int
         /\ escrows' \in [Proposals -> EscrowRecord]
         /\ toScholar' \in [Proposals -> Nat] /\ toTreasury' \in [Proposals -> Nat]
         /\ lastPaid' \in [Proposals -> Nat]
<1> DEFINE amount == NextTranche(p)
           e == escrows[p]
           f == [total |-> e.total, released |-> e.released + amount,
                 tranches |-> e.tranches, done |-> e.done + 1, lastActivity |-> now]
<1>1. /\ RecordOK(e, toScholar[p], toTreasury[p], lastPaid[p])
      /\ e \in EscrowRecord /\ now \in Nat /\ held \in Int
      /\ toScholar[p] \in Nat /\ toTreasury[p] \in Nat
  BY DEF IInv, RecordInv, Typed
<1>2. /\ e.total > 0 /\ e.done < e.tranches
      /\ amount > 0 /\ amount <= e.total - e.released
      /\ amount = IF e.done + 1 = e.tranches THEN e.total - e.released
                                             ELSE e.total \div e.tranches
  BY DEF Released, Payable, Exists, NextTranche, Remaining
<1>3. escrows' = [escrows EXCEPT ![p] = f]
  <2>1. [e EXCEPT !.released = e.released + amount, !.done = e.done + 1,
                  !.lastActivity = now] = f
    BY <1>1, PaidRecord
  <2>2. escrows' = [escrows EXCEPT ![p] =
                      [e EXCEPT !.released = e.released + amount, !.done = e.done + 1,
                                !.lastActivity = now]]
    BY DEF Released
  <2>3. QED
    BY <2>1, <2>2
<1>4. /\ held' = held - amount
      /\ toScholar' = [toScholar EXCEPT ![p] = toScholar[p] + amount]
      /\ lastPaid' = [lastPaid EXCEPT ![p] = now]
      /\ toTreasury' = toTreasury
  BY DEF Released, PayScholar
<1>5. toTreasury' = [toTreasury EXCEPT ![p] = toTreasury[p]]
  BY <1>4 DEF IInv, Typed
<1>6. Remaining(p) = e.total - e.released /\ e.total \in Nat /\ e.released \in Nat
  BY <1>1 DEF Remaining, EscrowRecord
<1>7. f.total = e.total /\ f.released = e.released + amount
  OBVIOUS
<1> HIDE DEF amount, e, f
<1>8. amount \in Nat /\ RecordOK(f, toScholar[p] + amount, toTreasury[p], now)
  BY <1>1, <1>2, ReleasedRecord DEF f
<1>9. held' = held - Remaining(p) + (f.total - f.released)
  BY <1>1, <1>4, <1>6, <1>7, <1>8
<1>10. QED
  BY <1>3, <1>4, <1>5, <1>8, <1>9, RecordStep DEF IInv

\* The treasury takes all that is left of the record.
LEMMA ReclaimStep ==
  ASSUME IInv, NEW p \in Proposals, ReclaimInactive(p)
  PROVE  IInv'
<1> USE DEF configVars
<1> DEFINE e == escrows[p]
           f == [total |-> e.total, released |-> e.total, tranches |-> e.tranches,
                 done |-> e.done, lastActivity |-> now]
<1>1. /\ RecordOK(e, toScholar[p], toTreasury[p], lastPaid[p])
      /\ e \in EscrowRecord /\ now \in Nat /\ held \in Int
      /\ toScholar[p] \in Nat /\ toTreasury[p] \in Nat /\ lastPaid[p] \in Nat
  BY DEF IInv, RecordInv, Typed
<1>2. Remaining(p) = e.total - e.released /\ Remaining(p) > 0
  BY DEF Remaining, ReclaimInactive
<1>3. lastPaid[p] <= now
  <2>1. e.lastActivity \in Nat /\ lastPaid[p] <= e.lastActivity
    BY <1>1 DEF RecordOK, EscrowRecord
  <2>2. now - e.lastActivity >= InactivityWindow /\ InactivityWindow \in Nat
    BY EscrowAssumption DEF ReclaimInactive
  <2>3. QED
    BY <1>1, <2>1, <2>2
<1>4. escrows' = [escrows EXCEPT ![p] = f]
  <2>1. [e EXCEPT !.released = e.total, !.lastActivity = now] = f
    BY <1>1, ClosedRecord
  <2>2. escrows' = [escrows EXCEPT ![p] = [e EXCEPT !.released = e.total, !.lastActivity = now]]
    BY DEF ReclaimInactive
  <2>3. QED
    BY <2>1, <2>2
<1>5. /\ held' = held - Remaining(p)
      /\ toTreasury' = [toTreasury EXCEPT ![p] = toTreasury[p] + Remaining(p)]
      /\ toScholar' = toScholar /\ lastPaid' = lastPaid
  BY DEF ReclaimInactive
<1>6. /\ toScholar' = [toScholar EXCEPT ![p] = toScholar[p]]
      /\ lastPaid' = [lastPaid EXCEPT ![p] = lastPaid[p]]
  BY <1>5 DEF IInv, Typed
<1>7. f.total = e.total /\ f.released = e.total /\ e.total \in Nat
  BY <1>1 DEF EscrowRecord
<1> HIDE DEF e, f
<1>8. /\ Remaining(p) \in Nat
      /\ RecordOK(f, toScholar[p], toTreasury[p] + Remaining(p), lastPaid[p])
  BY <1>1, <1>2, <1>3, ReclaimedRecord DEF f
<1>9. held' = held - Remaining(p) + (f.total - f.released)
  BY <1>1, <1>5, <1>7, <1>8
<1>10. /\ RecordInv' /\ Funded' /\ held' \in Int
       /\ escrows' \in [Proposals -> EscrowRecord]
       /\ toScholar' \in [Proposals -> Nat] /\ toTreasury' \in [Proposals -> Nat]
       /\ lastPaid' \in [Proposals -> Nat]
  BY <1>4, <1>5, <1>6, <1>8, <1>9, RecordStep DEF IInv
<1>11. RulingInv' /\ CasesApart'
  BY DEF ReclaimInactive, IInv, RulingInv, CasesApart, UsedFor, Releases
<1>12. Typed'
  BY <1>10 DEF ReclaimInactive, IInv, Typed
<1>13. QED
  BY <1>10, <1>11, <1>12 DEF IInv

\* The invariant is inductive.
LEMMA EscrowStep == IInv /\ [Next]_vars => IInv'
<1> SUFFICES ASSUME IInv, [Next]_vars PROVE IInv'
  OBVIOUS
<1> USE DEF configVars, paidVars
<1>1. ASSUME NEW p \in Proposals, ReleaseTranche(p) PROVE IInv'
  <2>1. Released(p) /\ UNCHANGED <<now, configVars, used, rulings, arbitrated>>
    BY <1>1 DEF ReleaseTranche
  <2>2. /\ RecordInv' /\ Funded' /\ held' \in Int
        /\ escrows' \in [Proposals -> EscrowRecord]
        /\ toScholar' \in [Proposals -> Nat] /\ toTreasury' \in [Proposals -> Nat]
        /\ lastPaid' \in [Proposals -> Nat]
    BY <2>1, ReleasedStep
  <2>3. RulingInv' /\ Typed'
    BY <2>1, <2>2 DEF IInv, RulingInv, UsedFor, Releases, Typed
  <2>4. CasesApart'
    BY <2>1 DEF IInv, CasesApart
  <2>5. QED
    BY <2>2, <2>3, <2>4 DEF IInv
<1>2. ASSUME NEW p \in Proposals, NEW d \in DisputeIds, ReleaseViaArbitration(p, d)
      PROVE  IInv'
  <2>1. /\ Released(p) /\ Favorable(p, d) /\ used' = used \cup {d}
        /\ arbitrated' = [arbitrated EXCEPT ![p] = @ + 1]
        /\ UNCHANGED <<now, configVars, rulings>>
    BY <1>2 DEF ReleaseViaArbitration
  <2>2. /\ RecordInv' /\ Funded' /\ held' \in Int
        /\ escrows' \in [Proposals -> EscrowRecord]
        /\ toScholar' \in [Proposals -> Nat] /\ toTreasury' \in [Proposals -> Nat]
        /\ lastPaid' \in [Proposals -> Nat]
    BY <2>1, ReleasedStep
  <2>3. RulingInv'
    BY <2>1, RulingUsed DEF IInv
  <2>4. arbitrated' \in [Proposals -> Nat] /\ used' \subseteq DisputeIds
    BY <2>1 DEF IInv, Typed
  <2>5. Typed'
    BY <2>1, <2>2, <2>4 DEF IInv, Typed
  <2>6. CasesApart'
    BY <2>1 DEF IInv, CasesApart
  <2>7. QED
    BY <2>2, <2>3, <2>5, <2>6 DEF IInv
<1>3. ASSUME ChangeArbitration PROVE IInv'
  <2>1. UNCHANGED <<now, escrows, used, rulings, paidVars>>
    BY <1>3 DEF ChangeArbitration
  <2>2. arbitration' \in Contracts \cup {NoContract} /\ pending' \in PendingChange
    <3> USE DEF IInv, Typed
    <3>1. NoChange \in PendingChange
      BY DEF NoChange, PendingChange
    <3>2. CASE \E c \in Contracts : SetArbitrationContract(c)
      BY <3>2 DEF SetArbitrationContract
    <3>3. ASSUME NEW c \in Contracts, QueueArbitrationChange(c)
          PROVE  arbitration' \in Contracts \cup {NoContract} /\ pending' \in PendingChange
      <4>1. now + ArbitrationTimelock \in Nat
        BY EscrowAssumption
      <4>2. QED
        BY <3>3, <4>1 DEF QueueArbitrationChange, PendingChange
    <3>4. CASE ExecuteArbitrationChange
      BY <3>1, <3>4 DEF ExecuteArbitrationChange, PendingChange
    <3>5. CASE CancelArbitrationChange
      BY <3>1, <3>5 DEF CancelArbitrationChange
    <3>6. QED
      BY <1>3, <3>2, <3>3, <3>4, <3>5 DEF ChangeArbitration
  <2>3. RecordInv' /\ Funded' /\ RulingInv' /\ CasesApart'
    BY <2>1, QuietStep DEF IInv, RulingInv, CasesApart, UsedFor, Releases
  <2>4. QED
    BY <2>1, <2>2, <2>3 DEF IInv, Typed
<1>4. ASSUME NEW c \in Contracts, NEW d \in DisputeIds, NEW m \in Milestones, Rule(c, d, m)
      PROVE  IInv'
  <2>1. RecordInv' /\ Funded' /\ RulingInv' /\ CasesApart'
    BY <1>4, QuietStep, RulingMade DEF Rule, IInv
  <2>2. rulings' \in [Contracts \X DisputeIds -> Milestones \cup {NoRuling}]
    BY <1>4 DEF Rule, IInv, Typed
  <2>3. QED
    BY <1>4, <2>1, <2>2 DEF Rule, IInv, Typed
<1>5. CASE Tick
  <2>1. RecordInv' /\ Funded' /\ RulingInv' /\ CasesApart'
    BY <1>5, QuietStep DEF Tick, IInv, RulingInv, CasesApart, UsedFor, Releases
  <2>2. now' \in Nat
    BY <1>5 DEF Tick, IInv, Typed
  <2>3. QED
    BY <1>5, <2>1, <2>2 DEF Tick, IInv, Typed
<1>6. CASE UNCHANGED vars
  <2>1. RecordInv' /\ Funded' /\ RulingInv' /\ CasesApart'
    BY <1>6, QuietStep DEF vars, IInv, RulingInv, CasesApart, UsedFor, Releases
  <2>2. QED
    BY <1>6, <2>1 DEF vars, IInv, Typed
<1>7. QED
  BY <1>1, <1>2, <1>3, <1>4, <1>5, <1>6, CreateStep, ReclaimStep DEF Next

\* It holds after initialize.
LEMMA EscrowInit == Init => IInv
<1> SUFFICES ASSUME Init PROVE IInv
  OBVIOUS
<1>1. NoEscrow \in EscrowRecord /\ NoChange \in PendingChange
  BY DEF NoEscrow, EscrowRecord, NoChange, PendingChange
<1>2. Typed
  BY <1>1 DEF Init, Typed
<1>3. RecordOK(NoEscrow, 0, 0, 0)
  <2>1. NoEscrow.total = 0 /\ NoEscrow.released = 0 /\ NoEscrow.lastActivity = 0
    BY DEF NoEscrow
  <2>2. QED
    BY <1>1, <2>1 DEF RecordOK
<1>4. RecordInv
  BY <1>3 DEF Init, RecordInv
<1>5. Funded
  <2>1. \A p \in Proposals : RemainingOf[p] = 0
    BY DEF Init, RemainingOf, Remaining, NoEscrow
  <2>2. QED
    BY <2>1, TotalZero DEF Init, Funded
<1>6. RulingInv
  <2>1. \A p \in Proposals : UsedFor(p) = {}
    BY DEF Init, UsedFor
  <2>2. \A p \in Proposals : arbitrated[p] <= 0
    BY DEF Init
  <2>3. Cardinality({}) = 0
    BY FS_EmptySet
  <2>4. QED
    BY <2>1, <2>2, <2>3 DEF RulingInv
<1>7. CasesApart
  BY DEF Init, CasesApart
<1>8. QED
  BY <1>2, <1>4, <1>5, <1>6, <1>7 DEF IInv

-----------------------------------------------------------------------------
(* The theorems *)

\* The inductive invariant: types, records that account for every payment, the
\* balance of the contract, and rulings that are spent once.
THEOREM EscrowInvariant == Spec => []IInv
BY EscrowInit, EscrowStep, PTL DEF Spec

\* In every reachable state the variables have their types; in particular the
\* balance covers every transfer that a call makes.
THEOREM EscrowTypeCorrect == Spec => []TypeOK
<1>1. IInv => TypeOK
  <2> SUFFICES ASSUME IInv PROVE TypeOK
    OBVIOUS
  <2>1. \A p \in Proposals : RemainingOf[p] \in Nat
    BY LeftType DEF IInv, RecordInv, RemainingOf, Remaining
  <2>2. held \in Nat
    BY <2>1, EscrowAssumption, TotalType DEF IInv, Funded
  <2>3. QED
    BY <2>2 DEF IInv, Typed, TypeOK
<1>2. QED
  BY <1>1, EscrowInvariant, PTL

\* No escrow is ever paid out of another one's money.
THEOREM EscrowFundingCorrect == Spec => []EscrowsAreFunded
<1>1. IInv => EscrowsAreFunded
  BY DEF IInv, Funded, RemainingOf, RecordInv, RecordOK, EscrowsAreFunded
<1>2. QED
  BY <1>1, EscrowInvariant, PTL

\* Equal tranches of at least one unit always leave something for the next one.
LEMMA TranchesFit ==
  ASSUME NEW total \in Nat, NEW n \in Nat \ {0}, total >= n, NEW k \in Nat, k < n
  PROVE  /\ total \div n \in Nat /\ total \div n > 0
         /\ k * (total \div n) + (total \div n) <= total
<1> DEFINE tranche == total \div n
<1>1. tranche \in Nat /\ tranche > 0
  OBVIOUS
<1>2. n * tranche <= total
  OBVIOUS
<1> HIDE DEF tranche
<1>3. PICK rest \in Nat : n = (k + 1) + rest
  <2>1. n - (k + 1) \in Nat /\ n = (k + 1) + (n - (k + 1))
    OBVIOUS
  <2>2. QED
    BY <2>1
<1>4. ((k + 1) + rest) * tranche = (k * tranche + tranche) + rest * tranche
  BY <1>1
<1>5. k * tranche \in Nat /\ rest * tranche \in Nat
  BY <1>1
<1>6. k * tranche + tranche <= total
  BY <1>1, <1>2, <1>3, <1>4, <1>5
<1>7. QED
  BY <1>1, <1>6 DEF tranche

\* So a record that was not reclaimed has a tranche to release until the last.
LEMMA NextFits ==
  ASSUME IInv, NEW p \in Proposals, Exists(p), toTreasury[p] = 0,
         escrows[p].total >= escrows[p].tranches, escrows[p].done < escrows[p].tranches
  PROVE  Payable(p)
<1> DEFINE e == escrows[p]
           tranche == e.total \div e.tranches
<1>1. /\ e.total \in Nat /\ e.released \in Nat /\ e.tranches \in Nat \ {0} /\ e.done \in Nat
      /\ e.done # e.tranches
      /\ toScholar[p] = e.done * tranche /\ toScholar[p] + 0 = e.released
  BY DEF IInv, RecordInv, RecordOK, EscrowRecord, Exists
<1>2. /\ tranche \in Nat /\ tranche > 0 /\ e.done * tranche + tranche <= e.total
  BY <1>1, TranchesFit
<1>3. e.done * tranche \in Nat /\ e.released = e.done * tranche
  BY <1>1, <1>2
<1>4. Remaining(p) = e.total - e.released /\ Remaining(p) >= tranche
  BY <1>1, <1>2, <1>3 DEF Remaining
<1>5. NextTranche(p) > 0 /\ NextTranche(p) <= Remaining(p)
  BY <1>1, <1>2, <1>4 DEF NextTranche
<1>6. QED
  BY <1>5 DEF Payable

\* Whatever total and number of tranches, the tranches are even and the last one
\* makes them add up to the total; and no guard of next_tranche_amount stops them
\* before (create_escrow, release_tranche, release_tranche_via_arbitration).
THEOREM TranchesCorrect == Spec => []TranchesAreEven
<1>1. IInv => TranchesAreEven
  BY NextFits DEF IInv, RecordInv, RecordOK, Exists, TranchesAreEven
<1>2. QED
  BY <1>1, EscrowInvariant, PTL

\* No more disputes were favorable to a proposal than there are milestones of it
\* that some contract released: each dispute id is paired with one of them.
LEMMA DisputesByMilestone ==
  ASSUME IInv, NEW p \in Proposals
  PROVE  /\ IsFiniteSet(FavorableDisputes(p)) /\ IsFiniteSet(ReleasedMilestones(p))
         /\ Cardinality(FavorableDisputes(p)) <= Cardinality(ReleasedMilestones(p))
<1> DEFINE About(d, case) == rulings[<<case[1], d>>] = <<p, case[2]>>
           pair == [d \in FavorableDisputes(p) |->
                      CHOOSE case \in Contracts \X MilestoneIds : About(d, case)]
<1>1. IsFiniteSet(ReleasedMilestones(p))
  <2>1. IsFiniteSet(Contracts \X MilestoneIds)
    BY EscrowAssumption, FS_Product
  <2>2. ReleasedMilestones(p) \subseteq Contracts \X MilestoneIds
    BY DEF ReleasedMilestones
  <2>3. QED
    BY <2>1, <2>2, FS_Subset
<1>2. \A d \in FavorableDisputes(p) :
        pair[d] \in Contracts \X MilestoneIds /\ About(d, pair[d])
  <2> SUFFICES ASSUME NEW d \in FavorableDisputes(p)
               PROVE  pair[d] \in Contracts \X MilestoneIds /\ About(d, pair[d])
    OBVIOUS
  <2>1. PICK c \in Contracts, m \in MilestoneIds : rulings[<<c, d>>] = <<p, m>>
    BY DEF FavorableDisputes, Releases
  <2>2. <<c, m>> \in Contracts \X MilestoneIds /\ About(d, <<c, m>>)
    BY <2>1
  <2>3. QED
    BY <2>2
<1>3. \A d \in FavorableDisputes(p) : d \in DisputeIds
  BY DEF FavorableDisputes
<1> HIDE DEF pair
<1>4. \A d \in FavorableDisputes(p) : pair[d] \in ReleasedMilestones(p)
  BY <1>2, <1>3 DEF ReleasedMilestones
<1>5. ASSUME NEW d \in FavorableDisputes(p), NEW e \in FavorableDisputes(p),
             pair[d] = pair[e]
      PROVE  d = e
  <2>1. pair[d][1] \in Contracts /\ pair[d][2] \in MilestoneIds
    BY <1>2
  <2>2. /\ rulings[<<pair[d][1], d>>] = <<p, pair[d][2]>>
        /\ rulings[<<pair[d][1], e>>] = <<p, pair[d][2]>>
    BY <1>2, <1>5
  <2>3. <<p, pair[d][2]>> # NoRuling
    BY <2>1, EscrowAssumption DEF Milestones
  <2>4. QED
    BY <1>3, <2>1, <2>2, <2>3 DEF IInv, CasesApart
<1>6. pair \in Injection(FavorableDisputes(p), ReleasedMilestones(p))
  <2>1. pair \in [FavorableDisputes(p) -> ReleasedMilestones(p)]
    BY <1>4 DEF pair
  <2>2. QED
    BY <1>5, <2>1 DEF Injection, IsInjective
<1>7. QED
  BY <1>1, <1>6, FS_Injection

\* A dispute id pays for one tranche at most, whichever contracts used the id, and
\* a decided milestone too (release_tranche_via_arbitration).
THEOREM RulingCorrect == Spec => []OneReleasePerDispute
<1>1. IInv => OneReleasePerDispute
  <2> SUFFICES ASSUME IInv, NEW p \in Proposals
               PROVE  /\ arbitrated[p] <= Cardinality(FavorableDisputes(p))
                      /\ arbitrated[p] <= Cardinality(ReleasedMilestones(p))
    BY DEF OneReleasePerDispute
  <2>1. UsedFor(p) \subseteq FavorableDisputes(p)
    BY DEF IInv, Typed, UsedFor, FavorableDisputes
  <2>2. /\ IsFiniteSet(FavorableDisputes(p)) /\ IsFiniteSet(ReleasedMilestones(p))
        /\ Cardinality(FavorableDisputes(p)) <= Cardinality(ReleasedMilestones(p))
    BY DisputesByMilestone
  <2>3. Cardinality(UsedFor(p)) <= Cardinality(FavorableDisputes(p))
        /\ IsFiniteSet(UsedFor(p))
    BY <2>1, <2>2, FS_Subset
  <2>4. /\ Cardinality(UsedFor(p)) \in Nat /\ Cardinality(FavorableDisputes(p)) \in Nat
        /\ Cardinality(ReleasedMilestones(p)) \in Nat
    BY <2>2, <2>3, FS_CardinalityType
  <2>5. arbitrated[p] <= Cardinality(UsedFor(p)) /\ arbitrated[p] \in Nat
    BY DEF IInv, RulingInv, Typed
  <2>6. QED
    BY <2>2, <2>3, <2>4, <2>5
<1>2. QED
  BY <1>1, EscrowInvariant, PTL

\* Only reclaim_inactive pays the treasury.
LEMMA OthersPayNothing ==
  ASSUME Next, ~\E p \in Proposals : ReclaimInactive(p)
  PROVE  toTreasury' = toTreasury
BY DEF Next, Tick, ChangeArbitration, CreateEscrow, ReleaseTranche, ReleaseViaArbitration,
   Released, PayScholar, Rule, paidVars

\* The treasury takes money back only from a scholar who was not paid for the
\* whole inactivity window.
THEOREM ReclaimCorrect == Spec => ReclaimWaits
<1> DEFINE waits(p) == toTreasury'[p] > toTreasury[p] => now >= lastPaid[p] + InactivityWindow
<1>1. IInv /\ [Next]_vars => [\A p \in Proposals : waits(p)]_vars
  <2> SUFFICES ASSUME IInv, Next, NEW p \in Proposals, toTreasury'[p] > toTreasury[p]
               PROVE  now >= lastPaid[p] + InactivityWindow
    OBVIOUS
  <2>1. toTreasury[p] \in Nat
    BY DEF IInv, Typed
  <2>2. PICK q \in Proposals : ReclaimInactive(q)
    BY <2>1, OthersPayNothing
  <2>3. q = p
    <3>1. toTreasury' = [toTreasury EXCEPT ![q] = @ + Remaining(q)]
      BY <2>2 DEF ReclaimInactive
    <3>2. QED
      BY <2>1, <3>1 DEF IInv, Typed
  <2>4. now - escrows[p].lastActivity >= InactivityWindow
    BY <2>2, <2>3 DEF ReclaimInactive
  <2>5. escrows[p].lastActivity \in Nat /\ lastPaid[p] \in Nat /\ now \in Nat
    BY DEF IInv, Typed, EscrowRecord
  <2>6. lastPaid[p] <= escrows[p].lastActivity
    BY DEF IInv, RecordInv, RecordOK
  <2>7. QED
    BY <2>4, <2>5, <2>6, EscrowAssumption
<1>2. QED
  BY <1>1, EscrowInvariant, PTL DEF Spec, ReclaimWaits

-----------------------------------------------------------------------------
(* Refinement *)

\* What the abstract payout has left of a grant is what the record has left.
LEMMA SameLeft ==
  ASSUME IInv, NEW p \in Proposals
  PROVE  Payout!Left(p) = Remaining(p) /\ Remaining(p) \in Nat
<1>1. RecordOK(escrows[p], toScholar[p], toTreasury[p], lastPaid[p])
  BY DEF IInv, RecordInv
<1>2. toScholar[p] + toTreasury[p] = escrows[p].released
  BY <1>1 DEF RecordOK
<1>3. QED
  BY <1>1, <1>2, LeftType DEF Remaining, Payout!Left

\* As long as something is left the treasury has taken nothing.
LEMMA LeftUntouched ==
  ASSUME IInv, NEW p \in Proposals, Remaining(p) > 0
  PROVE  toTreasury[p] = 0
<1>1. RecordOK(escrows[p], toScholar[p], toTreasury[p], lastPaid[p])
  BY DEF IInv, RecordInv
<1>2. escrows[p].total \in Nat /\ escrows[p].released \in Nat /\ toTreasury[p] \in Nat
  BY DEF IInv, Typed, EscrowRecord
<1>3. escrows[p].released # escrows[p].total
  BY <1>2 DEF Remaining
<1>4. ~(toTreasury[p] > 0)
  BY <1>1, <1>3 DEF RecordOK
<1>5. QED
  BY <1>2, <1>4

\* create_escrow funds a grant.
LEMMA CreateFunds ==
  ASSUME IInv, NEW p \in Proposals, NEW amount \in Amounts, NEW tranches \in TrancheCounts,
         CreateEscrow(p, amount, tranches)
  PROVE  Payout!Fund(p)
<1> DEFINE funded == [q \in Proposals |-> escrows[q].total]
<1>1. escrows[p].total = 0
  BY DEF CreateEscrow, Exists, IInv, Typed, EscrowRecord
<1>2. /\ escrows'[p].total = amount
      /\ \A q \in Proposals : q # p => escrows'[q].total = escrows[q].total
  <2>1. [NoEscrow EXCEPT !.total = amount, !.tranches = tranches, !.lastActivity = now].total = amount
    BY DEF NoEscrow
  <2>2. QED
    BY <2>1 DEF CreateEscrow, IInv, Typed
<1>3. funded' = [funded EXCEPT ![p] = amount]
  BY <1>2
<1>4. UNCHANGED <<toScholar, toTreasury>>
  BY DEF CreateEscrow
<1>5. QED
  BY <1>1, <1>3, <1>4 DEF Payout!Fund

\* A tranche is an integer.
LEMMA NextTrancheType ==
  ASSUME IInv, NEW p \in Proposals, Payable(p)
  PROVE  NextTranche(p) \in Int
<1>1. /\ escrows[p].total \in Nat /\ escrows[p].released \in Nat
      /\ escrows[p].tranches \in Nat /\ escrows[p].done \in Nat
  BY DEF IInv, Typed, EscrowRecord
<1>2. escrows[p].done < escrows[p].tranches
  BY DEF Payable
<1>3. escrows[p].total \div escrows[p].tranches \in Int /\ Remaining(p) \in Int
  BY <1>1, <1>2 DEF Remaining
<1>4. QED
  BY <1>3 DEF NextTranche

\* Both ways of releasing pay the scholar of a grant.
LEMMA ReleasePays ==
  ASSUME IInv, NEW p \in Proposals, Released(p)
  PROVE  Payout!Pay(p)
<1> DEFINE funded == [q \in Proposals |-> escrows[q].total]
           amount == NextTranche(p)
<1>1. amount > 0 /\ amount <= Remaining(p)
  BY DEF Released, Payable
<1>2. Remaining(p) \in Nat /\ Payout!Left(p) = Remaining(p)
  BY SameLeft
<1>3. amount \in Int
  BY NextTrancheType DEF Released
<1> HIDE DEF amount
<1>4. Remaining(p) > 0 /\ amount \in 1 .. Payout!Left(p)
  BY <1>1, <1>2, <1>3
<1>5. toTreasury[p] = 0
  BY <1>4, LeftUntouched
<1>6. /\ toScholar' = [toScholar EXCEPT ![p] = @ + amount] /\ UNCHANGED toTreasury
  BY DEF Released, PayScholar, amount
<1>7. funded' = funded
  <2>1. \A q \in Proposals : escrows'[q].total = escrows[q].total
    BY DEF Released, IInv, Typed, EscrowRecord
  <2>2. QED
    BY <2>1
<1>8. QED
  BY <1>4, <1>5, <1>6, <1>7 DEF Payout!Pay

\* reclaim_inactive takes back all that is left of a grant.
LEMMA ReclaimTakes ==
  ASSUME IInv, NEW p \in Proposals, ReclaimInactive(p)
  PROVE  Payout!TakeBack(p)
<1> DEFINE funded == [q \in Proposals |-> escrows[q].total]
<1>1. Remaining(p) \in Nat /\ Payout!Left(p) = Remaining(p) /\ Remaining(p) > 0
  BY SameLeft DEF ReclaimInactive
<1>2. toTreasury[p] = 0
  BY <1>1, LeftUntouched
<1>3. toTreasury' = [toTreasury EXCEPT ![p] = Payout!Left(p)]
  <2>1. toTreasury[p] + Remaining(p) = Remaining(p)
    BY <1>1, <1>2
  <2>2. QED
    BY <1>1, <2>1 DEF ReclaimInactive
<1>4. funded' = funded
  <2>1. \A q \in Proposals : escrows'[q].total = escrows[q].total
    BY DEF ReclaimInactive, IInv, Typed, EscrowRecord
  <2>2. QED
    BY <2>1
<1>5. toScholar' = toScholar
  BY DEF ReclaimInactive
<1>6. QED
  BY <1>1, <1>3, <1>4, <1>5 DEF Payout!TakeBack

\* Every step is a step of the abstract payout, or changes nothing it sees.
LEMMA PayoutStep == IInv /\ [Next]_vars => [Payout!Next]_(Payout!vars)
<1> SUFFICES ASSUME IInv, [Next]_vars PROVE Payout!Next \/ UNCHANGED Payout!vars
  OBVIOUS
<1>1. CASE \E p \in Proposals, d \in DisputeIds : ReleaseViaArbitration(p, d)
  <2>1. PICK p \in Proposals, d \in DisputeIds : ReleaseViaArbitration(p, d)
    BY <1>1
  <2>2. Released(p)
    BY <2>1 DEF ReleaseViaArbitration
  <2>3. QED
    BY <2>2, ReleasePays DEF Payout!Next
<1>2. CASE \E p \in Proposals : ReleaseTranche(p)
  <2>1. PICK p \in Proposals : ReleaseTranche(p)
    BY <1>2
  <2>2. Released(p)
    BY <2>1 DEF ReleaseTranche
  <2>3. QED
    BY <2>2, ReleasePays DEF Payout!Next
<1>3. CASE \E p \in Proposals, amount \in Amounts, tranches \in TrancheCounts :
             CreateEscrow(p, amount, tranches)
  BY <1>3, CreateFunds DEF Payout!Next
<1>4. CASE \E p \in Proposals : ReclaimInactive(p)
  BY <1>4, ReclaimTakes DEF Payout!Next
<1>5. CASE \/ Tick \/ ChangeArbitration \/ UNCHANGED vars
           \/ \E c \in Contracts, d \in DisputeIds, m \in Milestones : Rule(c, d, m)
  BY <1>5 DEF Tick, ChangeArbitration, Rule, vars, paidVars, Payout!vars
<1>6. QED
  BY <1>1, <1>2, <1>3, <1>4, <1>5 DEF Next

\* The escrow implements TranchePayout for every number of grants: late releases
\* of either kind, and repeated reclaims, move no money.
THEOREM PayoutCorrect == Spec => ImplementsPayout
<1>1. Init => Payout!Init
  BY DEF Init, NoEscrow, Payout!Init
<1>2. QED
  BY <1>1, EscrowInvariant, PayoutStep, PTL DEF Spec, ImplementsPayout, Payout!Spec

-----------------------------------------------------------------------------
(* The arbitration contracts *)

RulingsOf(c) == [d \in DisputeIds |-> rulings[<<c, d>>]]

\* Only the environment changes the rulings.
LEMMA OthersRuleNothing ==
  ASSUME [Next]_vars,
         ~\E c \in Contracts, d \in DisputeIds, m \in Milestones : Rule(c, d, m)
  PROVE  rulings' = rulings
BY DEF Next, Tick, ChangeArbitration, CreateEscrow, ReleaseTranche, ReleaseViaArbitration,
   ReclaimInactive, vars

\* A ruling of one contract is a step of it and leaves the others where they are.
LEMMA RuleOfOne ==
  ASSUME Typed, NEW b \in Contracts, NEW d \in DisputeIds, NEW m \in Milestones,
         Rule(b, d, m), NEW c \in Contracts
  PROVE  Arbitration(c)!Next \/ RulingsOf(c)' = RulingsOf(c)
<1>1. ASSUME NEW f \in DisputeIds
      PROVE  rulings'[<<c, f>>] = IF <<c, f>> = <<b, d>> THEN m ELSE rulings[<<c, f>>]
  <2>1. <<c, f>> \in Contracts \X DisputeIds
    OBVIOUS
  <2>2. QED
    BY <2>1 DEF Rule, Typed
<1>2. CASE c # b
  BY <1>1, <1>2 DEF RulingsOf
<1>3. CASE c = b
  <2>1. RulingsOf(c)' = [RulingsOf(c) EXCEPT ![d] = m]
    BY <1>1, <1>3 DEF RulingsOf
  <2>2. Arbitration(c)!Rule(d, m)
    BY <1>3, <2>1 DEF Rule, Arbitration!Rule, RulingsOf
  <2>3. QED
    BY <2>2 DEF Arbitration!Next
<1>4. QED
  BY <1>2, <1>3

\* What the escrow supposes of its arbitration contracts is ReleaseRulings, of
\* each of them and whatever the escrow and its configuration do: the promise
\* that MilestoneArbitration is proved to keep.
THEOREM RulingsSupposed ==
  ASSUME NEW c \in Contracts
  PROVE  Spec => Arbitration(c)!Spec
<1>1. Init => Arbitration(c)!Init
  BY DEF Init, Arbitration!Init
<1>2. IInv /\ [Next]_vars => Arbitration(c)!Next \/ RulingsOf(c)' = RulingsOf(c)
  <2> SUFFICES ASSUME IInv, [Next]_vars
               PROVE  Arbitration(c)!Next \/ RulingsOf(c)' = RulingsOf(c)
    OBVIOUS
  <2>1. CASE \E b \in Contracts, d \in DisputeIds, m \in Milestones : Rule(b, d, m)
    BY <2>1, RuleOfOne DEF IInv
  <2>2. CASE ~\E b \in Contracts, d \in DisputeIds, m \in Milestones : Rule(b, d, m)
    BY <2>2, OthersRuleNothing DEF RulingsOf
  <2>3. QED
    BY <2>1, <2>2
<1>3. IInv /\ [Next]_vars => [Arbitration(c)!Next]_(RulingsOf(c))
  BY <1>2
<1>4. QED
  BY <1>1, <1>3, EscrowInvariant, PTL DEF Spec, Arbitration!Spec, RulingsOf

-----------------------------------------------------------------------------
(* The escrow as the server's reclaim sees it *)

Stages == [p \in Proposals |-> Stage(p)]

\* The numbers a stage is decided on.
LEMMA StageNumbers ==
  ASSUME IInv, NEW p \in Proposals
  PROVE  /\ escrows[p].total \in Nat /\ escrows[p].released \in Nat
         /\ escrows[p].lastActivity \in Nat /\ now \in Nat /\ Remaining(p) \in Nat
<1>1. /\ escrows[p].total \in Nat /\ escrows[p].released \in Nat
      /\ escrows[p].lastActivity \in Nat /\ now \in Nat
  BY DEF IInv, Typed, EscrowRecord
<1>2. QED
  BY <1>1, SameLeft

\* While nothing but one record changes, only its stage moves.
LEMMA StageMoves ==
  ASSUME Typed, NEW p \in Proposals, NEW e, UNCHANGED now,
         escrows' = [escrows EXCEPT ![p] = e]
  PROVE  escrows'[p] = e /\ Watch!Move(p, Stage(p)')
<1>1. escrows'[p] = e /\ \A q \in Proposals \ {p} : escrows'[q] = escrows[q]
  BY DEF Typed
<1>2. \A q \in Proposals \ {p} : Stage(q)' = Stage(q)
  BY <1>1 DEF Stage, Exists, Remaining
<1>3. QED
  BY <1>1, <1>2 DEF Watch!Move

\* create_escrow.
LEMMA CreateWatched ==
  ASSUME IInv, InactivityWindow > 0,
         NEW p \in Proposals, NEW amount \in Amounts, NEW tranches \in TrancheCounts,
         CreateEscrow(p, amount, tranches)
  PROVE  Watch!Fund(p)
<1> DEFINE e == [total |-> amount, released |-> 0, tranches |-> tranches, done |-> 0,
                 lastActivity |-> now]
<1>1. escrows'[p] = e /\ Watch!Move(p, Stage(p)')
  <2>1. escrows' = [escrows EXCEPT ![p] = e] /\ UNCHANGED now
    BY NewRecord DEF CreateEscrow
  <2> HIDE DEF e
  <2>2. QED
    BY <2>1, StageMoves DEF IInv
<1>2. e.total = amount /\ e.released = 0 /\ e.lastActivity = now
  OBVIOUS
<1>3. amount \in Nat /\ amount > 0 /\ now \in Nat /\ InactivityWindow \in Nat /\ now' = now
  BY EscrowAssumption DEF IInv, Typed, CreateEscrow
<1> HIDE DEF e
<1>4. Exists(p)' /\ Remaining(p)' = amount /\ now' - escrows'[p].lastActivity = 0
  BY <1>1, <1>2, <1>3 DEF Exists, Remaining
<1>5. Stage(p)' = "open"
  BY <1>3, <1>4 DEF Stage, Exists, Remaining
<1>6. Stage(p) = "none"
  BY DEF CreateEscrow, Stage, Exists, Remaining
<1>7. QED
  BY <1>1, <1>5, <1>6 DEF Watch!Fund

\* Both kinds of release.
LEMMA ReleaseWatched ==
  ASSUME IInv, InactivityWindow > 0, NEW p \in Proposals, Released(p), UNCHANGED now
  PROVE  Watch!Pay(p)
<1> DEFINE e == [escrows[p] EXCEPT !.released = escrows[p].released + NextTranche(p),
                                   !.done = escrows[p].done + 1, !.lastActivity = now]
<1>1. escrows'[p] = e /\ Watch!Move(p, Stage(p)')
  <2>1. escrows' = [escrows EXCEPT ![p] = e]
    BY DEF Released
  <2> HIDE DEF e
  <2>2. QED
    BY <2>1, StageMoves DEF IInv
<1>2. escrows[p] \in EscrowRecord
  BY DEF IInv, Typed
<1>3. /\ e.total = escrows[p].total /\ e.released = escrows[p].released + NextTranche(p)
      /\ e.lastActivity = now
  BY <1>2 DEF EscrowRecord
<1> HIDE DEF e
<1>4. Exists(p) /\ NextTranche(p) > 0 /\ NextTranche(p) <= Remaining(p)
  BY DEF Released, Payable
<1>5. /\ escrows[p].total \in Nat /\ escrows[p].released \in Nat /\ now \in Nat
      /\ Remaining(p) \in Nat /\ InactivityWindow \in Nat
  BY StageNumbers, EscrowAssumption
<1>6. Remaining(p) # 0
  <2>1. NextTranche(p) \in Int
    BY NextTrancheType DEF Released
  <2>2. QED
    BY <1>4, <1>5, <2>1
<1>7. Stage(p) \in {"open", "overdue"}
  BY <1>4, <1>6 DEF Stage, Exists, Remaining
<1>8. now' - escrows'[p].lastActivity = 0 /\ Exists(p)'
  BY <1>1, <1>3, <1>4, <1>5 DEF Exists
<1>9. Stage(p)' \in {"open", "spent"}
  BY <1>5, <1>8 DEF Stage, Exists, Remaining
<1>10. QED
  BY <1>1, <1>7, <1>9 DEF Watch!Pay

\* reclaim_inactive.
LEMMA ReclaimWatched ==
  ASSUME IInv, NEW p \in Proposals, ReclaimInactive(p)
  PROVE  Watch!Reclaim(p)
<1> DEFINE e == [escrows[p] EXCEPT !.released = escrows[p].total, !.lastActivity = now]
<1>1. escrows'[p] = e /\ Watch!Move(p, Stage(p)')
  <2>1. escrows' = [escrows EXCEPT ![p] = e] /\ UNCHANGED now
    BY DEF ReclaimInactive
  <2> HIDE DEF e
  <2>2. QED
    BY <2>1, StageMoves DEF IInv
<1>2. escrows[p] \in EscrowRecord
  BY DEF IInv, Typed
<1>3. e.total = escrows[p].total /\ e.released = escrows[p].total
  BY <1>2 DEF EscrowRecord
<1> HIDE DEF e
<1>4. Exists(p) /\ Remaining(p) > 0 /\ now - escrows[p].lastActivity >= InactivityWindow
  BY DEF ReclaimInactive
<1>5. escrows[p].total \in Nat /\ Remaining(p) \in Nat
  BY StageNumbers
<1>6. Stage(p) = "overdue"
  BY <1>4, <1>5 DEF Stage, Exists, Remaining
<1>7. Exists(p)' /\ Remaining(p)' = 0
  BY <1>1, <1>3, <1>4, <1>5 DEF Exists, Remaining
<1>8. Stage(p)' = "spent"
  BY <1>7 DEF Stage, Exists, Remaining
<1>9. QED
  BY <1>1, <1>6, <1>8 DEF Watch!Reclaim

\* The clock makes open escrows overdue and does nothing else.
LEMMA TickWatched ==
  ASSUME IInv, Tick
  PROVE  Watch!Age
<1> DEFINE due == {p \in Proposals : Stage(p) = "open" /\ Stage(p)' = "overdue"}
<1>1. ASSUME NEW p \in Proposals
      PROVE  Stage(p)' = Stage(p) \/ p \in due
  <2>1. Exists(p)' = Exists(p) /\ Remaining(p)' = Remaining(p) /\ escrows' = escrows
    BY DEF Tick, Exists, Remaining
  <2>2. now - escrows[p].lastActivity >= InactivityWindow
          => now' - escrows'[p].lastActivity >= InactivityWindow
    BY <2>1, StageNumbers, EscrowAssumption DEF Tick
  <2>3. QED
    BY <2>1, <2>2 DEF Stage, Exists, Remaining
<1>2. due \in SUBSET {g \in Proposals : Stages[g] = "open"}
  BY DEF Stages
<1>3. Stages' = [p \in Proposals |-> IF p \in due THEN "overdue" ELSE Stages[p]]
  BY <1>1 DEF Stages
<1>4. QED
  BY <1>2, <1>3 DEF Watch!Age, Stages

\* The other calls, and the rulings, do not touch records or clock.
LEMMA OthersUnseen ==
  ASSUME UNCHANGED <<now, escrows>>
  PROVE  Stages' = Stages
BY DEF Stages, Stage, Exists, Remaining

\* The escrow keeps what the server's reclaim supposes of it, whenever the
\* configured window is not empty: each release of either kind restarts the
\* window, only an overdue escrow is reclaimed, and a spent one stays spent.
THEOREM WatchCorrect ==
  ASSUME InactivityWindow > 0
  PROVE  Spec => ImplementsWatch
<1>1. Init => Watch!Init
  BY DEF Init, NoEscrow, Watch!Init, Stage, Exists, Remaining
<1>2. IInv /\ [Next]_vars => Watch!Next \/ Stages' = Stages
  <2> SUFFICES ASSUME IInv, [Next]_vars
               PROVE  Watch!Next \/ Stages' = Stages
    OBVIOUS
  <2>1. CASE \E p \in Proposals : ReleaseTranche(p)
    BY <2>1, ReleaseWatched DEF ReleaseTranche, Watch!Next
  <2>2. CASE \E p \in Proposals, d \in DisputeIds : ReleaseViaArbitration(p, d)
    BY <2>2, ReleaseWatched DEF ReleaseViaArbitration, Watch!Next
  <2>3. CASE \E p \in Proposals : ReclaimInactive(p)
    BY <2>3, ReclaimWatched DEF Watch!Next
  <2>4. CASE \E p \in Proposals, amount \in Amounts, tranches \in TrancheCounts :
               CreateEscrow(p, amount, tranches)
    BY <2>4, CreateWatched DEF Watch!Next
  <2>5. CASE Tick
    BY <2>5, TickWatched DEF Watch!Next
  <2>6. CASE \/ ChangeArbitration \/ UNCHANGED vars
             \/ \E c \in Contracts, d \in DisputeIds, m \in Milestones : Rule(c, d, m)
    BY <2>6, OthersUnseen DEF ChangeArbitration, Rule, vars
  <2>7. QED
    BY <2>1, <2>2, <2>3, <2>4, <2>5, <2>6 DEF Next
<1>3. IInv /\ [Next]_vars => [Watch!Next]_Stages
  BY <1>2
<1>4. QED
  BY <1>1, <1>3, EscrowInvariant, PTL DEF Spec, ImplementsWatch, Watch!Spec, Stages
=============================================================================
