------------------------ MODULE EscrowTimeoutsProofs ------------------------
(***************************************************************************)
(* Theorems about EscrowTimeouts, for every number of proposals and of     *)
(* overlapping passes, and every length of the windows.                    *)
(***************************************************************************)
EXTENDS EscrowTimeouts, SequenceTheorems, FiniteSetTheorems, TLAPS

Settled(p) == (escrow[p].funded /\ escrow[p].rest = 0) \/ p \in inflight \cup lost

\* Only a funded escrow has something left.
FundedHasRest == \A p \in Proposals : escrow[p].rest > 0 => escrow[p].funded

\* What a pass knows of the row it is about to write: the reclaim is on its
\* way, or the reminder is out, whatever happened since.
PassesKnow ==
  \A s \in Passes :
    /\ At(s, "booking") => Settled(Current(s).id)
    /\ At(s, "marking") => Current(s).id \in warned \cup overtaken

IInv == TypeOK /\ FundedHasRest /\ PassesKnow /\ BookedIsReclaimed /\ RemindedIsWarned

-----------------------------------------------------------------------------
(* Types *)

Row == [status : {"none", "active", "reclaimed"}, idle : 0..Cap, reminded : BOOLEAN]
Escrow == [funded : BOOLEAN, rest : 0..Tranches, idle : 0..Cap]
Pass == [pc : {"idle", "row", "calling", "booking", "marking"}, todo : Seq(Snapshots)]

\* Days are counted up to the longer of the two windows.
LEMMA CapType == Cap \in Nat /\ 0 \in 0..Cap /\ \A n \in 0..Cap : Older(n) \in 0..Cap
  BY TimeoutAssumption DEF Cap, Older

\* A row of the table as a pass reads it.
LEMMA SnapshotType ==
  ASSUME TypeOK, NEW p \in Proposals
  PROVE  Snapshot(p) \in Snapshots
  BY DEF TypeOK, Snapshot, Snapshots

\* The row a pass is at.
LEMMA CurrentType ==
  ASSUME TypeOK, NEW s \in Passes, ~At(s, "idle")
  PROVE  /\ pass[s].todo \in Seq(Snapshots) /\ pass[s].todo # <<>>
         /\ Current(s) \in Snapshots /\ Current(s).id \in Proposals
<1>1. pass[s].todo \in Seq(Snapshots) /\ pass[s].todo # <<>>
  BY DEF TypeOK
<1>2. Current(s) \in Snapshots
  BY <1>1, HeadTailProperties DEF Current
<1>3. QED
  BY <1>1, <1>2 DEF Snapshots

\* A pass that moves on is at a row, or has none left; the others stay.
LEMMA NextRowType ==
  ASSUME TypeOK, NEW s \in Passes, ~At(s, "idle"), NextRow(s)
  PROVE  /\ pass' \in [Passes -> Pass]
         /\ \A t \in Passes : pass'[t].pc = "idle" <=> pass'[t].todo = <<>>
         /\ pass'[s].pc \in {"idle", "row"}
         /\ \A t \in Passes \ {s} : pass'[t] = pass[t]
<1>1. pass \in [Passes -> Pass] /\ pass[s] \in Pass /\ \A t \in Passes : pass[t].pc = "idle" <=> pass[t].todo = <<>>
  BY DEF TypeOK, Pass, At
<1>2. CASE Len(pass[s].todo) > 1
  <2> DEFINE next == [pass[s] EXCEPT !.pc = "row", !.todo = Tail(@)]
  <2>1. pass' = [pass EXCEPT ![s] = next]
    BY <1>2 DEF NextRow
  <2>2. pass[s].todo \in Seq(Snapshots) /\ pass[s].todo # <<>>
    BY CurrentType
  <2>3. Tail(pass[s].todo) \in Seq(Snapshots) /\ Len(Tail(pass[s].todo)) = Len(pass[s].todo) - 1
    BY <2>2, HeadTailProperties
  <2>4. Tail(pass[s].todo) # <<>>
    <3>1. Len(pass[s].todo) \in Nat /\ Len(<<>>) = 0
      BY <2>2, LenProperties, EmptySeq
    <3>2. \A n \in Nat : n > 1 => n - 1 # 0
      OBVIOUS
    <3>3. QED
      BY <1>2, <2>3, <3>1, <3>2
  <2>5. next \in Pass /\ next.pc = "row" /\ next.todo = Tail(pass[s].todo)
    BY <1>1, <2>3 DEF Pass
  <2> HIDE DEF next
  <2>6. QED
    BY <1>1, <2>1, <2>4, <2>5
<1>3. CASE ~(Len(pass[s].todo) > 1)
  <2> DEFINE next == [pc |-> "idle", todo |-> <<>>]
  <2>1. pass' = [pass EXCEPT ![s] = next]
    BY <1>3 DEF NextRow
  <2>2. next \in Pass /\ next.pc = "idle" /\ next.todo = <<>>
    BY EmptySeq DEF Pass
  <2> HIDE DEF next
  <2>3. QED
    BY <1>1, <2>1, <2>2
<1>4. QED
  BY <1>2, <1>3

\* A pass that goes on with the same row.
LEMMA GotoType ==
  ASSUME TypeOK, NEW s \in Passes, ~At(s, "idle"),
         NEW pc \in {"row", "calling", "booking", "marking"}, Goto(s, pc)
  PROVE  /\ pass' \in [Passes -> Pass]
         /\ \A t \in Passes : pass'[t].pc = "idle" <=> pass'[t].todo = <<>>
         /\ pass'[s].pc = pc /\ pass'[s].todo = pass[s].todo
         /\ \A t \in Passes \ {s} : pass'[t] = pass[t]
<1>1. pass \in [Passes -> Pass] /\ pass[s] \in Pass /\ \A t \in Passes : pass[t].pc = "idle" <=> pass[t].todo = <<>>
  BY DEF TypeOK, Pass, At
<1> DEFINE next == [pass[s] EXCEPT !.pc = pc]
<1>2. pass' = [pass EXCEPT ![s] = next]
  BY DEF Goto
<1>3. next \in Pass /\ next.pc = pc /\ next.todo = pass[s].todo
  BY <1>1 DEF Pass
<1>4. pass[s].todo # <<>>
  BY CurrentType
<1> HIDE DEF next
<1>5. QED
  BY <1>1, <1>2, <1>3, <1>4

-----------------------------------------------------------------------------
(* Every variable keeps its type *)

\* The actions that write the table, the contract, and the local state of a pass.
WritesRow ==
  \/ Day
  \/ \E p \in Proposals : Track(p) \/ MarkActivity(p)
  \/ \E s \in Passes : BookReclaim(s) \/ MarkReminded(s)

WritesEscrow == Day \/ \E p \in Proposals : Fund(p) \/ Release(p) \/ Execute(p)

Finishes(s) ==
  LeaveRow(s) \/ ReclaimSuspended(s) \/ CallRefused(s) \/ CallFails(s) \/ BookReclaim(s)
    \/ MarkReminded(s) \/ RowFails(s)

\* Which variables the other actions leave alone.
LEMMA Frame ==
  ASSUME [Next]_vars
  PROVE  /\ WritesRow \/ UNCHANGED row
         /\ WritesEscrow \/ UNCHANGED escrow
         /\ \/ Day \/ Restart \/ UNCHANGED pass
            \/ \E s \in Passes : StartPass(s) \/ Finishes(s) \/ Reclaim(s) \/ CallAccepted(s) \/ Warn(s)
<1>1. CASE UNCHANGED vars
  BY <1>1 DEF vars, rowVars
<1>2. ASSUME NEW p \in Proposals, Track(p) \/ MarkActivity(p)
      PROVE  WritesRow /\ UNCHANGED <<escrow, pass>>
  BY <1>2 DEF WritesRow, Track, MarkActivity
<1>3. ASSUME NEW p \in Proposals, Fund(p) \/ Release(p) \/ Execute(p)
      PROVE  WritesEscrow /\ UNCHANGED <<row, pass>>
  BY <1>3 DEF WritesEscrow, Fund, Release, Execute, rowVars
<1>4. ASSUME NEW p \in Proposals, Expire(p)
      PROVE  UNCHANGED <<row, escrow, pass>>
  BY <1>4 DEF Expire, rowVars
<1>5. ASSUME NEW s \in Passes, BookReclaim(s) \/ MarkReminded(s)
      PROVE  WritesRow /\ Finishes(s) /\ UNCHANGED escrow
  BY <1>5 DEF WritesRow, Finishes, BookReclaim, MarkReminded
<1>6. ASSUME NEW s \in Passes, LeaveRow(s) \/ ReclaimSuspended(s) \/ CallRefused(s) \/ CallFails(s) \/ RowFails(s)
      PROVE  Finishes(s) /\ UNCHANGED <<row, escrow>>
  BY <1>6 DEF Finishes, LeaveRow, ReclaimSuspended, CallRefused, CallFails, RowFails, rowVars
<1>7. ASSUME NEW s \in Passes, StartPass(s) \/ Reclaim(s) \/ CallAccepted(s) \/ Warn(s)
      PROVE  UNCHANGED <<row, escrow>>
  BY <1>7 DEF StartPass, Reclaim, CallAccepted, Warn, rowVars
<1>8. ASSUME NEW ok \in BOOLEAN, OtherCall(ok)
      PROVE  UNCHANGED <<row, escrow, pass>>
  BY <1>8 DEF OtherCall, rowVars
<1>9. ASSUME Elapse
      PROVE  UNCHANGED <<row, escrow, pass>>
  BY <1>9 DEF Elapse, rowVars
<1>10. ASSUME Restart
       PROVE  UNCHANGED <<row, escrow>>
  BY <1>10 DEF Restart, rowVars
<1>11. ASSUME Day
       PROVE  WritesRow /\ WritesEscrow
  BY <1>11 DEF WritesRow, WritesEscrow
<1>12. QED
  BY <1>1, <1>2, <1>3, <1>4, <1>5, <1>6, <1>7, <1>8, <1>9, <1>10, <1>11 DEF Next, Proceed

\* No pass is idle that finishes a row.
LEMMA FinishesRow ==
  ASSUME NEW s \in Passes, Finishes(s)
  PROVE  ~At(s, "idle") /\ NextRow(s)
  BY DEF Finishes, LeaveRow, ReclaimSuspended, CallRefused, CallFails, BookReclaim, MarkReminded, RowFails, At

\* A row that changes is still a row.
LEMMA RowTyped ==
  ASSUME TypeOK, [Next]_vars
  PROVE  row' \in [Proposals -> Row]
<1>0. row \in [Proposals -> Row]
  BY DEF TypeOK, Row
<1>1. ASSUME NEW p \in Proposals, Track(p)
      PROVE  row' \in [Proposals -> Row]
  BY <1>0, <1>1 DEF Track, Row
<1>2. ASSUME NEW p \in Proposals, MarkActivity(p)
      PROVE  row' \in [Proposals -> Row]
  BY <1>0, <1>2, CapType DEF MarkActivity, Row
<1>3. ASSUME Day
      PROVE  row' \in [Proposals -> Row]
  <2>1. \A p \in Proposals : [row[p] EXCEPT !.idle = Older(@)] \in Row
    BY <1>0, CapType DEF Row
  <2>2. QED
    BY <1>0, <1>3, <2>1 DEF Day
<1>4. ASSUME NEW s \in Passes, BookReclaim(s)
      PROVE  row' \in [Proposals -> Row]
  BY <1>0, <1>4 DEF BookReclaim, Row
<1>5. ASSUME NEW s \in Passes, MarkReminded(s)
      PROVE  row' \in [Proposals -> Row]
  BY <1>0, <1>5 DEF MarkReminded, Row
<1>6. QED
  BY <1>0, <1>1, <1>2, <1>3, <1>4, <1>5, Frame DEF WritesRow

\* So is an escrow,
LEMMA EscrowTyped ==
  ASSUME TypeOK, FundedHasRest, [Next]_vars
  PROVE  escrow' \in [Proposals -> Escrow] /\ FundedHasRest'
<1>0. escrow \in [Proposals -> Escrow] /\ Tranches \in Nat \ {0}
  BY TimeoutAssumption DEF TypeOK, Escrow
<1>1. ASSUME NEW p \in Proposals, Fund(p)
      PROVE  escrow' \in [Proposals -> Escrow] /\ FundedHasRest'
  <2> DEFINE funded == [funded |-> TRUE, rest |-> Tranches, idle |-> 0]
  <2>1. escrow' = [escrow EXCEPT ![p] = funded]
    BY <1>1 DEF Fund
  <2>2. funded \in Escrow /\ funded.funded
    BY <1>0, CapType DEF Escrow
  <2> HIDE DEF funded
  <2>3. QED
    BY <1>0, <2>1, <2>2 DEF FundedHasRest
<1>2. ASSUME NEW p \in Proposals, Release(p)
      PROVE  escrow' \in [Proposals -> Escrow] /\ FundedHasRest'
  <2> DEFINE released == [escrow[p] EXCEPT !.rest = @ - 1, !.idle = 0]
  <2>1. escrow' = [escrow EXCEPT ![p] = released] /\ escrow[p].rest > 0
    BY <1>2 DEF Release
  <2>2. escrow[p] \in Escrow /\ escrow[p].rest \in 0..Tranches
    BY <1>0 DEF Escrow
  <2>3. escrow[p].rest - 1 \in 0..Tranches
    BY <1>0, <2>1, <2>2
  <2>4. released \in Escrow /\ released.funded = escrow[p].funded
    BY <2>2, <2>3, CapType DEF Escrow
  <2> HIDE DEF released
  <2>5. QED
    BY <1>0, <2>1, <2>4 DEF FundedHasRest
<1>3. ASSUME NEW p \in Proposals, Execute(p)
      PROVE  escrow' \in [Proposals -> Escrow] /\ FundedHasRest'
  <2> DEFINE spent == [escrow[p] EXCEPT !.rest = 0, !.idle = 0]
  <2>1. escrow' = [escrow EXCEPT ![p] = spent]
    BY <1>3 DEF Execute
  <2>2. escrow[p] \in Escrow /\ 0 \in 0..Tranches
    BY <1>0
  <2>3. spent \in Escrow /\ spent.rest = 0
    BY <2>2, CapType DEF Escrow
  <2> HIDE DEF spent
  <2>4. QED
    BY <1>0, <2>1, <2>3 DEF FundedHasRest
<1>4. ASSUME Day
      PROVE  escrow' \in [Proposals -> Escrow] /\ FundedHasRest'
  <2>1. \A p \in Proposals : [escrow[p] EXCEPT !.idle = Older(@)] \in Escrow
    BY <1>0, CapType DEF Escrow
  <2>2. \A p \in Proposals : /\ escrow'[p].rest = escrow[p].rest
                             /\ escrow'[p].funded = escrow[p].funded
    BY <1>0, <1>4 DEF Day, Escrow
  <2>3. QED
    BY <1>0, <1>4, <2>1, <2>2 DEF Day, FundedHasRest
<1>5. ASSUME UNCHANGED escrow
      PROVE  escrow' \in [Proposals -> Escrow] /\ FundedHasRest'
  BY <1>0, <1>5 DEF FundedHasRest
<1>6. QED
  BY <1>1, <1>2, <1>3, <1>4, <1>5, Frame DEF WritesEscrow

\* The rows a pass holds grow older and stay the same rows.
LEMMA AgedType ==
  ASSUME NEW todo \in Seq(Snapshots)
  PROVE  /\ Aged(todo) \in Seq(Snapshots)
         /\ Aged(todo) = <<>> <=> todo = <<>>
         /\ todo # <<>> => Head(Aged(todo)).id = Head(todo).id
         /\ DOMAIN Aged(todo) = DOMAIN todo
         /\ \A i \in DOMAIN todo : Aged(todo)[i].id = todo[i].id
<1> DEFINE n == Len(todo)
<1>1. n \in Nat /\ todo \in [1..n -> Snapshots] /\ DOMAIN todo = 1..n
  BY LenProperties
<1>2. \A i \in 1..n : [todo[i] EXCEPT !.idle = Older(@)] \in Snapshots
  BY <1>1, CapType DEF Snapshots
<1>3. \A i \in 1..n : [todo[i] EXCEPT !.idle = Older(@)].id = todo[i].id
  BY <1>1 DEF Snapshots
<1>4. Aged(todo) \in [1..n -> Snapshots] /\ DOMAIN Aged(todo) = 1..n
  BY <1>1, <1>2 DEF Aged
<1>5. \A i \in 1..n : Aged(todo)[i].id = todo[i].id
  BY <1>1, <1>3 DEF Aged
<1>6. Aged(todo) \in Seq(Snapshots) /\ Len(Aged(todo)) = n
  BY <1>1, <1>4
<1>7. Aged(todo) = <<>> <=> todo = <<>>
  BY <1>1, <1>6, EmptySeq
<1>8. ASSUME todo # <<>>
      PROVE  Head(Aged(todo)).id = Head(todo).id
  <2>1. n # 0
    BY <1>1, <1>8, EmptySeq
  <2>2. 1 \in 1..n
    BY <1>1, <2>1
  <2>3. Head(Aged(todo)) = Aged(todo)[1] /\ Head(todo) = todo[1]
    OBVIOUS
  <2>4. QED
    BY <1>5, <2>2, <2>3
<1>9. QED
  BY <1>1, <1>4, <1>5, <1>6, <1>7, <1>8

\* the local state of a pass,
LEMMA PassTyped ==
  ASSUME TypeOK, [Next]_vars
  PROVE  /\ pass' \in [Passes -> Pass]
         /\ \A s \in Passes : pass'[s].pc = "idle" <=> pass'[s].todo = <<>>
<1> DEFINE Typed ==
      /\ pass' \in [Passes -> Pass]
      /\ \A s \in Passes : pass'[s].pc = "idle" <=> pass'[s].todo = <<>>
<1>0. pass \in [Passes -> Pass] /\ \A s \in Passes : pass[s].pc = "idle" <=> pass[s].todo = <<>>
  BY DEF TypeOK, Pass, At
<1>1. ASSUME Day
      PROVE  Typed
  <2> DEFINE aged(s) == [pass[s] EXCEPT !.todo = Aged(@)]
  <2>1. pass' = [s \in Passes |-> aged(s)]
    BY <1>1 DEF Day
  <2>2. \A s \in Passes : /\ aged(s) \in Pass /\ aged(s).pc = pass[s].pc
                          /\ aged(s).todo = Aged(pass[s].todo)
    BY <1>0, AgedType DEF Pass
  <2>3. \A s \in Passes : aged(s).todo = <<>> <=> pass[s].todo = <<>>
    BY <1>0, <2>2, AgedType DEF Pass
  <2> HIDE DEF aged
  <2>4. QED
    BY <1>0, <2>1, <2>2, <2>3
<1>2. ASSUME Restart
      PROVE  Typed
  <2> DEFINE none == [pc |-> "idle", todo |-> <<>>]
  <2>1. pass' = [s \in Passes |-> none]
    BY <1>2 DEF Restart
  <2>2. none \in Pass /\ none.pc = "idle" /\ none.todo = <<>>
    BY EmptySeq DEF Pass
  <2> HIDE DEF none
  <2>3. QED
    BY <2>1, <2>2
<1>3. ASSUME NEW s \in Passes, StartPass(s)
      PROVE  Typed
  <2>1. PICK rows \in Oldest(Active) :
          pass' = [pass EXCEPT ![s] = [pc |-> "row", todo |-> [i \in DOMAIN rows |-> Snapshot(rows[i])]]]
    BY <1>3 DEF StartPass
  <2> DEFINE n == Cardinality(Active)
             todo == [i \in DOMAIN rows |-> Snapshot(rows[i])]
             begun == [pc |-> "row", todo |-> todo]
  <2>2. IsFiniteSet(Active)
    BY TimeoutAssumption, FS_Subset DEF Active
  <2>3. n \in Nat /\ n # 0
    BY <1>3, <2>2, FS_CardinalityType, FS_EmptySet DEF StartPass
  <2>4. rows \in [1..n -> Active]
    BY DEF Oldest
  <2>5. \A i \in 1..n : Snapshot(rows[i]) \in Snapshots
    BY <2>4, SnapshotType DEF Active
  <2>6. todo \in [1..n -> Snapshots]
    BY <2>4, <2>5
  <2> HIDE DEF n
  <2>7. todo \in Seq(Snapshots) /\ Len(todo) = n
    BY <2>3, <2>6
  <2>8. todo # <<>>
    BY <2>3, <2>7, EmptySeq
  <2> HIDE DEF todo
  <2>9. begun \in Pass /\ begun.pc = "row" /\ begun.todo = todo
    BY <2>7 DEF Pass
  <2>10. pass' = [pass EXCEPT ![s] = begun]
    BY <2>1 DEF todo
  <2> HIDE DEF begun
  <2>11. QED
    BY <1>0, <2>8, <2>9, <2>10
<1>4. ASSUME NEW s \in Passes, Finishes(s)
      PROVE  Typed
  BY <1>4, FinishesRow, NextRowType
<1>5. ASSUME NEW s \in Passes, Reclaim(s)
      PROVE  Typed
  <2>1. ~At(s, "idle") /\ Goto(s, "calling")
    BY <1>5 DEF Reclaim, At
  <2>2. QED
    BY <2>1, GotoType
<1>6. ASSUME NEW s \in Passes, CallAccepted(s)
      PROVE  Typed
  <2>1. ~At(s, "idle") /\ Goto(s, "booking")
    BY <1>6 DEF CallAccepted, At
  <2>2. QED
    BY <2>1, GotoType
<1>7. ASSUME NEW s \in Passes, Warn(s)
      PROVE  Typed
  <2>1. ~At(s, "idle") /\ Goto(s, "marking")
    BY <1>7 DEF Warn, At
  <2>2. QED
    BY <2>1, GotoType
<1>8. ASSUME UNCHANGED pass
      PROVE  Typed
  BY <1>0, <1>8
<1>9. QED
  BY <1>1, <1>2, <1>3, <1>4, <1>5, <1>6, <1>7, <1>8, Frame

Breakers == [state : {"CLOSED", "OPEN", "RESET", "HALF_OPEN"}, fails : 0..Threshold]
BreakerOK(b) == b \in Breakers /\ (b.state = "CLOSED" => b.fails < Threshold)

\* Whatever comes back, the breaker is closed only below the threshold.
LEMMA BreakerType ==
  ASSUME TypeOK
  PROVE  /\ BreakerOK(breaker) /\ BreakerOK(Closed) /\ BreakerOK(OnSuccess) /\ BreakerOK(OnFailure)
         /\ \A state \in {"OPEN", "RESET", "HALF_OPEN"} : BreakerOK(Breaker(state))
<1>1. Threshold \in Nat \ {0} /\ 0 \in 0..Threshold /\ Threshold \in 0..Threshold /\ 0 < Threshold
  BY TimeoutAssumption
<1>2. BreakerOK(breaker)
  BY DEF TypeOK, BreakerOK, Breakers
<1>3. BreakerOK(Closed)
  BY <1>1 DEF Closed, BreakerOK, Breakers
<1>4. \A state \in {"OPEN", "RESET", "HALF_OPEN"} : BreakerOK(Breaker(state))
  BY <1>1 DEF Breaker, BreakerOK, Breakers
<1>5. BreakerOK(OnSuccess)
  BY <1>2, <1>3 DEF OnSuccess
<1>6. ASSUME breaker.state = "CLOSED", breaker.fails + 1 < Threshold
      PROVE  BreakerOK([breaker EXCEPT !.fails = @ + 1])
  <2>1. breaker.fails \in Nat /\ breaker.fails + 1 \in 0..Threshold
    BY <1>1, <1>2, <1>6 DEF BreakerOK, Breakers
  <2>2. QED
    BY <1>2, <1>6, <2>1 DEF BreakerOK, Breakers
<1>7. BreakerOK(OnFailure)
  BY <1>2, <1>4, <1>6 DEF OnFailure
<1>8. QED
  BY <1>2, <1>3, <1>4, <1>5, <1>7

\* the breaker,
LEMMA BreakerTyped ==
  ASSUME TypeOK, [Next]_vars
  PROVE  BreakerOK(breaker')
<1>1. breaker' \in {breaker, Closed, OnSuccess, OnFailure, Breaker("RESET"), Breaker("HALF_OPEN")}
  <2>1. CASE UNCHANGED vars
    BY <2>1 DEF vars
  <2>2. ASSUME NEW p \in Proposals, Track(p) \/ MarkActivity(p) \/ Fund(p) \/ Release(p) \/ Execute(p) \/ Expire(p)
        PROVE  UNCHANGED breaker
    BY <2>2 DEF Track, MarkActivity, Fund, Release, Execute, Expire
  <2>3. ASSUME NEW s \in Passes, StartPass(s) \/ LeaveRow(s) \/ ReclaimSuspended(s) \/ BookReclaim(s) \/ Warn(s)
                                   \/ MarkReminded(s) \/ RowFails(s)
        PROVE  UNCHANGED breaker
    BY <2>3 DEF StartPass, LeaveRow, ReclaimSuspended, BookReclaim, Warn, MarkReminded, RowFails
  <2>4. ASSUME NEW s \in Passes, Reclaim(s)
        PROVE  breaker' \in {breaker, Breaker("HALF_OPEN")}
    BY <2>4 DEF Reclaim, Admit
  <2>5. ASSUME NEW s \in Passes, CallAccepted(s) \/ CallRefused(s) \/ CallFails(s)
        PROVE  breaker' \in {OnSuccess, OnFailure}
    BY <2>5 DEF CallAccepted, CallRefused, CallFails
  <2>6. ASSUME NEW ok \in BOOLEAN, OtherCall(ok)
        PROVE  breaker' \in {OnSuccess, OnFailure}
    BY <2>6 DEF OtherCall
  <2>7. ASSUME Day \/ Elapse \/ Restart
        PROVE  breaker' \in {breaker, Breaker("RESET"), Closed}
    BY <2>7 DEF Day, Elapse, Restart
  <2>8. QED
    BY <2>1, <2>2, <2>3, <2>4, <2>5, <2>6, <2>7 DEF Next, Proceed
<1>2. QED
  BY <1>1, BreakerType

\* and what is in flight or remembered.
LEMMA SetsTyped ==
  ASSUME TypeOK, [Next]_vars
  PROVE  /\ older' \subseteq Proposals \X Proposals
         /\ inflight' \subseteq Proposals /\ warned' \subseteq Proposals
         /\ overtaken' \subseteq Proposals /\ lost' \subseteq Proposals
         /\ failures' \in Nat
<1> USE DEF historyVars, rowVars
<1>0. /\ older \subseteq Proposals \X Proposals
      /\ inflight \subseteq Proposals /\ warned \subseteq Proposals
      /\ overtaken \subseteq Proposals /\ lost \subseteq Proposals
      /\ failures \in Nat /\ failures + 1 \in Nat
  BY DEF TypeOK
<1>1. \A p \in Proposals : Newest(p) \subseteq Proposals \X Proposals
  BY <1>0 DEF Newest
<1>2. CASE UNCHANGED vars
  BY <1>0, <1>2 DEF vars
<1>3. ASSUME NEW p \in Proposals, Track(p) \/ MarkActivity(p) \/ Fund(p) \/ Release(p)
      PROVE  /\ UNCHANGED <<inflight, lost, failures>> /\ older' \in {older, Newest(p)}
             /\ warned' \subseteq warned /\ overtaken' \subseteq overtaken \cup {p}
  BY <1>3 DEF Track, MarkActivity, Fund, Release
<1>4. ASSUME NEW p \in Proposals, Execute(p) \/ Expire(p)
      PROVE  /\ UNCHANGED <<older, warned, overtaken, failures>>
             /\ inflight' \subseteq inflight /\ lost' \subseteq lost \cup inflight
  BY <1>4 DEF Execute, Expire
<1>5. ASSUME NEW s \in Passes, StartPass(s) \/ LeaveRow(s) \/ Reclaim(s) \/ ReclaimSuspended(s) \/ CallRefused(s)
                                 \/ BookReclaim(s) \/ MarkReminded(s)
      PROVE  UNCHANGED <<older, inflight, warned, overtaken, lost, failures>>
  BY <1>5 DEF StartPass, LeaveRow, Reclaim, ReclaimSuspended, CallRefused, BookReclaim, MarkReminded
<1>6. ASSUME NEW s \in Passes, RowFails(s)
      PROVE  UNCHANGED <<older, inflight, warned, overtaken, lost>> /\ failures' = failures + 1
  BY <1>6 DEF RowFails
<1>7. ASSUME NEW s \in Passes, CallAccepted(s) \/ CallFails(s)
      PROVE  /\ UNCHANGED <<older, warned, overtaken, lost>> /\ failures' \in {failures, failures + 1}
             /\ inflight' \subseteq inflight \cup {Current(s).id} /\ Current(s).id \in Proposals
  <2>1. Current(s).id \in Proposals
    BY <1>7, CurrentType DEF CallAccepted, CallFails, At
  <2>2. QED
    BY <1>7, <2>1 DEF CallAccepted, CallFails
<1>8. ASSUME NEW s \in Passes, Warn(s)
      PROVE  /\ UNCHANGED <<older, inflight, overtaken, lost, failures>>
             /\ warned' = warned \cup {Current(s).id} /\ Current(s).id \in Proposals
  <2>1. Current(s).id \in Proposals
    BY <1>8, CurrentType DEF Warn, At
  <2>2. QED
    BY <1>8, <2>1 DEF Warn
<1>9. ASSUME NEW ok \in BOOLEAN, OtherCall(ok)
      PROVE  UNCHANGED <<older, inflight, warned, overtaken, lost>> /\ failures' \in {failures, failures + 1}
  BY <1>9 DEF OtherCall
<1>10. ASSUME Day \/ Elapse \/ Restart
       PROVE  UNCHANGED <<older, inflight, warned, overtaken, lost>> /\ failures' \in {failures, failures + 1}
  BY <1>10 DEF Day, Elapse, Restart
<1>11. QED
  BY <1>0, <1>1, <1>2, <1>3, <1>4, <1>5, <1>6, <1>7, <1>8, <1>9, <1>10 DEF Next, Proceed

\* The type invariant from its parts.
LEMMA TypesStay ==
  ASSUME TypeOK, FundedHasRest, [Next]_vars
  PROVE  TypeOK' /\ FundedHasRest'
<1>1. row' \in [Proposals -> Row] /\ escrow' \in [Proposals -> Escrow] /\ FundedHasRest'
  BY RowTyped, EscrowTyped
<1>2. pass' \in [Passes -> Pass] /\ \A s \in Passes : pass'[s].pc = "idle" <=> pass'[s].todo = <<>>
  BY PassTyped
<1>3. BreakerOK(breaker')
  BY BreakerTyped
<1>4. QED
  BY <1>1, <1>2, <1>3, SetsTyped DEF TypeOK, Row, Escrow, Pass, BreakerOK, Breakers, At

-----------------------------------------------------------------------------
(* What the passes know stays true *)

\* A reclaim that is on its way stays settled: it executes, or it is lost.
LEMMA SettledStays ==
  ASSUME TypeOK, FundedHasRest, [Next]_vars, NEW p \in Proposals, Settled(p)
  PROVE  Settled(p)'
<1>0. escrow \in [Proposals -> Escrow] /\ (escrow[p].rest > 0 => escrow[p].funded)
  BY DEF TypeOK, Escrow, FundedHasRest
<1>1. CASE UNCHANGED <<escrow, inflight, lost>>
  BY <1>1 DEF Settled
<1>2. ASSUME NEW q \in Proposals, Fund(q)
      PROVE  Settled(p)'
  <2>1. UNCHANGED <<inflight, lost>> /\ ~escrow[q].funded /\ (q # p => escrow'[p] = escrow[p])
    BY <1>0, <1>2 DEF Fund, historyVars
  <2>2. QED
    BY <2>1 DEF Settled
<1>3. ASSUME NEW q \in Proposals, Release(q)
      PROVE  Settled(p)'
  <2>1. UNCHANGED <<inflight, lost>> /\ escrow[q].rest > 0 /\ (q # p => escrow'[p] = escrow[p])
    BY <1>0, <1>3 DEF Release, historyVars
  <2>2. QED
    BY <1>0, <2>1 DEF Settled
<1>4. ASSUME NEW q \in Proposals, Execute(q)
      PROVE  Settled(p)'
  <2>1. CASE q = p
    <3>1. escrow'[p].rest = 0 /\ escrow'[p].funded = escrow[p].funded /\ escrow[p].rest > 0
      BY <1>0, <1>4, <2>1 DEF Execute, CanReclaim, Escrow
    <3>2. QED
      BY <1>0, <3>1 DEF Settled
  <2>2. CASE q # p
    <3>1. escrow'[p] = escrow[p] /\ lost' = lost \cup (inflight \ {q})
      BY <1>0, <1>4, <2>2 DEF Execute
    <3>2. QED
      BY <2>2, <3>1 DEF Settled
  <2>3. QED
    BY <2>1, <2>2
<1>5. ASSUME NEW q \in Proposals, Expire(q)
      PROVE  Settled(p)'
  BY <1>5 DEF Expire, Settled
<1>6. CASE Day
  <2>1. UNCHANGED <<inflight, lost>> /\ escrow'[p].rest = escrow[p].rest /\ escrow'[p].funded = escrow[p].funded
    BY <1>0, <1>6 DEF Day, historyVars, Escrow
  <2>2. QED
    BY <2>1 DEF Settled
<1>7. ASSUME NEW s \in Passes, CallAccepted(s) \/ CallFails(s)
      PROVE  Settled(p)'
  <2>1. UNCHANGED <<escrow, lost>> /\ inflight \subseteq inflight'
    BY <1>7 DEF CallAccepted, CallFails, historyVars
  <2>2. QED
    BY <2>1 DEF Settled
<1>8. ASSUME NEW q \in Proposals, Track(q) \/ MarkActivity(q)
      PROVE  UNCHANGED <<escrow, inflight, lost>>
  BY <1>8 DEF Track, MarkActivity, historyVars
<1>9. ASSUME NEW s \in Passes, StartPass(s) \/ LeaveRow(s) \/ Reclaim(s) \/ ReclaimSuspended(s) \/ CallRefused(s)
                                 \/ BookReclaim(s) \/ Warn(s) \/ MarkReminded(s) \/ RowFails(s)
      PROVE  UNCHANGED <<escrow, inflight, lost>>
  BY <1>9 DEF StartPass, LeaveRow, Reclaim, ReclaimSuspended, CallRefused, BookReclaim, Warn, MarkReminded, RowFails,
              historyVars
<1>10. ASSUME NEW ok \in BOOLEAN, OtherCall(ok)
       PROVE  UNCHANGED <<escrow, inflight, lost>>
  BY <1>10 DEF OtherCall, historyVars
<1>11. ASSUME Elapse \/ Restart
       PROVE  UNCHANGED <<escrow, inflight, lost>>
  BY <1>11 DEF Elapse, Restart, historyVars
<1>12. ASSUME UNCHANGED vars
       PROVE  UNCHANGED <<escrow, inflight, lost>>
  BY <1>12 DEF vars, historyVars
<1>13. QED
  BY <1>1, <1>2, <1>3, <1>4, <1>5, <1>6, <1>7, <1>8, <1>9, <1>10, <1>11, <1>12 DEF Next, Proceed

\* Only activity takes a warning back, and a pass in the middle of the row is
\* then overtaken.
LEMMA WarningStays ==
  ASSUME TypeOK, [Next]_vars, NEW p \in Proposals, p \in warned \cup overtaken,
         MarkActivity(p) => \E s \in Passes : Holds(s, p)
  PROVE  p \in (warned \cup overtaken)'
<1> USE DEF historyVars
<1>1. ASSUME NEW q \in Proposals, MarkActivity(q)
      PROVE  p \in (warned \cup overtaken)'
  BY <1>1 DEF MarkActivity
<1>2. ASSUME NEW q \in Proposals, Track(q) \/ Fund(q) \/ Release(q) \/ Execute(q) \/ Expire(q)
      PROVE  UNCHANGED <<warned, overtaken>>
  BY <1>2 DEF Track, Fund, Release, Execute, Expire
<1>3. ASSUME NEW s \in Passes, StartPass(s) \/ LeaveRow(s) \/ Reclaim(s) \/ ReclaimSuspended(s) \/ CallAccepted(s)
                                 \/ CallRefused(s) \/ CallFails(s) \/ BookReclaim(s) \/ MarkReminded(s) \/ RowFails(s)
      PROVE  UNCHANGED <<warned, overtaken>>
  BY <1>3 DEF StartPass, LeaveRow, Reclaim, ReclaimSuspended, CallAccepted, CallRefused, CallFails, BookReclaim,
              MarkReminded, RowFails
<1>4. ASSUME NEW s \in Passes, Warn(s)
      PROVE  warned \subseteq warned' /\ UNCHANGED overtaken
  BY <1>4 DEF Warn
<1>5. ASSUME NEW ok \in BOOLEAN, OtherCall(ok)
      PROVE  UNCHANGED <<warned, overtaken>>
  BY <1>5 DEF OtherCall
<1>6. ASSUME Day \/ Elapse \/ Restart \/ UNCHANGED vars
      PROVE  UNCHANGED <<warned, overtaken>>
  BY <1>6 DEF Day, Elapse, Restart, vars
<1>7. QED
  BY <1>1, <1>2, <1>3, <1>4, <1>5, <1>6 DEF Next, Proceed

\* A pass that is about to write a row was about to before, or just decided to.
LEMMA AboutToWrite ==
  ASSUME TypeOK, [Next]_vars, NEW s \in Passes, NEW pc \in {"booking", "marking"}, At(s, pc)'
  PROVE  /\ Current(s)'.id = Current(s).id /\ ~At(s, "idle")
         /\ \/ At(s, pc)
            \/ pc = "booking" /\ CallAccepted(s)
            \/ pc = "marking" /\ Warn(s)
<1> DEFINE Goal == /\ Current(s)'.id = Current(s).id /\ ~At(s, "idle")
                   /\ \/ At(s, pc)
                      \/ pc = "booking" /\ CallAccepted(s)
                      \/ pc = "marking" /\ Warn(s)
<1>0. pass'[s].pc = pc /\ pass \in [Passes -> Pass] /\ pass[s] \in Pass
  BY DEF At, TypeOK, Pass
<1>1. CASE pass'[s] = pass[s]
  BY <1>0, <1>1 DEF At, Current
<1>2. CASE Day
  <2>1. pass'[s].pc = pass[s].pc /\ pass'[s].todo = Aged(pass[s].todo)
    BY <1>0, <1>2 DEF Day, Pass
  <2>2. ~At(s, "idle") /\ At(s, pc)
    BY <1>0, <2>1 DEF At
  <2>3. pass[s].todo \in Seq(Snapshots) /\ pass[s].todo # <<>>
    BY <2>2, CurrentType
  <2>4. Head(Aged(pass[s].todo)).id = Head(pass[s].todo).id
    BY <2>3, AgedType
  <2>5. QED
    BY <2>1, <2>2, <2>4 DEF Current
<1>3. CASE Restart
  BY <1>0, <1>3 DEF Restart
<1>4. ASSUME NEW t \in Passes, StartPass(t)
      PROVE  pass'[s] = pass[s]
  BY <1>0, <1>4 DEF StartPass
<1>5. ASSUME NEW t \in Passes, Finishes(t)
      PROVE  pass'[s] = pass[s]
  <2>1. pass'[t].pc \in {"idle", "row"} /\ \A u \in Passes \ {t} : pass'[u] = pass[u]
    BY <1>5, FinishesRow, NextRowType
  <2>2. QED
    BY <1>0, <2>1
<1>6. ASSUME NEW t \in Passes, Reclaim(t)
      PROVE  pass'[s] = pass[s]
  <2>1. ~At(t, "idle") /\ Goto(t, "calling")
    BY <1>6 DEF Reclaim, At
  <2>2. pass'[t].pc = "calling" /\ \A u \in Passes \ {t} : pass'[u] = pass[u]
    BY <2>1, GotoType
  <2>3. QED
    BY <1>0, <2>2
<1>7. ASSUME NEW t \in Passes, CallAccepted(t)
      PROVE  Goal
  <2>1. ~At(t, "idle") /\ Goto(t, "booking")
    BY <1>7 DEF CallAccepted, At
  <2>2. /\ pass'[t].pc = "booking" /\ pass'[t].todo = pass[t].todo
        /\ \A u \in Passes \ {t} : pass'[u] = pass[u]
    BY <2>1, GotoType
  <2>3. CASE t = s
    BY <1>0, <1>7, <2>1, <2>2, <2>3 DEF Current
  <2>4. QED
    BY <1>1, <2>2, <2>3
<1>8. ASSUME NEW t \in Passes, Warn(t)
      PROVE  Goal
  <2>1. ~At(t, "idle") /\ Goto(t, "marking")
    BY <1>8 DEF Warn, At
  <2>2. /\ pass'[t].pc = "marking" /\ pass'[t].todo = pass[t].todo
        /\ \A u \in Passes \ {t} : pass'[u] = pass[u]
    BY <2>1, GotoType
  <2>3. CASE t = s
    BY <1>0, <1>8, <2>1, <2>2, <2>3 DEF Current
  <2>4. QED
    BY <1>1, <2>2, <2>3
<1>9. QED
  BY <1>1, <1>2, <1>3, <1>4, <1>5, <1>6, <1>7, <1>8, Frame

\* A pass holds the row it is at.
LEMMA HoldsCurrent ==
  ASSUME TypeOK, NEW s \in Passes, ~At(s, "idle")
  PROVE  Holds(s, Current(s).id)
<1>1. pass[s].todo \in Seq(Snapshots) /\ pass[s].todo # <<>>
  BY CurrentType
<1>2. Len(pass[s].todo) \in Nat \ {0} /\ DOMAIN pass[s].todo = 1..Len(pass[s].todo)
  BY <1>1, EmptySeq, LenProperties
<1>3. 1 \in DOMAIN pass[s].todo
  BY <1>2
<1>4. Head(pass[s].todo) = pass[s].todo[1]
  OBVIOUS
<1>5. QED
  BY <1>3, <1>4 DEF Holds, Current

\* What a pass knows outlives the steps of others.
LEMMA PassesKnowStays ==
  ASSUME IInv, [Next]_vars
  PROVE  PassesKnow'
<1> SUFFICES ASSUME NEW s \in Passes
             PROVE  /\ At(s, "booking")' => Settled(Current(s).id)'
                    /\ At(s, "marking")' => Current(s)'.id \in (warned \cup overtaken)'
  BY DEF PassesKnow, Settled
<1>1. ASSUME At(s, "booking")'
      PROVE  Settled(Current(s).id)'
  <2> DEFINE p == Current(s).id
  <2>1. Current(s)'.id = p /\ ~At(s, "idle") /\ (At(s, "booking") \/ CallAccepted(s))
    BY <1>1, AboutToWrite DEF IInv
  <2>2. p \in Proposals
    BY <2>1, CurrentType DEF IInv
  <2>3. CASE At(s, "booking")
    <3>1. Settled(p)
      BY <2>3 DEF IInv, PassesKnow
    <3> HIDE DEF p
    <3>2. Settled(p)'
      <4>1. ASSUME NEW q \in Proposals, Settled(q)
            PROVE  Settled(q)'
        BY <4>1, SettledStays DEF IInv
      <4>2. Current(s)'.id \in Proposals /\ Settled(Current(s)'.id)
        BY <2>1, <2>2, <3>1
      <4>3. \A q \in Proposals : Settled(q) => (escrow'[q].funded /\ escrow'[q].rest = 0) \/ q \in inflight' \cup lost'
        BY <4>1 DEF Settled
      <4>4. QED
        BY <2>1, <4>2, <4>3 DEF Settled, p
    <3>3. QED
      BY <2>1, <3>2 DEF Settled, p
  <2>4. CASE CallAccepted(s)
    <3>1. p \in inflight'
      BY <2>4 DEF CallAccepted
    <3>2. QED
      BY <2>1, <3>1 DEF Settled
  <2>5. QED
    BY <2>1, <2>3, <2>4
<1>2. ASSUME At(s, "marking")'
      PROVE  Current(s)'.id \in (warned \cup overtaken)'
  <2> DEFINE p == Current(s).id
  <2>1. Current(s)'.id = p /\ ~At(s, "idle") /\ (At(s, "marking") \/ Warn(s))
    BY <1>2, AboutToWrite DEF IInv
  <2>2. p \in Proposals /\ Holds(s, p)
    BY <2>1, CurrentType, HoldsCurrent DEF IInv
  <2>3. CASE At(s, "marking")
    <3>1. p \in warned \cup overtaken
      BY <2>3 DEF IInv, PassesKnow
    <3> HIDE DEF p
    <3>2. ASSUME NEW q \in Proposals, q \in warned \cup overtaken, Holds(s, q)
          PROVE  q \in (warned \cup overtaken)'
      BY <3>2, WarningStays DEF IInv
    <3>3. QED
      BY <2>1, <2>2, <3>1, <3>2
  <2>4. CASE Warn(s)
    BY <2>1, <2>4 DEF Warn
  <2>5. QED
    BY <2>1, <2>3, <2>4
<1>3. QED
  BY <1>1, <1>2

\* A booked reclaim stays settled.
LEMMA BookedStays ==
  ASSUME IInv, [Next]_vars
  PROVE  BookedIsReclaimed'
<1> SUFFICES ASSUME NEW p \in Proposals, row'[p].status = "reclaimed"
             PROVE  (escrow'[p].funded /\ escrow'[p].rest = 0) \/ p \in inflight' \cup lost'
  BY DEF BookedIsReclaimed
<1>0. row \in [Proposals -> Row]
  BY DEF IInv, TypeOK, Row
<1>1. Settled(p)
  <2>1. CASE row[p].status = "reclaimed"
    BY <2>1 DEF IInv, BookedIsReclaimed, Settled
  <2>2. ASSUME NEW s \in Passes, BookReclaim(s)
        PROVE  row[p].status = "reclaimed" \/ Settled(p)
    <3>1. Current(s).id \in Proposals /\ Settled(Current(s).id)
      BY <2>2, CurrentType DEF BookReclaim, At, IInv, PassesKnow
    <3>2. p # Current(s).id => row'[p] = row[p]
      BY <1>0, <2>2 DEF BookReclaim
    <3>3. QED
      BY <3>1, <3>2
  <2>3. ASSUME NEW s \in Passes, MarkReminded(s)
        PROVE  row'[p].status = row[p].status
    BY <1>0, <2>3 DEF MarkReminded, Row
  <2>4. ASSUME NEW q \in Proposals, Track(q)
        PROVE  row[p].status = "reclaimed"
    BY <1>0, <2>4 DEF Track, Row
  <2>5. ASSUME NEW q \in Proposals, MarkActivity(q)
        PROVE  row'[p].status = row[p].status
    BY <1>0, <2>5 DEF MarkActivity, Row
  <2>6. ASSUME Day
        PROVE  row'[p].status = row[p].status
    BY <1>0, <2>6 DEF Day, Row
  <2>7. QED
    BY <2>1, <2>2, <2>3, <2>4, <2>5, <2>6, Frame DEF WritesRow
<1>2. Settled(p)'
  BY <1>1, SettledStays DEF IInv
<1>3. QED
  BY <1>2 DEF Settled

\* A reminded scholar stays warned or overtaken.
LEMMA RemindedStays ==
  ASSUME IInv, [Next]_vars
  PROVE  RemindedIsWarned'
<1> SUFFICES ASSUME NEW p \in Proposals, row'[p].reminded
             PROVE  p \in (warned \cup overtaken)'
  BY DEF RemindedIsWarned
<1>0. row \in [Proposals -> Row]
  BY DEF IInv, TypeOK, Row
<1>1. CASE MarkActivity(p)
  BY <1>0, <1>1 DEF MarkActivity, Row
<1>2. CASE ~MarkActivity(p)
  <2>1. p \in warned \cup overtaken
    <3>1. CASE row[p].reminded
      BY <3>1 DEF IInv, RemindedIsWarned
    <3>2. ASSUME NEW s \in Passes, MarkReminded(s)
          PROVE  row[p].reminded \/ p \in warned \cup overtaken
      <4>1. Current(s).id \in warned \cup overtaken
        BY <3>2 DEF MarkReminded, IInv, PassesKnow
      <4>2. p # Current(s).id => row'[p] = row[p]
        BY <1>0, <3>2 DEF MarkReminded
      <4>3. QED
        BY <4>1, <4>2
    <3>3. ASSUME NEW s \in Passes, BookReclaim(s)
          PROVE  row'[p].reminded = row[p].reminded
      BY <1>0, <3>3 DEF BookReclaim, Row
    <3>4. ASSUME NEW q \in Proposals, Track(q)
          PROVE  row'[p].reminded = row[p].reminded
      BY <1>0, <3>4 DEF Track, Row
    <3>5. ASSUME NEW q \in Proposals, MarkActivity(q)
          PROVE  row'[p].reminded = row[p].reminded
      BY <1>0, <1>2, <3>5 DEF MarkActivity, Row
    <3>6. ASSUME Day
          PROVE  row'[p].reminded = row[p].reminded
      BY <1>0, <3>6 DEF Day, Row
    <3>7. QED
      BY <3>1, <3>2, <3>3, <3>4, <3>5, <3>6, Frame DEF WritesRow
  <2>2. QED
    BY <1>2, <2>1, WarningStays DEF IInv
<1>3. QED
  BY <1>1, <1>2

-----------------------------------------------------------------------------
(* Theorems *)

\* The invariant holds initially.
LEMMA InitIInv == Init => IInv
<1> SUFFICES ASSUME Init
             PROVE  IInv
  OBVIOUS
<1>1. Threshold \in Nat \ {0} /\ Tranches \in Nat \ {0} /\ 0 \in 0..Tranches /\ 0 \in 0..Threshold /\ 0 < Threshold
  BY TimeoutAssumption
<1>2. row \in [Proposals -> Row] /\ \A p \in Proposals : row[p].status = "none" /\ row[p].reminded = FALSE
  <2> DEFINE none == [status |-> "none", idle |-> 0, reminded |-> FALSE]
  <2>1. none \in Row /\ none.status = "none" /\ none.reminded = FALSE
    BY CapType DEF Row
  <2>2. row = [p \in Proposals |-> none]
    BY DEF Init
  <2> HIDE DEF none
  <2>3. QED
    BY <2>1, <2>2
<1>3. escrow \in [Proposals -> Escrow] /\ \A p \in Proposals : escrow[p].rest = 0
  <2> DEFINE none == [funded |-> FALSE, rest |-> 0, idle |-> 0]
  <2>1. none \in Escrow /\ none.rest = 0
    BY <1>1, CapType DEF Escrow
  <2>2. escrow = [p \in Proposals |-> none]
    BY DEF Init
  <2> HIDE DEF none
  <2>3. QED
    BY <2>1, <2>2
<1>4. pass \in [Passes -> Pass] /\ \A s \in Passes : pass[s].pc = "idle" /\ pass[s].todo = <<>>
  <2> DEFINE none == [pc |-> "idle", todo |-> <<>>]
  <2>1. none \in Pass /\ none.pc = "idle" /\ none.todo = <<>>
    BY EmptySeq DEF Pass
  <2>2. pass = [s \in Passes |-> none]
    BY DEF Init
  <2> HIDE DEF none
  <2>3. QED
    BY <2>1, <2>2
<1>5. BreakerOK(breaker)
  BY <1>1 DEF Init, Closed, BreakerOK, Breakers
<1>6. TypeOK
  BY <1>2, <1>3, <1>4, <1>5 DEF Init, TypeOK, Row, Escrow, Pass, BreakerOK, Breakers, At
<1>7. FundedHasRest /\ PassesKnow /\ BookedIsReclaimed /\ RemindedIsWarned
  BY <1>2, <1>3, <1>4 DEF FundedHasRest, PassesKnow, BookedIsReclaimed, RemindedIsWarned, At
<1>8. QED
  BY <1>6, <1>7 DEF IInv

\* The inductive invariant: the books, and what every pass knows of its row.
THEOREM TimeoutInvariant == Spec => []IInv
<1>1. IInv /\ [Next]_vars => IInv'
  <2> SUFFICES ASSUME IInv, [Next]_vars
               PROVE  IInv'
    OBVIOUS
  <2>1. TypeOK' /\ FundedHasRest'
    BY TypesStay DEF IInv
  <2>2. QED
    BY <2>1, PassesKnowStays, BookedStays, RemindedStays DEF IInv
<1>2. QED
  BY <1>1, InitIInv, PTL DEF Spec

\* Every value keeps its type, and the circuit breaker is never closed at its
\* threshold.
THEOREM TimeoutTypeCorrect == Spec => []TypeOK
<1>1. IInv => TypeOK
  BY DEF IInv
<1>2. QED
  BY <1>1, TimeoutInvariant, PTL

\* A row says reclaimed only of an escrow that is spent, about to be, or whose
\* accepted transaction was lost: for every interleaving of passes, activity,
\* crashes and lost answers.
THEOREM BookedCorrect == Spec => []BookedIsReclaimed
<1>1. IInv => BookedIsReclaimed
  BY DEF IInv
<1>2. QED
  BY <1>1, TimeoutInvariant, PTL

\* No scholar is taken for reminded who was not, except by a pass that their
\* activity overtook.
THEOREM RemindedCorrect == Spec => []RemindedIsWarned
<1>1. IInv => RemindedIsWarned
  BY DEF IInv
<1>2. QED
  BY <1>1, TimeoutInvariant, PTL

-----------------------------------------------------------------------------
(* The contract *)

Stages == [p \in Proposals |-> Stage(p)]

\* A stage is a matter of the contract's record alone.
LEMMA StageOfRecord ==
  ASSUME \A p \in Proposals : escrow'[p] = escrow[p]
  PROVE  Stages' = Stages
BY DEF Stages, Stage, CanReclaim

\* A call that writes one record moves one stage.
LEMMA StageMoves ==
  ASSUME TypeOK, NEW p \in Proposals, \A q \in Proposals \ {p} : escrow'[q] = escrow[q]
  PROVE  Contract!Move(p, Stage(p)')
<1>1. \A q \in Proposals \ {p} : Stage(q)' = Stage(q)
  BY DEF Stage, CanReclaim
<1>2. QED
  BY <1>1 DEF Contract!Move

\* create_escrow.
LEMMA FundWatched ==
  ASSUME IInv, NEW p \in Proposals, Fund(p)
  PROVE  Contract!Fund(p)
<1> DEFINE new == [funded |-> TRUE, rest |-> Tranches, idle |-> 0]
<1>1. escrow'[p] = new /\ \A q \in Proposals \ {p} : escrow'[q] = escrow[q]
  BY DEF Fund, IInv, TypeOK
<1>2. new.rest > 0 /\ ~(new.idle >= ChainWindow)
  BY TimeoutAssumption
<1>3. Stage(p) = "none"
  BY DEF Fund, Stage, CanReclaim
<1>4. Stage(p)' = "open"
  BY <1>1, <1>2 DEF Stage, CanReclaim
<1>5. QED
  BY <1>1, <1>3, <1>4, StageMoves DEF IInv, Contract!Fund

\* A release of either kind.
LEMMA ReleaseWatched ==
  ASSUME IInv, NEW p \in Proposals, Release(p)
  PROVE  Contract!Pay(p)
<1> DEFINE new == [escrow[p] EXCEPT !.rest = @ - 1, !.idle = 0]
<1>1. escrow[p] \in Escrow /\ escrow[p].rest > 0 /\ escrow[p].funded
  BY DEF IInv, TypeOK, Escrow, FundedHasRest, Release
<1>2. escrow'[p] = new /\ \A q \in Proposals \ {p} : escrow'[q] = escrow[q]
  BY DEF Release, IInv, TypeOK
<1>3. new.funded /\ new.idle = 0
  BY <1>1 DEF Escrow
<1>4. ~(0 >= ChainWindow)
  BY TimeoutAssumption
<1>5. escrow[p].rest # 0
  BY <1>1 DEF Escrow
<1>6. Stage(p) \in {"open", "overdue"}
  BY <1>1, <1>5 DEF Stage, CanReclaim
<1>7. Stage(p)' \in {"open", "spent"}
  BY <1>2, <1>3, <1>4 DEF Stage, CanReclaim
<1>8. QED
  BY <1>2, <1>6, <1>7, StageMoves DEF IInv, Contract!Pay

\* A reclaim that executes.
LEMMA ExecuteWatched ==
  ASSUME IInv, NEW p \in Proposals, Execute(p)
  PROVE  Contract!Reclaim(p)
<1> DEFINE new == [escrow[p] EXCEPT !.rest = 0, !.idle = 0]
<1>1. escrow[p] \in Escrow /\ CanReclaim(p) /\ escrow[p].funded /\ escrow[p].rest # 0
  BY DEF IInv, TypeOK, Escrow, FundedHasRest, Execute, CanReclaim
<1>2. escrow'[p] = new /\ \A q \in Proposals \ {p} : escrow'[q] = escrow[q]
  BY DEF Execute, IInv, TypeOK
<1>3. new.funded /\ new.rest = 0
  BY <1>1 DEF Escrow
<1>4. Stage(p) = "overdue" /\ Stage(p)' = "spent"
  BY <1>1, <1>2, <1>3 DEF Stage, CanReclaim
<1>5. QED
  BY <1>2, <1>4, StageMoves DEF IInv, Contract!Reclaim

\* A day: some open escrows may become overdue, and nothing else happens.
LEMMA DayWatched ==
  ASSUME IInv, Day
  PROVE  Contract!Age
<1> DEFINE due == {p \in Proposals : Stage(p) = "open" /\ Stage(p)' = "overdue"}
<1>1. ASSUME NEW p \in Proposals
      PROVE  Stage(p)' = Stage(p) \/ p \in due
  <2>1. CASE escrow[p].rest > 0
    <3>1. escrow[p] \in Escrow
      BY DEF IInv, TypeOK, Escrow
    <3>2. escrow'[p] = [escrow[p] EXCEPT !.idle = Older(@)]
      BY <2>1 DEF Day
    <3>3. /\ escrow'[p].funded = escrow[p].funded /\ escrow'[p].rest = escrow[p].rest
          /\ escrow'[p].idle = Older(escrow[p].idle)
      BY <3>1, <3>2 DEF Escrow
    <3>4. escrow[p].idle >= ChainWindow => escrow'[p].idle >= ChainWindow
      BY <3>1, <3>3, CapType, TimeoutAssumption DEF Escrow, Older
    <3>5. QED
      BY <3>3, <3>4 DEF Stage, CanReclaim
  <2>2. CASE ~(escrow[p].rest > 0)
    <3>1. escrow'[p] = escrow[p]
      BY <2>2 DEF Day
    <3>2. QED
      BY <3>1 DEF Stage, CanReclaim
  <2>3. QED
    BY <2>1, <2>2
<1>2. due \in SUBSET {g \in Proposals : Stages[g] = "open"}
  BY DEF Stages
<1>3. Stages' = [p \in Proposals |-> IF p \in due THEN "overdue" ELSE Stages[p]]
  BY <1>1 DEF Stages
<1>4. QED
  BY <1>2, <1>3 DEF Contract!Age, Stages

\* The contract, as the server's reclaim takes it to be, is InactivityWatch: any
\* step of any pass, row or transaction is a step of it or leaves it alone.
THEOREM WatchSupposed == Spec => SupposesWatch
<1>1. Init => Contract!Init
  BY DEF Init, Contract!Init, Stage, CanReclaim
<1>2. IInv /\ [Next]_vars => Contract!Next \/ Stages' = Stages
  <2> SUFFICES ASSUME IInv, [Next]_vars
               PROVE  Contract!Next \/ Stages' = Stages
    OBVIOUS
  <2>1. CASE Day
    BY <2>1, DayWatched DEF Contract!Next
  <2>2. CASE \E p \in Proposals : Fund(p) \/ Release(p) \/ Execute(p)
    BY <2>2, FundWatched, ReleaseWatched, ExecuteWatched DEF Contract!Next
  <2>3. CASE UNCHANGED escrow
    BY <2>3, StageOfRecord
  <2>4. QED
    BY <2>1, <2>2, <2>3, Frame DEF WritesEscrow
<1>3. IInv /\ [Next]_vars => [Contract!Next]_Stages
  BY <1>2
<1>4. QED
  BY <1>1, <1>3, TimeoutInvariant, PTL DEF Spec, SupposesWatch, Contract!Spec, Stages
=============================================================================
