----------------------- MODULE MilestoneReviewProofs -----------------------
(***************************************************************************)
(* Theorems about MilestoneReview, for every course, every number of       *)
(* concurrent requests and any failures.                                   *)
(***************************************************************************)
EXTENDS MilestoneReview, SequenceTheorems, FiniteSetTheorems, TLAPS

RequestRecord == [pc : Pcs, kind : Kinds, todo : Seq(Reports), read : Nat]
BonusSteps == {"idle", "select", "count", "qualify", "bonus"}

\* Where a request of a kind can be.
Fits(pc, kind) ==
  /\ pc \in {"find", "insert", "resubmit"} => kind = "submit"
  /\ pc \notin {"idle", "find", "insert", "resubmit"} => kind # "submit"
  /\ pc = "call" => kind # "appeal"
  /\ pc \in {"progress", "mint"} => kind \in {"approve", "batch"}
  /\ pc \in {"escrow", "release", "book"} => kind = "approve"

\* No request names a report twice; only a batch names more than one.
Shape ==
  \A h \in Requests :
    /\ Fits(request[h].pc, request[h].kind)
    /\ request[h].pc = "idle" <=> request[h].todo = <<>>
    /\ request[h].kind \notin {"batch", "reject"} => Len(request[h].todo) <= 1
    /\ \A i, j \in DOMAIN request[h].todo : request[h].todo[i] = request[h].todo[j] => i = j

-----------------------------------------------------------------------------
(* The local state of a request *)

\* The ways a request goes on: it ends, it turns to another statement for the
\* same report, or it advances to the next report of its batch.
Others(h) ==
  /\ request' \in [Requests -> RequestRecord]
  /\ \A g \in Requests \ {h} : request'[g] = request[g]

Ended(h) == Others(h) /\ request'[h] = NoRequest

Turned(h, pc) ==
  /\ Others(h)
  /\ request'[h].pc = pc /\ request'[h].kind = request[h].kind
  /\ request'[h].todo = request[h].todo /\ request'[h].read = request[h].read

Advanced(h) ==
  /\ Others(h)
  /\ Len(request[h].todo) > 1
  /\ request'[h].pc = "call" /\ request'[h].kind = request[h].kind
  /\ request'[h].todo = Tail(request[h].todo)

\* The record of a request, and the report it is at.
LEMMA RecordType ==
  ASSUME TypeOK, NEW h \in Requests
  PROVE  /\ request \in [Requests -> RequestRecord] /\ request[h] \in RequestRecord
         /\ request[h].todo \in Seq(Reports) /\ request[h].pc \in Pcs
         /\ request[h].kind \in Kinds /\ request[h].read \in Nat
BY DEF TypeOK, RequestRecord

\* What is left of a batch does not name the report again.
LEMMA TailFacts ==
  ASSUME NEW s \in Seq(Reports), Len(s) > 1,
         \A i, j \in DOMAIN s : s[i] = s[j] => i = j
  PROVE  /\ Tail(s) \in Seq(Reports) /\ Tail(s) # <<>>
         /\ Len(Tail(s)) = Len(s) - 1
         /\ {Tail(s)[i] : i \in DOMAIN Tail(s)} \subseteq {s[i] : i \in DOMAIN s} \ {Head(s)}
         /\ \A i, j \in DOMAIN Tail(s) : Tail(s)[i] = Tail(s)[j] => i = j
<1>1. s # <<>> /\ Len(s) \in Nat /\ DOMAIN s = 1 .. Len(s)
  BY LenProperties, EmptySeq
<1>2. /\ Tail(s) \in Seq(Reports) /\ Len(Tail(s)) = Len(s) - 1 /\ Head(s) = s[1]
      /\ \A i \in 1 .. Len(Tail(s)) : Tail(s)[i] = s[i + 1]
  BY <1>1, HeadTailProperties
<1>3. DOMAIN Tail(s) = 1 .. Len(s) - 1
  BY <1>1, <1>2, LenProperties
<1>4. \A i \in DOMAIN Tail(s) : i + 1 \in DOMAIN s /\ i + 1 # 1 /\ Tail(s)[i] = s[i + 1]
  BY <1>1, <1>2, <1>3
<1>5. Tail(s) # <<>>
  <2>1. Len(s) - 1 # 0 /\ Len(<<>>) = 0
    BY <1>1, EmptySeq
  <2>2. QED
    BY <1>2, <2>1
<1>6. \A i \in DOMAIN Tail(s) : Tail(s)[i] \in {s[j] : j \in DOMAIN s} /\ Tail(s)[i] # Head(s)
  BY <1>1, <1>2, <1>4
<1>7. \A i, j \in DOMAIN Tail(s) : Tail(s)[i] = Tail(s)[j] => i = j
  BY <1>1, <1>3, <1>4
<1>8. QED
  BY <1>2, <1>5, <1>6, <1>7

\* A running request is at a report.
LEMMA AtReport ==
  ASSUME TypeOK, Shape, NEW h \in Requests, ~At(h, "idle")
  PROVE  /\ Report(h) \in ReportsOf(h) /\ ReportsOf(h) \subseteq Reports
         /\ request[h].todo # <<>> /\ Len(request[h].todo) \in Nat \ {0}
         /\ request[h].todo[1] = Report(h)
<1>1. request[h].todo \in Seq(Reports) /\ request[h].todo # <<>>
  BY RecordType DEF Shape, At
<1>2. /\ Report(h) = request[h].todo[1] /\ Len(request[h].todo) \in Nat \ {0}
      /\ DOMAIN request[h].todo = 1 .. Len(request[h].todo)
  BY <1>1, HeadTailProperties, LenProperties, EmptySeq DEF Report
<1>3. \A i \in DOMAIN request[h].todo : request[h].todo[i] \in Reports
  BY <1>1, <1>2, ElementOfSeq
<1>4. QED
  BY <1>1, <1>2, <1>3 DEF ReportsOf

\* A request that goes to a statement turns to it.
LEMMA GotoTurns ==
  ASSUME TypeOK, NEW h \in Requests, NEW pc \in Pcs, Goto(h, pc)
  PROVE  Turned(h, pc)
<1> DEFINE next == [request[h] EXCEPT !.pc = pc]
<1>1. request \in [Requests -> RequestRecord] /\ request[h] \in RequestRecord
  BY RecordType
<1>2. /\ next \in RequestRecord /\ next.pc = pc /\ next.kind = request[h].kind
      /\ next.todo = request[h].todo /\ next.read = request[h].read
  BY <1>1 DEF RequestRecord
<1>3. request' = [request EXCEPT ![h] = next]
  BY DEF Goto
<1> HIDE DEF next
<1>4. QED
  BY <1>1, <1>2, <1>3 DEF Turned, Others

\* A request that is done has ended.
LEMMA DoneEnds ==
  ASSUME TypeOK, NEW h \in Requests, Done(h)
  PROVE  Ended(h)
<1>1. request \in [Requests -> RequestRecord]
  BY RecordType
<1>2. NoRequest \in RequestRecord
  BY EmptySeq DEF NoRequest, RequestRecord, Pcs, Kinds
<1>3. request' = [request EXCEPT ![h] = NoRequest]
  BY DEF Done
<1>4. QED
  BY <1>1, <1>2, <1>3 DEF Ended, Others

\* The next item of a batch, or the end.
LEMMA NextItemAdvances ==
  ASSUME TypeOK, Shape, NEW h \in Requests, NextItem(h)
  PROVE  Ended(h) \/ Advanced(h)
<1>1. CASE Len(request[h].todo) > 1
  <2> DEFINE next == [request[h] EXCEPT !.pc = "call", !.todo = Tail(@)]
  <2>1. request \in [Requests -> RequestRecord] /\ request[h] \in RequestRecord
    BY RecordType
  <2>2. Tail(request[h].todo) \in Seq(Reports)
    BY <1>1, TailFacts, RecordType DEF Shape
  <2>3. /\ next \in RequestRecord /\ next.pc = "call" /\ next.kind = request[h].kind
        /\ next.todo = Tail(request[h].todo)
    BY <2>1, <2>2 DEF RequestRecord, Pcs
  <2>4. request' = [request EXCEPT ![h] = next]
    BY <1>1 DEF NextItem
  <2> HIDE DEF next
  <2>5. QED
    BY <1>1, <2>1, <2>3, <2>4 DEF Advanced, Others
<1>2. CASE ~(Len(request[h].todo) > 1)
  BY <1>2, DoneEnds DEF NextItem
<1>3. QED
  BY <1>1, <1>2

\* What each statement of a request does to its local state.
LEMMA Local ==
  ASSUME TypeOK, Shape, NEW h \in Requests
  PROVE  /\ FindReport(h) =>
              \/ Ended(h)
              \/ Turned(h, "insert")
              \/ Turned(h, "resubmit") /\ status[Report(h)] = "rejected"
         /\ StoreReport(h) => Ended(h)
         /\ CallAccepted(h) => Turned(h, "write")
         /\ CallRefused(h) =>
              \/ request[h].kind = "deny" /\ Turned(h, "write")
              \/ Ended(h) \/ Advanced(h)
         /\ Decide(h) => Turned(h, "audit")
         /\ Appeal(h) => Turned(h, "audit") \/ Ended(h)
         /\ Audit(h) =>
              \/ request[h].kind \in {"approve", "batch"} /\ Turned(h, "progress")
              \/ Ended(h) \/ Advanced(h)
<1>1. FindReport(h) =>
        \/ Ended(h)
        \/ Turned(h, "insert")
        \/ Turned(h, "resubmit") /\ status[Report(h)] = "rejected"
  BY GotoTurns, DoneEnds DEF FindReport, Pcs
<1>2. StoreReport(h) => Ended(h)
  BY DoneEnds DEF StoreReport
<1>3. CallAccepted(h) => Turned(h, "write")
  BY GotoTurns DEF CallAccepted, Pcs
<1>4. CallRefused(h) =>
        \/ request[h].kind = "deny" /\ Turned(h, "write")
        \/ Ended(h) \/ Advanced(h)
  BY GotoTurns, NextItemAdvances DEF CallRefused, AfterRefusal, Pcs
<1>5. Decide(h) => Turned(h, "audit")
  BY GotoTurns DEF Decide, Pcs
<1>6. Appeal(h) => Turned(h, "audit") \/ Ended(h)
  BY GotoTurns, DoneEnds DEF Appeal, Pcs
<1>7. Audit(h) =>
        \/ request[h].kind \in {"approve", "batch"} /\ Turned(h, "progress")
        \/ Ended(h) \/ Advanced(h)
  BY GotoTurns, NextItemAdvances DEF Audit, Pcs
<1>8. QED
  BY <1>1, <1>2, <1>3, <1>4, <1>5, <1>6, <1>7

\* The same for the statements that follow a decision, and for a death.
LEMMA LocalLater ==
  ASSUME TypeOK, Shape, NEW h \in Requests
  PROVE  /\ Progress(h) \/ MintCertificate(h) =>
              \/ Progress(h) /\ Approved = Reports /\ Turned(h, "mint") /\ UNCHANGED bonus
              \/ request[h].kind = "approve" /\ Turned(h, "escrow")
                   /\ bonus' = [bonus EXCEPT ![h] = "select"]
              \/ (Ended(h) \/ Advanced(h)) /\ UNCHANGED bonus
         /\ FindEscrow(h) => Turned(h, "release") \/ Ended(h)
         /\ ReleaseAccepted(h) => Turned(h, "book")
         /\ ReleaseRefused(h) \/ BookTranche(h) => Ended(h)
         /\ Die(h) => Ended(h) \/ (Advanced(h) /\ request[h].pc \in {"write", "audit"})
<1>1. AfterCertificate(h) =>
        \/ request[h].kind = "approve" /\ Turned(h, "escrow")
             /\ bonus' = [bonus EXCEPT ![h] = "select"]
        \/ (Ended(h) \/ Advanced(h)) /\ UNCHANGED bonus
  BY GotoTurns, NextItemAdvances DEF AfterCertificate, Pcs
<1>2. Progress(h) \/ MintCertificate(h) =>
        \/ Progress(h) /\ Approved = Reports /\ Turned(h, "mint") /\ UNCHANGED bonus
        \/ AfterCertificate(h)
  BY GotoTurns DEF Progress, MintCertificate, Pcs
<1>3. FindEscrow(h) => Turned(h, "release") \/ Ended(h)
  BY GotoTurns, DoneEnds DEF FindEscrow, Pcs
<1>4. ReleaseAccepted(h) => Turned(h, "book")
  BY GotoTurns DEF ReleaseAccepted, Pcs
<1>5. ReleaseRefused(h) \/ BookTranche(h) => Ended(h)
  BY DoneEnds DEF ReleaseRefused, BookTranche
<1>6. ASSUME Die(h), ~Ended(h)
      PROVE  Advanced(h) /\ request[h].pc \in {"write", "audit"}
  <2>1. /\ request[h].pc \in Pcs \ {"idle", "call", "progress", "mint", "release"}
        /\ Advanced(h) /\ request[h].pc # "load"
    BY <1>6, DoneEnds, NextItemAdvances DEF Die, At
  <2>2. Len(request[h].todo) \in Nat /\ Len(request[h].todo) > 1
    BY <2>1, AtReport DEF Advanced, At
  <2>3. request[h].kind \in {"batch", "reject"}
    BY <2>2 DEF Shape
  <2>4. QED
    BY <2>1, <2>3 DEF Shape, Fits, Pcs
<1>7. QED
  BY <1>1, <1>2, <1>3, <1>4, <1>5, <1>6

\* A request that writes without having called the contract.
GoesOnWithout(h) ==
  request[h].kind = "appeal" \/ (request[h].kind \in {"grant", "deny"} /\ ~configured)

\* Load ends the request, reads on, or has read what it expected.
LEMMA LocalLoad ==
  ASSUME TypeOK, Shape, NEW h \in Requests, Load(h)
  PROVE  \/ Ended(h)
         \/ /\ status[request[h].todo[request[h].read + 1]] = Expected(request[h].kind)
            /\ \/ /\ Others(h) /\ request[h].read + 1 < Len(request[h].todo)
                  /\ request'[h].pc = request[h].pc /\ request'[h].kind = request[h].kind
                  /\ request'[h].todo = request[h].todo /\ request'[h].read = request[h].read + 1
               \/ /\ ~(request[h].read + 1 < Len(request[h].todo))
                  /\ \/ GoesOnWithout(h) /\ Turned(h, "write")
                     \/ request[h].kind # "appeal" /\ Turned(h, "call")
<1> DEFINE q == request[h]
<1>1. CASE status[q.todo[q.read + 1]] # Expected(q.kind)
  BY <1>1, DoneEnds DEF Load
<1>2. CASE status[q.todo[q.read + 1]] = Expected(q.kind) /\ q.read + 1 < Len(q.todo)
  <2> DEFINE next == [request[h] EXCEPT !.read = @ + 1]
  <2>1. request \in [Requests -> RequestRecord] /\ request[h] \in RequestRecord
    BY RecordType
  <2>2. /\ next \in RequestRecord /\ next.pc = request[h].pc /\ next.kind = request[h].kind
        /\ next.todo = request[h].todo /\ next.read = request[h].read + 1
    BY <2>1 DEF RequestRecord
  <2>3. request' = [request EXCEPT ![h] = next]
    BY <1>2 DEF Load
  <2> HIDE DEF next
  <2>4. Others(h) /\ request'[h] = next
    BY <2>1, <2>2, <2>3 DEF Others
  <2>5. QED
    BY <1>2, <2>2, <2>4
<1>3. CASE status[q.todo[q.read + 1]] = Expected(q.kind) /\ ~(q.read + 1 < Len(q.todo))
  BY <1>3, GotoTurns, DoneEnds DEF Load, AfterReading, GoesOnWithout, Pcs
<1>4. QED
  BY <1>1, <1>2, <1>3

-----------------------------------------------------------------------------
(* Types *)

\* A request that still reads its reports has one to read.
LoadOK == \A h \in Requests : At(h, "load") => request[h].read < Len(request[h].todo)

\* A batch that begins names some reports, each once.
LEMMA BatchFacts ==
  ASSUME NEW todo \in Batches
  PROVE  /\ todo \in Seq(Reports) /\ todo # <<>> /\ Len(todo) \in Nat \ {0}
         /\ \A i, j \in DOMAIN todo : todo[i] = todo[j] => i = j
<1>1. CASE \E r \in Reports : todo = <<r>>
  BY <1>1
<1>2. CASE \E a, b \in Reports : todo = <<a, b>> /\ a # b
  BY <1>2
<1>3. QED
  BY <1>1, <1>2 DEF Batches

\* A request that goes on keeps its shape.
LEMMA GoesOnShape ==
  ASSUME TypeOK, Shape, NEW h \in Requests, ~At(h, "idle"),
         \/ Ended(h) \/ Advanced(h)
         \/ \E pc \in Pcs \ {"idle", "load"} : Turned(h, pc) /\ Fits(pc, request[h].kind)
  PROVE  request' \in [Requests -> RequestRecord] /\ Shape' /\ LoadOK'
<1>0. Others(h)
  BY DEF Ended, Advanced, Turned
<1>1. /\ request' \in [Requests -> RequestRecord]
      /\ \A g \in Requests \ {h} : request'[g] = request[g]
  BY <1>0 DEF Others
<1>2. SUFFICES
        /\ Fits(request'[h].pc, request'[h].kind)
        /\ request'[h].pc = "idle" <=> request'[h].todo = <<>>
        /\ request'[h].kind \notin {"batch", "reject"} => Len(request'[h].todo) <= 1
        /\ \A i, j \in DOMAIN request'[h].todo :
             request'[h].todo[i] = request'[h].todo[j] => i = j
        /\ request'[h].pc # "load"
  <2>1. Shape'
    BY <1>1, <1>2 DEF Shape
  <2>2. LoadOK'
    BY <1>1, <1>2 DEF LoadOK, TypeOK, At
  <2>3. QED
    BY <1>1, <2>1, <2>2
<1>3. CASE Ended(h)
  BY <1>3, EmptySeq DEF Ended, NoRequest, Fits
<1>4. CASE Advanced(h)
  <2>1. request[h].kind \in {"batch", "reject"}
    <3>1. Len(request[h].todo) \in Nat /\ Len(request[h].todo) > 1
      BY <1>4, AtReport DEF Advanced
    <3>2. QED
      BY <3>1 DEF Shape
  <2>2. /\ Tail(request[h].todo) # <<>>
        /\ \A i, j \in DOMAIN Tail(request[h].todo) :
             Tail(request[h].todo)[i] = Tail(request[h].todo)[j] => i = j
    BY <1>4, TailFacts, RecordType DEF Advanced, Shape
  <2>3. QED
    BY <1>4, <2>1, <2>2 DEF Advanced, Fits
<1>5. CASE \E pc \in Pcs \ {"idle", "load"} : Turned(h, pc) /\ Fits(pc, request[h].kind)
  BY <1>5 DEF Turned, Shape, At
<1>6. QED
  BY <1>3, <1>4, <1>5

\* Every step keeps the local states of the requests in their type and shape.
LEMMA RequestStep ==
  ASSUME TypeOK, Shape, [Next]_vars
  PROVE  request' \in [Requests -> RequestRecord] /\ Shape' /\ LoadOK'
<1>1. CASE request' = request
  BY <1>1, RecordType DEF Shape, LoadOK, TypeOK, At
<1>2. ASSUME NEW h \in Requests, Load(h)
      PROVE  request' \in [Requests -> RequestRecord] /\ Shape' /\ LoadOK'
  <2>1. ~At(h, "idle") /\ request[h].kind # "submit"
    BY <1>2 DEF Load, At, Shape, Fits
  <2>2. CASE Others(h) /\ request[h].read + 1 < Len(request[h].todo)
               /\ request'[h].pc = request[h].pc /\ request'[h].kind = request[h].kind
               /\ request'[h].todo = request[h].todo /\ request'[h].read = request[h].read + 1
    <3>1. /\ request'[h].pc = request[h].pc /\ request'[h].kind = request[h].kind
          /\ request'[h].todo = request[h].todo /\ request'[h].read = request[h].read + 1
      BY <2>2
    <3>2. /\ request' \in [Requests -> RequestRecord]
          /\ \A g \in Requests \ {h} : request'[g] = request[g]
      BY <2>2 DEF Others
    <3>3. Shape'
      BY <3>1, <3>2 DEF Shape
    <3>4. LoadOK'
      BY <2>2, <3>1, <3>2 DEF LoadOK, TypeOK, At
    <3>5. QED
      BY <3>2, <3>3, <3>4
  <2>3. CASE GoesOnWithout(h) /\ Turned(h, "write")
    BY <2>1, <2>3, GoesOnShape DEF Pcs, Fits
  <2>4. CASE request[h].kind # "appeal" /\ Turned(h, "call")
    BY <2>1, <2>4, GoesOnShape DEF Pcs, Fits
  <2>5. CASE Ended(h)
    BY <2>1, <2>5, GoesOnShape
  <2>6. QED
    BY <1>2, <2>2, <2>3, <2>4, <2>5, LocalLoad
<1>3. ASSUME NEW h \in Requests,
             \/ FindReport(h) \/ StoreReport(h) \/ CallAccepted(h) \/ CallRefused(h)
             \/ Decide(h) \/ Appeal(h) \/ Audit(h)
      PROVE  request' \in [Requests -> RequestRecord] /\ Shape' /\ LoadOK'
  <2>1. ~At(h, "idle") /\ Fits(request[h].pc, request[h].kind)
    BY <1>3 DEF FindReport, StoreReport, CallAccepted, CallRefused, Decide, Appeal, Audit, At, Shape
  <2>2. \/ Ended(h) \/ Advanced(h)
        \/ \E pc \in Pcs \ {"idle", "load"} : Turned(h, pc) /\ Fits(pc, request[h].kind)
    BY <1>3, <2>1, Local DEF FindReport, CallAccepted, CallRefused, Decide, Appeal, Audit, At, Fits, Pcs
  <2>3. QED
    BY <2>1, <2>2, GoesOnShape
<1>4. ASSUME NEW h \in Requests,
             \/ Progress(h) \/ MintCertificate(h) \/ FindEscrow(h) \/ ReleaseAccepted(h)
             \/ ReleaseRefused(h) \/ BookTranche(h)
      PROVE  request' \in [Requests -> RequestRecord] /\ Shape' /\ LoadOK'
  <2>1. ~At(h, "idle") /\ Fits(request[h].pc, request[h].kind)
    BY <1>4 DEF Progress, MintCertificate, FindEscrow, ReleaseAccepted, ReleaseRefused,
       BookTranche, At, Shape
  <2>2. \/ Ended(h) \/ Advanced(h)
        \/ \E pc \in Pcs \ {"idle", "load"} : Turned(h, pc) /\ Fits(pc, request[h].kind)
    <3>1. CASE Progress(h) \/ MintCertificate(h)
      <4>1. request[h].kind \in {"approve", "batch"}
        BY <2>1, <3>1 DEF Progress, MintCertificate, At, Fits
      <4>2. CASE Turned(h, "mint")
        BY <4>1, <4>2 DEF Fits, Pcs
      <4>3. CASE request[h].kind = "approve" /\ Turned(h, "escrow")
        BY <4>3 DEF Fits, Pcs
      <4>4. QED
        BY <3>1, <4>2, <4>3, LocalLater
    <3>2. CASE FindEscrow(h) \/ ReleaseAccepted(h) \/ ReleaseRefused(h) \/ BookTranche(h)
      BY <2>1, <3>2, LocalLater DEF FindEscrow, ReleaseAccepted, At, Fits, Pcs
    <3>3. QED
      BY <1>4, <3>1, <3>2
  <2>3. QED
    BY <2>1, <2>2, GoesOnShape
<1>5. ASSUME NEW h \in Requests, Die(h)
      PROVE  request' \in [Requests -> RequestRecord] /\ Shape' /\ LoadOK'
  BY <1>5, LocalLater, GoesOnShape DEF Die, At
<1>6. ASSUME NEW h \in Requests, NEW kind \in Kinds, NEW todo \in Batches, Begin(h, kind, todo)
      PROVE  request' \in [Requests -> RequestRecord] /\ Shape' /\ LoadOK'
  <2> DEFINE next == [pc |-> IF kind = "submit" THEN "find" ELSE "load", kind |-> kind,
                      todo |-> todo, read |-> 0]
  <2>1. /\ todo \in Seq(Reports) /\ todo # <<>> /\ Len(todo) \in Nat \ {0}
        /\ \A i, j \in DOMAIN todo : todo[i] = todo[j] => i = j
    BY BatchFacts
  <2>2. /\ next \in RequestRecord /\ next.kind = kind /\ next.todo = todo /\ next.read = 0
        /\ next.pc = (IF kind = "submit" THEN "find" ELSE "load")
    BY <2>1 DEF RequestRecord, Pcs
  <2>3. request' = [request EXCEPT ![h] = next] /\ (kind \notin {"batch", "reject"} => Len(todo) = 1)
    BY <1>6 DEF Begin
  <2> HIDE DEF next
  <2>4. /\ request' \in [Requests -> RequestRecord] /\ request'[h] = next
        /\ \A g \in Requests \ {h} : request'[g] = request[g]
    BY <2>2, <2>3, RecordType
  <2>5. Shape'
    BY <2>1, <2>2, <2>3, <2>4 DEF Shape, Fits
  <2>6. LoadOK'
    <3>1. request'[h].read < Len(request'[h].todo)
      BY <2>1, <2>2, <2>4
    <3>2. QED
      BY <2>4, <3>1 DEF LoadOK, TypeOK, At
  <2>7. QED
    BY <2>4, <2>5, <2>6
<1>7. CASE Restart
  <2>1. NoRequest \in RequestRecord /\ request' = [h \in Requests |-> NoRequest]
    BY <1>7, EmptySeq DEF Restart, NoRequest, RequestRecord, Pcs, Kinds
  <2>2. NoRequest.pc = "idle" /\ NoRequest.kind = "submit" /\ NoRequest.todo = <<>>
    BY DEF NoRequest
  <2>3. Shape'
    BY <2>1, <2>2, EmptySeq DEF Shape, Fits
  <2>4. LoadOK'
    BY <2>1, <2>2 DEF LoadOK, At
  <2>5. QED
    BY <2>1, <2>3, <2>4
<1>8. QED
  BY <1>1, <1>2, <1>3, <1>4, <1>5, <1>6, <1>7 DEF Next, Step, Execute, Expire, SubmitOnChain,
     AppealOnChain, SelectReferral, CountApproved, QualifyReferral, PayBonus, BonusFails, vars

\* What a request writes is a status and a decision.
LEMMA WritesType ==
  ASSUME NEW kind \in Kinds \ {"submit", "appeal"}
  PROVE  Written(kind) \in Statuses /\ Recorded(kind) \in Decisions
BY DEF Kinds, Approving, Written, Recorded, Statuses, Decisions

\* A count of decisions goes up by one, at the request's report.
LEMMA OneMoreCounts ==
  ASSUME NEW counts \in [Reports -> [Decisions -> Nat]], NEW h \in Requests,
         Report(h) \in Reports, Recorded(request[h].kind) \in Decisions
  PROVE  /\ OneMore(counts, h) \in [Reports -> [Decisions -> Nat]]
         /\ \A r \in Reports, d \in Decisions :
              OneMore(counts, h)[r][d] =
                IF r = Report(h) /\ d = Recorded(request[h].kind) THEN counts[r][d] + 1 ELSE counts[r][d]
<1> DEFINE new == [counts[Report(h)] EXCEPT ![Recorded(request[h].kind)] = @ + 1]
<1>1. counts[Report(h)] \in [Decisions -> Nat]
  OBVIOUS
<1>2. /\ new \in [Decisions -> Nat]
      /\ \A d \in Decisions : new[d] = IF d = Recorded(request[h].kind) THEN counts[Report(h)][d] + 1
                                                                     ELSE counts[Report(h)][d]
  BY <1>1
<1>3. OneMore(counts, h) = [counts EXCEPT ![Report(h)] = new]
  BY DEF OneMore
<1> HIDE DEF new
<1>4. QED
  BY <1>2, <1>3

\* The rows of the database keep their types.
LEMMA RowsType ==
  ASSUME TypeOK, Shape, [Next]_vars
  PROVE  /\ status' \in [Reports -> Statuses] /\ audit' \in [Reports -> [Decisions -> Nat]]
         /\ released' \in Nat /\ referral' \in {"pending", "qualified", "rewarded"}
<1> USE DEF rowVars
<1>1. CASE UNCHANGED rowVars
  BY <1>1 DEF TypeOK
<1>2. ASSUME NEW h \in Requests, StoreReport(h) \/ Appeal(h)
      PROVE  status' \in [Reports -> Statuses] /\ UNCHANGED <<audit, released, referral>>
  BY <1>2 DEF StoreReport, Appeal, TypeOK, Statuses
<1>3. ASSUME NEW h \in Requests, Decide(h)
      PROVE  status' \in [Reports -> Statuses] /\ UNCHANGED <<audit, released, referral>>
  <2>1. request[h].kind \in Kinds \ {"submit", "appeal"}
    BY <1>3, RecordType DEF Decide, At, Shape, Fits
  <2>2. QED
    BY <1>3, <2>1, WritesType DEF Decide, TypeOK
<1>4. ASSUME NEW h \in Requests, Audit(h)
      PROVE  audit' \in [Reports -> [Decisions -> Nat]] /\ UNCHANGED <<status, released, referral>>
  <2>1. request[h].kind \in Kinds \ {"submit"}
    BY <1>4, RecordType DEF Audit, At, Shape, Fits
  <2>2. Recorded(request[h].kind) \in Decisions /\ Report(h) \in Reports
    BY <1>4, <2>1, AtReport DEF Kinds, Recorded, Decisions, Audit, At
  <2>3. audit' = OneMore(audit, h)
    BY <1>4 DEF Audit
  <2>4. audit' \in [Reports -> [Decisions -> Nat]]
    BY <2>2, <2>3, OneMoreCounts DEF TypeOK
  <2>5. QED
    BY <1>4, <2>4 DEF Audit
<1>5. ASSUME NEW h \in Requests, BookTranche(h)
      PROVE  released' \in Nat /\ UNCHANGED <<status, audit, referral>>
  BY <1>5 DEF BookTranche, TypeOK
<1>6. ASSUME NEW h \in Requests, QualifyReferral(h) \/ PayBonus(h)
      PROVE  /\ referral' \in {"pending", "qualified", "rewarded"}
             /\ UNCHANGED <<status, audit, released>>
  BY <1>6 DEF QualifyReferral, PayBonus, TypeOK
<1>7. \/ UNCHANGED rowVars
      \/ \E h \in Requests : \/ StoreReport(h) \/ Appeal(h) \/ Decide(h) \/ Audit(h)
                             \/ BookTranche(h) \/ QualifyReferral(h) \/ PayBonus(h)
  <2>1. ASSUME NEW h \in Requests, Step(h)
        PROVE  \/ UNCHANGED rowVars
               \/ StoreReport(h) \/ Appeal(h) \/ Decide(h) \/ Audit(h)
               \/ BookTranche(h) \/ QualifyReferral(h) \/ PayBonus(h)
    BY <2>1 DEF Step, FindReport, Load, CallAccepted, CallRefused, Progress, MintCertificate,
       FindEscrow, ReleaseAccepted, ReleaseRefused, Die, SelectReferral, CountApproved, BonusFails
  <2>2. QED
    BY <2>1 DEF Next, Begin, Execute, Expire, SubmitOnChain, AppealOnChain, Restart, vars
<1>8. QED
  BY <1>1, <1>2, <1>3, <1>4, <1>5, <1>6, <1>7 DEF TypeOK

\* So do the chain, and what is on its way there.
LEMMA ChainType ==
  ASSUME TypeOK, Shape, [Next]_vars
  PROVE  /\ chain' \in [Reports -> Milestones]
         /\ rewarded' \in [Reports -> Nat] /\ paid' \in [Reports -> Nat]
         /\ inflight' \subseteq Transactions /\ lost' \subseteq Reports
<1> USE DEF chainVars
<1>1. ASSUME UNCHANGED <<chainVars, inflight, lost>>
      PROVE  /\ chain' \in [Reports -> Milestones]
             /\ rewarded' \in [Reports -> Nat] /\ paid' \in [Reports -> Nat]
             /\ inflight' \subseteq Transactions /\ lost' \subseteq Reports
  BY <1>1 DEF TypeOK
<1>2. ASSUME NEW h \in Requests,
             CallAccepted(h) \/ CallRefused(h) \/ ReleaseAccepted(h) \/ ReleaseRefused(h)
      PROVE  inflight' \subseteq Transactions /\ UNCHANGED <<chainVars, lost>>
  <2>1. Report(h) \in Reports
    BY <1>2, AtReport DEF CallAccepted, CallRefused, ReleaseAccepted, ReleaseRefused, At
  <2>2. Call(h) \in Transactions /\ Tx("release", Report(h)) \in Transactions
    BY <2>1 DEF Call, Tx, Transactions
  <2>3. UNCHANGED <<chainVars, lost>>
    BY <1>2 DEF CallAccepted, CallRefused, ReleaseAccepted, ReleaseRefused, historyVars
  <2>4. \/ inflight' = inflight \/ inflight' = inflight \cup {Call(h)}
        \/ inflight' = inflight \cup {Tx("release", Report(h))}
    BY <1>2 DEF CallAccepted, CallRefused, ReleaseAccepted, ReleaseRefused
  <2>5. QED
    BY <2>2, <2>3, <2>4 DEF TypeOK
<1>3. ASSUME NEW t \in inflight, Execute(t)
      PROVE  /\ chain' \in [Reports -> Milestones]
             /\ rewarded' \in [Reports -> Nat] /\ paid' \in [Reports -> Nat]
             /\ inflight' = {} /\ lost' \subseteq Reports
  <2>1. t.kind \in {"verify", "reject", "release"} /\ \A u \in inflight : u.report \in Reports
    BY DEF TypeOK, Transactions
  <2>2. chain' \in [Reports -> Milestones]
    BY <1>3, <2>1 DEF Execute, TypeOK, Milestones
  <2>3. rewarded' \in [Reports -> Nat] /\ paid' \in [Reports -> Nat]
    <3>1. \A f \in [Reports -> Nat] : [f EXCEPT ![t.report] = @ + 1] \in [Reports -> Nat]
      BY <2>1
    <3>2. /\ rewarded' \in {rewarded, [rewarded EXCEPT ![t.report] = @ + 1]}
          /\ paid' \in {paid, [paid EXCEPT ![t.report] = @ + 1]}
      BY <1>3 DEF Execute
    <3>3. rewarded \in [Reports -> Nat] /\ paid \in [Reports -> Nat]
      BY DEF TypeOK
    <3>4. rewarded' \in [Reports -> Nat]
      BY <3>1, <3>2, <3>3
    <3>5. QED
      BY <3>1, <3>2, <3>3, <3>4
  <2>4. QED
    BY <1>3, <2>1, <2>2, <2>3 DEF Execute, TypeOK
<1>4. ASSUME NEW t \in inflight, Expire(t)
      PROVE  inflight' \subseteq Transactions /\ lost' \subseteq Reports /\ UNCHANGED chainVars
  BY <1>4 DEF Expire, TypeOK, Transactions
<1>5. ASSUME NEW r \in Reports, SubmitOnChain(r) \/ AppealOnChain(r)
      PROVE  chain' \in [Reports -> Milestones] /\ UNCHANGED <<rewarded, paid, inflight, lost>>
  BY <1>5 DEF SubmitOnChain, AppealOnChain, TypeOK, Milestones, historyVars
<1>6. ASSUME NEW h \in Requests, Step(h)
      PROVE  \/ UNCHANGED <<chainVars, inflight, lost>>
             \/ CallAccepted(h) \/ CallRefused(h) \/ ReleaseAccepted(h) \/ ReleaseRefused(h)
  BY <1>6 DEF Step, FindReport, StoreReport, Load, Decide, Appeal, Audit, Progress,
     MintCertificate, FindEscrow, BookTranche, Die, SelectReferral, CountApproved,
     QualifyReferral, PayBonus, BonusFails, historyVars
<1>7. QED
  BY <1>1, <1>2, <1>3, <1>4, <1>5, <1>6 DEF Next, Begin, Restart, vars, historyVars, TypeOK

\* The server gets other credentials only when it is restarted.
LEMMA ConfiguredStays == [Next]_vars => configured' = configured \/ Restart
<1> USE DEF serverVars
<1>1. ASSUME NEW h \in Requests, Step(h) PROVE configured' = configured
  BY <1>1 DEF Step, FindReport, StoreReport, Load, CallAccepted, CallRefused, Decide, Appeal, Audit,
     Progress, MintCertificate, FindEscrow, ReleaseAccepted, ReleaseRefused, BookTranche, Die,
     SelectReferral, CountApproved, QualifyReferral, PayBonus, BonusFails
<1>2. QED
  BY <1>1 DEF Next, Begin, Execute, Expire, SubmitOnChain, AppealOnChain, vars

\* And the referral steps, what came of them, and the history.
LEMMA OutcomeType ==
  ASSUME TypeOK, Shape, [Next]_vars
  PROVE  /\ bonus' \in [Requests -> BonusSteps] /\ bonuses' \in Nat /\ certified' \in BOOLEAN
         /\ decided' \in [Reports -> [Decisions -> Nat]]
         /\ overlapped' \subseteq Reports /\ unaudited' \subseteq Reports /\ unbacked' \subseteq Reports
         /\ configured' \in BOOLEAN /\ begun' \in Nat /\ failures' \in Nat
<1> USE DEF outcomeVars, historyVars, serverVars
<1>0. bonus \in [Requests -> BonusSteps]
  BY DEF TypeOK, BonusSteps
<1>1. bonus' \in [Requests -> BonusSteps]
  <2>1. ASSUME NEW h \in Requests, NEW step \in BonusSteps, bonus' = [bonus EXCEPT ![h] = step]
        PROVE  bonus' \in [Requests -> BonusSteps]
    BY <1>0, <2>1
  <2>2. ASSUME NEW h \in Requests, Step(h)
        PROVE  bonus' = bonus \/ \E step \in BonusSteps : bonus' = [bonus EXCEPT ![h] = step]
    BY <2>2 DEF BonusSteps, Step, FindReport, StoreReport, Load, CallAccepted, CallRefused, Decide,
       Appeal, Audit, Progress, MintCertificate, AfterCertificate, FindEscrow, ReleaseAccepted,
       ReleaseRefused, BookTranche, Die, BonusAt, SelectReferral, CountApproved, QualifyReferral,
       PayBonus, BonusFails
  <2>3. Restart => bonus' \in [Requests -> BonusSteps]
    BY DEF Restart, BonusSteps
  <2>4. QED
    BY <1>0, <2>1, <2>2, <2>3 DEF Next, Begin, Execute, Expire, SubmitOnChain, AppealOnChain, vars
<1>2. bonuses' \in Nat /\ certified' \in BOOLEAN
  <2>1. ASSUME NEW h \in Requests, Step(h)
        PROVE  UNCHANGED outcomeVars \/ MintCertificate(h) \/ PayBonus(h)
    BY <2>1 DEF Step, FindReport, StoreReport, Load, CallAccepted, CallRefused, Decide,
       Appeal, Audit, Progress, FindEscrow, ReleaseAccepted, ReleaseRefused, BookTranche, Die,
       SelectReferral, CountApproved, QualifyReferral, BonusFails
  <2>2. UNCHANGED outcomeVars \/ \E h \in Requests : MintCertificate(h) \/ PayBonus(h)
    BY <2>1 DEF Next, Begin, Execute, Expire, SubmitOnChain, AppealOnChain, Restart, vars
  <2>3. ASSUME NEW h \in Requests, MintCertificate(h)
        PROVE  bonuses' = bonuses /\ certified' \in {certified, TRUE}
    BY <2>3 DEF MintCertificate
  <2>4. ASSUME NEW h \in Requests, PayBonus(h)
        PROVE  bonuses' \in {bonuses, bonuses + 1} /\ certified' = certified
    BY <2>4 DEF PayBonus
  <2>5. bonuses \in Nat /\ certified \in BOOLEAN
    BY DEF TypeOK
  <2>6. bonuses' \in Nat
    <3>1. bonuses' \in {bonuses, bonuses + 1}
      BY <2>2, <2>3, <2>4
    <3>2. QED
      BY <2>5, <3>1
  <2>7. certified' \in BOOLEAN
    BY <2>2, <2>3, <2>4, <2>5
  <2>8. QED
    BY <2>6, <2>7
<1>3. overlapped' \subseteq Reports
  <2>1. ASSUME NEW h \in Requests, NEW kind \in Kinds, NEW todo \in Batches, Begin(h, kind, todo)
        PROVE  overlapped' \subseteq Reports
    <3>1. \A i \in DOMAIN todo : todo[i] \in Reports
      BY BatchFacts, LenProperties, ElementOfSeq
    <3>2. QED
      BY <2>1, <3>1 DEF Begin, TypeOK
  <2>2. ASSUME NEW h \in Requests, Step(h) PROVE overlapped' = overlapped
    BY <2>2 DEF Step, FindReport, StoreReport, Load, CallAccepted, CallRefused, Decide,
       Appeal, Audit, Progress, MintCertificate, FindEscrow, ReleaseAccepted, ReleaseRefused,
       BookTranche, Die, SelectReferral, CountApproved, QualifyReferral, PayBonus, BonusFails
  <2>3. QED
    BY <2>1, <2>2 DEF Next, Execute, Expire, SubmitOnChain, AppealOnChain, Restart, vars, TypeOK
<1>4. unaudited' \subseteq Reports
  <2>1. ASSUME NEW h \in Requests, Die(h) PROVE unaudited' \subseteq Reports
    <3>1. At(h, "audit") => Report(h) \in Reports
      BY AtReport DEF At
    <3>2. QED
      BY <2>1, <3>1 DEF Die, TypeOK
  <2>2. ASSUME NEW h \in Requests, Step(h) PROVE unaudited' = unaudited \/ Die(h)
    BY <2>2 DEF Step, FindReport, StoreReport, Load, CallAccepted, CallRefused, Decide,
       Appeal, Audit, Progress, MintCertificate, FindEscrow, ReleaseAccepted, ReleaseRefused,
       BookTranche, SelectReferral, CountApproved, QualifyReferral, PayBonus, BonusFails
  <2>3. CASE Restart
    <3>1. {Report(h) : h \in {g \in Requests : At(g, "audit")}} \subseteq Reports
      BY AtReport DEF At
    <3>2. QED
      BY <2>3, <3>1 DEF Restart, TypeOK
  <2>4. QED
    BY <2>1, <2>2, <2>3 DEF Next, Begin, Execute, Expire, SubmitOnChain, AppealOnChain, vars, TypeOK
<1>5. begun' \in Nat /\ failures' \in Nat
  <2>1. begun' \in {begun, begun + 1} /\ failures' \in {failures, failures + 1}
    BY DEF Next, Begin, Execute, Expire, SubmitOnChain, AppealOnChain, Restart, vars, Step, FindReport,
       StoreReport, Load, CallAccepted, CallRefused, Decide, Appeal, Audit, Progress,
       MintCertificate, FindEscrow, ReleaseAccepted, ReleaseRefused, BookTranche, Die,
       SelectReferral, CountApproved, QualifyReferral, PayBonus, BonusFails
  <2>2. QED
    BY <2>1 DEF TypeOK
<1>6. decided' \in [Reports -> [Decisions -> Nat]] /\ unbacked' \subseteq Reports
  <2>1. ASSUME NEW h \in Requests, Decide(h) \/ Appeal(h)
        PROVE  decided' \in [Reports -> [Decisions -> Nat]] /\ unbacked' \subseteq Reports
    <3>1. Report(h) \in Reports /\ request[h].kind \in Kinds \ {"submit"}
      BY <2>1, AtReport, RecordType DEF Decide, Appeal, At, Shape, Fits
    <3>2. Recorded(request[h].kind) \in Decisions
      BY <3>1 DEF Kinds, Recorded, Decisions
    <3>3. decided' = decided \/ decided' = OneMore(decided, h)
      BY <2>1 DEF Decide, Appeal
    <3>4. decided' \in [Reports -> [Decisions -> Nat]]
      <4>1. decided \in [Reports -> [Decisions -> Nat]]
        BY DEF TypeOK
      <4>2. QED
        BY <3>1, <3>2, <3>3, <4>1, OneMoreCounts
    <3>5. unbacked' \subseteq unbacked \cup {Report(h)}
      BY <2>1 DEF Decide, Appeal
    <3>6. QED
      BY <3>1, <3>4, <3>5 DEF TypeOK
  <2>2. ASSUME NEW h \in Requests, Step(h)
        PROVE  UNCHANGED <<decided, unbacked>> \/ Decide(h) \/ Appeal(h)
    BY <2>2 DEF Step, FindReport, StoreReport, Load, CallAccepted, CallRefused, Audit, Progress,
       MintCertificate, FindEscrow, ReleaseAccepted, ReleaseRefused, BookTranche, Die, SelectReferral,
       CountApproved, QualifyReferral, PayBonus, BonusFails
  <2>3. QED
    BY <2>1, <2>2 DEF Next, Begin, Execute, Expire, SubmitOnChain, AppealOnChain, Restart, vars, TypeOK
<1>7. configured' \in BOOLEAN
  <2>1. Restart => configured' \in BOOLEAN
    BY DEF Restart
  <2>2. QED
    BY <2>1, ConfiguredStays DEF TypeOK
<1>8. QED
  BY <1>1, <1>2, <1>3, <1>4, <1>5, <1>6, <1>7

\* Types and shapes are kept together.
LEMMA TypeStep == TypeOK /\ Shape /\ [Next]_vars => TypeOK' /\ Shape'
<1> SUFFICES ASSUME TypeOK, Shape, [Next]_vars PROVE TypeOK' /\ Shape'
  OBVIOUS
<1>1. request' \in [Requests -> RequestRecord] /\ Shape' /\ LoadOK'
  BY RequestStep
<1>2. QED
  BY <1>1, RowsType, ChainType, OutcomeType DEF TypeOK, RequestRecord, BonusSteps, LoadOK

\* Initially nothing has happened.
LEMMA InitType == Init => TypeOK /\ Shape
<1> SUFFICES ASSUME Init PROVE TypeOK /\ Shape
  OBVIOUS
<1>1. NoRequest \in RequestRecord /\ NoRequest.pc = "idle" /\ NoRequest.todo = <<>>
  BY EmptySeq DEF NoRequest, RequestRecord, Pcs, Kinds
<1>2. TypeOK
  BY <1>1 DEF Init, TypeOK, At, RequestRecord, Statuses, Decisions, Milestones
<1>3. Shape
  BY <1>1, EmptySeq DEF Init, Shape, Fits, NoRequest
<1>4. QED
  BY <1>2, <1>3

\* Every row, request and transaction keeps its type, and every request its shape.
THEOREM ReviewShapeCorrect == Spec => [](TypeOK /\ Shape)
BY InitType, TypeStep, PTL DEF Spec

\* In particular the types.
THEOREM ReviewTypeCorrect == Spec => []TypeOK
BY ReviewShapeCorrect, PTL

-----------------------------------------------------------------------------
(* Where a step of the system leaves one request, and one report *)

\* The read of one report, a turn to another statement, the next of a batch, a
\* beginning.
Reads(h) ==
  /\ At(h, "load")
  /\ status[request[h].todo[request[h].read + 1]] = Expected(request[h].kind)
  /\ \/ /\ Others(h) /\ request[h].read + 1 < Len(request[h].todo)
        /\ request'[h].pc = "load" /\ request'[h].kind = request[h].kind
        /\ request'[h].todo = request[h].todo /\ request'[h].read = request[h].read + 1
     \/ /\ ~(request[h].read + 1 < Len(request[h].todo))
        /\ \/ GoesOnWithout(h) /\ Turned(h, "write")
           \/ request[h].kind # "appeal" /\ Turned(h, "call")

Turns(h) ==
  \/ At(h, "find") /\ Turned(h, "insert")
  \/ At(h, "find") /\ Turned(h, "resubmit") /\ status[Report(h)] = "rejected"
  \/ At(h, "call") /\ Turned(h, "write") /\ (CallAccepted(h) \/ request[h].kind = "deny")
  \/ At(h, "write") /\ Turned(h, "audit") /\ (Decide(h) \/ Appeal(h))
  \/ At(h, "audit") /\ Turned(h, "progress") /\ UNCHANGED bonus
  \/ At(h, "progress") /\ Approved = Reports /\ Turned(h, "mint") /\ UNCHANGED bonus
  \/ /\ At(h, "progress") \/ At(h, "mint")
     /\ Turned(h, "escrow") /\ request[h].kind = "approve"
     /\ bonus' = [bonus EXCEPT ![h] = "select"]
  \/ At(h, "escrow") /\ Turned(h, "release")
  \/ At(h, "release") /\ Turned(h, "book") /\ ReleaseAccepted(h)

Advances(h) == Advanced(h) /\ request[h].pc \in {"call", "write", "audit", "progress", "mint"}

\* the request ended, by itself or with the process
Stopped(h) == request'[h] = NoRequest

Begins(h) == \E kind \in Kinds, todo \in Batches : Begin(h, kind, todo)

\* A request that moves does so in one of these ways.
LEMMA Moves ==
  ASSUME TypeOK, Shape, NEW h \in Requests, Step(h)
  PROVE  UNCHANGED request \/ Ended(h) \/ Advances(h) \/ Turns(h) \/ Reads(h)
<1>1. CASE FindReport(h) \/ StoreReport(h)
  BY <1>1, Local DEF FindReport, Turns
<1>2. CASE Load(h)
  BY <1>2, LocalLoad DEF Load, At, Reads
<1>3. CASE CallAccepted(h) \/ CallRefused(h)
  BY <1>3, Local DEF CallAccepted, CallRefused, Turns, Advances, At
<1>4. CASE Decide(h) \/ Appeal(h)
  BY <1>4, Local DEF Decide, Appeal, Turns
<1>5. CASE Audit(h)
  BY <1>5, Local DEF Audit, Turns, Advances, At
<1>6. CASE Progress(h) \/ MintCertificate(h)
  BY <1>6, LocalLater DEF Progress, MintCertificate, Turns, Advances, At
<1>7. CASE FindEscrow(h) \/ ReleaseAccepted(h) \/ ReleaseRefused(h) \/ BookTranche(h)
  BY <1>7, LocalLater DEF FindEscrow, ReleaseAccepted, Turns
<1>8. CASE Die(h)
  BY <1>8, LocalLater DEF Advances
<1>9. CASE SelectReferral(h) \/ CountApproved(h) \/ QualifyReferral(h) \/ PayBonus(h) \/ BonusFails(h)
  BY <1>9 DEF SelectReferral, CountApproved, QualifyReferral, PayBonus, BonusFails
<1>10. QED
  BY <1>1, <1>2, <1>3, <1>4, <1>5, <1>6, <1>7, <1>8, <1>9 DEF Step

\* A step of one request leaves the others where they are.
LEMMA StepOthers ==
  ASSUME TypeOK, Shape, NEW h \in Requests, Step(h)
  PROVE  \A g \in Requests \ {h} : request'[g] = request[g]
<1>1. UNCHANGED request \/ Others(h)
  <2>1. Ended(h) \/ Advances(h) => Others(h)
    BY DEF Ended, Advances, Advanced
  <2>2. Turns(h) => Others(h)
    BY Zenon DEF Turns, Turned
  <2>3. Reads(h) => Others(h)
    BY Zenon DEF Reads, Turned
  <2>4. QED
    BY Moves, <2>1, <2>2, <2>3
<1>2. QED
  BY <1>1 DEF Others

\* In any step of the system each request stays, begins, or moves as above.
LEMMA EachMoves ==
  ASSUME TypeOK, Shape, [Next]_vars, NEW h \in Requests
  PROVE  \/ request'[h] = request[h]
         \/ Begins(h) \/ Stopped(h) \/ Advances(h) \/ Turns(h) \/ Reads(h)
<1>1. ASSUME NEW g \in Requests, Step(g)
      PROVE  \/ request'[h] = request[h]
             \/ Stopped(h) \/ Advances(h) \/ Turns(h) \/ Reads(h)
  BY <1>1, Moves, StepOthers DEF Ended, Stopped
<1>2. ASSUME NEW g \in Requests, NEW kind \in Kinds, NEW todo \in Batches, Begin(g, kind, todo)
      PROVE  request'[h] = request[h] \/ Begins(h)
  <2>1. CASE g = h
    BY <1>2, <2>1 DEF Begins
  <2>2. CASE g # h
    <3>1. request' = [request EXCEPT ![g] = request'[g]] /\ request \in [Requests -> RequestRecord]
      BY <1>2, RecordType DEF Begin
    <3>2. QED
      BY <2>2, <3>1
  <2>3. QED
    BY <2>1, <2>2
<1>3. Restart => Stopped(h)
  BY DEF Restart, Stopped
<1>4. QED
  BY <1>1, <1>2, <1>3 DEF Next, Execute, Expire, SubmitOnChain, AppealOnChain, vars

\* What a beginning request is.
LEMMA BeginsFresh ==
  ASSUME TypeOK, NEW h \in Requests, Begins(h)
  PROVE  /\ At(h, "idle") /\ bonus[h] = "idle" /\ UNCHANGED <<status, bonus, bonuses>>
         /\ request'[h].pc \in {"find", "load"} /\ request'[h].read = 0
<1>1. PICK kind \in Kinds, todo \in Batches : Begin(h, kind, todo)
  BY DEF Begins
<1>2. request'[h] = [pc |-> IF kind = "submit" THEN "find" ELSE "load", kind |-> kind,
                     todo |-> todo, read |-> 0]
  BY <1>1 DEF Begin, TypeOK
<1>3. QED
  BY <1>1, <1>2 DEF Begin, rowVars, outcomeVars

\* A status is changed only by the request that is at the report.
LEMMA StatusMoves ==
  ASSUME TypeOK, Shape, [Next]_vars, NEW r \in Reports
  PROVE  \/ status'[r] = status[r]
         \/ \E h \in Requests : Report(h) = r /\ (StoreReport(h) \/ Decide(h) \/ Appeal(h))
<1> USE DEF rowVars
<1>1. ASSUME NEW h \in Requests, StoreReport(h) \/ Decide(h) \/ Appeal(h), Report(h) # r
      PROVE  status'[r] = status[r]
  BY <1>1 DEF StoreReport, Decide, Appeal, TypeOK
<1>2. ASSUME NEW h \in Requests, Step(h)
      PROVE  status' = status \/ StoreReport(h) \/ Decide(h) \/ Appeal(h)
  BY <1>2 DEF Step, FindReport, Load, CallAccepted, CallRefused, Audit, Progress, MintCertificate,
     FindEscrow, ReleaseAccepted, ReleaseRefused, BookTranche, Die, SelectReferral, CountApproved,
     QualifyReferral, PayBonus, BonusFails
<1>3. QED
  BY <1>1, <1>2 DEF Next, Begin, Execute, Expire, SubmitOnChain, AppealOnChain, Restart, vars

\* The history only grows.
LEMMA HistoryGrows ==
  ASSUME [Next]_vars
  PROVE  /\ overlapped \subseteq overlapped' /\ lost \subseteq lost'
         /\ unaudited \subseteq unaudited' /\ unbacked \subseteq unbacked'
<1> USE DEF historyVars
<1>1. ASSUME NEW h \in Requests, Step(h)
      PROVE  /\ UNCHANGED <<overlapped, lost>>
             /\ unaudited \subseteq unaudited' /\ unbacked \subseteq unbacked'
  BY <1>1 DEF Step, FindReport, StoreReport, Load, CallAccepted, CallRefused, Decide, Appeal, Audit,
     Progress, MintCertificate, FindEscrow, ReleaseAccepted, ReleaseRefused, BookTranche, Die,
     SelectReferral, CountApproved, QualifyReferral, PayBonus, BonusFails
<1>2. QED
  BY <1>1 DEF Next, Begin, Execute, Expire, SubmitOnChain, AppealOnChain, Restart, vars

-----------------------------------------------------------------------------
(* Every decision is audited                                                 *)

Closed == {"approved", "rejected", "final_rejected"}

\* How the requests that have yet to record a decision change when one moves.
LEMMA RecordingMoves ==
  ASSUME NEW h \in Requests, \A g \in Requests \ {h} : request'[g] = request[g], NEW r, NEW d
  PROVE  Recording(r, d)' =
           IF request'[h].pc = "audit" /\ Report(h)' = r /\ Recorded(request'[h].kind) = d
           THEN Recording(r, d) \cup {h} ELSE Recording(r, d) \ {h}
<1>1. \A g \in Requests \ {h} : g \in Recording(r, d)' <=> g \in Recording(r, d)
  BY DEF Recording, At, Report
<1>2. /\ Recording(r, d) \subseteq Requests /\ Recording(r, d)' \subseteq Requests
      /\ h \in Recording(r, d)' <=>
           request'[h].pc = "audit" /\ Report(h)' = r /\ Recorded(request'[h].kind) = d
  BY DEF Recording, At
<1>3. QED
  BY <1>1, <1>2

\* They are finitely many.
LEMMA RecordingFinite ==
  ASSUME NEW r, NEW d
  PROVE  IsFiniteSet(Recording(r, d)) /\ Cardinality(Recording(r, d)) \in Nat
<1>1. Recording(r, d) \subseteq Requests
  BY DEF Recording
<1>2. QED
  BY <1>1, ReviewAssumption, FS_Subset, FS_CardinalityType

\* Steps that count nothing and move no request to or from its audit entry.
LEMMA AuditKept ==
  ASSUME TypeOK, DecisionsAreAudited, unaudited \subseteq unaudited', UNCHANGED <<audit, decided>>,
         \A r \in Reports : status'[r] \in Closed => status'[r] = status[r],
         \A h \in Requests : At(h, "audit") \/ request'[h].pc = "audit" => request'[h] = request[h]
  PROVE  DecisionsAreAudited'
<1>1. ASSUME NEW r \in Reports \ unaudited', NEW d \in Decisions
      PROVE  Recording(r, d)' = Recording(r, d)
  BY DEF Recording, At, Report
<1>2. ASSUME NEW r \in Reports \ unaudited', NEW d \in Decisions
      PROVE  decided'[r][d] = audit'[r][d] + Cardinality(Recording(r, d)')
  BY <1>1, <1>2 DEF DecisionsAreAudited
<1>3. ASSUME NEW r \in Reports \ unaudited', status'[r] \in Closed
      PROVE  \E k \in Kinds \ {"submit", "appeal"} :
               Written(k) = status'[r] /\ decided'[r][Recorded(k)] > 0
  BY <1>3 DEF DecisionsAreAudited, Closed
<1>4. QED
  BY <1>2, <1>3 DEF DecisionsAreAudited, Closed

\* A decision is counted as one to be recorded.
LEMMA AuditDecides ==
  ASSUME TypeOK, Shape, DecisionsAreAudited, NEW h \in Requests, Turned(h, "audit"),
         At(h, "write"), UNCHANGED <<audit, unaudited>>, decided' = OneMore(decided, h),
         \A r \in Reports \ {Report(h)} : status'[r] = status[r],
         \/ request[h].kind = "appeal" /\ status'[Report(h)] = "appealed"
         \/ request[h].kind # "appeal" /\ status'[Report(h)] = Written(request[h].kind)
  PROVE  DecisionsAreAudited'
<1>1. /\ Report(h) \in Reports /\ request[h].kind \in Kinds \ {"submit"}
      /\ \A g \in Requests \ {h} : request'[g] = request[g]
      /\ request'[h].pc = "audit" /\ request'[h].kind = request[h].kind /\ Report(h)' = Report(h)
  BY AtReport, RecordType DEF At, Shape, Fits, Turned, Others, Report
<1>2. Recorded(request[h].kind) \in Decisions
  BY <1>1 DEF Kinds, Recorded, Decisions
<1>3. \A r \in Reports, d \in Decisions :
        decided'[r][d] = IF r = Report(h) /\ d = Recorded(request[h].kind)
                         THEN decided[r][d] + 1 ELSE decided[r][d]
  <2>1. decided \in [Reports -> [Decisions -> Nat]]
    BY DEF TypeOK
  <2>2. QED
    BY <1>1, <1>2, <2>1, OneMoreCounts
<1>4. \A r \in Reports, d \in Decisions : decided[r][d] \in Nat /\ audit[r][d] \in Nat
  BY DEF TypeOK
<1>5. ASSUME NEW r \in Reports \ unaudited, NEW d \in Decisions
      PROVE  decided'[r][d] = audit'[r][d] + Cardinality(Recording(r, d)')
  <2>0. h \notin Recording(r, d)
    BY DEF Recording, At
  <2>1. h \notin Recording(r, d) /\ IsFiniteSet(Recording(r, d)) /\ Cardinality(Recording(r, d)) \in Nat
    BY <2>0, RecordingFinite
  <2>2. decided[r][d] = audit[r][d] + Cardinality(Recording(r, d))
    BY DEF DecisionsAreAudited
  <2>3. Recording(r, d)' = IF Report(h) = r /\ Recorded(request[h].kind) = d
                           THEN Recording(r, d) \cup {h} ELSE Recording(r, d)
    BY <1>1, <2>1, RecordingMoves
  <2>4. Cardinality(Recording(r, d) \cup {h}) = Cardinality(Recording(r, d)) + 1
    BY <2>1, FS_AddElement
  <2>5. QED
    BY <1>3, <1>4, <2>1, <2>2, <2>3, <2>4
<1>6. ASSUME NEW r \in Reports \ unaudited, status'[r] \in Closed
      PROVE  \E k \in Kinds \ {"submit", "appeal"} :
               Written(k) = status'[r] /\ decided'[r][Recorded(k)] > 0
  <2>1. CASE r = Report(h)
    <3>1. request[h].kind \in Kinds \ {"submit", "appeal"} /\ status'[r] = Written(request[h].kind)
      BY <1>1, <1>6, <2>1 DEF Closed
    <3>2. decided'[r][Recorded(request[h].kind)] > 0
      BY <1>2, <1>3, <1>4, <2>1
    <3>3. QED
      BY <3>1, <3>2
  <2>2. CASE r # Report(h)
    <3>1. PICK k \in Kinds \ {"submit", "appeal"} :
            Written(k) = status[r] /\ decided[r][Recorded(k)] > 0
      BY <1>6, <2>2 DEF DecisionsAreAudited, Closed
    <3>2. decided'[r][Recorded(k)] = decided[r][Recorded(k)]
      <4>1. Recorded(k) \in Decisions
        BY WritesType
      <4>2. QED
        BY <1>3, <2>2, <4>1
    <3>3. QED
      BY <2>2, <3>1, <3>2
  <2>3. QED
    BY <2>1, <2>2
<1>7. QED
  BY <1>5, <1>6 DEF DecisionsAreAudited, Closed

\* Its entry counts it off.
LEMMA AuditRecords ==
  ASSUME TypeOK, Shape, DecisionsAreAudited, NEW h \in Requests, Audit(h)
  PROVE  DecisionsAreAudited'
<1>1. /\ At(h, "audit") /\ audit' = OneMore(audit, h) /\ UNCHANGED <<status, decided, unaudited>>
      /\ Report(h) \in Reports /\ request[h].kind \in Kinds \ {"submit"}
      /\ \A g \in Requests \ {h} : request'[g] = request[g]
  BY AtReport, RecordType, StepOthers DEF Audit, At, Shape, Fits, historyVars, Step
<1>2. request'[h].pc # "audit"
  BY Local DEF Audit, Turned, Ended, NoRequest, Advanced
<1>3. Recorded(request[h].kind) \in Decisions
  BY <1>1 DEF Kinds, Recorded, Decisions
<1>4. \A r \in Reports, d \in Decisions :
        audit'[r][d] = IF r = Report(h) /\ d = Recorded(request[h].kind)
                       THEN audit[r][d] + 1 ELSE audit[r][d]
  <2>1. audit \in [Reports -> [Decisions -> Nat]]
    BY DEF TypeOK
  <2>2. QED
    BY <1>1, <1>3, <2>1, OneMoreCounts
<1>5. \A r \in Reports, d \in Decisions : decided[r][d] \in Nat /\ audit[r][d] \in Nat
  BY DEF TypeOK
<1>6. ASSUME NEW r \in Reports \ unaudited, NEW d \in Decisions
      PROVE  decided'[r][d] = audit'[r][d] + Cardinality(Recording(r, d)')
  <2>1. IsFiniteSet(Recording(r, d)) /\ Cardinality(Recording(r, d)) \in Nat
    BY RecordingFinite
  <2>2. decided[r][d] = audit[r][d] + Cardinality(Recording(r, d))
    BY DEF DecisionsAreAudited
  <2>3. Recording(r, d)' = Recording(r, d) \ {h}
    BY <1>1, <1>2, RecordingMoves
  <2>4. h \in Recording(r, d) <=> Report(h) = r /\ Recorded(request[h].kind) = d
    BY <1>1 DEF Recording
  <2>5. Cardinality(Recording(r, d) \ {h}) =
          IF h \in Recording(r, d) THEN Cardinality(Recording(r, d)) - 1 ELSE Cardinality(Recording(r, d))
    BY <2>1, FS_RemoveElement
  <2>6. QED
    BY <1>1, <1>4, <1>5, <2>1, <2>2, <2>3, <2>4, <2>5
<1>7. QED
  BY <1>1, <1>6 DEF DecisionsAreAudited

\* A request that dies at its entry leaves its report out of account.
LEMMA AuditDies ==
  ASSUME TypeOK, Shape, DecisionsAreAudited, NEW h \in Requests, Die(h)
  PROVE  DecisionsAreAudited'
<1>1. /\ UNCHANGED <<status, audit, decided>>
      /\ unaudited' = IF At(h, "audit") THEN unaudited \cup {Report(h)} ELSE unaudited
      /\ \A g \in Requests \ {h} : request'[g] = request[g]
  BY StepOthers DEF Die, rowVars, Step
<1>2. request'[h].pc # "audit"
  BY LocalLater DEF Ended, NoRequest, Advanced
<1>3. ASSUME NEW r \in Reports \ unaudited', NEW d \in Decisions
      PROVE  Recording(r, d)' = Recording(r, d) /\ r \notin unaudited
  <2>1. h \notin Recording(r, d) /\ r \notin unaudited
    BY <1>1 DEF Recording
  <2>2. QED
    BY <1>1, <1>2, <2>1, RecordingMoves
<1>4. ASSUME NEW r \in Reports \ unaudited', NEW d \in Decisions
      PROVE  decided'[r][d] = audit'[r][d] + Cardinality(Recording(r, d)')
  BY <1>1, <1>3 DEF DecisionsAreAudited
<1>5. \A r \in Reports \ unaudited' : r \notin unaudited
  BY <1>1
<1>6. QED
  BY <1>1, <1>4, <1>5 DEF DecisionsAreAudited

\* So does a restart for all requests at once.
LEMMA AuditRestarts ==
  ASSUME TypeOK, DecisionsAreAudited, Restart
  PROVE  DecisionsAreAudited'
<1>1. /\ UNCHANGED <<status, audit, decided>>
      /\ unaudited' = unaudited \cup {Report(h) : h \in {g \in Requests : At(g, "audit")}}
      /\ \A h \in Requests : request'[h].pc = "idle"
  BY DEF Restart, rowVars, NoRequest
<1>2. ASSUME NEW r \in Reports \ unaudited', NEW d \in Decisions
      PROVE  Recording(r, d)' = Recording(r, d) /\ r \notin unaudited
  <2>1. Recording(r, d)' = {} /\ Recording(r, d) = {} /\ r \notin unaudited
    BY <1>1 DEF Recording, At
  <2>2. QED
    BY <2>1
<1>3. ASSUME NEW r \in Reports \ unaudited', NEW d \in Decisions
      PROVE  decided'[r][d] = audit'[r][d] + Cardinality(Recording(r, d)')
  BY <1>1, <1>2 DEF DecisionsAreAudited
<1>4. \A r \in Reports \ unaudited' : r \notin unaudited
  BY <1>1
<1>5. QED
  BY <1>1, <1>3, <1>4 DEF DecisionsAreAudited

\* Every step keeps it.
LEMMA AuditStep ==
  ASSUME TypeOK, Shape, DecisionsAreAudited, [Next]_vars
  PROVE  DecisionsAreAudited'
<1> USE DEF rowVars, historyVars
<1>1. ASSUME NEW h \in Requests, Decide(h)
      PROVE  DecisionsAreAudited'
  <2>1. Report(h) \in Reports
    BY <1>1, AtReport DEF Decide, At
  <2>2. /\ Turned(h, "audit") /\ At(h, "write") /\ request[h].kind # "appeal"
        /\ UNCHANGED <<audit, unaudited>> /\ decided' = OneMore(decided, h)
        /\ status' = [status EXCEPT ![Report(h)] = Written(request[h].kind)]
    BY <1>1, Local DEF Decide
  <2>3. /\ status'[Report(h)] = Written(request[h].kind)
        /\ \A r \in Reports \ {Report(h)} : status'[r] = status[r]
    BY <2>1, <2>2 DEF TypeOK
  <2>4. QED
    BY <2>2, <2>3, AuditDecides
<1>2. ASSUME NEW h \in Requests, Appeal(h), status[Report(h)] = "rejected"
      PROVE  DecisionsAreAudited'
  <2>1. Report(h) \in Reports
    BY <1>2, AtReport DEF Appeal, At
  <2>2. /\ Turned(h, "audit") /\ At(h, "write") /\ request[h].kind = "appeal"
        /\ UNCHANGED <<audit, unaudited>> /\ decided' = OneMore(decided, h)
        /\ status' = [status EXCEPT ![Report(h)] = "appealed"]
    BY <1>2, GotoTurns DEF Appeal, Pcs
  <2>3. /\ status'[Report(h)] = "appealed"
        /\ \A r \in Reports \ {Report(h)} : status'[r] = status[r]
    BY <2>1, <2>2 DEF TypeOK
  <2>4. QED
    BY <2>2, <2>3, AuditDecides
<1>3. ASSUME \A h \in Requests : /\ ~Decide(h) /\ ~Audit(h) /\ ~Die(h)
                                 /\ ~(Appeal(h) /\ status[Report(h)] = "rejected"),
             ~Restart
      PROVE  DecisionsAreAudited'
  <2>1. UNCHANGED <<audit, decided>>
    <3>1. ASSUME NEW h \in Requests, Step(h) PROVE UNCHANGED <<audit, decided>>
      BY <1>3, <3>1 DEF Step, FindReport, StoreReport, Load, CallAccepted, CallRefused, Appeal, Progress,
         MintCertificate, FindEscrow, ReleaseAccepted, ReleaseRefused, BookTranche, SelectReferral,
         CountApproved, QualifyReferral, PayBonus, BonusFails
    <3>2. QED
      BY <1>3, <3>1 DEF Next, Begin, Execute, Expire, SubmitOnChain, AppealOnChain, vars
  <2>2. ASSUME NEW r \in Reports, status'[r] \in Closed PROVE status'[r] = status[r]
    <3>1. ASSUME NEW h \in Requests, Report(h) = r, StoreReport(h) \/ Appeal(h)
          PROVE  status'[r] = status[r]
      BY <1>3, <2>2, <3>1 DEF StoreReport, Appeal, TypeOK, Closed
    <3>2. QED
      BY <1>3, <3>1, StatusMoves
  <2>3. ASSUME NEW h \in Requests, request'[h].pc = "audit" PROVE request'[h] = request[h]
    <3>1. Begins(h) => request'[h].pc \in {"find", "load"}
      BY BeginsFresh
    <3>2. Stopped(h) => request'[h].pc = "idle"
      BY DEF Stopped, NoRequest
    <3>3. Advances(h) => request'[h].pc = "call"
      BY DEF Advances, Advanced
    <3>4. Reads(h) => request'[h].pc \in {"load", "write", "call"}
      BY DEF Reads, Turned
    <3>5. Turns(h) => Decide(h) \/ Appeal(h)
      BY <2>3 DEF Turns, Turned
    <3>6. Appeal(h) => Ended(h)
      BY <1>3, DoneEnds DEF Appeal
    <3>7. QED
      BY <1>3, <2>3, <3>1, <3>2, <3>3, <3>4, <3>5, <3>6, EachMoves DEF Ended, NoRequest
  <2>4. ASSUME NEW h \in Requests, At(h, "audit") PROVE request'[h] = request[h]
    <3>1. ASSUME Step(h) PROVE request' = request
      BY <1>3, <2>4, <3>1 DEF Step, FindReport, StoreReport, Load, CallAccepted, CallRefused, Appeal,
         Progress, MintCertificate, FindEscrow, ReleaseAccepted, ReleaseRefused, BookTranche,
         SelectReferral, CountApproved, QualifyReferral, PayBonus, BonusFails, At
    <3>2. ASSUME NEW g \in Requests, Step(g) PROVE request'[h] = request[h]
      BY <3>1, <3>2, StepOthers
    <3>3. ASSUME NEW g \in Requests, Begins(g) PROVE request'[h] = request[h]
      <4>1. At(g, "idle") /\ h # g
        BY <2>4, <3>3, BeginsFresh DEF At
      <4>2. QED
        BY <3>3, <4>1, RecordType DEF Begins, Begin
    <3>4. QED
      BY <1>3, <3>2, <3>3 DEF Next, Begins, Execute, Expire, SubmitOnChain, AppealOnChain, vars
  <2>5. QED
    BY <2>1, <2>2, <2>3, <2>4, AuditKept, HistoryGrows
<1>4. QED
  BY <1>1, <1>2, <1>3, AuditRecords, AuditDies, AuditRestarts

\* Every decision of a report is in the audit log, or about to be, exactly as
\* often as it was taken, and the status in force is one of them, unless a
\* request died between the two: for any number of racing requests.
THEOREM AuditCorrect == Spec => []DecisionsAreAudited
<1>1. Init => DecisionsAreAudited
  <2> SUFFICES ASSUME Init PROVE DecisionsAreAudited
    OBVIOUS
  <2>1. \A r, d : Recording(r, d) = {}
    BY DEF Init, Recording, At, NoRequest
  <2>2. ASSUME NEW r \in Reports, NEW d \in Decisions
        PROVE  decided[r][d] = audit[r][d] + Cardinality(Recording(r, d))
    <3>1. decided[r][d] = 0 /\ audit[r][d] = 0
      BY DEF Init
    <3>2. Cardinality(Recording(r, d)) = 0
      BY <2>1, FS_EmptySet
    <3>3. QED
      BY <3>1, <3>2
  <2>3. QED
    BY <2>2 DEF Init, DecisionsAreAudited
<1>2. TypeOK /\ Shape /\ DecisionsAreAudited /\ [Next]_vars => DecisionsAreAudited'
  BY AuditStep
<1>3. QED
  BY <1>1, <1>2, ReviewShapeCorrect, PTL DEF Spec

-----------------------------------------------------------------------------
(* What is approved is rewarded                                              *)

OnWay(r) == Tx("verify", r) \in inflight \/ chain[r] = "Approved"

RewardOnce == \A r \in Reports : rewarded[r] = IF chain[r] = "Approved" THEN 1 ELSE 0

\* A request that is about to approve a report has its verification on the way,
\* unless it grants an appeal without the credentials to send one.
RewardInv ==
  /\ RewardOnce
  /\ \A r \in Reports \ (lost \cup unbacked) : status[r] = "approved" => OnWay(r)
  /\ \A h \in Requests :
       At(h, "write") /\ request[h].kind \in Approving /\ Report(h) \notin lost =>
         OnWay(Report(h)) \/ GoesOnWithout(h)

\* The contract changes only in these ways.
LEMMA ChainMoves ==
  ASSUME [Next]_vars
  PROVE  \/ UNCHANGED <<chain, rewarded>> /\ inflight \subseteq inflight'
         \/ \E t \in inflight : Execute(t)
         \/ \E t \in inflight : Expire(t)
         \/ \E r \in Reports : SubmitOnChain(r) \/ AppealOnChain(r)
<1> USE DEF chainVars
<1>1. ASSUME NEW h \in Requests, Step(h)
      PROVE  UNCHANGED <<chain, rewarded>> /\ inflight \subseteq inflight'
  BY <1>1 DEF Step, FindReport, StoreReport, Load, CallAccepted, CallRefused, Decide, Appeal, Audit,
     Progress, MintCertificate, FindEscrow, ReleaseAccepted, ReleaseRefused, BookTranche, Die,
     SelectReferral, CountApproved, QualifyReferral, PayBonus, BonusFails
<1>2. QED
  BY <1>1 DEF Next, Begin, Restart, vars

\* What is in flight names a report.
LEMMA InFlight ==
  ASSUME TypeOK, NEW t \in inflight
  PROVE  /\ t.report \in Reports /\ t.kind \in {"verify", "reject", "release"}
         /\ t = Tx(t.kind, t.report)
BY DEF TypeOK, Transactions, Tx

\* A reward is minted exactly when the milestone becomes approved.
LEMMA RewardOnceStep ==
  ASSUME TypeOK, RewardOnce, [Next]_vars
  PROVE  RewardOnce'
<1>1. CASE UNCHANGED <<chain, rewarded>>
  BY <1>1 DEF RewardOnce
<1>2. ASSUME NEW t \in inflight, Execute(t)
      PROVE  RewardOnce'
  <2>1. t.report \in Reports /\ t.kind \in {"verify", "reject", "release"}
    BY InFlight
  <2>2. CASE t.kind = "verify"
    <3>1. /\ chain' = [chain EXCEPT ![t.report] = "Approved"] /\ chain[t.report] = "Pending"
          /\ rewarded' = [rewarded EXCEPT ![t.report] = @ + 1]
      BY <1>2, <2>2 DEF Execute, WouldSucceed
    <3>2. chain'[t.report] = "Approved" /\ rewarded'[t.report] = rewarded[t.report] + 1
      BY <2>1, <3>1 DEF TypeOK
    <3>3. rewarded[t.report] = 0
      BY <2>1, <3>1 DEF RewardOnce
    <3>4. \A r \in Reports \ {t.report} : chain'[r] = chain[r] /\ rewarded'[r] = rewarded[r]
      BY <3>1 DEF TypeOK
    <3>5. rewarded'[t.report] = 1
      BY <3>2, <3>3
    <3>6. QED
      BY <3>2, <3>4, <3>5 DEF RewardOnce
  <2>3. CASE t.kind = "reject"
    <3>1. /\ chain' = [chain EXCEPT ![t.report] = "Rejected"] /\ chain[t.report] = "Pending"
          /\ rewarded' = rewarded
      BY <1>2, <2>3 DEF Execute, WouldSucceed
    <3>2. QED
      BY <2>1, <3>1 DEF RewardOnce, TypeOK
  <2>4. CASE t.kind = "release"
    BY <1>1, <1>2, <2>4 DEF Execute
  <2>5. QED
    BY <2>1, <2>2, <2>3, <2>4
<1>3. ASSUME NEW r \in Reports, SubmitOnChain(r) \/ AppealOnChain(r)
      PROVE  RewardOnce'
  <2>1. PICK v \in {"Pending", "Appealed"} : chain' = [chain EXCEPT ![r] = v]
    BY <1>3 DEF SubmitOnChain, AppealOnChain
  <2>2. chain[r] # "Approved" /\ rewarded' = rewarded
    BY <1>3 DEF SubmitOnChain, AppealOnChain
  <2>3. QED
    BY <2>1, <2>2 DEF RewardOnce, TypeOK
<1>4. ASSUME NEW t \in inflight, Expire(t)
      PROVE  RewardOnce'
  BY <1>1, <1>4 DEF Expire, chainVars
<1>5. QED
  BY <1>1, <1>2, <1>3, <1>4, ChainMoves

\* What is on the way arrives, or is lost.
LEMMA OnWayStays ==
  ASSUME TypeOK, [Next]_vars, NEW r \in Reports, r \notin lost', OnWay(r)
  PROVE  OnWay(r)'
<1>1. CASE UNCHANGED <<chain, rewarded>> /\ inflight \subseteq inflight'
  BY <1>1 DEF OnWay
<1>2. ASSUME NEW t \in inflight, Execute(t)
      PROVE  OnWay(r)'
  <2>1. t.report \in Reports /\ t = Tx(t.kind, t.report)
    BY InFlight
  <2>2. CASE chain[r] = "Approved"
    <3>1. chain' = chain \/ (chain[t.report] = "Pending" /\ \E v \in Milestones :
                                chain' = [chain EXCEPT ![t.report] = v])
      BY <1>2 DEF Execute, WouldSucceed, Milestones, TypeOK, Transactions
    <3>2. QED
      BY <2>1, <2>2, <3>1 DEF OnWay, TypeOK
  <2>3. CASE Tx("verify", r) \in inflight
    <3>1. Tx("verify", r).report = r /\ Tx("verify", r).kind = "verify"
      BY DEF Tx
    <3>2. Tx("verify", r) = t
      BY <1>2, <2>3, <3>1 DEF Execute
    <3>3. chain'[r] = "Approved"
      BY <1>2, <2>1, <3>1, <3>2 DEF Execute, TypeOK
    <3>4. QED
      BY <3>3 DEF OnWay
  <2>4. QED
    BY <2>2, <2>3 DEF OnWay
<1>3. ASSUME NEW t \in inflight, Expire(t)
      PROVE  OnWay(r)'
  <2>1. Tx("verify", r).report = r
    BY DEF Tx
  <2>2. QED
    BY <1>3, <2>1 DEF Expire, OnWay, chainVars
<1>4. ASSUME NEW s \in Reports, SubmitOnChain(s) \/ AppealOnChain(s)
      PROVE  OnWay(r)'
  <2>1. /\ chain[s] # "Approved" /\ inflight' = inflight
        /\ \E v \in Milestones : chain' = [chain EXCEPT ![s] = v]
    BY <1>4 DEF SubmitOnChain, AppealOnChain, Milestones
  <2>2. QED
    BY <2>1 DEF OnWay, TypeOK
<1>5. QED
  BY <1>1, <1>2, <1>3, <1>4, ChainMoves

\* Every step keeps it: approvals come from requests whose call was accepted.
LEMMA RewardStep ==
  ASSUME TypeOK, Shape, RewardInv, [Next]_vars
  PROVE  RewardInv'
<1>1. RewardOnce'
  BY RewardOnceStep DEF RewardInv
<1>2. ASSUME NEW r \in Reports, r \notin lost' \cup unbacked', status'[r] = "approved"
      PROVE  OnWay(r)'
  <2>1. r \notin lost \cup unbacked
    BY <1>2, HistoryGrows
  <2>2. CASE status'[r] = status[r]
    BY <1>2, <2>1, <2>2, OnWayStays DEF RewardInv
  <2>3. ASSUME NEW h \in Requests, Report(h) = r, StoreReport(h) \/ Decide(h) \/ Appeal(h)
        PROVE  OnWay(r)'
    <3>1. CASE StoreReport(h)
      BY <1>2, <2>2, <2>3, <3>1 DEF StoreReport, TypeOK
    <3>2. CASE Appeal(h)
      BY <1>2, <2>2, <2>3, <3>2 DEF Appeal, TypeOK
    <3>3. CASE Decide(h)
      <4>1. At(h, "write") /\ status'[r] = Written(request[h].kind) /\ request[h].kind # "appeal"
        BY <2>3, <3>3 DEF Decide, TypeOK
      <4>2. request[h].kind \in Kinds \ {"submit"}
        BY <4>1, RecordType DEF Shape, Fits, At
      <4>3. request[h].kind \in Approving
        BY <1>2, <4>1, <4>2 DEF Written, Kinds, Approving
      <4>4. ~GoesOnWithout(h)
        <5>1. ~(request[h].kind = "grant" /\ ~configured)
          BY <1>2, <2>3, <3>3 DEF Decide
        <5>2. QED
          BY <4>3, <5>1 DEF GoesOnWithout, Approving
      <4>5. OnWay(r)
        BY <2>1, <2>3, <4>1, <4>3, <4>4 DEF RewardInv
      <4>6. QED
        BY <1>2, <4>5, OnWayStays
    <3>4. QED
      BY <2>3, <3>1, <3>2, <3>3
  <2>4. QED
    BY <2>2, <2>3, StatusMoves
<1>3. ASSUME NEW h \in Requests, request'[h].pc = "write", request'[h].kind \in Approving,
             Report(h)' \notin lost'
      PROVE  OnWay(Report(h))' \/ GoesOnWithout(h)'
  <2>0. configured' = configured
    <3>1. ~Restart
      BY <1>3 DEF Restart, NoRequest
    <3>2. QED
      BY <3>1, ConfiguredStays
  <2>1. CASE request'[h] = request[h]
    <3>1. At(h, "write") /\ request[h].kind \in Approving /\ Report(h)' = Report(h)
      BY <1>3, <2>1 DEF At, Report
    <3>2. Report(h) \in Reports
      BY <3>1, AtReport DEF At
    <3>3. Report(h) \notin lost' /\ Report(h) \notin lost
      BY <1>3, <3>1, HistoryGrows
    <3>4. OnWay(Report(h)) \/ GoesOnWithout(h)
      BY <3>1, <3>3 DEF RewardInv
    <3>5. GoesOnWithout(h) => GoesOnWithout(h)'
      BY <2>0, <2>1 DEF GoesOnWithout
    <3>6. ASSUME NEW r \in Reports, r = Report(h), OnWay(Report(h)) PROVE OnWay(Report(h))'
      <4>1. OnWay(r)'
        BY <3>3, <3>6, OnWayStays
      <4>2. QED
        BY <3>1, <3>6, <4>1 DEF OnWay
    <3>7. QED
      BY <3>2, <3>4, <3>5, <3>6
  <2>2. CASE Begins(h) \/ Stopped(h) \/ Advances(h)
    BY <1>3, <2>2, BeginsFresh DEF Stopped, NoRequest, Advances, Advanced
  <2>3. CASE Turns(h)
    <3>1. Turned(h, "write") /\ (CallAccepted(h) \/ request[h].kind = "deny")
      BY <1>3, <2>3 DEF Turns, Turned
    <3>2. CallAccepted(h) /\ request[h].kind \in Approving /\ Report(h)' = Report(h)
      BY <1>3, <3>1 DEF Turned, Approving, Report
    <3>3. Tx("verify", Report(h)) \in inflight'
      BY <3>2 DEF CallAccepted, Call
    <3>4. QED
      BY <3>2, <3>3 DEF OnWay, Tx
  <2>4. CASE Reads(h)
    <3>1. GoesOnWithout(h) /\ request'[h].kind = request[h].kind
      BY <1>3, <2>4 DEF Reads, Turned
    <3>2. QED
      BY <2>0, <3>1 DEF GoesOnWithout
  <2>5. QED
    BY <2>1, <2>2, <2>3, <2>4, EachMoves
<1>4. QED
  BY <1>1, <1>2, <1>3 DEF RewardInv, At

\* The reward is minted exactly once with every verification, and whoever is
\* about to approve has a verification on the way, had it lost, or grants an
\* appeal on a server that has no credentials to send one.
THEOREM RewardInvariant == Spec => [](TypeOK /\ Shape /\ RewardInv)
<1>1. Init => RewardInv
  BY DEF Init, RewardInv, RewardOnce, NoRequest, At
<1>2. TypeOK /\ Shape /\ RewardInv /\ [Next]_vars => RewardInv'
  BY RewardStep
<1>3. QED
  BY <1>1, <1>2, ReviewShapeCorrect, PTL DEF Spec

-----------------------------------------------------------------------------
(* One tranche for one report                                                *)

\* Two requests are at the same report only if that is recorded.
Alone ==
  \A g, h \in Requests : \A r \in ReportsOf(g) \cap ReportsOf(h) : g = h \/ r \in overlapped

\* What a request knows of the reports it has to itself.
Knows(h, r) ==
  LET q == request[h] IN
  /\ q.pc = "resubmit" => status[r] = "rejected"
  /\ q.pc = "load" => \A i \in 1 .. q.read : q.todo[i] = r => status[r] = Expected(q.kind)
  /\ q.pc \in {"call", "write"} => status[r] = Expected(q.kind)
  /\ q.pc \in {"audit", "progress", "mint"} /\ r # Report(h) => status[r] = Expected(q.kind)
  /\ q.pc \in {"audit", "progress", "mint", "escrow", "release", "book"} /\ r = Report(h) /\ q.kind # "appeal"
       => status[r] = Written(q.kind)

KnowsInv == \A h \in Requests : \A r \in ReportsOf(h) \ overlapped : Knows(h, r)

\* A request that is idle is at no report; one that runs is at those of its list.
LEMMA ReportsIndex ==
  ASSUME TypeOK, Shape, NEW h \in Requests
  PROVE  /\ At(h, "idle") => ReportsOf(h) = {}
         /\ \A r \in ReportsOf(h) :
              /\ r \in Reports /\ ~At(h, "idle")
              /\ \E i \in 1 .. Len(request[h].todo) : r = request[h].todo[i]
         /\ request[h].kind \notin {"batch", "reject"} => \A r \in ReportsOf(h) : r = Report(h)
<1>1. request[h].todo \in Seq(Reports) /\ Len(request[h].todo) \in Nat
      /\ DOMAIN request[h].todo = 1 .. Len(request[h].todo)
  BY RecordType, LenProperties
<1>2. At(h, "idle") => ReportsOf(h) = {}
  BY EmptySeq DEF Shape, At, ReportsOf
<1>3. ASSUME NEW r \in ReportsOf(h)
      PROVE  /\ r \in Reports /\ ~At(h, "idle")
             /\ \E i \in 1 .. Len(request[h].todo) : r = request[h].todo[i]
  BY <1>1, <1>2, <1>3, ElementOfSeq DEF ReportsOf
<1>4. ASSUME request[h].kind \notin {"batch", "reject"}, NEW r \in ReportsOf(h)
      PROVE  r = Report(h)
  <2>1. PICK i \in 1 .. Len(request[h].todo) : r = request[h].todo[i]
    BY <1>3, <1>4
  <2>2. Len(request[h].todo) <= 1 /\ request[h].todo[1] = Report(h)
    BY <1>3, <1>4, AtReport DEF Shape
  <2>3. i = 1
    BY <1>1, <2>1, <2>2
  <2>4. QED
    BY <2>1, <2>2, <2>3
<1>5. QED
  BY <1>2, <1>3, <1>4

\* A request takes on reports only when it begins, and leaves one behind when it
\* advances.
LEMMA ReportsShrink ==
  ASSUME TypeOK, Shape, [Next]_vars, NEW h \in Requests
  PROVE  /\ Begins(h) \/ ReportsOf(h)' \subseteq ReportsOf(h)
         /\ Advances(h) => ReportsOf(h)' \subseteq ReportsOf(h) \ {Report(h)}
<1>1. ASSUME Advances(h) PROVE ReportsOf(h)' \subseteq ReportsOf(h) \ {Report(h)}
  <2>1. request'[h].todo = Tail(request[h].todo) /\ Len(request[h].todo) > 1
    BY <1>1 DEF Advances, Advanced
  <2>2. {Tail(request[h].todo)[i] : i \in DOMAIN Tail(request[h].todo)}
          \subseteq {request[h].todo[i] : i \in DOMAIN request[h].todo} \ {Head(request[h].todo)}
    BY <2>1, TailFacts, RecordType DEF Shape
  <2>3. QED
    BY <2>1, <2>2 DEF ReportsOf, Report
<1>2. Stopped(h) => ReportsOf(h)' = {}
  BY EmptySeq DEF Stopped, NoRequest, ReportsOf
<1>3. request'[h] = request[h] \/ Turns(h) \/ Reads(h) => ReportsOf(h)' = ReportsOf(h)
  <2>1. request'[h] = request[h] \/ Turns(h) \/ Reads(h) => request'[h].todo = request[h].todo
    BY DEF Turns, Turned, Reads
  <2>2. QED
    BY <2>1 DEF ReportsOf
<1>4. QED
  BY <1>1, <1>2, <1>3, EachMoves

\* Only one request begins in a step, and it records whom it meets.
LEMMA AloneStep ==
  ASSUME TypeOK, Shape, Alone, [Next]_vars
  PROVE  Alone'
<1>1. SUFFICES ASSUME NEW g \in Requests, NEW h \in Requests, g # h,
                      NEW r \in ReportsOf(g)' \cap ReportsOf(h)'
               PROVE  r \in overlapped'
  BY DEF Alone
<1>2. CASE r \in ReportsOf(g) \cap ReportsOf(h)
  BY <1>1, <1>2, HistoryGrows DEF Alone
<1>3. ASSUME NEW a \in Requests, NEW b \in Requests, a # b, Begins(a), r \in ReportsOf(a)',
             r \in ReportsOf(b)'
      PROVE  r \in overlapped'
  <2>1. PICK kind \in Kinds, todo \in Batches : Begin(a, kind, todo)
    BY <1>3 DEF Begins
  <2>2. request'[a].todo = todo /\ request'[b] = request[b]
    BY <1>3, <2>1, RecordType DEF Begin
  <2>3. r \in {todo[i] : i \in DOMAIN todo} /\ r \in ReportsOf(b)
    BY <1>3, <2>2 DEF ReportsOf
  <2>4. QED
    BY <1>3, <2>1, <2>3 DEF Begin
<1>4. QED
  BY <1>1, <1>2, <1>3, ReportsShrink

\* Nobody else changes the status of a report that a request has to itself.
LEMMA OwnStatus ==
  ASSUME TypeOK, Shape, Alone, [Next]_vars, NEW h \in Requests, NEW r \in ReportsOf(h) \ overlapped
  PROVE  \/ status'[r] = status[r]
         \/ r = Report(h) /\ (StoreReport(h) \/ Decide(h) \/ Appeal(h))
<1>1. r \in Reports
  BY ReportsIndex
<1>2. ASSUME NEW g \in Requests, Report(g) = r, StoreReport(g) \/ Decide(g) \/ Appeal(g)
      PROVE  g = h
  <2>1. ~At(g, "idle")
    BY <1>2 DEF StoreReport, Decide, Appeal, At
  <2>2. r \in ReportsOf(g)
    BY <1>2, <2>1, AtReport
  <2>3. QED
    BY <2>2 DEF Alone
<1>3. QED
  BY <1>1, <1>2, StatusMoves

\* A request keeps knowing the reports it has to itself.
LEMMA KnowsStep ==
  ASSUME TypeOK, Shape, Alone, KnowsInv, [Next]_vars
  PROVE  KnowsInv'
<1>1. SUFFICES ASSUME NEW h \in Requests, NEW r \in ReportsOf(h)' \ overlapped'
               PROVE  Knows(h, r)'
  BY DEF KnowsInv
<1>2. CASE Begins(h)
  <2>1. request'[h].pc \in {"find", "load"} /\ request'[h].read = 0
    BY <1>2, BeginsFresh
  <2>2. 1 .. request'[h].read = {}
    BY <2>1
  <2>3. QED
    BY <2>1, <2>2 DEF Knows
<1>3. ASSUME ~Begins(h)
      PROVE  Knows(h, r)'
  <2>0. r \in ReportsOf(h) \ overlapped
    BY <1>1, <1>3, ReportsShrink, HistoryGrows
  <2>1. Knows(h, r) /\ r \in Reports /\ ~At(h, "idle")
    BY <2>0, ReportsIndex DEF KnowsInv
  <2>2. CASE StoreReport(h) \/ Decide(h) \/ Appeal(h)
    <3>1. CASE Stopped(h)
      BY <3>1 DEF Stopped, NoRequest, Knows
    <3>2. CASE Turned(h, "audit") /\ (Decide(h) \/ Appeal(h))
      <4>1. /\ request'[h].pc = "audit" /\ request'[h].kind = request[h].kind
            /\ Report(h)' = Report(h) /\ At(h, "write")
        BY <3>2 DEF Turned, Report, Decide, Appeal
      <4>2. r = Report(h) /\ request[h].kind # "appeal" => status'[r] = Written(request[h].kind)
        BY <2>1, <3>2 DEF Decide, Appeal, TypeOK
      <4>3. r # Report(h) => status'[r] = Expected(request[h].kind)
        BY <2>0, <2>1, <4>1, OwnStatus DEF Knows, At
      <4>4. QED
        BY <4>1, <4>2, <4>3 DEF Knows
    <3>3. QED
      BY <2>2, <3>1, <3>2, Local DEF Ended, Stopped
  <2>3. CASE ~(StoreReport(h) \/ Decide(h) \/ Appeal(h))
    <3>0. status'[r] = status[r]
      BY <2>0, <2>3, OwnStatus
    <3>1. CASE request'[h] = request[h]
      BY <2>1, <3>0, <3>1 DEF Knows, Report
    <3>2. CASE Stopped(h)
      BY <3>2 DEF Stopped, NoRequest, Knows
    <3>3. CASE Advances(h)
      <4>1. r # Report(h)
        BY <1>1, <3>3, ReportsShrink
      <4>2. status[r] = Expected(request[h].kind)
        BY <2>1, <3>3, <4>1 DEF Knows, Advances
      <4>3. request'[h].pc = "call" /\ request'[h].kind = request[h].kind
        BY <3>3 DEF Advances, Advanced
      <4>4. QED
        BY <3>0, <4>2, <4>3 DEF Knows
    <3>4. CASE Turns(h)
      <4>1. /\ request'[h].kind = request[h].kind /\ request'[h].todo = request[h].todo
            /\ Report(h)' = Report(h)
        BY <3>4 DEF Turns, Turned, Report
      <4>2. CASE request'[h].pc \in {"insert", "resubmit"}
        <5>1. request[h].kind = "submit" /\ request'[h].pc = "resubmit" => status[Report(h)] = "rejected"
          BY <2>3, <3>4, <4>2 DEF Turns, Turned, At, Shape, Fits
        <5>2. request[h].kind = "submit"
          BY <3>4, <4>2 DEF Turns, Turned, At, Shape, Fits
        <5>3. r = Report(h)
          BY <2>0, <5>2, ReportsIndex
        <5>4. QED
          BY <3>0, <4>2, <5>1, <5>2, <5>3 DEF Knows
      <4>3. CASE request'[h].pc = "write"
        BY <2>1, <3>0, <3>4, <4>1, <4>3 DEF Turns, Turned, At, Knows
      <4>4. CASE request'[h].pc \in {"progress", "mint"}
        BY <2>1, <3>0, <3>4, <4>1, <4>4 DEF Turns, Turned, At, Knows
      <4>5. CASE request'[h].pc \in {"escrow", "release", "book"}
        <5>1. /\ request[h].pc \in {"progress", "mint", "escrow", "release"}
              /\ request[h].kind = "approve"
          BY <3>4, <4>5 DEF Turns, Turned, At, Shape, Fits
        <5>2. r = Report(h)
          BY <2>0, <5>1, ReportsIndex
        <5>3. QED
          BY <2>1, <3>0, <4>1, <4>5, <5>1, <5>2 DEF Knows
      <4>6. QED
        BY <2>3, <3>4, <4>2, <4>3, <4>4, <4>5 DEF Turns, Turned
    <3>5. CASE Reads(h)
      <4>1. /\ request'[h].kind = request[h].kind /\ request'[h].todo = request[h].todo
            /\ request[h].pc = "load" /\ request'[h].pc \in {"load", "call", "write"}
        BY <3>5 DEF Reads, Turned, At
      <4>2. request[h].read \in Nat /\ Len(request[h].todo) \in Nat
            /\ request[h].read < Len(request[h].todo)
        BY <2>1, <4>1, RecordType, AtReport DEF TypeOK, At
      <4>3. ASSUME NEW i \in 1 .. request[h].read + 1, request[h].todo[i] = r
            PROVE  status[r] = Expected(request[h].kind)
        <5>1. CASE i = request[h].read + 1
          BY <3>5, <4>3, <5>1 DEF Reads
        <5>2. CASE i # request[h].read + 1
          BY <2>1, <4>1, <4>2, <4>3, <5>2 DEF Knows
        <5>3. QED
          BY <5>1, <5>2
      <4>4. CASE request'[h].pc = "load"
        <5>1. request'[h].read = request[h].read + 1
          BY <3>5, <4>4 DEF Reads, Turned
        <5>2. QED
          BY <3>0, <4>1, <4>3, <4>4, <5>1 DEF Knows
      <4>5. CASE request'[h].pc \in {"call", "write"}
        <5>1. ~(request[h].read + 1 < Len(request[h].todo))
          BY <3>5, <4>5 DEF Reads
        <5>2. PICK i \in 1 .. Len(request[h].todo) : r = request[h].todo[i]
          BY <2>0, ReportsIndex
        <5>3. i \in 1 .. request[h].read + 1
          BY <4>2, <5>1, <5>2
        <5>4. status[r] = Expected(request[h].kind)
          BY <4>3, <5>2, <5>3
        <5>5. QED
          BY <3>0, <4>1, <4>5, <5>4 DEF Knows
      <4>6. QED
        BY <4>1, <4>4, <4>5
    <3>6. QED
      BY <1>3, <3>1, <3>2, <3>3, <3>4, <3>5, EachMoves
  <2>4. QED
    BY <2>2, <2>3
<1>4. QED
  BY <1>2, <1>3

\* Where an approval can still be before it has sent its release.
Deciding == {"call", "write", "audit", "progress", "mint", "escrow", "release"}

Releasing(r) == paid[r] = 1 \/ Tx("release", r) \in inflight

TrancheInv ==
  \A r \in Reports \ overlapped :
    /\ paid[r] \in {0, 1}
    /\ paid[r] = 1 => Tx("release", r) \notin inflight
    /\ Releasing(r) =>
         /\ status[r] = "approved"
         /\ \A h \in Requests : r \in ReportsOf(h) => request[h].pc \notin Deciding

\* A tranche is released by a transaction, and a transaction sent by a request.
LEMMA ReleaseMoves ==
  ASSUME TypeOK, Shape, [Next]_vars, NEW r \in Reports
  PROVE  \/ /\ paid'[r] = paid[r]
            /\ \/ Tx("release", r) \in inflight' => Tx("release", r) \in inflight
               \/ \E h \in Requests : Report(h) = r /\ (ReleaseAccepted(h) \/ ReleaseRefused(h))
         \/ /\ Tx("release", r) \in inflight /\ inflight' = {}
            /\ paid'[r] = paid[r] + 1 /\ UNCHANGED <<status, request, overlapped>>
<1> USE DEF chainVars, rowVars
<1>1. ASSUME NEW h \in Requests, ReleaseAccepted(h) \/ ReleaseRefused(h), Report(h) # r
      PROVE  paid' = paid /\ (Tx("release", r) \in inflight' => Tx("release", r) \in inflight)
  BY <1>1 DEF ReleaseAccepted, ReleaseRefused, Tx
<1>2. ASSUME NEW h \in Requests, CallAccepted(h) \/ CallRefused(h)
      PROVE  paid' = paid /\ (Tx("release", r) \in inflight' => Tx("release", r) \in inflight)
  BY <1>2 DEF CallAccepted, CallRefused, Call, Tx
<1>3. ASSUME NEW h \in Requests, Step(h)
      PROVE  \/ CallAccepted(h) \/ CallRefused(h) \/ UNCHANGED <<paid, inflight>>
             \/ ReleaseAccepted(h) \/ ReleaseRefused(h)
  BY <1>3 DEF Step, FindReport, StoreReport, Load, Decide, Appeal, Audit, Progress, MintCertificate,
     FindEscrow, BookTranche, Die, SelectReferral, CountApproved, QualifyReferral, PayBonus, BonusFails
<1>4. ASSUME NEW h \in Requests, ReleaseAccepted(h) \/ ReleaseRefused(h)
      PROVE  paid' = paid
  BY <1>4 DEF ReleaseAccepted, ReleaseRefused
<1>5. CASE \E h \in Requests : Step(h)
  BY <1>1, <1>2, <1>3, <1>4, <1>5
<1>6. ASSUME NEW t \in inflight, Execute(t)
      PROVE  \/ paid'[r] = paid[r] /\ inflight' = {}
             \/ /\ Tx("release", r) \in inflight /\ inflight' = {}
                /\ paid'[r] = paid[r] + 1 /\ UNCHANGED <<status, request, overlapped>>
  <2>1. t.report \in Reports /\ t = Tx(t.kind, t.report)
    BY InFlight
  <2>2. CASE t.kind = "release" /\ t.report = r
    <3>1. /\ paid' = [paid EXCEPT ![r] = @ + 1] /\ inflight' = {}
          /\ UNCHANGED <<status, request, overlapped>>
      BY <1>6, <2>2 DEF Execute
    <3>2. paid'[r] = paid[r] + 1
      BY <3>1 DEF TypeOK
    <3>3. QED
      BY <2>1, <2>2, <3>1, <3>2
  <2>3. CASE ~(t.kind = "release" /\ t.report = r)
    <3>1. inflight' = {} /\ paid' \in {paid, [paid EXCEPT ![t.report] = @ + 1]}
      BY <1>6 DEF Execute
    <3>2. t.report = r => paid' = paid
      BY <1>6, <2>3 DEF Execute
    <3>3. paid'[r] = paid[r]
      BY <2>1, <3>1, <3>2 DEF TypeOK
    <3>4. QED
      BY <3>1, <3>3
  <2>4. QED
    BY <2>2, <2>3
<1>7. QED
  BY <1>5, <1>6 DEF Next, Begin, Expire, SubmitOnChain, AppealOnChain, Restart, vars

\* A request that comes to decide about a report found it open.
LEMMA DecidesOpen ==
  ASSUME TypeOK, Shape, KnowsInv, KnowsInv', Alone, [Next]_vars,
         NEW h \in Requests, NEW r \in ReportsOf(h)' \ overlapped',
         request'[h].pc \in Deciding, status'[r] = "approved"
  PROVE  r \in ReportsOf(h) /\ request[h].pc \in Deciding
<1>1. ~Begins(h)
  <2>1. Begins(h) => request'[h].pc \in {"find", "load"}
    BY BeginsFresh
  <2>2. QED
    BY <2>1 DEF Deciding
<1>2. r \in ReportsOf(h)
  BY <1>1, ReportsShrink
<1>3. CASE request'[h] = request[h]
  BY <1>2, <1>3
<1>4. CASE Stopped(h) \/ Advances(h) \/ Turns(h)
  BY <1>2, <1>4 DEF Stopped, NoRequest, Advances, Turns, Turned, At, Deciding
<1>5. CASE Reads(h)
  <2>1. /\ request'[h].pc \in {"call", "write"} /\ request'[h].kind = request[h].kind
        /\ request[h].pc = "load"
    BY <1>5 DEF Reads, Turned, At, Deciding
  <2>2. status'[r] = Expected(request[h].kind)
    BY <2>1 DEF KnowsInv, Knows
  <2>3. request[h].kind \in Kinds \ {"submit"}
    BY <2>1, RecordType DEF Shape, Fits
  <2>4. Expected(request[h].kind) # "approved"
    BY <2>3 DEF Expected, Kinds
  <2>5. QED
    BY <2>2, <2>4
<1>6. QED
  BY <1>1, <1>3, <1>4, <1>5, EachMoves

\* An approved report stays so while nobody who has it decides.
LEMMA ApprovedStays ==
  ASSUME TypeOK, Shape, KnowsInv, [Next]_vars, NEW r \in Reports \ overlapped,
         status[r] = "approved",
         \A h \in Requests : r \in ReportsOf(h) => request[h].pc # "write"
  PROVE  status'[r] = "approved"
<1>1. ASSUME NEW h \in Requests, Report(h) = r, StoreReport(h) \/ Decide(h) \/ Appeal(h)
      PROVE  status'[r] = "approved"
  <2>1. ~At(h, "idle")
    BY <1>1 DEF StoreReport, Decide, Appeal, At
  <2>2. r \in ReportsOf(h)
    BY <1>1, <2>1, AtReport
  <2>3. StoreReport(h)
    BY <1>1, <2>2 DEF Decide, Appeal, At
  <2>4. ~At(h, "resubmit")
    BY <2>2 DEF KnowsInv, Knows, At
  <2>5. QED
    BY <1>1, <2>3, <2>4 DEF StoreReport
<1>2. QED
  BY <1>1, StatusMoves

\* Every step keeps it.
LEMMA TrancheStep ==
  ASSUME TypeOK, Shape, Alone, KnowsInv, TrancheInv, Alone', KnowsInv', [Next]_vars
  PROVE  TrancheInv'
<1>1. SUFFICES ASSUME NEW r \in Reports \ overlapped'
               PROVE  /\ paid'[r] \in {0, 1}
                      /\ paid'[r] = 1 => Tx("release", r) \notin inflight'
                      /\ paid'[r] = 1 \/ Tx("release", r) \in inflight' =>
                           /\ status'[r] = "approved"
                           /\ \A h \in Requests : r \in ReportsOf(h)' => request'[h].pc \notin Deciding
  BY DEF TrancheInv, Releasing, Tx
<1>2. r \in Reports \ overlapped
  BY HistoryGrows
<1>3. CASE /\ Tx("release", r) \in inflight /\ inflight' = {}
           /\ paid'[r] = paid[r] + 1 /\ UNCHANGED <<status, request, overlapped>>
  <2>1. paid[r] = 0
    BY <1>2, <1>3 DEF TrancheInv
  <2>2. /\ status[r] = "approved"
        /\ \A h \in Requests : r \in ReportsOf(h) => request[h].pc \notin Deciding
    BY <1>2, <1>3 DEF TrancheInv, Releasing
  <2>3. \A h \in Requests : ReportsOf(h)' = ReportsOf(h)
    BY <1>3 DEF ReportsOf
  <2>4. QED
    BY <1>3, <2>1, <2>2, <2>3
<1>4. CASE /\ paid'[r] = paid[r] /\ Releasing(r)
           /\ Tx("release", r) \in inflight' => Tx("release", r) \in inflight
  <2>1. /\ status[r] = "approved" /\ paid[r] \in {0, 1}
        /\ paid[r] = 1 => Tx("release", r) \notin inflight
        /\ \A h \in Requests : r \in ReportsOf(h) => request[h].pc \notin Deciding
    BY <1>2, <1>4 DEF TrancheInv
  <2>2. status'[r] = "approved"
    BY <1>2, <2>1, ApprovedStays DEF Deciding
  <2>3. ASSUME NEW h \in Requests, r \in ReportsOf(h)', request'[h].pc \in Deciding PROVE FALSE
    BY <1>1, <2>1, <2>2, <2>3, DecidesOpen
  <2>4. QED
    BY <1>4, <2>1, <2>2, <2>3
<1>5. CASE /\ paid'[r] = paid[r] /\ ~Releasing(r)
           /\ Tx("release", r) \in inflight' => Tx("release", r) \in inflight
  BY <1>2, <1>5 DEF TrancheInv, Releasing
<1>6. ASSUME NEW h \in Requests, Report(h) = r, ReleaseAccepted(h) \/ ReleaseRefused(h),
             paid'[r] = paid[r]
      PROVE  /\ paid'[r] = 0 /\ status'[r] = "approved"
             /\ \A g \in Requests : r \in ReportsOf(g)' => request'[g].pc \notin Deciding
  <2>1. At(h, "release") /\ status' = status
    BY <1>6 DEF ReleaseAccepted, ReleaseRefused, rowVars
  <2>2. r \in ReportsOf(h) /\ request[h].pc \in Deciding /\ request[h].kind = "approve"
    BY <1>6, <2>1, AtReport DEF At, Deciding, Shape, Fits
  <2>3. paid[r] = 0
    BY <1>2, <2>2 DEF TrancheInv, Releasing
  <2>4. status[r] = "approved"
    BY <1>2, <1>6, <2>1, <2>2 DEF KnowsInv, Knows, At, Written, Approving
  <2>5. request'[h].pc \in {"book", "idle"}
    BY <1>6, LocalLater DEF Turned, Ended, NoRequest
  <2>6. ASSUME NEW g \in Requests, r \in ReportsOf(g)' PROVE request'[g].pc \notin Deciding
    <3>1. CASE g = h
      BY <2>5, <3>1 DEF Deciding
    <3>2. CASE g # h
      <4>1. ~Begins(g)
        BY <1>6, <2>1, <3>2, StepOthers, BeginsFresh DEF Step, At
      <4>2. r \in ReportsOf(g)
        BY <2>6, <4>1, ReportsShrink
      <4>3. QED
        BY <1>2, <2>2, <3>2, <4>2 DEF Alone
    <3>3. QED
      BY <3>1, <3>2
  <2>7. QED
    BY <1>6, <2>1, <2>3, <2>4, <2>6
<1>7. QED
  BY <1>3, <1>4, <1>5, <1>6, ReleaseMoves

\* What the requests know of their reports and of each other holds throughout.
THEOREM TrancheInvariant == Spec => [](Alone /\ KnowsInv /\ TrancheInv)
<1>1. Init => Alone /\ KnowsInv /\ TrancheInv
  <2> SUFFICES ASSUME Init PROVE Alone /\ KnowsInv /\ TrancheInv
    OBVIOUS
  <2>1. \A h \in Requests : ReportsOf(h) = {}
    BY EmptySeq DEF Init, NoRequest, ReportsOf
  <2>2. QED
    BY <2>1 DEF Init, Alone, KnowsInv, TrancheInv, Releasing
<1>2. /\ TypeOK /\ Shape /\ Alone /\ KnowsInv /\ TrancheInv /\ [Next]_vars
      => Alone' /\ KnowsInv' /\ TrancheInv'
  BY AloneStep, KnowsStep, TrancheStep
<1>3. QED
  BY <1>1, <1>2, ReviewShapeCorrect, PTL DEF Spec

\* A milestone on which no two requests worked at once releases one tranche at
\* most: a request that could send a second one found the report approved already.
THEOREM TrancheCorrect == Spec => []OneTrancheWithoutOverlap
<1>1. TrancheInv => OneTrancheWithoutOverlap
  BY DEF TrancheInv, OneTrancheWithoutOverlap
<1>2. QED
  BY <1>1, TrancheInvariant, PTL

-----------------------------------------------------------------------------
(* One referral bonus                                                        *)

\* A single approval that has yet to count the approved reports, and one that
\* counted exactly its own.
Waiting(h) ==
  \/ bonus[h] \in {"select", "count"}
  \/ request[h].kind = "approve" /\ request[h].pc \in {"audit", "progress", "mint"}
Counted(h) == bonus[h] \in {"qualify", "bonus"}

\* The referral step runs behind its request.
Behind == \A h \in Requests : bonus[h] # "idle" => request[h].pc \in {"idle", "escrow", "release", "book"}

\* Nobody waits before the first approval; while there is only one, only one
\* request can count it; after the second, nobody who counts finds one.
OneCounts ==
  /\ bonuses \in {0, 1}
  /\ \A g, h \in Requests : Counted(g) /\ Counted(h) => g = h
  /\ bonuses = 1 => \A h \in Requests : ~Counted(h)
  /\ Approved = {} => bonuses = 0 /\ \A h \in Requests : ~Waiting(h) /\ ~Counted(h)
  /\ \A a \in Reports : Approved = {a} =>
       /\ \A g, h \in Requests : (Waiting(g) \/ Counted(g)) /\ (Waiting(h) \/ Counted(h)) => g = h
       /\ bonuses = 1 => \A h \in Requests : ~Waiting(h)

BonusInv == Behind /\ (overlapped = {} => OneCounts)

Counts(h) ==
  /\ bonus[h] = "count" /\ bonus'[h] = "qualify"
  /\ Cardinality(Approved) = 1 /\ UNCHANGED <<status, bonuses>>

StartsBonus(h) ==
  /\ request[h].pc \in {"progress", "mint"} /\ request[h].kind = "approve"
  /\ bonus'[h] = "select" /\ request'[h].pc = "escrow"

\* How the referral step of a request moves.
LEMMA BonusMoves ==
  ASSUME TypeOK, Shape, [Next]_vars, NEW h \in Requests
  PROVE  \/ bonus'[h] \in {bonus[h], "idle"}
         \/ bonus[h] = "select" /\ bonus'[h] = "count"
         \/ bonus[h] = "qualify" /\ bonus'[h] = "bonus"
         \/ Counts(h) \/ StartsBonus(h)
<1> DEFINE Goal == \/ bonus'[h] \in {bonus[h], "idle"}
                   \/ bonus[h] = "select" /\ bonus'[h] = "count"
                   \/ bonus[h] = "qualify" /\ bonus'[h] = "bonus"
                   \/ Counts(h) \/ StartsBonus(h)
<1>0. bonus \in [Requests -> BonusSteps]
  BY DEF TypeOK, BonusSteps
<1>1. ASSUME NEW g \in Requests, Progress(g) \/ MintCertificate(g)
      PROVE  Goal
  <2>1. CASE UNCHANGED bonus
    BY <2>1
  <2>2. CASE /\ request[g].kind = "approve" /\ Turned(g, "escrow")
             /\ bonus' = [bonus EXCEPT ![g] = "select"]
    BY <1>0, <1>1, <2>2 DEF StartsBonus, Progress, MintCertificate, Turned, At
  <2>3. QED
    BY <1>1, <2>1, <2>2, LocalLater
<1>2. ASSUME NEW g \in Requests,
             SelectReferral(g) \/ CountApproved(g) \/ QualifyReferral(g) \/ PayBonus(g)
      PROVE  Goal
  <2>1. CASE g = h
    <3>1. CASE CountApproved(g)
      BY <1>0, <2>1, <3>1 DEF CountApproved, BonusAt, Counts, rowVars, outcomeVars
    <3>2. CASE SelectReferral(g) \/ QualifyReferral(g) \/ PayBonus(g)
      BY <1>0, <2>1, <3>2 DEF SelectReferral, QualifyReferral, PayBonus, BonusFails, BonusAt
    <3>3. QED
      BY <1>2, <3>1, <3>2
  <2>2. CASE g # h
    BY <1>0, <1>2, <2>2 DEF SelectReferral, CountApproved, QualifyReferral, PayBonus, BonusFails, BonusAt
  <2>3. QED
    BY <2>1, <2>2
<1>3. ASSUME NEW g \in Requests, Die(g) \/ BonusFails(g)
      PROVE  Goal
  <2>1. bonus' = bonus \/ bonus' = [bonus EXCEPT ![g] = "idle"]
    BY <1>3 DEF Die, BonusFails
  <2>2. QED
    BY <1>0, <2>1
<1>4. ASSUME NEW g \in Requests, Step(g)
      PROVE  Goal
  <2>1. \/ Progress(g) \/ MintCertificate(g) \/ Die(g) \/ BonusFails(g) \/ UNCHANGED bonus
        \/ SelectReferral(g) \/ CountApproved(g) \/ QualifyReferral(g) \/ PayBonus(g)
    BY <1>4 DEF Step, FindReport, StoreReport, Load, CallAccepted, CallRefused, Decide, Appeal, Audit,
       FindEscrow, ReleaseAccepted, ReleaseRefused, BookTranche
  <2>2. QED
    BY <1>1, <1>2, <1>3, <2>1
<1>5. Restart => bonus'[h] = "idle"
  BY DEF Restart
<1>6. UNCHANGED bonus \/ Restart \/ \E g \in Requests : Step(g)
  BY DEF Next, Begin, Execute, Expire, SubmitOnChain, AppealOnChain, vars
<1>7. QED
  BY <1>4, <1>5, <1>6

\* A bonus is minted by the referral step of an approval that counted.
LEMMA BonusesMove ==
  ASSUME TypeOK, [Next]_vars
  PROVE  \/ bonuses' = bonuses
         \/ /\ bonuses' = bonuses + 1 /\ UNCHANGED <<status, request>>
            /\ \E h \in Requests : bonus[h] = "bonus" /\ bonus' = [bonus EXCEPT ![h] = "idle"]
<1>1. ASSUME NEW h \in Requests, PayBonus(h)
      PROVE  \/ bonuses' = bonuses
             \/ /\ bonuses' = bonuses + 1 /\ UNCHANGED <<status, request>>
                /\ bonus[h] = "bonus" /\ bonus' = [bonus EXCEPT ![h] = "idle"]
  BY <1>1 DEF PayBonus, BonusAt
<1>2. ASSUME NEW h \in Requests, Step(h)
      PROVE  bonuses' = bonuses \/ PayBonus(h)
  BY <1>2 DEF Step, FindReport, StoreReport, Load, CallAccepted, CallRefused, Decide, Appeal, Audit,
     Progress, MintCertificate, FindEscrow, ReleaseAccepted, ReleaseRefused, BookTranche, Die,
     SelectReferral, CountApproved, QualifyReferral, BonusFails, outcomeVars
<1>3. QED
  BY <1>1, <1>2 DEF Next, Begin, Execute, Expire, SubmitOnChain, AppealOnChain, Restart, vars, outcomeVars

\* A request comes to wait by deciding.
LEMMA WaitingMoves ==
  ASSUME TypeOK, Shape, [Next]_vars, NEW h \in Requests
  PROVE  /\ Waiting(h)' => Waiting(h) \/ (Decide(h) /\ request[h].kind = "approve")
         /\ Counted(h)' => Counted(h) \/ Counts(h)
<1>1. ASSUME bonus'[h] \in {"select", "count"} PROVE Waiting(h)
  BY <1>1, BonusMoves DEF Waiting, Counts, StartsBonus
<1>2. ASSUME request'[h].kind = "approve", request'[h].pc \in {"audit", "progress", "mint"}
      PROVE  Waiting(h) \/ (Decide(h) /\ request[h].kind = "approve")
  <2>1. ~Begins(h)
    BY <1>2, BeginsFresh
  <2>2. CASE request'[h] = request[h]
    BY <1>2, <2>2 DEF Waiting
  <2>3. CASE Stopped(h) \/ Advances(h) \/ Reads(h)
    BY <1>2, <2>3 DEF Stopped, NoRequest, Advances, Advanced, Reads, Turned
  <2>4. CASE Turns(h)
    <3>1. request[h].kind = "approve"
      BY <1>2, <2>4 DEF Turns, Turned
    <3>2. \/ At(h, "write") /\ Decide(h)
          \/ request[h].pc \in {"audit", "progress"}
      BY <1>2, <2>4, <3>1 DEF Turns, Turned, At, Appeal
    <3>3. QED
      BY <3>1, <3>2 DEF Waiting
  <2>5. QED
    BY <2>1, <2>2, <2>3, <2>4, EachMoves
<1>3. Counted(h)' => Counted(h) \/ Counts(h)
  BY BonusMoves DEF Counted, Counts, StartsBonus
<1>4. QED
  BY <1>1, <1>2, <1>3 DEF Waiting

\* The referral step stays behind.
LEMMA BehindStep ==
  ASSUME TypeOK, Shape, Behind, [Next]_vars
  PROVE  Behind'
<1>1. SUFFICES ASSUME NEW h \in Requests, bonus'[h] # "idle"
               PROVE  request'[h].pc \in {"idle", "escrow", "release", "book"}
  BY DEF Behind
<1>2. CASE bonus[h] = "idle"
  BY <1>1, <1>2, BonusMoves DEF Counts, StartsBonus
<1>3. CASE bonus[h] # "idle"
  <2>1. request[h].pc \in {"idle", "escrow", "release", "book"}
    BY <1>3 DEF Behind
  <2>2. ~Begins(h)
    BY <1>3, BeginsFresh
  <2>3. QED
    BY <2>1, <2>2, EachMoves DEF Stopped, NoRequest, Advances, Turns, Turned, Reads, At
<1>4. QED
  BY <1>2, <1>3

\* While nobody meets anybody, a report is approved by a request that found it
\* open, and none is taken back.
LEMMA ApprovedMoves ==
  ASSUME TypeOK, Shape, Alone, KnowsInv, overlapped = {}, [Next]_vars
  PROVE  \/ /\ Approved' = Approved
            /\ \A h \in Requests : Decide(h) => request[h].kind \notin Approving
         \/ \E h \in Requests : /\ Decide(h) /\ Report(h) \in Reports \ Approved
                                /\ Approved' = Approved \cup {Report(h)}
<1>1. ASSUME NEW h \in Requests, Decide(h)
      PROVE  /\ Report(h) \in Reports \ Approved
             /\ Approved' = IF request[h].kind \in Approving THEN Approved \cup {Report(h)} ELSE Approved
  <2>1. /\ At(h, "write") /\ request[h].kind # "appeal"
        /\ status' = [status EXCEPT ![Report(h)] = Written(request[h].kind)]
    BY <1>1 DEF Decide
  <2>2. Report(h) \in ReportsOf(h) /\ Report(h) \in Reports
    BY <2>1, AtReport DEF At
  <2>3. request[h].kind \in Kinds \ {"submit", "appeal"}
    BY <2>1, RecordType DEF Shape, Fits, At
  <2>4. status[Report(h)] = Expected(request[h].kind)
    BY <2>1, <2>2 DEF KnowsInv, Knows, At
  <2>5. Expected(request[h].kind) # "approved"
    BY <2>3 DEF Expected, Kinds
  <2>6. (Written(request[h].kind) = "approved") = (request[h].kind \in Approving)
    BY <2>3 DEF Written, Kinds, Approving
  <2>7. status'[Report(h)] = Written(request[h].kind)
    BY <2>1, <2>2 DEF TypeOK
  <2>8. \A r \in Reports \ {Report(h)} : status'[r] = status[r]
    BY <2>1 DEF TypeOK
  <2>9. QED
    BY <2>2, <2>4, <2>5, <2>6, <2>7, <2>8 DEF Approved
<1>2. ASSUME \A h \in Requests : ~Decide(h)
      PROVE  Approved' = Approved
  <2>1. ASSUME NEW r \in Reports, status[r] = "approved" PROVE status'[r] = "approved"
    <3>1. ASSUME NEW h \in Requests, Report(h) = r, StoreReport(h) \/ Appeal(h)
          PROVE  status'[r] = "approved"
      <4>1. r \in ReportsOf(h)
        BY <3>1, AtReport DEF StoreReport, Appeal, At
      <4>2. StoreReport(h) => ~At(h, "resubmit")
        BY <2>1, <4>1 DEF KnowsInv, Knows, At
      <4>3. QED
        BY <2>1, <3>1, <4>2 DEF StoreReport, Appeal
    <3>2. QED
      BY <1>2, <2>1, <3>1, StatusMoves
  <2>2. ASSUME NEW r \in Reports, status[r] # "approved" PROVE status'[r] # "approved"
    <3>1. ASSUME NEW h \in Requests, Report(h) = r, StoreReport(h) \/ Appeal(h)
          PROVE  status'[r] # "approved"
      BY <2>2, <3>1 DEF StoreReport, Appeal, TypeOK
    <3>2. QED
      BY <1>2, <2>2, <3>1, StatusMoves
  <2>3. QED
    BY <2>1, <2>2 DEF Approved
<1>3. CASE \E h \in Requests : Decide(h) /\ request[h].kind \in Approving
  BY <1>1, <1>3
<1>4. CASE \A h \in Requests : Decide(h) => request[h].kind \notin Approving
  BY <1>1, <1>2, <1>4
<1>5. QED
  BY <1>3, <1>4

\* Every step keeps it.
LEMMA OneCountsStep ==
  ASSUME TypeOK, Shape, Alone, KnowsInv, Behind, overlapped = {}, OneCounts, [Next]_vars
  PROVE  OneCounts'
<1>1. CASE \E h \in Requests : /\ Decide(h) /\ Report(h) \in Reports \ Approved
                               /\ Approved' = Approved \cup {Report(h)}
  <2>1. PICK h \in Requests : /\ Decide(h) /\ Report(h) \in Reports \ Approved
                              /\ Approved' = Approved \cup {Report(h)}
    BY <1>1
  <2>2. bonus' = bonus /\ bonuses' = bonuses
    BY <2>1 DEF Decide, outcomeVars
  <2>3. \A g \in Requests : Counted(g)' <=> Counted(g)
    BY <2>2 DEF Counted
  <2>4. CASE Approved = {}
    <3>1. bonuses = 0 /\ \A g \in Requests : ~Waiting(g) /\ ~Counted(g)
      BY <2>4 DEF OneCounts
    <3>2. ASSUME NEW g \in Requests, g # h PROVE ~Waiting(g)'
      <4>1. request'[g] = request[g]
        BY <2>1, <3>2, StepOthers DEF Step
      <4>2. QED
        BY <2>2, <3>1, <4>1 DEF Waiting
    <3>3. Approved' # {}
      BY <2>1
    <3>4. QED
      BY <2>2, <2>3, <3>1, <3>2, <3>3 DEF OneCounts
  <2>5. CASE Approved # {}
    <3>1. Approved' # {} /\ \A a \in Reports : Approved' # {a}
      BY <2>1, <2>5
    <3>2. QED
      BY <2>2, <2>3, <3>1 DEF OneCounts
  <2>6. QED
    BY <2>4, <2>5
<1>2. CASE /\ Approved' = Approved
           /\ \A h \in Requests : Decide(h) => request[h].kind \notin Approving
  <2>1. \A h \in Requests : Waiting(h)' => Waiting(h)
    BY <1>2, WaitingMoves DEF Approving
  <2>2. CASE bonuses' = bonuses /\ \A h \in Requests : ~Counts(h)
    <3>1. \A h \in Requests : Counted(h)' => Counted(h)
      BY <2>2, WaitingMoves
    <3>2. QED
      BY <1>2, <2>1, <2>2, <3>1 DEF OneCounts
  <2>3. ASSUME NEW h \in Requests, Counts(h)
        PROVE  OneCounts'
    <3>1. bonuses' = bonuses /\ Cardinality(Approved) = 1 /\ Waiting(h)
      BY <2>3 DEF Counts, Waiting
    <3>2. PICK a \in Reports : Approved = {a}
      <4>1. IsFiniteSet(Approved)
        BY ReviewAssumption, FS_Subset DEF Approved
      <4>2. \E a : Approved = {a}
        BY <3>1, <4>1, FS_Singleton
      <4>3. QED
        BY <4>2 DEF Approved
    <3>3. /\ bonuses = 0
          /\ \A g \in Requests \ {h} : ~Waiting(g) /\ ~Counted(g)
      BY <3>1, <3>2 DEF OneCounts
    <3>4. \A g \in Requests \ {h} : ~Waiting(g)' /\ ~Counted(g)'
      BY <2>1, <3>3, WaitingMoves DEF Counts, Waiting
    <3>5. Approved' # {}
      BY <1>2, <3>2
    <3>6. QED
      BY <3>1, <3>3, <3>4, <3>5 DEF OneCounts
  <2>4. ASSUME NEW h \in Requests, bonus[h] = "bonus", bonus' = [bonus EXCEPT ![h] = "idle"],
               bonuses' = bonuses + 1, UNCHANGED <<status, request>>
        PROVE  OneCounts'
    <3>1. Counted(h) /\ request[h].pc \in {"idle", "escrow", "release", "book"}
      BY <2>4 DEF Counted, Behind
    <3>2. bonuses = 0 /\ \A g \in Requests \ {h} : ~Counted(g)
      BY <3>1 DEF OneCounts
    <3>3. /\ bonus'[h] = "idle"
          /\ \A g \in Requests \ {h} : bonus'[g] = bonus[g]
      BY <2>4 DEF TypeOK
    <3>4. \A g \in Requests : ~Counted(g)'
      BY <3>2, <3>3 DEF Counted
    <3>5. ~Waiting(h)'
      BY <2>4, <3>1, <3>3 DEF Waiting
    <3>6. Approved' # {}
      BY <1>2, <3>1 DEF OneCounts
    <3>7. ASSUME NEW a \in Reports, Approved' = {a}
          PROVE  \A g \in Requests : ~Waiting(g)'
      BY <1>2, <2>1, <3>1, <3>5, <3>7 DEF OneCounts
    <3>8. QED
      BY <2>4, <3>2, <3>4, <3>6, <3>7 DEF OneCounts
  <2>5. QED
    BY <2>2, <2>3, <2>4, BonusesMove
<1>3. QED
  BY <1>1, <1>2, ApprovedMoves

\* The referral bonus is minted once at most while no report meets two requests,
\* however many reports are approved at the same time.
THEOREM BonusCorrect == Spec => []OneBonusWithoutOverlap
<1>1. Init => BonusInv
  <2> SUFFICES ASSUME Init PROVE BonusInv
    OBVIOUS
  <2>1. \A h \in Requests : ~Waiting(h) /\ ~Counted(h)
    BY DEF Init, NoRequest, Waiting, Counted
  <2>2. QED
    BY <2>1 DEF Init, BonusInv, Behind, OneCounts, NoRequest
<1>2. BonusInv => OneBonusWithoutOverlap
  BY DEF BonusInv, OneCounts, OneBonusWithoutOverlap
<1>3. TypeOK /\ Shape /\ Alone /\ KnowsInv /\ BonusInv /\ [Next]_vars => BonusInv'
  <2> SUFFICES ASSUME TypeOK, Shape, Alone, KnowsInv, BonusInv, [Next]_vars PROVE BonusInv'
    OBVIOUS
  <2>1. Behind'
    BY BehindStep DEF BonusInv
  <2>2. ASSUME overlapped' = {} PROVE OneCounts'
    <3>1. overlapped = {}
      BY <2>2, HistoryGrows
    <3>2. QED
      BY <3>1, OneCountsStep DEF BonusInv
  <2>3. QED
    BY <2>1, <2>2 DEF BonusInv
<1>4. QED
  BY <1>1, <1>2, <1>3, ReviewShapeCorrect, TrancheInvariant, PTL DEF Spec

-----------------------------------------------------------------------------
(* Nothing follows from an approval that the contract does not stand behind  *)

\* A verification is on the way or arrived, or a transaction was lost.
Backed(r) == r \in lost \/ OnWay(r)

\* The approvals that go on to the certificate, the tranche and the referral.
Verifying == {"approve", "batch"}

\* The statements a request executes once its call was accepted.
Following == {"write", "audit", "progress", "mint", "escrow", "release"}

\* An approval carries its verification with it to the audit, the certificate,
\* the escrow and the referral, whatever becomes of the row meanwhile.  The
\* certificate counts the other rows, an appeal granted without one among them.
EarnedInv ==
  /\ \A h \in Requests :
       request[h].pc \in Following /\ request[h].kind \in Verifying => Backed(Report(h))
  /\ \A h \in Requests : At(h, "mint") => \A r \in Reports : Backed(r) \/ r \in unbacked
  /\ \A r \in Reports : Tx("release", r) \in inflight \/ paid[r] > 0 => Backed(r)
  /\ certified => \A r \in Reports : Backed(r) \/ r \in unbacked
  /\ (\E h \in Requests : bonus[h] # "idle") \/ bonuses > 0 => \E r \in Reports : Backed(r)

\* No step takes the backing away.
LEMMA BackedStays ==
  ASSUME TypeOK, [Next]_vars, NEW r \in Reports, Backed(r)
  PROVE  Backed(r)'
BY OnWayStays, HistoryGrows DEF Backed

\* What a request carries on it got from its call.
LEMMA FollowingStep ==
  ASSUME TypeOK, Shape, EarnedInv, [Next]_vars, NEW h \in Requests,
         request'[h].pc \in Following, request'[h].kind \in Verifying
  PROVE  Backed(Report(h))'
<1>1. CASE /\ request[h].pc \in Following /\ request[h].kind = request'[h].kind
           /\ request'[h].todo = request[h].todo
  <2>1. Backed(Report(h)) /\ Report(h) \in Reports
    BY <1>1, AtReport DEF EarnedInv, Following, At
  <2>2. Report(h)' = Report(h)
    BY <1>1 DEF Report
  <2>3. ASSUME NEW r \in Reports, r = Report(h) PROVE Backed(Report(h))'
    <3>1. Backed(r)'
      BY <2>1, <2>3, BackedStays
    <3>2. QED
      BY <2>2, <2>3, <3>1 DEF Backed, OnWay
  <2>4. QED
    BY <2>1, <2>3
<1>2. CASE request'[h] = request[h]
  BY <1>1, <1>2
<1>3. CASE Begins(h) \/ Stopped(h) \/ Advances(h) \/ Reads(h)
  BY <1>3, BeginsFresh DEF Stopped, NoRequest, Advances, Advanced, Reads, Turned, Following, Verifying, GoesOnWithout
<1>4. CASE Turns(h)
  <2>1. /\ request'[h].kind = request[h].kind /\ request'[h].todo = request[h].todo
        /\ \/ request[h].pc \in Following
           \/ At(h, "call") /\ (CallAccepted(h) \/ request[h].kind = "deny")
    BY <1>4 DEF Turns, Turned, At, Following
  <2>2. CASE CallAccepted(h)
    <3>1. Tx("verify", Report(h)) \in inflight' /\ Report(h)' = Report(h)
      BY <2>1, <2>2 DEF CallAccepted, Call, Report, Verifying, Approving
    <3>2. QED
      BY <3>1 DEF Backed, OnWay, Tx
  <2>3. QED
    BY <1>1, <2>1, <2>2 DEF Verifying
<1>5. QED
  BY <1>2, <1>3, <1>4, EachMoves

\* The certificate is minted when every row says approved.
LEMMA MintStep ==
  ASSUME TypeOK, Shape, RewardInv, EarnedInv, [Next]_vars, NEW h \in Requests,
         request'[h].pc = "mint", NEW r \in Reports
  PROVE  Backed(r)' \/ r \in unbacked'
<1>1. Backed(r) \/ r \in unbacked
  <2>1. CASE request[h].pc = "mint"
    BY <2>1 DEF EarnedInv, At
  <2>2. CASE Approved = Reports
    BY <2>2 DEF RewardInv, Approved, Backed
  <2>3. request[h].pc = "mint" \/ Approved = Reports
    <3>1. CASE Begins(h) \/ Stopped(h) \/ Advances(h) \/ Reads(h)
      BY <3>1, BeginsFresh DEF Stopped, NoRequest, Advances, Advanced, Reads, Turned
    <3>2. CASE Turns(h)
      BY <3>2 DEF Turns, Turned
    <3>3. QED
      BY <3>1, <3>2, EachMoves
  <2>4. QED
    BY <2>1, <2>2, <2>3
<1>2. QED
  BY <1>1, BackedStays, HistoryGrows

\* A tranche is released for an approved report.
LEMMA ReleaseEarned ==
  ASSUME TypeOK, Shape, EarnedInv, [Next]_vars, NEW r \in Reports,
         Tx("release", r) \in inflight' \/ paid'[r] > 0
  PROVE  Backed(r)'
<1>1. CASE \E h \in Requests : Report(h) = r /\ (ReleaseAccepted(h) \/ ReleaseRefused(h))
  <2>1. PICK h \in Requests : Report(h) = r /\ (ReleaseAccepted(h) \/ ReleaseRefused(h))
    BY <1>1
  <2>2. request[h].pc = "release"
    BY <2>1 DEF ReleaseAccepted, ReleaseRefused, At
  <2>3. request[h].kind = "approve"
    BY <2>2 DEF Shape, Fits
  <2>4. Backed(r)
    BY <2>1, <2>2, <2>3 DEF EarnedInv, Following, Verifying
  <2>5. QED
    BY <2>4, BackedStays
<1>2. CASE Tx("release", r) \in inflight \/ paid[r] > 0
  BY <1>2, BackedStays DEF EarnedInv
<1>3. QED
  BY <1>1, <1>2, ReleaseMoves

\* So is the certificate.
LEMMA CertificateEarned ==
  ASSUME TypeOK, EarnedInv, [Next]_vars, certified', NEW r \in Reports
  PROVE  Backed(r)' \/ r \in unbacked'
<1>1. certified \/ \E h \in Requests : At(h, "mint")
  <2>1. ASSUME NEW h \in Requests, Step(h) PROVE certified' = certified \/ MintCertificate(h)
    BY <2>1 DEF Step, FindReport, StoreReport, Load, CallAccepted, CallRefused, Decide, Appeal, Audit,
       Progress, FindEscrow, ReleaseAccepted, ReleaseRefused, BookTranche, Die, SelectReferral,
       CountApproved, QualifyReferral, PayBonus, BonusFails, outcomeVars
  <2>2. (\E h \in Requests : MintCertificate(h)) \/ certified' = certified
    BY <2>1 DEF Next, Begin, Execute, Expire, SubmitOnChain, AppealOnChain, Restart, vars, outcomeVars
  <2>3. QED
    BY <2>2 DEF MintCertificate
<1>2. Backed(r) \/ r \in unbacked
  BY <1>1 DEF EarnedInv
<1>3. QED
  BY <1>2, BackedStays, HistoryGrows

\* And the referral bonus.
LEMMA BonusEarned ==
  ASSUME TypeOK, Shape, EarnedInv, [Next]_vars,
         (\E h \in Requests : bonus'[h] # "idle") \/ bonuses' > 0
  PROVE  \E r \in Reports : Backed(r)'
<1>1. CASE (\E h \in Requests : bonus[h] # "idle") \/ bonuses > 0
  BY <1>1, BackedStays DEF EarnedInv
<1>2. CASE \E h \in Requests : StartsBonus(h)
  <2>1. PICK h \in Requests : StartsBonus(h)
    BY <1>2
  <2>2. Backed(Report(h)) /\ Report(h) \in Reports
    BY <2>1, AtReport DEF StartsBonus, EarnedInv, Following, Verifying, At
  <2>3. QED
    BY <2>2, BackedStays
<1>3. ASSUME NEW h \in Requests, bonus'[h] # "idle"
      PROVE  bonus[h] # "idle" \/ StartsBonus(h)
  BY <1>3, BonusMoves DEF Counts
<1>4. bonuses' = bonuses \/ \E h \in Requests : bonus[h] = "bonus"
  BY BonusesMove
<1>5. QED
  BY <1>1, <1>2, <1>3, <1>4

\* The invariant is inductive beside RewardInv.
LEMMA EarnedStep == TypeOK /\ Shape /\ RewardInv /\ EarnedInv /\ [Next]_vars => EarnedInv'
<1> SUFFICES ASSUME TypeOK, Shape, RewardInv, EarnedInv, [Next]_vars PROVE EarnedInv'
  OBVIOUS
<1>1. \A h \in Requests : request'[h].pc \in Following /\ request'[h].kind \in Verifying
                            => Backed(Report(h))'
  BY FollowingStep
<1>2. \A h \in Requests : request'[h].pc = "mint" =>
        \A r \in Reports : Backed(r)' \/ r \in unbacked'
  BY MintStep
<1>3. \A r \in Reports : Tx("release", r) \in inflight' \/ paid'[r] > 0 => Backed(r)'
  BY ReleaseEarned
<1>4. certified' => \A r \in Reports : Backed(r)' \/ r \in unbacked'
  BY CertificateEarned
<1>5. (\E h \in Requests : bonus'[h] # "idle") \/ bonuses' > 0 => \E r \in Reports : Backed(r)'
  BY BonusEarned
<1>6. QED
  BY <1>1, <1>2, <1>3, <1>4, <1>5 DEF EarnedInv, At, Tx

\* For any number of racing requests: the status approved, a tranche, the
\* certificate and the bonus all have behind them rewards that the contract
\* minted exactly once, or verifications on the way, or lost transactions.
\* The one exception, for the status and the certificate and not for the tranche
\* or the bonus, are appeals that a server without credentials granted.
THEOREM RewardedCorrect == Spec => []ApprovedIsRewarded
<1>1. Init => EarnedInv
  BY DEF Init, EarnedInv, NoRequest, At, Following
<1>2. TypeOK /\ RewardInv /\ EarnedInv => ApprovedIsRewarded
  <2>1. RewardInv => \A r \in Reports : Backed(r) => Earned(r)
    BY DEF RewardInv, RewardOnce, Backed, OnWay, Earned
  <2>2. RewardInv => \A r \in Reports : status[r] = "approved" => Backed(r) \/ r \in unbacked
    BY DEF RewardInv, Backed
  <2>3. QED
    BY <2>1, <2>2 DEF EarnedInv, ApprovedIsRewarded
<1>3. QED
  BY <1>1, <1>2, EarnedStep, RewardInvariant, PTL DEF Spec
=============================================================================
