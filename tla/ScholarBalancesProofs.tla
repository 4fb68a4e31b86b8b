------------------------ MODULE ScholarBalancesProofs ------------------------
(***************************************************************************)
(* Theorems about ScholarBalances, for any number of addresses, of ticks   *)
(* and scripts that overlap, any page size and any history of the chain.   *)
(***************************************************************************)
EXTENDS ScholarBalances, TotalsProofs, WellFoundedInduction

-----------------------------------------------------------------------------
(* Least and greatest numbers, and pages *)

\* Every set of naturals has a least member.
LEMMA LeastNatural ==
  ASSUME NEW S, S \subseteq Nat, S # {}
  PROVE  \E m \in S : \A n \in S : m <= n
<1>1. PICK m \in S : \A n \in S : ~(<<n, m>> \in OpToRel(<, Nat))
  BY WFMin, NatLessThanWellFounded
<1>2. \A n \in S : ~(n < m)
  BY <1>1 DEF OpToRel
<1>3. QED
  BY <1>2

\* Highest is the greatest member of a bounded set.
LEMMA HighestMember ==
  ASSUME NEW S, S \subseteq Nat, NEW b \in Nat, \A x \in S : x <= b, S # {}, NEW none
  PROVE  Highest(S, none) \in S /\ \A x \in S : x <= Highest(S, none)
<1> DEFINE D == {b - x : x \in S}
<1>1. D \subseteq Nat /\ D # {}
  <2>1. \A x \in S : b - x \in Nat
    OBVIOUS
  <2>2. D \subseteq Nat
    BY <2>1
  <2>3. D # {}
    OBVIOUS
  <2>4. QED
    BY <2>2, <2>3
<1>2. PICK m \in D : \A n \in D : m <= n
  <2> HIDE DEF D
  <2>1. QED
    BY <1>1, LeastNatural
<1>3. PICK l \in S : m = b - l
  BY <1>2
<1>4. \A x \in S : x <= l
  <2> TAKE x \in S
  <2>1. m <= b - x
    BY <1>2
  <2>2. QED
    BY <1>3, <2>1
<1>5. QED
  BY <1>3, <1>4 DEF Highest

\* Highest of a bounded set, with its default.
LEMMA HighestType ==
  ASSUME NEW S, S \subseteq Nat, NEW b \in Nat, \A x \in S : x <= b, NEW none \in Nat, none <= b
  PROVE  /\ Highest(S, none) \in Nat /\ Highest(S, none) <= b
         /\ \A x \in S : x <= Highest(S, none)
<1>1. CASE S = {}
  BY <1>1 DEF Highest
<1>2. CASE S # {}
  BY <1>2, HighestMember
<1>3. QED
  BY <1>1, <1>2

\* Events that are told apart by their number, which is at most b.
Numbered(S, b) ==
  /\ IsFiniteSet(S)
  /\ \A r \in S : r.event \in 1..b
  /\ \A q, r \in S : q.event = r.event => q = r

Before(S, r) == {q \in S : q.event < r.event}

\* A page holds every event before one of its own.
LEMMA PageIsPrefix ==
  ASSUME NEW S, NEW b \in Nat, Numbered(S, b), NEW q \in Page(S), NEW r \in S, r.event <= q.event
  PROVE  r \in Page(S)
<1>1. q.event \in Nat /\ r.event \in Nat /\ q \in S /\ \A x \in S : x.event \in Nat
  BY DEF Numbered, Page
<1>2. Before(S, r) \in SUBSET Before(S, q) /\ IsFiniteSet(Before(S, q))
  BY <1>1, FS_Subset DEF Numbered, Before
<1>3. Cardinality(Before(S, r)) <= Cardinality(Before(S, q))
  BY <1>2, FS_Subset
<1>4. Cardinality(Before(S, r)) \in Nat /\ Cardinality(Before(S, q)) \in Nat
  BY <1>2, FS_Subset, FS_CardinalityType
<1>5. Cardinality(Before(S, q)) < PageSize
  BY DEF Page, Before
<1>6. Cardinality(Before(S, r)) < PageSize
  BY <1>3, <1>4, <1>5, BalancesAssumption
<1>7. QED
  BY <1>6 DEF Page, Before

\* A page holds at most PageSize events.
LEMMA PageBounded ==
  ASSUME NEW S, NEW b \in Nat, Numbered(S, b)
  PROVE  /\ IsFiniteSet(Page(S)) /\ Cardinality(Page(S)) \in Nat
         /\ Cardinality(Page(S)) <= PageSize
<1>1. IsFiniteSet(Page(S)) /\ Cardinality(Page(S)) \in Nat
  BY FS_Subset, FS_CardinalityType DEF Numbered, Page
<1>2. CASE Page(S) = {}
  BY <1>1, <1>2, FS_EmptySet, BalancesAssumption
<1>3. CASE Page(S) # {}
  <2> DEFINE E == {r.event : r \in Page(S)}
  <2>1. E \subseteq Nat /\ E # {} /\ \A e \in E : e <= b
    <3>1. \A r \in Page(S) : r.event \in 1..b
      BY DEF Numbered, Page
    <3>2. E \subseteq 1..b
      BY <3>1
    <3>3. E # {}
      BY <1>3
    <3> HIDE DEF E
    <3>4. QED
      BY <3>2, <3>3
  <2>2. PICK q \in Page(S) : \A r \in Page(S) : r.event <= q.event
    <3>1. Highest(E, 0) \in E /\ \A e \in E : e <= Highest(E, 0)
      <4> HIDE DEF E
      <4>1. QED
        BY <2>1, HighestMember
    <3>2. QED
      BY <3>1
  <2>3. Page(S) \ {q} \in SUBSET Before(S, q)
    <3> SUFFICES ASSUME NEW r \in Page(S), r # q PROVE r \in Before(S, q)
      OBVIOUS
    <3>1. r \in S /\ q \in S /\ r.event <= q.event
      BY <2>2 DEF Page
    <3>2. r.event # q.event /\ r.event \in Nat /\ q.event \in Nat
      BY <3>1 DEF Numbered
    <3>3. QED
      BY <3>1, <3>2 DEF Before
  <2>4. IsFiniteSet(Before(S, q)) /\ Cardinality(Before(S, q)) \in Nat
    BY FS_Subset, FS_CardinalityType DEF Numbered, Before
  <2>5. Cardinality(Page(S)) - 1 <= Cardinality(Before(S, q))
    <3>1. Cardinality(Page(S) \ {q}) = Cardinality(Page(S)) - 1
      BY <1>1, FS_RemoveElement
    <3>2. Cardinality(Page(S) \ {q}) <= Cardinality(Before(S, q))
      BY <2>3, <2>4, FS_Subset
    <3>3. QED
      BY <3>1, <3>2
  <2>6. Cardinality(Before(S, q)) < PageSize
    BY DEF Page, Before
  <2>7. QED
    BY <1>1, <2>4, <2>5, <2>6, BalancesAssumption
<1>4. QED
  BY <1>2, <1>3

\* A page that is not full holds everything.
LEMMA PageNotFull ==
  ASSUME NEW S, NEW b \in Nat, Numbered(S, b), Cardinality(Page(S)) # PageSize
  PROVE  Page(S) = S
<1>1. SUFFICES ASSUME S \ Page(S) # {} PROVE FALSE
  BY DEF Page
<1> DEFINE E == {r.event : r \in S \ Page(S)}
<1>2. E \subseteq Nat /\ E # {}
  BY <1>1 DEF Numbered
<1>3. PICK r \in S \ Page(S) : \A q \in S \ Page(S) : r.event <= q.event
  <2>1. PICK m \in E : \A e \in E : m <= e
    <3> HIDE DEF E
    <3>1. QED
      BY <1>2, LeastNatural
  <2>2. QED
    BY <2>1
<1>4. Before(S, r) \in SUBSET Page(S)
  <2> SUFFICES ASSUME NEW q \in Before(S, r), q \notin Page(S) PROVE FALSE
    OBVIOUS
  <2>1. q \in S /\ q.event < r.event /\ r.event \in Nat /\ q.event \in Nat
    BY DEF Before, Numbered
  <2>2. r.event <= q.event
    BY <1>3, <2>1
  <2>3. QED
    BY <2>1, <2>2
<1>5. /\ IsFiniteSet(Page(S)) /\ Cardinality(Page(S)) \in Nat
      /\ Cardinality(Page(S)) <= PageSize
  BY PageBounded
<1>6. Cardinality(Before(S, r)) <= Cardinality(Page(S)) /\ Cardinality(Before(S, r)) \in Nat
  BY <1>4, <1>5, FS_Subset, FS_CardinalityType
<1>7. Cardinality(Before(S, r)) < PageSize
  BY <1>5, <1>6, BalancesAssumption
<1>8. QED
  BY <1>3, <1>7 DEF Page, Before

-----------------------------------------------------------------------------
(* Types *)

\* The events of the chain are numbered in the order of their ledgers.
ChainOrdered ==
  /\ Numbered(chain, Cardinality(chain))
  /\ \A r \in chain : r.ledger <= head
  /\ \A q, r \in chain : q.event < r.event => q.ledger <= r.ledger
  /\ Cardinality(chain) <= MaxEvents

TypeInv == TypeOK /\ ChainOrdered

\* What a new ledger adds to the chain.
LEMMA ChainGrows ==
  ASSUME TypeInv, CloseLedger
  PROVE  /\ chain \subseteq chain' /\ chain' \subseteq Rows /\ head' = head + 1
         /\ \A r \in chain' \ chain : r.ledger = head + 1
         /\ \A r \in chain' \ chain : r.event > Cardinality(chain)
         /\ ChainOrdered'
<1> DEFINE c == Cardinality(chain)
<1>0. PICK n \in 0..MaxEvents - c :
        \E es \in [1..n -> [address : Addresses, kind : Kinds, amount : Amounts]] :
          chain' = chain \cup
            {[event |-> c + i, ledger |-> head + 1, address |-> es[i].address,
              kind |-> es[i].kind, amount |-> es[i].amount] : i \in 1..n}
  BY DEF CloseLedger
<1>1. PICK es \in [1..n -> [address : Addresses, kind : Kinds, amount : Amounts]] :
        chain' = chain \cup
          {[event |-> c + i, ledger |-> head + 1, address |-> es[i].address,
            kind |-> es[i].kind, amount |-> es[i].amount] : i \in 1..n}
  BY <1>0
<1> DEFINE rec == [i \in 1..n |-> [event |-> c + i, ledger |-> head + 1, address |-> es[i].address,
                                   kind |-> es[i].kind, amount |-> es[i].amount]]
           new == {rec[i] : i \in 1..n}
<1>2. chain' = chain \cup new
  BY <1>1
<1>3. head \in Nat /\ head' = head + 1 /\ chain \subseteq Rows
  BY DEF TypeInv, TypeOK, CloseLedger
<1>4. IsFiniteSet(chain) /\ c \in Nat /\ \A r \in chain : r.event \in 1..c
  BY FS_CardinalityType DEF TypeInv, ChainOrdered, Numbered
<1>5. n \in Nat /\ c + n <= MaxEvents
  BY <1>4, BalancesAssumption
<1>6. ASSUME NEW i \in 1..n
      PROVE  rec[i] \in Rows /\ rec[i].event = c + i /\ rec[i].ledger = head + 1
  <2>1. es[i].address \in Addresses /\ es[i].kind \in Kinds /\ es[i].amount \in Amounts
    BY <1>1
  <2>2. c + i \in Nat /\ head + 1 \in Nat
    BY <1>3, <1>4, <1>5
  <2>3. QED
    BY <2>1, <2>2 DEF Rows
<1> HIDE DEF rec, c
<1>7. \A r \in new : r \in Rows /\ r.ledger = head + 1 /\ r.event \in c + 1 .. c + n
  <2>1. \A i \in 1..n : c + i \in c + 1 .. c + n
    BY <1>4, <1>5
  <2>2. QED
    BY <1>6, <2>1
<1>8. \A q, r \in new : q.event = r.event => q = r
  <2>1. \A i, j \in 1..n : c + i = c + j => i = j
    BY <1>4, <1>5
  <2>2. QED
    BY <1>6, <2>1
<1>9. IsFiniteSet(new) /\ Cardinality(new) = n
  <2>1. DOMAIN rec = 1..n
    BY DEF rec
  <2>2. rec \in [1..n -> new]
    BY <2>1 DEF rec
  <2>3. \A i, j \in 1..n : rec[i] = rec[j] => i = j
    <3>1. \A i, j \in 1..n : c + i = c + j => i = j
      BY <1>4, <1>5
    <3>2. QED
      BY <1>6, <3>1
  <2>4. rec \in Bijection(1..n, new)
    BY <2>1, <2>2, <2>3 DEF Bijection, Injection, Surjection, IsInjective
  <2>5. IsFiniteSet(1..n) /\ Cardinality(1..n) = n
    BY <1>5, FS_Interval
  <2> HIDE DEF new
  <2>6. QED
    BY <2>4, <2>5, FS_Bijection DEF ExistsBijection
<1> HIDE DEF new
<1>10. chain \cap new = {}
  <2>1. \A e \in 1..c : e \notin c + 1 .. c + n
    BY <1>4, <1>5
  <2>2. QED
    BY <1>4, <1>7, <2>1
<1>11. IsFiniteSet(chain') /\ Cardinality(chain') = c + n
  <2>1. Cardinality(chain \cup new) = c + n - 0 /\ IsFiniteSet(chain \cup new)
    <3>1. Cardinality(chain \cap new) = 0
      BY <1>10, FS_EmptySet
    <3>2. Cardinality(chain \cup new) = Cardinality(chain) + Cardinality(new) - Cardinality(chain \cap new)
      BY <1>4, <1>9, FS_Union
    <3>3. QED
      BY <1>4, <1>9, <3>1, <3>2, FS_Union DEF c
  <2>2. QED
    BY <1>2, <1>4, <1>5, <2>1
<1>12. \A r \in chain : r.event \in 1 .. c + n /\ r.event <= c
  BY <1>4, <1>5
<1>13. \A r \in new : r.event \in 1 .. c + n /\ r.event > c
  <2>1. \A e \in c + 1 .. c + n : e \in 1 .. c + n /\ e > c
    BY <1>4, <1>5
  <2>2. QED
    BY <1>7, <2>1
<1>14. Numbered(chain', Cardinality(chain'))
  <2>1. \A q, r \in chain : q.event = r.event => q = r
    BY DEF TypeInv, ChainOrdered, Numbered
  <2>2. \A q \in chain, r \in new : q.event # r.event
    <3>1. \A e \in 1..c : e \notin c + 1 .. c + n
      BY <1>4, <1>5
    <3>2. QED
      BY <1>4, <1>7, <3>1
  <2>3. \A q, r \in chain' : q.event = r.event => q = r
    BY <1>2, <1>8, <2>1, <2>2
  <2>4. QED
    BY <1>2, <1>11, <1>12, <1>13, <2>3 DEF Numbered
<1>15. \A r \in chain' : r.ledger <= head'
  <2>1. \A r \in chain : r.ledger <= head /\ r.ledger \in Nat
    BY <1>3 DEF TypeInv, ChainOrdered, Rows
  <2>2. QED
    BY <1>2, <1>3, <1>7, <2>1
<1>16. ASSUME NEW q \in chain', NEW r \in chain', q.event < r.event PROVE q.ledger <= r.ledger
  <2>1. CASE r \in chain
    <3>1. q \in chain
      BY <1>2, <1>4, <1>12, <1>13, <1>16, <2>1
    <3>2. QED
      BY <1>16, <2>1, <3>1 DEF TypeInv, ChainOrdered
  <2>2. CASE r \in new
    BY <1>3, <1>7, <1>15, <2>2
  <2>3. QED
    BY <1>2, <2>1, <2>2
<1>17. ChainOrdered'
  BY <1>5, <1>11, <1>14, <1>15, <1>16 DEF ChainOrdered
<1>18. QED
  BY <1>2, <1>3, <1>7, <1>13, <1>17 DEF c

SyncTyped ==
  /\ sync \in [Workers -> SyncStates]
  /\ \A w \in Workers : sync[w].pc \in {"fetch", "apply", "checkpoint"} => sync[w].start > 0

\* Local variables keep their types when only the chain grows.
LEMMA SyncStays ==
  ASSUME TypeInv, chain \subseteq chain', sync' = sync
  PROVE  SyncTyped'
<1>1. SyncStates \subseteq SyncStates'
  BY DEF SyncStates
<1>2. QED
  BY <1>1 DEF TypeInv, TypeOK, SyncTyped

\* One worker moves to a well-typed state.
LEMMA SyncMoves ==
  ASSUME TypeInv, chain' = chain, NEW w \in Workers, NEW s \in SyncStates,
         s.pc \in {"fetch", "apply", "checkpoint"} => s.start > 0,
         sync' = [sync EXCEPT ![w] = s]
  PROVE  /\ SyncTyped' /\ sync'[w] = s
         /\ \A v \in Workers \ {w} : sync'[v] = sync[v]
<1>1. SyncStates' = SyncStates
  BY DEF SyncStates
<1>2. sync \in [Workers -> SyncStates]
  BY DEF TypeInv, TypeOK
<1>3. \A v \in Workers : sync'[v] = IF v = w THEN s ELSE sync[v]
  BY <1>2
<1>4. QED
  BY <1>1, <1>2, <1>3 DEF TypeInv, TypeOK, SyncTyped

\* A worker without a sync.
LEMMA IdleType == Idle \in SyncStates /\ Idle.pc = "idle"
  BY DEF Idle, SyncStates

\* What is known of a worker's local variables.
LEMMA SyncType ==
  ASSUME TypeInv, NEW w \in Workers
  PROVE  /\ sync[w] \in SyncStates
         /\ sync[w].start \in Nat /\ sync[w].end \in Nat /\ sync[w].last \in Nat
         /\ sync[w].cursor \in Nat /\ sync[w].pages \in Nat /\ sync[w].page \subseteq chain
         /\ sync[w].persist \in BOOLEAN
         /\ sync[w].pc \in {"idle", "resume", "fetch", "apply", "checkpoint"}
  BY DEF TypeInv, TypeOK, SyncStates

\* Ledgers and events of a part of the chain are bounded.
LEMMA PartBounded ==
  ASSUME TypeInv, NEW S, S \subseteq chain
  PROVE  /\ Ledgers(S) \subseteq Nat /\ \A l \in Ledgers(S) : l <= head
         /\ {r.event : r \in S} \subseteq Nat /\ \A e \in {r.event : r \in S} : e <= Cardinality(chain)
         /\ head \in Nat /\ Cardinality(chain) \in Nat
<1>1. \A r \in S : r \in Rows /\ r.ledger <= head /\ r.event \in 1..Cardinality(chain)
  BY DEF TypeInv, TypeOK, ChainOrdered, Numbered
<1>2. \A r \in S : r.ledger \in Nat
  BY <1>1 DEF Rows
<1>3. head \in Nat /\ Cardinality(chain) \in Nat
  BY FS_CardinalityType DEF TypeInv, TypeOK, ChainOrdered, Numbered
<1>4. \A r \in S : r.event \in Nat /\ r.event <= Cardinality(chain)
  BY <1>1, <1>3
<1>5. QED
  BY <1>1, <1>2, <1>3, <1>4 DEF Ledgers

\* The ledger to resume from is a number.
LEMMA ResumeType ==
  ASSUME TypeInv
  PROVE  ResumePoint \in Nat
<1>1. checkpoint \in Nat /\ journal \subseteq chain
  BY DEF TypeInv, TypeOK
<1>2. CASE Ledgers(journal) = {}
  BY <1>1, <1>2, BalancesAssumption DEF ResumePoint, Highest
<1>3. CASE Ledgers(journal) # {}
  <2>1. Highest(Ledgers(journal), StartingLedger) \in Nat
    BY <1>1, <1>3, PartBounded, HighestMember
  <2>2. QED
    BY <1>1, <2>1, BalancesAssumption DEF ResumePoint
<1>4. QED
  BY <1>2, <1>3

\* The values a page leaves behind.
LEMMA AfterPageType ==
  ASSUME TypeInv, NEW s \in SyncStates, s.start > 0
  PROVE  AfterPage(s) \in SyncStates /\ AfterPage(s).start = s.start
<1>1. /\ s.page \subseteq chain /\ s.last \in Nat /\ s.pages \in Nat /\ s.start \in Nat /\ s.end \in Nat
      /\ s.persist \in BOOLEAN /\ s.cursor \in Nat
  BY DEF SyncStates
<1>2. Highest(Ledgers(s.page), 0) \in Nat
  <2>1. /\ Ledgers(s.page) \subseteq Nat /\ \A l \in Ledgers(s.page) : l <= head
        /\ head \in Nat /\ 0 <= head
    BY <1>1, PartBounded
  <2>2. QED
    BY <2>1, HighestType
<1>3. Highest({r.event : r \in s.page}, 0) \in Nat
  <2> DEFINE E == {r.event : r \in s.page}
  <2>1. E \subseteq Nat /\ \A e \in E : e <= Cardinality(chain)
    BY <1>1, PartBounded
  <2>2. Cardinality(chain) \in Nat /\ 0 <= Cardinality(chain)
    <3>1. Cardinality(chain) \in Nat
      BY <1>1, PartBounded
    <3>2. QED
      BY <3>1
  <2> HIDE DEF E
  <2>3. Highest(E, 0) \in Nat
    BY <2>1, <2>2, HighestType
  <2>4. QED
    BY <2>3 DEF E
<1>4. Larger(s.last, Highest(Ledgers(s.page), 0)) \in Nat
  BY <1>1, <1>2 DEF Larger
<1> DEFINE last == Larger(s.last, Highest(Ledgers(s.page), 0))
           top == Highest({r.event : r \in s.page}, 0)
           next == s.pages + 1
           more == [s EXCEPT !.pc = "fetch", !.cursor = top, !.pages = next, !.page = {}, !.last = last]
           done == [s EXCEPT !.pc = "checkpoint", !.cursor = 0, !.pages = 0, !.page = {}, !.last = last]
<1>5. last \in Nat /\ top \in Nat /\ next \in Nat
  BY <1>1, <1>3, <1>4
<1>6. AfterPage(s) = more \/ AfterPage(s) = done
  BY DEF AfterPage
<1> HIDE DEF last, top, next
<1>7. more \in SyncStates /\ more.start = s.start
  BY <1>1, <1>5 DEF SyncStates
<1>8. done \in SyncStates /\ done.start = s.start
  BY <1>1, <1>5 DEF SyncStates
<1>9. QED
  BY <1>6, <1>7, <1>8

\* The rows of an address in a part of the chain, and their sum.
LEMMA RowsType ==
  ASSUME TypeInv, NEW S, S \subseteq chain, NEW a, NEW k
  PROVE  /\ IsFiniteSet(RowsOf(S, a, k)) /\ \A r \in RowsOf(S, a, k) : RowAmount[r] \in Nat
         /\ Total(RowAmount, RowsOf(S, a, k)) \in Nat
<1>1. RowsOf(S, a, k) \in SUBSET chain /\ IsFiniteSet(chain) /\ chain \subseteq Rows
  BY DEF RowsOf, TypeInv, TypeOK, ChainOrdered, Numbered
<1>2. IsFiniteSet(RowsOf(S, a, k))
  BY <1>1, FS_Subset
<1>3. \A r \in Rows : RowAmount[r] \in Nat
  BY BalancesAssumption DEF RowAmount, Rows
<1>4. QED
  BY <1>1, <1>2, <1>3, TotalType

\* A sum of mints and burns is an integer.
LEMMA SumDeltaType ==
  ASSUME TypeInv, NEW S, S \subseteq chain, NEW a
  PROVE  SumDelta(S, a) \in Int
  BY RowsType DEF SumDelta

\* Everything but the chain, the journal and the local variables.
PlainTyped ==
  /\ head \in Nat /\ oldest \in Nat /\ rebuilding \in BOOLEAN
  /\ balance \in [Addresses -> Int] /\ rewards \in [Addresses -> Nat]
  /\ checkpoint \in Nat /\ failures \in Nat

\* The type invariant in three parts.
LEMMA TypeParts ==
  TypeInv <=>
    /\ PlainTyped /\ SyncTyped /\ ChainOrdered /\ chain \subseteq Rows
    /\ journal \subseteq chain /\ snapshot \subseteq journal
  BY DEF TypeInv, TypeOK, PlainTyped, SyncTyped

\* The same after a step.
LEMMA TypePartsNext ==
  ASSUME PlainTyped', SyncTyped', ChainOrdered', chain' \subseteq Rows,
         journal' \subseteq chain', snapshot' \subseteq journal'
  PROVE  TypeInv'
  BY DEF TypeInv, TypeOK, PlainTyped, SyncTyped

\* The initial state is well typed.
LEMMA InitType == Init => TypeInv
<1> SUFFICES ASSUME Init PROVE TypeInv
  OBVIOUS
<1>1. Cardinality(chain) = 0 /\ IsFiniteSet(chain) /\ chain = {}
  BY FS_EmptySet DEF Init
<1>2. ChainOrdered
  BY <1>1, BalancesAssumption DEF ChainOrdered, Numbered
<1>3. sync \in [Workers -> SyncStates] /\ \A w \in Workers : sync[w].pc = "idle"
  BY IdleType DEF Init
<1>4. head \in Nat
  BY BalancesAssumption DEF Init, Larger
<1>5. PlainTyped
  <2>1. balance \in [Addresses -> Int] /\ rewards \in [Addresses -> Nat]
    BY DEF Init
  <2>2. QED
    BY <1>4, <2>1 DEF Init, PlainTyped
<1>6. SyncTyped
  BY <1>3 DEF SyncTyped
<1>7. QED
  BY <1>1, <1>2, <1>5, <1>6, TypeParts DEF Init

\* A step of one worker that only changes its local variables.
LEMMA LocalStep ==
  ASSUME TypeInv, NEW w \in Workers, NEW s \in SyncStates,
         s.pc \in {"fetch", "apply", "checkpoint"} => s.start > 0,
         sync' = [sync EXCEPT ![w] = s], failures' \in Nat,
         UNCHANGED <<chainVars, tableVars, rebuildVars>>
  PROVE  TypeInv'
<1>1. SyncTyped'
  BY SyncMoves DEF chainVars
<1>2. ChainOrdered'
  BY TypeParts DEF chainVars, ChainOrdered
<1>3. PlainTyped'
  BY TypeParts DEF PlainTyped, chainVars, tableVars, rebuildVars
<1>4. QED
  BY <1>1, <1>2, <1>3, TypeParts, TypePartsNext DEF chainVars, tableVars, rebuildVars

\* Every step keeps the types.
LEMMA TypeStep == TypeInv /\ [Next]_vars => TypeInv'
<1> SUFFICES ASSUME TypeInv, [Next]_vars PROVE TypeInv'
  OBVIOUS
<1>0. /\ PlainTyped /\ SyncTyped /\ ChainOrdered /\ chain \subseteq Rows
      /\ journal \subseteq chain /\ snapshot \subseteq journal
  BY TypeParts
<1>1. CASE CloseLedger
  <2>1. chain \subseteq chain' /\ chain' \subseteq Rows /\ head' = head + 1 /\ ChainOrdered'
    BY <1>1, ChainGrows
  <2>2. SyncTyped'
    BY <1>1, <2>1, SyncStays DEF CloseLedger
  <2>3. PlainTyped'
    BY <1>0, <1>1, <2>1 DEF PlainTyped, CloseLedger, tableVars, rebuildVars
  <2>4. journal' \subseteq chain' /\ snapshot' \subseteq journal'
    BY <1>0, <1>1, <2>1 DEF CloseLedger, tableVars, rebuildVars
  <2>5. QED
    BY <2>1, <2>2, <2>3, <2>4, TypePartsNext
<1>2. CASE Prune \/ RebuildRead
  <2>1. SyncTyped'
    BY <1>2, SyncStays DEF Prune, RebuildRead, chainVars
  <2>2. PlainTyped'
    <3>1. oldest' \in Nat
      BY <1>0, <1>2 DEF PlainTyped, Prune, RebuildRead, chainVars
    <3>2. rebuilding' \in BOOLEAN
      BY <1>0, <1>2 DEF PlainTyped, Prune, RebuildRead, rebuildVars
    <3>3. UNCHANGED <<head, tableVars, failures>>
      BY <1>2 DEF Prune, RebuildRead, chainVars
    <3>4. QED
      BY <1>0, <3>1, <3>2, <3>3 DEF PlainTyped, tableVars
  <2>3. ChainOrdered' /\ chain' \subseteq Rows /\ journal' \subseteq chain' /\ snapshot' \subseteq journal'
    BY <1>0, <1>2 DEF ChainOrdered, Prune, RebuildRead, chainVars, tableVars, rebuildVars
  <2>4. QED
    BY <2>1, <2>2, <2>3, TypePartsNext
<1>3. CASE RebuildWrite
  <2>0. rewards' \in [Addresses -> Nat]
    BY <1>0, <1>3 DEF PlainTyped, RebuildWrite
  <2>1. SyncTyped'
    BY <1>3, SyncStays DEF RebuildWrite, chainVars
  <2>2. \A a \in Addresses : Rebuilt(a, balance[a]) \in Int
    <3>1. snapshot \subseteq chain
      BY <1>0
    <3>2. QED
      BY <1>0, <3>1, SumDeltaType DEF Rebuilt, PlainTyped
  <2>3. PlainTyped'
    <3>1. balance' \in [Addresses -> Int]
      BY <1>3, <2>2 DEF RebuildWrite
    <3>2. QED
      BY <1>0, <1>3, <2>0, <3>1 DEF PlainTyped, RebuildWrite, chainVars
  <2>4. ChainOrdered' /\ chain' \subseteq Rows /\ journal' \subseteq chain' /\ snapshot' \subseteq journal'
    BY <1>0, <1>3 DEF ChainOrdered, RebuildWrite, chainVars
  <2>5. QED
    BY <2>1, <2>3, <2>4, TypePartsNext
<1>4. ASSUME NEW a \in Addresses, PeerReview(a) PROVE TypeInv'
  <2>1. SyncTyped'
    BY <1>4, SyncStays DEF PeerReview, chainVars
  <2>2. PlainTyped'
    <3>1. balance[a] + Reward \in Int /\ rewards[a] + Reward \in Nat
      BY <1>0, BalancesAssumption DEF PlainTyped
    <3>2. balance' = [balance EXCEPT ![a] = balance[a] + Reward] /\ rewards' = [rewards EXCEPT ![a] = rewards[a] + Reward]
      BY <1>4 DEF PeerReview
    <3>3. balance' \in [Addresses -> Int] /\ rewards' \in [Addresses -> Nat]
      BY <1>0, <3>1, <3>2 DEF PlainTyped
    <3>4. QED
      BY <1>0, <1>4, <3>3 DEF PlainTyped, PeerReview, chainVars, rebuildVars
  <2>3. ChainOrdered' /\ chain' \subseteq Rows /\ journal' \subseteq chain' /\ snapshot' \subseteq journal'
    BY <1>0, <1>4 DEF ChainOrdered, PeerReview, chainVars, rebuildVars
  <2>4. QED
    BY <2>1, <2>2, <2>3, TypePartsNext
<1>5. ASSUME NEW w \in Workers, Tick(w) PROVE TypeInv'
  <2> DEFINE s == [Idle EXCEPT !.pc = "resume", !.end = head]
  <2>1. s \in SyncStates /\ s.pc = "resume"
    BY <1>0 DEF PlainTyped, SyncStates, Idle
  <2>2. sync' = [sync EXCEPT ![w] = s]
    BY <1>5 DEF Tick
  <2> HIDE DEF s
  <2>3. QED
    BY <1>0, <1>5, <2>1, <2>2, LocalStep DEF Tick, PlainTyped
<1>6. ASSUME NEW w \in Workers, Resume(w) PROVE TypeInv'
  <2> DEFINE p == ResumePoint
             s == [sync[w] EXCEPT !.pc = "fetch", !.start = p + 1, !.last = p]
             n == IF p + 1 > sync[w].end THEN Idle ELSE s
  <2>1. p \in Nat /\ p + 1 \in Nat /\ p + 1 > 0
    BY ResumeType
  <2>2. sync' = [sync EXCEPT ![w] = n]
    BY <1>6 DEF Resume
  <2>3. sync[w] \in SyncStates
    BY SyncType
  <2> HIDE DEF p
  <2>4. s \in SyncStates /\ s.start > 0
    BY <2>1, <2>3 DEF SyncStates
  <2>5. n \in SyncStates /\ (n.pc \in {"fetch", "apply", "checkpoint"} => n.start > 0)
    BY <2>4, IdleType
  <2> HIDE DEF s, n
  <2>6. QED
    BY <1>0, <1>6, <2>2, <2>5, LocalStep DEF Resume, PlainTyped
<1>7. ASSUME NEW w \in Workers, Replay(w) PROVE TypeInv'
  <2>1. PICK from \in ReplayFrom, to \in 1..head, persist \in BOOLEAN :
          sync' = [sync EXCEPT ![w] = [Idle EXCEPT !.pc = "fetch", !.start = from, !.end = to,
                                                   !.last = from - 1, !.persist = persist]]
    BY <1>7 DEF Replay
  <2> DEFINE last == from - 1
             s == [Idle EXCEPT !.pc = "fetch", !.start = from, !.end = to, !.last = last, !.persist = persist]
  <2>2. from \in Nat /\ from > 0 /\ last \in Nat
    BY BalancesAssumption
  <2>3. to \in Nat
    BY <1>0 DEF PlainTyped
  <2>4. sync' = [sync EXCEPT ![w] = s]
    BY <2>1
  <2> HIDE DEF last
  <2>5. s \in SyncStates /\ s.start > 0
    BY <2>2, <2>3 DEF Idle, SyncStates
  <2> HIDE DEF s
  <2>6. QED
    BY <1>0, <1>7, <2>4, <2>5, LocalStep DEF Replay, PlainTyped
<1>8. ASSUME NEW w \in Workers, Fetch(w) PROVE TypeInv'
  <2> DEFINE r == sync[w]
             start == Start(r)
             page == Page(Found(r))
             last == IF r.cursor = 0 THEN start - 1 ELSE r.last
             s == [r EXCEPT !.pc = "apply", !.start = start, !.page = page, !.last = last]
  <2>1. r \in SyncStates /\ r.start \in Nat /\ r.start > 0 /\ r.last \in Nat
    BY <1>0, <1>8, SyncType DEF Fetch, SyncTyped
  <2>2. start \in Nat /\ start > 0
    BY <1>0, <2>1 DEF Start, Larger, PlainTyped
  <2>3. page \subseteq chain
    BY DEF Page, Found
  <2>4. last \in Nat
    BY <2>1, <2>2
  <2>5. sync' = [sync EXCEPT ![w] = s]
    BY <1>8 DEF Fetch
  <2> HIDE DEF r, start, page, last
  <2>6. s \in SyncStates /\ s.start > 0
    BY <2>1, <2>2, <2>3, <2>4 DEF SyncStates
  <2> HIDE DEF s
  <2>7. QED
    BY <1>0, <1>8, <2>5, <2>6, LocalStep DEF Fetch, PlainTyped
<1>9. ASSUME NEW w \in Workers, FetchRefused(w) \/ Fail(w) PROVE TypeInv'
  <2>1. sync' = [sync EXCEPT ![w] = Idle]
    BY <1>9 DEF FetchRefused, Fail
  <2>2. failures' \in Nat
    BY <1>0, <1>9 DEF FetchRefused, Fail, PlainTyped
  <2>3. UNCHANGED <<chainVars, tableVars, rebuildVars>>
    BY <1>9 DEF FetchRefused, Fail
  <2>4. QED
    BY <2>1, <2>2, <2>3, IdleType, LocalStep
<1>10. ASSUME NEW w \in Workers, Apply(w) PROVE TypeInv'
  <2> DEFINE new == NewRows(sync[w].page)
             s == AfterPage(sync[w])
  <2>1. sync[w] \in SyncStates /\ sync[w].start > 0 /\ sync[w].page \subseteq chain
    BY <1>0, <1>10, SyncType DEF Apply, SyncTyped
  <2>2. s \in SyncStates /\ s.start > 0
    BY <2>1, AfterPageType
  <2>3. new \subseteq chain
    BY <2>1 DEF NewRows
  <2>4. /\ sync' = [sync EXCEPT ![w] = s] /\ journal' = journal \cup new
        /\ balance' = [a \in Addresses |-> balance[a] + SumDelta(new, a)]
        /\ UNCHANGED <<chainVars, checkpoint, rewards, rebuildVars, failures>>
    BY <1>10 DEF Apply
  <2>5. \A a \in Addresses : SumDelta(new, a) \in Int
    BY <2>3, SumDeltaType
  <2> HIDE DEF new, s
  <2>6. SyncTyped'
    BY <2>2, <2>4, SyncMoves DEF chainVars
  <2>7. PlainTyped'
    BY <1>0, <2>4, <2>5 DEF PlainTyped, chainVars, rebuildVars
  <2>8. ChainOrdered' /\ chain' \subseteq Rows /\ journal' \subseteq chain' /\ snapshot' \subseteq journal'
    BY <1>0, <2>3, <2>4 DEF ChainOrdered, chainVars, rebuildVars
  <2>9. QED
    BY <2>6, <2>7, <2>8, TypePartsNext
<1>11. ASSUME NEW w \in Workers, Finish(w) PROVE TypeInv'
  <2>1. sync' = [sync EXCEPT ![w] = Idle]
    BY <1>11 DEF Finish
  <2>2. SyncTyped'
    BY <1>11, <2>1, IdleType, SyncMoves DEF Finish, chainVars
  <2>3. Covered(sync[w]) \in Nat
    <3>1. sync[w].start \in Nat /\ sync[w].start > 0 /\ sync[w].end \in Nat /\ sync[w].last \in Nat
      BY <1>0, <1>11, SyncType DEF Finish, SyncTyped
    <3>2. QED
      BY <3>1 DEF Covered, Larger
  <2>4. PlainTyped'
    BY <1>0, <1>11, <2>3 DEF PlainTyped, Finish, chainVars, rebuildVars
  <2>5. ChainOrdered' /\ chain' \subseteq Rows /\ journal' \subseteq chain' /\ snapshot' \subseteq journal'
    BY <1>0, <1>11 DEF ChainOrdered, Finish, chainVars, rebuildVars
  <2>6. QED
    BY <2>2, <2>4, <2>5, TypePartsNext
<1>12. CASE UNCHANGED vars
  <2>1. SyncTyped'
    BY <1>12, SyncStays DEF vars, chainVars
  <2>2. PlainTyped' /\ ChainOrdered'
    BY <1>0, <1>12 DEF PlainTyped, ChainOrdered, vars, chainVars, tableVars, rebuildVars
  <2>3. QED
    BY <1>0, <1>12, <2>1, <2>2, TypePartsNext DEF vars, chainVars, tableVars, rebuildVars
<1>13. QED
  BY <1>1, <1>2, <1>3, <1>4, <1>5, <1>6, <1>7, <1>8, <1>9, <1>10, <1>11, <1>12 DEF Next, Sync, Workers

\* Every variable keeps a value of its type, what a sync holds comes from the
\* chain, and none ever asks the node for ledger 0.
THEOREM BalancesTypeCorrect == Spec => []TypeOK
<1>1. TypeInv => TypeOK
  BY DEF TypeInv
<1>2. QED
  BY <1>1, InitType, TypeStep, PTL DEF Spec

-----------------------------------------------------------------------------
(* Every event is counted once *)

\* Sums over disjoint sets of events add up.
LEMMA SumDeltaUnion ==
  ASSUME TypeInv, NEW S, S \subseteq chain, NEW T, T \subseteq chain, S \cap T = {}, NEW a
  PROVE  SumDelta(S \cup T, a) = SumDelta(S, a) + SumDelta(T, a)
<1>1. ASSUME NEW k
      PROVE  /\ Total(RowAmount, RowsOf(S \cup T, a, k)) =
                  Total(RowAmount, RowsOf(S, a, k)) + Total(RowAmount, RowsOf(T, a, k))
             /\ Total(RowAmount, RowsOf(S, a, k)) \in Nat
             /\ Total(RowAmount, RowsOf(T, a, k)) \in Nat
  <2> DEFINE U == RowsOf(S, a, k)
             V == RowsOf(T, a, k)
  <2>1. U \cap V = {} /\ RowsOf(S \cup T, a, k) = U \cup V
    BY DEF RowsOf
  <2>2. IsFiniteSet(U) /\ IsFiniteSet(V) /\ \A r \in U \cup V : RowAmount[r] \in Nat
    BY RowsType
  <2> HIDE DEF U, V
  <2>3. Total(RowAmount, U \cup V) = Total(RowAmount, U) + Total(RowAmount, V)
    BY <2>1, <2>2, TotalUnion
  <2>4. Total(RowAmount, U) \in Nat /\ Total(RowAmount, V) \in Nat
    BY <2>2, TotalType
  <2>5. QED
    BY <2>1, <2>3, <2>4 DEF U, V
<1>2. QED
  <2> DEFINE m(X) == Total(RowAmount, RowsOf(X, a, "mint"))
             b(X) == Total(RowAmount, RowsOf(X, a, "burn"))
  <2>1. m(S \cup T) = m(S) + m(T) /\ m(S) \in Nat /\ m(T) \in Nat
    BY <1>1
  <2>2. b(S \cup T) = b(S) + b(T) /\ b(S) \in Nat /\ b(T) \in Nat
    BY <1>1
  <2>3. \A X : SumDelta(X, a) = m(X) - b(X)
    BY DEF SumDelta
  <2> HIDE DEF m, b
  <2>4. QED
    BY <2>1, <2>2, <2>3

\* An address without events has the sum zero.
LEMMA SumDeltaNone ==
  ASSUME NEW S, NEW a, ~HasRows(S, a)
  PROVE  SumDelta(S, a) = 0
<1>1. RowsOf(S, a, "mint") = {} /\ RowsOf(S, a, "burn") = {}
  BY DEF RowsOf, HasRows
<1>2. QED
  BY <1>1, TotalEmpty DEF SumDelta

\* What the total of an address says of the events alone.
Booked(a) == balance[a] - rewards[a]

\* The numbers of the books, and an id names one event.
LEMMA BookTypes ==
  ASSUME TypeInv
  PROVE  /\ chain \subseteq Rows /\ journal \subseteq chain /\ snapshot \subseteq journal
         /\ \A q, r \in chain : q.event = r.event => q = r
         /\ \A a \in Addresses : balance[a] \in Int /\ rewards[a] \in Nat
  BY DEF TypeInv, TypeOK, ChainOrdered, Numbered

\* CountedOnce in terms of what is booked.
Exact == \A a \in Addresses : Booked(a) = SumDelta(journal, a)

LEMMA CountedIsExact == TypeInv => (CountedOnce <=> Exact)
<1> SUFFICES ASSUME TypeInv PROVE CountedOnce <=> Exact
  OBVIOUS
<1>1. \A x, y \in Int : \A z \in Nat : (x - z = y) = (x = y + z)
  OBVIOUS
<1>2. ASSUME NEW a \in Addresses
      PROVE  (Booked(a) = SumDelta(journal, a)) = (balance[a] = SumDelta(journal, a) + rewards[a])
  <2>1. balance[a] \in Int /\ rewards[a] \in Nat /\ SumDelta(journal, a) \in Int
    BY BookTypes, SumDeltaType
  <2>2. QED
    BY <1>1, <2>1 DEF Booked
<1>3. \A q, r \in journal : q.event = r.event => q = r
  BY BookTypes
<1>4. QED
  BY <1>2, <1>3 DEF CountedOnce, Exact

\* The same after a step.
LEMMA CountedIsExactNext == TypeInv' => (CountedOnce' <=> Exact')
  BY CountedIsExact, PTL

\* A reward moves the balance and the rewards, and nothing of the events.
LEMMA ReviewBooked ==
  ASSUME TypeInv, NEW a \in Addresses, PeerReview(a)
  PROVE  \A b \in Addresses : Booked(b)' = Booked(b)
<1> TAKE b \in Addresses
<1>1. /\ balance' = [balance EXCEPT ![a] = balance[a] + Reward]
      /\ rewards' = [rewards EXCEPT ![a] = rewards[a] + Reward]
      /\ balance \in [Addresses -> Int] /\ rewards \in [Addresses -> Nat]
  BY DEF PeerReview, TypeInv, TypeOK
<1>2. balance[b] \in Int /\ rewards[b] \in Nat /\ Reward \in Nat
  BY <1>1, BalancesAssumption
<1>3. CASE b = a
  <2>1. balance'[b] = balance[b] + Reward /\ rewards'[b] = rewards[b] + Reward
    BY <1>1, <1>3
  <2>2. QED
    BY <1>2, <2>1 DEF Booked
<1>4. CASE b # a
  BY <1>1, <1>4 DEF Booked
<1>5. QED
  BY <1>3, <1>4

\* A page adds to each address its events that were not journalled yet.
LEMMA ApplyBooked ==
  ASSUME TypeInv, NEW w \in Workers, Apply(w)
  PROVE  \E new \in SUBSET chain :
           /\ new \cap journal = {} /\ journal' = journal \cup new
           /\ \A a \in Addresses : Booked(a)' = Booked(a) + SumDelta(new, a)
<1> DEFINE new == NewRows(sync[w].page)
<1>1. new \subseteq chain /\ new \cap journal = {}
  BY BookTypes, SyncType DEF NewRows
<1>2. /\ journal' = journal \cup new /\ rewards' = rewards
      /\ \A a \in Addresses : balance'[a] = balance[a] + SumDelta(new, a)
  BY DEF Apply
<1> HIDE DEF new
<1>3. ASSUME NEW a \in Addresses PROVE Booked(a)' = Booked(a) + SumDelta(new, a)
  <2>1. balance[a] \in Int /\ rewards[a] \in Nat /\ SumDelta(new, a) \in Int
    BY <1>1, BookTypes, SumDeltaType
  <2>2. \A x, y, z \in Int : (x + y) - z = (x - z) + y
    OBVIOUS
  <2>3. QED
    BY <1>2, <2>1, <2>2 DEF Booked
<1>4. QED
  BY <1>1, <1>2, <1>3

\* Every step but the writing of a recomputation books exactly the events that
\* it journals.
LEMMA BookStep ==
  ASSUME TypeInv, [Next]_vars, ~RebuildWrite
  PROVE  \E new \in SUBSET chain :
           /\ new \cap journal = {} /\ journal' = journal \cup new
           /\ \A a \in Addresses : Booked(a)' = Booked(a) + SumDelta(new, a)
<1>1. ASSUME journal' = journal, \A a \in Addresses : Booked(a)' = Booked(a)
      PROVE  \E new \in SUBSET chain :
               /\ new \cap journal = {} /\ journal' = journal \cup new
               /\ \A a \in Addresses : Booked(a)' = Booked(a) + SumDelta(new, a)
  <2>1. \A a \in Addresses : SumDelta({}, a) = 0
    BY SumDeltaNone DEF HasRows
  <2>2. \A a \in Addresses : Booked(a)' = Booked(a) + SumDelta({}, a)
    BY <1>1, <2>1, BookTypes DEF Booked
  <2>3. {} \in SUBSET chain /\ {} \cap journal = {} /\ journal' = journal \cup {}
    BY <1>1
  <2>4. QED
    BY <2>2, <2>3
<1>2. CASE \E w \in Workers : Apply(w)
  BY <1>2, ApplyBooked
<1>3. CASE \E a \in Addresses : PeerReview(a)
  <2>1. journal' = journal
    BY <1>3 DEF PeerReview
  <2>2. QED
    BY <1>1, <1>3, <2>1, ReviewBooked
<1>4. CASE UNCHANGED <<journal, balance, rewards>>
  BY <1>1, <1>4 DEF Booked
<1>5. CASE \/ CloseLedger \/ Prune \/ RebuildRead \/ UNCHANGED vars
           \/ \E w \in Workers : \/ Tick(w) \/ Resume(w) \/ Replay(w) \/ Fetch(w)
                                 \/ FetchRefused(w) \/ Finish(w) \/ Fail(w)
  <2>1. UNCHANGED <<journal, balance, rewards>>
    BY <1>5 DEF CloseLedger, Prune, RebuildRead, vars, tableVars, Tick, Resume, Replay, Fetch,
       FetchRefused, Finish, Fail
  <2>2. QED
    BY <1>4, <2>1
<1>6. QED
  BY <1>2, <1>3, <1>5 DEF Next, Sync, Workers

\* The writing of a recomputation books what its transaction read, or leaves an
\* address alone whose first events came later.
LEMMA RebuildBooked ==
  ASSUME TypeInv, RebuildWrite
  PROVE  /\ journal' = journal
         /\ \A a \in Addresses : \/ Booked(a)' = SumDelta(snapshot, a)
                                 \/ Booked(a)' = Booked(a) /\ snapshot # journal
<1>1. journal' = journal
  BY DEF RebuildWrite
<1>2. ASSUME NEW a \in Addresses
      PROVE  \/ Booked(a)' = SumDelta(snapshot, a)
             \/ Booked(a)' = Booked(a) /\ snapshot # journal
  <2>1. CASE HasRows(snapshot, a) \/ ~HasRows(journal, a)
    <3>1. balance'[a] = SumDelta(snapshot, a) /\ rewards'[a] = 0
      BY <2>1 DEF RebuildWrite, Rebuilt
    <3>2. SumDelta(snapshot, a) \in Int
      BY BookTypes, SumDeltaType
    <3>3. QED
      BY <3>1, <3>2 DEF Booked
  <2>2. CASE ~HasRows(snapshot, a) /\ HasRows(journal, a)
    BY <2>2 DEF RebuildWrite, Rebuilt, Booked
  <2>3. QED
    BY <2>1, <2>2
<1>3. QED
  BY <1>1, <1>2

\* A step that books what it journals keeps exact books exact.
LEMMA ExactStays ==
  ASSUME TypeInv, TypeInv', [Next]_vars, ~RebuildWrite, CountedOnce
  PROVE  CountedOnce'
<1>1. PICK new \in SUBSET chain :
        /\ new \cap journal = {} /\ journal' = journal \cup new
        /\ \A a \in Addresses : Booked(a)' = Booked(a) + SumDelta(new, a)
  BY BookStep
<1>2. ASSUME NEW a \in Addresses PROVE Booked(a)' = SumDelta(journal', a)
  <2>1. SumDelta(journal \cup new, a) = SumDelta(journal, a) + SumDelta(new, a)
    BY <1>1, BookTypes, SumDeltaUnion
  <2>2. Booked(a) = SumDelta(journal, a)
    BY CountedIsExact DEF Exact
  <2>3. QED
    BY <1>1, <2>1, <2>2
<1>3. QED
  BY <1>2, CountedIsExactNext DEF Exact

\* A recomputation that read the journal it writes over makes the books exact,
\* whatever they were.
LEMMA RebuildRepairs ==
  ASSUME TypeInv, TypeInv', RebuildWrite, snapshot = journal
  PROVE  CountedOnce'
  BY RebuildBooked, CountedIsExactNext DEF Exact

\* The address stands for events that are journalled, each of them once.
StandsFor(a) == \E counted \in SUBSET journal : Booked(a) = SumDelta(counted, a)

\* NeverTwice in terms of what is booked.
LEMMA NeverTwiceIsBooked ==
  ASSUME TypeInv, \A a \in Addresses : StandsFor(a)
  PROVE  NeverTwice
<1> SUFFICES ASSUME NEW a \in Addresses
             PROVE  \E counted \in SUBSET journal : balance[a] = SumDelta(counted, a) + rewards[a]
  BY DEF NeverTwice
<1>1. PICK counted \in SUBSET journal : Booked(a) = SumDelta(counted, a)
  BY DEF StandsFor
<1>2. counted \subseteq chain
  BY BookTypes
<1>3. balance[a] \in Int /\ rewards[a] \in Nat /\ SumDelta(counted, a) \in Int
  BY <1>2, BookTypes, SumDeltaType
<1>4. \A x, y \in Int : \A z \in Nat : x - z = y => x = y + z
  OBVIOUS
<1>5. balance[a] = SumDelta(counted, a) + rewards[a]
  BY <1>1, <1>3, <1>4, Zenon DEF Booked
<1>6. QED
  BY <1>5

\* Pages add events that were not journalled, so none that was counted; a
\* recomputation starts over from events of the journal.
LEMMA StandsForStep ==
  ASSUME TypeInv, [Next]_vars, NEW a \in Addresses, StandsFor(a)
  PROVE  StandsFor(a)'
<1>1. PICK counted \in SUBSET journal : Booked(a) = SumDelta(counted, a)
  BY DEF StandsFor
<1>2. CASE RebuildWrite
  <2>1. journal' = journal /\ (Booked(a)' = SumDelta(snapshot, a) \/ Booked(a)' = Booked(a))
    BY <1>2, RebuildBooked
  <2>2. snapshot \in SUBSET journal
    BY BookTypes
  <2>3. QED
    BY <1>1, <2>1, <2>2 DEF StandsFor
<1>3. CASE ~RebuildWrite
  <2>1. PICK new \in SUBSET chain :
          /\ new \cap journal = {} /\ journal' = journal \cup new
          /\ Booked(a)' = Booked(a) + SumDelta(new, a)
    BY <1>3, BookStep
  <2>2. SumDelta(counted \cup new, a) = SumDelta(counted, a) + SumDelta(new, a)
    <3>1. counted \subseteq chain /\ new \subseteq chain /\ counted \cap new = {}
      BY <2>1, BookTypes
    <3>2. QED
      BY <3>1, SumDeltaUnion
  <2>3. counted \cup new \in SUBSET journal' /\ Booked(a)' = SumDelta(counted \cup new, a)
    BY <1>1, <2>1, <2>2
  <2>4. QED
    BY <2>3 DEF StandsFor
<1>4. QED
  BY <1>2, <1>3

\* Initially nothing is journalled and nothing is booked.
LEMMA CountInit == Init => CountedOnce /\ \A a \in Addresses : StandsFor(a)
<1> SUFFICES ASSUME Init PROVE CountedOnce /\ \A a \in Addresses : StandsFor(a)
  OBVIOUS
<1>1. \A a \in Addresses : SumDelta(journal, a) = 0
  BY SumDeltaNone DEF Init, HasRows
<1>2. \A a \in Addresses : Booked(a) = 0
  BY DEF Init, Booked
<1>3. QED
  BY <1>1, <1>2, InitType, CountedIsExact DEF Exact, StandsFor

\* Whatever overlaps - a recomputation and a sync included - no event is ever
\* counted twice in a balance.
THEOREM NeverTwiceCorrect == Spec => []NeverTwice
<1> DEFINE Inv == TypeInv /\ \A a \in Addresses : StandsFor(a)
<1>1. Init => Inv
  BY InitType, CountInit
<1>2. Inv /\ [Next]_vars => Inv'
  BY TypeStep, StandsForStep
<1>3. Inv => NeverTwice
  BY NeverTwiceIsBooked
<1>4. QED
  BY <1>1, <1>2, <1>3, PTL DEF Spec

\* Events get lost from the totals only when a recomputation overlaps a sync
\* that commits, and the next undisturbed recomputation repairs them.
THEOREM OverlapAloneLosesCorrect == Spec => OverlapAloneLoses
<1>1. TypeInv /\ [Next]_vars =>
        /\ CountedOnce => CountedOnce' \/ (RebuildWrite /\ snapshot # journal)
        /\ RebuildWrite /\ snapshot = journal => CountedOnce'
  BY TypeStep, ExactStays, RebuildRepairs
<1>2. QED
  BY <1>1, InitType, TypeStep, PTL DEF Spec, OverlapAloneLoses

\* A recomputation that no sync disturbs still sees the journal.
SeesJournal == rebuilding => snapshot = journal

\* A sync that commits during a recomputation is what QuietNext rules out.
LEMMA SeesStep == SeesJournal /\ [QuietNext]_vars => SeesJournal'
<1> SUFFICES ASSUME SeesJournal, [QuietNext]_vars PROVE SeesJournal'
  OBVIOUS
<1>1. CASE RebuildRead
  BY <1>1 DEF SeesJournal, RebuildRead, tableVars
<1>2. CASE RebuildWrite
  BY <1>2 DEF SeesJournal, RebuildWrite
<1>3. CASE UNCHANGED rebuildVars /\ (rebuilding => UNCHANGED journal)
  BY <1>3 DEF SeesJournal, rebuildVars
<1>4. QED
  BY <1>1, <1>2, <1>3 DEF QuietNext, Next, Sync, CloseLedger, Prune, Tick, Resume, Replay, Fetch,
     FetchRefused, Apply, Finish, Fail, PeerReview, vars, tableVars

\* Every balance is the sum of the journalled events and the peer review
\* rewards, whatever pages overlap, are fetched again, fail or are replayed, as
\* long as the totals are recomputed while no sync writes.
THEOREM CountedOnceCorrect == QuietSpec => []CountedOnce
<1> DEFINE Inv == TypeInv /\ CountedOnce /\ SeesJournal
<1>1. Init => Inv
  BY InitType, CountInit DEF Init, SeesJournal
<1>2. Inv /\ [QuietNext]_vars => Inv'
  <2> SUFFICES ASSUME Inv, [QuietNext]_vars PROVE Inv'
    OBVIOUS
  <2>1. [Next]_vars
    BY DEF QuietNext
  <2>2. TypeInv' /\ SeesJournal'
    BY <2>1, TypeStep, SeesStep
  <2>3. CASE RebuildWrite
    BY <2>2, <2>3, RebuildRepairs DEF SeesJournal, RebuildWrite
  <2>4. CASE ~RebuildWrite
    BY <2>1, <2>2, <2>4, ExactStays
  <2>5. QED
    BY <2>2, <2>3, <2>4
<1>3. Inv => CountedOnce
  OBVIOUS
<1>4. QED
  BY <1>1, <1>2, <1>3, PTL DEF QuietSpec

-----------------------------------------------------------------------------
(* No event is skipped *)

\* What the operator and the sizes have to respect: the projection starts at a
\* configured ledger, a replay leaves no gap after it, and the events of one
\* sync fit into its pages.
Discipline ==
  /\ StartingLedger > 0
  /\ \A from \in ReplayFrom : from <= StartingLedger + 1
  /\ MaxEvents < MaxPages * PageSize

\* The invariants below are stated over a chain ch, a journal jr, its latest
\* ledger hd and its oldest ledger old.
CountedUpTo(l, ch, jr, old) ==
  \A r \in ch : StartingLedger < r.ledger /\ r.ledger <= l => r \in jr \/ r.ledger < old

PageLast(s) == Larger(s.last, Highest(Ledgers(s.page), 0))

\* Up to its cursor a sync has counted everything, and the cursor moves by a
\* page at a time.
Fetched(s, ch, jr) ==
  /\ s.pages * PageSize <= s.cursor /\ s.cursor <= Cardinality(ch)
  /\ \A r \in ch : s.start <= r.ledger /\ r.event <= s.cursor => r \in jr

\* The page leaves out nothing between the cursor and its own events, and
\* nothing up to the end of the range when it is not full.
PageKnown(s, ch) ==
  /\ \A q \in s.page : q.event > s.cursor
  /\ \A q \in s.page, r \in ch :
       s.start <= r.ledger /\ s.cursor < r.event /\ r.event <= q.event => r \in s.page
  /\ Cardinality(s.page) # PageSize =>
       \A r \in ch : s.start <= r.ledger /\ s.cursor < r.event /\ (r.ledger <= s.end \/ r.ledger <= PageLast(s))
                       => r \in s.page

Knows(s, ch, jr, hd, old) ==
  /\ s.pc = "resume" => s.cursor = 0 /\ s.pages = 0 /\ s.end <= hd
  /\ s.pc \in {"fetch", "apply", "checkpoint"} =>
       s.start <= s.end /\ s.end <= hd /\ s.last <= hd /\ CountedUpTo(s.start - 1, ch, jr, old)
  /\ s.pc \in {"fetch", "apply"} => Fetched(s, ch, jr)
  /\ s.pc = "apply" => PageKnown(s, ch)
  /\ s.pc = "checkpoint" => \A r \in ch : s.start <= r.ledger /\ r.ledger <= Covered(s) => r \in jr

ProgressInv ==
  /\ Discipline
  /\ StartingLedger <= head /\ checkpoint <= head
  /\ CountedUpTo(checkpoint, chain, journal, oldest)
  /\ \A w \in Workers : Knows(sync[w], chain, journal, head, oldest)

\* The chain has grown from ch to ch2: the new events are behind all others.
Extends(ch, hd, ch2, hd2) ==
  /\ ch \subseteq ch2 /\ hd <= hd2 /\ Cardinality(ch) <= Cardinality(ch2)
  /\ \A r \in ch2 \ ch : r.ledger > hd /\ r.event > Cardinality(ch)

\* What has been counted stays counted.
LEMMA CountedStays ==
  ASSUME NEW ch, NEW jr, NEW hd \in Int, NEW old \in Int,
         NEW ch2, NEW jr2, NEW hd2 \in Int, NEW old2 \in Int,
         \A r \in ch2 : r.ledger \in Int,
         Extends(ch, hd, ch2, hd2), jr \subseteq jr2, old <= old2,
         NEW l \in Int, l <= hd, CountedUpTo(l, ch, jr, old)
  PROVE  CountedUpTo(l, ch2, jr2, old2)
<1> SUFFICES ASSUME NEW r \in ch2, StartingLedger < r.ledger, r.ledger <= l
             PROVE  r \in jr2 \/ r.ledger < old2
  BY DEF CountedUpTo
<1>1. r \in ch
  BY DEF Extends
<1>2. r \in jr \/ r.ledger < old
  BY <1>1 DEF CountedUpTo
<1>3. QED
  BY <1>2

\* What a sync knows stays true while the others go on.
LEMMA KnowsStays ==
  ASSUME NEW ch, NEW jr, NEW hd \in Nat, NEW old \in Nat,
         NEW ch2, NEW jr2, NEW hd2 \in Nat, NEW old2 \in Nat,
         Cardinality(ch) \in Nat, Cardinality(ch2) \in Nat,
         \A r \in ch2 : r.ledger \in Nat /\ r.event \in Nat,
         \A r \in ch : r.event <= Cardinality(ch),
         Extends(ch, hd, ch2, hd2), jr \subseteq jr2, old <= old2,
         NEW s, s.start \in Nat, s.end \in Nat, s.last \in Nat, s.cursor \in Nat, s.pages \in Nat,
         s.page \subseteq ch, PageLast(s) \in Nat, s.last <= hd => PageLast(s) <= hd,
         s.pc \in {"idle", "resume", "fetch", "apply", "checkpoint"},
         Knows(s, ch, jr, hd, old)
  PROVE  Knows(s, ch2, jr2, hd2, old2)
<1>0. \A r \in ch2 : r \in ch \/ (r.ledger > hd /\ r.event > Cardinality(ch))
  BY DEF Extends
<1>1. hd <= hd2 /\ Cardinality(ch) <= Cardinality(ch2) /\ ch \subseteq ch2
  BY DEF Extends
<1>2. ASSUME s.pc = "resume" PROVE s.cursor = 0 /\ s.pages = 0 /\ s.end <= hd2
  BY <1>1, <1>2 DEF Knows
<1>3. ASSUME s.pc \in {"fetch", "apply", "checkpoint"}
      PROVE  /\ s.start <= s.end /\ s.end <= hd /\ s.last <= hd
             /\ s.end <= hd2 /\ s.last <= hd2 /\ CountedUpTo(s.start - 1, ch2, jr2, old2)
  <2>1. s.start <= s.end /\ s.end <= hd /\ s.last <= hd /\ CountedUpTo(s.start - 1, ch, jr, old)
    BY <1>3 DEF Knows
  <2>2. s.start - 1 \in Int /\ s.start - 1 <= hd
    BY <2>1
  <2>3. CountedUpTo(s.start - 1, ch2, jr2, old2)
    BY <2>1, <2>2, CountedStays
  <2>4. QED
    BY <1>1, <2>1, <2>3
<1>4. ASSUME s.pc \in {"fetch", "apply"} PROVE Fetched(s, ch2, jr2)
  <2>1. Fetched(s, ch, jr)
    BY <1>4 DEF Knows
  <2>2. ASSUME NEW r \in ch2, s.start <= r.ledger, r.event <= s.cursor PROVE r \in jr2
    <3>1. s.cursor <= Cardinality(ch)
      BY <2>1 DEF Fetched
    <3>2. r \in ch
      BY <1>0, <2>2, <3>1
    <3>3. QED
      BY <2>1, <2>2, <3>2 DEF Fetched
  <2>3. s.cursor <= Cardinality(ch2)
    BY <1>1, <2>1 DEF Fetched
  <2>4. s.pages * PageSize <= s.cursor
    BY <2>1 DEF Fetched
  <2>5. QED
    BY <2>2, <2>3, <2>4 DEF Fetched
<1>5. ASSUME s.pc = "apply" PROVE PageKnown(s, ch2)
  <2>1. PageKnown(s, ch) /\ s.end <= hd /\ s.last <= hd /\ PageLast(s) <= hd
    BY <1>3, <1>5 DEF Knows
  <2>2. ASSUME NEW q \in s.page, NEW r \in ch2, s.start <= r.ledger, s.cursor < r.event, r.event <= q.event
        PROVE  r \in s.page
    <3>1. q.event <= Cardinality(ch) /\ q.event \in Nat
      BY <1>1
    <3>2. r \in ch
      BY <1>0, <2>2, <3>1
    <3>3. QED
      BY <2>1, <2>2, <3>2 DEF PageKnown
  <2>3. ASSUME Cardinality(s.page) # PageSize, NEW r \in ch2, s.start <= r.ledger, s.cursor < r.event,
               r.ledger <= s.end \/ r.ledger <= PageLast(s)
        PROVE  r \in s.page
    <3>1. r.ledger <= hd
      BY <2>1, <2>3
    <3>2. r \in ch
      BY <1>0, <3>1
    <3>3. QED
      BY <2>1, <2>3, <3>2 DEF PageKnown
  <2>4. QED
    BY <2>1, <2>2, <2>3 DEF PageKnown
<1>6. ASSUME s.pc = "checkpoint", NEW r \in ch2, s.start <= r.ledger, r.ledger <= Covered(s) PROVE r \in jr2
  <2>1. s.start <= s.end /\ s.end <= hd /\ s.last <= hd
    BY <1>3, <1>6
  <2>2. Covered(s) <= hd /\ Covered(s) \in Int
    BY <2>1 DEF Covered, Larger
  <2>3. r \in ch
    BY <1>0, <1>6, <2>2
  <2>4. QED
    BY <1>6, <2>3 DEF Knows
<1>7. QED
  BY <1>2, <1>3, <1>4, <1>5, <1>6 DEF Knows

\* The last ledger a page has seen.
LEMMA PageLastType ==
  ASSUME TypeInv, NEW s, s.last \in Nat, s.page \subseteq chain
  PROVE  /\ PageLast(s) \in Nat /\ PageLast(s) >= s.last
         /\ s.last <= head => PageLast(s) <= head
         /\ Highest(Ledgers(s.page), 0) \in Nat
         /\ \A q \in s.page : q.ledger <= Highest(Ledgers(s.page), 0)
<1>1. /\ Ledgers(s.page) \subseteq Nat /\ \A l \in Ledgers(s.page) : l <= head
      /\ head \in Nat /\ 0 <= head
  BY PartBounded
<1>2. /\ Highest(Ledgers(s.page), 0) \in Nat /\ Highest(Ledgers(s.page), 0) <= head
      /\ \A l \in Ledgers(s.page) : l <= Highest(Ledgers(s.page), 0)
  BY <1>1, HighestType
<1>3. QED
  BY <1>1, <1>2 DEF PageLast, Larger, Ledgers

\* What the type invariant says of the chain.
LEMMA ChainFacts ==
  ASSUME TypeInv
  PROVE  /\ Cardinality(chain) \in Nat /\ head \in Nat /\ oldest \in Nat /\ checkpoint \in Nat
         /\ IsFiniteSet(chain) /\ journal \subseteq chain
         /\ Cardinality(chain) <= MaxEvents
         /\ \A r \in chain : /\ r.ledger \in Nat /\ r.event \in Nat /\ r.event > 0
                             /\ r.ledger <= head /\ r.event <= Cardinality(chain)
         /\ \A q, r \in chain : q.event = r.event => q = r
         /\ \A q, r \in chain : q.event <= r.event => q.ledger <= r.ledger
<1>1. /\ IsFiniteSet(chain) /\ journal \subseteq chain /\ chain \subseteq Rows
      /\ head \in Nat /\ oldest \in Nat /\ checkpoint \in Nat /\ Cardinality(chain) <= MaxEvents
      /\ \A r \in chain : r.ledger <= head /\ r.event \in 1..Cardinality(chain)
      /\ \A q, r \in chain : q.event = r.event => q = r
      /\ \A q, r \in chain : q.event < r.event => q.ledger <= r.ledger
  BY DEF TypeInv, TypeOK, ChainOrdered, Numbered
<1>2. Cardinality(chain) \in Nat
  BY <1>1, FS_CardinalityType
<1>3. \A r \in chain : r.ledger \in Nat /\ r.event \in Nat /\ r.event > 0 /\ r.event <= Cardinality(chain)
  BY <1>1, <1>2 DEF Rows
<1>4. ASSUME NEW q \in chain, NEW r \in chain, q.event <= r.event PROVE q.ledger <= r.ledger
  <2>1. q.event < r.event \/ q.event = r.event
    BY <1>3, <1>4
  <2>2. CASE q.event = r.event
    BY <1>1, <1>3, <2>2
  <2>3. QED
    BY <1>1, <2>1, <2>2
<1>5. QED
  BY <1>1, <1>2, <1>3, <1>4

\* The steps that leave a worker alone.
LEMMA OthersKnow ==
  ASSUME TypeInv, TypeInv', ProgressInv,
         Extends(chain, head, chain', head'), journal \subseteq journal', oldest <= oldest',
         NEW w \in Workers
  PROVE  Knows(sync[w], chain', journal', head', oldest')
<1>1. /\ head' \in Nat /\ oldest' \in Nat /\ Cardinality(chain') \in Nat
      /\ \A r \in chain' : r.ledger \in Nat /\ r.event \in Nat
  <2>1. chain' \subseteq Rows /\ IsFiniteSet(chain') /\ head' \in Nat /\ oldest' \in Nat
    BY DEF TypeInv, TypeOK, ChainOrdered, Numbered
  <2>2. QED
    BY <2>1, FS_CardinalityType DEF Rows
<1>2. /\ head \in Nat /\ oldest \in Nat /\ Cardinality(chain) \in Nat
      /\ \A r \in chain : r.event <= Cardinality(chain)
  BY ChainFacts
<1> DEFINE s == sync[w]
<1>3. /\ s.start \in Nat /\ s.end \in Nat /\ s.last \in Nat /\ s.cursor \in Nat /\ s.pages \in Nat
      /\ s.page \subseteq chain /\ s.pc \in {"idle", "resume", "fetch", "apply", "checkpoint"}
  BY SyncType
<1>4. PageLast(s) \in Nat /\ (s.last <= head => PageLast(s) <= head)
  BY <1>3, PageLastType
<1>5. Knows(s, chain, journal, head, oldest)
  BY DEF ProgressInv
<1> HIDE DEF s
<1>6. Knows(s, chain', journal', head', oldest')
  BY <1>1, <1>2, <1>3, <1>4, <1>5, KnowsStays
<1>7. QED
  BY <1>6 DEF s

\* A chain that stands still extends itself.
LEMMA SameChain ==
  ASSUME TypeInv, UNCHANGED <<chain, head>>
  PROVE  Extends(chain, head, chain', head')
  BY ChainFacts DEF Extends

\* The events of a full page spread over at least as many numbers.
LEMMA PageSpread ==
  ASSUME NEW S, IsFiniteSet(S), NEW c \in Nat, NEW top \in Nat,
         \A r \in S : r.event \in Nat /\ r.event > c /\ r.event <= top,
         \A q, r \in S : q.event = r.event => q = r,
         S # {}
  PROVE  c + Cardinality(S) <= top
<1> DEFINE f == [r \in S |-> r.event]
<1>1. IsFiniteSet(c + 1 .. top) /\ Cardinality(c + 1 .. top) = IF c + 1 > top THEN 0 ELSE top - (c + 1) + 1
  BY FS_Interval
<1>2. c + 1 <= top
  <2>1. PICK r \in S : TRUE
    OBVIOUS
  <2>2. QED
    BY <2>1
<1>3. f \in [S -> c + 1 .. top]
  <2>1. \A r \in S : r.event \in c + 1 .. top
    OBVIOUS
  <2>2. QED
    BY <2>1
<1>4. f \in Injection(S, c + 1 .. top)
  BY <1>3 DEF Injection, IsInjective
<1>5. Cardinality(S) <= Cardinality(c + 1 .. top)
  BY <1>1, <1>4, FS_Injection
<1>6. Cardinality(S) \in Nat
  BY FS_CardinalityType
<1>7. QED
  BY <1>1, <1>2, <1>5, <1>6

\* A page is counted, and the sync knows what it did.
LEMMA ApplyKnows ==
  ASSUME TypeInv, TypeInv', ProgressInv, NEW w \in Workers, Apply(w)
  PROVE  Knows(AfterPage(sync[w]), chain', journal', head', oldest')
<1> DEFINE s == sync[w]
           n == AfterPage(s)
<1>0. /\ s.pc = "apply" /\ journal' = journal \cup NewRows(s.page)
      /\ chain' = chain /\ head' = head /\ oldest' = oldest
  BY DEF Apply, chainVars
<1>1. /\ s \in SyncStates
      /\ s.start \in Nat /\ s.end \in Nat /\ s.last \in Nat /\ s.cursor \in Nat /\ s.pages \in Nat
      /\ s.page \subseteq chain
  BY SyncType
<1>2. Knows(s, chain, journal, head, oldest) /\ Discipline
  BY DEF ProgressInv
<1>3. /\ s.start <= s.end /\ s.end <= head /\ s.last <= head
      /\ CountedUpTo(s.start - 1, chain, journal, oldest)
      /\ Fetched(s, chain, journal) /\ PageKnown(s, chain)
  BY <1>0, <1>2 DEF Knows
<1>4. PageLast(s) \in Nat /\ PageLast(s) <= head
  BY <1>1, <1>3, PageLastType
<1>5. s.page \subseteq journal'
  <2> SUFFICES ASSUME NEW r \in s.page, r \notin NewRows(s.page) PROVE r \in journal
    BY <1>0
  <2>1. PICK j \in journal : j.event = r.event
    BY DEF NewRows
  <2>2. j = r
    BY <1>1, <2>1, ChainFacts
  <2>3. QED
    BY <2>2
<1>6. CountedUpTo(s.start - 1, chain, journal', oldest)
  BY <1>0, <1>3 DEF CountedUpTo
<1>7. CASE Cardinality(s.page) = PageSize
  <2> DEFINE top == Highest({r.event : r \in s.page}, 0)
  <2>1. IsFiniteSet(s.page) /\ s.page # {}
    BY <1>1, <1>7, ChainFacts, FS_Subset, FS_EmptySet, BalancesAssumption
  <2>2. PICK q \in s.page : q.event = top /\ \A r \in s.page : r.event <= top
    <3> DEFINE E == {r.event : r \in s.page}
    <3>1. E \subseteq Nat /\ E # {} /\ \A e \in E : e <= Cardinality(chain)
      BY <1>1, <2>1, PartBounded
    <3>2. Cardinality(chain) \in Nat
      BY ChainFacts
    <3>3. Highest(E, 0) \in E /\ \A e \in E : e <= Highest(E, 0)
      <4> HIDE DEF E
      <4>1. QED
        BY <3>1, <3>2, HighestMember
    <3>4. QED
      BY <3>3
  <2>3. top \in Nat /\ top <= Cardinality(chain) /\ Cardinality(chain) \in Nat /\ Cardinality(chain) <= MaxEvents
    BY <1>1, <2>2, ChainFacts
  <2> HIDE DEF top
  <2>4. s.cursor + PageSize <= top
    <3>1. \A r \in s.page : r.event \in Nat /\ r.event > s.cursor /\ r.event <= top
      BY <1>1, <1>3, <2>2, ChainFacts DEF PageKnown
    <3>2. \A r, x \in s.page : r.event = x.event => r = x
      BY <1>1, ChainFacts
    <3> HIDE DEF s
    <3>3. s.cursor + Cardinality(s.page) <= top
      BY <1>1, <2>1, <2>3, <3>1, <3>2, PageSpread
    <3>4. QED
      BY <1>7, <3>3
  <2>5. (s.pages + 1) * PageSize <= top
    <3>1. s.pages * PageSize <= s.cursor
      BY <1>3 DEF Fetched
    <3>2. \A a, b \in Nat : (a + 1) * b = a * b + b /\ a * b \in Nat
      OBVIOUS
    <3>3. (s.pages + 1) * PageSize = s.pages * PageSize + PageSize /\ s.pages * PageSize \in Nat
      BY <1>1, <3>2, BalancesAssumption
    <3> HIDE DEF s
    <3>4. QED
      BY <1>1, <2>3, <2>4, <3>1, <3>3, BalancesAssumption
  <2>6. s.pages + 1 < MaxPages
    <3> SUFFICES ASSUME MaxPages <= s.pages + 1 PROVE FALSE
      BY <1>1, BalancesAssumption
    <3>1. \A a, b, c \in Nat : a <= b => a * c <= b * c
      OBVIOUS
    <3>2. MaxPages * PageSize <= (s.pages + 1) * PageSize
      BY <1>1, <3>1, BalancesAssumption
    <3>3. MaxPages * PageSize \in Nat /\ (s.pages + 1) * PageSize \in Nat
      BY <1>1, BalancesAssumption
    <3>4. MaxEvents < MaxPages * PageSize /\ MaxEvents \in Nat
      BY <1>2, BalancesAssumption DEF Discipline
    <3> HIDE DEF s
    <3>5. QED
      BY <2>3, <2>5, <3>2, <3>3, <3>4
  <2> DEFINE last == PageLast(s)
             next == s.pages + 1
             m == [s EXCEPT !.pc = "fetch", !.cursor = top, !.pages = next, !.page = {}, !.last = last]
  <2>7. n = m
    BY <1>7, <2>6 DEF AfterPage, PageLast, top
  <2>8. /\ m.pc = "fetch" /\ m.cursor = top /\ m.pages = s.pages + 1 /\ m.last = PageLast(s)
        /\ m.start = s.start /\ m.end = s.end
    BY <1>1 DEF SyncStates
  <2>9. Fetched(m, chain, journal')
    <3>1. ASSUME NEW r \in chain, s.start <= r.ledger, r.event <= top PROVE r \in journal'
      <4>1. CASE r.event <= s.cursor
        BY <1>0, <1>3, <3>1, <4>1 DEF Fetched
      <4>2. CASE s.cursor < r.event
        <5>1. r \in s.page
          BY <1>3, <2>2, <3>1, <4>2 DEF PageKnown
        <5>2. QED
          BY <1>5, <5>1
      <4>3. QED
        BY <1>1, <4>1, <4>2, ChainFacts
    <3> HIDE DEF m
    <3>2. QED
      BY <2>3, <2>5, <2>8, <3>1 DEF Fetched
  <2> HIDE DEF m
  <2>10. QED
    BY <1>0, <1>3, <1>4, <1>6, <2>7, <2>8, <2>9 DEF Knows
<1>8. CASE Cardinality(s.page) # PageSize
  <2> DEFINE last == PageLast(s)
             m == [s EXCEPT !.pc = "checkpoint", !.cursor = 0, !.pages = 0, !.page = {}, !.last = last]
  <2>1. n = m
    BY <1>8 DEF AfterPage, PageLast
  <2>2. m.pc = "checkpoint" /\ m.last = PageLast(s) /\ m.start = s.start /\ m.end = s.end
    BY <1>1 DEF SyncStates
  <2> HIDE DEF m
  <2>3. ASSUME NEW r \in chain, s.start <= r.ledger, r.ledger <= Covered(m) PROVE r \in journal'
    <3>1. r.ledger <= s.end \/ r.ledger <= PageLast(s)
      <4>1. r.ledger \in Nat
        BY ChainFacts
      <4>2. Covered(m) \in {s.end, PageLast(s), s.start - 1}
        BY <2>2 DEF Covered, Larger
      <4>3. QED
        BY <1>1, <1>4, <2>3, <4>1, <4>2
    <3>2. CASE r.event <= s.cursor
      BY <1>0, <1>3, <2>3, <3>2 DEF Fetched
    <3>3. CASE s.cursor < r.event
      <4>1. r \in s.page
        BY <1>3, <1>8, <2>3, <3>1, <3>3 DEF PageKnown
      <4>2. QED
        BY <1>5, <4>1
    <3>4. QED
      BY <1>1, <3>2, <3>3, ChainFacts
  <2>4. QED
    BY <1>0, <1>3, <1>4, <1>6, <2>1, <2>2, <2>3 DEF Knows
<1>9. QED
  BY <1>7, <1>8

\* A page is fetched behind the cursor, or from the start of what the node
\* still has of the range.
LEMMA FetchKnows ==
  ASSUME TypeInv, ProgressInv, NEW w \in Workers, Fetch(w)
  PROVE  Knows(sync'[w], chain', journal', head', oldest')
<1> DEFINE s == sync[w]
           start == Start(s)
           page == Page(Found(s))
           last == IF s.cursor = 0 THEN start - 1 ELSE s.last
           n == [s EXCEPT !.pc = "apply", !.start = start, !.page = page, !.last = last]
<1>0. /\ s.pc = "fetch" /\ Retained(s) /\ sync' = [sync EXCEPT ![w] = n]
      /\ chain' = chain /\ head' = head /\ oldest' = oldest /\ journal' = journal
  BY DEF Fetch, chainVars, tableVars
<1>1. /\ s \in SyncStates /\ sync \in [Workers -> SyncStates]
      /\ s.start \in Nat /\ s.end \in Nat /\ s.last \in Nat /\ s.cursor \in Nat /\ s.pages \in Nat
  BY SyncType DEF TypeInv, TypeOK
<1>2. /\ s.start <= s.end /\ s.end <= head /\ s.last <= head
      /\ CountedUpTo(s.start - 1, chain, journal, oldest)
      /\ Fetched(s, chain, journal)
  BY <1>0 DEF ProgressInv, Knows
<1>3. oldest \in Nat /\ head \in Nat
  BY ChainFacts
<1>4. /\ start \in Nat /\ s.start <= start /\ start <= s.end
      /\ last \in Int /\ last <= head
      /\ s.cursor # 0 => start = s.start /\ last = s.last
  BY <1>0, <1>1, <1>2, <1>3 DEF Start, Larger, Retained
<1>5. CountedUpTo(start - 1, chain, journal, oldest)
  <2> SUFFICES ASSUME NEW r \in chain, StartingLedger < r.ledger, r.ledger <= start - 1
               PROVE  r \in journal \/ r.ledger < oldest
    BY DEF CountedUpTo
  <2>1. CASE start = s.start
    BY <1>2, <2>1 DEF CountedUpTo
  <2>2. CASE start = oldest
    BY <1>3, <2>2, ChainFacts
  <2>3. QED
    BY <1>1, <1>3, <2>1, <2>2 DEF Start, Larger
<1>6. Found(s) \subseteq chain /\ Numbered(Found(s), Cardinality(chain)) /\ Cardinality(chain) \in Nat
  <2>1. Found(s) \in SUBSET chain
    BY DEF Found
  <2>2. IsFiniteSet(Found(s))
    BY <2>1, ChainFacts, FS_Subset
  <2>3. Numbered(chain, Cardinality(chain))
    BY DEF TypeInv, ChainOrdered
  <2>4. QED
    BY <2>1, <2>2, <2>3, ChainFacts DEF Numbered
<1>7. page \subseteq Found(s) /\ page \subseteq chain
  BY <1>6 DEF Page
<1>8. n.pc = "apply" /\ n.start = start /\ n.end = s.end /\ n.last = last /\ n.cursor = s.cursor
      /\ n.pages = s.pages /\ n.page = page
  BY <1>1 DEF SyncStates
<1>9. sync'[w] = n
  BY <1>0, <1>1
<1> HIDE DEF n
<1>10. Fetched(n, chain, journal)
  <2>1. ASSUME NEW r \in chain, start <= r.ledger, r.event <= s.cursor PROVE r \in journal
    BY <1>1, <1>2, <1>4, <2>1, ChainFacts DEF Fetched
  <2>2. QED
    BY <1>2, <1>8, <2>1 DEF Fetched
<1>11. \A r \in Found(s) : r.event > s.cursor
  <2> TAKE r \in Found(s)
  <2>1. r \in chain /\ r.event > 0
    BY <1>6, ChainFacts
  <2>2. CASE s.cursor = 0
    BY <2>1, <2>2
  <2>3. CASE s.cursor # 0
    BY <2>3 DEF Found
  <2>4. QED
    BY <2>2, <2>3
<1>12. ASSUME NEW q \in page, NEW r \in chain, start <= r.ledger, s.cursor < r.event, r.event <= q.event
       PROVE  r \in page
  <2>1. r \in Found(s)
    <3>1. CASE s.cursor = 0
      <4>1. q \in chain /\ q.ledger <= s.end
        BY <1>7, <3>1 DEF Found
      <4>2. r.ledger <= q.ledger /\ r.ledger \in Nat /\ q.ledger \in Nat
        BY <1>12, <4>1, ChainFacts
      <4>3. QED
        BY <1>1, <1>12, <3>1, <4>1, <4>2 DEF Found
    <3>2. CASE s.cursor # 0
      BY <1>12, <3>2 DEF Found
    <3>3. QED
      BY <3>1, <3>2
  <2>2. QED
    BY <1>6, <1>12, <2>1, PageIsPrefix
<1>13. ASSUME Cardinality(page) # PageSize, NEW r \in chain, start <= r.ledger, s.cursor < r.event,
              r.ledger <= s.end \/ r.ledger <= PageLast(n)
       PROVE  r \in page
  <2>1. page = Found(s)
    BY <1>6, <1>13, PageNotFull
  <2>2. CASE s.cursor # 0
    BY <1>13, <2>1, <2>2 DEF Found
  <2>3. CASE s.cursor = 0
    <3>1. Ledgers(page) \subseteq Nat /\ \A l \in Ledgers(page) : l <= s.end
      <4>1. \A q \in Found(s) : q.ledger <= s.end
        BY <2>3 DEF Found
      <4>2. \A q \in page : q.ledger \in Nat /\ q.ledger <= s.end
        BY <1>7, <4>1, ChainFacts
      <4> HIDE DEF page
      <4>3. QED
        BY <4>2 DEF Ledgers
    <3>2. 0 <= s.end
      BY <1>1
    <3>3. Highest(Ledgers(page), 0) \in Nat /\ Highest(Ledgers(page), 0) <= s.end
      BY <1>1, <3>1, <3>2, HighestType
    <3>4. PageLast(n) \in {start - 1, Highest(Ledgers(page), 0)}
      BY <1>8, <2>3 DEF PageLast, Larger
    <3>5. r.ledger <= s.end
      <4>1. r.ledger \in Nat
        BY ChainFacts
      <4>2. QED
        BY <1>1, <1>4, <1>13, <3>3, <3>4, <4>1
    <3>6. QED
      BY <1>13, <2>1, <2>3, <3>5 DEF Found
  <2>4. QED
    BY <2>2, <2>3
<1>14. PageKnown(n, chain)
  BY <1>7, <1>8, <1>11, <1>12, <1>13 DEF PageKnown
<1>15. Knows(n, chain, journal, head, oldest)
  BY <1>2, <1>4, <1>5, <1>8, <1>10, <1>14 DEF Knows
<1>16. QED
  BY <1>0, <1>9, <1>15

\* A sync resumes where everything has been counted.
LEMMA ResumeKnown ==
  ASSUME TypeInv, ProgressInv
  PROVE  CountedUpTo(ResumePoint, chain, journal, oldest)
<1>1. CASE checkpoint > 0
  BY <1>1 DEF ProgressInv, ResumePoint
<1>2. CASE ~(checkpoint > 0)
  <2>1. ResumePoint = StartingLedger
    BY <1>2 DEF ResumePoint, ProgressInv, Discipline
  <2>2. QED
    BY <2>1, ChainFacts, BalancesAssumption DEF CountedUpTo
<1>3. QED
  BY <1>1, <1>2

\* Initially no sync knows anything.
LEMMA ProgressInit == Discipline /\ Init => ProgressInv
<1> SUFFICES ASSUME Discipline, Init PROVE ProgressInv
  OBVIOUS
<1>1. \A w \in Workers : sync[w].pc = "idle"
  BY IdleType DEF Init
<1>2. \A w \in Workers : Knows(sync[w], chain, journal, head, oldest)
  BY <1>1 DEF Knows
<1>3. StartingLedger <= head /\ checkpoint <= head
  BY BalancesAssumption DEF Init, Larger
<1>4. CountedUpTo(checkpoint, chain, journal, oldest)
  BY DEF Init, CountedUpTo
<1>5. QED
  BY <1>2, <1>3, <1>4 DEF ProgressInv

\* Every step keeps what the syncs know.
LEMMA ProgressStep == TypeInv /\ TypeInv' /\ ProgressInv /\ [Next]_vars => ProgressInv'
<1> SUFFICES ASSUME TypeInv, TypeInv', ProgressInv, [Next]_vars PROVE ProgressInv'
  OBVIOUS
<1>0. /\ Discipline /\ StartingLedger <= head /\ checkpoint <= head
      /\ CountedUpTo(checkpoint, chain, journal, oldest)
      /\ head \in Nat /\ oldest \in Nat /\ checkpoint \in Nat /\ StartingLedger \in Nat
      /\ sync \in [Workers -> SyncStates]
  BY ChainFacts, BalancesAssumption DEF ProgressInv, TypeInv, TypeOK
<1>1. ASSUME Extends(chain, head, chain', head'), journal \subseteq journal', oldest <= oldest',
             head' \in Nat, oldest' \in Nat, checkpoint' = checkpoint
      PROVE  CountedUpTo(checkpoint', chain', journal', oldest') /\ StartingLedger <= head' /\ checkpoint' <= head'
  <2>1. \A r \in chain' : r.ledger \in Int
    BY DEF TypeInv, TypeOK, Rows
  <2>2. CountedUpTo(checkpoint, chain', journal', oldest')
    BY <1>0, <1>1, <2>1, CountedStays
  <2>3. QED
    BY <1>0, <1>1, <2>2 DEF Extends
\* The syncs stand still.
<1>2. ASSUME Extends(chain, head, chain', head'), journal \subseteq journal', oldest <= oldest',
             head' \in Nat, oldest' \in Nat, checkpoint' = checkpoint, sync' = sync
      PROVE  ProgressInv'
  <2>1. \A w \in Workers : Knows(sync'[w], chain', journal', head', oldest')
    BY <1>2, OthersKnow
  <2>2. QED
    BY <1>0, <1>1, <1>2, <2>1 DEF ProgressInv, Discipline
<1>3. CASE CloseLedger
  <2>1. /\ chain \subseteq chain' /\ head' = head + 1 /\ ChainOrdered'
        /\ \A r \in chain' \ chain : r.ledger = head + 1 /\ r.event > Cardinality(chain)
    BY <1>3, ChainGrows
  <2>2. Cardinality(chain) <= Cardinality(chain')
    <3>1. IsFiniteSet(chain') /\ chain \in SUBSET chain'
      BY <2>1 DEF ChainOrdered, Numbered
    <3>2. QED
      BY <3>1, FS_Subset
  <2>3. Extends(chain, head, chain', head')
    BY <1>0, <2>1, <2>2 DEF Extends
  <2>4. journal' = journal /\ oldest' = oldest /\ checkpoint' = checkpoint /\ sync' = sync
    BY <1>3 DEF CloseLedger, tableVars
  <2>5. QED
    BY <1>0, <1>2, <2>1, <2>3, <2>4
<1>4. ASSUME UNCHANGED <<chain, head, journal, checkpoint, sync>>, oldest' \in {oldest, oldest + 1}
      PROVE  ProgressInv'
  <2>1. Extends(chain, head, chain', head')
    BY <1>4, SameChain
  <2>2. QED
    BY <1>0, <1>2, <1>4, <2>1
<1>5. CASE Prune \/ RebuildRead \/ RebuildWrite \/ UNCHANGED vars \/ \E a \in Addresses : PeerReview(a)
  <2>1. UNCHANGED <<chain, head, journal, checkpoint, sync>> /\ oldest' \in {oldest, oldest + 1}
    BY <1>5 DEF Prune, RebuildRead, RebuildWrite, PeerReview, vars, chainVars, tableVars
  <2>2. QED
    BY <1>4, <2>1
\* One sync moves, and the chain does not.
<1>6. ASSUME NEW w \in Workers, \A v \in Workers \ {w} : sync'[v] = sync[v],
             UNCHANGED chainVars, journal \subseteq journal', checkpoint' = checkpoint,
             Knows(sync'[w], chain', journal', head', oldest')
      PROVE  ProgressInv'
  <2>1. Extends(chain, head, chain', head') /\ oldest <= oldest' /\ head' \in Nat /\ oldest' \in Nat
    BY <1>0, <1>6, SameChain DEF chainVars
  <2>2. \A v \in Workers : Knows(sync'[v], chain', journal', head', oldest')
    <3> TAKE v \in Workers
    <3>1. CASE v = w
      BY <1>6, <3>1
    <3>2. CASE v # w
      <4>1. Knows(sync[v], chain', journal', head', oldest')
        BY <1>6, <2>1, OthersKnow
      <4>2. sync'[v] = sync[v]
        BY <1>6, <3>2
      <4>3. QED
        BY <4>1, <4>2
    <3>3. QED
      BY <3>1, <3>2
  <2>3. QED
    BY <1>0, <1>1, <1>6, <2>1, <2>2 DEF ProgressInv, Discipline
\* A sync that has ended knows nothing.
<1>7. \A c, j, h, o : Knows(Idle, c, j, h, o)
  BY IdleType DEF Knows
<1>8. ASSUME NEW w \in Workers, Tick(w) PROVE ProgressInv'
  <2> DEFINE n == [Idle EXCEPT !.pc = "resume", !.end = head]
  <2>1. sync' = [sync EXCEPT ![w] = n] /\ UNCHANGED <<chainVars, journal, checkpoint>>
    BY <1>8 DEF Tick, tableVars
  <2>2. n.pc = "resume" /\ n.cursor = 0 /\ n.pages = 0 /\ n.end = head
    BY DEF Idle
  <2> HIDE DEF n
  <2>3. sync'[w] = n /\ \A v \in Workers \ {w} : sync'[v] = sync[v]
    BY <1>0, <2>1
  <2>4. Knows(n, chain', journal', head', oldest')
    BY <1>0, <2>1, <2>2 DEF Knows, chainVars
  <2>5. QED
    BY <1>6, <2>1, <2>3, <2>4
<1>9. ASSUME NEW w \in Workers, Resume(w) PROVE ProgressInv'
  <2> DEFINE p == ResumePoint
             s == sync[w]
             start == p + 1
             m == [s EXCEPT !.pc = "fetch", !.start = start, !.last = p]
             n == IF p + 1 > s.end THEN Idle ELSE m
  <2>1. s.pc = "resume" /\ sync' = [sync EXCEPT ![w] = n] /\ UNCHANGED <<chainVars, journal, checkpoint>>
    BY <1>9 DEF Resume, tableVars
  <2>2. p \in Nat /\ CountedUpTo(p, chain, journal, oldest)
    BY ResumeType, ResumeKnown
  <2>3. s.end \in Nat /\ s.end <= head /\ s.cursor = 0 /\ s.pages = 0 /\ s \in SyncStates
    BY <2>1, SyncType DEF ProgressInv, Knows
  <2>4. sync'[w] = n /\ \A v \in Workers \ {w} : sync'[v] = sync[v]
    BY <1>0, <2>1
  <2> HIDE DEF p
  <2>5. m.pc = "fetch" /\ m.start = p + 1 /\ m.last = p /\ m.end = s.end /\ m.cursor = 0 /\ m.pages = 0
    BY <2>3 DEF SyncStates
  <2> HIDE DEF m
  <2>6. Knows(n, chain', journal', head', oldest')
    <3>1. CASE p + 1 > s.end
      BY <1>7, <3>1
    <3>2. CASE ~(p + 1 > s.end)
      <4>1. n = m /\ m.start <= m.end /\ m.end <= head /\ m.last <= head
        BY <1>0, <2>2, <2>3, <2>5, <3>2
      <4>2. m.start - 1 = p
        BY <2>2, <2>5
      <4>3. Fetched(m, chain, journal)
        <5>1. \A r \in chain : ~(r.event <= m.cursor)
          BY <2>5, ChainFacts
        <5>2. m.pages * PageSize <= m.cursor /\ m.cursor <= Cardinality(chain)
          BY <2>5, ChainFacts, BalancesAssumption
        <5>3. QED
          BY <5>1, <5>2 DEF Fetched
      <4>4. QED
        BY <2>1, <2>2, <2>5, <4>1, <4>2, <4>3 DEF Knows, chainVars
    <3>3. QED
      BY <3>1, <3>2
  <2> HIDE DEF n
  <2>7. QED
    BY <1>6, <2>1, <2>4, <2>6
<1>10. ASSUME NEW w \in Workers, Replay(w) PROVE ProgressInv'
  <2>1. PICK from \in ReplayFrom, to \in 1..head, persist \in BOOLEAN :
          /\ from <= to
          /\ sync' = [sync EXCEPT ![w] = [Idle EXCEPT !.pc = "fetch", !.start = from, !.end = to,
                                                      !.last = from - 1, !.persist = persist]]
    BY <1>10 DEF Replay
  <2> DEFINE n == [Idle EXCEPT !.pc = "fetch", !.start = from, !.end = to, !.last = from - 1, !.persist = persist]
  <2>2. n.pc = "fetch" /\ n.start = from /\ n.end = to /\ n.last = from - 1 /\ n.cursor = 0 /\ n.pages = 0
    BY DEF Idle
  <2>3. sync' = [sync EXCEPT ![w] = n] /\ UNCHANGED <<chainVars, journal, checkpoint>>
    BY <1>10, <2>1 DEF Replay, tableVars
  <2>4. from \in Nat /\ from > 0 /\ to \in Nat /\ to <= head /\ from <= StartingLedger + 1
    BY <1>0, BalancesAssumption DEF Discipline
  <2> HIDE DEF n
  <2>5. sync'[w] = n /\ \A v \in Workers \ {w} : sync'[v] = sync[v]
    BY <1>0, <2>3
  <2>6. CountedUpTo(from - 1, chain, journal, oldest)
    BY <1>0, <2>4, ChainFacts DEF CountedUpTo
  <2>7. Fetched(n, chain, journal)
    <3>1. \A r \in chain : ~(r.event <= n.cursor)
      BY <2>2, ChainFacts
    <3>2. n.pages * PageSize <= n.cursor /\ n.cursor <= Cardinality(chain)
      BY <2>2, ChainFacts, BalancesAssumption
    <3>3. QED
      BY <3>1, <3>2 DEF Fetched
  <2>8. Knows(n, chain', journal', head', oldest')
    BY <1>0, <2>1, <2>2, <2>3, <2>4, <2>6, <2>7 DEF Knows, chainVars
  <2>9. QED
    BY <1>6, <2>3, <2>5, <2>8
<1>11. ASSUME NEW w \in Workers, Fetch(w) PROVE ProgressInv'
  <2>1. UNCHANGED <<chainVars, journal, checkpoint>> /\ \A v \in Workers \ {w} : sync'[v] = sync[v]
    BY <1>0, <1>11 DEF Fetch, tableVars
  <2>2. Knows(sync'[w], chain', journal', head', oldest')
    BY <1>11, FetchKnows
  <2>3. QED
    BY <1>6, <2>1, <2>2
<1>12. ASSUME NEW w \in Workers, FetchRefused(w) \/ Fail(w) PROVE ProgressInv'
  <2>1. sync' = [sync EXCEPT ![w] = Idle] /\ UNCHANGED <<chainVars, journal, checkpoint>>
    BY <1>12 DEF FetchRefused, Fail, tableVars
  <2>2. sync'[w] = Idle /\ \A v \in Workers \ {w} : sync'[v] = sync[v]
    BY <1>0, <2>1
  <2>3. QED
    BY <1>6, <1>7, <2>1, <2>2
<1>13. ASSUME NEW w \in Workers, Apply(w) PROVE ProgressInv'
  <2>1. /\ sync' = [sync EXCEPT ![w] = AfterPage(sync[w])] /\ journal \subseteq journal'
        /\ UNCHANGED <<chainVars, checkpoint>>
    BY <1>13 DEF Apply
  <2>2. sync'[w] = AfterPage(sync[w]) /\ \A v \in Workers \ {w} : sync'[v] = sync[v]
    BY <1>0, <2>1
  <2>3. Knows(AfterPage(sync[w]), chain', journal', head', oldest')
    BY <1>13, ApplyKnows
  <2>4. QED
    BY <1>6, <2>1, <2>2, <2>3
<1>14. ASSUME NEW w \in Workers, Finish(w) PROVE ProgressInv'
  <2> DEFINE s == sync[w]
  <2>1. /\ s.pc = "checkpoint" /\ sync' = [sync EXCEPT ![w] = Idle] /\ UNCHANGED <<chainVars, journal>>
        /\ checkpoint' \in {checkpoint, Covered(s)}
    BY <1>14 DEF Finish
  <2>2. /\ s.start <= s.end /\ s.end <= head /\ s.last <= head
        /\ CountedUpTo(s.start - 1, chain, journal, oldest)
        /\ \A r \in chain : s.start <= r.ledger /\ r.ledger <= Covered(s) => r \in journal
    BY <2>1 DEF ProgressInv, Knows
  <2>3. s.start \in Nat /\ s.end \in Nat /\ s.last \in Nat
    BY SyncType
  <2>4. Covered(s) <= head
    BY <1>0, <2>2, <2>3 DEF Covered, Larger
  <2>5. CountedUpTo(Covered(s), chain, journal, oldest)
    <3> SUFFICES ASSUME NEW r \in chain, StartingLedger < r.ledger, r.ledger <= Covered(s)
                 PROVE  r \in journal \/ r.ledger < oldest
      BY DEF CountedUpTo
    <3>1. r.ledger \in Nat
      BY ChainFacts
    <3>2. CASE s.start <= r.ledger
      BY <2>2, <3>2
    <3>3. CASE r.ledger <= s.start - 1
      BY <2>2, <3>3 DEF CountedUpTo
    <3>4. QED
      BY <2>3, <3>1, <3>2, <3>3
  <2> HIDE DEF s
  <2>6. /\ CountedUpTo(checkpoint', chain', journal', oldest')
        /\ checkpoint' <= head' /\ StartingLedger <= head'
    BY <1>0, <2>1, <2>4, <2>5 DEF chainVars
  <2>7. \A v \in Workers : Knows(sync'[v], chain', journal', head', oldest')
    <3> TAKE v \in Workers
    <3>1. CASE v = w
      BY <1>0, <1>7, <2>1, <3>1
    <3>2. CASE v # w
      <4>1. Extends(chain, head, chain', head') /\ journal \subseteq journal' /\ oldest <= oldest'
        BY <1>0, <2>1, SameChain DEF chainVars
      <4>2. Knows(sync[v], chain', journal', head', oldest')
        BY <4>1, OthersKnow
      <4>3. QED
        BY <1>0, <2>1, <3>2, <4>2
    <3>3. QED
      BY <3>1, <3>2
  <2>8. QED
    BY <1>0, <2>6, <2>7 DEF ProgressInv, Discipline
<1>15. QED
  BY <1>3, <1>5, <1>8, <1>9, <1>10, <1>11, <1>12, <1>13, <1>14 DEF Next, Sync, Workers

\* The checkpoint never passes an event that was not counted, unless the node
\* has dropped it: whatever fails between two pages, overlaps or is replayed,
\* while a replay leaves no gap after the configured start and the events fit
\* into the pages of one sync.
THEOREM NothingSkippedCorrect == Discipline /\ Spec => []NothingSkipped
<1>1. TypeInv /\ ProgressInv => NothingSkipped
  BY ResumeKnown DEF NothingSkipped, CountedUpTo
<1>2. QED
  BY <1>1, InitType, TypeStep, ProgressInit, ProgressStep, PTL DEF Spec
=============================================================================
