----------------------- MODULE GovernanceTokenProofs ------------------------
(***************************************************************************)
(* Theorems about GovernanceToken, for every finite set of accounts, every *)
(* supply bound and every amount.                                          *)
(***************************************************************************)
EXTENDS GovernanceToken, TotalsProofs

\* The delegation book stays a function from accounts to integers.
LEMMA FollowedType ==
  ASSUME TypeOK, NEW power \in [Accounts -> Int], NEW a \in Accounts, NEW change \in Int
  PROVE  Followed(power, a, change) \in [Accounts -> Int]
BY DEF TypeOK, Followed

\* Also after a delegator takes its balance back from its delegate.
LEMMA WithdrawnType ==
  ASSUME TypeOK, NEW a \in Accounts
  PROVE  Followed(delegated, a, -balance[a]) \in [Accounts -> Int]
<1>1. -balance[a] \in Int /\ delegated \in [Accounts -> Int]
  BY DEF TypeOK
<1>2. QED
  BY <1>1, FollowedType

\* Every handler of the token keeps every variable in its type.
LEMMA NextType == TypeOK /\ [Next]_vars => TypeOK'
<1> SUFFICES ASSUME TypeOK, [Next]_vars PROVE TypeOK'
  OBVIOUS
<1> USE TokenAssumption DEF tokenVars
<1>1. CASE Tick
  BY <1>1 DEF TypeOK, Tick
<1>2. CASE \E value \in BOOLEAN : SetPaused(value)
  BY <1>2 DEF TypeOK, SetPaused
<1>3. CASE \E a \in Accounts, amount \in Amounts :
             Mint(a, amount) \/ Burn(a, amount) \/ AdminBurnFrom(a, amount)
  <2>1. PICK a \in Accounts, amount \in Amounts :
          Mint(a, amount) \/ Burn(a, amount) \/ AdminBurnFrom(a, amount)
    BY <1>3
  <2>0. -amount \in Int /\ amount \in Int
    OBVIOUS
  <2>2. CASE Mint(a, amount)
    <3>1. delegated' \in [Accounts -> Int]
      BY <2>0, <2>2, FollowedType DEF TypeOK, Mint
    <3>2. balance' \in [Accounts -> Nat]
      BY <2>2 DEF TypeOK, Mint
    <3>3. QED
      BY <2>2, <3>1, <3>2 DEF TypeOK, Mint
  <2>3. CASE Burned(a, amount)
    <3>1. Followed(delegated, a, -amount) \in [Accounts -> Int]
      BY <2>0, FollowedType DEF TypeOK
    <3>2. balance' \in [Accounts -> Nat]
      BY <2>3 DEF TypeOK, Burned
    <3>3. QED
      BY <2>3, <3>1, <3>2 DEF TypeOK, Burned
  <2>4. QED
    BY <2>1, <2>2, <2>3 DEF Burn, AdminBurnFrom
<1>4. ASSUME NEW from \in Accounts, NEW to \in Accounts, NEW amount \in Amounts,
             Moved(from, to, amount)
      PROVE  balance' \in [Accounts -> Nat] /\ delegated' \in [Accounts -> Int]
  <2>0. -amount \in Int /\ amount \in Int
    OBVIOUS
  <2>1. Followed(delegated, from, -amount) \in [Accounts -> Int]
    BY <2>0, FollowedType DEF TypeOK
  <2>2. delegated' \in [Accounts -> Int]
    BY <1>4, <2>0, <2>1, FollowedType DEF Moved
  <2>3. balance' \in [Accounts -> Nat]
    BY <1>4 DEF TypeOK, Moved
  <2>4. QED
    BY <2>2, <2>3
<1>5. CASE \E from \in Accounts, to \in Accounts, amount \in Amounts :
             Transfer(from, to, amount)
  BY <1>4, <1>5 DEF TypeOK, Transfer
<1>6. CASE \E owner \in Accounts, spender \in Spenders, amount \in Amounts \cup {0},
              expires \in 0 .. MaxTime : Approve(owner, spender, amount, expires)
  BY <1>6 DEF TypeOK, Approve, Allowance
<1>7. CASE \E spender \in Spenders, from \in Accounts, to \in Accounts, amount \in Amounts :
             TransferFrom(spender, from, to, amount)
  <2>1. PICK spender \in Spenders, from \in Accounts, to \in Accounts, amount \in Amounts :
          TransferFrom(spender, from, to, amount)
    BY <1>7
  <2>2. allowance' \in [Accounts \X Spenders -> Allowance]
    BY <2>1 DEF TypeOK, TransferFrom, Allowance, NoAllowance
  <2>3. QED
    BY <1>4, <2>1, <2>2 DEF TypeOK, TransferFrom
<1>8. CASE \E a \in Accounts, b \in Accounts : Delegate(a, b)
  <2>1. PICK a \in Accounts, b \in Accounts : Delegate(a, b)
    BY <1>8
  <2>2. Followed(delegated, a, -balance[a]) \in [Accounts -> Int]
    BY WithdrawnType
  <2>3. QED
    BY <2>1, <2>2 DEF TypeOK, Delegate
<1>9. CASE \E a \in Accounts : Undelegate(a)
  <2>1. PICK a \in Accounts : Undelegate(a)
    BY <1>9
  <2>2. Followed(delegated, a, -balance[a]) \in [Accounts -> Int]
    BY WithdrawnType
  <2>3. QED
    BY <2>1, <2>2 DEF TypeOK, Undelegate
<1>10. CASE \E p \in ProposalIds :
              CreateProposal(p) \/ MarkProposalPassed(p) \/ ExecuteProposal(p)
  <2>1. PICK p \in ProposalIds :
          CreateProposal(p) \/ MarkProposalPassed(p) \/ ExecuteProposal(p)
    BY <1>10
  <2>2. UNCHANGED <<now, paused, tokenVars>>
    BY <2>1 DEF CreateProposal, MarkProposalPassed, ExecuteProposal
  <2>3. proposals[p] \in GovernanceProposal /\ now + Timelock \in Nat
    BY DEF TypeOK
  <2>4. /\ [proposals[p] EXCEPT !.exists = TRUE] \in GovernanceProposal
        /\ [proposals[p] EXCEPT !.passed = TRUE, !.notBefore = now + Timelock]
             \in GovernanceProposal
        /\ [proposals[p] EXCEPT !.executed = TRUE] \in GovernanceProposal
    BY <2>3 DEF GovernanceProposal
  <2>5. proposals' \in [ProposalIds -> GovernanceProposal]
    BY <2>1, <2>4 DEF TypeOK, CreateProposal, MarkProposalPassed, ExecuteProposal
  <2>6. QED
    BY <2>2, <2>5 DEF TypeOK
<1>11. CASE UNCHANGED vars
  BY <1>11 DEF TypeOK, vars
<1>12. QED
  BY <1>1, <1>2, <1>3, <1>5, <1>6, <1>7, <1>8, <1>9, <1>10, <1>11 DEF Next

\* initialize leaves every storage key with a value of its type.
LEMMA InitType == Init => TypeOK
<1>1. NoAllowance \in Allowance /\ NoProposal \in GovernanceProposal
  BY DEF NoAllowance, Allowance, NoProposal, GovernanceProposal
<1> SUFFICES ASSUME Init PROVE TypeOK
  OBVIOUS
<1>2. allowance \in [Accounts \X Spenders -> Allowance]
  BY <1>1 DEF Init
<1>3. proposals \in [ProposalIds -> GovernanceProposal]
  BY <1>1 DEF Init
<1>4. balance \in [Accounts -> Nat] /\ delegated \in [Accounts -> Int]
  BY DEF Init
<1>5. delegateOf \in [Accounts -> Accounts \cup {NoDelegate}]
  BY DEF Init
<1>6. now = 0 /\ paused = FALSE /\ supply = 0
  BY DEF Init
<1>7. now \in Nat /\ supply \in Int
  BY <1>6
<1>8. paused \in BOOLEAN
  BY <1>6, Zenon
<1>9. QED
  BY <1>2, <1>3, <1>4, <1>5, <1>7, <1>8 DEF TypeOK

\* Type correctness; in particular no balance ever goes negative.
THEOREM TypeCorrect == Spec => []TypeOK
BY InitType, NextType, PTL DEF Spec

-----------------------------------------------------------------------------
(* The two books: the supply and the delegated amounts *)

\* Both books, for any balances and any delegated amounts.
Booked(b, power, total) ==
  /\ total = Total(b, Accounts)
  /\ \A d \in Accounts : power[d] = Total(b, Delegators(d))

\* An address has finitely many delegators.
LEMMA DelegatorsFinite == \A d : IsFiniteSet(Delegators(d)) /\ Delegators(d) \subseteq Accounts
<1> TAKE d
<1>1. Delegators(d) \in SUBSET Accounts
  BY DEF Delegators
<1>2. QED
  BY <1>1, TokenAssumption, FS_Subset

\* A change of one balance, passed on by Followed, keeps both books.
LEMMA ChangeBooked ==
  ASSUME TypeOK, NEW a \in Accounts, NEW change \in Int,
         NEW b \in [Accounts -> Nat], NEW power \in [Accounts -> Int], NEW total \in Int,
         b[a] + change \in Nat, Booked(b, power, total)
  PROVE  Booked([b EXCEPT ![a] = b[a] + change], Followed(power, a, change), total + change)
<1> DEFINE c == [b EXCEPT ![a] = b[a] + change]
<1>1. c \in [Accounts -> Nat] /\ c[a] = b[a] + change
  OBVIOUS
<1>2. \A x \in Accounts : x # a => c[x] = b[x]
  OBVIOUS
<1> HIDE DEF c
<1>3. ASSUME NEW A \in SUBSET Accounts, a \in A, IsFiniteSet(A)
      PROVE  Total(c, A) = Total(b, A) + change
  <2>1. Total(c, A) = Total(b, A) - b[a] + c[a]
    BY <1>1, <1>2, <1>3, TotalChange
  <2>2. Total(b, A) \in Nat
    BY <1>3, TotalType
  <2>3. QED
    BY <1>1, <2>1, <2>2
<1>4. ASSUME NEW A \in SUBSET Accounts, a \notin A
      PROVE  Total(c, A) = Total(b, A)
  BY <1>2, <1>4, TotalSame
<1>5. total + change = Total(c, Accounts)
  BY <1>3, TokenAssumption DEF Booked
<1>6. ASSUME NEW d \in Accounts
      PROVE  Followed(power, a, change)[d] = Total(c, Delegators(d))
  <2>1. Delegators(d) \in SUBSET Accounts /\ IsFiniteSet(Delegators(d))
    BY DelegatorsFinite
  <2>2. a \in Delegators(d) <=> delegateOf[a] = d
    BY DEF Delegators
  <2>3. power[d] = Total(b, Delegators(d))
    BY DEF Booked
  <2>4. CASE delegateOf[a] = d
    <3>1. Followed(power, a, change)[d] = power[d] + change
      BY <2>4, TokenAssumption DEF Followed
    <3>2. QED
      BY <1>3, <2>1, <2>2, <2>3, <2>4, <3>1
  <2>5. CASE delegateOf[a] # d
    <3>1. Followed(power, a, change)[d] = power[d]
      BY <2>5, TokenAssumption DEF Followed
    <3>2. QED
      BY <1>4, <2>1, <2>2, <2>3, <2>5, <3>1
  <2>6. QED
    BY <2>4, <2>5
<1>7. QED
  BY <1>5, <1>6 DEF Booked, c

\* A transfer is a debit and a credit, each of which keeps both books.
LEMMA MovedBooked ==
  ASSUME TypeOK, NEW from \in Accounts, NEW to \in Accounts, NEW amount \in Amounts,
         Moved(from, to, amount), Booked(balance, delegated, supply)
  PROVE  Booked(balance', delegated', supply)
<1> DEFINE b == [balance EXCEPT ![from] = balance[from] - amount]
           power == Followed(delegated, from, -amount)
           total == supply + (-amount)
<1>1. amount \in Nat /\ -amount \in Int /\ balance[from] + (-amount) \in Nat
  BY TokenAssumption DEF TypeOK, Moved
<1>2. b \in [Accounts -> Nat] /\ b = [balance EXCEPT ![from] = balance[from] + (-amount)]
  BY <1>1 DEF TypeOK
<1>3. power \in [Accounts -> Int]
  BY <1>1, FollowedType DEF TypeOK
<1>4. Booked(b, power, total)
  BY <1>1, <1>2, ChangeBooked DEF TypeOK
<1>5. total \in Int /\ total + amount = supply
  BY <1>1 DEF TypeOK
<1>6. balance' = [b EXCEPT ![to] = b[to] + amount] /\ delegated' = Followed(power, to, amount)
  BY DEF Moved
<1>7. b[to] + amount \in Nat
  BY <1>1, <1>2
<1>8. amount \in Int /\ b \in [Accounts -> Nat]
  BY <1>1, <1>2
<1> HIDE DEF b, power, total
<1>9. Booked([b EXCEPT ![to] = b[to] + amount], Followed(power, to, amount), total + amount)
  BY <1>3, <1>4, <1>5, <1>7, <1>8, ChangeBooked
<1>10. QED
  BY <1>5, <1>6, <1>9

\* After Followed has taken a delegator's balance back, every DelegatedAmount is
\* what the other delegators hold.
LEMMA WithdrawnBooked ==
  ASSUME TypeOK, NEW a \in Accounts, Booked(balance, delegated, supply), NEW d \in Accounts
  PROVE  Followed(delegated, a, -balance[a])[d] = Total(balance, Delegators(d) \ {a})
<1>1. IsFiniteSet(Delegators(d)) /\ \A x \in Delegators(d) : balance[x] \in Nat
  BY DelegatorsFinite DEF TypeOK
<1>2. delegated[d] = Total(balance, Delegators(d)) /\ delegated[d] \in Int
  BY DEF Booked, TypeOK
<1>3. CASE delegateOf[a] = d
  <2>1. Followed(delegated, a, -balance[a])[d] = delegated[d] - balance[a]
    BY <1>3, TokenAssumption DEF Followed, TypeOK
  <2>2. Total(balance, Delegators(d)) = Total(balance, Delegators(d) \ {a}) + balance[a]
    BY <1>1, <1>3, TotalLeave DEF Delegators
  <2>3. Total(balance, Delegators(d) \ {a}) \in Nat
    BY <1>1, FS_RemoveElement, TotalType
  <2>4. QED
    BY <1>2, <2>1, <2>2, <2>3 DEF TypeOK
<1>4. CASE delegateOf[a] # d
  <2>1. Followed(delegated, a, -balance[a])[d] = delegated[d]
    BY <1>4, TokenAssumption DEF Followed, TypeOK
  <2>2. Delegators(d) \ {a} = Delegators(d)
    BY <1>4 DEF Delegators
  <2>3. QED
    BY <1>2, <2>1, <2>2
<1>5. QED
  BY <1>3, <1>4

\* delegate and undelegate move one balance from one book entry to another.
LEMMA DelegateBooked ==
  ASSUME TypeOK, NEW a \in Accounts, NEW target \in Accounts \cup {NoDelegate}, target # a,
         Booked(balance, delegated, supply), UNCHANGED <<balance, supply>>,
         delegateOf' = [delegateOf EXCEPT ![a] = target],
         delegated' = IF target = NoDelegate
                        THEN Followed(delegated, a, -balance[a])
                        ELSE [Followed(delegated, a, -balance[a])
                                EXCEPT ![target] = @ + balance[a]]
  PROVE  Booked(balance, delegated, supply)'
<1> DEFINE withdrawn == Followed(delegated, a, -balance[a])
<1>1. withdrawn \in [Accounts -> Int]
  BY WithdrawnType
<1>2. \A d \in Accounts : withdrawn[d] = Total(balance, Delegators(d) \ {a})
  BY WithdrawnBooked
<1> HIDE DEF withdrawn
<1>3. ASSUME NEW d \in Accounts PROVE delegated'[d] = Total(balance, Delegators(d)')
  <2>1. CASE d = target
    <3>1. Delegators(d)' = (Delegators(d) \ {a}) \cup {a}
      BY <2>1 DEF Delegators, TypeOK
    <3>2. IsFiniteSet(Delegators(d) \ {a}) /\ \A x \in Delegators(d) \cup {a} : balance[x] \in Nat
      BY DelegatorsFinite, FS_RemoveElement DEF TypeOK
    <3>3. Total(balance, (Delegators(d) \ {a}) \cup {a})
            = Total(balance, Delegators(d) \ {a}) + balance[a]
      BY <3>2, TotalJoin
    <3>4. delegated'[d] = withdrawn[d] + balance[a]
      BY <1>1, <2>1, TokenAssumption DEF withdrawn
    <3>5. QED
      BY <1>2, <3>1, <3>3, <3>4
  <2>2. CASE d # target
    <3>1. Delegators(d)' = Delegators(d) \ {a}
      BY <2>2 DEF Delegators, TypeOK
    <3>2. delegated'[d] = withdrawn[d]
      BY <1>1, <2>2, TokenAssumption DEF withdrawn
    <3>3. QED
      BY <1>2, <3>1, <3>2
  <2>3. QED
    BY <2>1, <2>2
<1>4. QED
  BY <1>3 DEF Booked

\* Every handler keeps both books.
LEMMA NextBooked ==
  TypeOK /\ Booked(balance, delegated, supply) /\ [Next]_vars
    => Booked(balance, delegated, supply)'
<1> SUFFICES ASSUME TypeOK, Booked(balance, delegated, supply), [Next]_vars
             PROVE  Booked(balance, delegated, supply)'
  OBVIOUS
<1>0. ASSUME UNCHANGED delegateOf, Booked(balance', delegated', supply')
      PROVE  Booked(balance, delegated, supply)'
  <2>1. \A d : Delegators(d)' = Delegators(d)
    BY <1>0 DEF Delegators
  <2>2. QED
    BY <1>0, <2>1 DEF Booked
<1>1. CASE UNCHANGED tokenVars
  BY <1>0, <1>1 DEF tokenVars
<1>2. CASE \/ Tick \/ UNCHANGED vars
           \/ \E value \in BOOLEAN : SetPaused(value)
           \/ \E p \in ProposalIds :
                CreateProposal(p) \/ MarkProposalPassed(p) \/ ExecuteProposal(p)
  BY <1>1, <1>2 DEF Tick, vars, SetPaused, CreateProposal, MarkProposalPassed, ExecuteProposal
<1>3. CASE \E owner \in Accounts, spender \in Spenders, amount \in Amounts \cup {0},
              expires \in 0 .. MaxTime : Approve(owner, spender, amount, expires)
  BY <1>0, <1>3 DEF Approve
<1>4. ASSUME NEW a \in Accounts, NEW amount \in Amounts, Mint(a, amount)
      PROVE  Booked(balance, delegated, supply)'
  <2>1. amount \in Nat /\ amount \in Int /\ balance[a] + amount \in Nat
    BY TokenAssumption DEF TypeOK
  <2>2. Booked([balance EXCEPT ![a] = balance[a] + amount],
               Followed(delegated, a, amount), supply + amount)
    BY <2>1, ChangeBooked DEF TypeOK
  <2>3. QED
    BY <1>0, <1>4, <2>2 DEF Mint
<1>5. ASSUME NEW a \in Accounts, NEW amount \in Amounts, Burned(a, amount)
      PROVE  Booked(balance, delegated, supply)'
  <2>1. amount \in Nat /\ -amount \in Int /\ balance[a] + (-amount) \in Nat
    BY <1>5, TokenAssumption DEF TypeOK, Burned
  <2>2. Booked([balance EXCEPT ![a] = balance[a] + (-amount)],
               Followed(delegated, a, -amount), supply + (-amount))
    BY <2>1, ChangeBooked DEF TypeOK
  <2>3. /\ balance' = [balance EXCEPT ![a] = balance[a] + (-amount)]
        /\ delegated' = Followed(delegated, a, -amount)
        /\ supply' = supply + (-amount)
    BY <1>5, <2>1 DEF TypeOK, Burned
  <2>4. QED
    BY <1>0, <1>5, <2>2, <2>3 DEF Burned
<1>6. CASE \E a \in Accounts, amount \in Amounts :
             Mint(a, amount) \/ Burn(a, amount) \/ AdminBurnFrom(a, amount)
  BY <1>4, <1>5, <1>6 DEF Burn, AdminBurnFrom
<1>7. CASE \/ \E from \in Accounts, to \in Accounts, amount \in Amounts :
                Transfer(from, to, amount)
           \/ \E spender \in Spenders, from \in Accounts, to \in Accounts, amount \in Amounts :
                TransferFrom(spender, from, to, amount)
  BY <1>0, <1>7, MovedBooked DEF Transfer, TransferFrom
<1>8. CASE \E a \in Accounts, b \in Accounts : Delegate(a, b)
  <2>1. PICK a \in Accounts, b \in Accounts : Delegate(a, b)
    BY <1>8
  <2>2. CASE a = b
    BY <2>1, <2>2, DelegateBooked, TokenAssumption DEF Delegate
  <2>3. CASE a # b
    BY <2>1, <2>3, DelegateBooked, TokenAssumption DEF Delegate
  <2>4. QED
    BY <2>2, <2>3
<1>9. CASE \E a \in Accounts : Undelegate(a)
  BY <1>9, DelegateBooked, TokenAssumption DEF Undelegate
<1>10. QED
  BY <1>2, <1>3, <1>6, <1>7, <1>8, <1>9 DEF Next

\* Both books are empty after initialize.
LEMMA InitBooked == Init => Booked(balance, delegated, supply)
<1> SUFFICES ASSUME Init PROVE Booked(balance, delegated, supply)
  OBVIOUS
<1>1. \A d \in Accounts : Delegators(d) = {}
  BY TokenAssumption DEF Init, Delegators
<1>2. QED
  BY <1>1, TotalZero, TotalEmpty DEF Init, Booked

\* Both books are right in every reachable state.
THEOREM BooksCorrect == Spec => [](TypeOK /\ Booked(balance, delegated, supply))
BY InitType, NextType, InitBooked, NextBooked, PTL DEF Spec

\* TotalSupply is the sum of the balances.
THEOREM SupplyCorrect == Spec => []SupplyIsBalances
<1>1. Booked(balance, delegated, supply) => SupplyIsBalances
  BY DEF Booked, SupplyIsBalances
<1>2. QED
  BY <1>1, BooksCorrect, PTL

\* Every DelegatedAmount is what the current delegators hold, whatever mints,
\* burns, transfers and changes of delegate happened in between.
THEOREM DelegationCorrect == Spec => []DelegationIsBooked
<1>1. Booked(balance, delegated, supply) => DelegationIsBooked
  BY DEF Booked, DelegationIsBooked
<1>2. QED
  BY <1>1, BooksCorrect, PTL

\* The accounts whose tokens count for an address, be it that it votes with them
\* or that they lie idle with it.
Controlled(d) == IF delegateOf[d] = NoDelegate THEN Delegators(d) \cup {d} ELSE Delegators(d)

\* get_voting_power and what lies idle are the sum of the balances controlled.
LEMMA PowerIsControlled ==
  ASSUME TypeOK, Booked(balance, delegated, supply), NEW d \in Accounts
  PROVE  /\ VotingPower(d) + DormantPower(d) = Total(balance, Controlled(d))
         /\ VotingPower(d) \in Nat /\ DormantPower(d) \in Nat
<1>1. d \notin Delegators(d) \/ delegateOf[d] # NoDelegate
  BY TokenAssumption DEF Delegators
<1>2. /\ IsFiniteSet(Delegators(d))
      /\ \A a \in Delegators(d) \cup {d} : balance[a] \in Nat
  BY DelegatorsFinite DEF TypeOK
<1>3. Total(balance, Delegators(d)) \in Nat /\ balance[d] \in Nat
  BY <1>2, TotalType
<1>4. delegated[d] = Total(balance, Delegators(d))
  BY DEF Booked
<1>5. CASE delegateOf[d] = NoDelegate
  <2>1. Total(balance, Delegators(d) \cup {d}) = Total(balance, Delegators(d)) + balance[d]
    BY <1>1, <1>2, <1>5, TotalJoin
  <2>2. QED
    BY <1>3, <1>4, <1>5, <2>1 DEF VotingPower, DormantPower, Controlled
<1>6. CASE delegateOf[d] # NoDelegate
  BY <1>3, <1>4, <1>6 DEF VotingPower, DormantPower, Controlled
<1>7. QED
  BY <1>5, <1>6

\* Every account counts for exactly one address.
LEMMA ControlledParts ==
  ASSUME TypeOK
  PROVE  /\ \A a \in Accounts : Controlled(a) \subseteq Accounts
         /\ \A a \in Accounts, b \in Accounts : a # b => Controlled(a) \cap Controlled(b) = {}
         /\ \A b \in Accounts : \E a \in Accounts : b \in Controlled(a)
<1>1. \A a \in Accounts : Controlled(a) \subseteq Accounts
  BY DEF Controlled, Delegators
<1>2. \A a \in Accounts, b \in Accounts : a # b => Controlled(a) \cap Controlled(b) = {}
  BY TokenAssumption DEF Controlled, Delegators
<1>3. ASSUME NEW b \in Accounts PROVE \E a \in Accounts : b \in Controlled(a)
  <2>1. CASE delegateOf[b] = NoDelegate
    BY <2>1 DEF Controlled
  <2>2. CASE delegateOf[b] # NoDelegate
    <3>1. delegateOf[b] \in Accounts /\ b \in Delegators(delegateOf[b])
      BY <2>2 DEF TypeOK, Delegators
    <3>2. QED
      BY <3>1 DEF Controlled
  <2>3. QED
    BY <2>1, <2>2
<1>4. QED
  BY <1>1, <1>2, <1>3

\* The addresses together never command more votes than there are tokens, and no
\* vote is missing but those delegated to an account that itself delegates
\* (get_voting_power, after any mint, burn, transfer and change of delegate).
THEOREM PowerCorrect == Spec => []PowerWithinSupply
<1>1. TypeOK /\ Booked(balance, delegated, supply) => PowerWithinSupply
  <2> SUFFICES ASSUME TypeOK, Booked(balance, delegated, supply)
               PROVE  PowerWithinSupply
    OBVIOUS
  <2> DEFINE power == [a \in Accounts |-> VotingPower(a)]
             dormant == [a \in Accounts |-> DormantPower(a)]
             both == [a \in Accounts |-> VotingPower(a) + DormantPower(a)]
             part == [a \in Accounts |-> Controlled(a)]
  <2>1. \A a \in Accounts : /\ power[a] \in Nat /\ dormant[a] \in Nat
                            /\ both[a] = power[a] + dormant[a]
                            /\ both[a] \in Nat /\ both[a] = Total(balance, part[a])
    <3>1. ASSUME NEW a \in Accounts
          PROVE  /\ VotingPower(a) \in Nat /\ DormantPower(a) \in Nat
                 /\ VotingPower(a) + DormantPower(a) = Total(balance, Controlled(a))
      BY PowerIsControlled
    <3>2. QED
      BY <3>1
  <2>2. part \in [Accounts -> SUBSET Accounts]
    BY ControlledParts
  <2>3. /\ \A a \in Accounts, b \in Accounts : a # b => part[a] \cap part[b] = {}
        /\ \A b \in Accounts : \E a \in Accounts : b \in part[a]
    BY ControlledParts
  <2>4. \A a \in Accounts : balance[a] \in Nat
    BY DEF TypeOK
  <2> HIDE DEF power, dormant, both, part
  <2>5. Total(both, Accounts) = Total(balance, Accounts)
    BY <2>1, <2>2, <2>3, <2>4, TokenAssumption, TotalOfParts
  <2>6. Total(both, Accounts) = Total(power, Accounts) + Total(dormant, Accounts)
    BY <2>1, TokenAssumption, TotalSum
  <2>7. QED
    BY <2>5, <2>6 DEF PowerWithinSupply, Booked, power, dormant
<1>2. QED
  BY <1>1, BooksCorrect, PTL

-----------------------------------------------------------------------------
(* The timelock *)

\* A proposal passes only after its creation and is executed only after passing.
StagesInOrder ==
  \A p \in ProposalIds :
    (proposals[p].passed => proposals[p].exists) /\ (proposals[p].executed => proposals[p].passed)

\* The ledger of the latest passing, as the abstract pipeline sees it.
PassedAt(p) == IF StageOf(p) = "approved" THEN proposals[p].notBefore - Timelock ELSE 0

\* Where the stages of all but one proposal stay, both maps change in one place.
LEMMA OneMoves ==
  ASSUME NEW p \in ProposalIds, \A q \in ProposalIds : q # p => proposals'[q] = proposals[q]
  PROVE  /\ [q \in ProposalIds |-> StageOf(q)]'
              = [[q \in ProposalIds |-> StageOf(q)] EXCEPT ![p] = StageOf(p)']
         /\ [q \in ProposalIds |-> PassedAt(q)]'
              = [[q \in ProposalIds |-> PassedAt(q)] EXCEPT ![p] = PassedAt(p)']
<1>1. \A q \in ProposalIds : q # p => StageOf(q)' = StageOf(q) /\ PassedAt(q)' = PassedAt(q)
  BY DEF StageOf, PassedAt
<1>2. QED
  BY <1>1

\* A step on one proposal that takes it from stage to stage is a move of it.
LEMMA MovesStage ==
  ASSUME NEW p \in ProposalIds, \A q \in ProposalIds : q # p => proposals'[q] = proposals[q],
         NEW from, NEW to, NEW at, StageOf(p) \in from, StageOf(p)' = to, PassedAt(p)' = at,
         now' = now
  PROVE  Lifecycle!Move(p, from, to, at)
BY OneMoves DEF Lifecycle!Move, PassedAt

\* create_proposal opens a proposal.
LEMMA CreateOpens ==
  ASSUME TypeOK, StagesInOrder, NEW p \in ProposalIds, CreateProposal(p)
  PROVE  Lifecycle!Open(p) /\ StagesInOrder'
<1>1. /\ \A q \in ProposalIds : q # p => proposals'[q] = proposals[q]
      /\ proposals'[p] = [proposals[p] EXCEPT !.exists = TRUE] /\ now' = now
  BY DEF TypeOK, CreateProposal
<1>2. proposals[p] \in GovernanceProposal /\ ~proposals[p].exists
  BY DEF TypeOK, CreateProposal
<1>3. ~proposals[p].passed /\ ~proposals[p].executed
  BY <1>2 DEF StagesInOrder
<1>4. proposals'[p].exists /\ ~proposals'[p].passed /\ ~proposals'[p].executed
  BY <1>1, <1>2, <1>3 DEF GovernanceProposal
<1>5. StageOf(p) = "absent" /\ StageOf(p)' = "open" /\ PassedAt(p)' = 0
  BY <1>2, <1>3, <1>4 DEF StageOf, PassedAt
<1>6. StagesInOrder'
  BY <1>1, <1>4 DEF StagesInOrder
<1>7. Lifecycle!Move(p, {"absent"}, "open", 0)
  BY <1>1, <1>5, MovesStage
<1>8. QED
  BY <1>5, <1>6, <1>7 DEF Lifecycle!Open

\* mark_proposal_passed approves a proposal, again if need be, and leaves an
\* executed one where it is.
LEMMA PassApproves ==
  ASSUME TypeOK, StagesInOrder, NEW p \in ProposalIds, MarkProposalPassed(p)
  PROVE  (Lifecycle!Approve(p) \/ UNCHANGED Lifecycle!vars) /\ StagesInOrder'
<1>1. /\ \A q \in ProposalIds : q # p => proposals'[q] = proposals[q]
      /\ proposals'[p] = [proposals[p] EXCEPT !.passed = TRUE, !.notBefore = now + Timelock]
      /\ now' = now
  BY DEF TypeOK, MarkProposalPassed
<1>2. proposals[p] \in GovernanceProposal /\ proposals[p].exists
  BY DEF TypeOK, MarkProposalPassed
<1>3. /\ proposals'[p].exists /\ proposals'[p].passed
      /\ proposals'[p].executed = proposals[p].executed
      /\ proposals'[p].notBefore = now + Timelock
  BY <1>1, <1>2 DEF GovernanceProposal
<1>4. StagesInOrder'
  BY <1>1, <1>3 DEF StagesInOrder
<1>5. CASE proposals[p].executed
  <2>1. StageOf(p) = "settled" /\ StageOf(p)' = "settled" /\ PassedAt(p) = 0 /\ PassedAt(p)' = 0
    BY <1>2, <1>3, <1>5 DEF StageOf, PassedAt, StagesInOrder
  <2>2. \A q \in ProposalIds : q # p => StageOf(q)' = StageOf(q) /\ PassedAt(q)' = PassedAt(q)
    BY <1>1 DEF StageOf, PassedAt
  <2>3. \A q \in ProposalIds : StageOf(q)' = StageOf(q) /\ PassedAt(q)' = PassedAt(q)
    BY <2>1, <2>2
  <2>4. UNCHANGED Lifecycle!vars
    BY <1>1, <2>3 DEF Lifecycle!vars, PassedAt
  <2>5. QED
    BY <1>4, <2>4
<1>6. CASE ~proposals[p].executed
  <2>1. StageOf(p) \in {"open", "approved"} /\ StageOf(p)' = "approved"
    BY <1>2, <1>3, <1>6 DEF StageOf
  <2>2. PassedAt(p)' = now
    <3>1. now \in Nat /\ Timelock \in Nat
      BY TokenAssumption DEF TypeOK
    <3>2. QED
      BY <1>3, <2>1, <3>1 DEF PassedAt
  <2>3. Lifecycle!Move(p, {"open", "approved"}, "approved", now)
    BY <1>1, <2>1, <2>2, OneMoves DEF Lifecycle!Move, PassedAt
  <2>4. QED
    BY <1>4, <2>1, <2>2, <2>3 DEF Lifecycle!Approve
<1>7. QED
  BY <1>5, <1>6

\* execute_proposal settles a proposal that passed in an earlier ledger.
LEMMA ExecuteSettles ==
  ASSUME TypeOK, StagesInOrder, NEW p \in ProposalIds, ExecuteProposal(p)
  PROVE  Lifecycle!Settle(p) /\ StagesInOrder'
<1>1. /\ \A q \in ProposalIds : q # p => proposals'[q] = proposals[q]
      /\ proposals'[p] = [proposals[p] EXCEPT !.executed = TRUE] /\ now' = now
  BY DEF TypeOK, ExecuteProposal
<1>2. /\ proposals[p] \in GovernanceProposal /\ proposals[p].exists
      /\ proposals[p].passed /\ ~proposals[p].executed /\ now >= proposals[p].notBefore
  BY DEF TypeOK, ExecuteProposal, StagesInOrder
<1>3. proposals'[p].exists /\ proposals'[p].passed /\ proposals'[p].executed
  BY <1>1, <1>2 DEF GovernanceProposal
<1>4. StagesInOrder'
  BY <1>1, <1>3 DEF StagesInOrder
<1>5. StageOf(p) = "approved" /\ StageOf(p)' = "settled" /\ PassedAt(p)' = 0
  BY <1>2, <1>3 DEF StageOf, PassedAt
<1>6. PassedAt(p) < now
  <2>1. now \in Nat /\ Timelock \in Nat \ {0} /\ proposals[p].notBefore \in Nat
    BY <1>2, TokenAssumption DEF TypeOK, GovernanceProposal
  <2>2. QED
    BY <1>2, <1>5, <2>1 DEF PassedAt
<1>7. Lifecycle!Move(p, {"approved"}, "settled", 0)
  BY <1>1, <1>5, MovesStage
<1>8. QED
  BY <1>4, <1>5, <1>6, <1>7 DEF Lifecycle!Settle, PassedAt

\* Every call of the token contract is a step of the pipeline or invisible to it.
LEMMA LifecycleStep ==
  ASSUME TypeOK, StagesInOrder, [Next]_vars
  PROVE  (Lifecycle!Next \/ UNCHANGED Lifecycle!vars) /\ StagesInOrder'
<1>1. CASE \E p \in ProposalIds :
             CreateProposal(p) \/ MarkProposalPassed(p) \/ ExecuteProposal(p)
  <2>1. PICK p \in ProposalIds :
          CreateProposal(p) \/ MarkProposalPassed(p) \/ ExecuteProposal(p)
    BY <1>1
  <2>2. QED
    BY <2>1, CreateOpens, PassApproves, ExecuteSettles DEF Lifecycle!Next
<1>2. CASE proposals' = proposals /\ now' = now
  <2>1. \A p \in ProposalIds : StageOf(p)' = StageOf(p)
    BY <1>2 DEF StageOf
  <2>2. QED
    BY <1>2, <2>1 DEF Lifecycle!vars, StagesInOrder
<1>3. CASE Tick
  <2>1. proposals' = proposals /\ now' = now + 1
    BY <1>3 DEF Tick
  <2>2. \A p \in ProposalIds : StageOf(p)' = StageOf(p)
    BY <2>1 DEF StageOf
  <2>3. QED
    BY <2>1, <2>2 DEF Lifecycle!Next, Lifecycle!Tick, StagesInOrder
<1>4. QED
  BY <1>1, <1>2, <1>3 DEF Next, SetPaused, Mint, Burn, AdminBurnFrom, Burned, Transfer, Approve,
     TransferFrom, Delegate, Undelegate, vars

\* The token contract's own proposals implement the grant pipeline: each is
\* executed once at most, and only in a later ledger than its latest passing.
THEOREM TimelockCorrect == Spec => TimelockHolds
<1>1. Init => StagesInOrder /\ Lifecycle!Init
  BY DEF Init, NoProposal, StagesInOrder, Lifecycle!Init, StageOf
<1>2. TypeOK /\ StagesInOrder /\ [Next]_vars => StagesInOrder' /\ [Lifecycle!Next]_(Lifecycle!vars)
  BY LifecycleStep
<1>3. QED
  BY <1>1, <1>2, TypeCorrect, PTL DEF Spec, TimelockHolds, Lifecycle!Spec
=============================================================================
