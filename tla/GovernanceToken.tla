-------------------------- MODULE GovernanceToken ---------------------------
(***************************************************************************)
(* contracts/governance_token: the transferable GOV token, its allowances, *)
(* the delegation of voting power, and the timelock on the proposals the   *)
(* token contract keeps itself.  Each call is one atomic transaction.      *)
(***************************************************************************)
EXTENDS Integers, FiniteSets, Totals

CONSTANTS
  Accounts,      \* addresses that hold, receive or delegate GOV
  Spenders,      \* addresses that are given allowances
  NoDelegate,    \* Delegate(account) absent
  Amounts,       \* amounts named in calls
  MaxSupply,     \* the largest supply (i128::MAX)
  ProposalIds,   \* ids given to create_proposal
  Timelock,      \* TLOCK; initialize replaces zero by TIMELOCK_PERIOD
  MaxTime        \* bound: last instant explored

ASSUME TokenAssumption ==
  /\ IsFiniteSet(Accounts) /\ NoDelegate \notin Accounts
  /\ Amounts \subseteq Nat \ {0}
  /\ MaxSupply \in Nat /\ Timelock \in Nat \ {0} /\ MaxTime \in Nat

VARIABLES
  now,          \* ledger sequence and timestamp
  paused,       \* PAUSED
  balance,      \* Balance(account)
  supply,       \* TotalSupply
  allowance,    \* Allowance(owner, spender)
  delegateOf,   \* Delegate(account)
  delegated,    \* DelegatedAmount(account)
  proposals     \* Proposal(id)

tokenVars == <<balance, supply, allowance, delegateOf, delegated>>
vars == <<now, paused, tokenVars, proposals>>

Allowance == [amount: Nat, expires: Nat]
NoAllowance == [amount |-> 0, expires |-> 0]

GovernanceProposal ==
  [exists: BOOLEAN, passed: BOOLEAN, executed: BOOLEAN, notBefore: Nat]
NoProposal ==
  [exists |-> FALSE, passed |-> FALSE, executed |-> FALSE, notBefore |-> 0]

Init ==
  /\ now = 0 /\ paused = FALSE
  /\ balance = [a \in Accounts |-> 0] /\ supply = 0
  /\ allowance = [pair \in Accounts \X Spenders |-> NoAllowance]
  /\ delegateOf = [a \in Accounts |-> NoDelegate]
  /\ delegated = [a \in Accounts |-> 0]
  /\ proposals = [p \in ProposalIds |-> NoProposal]

\* What a change of an account's balance does to DelegatedAmount: mint, _debit
\* and _credit pass it on to the account's delegate.
Followed(power, account, change) ==
  IF delegateOf[account] = NoDelegate
    THEN power
    ELSE [power EXCEPT ![delegateOf[account]] = @ + change]

\* Mutant of VotingPower: a delegator keeps its own votes.
VotingPowerKept(a) == balance[a] + delegated[a]

\* get_voting_power: a delegator has none, not even what others gave it.
VotingPower(a) ==
  IF delegateOf[a] = NoDelegate THEN balance[a] + delegated[a] ELSE 0

\* Votes that nobody has: what is delegated to an account that itself delegates.
DormantPower(a) == IF delegateOf[a] = NoDelegate THEN 0 ELSE delegated[a]

-----------------------------------------------------------------------------
(* Supply *)

Mint(to, amount) ==
  /\ ~paused
  /\ supply + amount <= MaxSupply
  /\ balance' = [balance EXCEPT ![to] = @ + amount]
  /\ delegated' = Followed(delegated, to, amount)
  /\ supply' = supply + amount
  /\ UNCHANGED <<now, paused, allowance, delegateOf, proposals>>

\* _debit, then the supply.
Burned(from, amount) ==
  /\ amount <= balance[from]
  /\ balance' = [balance EXCEPT ![from] = @ - amount]
  /\ delegated' = Followed(delegated, from, -amount)
  /\ supply' = supply - amount
  /\ UNCHANGED <<now, paused, allowance, delegateOf, proposals>>

Burn(from, amount) == ~paused /\ Burned(from, amount)

\* Mutant of AdminBurnFrom: the supply is forgotten.
AdminBurnUnsupplied(from, amount) ==
  /\ amount <= balance[from]
  /\ balance' = [balance EXCEPT ![from] = @ - amount]
  /\ delegated' = Followed(delegated, from, -amount)
  /\ UNCHANGED <<now, paused, supply, allowance, delegateOf, proposals>>

\* Works while paused as well.
AdminBurnFrom(from, amount) == Burned(from, amount)

-----------------------------------------------------------------------------
(* Transfers *)

\* Mutant of Moved: the balance of the payer is not looked at.
MovedUnchecked(from, to, amount) ==
  /\ balance' = [[balance EXCEPT ![from] = @ - amount] EXCEPT ![to] = @ + amount]
  /\ delegated' = Followed(Followed(delegated, from, -amount), to, amount)

\* _debit, then _credit; payer and payee may be the same account.
Moved(from, to, amount) ==
  /\ amount <= balance[from]
  /\ balance' = [[balance EXCEPT ![from] = @ - amount] EXCEPT ![to] = @ + amount]
  /\ delegated' = Followed(Followed(delegated, from, -amount), to, amount)

Transfer(from, to, amount) ==
  /\ ~paused
  /\ Moved(from, to, amount)
  /\ UNCHANGED <<now, paused, supply, allowance, delegateOf, proposals>>

Approve(owner, spender, amount, expires) ==
  /\ ~paused
  /\ expires >= now
  /\ allowance' =
       [allowance EXCEPT ![<<owner, spender>>] = [amount |-> amount, expires |-> expires]]
  /\ UNCHANGED <<now, paused, balance, supply, delegateOf, delegated, proposals>>

TransferFrom(spender, from, to, amount) ==
  LET granted == allowance[<<from, spender>>] IN
  /\ ~paused
  /\ granted.amount > 0 => granted.expires >= now
  /\ amount <= granted.amount
  /\ Moved(from, to, amount)
  /\ allowance' = [allowance EXCEPT ![<<from, spender>>] =
       IF granted.amount = amount THEN NoAllowance
                                  ELSE [granted EXCEPT !.amount = @ - amount]]
  /\ UNCHANGED <<now, paused, supply, delegateOf, proposals>>

-----------------------------------------------------------------------------
(* Delegation *)

\* Mutant of Delegate: the old delegate keeps the power.
DelegateTwice(delegator, delegatee) ==
  /\ ~paused
  /\ delegateOf[delegator] # delegatee
  /\ delegated' = IF delegator = delegatee THEN delegated
       ELSE [delegated EXCEPT ![delegatee] = @ + balance[delegator]]
  /\ delegateOf' = [delegateOf EXCEPT ![delegator] =
       IF delegator = delegatee THEN NoDelegate ELSE delegatee]
  /\ UNCHANGED <<now, paused, balance, supply, allowance, proposals>>

\* Delegating to oneself is undelegating.
Delegate(delegator, delegatee) ==
  LET withdrawn == Followed(delegated, delegator, -balance[delegator]) IN
  /\ ~paused
  /\ delegateOf[delegator] # delegatee
  /\ delegated' = IF delegator = delegatee THEN withdrawn
       ELSE [withdrawn EXCEPT ![delegatee] = @ + balance[delegator]]
  /\ delegateOf' = [delegateOf EXCEPT ![delegator] =
       IF delegator = delegatee THEN NoDelegate ELSE delegatee]
  /\ UNCHANGED <<now, paused, balance, supply, allowance, proposals>>

Undelegate(delegator) ==
  /\ ~paused
  /\ delegateOf[delegator] # NoDelegate
  /\ delegated' = Followed(delegated, delegator, -balance[delegator])
  /\ delegateOf' = [delegateOf EXCEPT ![delegator] = NoDelegate]
  /\ UNCHANGED <<now, paused, balance, supply, allowance, proposals>>

-----------------------------------------------------------------------------
(* The proposals of the token contract; none of the calls checks the pause *)

CreateProposal(p) ==
  /\ ~proposals[p].exists
  /\ proposals' = [proposals EXCEPT ![p].exists = TRUE]
  /\ UNCHANGED <<now, paused, tokenVars>>

\* May be repeated, also after the execution: the timelock starts again.
MarkProposalPassed(p) ==
  /\ proposals[p].exists
  /\ proposals' = [proposals EXCEPT ![p].passed = TRUE, ![p].notBefore = now + Timelock]
  /\ UNCHANGED <<now, paused, tokenVars>>

\* Mutant of ExecuteProposal: the timelock is not looked at.
ExecuteProposalAtOnce(p) ==
  /\ proposals[p].passed /\ ~proposals[p].executed
  /\ proposals' = [proposals EXCEPT ![p].executed = TRUE]
  /\ UNCHANGED <<now, paused, tokenVars>>

ExecuteProposal(p) ==
  /\ proposals[p].passed /\ ~proposals[p].executed
  /\ now >= proposals[p].notBefore
  /\ proposals' = [proposals EXCEPT ![p].executed = TRUE]
  /\ UNCHANGED <<now, paused, tokenVars>>

-----------------------------------------------------------------------------

SetPaused(value) == paused' = value /\ UNCHANGED <<now, tokenVars, proposals>>

Tick == now < MaxTime /\ now' = now + 1 /\ UNCHANGED <<paused, tokenVars, proposals>>

Next ==
  \/ Tick
  \/ \E value \in BOOLEAN : SetPaused(value)
  \/ \E a \in Accounts, amount \in Amounts :
       Mint(a, amount) \/ Burn(a, amount) \/ AdminBurnFrom(a, amount)
  \/ \E from \in Accounts, to \in Accounts, amount \in Amounts :
       Transfer(from, to, amount)
  \/ \E owner \in Accounts, spender \in Spenders, amount \in Amounts \cup {0},
        expires \in 0 .. MaxTime : Approve(owner, spender, amount, expires)
  \/ \E spender \in Spenders, from \in Accounts, to \in Accounts, amount \in Amounts :
       TransferFrom(spender, from, to, amount)
  \/ \E a \in Accounts, b \in Accounts : Delegate(a, b)
  \/ \E a \in Accounts : Undelegate(a)
  \/ \E p \in ProposalIds : CreateProposal(p) \/ MarkProposalPassed(p) \/ ExecuteProposal(p)

Spec == Init /\ [][Next]_vars

-----------------------------------------------------------------------------
(* Properties *)

\* Types; balances never go negative although they are i128.
TypeOK ==
  /\ now \in Nat /\ paused \in BOOLEAN
  /\ balance \in [Accounts -> Nat] /\ supply \in Int
  /\ allowance \in [Accounts \X Spenders -> Allowance]
  /\ delegateOf \in [Accounts -> Accounts \cup {NoDelegate}]
  /\ delegated \in [Accounts -> Int]
  /\ proposals \in [ProposalIds -> GovernanceProposal]

\* TotalSupply is the sum of all balances through mints, both kinds of burn
\* and both kinds of transfer, self-transfers included.
SupplyIsBalances == supply = Total(balance, Accounts)

Delegators(d) == {a \in Accounts : delegateOf[a] = d}

\* The running DelegatedAmount of every address is what its delegators hold
\* now: no mint, burn, transfer or change of delegate leaves it stale.
DelegationIsBooked ==
  \A d \in Accounts : delegated[d] = Total(balance, Delegators(d))

\* At no moment do the addresses together command more votes than there are
\* tokens, a delegated token not being counted for its owner as well; and the
\* only votes missing are those delegated to an account that itself delegates.
PowerWithinSupply ==
  supply = Total([a \in Accounts |-> VotingPower(a)], Accounts)
             + Total([a \in Accounts |-> DormantPower(a)], Accounts)

StageOf(p) ==
  CASE ~proposals[p].exists -> "absent"
    [] proposals[p].exists /\ ~proposals[p].passed -> "open"
    [] proposals[p].passed /\ ~proposals[p].executed -> "approved"
    [] OTHER -> "settled"

Lifecycle == INSTANCE GrantLifecycle WITH
  Grants <- ProposalIds,
  clock  <- now,
  stage  <- [p \in ProposalIds |-> StageOf(p)],
  since  <- [p \in ProposalIds |->
              IF StageOf(p) = "approved" THEN proposals[p].notBefore - Timelock ELSE 0]

\* The token's own proposals follow the same pipeline as the treasury's: each
\* is executed at most once, and only in a later ledger than its (last) passing.
TimelockHolds == Lifecycle!Spec
=============================================================================
