------------------------------- MODULE Ballot -------------------------------
(***************************************************************************)
(* BackgroundAssignment/3_Ballot.sol: the chairperson gives rights to      *)
(* vote, voters vote or delegate their vote, also to somebody who has      *)
(* delegated, voted or got no right (yet).                                 *)
(***************************************************************************)
EXTENDS Integers, FiniteSets

CONSTANTS
    Address,        \* the accounts
    Zero,           \* address(0): the delegate of those who have none
    chairperson,
    Proposals,      \* proposals.length
    DelegateTo      \* whom delegate() is called with

ASSUME BallotAssumption ==
    /\ IsFiniteSet(Address) /\ chairperson \in Address /\ Zero \notin Address
    /\ Proposals \in Nat /\ DelegateTo \subseteq Address \cup {Zero}

VARIABLES
    voters, voteCount,
    entitled,       \* who got a right to vote
    cast            \* for which proposal somebody called vote()

vars == <<voters, voteCount, entitled, cast>>

Everybody == Address \cup {Zero}
Proposal == 0..Proposals - 1
Voter == [weight : 0..Cardinality(Address), voted : BOOLEAN, delegate : Everybody,
          vote : 0..Proposals]

NewVoter == [weight |-> 0, voted |-> FALSE, delegate |-> Zero, vote |-> 0]
NotCast == -1

Init ==
    /\ voters = [a \in Everybody |-> IF a = chairperson THEN [NewVoter EXCEPT !.weight = 1]
                                                        ELSE NewVoter]
    /\ voteCount = [p \in Proposal |-> 0]
    /\ entitled = {chairperson} /\ cast = [a \in Address |-> NotCast]

-----------------------------------------------------------------------------
MayGetRight(a) == ~voters[a].voted /\ voters[a].weight = 0

\* An address twice in the array makes the whole call fail, and their order
\* is of no importance: the array is a set.
GiveRightToVote(batch) ==
    /\ \A a \in batch : MayGetRight(a)
    /\ voters' = [a \in Everybody |->
                    IF a \in batch THEN [voters[a] EXCEPT !.weight = 1] ELSE voters[a]]
    /\ entitled' = entitled \cup batch
    /\ UNCHANGED <<voteCount, cast>>

\* Where the chain of delegates that starts at a ends: nowhere in a loop.
Chain(a) ==
    LET at[n \in 0..Cardinality(Everybody)] ==
            IF n = 0 THEN a
            ELSE IF voters[at[n - 1]].delegate = Zero THEN at[n - 1]
                 ELSE voters[at[n - 1]].delegate
    IN {at[n] : n \in DOMAIN at}
Ends(a) == {e \in Chain(a) : voters[e].delegate = Zero}

\* Mutant: no loop is looked for.
NoLoopCheck(sender, to) == sender # to
NoLoop(sender, to) == sender \notin Chain(to)

\* Mutant: the weight goes to whom the sender named, not to the end of the chain.
WhoeverIsNamed(to) == {to}
Delegates(to) == Ends(to)

Delegate(sender, to) ==
    /\ ~voters[sender].voted
    /\ NoLoop(sender, to)
    /\ \E end \in Delegates(to) :
        LET weight == voters[sender].weight
            left == [voters EXCEPT ![sender].voted = TRUE, ![sender].delegate = end]
        IN IF left[end].voted
           THEN /\ voters[end].vote \in Proposal
                /\ voters' = left
                /\ voteCount' = [voteCount EXCEPT ![voters[end].vote] = @ + weight]
           ELSE /\ voters' = [left EXCEPT ![end].weight = @ + weight]
                /\ UNCHANGED voteCount
    /\ UNCHANGED <<entitled, cast>>

\* Mutant: one may vote twice.
MayVoteAgain(sender) == voters[sender].weight # 0
MayVote(sender) == voters[sender].weight # 0 /\ ~voters[sender].voted

Vote(sender, p) ==
    /\ MayVote(sender)
    /\ voters' = [voters EXCEPT ![sender].voted = TRUE, ![sender].vote = p]
    /\ voteCount' = [voteCount EXCEPT ![p] = @ + voters[sender].weight]
    /\ cast' = [cast EXCEPT ![sender] = p]
    /\ UNCHANGED entitled

Next ==
    \/ \E batch \in SUBSET Address \ {{}} : GiveRightToVote(batch)
    \/ \E sender \in Address :
        \/ \E to \in DelegateTo : Delegate(sender, to)
        \/ \E p \in Proposal : Vote(sender, p)

Spec == Init /\ [][Next]_vars

-----------------------------------------------------------------------------
\* Mutant: a tie goes to the last one.
AheadOrEqual(p, best) == voteCount[p] >= best
Ahead(p, best) == voteCount[p] > best

\* The loop over the proposals: the winner among the first n and its count.
WinningProposal ==
    LET best[n \in 0..Proposals] ==
            IF n = 0 THEN [winner |-> 0, count |-> 0]
            ELSE IF Ahead(n - 1, best[n - 1].count)
                 THEN [winner |-> n - 1, count |-> voteCount[n - 1]]
                 ELSE best[n - 1]
    IN best[Proposals].winner

-----------------------------------------------------------------------------
(* The types; no weight and no count exceeds the number of accounts.       *)
TypeOK ==
    /\ voters \in [Everybody -> Voter]
    /\ voteCount \in [Proposal -> 0..Cardinality(Address)]
    /\ chairperson \in entitled /\ entitled \subseteq Address
    /\ cast \in [Address -> Proposal \cup {NotCast}]

(* Whoever delegated finds somebody at the end of the chain who did not:   *)
(* delegations in any order never close a loop.                            *)
NoDelegationLoop == \A a \in Address : Ends(a) # {}

(* The rights that the one at the end of their chains used for a proposal. *)
Supporters(p) == {a \in entitled : \E e \in Ends(a) \cap Address : cast[e] = p}

(* The votes of a proposal are the rights that chains of delegates lead to *)
(* a vote for it: delegate() before or after the delegate voted, before or *)
(* after either got a right, counts every right once.                      *)
RightsAreCounted == \A p \in Proposal : voteCount[p] = Cardinality(Supporters(p))

(* A right that was used for a proposal stays there: nothing anybody does  *)
(* later moves or withdraws it.                                            *)
SupportStays == [][\A p \in Proposal : Supporters(p) \subseteq Supporters(p)']_vars

(* The winner has as many votes as anybody, and those before it have less. *)
WinnerHasMost ==
    Proposals > 0 =>
        /\ WinningProposal \in Proposal
        /\ \A p \in Proposal : voteCount[p] <= voteCount[WinningProposal]
        /\ \A p \in 0..WinningProposal - 1 : voteCount[p] < voteCount[WinningProposal]
=============================================================================
