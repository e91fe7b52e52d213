---------------------------- MODULE MCGathering ----------------------------
(* Instances of Gathering for TLC.                                         *)
EXTENDS Gathering, TLC

CONSTANTS me, funder, contract, alice, bob, d1, d2

MCAccounts == {me, funder, contract, alice, bob}
MCFunderOf == (d1 :> funder) @@ (d2 :> me)
MCSpenderOf == (d1 :> me) @@ (d2 :> bob)

Request(to, amount, deposit, token) ==
    [to |-> to, amount |-> amount, deposit |-> deposit, token |-> token]

\* Transfers out of a deposit have a receiver and pay tokens.
MCRequests == {q \in {
    Request(to, amount, deposit, token) :
        to \in {alice, bob, NoAccount}, amount \in {1, MaxPacked - 1},
        deposit \in {NoDeposit, d1}, token \in BOOLEAN} :
    q.deposit # NoDeposit => q.to # NoAccount /\ q.token}

Load(requests, deposits) == [requests |-> requests, deposits |-> deposits]

\* Out of a deposit, with the multi contract and directly, without a
\* receiver, more to one receiver than a packed payment takes, and out of a
\* deposit beside another one, whose money a fee is paid from.
MCWorkloads == {
    Load(<<Request(alice, 1, d1, TRUE), Request(bob, 1, d1, TRUE),
           Request(alice, 1, d1, TRUE)>>, {d1}),
    Load(<<Request(alice, 1, NoDeposit, TRUE), Request(bob, 1, d1, TRUE),
           Request(bob, 1, NoDeposit, TRUE)>>, {d1}),
    Load(<<Request(alice, MaxPacked - 1, NoDeposit, TRUE),
           Request(bob, 1, NoDeposit, TRUE),
           Request(alice, MaxPacked - 1, NoDeposit, TRUE),
           Request(NoAccount, 1, NoDeposit, TRUE)>>, {}),
    Load(<<Request(alice, 1, NoDeposit, FALSE),
           Request(alice, 1, NoDeposit, TRUE)>>, {d2}),
    Load(<<>>, {d1, d2})}

=============================================================================
