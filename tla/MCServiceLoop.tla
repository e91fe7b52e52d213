--------------------------- MODULE MCServiceLoop ---------------------------
(* Instances of ServiceLoop for TLC. *)
EXTENDS ServiceLoop

CONSTANTS one, other, t1, t2, m1

MCChainOf == (t1 :> one) @@ (t2 :> other) @@ (m1 :> one)
OneMint == {m1}

Scene(finish, queued, asked, notApproved, issue, ask, fault) ==
    [mode |-> [finishWhenDone |-> finish, gatherAtStart |-> ~finish, ignoreDeadlines |-> FALSE],
     queued |-> queued, asked |-> asked, notApproved |-> notApproved,
     budget |-> ("issue" :> issue) @@ ("ask" :> ask) @@ ("fault" :> fault)]

\* Two transfers, a mint while a transfer is processed, trouble with rows,
\* a question to the tracker, trouble with a gathering, and a run that finds
\* a row and a transfer and finishes.
MCScenarios ==
    {Scene(FALSE, {}, {t1, t2}, {}, 0, 0, 0),
     Scene(FALSE, {t2}, {m1}, {}, 0, 0, 0),
     Scene(TRUE, {t1, t2}, {}, {}, 2, 0, 0),
     Scene(TRUE, {t1}, {}, {}, 1, 1, 0),
     Scene(FALSE, {}, {t1}, {one}, 0, 0, 1),
     Scene(TRUE, {t2}, {t1}, {one}, 0, 0, 1)}

\* Gas is missing on both chains, and on one of them another amount or the
\* token; or an RPC call succeeds.
MCIssues ==
    {Event("NoGas", one, 1), Event("NoGas", one, 2), Event("NoToken", one, 1), Success(one),
     Event("NoGas", other, 1)}

=============================================================================
