----------------------------- MODULE MCRpcPool -----------------------------
(* Instances of RpcPool for TLC.                                           *)
EXTENDS RpcPool

CONSTANTS a, fixed, listed

Good == [answers |-> TRUE, verifies |-> TRUE]
Down == [answers |-> FALSE, verifies |-> FALSE]

\* The node of the configuration fails and comes back, again and again: it is
\* asked while it is down and was verified before, and verified while it is
\* down and asked after.  The one of the source works while it is listed.
MCNodeStates == (fixed :> {Good, Down}) @@ (listed :> {Good})

=============================================================================
