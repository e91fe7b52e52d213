----------------------------- MODULE EthAccount -----------------------------
(***************************************************************************)
(* One account of an EVM chain, as the payment service uses it through its *)
(* RPC pool: eth_send_raw_transaction, eth_get_transaction_count and       *)
(* eth_transaction_receipt.  The chain is not under src/; what is written  *)
(* here is what the sender relies on.                                      *)
(*                                                                         *)
(* A signed transaction is its content: the nonce, the fee level, the gas  *)
(* limit and the set of token transfers its call data pays.  Two signed    *)
(* transactions with the same content are the same transaction (signing is *)
(* deterministic, so the hash is the same).                                *)
(***************************************************************************)
EXTENDS Integers, Sequences

CONSTANTS
  Transfers,     \* ids of rows of table token_transfer
  MaxFee,        \* bound: highest configured fee level
  GasLimits,     \* gas limits a gas estimation may answer
  MaxExternal,   \* bound: transactions sent with the same key by others
  MaxReorg       \* bound: unconfirmed transactions dropped from the chain

ASSUME FeeAssumption == MaxFee \in Nat
ASSUME GasAssumption == GasLimits \subseteq Nat
ASSUME ChainBoundAssumption == MaxExternal \in Nat /\ MaxReorg \in Nat

VARIABLES
  chain,      \* transactions of the account in the chain; chain[k] has nonce k-1
  final,      \* how many of them are buried under confirmation_blocks blocks
  pool,       \* every signed transaction the network has got
  externals,  \* how many of them were sent by others (bounds ExternalTx)
  reorgs      \* how many were dropped (bounds Reorg)

chainVars == <<chain, final, pool, externals, reorgs>>

Nonces == Nat
Signed == [nonce: Nat, fee: Nat, gas: Nat, call: SUBSET Transfers]

(* A transaction somebody else signed with the key of the account: it pays *)
(* none of our transfers.                                                  *)
External(n) == [nonce |-> n, fee |-> 0, gas |-> 0, call |-> {}]

ChainTypeOK ==
  /\ chain \in Seq(Signed)
  /\ final \in Nat
  /\ pool \in SUBSET Signed
  /\ externals \in Nat
  /\ reorgs \in Nat

ChainInit ==
  /\ chain = <<>>
  /\ final = 0
  /\ pool = {}
  /\ externals = 0
  /\ reorgs = 0

(* What a synced node answers to eth_get_transaction_count(latest). *)
LatestNonce == Len(chain)

Mined(h) == \E k \in DOMAIN chain : chain[k] = h

MinedFinal(h) == \E k \in DOMAIN chain : chain[k] = h /\ k <= final

(* The positions of the chain that pay transfer t. *)
Payments(t) == {k \in DOMAIN chain : t \in chain[k].call}

(* A node accepts a signed transaction unless its nonce is already used. *)
Accept(h) == pool' = IF h.nonce >= LatestNonce THEN pool \union {h} ELSE pool

-----------------------------------------------------------------------------
(* A transaction with the next nonce gets into a block. *)
Mine ==
  /\ \E h \in pool :
       /\ h.nonce = LatestNonce
       /\ chain' = Append(chain, h)
  /\ UNCHANGED <<final, pool, externals, reorgs>>

(* The owner of the key pays something outside of this service. *)
ExternalTx ==
  /\ externals < MaxExternal
  /\ chain' = Append(chain, External(LatestNonce))
  /\ externals' = externals + 1
  /\ UNCHANGED <<final, pool, reorgs>>

(* Enough blocks follow the oldest block that was not confirmed yet. *)
Finalize ==
  /\ final < Len(chain)
  /\ final' = final + 1
  /\ UNCHANGED <<chain, pool, externals, reorgs>>

(* The newest, still unconfirmed transaction is dropped from the chain; the *)
(* network keeps it.                                                        *)
Reorg ==
  /\ reorgs < MaxReorg
  /\ final < Len(chain)
  /\ chain' = SubSeq(chain, 1, Len(chain) - 1)
  /\ pool' = pool \union {chain[Len(chain)]}
  /\ reorgs' = reorgs + 1
  /\ UNCHANGED <<final, externals>>

ChainNext == Mine \/ ExternalTx \/ Finalize \/ Reorg
=============================================================================
