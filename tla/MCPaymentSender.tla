-------------------------- MODULE MCPaymentSender --------------------------
(* Small instances of PaymentSender for TLC. *)
EXTENDS PaymentSender, TLC

CONSTANTS t1, t2

OneTransfer == {t1}
TwoTransfers == {t1, t2}
OneGasLimit == {1}
TwoGasLimits == {1, 2}

Symmetry == Permutations(TwoTransfers)
=============================================================================
