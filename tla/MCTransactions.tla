--------------------------- MODULE MCTransactions ---------------------------
(* Small instances of Transactions.                                        *)
EXTENDS Transactions, TLC

MCSymmetry == Permutations(Client) \cup Permutations(Key)
=============================================================================
