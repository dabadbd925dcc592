--------------------------- MODULE MCXmssKeyStore ---------------------------
(***************************************************************************)
(* XmssKeyStore with a few processes; signers are interchangeable.         *)
(***************************************************************************)
EXTENDS XmssKeyStore, TLC

CONSTANT Small  \* makers of a key with a single one-time key

MCCapacity == [m \in Makers |-> IF m \in Small THEN 1 ELSE 2]

SignerSymmetry == Permutations(Signers)
=============================================================================
