---------------------------- MODULE MCAllocation ----------------------------
(***************************************************************************)
(* Small instances of Allocation: two coins for one slot, a stock for      *)
(* the other, sizes around a least trade of four cents.                    *)
(***************************************************************************)
EXTENDS Allocation, TLC

CONSTANTS b1, b2, s1

Coins == {b1, b2}
Two == [t \in Trades |-> IF t \in Coins THEN "CRYPTO" ELSE "STOCK"]
SmallSizes == {2, 7, 20}
SmallProceeds == {6}

CoinSymmetry == Permutations(Coins)
=============================================================================
