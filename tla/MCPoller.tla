------------------------------ MODULE MCPoller ------------------------------
(* A wallet with a deposit d that pays coin c1, a spend s of c1 that pays  *)
(* the change c2, and a replacement r of s that pays nothing back.         *)
EXTENDS Poller

CONSTANTS d, s, r, c1, c2

MCTxs       == {d, s, r}
MCCoins     == {c1, c2}
MCTxOf      == [c \in Coins |-> IF c = c1 THEN d ELSE s]
MCIns       == [t \in Txs |-> IF t = d THEN {} ELSE {c1}]
MCNumInputs == [t \in Txs |-> 1]

(* The deposit alone, for liveness.                                        *)
MCDeposit     == {d}
MCDepositCoin == {c1}

MCEmptyChain  == << >>
MCFundedChain == << [branch |-> 0, txs |-> {d}] >>
=============================================================================
