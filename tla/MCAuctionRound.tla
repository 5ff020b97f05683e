--------------------------- MODULE MCAuctionRound ---------------------------
(***************************************************************************)
(* AuctionRound for TLC: three fillers and room for two bids, a bid and a  *)
(* declaration signed by another hand, a bid for the second round.         *)
(***************************************************************************)
EXTENDS AuctionRound, TLC

CONSTANTS Desk,     \* the contract a filler declares as its executor
          c1, c2

Honest(f, n, at) == [filler |-> f, bump |-> n, closesAt |-> at, signer |-> f, executor |-> None, declarer |-> None]

MCBids ==
    {Honest(1, 2, 1), Honest(2, 2, 1), Honest(2, 1, 1), Honest(3, 3, 1), Honest(3, 1, 1),
     [Honest(1, 1, 1) EXCEPT !.executor = Desk, !.declarer = 1],
     [Honest(2, 0, 1) EXCEPT !.executor = Desk, !.declarer = 3],
     [Honest(3, 0, 1) EXCEPT !.signer = 1],
     Honest(1, 1, 2)}

MCClosings == <<1, 2>>
Swaps == Permutations({c1, c2})
=============================================================================
