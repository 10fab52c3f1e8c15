---------------------------- MODULE MCTransferTx ----------------------------
(* Small instances of TransferTx: one or two slots and a tank.             *)
EXTENDS TransferTx, TLC

CONSTANTS iron, water, chest, basin

One(c, u, n, t) == c :> [uid |-> u, amount |-> n, target |-> t]

MCUids == {iron, water}
MCTargets == {chest, basin}

\* Items that leave a slot unused, or fluid only, so that the tank or the
\* chest is somebody else's; a full chest and a fluid for another target.
MCRequests ==
  { One(1, iron, 2, chest),
    One(3, water, 1, basin),
    One(1, iron, 1, basin) @@ One(2, iron, 1, chest) @@ One(3, water, 1, basin) }

\* The first slot takes a stack of two.
MCSize == [c \in Cells |-> IF c = 1 THEN 2 ELSE 1]

MCLiveSize == [c \in Cells |-> 1]

MCSymmetry == Permutations(Workers)

\* The liveness run: an item only, or an item and a fluid.
MCLiveRequests ==
  { One(1, iron, 1, chest),
    One(1, iron, 1, basin) @@ One(2, water, 1, basin) }
=============================================================================
