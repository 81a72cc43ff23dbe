--------------------------- MODULE MCTronRecovery ---------------------------
(* Small instances of TronRecovery for TLC.                                *)
EXTENDS TronRecovery

CONSTANTS i1, i2

\* The transaction that sends a message is the second one of its block.
Entry(m, b, n, type) ==
    [block |-> b, index |-> 2 + n, local |-> n, type |-> type, msg |-> m]

\* A message with all its events; its assignment comes first.
OneMessage ==
    {Entry(1, 0, 0, "assigned"), Entry(1, 0, 1, "accepted"), Entry(1, 0, 2, "sent")}

\* ... and one in the next block.
TwoMessages == OneMessage \cup {Entry(2, 1, 0, "accepted")}

\* The first message may be left over from the retired indexer.
FirstMayRemain ==
    {[m \in Msg |-> IF m = 1 THEN state ELSE "none"] : state \in Remains}

FirstRemains == {[m \in Msg |-> "same"]}

FromZero     == {0}
FromZeroOrOne == {0, 1}
CronOnly     == {NoEnd}
CronAndManual == {NoEnd, 1}
=============================================================================
