--------------------------- MODULE MCLegacyStore ---------------------------
(* Small instances of LegacyStore for TLC.                                 *)
EXTENDS LegacyStore

CONSTANTS
    c1, c2, m1,
    c3          \* a chain that this deployment does not index

\* m1 goes from c1 to c2.
SentOn      == [c \in Chain |-> IF c = c1 THEN {m1} ELSE {}]
DeliveredOn == [c \in Chain |-> IF c = c2 THEN {m1} ELSE {}]

\* The legacy oracle counts from block 2 on.
FromTwo == [m \in {m1} |-> 2]

Assigned(oracle, relayer) ==
    [type |-> "assigned", msg |-> m1, oracle |-> oracle, relayer |-> relayer]

Signature(c) == [type |-> "signature", payload |-> c]

\* One message on its way from c1 to c2, three kinds of assignment, an event of
\* the msgport and a signature.
MessageEvents ==
    {[type |-> t, msg |-> m1] : t \in {"accepted", "dispatched", "imported"}}
    \cup {Assigned("listed", "other"), Assigned("b49e", "listed"), Assigned("other", "listed")}
    \cup {Signature(c) : c \in Payload} \cup {[type |-> "msgport"]}

SignatureEvents == {Signature(c) : c \in Payload}
=============================================================================
