------------------------------ MODULE MCAccept ------------------------------
(* Instances of Accept for TLC.                                            *)
EXTENDS Accept, TLC

CONSTANTS w1, w2, own1

\* One worker has a reuseport socket.
OneOwn == [w \in Workers |-> IF w = w1 THEN own1 ELSE NoSocket]
=============================================================================
