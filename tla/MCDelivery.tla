----------------------------- MODULE MCDelivery -----------------------------
(* Instances of DeliveryPipeline for TLC.                                  *)
EXTENDS DeliveryProperties

CONSTANTS a, b, c

(* c is not planned: it is what a split of a creates.                      *)
SplitOfA  == [s \in Story |-> IF s = a THEN {c} \ {a} ELSE {}]
NoSplit   == [s \in Story |-> {}]

Unrelated == [s \in Story |-> {}]
BAfterA   == [s \in Story |-> IF s = b THEN {a} ELSE {}]
=============================================================================
