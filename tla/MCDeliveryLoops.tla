--------------------------- MODULE MCDeliveryLoops ---------------------------
(* Small instances of DeliveryLoops for TLC. *)
EXTENDS DeliveryLoops

Independent == [t \in Tasks |-> {}]

CoreAndChildren == [c \in Callers |-> IF c = "core" THEN {"prepare", "candidate", "settle"}
                                      ELSE {"failure", "question", "answer"}]
=============================================================================
