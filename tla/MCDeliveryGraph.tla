--------------------------- MODULE MCDeliveryGraph ---------------------------
(* Small instances of DeliveryGraph for TLC. *)
EXTENDS DeliveryGraph

Independent == [t \in Tasks |-> {}]

\* Four tasks of which the fourth needs the first.
Fork == [t \in Tasks |-> IF t = 4 THEN {1} ELSE {}]

\* Every caller invokes every operation.
AnyDuty == [c \in Callers |-> {"prepare", "candidate", "failure", "question",
                               "answer", "settle"}]

\* One invocation calls any operation while another one records candidates,
\* failures, questions and answers of the same attempts: every two of these
\* four race.  Two settlements race in SettlingDuties.
RacingDuties == [c \in Callers |->
                   {"candidate", "failure", "question", "answer"} \cup
                   IF c = "core" THEN {"prepare", "settle"} ELSE {}]

\* The core loop's calls come one after the other; its fan-out and the child
\* runs call at the same time.
LoopDuties == [c \in Callers |->
                 IF c = "core" THEN {"prepare", "candidate", "settle"}
                 ELSE {"candidate", "failure", "question", "answer"}]

\* Two invocations race for the settlement of a wave.
SettlingDuties == [c \in Callers |-> IF c = "core" THEN {"prepare", "settle"}
                                      ELSE {"candidate", "settle"}]
=============================================================================
