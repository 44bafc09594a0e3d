--------------------------- MODULE DeliveryLedger ---------------------------
(***************************************************************************)
(* What a delivery promises about its attempts, whatever was lost, late or *)
(* repeated on the way: attempts are opened one at a time and at most      *)
(* AttemptCeiling of them; an attempt is bound to one run that no other    *)
(* attempt ever had; it is settled once, after it was bound; and once the  *)
(* delivery is closed it opens and binds nothing more and stays closed.    *)
(* DeliveryAttempts implements it.                                         *)
(***************************************************************************)
EXTENDS Integers, Sequences

CONSTANTS AttemptCeiling, NoRun

VARIABLES
    closed,     \* the delivery has a terminal disposition
    bound,      \* bound[n]: the run of attempt n, NoRun before it is known
    settled     \* how many attempts have their terminal evidence

vars == <<closed, bound, settled>>

Latest == Len(bound)

Init ==
    /\ closed = FALSE
    /\ bound = <<>>
    /\ settled = 0

Open ==
    /\ ~closed
    /\ settled = Latest
    /\ Latest < AttemptCeiling
    /\ bound' = Append(bound, NoRun)
    /\ UNCHANGED <<closed, settled>>

Bind ==
    /\ ~closed
    /\ settled < Latest
    /\ bound[Latest] = NoRun
    /\ bound' = [bound EXCEPT ![Latest] = bound'[Latest]]
    /\ bound'[Latest] # NoRun
    /\ \A n \in 1..Latest : bound[n] # bound'[Latest]
    /\ UNCHANGED <<closed, settled>>

Settle ==
    /\ settled < Latest
    /\ bound[Latest] # NoRun
    /\ settled' = Latest
    /\ closed' \in {closed, TRUE}
    /\ UNCHANGED bound

Close ==
    /\ closed' = TRUE
    /\ UNCHANGED <<bound, settled>>

Next == Open \/ Bind \/ Settle \/ Close

Spec == Init /\ [][Next]_vars
=============================================================================
