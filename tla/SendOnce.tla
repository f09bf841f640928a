------------------------------ MODULE SendOnce ------------------------------
(***************************************************************************)
(* What the send pipeline promises about one row of mailer_sends, without  *)
(* workers, jobs, locks or clocks: a mail is handed to the provider at     *)
(* most once, unless the receipt of an earlier hand-over was lost; a row   *)
(* says 'sent' only after a hand-over; and a row that was withdrawn or     *)
(* sent is never taken up again.                                           *)
(***************************************************************************)
EXTENDS Naturals

CONSTANT Send

VARIABLES
  phase,    \* "pending", "delivered" (recorded as sent) or "withdrawn"
  copies,   \* mails the provider accepted for the row
  excused   \* rows whose receipt was lost

onceVars == <<phase, copies, excused>>

OnceInit ==
  /\ phase = [s \in Send |-> "pending"]
  /\ copies = [s \in Send |-> 0]
  /\ excused = {}

MayHandOver(s) == phase[s] = "pending" /\ (copies[s] = 0 \/ s \in excused)

HandOver(s) ==
  /\ MayHandOver(s)
  /\ copies' = [copies EXCEPT ![s] = @ + 1]
  /\ UNCHANGED <<phase, excused>>

\* The receipt of a hand-over is lost, or the record of it is taken back.
LoseReceipt(s) ==
  /\ phase[s] # "withdrawn" /\ copies[s] > 0
  /\ phase' = [phase EXCEPT ![s] = "pending"]
  /\ excused' = excused \cup {s}
  /\ UNCHANGED copies

Confirm(s) ==
  /\ phase[s] = "pending" /\ copies[s] > 0
  /\ phase' = [phase EXCEPT ![s] = "delivered"]
  /\ UNCHANGED <<copies, excused>>

\* Rows may be withdrawn together, by one updateMany.
Withdraw(S) ==
  /\ \A s \in S : MayHandOver(s)
  /\ phase' = [s \in Send |-> IF s \in S THEN "withdrawn" ELSE phase[s]]
  /\ UNCHANGED <<copies, excused>>

OnceNext ==
  \/ \E s \in Send : HandOver(s) \/ LoseReceipt(s) \/ Confirm(s)
  \/ \E S \in SUBSET Send : Withdraw(S)

OnceSpec == OnceInit /\ [][OnceNext]_onceVars

=============================================================================
