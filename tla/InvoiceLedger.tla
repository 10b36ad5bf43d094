--------------------------- MODULE InvoiceLedger ---------------------------
(***************************************************************************)
(* What the booking core promises about money, whatever it does in         *)
(* between: a booking is opened once, is then either dropped or settled,   *)
(* and once settled stays settled with the amount first invoiced.          *)
(***************************************************************************)
EXTENDS Naturals

CONSTANTS BookingIds, None

VARIABLES stage,  \* "new", "open", "settled" or "dropped"
          bill    \* the amount invoiced, None before

ledger == <<stage, bill>>

LedgerInit ==
  /\ stage = [b \in BookingIds |-> "new"]
  /\ bill = [b \in BookingIds |-> None]

Move(b, from, to) == stage[b] = from /\ stage' = [stage EXCEPT ![b] = to]

Open(b) == Move(b, "new", "open") /\ UNCHANGED bill

Drop(b) == Move(b, "open", "dropped") /\ UNCHANGED bill

Settle(b) ==
  /\ Move(b, "open", "settled")
  /\ bill'[b] \in Nat
  /\ bill' = [bill EXCEPT ![b] = bill'[b]]

LedgerNext == \E b \in BookingIds : Open(b) \/ Drop(b) \/ Settle(b)

LedgerSpec == LedgerInit /\ [][LedgerNext]_ledger
=============================================================================
