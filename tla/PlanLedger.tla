----------------------------- MODULE PlanLedger -----------------------------
(***************************************************************************)
(* What the services promise about the numbers of one plan, whatever rows  *)
(* and payments they are summed from (the quantities that                  *)
(* ownership-plan.derivation.ts keeps apart):                              *)
(*   owed      the price, daily amount times instalments                   *)
(*   billed    what the generator has created obligations for              *)
(*   reserved  what payments that have not failed take of the price        *)
(*   paid      what COMPLETED payments take of it                          *)
(***************************************************************************)
EXTENDS Integers

VARIABLES owed, billed, reserved, paid, status

ledger == <<owed, billed, reserved, paid, status>>

LedgerInit ==
  /\ owed \in Nat
  /\ billed = 0 /\ reserved = 0 /\ paid = 0
  /\ status = "ACTIVE"

(* New instalment rows, never past the price.                              *)
Bill ==
  /\ \E k \in 1..(owed - billed) : billed' = billed + k
  /\ UNCHANGED <<owed, reserved, paid, status>>

(* A row nobody has paid on is deleted.                                    *)
Unbill ==
  /\ \E k \in 1..billed : billed' = billed - k
  /\ UNCHANGED <<owed, reserved, paid, status>>

(* A payment is recorded and waits for reconciliation.                     *)
Reserve ==
  /\ \E a \in 1..(owed - reserved) : reserved' = reserved + a
  /\ UNCHANGED <<owed, billed, paid, status>>

(* A waiting payment is COMPLETED, or FAILED.                              *)
Settle ==
  /\ \E a \in 1..(reserved - paid) : paid' = paid + a
  /\ UNCHANGED <<owed, billed, reserved, status>>
Release ==
  /\ \E a \in 1..(reserved - paid) : reserved' = reserved - a
  /\ UNCHANGED <<owed, billed, paid, status>>

(* The generator completes a plan only when it is paid for.                *)
Finish ==
  /\ paid = owed
  /\ status' = "COMPLETED"
  /\ UNCHANGED <<owed, billed, reserved, paid>>

(* The owner gives up on a plan.  It was ACTIVE when the owner's request   *)
(* read it; the generator may have completed it since.                     *)
Close ==
  /\ status' \in {"DEFAULTED", "CANCELLED"}
  /\ UNCHANGED <<owed, billed, reserved, paid>>

LedgerNext == Bill \/ Unbill \/ Reserve \/ Settle \/ Release \/ Finish \/ Close

LedgerSpec == LedgerInit /\ [][LedgerNext]_ledger

-----------------------------------------------------------------------------
(* The driver is never asked for, billed, or recorded as having paid, more *)
(* than the price; and COMPLETED means paid for.                           *)
WithinPrice ==
  /\ 0 <= paid /\ paid <= reserved /\ reserved <= owed
  /\ 0 <= billed /\ billed <= owed

CompletedMeansPaid == status = "COMPLETED" => paid = owed
=============================================================================
