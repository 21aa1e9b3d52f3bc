---------------------------- MODULE PlanLedgerProofs -------------------------
(***************************************************************************)
(* What a plan's ledger guarantees, whatever the price and the amounts.    *)
(* Each of the two rests on the types the other conjuncts give, so they    *)
(* are proved as one inductive invariant.                                  *)
(***************************************************************************)
EXTENDS PlanLedger, TLAPS

LedgerInv ==
  /\ owed \in Nat /\ billed \in Nat /\ reserved \in Nat /\ paid \in Nat
  /\ WithinPrice
  /\ CompletedMeansPaid

LEMMA LedgerInitInv == LedgerInit => LedgerInv
BY DEF LedgerInit, LedgerInv, WithinPrice, CompletedMeansPaid

LEMMA LedgerStepInv == LedgerInv /\ [LedgerNext]_ledger => LedgerInv'
<1> SUFFICES ASSUME LedgerInv, [LedgerNext]_ledger PROVE LedgerInv'
  OBVIOUS
<1> USE DEF LedgerInv, WithinPrice, CompletedMeansPaid
<1>1. CASE Bill
  BY <1>1 DEF Bill
<1>2. CASE Unbill
  BY <1>2 DEF Unbill
<1>3. CASE Reserve
  BY <1>3 DEF Reserve
<1>4. CASE Settle
  BY <1>4 DEF Settle
<1>5. CASE Release
  BY <1>5 DEF Release
<1>6. CASE Finish
  BY <1>6 DEF Finish
<1>7. CASE Close
  BY <1>7 DEF Close
<1>8. CASE UNCHANGED ledger
  BY <1>8 DEF ledger
<1> QED BY <1>1, <1>2, <1>3, <1>4, <1>5, <1>6, <1>7, <1>8 DEF LedgerNext

(* A driver is never billed, asked for or recorded as having paid more     *)
(* than the price, as long as the services take only the ledger's steps.   *)
THEOREM NeverBeyondThePrice == LedgerSpec => []WithinPrice
<1>1. LedgerInv => WithinPrice
  BY DEF LedgerInv
<1> QED BY <1>1, LedgerInitInv, LedgerStepInv, PTL DEF LedgerSpec

(* A plan the services completed is paid for, and stays paid for.          *)
THEOREM CompletedPlansArePaid == LedgerSpec => []CompletedMeansPaid
<1>1. LedgerInv => CompletedMeansPaid
  BY DEF LedgerInv
<1> QED BY <1>1, LedgerInitInv, LedgerStepInv, PTL DEF LedgerSpec
=============================================================================
