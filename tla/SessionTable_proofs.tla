------------------------ MODULE SessionTable_proofs -------------------------
(***************************************************************************)
(* Proofs about SessionTable: what interruptions can cost, for any kinds   *)
(* of tables, any updates and any number of records.                       *)
(***************************************************************************)
EXTENDS SessionTable, TLAPS

(* An unfinished end is an interruption that has not been paid for yet.    *)
Owed == IF doubtful THEN 1 ELSE 0

CountersOK == /\ doubtful \in BOOLEAN
              /\ lost \in Nat
              /\ interrupted \in Nat

DebtCovered == lost + Owed <= interrupted

LossInv == CountersOK /\ DebtCovered

LEMMA LossInvInit == Init => LossInv
<1> SUFFICES ASSUME Init
             PROVE  LossInv
  OBVIOUS
<1>1. doubtful = FALSE /\ lost = 0 /\ interrupted = 0
  BY DEF Init
<1>2. CountersOK
  BY <1>1 DEF CountersOK
<1>3. DebtCovered
  BY <1>1 DEF DebtCovered, Owed
<1> QED
  BY <1>2, <1>3 DEF LossInv

(* A write pays for the unfinished end that it continues.                  *)
LEMMA WriteKeepsLossInv ==
  ASSUME LossInv, NEW u, Write(u)
  PROVE  LossInv'
<1>1. doubtful' = FALSE /\ interrupted' = interrupted
  BY DEF Write, Lands
<1>2. CASE doubtful
  <2>1. lost' = lost + 1
    BY <1>2 DEF Write
  <2>2. lost' \in Nat
    BY <2>1 DEF LossInv, CountersOK
  <2>3. CountersOK'
    BY <1>1, <2>2 DEF LossInv, CountersOK
  <2>4. DebtCovered'
    BY <1>1, <1>2, <2>1 DEF LossInv, CountersOK, DebtCovered, Owed
  <2> QED
    BY <2>3, <2>4 DEF LossInv
<1>3. CASE ~ doubtful
  <2>1. lost' = lost
    BY <1>3 DEF Write
  <2>2. CountersOK'
    BY <1>1, <2>1 DEF LossInv, CountersOK
  <2>3. DebtCovered'
    BY <1>1, <1>3, <2>1 DEF LossInv, CountersOK, DebtCovered, Owed
  <2> QED
    BY <2>2, <2>3 DEF LossInv
<1> QED
  BY <1>2, <1>3

(* However an interrupted write ends, it raises the debt by one at most,   *)
(* and so it does with the count of interruptions.                         *)
LEMMA InterruptKeepsLossInv ==
  ASSUME LossInv, NEW u, Interrupt(u)
  PROVE  LossInv'
<1>1. lost' = lost /\ interrupted' = interrupted + 1
  BY DEF Interrupt
<1>2. doubtful' \in BOOLEAN
  BY DEF Interrupt, Lands, LandsInPart, LossInv, CountersOK
<1>3. CountersOK'
  BY <1>1, <1>2 DEF LossInv, CountersOK
<1>4. DebtCovered'
  BY <1>1, <1>2 DEF LossInv, CountersOK, DebtCovered, Owed
<1> QED
  BY <1>3, <1>4 DEF LossInv

LEMMA ExpireKeepsLossInv ==
  ASSUME LossInv, NEW gone, Expire(gone)
  PROVE  LossInv'
<1>1. /\ doubtful' = FALSE
      /\ UNCHANGED <<lost, interrupted>>
  BY DEF Expire
<1>2. CountersOK'
  BY <1>1 DEF LossInv, CountersOK
<1>3. DebtCovered'
  BY <1>1 DEF LossInv, CountersOK, DebtCovered, Owed
<1> QED
  BY <1>2, <1>3 DEF LossInv

LEMMA StutterKeepsLossInv ==
  ASSUME LossInv, UNCHANGED vars
  PROVE  LossInv'
  BY DEF vars, LossInv, CountersOK, DebtCovered, Owed

(* Every acknowledged write that is lost is paid for by an interrupted     *)
(* one, in any number of writes, interruptions and expiries: the contract  *)
(* that the files of a session are shown to implement.                     *)
THEOREM LossBound == Spec => []LossIsBounded
<1>1. Init => LossInv
  BY LossInvInit
<1>2. LossInv /\ [Next]_vars => LossInv'
  <2> SUFFICES ASSUME LossInv, [Next]_vars
               PROVE  LossInv'
    OBVIOUS
  <2>1. ASSUME NEW u \in Updates(kind), Write(u)
        PROVE  LossInv'
    BY <2>1, WriteKeepsLossInv
  <2>2. ASSUME NEW u \in Updates(kind), Interrupt(u)
        PROVE  LossInv'
    BY <2>2, InterruptKeepsLossInv
  <2>3. ASSUME NEW gone \in SUBSET Ids, Expire(gone)
        PROVE  LossInv'
    BY <2>3, ExpireKeepsLossInv
  <2>4. CASE UNCHANGED vars
    BY <2>4, StutterKeepsLossInv
  <2> QED
    BY <2>1, <2>2, <2>3, <2>4 DEF Next
<1>3. LossInv => LossIsBounded
  BY DEF LossInv, CountersOK, DebtCovered, Owed, LossIsBounded
<1> QED
  BY <1>1, <1>2, <1>3, PTL DEF Spec
=============================================================================
