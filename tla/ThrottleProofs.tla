---------------------------- MODULE ThrottleProofs ----------------------------
(* Proofs about the adaptive limiter, for any number of import futures and of  *)
(* concurrent reporters.                                                       *)
EXTENDS Throttle, FiniteSetTheorems, TLAPS

\* The ceiling is a positive number and halving stays between the floor and it.
LEMMA MaxPositive == max \in Nat /\ max >= 1
  <1>1. max \in Nat
    BY ImportersAssumption, FS_CardinalityType DEF max
  <1>2. max # 0
    BY ImportersAssumption, FS_EmptySet DEF max
  <1> QED
    BY <1>1, <1>2

LEMMA HalvedRange ==
  ASSUME NEW x \in min .. max
  PROVE  Halved(x) \in min .. max /\ Halved(x) <= x
  BY MaxPositive DEF Halved, min

\* A reporter that is about to exchange target has read one below the ceiling.
BelowMax == \A r \in Reporters : pc[r] = "ok_cas" => t[r] < max

IInv == TypeOK /\ BelowMax /\ PermitsBalance /\ CounterBounded

\* The reporters at one label, and their number when one reporter moves.
Labelled(label) == {q \in Reporters : pc[q] = label}

LEMMA LabelCount ==
  ASSUME NEW r \in Reporters, NEW label, NEW new, TypeOK,
         pc' = [pc EXCEPT ![r] = new]
  PROVE  /\ Cardinality(Labelled(label)') \in Nat
         /\ Cardinality(Labelled(label)') = Cardinality(Labelled(label))
              + (IF new = label THEN 1 ELSE 0) - (IF pc[r] = label THEN 1 ELSE 0)
  <1> DEFINE before == Labelled(label)
             after  == Labelled(label)'
  <1>0. pc \in [Reporters -> PCs]
    BY DEF TypeOK
  <1>1. IsFiniteSet(before) /\ IsFiniteSet(after)
    BY ReportersAssumption, FS_Subset DEF Labelled
  <1>2. Cardinality(before) \in Nat /\ Cardinality(after) \in Nat
    BY <1>1, FS_CardinalityType
  <1>3. CASE pc[r] # label /\ new = label
    <2>1. after = before \union {r} /\ r \notin before
      BY <1>0, <1>3 DEF Labelled
    <2>2. Cardinality(after) = Cardinality(before) + 1
      BY <2>1, <1>1, FS_AddElement
    <2> QED
      BY <2>2, <1>2, <1>3
  <1>4. CASE pc[r] = label /\ new # label
    <2>1. after = before \ {r} /\ r \in before
      BY <1>0, <1>4 DEF Labelled
    <2>2. Cardinality(after) = Cardinality(before) - 1
      BY <2>1, <1>1, FS_RemoveElement
    <2> QED
      BY <2>2, <1>2, <1>4
  <1>5. CASE pc[r] = label /\ new = label
    <2>1. after = before
      BY <1>0, <1>5 DEF Labelled
    <2> QED
      BY <2>1, <1>2, <1>5
  <1>6. CASE pc[r] # label /\ new # label
    <2>1. after = before
      BY <1>0, <1>6 DEF Labelled
    <2> QED
      BY <2>1, <1>2, <1>6
  <1> QED
    BY <1>3, <1>4, <1>5, <1>6

\* What the two counts are in the initial state and that they are numbers.
LEMMA CountsAreNat ==
  ASSUME TypeOK
  PROVE  /\ Cardinality(Adding) \in Nat /\ Cardinality(Resetting) \in Nat
         /\ IsFiniteSet(holding) /\ Cardinality(holding) \in Nat
  <1>1. IsFiniteSet(Adding) /\ IsFiniteSet(Resetting)
    BY ReportersAssumption, FS_Subset DEF Adding, Resetting
  <1>2. IsFiniteSet(holding)
    BY ImportersAssumption, FS_Subset DEF TypeOK
  <1> QED
    BY <1>1, <1>2, FS_CardinalityType

LEMMA InitInv == Init => IInv
  <1> SUFFICES ASSUME Init PROVE IInv
    OBVIOUS
  <1>1. TypeOK
    BY MaxPositive DEF Init, TypeOK, PCs, min
  <1>2. BelowMax
    BY DEF Init, BelowMax
  <1>3. Adding = {} /\ Resetting = {} /\ holding = {}
    BY DEF Init, Adding, Resetting
  <1>4. PermitsBalance /\ CounterBounded
    BY <1>3, MaxPositive, IncreaseAssumption, FS_EmptySet
    DEF Init, PermitsBalance, CounterBounded
  <1> QED
    BY <1>1, <1>2, <1>4 DEF IInv

-------------------------------------------------------------------------------
(* The steps.  Those of the import futures and of the removal tasks leave the  *)
(* reporters alone; those of a reporter move it from one label to another.     *)

LEMMA FutureStep ==
  ASSUME IInv, NEW i \in Importers, acquire(i) \/ release(i)
  PROVE  IInv'
  <1>1. TypeOK'
    BY DEF IInv, TypeOK, acquire, release
  <1>2. BelowMax' /\ Adding' = Adding /\ Resetting' = Resetting
    BY DEF IInv, BelowMax, Adding, Resetting, acquire, release, max
  <1>3. permits' + Cardinality(holding') = permits + Cardinality(holding)
    <2>1. IsFiniteSet(holding) /\ Cardinality(holding) \in Nat /\ permits \in Nat
      BY CountsAreNat DEF IInv, TypeOK
    <2>2. CASE acquire(i)
      <3>1. i \notin holding /\ holding' = holding \union {i} /\ permits' = permits - 1
        BY <2>2 DEF acquire
      <3>2. Cardinality(holding') = Cardinality(holding) + 1
        BY <2>1, <3>1, FS_AddElement
      <3> QED
        BY <2>1, <3>1, <3>2
    <2>3. CASE release(i)
      <3>1. i \in holding /\ holding' = holding \ {i} /\ permits' = permits + 1
        BY <2>3 DEF release
      <3>2. Cardinality(holding') = Cardinality(holding) - 1
        BY <2>1, <3>1, FS_RemoveElement
      <3> QED
        BY <2>1, <3>1, <3>2
    <2> QED
      BY <2>2, <2>3
  <1>4. PermitsBalance' /\ CounterBounded'
    BY <1>2, <1>3 DEF IInv, PermitsBalance, CounterBounded, acquire, release
  <1> QED
    BY <1>1, <1>2, <1>4 DEF IInv

LEMMA ForgetStep ==
  ASSUME IInv, forget
  PROVE  IInv'
  <1>1. TypeOK' /\ BelowMax'
    BY DEF IInv, TypeOK, BelowMax, forget, max
  <1>2. Adding' = Adding /\ Resetting' = Resetting
    BY DEF Adding, Resetting, forget
  <1>3. PermitsBalance' /\ CounterBounded'
    BY <1>2, CountsAreNat DEF IInv, TypeOK, PermitsBalance, CounterBounded, forget
  <1> QED
    BY <1>1, <1>3 DEF IInv

\* The counts of Adding and Resetting when r goes to a label.
LEMMA Counts ==
  ASSUME IInv, NEW r \in Reporters, NEW new, Goto(r, new)
  PROVE  /\ Cardinality(Adding') \in Nat /\ Cardinality(Resetting') \in Nat
         /\ Cardinality(Adding') = Cardinality(Adding)
              + (IF new = "ok_add" THEN 1 ELSE 0) - (IF pc[r] = "ok_add" THEN 1 ELSE 0)
         /\ Cardinality(Resetting') = Cardinality(Resetting)
              + (IF new = "ok_reset" THEN 1 ELSE 0) - (IF pc[r] = "ok_reset" THEN 1 ELSE 0)
  <1>1. TypeOK /\ pc' = [pc EXCEPT ![r] = new]
    BY DEF IInv, Goto
  <1>2. Adding = Labelled("ok_add") /\ Adding' = Labelled("ok_add")'
    BY DEF Adding, Labelled
  <1>3. Resetting = Labelled("ok_reset") /\ Resetting' = Labelled("ok_reset")'
    BY DEF Resetting, Labelled
  <1>4. Cardinality(Adding') \in Nat /\ Cardinality(Adding') = Cardinality(Adding)
          + (IF new = "ok_add" THEN 1 ELSE 0) - (IF pc[r] = "ok_add" THEN 1 ELSE 0)
    BY <1>1, <1>2, LabelCount
  <1>5. Cardinality(Resetting') \in Nat /\ Cardinality(Resetting') = Cardinality(Resetting)
          + (IF new = "ok_reset" THEN 1 ELSE 0) - (IF pc[r] = "ok_reset" THEN 1 ELSE 0)
    BY <1>1, <1>3, LabelCount
  <1> QED
    BY <1>4, <1>5

LEMMA ReportOkStep ==
  ASSUME IInv, NEW r \in Reporters,
         report_ok(r) \/ ok_reset(r) \/ ok_load(r) \/ ok_cas(r) \/ ok_add(r)
  PROVE  IInv'
  <1> USE DEF IInv
  <1>0. /\ max \in Nat /\ max >= 1 /\ INCREASE_EVERY \in Nat /\ INCREASE_EVERY >= 1
        /\ Cardinality(Adding) \in Nat /\ Cardinality(Resetting) \in Nat
        /\ Cardinality(holding) \in Nat /\ max' = max
    BY MaxPositive, IncreaseAssumption, CountsAreNat DEF max
  <1>1. CASE report_ok(r)
    <2>1. TypeOK' /\ BelowMax'
      BY <1>0, <1>1 DEF report_ok, MayReport, Goto, TypeOK, BelowMax, PCs
    <2>2. CASE since_change' < INCREASE_EVERY
      <3>1. Goto(r, "idle")
        BY <1>1, <2>2 DEF report_ok
      <3> QED
        BY <1>0, <1>1, <2>1, <2>2, <3>1, Counts
        DEF report_ok, MayReport, PermitsBalance, CounterBounded, TypeOK
    <2>3. CASE ~(since_change' < INCREASE_EVERY)
      <3>1. Goto(r, "ok_reset")
        BY <1>1, <2>3 DEF report_ok
      <3> QED
        BY <1>0, <1>1, <2>1, <2>3, <3>1, Counts
        DEF report_ok, MayReport, PermitsBalance, CounterBounded, TypeOK
    <2> QED
      BY <2>2, <2>3
  <1>2. CASE ok_reset(r)
    <2>1. TypeOK' /\ BelowMax'
      BY <1>0, <1>2 DEF ok_reset, Goto, TypeOK, BelowMax, PCs
    <2>2. /\ Goto(r, "ok_load") /\ pc[r] = "ok_reset" /\ since_change' = 0
          /\ UNCHANGED <<target, permits, holding, owed>>
      BY <1>2 DEF ok_reset
    <2>3. /\ Cardinality(Adding') = Cardinality(Adding)
          /\ Cardinality(Resetting') \in Nat
      BY <1>0, <2>2, Counts
    <2>4. PermitsBalance'
      BY <2>2, <2>3 DEF PermitsBalance
    <2>5. CounterBounded'
      BY <1>0, <2>2, <2>3 DEF CounterBounded
    <2> QED
      BY <2>1, <2>4, <2>5
  <1>3. CASE ok_load(r)
    <2>1. TypeOK' /\ BelowMax'
      BY <1>0, <1>3 DEF ok_load, Goto, TypeOK, BelowMax, PCs, min
    <2>2. PICK new \in {"idle", "ok_cas"} : Goto(r, new)
      BY <1>3 DEF ok_load
    <2> QED
      BY <1>0, <1>3, <2>1, <2>2, Counts DEF ok_load, PermitsBalance, CounterBounded, TypeOK
  <1>4. CASE ok_cas(r)
    <2>1. CASE target = t[r] /\ target' = t[r] + 1 /\ Goto(r, "ok_add") /\ UNCHANGED t
      <3>1. TypeOK' /\ BelowMax'
        BY <1>0, <1>4, <2>1 DEF ok_cas, Goto, TypeOK, BelowMax, PCs, min
      <3> QED
        BY <1>0, <1>4, <2>1, <3>1, Counts
        DEF ok_cas, PermitsBalance, CounterBounded, TypeOK, min
    <2>2. CASE UNCHANGED target
      <3>1. TypeOK' /\ BelowMax'
        BY <1>0, <1>4, <2>2 DEF ok_cas, Goto, TypeOK, BelowMax, PCs, min
      <3>2. CASE target = t[r]
        BY <1>0, <1>4, <2>2, <3>2 DEF ok_cas, TypeOK, min
      <3>3. CASE target # t[r]
        <4>1. PICK new \in {"idle", "ok_cas"} : Goto(r, new)
          BY <1>4, <3>3 DEF ok_cas
        <4> QED
          BY <1>0, <1>4, <2>2, <3>1, <4>1, Counts
          DEF ok_cas, PermitsBalance, CounterBounded, TypeOK
      <3> QED
        BY <3>2, <3>3
    <2> QED
      BY <1>4, <2>1, <2>2 DEF ok_cas
  <1>5. CASE ok_add(r)
    <2>1. TypeOK' /\ BelowMax'
      BY <1>0, <1>5 DEF ok_add, Goto, TypeOK, BelowMax, PCs
    <2> QED
      BY <1>0, <1>5, <2>1, Counts DEF ok_add, PermitsBalance, CounterBounded, TypeOK
  <1> QED
    BY <1>1, <1>2, <1>3, <1>4, <1>5

LEMMA ReportThrottledStep ==
  ASSUME IInv, NEW r \in Reporters,
         report_throttled(r) \/ throttled_load(r) \/ throttled_cas(r)
  PROVE  IInv'
  <1> USE DEF IInv
  <1>0. /\ max \in Nat /\ max >= 1 /\ INCREASE_EVERY \in Nat /\ INCREASE_EVERY >= 1
        /\ Cardinality(Adding) \in Nat /\ Cardinality(Resetting) \in Nat
        /\ Cardinality(holding) \in Nat /\ max' = max
    BY MaxPositive, IncreaseAssumption, CountsAreNat DEF max
  <1>1. CASE report_throttled(r)
    <2>1. TypeOK' /\ BelowMax'
      BY <1>0, <1>1 DEF report_throttled, MayReport, Goto, TypeOK, BelowMax, PCs
    <2> QED
      BY <1>0, <1>1, <2>1, Counts
      DEF report_throttled, MayReport, PermitsBalance, CounterBounded, TypeOK
  <1>2. CASE throttled_load(r)
    <2>1. TypeOK' /\ BelowMax'
      BY <1>0, <1>2 DEF throttled_load, Goto, TypeOK, BelowMax, PCs
    <2>2. PICK new \in {"idle", "throttled_cas"} : Goto(r, new)
      BY <1>2 DEF throttled_load
    <2> QED
      BY <1>0, <1>2, <2>1, <2>2, Counts
      DEF throttled_load, PermitsBalance, CounterBounded, TypeOK
  <1>3. CASE throttled_cas(r)
    <2>1. CASE target = t[r] /\ target' = Halved(t[r])
               /\ owed' = owed + Withdrawn(t[r], Halved(t[r])) /\ Goto(r, "idle") /\ UNCHANGED t
      <3>1. Halved(t[r]) \in min .. max /\ Halved(t[r]) <= t[r] /\ t[r] \in min .. max
        BY HalvedRange DEF TypeOK
      <3>2. owed' = owed + (t[r] - Halved(t[r])) /\ owed' \in Nat /\ Halved(t[r]) \in Nat
        BY <2>1, <3>1, <1>0 DEF Withdrawn, TypeOK, min
      <3>3. TypeOK' /\ BelowMax'
        BY <1>0, <1>3, <2>1, <3>1, <3>2 DEF throttled_cas, Goto, TypeOK, BelowMax, PCs
      <3> QED
        BY <1>0, <1>3, <2>1, <3>1, <3>2, <3>3, Counts
        DEF throttled_cas, PermitsBalance, CounterBounded, TypeOK, min
    <2>2. CASE target # t[r] /\ UNCHANGED <<target, owed>>
      <3>1. TypeOK' /\ BelowMax'
        BY <1>0, <1>3, <2>2 DEF throttled_cas, Goto, TypeOK, BelowMax, PCs
      <3>2. PICK new \in {"idle", "throttled_cas"} : Goto(r, new)
        BY <1>3, <2>2 DEF throttled_cas
      <3> QED
        BY <1>0, <1>3, <2>2, <3>1, <3>2, Counts
        DEF throttled_cas, PermitsBalance, CounterBounded, TypeOK
    <2> QED
      BY <1>3, <2>1, <2>2 DEF throttled_cas
  <1> QED
    BY <1>1, <1>2, <1>3

LEMMA StutterStep ==
  ASSUME IInv, UNCHANGED vars
  PROVE  IInv'
  BY DEF IInv, vars, TypeOK, BelowMax, PermitsBalance, CounterBounded, Adding, Resetting, max, min

LEMMA NextInv == IInv /\ [Next]_vars => IInv'
  <1> SUFFICES ASSUME IInv, [Next]_vars PROVE IInv'
    OBVIOUS
  <1>1. CASE Next
    BY <1>1, FutureStep, ForgetStep, ReportOkStep, ReportThrottledStep DEF Next, ReportStep
  <1>2. CASE UNCHANGED vars
    BY <1>2, StutterStep
  <1> QED
    BY <1>1, <1>2

-------------------------------------------------------------------------------
(* Every variable keeps its type; the target stays between 1 and the ceiling.  *)
THEOREM TypeCorrect == Spec => []TypeOK
  <1>1. IInv => TypeOK
    BY DEF IInv
  <1> QED
    BY InitInv, NextInv, <1>1, PTL DEF Spec

(* No permit of the semaphore is lost or invented by racing increases,         *)
(* decreases and removals (throttle.rs:53-107).                                *)
THEOREM PermitsConserved == Spec => []PermitsBalance
  <1>1. IInv => PermitsBalance
    BY DEF IInv
  <1> QED
    BY InitInv, NextInv, <1>1, PTL DEF Spec

(* The window counter never exceeds its limit by more than the reporters that  *)
(* are about to reset it (throttle.rs:54-58).                                  *)
THEOREM CounterContained == Spec => []CounterBounded
  <1>1. IInv => CounterBounded
    BY DEF IInv
  <1> QED
    BY InitInv, NextInv, <1>1, PTL DEF Spec

(* Every step leaves the target, raises it by one, or halves it: a stale       *)
(* reading is never written back (throttle.rs:60-74, :81-93).                  *)
THEOREM TargetMovesByRule == Spec => TargetMoves
  <1>1. IInv /\ [Next]_vars => [target' \in {target, target + 1, Halved(target)}]_vars
    BY DEF Next, ReportStep, acquire, release, report_ok, ok_reset, ok_load, ok_cas, ok_add,
           report_throttled, throttled_load, throttled_cas, forget, vars
  <1> QED
    BY InitInv, NextInv, <1>1, PTL DEF Spec, TargetMoves
===============================================================================
