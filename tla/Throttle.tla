------------------------------- MODULE Throttle -------------------------------
(* orchestrator/src/throttle.rs: the adaptive (AIMD) concurrency limiter.      *)
(*                                                                             *)
(* Import futures take a permit of one semaphore for the whole of a document.  *)
(* Every BC call reports success or throttling to the limiter, from the main   *)
(* task (all the import futures of a chunk are polled by it) and from the      *)
(* spawned post tasks, so reports run concurrently.  A report is lock-free     *)
(* code: one action below is one atomic operation of it.  Permits withdrawn by *)
(* a throttle are collected by spawned tasks, one permit at a time, once the   *)
(* work that holds them gives them back.                                       *)
EXTENDS Integers, FiniteSets

CONSTANTS
    Importers,      \* the import futures buffer_unordered keeps alive at once
    Reporters,      \* tasks that call report_ok / report_throttled
    Main,           \* the reporter that polls the import futures
    INCREASE_EVERY, \* successful calls between two increases
    MaxOwed         \* bound of the model: no 429 arrives while more is owed

ASSUME ReportersAssumption == IsFiniteSet(Reporters) /\ Main \in Reporters
ASSUME ImportersAssumption == IsFiniteSet(Importers) /\ Importers # {}
ASSUME IncreaseAssumption  == INCREASE_EVERY \in Nat \ {0}
ASSUME BoundAssumption     == MaxOwed \in Nat

VARIABLES
    target,        \* AtomicUsize: the concurrency aimed at
    since_change,  \* AtomicUsize: successes since the counter was last reset
    permits,       \* available permits of the semaphore
    holding,       \* import futures that hold a permit
    owed,          \* permits the removal tasks have still to collect
    pc,            \* next atomic operation of each reporter
    t              \* each reporter's last reading of target

vars == <<target, since_change, permits, holding, owed, pc, t>>

\* buffer_unordered(limiter.max()) bounds the futures; `new` clamps max to 1.
max == Cardinality(Importers)
min == 1

\* MUTANT of Halved: the floor is dropped.
Halved_NoFloor(x) == x \div 2

Halved(x) == IF x \div 2 > min THEN x \div 2 ELSE min

\* MUTANTS of Withdrawn: an off-by-one either way.
Withdrawn_OneShort(old, new)   == old - new - 1
Withdrawn_OneTooMany(old, new) == old - new + 1

\* How many permits a decrease takes out of the semaphore.
Withdrawn(old, new) == old - new

PCs == {"idle", "ok_reset", "ok_load", "ok_cas", "ok_add",
        "throttled_load", "throttled_cas"}

Init ==
    /\ target = max
    /\ since_change = 0
    /\ permits = max
    /\ holding = {}
    /\ owed = 0
    /\ pc = [r \in Reporters |-> "idle"]
    /\ t = [r \in Reporters |-> max]

Goto(r, label) == pc' = [pc EXCEPT ![r] = label]

-------------------------------------------------------------------------------
(* Import futures                                                              *)

\* They all run in the main task: none takes a step while one of them reports.
Polled == pc[Main] = "idle"

acquire(i) ==
    /\ Polled
    /\ i \notin holding
    /\ permits > 0
    /\ permits' = permits - 1
    /\ holding' = holding \union {i}
    /\ UNCHANGED <<target, since_change, owed, pc, t>>

\* The document is done and `_permit` is dropped.
release(i) ==
    /\ Polled
    /\ i \in holding
    /\ permits' = permits + 1
    /\ holding' = holding \ {i}
    /\ UNCHANGED <<target, since_change, owed, pc, t>>

\* The main task reports for an import future, which holds a permit meanwhile;
\* a post task calls BC without one.
MayReport(r) == pc[r] = "idle" /\ (r = Main => holding # {})

-------------------------------------------------------------------------------
(* report_ok                                                                   *)

report_ok(r) ==
    /\ MayReport(r)
    /\ since_change' = since_change + 1
    /\ Goto(r, IF since_change' < INCREASE_EVERY THEN "idle" ELSE "ok_reset")
    /\ UNCHANGED <<target, permits, holding, owed, t>>

\* MUTANT of ok_reset: the store of 0 is dropped.
ok_reset_NoStore(r) ==
    /\ pc[r] = "ok_reset"
    /\ Goto(r, "ok_load")
    /\ UNCHANGED <<target, since_change, permits, holding, owed, t>>

ok_reset(r) ==
    /\ pc[r] = "ok_reset"
    /\ since_change' = 0
    /\ Goto(r, "ok_load")
    /\ UNCHANGED <<target, permits, holding, owed, t>>

\* Reads target, then leaves the loop if it is already at the ceiling.
ok_load(r) ==
    /\ pc[r] = "ok_load"
    /\ t' = [t EXCEPT ![r] = target]
    /\ Goto(r, IF target >= max THEN "idle" ELSE "ok_cas")
    /\ UNCHANGED <<target, since_change, permits, holding, owed>>

\* MUTANT of ok_cas: a plain store instead of the exchange.
ok_cas_Store(r) ==
    /\ pc[r] = "ok_cas"
    /\ target' = t[r] + 1
    /\ Goto(r, "ok_add")
    /\ UNCHANGED <<since_change, permits, holding, owed, t>>

\* A failed exchange returns the current value and goes round the loop again.
\* A spurious failure (compare_exchange_weak) returns the value already in t:
\* it changes nothing, so it is a stuttering step.
ok_cas(r) ==
    /\ pc[r] = "ok_cas"
    /\ \/ /\ target = t[r]
          /\ target' = t[r] + 1
          /\ Goto(r, "ok_add")
          /\ UNCHANGED t
       \/ /\ target # t[r]
          /\ t' = [t EXCEPT ![r] = target]
          /\ Goto(r, IF target >= max THEN "idle" ELSE "ok_cas")
          /\ UNCHANGED target
    /\ UNCHANGED <<since_change, permits, holding, owed>>

ok_add(r) ==
    /\ pc[r] = "ok_add"
    /\ permits' = permits + 1
    /\ Goto(r, "idle")
    /\ UNCHANGED <<target, since_change, holding, owed, t>>

-------------------------------------------------------------------------------
(* report_throttled                                                            *)

report_throttled(r) ==
    /\ MayReport(r)
    /\ owed <= MaxOwed
    /\ since_change' = 0
    /\ Goto(r, "throttled_load")
    /\ UNCHANGED <<target, permits, holding, owed, t>>

throttled_load(r) ==
    /\ pc[r] = "throttled_load"
    /\ t' = [t EXCEPT ![r] = target]
    /\ Goto(r, IF Halved(target) >= target THEN "idle" ELSE "throttled_cas")
    /\ UNCHANGED <<target, since_change, permits, holding, owed>>

\* A success spawns the task that collects the difference; nothing shared is
\* touched in between, so the two are one step.
throttled_cas(r) ==
    /\ pc[r] = "throttled_cas"
    /\ \/ /\ target = t[r]
          /\ target' = Halved(t[r])
          /\ owed' = owed + Withdrawn(t[r], Halved(t[r]))
          /\ Goto(r, "idle")
          /\ UNCHANGED t
       \/ /\ target # t[r]
          /\ t' = [t EXCEPT ![r] = target]
          /\ Goto(r, IF Halved(target) >= target THEN "idle" ELSE "throttled_cas")
          /\ UNCHANGED <<target, owed>>
    /\ UNCHANGED <<since_change, permits, holding>>

\* MUTANT of forget: try_acquire, and a permit that is not free is let go.
forget_TryAcquire ==
    /\ owed > 0
    /\ permits' = IF permits > 0 THEN permits - 1 ELSE 0
    /\ owed' = owed - 1
    /\ UNCHANGED <<target, since_change, holding, pc, t>>

\* One iteration of a removal task: acquire_owned, then forget.
forget ==
    /\ owed > 0
    /\ permits > 0
    /\ permits' = permits - 1
    /\ owed' = owed - 1
    /\ UNCHANGED <<target, since_change, holding, pc, t>>

-------------------------------------------------------------------------------
ReportStep(r) ==
    \/ ok_reset(r) \/ ok_load(r) \/ ok_cas(r) \/ ok_add(r)
    \/ throttled_load(r) \/ throttled_cas(r)

Next ==
    \/ \E i \in Importers : acquire(i) \/ release(i)
    \/ \E r \in Reporters : report_ok(r) \/ report_throttled(r) \/ ReportStep(r)
    \/ forget

Spec == Init /\ [][Next]_vars

\* The exchange of r succeeds.
Exchanged(r) == t[r] = target /\ (ok_cas(r) \/ throttled_cas(r))

(* A report that has begun runs on, and each document ends.  The queue of the  *)
(* semaphore is first in, first out: a waiter, import future or removal task,  *)
(* for which permits come free again and again is served in the end, which is  *)
(* strong fairness; so is the polling of a future between reports of Main.     *)
(* Between two rounds of a compare-and-exchange loop the others would have to  *)
(* finish whole calls to BC to make it fail, so it does not fail for ever.     *)
Fairness ==
    /\ \A r \in Reporters : WF_vars(ReportStep(r)) /\ SF_vars(Exchanged(r))
    /\ \A i \in Importers : SF_vars(acquire(i) \/ release(i))
    /\ SF_vars(forget)

FairSpec == Spec /\ Fairness

-------------------------------------------------------------------------------
(* Properties                                                                  *)

\* Reporters between a successful increase of target and add_permits(1).
Adding == {r \in Reporters : pc[r] = "ok_add"}
\* Reporters that counted the success that ends a window and not yet reset it.
Resetting == {r \in Reporters : pc[r] = "ok_reset"}

(* Every variable keeps its type; the target stays within [min, max].          *)
TypeOK ==
    /\ target \in min .. max
    /\ since_change \in Nat
    /\ permits \in Nat
    /\ holding \subseteq Importers
    /\ owed \in Nat
    /\ pc \in [Reporters -> PCs]
    /\ t \in [Reporters -> min .. max]

(* No permit is lost or invented, whatever the interleaving of increases,      *)
(* decreases and removals (throttle.rs:60, :81): the permits that exist,       *)
(* available or held, and the ones about to be added are the target plus what  *)
(* the removal tasks still have to collect.                                    *)
PermitsBalance ==
    permits + Cardinality(holding) + Cardinality(Adding) = target + owed

(* Racing successes overshoot the window counter by at most the reporters that *)
(* have yet to reset it: the counter never runs away (throttle.rs:54-58).      *)
CounterBounded == since_change < INCREASE_EVERY + Cardinality(Resetting)

(* A step moves the target by one up or by one halving, never anything else: a *)
(* stale reading of target is never written back (throttle.rs:60, :81).        *)
TargetMoves == [][target' \in {target, target + 1, Halved(target)}]_vars

(* Once the target settles, the documents in progress come down to it and stay *)
(* there: the back-off takes effect although import futures queue for the very *)
(* permits the removal tasks want (throttle.rs:96-106).                        *)
TargetRespected ==
    \A k \in 1 .. max :
        <>[](target = k) => <>[](Cardinality(holding) <= k)

(* A document waiting for a permit is served in the end: the removal tasks     *)
(* never starve the import (throttle.rs:44-50, :96-106).                       *)
WaiterServed == \A i \in Importers : i \notin holding ~> i \in holding
===============================================================================
