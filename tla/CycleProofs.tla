------------------------------ MODULE CycleProofs ------------------------------
(* Safety of Cycle, for every set of runs and instances, every timeout and
   every lease lifetime. *)
EXTENDS Cycle, TLAPS

(* Where a run goes on after its execution. *)
LEMMA PhaseType ==
    ASSUME NEW stop, NEW result
    PROVE  AfterExecute(stop, result) \in {"finishing", "notifying", "recording"}
BY DEF AfterExecute

(* Closing a session leaves pc and the session store well typed. *)
LEMMA CloseSessionType ==
    ASSUME TypeOK, NEW r \in Run, NEW stop, NEW result, CloseSession(r, stop, result)
    PROVE  /\ pc' \in [Run -> Phase]
           /\ sessions' \in [Instance -> Run \cup {NoRun}]
<1> DEFINE after == AfterExecute(stop, result)
<1>1. after \in Phase
  BY PhaseType DEF Phase, Active, Finalizing, Finishing
<1> HIDE DEF after
<1>2. pc' = [pc EXCEPT ![r] = IF sessions[host[r]] = using[r] THEN "closing" ELSE after]
  BY DEF CloseSession, after
<1>3. pc' \in [Run -> Phase]
  BY <1>1, <1>2 DEF TypeOK, Phase, Active, Interruptible
<1> QED BY <1>3 DEF CloseSession, TypeOK

(* So does an interruption. *)
LEMMA InterruptType ==
    ASSUME TypeOK, NEW r \in Run, NEW stop, Interrupt(r, stop)
    PROVE  /\ pc' \in [Run -> Phase]
           /\ sessions' \in [Instance -> Run \cup {NoRun}]
<1>1. CASE CloseSession(r, stop, "failure")
  BY <1>1, CloseSessionType
<1>2. CASE UNCHANGED sessions /\ \E p \in {"closing", "undoing"} : pc' = [pc EXCEPT ![r] = p]
  BY <1>2 DEF TypeOK, Phase, Active, Interruptible
<1> QED BY <1>1, <1>2 DEF Interrupt

-------------------------------------------------------------------------------
(* Every variable keeps its type. *)
THEOREM TypeCorrect == Spec => []TypeOK
<1>1. Init => TypeOK
  BY ConstAssumption DEF Init, TypeOK, NoLease, Phase, Status, MaxTime
<1>2. TypeOK /\ [Next]_vars => TypeOK'
  <2> SUFFICES ASSUME TypeOK, [Next]_vars PROVE TypeOK'
    OBVIOUS
  <2> USE ConstAssumption
  <2> USE DEF TypeOK, Go, fixed, leaseVars, sessionVars, flagVars, resultVars,
              Phase, Active, Interruptible, Finalizing, Finishing, Status
  <2>0. MaxTime \in Nat
    BY DEF MaxTime
  <2>a. now + LeaseTTL \in Nat
    BY <2>0
  <2>b. ASSUME NEW r \in Run, Store(r) = lease' PROVE lease' \in [run : Run \cup {NoRun}, until : Nat]
    BY <2>a, <2>b DEF Store
  <2>c. NoLease \in [run : Run \cup {NoRun}, until : Nat]
    BY DEF NoLease
  <2>1. ASSUME NEW r \in Run, Acquire(r) PROVE TypeOK'
    <3>1. lease' \in [run : Run \cup {NoRun}, until : Nat]
      BY <2>1, <2>b DEF Acquire
    <3>2. until' \in [Run -> Nat]
      BY <2>1, <2>a DEF Acquire
    <3> QED BY <2>1, <3>1, <3>2 DEF Acquire
  <2>2. ASSUME NEW r \in Run, Conflict(r) PROVE TypeOK'
    BY <2>2 DEF Conflict
  <2>3. ASSUME NEW r \in Run, AcquireFails(r) PROVE TypeOK'
    <3>1. lease' \in [run : Run \cup {NoRun}, until : Nat]
      BY <2>3, <2>b DEF AcquireFails
    <3> QED BY <2>3, <3>1 DEF AcquireFails
  <2>4. ASSUME NEW r \in Run, NEW known \in BOOLEAN, Answered(r, known) PROVE TypeOK'
    BY <2>4, <2>0 DEF Answered
  <2>5. ASSUME NEW r \in Run, OpenFails(r) PROVE TypeOK'
    BY <2>5 DEF OpenFails
  <2>6. ASSUME NEW r \in Run, Publish(r) PROVE TypeOK'
    BY <2>6 DEF Publish
  <2>7. ASSUME NEW r \in Run, Displaced(r) PROVE TypeOK'
    BY <2>7 DEF Displaced
  <2>8. ASSUME NEW r \in Run, DisplaceFails(r) PROVE TypeOK'
    BY <2>8 DEF DisplaceFails
  <2>9. ASSUME NEW r \in Run, Undone(r) PROVE TypeOK'
    <3>1. AfterExecute(stopped[r], "failure") \in Phase
      BY PhaseType
    <3>2. pc' \in [Run -> Phase]
      BY <2>9, <3>1 DEF Undone
    <3> QED BY <2>9, <3>2 DEF Undone
  <2>10. ASSUME NEW r \in Run, UndoFails(r) PROVE TypeOK'
    BY <2>10 DEF UndoFails
  <2>11. ASSUME NEW r \in Run, Answer(r) PROVE TypeOK'
    BY <2>11 DEF Answer
  <2>12. ASSUME NEW r \in Run, AgentFails(r) PROVE TypeOK'
    <3>1. pc' \in [Run -> Phase] /\ sessions' \in [Instance -> Run \cup {NoRun}]
      BY <2>12, CloseSessionType DEF AgentFails
    <3> QED BY <2>12, <3>1 DEF AgentFails
  <2>13. ASSUME NEW r \in Run, Touched(r) PROVE TypeOK'
    <3>1. pc' \in [Run -> Phase] /\ sessions' \in [Instance -> Run \cup {NoRun}]
      BY <2>13, CloseSessionType DEF Touched
    <3> QED BY <2>13, <3>1 DEF Touched
  <2>14. ASSUME NEW r \in Run, Closed(r) PROVE TypeOK'
    <3>1. AfterExecute(stopped[r], status[r]) \in Phase
      BY PhaseType
    <3>2. pc' \in [Run -> Phase]
      BY <2>14, <3>1 DEF Closed
    <3> QED BY <2>14, <3>2 DEF Closed
  <2>15. ASSUME NEW r \in Run, CleanupFails(r) PROVE TypeOK'
    BY <2>15 DEF CleanupFails
  <2>16. ASSUME NEW r \in Run, Notify(r) PROVE TypeOK'
    BY <2>16 DEF Notify
  <2>17. ASSUME NEW r \in Run, Record(r) PROVE TypeOK'
    BY <2>17 DEF Record
  <2>18. ASSUME NEW r \in Run, FinishRead(r) PROVE TypeOK'
    BY <2>18 DEF FinishRead
  <2>19. ASSUME NEW r \in Run, Release(r) PROVE TypeOK'
    BY <2>19, <2>c DEF Release
  <2>20. ASSUME NEW r \in Run, Deadline(r) PROVE TypeOK'
    <3>1. pc' \in [Run -> Phase] /\ sessions' \in [Instance -> Run \cup {NoRun}]
      BY <2>20, InterruptType DEF Deadline
    <3> QED BY <2>20, <3>1 DEF Deadline
  <2>21. ASSUME NEW r \in Run, CancelExecution(r) PROVE TypeOK'
    <3>1. pc' \in [Run -> Phase] /\ sessions' \in [Instance -> Run \cup {NoRun}]
      BY <2>21, InterruptType DEF CancelExecution
    <3> QED BY <2>21, <3>1 DEF CancelExecution
  <2>22. ASSUME NEW r \in Run, CancelStarting(r) PROVE TypeOK'
    BY <2>22 DEF CancelStarting
  <2>23. ASSUME NEW r \in Run, CancelFinalizing(r) PROVE TypeOK'
    BY <2>23 DEF CancelFinalizing
  <2>24. ASSUME NEW r \in Run, NEW stop \in BOOLEAN, FinishBroken(r, stop) PROVE TypeOK'
    <3>1. lease' \in [run : Run \cup {NoRun}, until : Nat]
      BY <2>24, <2>c DEF FinishBroken
    <3> QED BY <2>24, <3>1 DEF FinishBroken
  <2>25. ASSUME NEW i \in Instance, Crash(i) PROVE TypeOK'
    BY <2>25 DEF Crash
  <2>26. CASE Clock
    BY <2>26, <2>0 DEF Clock
  <2>27. CASE UNCHANGED vars
    BY <2>27 DEF vars
  <2> QED BY <2>1, <2>2, <2>3, <2>4, <2>5, <2>6, <2>7, <2>8, <2>9, <2>10, <2>11,
     <2>12, <2>13, <2>14, <2>15, <2>16, <2>17, <2>18, <2>19, <2>20, <2>21, <2>22,
     <2>23, <2>24, <2>25, <2>26, <2>27 DEF Next, Begin, Advance, Cancel
<1> QED BY <1>1, <1>2, PTL DEF Spec

-------------------------------------------------------------------------------
(* A step that no run becomes active with, and that leaves the lease and the
   clock alone. *)
Quiet ==
    /\ UNCHANGED <<now, lease, until>>
    /\ \A q \in Run : pc'[q] \in Active => pc[q] \in Active

(* Closing a session and interrupting make no run active. *)
LEMMA InterruptQuiet ==
    ASSUME TypeOK, NEW r \in Run, pc[r] \in Active, NEW stop, NEW result,
           CloseSession(r, stop, result) \/ Interrupt(r, stop)
    PROVE  \A q \in Run : pc'[q] \in Active => pc[q] \in Active
<1>1. \A q \in Run \ {r} : pc'[q] = pc[q]
  BY DEF CloseSession, Interrupt, TypeOK
<1> QED BY <1>1

(* Most of what a run does of itself is quiet. *)
LEMMA AdvanceQuiet ==
    ASSUME TypeOK, NEW r \in Run, Advance(r)
    PROVE  Quiet \/ Release(r)
<1> USE DEF TypeOK, Quiet, Go, fixed, leaseVars, Active, Interruptible, Finalizing, Finishing
<1>1. ASSUME NEW known \in BOOLEAN, Answered(r, known) PROVE Quiet
  BY <1>1 DEF Answered
<1>2. ASSUME OpenFails(r) PROVE Quiet
  BY <1>2 DEF OpenFails
<1>3. ASSUME Publish(r) PROVE Quiet
  BY <1>3 DEF Publish
<1>4. ASSUME Displaced(r) PROVE Quiet
  BY <1>4 DEF Displaced
<1>5. ASSUME DisplaceFails(r) PROVE Quiet
  BY <1>5 DEF DisplaceFails
<1>6. ASSUME Undone(r) PROVE Quiet
  BY <1>6 DEF Undone
<1>7. ASSUME UndoFails(r) PROVE Quiet
  BY <1>7 DEF UndoFails
<1>8. ASSUME Answer(r) PROVE Quiet
  BY <1>8 DEF Answer
<1>9. ASSUME AgentFails(r) PROVE Quiet
  BY <1>9, InterruptQuiet DEF AgentFails
<1>10. ASSUME Touched(r) PROVE Quiet
  BY <1>10, InterruptQuiet DEF Touched
<1>11. ASSUME Closed(r) PROVE Quiet
  BY <1>11 DEF Closed
<1>12. ASSUME CleanupFails(r) PROVE Quiet
  BY <1>12 DEF CleanupFails
<1>13. ASSUME Notify(r) PROVE Quiet
  BY <1>13 DEF Notify
<1>14. ASSUME Record(r) PROVE Quiet
  BY <1>14 DEF Record
<1>15. ASSUME FinishRead(r) PROVE Quiet
  BY <1>15 DEF FinishRead
<1> QED BY <1>1, <1>2, <1>3, <1>4, <1>5, <1>6, <1>7, <1>8, <1>9,
     <1>10, <1>11, <1>12, <1>13, <1>14, <1>15 DEF Advance

(* An active run whose lease document has not run out finds it in the store:
   only a free lease is written to, and only its own run deletes it. *)
THEOREM LeaseKept == Spec => []LeaseHeld
<1>1. Init => LeaseHeld
  BY DEF Init, LeaseHeld, Active, Interruptible, Finalizing, Finishing
<1>2. TypeOK /\ LeaseHeld /\ [Next]_vars => LeaseHeld'
  <2> SUFFICES ASSUME TypeOK, LeaseHeld, [Next]_vars PROVE LeaseHeld'
    OBVIOUS
  <2> USE ConstAssumption
  <2>0. ASSUME Quiet PROVE LeaseHeld'
    BY <2>0 DEF Quiet, LeaseHeld
  <2>1. ASSUME NEW r \in Run, Acquire(r) PROVE LeaseHeld'
    <3>1. \A q \in Run \ {r} : pc[q] \in Active => now >= until[q]
      BY <2>1 DEF Acquire, LeaseHeld, LeaseLive, TypeOK, MaxTime
    <3>2. /\ until'[r] = now + LeaseTTL
          /\ lease' = [run |-> r, until |-> now + LeaseTTL]
      BY <2>1 DEF Acquire, Store, TypeOK
    <3>3. \A q \in Run \ {r} : now' = now /\ until'[q] = until[q] /\ pc'[q] = pc[q]
      BY <2>1 DEF Acquire, Go, TypeOK, fixed
    <3>4. now \in Nat /\ \A q \in Run : until[q] \in Nat
      BY DEF TypeOK, MaxTime
    <3> QED BY <3>1, <3>2, <3>3, <3>4 DEF LeaseHeld
  <2>2. ASSUME NEW r \in Run, Conflict(r) PROVE LeaseHeld'
    BY <2>2, <2>0 DEF Conflict, Go, Quiet, TypeOK, fixed, leaseVars, Active, Interruptible,
       Finalizing, Finishing
  <2>3. ASSUME NEW r \in Run, AcquireFails(r) PROVE LeaseHeld'
    <3>1. \A q \in Run : pc'[q] \in Active => pc[q] \in Active
      BY <2>3 DEF AcquireFails, Go, TypeOK, Active, Interruptible, Finalizing, Finishing
    <3>2. CASE UNCHANGED lease
      BY <2>3, <2>0, <3>1, <3>2 DEF AcquireFails, Quiet, fixed
    <3>3. CASE ~ LeaseLive
      <4>1. \A q \in Run : pc[q] \in Active => now >= until[q]
        BY <3>3 DEF LeaseHeld, LeaseLive, TypeOK, MaxTime
      <4> QED BY <2>3, <3>1, <4>1 DEF AcquireFails, LeaseHeld, fixed, TypeOK, MaxTime
    <3> QED BY <2>3, <3>2, <3>3 DEF AcquireFails
  <2>4. ASSUME NEW r \in Run, Release(r) PROVE LeaseHeld'
    BY <2>4 DEF Release, Go, Owns, LeaseLive, LeaseHeld, TypeOK, fixed, Active, Interruptible,
       Finalizing, Finishing
  <2>5. ASSUME NEW r \in Run, Advance(r) PROVE LeaseHeld'
    BY <2>5, <2>0, <2>4, AdvanceQuiet
  <2>6. ASSUME NEW r \in Run, Deadline(r) PROVE LeaseHeld'
    <3>1. \A q \in Run : pc'[q] \in Active => pc[q] \in Active
      BY <2>6, InterruptQuiet DEF Deadline, Active
    <3> QED BY <2>6, <3>1, <2>0 DEF Deadline, Quiet, fixed, leaseVars
  <2>7. ASSUME NEW r \in Run, Cancel(r) PROVE LeaseHeld'
    <3>1. CASE CancelExecution(r)
      <4>1. \A q \in Run : pc'[q] \in Active => pc[q] \in Active
        BY <3>1, InterruptQuiet DEF CancelExecution, Active
      <4> QED BY <3>1, <4>1, <2>0 DEF CancelExecution, Quiet, fixed, leaseVars
    <3>2. CASE CancelStarting(r) \/ CancelFinalizing(r)
      BY <3>2, <2>0 DEF CancelStarting, CancelFinalizing, Go, Quiet, TypeOK, fixed, leaseVars,
         Active, Interruptible, Finalizing, Finishing
    <3> QED BY <2>7, <3>1, <3>2 DEF Cancel
  <2>8. ASSUME NEW r \in Run, NEW stop \in BOOLEAN, FinishBroken(r, stop) PROVE LeaseHeld'
    BY <2>8 DEF FinishBroken, Owns, LeaseLive, LeaseHeld, TypeOK, fixed, Active, Interruptible,
       Finalizing, Finishing
  <2>9. ASSUME NEW i \in Instance, Crash(i) PROVE LeaseHeld'
    BY <2>9, <2>0 DEF Crash, Quiet, TypeOK, leaseVars, Active, Interruptible, Finalizing,
       Finishing
  <2>10. CASE Clock
    BY <2>10 DEF Clock, LeaseHeld, TypeOK, MaxTime, leaseVars
  <2>11. CASE UNCHANGED vars
    BY <2>11 DEF vars, LeaseHeld
  <2> QED BY <2>1, <2>2, <2>3, <2>5, <2>6, <2>7, <2>8, <2>9, <2>10, <2>11 DEF Next, Begin
<1> QED BY <1>1, <1>2, TypeCorrect, PTL DEF Spec

(* Two runs work at the same time only when one of them has outlived its lease:
   the store holds one document. *)
THEOREM LeaseSafety == Spec => []ExclusiveWhileLeased
<1>1. TypeOK /\ LeaseHeld => ExclusiveWhileLeased
  BY DEF TypeOK, MaxTime, LeaseHeld, ExclusiveWhileLeased
<1> QED BY <1>1, TypeCorrect, LeaseKept, PTL

-------------------------------------------------------------------------------
(* What is told and recorded of run r, and what that rests on: the deadline
   leaves no success behind and no execution that could still turn into one,
   and nothing is told or recorded before the execution is over. *)
AuditOf(r) ==
    /\ pc[r] \notin {"recording", "over", "dead"} \cup Finishing => ~ told[r]
    /\ pc[r] \notin {"over", "dead"} \cup Finishing => audit[r] = "none"
    /\ expired[r] => /\ status[r] = "failure"
                     /\ pc[r] \notin {"idle", "starting", "refused", "opening",
                                      "displacing", "asking", "touching"}
    /\ pc[r] \in {"touching", "notifying"} => status[r] = "success"
    /\ told[r] => status[r] = "success"
    /\ audit[r] \in Status => audit[r] = status[r]
    /\ pc[r] \in Finishing \cup {"over"} /\ ~ stopped[r] => audit[r] # "none"

AuditInv == \A r \in Run : AuditOf(r)

(* Where an interrupted execution goes on. *)
LEMMA InterruptTarget ==
    ASSUME TypeOK, NEW r \in Run, NEW stop \in BOOLEAN, Interrupt(r, stop)
    PROVE  /\ \A q \in Run \ {r} : pc'[q] = pc[q]
           /\ pc'[r] \in {"closing", "undoing", "recording", "finishing"}
           /\ pc'[r] = "finishing" => stop
<1>1. CASE stop
  BY <1>1 DEF Interrupt, CloseSession, AfterExecute, TypeOK
<1>2. CASE ~ stop
  BY <1>2 DEF Interrupt, CloseSession, AfterExecute, TypeOK
<1> QED BY <1>1, <1>2

(* The record, what was told and the interruption of a run agree at every step. *)
LEMMA AuditInvariant == Spec => []AuditInv
<1>1. Init => AuditInv
  BY DEF Init, AuditInv, AuditOf, Finishing, Status
<1>2. TypeOK /\ AuditInv /\ [Next]_vars => AuditInv'
  <2> SUFFICES ASSUME TypeOK, AuditInv, [Next]_vars, NEW q \in Run PROVE AuditOf(q)'
    BY DEF AuditInv
  <2>0. AuditOf(q)
    BY DEF AuditInv
  <2> USE DEF AuditOf, TypeOK, Go, fixed, leaseVars, sessionVars, flagVars, resultVars,
              Interruptible, Finalizing, Finishing, Status
  <2>1. ASSUME NEW r \in Run, Acquire(r) PROVE AuditOf(q)'
    BY <2>1, <2>0 DEF Acquire
  <2>2. ASSUME NEW r \in Run, Conflict(r) PROVE AuditOf(q)'
    BY <2>2, <2>0 DEF Conflict
  <2>3. ASSUME NEW r \in Run, AcquireFails(r) PROVE AuditOf(q)'
    BY <2>3, <2>0 DEF AcquireFails
  <2>4. ASSUME NEW r \in Run, NEW known \in BOOLEAN, Answered(r, known) PROVE AuditOf(q)'
    BY <2>4, <2>0 DEF Answered
  <2>5. ASSUME NEW r \in Run, OpenFails(r) PROVE AuditOf(q)'
    BY <2>5, <2>0 DEF OpenFails
  <2>6. ASSUME NEW r \in Run, Publish(r) PROVE AuditOf(q)'
    BY <2>6, <2>0 DEF Publish
  <2>7. ASSUME NEW r \in Run, Displaced(r) PROVE AuditOf(q)'
    BY <2>7, <2>0 DEF Displaced
  <2>8. ASSUME NEW r \in Run, DisplaceFails(r) PROVE AuditOf(q)'
    BY <2>8, <2>0 DEF DisplaceFails
  <2>9. ASSUME NEW r \in Run, Undone(r) PROVE AuditOf(q)'
    BY <2>9, <2>0 DEF Undone, AfterExecute
  <2>10. ASSUME NEW r \in Run, UndoFails(r) PROVE AuditOf(q)'
    BY <2>10, <2>0 DEF UndoFails
  <2>11. ASSUME NEW r \in Run, Answer(r) PROVE AuditOf(q)'
    BY <2>11, <2>0 DEF Answer
  <2>12. ASSUME NEW r \in Run, AgentFails(r) PROVE AuditOf(q)'
    BY <2>12, <2>0 DEF AgentFails, CloseSession, AfterExecute
  <2>13. ASSUME NEW r \in Run, Touched(r) PROVE AuditOf(q)'
    BY <2>13, <2>0 DEF Touched, CloseSession, AfterExecute
  <2>14. ASSUME NEW r \in Run, Closed(r) PROVE AuditOf(q)'
    BY <2>14, <2>0 DEF Closed, AfterExecute
  <2>15. ASSUME NEW r \in Run, CleanupFails(r) PROVE AuditOf(q)'
    BY <2>15, <2>0 DEF CleanupFails
  <2>16. ASSUME NEW r \in Run, Notify(r) PROVE AuditOf(q)'
    BY <2>16, <2>0 DEF Notify
  <2>17. ASSUME NEW r \in Run, Record(r) PROVE AuditOf(q)'
    BY <2>17, <2>0 DEF Record
  <2>18. ASSUME NEW r \in Run, FinishRead(r) PROVE AuditOf(q)'
    BY <2>18, <2>0 DEF FinishRead
  <2>19. ASSUME NEW r \in Run, Release(r) PROVE AuditOf(q)'
    BY <2>19, <2>0 DEF Release
  <2>20. ASSUME NEW r \in Run, Deadline(r) PROVE AuditOf(q)'
    <3>1. CASE r # q
      BY <2>20, <2>0, <3>1, InterruptTarget DEF Deadline
    <3>2. CASE r = q
      <4>1. /\ pc'[q] \in {"closing", "undoing", "recording", "finishing"}
            /\ pc'[q] = "finishing" => stopped'[q]
        BY <2>20, <3>2, InterruptTarget DEF Deadline
      <4>2. ~ told'[q] /\ audit'[q] = "none" /\ status'[q] = "failure"
        BY <2>20, <2>0, <3>2 DEF Deadline
      <4> QED BY <4>1, <4>2
    <3> QED BY <3>1, <3>2
  <2>21. ASSUME NEW r \in Run, CancelExecution(r) PROVE AuditOf(q)'
    <3>1. CASE r # q
      BY <2>21, <2>0, <3>1, InterruptTarget DEF CancelExecution
    <3>2. CASE r = q
      <4>1. /\ pc'[q] \in {"closing", "undoing", "recording", "finishing"}
            /\ stopped'[q]
        BY <2>21, <3>2, InterruptTarget DEF CancelExecution
      <4>2. /\ ~ told'[q] /\ audit'[q] = "none"
            /\ status'[q] = status[q] /\ expired'[q] = expired[q]
        BY <2>21, <2>0, <3>2 DEF CancelExecution
      <4> QED BY <2>0, <4>1, <4>2
    <3> QED BY <3>1, <3>2
  <2>22. ASSUME NEW r \in Run, CancelStarting(r) PROVE AuditOf(q)'
    BY <2>22, <2>0 DEF CancelStarting
  <2>23. ASSUME NEW r \in Run, CancelFinalizing(r) PROVE AuditOf(q)'
    BY <2>23, <2>0 DEF CancelFinalizing
  <2>24. ASSUME NEW r \in Run, NEW stop \in BOOLEAN, FinishBroken(r, stop) PROVE AuditOf(q)'
    BY <2>24, <2>0 DEF FinishBroken
  <2>25. ASSUME NEW i \in Instance, Crash(i) PROVE AuditOf(q)'
    BY <2>25, <2>0 DEF Crash
  <2>26. CASE Clock
    BY <2>26, <2>0 DEF Clock
  <2>27. CASE UNCHANGED vars
    BY <2>27, <2>0 DEF vars
  <2> QED BY <2>1, <2>2, <2>3, <2>4, <2>5, <2>6, <2>7, <2>8, <2>9, <2>10, <2>11,
     <2>12, <2>13, <2>14, <2>15, <2>16, <2>17, <2>18, <2>19, <2>20, <2>21, <2>22,
     <2>23, <2>24, <2>25, <2>26, <2>27 DEF Next, Begin, Advance, Cancel
<1> QED BY <1>1, <1>2, TypeCorrect, PTL DEF Spec

(* No response is delivered or logged as a success after the deadline has
   interrupted its run, and none that was delivered is logged as a failure. *)
THEOREM AuditSafety == Spec => []AuditTruth
<1>1. TypeOK /\ AuditInv => AuditTruth
  BY DEF TypeOK, AuditInv, AuditOf, AuditTruth, Status
<1> QED BY <1>1, TypeCorrect, AuditInvariant, PTL

(* No run that had its lease ends without a record, or word of its loss, unless
   it was cancelled. *)
THEOREM RecordedAtEnd == Spec => []EndedIsRecorded
<1>1. AuditInv => EndedIsRecorded
  BY DEF AuditInv, AuditOf, EndedIsRecorded, Finishing
<1> QED BY <1>1, AuditInvariant, PTL

-------------------------------------------------------------------------------
(* The premise of OwnSession: every answer came within the lease's margin. *)
AnsweredInTime ==
    \A r \in Run : started[r] + Timeout < until[r] \/ pc[r] \in {"idle", "starting", "refused"}

(* The deadline of a run that it has not interrupted yet still lies ahead. *)
DeadlineAhead ==
    \A r \in Run : pc[r] \in Interruptible /\ ~ expired[r] => now <= started[r] + Timeout

(* The steps that neither begin nor time the execution of q. *)
Steady(q) ==
    /\ now' = now
    /\ started'[q] = started[q]
    /\ until'[q] = until[q] \/ pc[q] = "idle"
    /\ expired[q] => expired'[q]
    /\ pc'[q] \in Interruptible => pc[q] \in Interruptible
    /\ pc'[q] \in {"idle", "starting", "refused"} => pc[q] \in {"idle", "starting", "refused"}

(* The execution of a run is begun by the answer to its create_item only, and
   only the clock changes the time. *)
LEMMA StepSteady ==
    ASSUME TypeOK, [Next]_vars, NEW q \in Run
    PROVE  \/ Steady(q)
           \/ \E known \in BOOLEAN : Answered(q, known)
           \/ Clock
<1> USE DEF Steady, TypeOK, Go, fixed, leaseVars, sessionVars, flagVars, resultVars,
            Interruptible, Finishing
<1>1. ASSUME NEW r \in Run, Begin(r) PROVE Steady(q)
  BY <1>1 DEF Begin, Acquire, Conflict, AcquireFails
<1>2. ASSUME NEW r \in Run, NEW known \in BOOLEAN, Answered(r, known), r # q PROVE Steady(q)
  BY <1>2 DEF Answered
<1>3. ASSUME NEW r \in Run, OpenFails(r) \/ Publish(r) PROVE Steady(q)
  BY <1>3 DEF OpenFails, Publish
<1>4. ASSUME NEW r \in Run, Displaced(r) \/ DisplaceFails(r) PROVE Steady(q)
  BY <1>4 DEF Displaced, DisplaceFails
<1>5. ASSUME NEW r \in Run, Undone(r) \/ UndoFails(r) PROVE Steady(q)
  BY <1>5 DEF Undone, UndoFails, AfterExecute
<1>6. ASSUME NEW r \in Run, AgentFails(r) \/ Touched(r) PROVE Steady(q)
  BY <1>6 DEF AgentFails, Touched, CloseSession, AfterExecute
<1>7. ASSUME NEW r \in Run, Answer(r) PROVE Steady(q)
  BY <1>7 DEF Answer
<1>8. ASSUME NEW r \in Run, Closed(r) \/ CleanupFails(r) PROVE Steady(q)
  BY <1>8 DEF Closed, CleanupFails, AfterExecute
<1>9. ASSUME NEW r \in Run, Notify(r) \/ Record(r) PROVE Steady(q)
  BY <1>9 DEF Notify, Record
<1>10. ASSUME NEW r \in Run, FinishRead(r) \/ Release(r) PROVE Steady(q)
  BY <1>10 DEF FinishRead, Release
<1>11. ASSUME NEW r \in Run, Deadline(r) PROVE Steady(q)
  BY <1>11, InterruptTarget DEF Deadline
<1>12. ASSUME NEW r \in Run, CancelExecution(r) PROVE Steady(q)
  BY <1>12, InterruptTarget DEF CancelExecution
<1>13. ASSUME NEW r \in Run, CancelStarting(r) \/ CancelFinalizing(r) PROVE Steady(q)
  BY <1>13 DEF CancelStarting, CancelFinalizing
<1>14. ASSUME NEW r \in Run, NEW stop \in BOOLEAN, FinishBroken(r, stop) PROVE Steady(q)
  BY <1>14 DEF FinishBroken
<1>15. ASSUME NEW i \in Instance, Crash(i) PROVE Steady(q)
  BY <1>15 DEF Crash
<1>16. CASE UNCHANGED vars
  BY <1>16 DEF vars
<1> QED BY <1>1, <1>2, <1>3, <1>4, <1>5, <1>6, <1>7, <1>8, <1>9, <1>10, <1>11, <1>12,
     <1>13, <1>14, <1>15, <1>16 DEF Next, Advance, Cancel

(* An answer that came too late stays too late. *)
LEMMA LateStaysLate ==
    ASSUME TypeOK, [Next]_vars, AnsweredInTime'
    PROVE  AnsweredInTime
<1> SUFFICES ASSUME NEW q \in Run, pc[q] \notin {"idle", "starting", "refused"}
             PROVE  started[q] + Timeout < until[q]
  BY DEF AnsweredInTime
<1>1. ASSUME NEW known \in BOOLEAN, Answered(q, known) PROVE FALSE
  BY <1>1 DEF Answered, Go
<1>2. CASE Steady(q)
  BY <1>2 DEF Steady, AnsweredInTime
<1>3. CASE Clock
  BY <1>3 DEF Clock, AnsweredInTime, leaseVars
<1> QED BY <1>1, <1>2, <1>3, StepSteady

(* No clock tick passes over a deadline. *)
LEMMA DeadlineAheadStep ==
    ASSUME TypeOK, DeadlineAhead, [Next]_vars
    PROVE  DeadlineAhead'
<1> SUFFICES ASSUME NEW q \in Run, pc'[q] \in Interruptible, ~ expired'[q]
             PROVE  now' <= started'[q] + Timeout
  BY DEF DeadlineAhead
<1> USE ConstAssumption DEF TypeOK, MaxTime
<1>1. ASSUME NEW known \in BOOLEAN, Answered(q, known) PROVE now' <= started'[q] + Timeout
  BY <1>1 DEF Answered, fixed
<1>2. CASE Steady(q)
  BY <1>2 DEF Steady, DeadlineAhead
<1>3. CASE Clock
  BY <1>3 DEF Clock, flagVars
<1> QED BY <1>1, <1>2, <1>3, StepSteady

(* A run that opens a session or works with it, interrupted by nothing, is the
   only one: its lease is live and in the store. *)
LEMMA OneWorks ==
    ASSUME TypeOK, LeaseHeld, AuditInv, DeadlineAhead, AnsweredInTime,
           NEW p \in Run, NEW q \in Run,
           pc[p] \in {"opening", "displacing", "asking", "touching"},
           pc[q] \in {"opening", "displacing", "asking", "touching"}
    PROVE  p = q
<1> USE ConstAssumption DEF TypeOK, MaxTime
<1>1. \A r \in {p, q} : ~ expired[r] /\ pc[r] \in Interruptible
  BY DEF AuditInv, AuditOf, Interruptible
<1>2. \A r \in {p, q} : now < until[r]
  BY <1>1 DEF DeadlineAhead, AnsweredInTime
<1> QED BY <1>1, <1>2 DEF LeaseHeld, Active

(* The waits of a run that has registered its session. *)
Registered == {"displacing", "asking", "touching"}

(* What may become of the slot of a run that has registered its session: it was
   filled just now by the run, nothing happens to it, another run that opens or
   uses a session changes it, or another run takes its own session back. *)
LEMMA SlotStep ==
    ASSUME TypeOK, [Next]_vars, NEW q \in Run, pc'[q] \in Registered
    PROVE  \/ sessions'[host'[q]] = q
           \/ /\ pc[q] \in Registered
              /\ \/ sessions'[host'[q]] = sessions[host[q]]
                 \/ \E p \in Run \ {q} : pc[p] \in {"opening", "asking", "touching"}
                 \/ sessions[host[q]] \in Run \ {q}
<1> DEFINE Goal == \/ sessions'[host'[q]] = q
                   \/ /\ pc[q] \in Registered
                      /\ \/ sessions'[host'[q]] = sessions[host[q]]
                         \/ \E p \in Run \ {q} : pc[p] \in {"opening", "asking", "touching"}
                         \/ sessions[host[q]] \in Run \ {q}
<1> USE DEF TypeOK, Go, fixed, leaseVars, sessionVars, flagVars, resultVars, Registered
<1>1. ASSUME NEW r \in Run, Begin(r) PROVE Goal
  BY <1>1 DEF Begin, Acquire, Conflict, AcquireFails
<1>2. ASSUME NEW r \in Run, NEW known \in BOOLEAN, Answered(r, known) PROVE Goal
  BY <1>2 DEF Answered
<1>3. ASSUME NEW r \in Run, OpenFails(r) PROVE Goal
  BY <1>3 DEF OpenFails
<1>4. ASSUME NEW r \in Run, Publish(r) PROVE Goal
  BY <1>4 DEF Publish
<1>5. ASSUME NEW r \in Run, Displaced(r) \/ DisplaceFails(r) PROVE Goal
  BY <1>5 DEF Displaced, DisplaceFails
<1>6. ASSUME NEW r \in Run, Undone(r) PROVE Goal
  BY <1>6 DEF Undone, AfterExecute
<1>7. ASSUME NEW r \in Run, UndoFails(r) PROVE Goal
  BY <1>7 DEF UndoFails
<1>8. ASSUME NEW r \in Run, AgentFails(r) \/ Touched(r) PROVE Goal
  BY <1>8 DEF AgentFails, Touched, CloseSession, AfterExecute
<1>9. ASSUME NEW r \in Run, Answer(r) PROVE Goal
  BY <1>9 DEF Answer
<1>10. ASSUME NEW r \in Run, Closed(r) \/ CleanupFails(r) PROVE Goal
  BY <1>10 DEF Closed, CleanupFails, AfterExecute
<1>11. ASSUME NEW r \in Run, Notify(r) \/ Record(r) PROVE Goal
  BY <1>11 DEF Notify, Record
<1>12. ASSUME NEW r \in Run, FinishRead(r) \/ Release(r) PROVE Goal
  BY <1>12 DEF FinishRead, Release
<1>13. ASSUME NEW r \in Run, NEW stop \in BOOLEAN, Interrupt(r, stop), host' = host PROVE Goal
  <2>1. r # q /\ pc[q] \in Registered
    BY <1>13, InterruptTarget
  <2>2. CASE UNCHANGED sessions
    BY <2>1, <2>2, <1>13
  <2>3. CASE pc[r] \in {"asking", "touching"}
    BY <2>1, <2>3
  <2> QED BY <2>2, <2>3, <1>13 DEF Interrupt
<1>14. ASSUME NEW r \in Run, Deadline(r) \/ CancelExecution(r) PROVE Goal
  BY <1>13, <1>14 DEF Deadline, CancelExecution
<1>15. ASSUME NEW r \in Run, CancelStarting(r) \/ CancelFinalizing(r) PROVE Goal
  BY <1>15 DEF CancelStarting, CancelFinalizing
<1>16. ASSUME NEW r \in Run, NEW stop \in BOOLEAN, FinishBroken(r, stop) PROVE Goal
  BY <1>16 DEF FinishBroken
<1>17. ASSUME NEW i \in Instance, Crash(i) PROVE Goal
  BY <1>17 DEF Crash, Active, Interruptible
<1>18. CASE Clock
  BY <1>18 DEF Clock
<1>19. CASE UNCHANGED vars
  BY <1>19 DEF vars
<1> QED BY <1>1, <1>2, <1>3, <1>4, <1>5, <1>6, <1>7, <1>8, <1>9, <1>10, <1>11, <1>12,
     <1>14, <1>15, <1>16, <1>17, <1>18, <1>19 DEF Next, Advance, Cancel

(* With every answer in time, the slot of a run holds its session from the
   moment it was registered until the run lets go of it. *)
SlotKept == AnsweredInTime => \A r \in Run : pc[r] \in Registered => sessions[host[r]] = r

(* A run has its own session for as long as it works with it, when its lease
   was answered within the margin: no run before it in the same process, being
   interrupted, cancelled or cleaned up, closes or replaces that session. *)
THEOREM SessionOwned == Spec => []OwnSession
<1>1. Init => DeadlineAhead /\ SlotKept
  BY DEF Init, DeadlineAhead, SlotKept, Registered, Interruptible
<1>2. ASSUME TypeOK, LeaseHeld, AuditInv, DeadlineAhead, SlotKept, [Next]_vars
      PROVE  SlotKept'
  <2> SUFFICES ASSUME AnsweredInTime', NEW q \in Run, pc'[q] \in Registered
               PROVE  sessions'[host'[q]] = q
    BY DEF SlotKept, Registered
  <2>1. AnsweredInTime
    BY <1>2, LateStaysLate
  <2>2. CASE sessions'[host'[q]] = q
    BY <2>2
  <2>3. CASE pc[q] \in Registered
    <3>1. sessions[host[q]] = q
      BY <1>2, <2>1, <2>3 DEF SlotKept
    <3>2. ASSUME NEW p \in Run \ {q}, pc[p] \in {"opening", "asking", "touching"} PROVE FALSE
      BY <1>2, <2>1, <2>3, <3>2, OneWorks DEF Registered
    <3> QED BY <1>2, <3>1, <3>2, SlotStep
  <2> QED BY <1>2, <2>2, <2>3, SlotStep
<1>3. TypeOK /\ DeadlineAhead /\ [Next]_vars => DeadlineAhead'
  BY DeadlineAheadStep
<1>4. SlotKept => OwnSession
  BY DEF SlotKept, OwnSession, AnsweredInTime, Registered
<1> QED BY <1>1, <1>2, <1>3, <1>4, TypeCorrect, LeaseKept, AuditInvariant, PTL DEF Spec

(* No run closes the registered session another run works with, unless it had
   picked it up as its own. *)
THEOREM NobodyElseCloses == Spec => NotClosedByOthers
<1> DEFINE Kept ==
      \A r \in Run :
        /\ pc[r] \in {"asking", "touching"} /\ pc'[r] = pc[r]
        /\ sessions[host[r]] = r
        /\ \A q \in Run \ {r} : using[q] # r
        => sessions'[host[r]] # NoRun
<1>1. ASSUME TypeOK, [Next]_vars PROVE Kept
  <2> SUFFICES ASSUME NEW q \in Run, pc[q] \in {"asking", "touching"}, pc'[q] = pc[q],
                      sessions[host[q]] = q, \A p \in Run \ {q} : using[p] # q
               PROVE  sessions'[host[q]] # NoRun
    OBVIOUS
  <2> USE <1>1, ConstAssumption DEF TypeOK, Go
  <2>0. sessions[host[q]] # NoRun
    OBVIOUS
  <2>1. CASE UNCHANGED sessions
    BY <2>1
  <2>2. ASSUME NEW r \in Run, NEW stop, NEW result, CloseSession(r, stop, result), r # q
        PROVE  sessions'[host[q]] # NoRun
    BY <2>2 DEF CloseSession
  <2>3. ASSUME NEW r \in Run, AgentFails(r) \/ Touched(r) PROVE sessions'[host[q]] # NoRun
    <3>1. r # q
      BY <2>3 DEF AgentFails, Touched, CloseSession, AfterExecute
    <3> QED BY <2>2, <2>3, <3>1 DEF AgentFails, Touched
  <2>4. ASSUME NEW r \in Run, Publish(r) PROVE sessions'[host[q]] # NoRun
    BY <2>4 DEF Publish
  <2>5. ASSUME NEW r \in Run, Undone(r) PROVE sessions'[host[q]] # NoRun
    BY <2>5 DEF Undone
  <2>6. ASSUME NEW r \in Run, NEW stop \in BOOLEAN, Interrupt(r, stop)
        PROVE  sessions'[host[q]] # NoRun
    <3>1. r # q
      BY <2>6, InterruptTarget
    <3> QED BY <2>1, <2>2, <2>6, <3>1 DEF Interrupt
  <2>7. ASSUME NEW i \in Instance, Crash(i) PROVE sessions'[host[q]] # NoRun
    BY <2>7 DEF Crash, Active, Interruptible
  <2>8. ASSUME NEW r \in Run, Begin(r) \/ Cancel(r) \/ Deadline(r)
        PROVE  sessions'[host[q]] # NoRun
    <3>1. CASE Deadline(r)
      BY <3>1, <2>6 DEF Deadline
    <3>2. CASE CancelExecution(r)
      BY <3>2, <2>6 DEF CancelExecution
    <3>3. CASE Begin(r)
      BY <3>3, <2>1 DEF Begin, Acquire, Conflict, AcquireFails, sessionVars
    <3>4. CASE CancelStarting(r) \/ CancelFinalizing(r)
      BY <3>4, <2>1 DEF CancelStarting, CancelFinalizing, sessionVars
    <3> QED BY <2>8, <3>1, <3>2, <3>3, <3>4 DEF Cancel
  <2>9. ASSUME NEW r \in Run, Advance(r) PROVE sessions'[host[q]] # NoRun
    BY <2>9, <2>1, <2>3, <2>4, <2>5 DEF Advance, Answered, OpenFails, Displaced, DisplaceFails,
       UndoFails, Answer, Closed, CleanupFails, Notify, Record, FinishRead, Release, sessionVars
  <2>10. CASE Clock \/ UNCHANGED vars
    BY <2>10, <2>1 DEF Clock, vars, sessionVars
  <2>11. ASSUME NEW r \in Run, NEW stop \in BOOLEAN, FinishBroken(r, stop)
         PROVE  sessions'[host[q]] # NoRun
    BY <2>11, <2>1 DEF FinishBroken, sessionVars
  <2> QED BY <2>7, <2>8, <2>9, <2>10, <2>11 DEF Next
<1> QED BY <1>1, TypeCorrect, PTL DEF Spec, NotClosedByOthers

-------------------------------------------------------------------------------
(* The runs implement RunLedger. *)

(* What RunLedger needs beyond AuditInv: a run is a failure until its agent has
   answered, and one that still works undisturbed has not been cancelled. *)
ReadyOf(r) ==
    /\ pc[r] \in {"idle", "starting", "opening", "displacing", "undoing", "asking"}
          => status[r] = "failure"
    /\ pc[r] \in {"idle", "starting", "opening", "displacing", "asking", "touching"}
          => ~ stopped[r]

ReadyInv == \A r \in Run : ReadyOf(r)

(* A cancellation of the execution does not end in a record. *)
LEMMA CancelTarget ==
    ASSUME TypeOK, NEW r \in Run, Interrupt(r, TRUE)
    PROVE  pc'[r] # "recording"
BY DEF Interrupt, CloseSession, AfterExecute, TypeOK

(* A run is ready for its agent, or beyond it, at every step. *)
LEMMA ReadyInvariant == Spec => []ReadyInv
<1>1. Init => ReadyInv
  BY DEF Init, ReadyInv, ReadyOf
<1>2. TypeOK /\ ReadyInv /\ [Next]_vars => ReadyInv'
  <2> SUFFICES ASSUME TypeOK, ReadyInv, [Next]_vars, NEW q \in Run PROVE ReadyOf(q)'
    BY DEF ReadyInv
  <2>0. ReadyOf(q)
    BY DEF ReadyInv
  <2> USE DEF ReadyOf, TypeOK, Go, fixed, leaseVars, sessionVars, flagVars, resultVars
  <2>1. ASSUME NEW r \in Run, Begin(r) PROVE ReadyOf(q)'
    BY <2>1, <2>0 DEF Begin, Acquire, Conflict, AcquireFails
  <2>2. ASSUME NEW r \in Run, NEW known \in BOOLEAN, Answered(r, known) PROVE ReadyOf(q)'
    BY <2>2, <2>0 DEF Answered
  <2>3. ASSUME NEW r \in Run, OpenFails(r) \/ Publish(r) PROVE ReadyOf(q)'
    BY <2>3, <2>0 DEF OpenFails, Publish
  <2>4. ASSUME NEW r \in Run, Displaced(r) \/ DisplaceFails(r) PROVE ReadyOf(q)'
    BY <2>4, <2>0 DEF Displaced, DisplaceFails
  <2>5. ASSUME NEW r \in Run, Undone(r) \/ UndoFails(r) PROVE ReadyOf(q)'
    BY <2>5, <2>0 DEF Undone, UndoFails, AfterExecute
  <2>6. ASSUME NEW r \in Run, Answer(r) PROVE ReadyOf(q)'
    BY <2>6, <2>0 DEF Answer
  <2>7. ASSUME NEW r \in Run, AgentFails(r) \/ Touched(r) PROVE ReadyOf(q)'
    BY <2>7, <2>0 DEF AgentFails, Touched, CloseSession, AfterExecute
  <2>8. ASSUME NEW r \in Run, Closed(r) \/ CleanupFails(r) PROVE ReadyOf(q)'
    BY <2>8, <2>0 DEF Closed, CleanupFails, AfterExecute
  <2>9. ASSUME NEW r \in Run, Notify(r) \/ Record(r) PROVE ReadyOf(q)'
    BY <2>9, <2>0 DEF Notify, Record
  <2>10. ASSUME NEW r \in Run, FinishRead(r) \/ Release(r) PROVE ReadyOf(q)'
    BY <2>10, <2>0 DEF FinishRead, Release
  <2>11. ASSUME NEW r \in Run, Deadline(r) PROVE ReadyOf(q)'
    BY <2>11, <2>0, InterruptTarget DEF Deadline, Status
  <2>12. ASSUME NEW r \in Run, CancelExecution(r) PROVE ReadyOf(q)'
    <3>1. \A p \in Run \ {r} : pc'[p] = pc[p] /\ stopped'[p] = stopped[p]
      BY <2>12, InterruptTarget DEF CancelExecution
    <3>2. pc'[r] \in {"closing", "undoing", "recording", "finishing"}
      BY <2>12, InterruptTarget DEF CancelExecution
    <3>3. pc'[r] = "undoing" => pc[r] \in {"displacing", "undoing"}
      BY <2>12 DEF CancelExecution, Interrupt, CloseSession, AfterExecute
    <3> QED BY <2>12, <2>0, <3>1, <3>2, <3>3 DEF CancelExecution
  <2>13. ASSUME NEW r \in Run, CancelStarting(r) \/ CancelFinalizing(r) PROVE ReadyOf(q)'
    BY <2>13, <2>0 DEF CancelStarting, CancelFinalizing
  <2>14. ASSUME NEW r \in Run, NEW stop \in BOOLEAN, FinishBroken(r, stop) PROVE ReadyOf(q)'
    BY <2>14, <2>0 DEF FinishBroken, Finishing
  <2>15. ASSUME NEW i \in Instance, Crash(i) PROVE ReadyOf(q)'
    BY <2>15, <2>0 DEF Crash
  <2>16. CASE Clock \/ UNCHANGED vars
    BY <2>16, <2>0 DEF Clock, vars
  <2> QED BY <2>1, <2>2, <2>3, <2>4, <2>5, <2>6, <2>7, <2>8, <2>9, <2>10, <2>11,
     <2>12, <2>13, <2>14, <2>15, <2>16 DEF Next, Advance, Cancel
<1> QED BY <1>1, <1>2, TypeCorrect, PTL DEF Spec

(* What a stage is made of. *)
LEMMA StageValue ==
    ASSUME NEW r \in Run, pc[r] \in Phase
    PROVE  /\ pc[r] = "idle" => StageOf(r) = "idle"
           /\ pc[r] = "refused" => StageOf(r) = "refused"
           /\ pc[r] = "dead" => StageOf(r) = "dead"
           /\ pc[r] \in {"starting"} \cup Interruptible => StageOf(r) = "working"
           /\ pc[r] = "notifying" => StageOf(r) = "succeeded"
           /\ pc[r] = "recording" /\ status[r] = "success" => StageOf(r) = "accepted"
           /\ pc[r] = "recording" /\ status[r] # "success" => StageOf(r) = "failed"
           /\ pc[r] \in Finishing \cup {"over"} /\ audit[r] = "none" => StageOf(r) = "withdrawn"
           /\ pc[r] \in Finishing \cup {"over"} /\ audit[r] # "none" => StageOf(r) = "filed"
BY DEF StageOf, Interruptible, Finishing, Phase, Active, Finalizing

(* The same of the next state. *)
LEMMA NextStageValue ==
    ASSUME NEW r \in Run, pc'[r] \in Phase
    PROVE  /\ pc'[r] = "idle" => StageOf(r)' = "idle"
           /\ pc'[r] = "refused" => StageOf(r)' = "refused"
           /\ pc'[r] = "dead" => StageOf(r)' = "dead"
           /\ pc'[r] \in {"starting"} \cup Interruptible => StageOf(r)' = "working"
           /\ pc'[r] = "notifying" => StageOf(r)' = "succeeded"
           /\ pc'[r] = "recording" /\ status'[r] = "success" => StageOf(r)' = "accepted"
           /\ pc'[r] = "recording" /\ status'[r] # "success" => StageOf(r)' = "failed"
           /\ pc'[r] \in Finishing \cup {"over"} /\ audit'[r] = "none" => StageOf(r)' = "withdrawn"
           /\ pc'[r] \in Finishing \cup {"over"} /\ audit'[r] # "none" => StageOf(r)' = "filed"
BY DEF StageOf, Interruptible, Finishing, Phase, Active, Finalizing

(* The step leaves what the stages of all other runs are made of. *)
Only(r) ==
    \A q \in Run \ {r} : pc'[q] = pc[q] /\ status'[q] = status[q] /\ audit'[q] = audit[q]

(* A step of one run moves that run on the ledger, *)
LEMMA StageMoves ==
    ASSUME NEW r \in Run, Only(r), NEW from, NEW to, StageOf(r) = from, StageOf(r)' = to
    PROVE  Ledger!Move(r, from, to)
<1>1. \A q \in Run \ {r} : StageOf(q)' = StageOf(q)
  BY DEF Only, StageOf
<1> QED BY <1>1 DEF Ledger!Move

(* or leaves the ledger alone. *)
LEMMA StageStays ==
    ASSUME NEW r \in Run, Only(r), StageOf(r)' = StageOf(r), UNCHANGED <<flagVars, resultVars>>
    PROVE  UNCHANGED Ledger!ledgerVars
<1>1. \A q \in Run \ {r} : StageOf(q)' = StageOf(q)
  BY DEF Only, StageOf
<1> QED BY <1>1 DEF Ledger!ledgerVars, flagVars, resultVars

(* The execution of r goes on, fails, is given up or succeeds. *)
Works(r) ==
    /\ UNCHANGED <<flagVars, resultVars>> /\ Only(r)
    /\ pc[r] \in {"starting"} \cup Interruptible
    /\ \/ pc'[r] \in Interruptible
       \/ pc'[r] = "recording" /\ status'[r] # "success"
       \/ pc'[r] = "finishing" /\ stopped[r]
       \/ pc'[r] = "notifying" /\ ~ expired[r] /\ ~ stopped[r]

(* A step of the ledger, or none. *)
LedgerStep == Ledger!LedgerNext \/ UNCHANGED Ledger!ledgerVars

(* Whatever becomes of the execution, the ledger has a step for it. *)
LEMMA WorkRefines ==
    ASSUME TypeOK, TypeOK', AuditInv, NEW r \in Run, Works(r)
    PROVE  LedgerStep
<1>1. /\ pc[r] \in Phase /\ pc'[r] \in Phase /\ audit'[r] = "none"
      /\ UNCHANGED <<expired, stopped, told, audit>>
  BY DEF TypeOK, AuditInv, AuditOf, Works, flagVars, resultVars, Interruptible, Finishing
<1>2. StageOf(r) = "working"
  BY <1>1, StageValue DEF Works
<1>3. CASE pc'[r] \in Interruptible
  <2>1. StageOf(r)' = StageOf(r)
    BY <1>1, <1>2, <1>3, NextStageValue
  <2> QED BY <2>1, StageStays DEF Works, LedgerStep
<1>4. CASE pc'[r] = "recording" /\ status'[r] # "success"
  <2>1. Ledger!Move(r, "working", "failed")
    BY <1>1, <1>2, <1>4, NextStageValue, StageMoves DEF Works
  <2> QED BY <1>1, <2>1 DEF Ledger!Fail, Ledger!LedgerNext, LedgerStep
<1>5. CASE pc'[r] = "finishing" /\ stopped[r]
  <2>1. Ledger!Move(r, "working", "withdrawn")
    BY <1>1, <1>2, <1>5, NextStageValue, StageMoves DEF Works, Finishing
  <2> QED BY <1>1, <1>5, <2>1 DEF Ledger!Withdraw, Ledger!LedgerNext, LedgerStep
<1>6. CASE pc'[r] = "notifying" /\ ~ expired[r] /\ ~ stopped[r]
  <2>1. Ledger!Move(r, "working", "succeeded")
    BY <1>1, <1>2, <1>6, NextStageValue, StageMoves DEF Works
  <2> QED BY <1>1, <1>6, <2>1 DEF Ledger!Succeed, Ledger!LedgerNext, LedgerStep
<1> QED BY <1>3, <1>4, <1>5, <1>6 DEF Works

(* What a run does of itself is a step of the ledger, or none. *)
LEMMA AdvanceRefines ==
    ASSUME TypeOK, TypeOK', AuditInv, ReadyInv, NEW r \in Run, Advance(r)
    PROVE  LedgerStep
<1>a. /\ pc[r] \in Phase /\ pc'[r] \in Phase /\ status[r] \in Status /\ status'[r] \in Status
      /\ AuditOf(r) /\ ReadyOf(r)
  BY DEF TypeOK, AuditInv, ReadyInv
<1> USE <1>a DEF TypeOK, AuditOf, ReadyOf, Go, Only, fixed, leaseVars, sessionVars, flagVars,
                 resultVars, Interruptible, Finishing, Status
<1>1. ASSUME NEW known \in BOOLEAN, Answered(r, known) PROVE Works(r)
  BY <1>1 DEF Answered, Works
<1>2. ASSUME OpenFails(r) \/ Publish(r) PROVE Works(r)
  BY <1>2 DEF OpenFails, Publish, Works
<1>3. ASSUME Displaced(r) \/ DisplaceFails(r) PROVE Works(r)
  BY <1>3 DEF Displaced, DisplaceFails, Works
<1>4. ASSUME Undone(r) \/ UndoFails(r) PROVE Works(r)
  BY <1>4 DEF Undone, UndoFails, AfterExecute, Works
<1>5. ASSUME Answer(r) PROVE Works(r)
  BY <1>5 DEF Answer, Works
<1>6. ASSUME AgentFails(r) \/ Touched(r) PROVE Works(r)
  BY <1>6 DEF AgentFails, Touched, CloseSession, AfterExecute, Works
<1>7. ASSUME Closed(r) \/ CleanupFails(r) PROVE Works(r)
  BY <1>7 DEF Closed, CleanupFails, AfterExecute, Works
<1>8. ASSUME Notify(r) PROVE LedgerStep
  <2>1. StageOf(r) = "succeeded" /\ StageOf(r)' = "accepted" /\ Only(r)
    BY <1>8, StageValue, NextStageValue DEF Notify
  <2>2. Ledger!Move(r, "succeeded", "accepted")
    BY <2>1, StageMoves
  <2>3. Ledger!Deliver(r)
    BY <1>8, <2>2 DEF Notify, Ledger!Deliver
  <2> QED BY <2>3 DEF Ledger!LedgerNext, LedgerStep
<1>9. ASSUME Record(r) PROVE LedgerStep
  <2>1. /\ Only(r) /\ StageOf(r)' = "filed"
        /\ StageOf(r) = IF status[r] = "success" THEN "accepted" ELSE "failed"
    BY <1>9, StageValue, NextStageValue DEF Record
  <2>2. Ledger!Outcome(r) = status[r]
    BY <2>1 DEF Ledger!Outcome
  <2>3. Ledger!Move(r, "accepted", "filed") \/ Ledger!Move(r, "failed", "filed")
    BY <2>1, StageMoves
  <2>4. Ledger!File(r)
    BY <1>9, <2>2, <2>3 DEF Record, Ledger!File
  <2> QED BY <2>4 DEF Ledger!LedgerNext, LedgerStep
<1>10. ASSUME FinishRead(r) \/ Release(r) PROVE LedgerStep
  <2>1. Only(r) /\ UNCHANGED <<flagVars, resultVars>>
    BY <1>10 DEF FinishRead, Release
  <2>2. pc[r] \in Finishing /\ pc'[r] \in Finishing \cup {"over"} /\ audit'[r] = audit[r]
    BY <1>10 DEF FinishRead, Release
  <2>3. StageOf(r)' = StageOf(r)
    BY <2>2, StageValue, NextStageValue
  <2> QED BY <2>1, <2>3, StageStays DEF LedgerStep
<1> QED BY <1>1, <1>2, <1>3, <1>4, <1>5, <1>6, <1>7, <1>8, <1>9, <1>10, WorkRefines
        DEF Advance

(* A run that starts, or is interrupted by its deadline or a cancellation, makes
   a step of the ledger. *)
LEMMA InterruptionRefines ==
    ASSUME TypeOK, TypeOK', AuditInv, ReadyInv, NEW r \in Run,
           Begin(r) \/ Deadline(r) \/ Cancel(r)
    PROVE  Ledger!LedgerNext
<1>a. /\ pc[r] \in Phase /\ pc'[r] \in Phase /\ status[r] \in Status /\ status'[r] \in Status
      /\ AuditOf(r) /\ ReadyOf(r)
  BY DEF TypeOK, AuditInv, ReadyInv
<1> USE <1>a DEF TypeOK, AuditOf, ReadyOf, Go, Only, fixed, leaseVars, sessionVars, flagVars,
                 resultVars, Interruptible, Finishing, Status
<1>1. ASSUME Begin(r) PROVE Ledger!Begin(r)
  <2>1. Only(r) /\ StageOf(r) = "idle" /\ StageOf(r)' \in {"working", "refused"}
    BY <1>1, StageValue, NextStageValue DEF Begin, Acquire, Conflict, AcquireFails
  <2>2. UNCHANGED <<expired, stopped, told, audit>>
    BY <1>1 DEF Begin, Acquire, Conflict, AcquireFails
  <2> QED BY <2>1, <2>2, StageMoves DEF Ledger!Begin
<1>2. ASSUME Deadline(r) PROVE Ledger!Overrun(r)
  <2>1. /\ pc'[r] \in {"closing", "undoing", "recording", "finishing"}
        /\ pc'[r] = "finishing" => stopped[r]
        /\ \A q \in Run \ {r} : pc'[q] = pc[q]
    BY <1>2, InterruptTarget DEF Deadline
  <2>2. Only(r) /\ status'[r] = "failure" /\ audit'[r] = "none"
    BY <1>2, <2>1 DEF Deadline
  <2>3. StageOf(r) = "working"
    BY <1>2, StageValue DEF Deadline
  <2>4. \/ StageOf(r)' = "working"
        \/ StageOf(r)' = "failed"
        \/ StageOf(r)' = "withdrawn" /\ stopped[r]
    BY <2>1, <2>2, NextStageValue
  <2> QED BY <1>2, <2>2, <2>3, <2>4, StageMoves DEF Deadline, Ledger!Overrun
<1>3. ASSUME CancelStarting(r) \/ CancelExecution(r) PROVE Ledger!CancelWork(r)
  <2>1. Only(r) /\ pc'[r] \in {"closing", "undoing", "finishing", "over"} /\ audit'[r] = "none"
    <3>1. CASE CancelStarting(r)
      BY <3>1 DEF CancelStarting
    <3>2. CASE CancelExecution(r)
      BY <3>2, InterruptTarget, CancelTarget DEF CancelExecution
    <3> QED BY <1>3, <3>1, <3>2
  <2>2. StageOf(r) = "working" /\ StageOf(r)' \in {"working", "withdrawn"}
    BY <1>3, <2>1, StageValue, NextStageValue DEF CancelStarting, CancelExecution
  <2>3. /\ ~ stopped[r] /\ stopped' = [stopped EXCEPT ![r] = TRUE]
        /\ UNCHANGED <<expired, told, audit>>
    BY <1>3 DEF CancelStarting, CancelExecution
  <2> QED BY <2>1, <2>2, <2>3, StageMoves DEF Ledger!CancelWork
<1>4. ASSUME CancelFinalizing(r) PROVE Ledger!CancelFiling(r)
  <2>1. /\ ~ stopped[r] /\ stopped' = [stopped EXCEPT ![r] = TRUE] /\ UNCHANGED expired
        /\ Only(r) /\ pc'[r] = "finishing" /\ audit[r] = "none"
    BY <1>4 DEF CancelFinalizing
  <2>2. CASE pc[r] = "notifying"
    <3>1. /\ told' \in {told, [told EXCEPT ![r] = TRUE]} /\ UNCHANGED audit
      BY <1>4, <2>2 DEF CancelFinalizing
    <3>2. StageOf(r) = "succeeded" /\ StageOf(r)' = "withdrawn"
      BY <2>1, <2>2, <3>1, StageValue, NextStageValue
    <3> QED BY <2>1, <3>1, <3>2, StageMoves DEF Ledger!CancelFiling
  <2>3. CASE pc[r] = "recording"
    <3>1. /\ UNCHANGED told
          /\ UNCHANGED audit \/ audit' = [audit EXCEPT ![r] = status[r]]
      BY <1>4, <2>3 DEF CancelFinalizing
    <3>2. StageOf(r) = IF status[r] = "success" THEN "accepted" ELSE "failed"
      BY <2>3, StageValue
    <3>3. Ledger!Outcome(r) = status[r]
      BY <3>2 DEF Ledger!Outcome
    <3>4. CASE UNCHANGED audit
      <4>1. StageOf(r)' = "withdrawn"
        BY <2>1, <3>4, NextStageValue
      <4> QED BY <2>1, <3>1, <3>2, <3>4, <4>1, StageMoves DEF Ledger!CancelFiling
    <3>5. CASE audit' = [audit EXCEPT ![r] = status[r]]
      <4>1. StageOf(r)' = "filed"
        BY <2>1, <3>5, NextStageValue
      <4> QED BY <2>1, <3>1, <3>2, <3>3, <3>5, <4>1, StageMoves DEF Ledger!CancelFiling
    <3> QED BY <3>1, <3>4, <3>5
  <2> QED BY <1>4, <2>2, <2>3 DEF CancelFinalizing
<1> QED BY <1>1, <1>2, <1>3, <1>4 DEF Cancel, Ledger!LedgerNext

(* So is a store error or a cancellation after all that, *)
LEMMA LeavingRefines ==
    ASSUME TypeOK, TypeOK', NEW r \in Run, NEW stop \in BOOLEAN, FinishBroken(r, stop)
    PROVE  LedgerStep
<1>1. /\ pc[r] \in Finishing /\ pc'[r] = "over" /\ Only(r) /\ UNCHANGED <<expired, told, audit>>
      /\ pc[r] \in Phase /\ pc'[r] \in Phase
  BY DEF FinishBroken, TypeOK, Only, resultVars, Finishing
<1>2. StageOf(r) \in {"filed", "withdrawn"} /\ StageOf(r)' = StageOf(r)
  BY <1>1, StageValue, NextStageValue
<1>3. CASE stop
  <2>1. stopped' = [stopped EXCEPT ![r] = TRUE]
    BY <1>3 DEF FinishBroken, TypeOK
  <2>2. \A q \in Run \ {r} : StageOf(q)' = StageOf(q)
    BY <1>1 DEF Only, StageOf
  <2>3. Ledger!Leave(r)
    BY <1>1, <1>2, <2>1, <2>2 DEF Ledger!Leave
  <2> QED BY <2>3 DEF Ledger!LedgerNext, LedgerStep
<1>4. CASE ~ stop
  <2>1. stopped' = stopped
    BY <1>4 DEF FinishBroken, TypeOK
  <2> QED BY <1>1, <1>2, <2>1, StageStays DEF flagVars, resultVars, LedgerStep
<1> QED BY <1>3, <1>4

(* the death of a process, *)
LEMMA CrashRefines ==
    ASSUME TypeOK, TypeOK', NEW i \in Instance, Crash(i)
    PROVE  LedgerStep
<1> DEFINE victims == {r \in Run : host[r] = i /\ pc[r] \in Active}
<1>1. ASSUME NEW r \in Run, r \in victims
      PROVE  StageOf(r) \notin {"idle", "refused", "dead"} /\ StageOf(r)' = "dead"
  <2>1. pc'[r] = "dead" /\ pc[r] \in Active /\ pc[r] \in Phase /\ pc'[r] \in Phase
    BY <1>1 DEF Crash, TypeOK
  <2>2. StageOf(r)' = "dead"
    BY <2>1, NextStageValue
  <2>3. StageOf(r) \notin {"idle", "refused", "dead"}
    BY <2>1, StageValue DEF Active, Finalizing, Finishing
  <2> QED BY <2>2, <2>3
<1>2. ASSUME NEW r \in Run, r \notin victims PROVE StageOf(r)' = StageOf(r)
  BY <1>2 DEF Crash, TypeOK, StageOf, resultVars
<1>3. UNCHANGED <<expired, stopped, told, audit>>
  BY DEF Crash, flagVars, resultVars
<1>4. victims \in SUBSET Run
  OBVIOUS
<1> HIDE DEF victims
<1>5. Ledger!Die(victims)
  BY <1>1, <1>2, <1>3, <1>4 DEF Ledger!Die
<1> QED BY <1>4, <1>5 DEF Ledger!LedgerNext, LedgerStep

(* and every other step. *)
LEMMA StepRefines ==
    ASSUME TypeOK, TypeOK', AuditInv, ReadyInv, [Next]_vars
    PROVE  LedgerStep
<1>1. ASSUME NEW r \in Run, Begin(r) \/ Deadline(r) \/ Cancel(r) PROVE LedgerStep
  BY <1>1, InterruptionRefines DEF LedgerStep
<1>2. CASE Clock \/ UNCHANGED vars
  <2>1. UNCHANGED <<pc, status, expired, stopped, told, audit>>
    BY <1>2 DEF Clock, vars, flagVars, resultVars
  <2>2. \A r \in Run : StageOf(r)' = StageOf(r)
    BY <2>1 DEF StageOf
  <2> QED BY <2>1, <2>2 DEF LedgerStep, Ledger!ledgerVars
<1> QED BY <1>1, <1>2, AdvanceRefines, LeavingRefines, CrashRefines DEF Next

(* The runs keep the ledger's promise, whatever interrupts them and in whatever
   order: one outcome each, a success only where neither the deadline nor a
   cancellation came first, the log written once and with that outcome. *)
THEOREM RefinesLedger == Spec => ImplementsLedger
<1>1. Init => Ledger!LedgerInit
  <2> SUFFICES ASSUME Init PROVE Ledger!LedgerInit
    OBVIOUS
  <2>1. \A r \in Run : pc[r] = "idle" /\ pc[r] \in Phase
    BY DEF Init, Phase
  <2>2. \A r \in Run : StageOf(r) = "idle"
    BY <2>1, StageValue
  <2> QED BY <2>2 DEF Init, Ledger!LedgerInit
<1>2. TypeOK /\ TypeOK' /\ AuditInv /\ ReadyInv /\ [Next]_vars
      => [Ledger!LedgerNext]_(Ledger!ledgerVars)
  BY StepRefines DEF LedgerStep
<1> QED BY <1>1, <1>2, TypeCorrect, AuditInvariant, ReadyInvariant, PTL
        DEF Spec, ImplementsLedger, Ledger!LedgerSpec

===============================================================================
