---------------------------- MODULE SchedulerProofs ----------------------------
(* Safety of Scheduler, for every set of instances, directives and schedules
   and every lease lifetime. *)
EXTENDS Scheduler, TLAPS

(* A poll's time is not later than the clock. *)
TickPast == \A i \in Instance : tick[i] <= now

(* The lease document of a claim lives for LeaseTTL from the claim on, or has
   been replaced by one that lives longer. *)
LeaseCoversClaims ==
    \A c \in claims :
        /\ c.at <= now
        /\ c.at + LeaseTTL <= lease[c.directive][c.slot]

(* While what instance i seeded for d stands, d has no other schedule and the
   slots i handles for d only move forward from the seeded one. *)
Stands(i, d, b) ==
    IF b.plan = Off
    THEN b.slot = NoSlot
    ELSE /\ plan[d] \in {Off, b.plan}
         /\ todo[i][d] \in {Off, b.plan}
         /\ b.slot <= lastSlot[i][d]
         /\ lastSlot[i][d] <= Cron[b.plan][tick[i]]
         /\ phase[i] = "claiming" /\ cur[i] = d => b.slot < lastSlot[i][d]

SeedingStands ==
    \A i \in Instance, d \in Directive :
        /\ Stands(i, d, seeded[i][d])
        /\ phase[i] \in {"down", "seeding"} => todo[i][d] = Off

LeaseInv == LeaseCoversClaims /\ ClaimsApart

SeedInv == TickPast /\ SeedingStands /\ NoRestartRefire

-------------------------------------------------------------------------------
(* croniter gives a slot or none. *)
LEMMA SlotType == ASSUME NEW p \in Plan, NEW t \in Time
                  PROVE  CurrentSlot(p, t) \in Slot
BY CronAssumption DEF CurrentSlot, Plan, Slot

(* Storing a lease keeps the lease table well typed. *)
LEMMA StoreLeaseType ==
    ASSUME TypeOK, NEW d \in Directive, NEW s \in Time, StoreLease(d, s)
    PROVE  lease' \in [Directive -> [Time -> Nat]]
BY ConstAssumption DEF StoreLease, TypeOK, Time

(* Every variable keeps its type, and an instance that asks for a lease asks
   for a slot. *)
THEOREM TypeCorrect == Spec => []TypeOK
<1>1. Init => TypeOK
  BY ConstAssumption DEF Init, TypeOK, Phase, Time, Slot, Plan, NothingTodo,
     NoSlots, NothingSeeded, Unseeded, Seeding
<1>2. TypeOK /\ [Next]_vars => TypeOK'
  <2> SUFFICES ASSUME TypeOK, [Next]_vars PROVE TypeOK'
    OBVIOUS
  <2> USE ConstAssumption DEF TypeOK, Phase
  <2>1. ASSUME NEW i \in Instance, Start(i) PROVE TypeOK'
    BY <2>1 DEF Start
  <2>2. ASSUME NEW i \in Instance, SeedLoaded(i) PROVE TypeOK'
    <3>1. \A d \in Directive : CurrentSlot(plan[d], tick[i]) \in Slot
      BY SlotType
    <3>2. lastSlot' \in [Instance -> [Directive -> Slot]]
      BY <2>2, <3>1 DEF SeedLoaded
    <3>3. seeded' \in [Instance -> [Directive -> Seeding]]
      BY <2>2, <3>1 DEF SeedLoaded, Seeding
    <3> QED BY <2>2, <3>2, <3>3 DEF SeedLoaded
  <2>3. ASSUME NEW i \in Instance, SeedFails(i) PROVE TypeOK'
    BY <2>3 DEF SeedFails
  <2>4. ASSUME NEW i \in Instance, Poll(i) PROVE TypeOK'
    BY <2>4 DEF Poll
  <2>5. ASSUME NEW i \in Instance, PollSkipped(i) PROVE TypeOK'
    BY <2>5 DEF PollSkipped
  <2>6. ASSUME NEW i \in Instance, PollLoaded(i) PROVE TypeOK'
    BY <2>6 DEF PollLoaded
  <2>7. ASSUME NEW i \in Instance, NEW d \in Directive, Pass(i, d) PROVE TypeOK'
    BY <2>7 DEF Pass, Plan
  <2>8. ASSUME NEW i \in Instance, NEW d \in Directive, AskLease(i, d) PROVE TypeOK'
    <3>1. /\ CurrentSlot(todo[i][d], tick[i]) \in Slot
          /\ CurrentSlot(todo[i][d], tick[i]) # NoSlot
      BY <2>8, SlotType DEF AskLease
    <3> QED BY <2>8, <3>1 DEF AskLease, Slot, Plan
  <2>9. ASSUME NEW i \in Instance, LeaseWon(i) PROVE TypeOK'
    <3>1. cur[i] \in Directive /\ lastSlot[i][cur[i]] \in Time
      BY <2>9 DEF LeaseWon
    <3>2. lease' \in [Directive -> [Time -> Nat]]
      BY <2>9, <3>1, StoreLeaseType DEF LeaseWon
    <3>3. claims' \subseteq Claim
      BY <2>9, <3>1 DEF LeaseWon, Claim, Seeding
    <3> QED BY <2>9, <3>1, <3>2, <3>3 DEF LeaseWon
  <2>10. ASSUME NEW i \in Instance, LeaseHeld(i) PROVE TypeOK'
    BY <2>10 DEF LeaseHeld
  <2>11. ASSUME NEW i \in Instance, LeaseError(i) PROVE TypeOK'
    <3>1. lease' \in [Directive -> [Time -> Nat]]
      <4>1. cur[i] \in Directive /\ lastSlot[i][cur[i]] \in Time
        BY <2>11 DEF LeaseError
      <4> QED BY <2>11, <4>1, StoreLeaseType DEF LeaseError
    <3> QED BY <2>11, <3>1 DEF LeaseError
  <2>12. ASSUME NEW i \in Instance, CycleEnds(i) PROVE TypeOK'
    BY <2>12 DEF CycleEnds
  <2>13. ASSUME NEW i \in Instance, PollDone(i) PROVE TypeOK'
    BY <2>13 DEF PollDone
  <2>14. ASSUME NEW i \in Instance, Down(i) PROVE TypeOK'
    <3>1. lease' \in [Directive -> [Time -> Nat]]
      <4>1. CASE UNCHANGED lease
        BY <4>1
      <4>2. CASE phase[i] = "claiming" /\ StoreLease(cur[i], lastSlot[i][cur[i]])
        BY <4>2, StoreLeaseType
      <4> QED BY <2>14, <4>1, <4>2 DEF Down
    <3>2. downs' \in 0 .. MaxDowns
      BY <2>14 DEF Down
    <3> QED BY <2>14, <3>1, <3>2 DEF Down, Time, Slot, Plan, NothingTodo, NoSlots,
               NothingSeeded, Unseeded, Seeding
  <2>15. ASSUME NEW d \in Directive, NEW p \in Plan, Edit(d, p) PROVE TypeOK'
    <3>1. seeded' \in [Instance -> [Directive -> Seeding]]
      BY <2>15 DEF Edit, Unseeded, Seeding, Slot, Plan
    <3>2. edits' \in 0 .. MaxEdits
      BY <2>15 DEF Edit
    <3> QED BY <2>15, <3>1, <3>2 DEF Edit
  <2>16. CASE Clock
    BY <2>16 DEF Clock, Time
  <2>17. CASE UNCHANGED vars
    BY <2>17 DEF vars
  <2> QED
    BY <2>1, <2>2, <2>3, <2>4, <2>5, <2>6, <2>7, <2>8, <2>9, <2>10, <2>11, <2>12,
       <2>13, <2>14, <2>15, <2>16, <2>17 DEF Next, Step
<1> QED BY <1>1, <1>2, PTL DEF Spec

-------------------------------------------------------------------------------
(* Storing a document never shortens the cover of an earlier claim. *)
LEMMA StoreLeaseCovers ==
    ASSUME TypeOK, LeaseCoversClaims,
           NEW d \in Directive, NEW s \in Time, StoreLease(d, s),
           NEW c \in claims
    PROVE  c.at + LeaseTTL <= lease'[c.directive][c.slot]
<1>1. c \in Claim
  BY DEF TypeOK
<1>2. c.at \in Time /\ c.directive \in Directive /\ c.slot \in Time
  BY <1>1 DEF Claim
<1>3. CASE c.directive = d /\ c.slot = s
  <2>1. lease'[d][s] = now + LeaseTTL
    BY DEF StoreLease, TypeOK
  <2> QED BY <1>2, <1>3, <2>1, ConstAssumption DEF LeaseCoversClaims, TypeOK, Time
<1>4. CASE ~(c.directive = d /\ c.slot = s)
  <2>1. lease'[c.directive][c.slot] = lease[c.directive][c.slot]
    BY <1>2, <1>4 DEF StoreLease, TypeOK
  <2> QED BY <2>1 DEF LeaseCoversClaims
<1> QED BY <1>3, <1>4

(* However many instances compete, crash, restart or lose their answers, two
   runs of one slot of one directive are a whole lease lifetime apart. *)
THEOREM LeaseSafety == Spec => []ClaimsApart
<1>1. Init => LeaseInv
  BY DEF Init, LeaseInv, LeaseCoversClaims, ClaimsApart
<1>2. TypeOK /\ LeaseInv /\ [Next]_vars => LeaseInv'
  <2> SUFFICES ASSUME TypeOK, LeaseInv, [Next]_vars PROVE LeaseInv'
    OBVIOUS
  <2> USE DEF LeaseInv
  <2>1. ASSUME UNCHANGED <<now, lease, claims>> PROVE LeaseInv'
    BY <2>1 DEF LeaseCoversClaims, ClaimsApart
  <2>2. ASSUME NEW d \in Directive, NEW s \in Time, StoreLease(d, s),
               UNCHANGED <<now, claims>>
        PROVE  LeaseInv'
    <3>1. ClaimsApart'
      BY <2>2 DEF ClaimsApart
    <3>2. LeaseCoversClaims'
      BY <2>2, StoreLeaseCovers DEF LeaseCoversClaims
    <3> QED BY <3>1, <3>2
  <2>3. ASSUME NEW i \in Instance, LeaseWon(i) PROVE LeaseInv'
    <3> DEFINE d == cur[i]
               s == lastSlot[i][d]
               n == [directive |-> d, slot |-> s, at |-> now, by |-> i,
                     base |-> seeded[i][d].slot]
    <3>1. d \in Directive /\ s \in Time
      BY <2>3 DEF LeaseWon, TypeOK
    <3>2. StoreLease(d, s) /\ now' = now /\ claims' = claims \cup {n}
      BY <2>3 DEF LeaseWon
    <3>3. lease[d][s] \in Nat /\ now \in Nat /\ lease[d][s] <= now
      <4>1. lease[d][s] \in Nat
        BY <3>1 DEF TypeOK
      <4>2. now \in Nat
        BY DEF TypeOK, Time
      <4>3. ~LeaseLive(d, s)
        BY <2>3 DEF LeaseWon
      <4> HIDE DEF d, s
      <4> QED BY <4>1, <4>2, <4>3 DEF LeaseLive
    <3>4. lease'[d][s] = now + LeaseTTL
      BY <3>1, <3>2 DEF StoreLease, TypeOK
    <3>5. now \in Nat /\ LeaseTTL \in Nat
      BY ConstAssumption DEF TypeOK, Time
    <3>6. LeaseCoversClaims'
      <4>1. ASSUME NEW c \in claims
            PROVE  c.at <= now' /\ c.at + LeaseTTL <= lease'[c.directive][c.slot]
        BY <4>1, <3>1, <3>2, StoreLeaseCovers DEF LeaseCoversClaims
      <4>2. n.at <= now' /\ n.at + LeaseTTL <= lease'[n.directive][n.slot]
        BY <3>2, <3>4, <3>5
      <4> QED BY <4>1, <4>2, <3>2 DEF LeaseCoversClaims
    <3>7. ASSUME NEW c \in claims, c.directive = d, c.slot = s
          PROVE  c.at + LeaseTTL <= n.at
      <4>1. c.at \in Nat
        BY DEF TypeOK, Claim, Time
      <4>2. c.at + LeaseTTL <= lease[d][s]
        BY <3>7 DEF LeaseCoversClaims
      <4> QED BY <4>1, <4>2, <3>3, <3>5
    <3>8. ClaimsApart'
      <4> SUFFICES ASSUME NEW c \in claims', NEW e \in claims',
                          c.directive = e.directive, c.slot = e.slot, c # e
                   PROVE  c.at + LeaseTTL <= e.at \/ e.at + LeaseTTL <= c.at
        BY DEF ClaimsApart
      <4> HIDE DEF n
      <4>1. CASE c \in claims /\ e \in claims
        BY <4>1 DEF ClaimsApart
      <4>2. n.directive = d /\ n.slot = s
        BY DEF n
      <4>3. CASE c = n
        BY <4>2, <4>3, <3>2, <3>7
      <4>4. CASE e = n
        BY <4>2, <4>4, <3>2, <3>7
      <4> QED BY <4>1, <4>3, <4>4, <3>2
    <3> QED BY <3>6, <3>8
  <2>4. ASSUME NEW i \in Instance, LeaseError(i) PROVE LeaseInv'
    <3>1. cur[i] \in Directive /\ lastSlot[i][cur[i]] \in Time
      BY <2>4 DEF LeaseError, TypeOK
    <3>2. UNCHANGED <<now, claims>>
      BY <2>4 DEF LeaseError
    <3> QED BY <2>4, <2>1, <2>2, <3>1, <3>2 DEF LeaseError
  <2>5. ASSUME NEW i \in Instance, Down(i) PROVE LeaseInv'
    <3>1. UNCHANGED <<now, claims>>
      BY <2>5 DEF Down
    <3>2. CASE UNCHANGED lease
      BY <2>1, <3>1, <3>2
    <3>3. CASE phase[i] = "claiming" /\ StoreLease(cur[i], lastSlot[i][cur[i]])
      BY <2>2, <3>1, <3>3 DEF TypeOK
    <3> QED BY <2>5, <3>2, <3>3 DEF Down
  <2>6. CASE Clock
    <3>1. now' = now + 1 /\ UNCHANGED <<lease, claims>>
      BY <2>6 DEF Clock
    <3>2. LeaseCoversClaims'
      <4> SUFFICES ASSUME NEW c \in claims
                   PROVE  c.at <= now' /\ c.at + LeaseTTL <= lease[c.directive][c.slot]
        BY <3>1 DEF LeaseCoversClaims
      <4>1. c.at \in Nat /\ now \in Nat
        BY DEF TypeOK, Claim, Time
      <4> QED BY <3>1, <4>1 DEF LeaseCoversClaims
    <3> QED BY <3>1, <3>2 DEF ClaimsApart
  <2>7. CASE UNCHANGED vars
    BY <2>7, <2>1 DEF vars
  <2>8. ASSUME NEW i \in Instance, Step(i) PROVE LeaseInv'
    <3>1. CASE LeaseWon(i) \/ LeaseError(i)
      BY <3>1, <2>3, <2>4
    <3>2. CASE ~(LeaseWon(i) \/ LeaseError(i))
      BY <2>8, <3>2, <2>1 DEF Step, Start, SeedLoaded, SeedFails, Poll, PollSkipped,
         PollLoaded, Pass, AskLease, LeaseHeld, CycleEnds, PollDone
    <3> QED BY <3>1, <3>2
  <2>9. ASSUME NEW d \in Directive, NEW p \in Plan, Edit(d, p) PROVE LeaseInv'
    BY <2>9, <2>1 DEF Edit
  <2> QED BY <2>5, <2>6, <2>7, <2>8, <2>9 DEF Next
<1> QED BY <1>1, <1>2, TypeCorrect, PTL DEF Spec, LeaseInv

(* A lease that outlives every poll of a slot makes the slot run at most once:
   what the lease lifetime has to be for the promise in the module's header. *)
THEOREM LongLeaseRunsOnce == Spec => [](LeaseTTL > MaxTime => SlotRunsOnce)
<1>1. TypeOK /\ ClaimsApart => (LeaseTTL > MaxTime => SlotRunsOnce)
  <2> SUFFICES ASSUME TypeOK, ClaimsApart, LeaseTTL > MaxTime,
                      NEW c \in claims, NEW e \in claims,
                      c.directive = e.directive, c.slot = e.slot, c # e
               PROVE  FALSE
    BY DEF SlotRunsOnce
  <2>1. c.at + LeaseTTL <= e.at \/ e.at + LeaseTTL <= c.at
    BY DEF ClaimsApart
  <2>2. c.at \in 0 .. MaxTime /\ e.at \in 0 .. MaxTime
    BY DEF TypeOK, Claim, Time
  <2> QED BY <2>1, <2>2, ConstAssumption
<1> QED BY <1>1, TypeCorrect, LeaseSafety, PTL

-------------------------------------------------------------------------------
(* What the arithmetic of the proofs needs of the types. *)
LEMMA IntTypes ==
    ASSUME TypeOK
    PROVE  /\ now \in Int
           /\ \A i \in Instance : tick[i] \in Int /\ tick[i] \in Time
           /\ \A i \in Instance, d \in Directive :
                 lastSlot[i][d] \in Int /\ seeded[i][d].slot \in Int
<1>1. now \in Int /\ \A i \in Instance : tick[i] \in Int /\ tick[i] \in Time
  BY DEF TypeOK, Time
<1>2. ASSUME NEW i \in Instance, NEW d \in Directive
      PROVE  lastSlot[i][d] \in Slot /\ seeded[i][d].slot \in Slot
  BY DEF TypeOK, Seeding
<1>3. \A x \in Slot : x \in Int
  BY DEF Slot, NoSlot, Time
<1> QED BY <1>1, <1>2, <1>3

(* The slots of a schedule move forward with the time of the poll. *)
LEMMA SlotForward ==
    ASSUME NEW s \in Schedule, NEW t \in Time, NEW u \in Time, t <= u,
           NEW x \in Int, x <= Cron[s][t]
    PROVE  x <= Cron[s][u]
<1>1. Cron[s][t] \in Slot /\ Cron[s][u] \in Slot
  BY CronAssumption
<1>2. Cron[s][t] \in Int /\ Cron[s][u] \in Int
  BY <1>1 DEF Slot, NoSlot, Time
<1>3. Cron[s][t] <= Cron[s][u]
  BY CronAssumption
<1> QED BY <1>2, <1>3

(* A process whose seeding noted a slot of a directive only ever runs later
   slots of it, while the directive keeps its schedule. *)
THEOREM RestartSafety == Spec => []NoRestartRefire
<1>1. Init => SeedInv
  BY DEF Init, SeedInv, TickPast, SeedingStands, Stands, NoRestartRefire,
     NothingSeeded, NothingTodo, Unseeded
<1>2. TypeOK /\ TypeOK' /\ SeedInv /\ [Next]_vars => SeedInv'
  <2> SUFFICES ASSUME TypeOK, TypeOK', SeedInv, [Next]_vars PROVE SeedInv'
    OBVIOUS
  <2> USE IntTypes DEF SeedInv
  (* Steps that touch neither time, seedings, slots nor claims. *)
  <2>1. ASSUME UNCHANGED <<now, plan, tick, lastSlot, claims, seeded>>,
               \A i \in Instance, d \in Directive : todo'[i][d] \in {Off, todo[i][d]},
               \A i \in Instance : phase'[i] = "claiming" =>
                  phase[i] = "claiming" /\ cur'[i] = cur[i],
               \A i \in Instance : phase'[i] \in {"down", "seeding"} =>
                  phase[i] \in {"down", "seeding"}
        PROVE  SeedInv'
    BY <2>1 DEF TickPast, NoRestartRefire, SeedingStands, Stands
  (* Taking the time. *)
  <2>2. ASSUME NEW i \in Instance, tick' = [tick EXCEPT ![i] = now],
               \/ /\ phase[i] = "down"
                  /\ phase' = [phase EXCEPT ![i] = "seeding"]
               \/ phase' = [phase EXCEPT ![i] = "loading"],
               UNCHANGED <<now, plan, todo, cur, lastSlot, claims, seeded>>
        PROVE  SeedInv'
    <3>1. TickPast' /\ NoRestartRefire'
      BY <2>2 DEF TickPast, NoRestartRefire, TypeOK
    <3>2. ASSUME NEW j \in Instance, NEW d \in Directive
          PROVE  Stands(j, d, seeded[j][d])'
      <4>1. Stands(j, d, seeded[j][d]) /\ tick[j] <= tick'[j] /\ tick'[j] \in Time
        BY <2>2 DEF SeedingStands, TickPast, TypeOK
      <4>2. CASE seeded[j][d].plan = Off
        BY <2>2, <4>1, <4>2 DEF Stands
      <4>3. CASE seeded[j][d].plan # Off
        <5>1. seeded[j][d].plan \in Schedule
          BY <4>3 DEF TypeOK, Seeding, Plan
        <5>2. lastSlot[j][d] <= Cron[seeded[j][d].plan][tick'[j]]
          BY <4>1, <4>3, <5>1, SlotForward DEF Stands
        <5>3. phase'[j] = "claiming" => phase[j] = "claiming"
          BY <2>2 DEF TypeOK
        <5> QED BY <2>2, <4>1, <4>3, <5>2, <5>3 DEF Stands
      <4> QED BY <4>2, <4>3
    <3>3. ASSUME NEW j \in Instance, NEW d \in Directive
          PROVE  phase'[j] \in {"down", "seeding"} => todo'[j][d] = Off
      BY <2>2 DEF SeedingStands, TypeOK
    <3> QED BY <3>1, <3>2, <3>3 DEF SeedingStands
  <2>3. ASSUME NEW i \in Instance, SeedLoaded(i) PROVE SeedInv'
    <3>1. TickPast' /\ NoRestartRefire'
      BY <2>3 DEF SeedLoaded, TickPast, NoRestartRefire
    <3>2. ASSUME NEW j \in Instance, NEW d \in Directive
          PROVE  Stands(j, d, seeded[j][d])'
      <4>1. CASE j # i
        BY <2>3, <4>1 DEF SeedLoaded, SeedingStands, Stands, TypeOK
      <4>2. CASE j = i
        <5> DEFINE slot == CurrentSlot(plan[d], tick[i])
        <5>1. /\ seeded'[i][d].plan = plan[d]
              /\ seeded'[i][d].slot = slot
              /\ lastSlot'[i][d] = slot
              /\ todo'[i][d] = Off
              /\ phase'[i] # "claiming"
              /\ UNCHANGED <<plan, tick>>
          BY <2>3 DEF SeedLoaded, SeedingStands, TypeOK
        <5>2. slot = IF plan[d] = Off THEN NoSlot ELSE Cron[plan[d]][tick[i]]
          BY DEF CurrentSlot
        <5>3. slot \in Int
          <6>1. slot \in Slot
            BY SlotType DEF TypeOK
          <6> HIDE DEF slot
          <6> QED BY <6>1 DEF Slot, NoSlot, Time
        <5> QED BY <4>2, <5>1, <5>2, <5>3 DEF Stands
      <4> QED BY <4>1, <4>2
    <3>3. ASSUME NEW j \in Instance, NEW d \in Directive
          PROVE  phase'[j] \in {"down", "seeding"} => todo'[j][d] = Off
      BY <2>3 DEF SeedLoaded, SeedingStands, TypeOK
    <3> QED BY <3>1, <3>2, <3>3 DEF SeedingStands
  <2>4. ASSUME NEW i \in Instance, PollLoaded(i) PROVE SeedInv'
    <3>1. TickPast' /\ NoRestartRefire'
      BY <2>4 DEF PollLoaded, TickPast, NoRestartRefire
    <3>2. SeedingStands'
      BY <2>4 DEF PollLoaded, SeedingStands, Stands, TypeOK
    <3> QED BY <3>1, <3>2
  <2>5. ASSUME NEW i \in Instance, NEW d \in Directive, AskLease(i, d) PROVE SeedInv'
    <3> DEFINE b == seeded[i][d]
               slot == CurrentSlot(todo[i][d], tick[i])
    <3>1. TickPast' /\ NoRestartRefire'
      BY <2>5 DEF AskLease, TickPast, NoRestartRefire
    <3>2. ASSUME NEW j \in Instance, NEW e \in Directive
          PROVE  Stands(j, e, seeded[j][e])'
      <4>1. CASE j # i
        BY <2>5, <4>1 DEF AskLease, SeedingStands, Stands, TypeOK
      <4>2. CASE j = i /\ e # d
        BY <2>5, <4>2 DEF AskLease, SeedingStands, Stands, TypeOK
      <4>3. CASE j = i /\ e = d
        <5>1. /\ lastSlot'[i][d] = slot
              /\ todo'[i][d] = Off
              /\ slot # lastSlot[i][d]
              /\ slot = Cron[todo[i][d]][tick[i]]
              /\ UNCHANGED <<plan, tick, seeded>>
          BY <2>5 DEF AskLease, CurrentSlot, TypeOK
        <5>2. Stands(i, d, b)
          BY DEF SeedingStands
        <5>3. slot \in Int
          <6>1. slot \in Slot
            BY SlotType DEF TypeOK
          <6> HIDE DEF slot
          <6> QED BY <6>1 DEF Slot, NoSlot, Time
        <5>4. CASE b.plan = Off
          BY <4>3, <5>1, <5>2, <5>4 DEF Stands
        <5>5. CASE b.plan # Off
          <6>1. todo[i][d] = b.plan
            BY <2>5, <5>2, <5>5 DEF AskLease, Stands
          <6>2. b.slot < slot
            BY <5>1, <5>2, <5>3, <5>5, <6>1 DEF Stands
          <6> QED BY <4>3, <5>1, <5>2, <5>3, <5>5, <6>1, <6>2 DEF Stands
        <5> QED BY <5>4, <5>5
      <4> QED BY <4>1, <4>2, <4>3
    <3>3. ASSUME NEW j \in Instance, NEW e \in Directive
          PROVE  phase'[j] \in {"down", "seeding"} => todo'[j][e] = Off
      BY <2>5 DEF AskLease, SeedingStands, TypeOK
    <3> QED BY <3>1, <3>2, <3>3 DEF SeedingStands
  <2>6. ASSUME NEW i \in Instance, LeaseWon(i) PROVE SeedInv'
    <3> DEFINE d == cur[i]
    <3>1. d \in Directive /\ lastSlot[i][d] \in Time
      BY <2>6 DEF LeaseWon, TypeOK
    <3>2. seeded[i][d].slot < lastSlot[i][d]
      <4>1. Stands(i, d, seeded[i][d])
        BY <3>1 DEF SeedingStands
      <4>2. lastSlot[i][d] \in Int /\ lastSlot[i][d] >= 0
        BY <3>1 DEF Time
      <4> QED BY <2>6, <4>1, <4>2 DEF LeaseWon, Stands, NoSlot
    <3>3. NoRestartRefire'
      BY <2>6, <3>1, <3>2 DEF LeaseWon, NoRestartRefire
    <3>4. TickPast' /\ SeedingStands'
      BY <2>6 DEF LeaseWon, TickPast, SeedingStands, Stands, TypeOK
    <3> QED BY <3>3, <3>4
  <2>7. ASSUME NEW i \in Instance, Down(i) PROVE SeedInv'
    <3>1. TickPast' /\ NoRestartRefire'
      <4>1. now >= 0
        BY DEF TypeOK, Time
      <4> QED BY <2>7, <4>1 DEF Down, TickPast, NoRestartRefire, TypeOK
    <3>2. ASSUME NEW j \in Instance, NEW d \in Directive
          PROVE  Stands(j, d, seeded[j][d])'
      <4>1. CASE j # i
        BY <2>7, <4>1 DEF Down, SeedingStands, Stands, TypeOK
      <4>2. CASE j = i
        <5>1. seeded'[j][d] = Unseeded
          BY <2>7, <4>2 DEF Down, TypeOK, NothingSeeded
        <5> QED BY <5>1 DEF Stands, Unseeded
      <4> QED BY <4>1, <4>2
    <3>3. ASSUME NEW j \in Instance, NEW d \in Directive
          PROVE  phase'[j] \in {"down", "seeding"} => todo'[j][d] = Off
      BY <2>7 DEF Down, SeedingStands, TypeOK, NothingTodo
    <3> QED BY <3>1, <3>2, <3>3 DEF SeedingStands
  <2>8. ASSUME NEW d \in Directive, NEW p \in Plan, Edit(d, p) PROVE SeedInv'
    <3>1. TickPast' /\ NoRestartRefire'
      BY <2>8 DEF Edit, TickPast, NoRestartRefire
    <3>2. ASSUME NEW j \in Instance, NEW e \in Directive
          PROVE  Stands(j, e, seeded[j][e])'
      <4>1. CASE e # d
        BY <2>8, <4>1 DEF Edit, SeedingStands, Stands, TypeOK
      <4>2. CASE e = d /\ p \in {Off, seeded[j][d].plan}
        BY <2>8, <4>2 DEF Edit, SeedingStands, Stands, TypeOK
      <4>3. CASE e = d /\ p \notin {Off, seeded[j][d].plan}
        <5>1. seeded'[j][d] = Unseeded
          BY <2>8, <4>3 DEF Edit, TypeOK
        <5> QED BY <4>3, <5>1 DEF Stands, Unseeded
      <4> QED BY <4>1, <4>2, <4>3
    <3>3. ASSUME NEW j \in Instance, NEW e \in Directive
          PROVE  phase'[j] \in {"down", "seeding"} => todo'[j][e] = Off
      BY <2>8 DEF Edit, SeedingStands
    <3> QED BY <3>1, <3>2, <3>3 DEF SeedingStands
  <2>9. CASE Clock
    BY <2>9 DEF Clock, TickPast, NoRestartRefire, SeedingStands, Stands
  <2>10. CASE UNCHANGED vars
    BY <2>10, <2>1 DEF vars, TypeOK
  <2>11. ASSUME NEW i \in Instance, Step(i) PROVE SeedInv'
    <3>1. CASE Start(i) \/ Poll(i)
      BY <3>1, <2>2 DEF Start, Poll
    <3>2. CASE SeedFails(i) \/ PollSkipped(i) \/ PollDone(i)
      BY <3>2, <2>1 DEF SeedFails, PollSkipped, PollDone, TypeOK
    <3>3. CASE LeaseHeld(i) \/ LeaseError(i) \/ CycleEnds(i)
      BY <3>3, <2>1 DEF LeaseHeld, LeaseError, CycleEnds, TypeOK
    <3>4. ASSUME NEW d \in Directive, Pass(i, d) PROVE SeedInv'
      BY <3>4, <2>1 DEF Pass, TypeOK
    <3> QED BY <2>11, <3>1, <3>2, <3>3, <3>4, <2>3, <2>4, <2>5, <2>6 DEF Step
  <2> QED BY <2>7, <2>8, <2>9, <2>10, <2>11 DEF Next
<1> QED BY <1>1, <1>2, TypeCorrect, PTL DEF Spec, SeedInv

===============================================================================
