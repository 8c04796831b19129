------------------------------- MODULE Scheduler -------------------------------
(***************************************************************************)
(* The in-process scheduler of Autonomous Mode (autonomous_scheduler.py)   *)
(* in every backend instance, the directive store its polls read, and the  *)
(* (directive, slot) lease documents of cosmos_memory.py that the          *)
(* instances share.                                                        *)
(*                                                                         *)
(* Each instance runs one asyncio task: start() seeds the current slots as *)
(* handled, then the task polls for ever.  A poll takes the time ONCE,     *)
(* awaits the directive list, and goes through the enabled directives one  *)
(* after the other; a due slot is noted in the process's own _last_slot    *)
(* BEFORE the lease is asked for, and a won lease runs a whole cycle before *)
(* the next directive is looked at.  Every await is a point where other    *)
(* instances, the operator's edits and the clock may move, or this process *)
(* may die.                                                                *)
(***************************************************************************)
EXTENDS Integers

CONSTANTS
    Instance,     \* backend processes
    Directive,    \* directive ids
    Schedule,     \* the schedules a directive may be given
    Off,          \* plan of a directive that is missing, disabled or unscheduled
    NoDirective,  \* cur[i] when instance i is not firing anything
    Cron,         \* Cron[s][t]: croniter's most recent slot of s at or before t
    LeaseTTL,     \* LEASE_TTL_SECONDS
    MaxTime,      \* bound: the clock stops here
    MaxEdits,     \* bound: directive edits
    MaxDowns      \* bound: crashes and stops, over all instances

NoSlot == -1
Time   == 0 .. MaxTime
Slot   == Time \cup {NoSlot}
Plan   == Schedule \cup {Off}

(* croniter.get_prev, a library: a slot is never in the future, later
   instants have later slots, and between a slot and the instant it was
   computed at there is no other.  NoSlot stands for a malformed schedule. *)
ASSUME CronAssumption ==
    /\ Cron \in [Schedule -> [Time -> Slot]]
    /\ \A s \in Schedule, t \in Time : Cron[s][t] <= t
    /\ \A s \in Schedule, t, u \in Time : t <= u => Cron[s][t] <= Cron[s][u]

ASSUME ConstAssumption ==
    /\ Off \notin Schedule
    /\ NoDirective \notin Directive
    /\ LeaseTTL \in Nat \ {0}
    /\ MaxTime \in Nat
    /\ MaxEdits \in Nat
    /\ MaxDowns \in Nat

VARIABLES
    now,       \* wall clock, shared by the instances
    plan,      \* plan[d]: what the directive store says of d
    phase,     \* phase[i]: where instance i's task is suspended
    tick,      \* tick[i]: the `now` the current poll (or the seeding) took
    todo,      \* todo[i][d]: the plan poll i loaded for d, Off once dealt with
    cur,       \* cur[i]: the directive whose slot i is claiming or running
    lastSlot,  \* lastSlot[i][d]: _last_slot of instance i
    lease,     \* lease[d][s]: instant until which the lease document lives
    claims,    \* history: every won lease
    seeded,    \* history: seeded[i][d], what instance i seeded for d
    edits,     \* number of edits so far
    downs      \* number of crashes and stops so far

vars == <<now, plan, phase, tick, todo, cur, lastSlot, lease, claims, seeded,
          edits, downs>>

Phase == {"down", "seeding", "asleep", "loading", "firing", "claiming", "running"}

(* The schedule seeded and its slot; Unseeded once d gets another schedule. *)
Seeding  == [plan : Plan, slot : Slot]
Unseeded == [plan |-> Off, slot |-> NoSlot]

(* base: the slot the winner had seeded for the directive, if any. *)
Claim == [directive : Directive, slot : Time, at : Time, by : Instance, base : Slot]

TypeOK ==
    /\ now \in Time
    /\ plan \in [Directive -> Plan]
    /\ phase \in [Instance -> Phase]
    /\ tick \in [Instance -> Time]
    /\ todo \in [Instance -> [Directive -> Plan]]
    /\ cur \in [Instance -> Directive \cup {NoDirective}]
    /\ lastSlot \in [Instance -> [Directive -> Slot]]
    /\ lease \in [Directive -> [Time -> Nat]]
    /\ claims \subseteq Claim
    /\ seeded \in [Instance -> [Directive -> Seeding]]
    /\ edits \in 0 .. MaxEdits
    /\ downs \in 0 .. MaxDowns
    /\ \A i \in Instance :
         phase[i] \in {"claiming", "running"} =>
            cur[i] \in Directive /\ lastSlot[i][cur[i]] \in Time

NothingTodo   == [d \in Directive |-> Off]
NoSlots       == [d \in Directive |-> NoSlot]
NothingSeeded == [d \in Directive |-> Unseeded]

Init ==
    /\ now = 0
    /\ plan \in [Directive -> Plan]
    /\ phase = [i \in Instance |-> "down"]
    /\ tick = [i \in Instance |-> 0]
    /\ todo = [i \in Instance |-> NothingTodo]
    /\ cur = [i \in Instance |-> NoDirective]
    /\ lastSlot = [i \in Instance |-> NoSlots]
    /\ lease = [d \in Directive |-> [s \in Time |-> 0]]
    /\ claims = {}
    /\ seeded = [i \in Instance |-> NothingSeeded]
    /\ edits = 0
    /\ downs = 0

(* _current_slot: NoSlot also for a directive that is not scheduled at all. *)
CurrentSlot(p, t) == IF p = Off THEN NoSlot ELSE Cron[p][t]

LeaseLive(d, s) == now < lease[d][s]

-------------------------------------------------------------------------------
(* Start-up: seed_baseline, then the loop. *)

(* A fresh process: _last_slot is empty, and the seeding takes the time
   before it awaits the directive list. *)
Start(i) ==
    /\ phase[i] = "down"
    /\ phase' = [phase EXCEPT ![i] = "seeding"]
    /\ tick' = [tick EXCEPT ![i] = now]
    /\ UNCHANGED <<now, plan, todo, cur, lastSlot, lease, claims, seeded, edits, downs>>

(* Mutant: the seeding computes the slots and does not keep them. *)
SeedForgets(i) ==
    /\ phase[i] = "seeding"
    /\ phase' = [phase EXCEPT ![i] = "asleep"]
    /\ seeded' = [seeded EXCEPT ![i] = [d \in Directive |->
                    [plan |-> plan[d], slot |-> CurrentSlot(plan[d], tick[i])]]]
    /\ UNCHANGED <<now, plan, tick, todo, cur, lastSlot, lease, claims, edits, downs>>

SeedLoaded(i) ==
    LET slot(d) == CurrentSlot(plan[d], tick[i]) IN
    /\ phase[i] = "seeding"
    /\ phase' = [phase EXCEPT ![i] = "asleep"]
    /\ lastSlot' = [lastSlot EXCEPT ![i] = [d \in Directive |-> slot(d)]]
    /\ seeded' = [seeded EXCEPT ![i] =
                    [d \in Directive |-> [plan |-> plan[d], slot |-> slot(d)]]]
    /\ UNCHANGED <<now, plan, tick, todo, cur, lease, claims, edits, downs>>

(* The directive list could not be read: the loop starts with nothing seeded. *)
SeedFails(i) ==
    /\ phase[i] = "seeding"
    /\ phase' = [phase EXCEPT ![i] = "asleep"]
    /\ UNCHANGED <<now, plan, tick, todo, cur, lastSlot, lease, claims, seeded,
                   edits, downs>>

-------------------------------------------------------------------------------
(* One poll: poll_once and _maybe_fire. *)

Poll(i) ==
    /\ phase[i] = "asleep"
    /\ phase' = [phase EXCEPT ![i] = "loading"]
    /\ tick' = [tick EXCEPT ![i] = now]
    /\ UNCHANGED <<now, plan, todo, cur, lastSlot, lease, claims, seeded, edits, downs>>

(* The list could not be read, or the master switch is off. *)
PollSkipped(i) ==
    /\ phase[i] = "loading"
    /\ phase' = [phase EXCEPT ![i] = "asleep"]
    /\ UNCHANGED <<now, plan, tick, todo, cur, lastSlot, lease, claims, seeded,
                   edits, downs>>

PollLoaded(i) ==
    /\ phase[i] = "loading"
    /\ phase' = [phase EXCEPT ![i] = "firing"]
    /\ todo' = [todo EXCEPT ![i] = plan]
    /\ UNCHANGED <<now, plan, tick, cur, lastSlot, lease, claims, seeded, edits, downs>>

(* Nothing to do for d: no slot, or a slot this instance has already handled. *)
Pass(i, d) ==
    LET slot == CurrentSlot(todo[i][d], tick[i]) IN
    /\ phase[i] = "firing"
    /\ todo[i][d] # Off
    /\ slot = NoSlot \/ slot = lastSlot[i][d]
    /\ todo' = [todo EXCEPT ![i][d] = Off]
    /\ UNCHANGED <<now, plan, phase, tick, cur, lastSlot, lease, claims, seeded,
                   edits, downs>>

(* Mutant: a malformed schedule's missing slot is treated as one more slot. *)
AskAnySlot(i, d) ==
    LET slot == CurrentSlot(todo[i][d], tick[i]) IN
    /\ phase[i] = "firing"
    /\ todo[i][d] # Off
    /\ slot # lastSlot[i][d]
    /\ lastSlot' = [lastSlot EXCEPT ![i][d] = slot]
    /\ todo' = [todo EXCEPT ![i][d] = Off]
    /\ phase' = [phase EXCEPT ![i] = "claiming"]
    /\ cur' = [cur EXCEPT ![i] = d]
    /\ UNCHANGED <<now, plan, tick, lease, claims, seeded, edits, downs>>

(* A slot this instance has not handled: noted as handled, then asked for.
   The schedule and the time are those of the poll, however long the
   directives before d kept the loop busy. *)
AskLease(i, d) ==
    LET slot == CurrentSlot(todo[i][d], tick[i]) IN
    /\ phase[i] = "firing"
    /\ todo[i][d] # Off
    /\ slot # NoSlot
    /\ slot # lastSlot[i][d]
    /\ lastSlot' = [lastSlot EXCEPT ![i][d] = slot]
    /\ todo' = [todo EXCEPT ![i][d] = Off]
    /\ phase' = [phase EXCEPT ![i] = "claiming"]
    /\ cur' = [cur EXCEPT ![i] = d]
    /\ UNCHANGED <<now, plan, tick, lease, claims, seeded, edits, downs>>

(* try_acquire's create_item stores the document: it lives for LeaseTTL. *)
StoreLease(d, s) ==
    lease' = [lease EXCEPT ![d][s] = now + LeaseTTL]

(* Mutant: the lease document is upserted instead of created. *)
LeaseUpserted(i) ==
    LET d == cur[i]
        s == lastSlot[i][d]
    IN
    /\ phase[i] = "claiming"
    /\ StoreLease(d, s)
    /\ claims' = claims \cup
         {[directive |-> d, slot |-> s, at |-> now, by |-> i, base |-> seeded[i][d].slot]}
    /\ phase' = [phase EXCEPT ![i] = "running"]
    /\ UNCHANGED <<now, plan, tick, todo, cur, lastSlot, seeded, edits, downs>>

LeaseWon(i) ==
    LET d == cur[i]
        s == lastSlot[i][d]
    IN
    /\ phase[i] = "claiming"
    /\ ~LeaseLive(d, s)
    /\ StoreLease(d, s)
    /\ claims' = claims \cup
         {[directive |-> d, slot |-> s, at |-> now, by |-> i, base |-> seeded[i][d].slot]}
    /\ phase' = [phase EXCEPT ![i] = "running"]
    /\ UNCHANGED <<now, plan, tick, todo, cur, lastSlot, seeded, edits, downs>>

LeaseHeld(i) ==
    /\ phase[i] = "claiming"
    /\ LeaseLive(cur[i], lastSlot[i][cur[i]])
    /\ phase' = [phase EXCEPT ![i] = "firing"]
    /\ cur' = [cur EXCEPT ![i] = NoDirective]
    /\ UNCHANGED <<now, plan, tick, todo, lastSlot, lease, claims, seeded, edits, downs>>

(* The request fails; the document may have been stored all the same. *)
LeaseError(i) ==
    /\ phase[i] = "claiming"
    /\ \/ UNCHANGED lease
       \/ /\ ~LeaseLive(cur[i], lastSlot[i][cur[i]])
          /\ StoreLease(cur[i], lastSlot[i][cur[i]])
    /\ phase' = [phase EXCEPT ![i] = "firing"]
    /\ cur' = [cur EXCEPT ![i] = NoDirective]
    /\ UNCHANGED <<now, plan, tick, todo, lastSlot, claims, seeded, edits, downs>>

(* Mutant: a cycle that raises ends the polling task. *)
CycleKillsLoop(i) ==
    /\ phase[i] = "running"
    /\ phase' = [phase EXCEPT ![i] = "dead"]
    /\ UNCHANGED <<now, plan, tick, todo, cur, lastSlot, lease, claims, seeded,
                   edits, downs>>

(* run_autonomous_cycle returns or raises; either way the loop goes on. *)
CycleEnds(i) ==
    /\ phase[i] = "running"
    /\ phase' = [phase EXCEPT ![i] = "firing"]
    /\ cur' = [cur EXCEPT ![i] = NoDirective]
    /\ UNCHANGED <<now, plan, tick, todo, lastSlot, lease, claims, seeded, edits, downs>>

PollDone(i) ==
    /\ phase[i] = "firing"
    /\ todo[i] = NothingTodo
    /\ phase' = [phase EXCEPT ![i] = "asleep"]
    /\ UNCHANGED <<now, plan, tick, todo, cur, lastSlot, lease, claims, seeded,
                   edits, downs>>

-------------------------------------------------------------------------------
(* What the instances do not control. *)

(* The process ends: stop() cancels the task, or the machine dies.  A lease
   request already sent may still be carried out. *)
Down(i) ==
    /\ phase[i] # "down"
    /\ downs < MaxDowns
    /\ downs' = downs + 1
    /\ \/ UNCHANGED lease
       \/ /\ phase[i] = "claiming"
          /\ ~LeaseLive(cur[i], lastSlot[i][cur[i]])
          /\ StoreLease(cur[i], lastSlot[i][cur[i]])
    /\ phase' = [phase EXCEPT ![i] = "down"]
    /\ tick' = [tick EXCEPT ![i] = 0]
    /\ todo' = [todo EXCEPT ![i] = NothingTodo]
    /\ cur' = [cur EXCEPT ![i] = NoDirective]
    /\ lastSlot' = [lastSlot EXCEPT ![i] = NoSlots]
    /\ seeded' = [seeded EXCEPT ![i] = NothingSeeded]
    /\ UNCHANGED <<now, plan, claims, edits>>

(* The operator creates, enables, disables, reschedules or deletes d: the write
   a request ends with.  What it read before is of no matter here, since p may
   be any plan.  A new schedule voids what the instances seeded for d under
   another one. *)
Edit(d, p) ==
    /\ edits < MaxEdits
    /\ p # plan[d]
    /\ edits' = edits + 1
    /\ plan' = [plan EXCEPT ![d] = p]
    /\ seeded' = [i \in Instance |->
                    IF p \in {Off, seeded[i][d].plan}
                    THEN seeded[i]
                    ELSE [seeded[i] EXCEPT ![d] = Unseeded]]
    /\ UNCHANGED <<now, phase, tick, todo, cur, lastSlot, lease, claims, downs>>

Clock ==
    /\ now < MaxTime
    /\ now' = now + 1
    /\ UNCHANGED <<plan, phase, tick, todo, cur, lastSlot, lease, claims, seeded,
                   edits, downs>>

-------------------------------------------------------------------------------
Step(i) ==
    \/ Start(i) \/ SeedLoaded(i) \/ SeedFails(i)
    \/ Poll(i) \/ PollSkipped(i) \/ PollLoaded(i)
    \/ \E d \in Directive : Pass(i, d) \/ AskLease(i, d)
    \/ LeaseWon(i) \/ LeaseHeld(i) \/ LeaseError(i)
    \/ CycleEnds(i) \/ PollDone(i)

Next ==
    \/ \E i \in Instance : Step(i) \/ Down(i)
    \/ \E d \in Directive, p \in Plan : Edit(d, p)
    \/ Clock

(* Every await of a live process returns (a cycle is bounded by its deadline),
   the platform restarts a process that died, and the directive store is not
   unreadable at every single poll. *)
Fairness ==
    \A i \in Instance :
        /\ WF_vars(Step(i))
        /\ SF_vars(PollLoaded(i))

Spec     == Init /\ [][Next]_vars
FairSpec == Spec /\ Fairness

-------------------------------------------------------------------------------
(* Two runs of one directive's slot are at least a lease's lifetime apart,
   whichever instances ran them and whatever died in between: create_item on
   the (directive, slot) id is the lock, until Cosmos expires the document. *)
ClaimsApart ==
    \A c, e \in claims :
        /\ c.directive = e.directive
        /\ c.slot = e.slot
        /\ c # e
        => c.at + LeaseTTL <= e.at \/ e.at + LeaseTTL <= c.at

(* A process that seeded a directive's slot at its start runs only later slots
   of that directive, until the directive gets another schedule: a redeploy
   does not re-fire, in spite of edits that switch the directive off and on,
   slow polls and other instances. *)
NoRestartRefire ==
    \A c \in claims : c.slot > c.base

(* Each slot of a directive is run at most once, as the module's header and
   the comment at LEASE_TTL_SECONDS say. *)
SlotRunsOnce ==
    \A c, e \in claims :
        c.directive = e.directive /\ c.slot = e.slot => c = e

(* However its polls are interrupted by failed loads, lost leases, failing
   requests and long cycles of other directives, an instance that stays up
   catches up with the current slot of every scheduled directive. *)
CatchesUp ==
    \A i \in Instance, d \in Directive :
        <>[](\/ phase[i] = "down"
            \/ CurrentSlot(plan[d], now) \in {NoSlot, lastSlot[i][d]})

===============================================================================
