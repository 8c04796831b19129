--------------------------------- MODULE Cycle ---------------------------------
(***************************************************************************)
(* The runs of one autonomous directive (run_autonomous_cycle and what it  *)
(* calls in autonomous.py), started by the schedulers and the run-now      *)
(* requests of every backend instance, and what they share: the directive's *)
(* execution lease document (cosmos_memory.py), the slot of each instance's *)
(* session store that the directive's session id names (session_data.py),  *)
(* the notification sink and the run log.                                  *)
(*                                                                         *)
(* Leases, sessions and conversations are keyed by the directive, so runs  *)
(* of different directives do not meet.  A run is one coroutine: between   *)
(* two of its awaits nothing else of its process runs, at an await anything *)
(* may: the other runs, the deadline of asyncio.timeout, a cancellation, a *)
(* crash.                                                                  *)
(***************************************************************************)
EXTENDS Integers

CONSTANTS
    Instance,      \* backend processes
    Run,           \* run ids (uuid4 in the code, never reused)
    NoRun,         \* no run: an empty session slot
    Timeout,       \* AUTONOMOUS_RUN_TIMEOUT_SECONDS
    LeaseTTL,      \* the lease document's ttl: the timeout plus a margin
    AnswerWithin,  \* the longest the Cosmos client takes to answer create_item
    StartBy,       \* bound: no run is started later
    MaxCrashes     \* bound: process crashes

ASSUME ConstAssumption ==
    /\ NoRun \notin Run
    /\ Timeout \in Nat \ {0}
    /\ LeaseTTL \in Nat /\ LeaseTTL > Timeout
    /\ AnswerWithin \in Nat
    /\ StartBy \in Nat
    /\ MaxCrashes \in Nat

VARIABLES
    now,       \* wall clock
    lease,     \* the "execution" document: its run and when Cosmos drops it
    pc,        \* pc[r]: the await run r is suspended at
    host,      \* host[r]: the instance r runs in
    until,     \* until[r]: when the lease document r stored runs out
    started,   \* started[r]: `started`, where the deadline is counted from
    status,    \* status[r]: record.status
    sessions,  \* sessions[i]: the run whose session instance i has registered
    using,     \* using[r]: the run whose session r picked up (session_data)
    expired,   \* expired[r]: the deadline interrupted r
    stopped,   \* stopped[r]: a cancellation was delivered to r
    told,      \* told[r]: the sink was given r's response
    audit,     \* audit[r]: the status in the run log
    crashes    \* number of crashes so far

vars == <<now, lease, pc, host, until, started, status, sessions, using, expired,
          stopped, told, audit, crashes>>

MaxTime == StartBy + AnswerWithin + LeaseTTL  \* bound: the clock stops here

Status    == {"failure", "success"}
Interruptible == {"opening", "displacing", "asking", "touching", "undoing", "closing"}
Finalizing    == {"notifying", "recording"}
Finishing     == {"finishing", "releasing"}
Active == {"starting"} \cup Interruptible \cup Finalizing \cup Finishing
Phase  == Active \cup {"idle", "refused", "over", "dead"}

TypeOK ==
    /\ now \in 0 .. MaxTime
    /\ lease \in [run : Run \cup {NoRun}, until : Nat]
    /\ pc \in [Run -> Phase]
    /\ host \in [Run -> Instance]
    /\ until \in [Run -> Nat]
    /\ started \in [Run -> Nat]
    /\ status \in [Run -> Status]
    /\ sessions \in [Instance -> Run \cup {NoRun}]
    /\ using \in [Run -> Run \cup {NoRun}]
    /\ expired \in [Run -> BOOLEAN]
    /\ stopped \in [Run -> BOOLEAN]
    /\ told \in [Run -> BOOLEAN]
    /\ audit \in [Run -> Status \cup {"none", "lost"}]
    /\ crashes \in 0 .. MaxCrashes

NoLease == [run |-> NoRun, until |-> 0]

Init ==
    /\ now = 0
    /\ lease = NoLease
    /\ pc = [r \in Run |-> "idle"]
    /\ host \in [Run -> Instance]
    /\ until = [r \in Run |-> 0]
    /\ started = [r \in Run |-> 0]
    /\ status = [r \in Run |-> "failure"]
    /\ sessions = [i \in Instance |-> NoRun]
    /\ using = [r \in Run |-> NoRun]
    /\ expired = [r \in Run |-> FALSE]
    /\ stopped = [r \in Run |-> FALSE]
    /\ told = [r \in Run |-> FALSE]
    /\ audit = [r \in Run |-> "none"]
    /\ crashes = 0

LeaseLive == now < lease.until
Owns(r)   == LeaseLive /\ lease.run = r
Store(r)  == [run |-> r, until |-> now + LeaseTTL]

(* Run r moves from the await p to the await q. *)
Go(r, p, q) == pc[r] = p /\ pc' = [pc EXCEPT ![r] = q]

(* Groups of variables that most steps leave alone. *)
leaseVars   == <<lease, until>>
sessionVars == <<sessions, using>>
flagVars    == <<expired, stopped>>
resultVars  == <<told, audit>>
fixed       == <<now, host, crashes>>

-------------------------------------------------------------------------------
(* try_start: create_item on the one lease id of the directive. *)

(* Mutant: the lease document is upserted. *)
AcquireAnyway(r) ==
    /\ now <= StartBy
    /\ Go(r, "idle", "starting")
    /\ lease' = Store(r)
    /\ until' = [until EXCEPT ![r] = now + LeaseTTL]
    /\ UNCHANGED <<fixed, started, status, sessionVars, flagVars, resultVars>>

(* Mutant: the lease document has no ttl. *)
AcquireForGood(r) ==
    /\ now <= StartBy
    /\ ~ LeaseLive
    /\ Go(r, "idle", "starting")
    /\ lease' = [run |-> r, until |-> MaxTime + 1]
    /\ until' = [until EXCEPT ![r] = MaxTime + 1]
    /\ UNCHANGED <<fixed, started, status, sessionVars, flagVars, resultVars>>

(* Cosmos stores the document; the answer is still to come. *)
Acquire(r) ==
    /\ now <= StartBy
    /\ ~ LeaseLive
    /\ Go(r, "idle", "starting")
    /\ lease' = Store(r)
    /\ until' = [until EXCEPT ![r] = now + LeaseTTL]
    /\ UNCHANGED <<fixed, started, status, sessionVars, flagVars, resultVars>>

(* The document exists: HTTP 409, nothing else happens. *)
Conflict(r) ==
    /\ now <= StartBy
    /\ LeaseLive
    /\ Go(r, "idle", "refused")
    /\ UNCHANGED <<fixed, leaseVars, started, status, sessionVars, flagVars, resultVars>>

(* The request fails, or its answer is lost: the caller has no run, the
   document may have been stored all the same. *)
AcquireFails(r) ==
    /\ now <= StartBy
    /\ Go(r, "idle", "refused")
    /\ \/ UNCHANGED lease
       \/ ~ LeaseLive /\ lease' = Store(r)
    /\ UNCHANGED <<fixed, until, started, status, sessionVars, flagVars, resultVars>>

(* The lease is ours: `started` is taken, the deadline set, the profile looked
   up.  An unknown profile ends the execution with the record at "failure". *)
Answered(r, known) ==
    /\ Go(r, "starting", IF known THEN "opening" ELSE "recording")
    /\ started' = [started EXCEPT ![r] = now]
    /\ UNCHANGED <<fixed, leaseVars, status, sessionVars, flagVars, resultVars>>

(* A cancellation at try_start's await, which no try block covers: the lease
   document is left to its ttl. *)
CancelStarting(r) ==
    /\ Go(r, "starting", "over")
    /\ stopped' = [stopped EXCEPT ![r] = TRUE]
    /\ UNCHANGED <<fixed, leaseVars, started, status, sessionVars, expired, resultVars>>

-------------------------------------------------------------------------------
(* _execute_autonomous_cycle: open a session, ask the agent, close the session. *)

(* Where run_autonomous_cycle goes on when the execution has returned
   or raised: a cancellation skips _finalize, the deadline does not. *)
AfterExecute(stop, result) ==
    IF stop THEN "finishing"
    ELSE IF result = "success" THEN "notifying" ELSE "recording"

(* Mutant: close_session without `expected`. *)
CloseWhatever(r, stop, result) ==
    LET open == sessions[host[r]] # NoRun IN
    /\ sessions' = [sessions EXCEPT ![host[r]] = NoRun]
    /\ pc' = [pc EXCEPT ![r] = IF open THEN "closing" ELSE AfterExecute(stop, result)]

(* close_session with `expected`: take the session r picked up off the store
   and wait for its resources; nothing to do when another one is registered. *)
CloseSession(r, stop, result) ==
    LET mine == sessions[host[r]] = using[r] IN
    /\ sessions' = [sessions EXCEPT ![host[r]] = IF mine THEN NoRun ELSE @]
    /\ pc' = [pc EXCEPT ![r] = IF mine THEN "closing" ELSE AfterExecute(stop, result)]

(* The conversation or the session could not be created. *)
OpenFails(r) ==
    /\ Go(r, "opening", "recording")
    /\ UNCHANGED <<fixed, leaseVars, started, status, sessionVars, flagVars, resultVars>>

(* replace_session: register ours; a session found there is disposed of first. *)
Publish(r) ==
    LET displaced == sessions[host[r]] # NoRun IN
    /\ Go(r, "opening", IF displaced THEN "displacing" ELSE "asking")
    /\ sessions' = [sessions EXCEPT ![host[r]] = r]
    /\ using' = [using EXCEPT ![r] = IF displaced THEN NoRun ELSE r]
    /\ UNCHANGED <<fixed, leaseVars, started, status, flagVars, resultVars>>

(* The displaced session is closed, and the run picks up whatever session is
   registered under its session id by now. *)
Displaced(r) ==
    LET found == sessions[host[r]] IN
    /\ Go(r, "displacing", IF found = NoRun THEN "recording" ELSE "asking")
    /\ using' = [using EXCEPT ![r] = found]
    /\ UNCHANGED <<fixed, leaseVars, started, status, sessions, flagVars, resultVars>>

(* Closing the displaced session raises: ours stays registered. *)
DisplaceFails(r) ==
    /\ Go(r, "displacing", "recording")
    /\ UNCHANGED <<fixed, leaseVars, started, status, sessionVars, flagVars, resultVars>>

(* The agent's whole response is in; the conversation is touched next. *)
Answer(r) ==
    /\ Go(r, "asking", "touching")
    /\ status' = [status EXCEPT ![r] = "success"]
    /\ UNCHANGED <<fixed, leaseVars, started, sessionVars, flagVars, resultVars>>

AgentFails(r) ==
    /\ pc[r] = "asking"
    /\ CloseSession(r, FALSE, "failure")
    /\ UNCHANGED <<fixed, leaseVars, started, status, using, flagVars, resultVars>>

(* touch succeeded or failed, which is only logged. *)
Touched(r) ==
    /\ pc[r] = "touching"
    /\ CloseSession(r, FALSE, "success")
    /\ UNCHANGED <<fixed, leaseVars, started, status, using, flagVars, resultVars>>

(* The resources are closed; what was on its way goes on. *)
Closed(r) ==
    /\ Go(r, "closing", AfterExecute(stopped[r], status[r]))
    /\ UNCHANGED <<fixed, leaseVars, started, status, sessionVars, flagVars, resultVars>>

(* Mutant: the session is closed outside the except clause. *)
CleanupEscapes(r) ==
    /\ Go(r, "closing", "finishing")
    /\ UNCHANGED <<fixed, leaseVars, started, status, sessionVars, flagVars, resultVars>>

(* Mutant: a failed cleanup gets a status the run log does not have. *)
CleanupErrs(r) ==
    /\ Go(r, "closing", "recording")
    /\ status' = [status EXCEPT ![r] = "error"]
    /\ UNCHANGED <<fixed, leaseVars, started, sessionVars, flagVars, resultVars>>

(* Closing the resources raises.  The exception replaces whatever was on its
   way, a cancellation included, and is caught as a failed cycle. *)
CleanupFails(r) ==
    /\ Go(r, "closing", "recording")
    /\ status' = [status EXCEPT ![r] = "failure"]
    /\ UNCHANGED <<fixed, leaseVars, started, sessionVars, flagVars, resultVars>>

(* CancelledError enters the execution of r: an opening closes what it has
   opened, a displacing run waits for the displaced session before it takes its
   own back, an open session is closed, a closing goes on (_dispose_session
   awaits it again). *)
Interrupt(r, stop) ==
    \/ /\ pc[r] \in {"opening", "closing"}
       /\ pc' = [pc EXCEPT ![r] = "closing"]
       /\ UNCHANGED sessions
    \/ /\ pc[r] \in {"displacing", "undoing"}
       /\ pc' = [pc EXCEPT ![r] = "undoing"]
       /\ UNCHANGED sessions
    \/ pc[r] \in {"asking", "touching"} /\ CloseSession(r, stop, "failure")

(* replace_session's except clause: the displaced session is closed, ours goes. *)
Undone(r) ==
    LET mine == sessions[host[r]] = r IN
    /\ Go(r, "undoing", IF mine THEN "closing" ELSE AfterExecute(stopped[r], "failure"))
    /\ sessions' = [sessions EXCEPT ![host[r]] = IF mine THEN NoRun ELSE @]
    /\ UNCHANGED <<fixed, leaseVars, started, status, using, flagVars, resultVars>>

(* The displaced session's exception replaces the cancellation there too, and
   ours stays registered. *)
UndoFails(r) ==
    /\ Go(r, "undoing", "recording")
    /\ UNCHANGED <<fixed, leaseVars, started, status, sessionVars, flagVars, resultVars>>

(* Mutant: the deadline is only there while the session is opened. *)
OpeningDeadline(r) ==
    /\ pc[r] = "opening"
    /\ ~ expired[r] /\ now >= started[r] + Timeout
    /\ Interrupt(r, stopped[r])
    /\ expired' = [expired EXCEPT ![r] = TRUE]
    /\ status' = [status EXCEPT ![r] = "failure"]
    /\ UNCHANGED <<fixed, leaseVars, started, using, stopped, resultVars>>

(* Mutant: the agent swallows the deadline's cancellation. *)
DeadlineSwallowed(r) ==
    /\ pc[r] \in Interruptible
    /\ ~ expired[r] /\ now >= started[r] + Timeout
    /\ expired' = [expired EXCEPT ![r] = TRUE]
    /\ status' = [status EXCEPT ![r] = "failure"]
    /\ UNCHANGED <<fixed, pc, leaseVars, started, sessionVars, stopped, resultVars>>

(* Mutant: a response that was complete before the deadline keeps its status. *)
LateSuccess(r) ==
    /\ pc[r] \in Interruptible
    /\ ~ expired[r] /\ now >= started[r] + Timeout
    /\ Interrupt(r, stopped[r])
    /\ expired' = [expired EXCEPT ![r] = TRUE]
    /\ UNCHANGED <<fixed, leaseVars, started, status, using, stopped, resultVars>>

(* asyncio.timeout interrupts the execution; its TimeoutError makes the
   record a failure, even one that had its response already. *)
Deadline(r) ==
    /\ pc[r] \in Interruptible
    /\ ~ expired[r] /\ now >= started[r] + Timeout
    /\ Interrupt(r, stopped[r])
    /\ expired' = [expired EXCEPT ![r] = TRUE]
    /\ status' = [status EXCEPT ![r] = "failure"]
    /\ UNCHANGED <<fixed, leaseVars, started, using, stopped, resultVars>>

(* The scheduler's stop(), or the server's shutdown, cancels the run. *)
CancelExecution(r) ==
    /\ pc[r] \in Interruptible
    /\ ~ stopped[r]
    /\ Interrupt(r, TRUE)
    /\ stopped' = [stopped EXCEPT ![r] = TRUE]
    /\ UNCHANGED <<fixed, leaseVars, started, status, using, expired, resultVars>>

-------------------------------------------------------------------------------
(* _finalize and lease.finish. *)

(* Only a success is delivered; a sink that fails, before or after it
   delivered, does not stop the record. *)
Notify(r) ==
    /\ Go(r, "notifying", "recording")
    /\ told' \in {told, [told EXCEPT ![r] = TRUE]}
    /\ UNCHANGED <<fixed, leaseVars, started, status, sessionVars, flagVars, audit>>

(* create_run upserts the record; its failure is only logged. *)
Record(r) ==
    /\ Go(r, "recording", "finishing")
    /\ \E stored \in {status[r], "lost"} : audit' = [audit EXCEPT ![r] = stored]
    /\ UNCHANGED <<fixed, leaseVars, started, status, sessionVars, flagVars, told>>

(* A cancellation passes _finalize's except clauses; the request it interrupts
   may have been carried out. *)
CancelFinalizing(r) ==
    /\ ~ stopped[r]
    /\ stopped' = [stopped EXCEPT ![r] = TRUE]
    /\ \/ /\ Go(r, "notifying", "finishing")
          /\ told' \in {told, [told EXCEPT ![r] = TRUE]}
          /\ UNCHANGED audit
       \/ /\ Go(r, "recording", "finishing")
          /\ audit' \in {audit, [audit EXCEPT ![r] = status[r]]}
          /\ UNCHANGED told
    /\ UNCHANGED <<fixed, leaseVars, started, status, sessionVars, expired>>

(* finish reads the lease document, and goes on only if it is r's. *)
FinishRead(r) ==
    /\ Go(r, "finishing", IF Owns(r) THEN "releasing" ELSE "over")
    /\ UNCHANGED <<fixed, leaseVars, started, status, sessionVars, flagVars, resultVars>>

(* Mutant: the document is deleted without its etag. *)
ReleaseAny(r) ==
    /\ Go(r, "releasing", "over")
    /\ lease' = NoLease
    /\ UNCHANGED <<fixed, until, started, status, sessionVars, flagVars, resultVars>>

(* The delete names the etag that was read: it removes r's document, or
   nothing when that one has expired or another run's is there. *)
Release(r) ==
    /\ Go(r, "releasing", "over")
    /\ lease' = IF Owns(r) THEN NoLease ELSE lease
    /\ UNCHANGED <<fixed, until, started, status, sessionVars, flagVars, resultVars>>

(* A store error or a cancellation leaves finish; the delete may have been
   carried out. *)
FinishBroken(r, stop) ==
    /\ pc[r] \in Finishing
    /\ pc' = [pc EXCEPT ![r] = "over"]
    /\ stopped' = [stopped EXCEPT ![r] = @ \/ stop]
    /\ \/ UNCHANGED lease
       \/ pc[r] = "releasing" /\ Owns(r) /\ lease' = NoLease
    /\ UNCHANGED <<fixed, until, started, status, sessionVars, expired, resultVars>>

-------------------------------------------------------------------------------
(* A process dies: its runs and its sessions with it.  A write it had under
   way is covered by the step that makes it, followed by the crash. *)
Crash(i) ==
    /\ crashes < MaxCrashes
    /\ \E r \in Run : host[r] = i /\ pc[r] \in Active
    /\ crashes' = crashes + 1
    /\ pc' = [r \in Run |-> IF host[r] = i /\ pc[r] \in Active THEN "dead" ELSE pc[r]]
    /\ sessions' = [sessions EXCEPT ![i] = NoRun]
    /\ UNCHANGED <<now, lease, host, until, started, status, using, flagVars, resultVars>>

(* The timer of a deadline fires on time, and the Cosmos client gives up on a
   create_item: at this model's grain of time no clock tick comes between. *)
Clock ==
    /\ now < MaxTime
    /\ \A r \in Run :
        /\ pc[r] \in Interruptible /\ ~ expired[r] => now < started[r] + Timeout
        /\ pc[r] = "starting" => now + LeaseTTL < until[r] + AnswerWithin
    /\ now' = now + 1
    /\ UNCHANGED <<leaseVars, pc, host, started, status, sessionVars, flagVars,
                   resultVars, crashes>>

-------------------------------------------------------------------------------
(* The steps the code takes of itself once a run has its lease. *)
Advance(r) ==
    \/ \E known \in BOOLEAN : Answered(r, known)
    \/ OpenFails(r) \/ Publish(r)
    \/ Displaced(r) \/ DisplaceFails(r) \/ Undone(r) \/ UndoFails(r)
    \/ Answer(r) \/ AgentFails(r) \/ Touched(r)
    \/ Closed(r) \/ CleanupFails(r)
    \/ Notify(r) \/ Record(r) \/ FinishRead(r) \/ Release(r)

Begin(r) == Acquire(r) \/ Conflict(r) \/ AcquireFails(r)

Cancel(r) == CancelStarting(r) \/ CancelExecution(r) \/ CancelFinalizing(r)

Next ==
    \/ \E r \in Run :
        \/ Begin(r) \/ Advance(r) \/ Deadline(r) \/ Cancel(r)
        \/ \E stop \in BOOLEAN : FinishBroken(r, stop)
    \/ \E i \in Instance : Crash(i)
    \/ Clock

(* Every await returns but two: opening the session (its MCP servers) and
   asking the agent may hang, which is what the deadline is for. *)
Fairness ==
    /\ \A r \in Run :
        /\ WF_vars(pc[r] \notin {"opening", "asking"} /\ Advance(r))
        /\ WF_vars(Deadline(r))
    /\ WF_vars(Clock)

Spec     == Init /\ [][Next]_vars
FairSpec == Spec /\ Fairness

-------------------------------------------------------------------------------
(* While its lease document has not run out, a run at work finds that document
   in the store: nobody else's release, start or failed request replaces it. *)
LeaseHeld ==
    \A r \in Run : pc[r] \in Active /\ now < until[r] =>
        lease = [run |-> r, until |-> until[r]]

(* Of two runs at work at the same time at least one has outlived its lease. *)
ExclusiveWhileLeased ==
    \A q, r \in Run : q # r /\ pc[q] \in Active /\ pc[r] \in Active =>
        now >= until[q] \/ now >= until[r]

(* When Cosmos answers create_item within the margin that the lease has over
   the deadline, a run has its own session in the store for as long as it works
   with it, however the runs before it in the same process end and clean up. *)
OwnSession ==
    (\A r \in Run : started[r] + Timeout < until[r] \/ pc[r] \in {"idle", "starting", "refused"})
    => \A r \in Run : pc[r] \in {"asking", "touching"} => sessions[host[r]] = r

(* Even when it does not, no run closes the registered session that another
   run works with, unless it had picked that session up as its own: at worst
   it displaces it. *)
NotClosedByOthers ==
    [][\A r \in Run :
        /\ pc[r] \in {"asking", "touching"} /\ pc'[r] = pc[r]
        /\ sessions[host[r]] = r
        /\ \A q \in Run \ {r} : using[q] # r
        => sessions'[host[r]] # NoRun]_vars

(* What the run log and the reviewers are told is one story: a response is
   delivered, or logged as a success, only of a run the deadline left alone,
   and no run that was delivered is logged as a failure. *)
AuditTruth ==
    \A r \in Run :
        /\ told[r] \/ audit[r] = "success" => ~ expired[r]
        /\ told[r] => audit[r] # "failure"

(* A run that got its lease and was not cancelled leaves a record, or the log
   says that the record could not be stored. *)
EndedIsRecorded ==
    \A r \in Run : pc[r] = "over" /\ ~ stopped[r] => audit[r] # "none"

(* How far a run has come for its reviewers.  Whether it left a record is not
   in pc: a run that finishes or is over without one was cancelled. *)
StageOf(r) ==
    CASE pc[r] \in {"starting"} \cup Interruptible -> "working"
      [] pc[r] = "notifying" -> "succeeded"
      [] pc[r] = "recording" -> IF status[r] = "success" THEN "accepted" ELSE "failed"
      [] pc[r] \in Finishing \cup {"over"} -> IF audit[r] = "none" THEN "withdrawn" ELSE "filed"
      [] OTHER -> pc[r]

Ledger == INSTANCE RunLedger WITH
              stage     <- [r \in Run |-> StageOf(r)],
              late      <- expired,
              cancelled <- stopped,
              delivered <- told,
              entry     <- audit

(* The runs implement RunLedger: whatever the deadline, a cancellation, a
   failing cleanup or a crash interrupts, and in whatever order, a run has one
   outcome, which is what is delivered and filed. *)
ImplementsLedger == Ledger!LedgerSpec

(* A run ends although its agent or its session never answers. *)
EveryRunEnds ==
    \A r \in Run : pc[r] \in Active ~> pc[r] \in {"over", "dead"}

(* No lease blocks the directive for ever, not that of a crashed or cancelled
   run or of a request whose answer was lost. *)
LeaseFreed == []<>~ LeaseLive

(* A conflicting run is refused until the first one's resources are cleaned up:
   two runs never execute at the same time. *)
NoOverlap ==
    \A q, r \in Run : pc[q] \in Interruptible /\ pc[r] \in Interruptible => q = r

(* Cancellation propagates after the cleanup: a run that was cancelled while
   it executed is not finalized as if it had ended. *)
CancellationPropagates ==
    \A r \in Run : stopped[r] => pc[r] \notin Finalizing

===============================================================================
