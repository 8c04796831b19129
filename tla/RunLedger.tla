------------------------------- MODULE RunLedger -------------------------------
(***************************************************************************)
(* What an autonomous run promises its reviewers, without saying how it is *)
(* executed, timed or cleaned up: a run that got to work ends with one     *)
(* outcome; it succeeds only if neither the deadline nor a cancellation    *)
(* came first; only a success is delivered; the run log gets the outcome   *)
(* itself, or word of its loss, and is written once; and only a cancelled  *)
(* run leaves without an entry.                                            *)
(***************************************************************************)
CONSTANTS Run

VARIABLES
    stage,      \* stage[r]: how far run r has come
    late,       \* late[r]: the deadline came while r was at work
    cancelled,  \* cancelled[r]: r was cancelled
    delivered,  \* delivered[r]: a reviewer may have been sent r's response
    entry       \* entry[r]: what the run log has of r

ledgerVars == <<stage, late, cancelled, delivered, entry>>

LedgerInit ==
    /\ stage = [r \in Run |-> "idle"]
    /\ late = [r \in Run |-> FALSE]
    /\ cancelled = [r \in Run |-> FALSE]
    /\ delivered = [r \in Run |-> FALSE]
    /\ entry = [r \in Run |-> "none"]

Move(r, from, to) ==
    /\ stage[r] = from
    /\ stage' = [stage EXCEPT ![r] = to]

(* The outcome that is on its way into the log. *)
Outcome(r) == IF stage[r] = "failed" THEN "failure" ELSE "success"

Begin(r) ==
    /\ Move(r, "idle", "refused") \/ Move(r, "idle", "working")
    /\ UNCHANGED <<late, cancelled, delivered, entry>>

(* Work ends: in time, without success, or given up. *)
Succeed(r) ==
    /\ ~ late[r] /\ ~ cancelled[r]
    /\ Move(r, "working", "succeeded")
    /\ UNCHANGED <<late, cancelled, delivered, entry>>

Fail(r) ==
    /\ Move(r, "working", "failed")
    /\ UNCHANGED <<late, cancelled, delivered, entry>>

Withdraw(r) ==
    /\ cancelled[r]
    /\ Move(r, "working", "withdrawn")
    /\ UNCHANGED <<late, cancelled, delivered, entry>>

(* The deadline ends the work, or leaves something to clean up first. *)
Overrun(r) ==
    /\ ~ late[r]
    /\ late' = [late EXCEPT ![r] = TRUE]
    /\ \/ Move(r, "working", "working")
       \/ Move(r, "working", "failed")
       \/ cancelled[r] /\ Move(r, "working", "withdrawn")
    /\ UNCHANGED <<cancelled, delivered, entry>>

(* So does a cancellation; *)
CancelWork(r) ==
    /\ ~ cancelled[r]
    /\ cancelled' = [cancelled EXCEPT ![r] = TRUE]
    /\ Move(r, "working", "working") \/ Move(r, "working", "withdrawn")
    /\ UNCHANGED <<late, delivered, entry>>

(* the delivery or the entry that it interrupts may have been made. *)
CancelFiling(r) ==
    /\ ~ cancelled[r]
    /\ cancelled' = [cancelled EXCEPT ![r] = TRUE]
    /\ \/ /\ Move(r, "succeeded", "withdrawn")
          /\ delivered' \in {delivered, [delivered EXCEPT ![r] = TRUE]}
          /\ UNCHANGED entry
       \/ /\ Move(r, "accepted", "withdrawn") \/ Move(r, "failed", "withdrawn")
          /\ UNCHANGED <<delivered, entry>>
       \/ /\ Move(r, "accepted", "filed") \/ Move(r, "failed", "filed")
          /\ entry' = [entry EXCEPT ![r] = Outcome(r)]
          /\ UNCHANGED delivered
    /\ UNCHANGED late

(* A success is delivered, or the delivery fails. *)
Deliver(r) ==
    /\ Move(r, "succeeded", "accepted")
    /\ delivered' \in {delivered, [delivered EXCEPT ![r] = TRUE]}
    /\ UNCHANGED <<late, cancelled, entry>>

File(r) ==
    /\ Move(r, "accepted", "filed") \/ Move(r, "failed", "filed")
    /\ \E stored \in {Outcome(r), "lost"} : entry' = [entry EXCEPT ![r] = stored]
    /\ UNCHANGED <<late, cancelled, delivered>>

(* A cancellation after all that changes nothing but that it came. *)
Leave(r) ==
    /\ stage[r] \in {"filed", "withdrawn"}
    /\ cancelled' = [cancelled EXCEPT ![r] = TRUE]
    /\ UNCHANGED <<stage, late, delivered, entry>>

(* A process dies with the runs in it; what they told and filed stays. *)
Die(victims) ==
    /\ \A r \in victims : stage[r] \notin {"idle", "refused", "dead"}
    /\ stage' = [r \in Run |-> IF r \in victims THEN "dead" ELSE stage[r]]
    /\ UNCHANGED <<late, cancelled, delivered, entry>>

LedgerNext ==
    \/ \E r \in Run :
        \/ Begin(r)
        \/ Succeed(r) \/ Fail(r) \/ Withdraw(r)
        \/ Overrun(r) \/ CancelWork(r) \/ CancelFiling(r)
        \/ Deliver(r) \/ File(r) \/ Leave(r)
    \/ \E victims \in SUBSET Run : Die(victims)

LedgerSpec == LedgerInit /\ [][LedgerNext]_ledgerVars
===============================================================================
