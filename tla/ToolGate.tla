------------------------------- MODULE ToolGate --------------------------------
(***************************************************************************)
(* What the guard of the database tools promises of every call, without    *)
(* saying how it decides: a call is refused or admitted; the database is   *)
(* only contacted for an admitted call, and at most once; a call that is   *)
(* answered is on the audit trail exactly once, with the outcome its       *)
(* caller saw; one that its caller gave up on leaves no event.             *)
(***************************************************************************)
CONSTANTS Call

VARIABLES
    gate,     \* gate[c]: where the call stands
    contact,  \* contact[c]: whether a connection was asked for on its behalf
    trail     \* trail[c]: the outcomes on the audit trail

gateVars == <<gate, contact, trail>>

Stage   == {"idle", "pending", "refused", "admitted", "answered", "withdrawn", "abandoned"}
Outcome == {"none", "denied", "error", "success", "rejected", "unavailable"}

GateInit ==
    /\ gate = [c \in Call |-> "idle"]
    /\ contact = [c \in Call |-> FALSE]
    /\ trail = [c \in Call |-> "none"]

Move(c, from, to) ==
    /\ gate[c] \in from
    /\ gate' = [gate EXCEPT ![c] = to]

Record(c, outcome) ==
    /\ trail[c] = "none"
    /\ trail' = [trail EXCEPT ![c] = outcome]

Ask(c)    == Move(c, {"idle"}, "pending") /\ UNCHANGED <<contact, trail>>
Refuse(c) == Move(c, {"idle", "pending"}, "refused") /\ Record(c, "denied") /\ UNCHANGED contact
Admit(c)  == Move(c, {"idle", "pending"}, "admitted") /\ UNCHANGED <<contact, trail>>

(* A request that is not a single read of approved objects goes no further. *)
Reject(c) ==
    /\ Move(c, {"idle", "pending"}, "answered")
    /\ Record(c, "rejected")
    /\ UNCHANGED contact

(* The driver's thread outlives a caller that gave up. *)
Contact(c) ==
    /\ gate[c] \in {"admitted", "abandoned"} /\ ~contact[c]
    /\ contact' = [contact EXCEPT ![c] = TRUE]
    /\ UNCHANGED <<gate, trail>>

Reply(c, outcome) ==
    /\ Move(c, {"admitted"}, "answered")
    /\ IF contact[c] THEN outcome \in {"error", "success", "unavailable"}
                     ELSE outcome = "rejected"
    /\ Record(c, outcome)
    /\ UNCHANGED contact

Withdraw(c) == Move(c, {"pending"}, "withdrawn") /\ UNCHANGED <<contact, trail>>
Abandon(c)  == Move(c, {"admitted"}, "abandoned") /\ UNCHANGED <<contact, trail>>

GateNext ==
    \E c \in Call :
        \/ Ask(c) \/ Refuse(c) \/ Admit(c) \/ Reject(c) \/ Contact(c)
        \/ \E outcome \in Outcome : Reply(c, outcome)
        \/ Withdraw(c) \/ Abandon(c)

GateSpec == GateInit /\ [][GateNext]_gateVars
===============================================================================
