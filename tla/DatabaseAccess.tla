---------------------------- MODULE DatabaseAccess -----------------------------
(***************************************************************************)
(* Access to the database of one profile: the authorizer with its cache of *)
(* group memberships (database_authorization.py), the tools a session is   *)
(* given (DatabaseAccess.tools_for), and the guarded calls of those tools  *)
(* down to the driver's connections (database_tools.py,                    *)
(* database_sqlserver.py, database_odbc.py).                               *)
(*                                                                         *)
(* Two kinds of task run in the event loop: the opening of a session, which *)
(* authorizes each capability the session asks for, and a call of a tool.  *)
(* Both suspend only while the directory answers and while a worker thread *)
(* talks to the database; what they do in between is one step.  The        *)
(* directory, the users' memberships and the clock change on their own.    *)
(*                                                                         *)
(* SqlServerProvider.connect is never called: every query opens and closes *)
(* a connection of its own.                                                *)
(***************************************************************************)
EXTENDS DatabaseResult, FiniteSets

CONSTANTS
    Session, Call,  \* sessions being opened, and calls of their tools
    User,           \* authenticated users
    Subject,        \* [user, tenant, groups]: the tokens sessions are opened with
    Group,          \* directory groups
    Entitled,       \* the grant's entitled_groups
    Granted,        \* the grant's capabilities
    Tenant,         \* _tenant_ids
    TTL,            \* _cache_ttl_seconds
    QueryRequests, SchemaRequests,  \* the arguments the model may pass
    Failures,       \* [state, detail]: what the driver may raise
    Tables,         \* what a statement may find: sequences of rows
    Catalogs,       \* and what schema discovery may find
    NoEntry,        \* no cached membership
    MaxClock        \* bound: the clock stops here

ASSUME AccessAssumption ==
    /\ Session \cap Call = {}
    /\ \A x \in Subject : x.user \in User /\ x.groups \subseteq Group
    /\ Entitled \subseteq Group
    /\ Granted \subseteq Capability
    /\ TTL \in Nat
    /\ MaxClock \in Nat
    /\ NoEntry \notin [groups : SUBSET Group, until : Int]
    /\ \A q \in QueryRequests : q.stmt.limit.form = "literal" => q.stmt.limit.n \in Nat
    /\ Tables \subseteq Seq(Seq(Cell))
    /\ Catalogs \subseteq Seq(Object)

VARIABLES
    clock,     \* the authorizer's clock
    resolver,  \* "fail_closed" (the default) or "directory"
    member,    \* member[u]: u's transitive groups, as the directory has them
    entitledAt,\* history: when u was last in an entitled group, or -TTL - 1
    cache,     \* _cache[u]: [groups, until] (users of one tenant)
    session,   \* session[s]: its subject, what it still asks for, its tools
    task,      \* task[t]: where the opening of a session, or a call, stands
    thread,    \* thread[c]: what the worker thread of call c does
    audit,     \* audit[c]: the events emitted for call c
    exposed,   \* exposed[s]: the events emitted while s was opened
    reply      \* the answer the last step gave its caller, if it did

vars == <<clock, resolver, member, entitledAt, cache, session, task, thread, audit,
          exposed, reply>>

Task    == Session \cup Call
NoReply == [status |-> "none"]
Idle    == [phase |-> "idle", session |-> NoValue, cap |-> NoValue, request |-> NoValue,
            began |-> 0, groups |-> {}]
Closed  == [phase |-> "none", subject |-> NoValue, todo |-> <<>>, tools |-> {}]
Never   == -TTL - 1

Init ==
    /\ clock = 0
    /\ resolver \in {"fail_closed", "directory"}
    /\ member \in [User -> SUBSET Group]
    /\ entitledAt = [u \in User |-> IF member[u] \cap Entitled # {} THEN 0 ELSE Never]
    /\ cache = [u \in User |-> NoEntry]
    /\ session = [s \in Session |-> Closed]
    /\ task = [t \in Task |-> Idle]
    /\ thread = [c \in Call |-> "none"]
    /\ audit = [c \in Call |-> <<>>]
    /\ exposed = [s \in Session |-> <<>>]
    /\ reply = NoReply

----------------------------------------------------------------------------
(* Deciding *)

(* entitles_groups: no entitled group entitles nobody. *)
Entitles(groups) == Entitled \cap groups # {}

Fresh(u) == cache[u] # NoEntry /\ cache[u].until > clock

(* evaluate up to its first await: a decision, or "ask" the directory. *)
FirstVerdict(x, cap) ==
    CASE x.tenant \notin Tenant -> "tenant_not_configured"
      [] x.tenant \in Tenant /\ cap \notin Granted -> "capability_not_granted"
      [] x.tenant \in Tenant /\ cap \in Granted /\ Entitles(x.groups) -> "allowed"
      [] OTHER -> IF Entitled = {} THEN "not_entitled"
                  ELSE IF Fresh(x.user)
                       THEN IF Entitles(cache[x.user].groups) THEN "allowed" ELSE "not_entitled"
                       ELSE IF resolver = "fail_closed" THEN "membership_unresolved" ELSE "ask"

(* Mutant: the entry is emptied, not dropped. *)
CacheEmptied(x, verdict) ==
    IF verdict \in {"ask", "membership_unresolved"}
    THEN [cache EXCEPT ![x.user] = [groups |-> {}]] ELSE cache

(* Asking the directory drops the entry; a verdict leaves the cache alone,
   but for the fail-closed resolver, which raises after the entry is gone. *)
CacheAfterFirst(x, verdict) ==
    IF verdict \in {"ask", "membership_unresolved"}
    THEN [cache EXCEPT ![x.user] = NoEntry] ELSE cache

(* The rest of evaluate, once the directory has answered. *)
SecondVerdict(t) ==
    IF task[t].phase # "answered" THEN "membership_unresolved"
    ELSE IF Entitles(task[t].groups) THEN "allowed" ELSE "not_entitled"

(* Mutant: the entry lives TTL from the answer. *)
CacheFromAnswer(t, u) ==
    IF task[t].phase = "answered" /\ TTL > 0
    THEN [cache EXCEPT ![u] = [groups |-> task[t].groups, until |-> clock + TTL]]
    ELSE cache

(* The entry lives TTL from the time that was read before asking. *)
CacheAfterAnswer(t, u) ==
    IF task[t].phase = "answered" /\ TTL > 0
    THEN [cache EXCEPT ![u] = [groups |-> task[t].groups, until |-> task[t].began + TTL]]
    ELSE cache

Resolved == {"answered", "unresolved"}

----------------------------------------------------------------------------
(* Opening a session: tools_for *)

(* The event loop stays with a session that has a capability left to check
   and waits for nothing. *)
Checking(s) == session[s].phase = "building" /\ task[s].phase = "idle"
LoopFree    == \A s \in Session : ~Checking(s)

(* The capabilities in order of their names. *)
Sorted(caps) ==
    LET only(c) == IF c \in caps THEN <<c>> ELSE <<>>
    IN  only("database_query") \o only("database_schema")

OpenSession(s, x, names) ==
    LET requested == Sorted(names \cap Granted) IN
    /\ LoopFree /\ session[s].phase = "none"
    /\ session' = [session EXCEPT ![s] =
           [phase |-> IF requested = <<>> THEN "ready" ELSE "building",
            subject |-> x, todo |-> requested, tools |-> {}]]
    /\ reply' = NoReply
    /\ UNCHANGED <<clock, resolver, member, entitledAt, cache, task, thread, audit, exposed>>

(* Mutant: the decision is recorded, the tool is given either way. *)
AuthorizedAnyway(s, verdict) ==
    /\ exposed' = [exposed EXCEPT ![s] =
           Append(@, [cap |-> Head(session[s].todo),
                      outcome |-> IF verdict = "allowed" THEN "allowed" ELSE "denied",
                      category |-> IF verdict = "allowed" THEN NoValue ELSE verdict])]
    /\ session' = [session EXCEPT
           ![s].todo  = Tail(@),
           ![s].tools = @ \cup {Head(session[s].todo)},
           ![s].phase = IF Len(session[s].todo) = 1 THEN "ready" ELSE @]

(* authorize: one event, and the tool if the capability is allowed. *)
Authorized(s, verdict) ==
    LET allowed == verdict = "allowed"
        todo    == Tail(session[s].todo)
        cap     == Head(session[s].todo)
    IN  /\ exposed' = [exposed EXCEPT ![s] =
               Append(@, [cap |-> cap, outcome |-> IF allowed THEN "allowed" ELSE "denied",
                          category |-> IF allowed THEN NoValue ELSE verdict])]
        /\ session' = [session EXCEPT
               ![s].todo  = todo,
               ![s].tools = IF allowed THEN @ \cup {cap} ELSE @,
               ![s].phase = IF todo = <<>> THEN "ready" ELSE @]

CheckCapability(s) ==
    LET x       == session[s].subject
        verdict == FirstVerdict(x, Head(session[s].todo))
    IN  /\ Checking(s)
        /\ cache' = CacheAfterFirst(x, verdict)
        /\ IF verdict = "ask"
           THEN /\ task' = [task EXCEPT ![s].phase = "resolving", ![s].began = clock]
                /\ UNCHANGED <<session, exposed>>
           ELSE Authorized(s, verdict) /\ UNCHANGED task
        /\ reply' = NoReply
        /\ UNCHANGED <<clock, resolver, member, entitledAt, thread, audit>>

CapabilityAnswered(s) ==
    /\ LoopFree /\ session[s].phase = "building" /\ task[s].phase \in Resolved
    /\ cache' = CacheAfterAnswer(s, session[s].subject.user)
    /\ Authorized(s, SecondVerdict(s))
    /\ task' = [task EXCEPT ![s] = Idle]
    /\ reply' = NoReply
    /\ UNCHANGED <<clock, resolver, member, entitledAt, thread, audit>>

----------------------------------------------------------------------------
(* A call of a guarded tool *)

UserOf(t) == IF t \in Session THEN session[t].subject.user
             ELSE session[task[t].session].subject.user

(* Mutant: the truncation is read off truncated_by, which schemas lack. *)
EventByLimit(answer) ==
    [outcome |-> answer.status, rows |-> Len(answer.rows), truncated |-> answer.by # NoValue]

(* _result_metadata of an answer, and the event emit_audit makes of it.  A
   sink that raises is ignored: an event is one call of the sink. *)
Event(answer) ==
    [outcome |-> answer.status, rows |-> Len(answer.rows), truncated |-> answer.truncated]
DeniedEvent == [outcome |-> "denied", rows |-> 0, truncated |-> FALSE]
ErrorEvent  == [outcome |-> "error", rows |-> 0, truncated |-> FALSE]

(* The caller gets its answer and the audit sink the event. *)
Finish(c, phase, event, cap, answer, asked) ==
    /\ task' = [task EXCEPT ![c] = [Idle EXCEPT !.phase = phase]]
    /\ audit' = [audit EXCEPT ![c] = Append(@, event)]
    /\ reply' = [status |-> answer.status, call |-> c, cap |-> cap, asked |-> asked,
                 rows |-> answer.rows, truncated |-> answer.truncated]

FinishWith(c, cap, answer, asked) == Finish(c, "done", Event(answer), cap, answer, asked)

Requests(cap) == IF cap = "database_query" THEN QueryRequests ELSE SchemaRequests

(* The request's own checks and, for a query, the SQL gate; for discovery,
   the check of the schema it names. *)
RequestAccepted(cap, q) ==
    IF cap = "database_query"
    THEN QueryRequestValid(q) /\ StatementAccepted(q.stmt)
    ELSE SchemaRequestValid(q) /\ SchemaApproved(q)

(* The body of the tool, up to the start of its worker thread. *)
EnterTool(c, s, cap, q) ==
    IF RequestAccepted(cap, q)
    THEN /\ task' = [task EXCEPT ![c] = [Idle EXCEPT !.phase = "executing", !.session = s,
                                                     !.cap = cap, !.request = q]]
         /\ thread' = [thread EXCEPT ![c] = "opening"]
         /\ reply' = NoReply
         /\ UNCHANGED audit
    ELSE FinishWith(c, cap, ErrorAnswer("validation_error"), <<>>) /\ UNCHANGED thread

(* Mutant: the refusal is recorded but the tool runs. *)
RefuseAndRun(c, cap) ==
    /\ Finish(c, "denied", DeniedEvent, cap, ErrorAnswer("authorization_error"), <<>>)
    /\ thread' = [thread EXCEPT ![c] = "open"]

Refuse(c, cap) ==
    /\ Finish(c, "denied", DeniedEvent, cap, ErrorAnswer("authorization_error"), <<>>)
    /\ UNCHANGED thread

(* guarded, up to its first await. *)
BeginCall(c, s, cap, q) ==
    LET x       == session[s].subject
        verdict == FirstVerdict(x, cap)
    IN  /\ LoopFree /\ task[c].phase = "idle"
        /\ session[s].phase = "ready" /\ cap \in session[s].tools
        /\ cache' = CacheAfterFirst(x, verdict)
        /\ CASE verdict = "allowed" -> EnterTool(c, s, cap, q)
             [] verdict = "ask" ->
                  /\ task' = [task EXCEPT ![c] = [Idle EXCEPT !.phase = "resolving",
                                  !.session = s, !.cap = cap, !.began = clock]]
                  /\ reply' = NoReply
                  /\ UNCHANGED <<audit, thread>>
             [] OTHER -> Refuse(c, cap)
        /\ UNCHANGED <<clock, resolver, member, entitledAt, session, exposed>>

(* guarded, once the directory has answered. *)
CallAnswered(c, q) ==
    LET t == task[c] IN
    /\ LoopFree /\ t.phase \in Resolved
    /\ cache' = CacheAfterAnswer(c, UserOf(c))
    /\ IF SecondVerdict(c) = "allowed" THEN EnterTool(c, t.session, t.cap, q) ELSE Refuse(c, t.cap)
    /\ UNCHANGED <<clock, resolver, member, entitledAt, session, exposed>>

----------------------------------------------------------------------------
(* The worker thread of a call: to_thread does not stop when the caller is
   cancelled *)

ThreadStep(c, from, to) ==
    /\ thread[c] = from
    /\ thread' = [thread EXCEPT ![c] = to]
    /\ reply' = NoReply
    /\ UNCHANGED <<clock, resolver, member, entitledAt, cache, session, task, audit, exposed>>

(* A thread whose caller is gone ends without anybody to tell. *)
Result(c, status) == IF task[c].phase = "executing" THEN status ELSE "over"

(* _bounded_sql comes before the connection. *)
Bounded(c) ==
    task[c].cap = "database_query" => task[c].request.stmt.limit.form # "unboundable"

CannotBound(c) == ThreadStep(c, "opening", "validation_error") /\ ~Bounded(c)

Opens(c) == ThreadStep(c, "opening", "open") /\ Bounded(c)

OpenFails(c, e) == ThreadStep(c, "opening", Result(c, MapError(e))) /\ Bounded(c)

(* _cursor closes the connection it opened whatever happened. *)
Reads(c)        == ThreadStep(c, "open", Result(c, "read"))
ReadFails(c, e) == ThreadStep(c, "open", Result(c, MapError(e)))

(* An error of that close is not one of DatabaseError: nothing maps it. *)
CloseRaises(c)  == ThreadStep(c, "open", Result(c, "raised"))

Ended == {"read", "raised", "validation_error"} \cup {MapError(e) : e \in Failures}

(* The guard gets the tool's result back, or its exception. *)
Receive(c, data) ==
    LET cap == task[c].cap
        q   == task[c].request
    IN  /\ LoopFree /\ task[c].phase = "executing" /\ thread[c] \in Ended
        /\ thread' = [thread EXCEPT ![c] = IF @ = "validation_error" THEN "none" ELSE "over"]
        /\ CASE thread[c] = "raised" ->
                  Finish(c, "done", ErrorEvent, cap, ErrorAnswer("raised"), <<>>)
             [] thread[c] = "read" /\ cap = "database_query" ->
                  FinishWith(c, cap, Success(QueryAnswer(q.stmt, data)), AskedRows(q.stmt, data))
             [] thread[c] = "read" /\ cap = "database_schema" ->
                  FinishWith(c, cap, Success(SchemaAnswer(q, data)), CatalogMatch(q, data))
             [] OTHER -> FinishWith(c, cap, ErrorAnswer(thread[c]), <<>>)
        /\ UNCHANGED <<clock, resolver, member, entitledAt, cache, session, exposed>>

Data(c) == IF thread[c] # "read" THEN {<<>>}
           ELSE IF task[c].cap = "database_query" THEN Tables ELSE Catalogs

----------------------------------------------------------------------------
(* Cancellation: CancelledError passes by every `except Exception` *)

CancelCall(c) ==
    /\ LoopFree /\ task[c].phase \in {"resolving", "executing"} \cup Resolved
    /\ task' = [task EXCEPT ![c] =
           IF @.phase = "executing" THEN [@ EXCEPT !.phase = "abandoned"]
           ELSE [Idle EXCEPT !.phase = "withdrawn"]]
    /\ reply' = NoReply
    /\ UNCHANGED <<clock, resolver, member, entitledAt, cache, session, thread, audit, exposed>>

CancelOpening(s) ==
    /\ LoopFree /\ session[s].phase = "building"
    /\ session' = [session EXCEPT ![s] = [Closed EXCEPT !.phase = "cancelled"]]
    /\ task' = [task EXCEPT ![s] = Idle]
    /\ reply' = NoReply
    /\ UNCHANGED <<clock, resolver, member, entitledAt, cache, thread, audit, exposed>>

----------------------------------------------------------------------------
(* The world *)

(* The directory looks the user up, at one point of time. *)
DirectoryReads(t) ==
    /\ task[t].phase = "resolving"
    /\ task' = [task EXCEPT ![t].phase = "answered", ![t].groups = member[UserOf(t)]]
    /\ reply' = NoReply
    /\ UNCHANGED <<clock, resolver, member, entitledAt, cache, session, thread, audit, exposed>>

(* It raises, or answers None. *)
DirectoryFails(t) ==
    /\ task[t].phase = "resolving"
    /\ task' = [task EXCEPT ![t].phase = "unresolved"]
    /\ reply' = NoReply
    /\ UNCHANGED <<clock, resolver, member, entitledAt, cache, session, thread, audit, exposed>>

ChangeMembership(u, groups) ==
    /\ groups # member[u]
    /\ member' = [member EXCEPT ![u] = groups]
    /\ entitledAt' = [entitledAt EXCEPT ![u] = IF Entitles(groups) THEN clock ELSE @]
    /\ reply' = NoReply
    /\ UNCHANGED <<clock, resolver, cache, session, task, thread, audit, exposed>>

Tick ==
    /\ clock < MaxClock
    /\ clock' = clock + 1
    /\ entitledAt' = [u \in User |-> IF Entitles(member[u]) THEN clock' ELSE entitledAt[u]]
    /\ reply' = NoReply
    /\ UNCHANGED <<resolver, member, cache, session, task, thread, audit, exposed>>

----------------------------------------------------------------------------
SessionStep(s) ==
    \/ \E x \in Subject, names \in SUBSET Capability : OpenSession(s, x, names)
    \/ CheckCapability(s)
    \/ CapabilityAnswered(s)
    \/ CancelOpening(s)

CallStep(c) ==
    \/ \E s \in Session, cap \in Capability : \E q \in Requests(cap) : BeginCall(c, s, cap, q)
    \/ \E q \in Requests(task[c].cap) : CallAnswered(c, q)
    \/ \E data \in Data(c) : Receive(c, data)
    \/ CancelCall(c)

ThreadRuns(c) ==
    \/ CannotBound(c) \/ Opens(c) \/ Reads(c) \/ CloseRaises(c)
    \/ \E e \in Failures : OpenFails(c, e) \/ ReadFails(c, e)

World ==
    \/ \E t \in Task : DirectoryReads(t) \/ DirectoryFails(t)
    \/ \E u \in User, groups \in SUBSET Group : ChangeMembership(u, groups)
    \/ Tick

Next ==
    \/ \E s \in Session : SessionStep(s)
    \/ \E c \in Call : CallStep(c) \/ ThreadRuns(c)
    \/ World

Spec == Init /\ [][Next]_vars

----------------------------------------------------------------------------
(* Properties *)

Entry == [groups : SUBSET Group, until : Int]
AllRequests == QueryRequests \cup SchemaRequests \cup {NoValue}
TaskState ==
    [phase : {"idle", "resolving", "executing", "done", "denied", "withdrawn", "abandoned"}
             \cup Resolved,
     session : Session \cup {NoValue}, cap : Capability \cup {NoValue}, request : AllRequests,
     began : Nat, groups : SUBSET Group]

(* Every variable has a value of its kind. *)
TypeOK ==
    /\ clock \in Nat
    /\ resolver \in {"fail_closed", "directory"}
    /\ member \in [User -> SUBSET Group]
    /\ entitledAt \in [User -> Int]
    /\ cache \in [User -> Entry \cup {NoEntry}]
    /\ \A s \in Session :
          /\ session[s].phase \in {"none", "building", "ready", "cancelled"}
          /\ session[s].phase \in {"building", "ready"} => session[s].subject \in Subject
          /\ session[s].tools \subseteq Capability
    /\ task \in [Task -> TaskState]
    /\ thread \in [Call -> {"none", "opening", "open", "over"} \cup Ended]

(* While a session's token does not carry an entitled group, a tool is given
   to it, and a call of a tool let through, only if the user was in an entitled
   group while the directory was being asked, or less than TTL before the check
   began: a membership that was taken away is honoured for that long and no
   longer, however slowly the directory answers ("caches resolved membership for
   at most five minutes"). *)
EvidenceRecent(u, began) == entitledAt[u] >= began \/ entitledAt[u] + TTL > began
Began(t) == IF task[t].phase \in Resolved THEN task[t].began ELSE clock
AdmittedRecently ==
    [][ /\ \A s \in Session :
              session'[s].tools \ session[s].tools # {} /\ ~Entitles(session[s].subject.groups)
                  => EvidenceRecent(UserOf(s), Began(s))
        /\ \A c \in Call :
              task[c].phase \in Resolved \cup {"idle"} /\ task'[c].phase \in {"executing", "done"} =>
                  \E s \in Session :
                      /\ session[s].phase = "ready"
                      /\ \/ Entitles(session[s].subject.groups)
                         \/ EvidenceRecent(UserOf(s), Began(c)) ]_vars

(* The audit trail tells what the callers were told: one event for a call that
   was answered, with the outcome, the number of rows and the truncation its
   caller saw, and none before that or for a call that was cancelled. *)
AuditTruth ==
    /\ \A c \in Call :
          audit[c] = <<>> <=> task[c].phase \notin {"done", "denied"}
    /\ \A c \in Call : Len(audit[c]) <= 1
    /\ reply # NoReply =>
          LET e == audit[reply.call][1] IN
          /\ CASE task[reply.call].phase = "denied" ->
                     e.outcome = "denied" /\ reply.status = "authorization_error"
                [] reply.status = "raised" -> e.outcome = "error"
                [] OTHER -> e.outcome = reply.status
          /\ e.rows = Len(reply.rows) /\ e.truncated = reply.truncated

(* A query's answer says that it is truncated exactly when it leaves out, or
   cuts, something the statement asked for; and it stays within the limits. *)
ResultHonest ==
    reply # NoReply /\ reply.cap = "database_query" /\ reply.status = "success" =>
        LET intact == /\ reply.rows = reply.asked
                      /\ \A i \in DOMAIN reply.asked : \A j \in DOMAIN reply.asked[i] :
                            ~IsCut(reply.asked[i][j])
        IN  /\ reply.truncated <=> ~intact
            /\ Len(reply.rows) <= MaxRows
            /\ Fitting(reply.rows) = Len(reply.rows)

(* Schema discovery returns every matching object, with all its columns, or
   says that it is truncated, as long as the columns fit the fetch. *)
CatalogHonest ==
    reply # NoReply /\ reply.cap = "database_schema" /\ reply.status = "success" =>
        /\ Len(reply.rows) <= MaxRows
        /\ reply.truncated => Len(reply.asked) > MaxRows
        /\ ColumnsUpTo(reply.asked, AtMost(Len(reply.asked), MaxRows + 1)) <= ColumnBudget =>
               /\ reply.truncated <=> Len(reply.asked) > MaxRows
               /\ reply.rows = Take(reply.asked, MaxRows)

(* A session has the tools whose exposure was allowed, each of them decided
   and put on the audit trail once, and none that it did not ask for. *)
ExposureAudited ==
    \A s \in Session :
        /\ \A i, j \in DOMAIN exposed[s] : exposed[s][i].cap = exposed[s][j].cap => i = j
        /\ session[s].phase \in {"building", "ready"} =>
              session[s].tools = {exposed[s][i].cap : i \in {k \in DOMAIN exposed[s] :
                                                             exposed[s][k].outcome = "allowed"}}

(* What a caller, the database and the auditor see of the calls is what
   ToolGate promises. *)
GateOf(c) ==
    CASE task[c].phase = "idle"      -> "idle"
      [] task[c].phase = "denied"    -> "refused"
      [] task[c].phase = "executing" -> "admitted"
      [] task[c].phase = "done"      -> "answered"
      [] task[c].phase \in {"withdrawn", "abandoned"} -> task[c].phase
      [] OTHER -> "pending"
Contacted(c) == thread[c] \notin {"none", "opening", "validation_error"}
TrailOf(c) ==
    IF audit[c] = <<>> THEN "none"
    ELSE IF Len(audit[c]) > 1 THEN "repeated"
    ELSE CASE audit[c][1].outcome \in {"denied", "error", "success"} -> audit[c][1].outcome
           [] audit[c][1].outcome = "validation_error" -> "rejected"
           [] OTHER -> "unavailable"

Gate == INSTANCE ToolGate WITH
            gate    <- [c \in Call |-> GateOf(c)],
            contact <- [c \in Call |-> Contacted(c)],
            trail   <- [c \in Call |-> TrailOf(c)]

(* The calls of the guarded tools implement ToolGate. *)
ImplementsGate == Gate!GateSpec
===============================================================================
