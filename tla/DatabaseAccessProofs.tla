------------------------- MODULE DatabaseAccessProofs --------------------------
(* Safety of DatabaseAccess, for any sets of sessions, calls, users and groups,
   any requests, tables and catalogs, any TTL and any clock: the types, how old
   a membership may be that lets a call through, the audit trail, what callers are
   told of the rows and the objects they get, which tools a session has, and that
   the guarded calls implement ToolGate. *)
EXTENDS DatabaseAccess, DatabaseResultProofs

(* The classes of a driver's failure. *)
Mapped == {"authentication_error", "configuration_error", "authorization_error",
           "trust_error", "transient_error", "query_error"}

(* _map_error answers with one of its classes: it never reports success, or
   that the request was refused. *)
LEMMA MapErrorMapped == ASSUME NEW e PROVE MapError(e) \in Mapped
BY DEF MapError, Mapped

(* So a worker thread ends with its rows, an exception, a request that cannot
   be bounded, or one of these classes. *)
LEMMA EndedStates == Ended \subseteq {"read", "raised", "validation_error"} \cup Mapped
BY MapErrorMapped DEF Ended

(* The capabilities in their order are a sequence of capabilities. *)
LEMMA SortedCapabilities == ASSUME NEW caps PROVE Sorted(caps) \in Seq(Capability)
<1> DEFINE only(c) == IF c \in caps THEN <<c>> ELSE <<>>
<1>1. \A c \in Capability : only(c) \in Seq(Capability)
  OBVIOUS
<1>2. only("database_query") \in Seq(Capability) /\ only("database_schema") \in Seq(Capability)
  BY <1>1 DEF Capability
<1> HIDE DEF only
<1>3. only("database_query") \o only("database_schema") \in Seq(Capability)
  BY <1>2
<1> QED BY <1>3 DEF Sorted, only

-------------------------------------------------------------------------------
Verdict == {"allowed", "ask", "tenant_not_configured", "capability_not_granted", "not_entitled",
            "membership_unresolved"}
SessionState ==
    [phase : {"none", "building", "ready", "cancelled"}, subject : Subject \cup {NoValue},
     todo : Seq(Capability), tools : SUBSET Capability]
Decision == [cap : Capability, outcome : {"allowed", "denied"},
             category : Verdict \cup {NoValue}]

(* The types of what the proofs read. *)
Typed ==
    /\ clock \in Nat
    /\ resolver \in {"fail_closed", "directory"}
    /\ member \in [User -> SUBSET Group]
    /\ entitledAt \in [User -> Int]
    /\ cache \in [User -> Entry \cup {NoEntry}]
    /\ session \in [Session -> SessionState]
    /\ \A s \in Session : session[s].phase \in {"building", "ready"} => session[s].subject \in Subject
    /\ \A s \in Session : session[s].phase = "building" => session[s].todo # <<>>
    /\ task \in [Task -> TaskState]
    /\ thread \in [Call -> {"none", "opening", "open", "over"} \cup Ended]

(* Which task waits for the directory, and for whom; and what is executed. *)
Pending == {"resolving"} \cup Resolved
Waiting ==
    /\ \A s \in Session :
          /\ task[s].phase \in {"idle"} \cup Pending
          /\ task[s].phase \in Pending => session[s].phase = "building"
    /\ \A c \in Call : task[c].phase \in Pending =>
          /\ task[c].session \in Session /\ session[task[c].session].phase = "ready"
          /\ task[c].cap \in Capability
    /\ \A c \in Call : task[c].phase = "executing" => task[c].cap \in Capability

(* A decision is one of six. *)
LEMMA FirstVerdictType == ASSUME NEW x, NEW cap PROVE FirstVerdict(x, cap) \in Verdict
BY DEF FirstVerdict, Verdict

(* The second one does not ask again. *)
LEMMA SecondVerdictType == ASSUME NEW t PROVE SecondVerdict(t) \in Verdict \ {"ask"}
BY DEF SecondVerdict, Verdict

-------------------------------------------------------------------------------
(* What the parts of an action do to the types. *)

Tasks   == [Task -> TaskState]
Threads == [Call -> {"none", "opening", "open", "over"} \cup Ended]

(* A task that stands idle, or is over, is in one of the states. *)
LEMMA IdleTyped ==
    ASSUME NEW p \in {"idle", "done", "denied", "withdrawn"}
    PROVE  [Idle EXCEPT !.phase = p] \in TaskState
BY DEF Idle, TaskState, AllRequests

(* Answering a caller keeps the types. *)
LEMMA FinishTyped ==
    ASSUME Typed, NEW c \in Call, NEW p \in {"done", "denied"}, NEW event, NEW cap, NEW answer,
           NEW asked, Finish(c, p, event, cap, answer, asked)
    PROVE  task' \in Tasks
BY IdleTyped DEF Finish, Typed, Tasks, Task

(* So does starting a tool, or rejecting its request. *)
LEMMA EnterTyped ==
    ASSUME Typed, NEW c \in Call, NEW s \in Session, NEW cap \in Capability,
           NEW q \in Requests(cap), EnterTool(c, s, cap, q)
    PROVE  task' \in Tasks /\ thread' \in Threads
<1>1. CASE RequestAccepted(cap, q)
  <2>1. [Idle EXCEPT !.phase = "executing", !.session = s, !.cap = cap, !.request = q] \in TaskState
    BY DEF Idle, TaskState, AllRequests, Requests
  <2> QED BY <1>1, <2>1 DEF EnterTool, Typed, Tasks, Threads, Task
<1>2. CASE ~RequestAccepted(cap, q)
  BY <1>2, FinishTyped DEF EnterTool, FinishWith, Typed, Threads
<1> QED BY <1>1, <1>2

(* The cache keeps its type while a decision is begun, *)
LEMMA CacheFirstTyped ==
    ASSUME Typed, NEW x, NEW v
    PROVE  CacheAfterFirst(x, v) \in [User -> Entry \cup {NoEntry}]
BY DEF Typed, CacheAfterFirst

(* and when the directory has answered. *)
LEMMA CacheAnswerTyped ==
    ASSUME Typed, NEW t \in Task, NEW u
    PROVE  CacheAfterAnswer(t, u) \in [User -> Entry \cup {NoEntry}]
<1>1. task[t].groups \in SUBSET Group /\ task[t].began + TTL \in Int
  BY AccessAssumption DEF Typed, TaskState
<1>2. [groups |-> task[t].groups, until |-> task[t].began + TTL] \in Entry
  BY <1>1 DEF Entry
<1> QED BY <1>2 DEF Typed, CacheAfterAnswer

(* A decision about a session keeps the type of the session. *)
LEMMA AuthorizedTyped ==
    ASSUME Typed, NEW s \in Session, NEW v \in Verdict, session[s].phase = "building",
           Authorized(s, v)
    PROVE  /\ session' \in [Session -> SessionState]
           /\ \A r \in Session : session'[r].phase \in {"building", "ready"} =>
                 session'[r].subject \in Subject
           /\ \A r \in Session : session'[r].phase = "building" => session'[r].todo # <<>>
           /\ \A r \in Session : session'[r].subject = session[r].subject
           /\ \A r \in Session \ {s} : session'[r] = session[r]
           /\ session'[s].phase \in {"building", "ready"}
<1> DEFINE todo  == Tail(session[s].todo)
           tools == IF v = "allowed" THEN session[s].tools \cup {Head(session[s].todo)}
                                     ELSE session[s].tools
           phase == IF todo = <<>> THEN "ready" ELSE "building"
           next  == [session[s] EXCEPT !.todo = todo, !.tools = tools, !.phase = phase]
<1>1. session[s] \in SessionState /\ session[s].todo \in Seq(Capability) /\ session[s].todo # <<>>
  BY DEF Typed, SessionState
<1>2. todo \in Seq(Capability) /\ Head(session[s].todo) \in Capability
  BY <1>1
<1>3. tools \in SUBSET Capability
  BY <1>1, <1>2 DEF SessionState
<1>4. session' = [session EXCEPT ![s] = next]
  BY <1>1 DEF Authorized
<1> HIDE DEF todo, tools
<1>5. /\ next \in SessionState /\ next.todo = todo /\ next.phase = phase
      /\ next.subject = session[s].subject
  BY <1>1, <1>2, <1>3 DEF SessionState
<1> QED BY <1>4, <1>5 DEF Typed

-------------------------------------------------------------------------------
(* Sessions and calls are different tasks. *)
LEMMA TasksApart == Task = Session \cup Call /\ \A s \in Session : s \notin Call
BY AccessAssumption DEF Task

(* A request that is under way has a user. *)
LEMMA SubjectUser ==
    ASSUME Typed, NEW s \in Session, session[s].phase \in {"building", "ready"}
    PROVE  session[s].subject \in Subject /\ session[s].subject.user \in User
BY AccessAssumption DEF Typed

(* The opening of a session keeps the types, and who waits. *)
LEMMA SessionTyped ==
    ASSUME Typed, Waiting, NEW s \in Session, SessionStep(s)
    PROVE  Typed' /\ Waiting'
<1> USE TasksApart
<1>1. ASSUME NEW x \in Subject, NEW names \in SUBSET Capability, OpenSession(s, x, names)
      PROVE  Typed' /\ Waiting'
  <2> DEFINE requested == Sorted(names \cap Granted)
  <2>1. requested \in Seq(Capability)
    BY SortedCapabilities
  <2> HIDE DEF requested
  <2>2. session' = [session EXCEPT ![s] =
           [phase |-> IF requested = <<>> THEN "ready" ELSE "building",
            subject |-> x, todo |-> requested, tools |-> {}]]
    BY <1>1 DEF OpenSession, requested
  <2>3. Typed'
    BY <1>1, <2>1, <2>2 DEF OpenSession, Typed, SessionState
  <2>4. session[s].phase = "none"
    BY <1>1 DEF OpenSession
  <2>5. Waiting'
    BY <1>1, <2>2, <2>4 DEF OpenSession, Typed, Waiting, Pending, Resolved
  <2> QED BY <2>3, <2>5
<1>2. CASE CheckCapability(s)
  <2> DEFINE x == session[s].subject
             v == FirstVerdict(x, Head(session[s].todo))
  <2>1. v \in Verdict
    BY FirstVerdictType
  <2> HIDE DEF v
  <2>2. cache' = CacheAfterFirst(x, v)
    BY <1>2 DEF CheckCapability, v
  <2>3. cache' \in [User -> Entry \cup {NoEntry}]
    BY <2>2, CacheFirstTyped
  <2>4. session[s].phase = "building" /\ task[s].phase = "idle"
    BY <1>2 DEF CheckCapability, Checking
  <2>5. CASE v = "ask"
    <3> DEFINE next == [task[s] EXCEPT !.phase = "resolving", !.began = clock]
    <3>1. task[s] \in TaskState /\ clock \in Nat
      BY DEF Typed
    <3>2. next \in TaskState /\ next.phase = "resolving"
      BY <3>1 DEF TaskState
    <3>3. UNCHANGED <<clock, resolver, member, entitledAt, session, thread>>
      BY <1>2, <2>5 DEF CheckCapability, v
    <3>4. task' = [task EXCEPT ![s] = next]
      BY <1>2, <2>5, <3>1 DEF CheckCapability, v, Typed
    <3> HIDE DEF next
    <3> QED BY <3>2, <3>3, <3>4, <2>3, <2>4 DEF Typed, Waiting, Pending, Resolved
  <2>6. CASE v # "ask"
    <3>1. /\ Authorized(s, v)
          /\ UNCHANGED <<clock, resolver, member, entitledAt, task, thread>>
      BY <1>2, <2>6 DEF CheckCapability, v
    <3>2. Typed'
      BY <2>1, <2>3, <2>4, <3>1, AuthorizedTyped DEF Typed
    <3>3. Waiting'
      BY <2>1, <2>4, <3>1, AuthorizedTyped DEF Waiting, Pending, Resolved
    <3> QED BY <3>2, <3>3
  <2> QED BY <2>5, <2>6
<1>3. CASE CapabilityAnswered(s)
  <2>1. /\ session[s].phase = "building"
        /\ Authorized(s, SecondVerdict(s))
        /\ cache' = CacheAfterAnswer(s, session[s].subject.user)
        /\ task' = [task EXCEPT ![s] = Idle]
        /\ UNCHANGED <<clock, resolver, member, entitledAt, thread>>
    BY <1>3 DEF CapabilityAnswered
  <2>2. SecondVerdict(s) \in Verdict
    BY SecondVerdictType
  <2>3. cache' \in [User -> Entry \cup {NoEntry}]
    BY <2>1, CacheAnswerTyped
  <2>4. Idle \in TaskState /\ Idle.phase = "idle"
    BY DEF Idle, TaskState, AllRequests
  <2>5. Typed'
    BY <2>1, <2>2, <2>3, <2>4, AuthorizedTyped DEF Typed
  <2>6. \A r \in Session : session[r].phase = "ready" => session'[r].phase = "ready"
    BY <2>1, <2>2, AuthorizedTyped
  <2>7. \A r \in Session \ {s} : session'[r] = session[r]
    BY <2>1, <2>2, AuthorizedTyped
  <2>8. Waiting'
    BY <2>1, <2>4, <2>6, <2>7 DEF Waiting, Pending, Resolved, Typed
  <2> QED BY <2>5, <2>8
<1>4. CASE CancelOpening(s)
  <2>0. <<>> \in Seq(Capability)
    OBVIOUS
  <2>1. [Closed EXCEPT !.phase = "cancelled"] \in SessionState
        /\ [Closed EXCEPT !.phase = "cancelled"].phase = "cancelled"
    BY <2>0 DEF Closed, SessionState
  <2>2. Idle \in TaskState /\ Idle.phase = "idle"
    BY DEF Idle, TaskState, AllRequests
  <2> QED BY <1>4, <2>1, <2>2 DEF CancelOpening, Typed, Waiting, Pending, Resolved
<1> QED BY <1>1, <1>2, <1>3, <1>4 DEF SessionStep

(* A call that waits for nobody any more leaves the others waiting as they do. *)
LEMMA CallWaits ==
    ASSUME Waiting, NEW c \in Call, UNCHANGED session,
           \A t \in Task \ {c} : task'[t] = task[t],
           task'[c].phase \notin Pending,
           task'[c].phase = "executing" => task'[c].cap \in Capability
    PROVE  Waiting'
BY TasksApart DEF Waiting, Pending, Resolved

(* A task that was answered is over, *)
LEMMA FinishLeaves ==
    ASSUME Typed, NEW c \in Call, NEW p, NEW event, NEW cap, NEW answer,
           NEW asked, Finish(c, p, event, cap, answer, asked)
    PROVE  /\ \A t \in Task \ {c} : task'[t] = task[t]
           /\ task'[c].phase = p
BY TasksApart DEF Finish, Typed, Idle

(* and one whose tool was called has started or is over. *)
LEMMA EnterLeaves ==
    ASSUME Typed, NEW c \in Call, NEW s, NEW cap, NEW q, EnterTool(c, s, cap, q)
    PROVE  /\ \A t \in Task \ {c} : task'[t] = task[t]
           /\ task'[c].phase = IF RequestAccepted(cap, q) THEN "executing" ELSE "done"
           /\ task'[c].phase = "executing" => task'[c].cap = cap
<1>1. CASE RequestAccepted(cap, q)
  <2> DEFINE next == [Idle EXCEPT !.phase = "executing", !.session = s, !.cap = cap, !.request = q]
  <2>1. next.phase = "executing" /\ next.cap = cap
    BY DEF Idle
  <2>2. task' = [task EXCEPT ![c] = next]
    BY <1>1 DEF EnterTool
  <2> HIDE DEF next
  <2> QED BY <1>1, <2>1, <2>2, TasksApart DEF Typed
<1>2. CASE ~RequestAccepted(cap, q)
  BY <1>2, FinishLeaves DEF EnterTool, FinishWith
<1> QED BY <1>1, <1>2

(* The steps of a call keep the types, and who waits. *)
LEMMA CallTyped ==
    ASSUME Typed, Waiting, NEW c \in Call, CallStep(c)
    PROVE  Typed' /\ Waiting'
<1> USE TasksApart
<1>1. ASSUME NEW s \in Session, NEW cap \in Capability, NEW q \in Requests(cap),
             BeginCall(c, s, cap, q)
      PROVE  Typed' /\ Waiting'
  <2> DEFINE x == session[s].subject
             v == FirstVerdict(x, cap)
  <2>1. cache' = CacheAfterFirst(x, v)
        /\ UNCHANGED <<clock, resolver, member, entitledAt, session>>
        /\ session[s].phase = "ready"
    BY <1>1 DEF BeginCall
  <2>2. cache' \in [User -> Entry \cup {NoEntry}]
    BY <2>1, CacheFirstTyped
  <2>3. CASE v = "allowed"
    <3>1. EnterTool(c, s, cap, q)
      BY <1>1, <2>3 DEF BeginCall
    <3>2. Typed'
      BY <2>1, <2>2, <3>1, EnterTyped DEF Typed, Tasks, Threads
    <3>3. Waiting'
      BY <2>1, <3>1, EnterLeaves, CallWaits DEF Pending, Resolved
    <3> QED BY <3>2, <3>3
  <2>4. CASE v = "ask"
    <3> DEFINE next == [Idle EXCEPT !.phase = "resolving", !.session = s, !.cap = cap,
                                    !.began = clock]
    <3>1. next \in TaskState /\ next.session = s /\ next.cap = cap /\ next.phase = "resolving"
      BY DEF Idle, TaskState, AllRequests, Typed
    <3>2. task' = [task EXCEPT ![c] = next] /\ UNCHANGED thread
      BY <1>1, <2>4 DEF BeginCall
    <3> HIDE DEF next
    <3>3. Waiting'
      BY <2>1, <3>1, <3>2 DEF Typed, Waiting, Pending, Resolved
    <3> QED BY <2>1, <2>2, <3>1, <3>2, <3>3 DEF Typed
  <2>5. CASE v \notin {"allowed", "ask"}
    <3>1. Refuse(c, cap)
      BY <1>1, <2>5 DEF BeginCall
    <3>2. Typed'
      BY <2>1, <2>2, <3>1, FinishTyped DEF Refuse, Typed, Tasks
    <3>3. Waiting'
      BY <2>1, <3>1, FinishLeaves, CallWaits DEF Refuse, Pending, Resolved
    <3> QED BY <3>2, <3>3
  <2> QED BY <2>3, <2>4, <2>5
<1>2. ASSUME NEW q \in Requests(task[c].cap), CallAnswered(c, q)
      PROVE  Typed' /\ Waiting'
  <2>1. /\ cache' = CacheAfterAnswer(c, UserOf(c))
        /\ UNCHANGED <<clock, resolver, member, entitledAt, session>>
        /\ task[c].phase \in Pending
    BY <1>2 DEF CallAnswered, Pending
  <2>2. cache' \in [User -> Entry \cup {NoEntry}]
    BY <2>1, CacheAnswerTyped
  <2>3. task[c].session \in Session /\ task[c].cap \in Capability
    BY <2>1 DEF Waiting
  <2>4. CASE SecondVerdict(c) = "allowed"
    <3>1. EnterTool(c, task[c].session, task[c].cap, q)
      BY <1>2, <2>4 DEF CallAnswered
    <3>2. Typed'
      BY <2>1, <2>2, <2>3, <3>1, EnterTyped DEF Typed, Tasks, Threads
    <3>3. Waiting'
      <4>1. task'[c].phase = "executing" => task'[c].cap \in Capability
        BY <2>3, <3>1, EnterLeaves
      <4>2. task'[c].phase \notin Pending /\ \A t \in Task \ {c} : task'[t] = task[t]
        BY <3>1, EnterLeaves DEF Pending, Resolved
      <4> QED BY <2>1, <4>1, <4>2, CallWaits
    <3> QED BY <3>2, <3>3
  <2>5. CASE SecondVerdict(c) # "allowed"
    <3>1. Refuse(c, task[c].cap)
      BY <1>2, <2>5 DEF CallAnswered
    <3>2. Typed'
      BY <2>1, <2>2, <3>1, FinishTyped DEF Refuse, Typed, Tasks
    <3>3. Waiting'
      BY <2>1, <3>1, FinishLeaves, CallWaits DEF Refuse, Pending, Resolved
    <3> QED BY <3>2, <3>3
  <2> QED BY <2>4, <2>5
<1>3. ASSUME NEW data, Receive(c, data)
      PROVE  Typed' /\ Waiting'
  <2>1. PICK event, answer, asked : Finish(c, "done", event, task[c].cap, answer, asked)
    BY <1>3 DEF Receive, FinishWith
  <2>2. /\ UNCHANGED <<clock, resolver, member, entitledAt, cache, session>>
        /\ thread' = [thread EXCEPT ![c] = IF @ = "validation_error" THEN "none" ELSE "over"]
    BY <1>3 DEF Receive
  <2>3. Typed'
    BY <2>1, <2>2, FinishTyped DEF Typed, Tasks
  <2>4. Waiting'
    BY <2>1, <2>2, FinishLeaves, CallWaits DEF Pending, Resolved
  <2> QED BY <2>3, <2>4
<1>4. CASE CancelCall(c)
  <2>1. UNCHANGED <<clock, resolver, member, entitledAt, cache, session, thread>>
    BY <1>4 DEF CancelCall
  <2>2. CASE task[c].phase = "executing"
    <3> DEFINE next == [task[c] EXCEPT !.phase = "abandoned"]
    <3>1. next \in TaskState /\ next.phase = "abandoned"
      BY DEF Typed, TaskState
    <3>2. task' = [task EXCEPT ![c] = next]
      BY <1>4, <2>2 DEF CancelCall, Typed
    <3> HIDE DEF next
    <3>3. \A t \in Task \ {c} : task'[t] = task[t]
      BY <3>2 DEF Typed
    <3>4. Waiting'
      BY <2>1, <3>1, <3>2, <3>3, CallWaits DEF Pending, Resolved, Typed
    <3> QED BY <2>1, <3>1, <3>2, <3>4 DEF Typed
  <2>3. CASE task[c].phase # "executing"
    <3> DEFINE next == [Idle EXCEPT !.phase = "withdrawn"]
    <3>1. next \in TaskState /\ next.phase = "withdrawn"
      BY IdleTyped DEF Idle
    <3>2. task' = [task EXCEPT ![c] = next]
      BY <1>4, <2>3 DEF CancelCall, Typed
    <3> HIDE DEF next
    <3>3. \A t \in Task \ {c} : task'[t] = task[t]
      BY <3>2 DEF Typed
    <3>4. Waiting'
      BY <2>1, <3>1, <3>2, <3>3, CallWaits DEF Pending, Resolved, Typed
    <3> QED BY <2>1, <3>1, <3>2, <3>4 DEF Typed
  <2> QED BY <2>2, <2>3
<1> QED BY <1>1, <1>2, <1>3, <1>4 DEF CallStep

(* A step of a worker thread leaves the thread in one of its states, and nothing
   else changes. *)
LEMMA ThreadRunsTo ==
    ASSUME NEW c \in Call, ThreadRuns(c)
    PROVE  /\ UNCHANGED <<clock, resolver, member, entitledAt, cache, session, task, audit, exposed>>
           /\ reply' = NoReply
           /\ \E to \in {"open", "over"} \cup Ended : thread' = [thread EXCEPT ![c] = to]
<1>1. \A e \in Failures : MapError(e) \in Ended
  BY DEF Ended
<1>2. \A status : Result(c, status) \in {status, "over"}
  BY DEF Result
<1>3. {"read", "raised", "validation_error"} \subseteq Ended
  BY DEF Ended
<1>4. CASE CannotBound(c) \/ Opens(c) \/ Reads(c) \/ CloseRaises(c)
  BY <1>2, <1>3, <1>4 DEF CannotBound, Opens, Reads, CloseRaises, ThreadStep
<1>5. ASSUME NEW e \in Failures, OpenFails(c, e) \/ ReadFails(c, e)
      PROVE  /\ UNCHANGED <<clock, resolver, member, entitledAt, cache, session, task, audit, exposed>>
             /\ reply' = NoReply
             /\ \E to \in {"open", "over"} \cup Ended : thread' = [thread EXCEPT ![c] = to]
  BY <1>1, <1>2, <1>5 DEF OpenFails, ReadFails, ThreadStep
<1> QED BY <1>4, <1>5 DEF ThreadRuns

(* The directory, the memberships and the clock keep the types, and who waits. *)
LEMMA WorldTyped ==
    ASSUME Typed, Waiting, World
    PROVE  Typed' /\ Waiting'
<1> USE TasksApart
<1>1. ASSUME NEW t \in Task, DirectoryReads(t) PROVE Typed' /\ Waiting'
  <2> DEFINE next == [task[t] EXCEPT !.phase = "answered", !.groups = member[UserOf(t)]]
  <2>1. task[t].phase = "resolving" /\ task' = [task EXCEPT ![t] = next]
        /\ UNCHANGED <<clock, resolver, member, entitledAt, cache, session, thread>>
    BY <1>1 DEF DirectoryReads, Typed
  <2>2. UserOf(t) \in User
    <3>1. CASE t \in Session
      BY <2>1, <3>1, SubjectUser DEF Waiting, Pending, UserOf
    <3>2. CASE t \in Call
      BY <2>1, <3>2, SubjectUser DEF Waiting, Pending, UserOf
    <3> QED BY <3>1, <3>2
  <2>3. member[UserOf(t)] \in SUBSET Group
    BY <2>2 DEF Typed
  <2>4. /\ next \in TaskState /\ next.phase = "answered"
        /\ next.session = task[t].session /\ next.cap = task[t].cap
    BY <2>3 DEF TaskState, Typed, Resolved
  <2> HIDE DEF next
  <2>5. Typed'
    BY <2>1, <2>4 DEF Typed
  <2>6. Waiting'
    BY <2>1, <2>4 DEF Waiting, Pending, Resolved, Typed
  <2> QED BY <2>5, <2>6
<1>2. ASSUME NEW t \in Task, DirectoryFails(t) PROVE Typed' /\ Waiting'
  <2> DEFINE next == [task[t] EXCEPT !.phase = "unresolved"]
  <2>1. task[t].phase = "resolving" /\ task' = [task EXCEPT ![t] = next]
        /\ UNCHANGED <<clock, resolver, member, entitledAt, cache, session, thread>>
    BY <1>2 DEF DirectoryFails, Typed
  <2>2. /\ next \in TaskState /\ next.phase = "unresolved"
        /\ next.session = task[t].session /\ next.cap = task[t].cap
    BY DEF TaskState, Typed, Resolved
  <2> HIDE DEF next
  <2>3. Typed'
    BY <2>1, <2>2 DEF Typed
  <2>4. Waiting'
    BY <2>1, <2>2 DEF Waiting, Pending, Resolved, Typed
  <2> QED BY <2>3, <2>4
<1>3. ASSUME NEW u \in User, NEW groups \in SUBSET Group, ChangeMembership(u, groups)
      PROVE  Typed' /\ Waiting'
  BY <1>3 DEF ChangeMembership, Typed, Waiting
<1>4. CASE Tick
  BY <1>4 DEF Tick, Typed, Waiting
<1> QED BY <1>1, <1>2, <1>3, <1>4 DEF World

(* Every step keeps the types, and who waits. *)
LEMMA TypedStep == Typed /\ Waiting /\ [Next]_vars => Typed' /\ Waiting'
<1> SUFFICES ASSUME Typed, Waiting, [Next]_vars PROVE Typed' /\ Waiting'
  OBVIOUS
<1>1. ASSUME NEW s \in Session, SessionStep(s) PROVE Typed' /\ Waiting'
  BY <1>1, SessionTyped
<1>2. ASSUME NEW c \in Call, CallStep(c) PROVE Typed' /\ Waiting'
  BY <1>2, CallTyped
<1>3. ASSUME NEW c \in Call, ThreadRuns(c) PROVE Typed' /\ Waiting'
  BY <1>3, ThreadRunsTo DEF Typed, Waiting
<1>4. CASE World
  BY <1>4, WorldTyped
<1>5. CASE UNCHANGED vars
  BY <1>5 DEF vars, Typed, Waiting
<1> QED BY <1>1, <1>2, <1>3, <1>4, <1>5 DEF Next

(* The first state has the types. *)
LEMMA TypedInit == Init => Typed /\ Waiting
<1>1. <<>> \in Seq(Capability)
  OBVIOUS
<1>2. Idle \in TaskState /\ Idle.phase = "idle"
  BY DEF Idle, TaskState, AllRequests
<1>3. Closed \in SessionState /\ Closed.phase = "none"
  BY <1>1 DEF Closed, SessionState
<1>4. Never \in Int
  BY AccessAssumption DEF Never
<1> QED BY <1>2, <1>3, <1>4, TasksApart DEF Init, Typed, Waiting, Pending, Resolved, Entry

(* The types, and that a session which is open has the subject of a token. *)
THEOREM TypeCorrect == Spec => []TypeOK
<1>1. Typed => TypeOK
  BY DEF Typed, TypeOK, SessionState
<1> QED BY <1>1, TypedInit, TypedStep, PTL DEF Spec

-------------------------------------------------------------------------------
(* How old a membership can be.  An entry that entitles its user runs out TTL
   after a time at which the user was entitled, since it counts from before the
   directory was asked; and an answer that entitles was true at some time since. *)
Timed ==
    /\ \A u \in User : entitledAt[u] <= clock
    /\ \A u \in User : Entitles(member[u]) => entitledAt[u] = clock
    /\ \A u \in User : cache[u] # NoEntry /\ Entitles(cache[u].groups) =>
          cache[u].until <= entitledAt[u] + TTL
    /\ \A t \in Task : task[t].phase \in Pending => task[t].began <= clock
    /\ \A t \in Task : task[t].phase = "answered" /\ Entitles(task[t].groups) =>
          task[t].began <= entitledAt[UserOf(t)]

(* A task that is not over: it stays as it is, starts to wait for the directory,
   or is answered by it. *)
Progress(t) ==
    \/ task'[t] = task[t]
    \/ task'[t].phase \notin Pending
    \/ task[t].phase \notin Pending /\ task'[t].phase = "resolving" /\ task'[t].began = clock
    \/ /\ task[t].phase = "resolving" /\ UNCHANGED <<clock, member, entitledAt, session>>
       /\ \/ task'[t] = [task[t] EXCEPT !.phase = "unresolved"]
          \/ task'[t] = [task[t] EXCEPT !.phase = "answered", !.groups = member[UserOf(t)]]

(* A user's entry stays, is dropped, or is made from an answer. *)
Remembered(u) ==
    \/ cache'[u] = cache[u] \/ cache'[u] = NoEntry
    \/ \E t \in Task :
          /\ task[t].phase = "answered" /\ u = UserOf(t)
          /\ cache'[u] = [groups |-> task[t].groups, until |-> task[t].began + TTL]

(* Dropping an entry is all that beginning a decision does to the cache. *)
LEMMA FirstRemembered ==
    ASSUME Typed, NEW x, NEW v, cache' = CacheAfterFirst(x, v), NEW u \in User
    PROVE  Remembered(u)
BY DEF CacheAfterFirst, Typed, Remembered

(* An answer makes an entry of the user who was asked about. *)
LEMMA AnswerRemembered ==
    ASSUME Typed, NEW t \in Task, cache' = CacheAfterAnswer(t, UserOf(t)), NEW u \in User
    PROVE  Remembered(u)
BY DEF CacheAfterAnswer, Typed, Remembered

(* What the opening of a session does to tasks and cache. *)
LEMMA SessionProgress ==
    ASSUME Typed, Waiting, NEW s \in Session, SessionStep(s)
    PROVE  /\ \A t \in Task : Progress(t)
           /\ \A u \in User : Remembered(u)
           /\ UNCHANGED <<clock, member, entitledAt>>
<1> USE TasksApart
<1>1. ASSUME NEW x \in Subject, NEW names \in SUBSET Capability, OpenSession(s, x, names)
      PROVE  UNCHANGED <<task, cache, clock, member, entitledAt>>
  BY <1>1 DEF OpenSession
<1>2. CASE CheckCapability(s)
  <2> DEFINE x == session[s].subject
             v == FirstVerdict(x, Head(session[s].todo))
  <2>1. cache' = CacheAfterFirst(x, v) /\ UNCHANGED <<clock, member, entitledAt>>
        /\ task[s].phase = "idle"
    BY <1>2 DEF CheckCapability, Checking
  <2>2. \/ UNCHANGED task
        \/ task' = [task EXCEPT ![s].phase = "resolving", ![s].began = clock]
    BY <1>2 DEF CheckCapability
  <2>3. \A t \in Task : Progress(t)
    BY <2>1, <2>2 DEF Progress, Typed, TaskState, Pending, Resolved
  <2> QED BY <2>1, <2>3, FirstRemembered
<1>3. CASE CapabilityAnswered(s)
  <2>1. /\ cache' = CacheAfterAnswer(s, UserOf(s)) /\ UNCHANGED <<clock, member, entitledAt>>
        /\ task' = [task EXCEPT ![s] = Idle]
    BY <1>3 DEF CapabilityAnswered, UserOf
  <2>2. \A t \in Task : Progress(t)
    BY <2>1 DEF Progress, Typed, Pending, Resolved, Idle
  <2> QED BY <2>1, <2>2, AnswerRemembered
<1>4. CASE CancelOpening(s)
  <2>1. /\ task' = [task EXCEPT ![s] = Idle]
        /\ UNCHANGED <<cache, clock, member, entitledAt>>
    BY <1>4 DEF CancelOpening
  <2> QED BY <2>1 DEF Progress, Remembered, Typed, Pending, Resolved, Idle
<1> QED BY <1>1, <1>2, <1>3, <1>4 DEF SessionStep, Progress, Remembered

(* A task that was answered does not wait. *)
LEMMA FinishProgress ==
    ASSUME Typed, NEW c \in Call, NEW p \in {"done", "denied"}, NEW event, NEW cap, NEW answer,
           NEW asked, Finish(c, p, event, cap, answer, asked)
    PROVE  \A t \in Task : Progress(t)
BY FinishLeaves DEF Progress, Pending, Resolved

(* The tool's body, too, ends a wait. *)
LEMMA EnterProgress ==
    ASSUME Typed, NEW c \in Call, NEW s, NEW cap, NEW q, EnterTool(c, s, cap, q)
    PROVE  \A t \in Task : Progress(t)
BY EnterLeaves DEF Progress, Pending, Resolved

(* What a call does to them. *)
LEMMA CallProgress ==
    ASSUME Typed, Waiting, NEW c \in Call, CallStep(c)
    PROVE  /\ \A t \in Task : Progress(t)
           /\ \A u \in User : Remembered(u)
           /\ UNCHANGED <<clock, member, entitledAt, session>>
<1> USE TasksApart
<1>1. ASSUME NEW s \in Session, NEW cap \in Capability, NEW q \in Requests(cap),
             BeginCall(c, s, cap, q)
      PROVE  /\ \A t \in Task : Progress(t)
             /\ \A u \in User : Remembered(u)
             /\ UNCHANGED <<clock, member, entitledAt, session>>
  <2> DEFINE x == session[s].subject
             v == FirstVerdict(x, cap)
  <2>1. cache' = CacheAfterFirst(x, v) /\ UNCHANGED <<clock, member, entitledAt, session>>
        /\ task[c].phase = "idle"
    BY <1>1 DEF BeginCall
  <2>2. ASSUME v = "allowed" PROVE \A t \in Task : Progress(t)
    <3>1. EnterTool(c, s, cap, q)
      BY <1>1, <2>2 DEF BeginCall
    <3> QED BY <3>1, EnterProgress
  <2>3. ASSUME v = "ask" PROVE \A t \in Task : Progress(t)
    <3> DEFINE next == [Idle EXCEPT !.phase = "resolving", !.session = s, !.cap = cap,
                                    !.began = clock]
    <3>1. next.phase = "resolving" /\ next.began = clock
      BY DEF Idle
    <3>2. task' = [task EXCEPT ![c] = next]
      BY <1>1, <2>3 DEF BeginCall
    <3> HIDE DEF next
    <3> QED BY <2>1, <3>1, <3>2 DEF Progress, Pending, Resolved, Typed
  <2>4. ASSUME v \notin {"allowed", "ask"} PROVE \A t \in Task : Progress(t)
    <3>1. Refuse(c, cap)
      BY <1>1, <2>4 DEF BeginCall
    <3> QED BY <3>1, FinishProgress DEF Refuse
  <2> QED BY <2>1, <2>2, <2>3, <2>4, FirstRemembered
<1>2. ASSUME NEW q \in Requests(task[c].cap), CallAnswered(c, q)
      PROVE  /\ \A t \in Task : Progress(t)
             /\ \A u \in User : Remembered(u)
             /\ UNCHANGED <<clock, member, entitledAt, session>>
  <2>1. cache' = CacheAfterAnswer(c, UserOf(c)) /\ UNCHANGED <<clock, member, entitledAt, session>>
    BY <1>2 DEF CallAnswered
  <2>2. CASE SecondVerdict(c) = "allowed"
    <3>1. EnterTool(c, task[c].session, task[c].cap, q)
      BY <1>2, <2>2 DEF CallAnswered
    <3> QED BY <2>1, <3>1, EnterProgress, AnswerRemembered
  <2>3. CASE SecondVerdict(c) # "allowed"
    <3>1. Refuse(c, task[c].cap)
      BY <1>2, <2>3 DEF CallAnswered
    <3> QED BY <2>1, <3>1, FinishProgress, AnswerRemembered DEF Refuse
  <2> QED BY <2>2, <2>3
<1>3. ASSUME NEW data, Receive(c, data)
      PROVE  /\ \A t \in Task : Progress(t)
             /\ UNCHANGED <<cache, clock, member, entitledAt, session>>
  <2>1. PICK event, answer, asked : Finish(c, "done", event, task[c].cap, answer, asked)
    BY <1>3 DEF Receive, FinishWith
  <2>2. UNCHANGED <<cache, clock, member, entitledAt, session>>
    BY <1>3 DEF Receive
  <2> QED BY <2>1, <2>2, FinishProgress
<1>4. ASSUME CancelCall(c)
      PROVE  /\ \A t \in Task : Progress(t)
             /\ UNCHANGED <<cache, clock, member, entitledAt, session>>
  <2> DEFINE next == IF task[c].phase = "executing" THEN [task[c] EXCEPT !.phase = "abandoned"]
                     ELSE [Idle EXCEPT !.phase = "withdrawn"]
  <2>1. next.phase \in {"abandoned", "withdrawn"}
    BY DEF Idle, Typed, TaskState
  <2>2. task' = [task EXCEPT ![c] = next] /\ UNCHANGED <<cache, clock, member, entitledAt, session>>
    BY <1>4 DEF CancelCall, Typed
  <2> HIDE DEF next
  <2> QED BY <2>1, <2>2 DEF Progress, Pending, Resolved, Typed
<1> QED BY <1>1, <1>2, <1>3, <1>4 DEF CallStep, Remembered

(* The directory answers, or gives up. *)
LEMMA DirectoryProgress ==
    ASSUME Typed, NEW t \in Task, DirectoryReads(t) \/ DirectoryFails(t)
    PROVE  /\ \A r \in Task : Progress(r)
           /\ UNCHANGED <<cache, clock, member, entitledAt, session>>
<1>1. CASE DirectoryReads(t)
  <2> DEFINE next == [task[t] EXCEPT !.phase = "answered", !.groups = member[UserOf(t)]]
  <2>1. task' = [task EXCEPT ![t] = next] /\ task[t].phase = "resolving"
        /\ UNCHANGED <<cache, clock, member, entitledAt, session>>
    BY <1>1 DEF DirectoryReads, Typed
  <2>2. task'[t] = next /\ \A r \in Task \ {t} : task'[r] = task[r]
    BY <2>1 DEF Typed
  <2> QED BY <2>1, <2>2 DEF Progress
<1>2. CASE DirectoryFails(t)
  <2> DEFINE next == [task[t] EXCEPT !.phase = "unresolved"]
  <2>1. task' = [task EXCEPT ![t] = next] /\ task[t].phase = "resolving"
        /\ UNCHANGED <<cache, clock, member, entitledAt, session>>
    BY <1>2 DEF DirectoryFails, Typed
  <2>2. task'[t] = next /\ \A r \in Task \ {t} : task'[r] = task[r]
    BY <2>1 DEF Typed
  <2> QED BY <2>1, <2>2 DEF Progress
<1> QED BY <1>1, <1>2

(* What a step leaves of the clock, the memberships and the times of them. *)
Clocks ==
    /\ clock <= clock'
    /\ \A u \in User : entitledAt[u] <= entitledAt'[u] /\ entitledAt'[u] <= clock'
    /\ \A u \in User : Entitles(member'[u]) => entitledAt'[u] = clock'

(* Any step makes such progress, and keeps the user of a task that waits. *)
LEMMA StepProgress ==
    ASSUME Typed, Waiting, Timed, [Next]_vars
    PROVE  /\ \A t \in Task : Progress(t)
           /\ \A u \in User : Remembered(u)
           /\ Clocks
<1>1. ASSUME UNCHANGED <<clock, member, entitledAt>> PROVE Clocks
  BY <1>1 DEF Clocks, Timed, Typed
<1>2. ASSUME NEW s \in Session, SessionStep(s)
      PROVE  (\A t \in Task : Progress(t)) /\ (\A u \in User : Remembered(u)) /\ Clocks
  BY <1>1, <1>2, SessionProgress
<1>3. ASSUME NEW c \in Call, CallStep(c)
      PROVE  (\A t \in Task : Progress(t)) /\ (\A u \in User : Remembered(u)) /\ Clocks
  BY <1>1, <1>3, CallProgress
<1>4. ASSUME NEW c \in Call, ThreadRuns(c)
      PROVE  (\A t \in Task : Progress(t)) /\ (\A u \in User : Remembered(u)) /\ Clocks
  BY <1>1, <1>4, ThreadRunsTo DEF Progress, Remembered
<1>5. ASSUME NEW t \in Task, DirectoryReads(t) \/ DirectoryFails(t)
      PROVE  (\A r \in Task : Progress(r)) /\ (\A u \in User : Remembered(u)) /\ Clocks
  BY <1>1, <1>5, DirectoryProgress DEF Remembered
<1>6. ASSUME NEW u \in User, NEW groups \in SUBSET Group, ChangeMembership(u, groups)
      PROVE  (\A r \in Task : Progress(r)) /\ (\A v \in User : Remembered(v)) /\ Clocks
  <2>1. UNCHANGED <<task, cache, clock>>
        /\ member' = [member EXCEPT ![u] = groups]
        /\ entitledAt' = [entitledAt EXCEPT ![u] = IF Entitles(groups) THEN clock ELSE entitledAt[u]]
    BY <1>6 DEF ChangeMembership
  <2>2. Clocks
    BY <2>1 DEF Clocks, Timed, Typed
  <2> QED BY <2>1, <2>2 DEF Progress, Remembered
<1>7. ASSUME Tick
      PROVE  (\A r \in Task : Progress(r)) /\ (\A v \in User : Remembered(v)) /\ Clocks
  <2>1. UNCHANGED <<task, cache, member>> /\ clock' = clock + 1
        /\ entitledAt' = [u \in User |-> IF Entitles(member[u]) THEN clock' ELSE entitledAt[u]]
    BY <1>7 DEF Tick
  <2>2. Clocks
    BY <2>1 DEF Clocks, Timed, Typed
  <2> QED BY <2>1, <2>2 DEF Progress, Remembered
<1>8. ASSUME UNCHANGED vars
      PROVE  (\A r \in Task : Progress(r)) /\ (\A v \in User : Remembered(v)) /\ Clocks
  BY <1>1, <1>8 DEF Progress, Remembered, vars
<1> QED BY <1>2, <1>3, <1>4, <1>5, <1>6, <1>7, <1>8 DEF Next, World

(* A session that is open keeps its subject. *)
LEMMA SubjectKept ==
    ASSUME Typed, Waiting, [Next]_vars, NEW s \in Session,
           session[s].phase \in {"building", "ready"}, session'[s].phase \in {"building", "ready"}
    PROVE  session'[s].subject = session[s].subject
<1>1. ASSUME NEW r \in Session, SessionStep(r) PROVE session'[s].subject = session[s].subject
  <2>1. ASSUME NEW x \in Subject, NEW names \in SUBSET Capability, OpenSession(r, x, names)
        PROVE  session'[s] = session[s]
    BY <2>1 DEF OpenSession, Typed
  <2>2. CASE CheckCapability(r)
    <3> DEFINE v == FirstVerdict(session[r].subject, Head(session[r].todo))
    <3>1. session[r].phase = "building" /\ (UNCHANGED session \/ Authorized(r, v))
      BY <2>2 DEF CheckCapability, Checking
    <3> QED BY <3>1, FirstVerdictType, AuthorizedTyped
  <2>3. CASE CapabilityAnswered(r)
    BY <2>3, SecondVerdictType, AuthorizedTyped DEF CapabilityAnswered
  <2>4. CASE CancelOpening(r)
    BY <2>4 DEF CancelOpening, Typed, Closed
  <2> QED BY <1>1, <2>1, <2>2, <2>3, <2>4 DEF SessionStep
<1>2. ASSUME NEW c \in Call, CallStep(c) PROVE UNCHANGED session
  BY <1>2, CallProgress
<1>3. ASSUME NEW c \in Call, ThreadRuns(c) PROVE UNCHANGED session
  BY <1>3, ThreadRunsTo
<1>4. CASE World
  BY <1>4, DirectoryProgress DEF World, ChangeMembership, Tick
<1>5. CASE UNCHANGED vars
  BY <1>5 DEF vars
<1> QED BY <1>1, <1>2, <1>3, <1>4, <1>5 DEF Next

(* So a task that goes on waiting waits for the same user. *)
LEMMA UserKept ==
    ASSUME Typed, Waiting, [Next]_vars, NEW t \in Task, Progress(t),
           task[t].phase \in Pending, task'[t].phase \in Pending
    PROVE  UserOf(t)' = UserOf(t) /\ UserOf(t) \in User
<1> USE TasksApart
<1>1. Waiting'
  BY TypedStep
<1>2. CASE t \in Session
  BY <1>1, <1>2, SubjectKept, SubjectUser DEF Waiting, UserOf
<1>3. CASE t \in Call
  <2>1. task'[t].session = task[t].session
    BY DEF Progress, Typed, TaskState
  <2> QED BY <1>1, <1>3, <2>1, SubjectKept, SubjectUser DEF Waiting, UserOf
<1> QED BY <1>2, <1>3

(* Every step keeps the times. *)
LEMMA TimedStep == Typed /\ Waiting /\ Timed /\ [Next]_vars => Timed'
<1> SUFFICES ASSUME Typed, Waiting, Timed, [Next]_vars PROVE Timed'
  OBVIOUS
<1> USE AccessAssumption
<1>1. /\ \A t \in Task : Progress(t)
      /\ \A u \in User : Remembered(u)
      /\ Clocks
  BY StepProgress
<1>2. Typed' /\ Waiting'
  BY TypedStep
<1>3. \A u \in User : cache'[u] # NoEntry /\ Entitles(cache'[u].groups) =>
          cache'[u].until <= entitledAt'[u] + TTL
  <2> SUFFICES ASSUME NEW u \in User, cache'[u] # NoEntry, Entitles(cache'[u].groups)
               PROVE  cache'[u].until <= entitledAt'[u] + TTL
    OBVIOUS
  <2>1. entitledAt[u] <= entitledAt'[u] /\ entitledAt[u] \in Int /\ entitledAt'[u] \in Int
    BY <1>1, <1>2 DEF Clocks, Typed
  <2>2. cache'[u].until \in Int
    BY <1>2 DEF Typed, Entry
  <2>3. CASE cache'[u] = cache[u]
    BY <2>1, <2>2, <2>3 DEF Timed
  <2>4. ASSUME NEW t \in Task, task[t].phase = "answered", u = UserOf(t),
               cache'[u] = [groups |-> task[t].groups, until |-> task[t].began + TTL]
        PROVE  cache'[u].until <= entitledAt'[u] + TTL
    <3>1. task[t].began <= entitledAt[u]
      BY <2>4 DEF Timed
    <3>2. task[t].began \in Int
      BY DEF Typed, TaskState
    <3> QED BY <2>1, <2>4, <3>1, <3>2
  <2> QED BY <1>1, <2>3, <2>4 DEF Remembered
<1>4. ASSUME NEW t \in Task, task'[t].phase \in Pending
      PROVE  /\ task'[t].began <= clock'
             /\ task'[t].phase = "answered" /\ Entitles(task'[t].groups) =>
                   task'[t].began <= entitledAt'[UserOf(t)']
  <2>1. clock \in Int /\ clock' \in Int /\ clock <= clock' /\ task'[t].began \in Int
    BY <1>1, <1>2 DEF Typed, Clocks, TaskState
  <2>2. CASE task'[t] = task[t]
    <3>1. UserOf(t)' = UserOf(t) /\ UserOf(t) \in User
      BY <1>1, <1>4, <2>2, UserKept
    <3>2. entitledAt[UserOf(t)] <= entitledAt'[UserOf(t)]
          /\ entitledAt[UserOf(t)] \in Int /\ entitledAt'[UserOf(t)] \in Int
      BY <1>1, <1>2, <3>1 DEF Clocks, Typed
    <3> QED BY <1>4, <2>1, <2>2, <3>1, <3>2 DEF Timed
  <2>3. CASE task'[t].phase = "resolving" /\ task'[t].began = clock
    BY <2>1, <2>3
  <2>4. CASE task[t].phase = "resolving" /\ UNCHANGED <<clock, member, entitledAt, session>>
             /\ task'[t] = [task[t] EXCEPT !.phase = "unresolved"]
    <3>1. task'[t].phase = "unresolved" /\ task'[t].began = task[t].began
      BY <2>4 DEF Typed, TaskState
    <3> QED BY <2>1, <2>4, <3>1 DEF Timed, Pending
  <2>5. CASE task[t].phase = "resolving" /\ UNCHANGED <<clock, member, entitledAt, session>>
             /\ task'[t] = [task[t] EXCEPT !.phase = "answered", !.groups = member[UserOf(t)]]
    <3>1. task'[t].began = task[t].began /\ task'[t].groups = member[UserOf(t)]
      BY <2>5 DEF Typed, TaskState
    <3>2. UserOf(t)' = UserOf(t) /\ UserOf(t) \in User
      BY <1>1, <1>4, <2>5, UserKept DEF Pending
    <3>3. task[t].began <= clock
      BY <2>5 DEF Timed, Pending
    <3>4. Entitles(member[UserOf(t)]) => entitledAt'[UserOf(t)'] = clock
      BY <2>5, <3>2 DEF Timed
    <3> QED BY <2>1, <2>5, <3>1, <3>3, <3>4
  <2> QED BY <1>1, <1>4, <2>2, <2>3, <2>4, <2>5 DEF Progress
<1> QED BY <1>1, <1>3, <1>4 DEF Timed, Clocks, Pending, Resolved

(* In the first state everybody entitled is so now. *)
LEMMA TimedInit == Init => Timed
<1> SUFFICES ASSUME Init PROVE Timed
  OBVIOUS
<1>1. clock = 0 /\ entitledAt = [u \in User |-> IF Entitles(member[u]) THEN 0 ELSE Never]
  BY DEF Init, Entitles
<1>2. Never \in Int /\ Never <= 0
  BY AccessAssumption DEF Never
<1>3. \A t \in Task : task[t].phase = "idle"
  BY DEF Init, Idle
<1> QED BY <1>1, <1>2, <1>3 DEF Init, Timed, Pending, Resolved

(* A capability that is allowed at once is so by the token's groups, or by an
   entry that has not run out. *)
LEMMA FirstAllowed ==
    ASSUME Typed, Timed, NEW x \in Subject, NEW cap, FirstVerdict(x, cap) = "allowed"
    PROVE  Entitles(x.groups) \/ entitledAt[x.user] + TTL > clock
<1>1. Entitles(x.groups) \/ (Fresh(x.user) /\ Entitles(cache[x.user].groups))
  BY DEF FirstVerdict
<1>2. x.user \in User
  BY AccessAssumption
<1>3. CASE Fresh(x.user) /\ Entitles(cache[x.user].groups)
  <2>1. cache[x.user] \in Entry
    BY <1>2, <1>3 DEF Fresh, Typed
  <2>2. cache[x.user].until > clock /\ cache[x.user].until <= entitledAt[x.user] + TTL
    BY <1>2, <1>3 DEF Fresh, Timed
  <2>3. cache[x.user].until \in Int /\ clock \in Int /\ entitledAt[x.user] \in Int /\ TTL \in Int
    BY <1>2, <2>1, AccessAssumption DEF Entry, Typed
  <2> QED BY <2>2, <2>3
<1> QED BY <1>1, <1>3

(* One that is allowed by the directory's answer was so while it was asked. *)
LEMMA SecondAllowed ==
    ASSUME Typed, Waiting, Timed, NEW t \in Task, task[t].phase \in Resolved,
           SecondVerdict(t) = "allowed", UserOf(t) \in User
    PROVE  entitledAt[UserOf(t)] >= task[t].began
<1>1. task[t].phase = "answered" /\ Entitles(task[t].groups)
  BY DEF SecondVerdict
<1>2. task[t].began \in Int /\ entitledAt[UserOf(t)] \in Int
  BY DEF Typed, TaskState
<1> QED BY <1>1, <1>2 DEF Timed

(* What AdmittedRecently says of one step. *)
Admits ==
    /\ \A s \in Session :
          session'[s].tools \ session[s].tools # {} /\ ~Entitles(session[s].subject.groups)
              => EvidenceRecent(UserOf(s), Began(s))
    /\ \A c \in Call :
          task[c].phase \in Resolved \cup {"idle"} /\ task'[c].phase \in {"executing", "done"} =>
              \E s \in Session :
                  /\ session[s].phase = "ready"
                  /\ \/ Entitles(session[s].subject.groups)
                     \/ EvidenceRecent(UserOf(s), Began(c))

(* A tool is given to a session on recent evidence. *)
LEMMA SessionAdmits ==
    ASSUME Typed, Waiting, Timed, NEW s \in Session, SessionStep(s)
    PROVE  Admits
<1> USE TasksApart
<1>1. ASSUME NEW x \in Subject, NEW names \in SUBSET Capability, OpenSession(s, x, names)
      PROVE  Admits
  <2>1. UNCHANGED task /\ \A r \in Session : r # s => session'[r] = session[r]
    BY <1>1 DEF OpenSession, Typed
  <2>2. session'[s].tools = {}
    BY <1>1 DEF OpenSession, Typed
  <2>3. \A r \in Session : session'[r].tools \ session[r].tools = {}
    BY <2>1, <2>2
  <2> QED BY <2>1, <2>3 DEF Admits, Resolved
<1>2. CASE CheckCapability(s)
  <2> DEFINE x == session[s].subject
             v == FirstVerdict(x, Head(session[s].todo))
  <2>1. session[s].phase = "building" /\ task[s].phase = "idle"
    BY <1>2 DEF CheckCapability, Checking
  <2>2. x \in Subject
    BY <2>1, SubjectUser
  <2>3. CASE v = "ask"
    <3>1. UNCHANGED session /\ \A c \in Call : task'[c] = task[c]
      BY <1>2, <2>3 DEF CheckCapability, Typed
    <3> QED BY <3>1 DEF Admits, Resolved
  <2>4. CASE v # "ask"
    <3>1. UNCHANGED task /\ Authorized(s, v)
      BY <1>2, <2>4 DEF CheckCapability
    <3>2. \A r \in Session : session'[r].tools \ session[r].tools # {} => r = s /\ v = "allowed"
      BY <3>1 DEF Authorized, Typed, SessionState
    <3>3. v = "allowed" => Entitles(x.groups) \/ EvidenceRecent(x.user, clock)
      BY <2>2, FirstAllowed DEF EvidenceRecent
    <3>4. UserOf(s) = x.user /\ Began(s) = clock
      BY <2>1 DEF UserOf, Began, Resolved
    <3> QED BY <3>1, <3>2, <3>3, <3>4 DEF Admits, Resolved
  <2> QED BY <2>3, <2>4
<1>3. CASE CapabilityAnswered(s)
  <2> DEFINE v == SecondVerdict(s)
  <2>1. /\ session[s].phase = "building" /\ task[s].phase \in Resolved
        /\ Authorized(s, v) /\ \A c \in Call : task'[c] = task[c]
    BY <1>3 DEF CapabilityAnswered, Typed
  <2>2. \A r \in Session : session'[r].tools \ session[r].tools # {} => r = s /\ v = "allowed"
    BY <2>1 DEF Authorized, Typed, SessionState
  <2>3. UserOf(s) \in User
    BY <2>1, SubjectUser DEF UserOf
  <2>4. v = "allowed" => EvidenceRecent(UserOf(s), Began(s))
    BY <2>1, <2>3, SecondAllowed DEF EvidenceRecent, Began
  <2> QED BY <2>1, <2>2, <2>4 DEF Admits, Resolved
<1>4. CASE CancelOpening(s)
  <2>1. session' = [session EXCEPT ![s] = [Closed EXCEPT !.phase = "cancelled"]]
        /\ [Closed EXCEPT !.phase = "cancelled"].tools = {}
        /\ \A c \in Call : task'[c] = task[c]
    BY <1>4 DEF CancelOpening, Typed, Closed
  <2>2. \A r \in Session : session'[r].tools \ session[r].tools = {}
    BY <2>1 DEF Typed
  <2> QED BY <2>1, <2>2 DEF Admits, Resolved
<1> QED BY <1>1, <1>2, <1>3, <1>4 DEF SessionStep

(* A call is let through on recent evidence. *)
LEMMA CallAdmits ==
    ASSUME Typed, Waiting, Timed, NEW c \in Call, CallStep(c)
    PROVE  Admits
<1> USE TasksApart
<1> DEFINE Evidence(r, began) ==
        /\ session[r].phase = "ready"
        /\ \/ Entitles(session[r].subject.groups)
           \/ EvidenceRecent(UserOf(r), began)
<1>0. ASSUME UNCHANGED session, \A t \in Task \ {c} : task'[t] = task[t],
             task[c].phase \in Resolved \cup {"idle"} /\ task'[c].phase \in {"executing", "done"} =>
                 \E s \in Session : Evidence(s, Began(c))
      PROVE  Admits
  BY <1>0 DEF Admits, Resolved
<1>1. ASSUME NEW s \in Session, NEW cap \in Capability, NEW q \in Requests(cap),
             BeginCall(c, s, cap, q)
      PROVE  Admits
  <2> DEFINE x == session[s].subject
             v == FirstVerdict(x, cap)
  <2>1. task[c].phase = "idle" /\ session[s].phase = "ready" /\ UNCHANGED session
    BY <1>1 DEF BeginCall
  <2>2. x \in Subject /\ UserOf(s) = x.user /\ Began(c) = clock
    BY <2>1, SubjectUser DEF UserOf, Began, Resolved
  <2>3. CASE v = "allowed"
    <3>1. EnterTool(c, s, cap, q)
      BY <1>1, <2>3 DEF BeginCall
    <3>2. Evidence(s, Began(c))
      BY <2>1, <2>2, <2>3, FirstAllowed DEF EvidenceRecent
    <3>3. \A t \in Task \ {c} : task'[t] = task[t]
      BY <3>1, EnterLeaves
    <3> QED BY <1>0, <2>1, <3>2, <3>3
  <2>4. CASE v = "ask"
    <3>1. /\ \A t \in Task \ {c} : task'[t] = task[t]
          /\ task'[c].phase = "resolving"
      BY <1>1, <2>4 DEF BeginCall, Typed, Idle
    <3> QED BY <1>0, <2>1, <3>1
  <2>5. CASE v \notin {"allowed", "ask"}
    <3>1. Refuse(c, cap)
      BY <1>1, <2>5 DEF BeginCall
    <3>2. (\A t \in Task \ {c} : task'[t] = task[t]) /\ task'[c].phase = "denied"
      BY <3>1, FinishLeaves DEF Refuse
    <3> QED BY <1>0, <2>1, <3>2
  <2> QED BY <2>3, <2>4, <2>5
<1>2. ASSUME NEW q \in Requests(task[c].cap), CallAnswered(c, q)
      PROVE  Admits
  <2>1. task[c].phase \in Resolved /\ UNCHANGED session
    BY <1>2 DEF CallAnswered
  <2>2. /\ task[c].session \in Session /\ session[task[c].session].phase = "ready"
        /\ UserOf(c) = UserOf(task[c].session) /\ UserOf(c) \in User /\ Began(c) = task[c].began
    BY <2>1, SubjectUser DEF Waiting, Pending, UserOf, Began
  <2>3. CASE SecondVerdict(c) = "allowed"
    <3>1. EnterTool(c, task[c].session, task[c].cap, q)
      BY <1>2, <2>3 DEF CallAnswered
    <3>2. Evidence(task[c].session, Began(c))
      BY <2>1, <2>2, <2>3, SecondAllowed DEF EvidenceRecent
    <3>3. \A t \in Task \ {c} : task'[t] = task[t]
      BY <3>1, EnterLeaves
    <3> QED BY <1>0, <2>1, <2>2, <3>2, <3>3
  <2>4. CASE SecondVerdict(c) # "allowed"
    <3>1. Refuse(c, task[c].cap)
      BY <1>2, <2>4 DEF CallAnswered
    <3>2. (\A t \in Task \ {c} : task'[t] = task[t]) /\ task'[c].phase = "denied"
      BY <3>1, FinishLeaves DEF Refuse
    <3> QED BY <1>0, <2>1, <3>2
  <2> QED BY <2>3, <2>4
<1>3. ASSUME NEW data, Receive(c, data) PROVE Admits
  <2>1. PICK event, answer, asked : Finish(c, "done", event, task[c].cap, answer, asked)
    BY <1>3 DEF Receive, FinishWith
  <2>2. task[c].phase = "executing" /\ UNCHANGED session
    BY <1>3 DEF Receive
  <2> QED BY <1>0, <2>1, <2>2, FinishLeaves DEF Resolved
<1>4. CASE CancelCall(c)
  <2> DEFINE next == IF task[c].phase = "executing" THEN [task[c] EXCEPT !.phase = "abandoned"]
                     ELSE [Idle EXCEPT !.phase = "withdrawn"]
  <2>1. next.phase \in {"abandoned", "withdrawn"}
    BY DEF Idle, Typed, TaskState
  <2>2. task' = [task EXCEPT ![c] = next] /\ UNCHANGED session
    BY <1>4 DEF CancelCall, Typed
  <2> HIDE DEF next
  <2> QED BY <1>0, <2>1, <2>2 DEF Typed
<1> QED BY <1>1, <1>2, <1>3, <1>4 DEF CallStep

(* However slowly the directory answers and however memberships change, a tool is
   exposed, and a call let through, on evidence that is at most TTL old. *)
THEOREM Staleness == Spec => AdmittedRecently
<1>1. Typed /\ Waiting /\ Timed /\ [Next]_vars => [Admits]_vars
  <2> SUFFICES ASSUME Typed, Waiting, Timed, Next PROVE Admits
    BY DEF Admits
  <2>1. ASSUME UNCHANGED session, \A c \in Call : \/ task'[c] = task[c]
                                                  \/ task'[c].phase \in Resolved
        PROVE  Admits
    BY <2>1 DEF Admits, Resolved
  <2>2. ASSUME NEW t \in Task, DirectoryReads(t) \/ DirectoryFails(t) PROVE Admits
    <3>1. UNCHANGED session /\ \A r \in Task \ {t} : task'[r] = task[r]
      BY <2>2 DEF DirectoryReads, DirectoryFails, Typed
    <3>2. task'[t].phase \in Resolved
      BY <2>2 DEF DirectoryReads, DirectoryFails, Typed, TaskState, Resolved
    <3> QED BY <2>1, <3>1, <3>2, TasksApart
  <2>3. ASSUME NEW c \in Call, ThreadRuns(c) PROVE Admits
    BY <2>1, <2>3, ThreadRunsTo
  <2>4. ASSUME NEW u \in User, NEW groups, ChangeMembership(u, groups) PROVE Admits
    BY <2>1, <2>4 DEF ChangeMembership
  <2>5. CASE Tick
    BY <2>1, <2>5 DEF Tick
  <2> QED BY <2>2, <2>3, <2>4, <2>5, SessionAdmits, CallAdmits DEF Next, World
<1> QED BY <1>1, TypedInit, TypedStep, TimedInit, TimedStep, PTL DEF Spec, AdmittedRecently, Admits

-------------------------------------------------------------------------------
(* The audit trail.  What an event says of the answer that goes with it. *)
Told(p, e, a) ==
    /\ p = "denied" => e.outcome = "denied" /\ a.status = "authorization_error"
    /\ p = "done" => e.outcome = IF a.status = "raised" THEN "error" ELSE a.status
    /\ e.rows = Len(a.rows) /\ e.truncated = a.truncated

Deciding == {"idle"} \cup Resolved
Goes(c, from, to) ==
    /\ task[c].phase \in from /\ task'[c].phase = to
    /\ \A t \in Task \ {c} : task'[t] = task[t]
Quiet == UNCHANGED audit /\ reply' = NoReply
Tells(c, p, from, outcomes) ==
    /\ Goes(c, from, p)
    /\ \E e, a, cap, asked : /\ Finish(c, p, e, cap, a, asked)
                             /\ Told(p, e, a) /\ e.outcome \in outcomes

(* All that a call can do to its task, its thread and the trail. *)
Asks(c)     == Goes(c, {"idle"}, "resolving") /\ UNCHANGED thread /\ Quiet
Admitted(c) == Goes(c, Deciding, "executing") /\ thread' = [thread EXCEPT ![c] = "opening"] /\ Quiet
Refused(c)  == Tells(c, "denied", Deciding, {"denied"}) /\ UNCHANGED thread
Rejected(c) == Tells(c, "done", Deciding, {"validation_error"}) /\ UNCHANGED thread
Unbounded(c) ==
    /\ thread[c] = "validation_error" /\ thread' = [thread EXCEPT ![c] = "none"]
    /\ Tells(c, "done", {"executing"}, {"validation_error"})
Returned(c) ==
    /\ thread[c] \in {"read", "raised"} \cup Mapped /\ thread' = [thread EXCEPT ![c] = "over"]
    /\ Tells(c, "done", {"executing"}, {"error", "success"} \cup Mapped)
Abandoned(c) == Goes(c, {"executing"}, "abandoned") /\ UNCHANGED thread /\ Quiet
Withdrawn(c) == Goes(c, Pending, "withdrawn") /\ UNCHANGED thread /\ Quiet
Moved(c) ==
    \/ Asks(c) \/ Admitted(c) \/ Refused(c) \/ Rejected(c) \/ Unbounded(c) \/ Returned(c)
    \/ Abandoned(c) \/ Withdrawn(c)

(* The event of an answer tells it, *)
LEMMA EventTells ==
    ASSUME NEW a, a.status # "raised"
    PROVE  Told("done", Event(a), a) /\ Event(a).outcome = a.status
BY DEF Told, Event

(* and so do those of a refusal and of an exception. *)
LEMMA FixedTell ==
    /\ Told("denied", DeniedEvent, ErrorAnswer("authorization_error"))
    /\ Told("done", ErrorEvent, ErrorAnswer("raised"))
    /\ \A status : ErrorAnswer(status).status = status
<1>1. Len(<<>>) = 0
  OBVIOUS
<1> QED BY <1>1 DEF Told, DeniedEvent, ErrorEvent, ErrorAnswer

(* An admitted call starts its thread, or its request is rejected. *)
LEMMA EnterMoves ==
    ASSUME Typed, NEW c \in Call, NEW s, NEW cap, NEW q, EnterTool(c, s, cap, q),
           task[c].phase \in Deciding
    PROVE  Moved(c)
<1>1. CASE RequestAccepted(cap, q)
  BY <1>1, EnterLeaves DEF EnterTool, Moved, Admitted, Goes, Quiet
<1>2. CASE ~RequestAccepted(cap, q)
  <2> DEFINE a == ErrorAnswer("validation_error")
  <2>1. Finish(c, "done", Event(a), cap, a, <<>>) /\ UNCHANGED thread
    BY <1>2 DEF EnterTool, FinishWith
  <2>2. Told("done", Event(a), a) /\ Event(a).outcome = "validation_error"
    BY FixedTell, EventTells
  <2> HIDE DEF a
  <2>3. Goes(c, Deciding, "done")
    BY <2>1, FinishLeaves DEF Goes
  <2> QED BY <2>1, <2>2, <2>3 DEF Moved, Rejected, Tells
<1> QED BY <1>1, <1>2

(* A refused call gets its answer and its event. *)
LEMMA RefuseMoves ==
    ASSUME Typed, NEW c \in Call, NEW cap, Refuse(c, cap), task[c].phase \in Deciding
    PROVE  Moved(c)
<1>1. Goes(c, Deciding, "denied")
  BY FinishLeaves DEF Refuse, Goes
<1>2. DeniedEvent.outcome = "denied"
  BY DEF DeniedEvent
<1> QED BY <1>1, <1>2, FixedTell DEF Refuse, Moved, Refused, Tells

(* So every step of a call is one of these moves. *)
LEMMA CallMoves ==
    ASSUME Typed, Waiting, NEW c \in Call, CallStep(c)
    PROVE  Moved(c)
<1> USE TasksApart
<1>1. ASSUME NEW s \in Session, NEW cap \in Capability, NEW q \in Requests(cap),
             BeginCall(c, s, cap, q)
      PROVE  Moved(c)
  <2> DEFINE v == FirstVerdict(session[s].subject, cap)
  <2>1. task[c].phase = "idle"
    BY <1>1 DEF BeginCall
  <2>2. CASE v = "allowed"
    <3>1. EnterTool(c, s, cap, q)
      BY <1>1, <2>2 DEF BeginCall
    <3> QED BY <2>1, <3>1, EnterMoves DEF Deciding
  <2>3. CASE v = "ask"
    <3> DEFINE next == [Idle EXCEPT !.phase = "resolving", !.session = s, !.cap = cap,
                                    !.began = clock]
    <3>1. next.phase = "resolving"
      BY DEF Idle
    <3>2. task' = [task EXCEPT ![c] = next] /\ UNCHANGED thread /\ Quiet
      BY <1>1, <2>3 DEF BeginCall, Quiet
    <3> HIDE DEF next
    <3> QED BY <2>1, <3>1, <3>2 DEF Moved, Asks, Goes, Typed
  <2>4. CASE v \notin {"allowed", "ask"}
    <3>1. Refuse(c, cap)
      BY <1>1, <2>4 DEF BeginCall
    <3> QED BY <2>1, <3>1, RefuseMoves DEF Deciding
  <2> QED BY <2>2, <2>3, <2>4
<1>2. ASSUME NEW q \in Requests(task[c].cap), CallAnswered(c, q)
      PROVE  Moved(c)
  <2>1. /\ task[c].phase \in Deciding
        /\ EnterTool(c, task[c].session, task[c].cap, q) \/ Refuse(c, task[c].cap)
    BY <1>2 DEF CallAnswered, Deciding
  <2> QED BY <2>1, EnterMoves, RefuseMoves
<1>3. ASSUME NEW data, Receive(c, data) PROVE Moved(c)
  <2> DEFINE cap == task[c].cap
             q   == task[c].request
  <2>1. /\ task[c].phase = "executing" /\ thread[c] \in Ended
        /\ thread' = [thread EXCEPT ![c] = IF @ = "validation_error" THEN "none" ELSE "over"]
    BY <1>3 DEF Receive
  <2>2. ASSUME NEW e, NEW a, NEW asked, NEW outcomes, Finish(c, "done", e, cap, a, asked),
               Told("done", e, a), e.outcome \in outcomes
        PROVE  Tells(c, "done", {"executing"}, outcomes)
    BY <2>1, <2>2, FinishLeaves DEF Tells, Goes
  <2>3. CASE thread[c] = "raised"
    <3>1. Finish(c, "done", ErrorEvent, cap, ErrorAnswer("raised"), <<>>)
      BY <1>3, <2>3 DEF Receive
    <3>2. ErrorEvent.outcome = "error"
      BY DEF ErrorEvent
    <3>3. Tells(c, "done", {"executing"}, {"error", "success"} \cup Mapped)
      BY <2>2, <3>1, <3>2, FixedTell
    <3> QED BY <2>1, <2>3, <3>3 DEF Moved, Returned
  <2>4. ASSUME NEW a, NEW asked, thread[c] = "read", FinishWith(c, cap, Success(a), asked)
        PROVE  Moved(c)
    <3>1. Success(a).status = "success"
      BY DEF Success
    <3>2. Finish(c, "done", Event(Success(a)), cap, Success(a), asked)
      BY <2>4 DEF FinishWith
    <3>3. Told("done", Event(Success(a)), Success(a)) /\ Event(Success(a)).outcome = "success"
      BY <3>1, EventTells
    <3>4. Tells(c, "done", {"executing"}, {"error", "success"} \cup Mapped)
      BY <2>2, <3>2, <3>3
    <3> QED BY <2>1, <2>4, <3>4 DEF Moved, Returned
  <2>5. ASSUME thread[c] # "raised", thread[c] # "read" \/ cap \notin Capability
        PROVE  FinishWith(c, cap, ErrorAnswer(thread[c]), <<>>)
    BY <1>3, <2>5 DEF Receive, Capability
  <2>6. CASE thread[c] \notin {"raised", "read"}
    <3> DEFINE a == ErrorAnswer(thread[c])
    <3>1. Finish(c, "done", Event(a), cap, a, <<>>)
      BY <2>5, <2>6 DEF FinishWith
    <3>2. Told("done", Event(a), a) /\ Event(a).outcome = thread[c]
      BY <2>6, FixedTell, EventTells
    <3> HIDE DEF a
    <3>3. CASE thread[c] = "validation_error"
      <4>1. Tells(c, "done", {"executing"}, {"validation_error"})
        BY <2>2, <3>1, <3>2, <3>3
      <4> QED BY <2>1, <3>3, <4>1 DEF Moved, Unbounded
    <3>4. CASE thread[c] # "validation_error"
      <4>1. thread[c] \in Mapped
        BY <2>1, <2>6, <3>4, EndedStates
      <4>2. Tells(c, "done", {"executing"}, {"error", "success"} \cup Mapped)
        BY <2>2, <3>1, <3>2, <4>1
      <4> QED BY <2>1, <3>4, <4>1, <4>2 DEF Moved, Returned
    <3> QED BY <3>3, <3>4
  <2>7. CASE thread[c] = "read" /\ cap = "database_query"
    <3>1. FinishWith(c, cap, Success(QueryAnswer(q.stmt, data)), AskedRows(q.stmt, data))
      BY <1>3, <2>7 DEF Receive
    <3> QED BY <2>4, <2>7, <3>1
  <2>8. CASE thread[c] = "read" /\ cap = "database_schema"
    <3>1. FinishWith(c, cap, Success(SchemaAnswer(q, data)), CatalogMatch(q, data))
      BY <1>3, <2>8 DEF Receive
    <3> QED BY <2>4, <2>8, <3>1
  <2>9. cap \in {"database_query", "database_schema"}
    BY <2>1 DEF Waiting, Capability
  <2> QED BY <2>3, <2>6, <2>7, <2>8, <2>9
<1>4. CASE CancelCall(c)
  <2> DEFINE next == IF task[c].phase = "executing" THEN [task[c] EXCEPT !.phase = "abandoned"]
                     ELSE [Idle EXCEPT !.phase = "withdrawn"]
  <2>1. next.phase = IF task[c].phase = "executing" THEN "abandoned" ELSE "withdrawn"
    BY DEF Idle, Typed, TaskState
  <2>2. task' = [task EXCEPT ![c] = next] /\ UNCHANGED <<thread, audit>> /\ reply' = NoReply
        /\ task[c].phase \in {"executing"} \cup Pending
    BY <1>4 DEF CancelCall, Typed, Pending
  <2> HIDE DEF next
  <2>3. (\A t \in Task \ {c} : task'[t] = task[t]) /\ task'[c] = next
    BY <2>2 DEF Typed
  <2>4. CASE task[c].phase = "executing"
    BY <2>1, <2>2, <2>3, <2>4 DEF Moved, Abandoned, Goes, Quiet
  <2>5. CASE task[c].phase # "executing"
    BY <2>1, <2>2, <2>3, <2>5 DEF Moved, Withdrawn, Goes, Quiet
  <2> QED BY <2>4, <2>5
<1> QED BY <1>1, <1>2, <1>3, <1>4 DEF CallStep

(* Where the thread of a call and its events stand when the call stands there. *)
Audited ==
    /\ audit = [c \in Call |-> audit[c]]
    /\ \A c \in Call :
          /\ task[c].phase \in {"idle", "denied", "withdrawn"} \cup Pending => thread[c] = "none"
          /\ task[c].phase = "done" => thread[c] \in {"none", "over"}
          /\ task[c].phase = "executing" => thread[c] \in {"opening", "open"} \cup Ended
          /\ audit[c] = <<>> <=> task[c].phase \notin {"done", "denied"}
          /\ Len(audit[c]) <= 1

(* One event. *)
LEMMA AppendOne ==
    ASSUME NEW e
    PROVE  Append(<<>>, e) # <<>> /\ Len(Append(<<>>, e)) = 1 /\ Append(<<>>, e)[1] = e
<1>1. <<>> \in Seq({e}) /\ e \in {e} /\ Len(<<>>) = 0
  OBVIOUS
<1> QED BY <1>1

(* The call that is answered gets its event, and nobody else one. *)
LEMMA TellsOne ==
    ASSUME Typed, Audited, NEW c \in Call, NEW p \in {"done", "denied"}, NEW from, NEW outcomes,
           from \cap {"done", "denied"} = {}, Tells(c, p, from, outcomes)
    PROVE  /\ audit' = [d \in Call |-> audit'[d]]
           /\ audit'[c] # <<>> /\ Len(audit'[c]) = 1
           /\ \A d \in Call \ {c} : audit'[d] = audit[d]
           /\ task'[c].phase = p
           /\ \A d \in Task \ {c} : task'[d] = task[d]
           /\ reply' # NoReply => reply'.call = c
           /\ audit'[c][1].outcome \in outcomes
           /\ \E a : Told(p, audit'[c][1], a) /\ reply'.status = a.status /\ reply'.rows = a.rows
                     /\ reply'.truncated = a.truncated
<1>1. PICK e, a, cap, asked : Finish(c, p, e, cap, a, asked) /\ Told(p, e, a) /\ e.outcome \in outcomes
  BY DEF Tells
<1>2. task[c].phase \notin {"done", "denied"}
  BY DEF Tells, Goes
<1>3. audit[c] = <<>>
  BY <1>2 DEF Audited
<1>4. audit' = [audit EXCEPT ![c] = Append(<<>>, e)]
  BY <1>1, <1>3 DEF Finish
<1>5. audit'[c] = Append(<<>>, e) /\ \A d \in Call \ {c} : audit'[d] = audit[d]
  BY <1>4 DEF Audited
<1>6. audit' = [d \in Call |-> audit'[d]]
  BY <1>4 DEF Audited
<1>7. audit'[c] # <<>> /\ Len(audit'[c]) = 1 /\ audit'[c][1] = e
  BY <1>5, AppendOne
<1>8. /\ reply'.call = c /\ reply'.status = a.status /\ reply'.rows = a.rows
      /\ reply'.truncated = a.truncated
  BY <1>1 DEF Finish
<1>9. task'[c].phase = p /\ \A d \in Task \ {c} : task'[d] = task[d]
  BY DEF Tells, Goes
<1> QED BY <1>1, <1>5, <1>6, <1>7, <1>8, <1>9

(* What steps that are not a call's leave of the calls. *)
Elsewhere ==
    /\ UNCHANGED audit /\ reply' = NoReply
    /\ \A c \in Call :
          /\ task'[c] = task[c] \/ (task[c].phase \in Pending /\ task'[c].phase \in Pending)
          /\ \/ thread'[c] = thread[c]
             \/ thread[c] \in {"opening", "open"}
                /\ thread'[c] \in {"open", "over"} \cup Ended
                /\ (thread'[c] = "over" => task[c].phase # "executing")

(* Sessions, threads and the world do not touch the trail. *)
LEMMA ElsewhereSteps ==
    ASSUME Typed, Waiting, Next, \A c \in Call : ~CallStep(c)
    PROVE  Elsewhere
<1> USE TasksApart
<1>1. ASSUME NEW s \in Session, SessionStep(s) PROVE Elsewhere
  <2>1. UNCHANGED <<audit, thread>> /\ reply' = NoReply /\ \A c \in Call : task'[c] = task[c]
    <3>1. ASSUME NEW x \in Subject, NEW names \in SUBSET Capability, OpenSession(s, x, names)
          PROVE  UNCHANGED <<audit, thread, task>> /\ reply' = NoReply
      BY <3>1 DEF OpenSession
    <3>2. CASE CheckCapability(s)
      <4>1. \/ UNCHANGED task
            \/ task' = [task EXCEPT ![s].phase = "resolving", ![s].began = clock]
        BY <3>2 DEF CheckCapability
      <4> QED BY <3>2, <4>1 DEF CheckCapability, Typed
    <3>3. CASE CapabilityAnswered(s) \/ CancelOpening(s)
      BY <3>3 DEF CapabilityAnswered, CancelOpening, Typed
    <3> QED BY <1>1, <3>1, <3>2, <3>3 DEF SessionStep
  <2> QED BY <2>1 DEF Elsewhere
<1>2. ASSUME NEW c \in Call, ThreadRuns(c) PROVE Elsewhere
  <2>1. UNCHANGED <<task, audit>> /\ reply' = NoReply
    BY <1>2, ThreadRunsTo
  <2>2. /\ thread[c] \in {"opening", "open"}
        /\ \E to \in {"open", "over"} \cup Ended :
              /\ thread' = [thread EXCEPT ![c] = to]
              /\ to = "over" => task[c].phase # "executing"
    <3> DEFINE Runs == /\ thread[c] \in {"opening", "open"}
                       /\ \E to \in {"open", "over"} \cup Ended :
                             /\ thread' = [thread EXCEPT ![c] = to]
                             /\ to = "over" => task[c].phase # "executing"
    <3>1. \A status \in Ended : Result(c, status) \in {"over"} \cup Ended
               /\ (Result(c, status) = "over" => task[c].phase # "executing")
      BY EndedStates DEF Result, Mapped
    <3>2. {"read", "raised", "validation_error"} \subseteq Ended /\ "over" \notin Ended
      BY EndedStates DEF Ended, Mapped
    <3>3. \A e \in Failures : MapError(e) \in Ended
      BY DEF Ended
    <3>4. ASSUME CannotBound(c) \/ Opens(c) \/ Reads(c) \/ CloseRaises(c) PROVE Runs
      BY <3>1, <3>2, <3>4 DEF CannotBound, Opens, Reads, CloseRaises, ThreadStep
    <3>5. ASSUME NEW e \in Failures, OpenFails(c, e) \/ ReadFails(c, e) PROVE Runs
      BY <3>1, <3>3, <3>5 DEF OpenFails, ReadFails, ThreadStep
    <3> QED BY <1>2, <3>4, <3>5 DEF ThreadRuns
  <2> QED BY <2>1, <2>2 DEF Elsewhere, Typed
<1>3. ASSUME NEW t \in Task, DirectoryReads(t) \/ DirectoryFails(t) PROVE Elsewhere
  <2>1. UNCHANGED <<audit, thread>> /\ reply' = NoReply /\ task[t].phase \in Pending
        /\ (\A r \in Task \ {t} : task'[r] = task[r])
    BY <1>3 DEF DirectoryReads, DirectoryFails, Typed, Pending
  <2>2. task'[t].phase \in Pending
    BY <1>3 DEF DirectoryReads, DirectoryFails, Typed, TaskState, Pending, Resolved
  <2> QED BY <2>1, <2>2 DEF Elsewhere
<1>4. ASSUME NEW u \in User, NEW groups, ChangeMembership(u, groups) PROVE Elsewhere
  BY <1>4 DEF ChangeMembership, Elsewhere
<1>5. CASE Tick
  BY <1>5 DEF Tick, Elsewhere
<1> QED BY <1>1, <1>2, <1>3, <1>4, <1>5 DEF Next, World

(* A call's move keeps the trail and the threads in step with the calls. *)
LEMMA MovedAudited ==
    ASSUME Typed, Waiting, Audited, NEW c \in Call, Moved(c)
    PROVE  Audited'
<1> USE TasksApart
<1>1. ASSUME NEW from, NEW p, Goes(c, from, p), p \in {"resolving", "executing", "abandoned", "withdrawn"},
             from \cap {"done", "denied"} = {}, UNCHANGED audit,
             \A d \in Call \ {c} : thread'[d] = thread[d],
             p = "executing" => thread'[c] \in {"opening", "open"} \cup Ended,
             p \in {"resolving", "withdrawn"} => thread'[c] = "none"
      PROVE  Audited'
  BY <1>1 DEF Audited, Goes, Pending, Resolved
<1>2. ASSUME NEW from, NEW p \in {"done", "denied"}, NEW outcomes, Tells(c, p, from, outcomes),
             from \cap {"done", "denied"} = {}, \A d \in Call \ {c} : thread'[d] = thread[d],
             thread'[c] = "none" \/ (p = "done" /\ thread'[c] = "over")
      PROVE  Audited'
  <2>1. /\ audit' = [d \in Call |-> audit'[d]]
        /\ audit'[c] # <<>> /\ Len(audit'[c]) = 1
        /\ \A d \in Call \ {c} : audit'[d] = audit[d]
        /\ task'[c].phase = p
        /\ \A d \in Task \ {c} : task'[d] = task[d]
    BY <1>2, TellsOne
  <2>2. \A d \in Call \ {c} : task'[d] = task[d]
    BY <2>1
  <2> QED BY <1>2, <2>1, <2>2 DEF Audited, Pending, Resolved
<1>3. \A from, p : Goes(c, from, p) => task[c].phase \in from
  BY DEF Goes
<1>4. CASE Asks(c)
  <2>1. thread[c] = "none"
    BY <1>3, <1>4 DEF Asks, Audited
  <2> QED BY <1>1, <1>4, <2>1 DEF Asks, Quiet
<1>5. CASE Admitted(c)
  <2>1. thread'[c] = "opening" /\ \A d \in Call \ {c} : thread'[d] = thread[d]
    BY <1>5 DEF Admitted, Typed
  <2> QED BY <1>1, <1>5, <2>1 DEF Admitted, Deciding, Resolved, Quiet
<1>6. CASE Refused(c) \/ Rejected(c)
  <2>1. task[c].phase \in Deciding
    BY <1>6 DEF Refused, Rejected, Tells, Goes
  <2>2. thread[c] = "none" /\ UNCHANGED thread
    BY <1>6, <2>1 DEF Refused, Rejected, Audited, Deciding, Pending
  <2> QED BY <1>2, <1>6, <2>2 DEF Refused, Rejected, Deciding, Resolved
<1>7. CASE Unbounded(c)
  <2>1. thread'[c] = "none" /\ \A d \in Call \ {c} : thread'[d] = thread[d]
    BY <1>7 DEF Unbounded, Typed
  <2> QED BY <1>2, <1>7, <2>1 DEF Unbounded
<1>8. CASE Returned(c)
  <2>1. thread'[c] = "over" /\ \A d \in Call \ {c} : thread'[d] = thread[d]
    BY <1>8 DEF Returned, Typed
  <2> QED BY <1>2, <1>8, <2>1 DEF Returned
<1>9. CASE Abandoned(c)
  BY <1>1, <1>9 DEF Abandoned, Quiet
<1>10. CASE Withdrawn(c)
  <2>1. thread[c] = "none"
    BY <1>3, <1>10 DEF Withdrawn, Audited
  <2> QED BY <1>1, <1>10, <2>1 DEF Withdrawn, Quiet, Pending, Resolved
<1> QED BY <1>4, <1>5, <1>6, <1>7, <1>8, <1>9, <1>10 DEF Moved

(* So does every other step. *)
LEMMA AuditedStep == Typed /\ Waiting /\ Audited /\ [Next]_vars => Audited'
<1> SUFFICES ASSUME Typed, Waiting, Audited, [Next]_vars PROVE Audited'
  OBVIOUS
<1>1. ASSUME NEW c \in Call, CallStep(c) PROVE Audited'
  BY <1>1, CallMoves, MovedAudited
<1>2. CASE Elsewhere
  <2>1. "over" \notin Ended
    BY EndedStates DEF Mapped
  <2> QED BY <1>2, <2>1 DEF Elsewhere, Audited, Pending, Resolved
<1>3. CASE UNCHANGED vars
  BY <1>3 DEF vars, Audited
<1> QED BY <1>1, <1>2, <1>3, ElsewhereSteps

(* In the first state there is no call and no event. *)
LEMMA AuditedInit == Init => Audited /\ AuditTruth
<1> SUFFICES ASSUME Init PROVE Audited /\ AuditTruth
  OBVIOUS
<1>1. \A c \in Call : task[c].phase = "idle" /\ audit[c] = <<>> /\ thread[c] = "none"
  BY TasksApart DEF Init, Idle
<1>2. reply = NoReply /\ Len(<<>>) = 0 /\ audit = [c \in Call |-> audit[c]]
  BY DEF Init
<1> QED BY <1>1, <1>2 DEF Audited, AuditTruth

(* The trail tells what the callers were told. *)
LEMMA AuditTruthStep ==
    Typed /\ Waiting /\ Audited /\ AuditTruth /\ [Next]_vars => AuditTruth'
<1> SUFFICES ASSUME Typed, Waiting, Audited, AuditTruth, [Next]_vars PROVE AuditTruth'
  OBVIOUS
<1> DEFINE Matches(p, e, status, rows, truncated) ==
        /\ CASE p = "denied" -> e.outcome = "denied" /\ status = "authorization_error"
             [] status = "raised" -> e.outcome = "error"
             [] OTHER -> e.outcome = status
        /\ e.rows = Len(rows) /\ e.truncated = truncated
<1>1. Audited'
  BY AuditedStep
<1>2. ASSUME reply' # NoReply =>
                Matches(task'[reply'.call].phase, audit'[reply'.call][1], reply'.status, reply'.rows,
                     reply'.truncated)
      PROVE  AuditTruth'
  BY <1>1, <1>2 DEF Audited, AuditTruth
<1>3. ASSUME NEW c \in Call, NEW p \in {"done", "denied"}, NEW from, NEW outcomes,
             from \cap {"done", "denied"} = {}, Tells(c, p, from, outcomes)
      PROVE  AuditTruth'
  <2>1. \E a : Told(p, audit'[c][1], a) /\ reply'.status = a.status /\ reply'.rows = a.rows
               /\ reply'.truncated = a.truncated
    BY <1>3, TellsOne
  <2>2. Matches(p, audit'[c][1], reply'.status, reply'.rows, reply'.truncated)
    BY <1>3, <2>1 DEF Told
  <2>3. task'[c].phase = p /\ (reply' # NoReply => reply'.call = c)
    BY <1>3, TellsOne
  <2> QED BY <1>2, <2>2, <2>3
<1>4. ASSUME NEW c \in Call, CallStep(c) PROVE AuditTruth'
  <2>1. Moved(c)
    BY <1>4, CallMoves
  <2>2. CASE Refused(c) \/ Rejected(c)
    BY <1>3, <2>2 DEF Refused, Rejected, Deciding, Resolved
  <2>3. CASE Unbounded(c) \/ Returned(c)
    BY <1>3, <2>3 DEF Unbounded, Returned
  <2>4. CASE Asks(c) \/ Admitted(c) \/ Abandoned(c) \/ Withdrawn(c)
    <3>1. reply' = NoReply
      BY <2>4 DEF Asks, Admitted, Abandoned, Withdrawn, Quiet
    <3> QED BY <1>2, <3>1
  <2> QED BY <2>1, <2>2, <2>3, <2>4 DEF Moved
<1>5. CASE Elsewhere
  BY <1>2, <1>5 DEF Elsewhere
<1>6. CASE UNCHANGED vars
  BY <1>6 DEF vars, AuditTruth
<1> QED BY <1>4, <1>5, <1>6, ElsewhereSteps

(* Whatever the directory, the driver and the callers do, the audit trail has one
   event for each call that was answered, and it tells what its caller was told. *)
THEOREM AuditSafety == Spec => []AuditTruth
<1>1. Init => Typed /\ Waiting /\ Audited /\ AuditTruth
  BY TypedInit, AuditedInit
<1>2. Typed /\ Waiting /\ Audited /\ AuditTruth /\ [Next]_vars
          => (Typed /\ Waiting /\ Audited /\ AuditTruth)'
  BY TypedStep, AuditedStep, AuditTruthStep
<1> QED BY <1>1, <1>2, PTL DEF Spec

-------------------------------------------------------------------------------
(* The guarded calls implement ToolGate. *)

(* A call that stands where it stood is where it was for ToolGate. *)
LEMMA GateKept ==
    ASSUME NEW c \in Call
    PROVE  /\ task'[c].phase = task[c].phase => GateOf(c)' = GateOf(c)
           /\ thread'[c] = thread[c] => Contacted(c)' = Contacted(c)
           /\ audit'[c] = audit[c] => TrailOf(c)' = TrailOf(c)
BY DEF GateOf, Contacted, TrailOf

(* Waiting for the directory is all the same to it. *)
LEMMA GatePending ==
    ASSUME NEW c \in Call
    PROVE  /\ task[c].phase \in Pending => GateOf(c) = "pending"
           /\ task'[c].phase \in Pending => GateOf(c)' = "pending"
BY DEF GateOf, Pending, Resolved

(* A step of one call is a step of its part of each function. *)
LEMMA OneGate ==
    ASSUME NEW c \in Call, NEW p, GateOf(c)' = p, \A d \in Call \ {c} : task'[d] = task[d]
    PROVE  [d \in Call |-> GateOf(d)]' = [[d \in Call |-> GateOf(d)] EXCEPT ![c] = p]
<1>1. \A d \in Call \ {c} : GateOf(d)' = GateOf(d)
  BY GateKept
<1> QED BY <1>1

(* The same of the contacts, *)
LEMMA OneContact ==
    ASSUME NEW c \in Call, NEW p, Contacted(c)' = p, \A d \in Call \ {c} : thread'[d] = thread[d]
    PROVE  [d \in Call |-> Contacted(d)]' = [[d \in Call |-> Contacted(d)] EXCEPT ![c] = p]
<1>1. \A d \in Call \ {c} : Contacted(d)' = Contacted(d)
  BY GateKept
<1> QED BY <1>1, Zenon

(* and of the trail. *)
LEMMA OneTrail ==
    ASSUME NEW c \in Call, NEW p, TrailOf(c)' = p, \A d \in Call \ {c} : audit'[d] = audit[d]
    PROVE  [d \in Call |-> TrailOf(d)]' = [[d \in Call |-> TrailOf(d)] EXCEPT ![c] = p]
<1>1. \A d \in Call \ {c} : TrailOf(d)' = TrailOf(d)
  BY GateKept
<1> QED BY <1>1

(* What a contact is while a call is where it is. *)
LEMMA SameContacts ==
    ASSUME \A c \in Call : Contacted(c)' = Contacted(c)
    PROVE  [d \in Call |-> Contacted(d)]' = [d \in Call |-> Contacted(d)]
BY Zenon

(* The first state is one of ToolGate. *)
LEMMA GateStart == Init => Gate!GateInit
<1> SUFFICES ASSUME Init PROVE Gate!GateInit
  OBVIOUS
<1>1. \A c \in Call : task[c].phase = "idle" /\ thread[c] = "none" /\ audit[c] = <<>>
  BY TasksApart DEF Init, Idle
<1>2. \A c \in Call : GateOf(c) = "idle" /\ TrailOf(c) = "none"
  BY <1>1 DEF GateOf, TrailOf
<1>3. \A c \in Call : Contacted(c) = FALSE
  BY <1>1 DEF Contacted
<1>4. [c \in Call |-> Contacted(c)] = [c \in Call |-> FALSE]
  BY <1>3, Zenon
<1> QED BY <1>2, <1>4 DEF Gate!GateInit

(* A quiet move of a call is a move of the gate only. *)
LEMMA QuietMove ==
    ASSUME NEW c \in Call, NEW from, NEW to, NEW p, Goes(c, from, to), GateOf(c)' = p,
           UNCHANGED audit, Contacted(c)' = Contacted(c), \A d \in Call \ {c} : thread'[d] = thread[d]
    PROVE  /\ [d \in Call |-> GateOf(d)]' = [[d \in Call |-> GateOf(d)] EXCEPT ![c] = p]
           /\ [d \in Call |-> Contacted(d)]' = [d \in Call |-> Contacted(d)]
           /\ [d \in Call |-> TrailOf(d)]' = [d \in Call |-> TrailOf(d)]
<1>1. \A d \in Call \ {c} : task'[d] = task[d]
  BY TasksApart DEF Goes
<1>2. \A d \in Call : Contacted(d)' = Contacted(d)
  BY GateKept
<1>3. \A d \in Call : TrailOf(d)' = TrailOf(d)
  BY GateKept
<1> QED BY <1>1, <1>2, <1>3, OneGate, SameContacts

(* The name an outcome has for ToolGate. *)
TrailName(o) ==
    CASE o \in {"denied", "error", "success"} -> o
      [] o = "validation_error" -> "rejected"
      [] OTHER -> "unavailable"

(* An answer moves the gate and puts its outcome on the trail. *)
LEMMA TellingMove ==
    ASSUME Typed, Audited, NEW c \in Call, NEW p \in {"done", "denied"}, NEW from, NEW outcomes,
           from \cap {"done", "denied"} = {}, Tells(c, p, from, outcomes),
           NEW g, g = IF p = "done" THEN "answered" ELSE "refused",
           Contacted(c)' = Contacted(c), \A d \in Call \ {c} : thread'[d] = thread[d]
    PROVE  /\ [d \in Call |-> GateOf(d)]' = [[d \in Call |-> GateOf(d)] EXCEPT ![c] = g]
           /\ [d \in Call |-> Contacted(d)]' = [d \in Call |-> Contacted(d)]
           /\ TrailOf(c) = "none"
           /\ TrailOf(c)' \in {TrailName(e) : e \in outcomes}
           /\ [d \in Call |-> TrailOf(d)]' = [[d \in Call |-> TrailOf(d)] EXCEPT ![c] = TrailOf(c)']
<1> DEFINE o == audit'[c][1].outcome
           t == TrailName(o)
<1>1. /\ audit'[c] # <<>> /\ Len(audit'[c]) = 1 /\ task'[c].phase = p
      /\ \A d \in Call \ {c} : audit'[d] = audit[d]
      /\ \A d \in Task \ {c} : task'[d] = task[d]
      /\ o \in outcomes
  BY TellsOne
<1>2. \A d \in Call \ {c} : task'[d] = task[d]
  BY <1>1, TasksApart
<1>3. task[c].phase \in from
  BY DEF Tells, Goes
<1>4. TrailOf(c) = "none"
  BY <1>3 DEF Audited, TrailOf
<1>5. TrailOf(c)' = t
  BY <1>1 DEF TrailOf, TrailName
<1>6. GateOf(c)' = g
  BY <1>1 DEF GateOf
<1>7. \A d \in Call : Contacted(d)' = Contacted(d)
  BY GateKept
<1>8. [d \in Call |-> TrailOf(d)]' = [[d \in Call |-> TrailOf(d)] EXCEPT ![c] = TrailOf(c)']
  BY <1>1, OneTrail
<1> QED BY <1>1, <1>2, <1>4, <1>5, <1>6, <1>7, <1>8, OneGate, SameContacts

(* A call's move is a step of the gate. *)
LEMMA MovedRefines ==
    ASSUME Typed, Waiting, Audited, NEW c \in Call, Moved(c)
    PROVE  Gate!GateNext
<1> USE TasksApart
<1> DEFINE gate == [d \in Call |-> GateOf(d)]
           contact == [d \in Call |-> Contacted(d)]
           trail == [d \in Call |-> TrailOf(d)]
<1>a. /\ gate[c] = GateOf(c) /\ trail[c] = TrailOf(c)
      /\ task[c].phase = "idle" => GateOf(c) = "idle"
      /\ task[c].phase \in Deciding => GateOf(c) \in {"idle", "pending"}
      /\ task[c].phase = "executing" => GateOf(c) = "admitted"
  BY DEF GateOf, Deciding, Resolved
<1>b. contact[c] = Contacted(c)
  BY Zenon
<1>c. /\ TrailName("denied") = "denied" /\ TrailName("validation_error") = "rejected"
      /\ TrailName("error") = "error" /\ TrailName("success") = "success"
      /\ \A o \in Mapped : TrailName(o) = "unavailable"
  BY DEF TrailName, Mapped
<1>1. CASE Asks(c)
  <2>1. Goes(c, {"idle"}, "resolving") /\ UNCHANGED audit /\ UNCHANGED thread /\ task[c].phase = "idle"
    BY <1>1 DEF Asks, Quiet, Goes
  <2>2. GateOf(c)' = "pending"
    BY <2>1, GatePending DEF Goes, Pending
  <2>3. Gate!Ask(c)
    BY <1>a, <2>1, <2>2, QuietMove, GateKept DEF Gate!Ask, Gate!Move
  <2> QED BY <2>3 DEF Gate!GateNext
<1>2. CASE Admitted(c)
  <2>1. /\ Goes(c, Deciding, "executing") /\ UNCHANGED audit /\ task[c].phase \in Deciding
        /\ thread' = [thread EXCEPT ![c] = "opening"]
    BY <1>2 DEF Admitted, Quiet, Goes
  <2>2. GateOf(c)' = "admitted"
    BY <2>1 DEF Goes, GateOf
  <2>3. thread[c] = "none" /\ thread'[c] = "opening" /\ \A d \in Call \ {c} : thread'[d] = thread[d]
    BY <2>1 DEF Audited, Deciding, Pending, Typed
  <2>4. Contacted(c)' = Contacted(c)
    BY <2>3 DEF Contacted
  <2>5. Gate!Admit(c)
    BY <1>a, <2>1, <2>2, <2>3, <2>4, QuietMove DEF Gate!Admit, Gate!Move
  <2> QED BY <2>5 DEF Gate!GateNext
<1>3. CASE Refused(c)
  <2>1. Tells(c, "denied", Deciding, {"denied"}) /\ UNCHANGED thread /\ task[c].phase \in Deciding
    BY <1>3 DEF Refused, Tells, Goes
  <2>2. Contacted(c)' = Contacted(c) /\ Deciding \cap {"done", "denied"} = {}
    BY <2>1, GateKept DEF Deciding, Resolved
  <2>3. /\ gate' = [gate EXCEPT ![c] = "refused"] /\ contact' = contact
        /\ TrailOf(c) = "none" /\ trail' = [trail EXCEPT ![c] = TrailOf(c)']
        /\ TrailOf(c)' \in {TrailName(e) : e \in {"denied"}}
    BY <2>1, <2>2, TellingMove
  <2>4. Gate!Refuse(c)
    BY <1>a, <1>c, <2>1, <2>3 DEF Gate!Refuse, Gate!Move, Gate!Record
  <2> QED BY <2>4 DEF Gate!GateNext
<1>4. CASE Rejected(c)
  <2>1. /\ Tells(c, "done", Deciding, {"validation_error"}) /\ UNCHANGED thread
        /\ task[c].phase \in Deciding
    BY <1>4 DEF Rejected, Tells, Goes
  <2>2. Contacted(c)' = Contacted(c) /\ Deciding \cap {"done", "denied"} = {}
    BY <2>1, GateKept DEF Deciding, Resolved
  <2>3. /\ gate' = [gate EXCEPT ![c] = "answered"] /\ contact' = contact
        /\ TrailOf(c) = "none" /\ trail' = [trail EXCEPT ![c] = TrailOf(c)']
        /\ TrailOf(c)' \in {TrailName(e) : e \in {"validation_error"}}
    BY <2>1, <2>2, TellingMove
  <2>4. Gate!Reject(c)
    BY <1>a, <1>c, <2>1, <2>3 DEF Gate!Reject, Gate!Move, Gate!Record
  <2> QED BY <2>4 DEF Gate!GateNext
<1>5. CASE Unbounded(c)
  <2>1. /\ thread[c] = "validation_error" /\ thread'[c] = "none" /\ task[c].phase = "executing"
        /\ \A d \in Call \ {c} : thread'[d] = thread[d]
        /\ Tells(c, "done", {"executing"}, {"validation_error"})
    BY <1>5 DEF Unbounded, Typed, Tells, Goes
  <2>2. ~Contacted(c) /\ Contacted(c)' = Contacted(c)
    BY <2>1 DEF Contacted
  <2>3. /\ gate' = [gate EXCEPT ![c] = "answered"] /\ contact' = contact
        /\ TrailOf(c) = "none" /\ trail' = [trail EXCEPT ![c] = TrailOf(c)']
        /\ TrailOf(c)' \in {TrailName(e) : e \in {"validation_error"}}
    BY <2>1, <2>2, TellingMove
  <2>4. ~contact[c]
    BY <1>b, <2>2
  <2>5. Gate!Reply(c, "rejected")
    BY <1>a, <1>c, <2>1, <2>3, <2>4 DEF Gate!Reply, Gate!Move, Gate!Record
  <2> QED BY <2>5 DEF Gate!GateNext, Gate!Outcome
<1>6. CASE Returned(c)
  <2> DEFINE outcomes == {"error", "success"} \cup Mapped
  <2>1. /\ thread[c] \in {"read", "raised"} \cup Mapped /\ thread'[c] = "over"
        /\ task[c].phase = "executing"
        /\ \A d \in Call \ {c} : thread'[d] = thread[d]
        /\ Tells(c, "done", {"executing"}, outcomes)
    BY <1>6 DEF Returned, Typed, Tells, Goes
  <2>2. Contacted(c) /\ Contacted(c)' = Contacted(c)
    BY <2>1 DEF Contacted, Mapped
  <2>3. \A e \in outcomes : TrailName(e) \in {"error", "success", "unavailable"}
    BY <1>c
  <2> HIDE DEF outcomes
  <2>4. /\ gate' = [gate EXCEPT ![c] = "answered"] /\ contact' = contact
        /\ TrailOf(c) = "none" /\ trail' = [trail EXCEPT ![c] = TrailOf(c)']
        /\ TrailOf(c)' \in {TrailName(e) : e \in outcomes}
    BY <2>1, <2>2, TellingMove
  <2>5. contact[c]
    BY <1>b, <2>2
  <2>6. TrailOf(c)' \in {"error", "success", "unavailable"}
    BY <2>3, <2>4
  <2>7. \E o \in {"error", "success", "unavailable"} : Gate!Reply(c, o)
    BY <1>a, <2>1, <2>4, <2>5, <2>6 DEF Gate!Reply, Gate!Move, Gate!Record
  <2> QED BY <2>7 DEF Gate!GateNext, Gate!Outcome
<1>7. CASE Abandoned(c)
  <2>1. /\ Goes(c, {"executing"}, "abandoned") /\ UNCHANGED audit /\ UNCHANGED thread
        /\ task[c].phase = "executing"
    BY <1>7 DEF Abandoned, Quiet, Goes
  <2>2. GateOf(c)' = "abandoned"
    BY <2>1 DEF Goes, GateOf
  <2>3. Gate!Abandon(c)
    BY <1>a, <2>1, <2>2, QuietMove, GateKept DEF Gate!Abandon, Gate!Move
  <2> QED BY <2>3 DEF Gate!GateNext
<1>8. CASE Withdrawn(c)
  <2>1. /\ Goes(c, Pending, "withdrawn") /\ UNCHANGED audit /\ UNCHANGED thread
        /\ task[c].phase \in Pending
    BY <1>8 DEF Withdrawn, Quiet, Goes
  <2>2. GateOf(c)' = "withdrawn" /\ GateOf(c) = "pending"
    BY <2>1, GatePending DEF Goes, GateOf
  <2>3. Gate!Withdraw(c)
    BY <1>a, <2>1, <2>2, QuietMove, GateKept DEF Gate!Withdraw, Gate!Move
  <2> QED BY <2>3 DEF Gate!GateNext
<1> QED BY <1>1, <1>2, <1>3, <1>4, <1>5, <1>6, <1>7, <1>8 DEF Moved

(* A thread that asks for a connection makes its call's one contact; its other
   steps are none of the gate's. *)
LEMMA ThreadRefines ==
    ASSUME Typed, Audited, NEW c \in Call, ThreadRuns(c)
    PROVE  [Gate!GateNext]_(Gate!gateVars)
<1> USE TasksApart
<1> DEFINE gate == [d \in Call |-> GateOf(d)]
           contact == [d \in Call |-> Contacted(d)]
           trail == [d \in Call |-> TrailOf(d)]
<1> DEFINE Live == {"open", "over", "read", "raised"} \cup Mapped
<1>1. /\ UNCHANGED task /\ UNCHANGED audit
      /\ \E to \in {"open", "over"} \cup Ended : thread' = [thread EXCEPT ![c] = to]
  BY ThreadRunsTo
<1>2. \/ thread[c] = "opening" /\ thread'[c] \in Live \cup {"validation_error"}
      \/ thread[c] = "open" /\ thread'[c] \in Live
  <2>1. thread'[c] \in {"open", "over"} \cup Ended
    BY <1>1 DEF Typed
  <2>2. {"open", "over"} \cup Ended \subseteq Live \cup {"validation_error"}
    BY EndedStates
  <2>3. thread[c] \in {"opening", "open"}
    BY DEF ThreadRuns, CannotBound, Opens, Reads, CloseRaises, OpenFails, ReadFails, ThreadStep
  <2>4. ASSUME thread[c] = "open" PROVE thread'[c] # "validation_error"
    <3> DEFINE Becomes(to) == thread' = [thread EXCEPT ![c] = to]
    <3>1. \A status : Result(c, status) \in {status, "over"}
      BY DEF Result
    <3>2. \A e : MapError(e) # "validation_error"
      BY MapErrorMapped DEF Mapped
    <3> DEFINE Left == \E to : to # "validation_error" /\ Becomes(to)
    <3>3. Left
      <4>1. CASE Reads(c) \/ CloseRaises(c)
        BY <3>1, <4>1 DEF Reads, CloseRaises, ThreadStep
      <4>2. ASSUME NEW e \in Failures, ReadFails(c, e) PROVE Left
        BY <3>1, <3>2, <4>2 DEF ReadFails, ThreadStep
      <4> QED
        BY <2>4, <4>1, <4>2
           DEF ThreadRuns, CannotBound, Opens, OpenFails, ThreadStep
    <3> QED BY <3>3 DEF Typed
  <2> QED BY <2>1, <2>2, <2>3, <2>4
<1>3. /\ \A d \in Call \ {c} : thread'[d] = thread[d]
      /\ \A d \in Call : GateOf(d)' = GateOf(d) /\ TrailOf(d)' = TrailOf(d)
  BY <1>1, GateKept DEF Typed
<1>4. gate' = gate /\ trail' = trail
  BY <1>3
<1>5. Live \cap {"none", "opening", "validation_error"} = {}
  BY DEF Mapped
<1>6. CASE Contacted(c)' = Contacted(c)
  <2>1. \A d \in Call : Contacted(d)' = Contacted(d)
    BY <1>3, <1>6, GateKept
  <2> QED BY <1>4, <2>1, SameContacts DEF Gate!gateVars
<1>7. CASE ~(Contacted(c)' = Contacted(c))
  <2>1. thread[c] = "opening" /\ Contacted(c)' = TRUE /\ Contacted(c) = FALSE
    BY <1>2, <1>5, <1>7 DEF Contacted
  <2>2. task[c].phase \in {"executing", "abandoned"}
    BY <2>1 DEF Audited, Typed, TaskState, Pending, Resolved
  <2>3. gate[c] \in {"admitted", "abandoned"}
    BY <2>2 DEF GateOf
  <2>4. contact' = [contact EXCEPT ![c] = TRUE]
    BY <1>3, <2>1, OneContact
  <2>5. ~contact[c]
    BY <2>1, Zenon
  <2>6. Gate!Contact(c)
    BY <1>4, <2>3, <2>4, <2>5 DEF Gate!Contact
  <2> QED BY <2>6 DEF Gate!GateNext
<1> QED BY <1>6, <1>7

(* What leaves the calls, but for who waits, and their threads leaves the gate. *)
LEMMA OthersRefine ==
    ASSUME UNCHANGED audit, UNCHANGED thread,
           \A c \in Call : task'[c] = task[c] \/ (task[c].phase \in Pending /\ task'[c].phase \in Pending)
    PROVE  [Gate!GateNext]_(Gate!gateVars)
<1>1. \A c \in Call : GateOf(c)' = GateOf(c) /\ TrailOf(c)' = TrailOf(c)
  BY GateKept, GatePending
<1>2. \A c \in Call : Contacted(c)' = Contacted(c)
  BY GateKept
<1> QED BY <1>1, <1>2, SameContacts DEF Gate!gateVars

(* Every step of the calls, the sessions, the threads and the world is a step of
   the gate, or none. *)
LEMMA StepRefines ==
    ASSUME Typed, Waiting, Audited, [Next]_vars
    PROVE  [Gate!GateNext]_(Gate!gateVars)
<1>1. ASSUME NEW c \in Call, CallStep(c) PROVE Gate!GateNext
  BY <1>1, CallMoves, MovedRefines
<1>2. ASSUME NEW c \in Call, ThreadRuns(c) PROVE [Gate!GateNext]_(Gate!gateVars)
  BY <1>2, ThreadRefines
<1>3. ASSUME Next, \A c \in Call : ~CallStep(c) /\ ~ThreadRuns(c)
      PROVE  [Gate!GateNext]_(Gate!gateVars)
  <2>1. Elsewhere
    BY <1>3, ElsewhereSteps
  <2>2. UNCHANGED thread
    <3>1. ASSUME NEW s \in Session, SessionStep(s) PROVE UNCHANGED thread
      BY <3>1 DEF SessionStep, OpenSession, CheckCapability, CapabilityAnswered, CancelOpening
    <3>2. CASE World
      BY <3>2 DEF World, DirectoryReads, DirectoryFails, ChangeMembership, Tick
    <3> QED BY <1>3, <3>1, <3>2 DEF Next
  <2> QED BY <2>1, <2>2, OthersRefine DEF Elsewhere
<1>4. CASE UNCHANGED vars
  BY <1>4, OthersRefine DEF vars
<1> QED BY <1>1, <1>2, <1>3, <1>4

(* The guarded calls implement ToolGate: whatever the directory, the driver, the
   model's arguments and the callers' cancellations do, the database is contacted
   only for a call that was let through, and at most once for each. *)
THEOREM RefinesGate == Spec => ImplementsGate
<1>1. Init => Typed /\ Waiting /\ Audited
  BY TypedInit, AuditedInit
<1>2. Typed /\ Waiting /\ Audited /\ [Next]_vars => (Typed /\ Waiting /\ Audited)'
  BY TypedStep, AuditedStep
<1>3. Typed /\ Waiting /\ Audited /\ [Next]_vars => [Gate!GateNext]_(Gate!gateVars)
  BY StepRefines
<1> QED BY <1>1, <1>2, <1>3, GateStart, PTL DEF Spec, ImplementsGate, Gate!GateSpec

-------------------------------------------------------------------------------
(* What the callers are told.  A call that is executed carries a request of its
   tool. *)
Carried ==
    \A c \in Call : task[c].phase = "executing" => task[c].request \in Requests(task[c].cap)

Honest == ResultHonest /\ CatalogHonest

(* A caller that is told of a failure is not told of rows, *)
LEMMA FailureHonest ==
    ASSUME NEW c, NEW p, NEW event, NEW cap, NEW answer, NEW asked,
           Finish(c, p, event, cap, answer, asked), answer.status # "success"
    PROVE  Honest'
<1>1. reply'.status = answer.status
  BY DEF Finish
<1> QED BY <1>1 DEF Honest, ResultHonest, CatalogHonest

(* and neither is anybody who is told nothing. *)
LEMMA SilenceHonest == ASSUME reply' = NoReply PROVE Honest'
BY DEF Honest, ResultHonest, CatalogHonest

(* A tool that starts carries its request; one that does not rejects it. *)
LEMMA EnterHonest ==
    ASSUME Typed, NEW c \in Call, NEW s, NEW cap, NEW q \in Requests(cap), EnterTool(c, s, cap, q)
    PROVE  /\ Honest'
           /\ task'[c].phase = "executing" => task'[c].request \in Requests(task'[c].cap)
<1>1. CASE RequestAccepted(cap, q)
  <2> DEFINE next == [Idle EXCEPT !.phase = "executing", !.session = s, !.cap = cap, !.request = q]
  <2>1. next.cap = cap /\ next.request = q
    BY DEF Idle
  <2>2. task' = [task EXCEPT ![c] = next] /\ reply' = NoReply
    BY <1>1 DEF EnterTool
  <2> HIDE DEF next
  <2> QED BY <2>1, <2>2, TasksApart, SilenceHonest DEF Typed
<1>2. CASE ~RequestAccepted(cap, q)
  <2> DEFINE answer == ErrorAnswer("validation_error")
  <2>1. Finish(c, "done", Event(answer), cap, answer, <<>>) /\ answer.status # "success"
    BY <1>2 DEF EnterTool, FinishWith, ErrorAnswer
  <2>2. task'[c].phase = "done"
    BY <2>1, FinishLeaves
  <2> QED BY <2>1, <2>2, FailureHonest
<1> QED BY <1>1, <1>2

(* A refusal tells of no rows. *)
LEMMA RefuseHonest ==
    ASSUME Typed, NEW c \in Call, NEW cap, Refuse(c, cap)
    PROVE  Honest' /\ task'[c].phase # "executing"
<1> DEFINE answer == ErrorAnswer("authorization_error")
<1>1. Finish(c, "denied", DeniedEvent, cap, answer, <<>>) /\ answer.status # "success"
  BY DEF Refuse, ErrorAnswer
<1>2. task'[c].phase = "denied"
  BY <1>1, FinishLeaves
<1> QED BY <1>1, <1>2, FailureHonest

(* The rows, or the objects, of a tool that succeeded are told of honestly. *)
LEMMA ReceiveHonest ==
    ASSUME Typed, Waiting, Carried, NEW c \in Call, NEW data \in Data(c), Receive(c, data)
    PROVE  Honest' /\ task'[c].phase # "executing"
<1> DEFINE cap == task[c].cap
           q == task[c].request
<1>1. /\ task[c].phase = "executing" /\ thread[c] \in Ended
      /\ cap \in Capability /\ q \in Requests(cap)
  BY DEF Receive, Waiting, Carried
<1>2. CASE thread[c] = "raised"
  <2> DEFINE answer == ErrorAnswer("raised")
  <2>1. Finish(c, "done", ErrorEvent, cap, answer, <<>>) /\ answer.status # "success"
    BY <1>2 DEF Receive, ErrorAnswer
  <2> QED BY <2>1, FailureHonest, FinishLeaves
<1>3. CASE thread[c] = "read" /\ cap = "database_query"
  <2> DEFINE answer == QueryAnswer(q.stmt, data)
             asked == AskedRows(q.stmt, data)
  <2>1. Finish(c, "done", Event(Success(answer)), cap, Success(answer), asked)
    BY <1>3 DEF Receive, FinishWith
  <2>2. data \in Rows /\ q \in QueryRequests
    BY <1>1, <1>3, AccessAssumption DEF Data, Requests, Rows
  <2>3. q.stmt.limit.form = "literal" => q.stmt.limit.n \in Nat
    BY <2>2, AccessAssumption
  <2>4. /\ answer.truncated <=> ~(answer.rows = asked /\ Uncut(asked))
        /\ Len(answer.rows) <= MaxRows
        /\ Fitting(answer.rows) = Len(answer.rows)
    <3> HIDE DEF q
    <3> QED BY <2>2, <2>3, QueryHonest
  <2> HIDE DEF answer, asked
  <2>5. Success(answer).rows = answer.rows /\ Success(answer).truncated = answer.truncated
    BY DEF Success
  <2>6. /\ reply'.cap = "database_query" /\ reply'.rows = answer.rows
        /\ reply'.truncated = answer.truncated /\ reply'.asked = asked
    BY <1>3, <2>1, <2>5 DEF Finish
  <2>7. Honest'
    BY <2>4, <2>6 DEF Honest, ResultHonest, CatalogHonest, Uncut
  <2> QED BY <2>1, <2>7, FinishLeaves
<1>4. CASE thread[c] = "read" /\ cap = "database_schema"
  <2> DEFINE answer == SchemaAnswer(q, data)
             asked == CatalogMatch(q, data)
  <2>1. Finish(c, "done", Event(Success(answer)), cap, Success(answer), asked)
    BY <1>4 DEF Receive, FinishWith
  <2>2. data \in Seq(Object)
    BY <1>1, <1>4, AccessAssumption DEF Data
  <2>4. /\ Len(answer.rows) <= MaxRows
        /\ answer.truncated => Len(asked) > MaxRows
        /\ ColumnsUpTo(asked, AtMost(Len(asked), MaxRows + 1)) <= ColumnBudget =>
              /\ answer.truncated <=> Len(asked) > MaxRows
              /\ answer.rows = Take(asked, MaxRows)
    <3> HIDE DEF q
    <3> QED BY <2>2, CatalogAnswerHonest
  <2> HIDE DEF answer, asked
  <2>5. Success(answer).rows = answer.rows /\ Success(answer).truncated = answer.truncated
    BY DEF Success
  <2>6. /\ reply'.cap = "database_schema" /\ reply'.rows = answer.rows
        /\ reply'.truncated = answer.truncated /\ reply'.asked = asked
    BY <1>4, <2>1, <2>5 DEF Finish
  <2>7. Honest'
    BY <2>4, <2>6 DEF Honest, ResultHonest, CatalogHonest
  <2> QED BY <2>1, <2>7, FinishLeaves
<1>5. CASE thread[c] \notin {"read", "raised"}
  <2> DEFINE answer == ErrorAnswer(thread[c])
  <2>1. Finish(c, "done", Event(answer), cap, answer, <<>>)
    BY <1>5 DEF Receive, FinishWith
  <2>2. answer.status = thread[c] /\ thread[c] # "success"
    BY <1>1, EndedStates DEF ErrorAnswer, Mapped
  <2> QED BY <2>1, <2>2, FailureHonest, FinishLeaves
<1> QED BY <1>1, <1>2, <1>3, <1>4, <1>5 DEF Capability

(* Every step of a call tells honestly, and carries what it was asked for. *)
LEMMA CallHonest ==
    ASSUME Typed, Waiting, Carried, NEW c \in Call, CallStep(c)
    PROVE  /\ Honest'
           /\ task'[c].phase = "executing" => task'[c].request \in Requests(task'[c].cap)
<1> USE TasksApart
<1>1. ASSUME NEW s \in Session, NEW cap \in Capability, NEW q \in Requests(cap),
             BeginCall(c, s, cap, q)
      PROVE  /\ Honest'
             /\ task'[c].phase = "executing" => task'[c].request \in Requests(task'[c].cap)
  <2> DEFINE v == FirstVerdict(session[s].subject, cap)
  <2>1. CASE v = "allowed"
    <3>1. EnterTool(c, s, cap, q)
      BY <1>1, <2>1 DEF BeginCall
    <3> QED BY <3>1, EnterHonest
  <2>2. CASE v = "ask"
    <3> DEFINE next == [Idle EXCEPT !.phase = "resolving", !.session = s, !.cap = cap,
                                    !.began = clock]
    <3>1. next.phase = "resolving"
      BY DEF Idle
    <3>2. task' = [task EXCEPT ![c] = next] /\ reply' = NoReply
      BY <1>1, <2>2 DEF BeginCall
    <3> HIDE DEF next
    <3> QED BY <3>1, <3>2, SilenceHonest DEF Typed
  <2>3. CASE v \notin {"allowed", "ask"}
    <3>1. Refuse(c, cap)
      BY <1>1, <2>3 DEF BeginCall
    <3> QED BY <3>1, RefuseHonest
  <2> QED BY <2>1, <2>2, <2>3
<1>2. ASSUME NEW q \in Requests(task[c].cap), CallAnswered(c, q)
      PROVE  /\ Honest'
             /\ task'[c].phase = "executing" => task'[c].request \in Requests(task'[c].cap)
  <2>1. EnterTool(c, task[c].session, task[c].cap, q) \/ Refuse(c, task[c].cap)
    BY <1>2 DEF CallAnswered
  <2> QED BY <1>2, <2>1, EnterHonest, RefuseHonest
<1>3. ASSUME NEW data \in Data(c), Receive(c, data)
      PROVE  /\ Honest'
             /\ task'[c].phase = "executing" => task'[c].request \in Requests(task'[c].cap)
  BY <1>3, ReceiveHonest
<1>4. CASE CancelCall(c)
  <2>1. task'[c].phase # "executing" /\ reply' = NoReply
    BY <1>4 DEF CancelCall, Typed, TaskState, Idle
  <2> QED BY <2>1, SilenceHonest
<1> QED BY <1>1, <1>2, <1>3, <1>4 DEF CallStep

(* So every step does. *)
LEMMA HonestStep == Typed /\ Waiting /\ Carried /\ Honest /\ [Next]_vars => Carried' /\ Honest'
<1> SUFFICES ASSUME Typed, Waiting, Carried, Honest, [Next]_vars PROVE Carried' /\ Honest'
  OBVIOUS
<1>1. ASSUME NEW c \in Call, CallStep(c) PROVE Carried' /\ Honest'
  <2>1. /\ Honest'
        /\ task'[c].phase = "executing" => task'[c].request \in Requests(task'[c].cap)
    BY <1>1, CallHonest
  <2>2. \A d \in Call \ {c} : task'[d] = task[d]
    <3>1. Moved(c)
      BY <1>1, CallMoves
    <3>2. \A d \in Task \ {c} : task'[d] = task[d]
      BY <3>1 DEF Moved, Asks, Admitted, Refused, Rejected, Unbounded, Returned, Abandoned,
                  Withdrawn, Tells, Goes
    <3> QED BY <3>2, TasksApart
  <2> QED BY <2>1, <2>2 DEF Carried, Requests
<1>2. ASSUME Next, \A c \in Call : ~CallStep(c) PROVE Carried' /\ Honest'
  <2>1. Elsewhere
    BY <1>2, ElsewhereSteps
  <2>2. Carried'
    BY <2>1 DEF Elsewhere, Carried, Requests, Pending, Resolved
  <2> QED BY <2>1, <2>2, SilenceHonest DEF Elsewhere
<1>3. CASE UNCHANGED vars
  BY <1>3 DEF vars, Carried, Requests, Honest, ResultHonest, CatalogHonest
<1> QED BY <1>1, <1>2, <1>3

(* Nothing is carried, and nobody told, at first. *)
LEMMA HonestInit == Init => Carried /\ Honest
<1> SUFFICES ASSUME Init PROVE Carried /\ Honest
  OBVIOUS
<1>1. \A c \in Call : task[c].phase = "idle"
  BY TasksApart DEF Init, Idle
<1>2. reply = NoReply
  BY DEF Init
<1> QED BY <1>1, <1>2 DEF Carried, Honest, ResultHonest, CatalogHonest

(* Whatever the statement, its limit, the table and the limits of the provider, a
   query's answer says that it is truncated exactly if rows are missing or cells
   are cut; and it stays within the limits. *)
THEOREM ResultsHonest == Spec => []ResultHonest
<1>1. Init => Typed /\ Waiting /\ Carried /\ Honest
  BY TypedInit, HonestInit
<1>2. Typed /\ Waiting /\ Carried /\ Honest /\ [Next]_vars => (Typed /\ Waiting /\ Carried /\ Honest)'
  BY TypedStep, HonestStep
<1>3. Honest => ResultHonest
  BY DEF Honest
<1> QED BY <1>1, <1>2, <1>3, PTL DEF Spec

(* Whatever the catalog and the filters, discovery says that it is truncated only
   if it is, and, when the columns fit the fetch, leaves nothing out unsaid. *)
THEOREM CatalogsHonest == Spec => []CatalogHonest
<1>1. Init => Typed /\ Waiting /\ Carried /\ Honest
  BY TypedInit, HonestInit
<1>2. Typed /\ Waiting /\ Carried /\ Honest /\ [Next]_vars => (Typed /\ Waiting /\ Carried /\ Honest)'
  BY TypedStep, HonestStep
<1>3. Honest => CatalogHonest
  BY DEF Honest
<1> QED BY <1>1, <1>2, <1>3, PTL DEF Spec

-------------------------------------------------------------------------------
(* The tools of a session *)

Once(s) == \A i, j \in DOMAIN s : s[i] = s[j] => i = j
Caps(e) == {e[i].cap : i \in DOMAIN e}
Allowed(e) == {e[i].cap : i \in {k \in DOMAIN e : e[k].outcome = "allowed"}}
DecidedOnce(e) == \A i, j \in DOMAIN e : e[i].cap = e[j].cap => i = j

(* What was decided of a session's capabilities, and what there is still to decide:
   no capability twice, and the tools are those that were allowed. *)
Exposing ==
    /\ exposed \in [Session -> Seq(Decision)]
    /\ \A s \in Session :
          /\ DecidedOnce(exposed[s])
          /\ session[s].phase = "none" => exposed[s] = <<>>
          /\ session[s].phase \in {"building", "ready"} => session[s].tools = Allowed(exposed[s])
          /\ session[s].phase = "building" =>
                /\ Once(session[s].todo)
                /\ \A i \in DOMAIN session[s].todo : session[s].todo[i] \notin Caps(exposed[s])

(* The sorted capabilities are each there once. *)
LEMMA SortedOnce == ASSUME NEW caps PROVE Once(Sorted(caps))
<1>1. CASE "database_query" \in caps /\ "database_schema" \in caps
  <2>1. Sorted(caps) = <<"database_query">> \o <<"database_schema">>
    BY <1>1 DEF Sorted
  <2> DEFINE a == <<"database_query">>
             b == <<"database_schema">>
  <2>2. a \in Seq(Capability) /\ b \in Seq(Capability) /\ Len(a) = 1 /\ Len(b) = 1
    BY DEF Capability
  <2>3. a[1] = "database_query" /\ b[1] = "database_schema"
    OBVIOUS
  <2> HIDE DEF a, b
  <2>4. /\ Len(a \o b) = 2 /\ a \o b \in Seq(Capability)
        /\ \A i \in 1 .. 2 : (a \o b)[i] = IF i <= 1 THEN a[i] ELSE b[i - 1]
    BY <2>2, ConcatProperties
  <2>5. (a \o b)[1] = a[1] /\ (a \o b)[2] = b[1] /\ DOMAIN (a \o b) = {1, 2}
    BY <2>4
  <2>6. Once(a \o b)
    BY <2>3, <2>5 DEF Once
  <2> QED BY <2>1, <2>6 DEF a, b
<1>2. CASE "database_query" \in caps /\ "database_schema" \notin caps
  <2>1. Sorted(caps) = <<"database_query">> \o <<>>
    BY <1>2 DEF Sorted
  <2>2. Sorted(caps) = <<"database_query">>
    BY <2>1
  <2> QED BY <2>2 DEF Once
<1>3. CASE "database_query" \notin caps /\ "database_schema" \in caps
  <2>1. Sorted(caps) = <<>> \o <<"database_schema">>
    BY <1>3 DEF Sorted
  <2>2. Sorted(caps) = <<"database_schema">>
    BY <2>1
  <2> QED BY <2>2 DEF Once
<1>4. CASE "database_query" \notin caps /\ "database_schema" \notin caps
  <2>1. Sorted(caps) = <<>> \o <<>>
    BY <1>4 DEF Sorted
  <2>2. Sorted(caps) = <<>>
    BY <2>1
  <2> QED BY <2>2 DEF Once
<1> QED BY <1>1, <1>2, <1>3, <1>4

(* The first of them is not among the rest. *)
LEMMA TailOnce ==
    ASSUME NEW s \in Seq(Capability), s # <<>>, Once(s)
    PROVE  /\ Tail(s) \in Seq(Capability) /\ Once(Tail(s)) /\ Head(s) \in Capability
           /\ Head(s) = s[1] /\ 1 \in DOMAIN s
           /\ \A i \in DOMAIN Tail(s) : Tail(s)[i] # Head(s)
           /\ \A i \in DOMAIN Tail(s) : i + 1 \in DOMAIN s /\ Tail(s)[i] = s[i + 1]
<1>1. /\ Tail(s) \in Seq(Capability) /\ DOMAIN Tail(s) = 1 .. Len(s) - 1 /\ DOMAIN s = 1 .. Len(s)
      /\ Len(s) \in Nat /\ Len(s) >= 1 /\ Head(s) = s[1]
  OBVIOUS
<1>2. \A i \in 1 .. Len(s) - 1 : i + 1 \in 1 .. Len(s) /\ Tail(s)[i] = s[i + 1]
  BY <1>1
<1>3. \A i \in 1 .. Len(s) - 1 : i + 1 # 1
  BY <1>1
<1>4. Once(Tail(s))
  BY <1>1, <1>2 DEF Once
<1> QED BY <1>1, <1>2, <1>3, <1>4 DEF Once

(* A decision is added to those of the session. *)
LEMMA AppendDecision ==
    ASSUME NEW e \in Seq(Decision), NEW d \in Decision, DecidedOnce(e), d.cap \notin Caps(e)
    PROVE  /\ Append(e, d) \in Seq(Decision) /\ DecidedOnce(Append(e, d))
           /\ Allowed(Append(e, d)) = IF d.outcome = "allowed" THEN Allowed(e) \cup {d.cap}
                                      ELSE Allowed(e)
           /\ Caps(Append(e, d)) = Caps(e) \cup {d.cap}
<1> DEFINE t == Append(e, d)
           n == Len(e)
<1>1. /\ t \in Seq(Decision) /\ n \in Nat /\ DOMAIN e = 1 .. n /\ DOMAIN t = 1 .. n + 1
      /\ t[n + 1] = d /\ \A i \in 1 .. n : t[i] = e[i]
  OBVIOUS
<1> HIDE DEF t, n
<1>2. \A i \in 1 .. n + 1 : i \in 1 .. n \/ i = n + 1
  BY <1>1
<1>3. 1 .. n \subseteq 1 .. n + 1 /\ n + 1 \in 1 .. n + 1
  BY <1>1
<1>4. DecidedOnce(t)
  BY <1>1, <1>2 DEF DecidedOnce, Caps
<1>5. Caps(t) = Caps(e) \cup {d.cap}
  BY <1>1, <1>2, <1>3 DEF Caps
<1>6. Allowed(t) = IF d.outcome = "allowed" THEN Allowed(e) \cup {d.cap} ELSE Allowed(e)
  <2>1. CASE d.outcome = "allowed"
    BY <1>1, <1>2, <1>3, <2>1 DEF Allowed
  <2>2. CASE d.outcome # "allowed"
    BY <1>1, <1>2, <1>3, <2>2 DEF Allowed
  <2> QED BY <2>1, <2>2
<1> QED BY <1>1, <1>4, <1>5, <1>6 DEF t

(* A decision about the next capability of a session. *)
LEMMA AuthorizedExposes ==
    ASSUME Typed, Exposing, NEW s \in Session, NEW v \in Verdict, session[s].phase = "building",
           Authorized(s, v)
    PROVE  Exposing'
<1> DEFINE cap   == Head(session[s].todo)
           todo  == Tail(session[s].todo)
           event == [cap |-> cap, outcome |-> IF v = "allowed" THEN "allowed" ELSE "denied",
                     category |-> IF v = "allowed" THEN NoValue ELSE v]
           tools == IF v = "allowed" THEN session[s].tools \cup {cap} ELSE session[s].tools
           phase == IF todo = <<>> THEN "ready" ELSE session[s].phase
           next  == [session[s] EXCEPT !.todo = todo, !.tools = tools, !.phase = phase]
<1>1. /\ session[s] \in SessionState /\ session[s].todo \in Seq(Capability)
      /\ session[s].todo # <<>> /\ Once(session[s].todo)
  BY DEF Typed, SessionState, Exposing
<1>2. /\ todo \in Seq(Capability) /\ Once(todo) /\ cap \in Capability
      /\ cap = session[s].todo[1] /\ 1 \in DOMAIN session[s].todo
      /\ \A i \in DOMAIN todo : todo[i] # cap
      /\ \A i \in DOMAIN todo : i + 1 \in DOMAIN session[s].todo /\ todo[i] = session[s].todo[i + 1]
  BY <1>1, TailOnce
<1>3. session' = [session EXCEPT ![s] = next] /\ exposed' = [exposed EXCEPT ![s] = Append(@, event)]
  BY <1>1 DEF Authorized
<1> HIDE DEF cap, todo, tools
<1>4. event \in Decision /\ event.cap = cap /\ (event.outcome = "allowed" <=> v = "allowed")
  BY <1>2 DEF Decision
<1>5. cap \notin Caps(exposed[s]) /\ exposed[s] \in Seq(Decision) /\ DecidedOnce(exposed[s])
  BY <1>2 DEF Exposing
<1> HIDE DEF event
<1>6. /\ exposed'[s] = Append(exposed[s], event) /\ exposed'[s] \in Seq(Decision)
      /\ DecidedOnce(exposed'[s])
      /\ Allowed(exposed'[s]) = IF v = "allowed" THEN Allowed(exposed[s]) \cup {cap}
                                ELSE Allowed(exposed[s])
      /\ Caps(exposed'[s]) = Caps(exposed[s]) \cup {cap}
  BY <1>3, <1>4, <1>5, AppendDecision DEF Exposing
<1>7. /\ next.todo = todo /\ next.tools = tools /\ next.phase \in {"building", "ready"}
      /\ session'[s] = next
  BY <1>1, <1>3 DEF SessionState, Typed
<1>8. tools = Allowed(exposed'[s])
  BY <1>6 DEF tools, Exposing
<1>9. \A i \in DOMAIN todo : todo[i] \notin Caps(exposed'[s])
  BY <1>2, <1>6 DEF Exposing
<1> HIDE DEF next
<1>10. \A r \in Session \ {s} : session'[r] = session[r] /\ exposed'[r] = exposed[r]
  BY <1>3 DEF Typed, Exposing
<1>11. exposed' \in [Session -> Seq(Decision)]
  BY <1>3, <1>6 DEF Exposing
<1> DEFINE Holds(r) ==
      /\ DecidedOnce(exposed'[r])
      /\ session'[r].phase = "none" => exposed'[r] = <<>>
      /\ session'[r].phase \in {"building", "ready"} => session'[r].tools = Allowed(exposed'[r])
      /\ session'[r].phase = "building" =>
            /\ Once(session'[r].todo)
            /\ \A i \in DOMAIN session'[r].todo : session'[r].todo[i] \notin Caps(exposed'[r])
<1>12. Holds(s)
  BY <1>2, <1>6, <1>7, <1>8, <1>9
<1>13. \A r \in Session \ {s} : Holds(r)
  BY <1>10 DEF Exposing
<1>14. \A r \in Session : Holds(r)
  <2> HIDE DEF Holds
  <2> QED BY <1>12, <1>13
<1> QED BY <1>11, <1>14 DEF Exposing

(* The opening of a session keeps it. *)
LEMMA SessionExposes ==
    ASSUME Typed, Waiting, Exposing, NEW s \in Session, SessionStep(s)
    PROVE  Exposing'
<1>1. ASSUME NEW x \in Subject, NEW names \in SUBSET Capability, OpenSession(s, x, names)
      PROVE  Exposing'
  <2> DEFINE requested == Sorted(names \cap Granted)
             next == [phase |-> IF requested = <<>> THEN "ready" ELSE "building",
                      subject |-> x, todo |-> requested, tools |-> {}]
  <2>1. Once(requested)
    BY SortedOnce
  <2> HIDE DEF requested
  <2>2. /\ session' = [session EXCEPT ![s] = next] /\ exposed' = exposed
        /\ session[s].phase = "none"
    BY <1>1 DEF OpenSession, requested
  <2>3. exposed[s] = <<>> /\ Allowed(<<>>) = {} /\ Caps(<<>>) = {}
    BY <2>2 DEF Exposing, Allowed, Caps
  <2>4. next.todo = requested /\ next.tools = {} /\ next.phase \in {"ready", "building"}
    OBVIOUS
  <2> HIDE DEF next
  <2> QED BY <2>1, <2>2, <2>3, <2>4 DEF Exposing, Typed
<1>2. CASE CheckCapability(s)
  <2> DEFINE v == FirstVerdict(session[s].subject, Head(session[s].todo))
  <2>1. session[s].phase = "building" /\ v \in Verdict
    BY <1>2, FirstVerdictType DEF CheckCapability, Checking
  <2>2. UNCHANGED <<session, exposed>> \/ Authorized(s, v)
    BY <1>2 DEF CheckCapability
  <2> HIDE DEF v
  <2> QED BY <2>1, <2>2, AuthorizedExposes DEF Exposing
<1>3. CASE CapabilityAnswered(s)
  BY <1>3, SecondVerdictType, AuthorizedExposes DEF CapabilityAnswered
<1>4. CASE CancelOpening(s)
  <2>1. [Closed EXCEPT !.phase = "cancelled"].phase = "cancelled"
    BY DEF Closed
  <2> QED BY <1>4, <2>1 DEF CancelOpening, Exposing, Typed
<1> QED BY <1>1, <1>2, <1>3, <1>4 DEF SessionStep

(* Calls, threads and the world leave sessions and their decisions alone. *)
LEMMA ExposingStep == Typed /\ Waiting /\ Exposing /\ [Next]_vars => Exposing'
<1> SUFFICES ASSUME Typed, Waiting, Exposing, [Next]_vars PROVE Exposing'
  OBVIOUS
<1>1. ASSUME NEW s \in Session, SessionStep(s) PROVE Exposing'
  BY <1>1, SessionExposes
<1>2. ASSUME Next, \A s \in Session : ~SessionStep(s) PROVE UNCHANGED <<session, exposed>>
  <2>1. ASSUME NEW c \in Call, CallStep(c) PROVE UNCHANGED <<session, exposed>>
    BY <2>1 DEF CallStep, BeginCall, CallAnswered, Receive, CancelCall
  <2>2. ASSUME NEW c \in Call, ThreadRuns(c) PROVE UNCHANGED <<session, exposed>>
    BY <2>2, ThreadRunsTo
  <2>3. CASE World
    BY <2>3 DEF World, DirectoryReads, DirectoryFails, ChangeMembership, Tick
  <2> QED BY <1>2, <2>1, <2>2, <2>3 DEF Next
<1>3. CASE UNCHANGED <<session, exposed>>
  BY <1>3 DEF Exposing
<1> QED BY <1>1, <1>2, <1>3 DEF vars

(* No session is open at first. *)
LEMMA ExposingInit == Init => Exposing
<1> SUFFICES ASSUME Init PROVE Exposing
  OBVIOUS
<1>1. exposed = [s \in Session |-> <<>>] /\ \A s \in Session : session[s].phase = "none"
  BY DEF Init, Closed
<1>2. <<>> \in Seq(Decision) /\ DecidedOnce(<<>>)
  BY DEF DecidedOnce
<1> QED BY <1>1, <1>2 DEF Exposing

(* Whatever the groups, the directory and the other sessions do, a session has the
   tools that were allowed, each decided and put on the trail once. *)
THEOREM ExposureSafety == Spec => []ExposureAudited
<1>1. Init => Typed /\ Waiting /\ Exposing
  BY TypedInit, ExposingInit
<1>2. Typed /\ Waiting /\ Exposing /\ [Next]_vars => (Typed /\ Waiting /\ Exposing)'
  BY TypedStep, ExposingStep
<1>3. Exposing => ExposureAudited
  BY DEF Exposing, ExposureAudited, DecidedOnce, Allowed
<1> QED BY <1>1, <1>2, <1>3, PTL DEF Spec
===============================================================================
