------------------------------ MODULE ChatSession ------------------------------
(***************************************************************************)
(* A chat session from its request to the events of its responses: the     *)
(* caller's token is checked against the identity provider's signing keys  *)
(* (auth.py), the definition of the agent is checked and its references    *)
(* are read (session_orchestration.py, validators.py), its MCP servers are *)
(* connected one after the other (mcp_servers.py), its tools are put       *)
(* together (agent_factory.py) and the session is registered; then its     *)
(* turns are streamed (streaming.py, api_routes/sessions.py), each with    *)
(* the token of its own request.                                           *)
(*                                                                         *)
(* A request runs alone between two awaits.  Rotations of the keys,        *)
(* deletions and the other requests come in between.                       *)
(***************************************************************************)
EXTENDS SubAgentTools, ToolStream

CONSTANTS
    Request,       \* requests for a session
    Turn,          \* messages sent to one
    Old,           \* a conversation from before
    NoOne,         \* no token, no request
    KeySets,       \* KeySets[v]: the signing keys published as version v
    Plan,          \* what the requests and turns of a behaviour ask for
    Agents,        \* Agents[id]: a built-in profile or a custom agent
    Servers,       \* Servers[p]: the MCP servers of built-in profile p
    Form,          \* Form[s]: how server s is written down: "ok", "incomplete", "unreadable"
    Auth,          \* Auth[s]: "none", "user" (the caller's token), "obo" (one got for it)
    Registry,      \* names of function_tool_registry
    DatabaseTool,  \* DATABASE_TOOL_NAMES
    CallId,        \* ids of tool calls
    ToolName,      \* names that the agent calls
    MaxStack       \* bound: entries on the stack of a session (the code has none)

ASSUME SessionAssumption ==
    /\ Old \notin Request /\ NoOne \notin Request
    /\ KeySets \in Seq(SUBSET UNION {KeySets[v] : v \in DOMAIN KeySets}) /\ KeySets # <<>>
    /\ "none" \notin CallId
    /\ \A p \in Plan : /\ DOMAIN p.body \subseteq Request /\ DOMAIN p.tokens \subseteq Turn
                       /\ p.known \in {0, 1}

(* What a request asks for.  A profile is configured with references to built-in
   agents only.  There are suffixes for as many tools as a runtime can have. *)
Reference == [kind : {"builtin", "custom"}, id : STRING, supplied : STRING]
ASSUME BodyAssumption ==
    \A p \in Plan : \A r \in DOMAIN p.body :
        LET b == p.body[r] IN
        /\ b.refs \in Seq(Reference)
        /\ b.servers \in Seq(DOMAIN Form)
        /\ b.how = "profile" => \A k \in DOMAIN b.refs : b.refs[k].kind = "builtin"
        /\ IsFiniteSet(b.tools \cup DOMAIN Auth)
        /\ \A name \in DOMAIN Numbered :
              Cardinality(b.tools \cup DOMAIN Auth) + Len(b.refs) <= Cardinality(DOMAIN Numbered[name])

(* The configuration: a built-in agent has a list of servers, "session" is the
   model's own tag for the servers of a session, and a configuration reads in
   one of three ways. *)
ASSUME ConfigurationAssumption ==
    /\ DOMAIN Servers \subseteq DOMAIN Agents /\ "session" \notin DOMAIN Servers
    /\ \A p \in DOMAIN Servers : Servers[p] \in Seq(DOMAIN Form)
    /\ \A s \in DOMAIN Form : Form[s] \in {"ok", "incomplete", "unreadable"}
    /\ \A id \in DOMAIN Agents : Surface(Agents[id].name, id) \in DOMAIN Numbered

VARIABLES
    plan,        \* the plan of this behaviour
    published,   \* the version of the keys that the identity provider publishes
    jwks,        \* the version in _jwks_cache; 0: none
    index,       \* the conversations in the owner's index
    removed,     \* history: those that were deleted
    store,       \* the owner's custom agents
    req,         \* req[r]: the await r is suspended at and what it holds
    stack,       \* stack[r]: its AsyncExitStack, last pushed last
    closing,     \* requests whose stack is being closed
    registered,  \* registered[c]: the request whose session is registered for c
    held,        \* held[r][s]: the token that the header provider of s last used
    turn         \* turn[t]: a turn of a session

vars == <<plan, published, jwks, index, removed, store, req, stack, closing, registered,
          held, turn>>

Conversation == Request \cup {Old}
Server       == DOMAIN Auth

(* An entry of a stack: a connected server, or the credential got for one. *)
Connection(s) == <<"server", s>>
Credential(s) == <<"credential", s>>

(* A plan: [auth, known, body, tokens, contents, around]: is authentication on,
   the version of the keys that is cached to begin with, the body of each
   request made, the token of each turn taken, how much is streamed in one, and
   what happens around them ("rotate", "delete", "forget", "end", "cancel"). *)
Unborn ==
    [pc |-> "unborn", at |-> [version |-> 0, owned |-> FALSE, agents |-> {}], forced |-> FALSE,
     version |-> 0, skills |-> {}, agents |-> <<>>, database |-> {}, todo |-> <<>>,
     results |-> <<>>, previous |-> NoOne, runtime |-> [own |-> {}, subs |-> <<>>], outcome |-> "none"]
Unsent ==
    [pc |-> "unsent", by |-> NoOne, said |-> <<>>, loose |-> {}, stream |-> NewStream(CallId),
     header |-> NoOne]

Init ==
    /\ plan \in Plan
    /\ published = 1
    /\ jwks = plan.known
    /\ index = {Old}
    /\ removed = {}
    /\ store = {a \in DOMAIN Agents : a \notin DOMAIN Servers}
    /\ req = [r \in Request |-> Unborn]
    /\ stack = [r \in Request |-> <<>>]
    /\ closing = {}
    /\ registered = [c \in Conversation |-> NoOne]
    /\ held = [r \in Request |-> [s \in Server |-> NoOne]]
    /\ turn = [t \in Turn |-> Unsent]

Body(r) == plan.body[r]
Home(r) == IF Body(r).resume THEN Old ELSE r
At(r, pc) == req[r].pc = pc

----------------------------------------------------------------------------
(* How a request ends *)

Ended(q, outcome) == [q EXCEPT !.pc = "over", !.outcome = outcome]

(* Mutant: an exception while the servers are connected leaves them open. *)
FailLeavesOpen(r, q, opened, outcome) ==
    /\ req' = [req EXCEPT ![r] = Ended(q, outcome)]
    /\ stack' = [stack EXCEPT ![r] = opened]
    /\ UNCHANGED <<closing, registered>>

(* The session is not registered: what was opened is closed before the answer. *)
Fail(r, q, opened, outcome) ==
    /\ req' = [req EXCEPT ![r] = [Ended(q, outcome) EXCEPT
                                    !.pc = IF opened = <<>> THEN "over" ELSE "closing"]]
    /\ stack' = [stack EXCEPT ![r] = opened]
    /\ closing' = IF opened = <<>> THEN closing ELSE closing \cup {r}
    /\ UNCHANGED registered

(* Mutant: a resumed session is registered under an id of its own. *)
RegisterAnew(r, q, opened) ==
    /\ registered' = [registered EXCEPT ![r] = r]
    /\ stack' = [stack EXCEPT ![r] = opened]
    /\ req' = [req EXCEPT ![r] = Ended(q, "ok")]
    /\ UNCHANGED closing

(* replace_session, up to the await of the previous session's resources. *)
Register(r, q, opened) ==
    LET previous == registered[Home(r)]
        waits    == previous # NoOne /\ stack[previous] # <<>>
    IN  /\ registered' = [registered EXCEPT ![Home(r)] = r]
        /\ stack' = [stack EXCEPT ![r] = opened]
        /\ closing' = IF waits THEN closing \cup {previous} ELSE closing
        /\ req' = [req EXCEPT ![r] = IF waits THEN [q EXCEPT !.pc = "displacing", !.previous = previous]
                                     ELSE Ended(q, "ok")]

(* AsyncExitStack.aclose: an entry after the other, whatever one of them raises. *)
CloseOne(r) ==
    /\ r \in closing
    /\ stack' = [stack EXCEPT ![r] = Front(@)]
    /\ closing' = IF Len(stack[r]) = 1 THEN closing \ {r} ELSE closing
    /\ req' = IF Len(stack[r]) = 1 /\ At(r, "closing")
              THEN [req EXCEPT ![r].pc = "over"] ELSE req
    /\ UNCHANGED <<plan, published, jwks, index, removed, store, registered, held, turn>>

(* replace_session after the previous session is closed. *)
Displaced(r) ==
    /\ At(r, "displacing") /\ req[r].previous \notin closing
    /\ req' = [req EXCEPT ![r] = Ended(@, "ok")]
    /\ UNCHANGED <<plan, published, jwks, index, removed, store, stack, closing, registered,
                   held, turn>>

(* Cancelled while it waits for that: it goes on waiting, then takes itself off. *)
CancelDisplacing(r) ==
    /\ "cancel" \in plan.around /\ At(r, "displacing")
    /\ req' = [req EXCEPT ![r].pc = "rollback"]
    /\ UNCHANGED <<plan, published, jwks, index, removed, store, stack, closing, registered,
                   held, turn>>

TakesOff(r) ==
    /\ At(r, "rollback") /\ req[r].previous \notin closing
    /\ IF registered[Home(r)] = r
       THEN /\ req' = [req EXCEPT ![r] = [Ended(@, "cancelled") EXCEPT
                                 !.pc = IF stack[r] = <<>> THEN "over" ELSE "closing"]]
            /\ registered' = [registered EXCEPT ![Home(r)] = NoOne]
            /\ closing' = IF stack[r] = <<>> THEN closing ELSE closing \cup {r}
       ELSE /\ req' = [req EXCEPT ![r] = Ended(@, "cancelled")]
            /\ UNCHANGED <<registered, closing>>
    /\ UNCHANGED <<plan, published, jwks, index, removed, store, stack, held, turn>>

----------------------------------------------------------------------------
(* From one await to the next: each operator takes q, what a request holds when
   it resumes, and gives what it holds at its next await. *)

(* Mutant: an incomplete entry is tried like the others. *)
ParsedAsWritten(servers) == servers

(* parse_mcp_server_configs: incomplete entries are left out, in order; it raises
   for one with fields of a wrong kind. *)
Parsed(servers)     == Chosen(servers, {s \in DOMAIN Form : Form[s] # "incomplete"})
Unreadable(servers) == \E i \in DOMAIN servers : Form[servers[i]] = "unreadable"

(* A server of the session or of a built-in agent that is one of its tools. *)
Entry(s, for) == [server |-> s, for |-> for]

(* The servers of a built-in agent; none of them if they cannot be parsed. *)
EntriesOf(id) ==
    LET servers == IF Unreadable(Servers[id]) THEN <<>> ELSE Parsed(Servers[id])
    IN  [i \in DOMAIN servers |-> Entry(servers[i], id)]

(* Those of the built-in agents among the references, each of them once. *)
EntriesOfRefs(refs) ==
    LET fresh(k) == /\ refs[k].id \in DOMAIN Servers
                    /\ \A j \in 1..(k - 1) : refs[j].id # refs[k].id
    IN  FlattenSeq([k \in DOMAIN refs |-> IF fresh(k) THEN EntriesOf(refs[k].id) ELSE <<>>])

Connecting(q, b) ==
    LET own  == Parsed(b.servers)
        todo == [i \in DOMAIN own |-> Entry(own[i], "session")] \o EntriesOfRefs(b.refs)
    IN  [q EXCEPT !.todo = todo, !.pc = IF todo = <<>> THEN "build" ELSE "connecting"]

WithProfile(q, b) ==
    IF "get_user_profile" \in b.tools THEN [q EXCEPT !.pc = "profile"] ELSE Connecting(q, b)

Dependencies(q, b) ==
    IF b.tools \cap DatabaseTool # {} THEN [q EXCEPT !.pc = "database"] ELSE WithProfile(q, b)

(* _start_session up to _resolve_session_id. *)
Start(q, b) == IF b.resume THEN [q EXCEPT !.pc = "owned"] ELSE Dependencies(q, b)

(* The built-in agents from the configuration, up to the next custom one. *)
WithBuiltins(refs, agents) ==
    LET Builtin(k) == IF refs[k].id \in DOMAIN Servers THEN Agents[refs[k].id] ELSE NoAgent
        known == Min({k \in Len(agents)..Len(refs) : k = Len(refs) \/ refs[k + 1].kind = "custom"})
    IN  [k \in 1..known |-> IF k <= Len(agents) THEN agents[k] ELSE Builtin(k)]

(* The references so far; after the last one, the verdict on them.  Those of a
   built-in profile as it is configured are not checked. *)
Referring(q, b, agents) ==
    LET all  == WithBuiltins(b.refs, agents)
        next == [q EXCEPT !.agents = all]
    IN  IF Len(all) < Len(b.refs) THEN [next EXCEPT !.pc = "ref"]
        ELSE IF b.how # "profile" /\ ~RefsAccepted(b.parent, b.refs, all) THEN Ended(next, "invalid")
        ELSE Start(next, b)

(* The checks of the name, the prompt, the temperature and the names of tools. *)
BodyAccepted(b) == b.valid # "no"

(* create_chat_session up to the first await.  The configuration of a profile is
   taken as it is; what a body brings along is checked for its servers too. *)
Admitted(q, b) ==
    IF ~BodyAccepted(b) THEN Ended(q, "invalid")
    ELSE IF b.how # "profile" THEN [q EXCEPT !.pc = "skills"]
    ELSE IF Unreadable(b.servers) THEN Ended(q, "failed")
    ELSE Referring([q EXCEPT !.skills = b.skills], b, <<>>)

(* get_current_user with keys of a version. *)
Checked(q, b, version) ==
    LET next == [q EXCEPT !.version = version] IN
    IF b.token.kid \in KeySets[version]
    THEN IF b.token.valid THEN Admitted(next, b) ELSE Ended(next, "bad_token")
    ELSE IF q.forced THEN Ended(next, "unknown_key")
    ELSE [next EXCEPT !.forced = TRUE, !.pc = "fetching"]

(* The function tools that are instantiated. *)
Built(q, b) == (b.tools \cap Registry) \cup q.database

(* The rest of a step: nothing more if q waits or is over, else the runtime is
   built, and the session registered or its conversation stored first. *)
Advance(r, q, opened) ==
    LET b == Body(r)
        connected == {k \in DOMAIN q.results : q.results[k].ok}
        servers == {q.results[k].server : k \in {j \in connected : q.results[j].for = "session"}}
    IN  \/ /\ q.pc # "build"
           /\ req' = [req EXCEPT ![r] = q]
           /\ stack' = [stack EXCEPT ![r] = opened]
           /\ UNCHANGED <<closing, registered>>
        \/ /\ q.pc = "build"
           /\ Fail(r, q, opened, "failed")
        \/ \E unwrapped \in SUBSET DOMAIN b.refs :
              LET next == [q EXCEPT !.runtime =
                             Runtime(b.tools, Built(q, b), servers, b.refs, q.agents, unwrapped)] IN
              /\ q.pc = "build"
              /\ \/ /\ b.resume
                    /\ Register(r, next, opened)
                 \/ /\ ~b.resume
                    /\ req' = [req EXCEPT ![r] = [next EXCEPT !.pc = "indexing"]]
                    /\ stack' = [stack EXCEPT ![r] = opened]
                    /\ UNCHANGED <<closing, registered>>

others == <<plan, published, index, removed, store, turn>>
Moves(r, q) == Advance(r, q, stack[r]) /\ UNCHANGED <<others, jwks, held>>
Stops(r, outcome) == Fail(r, req[r], stack[r], outcome) /\ UNCHANGED <<others, jwks, held>>

----------------------------------------------------------------------------
(* auth.py *)

Arrive(r) ==
    LET b == Body(r)
        q == [Unborn EXCEPT !.at = [version |-> published, owned |-> Old \in index,
                                    agents |-> store]]
    IN  /\ At(r, "unborn")
        /\ Moves(r, CASE ~plan.auth -> Admitted(q, b)
                      [] plan.auth /\ b.token = NoOne -> Ended(q, "no_token")
                      [] plan.auth /\ b.token # NoOne /\ b.token.kid = "none" -> Ended(q, "bad_token")
                      [] OTHER -> IF jwks # 0 THEN Checked(q, b, jwks)
                                  ELSE [q EXCEPT !.pc = "fetching"])

(* The identity provider answers with the keys it publishes at that time. *)
KeysRead(r) ==
    /\ At(r, "fetching")
    /\ req' = [req EXCEPT ![r].pc = "keys", ![r].version = published]
    /\ UNCHANGED <<others, jwks, stack, closing, registered, held>>

(* Mutant: an answer does not replace keys that are in the cache. *)
KeysKept(r) ==
    /\ At(r, "keys")
    /\ jwks' = IF jwks # 0 THEN jwks ELSE req[r].version
    /\ Advance(r, Checked(req[r], Body(r), jwks'), stack[r])
    /\ UNCHANGED <<others, held>>

(* _fetch_jwks: the answer replaces the cached keys, later ones too. *)
KeysArrive(r) ==
    /\ At(r, "keys")
    /\ jwks' = req[r].version
    /\ Advance(r, Checked(req[r], Body(r), req[r].version), stack[r])
    /\ UNCHANGED <<others, held>>

KeysFail(r) == At(r, "fetching") /\ Stops(r, "no_keys")

----------------------------------------------------------------------------
(* session_orchestration.py *)

(* available_skill_names: those the body asks for and that exist are kept; the
   servers of the body are checked after that, so that all of them parse. *)
ReadSkills(r) ==
    \E known \in SUBSET Body(r).skills :
        /\ At(r, "skills")
        /\ Moves(r, IF \E i \in DOMAIN Body(r).servers : Form[Body(r).servers[i]] # "ok" THEN Ended(req[r], "invalid")
                    ELSE Referring([req[r] EXCEPT !.skills = known], Body(r), <<>>))

(* Mutant: a definition that the client sends along is used as it is. *)
SuppliedDefinition(ref) ==
    CASE ref.supplied # "none" -> Agents[ref.supplied]
      [] ref.supplied = "none" /\ ref.id \in store -> Agents[ref.id]
      [] OTHER -> NoAgent

(* _owner_scoped_sub_agent_payload: the owner's definition of an agent; one with
   another id is let through to the validation, which refuses it. *)
OwnDefinition(ref) ==
    CASE ref.supplied \notin {"none", ref.id} -> Agents[ref.supplied]
      [] ref.supplied \in {"none", ref.id} /\ ref.id \in store -> Agents[ref.id]
      [] OTHER -> NoAgent

ReadRef(r) ==
    LET b == Body(r) IN
    /\ At(r, "ref")
    /\ Moves(r, Referring(req[r], b, Append(req[r].agents,
                                  OwnDefinition(b.refs[Len(req[r].agents) + 1]))))

(* Mutant: a conversation is resumed whether or not it is the caller's. *)
ResumeAny(r) == At(r, "owned") /\ Moves(r, Dependencies(req[r], Body(r)))

(* _resolve_session_id of a conversation to resume. *)
Resume(r) ==
    /\ At(r, "owned")
    /\ Moves(r, IF Old \in index THEN Dependencies(req[r], Body(r)) ELSE Ended(req[r], "not_found"))

(* DatabaseAccess.tools_for: the tools that the user has a grant for; none if
   it raises. *)
GrantDatabase(r) ==
    \E granted \in SUBSET (Body(r).tools \cap DatabaseTool) :
        /\ At(r, "database")
        /\ Moves(r, WithProfile([req[r] EXCEPT !.database = granted], Body(r)))

ReadProfile(r) == At(r, "profile") /\ Moves(r, Connecting(req[r], Body(r)))

(* A call of the store raises before anything is opened. *)
StoreFails(r) ==
    /\ req[r].pc \in {"skills", "ref", "owned", "profile"}
    /\ Stops(r, IF At(r, "owned") THEN "unavailable" ELSE "failed")

----------------------------------------------------------------------------
(* mcp_servers.py *)

(* Mutant: a credential is kept whatever the token. *)
RenewsOnce(r, s, token) == Auth[s] = "obo" /\ token # NoOne /\ held[r][s] = NoOne

(* The header provider of a server, called with a token: an on-behalf-of
   credential is got for each token that is not the one before. *)
Renews(r, s, token) == Auth[s] = "obo" /\ token # NoOne /\ held[r][s] # token
WithCredential(r, s, token) ==
    IF Renews(r, s, token) THEN Append(stack[r], Credential(s)) ELSE stack[r]
Holds(r, s, token) ==
    held' = IF Renews(r, s, token) THEN [held EXCEPT ![r][s] = token] ELSE held

(* A server is done with; after the last one the runtime is built. *)
Outcome(r, ok) ==
    LET q == req[r]
        e == Head(q.todo)
    IN  [q EXCEPT !.todo = Tail(@), !.pc = IF Tail(q.todo) = <<>> THEN "build" ELSE @,
                  !.results = Append(@, [server |-> e.server, for |-> e.for, ok |-> ok])]

Connects(r) ==
    LET token == Body(r).token IN
    \E s \in Server :
        /\ At(r, "connecting") /\ Head(req[r].todo).server = s
        /\ Auth[s] = "none" \/ token # NoOne
        /\ Holds(r, s, token)
        /\ Advance(r, Outcome(r, TRUE), Append(WithCredential(r, s, token), Connection(s)))
        /\ UNCHANGED <<others, jwks>>

(* A server that fails, before or after it was given a header, is left out. *)
ConnectFails(r) ==
    LET token == Body(r).token IN
    \E s \in Server :
        /\ At(r, "connecting") /\ Head(req[r].todo).server = s
        /\ \/ /\ Holds(r, s, token)
              /\ Advance(r, Outcome(r, FALSE), WithCredential(r, s, token))
           \/ /\ UNCHANGED held
              /\ Advance(r, Outcome(r, FALSE), stack[r])
        /\ UNCHANGED <<others, jwks>>

----------------------------------------------------------------------------
(* The end of _start_session *)

Indexed(r) ==
    /\ At(r, "indexing")
    /\ index' = index \cup {r}
    /\ Register(r, req[r], stack[r])
    /\ UNCHANGED <<plan, published, jwks, removed, store, held, turn>>

(* The write fails, or its answer is lost. *)
IndexFails(r) ==
    /\ At(r, "indexing")
    /\ index' \in {index, index \cup {r}}
    /\ Fail(r, req[r], stack[r], "unavailable")
    /\ UNCHANGED <<plan, published, jwks, removed, store, held, turn>>

(* The request is cancelled at an await; a write under way may have been done. *)
Cancel(r) ==
    /\ "cancel" \in plan.around
    /\ req[r].pc \notin {"unborn", "displacing", "rollback", "closing", "over"}
    /\ index' \in IF At(r, "indexing") THEN {index, index \cup {r}} ELSE {index}
    /\ Fail(r, req[r], stack[r], "cancelled")
    /\ UNCHANGED <<plan, published, jwks, removed, store, held, turn>>

----------------------------------------------------------------------------
(* A turn: send_message and stream_agent_events *)

system == <<plan, published, jwks, index, removed, store, req, closing, registered>>
Streams(t, next) == turn' = [turn EXCEPT ![t] = next] /\ UNCHANGED <<system, stack, held>>

Send(t) ==
    \E c \in Conversation :
        /\ turn[t].pc = "unsent" /\ registered[c] # NoOne
        /\ Streams(t, [turn[t] EXCEPT !.pc = "streaming", !.by = registered[c]])

(* What the agent may stream next: function calls in fragments, of which the
   first has its id and one its name; calls of the model's host, which may come
   twice; a result for a call. *)
Parts(said, c) ==
    Chosen(said, {x \in Range(said) : x.id = c /\ x.type \in {"call", "hosted_call"}})
Answered(said, c) == \E i \in DOMAIN said : said[i].id = c /\ said[i].type \in {"rendered", "plain"}
Named(said, c) == \E i \in DOMAIN said : said[i].id = c /\ said[i].name # "none"
Hosted(said, c) == \E i \in DOMAIN said : said[i].id = c /\ said[i].type = "hosted_call"

(* The last fragment of a call; whether a result came after it. *)
IsLastCall(said, i) ==
    said[i].type = "call" /\ \A j \in (i + 1)..Len(said) : said[j].type # "call"
AnsweredSince(said) ==
    \E i \in DOMAIN said : /\ said[i].type \in {"rendered", "plain"}
                           /\ \A j \in (i + 1)..Len(said) : said[j].type # "call"

Saying(said) ==
    LET Content(type, c, name) == [type |-> type, id |-> c, name |-> name,
                                   part |-> Len(Parts(said, c)) + 1]
        open(c)   == ~Answered(said, c)
        begun(c)  == Parts(said, c) # <<>>
    IN  {Content("call", c, n) : c \in {d \in CallId : open(d) /\ ~Hosted(said, d) /\ ~Named(said, d)},
                                 n \in ToolName \cup {"none"}}
        \cup {Content("call", c, "none") : c \in {d \in CallId : open(d) /\ ~Hosted(said, d) /\ Named(said, d)}}
        \cup {[Content("hosted_call", c, n) EXCEPT !.part = 1] :
                 c \in {d \in CallId : begun(d) => Hosted(said, d)}, n \in ToolName}
        \cup {Content(type, c, "none") : type \in {"rendered", "plain"},
                                         c \in {d \in CallId : begun(d) /\ open(d)}}
        \cup {[Content(type, "none", "none") EXCEPT !.part = 0] : type \in {"text", "approval"}}

(* A fragment without an id comes after others of its call, with no fragment of
   another one since. *)
MayOmitId(said, x) ==
    x.type = "call" /\ \E i \in DOMAIN said : said[i].id = x.id /\ IsLastCall(said, i)

(* Such a fragment follows a result, or belongs to a call without a name. *)
Loose(said, x) == ~Named(said, x.id) \/ AnsweredSince(said)

Says(t) ==
    LET said == turn[t].said IN
    /\ turn[t].pc = "streaming" /\ Len(said) < plan.contents
    /\ \E x \in Saying(said) :
        \E id \in {x.id} \cup (IF MayOmitId(said, x) THEN {"none"} ELSE {}) :
          Streams(t, [turn[t] EXCEPT
                        !.said = Append(said, x),
                        !.loose = @ \cup (IF id # x.id /\ Loose(said, x) THEN CallId ELSE {}),
                        !.stream = Taken(@, [x EXCEPT !.id = id])])

(* The agent calls a tool of a connected server.  Two turns whose tokens differ
   and that call in turns push a credential with each call. *)
Calls(t) ==
    LET r == turn[t].by
        token == plan.tokens[t]
    IN  /\ turn[t].pc = "streaming" /\ token # NoOne
        /\ \E s \in Server :
              /\ Auth[s] # "none" /\ \E i \in DOMAIN stack[r] : stack[r][i] = Connection(s)
              /\ Renews(r, s, token) => Len(stack[r]) < MaxStack
              /\ Holds(r, s, token)
              /\ stack' = [stack EXCEPT ![r] = WithCredential(r, s, token)]
              /\ turn' = [turn EXCEPT ![t].header = IF Auth[s] = "obo" THEN held'[r][s] ELSE token]
              /\ UNCHANGED system

Finishes(t) ==
    \E usage \in BOOLEAN :
        /\ turn[t].pc = "streaming"
        /\ Streams(t, [turn[t] EXCEPT !.pc = "over", !.stream = Completed(@, usage, turn[t].said)])

(* The run of the agent raises. *)
Breaks(t) ==
    /\ turn[t].pc = "streaming"
    /\ Streams(t, [turn[t] EXCEPT !.pc = "over", !.stream = Failed(@)])

(* The client goes away: the generator is closed where it stands. *)
GoesAway(t) ==
    /\ turn[t].pc = "streaming"
    /\ Streams(t, [turn[t] EXCEPT !.pc = "gone"])

----------------------------------------------------------------------------
(* What happens around the requests *)

RotateKeys ==
    /\ "rotate" \in plan.around /\ published < Len(KeySets)
    /\ published' = published + 1
    /\ UNCHANGED <<plan, jwks, index, removed, store, req, stack, closing, registered, held, turn>>

DeleteConversation ==
    /\ "delete" \in plan.around /\ Old \in index
    /\ index' = index \ {Old}
    /\ removed' = removed \cup {Old}
    /\ UNCHANGED <<plan, published, jwks, store, req, stack, closing, registered, held, turn>>

DeleteAgent(a) ==
    /\ "forget" \in plan.around /\ a \in store
    /\ store' = store \ {a}
    /\ UNCHANGED <<plan, published, jwks, index, removed, req, stack, closing, registered, held, turn>>

(* close_session, at the end of a session or of a conversation. *)
EndSession(c) ==
    LET r == registered[c] IN
    /\ "end" \in plan.around /\ r # NoOne
    /\ registered' = [registered EXCEPT ![c] = NoOne]
    /\ closing' = IF stack[r] = <<>> THEN closing ELSE closing \cup {r}
    /\ UNCHANGED <<plan, published, jwks, index, removed, store, req, stack, held, turn>>

Next ==
    \/ \E r \in DOMAIN plan.body :
        \/ Arrive(r) \/ KeysRead(r) \/ KeysArrive(r) \/ KeysFail(r)
        \/ ReadSkills(r) \/ ReadRef(r) \/ Resume(r) \/ GrantDatabase(r) \/ ReadProfile(r)
        \/ StoreFails(r) \/ Connects(r) \/ ConnectFails(r) \/ Indexed(r) \/ IndexFails(r)
        \/ Cancel(r) \/ CloseOne(r) \/ Displaced(r) \/ CancelDisplacing(r) \/ TakesOff(r)
    \/ \E t \in DOMAIN plan.tokens :
        Send(t) \/ Says(t) \/ Calls(t) \/ Finishes(t) \/ Breaks(t) \/ GoesAway(t)
    \/ RotateKeys \/ DeleteConversation
    \/ \E a \in DOMAIN Agents : DeleteAgent(a)
    \/ \E c \in Conversation : EndSession(c)

Spec == Init /\ [][Next]_vars

----------------------------------------------------------------------------
(* Properties *)

Waiting == {"fetching", "keys", "skills", "ref", "owned", "database", "profile", "connecting",
            "indexing", "displacing", "rollback", "closing"}
Refusals == {"invalid", "bad_token", "no_token", "unknown_key", "no_keys", "not_found",
             "unavailable", "failed", "cancelled"}

(* The state, with what its parts owe each other: a request is over or closing
   with an outcome, a stack is being closed only if there is something on it, and
   a session is registered for the conversation of its request only. *)
TypeOK ==
    /\ published \in DOMAIN KeySets
    /\ jwks \in 0..published
    /\ index \cap removed = {} /\ index \cup removed \subseteq Conversation
    /\ store \subseteq DOMAIN Agents
    /\ \A r \in Request :
        /\ req[r].pc \in Waiting \cup {"unborn", "over"}
        /\ req[r].pc \in {"over", "closing"} <=> req[r].outcome # "none"
        /\ req[r].outcome \in Refusals \cup {"none", "ok"}
        /\ \A i \in DOMAIN stack[r] : stack[r][i] \in {"server", "credential"} \X Server
        /\ At(r, "connecting") => req[r].todo # <<>>
        /\ r \in closing => stack[r] # <<>>
    /\ \A c \in Conversation : registered[c] # NoOne =>
                                  registered[c] \in DOMAIN plan.body /\ Home(registered[c]) = c
    /\ \A t \in Turn : turn[t].pc \in {"unsent", "streaming", "over", "gone"}

Used(r) == req[r].version
Passed(r) ==
    req[r].pc \notin {"unborn", "fetching", "keys"}
    /\ req[r].outcome \notin {"no_token", "bad_token", "unknown_key", "no_keys", "cancelled"}

(* However requests and rotations interleave, a token is refused for its key only
   by keys that were published after its request arrived and do not have it: a key
   that is published all the while is never refused for a cache that is behind.
   And a request that is let in was signed by a key that was published once. *)
AuthTruth ==
    \A r \in DOMAIN plan.body : plan.auth =>
        /\ req[r].outcome = "unknown_key" =>
              /\ Used(r) >= req[r].at.version
              /\ Body(r).token.kid \notin KeySets[Used(r)]
        /\ Passed(r) \/ (req[r].outcome = "bad_token" /\ Used(r) > 0) =>
              /\ Body(r).token # NoOne
              /\ Body(r).token.kid \in KeySets[Used(r)] /\ Used(r) <= published

(* Servers and credentials are open only in a session that is registered, in a
   request that still goes on, or in a stack that is being closed; whatever fails,
   is cancelled or is displaced on the way.  A server that was connected with a
   credential loses it after its connection only. *)
NothingLeaks ==
    \A r \in DOMAIN plan.body :
        /\ stack[r] # <<>> =>
              \/ registered[Home(r)] = r \/ r \in closing
              \/ req[r].pc \in {"connecting", "indexing"}
        /\ registered[Home(r)] = r =>
              /\ r \notin closing
              /\ \A k \in DOMAIN req[r].results : req[r].results[k].ok =>
                    \E i \in DOMAIN stack[r] : stack[r][i] = Connection(req[r].results[k].server)
        /\ \A i \in DOMAIN stack[r] :
              stack[r][i][1] = "server" /\ Auth[stack[r][i][2]] = "obo" =>
                \E j \in 1..(i - 1) : stack[r][j] = Credential(stack[r][i][2])

(* Whoever deletes agents and the conversation meanwhile, a session that was
   answered for belongs to a conversation that was the owner's when its request
   arrived or was created for it; all its custom agents were in the owner's store
   at that time; its answer names each server that is
   written down properly once, in order; and no two of its
   tools have the same name. *)
SessionTruth ==
    \A r \in DOMAIN plan.body :
        LET q == req[r]
            subs == q.runtime.subs
            kept == Chosen(q.results, {e \in Range(q.results) : e.for = "session"})
        IN  q.outcome = "ok" \/ registered[Home(r)] = r =>
              /\ IF Body(r).resume THEN q.at.owned ELSE r \in index
              /\ \A k \in DOMAIN Body(r).refs :
                    Body(r).refs[k].kind = "custom" => Body(r).refs[k].id \in q.at.agents
              /\ [k \in DOMAIN kept |-> kept[k].server] =
                    Chosen(Body(r).servers, {s \in DOMAIN Form : Form[s] = "ok"})
              /\ \A i, j \in DOMAIN subs : subs[i] = subs[j] => i = j
              /\ \A i \in DOMAIN subs : subs[i] \notin q.runtime.own

(* A server is called with the token of the turn that calls it, also when turns of
   one session have different tokens. *)
HeaderOfCaller == \A t \in DOMAIN plan.tokens : turn[t].header \in {NoOne, plan.tokens[t]}

ArgsOf(said, c) == [i \in DOMAIN Parts(said, c) |-> Parts(said, c)[i].part]

(* The events of a response: "done" comes last and once, with a result unless an
   error came before it; a view is opened right after the result of a call that
   was announced as rendering one and did; and as long as no fragment is loose,
   a function call's result, and the trace, carry the arguments the agent sent. *)
StreamTruth ==
    \A t \in DOMAIN plan.tokens :
        LET out  == turn[t].stream.out
            said == turn[t].said
            trace == turn[t].stream.result
            Is(i, e) == i \in DOMAIN out /\ out[i].event = e
        IN  /\ turn[t].pc = "over" <=> Is(Len(out), "done")
            /\ \A i \in DOMAIN out : Is(i, "done") => i = Len(out)
            /\ trace.filled <=> turn[t].pc = "over" /\ ~Is(Len(out) - 1, "error")
            /\ \A i \in DOMAIN out : Is(i, "agent_view") =>
                  /\ Is(i - 1, "function_result") /\ out[i - 1].id = out[i].id
                  /\ \E j \in 1..(i - 2) : Is(j, "function_call") /\ out[j].id = out[i].id
                                            /\ out[j].name = RenderTool
                  /\ \E j \in DOMAIN said : said[j].type = "rendered" /\ said[j].id = out[i].id
            /\ turn[t].loose = {} =>
                  \A i \in DOMAIN out : Is(i, "function_result") /\ Named(said, out[i].id)
                                         /\ ~Hosted(said, out[i].id) =>
                    /\ out[i].args = ArgsOf(said, out[i].id)
                    /\ trace.filled => trace.calls[out[i].id] = [args |-> out[i].args, done |-> TRUE]
===============================================================================
