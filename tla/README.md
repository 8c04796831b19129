# Web Agents: a TLA+ development

This directory holds a formal model of the Web Agents backend (FastAPI, Azure
Cosmos DB, the Microsoft agent framework). TLC model-checks the modules on small
instances; TLAPS proves what matters most for every value of the constants.

The program is mostly glue around services. What is hard in it is not
computing, it is *ordering*: every `await` lets other requests, the scheduler,
a deadline, a cancellation or another backend process in; every request to
Cosmos may fail, or be carried out and its answer lost; a process may die. The
models keep these and abstract from texts, prompts, formats and logging.

## 1. Inventory

For each component: the state it keeps, its operations, what makes it hard, and
what it has to guarantee.

| Component | State | Operations | What is hard | What makes it correct |
|---|---|---|---|---|
| **Autonomous scheduler** `autonomous_scheduler.py` | `_last_slot` per process; one task | `start` / `seed_baseline`, `poll_once`, `_maybe_fire`, `stop` | several instances, restarts, stale polls, failing lease requests | a slot runs once within its lease; no re-fire at a redeploy; nothing is forgotten for good |
| **Autonomous cycle** `autonomous.py` | execution lease, run record, the session under the directive's id | `run_autonomous_cycle`, `_execute_autonomous_cycle`, `_finalize` | deadline against a late response, cancellation during cleanup, failing cleanup, expired lease | runs exclude each other; every run ends, is recorded truthfully and frees its lease |
| **Lease documents** `cosmos_memory.py:411-467` | one document per (directive, slot), one `execution` document per directive, with ttl and etag | `try_acquire`, `try_start`, `finish` | expiry between read and delete, lost answers | nobody's lease is taken away by another |
| **Directive store and API** `api_routes/autonomous.py`, `autonomous.py:231-254` | directive documents | create, patch, delete, seed, run-now | get-then-upsert races, seeding against edits | an edit is not lost, a deletion not undone |
| **Session registry** `session_data.py` | `_sessions` per process; each session's MCP connections | `get_session`, `close_session`, `replace_session`, `_dispose_session` | displacement, cancellation during disposal | no connection leaks or is closed twice; one request does not close another's session |
| **Session orchestration** `session_orchestration.py` | -- | `create_chat_session`, `_start_session`, dependency resolution | partial failure after connecting | roll back what was opened; register only what is indexed |
| **Conversations** `api_routes/sessions.py`, `cosmos_memory.py:180-282` | index entry with etag; messages; views | create, resume, send, touch, end, delete | several stores, no transaction, concurrent requests | a deletion is complete and final; the title stays |
| **Agent views** `agent_views.py`, `api_routes/agent_views.py` | view documents; `_request_times` | render, evict, list, view data | create-then-evict races, budget of a session that is gone | the cap, the budget |
| **Streaming** `streaming.py` | accumulators of one response | `stream_agent_events` | interleaved call ids, partial results | events in protocol order, each call answered once |
| **Notifications** `notifications.py` | -- | sink choice, delivery | delivered but not known | told once, recorded |
| **Skills** `skills_manager.py` | global and user skills | create, update, delete, seed | check-then-create, get-then-upsert | unique names, no resurrection |
| **Definitions and user data** `definition_creation.py`, `user_data.py` | agents, profiles, overrides | validate, create, upsert | reference checks against concurrent saves | no cycle of sub-agents |
| **Database authorization** `database_authorization.py` | group cache | `authorize`, audit | stale cache, failing resolver or sink | fail closed, bounded staleness, one audit event per attempt |
| **Database tools** `database*.py` | drivers | query, describe | row and character bounds | bounded results |
| **Authentication** `auth.py` | key cache | validate, refresh | key rotation | one refresh for an unknown key |
| **MCP servers, agent factory, sub-agents** | connections | connect, build tools | one server failing among several | isolation, unique tool names |
| **Chat client** `frontend/src/hooks` | generation, session, request | start, send, cancel, switch | late answers of abandoned requests | only the current generation changes the state |
| **Validators, prompts, profiles, wiring, infrastructure** | -- | -- | stateless or deployment | -- |

How they interact. A request to `POST /api/sessions` goes through orchestration,
which connects the MCP servers, writes the index entry and registers the
session; messages look the session up in the registry, touch the index, and
stream from the agent, whose history provider stores the turn and whose view
tool saves views. The scheduler and the run-now request call
`run_autonomous_cycle`, which goes through the *same* orchestration and the same
registry under the directive's session id, and takes a lease that all instances
share. The scheduler's own slot leases are separate documents in the same
container.

The hazards, each at its line with the properties that catch it, are listed
under `hazards` in `PROJECT.json`.

## 2. Plan

Modules, most important behaviour first:

1. `Scheduler` -- done, proved.
2. `Cycle` with the abstract `RunLedger` -- done, its safety and the refinement
   proved.
3. `Conversation` -- done, proved.
4. `DatabaseAccess` over `DatabaseResult`, with the abstract `ToolGate` -- done,
   proved.
5. `Library`: directives, skills, agents and user data -- done, proved.
6. `ChatSession` over `SubAgentTools` and `ToolStream`: authentication, opening a
   session, its MCP servers, its turns and their events -- done, proved.

Compositions: `DatabaseAccess` is the authorizer, the tools of a session and the
worker threads in one event loop; `ChatSession` composes authentication,
orchestration, servers, registry and streaming. `Cycle` and `Conversation` meet
the same registry from the autonomous runs and from a user's requests.

Still worth doing, in this order: an abstract *leased mutex* that `Cycle`'s lease
refines; the composition of `Scheduler` with `Cycle`, where a won slot starts a run
that blocks the poll loop; the chat hooks of the browser (`generationRef`,
`lifecycleRef`, `requestRef`).

## 3. Modules

### `Scheduler` -- the scheduler in every instance

State and code: `phase[i]` is the await at which instance i's task is suspended
(`down`, `seeding` the directive list, `asleep`, `loading`, `firing` between
directives, `claiming` in `try_acquire`, `running` a cycle); `tick[i]` is the
`now` a poll takes once at its beginning; `todo[i]` the directives it loaded;
`lastSlot[i]` is `_last_slot`; `lease[d][s]` says until when the document of
directive d and slot s lives. `claims` and `seeded` are history variables.
`Cron` is croniter's `get_prev`: a constant function, of which only is assumed
that slots are not in the future and that they grow with time.

The order matters and is kept: the slot is noted as handled *before* the lease
is asked for (`AskLease`), so a failing request gives the slot up for this
instance. The lease request is one step, answered by `LeaseWon`, `LeaseHeld` or
`LeaseError` (carried out or not). `Down` stands for `stop()` and for a crash.
`Edit` is the write at the end of a directive request; any plan may be written,
so what the request read before does not matter to the scheduler.

### `Cycle`, `RunLedger` -- the runs of one directive

State and code: `pc[r]` is the await of run r (`starting` in `try_start`,
`opening` in the session creation, `displacing` inside `replace_session`,
`asking` the agent, `touching` the index, `undoing` and `closing` sessions,
`notifying`, `recording`, `finishing` and `releasing` in `finish`); `lease` is
the `execution` document; `sessions[i]` is the entry of instance i's `_sessions`
under the directive's session id; `using[r]` is `session_data`, what the run
found there; `told` and `audit` are the sink's and the run log's knowledge.

Exceptions are where this code is subtle and the model follows them:
`asyncio.timeout` and cancellation enter at any await of the execution
(`Deadline`, `CancelExecution` through `Interrupt`); `_dispose_session` shields
the cleanup and waits for it again; a cleanup that raises replaces whatever was
on its way (`CleanupFails`, `UndoFails`); `_finalize` is skipped by a
cancellation but not by the deadline (`AfterExecute`).

`RunLedger` is the abstract specification: a run is refused or works, and ends with
one outcome; it succeeds only if neither the deadline nor a cancellation came
first; only a success is delivered, before it is filed; the entry in the log is
that outcome or lost, and is written once; only a cancelled run is withdrawn
without an entry; a crash freezes what a run has told and filed. `Cycle` implements
it with `StageOf`, which merges the awaits of the execution into `working` and tells
a filed run from a withdrawn one by its record.

### `Conversation` -- one conversation in one process

State and code: `index` is the index entry (its title and its etag), `history`
the turns in the message store, `views` the view documents in the order of
their creation, `session` the conversation's entry in `_sessions`, `res[s]` the
exit stack of session s, `budget` the entry in `_request_times`. `pc[q]` is the
await of request q, which is one of: create, resume, send (with at most one
rendering), end, delete. Time is abstracted from the budget's window:
`WindowPasses` drops one counted request. The other requests of the process
concern other keys of the same dictionaries and do not meet these.

The history provider and the agent are external: a response stores its turn at
its end, or does not (`Respond`). What a failing Cosmos request may have done
before its answer was lost is in every failing action.

`gone`, `disturbed` and `unevicted` are history variables. `disturbed` is set
when a deletion runs at the same time as another request, or when it was told
of a failure although the index entry had been deleted; `unevicted` counts
renderings that broke off before they had evicted.

### `DatabaseAccess`, `DatabaseResult`, `ToolGate` -- access to a database

`DatabaseResult` (over `SequenceOps`: running totals and selections) has the pure
part as operators: the checks of a request, the
gate on the parsed statement, the bound it puts on the number of rows, the
bounding of rows and of the schema catalog by number and by characters, the
classes of a failure. A statement is a record of what the gate looks at in its
parse; a cell is its Python kind and the length of its text.

`DatabaseAccess` has two kinds of task. `session[s]` is a session being opened,
which asks for its capabilities one after the other (`tools_for`); a call of a
tool is authorized again. `task[t]` is the await a task is suspended at
(`asking` the directory, `answered` or `unresolved`, `executing` in a thread,
`abandoned`), with the clock it read before asking; `thread[c]` is what the
worker thread of call c does, which goes on when its caller is cancelled.
`cache[u]` is the entry of `_cache`, `member[u]` what the directory would
answer, and `clock` the authorizer's clock. `audit[c]` and `exposed[s]` are the
events emitted. `entitledAt[u]` is a history variable. The event loop stays with
a session that waits for nothing (`LoopFree`): what a coroutine does between two
awaits is not interleaved.

`ToolGate` is the abstract specification: a call is refused or admitted, the
database is contacted at most once and only for an admitted call, and an
answered call is on the audit trail once, with the outcome its caller saw.
`DatabaseAccess!ImplementsGate` maps the phases, the threads and the trail to it.

Worth knowing, and deliberately in the model:

* a call whose caller is cancelled emits no audit event, although
  `database_authorization.py:7` says "Every attempt ... emits exactly one";
* the groups in a session's token are not read again for its calls, and a
  membership that was taken away is honoured until the cache entry runs out;
* a limit that is not a literal is replaced by `max_rows + 1`, which may be more
  than it was (`database_sqlserver.py:222` says "never loosening it"); the rows
  kept are bounded either way;
* the discovery of wide tables can leave out objects or columns and still say
  `truncated = False`, because its fetch is limited in rows of columns. That is
  why `CatalogHonest` says what it says of catalogs the fetch covers.

### `Library` -- directives, skills, agents and user data

`docs[s][i]` is document i of container s. A request is a coroutine of calls of
the store; `req[r].pc` is the next one (`scope_shared`, `scope_user`,
`check_shared`, `existing`, `list_skills`, `list_user_skills`, `target`,
`insert`, `wrapper` -- the read that `CosmosUserScopedRepository.upsert` makes --
`upsert`, `remove`, `list`, `seed`), and `got`, `seen`, `known`, `todo` are what
it has read. A document is who wrote each of its fields, who created it, and
its references. `alone`, `wrote` and `met` are history variables, by which the
properties say "unless it raced". Each behaviour takes its calls from one menu,
so that the containers that do not interact are not multiplied.

### `ChatSession`, `SubAgentTools`, `ToolStream` -- a chat session

`req[r].pc` is the await of a request for a session: `fetching` and `keys` (the
signing keys, cached or fetched once more), `skills`, `ref`, `owned`, `database`,
`profile`, `connecting` (one server after the other), `indexing`, `displacing`,
`rollback`, `closing`. `stack[r]` is its `AsyncExitStack`: connections and
credentials in the order they were pushed, closed from the end (`CloseOne`).
`registered[c]` is `_sessions`, `held[r][s]` the token for which the header
provider of server s holds a credential. `turn[t]` is a message: what the agent
streamed (`said`), the state of `stream_agent_events` and its events (`stream`),
and the token its last call of a server carried (`header`).

`SubAgentTools` has the checks of references and the derivation of tool names
as operators; `ToolStream` one operator per type of content. `StreamTruth`
speaks of arguments only for turns without a *loose* fragment, one without an
id that follows a result or continues a call that never had a name: such a
fragment goes to whatever call was active last.

Worth knowing, and deliberately in the model: the key cache does not expire and
is refreshed only for an unknown key; sub-agent tools are given names apart
from the names of MCP servers, not from the functions those servers offer; an
MCP server that is written down incompletely is dropped silently, while one that
cannot be read makes a profile's session fail and leaves a sub-agent without
servers; a server whose on-behalf-of settings are missing counts as failing to
connect; the list of tools in the answer names the non-database tools that a
profile asks for, whether they exist or not; turns that alternate between
tokens push a new credential on the session's stack with each change, which
nothing pops before the session ends.

### Proof and MC modules

`SchedulerProofs`, `CycleProofs`, `ConversationProofs`, `DatabaseAccessProofs`,
`LibraryProofs` and `ChatSessionProofs` extend the module they are about.
`DatabaseResultProofs` has the lemmas about the operators of `DatabaseResult`, which
are about data only and mention no state; `SequenceLemmas` those about sequences
that several proofs need (appending to and taking from a sequence without
repetitions, the totals and selections of `SequenceOps`). `SequenceOps` is a module
of its own so that the models use it without the proof library. `MCScheduler`,
`MCCycle`, `MCConversation`, `MCDatabaseAccess`, `MCLibrary` and `MCChatSession`
instantiate the models for TLC.

## 4. What the runs check

| Run | Question | Instance and why it is enough |
|---|---|---|
| `scheduler_safety` | Are two runs of a slot a lease apart, and does a start never re-fire? (`ClaimsApart`, `NoRestartRefire`) | two instances, one directive, three kinds of schedule (fires now and later, only earlier, malformed), three instants, two edits, one crash. The lease lives two ticks, so it can expire while a slow instance still holds an old poll. Two edits are the off-and-on that has to keep what was seeded |
| `scheduler_catchup` | Does an instance that stays up end up with every current slot handled? (`CatchesUp`) | one instance, two directives so that a long cycle delays the other, failing loads and lease requests, one crash |
| `scheduler_ttl` (violation) | Is a slot run at most once? (`SlotRunsOnce`) | the lease expires before the slot has a successor |
| `cycle_safety` | Do runs exclude each other within their leases, keep their own session and tell one story? (`LeaseHeld`, `ExclusiveWhileLeased`, `OwnSession`, `NotClosedByOthers`, `AuditTruth`, `ImplementsLedger`) | two runs in the same or in two instances; the deadline after 1, the lease after 2, an answer to `try_start` up to 1 late, so that both the punctual and the overtaken lease occur; one crash |
| `cycle_liveness` | Does a run end, and is its lease freed? (`EveryRunEnds`, `LeaseFreed`) | two runs in one instance, where they meet in the registry |
| `cycle_overlap` (violation) | Do two runs never execute together? (`NoOverlap`) | a cleanup that outlasts the lease's margin |
| `cycle_cancel` (violation) | Does a cancellation propagate after the cleanup? (`CancellationPropagates`) | a cleanup that raises |
| `conversation_safety` | Are connections, budget, index entry, views and title right under any three requests? (`ResourcesOwned`, `BudgetHasSession`, `DeletedStaysDeleted`, `DeletionComplete`, `ViewsCapped`, `TitleStays`) | three requests of any kind, so that a resume displaces a session, is displaced in turn and a third request ends or deletes; a cap of one view, which two renderings exceed; one restart between two deletions |
| `database_access` | Are answers within their limits and honest about what they leave out, is the audit trail true, is stale membership bounded, and is the guard a `ToolGate`? (`ResultHonest`, `CatalogHonest`, `ExposureAudited`, `AuditTruth`, `AdmittedRecently`, `ImplementsGate`) | one session and two calls of one user, whose tokens have no group, an entitled group, or another tenant; a membership that changes at any time, a directory that answers late or fails, a TTL of two ticks within a clock of three, so that an entry runs out; statements, tables and catalogs on both sides of every limit (2 rows, 16 characters, 3 per cell) |
| `library` | What may races do to stored documents, and what can only a race do? (`CreatedOnce`, `AnswerTruth`, `CyclesNeedRace`, `AloneIsAtomic`, `SeedComplete`, `SeedSparesEdits`) | three requests or start-ups: two that race and one whose write comes in between; a menu of directives, of skills in both scopes, and of two agents with a customization; two initial contents, so that every document is there or is not; one failing call, carried out or not |
| `chat_session` | Are tokens judged by the right keys, connections closed, sessions what was asked for, headers the caller's and events in protocol? (`AuthTruth`, `NothingLeaks`, `SessionTruth`, `HeaderOfCaller`, `StreamTruth`) | one plan per difficulty: two requests while the keys rotate twice; two resumptions of a conversation that is deleted, ended or cancelled; every await of one opening with each kind of reference and server; two turns with different tokens and a stack of at most four; one turn of five contents, which two interleaved calls with fragments and results fill |
| `conversation_delete` (violation) | Does a deletion leave nothing behind? (`DeletedLeavesNothing`) | a response that outlives the deletion |

Symmetry is used for instances, runs, calls and requests in runs that check safety
only. `CHECK_DEADLOCK FALSE` is set where the requests and runs of the instance
are used up in the end; the scheduler's runs check for deadlock.

All bounds are constants that occur in guards: `MaxTime`, `MaxEdits`,
`MaxDowns`, `StartBy` (from which `Cycle` derives its last instant),
`MaxCrashes`, `MaxRestarts`, `MaxClock`, `MaxFailures`, `MaxStack`, and the
`contents` of a plan. `MaxRows`, `MaxResultChars`, `MaxCellChars`, `TTL`, `MaxViews` and `MaxBudget` are the code's own
limits with smaller values.

The four violations are disagreements between the code and what its comments
or documents say; `findings` in `PROJECT.json` quotes them:

* *once per slot*: a lease document that expires before the schedule's next
  slot no longer protects the slot when a process restarts and cannot read the
  directives at that moment;
* *no overlap*: the lease's margin of 60 seconds is the only allowance for a
  cleanup and a finalization that are themselves unbounded;
* *cancellation propagates*: an exception of the cleanup replaces it;
* *deletion removes the stored messages*: a response still streaming stores its
  turn afterwards.

## 5. Fairness

* `Scheduler`: every await of a live process returns -- the store's requests
  have client timeouts and a cycle has its deadline -- so `WF` of the instance's
  steps, which includes starting again after it went down (the platform
  restarts a container). `SF` of `PollLoaded`: the directive store is not
  unreadable at every single poll. Nothing is assumed of `LeaseWon` against
  `LeaseError`, of the clock, or of edits.
* `Cycle`: every await returns but `opening` (MCP servers) and `asking` (the
  agent), of which nothing is assumed; the timer of `asyncio.timeout` fires
  (`WF` of `Deadline`), and time passes. That the clock does not pass a due
  deadline, or the Cosmos client's own timeout, expresses that both are short
  against the lease. Closing a session returns: this is an assumption about MCP
  servers that the code makes too, since it bounds no cleanup.
* `Conversation`, `DatabaseAccess`, `Library` and `ChatSession` state no
  liveness. Their requests end when the services they wait for answer; the code
  bounds the driver's statements and the directory's request by timeouts of
  those clients, which are external.

## 6. What is proved

All proofs are for any finite or infinite set of instances, directives, runs or
requests and any values of the bounds that the named assumptions
(`ConstAssumption`, `CronAssumption`, `LimitsAssumption`,
`AccessAssumption`, `LibraryAssumption`, `SessionAssumption`, `BodyAssumption`,
`ConfigurationAssumption`, `NumberedAssumption`) allow.

* `SchedulerProofs!TypeCorrect`, `CycleProofs!TypeCorrect`: the type invariants.
  In `Scheduler` the type invariant includes that a process in `claiming` or
  `running` has a directive and a real slot, without which it is not inductive.
* `SchedulerProofs!LeaseSafety`: `ClaimsApart`. The strengthening says that for
  each claim a document is stored that lives at least until the claim's instant
  plus the ttl, and that no claim is in the future; a new claim needs a document
  that has expired. `LongLeaseRunsOnce` follows: were the ttl beyond the
  system's life, a slot would run once, which is what the comment in the code
  takes for granted.
* `SchedulerProofs!RestartSafety`: `NoRestartRefire`. The invariant relates what
  an instance seeded, what it has handled since, and the time and the schedules
  of its current poll: with the seeded schedule, the slot of a poll is never
  before the slot seeded, and equal slots are passed over. It needs the
  monotonicity of `Cron`.
* `CycleProofs!LeaseSafety`: `LeaseHeld` and `ExclusiveWhileLeased`. A run's
  document is in the store until it runs out, because `create_item` does not
  replace a live document and the delete names the etag that was read; two runs
  within their leases would both find theirs.
* `CycleProofs!AuditSafety`, `RecordedAtEnd`: `AuditTruth` and `EndedIsRecorded`,
  from an invariant that ties the status, the deadline and the log of a run to its
  phase.
* `CycleProofs!RefinesLedger`: `Cycle` implements `RunLedger`. Beyond `AuditInv` it needs
  `ReadyInv`: a run counts as failed until its agent has answered, and a run that
  still works undisturbed has not been cancelled; without it a failing opening could
  be filed as a success, and a cancelled run could succeed.
* `CycleProofs!SessionOwned`: `OwnSession`, from `SlotKept` -- while every answer came
  in time, the slot of a run holds its session from its registration until the run
  lets go of it. Only a run that works could take the slot from it, and no two runs
  work at once then: a deadline that has not interrupted its run lies ahead
  (`DeadlineAhead`), and the lease ends after the deadline.
* `CycleProofs!NobodyElseCloses`: the action property `NotClosedByOthers`.
* `ConversationProofs!DeletionFinal`, `TitleKept`: from the invariant `Alone` -- a
  request that creates the conversation is the only one under way and finds
  nothing of it -- and from the etag of `touch`.
* `ConversationProofs!BudgetSafety`: `BudgetHasSession` is inductive by itself.
* `ConversationProofs!ResourceSafety`: `ResourcesOwned`, from the invariant
  `Owned`, which adds at which awaits a request is closing a session, that what
  it closes is marked so, and that a request that has not connected owns nothing.
* `ConversationProofs!TypeCorrect`: `TypeOK`, from `Views`: no view is stored twice,
  and a stored view is of a request that has got so far.
* `ConversationProofs!ViewsKeptToCap`: `ViewsCapped`. The cap is kept by each request
  that lists the views and evicts the oldest, so views that were saved after it
  listed them are not its to evict. The invariant gives every request that is
  evicting a set of other renderings still under way (`LaterThan`); these sets are
  nested, and what is stored without the request's own victims exceeds the cap by
  no more than their number and that of the renderings that broke off.
* `ConversationProofs!DeletionLeavesNothing`: `DeletionComplete`, from `Deletion` -- an
  undisturbed deletion is alone, what it has cleared stays clear, what it has yet
  to delete is what is left, and afterwards nobody holds the session.
* `DatabaseAccessProofs!TypeCorrect`: the type invariant (`Typed`), with `Waiting`:
  what the phase of a task says of its session, capability and request.
* `DatabaseAccessProofs!Staleness`: `AdmittedRecently`. The invariant `Timed` says
  that a cache entry that entitles runs out no later than a TTL after its user
  was last entitled, and that an answer of the directory that entitles is no
  older than the question. It holds because `until` counts from the clock that
  was read *before* asking: counted from the answer, the bound would grow by the
  time the directory takes.
* `DatabaseAccessProofs!ResultsHonest`: `ResultHonest`, for every statement, table and
  limit. The rows kept are the longest beginning that fits the characters
  (`FittingFits`: totals never fall, so fitting is downward closed), the statement
  executed asks for at least one row more than the limit or for all that was asked
  (`QueryHonest`), and an executing call carries a request of its own tool
  (`Carried`).
* `DatabaseAccessProofs!CatalogsHonest`: `CatalogHonest`, for every catalog. Discovery's
  fetch is limited in *columns*, so it ends within some object, and every object
  before that one is complete (`FetchedFirst`); where the columns fit, it ends after
  the last.
* `DatabaseAccessProofs!ExposureSafety`: `ExposureAudited`, from `Exposing`: no
  capability is decided twice, none that is still to decide was decided, and the
  tools are those that were allowed.
* `DatabaseAccessProofs!AuditSafety`: `AuditTruth`, from `Audited`, which ties the
  trail of a call to its phase.
* `DatabaseAccessProofs!RefinesGate`: `DatabaseAccess` implements `ToolGate`, one
  lemma for the moves of a call, one for its thread, one for the steps that leave
  every call alone.
* `LibraryProofs!TypeCorrect`, `AnswerSafety`, `CreatedSafety`: `TypeOK`,
  `AnswerTruth` and `CreatedOnce`, for any menu of calls that `LibraryAssumption`
  allows. `Underway` says what the next call of a request tells of the call it
  was submitted with (an insertion is made by an operation that inserts, a patch
  is stored only over a directive that was read, ...). `CreatedOnce` needs three
  facts more (`Apart`): what was created is there until it is removed (`Kept`), two
  requests under way have met (`Together`), and a request about to store a
  directive that another has created did not see it, because they met or because
  it was removed (`Unseen`).
* `LibraryProofs!DefaultsSeeded`, `EditsSpared`: `SeedComplete` and the action
  property `SeedSparesEdits`, from `Seeding`: what a start-up is not about to store
  is there but for removals meanwhile, and if nobody else writes, what it is about
  to store is not there or is itself a default.
* `LibraryProofs!CycleSafety`: `CyclesNeedRace`, from `Watching`: an agent that a
  definition refers to is still as the request read it, or is gone, or whoever
  wrote it since was under way together with the request (`Known`).
* `LibraryProofs!AloneAtomic`: the action property `AloneIsAtomic`. By `Exact`, every check
  that a request has passed and everything it has read holds of the store *as it
  is*, so long as nobody else has written; so its one writing step, or its
  refusal, is what the whole call does at that point (`Effect`, `Refusal`).

* `ChatSessionProofs!TypeCorrect`, `NothingIsLeaked`, `AuthSafety`,
  `HeaderSafety`: `TypeOK`, `NothingLeaks`, `AuthTruth` and `HeaderOfCaller`, for
  any requests, turns, plans, servers and sequence of key sets. The invariant is
  `Typed`, `Owned` and `Judged`. `Owned` says where the stack of a request can be
  while there is something on it, that a session is registered or closed only
  after its request has come to the end of its servers (`Late`), that the stack of
  an opening holds a credential for each token that a header provider holds
  (`Lent`, without which a second server of that name would be connected above no
  credential) and that a turn belongs to such a session. `Judged` says which
  version of the keys a token was judged by: `KeysArrive` may put an older version
  in the cache than the one it replaces, but never one older than its own request.
  What a step does after its await (`Advance`: wait, fail, register, store) is
  treated once, in `Advances`, and what a session's own request does later in
  `LateStep`.
* `ChatSessionProofs!SessionTruthful`: `SessionTruth`. The invariant `Truth` says for
  each request what its verdicts rest on (`Backed`): the custom agents it has read
  were in the store when it arrived (`Findings`), its servers so far are a beginning
  of those that are written down properly, in order (`Served`), and the runtime it
  has built gives its tools names of their own. For the last, each name that
  `Disambiguation` gives is new among those before it (`NamesApart`): `UnusedNew`
  finds a free suffix because there are more suffixes than names.
* `ChatSessionProofs!StreamTruthful`: `StreamTruth`, for streams of any length. Each
  turn is `Heard`: what its agent said is in order (`Spoken`: a call is the agent's or
  the host's, its fragments come before its result), every announced call was sent
  (`Told`), every view and result sent so far is right (`ViewedAt`, `GivenAt`,
  `PassedAt`), and, as long as no fragment is loose, what is kept of a call is what
  was said of it (`Kept`) and the call that a fragment without an id continues is the
  active one (`Follows`). `Kept` alone is not inductive: without `Follows` a fragment
  could be added to another call. There is one lemma per type of content
  (`PlainSound`, `HostedSound`, `ResultSound`, `CallSound`), and `RecordedRight` says
  that the trace carries, for every call that was answered, all its fragments.

The assumptions on constants are what the code or the services guarantee, and TLC
evaluates them on every run. `AccessAssumption` says that what a statement finds
are rows of cells, what discovery finds are objects of at least one column, and
that a literal limit is a number; `LibraryAssumption` that a reference is to a
profile or to a custom agent, which have ids of their own, and that the store a
behaviour begins with has no two agents that refer to each other.
`BodyAssumption` says that a profile is configured with references to built-in
agents only (`prompt_config.py` knows no others) and that there are suffixes for as
many tools as a runtime has, `ConfigurationAssumption` that every built-in agent has
a list of servers, each of which reads in one of three ways, and
`NumberedAssumption` that different suffixes make different names; the code cuts a
name to fit its suffix into 64 characters, so they are finitely many.

What a recursive function computes is proved without the library's induction
theorems, which take an operator: that a function with the recursive equation
exists for 0..n is shown by a set of numbers that has 0 and, with each number, the
next (`SequenceLemmas!NumbersByOne`); so the totals and selections of `SequenceOps` are
what they should be for every sequence, and so is `ToolStream!Recorded`. The provers
know nothing of `SelectSeq` and of the folds of the community modules, so the
definitions that proofs are about select with `Chosen` and add with `Totals`.

Only model-checked: `CatchesUp` (`Scheduler`), `EveryRunEnds` and `LeaseFreed`
(`Cycle`), because properties under fairness, and `ENABLED`, are out of TLAPS's
reach here. Every other property of a passing run is a theorem.

## 7. What is not modelled

* Texts, prompts, formats, token accounting, logging, evaluation traces
  (`eval_trace.py` appends to a file that nothing reads).
* The checks of single values (images, temperatures, lengths): a body is valid
  or is not. Built-in profiles and their route: they read the configuration.
* The chat hooks and pages of the browser: their steps are the renders of the
  framework, and a model of them would be one of its scheduling. The hazard of
  late answers there (`useChat.ts:121`) is listed without a property.
* Start-up and shutdown in `main.py`, but for the scheduler's: at shutdown the
  sessions are closed one after the other and one that raises leaves the rest,
  in a process that ends right after.
* Choosing a notification sink and building its payload; the permission check of
  a view's data request and the validation of a view's document.
* Model clients, compaction and the skills provider in `agent_factory.py`: they
  configure the framework. The driver, the SQL parser, JWT decoding, the
  directory and MCP itself are external and are modelled from their use.
* Infrastructure, the database emulator, scripts, static files.
* Cosmos itself: a document is written atomically, an etag changes with every
  write, an expired document is not there any more; a request may be carried
  out though its answer is lost. Throttling and regional consistency are not
  modelled (the code uses one account with session consistency).
