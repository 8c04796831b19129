----------------------------- MODULE Conversation -----------------------------
(***************************************************************************)
(* One chat conversation in one backend process: its index entry, message  *)
(* history and agent views in Cosmos, its runtime session and view data    *)
(* budget in the process, and the requests of its owner that run at the    *)
(* same time: creating or resuming it (session_orchestration.py), sending a *)
(* message and ending the session (api_routes/sessions.py), rendering a    *)
(* view in a response (agent_views.py) and deleting the conversation.      *)
(*                                                                         *)
(* A request is named by the session, the turn or the view it brings about. *)
(* Between two awaits a request runs alone; every await on a store, an MCP *)
(* server or the agent is a step at which the others may move.             *)
(***************************************************************************)
EXTENDS Integers, Sequences, SequencesExt

CONSTANTS
    Request,     \* the requests
    First,       \* the session the process has to begin with, if any
    NoSession,   \* no session; also: no request, no title
    MaxViews,    \* MAX_AGENT_VIEWS_PER_CONVERSATION
    MaxBudget,   \* MAX_VIEW_DATA_REQUESTS_PER_MINUTE
    MaxRestarts  \* bound: restarts of the process

ASSUME ConstAssumption ==
    /\ First # NoSession /\ {First, NoSession} \cap Request = {}
    /\ MaxViews \in Nat
    /\ MaxBudget \in Nat
    /\ MaxRestarts \in Nat

Session == Request \cup {First}

VARIABLES
    index,    \* the index entry: absent, or its title and its etag
    history,  \* the turns in the message store
    views,    \* the stored views, oldest first
    session,  \* the registered session of the conversation (_sessions)
    res,      \* res[s]: the resources of session s (its MCP connections)
    budget,   \* view data requests counted for the conversation (_request_times)
    pc,       \* pc[q]: the await request q is suspended at
    etag,     \* etag[q]: the index entry's etag that q has read
    victim,   \* victim[q]: the session whose resources q is closing
    todo,     \* todo[q]: views q has listed and is to delete
    gone,     \* history: the index entry has been deleted
    disturbed, \* history: a deletion ran next to another request, or the answer
               \* to its delete of the index entry was lost
    unevicted, \* history: number of renderings that failed before their eviction ended
    restarts  \* number of restarts so far

vars == <<index, history, views, session, res, budget, pc, etag, victim, todo,
          gone, disturbed, unevicted, restarts>>

Absent == [title |-> NoSession, etag |-> NoSession]

Sending   == {"touching", "replacing", "streaming", "listing", "evicting", "rendered"}
Deleting  == {"clearing", "collecting", "unviewing", "unindexing"}
Opening   == {"connecting", "indexing", "rollback"}
Phase     == Sending \cup Deleting \cup Opening
             \cup {"idle", "displacing", "undoing", "disposing", "over"}

TypeOK ==
    /\ index \in [title : Request \cup {NoSession}, etag : Session \cup {NoSession}]
    /\ history \subseteq Request
    /\ views \in Seq(Request)
    /\ session \in Session \cup {NoSession}
    /\ res \in [Session -> {"none", "open", "closing", "closed"}]
    /\ budget \in 0 .. MaxBudget
    /\ pc \in [Request -> Phase]
    /\ etag \in [Request -> Session \cup {NoSession}]
    /\ victim \in [Request -> Session \cup {NoSession}]
    /\ todo \in [Request -> SUBSET Request]
    /\ gone \in BOOLEAN
    /\ disturbed \in BOOLEAN
    /\ unevicted \in Nat
    /\ restarts \in 0 .. MaxRestarts

(* A conversation that is still to be created; one that was created, with its
   session still there or lost in a restart. *)
Init ==
    /\ \/ index = Absent /\ session = NoSession
       \/ index = [title |-> NoSession, etag |-> First] /\ session \in {NoSession, First}
    /\ history = {}
    /\ views = <<>>
    /\ res = [s \in Session |-> IF s = session THEN "open" ELSE "none"]
    /\ budget = 0
    /\ pc = [q \in Request |-> "idle"]
    /\ etag = [q \in Request |-> NoSession]
    /\ victim = [q \in Request |-> NoSession]
    /\ todo = [q \in Request |-> {}]
    /\ gone = FALSE
    /\ disturbed = FALSE
    /\ unevicted = 0
    /\ restarts = 0

(* Groups of variables that most steps leave alone. *)
stored  == <<index, history, views>>
runtime == <<session, res, budget, victim>>
memory  == <<etag, todo>>
tally   == <<gone, unevicted, restarts>>

(* Request q moves from the await a to the await b; a deletion is disturbed by
   whatever begins, goes on or deletes next to it. *)
Disturbs(q, b) ==
    \E r \in Request \ {q} :
        /\ {pc[r], b} \cap Deleting # {}
        /\ pc[r] \notin {"idle", "over", "disposing"}
        /\ b \notin {"over", "disposing"}

Go(q, a, b) ==
    /\ pc[q] = a
    /\ pc' = [pc EXCEPT ![q] = b]
    /\ disturbed' = (disturbed \/ Disturbs(q, b))

-------------------------------------------------------------------------------
(* session_data.py *)

(* Mutant: disposing of a session leaves its view data budget. *)
DisposeKeepsBudget(q, s) ==
    /\ victim' = [victim EXCEPT ![q] = s]
    /\ res' = [res EXCEPT ![s] = "closing"]
    /\ UNCHANGED budget

(* _dispose_session up to its await. *)
Dispose(q, s) ==
    /\ victim' = [victim EXCEPT ![q] = s]
    /\ res' = [res EXCEPT ![s] = "closing"]
    /\ budget' = 0

(* Mutant: the session is taken off the store once its resources are closed. *)
CloseKeepsRegistered(q, a) ==
    /\ Go(q, a, "disposing")
    /\ Dispose(q, session)
    /\ UNCHANGED session

(* close_session: take it off the store, then dispose of it. *)
CloseSession(q, a) ==
    /\ Go(q, a, "disposing")
    /\ session' = NoSession
    /\ Dispose(q, session)

(* The await of _dispose_session is over, with or without an exception, at the
   end of the request, or of replace_session. *)
Disposed(q) ==
    /\ pc[q] \in {"disposing", "displacing"}
    /\ Go(q, pc[q], "over")
    /\ res' = [res EXCEPT ![victim[q]] = "closed"]
    /\ victim' = [victim EXCEPT ![q] = NoSession]
    /\ UNCHANGED <<stored, session, budget, memory, tally>>

(* replace_session: register q's session, dispose of the one it displaces. *)
Publish(q, a) ==
    /\ session' = q
    /\ IF session = NoSession
       THEN /\ Go(q, a, "over")
            /\ res' = [res EXCEPT ![q] = "open"]
            /\ UNCHANGED <<victim, budget>>
       ELSE /\ Go(q, a, "displacing")
            /\ res' = [res EXCEPT ![q] = "open", ![session] = "closing"]
            /\ victim' = [victim EXCEPT ![q] = session]
            /\ budget' = 0

(* The request is cancelled while it waits for the displaced session ... *)
CancelDisplacing(q) ==
    /\ Go(q, "displacing", "undoing")
    /\ UNCHANGED <<stored, runtime, memory, tally>>

(* ... which it goes on to wait for; then its own session goes, if it is still
   the registered one. *)
Undone(q) ==
    LET closed == [res EXCEPT ![victim[q]] = "closed"] IN
    \/ /\ session = q
       /\ Go(q, "undoing", "disposing")
       /\ session' = NoSession
       /\ res' = [closed EXCEPT ![q] = "closing"]
       /\ victim' = [victim EXCEPT ![q] = q]
       /\ budget' = 0
       /\ UNCHANGED <<stored, memory, tally>>
    \/ /\ session # q
       /\ Go(q, "undoing", "over")
       /\ res' = closed
       /\ victim' = [victim EXCEPT ![q] = NoSession]
       /\ UNCHANGED <<stored, session, budget, memory, tally>>

(* The displaced session's cleanup raises, which takes the cancellation's
   place: q's session stays. *)
UndoFails(q) ==
    /\ Go(q, "undoing", "over")
    /\ res' = [res EXCEPT ![victim[q]] = "closed"]
    /\ victim' = [victim EXCEPT ![q] = NoSession]
    /\ UNCHANGED <<stored, session, budget, memory, tally>>

-------------------------------------------------------------------------------
(* create_chat_session *)

(* A new conversation: nothing to look up. *)
Create(q) ==
    /\ index = Absent /\ ~ gone
    /\ \A r \in Request : pc[r] = "idle"
    /\ Go(q, "idle", "connecting")
    /\ UNCHANGED <<stored, runtime, memory, tally>>

(* _resolve_session_id: the owner has the conversation in the index. *)
Resume(q) ==
    /\ index # Absent
    /\ Go(q, "idle", "connecting")
    /\ etag' = [etag EXCEPT ![q] = index.etag]
    /\ UNCHANGED <<stored, runtime, todo, tally>>

(* Dependencies or runtime fail, or the request is cancelled: what was connected
   has been closed again. *)
ConnectFails(q) ==
    /\ Go(q, "connecting", "over")
    /\ UNCHANGED <<stored, runtime, memory, tally>>

(* A new conversation is indexed before its session is registered ... *)
Connected(q) ==
    /\ etag[q] = NoSession
    /\ Go(q, "connecting", "indexing")
    /\ res' = [res EXCEPT ![q] = "open"]
    /\ UNCHANGED <<stored, session, budget, victim, memory, tally>>

Indexed(q) ==
    /\ Publish(q, "indexing")
    /\ index' = [title |-> NoSession, etag |-> q]
    /\ UNCHANGED <<history, views, memory, tally>>

(* ... and without the index entry, its resources are closed; the entry may
   have been stored all the same. *)
IndexFails(q) ==
    /\ Go(q, "indexing", "rollback")
    /\ index' \in {index, [title |-> NoSession, etag |-> q]}
    /\ res' = [res EXCEPT ![q] = "closing"]
    /\ victim' = [victim EXCEPT ![q] = q]
    /\ UNCHANGED <<history, views, session, budget, memory, tally>>

RolledBack(q) ==
    /\ Go(q, "rollback", "over")
    /\ res' = [res EXCEPT ![q] = "closed"]
    /\ victim' = [victim EXCEPT ![q] = NoSession]
    /\ UNCHANGED <<stored, session, budget, memory, tally>>

(* A resumed conversation is registered as soon as it is connected. *)
Resumed(q) ==
    /\ etag[q] # NoSession
    /\ Publish(q, "connecting")
    /\ UNCHANGED <<stored, memory, tally>>

-------------------------------------------------------------------------------
(* send_message *)

(* get_session finds the session; the index entry is touched first. *)
Send(q) ==
    /\ session # NoSession
    /\ Go(q, "idle", "touching")
    /\ UNCHANGED <<stored, runtime, memory, tally>>

(* touch reads the entry; an entry that is gone, or an error, is passed over. *)
TouchRead(q) ==
    \/ /\ index # Absent
       /\ Go(q, "touching", "replacing")
       /\ etag' = [etag EXCEPT ![q] = index.etag]
       /\ UNCHANGED <<stored, runtime, todo, tally>>
    \/ /\ Go(q, "touching", "streaming")
       /\ UNCHANGED <<stored, runtime, memory, tally>>

(* The entry as touch writes it: the first message with a text gives the title. *)
Touched(q, entry) ==
    [title : IF entry.title = NoSession THEN {NoSession, q} ELSE {entry.title},
     etag  : {q}]

(* Mutant: the entry is written back without looking at its etag. *)
TouchUpserts(q) ==
    /\ Go(q, "replacing", "streaming")
    /\ index' \in Touched(q, index)
    /\ UNCHANGED <<history, views, runtime, memory, tally>>

(* Mutant: the entry is replaced by what was read, whatever has been written
   since. *)
TouchStale(q) ==
    /\ Go(q, "replacing", "streaming")
    /\ IF index = Absent
       THEN UNCHANGED index
       ELSE index' \in Touched(q, [index EXCEPT !.title =
                          IF etag[q] = First THEN NoSession ELSE @])
    /\ UNCHANGED <<history, views, runtime, memory, tally>>

(* replace_item with the etag that was read: it writes that very entry, or
   nothing; an error is passed over too. *)
TouchReplace(q) ==
    /\ Go(q, "replacing", "streaming")
    /\ \/ UNCHANGED index
       \/ index # Absent /\ index.etag = etag[q] /\ index' \in Touched(q, index)
    /\ UNCHANGED <<history, views, runtime, memory, tally>>

(* save_view, in the middle of the response: the view is created, the views are
   listed, and those beyond the cap are deleted, oldest first. *)
SaveView(q) ==
    /\ Go(q, "streaming", "listing")
    /\ views' = Append(views, q)
    /\ UNCHANGED <<index, history, runtime, memory, tally>>

(* Mutant: one view fewer is over the cap. *)
ListOneFewer(q) ==
    /\ Go(q, "listing", "evicting")
    /\ todo' = [todo EXCEPT ![q] = {views[k] : k \in 1 .. Len(views) - MaxViews - 1}]
    /\ UNCHANGED <<stored, runtime, etag, tally>>

ListOverflow(q) ==
    /\ Go(q, "listing", "evicting")
    /\ todo' = [todo EXCEPT ![q] = {views[k] : k \in 1 .. Len(views) - MaxViews}]
    /\ UNCHANGED <<stored, runtime, etag, tally>>

(* Delete one listed view; it may be gone already. *)
DeleteView(q, a) ==
    \E v \in todo[q] :
        /\ pc[q] = a
        /\ \/ v \notin ToSet(views) /\ UNCHANGED views
           \/ \E k \in DOMAIN views : views[k] = v /\ views' = RemoveAt(views, k)
        /\ todo' = [todo EXCEPT ![q] = @ \ {v}]
        /\ UNCHANGED <<index, history, runtime, pc, etag, disturbed, tally>>

Evicted(q) ==
    /\ todo[q] = {}
    /\ Go(q, "evicting", "rendered")
    /\ UNCHANGED <<stored, runtime, memory, tally>>

(* The rendering fails: the view may or may not be stored, older ones may be
   left.  The agent is told and goes on. *)
RenderFails(q) ==
    /\ \/ Go(q, "streaming", "rendered") /\ UNCHANGED <<views, unevicted>>
       \/ Go(q, "streaming", "rendered") /\ views' = Append(views, q) /\ unevicted' = unevicted + 1
       \/ pc[q] \in {"listing", "evicting"} /\ Go(q, pc[q], "rendered")
          /\ unevicted' = unevicted + 1 /\ UNCHANGED views
    /\ todo' = [todo EXCEPT ![q] = {}]
    /\ UNCHANGED <<index, history, runtime, etag, gone, restarts>>

(* The response is complete and its turn is in the message store; or it fails,
   or the client goes away, with the turn stored or not. *)
Respond(q) ==
    /\ pc[q] \in {"streaming", "rendered"}
    /\ Go(q, pc[q], "over")
    /\ history' \in {history, history \cup {q}}
    /\ UNCHANGED <<index, views, runtime, memory, tally>>

-------------------------------------------------------------------------------
(* delete_session and delete_conversation *)

(* DELETE /api/sessions/{id}: no await between get_session and the pop. *)
End(q) ==
    /\ session # NoSession
    /\ CloseSession(q, "idle")
    /\ UNCHANGED <<stored, memory, tally>>

(* DELETE /api/conversations/{id}: the owner has it in the index. *)
Delete(q) ==
    /\ index # Absent
    /\ Go(q, "idle", "clearing")
    /\ UNCHANGED <<stored, runtime, memory, tally>>

ClearHistory(q) ==
    /\ Go(q, "clearing", "collecting")
    /\ history' = {}
    /\ UNCHANGED <<index, views, runtime, memory, tally>>

CollectViews(q) ==
    /\ Go(q, "collecting", "unviewing")
    /\ todo' = [todo EXCEPT ![q] = ToSet(views)]
    /\ UNCHANGED <<stored, runtime, etag, tally>>

ViewsDeleted(q) ==
    /\ todo[q] = {}
    /\ Go(q, "unviewing", "unindexing")
    /\ UNCHANGED <<stored, runtime, memory, tally>>

(* The index entry goes last; then the runtime session, whoever's it is. *)
Unindex(q) ==
    /\ index' = Absent
    /\ gone' = TRUE
    /\ IF session = NoSession
       THEN Go(q, "unindexing", "over") /\ budget' = 0 /\ UNCHANGED <<session, res, victim>>
       ELSE CloseSession(q, "unindexing")
    /\ UNCHANGED <<history, views, memory, unevicted, restarts>>

(* Mutant: a deletion goes on to the index entry after an error. *)
DeleteGoesOn(q) ==
    /\ pc[q] \in Deleting \ {"unindexing"}
    /\ Go(q, pc[q], "unindexing")
    /\ todo' = [todo EXCEPT ![q] = {}]
    /\ UNCHANGED <<stored, runtime, etag, tally>>

(* A store error: HTTP 503, and the request that failed may have been carried
   out.  When that was the delete of the index entry, the session stays. *)
DeleteFails(q) ==
    /\ pc[q] \in Deleting
    /\ pc' = [pc EXCEPT ![q] = "over"]
    /\ \/ UNCHANGED <<index, history, gone, disturbed>>
       \/ pc[q] = "clearing" /\ history' = {} /\ UNCHANGED <<index, gone, disturbed>>
       \/ /\ pc[q] = "unindexing"
          /\ index' = Absent /\ gone' = TRUE /\ disturbed' = TRUE
          /\ UNCHANGED history
    /\ todo' = [todo EXCEPT ![q] = {}]
    /\ UNCHANGED <<views, runtime, etag, unevicted, restarts>>

-------------------------------------------------------------------------------
(* Mutant: the request over the cap is counted and let through. *)
ViewDataUncapped ==
    /\ session # NoSession
    /\ budget' = budget + 1
    /\ UNCHANGED <<stored, session, res, victim, pc, memory, disturbed, tally>>

(* A view asks for data: check_view_data_budget counts it against the session
   that is there; requests leave the window of a minute as time passes. *)
ViewData ==
    /\ session # NoSession
    /\ budget < MaxBudget
    /\ budget' = budget + 1
    /\ UNCHANGED <<stored, session, res, victim, pc, memory, disturbed, tally>>

WindowPasses ==
    /\ budget > 0
    /\ budget' = budget - 1
    /\ UNCHANGED <<stored, session, res, victim, pc, memory, disturbed, tally>>

(* The process restarts: requests, sessions and budgets are lost, and with them
   the connections. *)
Restart ==
    /\ restarts < MaxRestarts
    /\ restarts' = restarts + 1
    /\ session' = NoSession
    /\ res' = [s \in Session |-> IF res[s] = "none" THEN "none" ELSE "closed"]
    /\ budget' = 0
    /\ pc' = [q \in Request |-> IF pc[q] = "idle" THEN "idle" ELSE "over"]
    /\ victim' = [q \in Request |-> NoSession]
    /\ todo' = [q \in Request |-> {}]
    /\ unevicted' = unevicted + Cardinality({q \in Request : pc[q] \in {"listing", "evicting"}})
    /\ UNCHANGED <<stored, etag, gone, disturbed>>

-------------------------------------------------------------------------------
Step(q) ==
    \/ Create(q) \/ Resume(q) \/ ConnectFails(q) \/ Connected(q) \/ Indexed(q)
    \/ IndexFails(q) \/ RolledBack(q) \/ Resumed(q)
    \/ Disposed(q) \/ CancelDisplacing(q) \/ Undone(q) \/ UndoFails(q)
    \/ Send(q) \/ TouchRead(q) \/ TouchReplace(q)
    \/ SaveView(q) \/ ListOverflow(q) \/ DeleteView(q, "evicting") \/ Evicted(q)
    \/ RenderFails(q) \/ Respond(q)
    \/ End(q) \/ Delete(q) \/ ClearHistory(q) \/ CollectViews(q)
    \/ DeleteView(q, "unviewing") \/ ViewsDeleted(q) \/ Unindex(q) \/ DeleteFails(q)

Next ==
    \/ \E q \in Request : Step(q)
    \/ ViewData \/ WindowPasses
    \/ Restart

Spec == Init /\ [][Next]_vars

-------------------------------------------------------------------------------
(* Connections are neither leaked nor closed twice: a session's resources are
   open exactly while it is registered or its request is still indexing it, and
   exactly one request is at work closing a session that is being closed. *)
ResourcesOwned ==
    /\ \A s \in Session : res[s] = "open" <=>
         session = s \/ (s \in Request /\ pc[s] = "indexing")
    /\ \A s \in Session : res[s] = "closing" =>
         \E q \in Request : victim[q] = s
    /\ \A q, r \in Request : q # r /\ victim[q] # NoSession => victim[q] # victim[r]

(* Counted view requests belong to a session that is there: closing, replacing
   and deleting in any order leave no entry behind in the process. *)
BudgetHasSession == budget > 0 => session # NoSession

(* A deleted conversation does not come back: no request that was under way
   writes the index entry again. *)
DeletedStaysDeleted == gone => index = Absent

(* Messages of one conversation that are sent at the same time: the first title
   written stays, and no later touch replaces it. *)
TitleStays ==
    [][index.title # NoSession /\ index' # Absent => index'.title = index.title]_vars

(* However deletions fail and are repeated, and the process restarts in
   between: when the index entry is gone, no deletion ran next to another
   request and none was told of a failure after it had deleted the entry,
   nothing of the conversation is left in the other stores. *)
DeletionComplete ==
    gone /\ ~ disturbed => history = {} /\ views = <<>>

(* Renderings in several responses at a time together keep the number of views
   to the cap, but for those that failed half way. *)
ViewsCapped ==
    (\A q \in Request : pc[q] \notin {"listing", "evicting"}) =>
        Len(views) <= MaxViews + unevicted

(* Deleting a conversation removes its index entry and its stored messages. *)
DeletedLeavesNothing ==
    gone /\ (\A q \in Request : pc[q] \in {"idle", "over"}) => history = {}

===============================================================================
