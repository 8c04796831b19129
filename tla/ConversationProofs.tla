-------------------------- MODULE ConversationProofs --------------------------
(* Safety of Conversation, for every set of requests, every cap and any number
   of restarts. *)
EXTENDS Conversation, SequenceLemmas

(* The types of what the proofs read. *)
Typed ==
    /\ index \in [title : Request \cup {NoSession}, etag : Session \cup {NoSession}]
    /\ session \in Session \cup {NoSession}
    /\ res \in [Session -> {"none", "open", "closing", "closed"}]
    /\ pc \in [Request -> Phase]
    /\ etag \in [Request -> Session \cup {NoSession}]
    /\ victim \in [Request -> Session \cup {NoSession}]
    /\ gone \in BOOLEAN

(* No request and no session is NoSession. *)
LEMMA NoSessionApart == NoSession \notin Session /\ Request \subseteq Session
BY ConstAssumption DEF Session

(* Disposing of a session, and publishing one, keep the types. *)
LEMMA PublishTyped ==
    ASSUME Typed, NEW q \in Request, NEW a, Publish(q, a)
    PROVE  /\ pc' \in [Request -> Phase]
           /\ session' \in Session \cup {NoSession}
           /\ res' \in [Session -> {"none", "open", "closing", "closed"}]
           /\ victim' \in [Request -> Session \cup {NoSession}]
BY NoSessionApart DEF Publish, Go, Typed, Phase

(* So does closing one. *)
LEMMA CloseTyped ==
    ASSUME Typed, NEW q \in Request, NEW a, CloseSession(q, a)
    PROVE  /\ pc' \in [Request -> Phase]
           /\ session' \in Session \cup {NoSession}
           /\ res' \in [Session -> {"none", "open", "closing", "closed"}]
           /\ victim' \in [Request -> Session \cup {NoSession}]
BY NoSessionApart DEF CloseSession, Dispose, Go, Typed, Phase

(* Every step keeps the types. *)
LEMMA TypedStep == Typed /\ [Next]_vars => Typed'
<1> SUFFICES ASSUME Typed, [Next]_vars PROVE Typed'
  OBVIOUS
<1> USE NoSessionApart
<1> USE DEF Typed, stored, runtime, memory, tally
<1>a. ASSUME NEW q \in Request PROVE [title |-> NoSession, etag |-> q] \in
        [title : Request \cup {NoSession}, etag : Session \cup {NoSession}]
  OBVIOUS
<1>b. Absent \in [title : Request \cup {NoSession}, etag : Session \cup {NoSession}]
  BY DEF Absent
<1>1. ASSUME NEW q \in Request, Step(q) PROVE Typed'
  <2>1. CASE Create(q) \/ Resume(q) \/ ConnectFails(q)
    BY <2>1 DEF Create, Resume, ConnectFails, Go, Phase, Opening
  <2>2. CASE Connected(q)
    BY <2>2 DEF Connected, Go, Phase, Opening
  <2>3. CASE Indexed(q)
    BY <2>3, <1>a, PublishTyped DEF Indexed
  <2>4. CASE IndexFails(q)
    BY <2>4, <1>a DEF IndexFails, Go, Phase, Opening
  <2>5. CASE RolledBack(q) \/ UndoFails(q)
    <3>1. victim[q] \in Session => res' \in [Session -> {"none", "open", "closing", "closed"}]
      BY <2>5 DEF RolledBack, UndoFails
    <3> QED BY <2>5, <3>1 DEF RolledBack, UndoFails, Go, Phase
  <2>6. CASE Resumed(q)
    BY <2>6, PublishTyped DEF Resumed
  <2>7. CASE Disposed(q)
    BY <2>7 DEF Disposed, Go, Phase
  <2>8. CASE CancelDisplacing(q)
    BY <2>8 DEF CancelDisplacing, Go, Phase
  <2>9. CASE Undone(q)
    BY <2>9 DEF Undone, Go, Phase
  <2>10. CASE Send(q) \/ TouchRead(q)
    BY <2>10 DEF Send, TouchRead, Go, Phase, Sending
  <2>11. CASE TouchReplace(q)
    BY <2>11 DEF TouchReplace, Touched, Go, Phase, Sending
  <2>12. CASE SaveView(q) \/ ListOverflow(q) \/ Evicted(q)
    BY <2>12 DEF SaveView, ListOverflow, Evicted, Go, Phase, Sending
  <2>13. CASE RenderFails(q) \/ Respond(q)
    BY <2>13 DEF RenderFails, Respond, Go, Phase, Sending
  <2>14. CASE DeleteView(q, "evicting") \/ DeleteView(q, "unviewing")
    BY <2>14 DEF DeleteView
  <2>15. CASE End(q)
    BY <2>15, CloseTyped DEF End
  <2>16. CASE Delete(q) \/ ClearHistory(q) \/ CollectViews(q) \/ ViewsDeleted(q)
    BY <2>16 DEF Delete, ClearHistory, CollectViews, ViewsDeleted, Go, Phase, Deleting
  <2>17. CASE Unindex(q)
    <3>1. CASE session = NoSession
      BY <2>17, <3>1, <1>b DEF Unindex, Go, Phase
    <3>2. CASE session # NoSession
      BY <2>17, <3>2, <1>b, CloseTyped DEF Unindex
    <3> QED BY <3>1, <3>2
  <2>18. CASE DeleteFails(q)
    BY <2>18, <1>b DEF DeleteFails, Phase
  <2> QED
    BY <1>1, <2>1, <2>2, <2>3, <2>4, <2>5, <2>6, <2>7, <2>8, <2>9, <2>10, <2>11, <2>12,
       <2>13, <2>14, <2>15, <2>16, <2>17, <2>18 DEF Step
<1>2. CASE ViewData \/ WindowPasses
  BY <1>2 DEF ViewData, WindowPasses
<1>3. CASE Restart
  BY <1>3 DEF Restart, Phase
<1>4. CASE UNCHANGED vars
  BY <1>4 DEF vars
<1> QED BY <1>1, <1>2, <1>3, <1>4 DEF Next

-------------------------------------------------------------------------------
(* A request that creates the conversation is alone, and nothing of the
   conversation is there: what another request deletes or renames, it cannot
   overwrite. *)
Creating(q) == pc[q] = "indexing" \/ (pc[q] = "connecting" /\ etag[q] = NoSession)

Alone ==
    /\ \A q \in Request : Creating(q) =>
         /\ index = Absent /\ session = NoSession /\ ~ gone
         /\ \A r \in Request \ {q} : pc[r] = "idle"
    /\ gone => index = Absent
    /\ index # Absent => index.etag # NoSession
    /\ session # NoSession => index # Absent \/ gone
    /\ \A q \in Request : pc[q] = "connecting" /\ ~ Creating(q) => index # Absent \/ gone
    /\ \A q \in Request : pc[q] = "idle" => etag[q] = NoSession

(* Only the request that creates the conversation makes a step while it does. *)
LEMMA AloneStep == Typed /\ Alone /\ [Next]_vars => Alone'
<1> SUFFICES ASSUME Typed, Alone, [Next]_vars PROVE Alone'
  OBVIOUS
<1> USE NoSessionApart
<1> USE DEF Typed, Alone, Creating, stored, runtime, memory, tally
<1>a. Absent.etag = NoSession
  BY DEF Absent
<1>1. ASSUME NEW q \in Request, Step(q) PROVE Alone'
  <2>1. CASE Create(q)
    BY <2>1 DEF Create, Go
  <2>2. CASE Resume(q)
    BY <2>2 DEF Resume, Go
  <2>3. CASE ConnectFails(q) \/ RolledBack(q) \/ UndoFails(q)
    BY <2>3 DEF ConnectFails, RolledBack, UndoFails, Go
  <2>4. CASE Connected(q)
    BY <2>4 DEF Connected, Go
  <2>5. CASE Indexed(q)
    <3>1. index'.etag = q
      BY <2>5 DEF Indexed
    <3>2. index' # Absent
      BY <3>1, <1>a
    <3>3. pc' = [pc EXCEPT ![q] = pc'[q]] /\ pc'[q] \in {"over", "displacing"}
      BY <2>5 DEF Indexed, Publish, Go
    <3>4. gone' = gone /\ etag' = etag
      BY <2>5 DEF Indexed
    <3> QED BY <2>5, <3>1, <3>2, <3>3, <3>4 DEF Indexed, Publish, Go
  <2>6. CASE IndexFails(q)
    BY <2>6 DEF IndexFails, Go
  <2>7. CASE Resumed(q)
    BY <2>7 DEF Resumed, Publish, Go
  <2>8. CASE Disposed(q) \/ CancelDisplacing(q) \/ Undone(q)
    BY <2>8 DEF Disposed, CancelDisplacing, Undone, Go
  <2>9. CASE Send(q) \/ TouchRead(q)
    BY <2>9 DEF Send, TouchRead, Go
  <2>10. CASE TouchReplace(q)
    <3>1. pc' = [pc EXCEPT ![q] = "streaming"] /\ pc[q] = "replacing"
      BY <2>10 DEF TouchReplace, Go
    <3>2. UNCHANGED <<session, etag, gone>>
      BY <2>10 DEF TouchReplace
    <3>3. CASE UNCHANGED index
      BY <3>1, <3>2, <3>3
    <3>4. CASE index # Absent /\ index' \in Touched(q, index)
      <4>1. index'.etag = q
        BY <3>4 DEF Touched
      <4>2. index' # Absent
        BY <4>1, <1>a
      <4> QED BY <3>1, <3>2, <3>4, <4>1, <4>2
    <3> QED BY <2>10, <3>3, <3>4 DEF TouchReplace
  <2>11. CASE SaveView(q) \/ ListOverflow(q) \/ Evicted(q) \/ RenderFails(q) \/ Respond(q)
    BY <2>11 DEF SaveView, ListOverflow, Evicted, RenderFails, Respond, Go
  <2>12. CASE DeleteView(q, "evicting") \/ DeleteView(q, "unviewing")
    BY <2>12 DEF DeleteView
  <2>13. CASE End(q)
    BY <2>13 DEF End, CloseSession, Go
  <2>14. CASE Delete(q) \/ ClearHistory(q) \/ CollectViews(q) \/ ViewsDeleted(q)
    BY <2>14 DEF Delete, ClearHistory, CollectViews, ViewsDeleted, Go
  <2>15. CASE Unindex(q)
    BY <2>15 DEF Unindex, CloseSession, Go
  <2>16. CASE DeleteFails(q)
    BY <2>16 DEF DeleteFails, Deleting
  <2> QED
    BY <1>1, <2>1, <2>2, <2>3, <2>4, <2>5, <2>6, <2>7, <2>8, <2>9, <2>10, <2>11, <2>12,
       <2>13, <2>14, <2>15, <2>16 DEF Step
<1>2. CASE ViewData \/ WindowPasses
  BY <1>2 DEF ViewData, WindowPasses
<1>3. CASE Restart
  BY <1>3 DEF Restart
<1>4. CASE UNCHANGED vars
  BY <1>4 DEF vars
<1> QED BY <1>1, <1>2, <1>3, <1>4 DEF Next

(* The invariant holds to begin with. *)
LEMMA AloneInit == Init => Typed /\ Alone
<1> SUFFICES ASSUME Init PROVE Typed /\ Alone
  OBVIOUS
<1>1. First \in Session /\ First # NoSession
  BY ConstAssumption DEF Session
<1>2. Typed
  <2>1. index \in [title : Request \cup {NoSession}, etag : Session \cup {NoSession}]
    BY <1>1 DEF Init, Absent
  <2>2. session \in Session \cup {NoSession}
    BY <1>1 DEF Init
  <2>3. pc \in [Request -> Phase]
    BY DEF Init, Phase
  <2> QED BY <2>1, <2>2, <2>3 DEF Init, Typed
<1>3. session # NoSession => index # Absent
  <2>1. session # NoSession => index.etag = First
    BY DEF Init
  <2>2. Absent.etag = NoSession
    BY DEF Absent
  <2> QED BY <2>1, <2>2, <1>1
<1>4. index # Absent => index.etag # NoSession
  BY <1>1 DEF Init
<1> QED BY <1>2, <1>3, <1>4 DEF Init, Alone, Creating

(* It holds throughout. *)
LEMMA AloneAlways == Spec => [](Typed /\ Alone)
BY AloneInit, TypedStep, AloneStep, PTL DEF Spec

(* A deleted conversation does not come back, whatever requests were under way
   when its index entry was deleted. *)
THEOREM DeletionFinal == Spec => []DeletedStaysDeleted
<1>1. Alone => DeletedStaysDeleted
  BY DEF Alone, DeletedStaysDeleted
<1> QED BY <1>1, AloneAlways, PTL

(* The first title that is written stays. *)
THEOREM TitleKept == Spec => TitleStays
<1> DEFINE Kept == index.title # NoSession /\ index' # Absent => index'.title = index.title
<1>1. Typed /\ Alone /\ [Next]_vars => [Kept]_vars
  <2> SUFFICES ASSUME Typed, Alone, Next PROVE Kept
    BY DEF vars
  <2> USE DEF Alone, Creating, Absent, stored
  <2>1. ASSUME NEW q \in Request, Step(q), index' # index PROVE Kept
    <3>1. CASE Indexed(q) \/ IndexFails(q)
      BY <3>1 DEF Indexed, IndexFails, Publish, Go
    <3>2. CASE TouchReplace(q)
      BY <3>2 DEF TouchReplace, Touched
    <3>3. CASE Unindex(q) \/ DeleteFails(q)
      BY <3>3 DEF Unindex, DeleteFails
    <3> QED
      BY <2>1, <3>1, <3>2, <3>3
      DEF Step, Create, Resume, ConnectFails, Connected, RolledBack, Resumed, Disposed,
          CancelDisplacing, Undone, UndoFails, Send, TouchRead, SaveView, ListOverflow,
          DeleteView, Evicted, RenderFails, Respond, End, Delete, ClearHistory,
          CollectViews, ViewsDeleted
  <2>2. CASE ViewData \/ WindowPasses \/ Restart
    BY <2>2 DEF ViewData, WindowPasses, Restart
  <2> QED BY <2>1, <2>2 DEF Next
<1> QED BY <1>1, AloneAlways, PTL DEF Spec, TitleStays

-------------------------------------------------------------------------------
(* Whoever takes the session off the store clears its budget. *)
THEOREM BudgetSafety == Spec => []BudgetHasSession
<1>1. Init => BudgetHasSession
  BY DEF Init, BudgetHasSession
<1>2. BudgetHasSession /\ [Next]_vars => BudgetHasSession'
  <2> SUFFICES ASSUME BudgetHasSession, [Next]_vars PROVE BudgetHasSession'
    OBVIOUS
  <2> USE NoSessionApart
  <2> USE DEF BudgetHasSession, stored, runtime, memory, tally
  <2>1. ASSUME NEW q \in Request, Step(q) PROVE BudgetHasSession'
    <3>1. q # NoSession
      OBVIOUS
    <3>2. CASE Indexed(q) \/ Resumed(q)
      BY <3>1, <3>2 DEF Indexed, Resumed, Publish
    <3>3. CASE Undone(q) \/ End(q) \/ Unindex(q)
      BY <3>3 DEF Undone, End, Unindex, CloseSession, Dispose
    <3>4. CASE UNCHANGED <<session, budget>>
      BY <3>4
    <3> QED
      BY <2>1, <3>2, <3>3, <3>4
      DEF Step, Create, Resume, ConnectFails, Connected, IndexFails, RolledBack, Disposed,
          CancelDisplacing, UndoFails, Send, TouchRead, TouchReplace, SaveView, ListOverflow,
          DeleteView, Evicted, RenderFails, Respond, Delete, ClearHistory,
          CollectViews, ViewsDeleted, DeleteFails
  <2>2. CASE ViewData \/ WindowPasses
    BY <2>2 DEF ViewData, WindowPasses
  <2>3. CASE Restart
    BY <2>3 DEF Restart
  <2>4. CASE UNCHANGED vars
    BY <2>4 DEF vars
  <2> QED BY <2>1, <2>2, <2>3, <2>4 DEF Next
<1> QED BY <1>1, <1>2, PTL DEF Spec

-------------------------------------------------------------------------------
(* What ResourcesOwned needs to be inductive: a request closes a session
   exactly at the awaits of a disposal, what it closes is closing, and a request
   that has not yet connected owns nothing. *)
Closing == {"displacing", "undoing", "disposing", "rollback"}

Owned ==
    /\ ResourcesOwned
    /\ \A q \in Request : pc[q] \in Closing <=> victim[q] # NoSession
    /\ \A q \in Request : victim[q] # NoSession => res[victim[q]] = "closing"
    /\ \A q \in Request : pc[q] \in {"idle", "connecting"} => res[q] = "none"
    /\ \A q \in Request : pc[q] = "indexing" => session # q
    /\ \A q \in Request : pc[q] = "rollback" => victim[q] = q

(* Steps that leave sessions and their resources alone. *)
LEMMA OwnedQuiet ==
    ASSUME Typed, Owned, NEW q \in Request, NEW b,
           pc[q] # "indexing", b \notin {"indexing", "rollback"},
           pc[q] \in Closing <=> b \in Closing,
           b \notin {"idle", "connecting"} \/ pc[q] = "idle",
           pc' = [pc EXCEPT ![q] = b], UNCHANGED <<session, res, victim>>
    PROVE  Owned'
BY NoSessionApart DEF Typed, Owned, ResourcesOwned

(* Publishing a session that is connected. *)
LEMMA OwnedPublish ==
    ASSUME Typed, Owned, NEW q \in Request, NEW a \in {"connecting", "indexing"}, Publish(q, a)
    PROVE  Owned'
<1> USE NoSessionApart DEF Typed, Closing
<1>1. session # q /\ (\A r \in Request : victim[r] # q) /\ victim[q] = NoSession /\ pc[q] = a
  BY DEF Publish, Go, Owned, ResourcesOwned
<1>2. CASE session = NoSession
  BY <1>1, <1>2 DEF Publish, Go, Owned, ResourcesOwned
<1>3. CASE session # NoSession
  <2>1. session \in Session /\ res[session] = "open"
    BY <1>3 DEF Owned, ResourcesOwned
  <2>2. \A r \in Request : victim[r] # session
    BY <2>1, <1>3 DEF Owned
  <2>3. /\ pc' = [pc EXCEPT ![q] = "displacing"]
        /\ res' = [res EXCEPT ![q] = "open", ![session] = "closing"]
        /\ victim' = [victim EXCEPT ![q] = session]
        /\ session' = q
    BY <1>3 DEF Publish, Go
  <2>4. session \in Request => pc[session] # "indexing"
    BY <1>3 DEF Owned
  <2> QED BY <1>1, <1>3, <2>1, <2>2, <2>3, <2>4 DEF Owned, ResourcesOwned
<1> QED BY <1>2, <1>3

(* Closing the registered session. *)
LEMMA OwnedClose ==
    ASSUME Typed, Owned, NEW q \in Request, NEW a, a \notin Closing, a # "indexing",
           session # NoSession, CloseSession(q, a)
    PROVE  Owned'
<1> USE NoSessionApart DEF Typed, Closing
<1>1. session \in Session /\ res[session] = "open" /\ victim[q] = NoSession
  BY DEF CloseSession, Go, Owned, ResourcesOwned
<1>2. \A r \in Request : victim[r] # session
  BY <1>1 DEF Owned
<1>3. /\ pc' = [pc EXCEPT ![q] = "disposing"]
      /\ res' = [res EXCEPT ![session] = "closing"]
      /\ victim' = [victim EXCEPT ![q] = session]
      /\ session' = NoSession
      /\ pc[q] = a
  BY DEF CloseSession, Dispose, Go
<1>4. session \in Request => pc[session] # "indexing"
  BY DEF Owned
<1> QED BY <1>1, <1>2, <1>3, <1>4 DEF Owned, ResourcesOwned

(* A disposal that ends its request. *)
LEMMA OwnedClosed ==
    ASSUME Typed, Owned, NEW q \in Request, victim[q] # NoSession,
           pc' = [pc EXCEPT ![q] = "over"],
           res' = [res EXCEPT ![victim[q]] = "closed"],
           victim' = [victim EXCEPT ![q] = NoSession], UNCHANGED session
    PROVE  Owned'
<1> USE NoSessionApart DEF Typed, Closing
<1>1. victim[q] \in Session /\ res[victim[q]] = "closing" /\ pc[q] \in Closing
  BY DEF Owned
<1>2. \A r \in Request \ {q} : victim[r] # victim[q]
  BY DEF Owned, ResourcesOwned
<1> QED BY <1>1, <1>2 DEF Owned, ResourcesOwned

(* Every step keeps the invariant. *)
LEMMA OwnedStep == Typed /\ Owned /\ [Next]_vars => Owned'
<1> SUFFICES ASSUME Typed, Owned, [Next]_vars PROVE Owned'
  OBVIOUS
<1> USE NoSessionApart
<1> USE DEF stored, runtime, memory, tally
<1>a. ASSUME NEW q \in Request, NEW a, NEW b, Go(q, a, b), UNCHANGED <<session, res, victim>>,
             a # "indexing", b \notin {"indexing", "rollback"}, a \in Closing <=> b \in Closing,
             b \notin {"idle", "connecting"} \/ a = "idle"
      PROVE  Owned'
  <2>1. pc[q] = a /\ pc' = [pc EXCEPT ![q] = b]
    BY <1>a DEF Go
  <2> QED BY <1>a, <2>1, OwnedQuiet
<1>1. ASSUME NEW q \in Request, Step(q) PROVE Owned'
  <2>1. CASE Create(q) \/ Resume(q)
    BY <2>1, <1>a DEF Create, Resume, Closing
  <2>2. CASE ConnectFails(q)
    BY <2>2, <1>a DEF ConnectFails, Closing
  <2>3. CASE Connected(q)
    <3>1. /\ pc[q] = "connecting" /\ res[q] = "none"
          /\ pc' = [pc EXCEPT ![q] = "indexing"] /\ res' = [res EXCEPT ![q] = "open"]
          /\ UNCHANGED <<session, victim>>
      BY <2>3 DEF Connected, Go, Owned
    <3>2. session # q /\ \A r \in Request : victim[r] # q
      BY <3>1 DEF Typed, Owned, ResourcesOwned
    <3> QED BY <3>1, <3>2 DEF Typed, Owned, ResourcesOwned, Closing
  <2>4. CASE Indexed(q) \/ Resumed(q)
    BY <2>4, OwnedPublish DEF Indexed, Resumed
  <2>5. CASE IndexFails(q)
    <3>1. /\ pc[q] = "indexing" /\ pc' = [pc EXCEPT ![q] = "rollback"]
          /\ res' = [res EXCEPT ![q] = "closing"] /\ victim' = [victim EXCEPT ![q] = q]
          /\ UNCHANGED session
      BY <2>5 DEF IndexFails, Go
    <3>2. session # q /\ res[q] = "open" /\ victim[q] = NoSession
      BY <3>1 DEF Typed, Owned, ResourcesOwned, Closing
    <3>3. \A r \in Request : victim[r] # q
      BY <3>2 DEF Typed, Owned
    <3> QED BY <3>1, <3>2, <3>3 DEF Typed, Owned, ResourcesOwned, Closing
  <2>6. CASE RolledBack(q)
    <3>1. pc[q] = "rollback" /\ pc' = [pc EXCEPT ![q] = "over"] /\ victim[q] = q
      <4>1. pc[q] = "rollback" /\ pc' = [pc EXCEPT ![q] = "over"]
        BY <2>6 DEF RolledBack, Go
      <4> QED BY <4>1, <2>6 DEF RolledBack, Owned, Closing
    <3> QED BY <2>6, <3>1, OwnedClosed DEF RolledBack
  <2>7. CASE Disposed(q) \/ UndoFails(q) \/ (Undone(q) /\ session # q)
    <3>1. pc[q] \in Closing /\ pc' = [pc EXCEPT ![q] = "over"]
      BY <2>7 DEF Disposed, UndoFails, Undone, Go, Closing
    <3>2. victim[q] # NoSession
      BY <3>1 DEF Owned
    <3> QED BY <2>7, <3>1, <3>2, OwnedClosed DEF Disposed, UndoFails, Undone
  <2>8. CASE CancelDisplacing(q)
    BY <2>8, <1>a DEF CancelDisplacing, Closing
  <2>9. CASE Undone(q) /\ session = q
    <3>1. /\ pc[q] = "undoing" /\ pc' = [pc EXCEPT ![q] = "disposing"]
          /\ session' = NoSession
          /\ res' = [res EXCEPT ![victim[q]] = "closed", ![q] = "closing"]
          /\ victim' = [victim EXCEPT ![q] = q]
      BY <2>9 DEF Undone, Go
    <3>2. victim[q] \in Session /\ res[victim[q]] = "closing" /\ res[q] = "open"
      BY <2>9, <3>1 DEF Typed, Owned, ResourcesOwned, Closing
    <3>3. \A r \in Request : victim[r] # q
      BY <3>2 DEF Typed, Owned
    <3>4. \A r \in Request \ {q} : victim[r] # victim[q]
      BY <3>2 DEF Owned, ResourcesOwned
    <3> QED BY <2>9, <3>1, <3>2, <3>3, <3>4 DEF Typed, Owned, ResourcesOwned, Closing
  <2>10. CASE Send(q) \/ TouchRead(q) \/ TouchReplace(q) \/ SaveView(q) \/ ListOverflow(q) \/ Evicted(q)
    BY <2>10, <1>a DEF Send, TouchRead, TouchReplace, SaveView, ListOverflow, Evicted, Closing
  <2>11. CASE RenderFails(q)
    <3>1. \/ Go(q, "streaming", "rendered")
          \/ pc[q] \in {"listing", "evicting"} /\ Go(q, pc[q], "rendered")
      BY <2>11 DEF RenderFails
    <3>2. UNCHANGED <<session, res, victim>>
      BY <2>11 DEF RenderFails
    <3>3. CASE Go(q, "streaming", "rendered")
      BY <3>2, <3>3, <1>a DEF Closing
    <3>4. CASE pc[q] \in {"listing", "evicting"} /\ Go(q, pc[q], "rendered")
      BY <3>2, <3>4, <1>a DEF Closing
    <3> QED BY <3>1, <3>3, <3>4
  <2>12. CASE Respond(q)
    <3>1. /\ pc[q] \in {"streaming", "rendered"} /\ Go(q, pc[q], "over")
          /\ UNCHANGED <<session, res, victim>>
      BY <2>12 DEF Respond
    <3> QED BY <3>1, <1>a DEF Closing
  <2>13. CASE DeleteView(q, "evicting") \/ DeleteView(q, "unviewing")
    BY <2>13 DEF DeleteView, Typed, Owned, ResourcesOwned
  <2>14. CASE End(q)
    BY <2>14, OwnedClose DEF End, Closing
  <2>15. CASE Delete(q) \/ ClearHistory(q) \/ CollectViews(q) \/ ViewsDeleted(q)
    BY <2>15, <1>a DEF Delete, ClearHistory, CollectViews, ViewsDeleted, Closing
  <2>16. CASE Unindex(q)
    <3>1. CASE session = NoSession
      BY <2>16, <3>1, <1>a DEF Unindex, Closing
    <3>2. CASE session # NoSession
      BY <2>16, <3>2, OwnedClose DEF Unindex, Closing
    <3> QED BY <3>1, <3>2
  <2>17. CASE DeleteFails(q)
    <3>1. /\ pc[q] \in Deleting /\ pc' = [pc EXCEPT ![q] = "over"]
          /\ UNCHANGED <<session, res, victim>>
      BY <2>17 DEF DeleteFails
    <3> QED BY <3>1, OwnedQuiet DEF Deleting, Closing
  <2> QED
    BY <1>1, <2>1, <2>2, <2>3, <2>4, <2>5, <2>6, <2>7, <2>8, <2>9, <2>10, <2>11, <2>12,
       <2>13, <2>14, <2>15, <2>16, <2>17 DEF Step
<1>2. CASE ViewData \/ WindowPasses \/ UNCHANGED vars
  <2>1. UNCHANGED <<session, res, victim, pc>>
    BY <1>2 DEF ViewData, WindowPasses, vars
  <2> QED BY <2>1 DEF Typed, Owned, ResourcesOwned
<1>3. CASE Restart
  BY <1>3 DEF Restart, Typed, Owned, ResourcesOwned, Closing
<1> QED BY <1>1, <1>2, <1>3 DEF Next

(* No connection is leaked and none is closed twice, however resuming, ending,
   deleting, cancelling and restarting interleave. *)
THEOREM ResourceSafety == Spec => []ResourcesOwned
<1>1. Init => Owned
  <2> SUFFICES ASSUME Init PROVE Owned
    OBVIOUS
  <2>1. \A q \in Request : session # q
    BY ConstAssumption DEF Init
  <2> QED BY <2>1, NoSessionApart DEF Init, Owned, ResourcesOwned, Closing, Session
<1>2. Owned => ResourcesOwned
  BY DEF Owned
<1> QED BY <1>1, <1>2, AloneAlways, AloneInit, TypedStep, OwnedStep, PTL DEF Spec

-------------------------------------------------------------------------------
(* The requests that are rendering a view, whose views beyond the cap may still
   be there. *)
Rendering == {q \in Request : pc[q] \in {"listing", "evicting"}}

(* The stored views: one per rendering, of requests that have got that far. *)
Views ==
    /\ views \in Seq(Request) /\ IsInjective(views)
    /\ \A q \in ToSet(views) : pc[q] \in {"listing", "evicting", "rendered", "over"}
    /\ todo \in [Request -> SUBSET Request]
    /\ unevicted \in Nat
    /\ IsFiniteSet({q \in Request : pc[q] # "idle"})

(* A step of request q that is not about views. *)
Elsewhere(q) ==
    /\ UNCHANGED <<views, todo, unevicted>>
    /\ \E b \in Phase \ {"idle", "listing", "evicting"} : pc' = [pc EXCEPT ![q] = b]
    /\ pc[q] \notin {"listing", "evicting"}
    /\ pc[q] \in {"rendered", "over"} => pc'[q] = "over"

(* What a step of a request does about views. *)
LEMMA ViewStepKinds ==
    ASSUME Typed, NEW q \in Request, Step(q)
    PROVE  \/ Elsewhere(q)
           \/ SaveView(q) \/ ListOverflow(q) \/ Evicted(q) \/ RenderFails(q)
           \/ DeleteView(q, "evicting") \/ DeleteView(q, "unviewing")
           \/ CollectViews(q) \/ DeleteFails(q)
<1> USE DEF Elsewhere, Go, Typed, Phase, Sending, Deleting, Opening, stored, runtime, memory, tally
<1>1. CASE Create(q) \/ Resume(q) \/ ConnectFails(q) \/ Connected(q)
  BY <1>1 DEF Create, Resume, ConnectFails, Connected
<1>2. CASE Indexed(q) \/ Resumed(q)
  BY <1>2 DEF Indexed, Resumed, Publish
<1>3. CASE IndexFails(q) \/ RolledBack(q)
  BY <1>3 DEF IndexFails, RolledBack
<1>4. CASE Disposed(q) \/ CancelDisplacing(q)
  BY <1>4 DEF Disposed, CancelDisplacing
<1>5. CASE Undone(q) \/ UndoFails(q)
  BY <1>5 DEF Undone, UndoFails
<1>6. CASE Send(q) \/ TouchRead(q) \/ TouchReplace(q)
  BY <1>6 DEF Send, TouchRead, TouchReplace
<1>7. CASE Respond(q) \/ Delete(q) \/ ClearHistory(q) \/ ViewsDeleted(q)
  BY <1>7 DEF Respond, Delete, ClearHistory, ViewsDeleted
<1>8. CASE End(q)
  BY <1>8 DEF End, CloseSession
<1>9. CASE Unindex(q)
  BY <1>9 DEF Unindex, CloseSession
<1> QED BY <1>1, <1>2, <1>3, <1>4, <1>5, <1>6, <1>7, <1>8, <1>9 DEF Step

(* The steps that are not about views, those of the process included. *)
LEMMA OtherSteps ==
    ASSUME Typed, ViewData \/ WindowPasses \/ UNCHANGED vars
    PROVE  UNCHANGED <<pc, views, todo, unevicted>>
BY DEF ViewData, WindowPasses, vars, stored, memory, tally

(* What a failing rendering does. *)
LEMMA RenderFailsKinds ==
    ASSUME Typed, NEW q \in Request, RenderFails(q)
    PROVE  /\ pc' = [pc EXCEPT ![q] = "rendered"]
           /\ todo' = [todo EXCEPT ![q] = {}]
           /\ \/ pc[q] = "streaming" /\ UNCHANGED <<views, unevicted>>
              \/ pc[q] = "streaming" /\ views' = Append(views, q) /\ unevicted' = unevicted + 1
              \/ q \in Rendering /\ unevicted' = unevicted + 1 /\ UNCHANGED views
BY DEF RenderFails, Go, Rendering

(* Every step keeps the views what they are. *)
LEMMA ViewsStep == Typed /\ Views /\ [Next]_vars => Views'
<1> SUFFICES ASSUME Typed, Views, [Next]_vars PROVE Views'
  OBVIOUS
<1> DEFINE Begun == {q \in Request : pc[q] # "idle"}
<1>a. ASSUME NEW q \in Request, NEW b, pc' = [pc EXCEPT ![q] = b]
      PROVE  IsFiniteSet(Begun')
  <2>1. IsFiniteSet(Begun \cup {q})
    BY FS_AddElement DEF Views
  <2>2. Begun' \in SUBSET (Begun \cup {q})
    BY <1>a DEF Typed
  <2> QED BY <2>1, <2>2, FS_Subset
<1>b. Rendering \subseteq Begun
  BY DEF Rendering
<1>c. IsFiniteSet(Rendering) /\ Cardinality(Rendering) \in Nat
  BY <1>b, FS_Subset, FS_CardinalityType DEF Views
<1>1. ASSUME NEW q \in Request, Step(q) PROVE Views'
  <2>1. CASE Elsewhere(q)
    <3>1. IsFiniteSet(Begun')
      BY <2>1, <1>a DEF Elsewhere
    <3> QED BY <2>1, <3>1 DEF Elsewhere, Views, Typed
  <2>2. CASE SaveView(q)
    <3>1. /\ pc[q] = "streaming" /\ pc' = [pc EXCEPT ![q] = "listing"]
          /\ views' = Append(views, q) /\ UNCHANGED <<todo, unevicted>>
      BY <2>2 DEF SaveView, Go, memory, tally
    <3>2. q \notin ToSet(views)
      BY <3>1 DEF Views
    <3>3. views' \in Seq(Request) /\ IsInjective(views') /\ ToSet(views') = ToSet(views) \cup {q}
      BY <3>1, <3>2, AppendNew DEF Views
    <3>4. IsFiniteSet(Begun')
      BY <3>1, <1>a
    <3> QED BY <3>1, <3>3, <3>4 DEF Views, Typed
  <2>3. CASE ListOverflow(q)
    <3>1. /\ pc[q] = "listing" /\ pc' = [pc EXCEPT ![q] = "evicting"]
          /\ todo' = [todo EXCEPT ![q] = {views[k] : k \in 1 .. Len(views) - MaxViews}]
          /\ UNCHANGED <<views, unevicted>>
      BY <2>3 DEF ListOverflow, Go, stored, tally
    <3>2. {views[k] : k \in 1 .. Len(views) - MaxViews} \subseteq Request
      BY ConstAssumption DEF Views
    <3>3. IsFiniteSet(Begun')
      BY <3>1, <1>a
    <3> QED BY <3>1, <3>2, <3>3 DEF Views, Typed
  <2>4. CASE Evicted(q)
    <3>1. /\ pc[q] = "evicting" /\ pc' = [pc EXCEPT ![q] = "rendered"]
          /\ UNCHANGED <<views, todo, unevicted>>
      BY <2>4 DEF Evicted, Go, stored, memory, tally
    <3>2. IsFiniteSet(Begun')
      BY <3>1, <1>a
    <3> QED BY <3>1, <3>2 DEF Views, Typed
  <2>5. CASE RenderFails(q)
    <3>1. /\ pc' = [pc EXCEPT ![q] = "rendered"] /\ todo' = [todo EXCEPT ![q] = {}]
          /\ unevicted' \in Nat
          /\ \/ UNCHANGED views
             \/ pc[q] = "streaming" /\ views' = Append(views, q)
      BY <2>5, RenderFailsKinds DEF Views
    <3>2. IsFiniteSet(Begun')
      BY <3>1, <1>a
    <3>3. /\ views' \in Seq(Request) /\ IsInjective(views')
          /\ ToSet(views') \subseteq ToSet(views) \cup {q}
      <4>1. pc[q] = "streaming" => q \notin ToSet(views)
        BY DEF Views
      <4>2. CASE UNCHANGED views
        BY <4>2 DEF Views
      <4>3. CASE pc[q] = "streaming" /\ views' = Append(views, q)
        BY <4>1, <4>3, AppendNew DEF Views
      <4> QED BY <3>1, <4>2, <4>3
    <3> QED BY <3>1, <3>2, <3>3 DEF Views, Typed
  <2>6. CASE DeleteView(q, "evicting") \/ DeleteView(q, "unviewing")
    <3>1. /\ UNCHANGED <<pc, unevicted>>
          /\ \E v \in todo[q] : todo' = [todo EXCEPT ![q] = @ \ {v}]
          /\ \/ UNCHANGED views
             \/ \E k \in DOMAIN views : views' = RemoveAt(views, k)
      BY <2>6 DEF DeleteView, tally
    <3>2. views' \in Seq(Request) /\ IsInjective(views') /\ ToSet(views') \subseteq ToSet(views)
      BY <3>1, RemoveAtInjective DEF Views
    <3>3. todo' \in [Request -> SUBSET Request]
      BY <3>1 DEF Views
    <3> QED BY <3>1, <3>2, <3>3 DEF Views
  <2>7. CASE CollectViews(q)
    <3>1. /\ pc[q] = "collecting" /\ pc' = [pc EXCEPT ![q] = "unviewing"]
          /\ todo' = [todo EXCEPT ![q] = ToSet(views)]
          /\ UNCHANGED <<views, unevicted>>
      BY <2>7 DEF CollectViews, Go, stored, tally
    <3>2. ToSet(views) \subseteq Request
      BY DEF Views, ToSet
    <3>3. IsFiniteSet(Begun')
      BY <3>1, <1>a
    <3> QED BY <3>1, <3>2, <3>3 DEF Views, Typed
  <2>8. CASE DeleteFails(q)
    <3>1. /\ pc' = [pc EXCEPT ![q] = "over"]
          /\ todo' = [todo EXCEPT ![q] = {}]
          /\ UNCHANGED <<views, unevicted>>
      BY <2>8 DEF DeleteFails
    <3>2. IsFiniteSet(Begun')
      BY <3>1, <1>a
    <3> QED BY <3>1, <3>2 DEF Views, Typed
  <2> QED BY <1>1, <2>1, <2>2, <2>3, <2>4, <2>5, <2>6, <2>7, <2>8, ViewStepKinds
<1>2. CASE ViewData \/ WindowPasses \/ UNCHANGED vars
  BY <1>2, OtherSteps DEF Views
<1>3. CASE Restart
  <2>1. /\ pc' = [q \in Request |-> IF pc[q] = "idle" THEN "idle" ELSE "over"]
        /\ todo' = [q \in Request |-> {}] /\ unevicted' = unevicted + Cardinality(Rendering)
        /\ UNCHANGED views
    BY <1>3 DEF Restart, stored, Rendering
  <2>2. Begun' = Begun
    BY <2>1
  <2>3. \A q \in ToSet(views) : q \in Request
    BY DEF Views, ToSet
  <2>4. IsFiniteSet(Begun')
    BY <2>2 DEF Views
  <2>5. \A q \in ToSet(views) : pc'[q] = "over"
    BY <2>1, <2>3 DEF Views
  <2> QED BY <2>1, <2>4, <2>5, <1>c DEF Views
<1> QED BY <1>1, <1>2, <1>3 DEF Next

(* They are it to begin with. *)
LEMMA ViewsInit == Init => Views
<1> SUFFICES ASSUME Init PROVE Views
  OBVIOUS
<1>1. views = <<>> /\ todo = [q \in Request |-> {}] /\ unevicted = 0
  BY DEF Init
<1>2. {q \in Request : pc[q] # "idle"} = {}
  BY DEF Init
<1>3. views \in Seq(Request) /\ IsInjective(views) /\ ToSet(views) = {}
  BY <1>1 DEF IsInjective, ToSet
<1> QED BY <1>1, <1>2, <1>3, FS_EmptySet DEF Views

(* And throughout. *)
LEMMA ViewsAlways == Spec => [](Typed /\ Views)
BY AloneAlways, ViewsInit, ViewsStep, PTL DEF Spec

(* Every variable keeps its type. *)
THEOREM TypeCorrect == Spec => []TypeOK
<1> DEFINE Rest == /\ history \subseteq Request /\ budget \in 0 .. MaxBudget
                   /\ disturbed \in BOOLEAN /\ restarts \in 0 .. MaxRestarts
<1>1. Init => Rest
  <2> SUFFICES ASSUME Init PROVE Rest
    OBVIOUS
  <2>1. history = {} /\ budget = 0 /\ restarts = 0 /\ disturbed \in BOOLEAN
    BY DEF Init
  <2> QED BY <2>1, ConstAssumption
<1>2. Rest /\ [Next]_vars => Rest'
  <2> SUFFICES ASSUME Rest, [Next]_vars PROVE Rest'
    OBVIOUS
  <2> USE ConstAssumption DEF stored, runtime, memory, tally
  <2>a. ASSUME NEW q, NEW a, NEW b, Go(q, a, b) PROVE disturbed' \in BOOLEAN
    BY <2>a DEF Go
  <2>b. 0 \in 0 .. MaxBudget
    OBVIOUS
  <2> USE <2>a, <2>b
  <2>1. ASSUME NEW q \in Request, Step(q) PROVE Rest'
    <3>1. CASE Create(q) \/ Resume(q) \/ ConnectFails(q) \/ Connected(q)
      BY <3>1 DEF Create, Resume, ConnectFails, Connected
    <3>2. CASE Indexed(q) \/ Resumed(q)
      BY <3>2 DEF Indexed, Resumed, Publish
    <3>3. CASE IndexFails(q) \/ RolledBack(q) \/ Disposed(q) \/ CancelDisplacing(q)
      BY <3>3 DEF IndexFails, RolledBack, Disposed, CancelDisplacing
    <3>4. CASE Undone(q) \/ UndoFails(q)
      BY <3>4 DEF Undone, UndoFails
    <3>5. CASE Send(q) \/ TouchRead(q) \/ TouchReplace(q)
      BY <3>5 DEF Send, TouchRead, TouchReplace
    <3>6. CASE SaveView(q) \/ ListOverflow(q) \/ Evicted(q) \/ RenderFails(q) \/ Respond(q)
      BY <3>6 DEF SaveView, ListOverflow, Evicted, RenderFails, Respond
    <3>7. CASE DeleteView(q, "evicting") \/ DeleteView(q, "unviewing")
      BY <3>7 DEF DeleteView
    <3>8. CASE End(q) \/ Unindex(q)
      BY <3>8 DEF End, Unindex, CloseSession, Dispose
    <3>9. CASE Delete(q) \/ ClearHistory(q) \/ CollectViews(q) \/ ViewsDeleted(q)
      BY <3>9 DEF Delete, ClearHistory, CollectViews, ViewsDeleted
    <3>10. CASE DeleteFails(q)
      BY <3>10 DEF DeleteFails
    <3> QED BY <2>1, <3>1, <3>2, <3>3, <3>4, <3>5, <3>6, <3>7, <3>8, <3>9, <3>10 DEF Step
  <2>2. CASE ViewData \/ WindowPasses
    BY <2>2 DEF ViewData, WindowPasses
  <2>3. CASE Restart
    BY <2>3 DEF Restart
  <2>4. CASE UNCHANGED vars
    BY <2>4 DEF vars
  <2> QED BY <2>1, <2>2, <2>3, <2>4 DEF Next
<1>3. Typed /\ Views /\ Rest => TypeOK
  BY DEF Typed, Views, TypeOK
<1> QED BY <1>1, <1>2, <1>3, ViewsAlways, PTL DEF Spec

-------------------------------------------------------------------------------
(* What ViewsCapped needs to be inductive.  While q evicts, the views it has not
   listed exceed the cap only by what was saved after it listed them: by the
   renderings that failed since, or by requests that are still rendering, after[q].
   A rendering that began after that of a later lister began after q's, too. *)
LaterThan(after) ==
    /\ after \in [Request -> SUBSET Rendering]
    /\ \A q \in Request : pc[q] = "evicting" =>
         /\ q \notin after[q]
         /\ \A r \in after[q] : pc[r] = "evicting" => after[r] \subseteq after[q]
         /\ Cardinality(ToSet(views) \ todo[q]) <= MaxViews + unevicted + Cardinality(after[q])

Capped ==
    /\ Cardinality(ToSet(views)) <= MaxViews + unevicted + Cardinality(Rendering)
    /\ \E after : LaterThan(after)

(* The requests that render a view, and the views, are finitely many. *)
LEMMA RenderingFinite ==
    ASSUME Views
    PROVE  /\ IsFiniteSet(Rendering) /\ IsFiniteSet(ToSet(views))
           /\ \A S \in SUBSET Rendering : IsFiniteSet(S) /\ Cardinality(S) \in Nat
           /\ \A T \in SUBSET ToSet(views) : /\ IsFiniteSet(T) /\ Cardinality(T) \in Nat
                                             /\ Cardinality(T) <= Cardinality(ToSet(views))
<1>1. Rendering \in SUBSET {q \in Request : pc[q] # "idle"}
  BY DEF Rendering
<1>2. IsFiniteSet(Rendering)
  BY <1>1, FS_Subset DEF Views
<1>3. IsFiniteSet(ToSet(views))
  BY InjectiveCount DEF Views
<1> QED BY <1>2, <1>3, FS_Subset, FS_CardinalityType

(* A rendering that is listed stays where it is in the order of the others. *)
LEMMA CappedSave ==
    ASSUME Typed, Views, Capped, NEW q \in Request, SaveView(q)
    PROVE  Capped'
<1>1. /\ pc[q] = "streaming" /\ pc' = [pc EXCEPT ![q] = "listing"]
      /\ views' = Append(views, q) /\ UNCHANGED <<todo, unevicted>>
  BY DEF SaveView, Go, memory, tally
<1>2. q \notin ToSet(views) /\ ToSet(views') = ToSet(views) \cup {q}
  BY <1>1, AppendNew DEF Views
<1>3. q \notin Rendering /\ Rendering' = Rendering \cup {q}
  BY <1>1 DEF Rendering, Typed
<1>4. Cardinality(ToSet(views')) = Cardinality(ToSet(views)) + 1
  BY <1>2, RenderingFinite, FS_AddElement
<1>5. Cardinality(Rendering') = Cardinality(Rendering) + 1
  BY <1>3, RenderingFinite, FS_AddElement
<1>6. PICK after : LaterThan(after)
  BY DEF Capped
<1> DEFINE next == [r \in Request |-> after[r] \cup {q}]
<1>7. LaterThan(next)'
  <2> SUFFICES ASSUME NEW r \in Request, pc'[r] = "evicting"
               PROVE  /\ r \notin next[r]
                      /\ \A s \in next[r] : pc'[s] = "evicting" => next[s] \subseteq next[r]
                      /\ Cardinality(ToSet(views') \ todo'[r]) <=
                           MaxViews + unevicted' + Cardinality(next[r])
    BY <1>3, <1>6 DEF LaterThan
  <2>1. r # q /\ pc[r] = "evicting"
    BY <1>1 DEF Typed
  <2>2. \A s \in next[r] : pc'[s] = "evicting" => s # q /\ pc[s] = "evicting" /\ s \in Request
    BY <1>1, <1>6 DEF Typed, LaterThan, Rendering
  <2>3. Cardinality(next[r]) = Cardinality(after[r]) + 1
    <3>1. after[r] \subseteq Rendering /\ q \notin after[r]
      BY <1>3, <1>6 DEF LaterThan
    <3> QED BY <3>1, RenderingFinite, FS_AddElement
  <2>4. Cardinality(ToSet(views') \ todo'[r]) \in
          {Cardinality(ToSet(views) \ todo[r]), Cardinality(ToSet(views) \ todo[r]) + 1}
    <3> DEFINE S == ToSet(views) \ todo[r]
    <3>1. ToSet(views') \ todo'[r] = IF q \in todo[r] THEN S ELSE S \cup {q}
      BY <1>1, <1>2
    <3>2. IsFiniteSet(S) /\ Cardinality(S) \in Nat /\ q \notin S
      BY <1>2, RenderingFinite
    <3>3. Cardinality(S \cup {q}) = Cardinality(S) + 1
      BY <3>2, FS_AddElement
    <3> QED BY <3>1, <3>3
  <2>5. /\ Cardinality(ToSet(views) \ todo[r]) \in Nat /\ Cardinality(after[r]) \in Nat
        /\ Cardinality(ToSet(views) \ todo[r]) <= MaxViews + unevicted + Cardinality(after[r])
        /\ MaxViews + unevicted \in Nat
    BY <1>6, <2>1, RenderingFinite, ConstAssumption DEF LaterThan, Views
  <2>6. \A s \in next[r] : pc'[s] = "evicting" => next[s] \subseteq next[r]
    BY <1>6, <2>1, <2>2 DEF LaterThan
  <2>7. Cardinality(ToSet(views') \ todo'[r]) <= MaxViews + unevicted' + Cardinality(next[r])
    BY <1>1, <2>3, <2>4, <2>5
  <2> QED BY <1>6, <2>1, <2>6, <2>7 DEF LaterThan
<1>8. Cardinality(ToSet(views')) <= MaxViews + unevicted' + Cardinality(Rendering')
  <2>1. Cardinality(ToSet(views)) \in Nat /\ Cardinality(Rendering) \in Nat
    BY RenderingFinite
  <2>2. MaxViews + unevicted \in Nat
    BY ConstAssumption DEF Views
  <2> QED BY <1>1, <1>4, <1>5, <2>1, <2>2 DEF Capped
<1> QED BY <1>7, <1>8 DEF Capped

(* Steps that list nothing, end no rendering and only take views away. *)
LEMMA CappedShrink ==
    ASSUME Views, Capped, UNCHANGED <<unevicted, Rendering>>,
           \A q \in Request : pc'[q] = "evicting" <=> pc[q] = "evicting",
           ToSet(views') \subseteq ToSet(views),
           \A q \in Request : pc[q] = "evicting" =>
             ToSet(views') \ todo'[q] \subseteq ToSet(views) \ todo[q]
    PROVE  Capped'
<1>1. PICK after : LaterThan(after)
  BY DEF Capped
<1>2. ASSUME NEW S \in SUBSET ToSet(views), NEW T \in SUBSET S
      PROVE  Cardinality(T) <= Cardinality(S) /\ Cardinality(S) \in Nat /\ Cardinality(T) \in Nat
  <2>1. IsFiniteSet(S) /\ S \subseteq ToSet(views) /\ T \subseteq ToSet(views)
    BY RenderingFinite
  <2> QED BY <2>1, RenderingFinite, FS_Subset
<1>3. Cardinality(Rendering) \in Nat /\ MaxViews + unevicted \in Nat
  BY RenderingFinite, ConstAssumption DEF Views
<1>4. LaterThan(after)'
  <2> SUFFICES ASSUME NEW q \in Request, pc[q] = "evicting"
               PROVE  Cardinality(ToSet(views') \ todo'[q]) <=
                        MaxViews + unevicted + Cardinality(after[q])
    <3>1. \A q \in Request : \A r \in after[q] : r \in Request
      BY <1>1 DEF LaterThan, Rendering
    <3> QED BY <1>1, <3>1 DEF LaterThan
  <2>1. Cardinality(ToSet(views') \ todo'[q]) <= Cardinality(ToSet(views) \ todo[q])
        /\ Cardinality(ToSet(views) \ todo[q]) \in Nat
        /\ Cardinality(ToSet(views') \ todo'[q]) \in Nat
    BY <1>2
  <2>2. Cardinality(after[q]) \in Nat
    BY <1>1, RenderingFinite DEF LaterThan
  <2>3. Cardinality(ToSet(views) \ todo[q]) <= MaxViews + unevicted + Cardinality(after[q])
    BY <1>1 DEF LaterThan
  <2> QED BY <1>3, <2>1, <2>2, <2>3
<1>5. Cardinality(ToSet(views')) <= MaxViews + unevicted' + Cardinality(Rendering')
  <2>1. /\ Cardinality(ToSet(views')) <= Cardinality(ToSet(views))
        /\ Cardinality(ToSet(views)) \in Nat /\ Cardinality(ToSet(views')) \in Nat
    BY <1>2
  <2> QED BY <1>3, <2>1 DEF Capped
<1> QED BY <1>4, <1>5 DEF Capped

(* What is beyond the cap is listed: the views that are not are at most as many
   as the cap. *)
LEMMA NotListed ==
    ASSUME Views
    PROVE  Cardinality(ToSet(views) \ {views[k] : k \in 1 .. Len(views) - MaxViews}) <= MaxViews
<1> DEFINE n == Len(views)
           m == n - MaxViews
           P == {views[k] : k \in 1 .. m}
<1>1. n \in Nat /\ MaxViews \in Nat /\ views \in Seq(Request) /\ DOMAIN views = 1 .. n
  BY ConstAssumption DEF Views
<1>2. Cardinality(ToSet(views)) = n /\ IsFiniteSet(ToSet(views))
  BY InjectiveCount DEF Views
<1>3. CASE m <= 0
  <2>1. Cardinality(ToSet(views) \ P) <= n /\ Cardinality(ToSet(views) \ P) \in Nat
    BY <1>2, FS_Subset, FS_CardinalityType
  <2> QED BY <1>1, <1>3, <2>1
<1>4. CASE m > 0
  <2> DEFINE p == SubSeq(views, 1, m)
  <2>1. m \in 1 .. n
    BY <1>1, <1>4
  <2>2. p \in Seq(Request) /\ Len(p) = m /\ DOMAIN p = 1 .. m /\ \A i \in 1 .. m : p[i] = views[i]
    BY <1>1, <2>1
  <2> HIDE DEF p
  <2>3. IsInjective(p)
    <3>1. \A i \in 1 .. m : i \in DOMAIN views
      BY <1>1, <2>1
    <3> QED BY <2>2, <3>1 DEF IsInjective, Views
  <2>4. ToSet(p) = P
    BY <2>2 DEF ToSet
  <2>5. Cardinality(P) = m /\ IsFiniteSet(P)
    BY <2>2, <2>3, <2>4, InjectiveCount
  <2>6. P \subseteq ToSet(views)
    BY <1>1, <2>1 DEF ToSet
  <2> DEFINE D == ToSet(views) \ P
  <2>7. IsFiniteSet(D) /\ Cardinality(D) \in Nat
    BY <1>2, FS_Subset, FS_CardinalityType
  <2>8. P \cup D = ToSet(views) /\ P \cap D = {}
    BY <2>6
  <2> HIDE DEF P, D
  <2>9. Cardinality(P \cup D) = Cardinality(P) + Cardinality(D) - 0
    BY <2>5, <2>7, <2>8, FS_Union, FS_EmptySet
  <2>10. n = m + Cardinality(D)
    <3>1. Cardinality(P \cup D) = n
      BY <1>2, <2>8
    <3> QED BY <3>1, <2>5, <2>9, <2>1, <2>7, <1>1
  <2>11. Cardinality(D) <= MaxViews
    BY <2>10, <1>1, <2>7
  <2> QED BY <2>11 DEF D, P
<1> QED BY <1>1, <1>3, <1>4

(* A request lists: nothing it has not listed is beyond the cap. *)
LEMMA CappedList ==
    ASSUME Typed, Views, Capped, NEW q \in Request, ListOverflow(q)
    PROVE  Capped'
<1> DEFINE over == {views[k] : k \in 1 .. Len(views) - MaxViews}
<1>1. /\ pc[q] = "listing" /\ pc' = [pc EXCEPT ![q] = "evicting"]
      /\ todo' = [todo EXCEPT ![q] = over]
      /\ UNCHANGED <<views, unevicted>>
  BY DEF ListOverflow, Go, stored, tally
<1>2. Cardinality(ToSet(views) \ over) <= MaxViews
  BY NotListed
<1> HIDE DEF over
<1>3. UNCHANGED Rendering
  BY <1>1 DEF Rendering, Typed
<1>4. PICK after : LaterThan(after)
  BY DEF Capped
<1> DEFINE next == [after EXCEPT ![q] = {}]
<1>5. next \in [Request -> SUBSET Rendering] /\ next[q] = {} /\ \A r \in Request \ {q} : next[r] = after[r]
  BY <1>4 DEF LaterThan
<1>6. Cardinality(next[q]) = 0 /\ MaxViews \in Nat /\ unevicted \in Nat
  BY <1>5, FS_EmptySet, ConstAssumption DEF Views
<1>7. \A r \in Request \ {q} : todo'[r] = todo[r] /\ (pc'[r] = "evicting" <=> pc[r] = "evicting")
  BY <1>1 DEF Typed
<1>8. todo'[q] = over
  BY <1>1 DEF Views
<1> HIDE DEF next
<1>9. LaterThan(next)'
  <2> SUFFICES ASSUME NEW r \in Request, pc'[r] = "evicting"
               PROVE  /\ r \notin next[r]
                      /\ \A s \in next[r] : pc'[s] = "evicting" => next[s] \subseteq next[r]
                      /\ Cardinality(ToSet(views) \ todo'[r]) <=
                           MaxViews + unevicted + Cardinality(next[r])
    BY <1>1, <1>3, <1>5 DEF LaterThan
  <2>1. CASE r = q
    <3>1. Cardinality(ToSet(views) \ over) \in Nat
      BY RenderingFinite
    <3> QED BY <2>1, <3>1, <1>2, <1>5, <1>6, <1>8
  <2>2. CASE r # q
    <3>1. \A s \in next[r] : s \in Request
      BY <1>5 DEF Rendering
    <3> QED BY <2>2, <3>1, <1>4, <1>5, <1>7 DEF LaterThan
  <2> QED BY <2>1, <2>2
<1> QED BY <1>1, <1>3, <1>9 DEF Capped

(* A request has evicted what it listed: what is left was saved after that. *)
LEMMA CappedEvicted ==
    ASSUME Typed, Views, Capped, NEW q \in Request, Evicted(q)
    PROVE  Capped'
<1>1. /\ todo[q] = {} /\ pc[q] = "evicting" /\ pc' = [pc EXCEPT ![q] = "rendered"]
      /\ UNCHANGED <<views, todo, unevicted>>
  BY DEF Evicted, Go, stored, memory, tally
<1>2. Rendering' = Rendering \ {q}
  BY <1>1 DEF Rendering, Typed
<1>3. PICK after : LaterThan(after)
  BY DEF Capped
<1> DEFINE next == [r \in Request |-> after[r] \ {q}]
<1>4. next \in [Request -> SUBSET (Rendering')] /\ \A r \in Request : next[r] = after[r] \ {q}
  BY <1>2, <1>3 DEF LaterThan
<1> HIDE DEF next
<1>5. \A r \in Request : after[r] \subseteq Rendering /\ \A s \in after[r] : s \in Request
  BY <1>3 DEF LaterThan, Rendering
<1>6. \A r \in Request \ {q} : pc'[r] = "evicting" <=> pc[r] = "evicting"
  BY <1>1 DEF Typed
<1>7. pc'[q] # "evicting"
  BY <1>1 DEF Typed
<1>8. Cardinality(ToSet(views)) <= MaxViews + unevicted + Cardinality(after[q]) /\ q \notin after[q]
  <2>1. ToSet(views) \ todo[q] = ToSet(views)
    BY <1>1
  <2> QED BY <1>1, <1>3, <2>1 DEF LaterThan
<1>9. MaxViews + unevicted \in Nat
  BY ConstAssumption DEF Views
<1>a. ASSUME NEW S \in SUBSET Rendering, NEW T \in SUBSET S
      PROVE  Cardinality(T) <= Cardinality(S) /\ Cardinality(S) \in Nat /\ Cardinality(T) \in Nat
  BY RenderingFinite, FS_Subset
<1>b. Cardinality(ToSet(views)) \in Nat
  BY RenderingFinite
<1>10. LaterThan(next)'
  <2> SUFFICES ASSUME NEW r \in Request, pc'[r] = "evicting"
               PROVE  /\ r \notin next[r]
                      /\ \A s \in next[r] : pc'[s] = "evicting" => next[s] \subseteq next[r]
                      /\ Cardinality(ToSet(views) \ todo[r]) <=
                           MaxViews + unevicted + Cardinality(next[r])
    BY <1>1, <1>4 DEF LaterThan
  <2>1. r # q /\ pc[r] = "evicting"
    BY <1>6, <1>7
  <2>2. r \notin next[r]
    BY <1>3, <1>4, <2>1 DEF LaterThan
  <2>3. \A s \in next[r] : pc'[s] = "evicting" => next[s] \subseteq next[r]
    BY <1>3, <1>4, <1>5, <1>6, <2>1 DEF LaterThan
  <2>4. Cardinality(ToSet(views) \ todo[r]) <= MaxViews + unevicted + Cardinality(next[r])
    <3>1. CASE q \notin after[r]
      <4>1. next[r] = after[r]
        BY <3>1, <1>4
      <4> QED BY <4>1, <1>3, <2>1 DEF LaterThan
    <3>2. CASE q \in after[r]
      <4>1. after[q] \subseteq next[r] /\ next[r] \subseteq Rendering
        <5>1. after[q] \subseteq after[r]
          BY <3>2, <1>1, <1>3, <2>1 DEF LaterThan
        <5> QED BY <5>1, <1>4, <1>5, <1>8
      <4>2. /\ Cardinality(after[q]) <= Cardinality(next[r])
            /\ Cardinality(next[r]) \in Nat /\ Cardinality(after[q]) \in Nat
        BY <4>1, <1>a
      <4>3. /\ Cardinality(ToSet(views) \ todo[r]) <= Cardinality(ToSet(views))
            /\ Cardinality(ToSet(views) \ todo[r]) \in Nat
        BY RenderingFinite
      <4> QED BY <4>2, <4>3, <1>8, <1>9, <1>b
    <3> QED BY <3>1, <3>2
  <2> QED BY <2>2, <2>3, <2>4
<1>11. Cardinality(ToSet(views)) <= MaxViews + unevicted + Cardinality(Rendering')
  <2>1. after[q] \subseteq Rendering' /\ Rendering' \subseteq Rendering
    BY <1>2, <1>5, <1>8
  <2>2. /\ Cardinality(after[q]) <= Cardinality(Rendering')
        /\ Cardinality(after[q]) \in Nat /\ Cardinality(Rendering') \in Nat
    BY <2>1, <1>a
  <2> QED BY <2>2, <1>8, <1>9, <1>b
<1> QED BY <1>1, <1>10, <1>11 DEF Capped

(* A failed rendering is counted in the place of its request. *)
LEMMA CappedFails ==
    ASSUME Typed, Views, Capped, NEW q \in Request, RenderFails(q)
    PROVE  Capped'
<1>1. /\ pc' = [pc EXCEPT ![q] = "rendered"]
      /\ todo' = [todo EXCEPT ![q] = {}]
  BY RenderFailsKinds
<1>2. PICK after : LaterThan(after)
  BY DEF Capped
<1>3. \A r \in Request : after[r] \subseteq Rendering /\ \A s \in after[r] : s \in Request
  BY <1>2 DEF LaterThan, Rendering
<1>4. \A r \in Request \ {q} : /\ pc'[r] = "evicting" <=> pc[r] = "evicting"
                               /\ todo'[r] = todo[r]
  BY <1>1 DEF Typed, Views
<1>5. pc'[q] # "evicting" /\ Rendering' = Rendering \ {q}
  BY <1>1 DEF Rendering, Typed
<1>6. MaxViews \in Nat /\ unevicted \in Nat /\ Cardinality(ToSet(views)) \in Nat
      /\ Cardinality(Rendering) \in Nat
  BY ConstAssumption, RenderingFinite DEF Views
<1>7. CASE pc[q] = "streaming" /\ UNCHANGED <<views, unevicted>>
  <2>1. q \notin Rendering /\ Rendering' = Rendering
    BY <1>5, <1>7 DEF Rendering
  <2> QED BY <1>4, <1>5, <1>7, <2>1, CappedShrink
<1>8. CASE pc[q] = "streaming" /\ views' = Append(views, q) /\ unevicted' = unevicted + 1
  <2>1. q \notin Rendering /\ Rendering' = Rendering
    BY <1>5, <1>8 DEF Rendering
  <2>2. q \notin ToSet(views) /\ ToSet(views') = ToSet(views) \cup {q}
    BY <1>8, AppendNew DEF Views
  <2>3. ASSUME NEW S \in SUBSET ToSet(views)
        PROVE  Cardinality(S \cup {q}) = Cardinality(S) + 1 /\ Cardinality(S) \in Nat
    BY <2>2, RenderingFinite, FS_AddElement
  <2>4. LaterThan(after)'
    <3> SUFFICES ASSUME NEW r \in Request, pc'[r] = "evicting"
                 PROVE  Cardinality(ToSet(views') \ todo'[r]) <=
                          MaxViews + unevicted' + Cardinality(after[r])
      BY <1>2, <1>3, <1>4, <1>5, <2>1 DEF LaterThan
    <3> DEFINE S == ToSet(views) \ todo[r]
    <3>1. r # q /\ pc[r] = "evicting"
      BY <1>4, <1>5
    <3>2. ToSet(views') \ todo'[r] \in {S, S \cup {q}}
      BY <1>4, <2>2, <3>1
    <3>3. Cardinality(S) <= MaxViews + unevicted + Cardinality(after[r])
      BY <1>2, <3>1 DEF LaterThan
    <3>4. Cardinality(after[r]) \in Nat
      BY <1>3, RenderingFinite
    <3>5. Cardinality(S \cup {q}) = Cardinality(S) + 1 /\ Cardinality(S) \in Nat
      BY <2>3
    <3> HIDE DEF S
    <3>6. Cardinality(ToSet(views') \ todo'[r]) \in {Cardinality(S), Cardinality(S) + 1}
      BY <3>2, <3>5
    <3> QED BY <1>6, <1>8, <3>3, <3>4, <3>5, <3>6
  <2>5. Cardinality(ToSet(views')) <= MaxViews + unevicted' + Cardinality(Rendering')
    BY <1>6, <1>8, <2>1, <2>2, <2>3 DEF Capped
  <2> QED BY <2>4, <2>5 DEF Capped
<1>9. CASE q \in Rendering /\ unevicted' = unevicted + 1 /\ UNCHANGED views
  <2> DEFINE next == [r \in Request |-> after[r] \ {q}]
  <2>1. /\ next \in [Request -> SUBSET (Rendering')]
        /\ \A r \in Request : next[r] = after[r] \ {q}
    BY <1>3, <1>5
  <2> HIDE DEF next
  <2>2. ASSUME NEW S \in SUBSET Rendering
        PROVE  /\ Cardinality(S \ {q}) \in {Cardinality(S), Cardinality(S) - 1}
               /\ q \in S => Cardinality(S \ {q}) = Cardinality(S) - 1
               /\ Cardinality(S) \in Nat
    BY RenderingFinite, FS_RemoveElement
  <2>3. LaterThan(next)'
    <3> SUFFICES ASSUME NEW r \in Request, pc'[r] = "evicting"
                 PROVE  /\ r \notin next[r]
                        /\ \A s \in next[r] : pc'[s] = "evicting" => next[s] \subseteq next[r]
                        /\ Cardinality(ToSet(views') \ todo'[r]) <=
                             MaxViews + unevicted' + Cardinality(next[r])
      BY <2>1 DEF LaterThan
    <3>1. r # q /\ pc[r] = "evicting"
      BY <1>4, <1>5
    <3>2. r \notin next[r] /\ \A s \in next[r] : pc'[s] = "evicting" => next[s] \subseteq next[r]
      <4>1. r \notin after[r]
        BY <1>2, <3>1 DEF LaterThan
      <4>2. ASSUME NEW s \in after[r], pc'[s] = "evicting" PROVE after[s] \subseteq after[r]
        <5>1. s \in Request /\ pc[s] = "evicting"
          BY <1>3, <1>4, <1>5, <4>2
        <5> QED BY <5>1, <1>2, <3>1, <4>2 DEF LaterThan
      <4>3. \A s \in next[r] : s \in Request /\ s \in after[r] /\ next[s] = after[s] \ {q}
        BY <1>3, <2>1
      <4> QED BY <4>1, <4>2, <4>3, <2>1
    <3>3. Cardinality(ToSet(views) \ todo[r]) <= MaxViews + unevicted + Cardinality(after[r])
      BY <1>2, <3>1 DEF LaterThan
    <3>4. Cardinality(next[r]) \in {Cardinality(after[r]), Cardinality(after[r]) - 1}
          /\ Cardinality(after[r]) \in Nat
      BY <1>3, <2>1, <2>2
    <3>5. Cardinality(ToSet(views) \ todo[r]) \in Nat
      BY RenderingFinite
    <3>6. Cardinality(ToSet(views) \ todo[r]) <= MaxViews + (unevicted + 1) + Cardinality(next[r])
      BY <3>3, <3>4, <3>5, <1>6
    <3> QED BY <1>4, <1>9, <3>1, <3>2, <3>6
  <2>4. Cardinality(ToSet(views')) <= MaxViews + unevicted' + Cardinality(Rendering')
    <3>1. Cardinality(Rendering') = Cardinality(Rendering) - 1
      BY <1>5, <1>9, <2>2
    <3> QED BY <1>6, <1>9, <3>1 DEF Capped
  <2> QED BY <2>3, <2>4 DEF Capped
<1> QED BY <1>7, <1>8, <1>9, RenderFailsKinds

(* Every step keeps the views to the cap. *)
LEMMA CappedStep == Typed /\ Views /\ Capped /\ [Next]_vars => Capped'
<1> SUFFICES ASSUME Typed, Views, Capped, [Next]_vars PROVE Capped'
  OBVIOUS
<1>1. ASSUME NEW q \in Request, Step(q) PROVE Capped'
  <2>1. CASE Elsewhere(q)
    <3>1. UNCHANGED Rendering /\ \A r \in Request : pc'[r] = "evicting" <=> pc[r] = "evicting"
      BY <2>1 DEF Elsewhere, Rendering, Typed
    <3> QED BY <2>1, <3>1, CappedShrink DEF Elsewhere
  <2>2. CASE DeleteView(q, "evicting") \/ DeleteView(q, "unviewing")
    <3>1. PICK v \in todo[q] :
            /\ UNCHANGED <<pc, unevicted>> /\ todo' = [todo EXCEPT ![q] = @ \ {v}]
            /\ \/ v \notin ToSet(views) /\ UNCHANGED views
               \/ \E k \in DOMAIN views : views[k] = v /\ views' = RemoveAt(views, k)
      BY <2>2 DEF DeleteView, tally
    <3>2. ToSet(views') = ToSet(views) \ {v}
      BY <3>1, RemoveAtInjective DEF Views
    <3>3. \A r \in Request : todo'[r] \in {todo[r], todo[r] \ {v}}
      BY <3>1 DEF Views
    <3>4. UNCHANGED Rendering
      BY <3>1 DEF Rendering
    <3>5. ASSUME NEW r \in Request
          PROVE  ToSet(views') \ todo'[r] \subseteq ToSet(views) \ todo[r]
      BY <3>2, <3>3
    <3> QED BY <3>1, <3>2, <3>4, <3>5, CappedShrink
  <2>3. CASE CollectViews(q)
    <3>1. /\ pc[q] = "collecting" /\ pc' = [pc EXCEPT ![q] = "unviewing"]
          /\ todo' = [todo EXCEPT ![q] = ToSet(views)]
          /\ UNCHANGED <<views, unevicted>>
      BY <2>3 DEF CollectViews, Go, stored, tally
    <3>2. UNCHANGED Rendering /\ \A r \in Request : pc'[r] = "evicting" <=> pc[r] = "evicting"
      BY <3>1 DEF Rendering, Typed
    <3> QED BY <3>1, <3>2, CappedShrink DEF Views
  <2>4. CASE DeleteFails(q)
    <3>1. /\ pc[q] \in Deleting /\ pc' = [pc EXCEPT ![q] = "over"]
          /\ todo' = [todo EXCEPT ![q] = {}]
          /\ UNCHANGED <<views, unevicted>>
      BY <2>4 DEF DeleteFails
    <3>2. UNCHANGED Rendering /\ \A r \in Request : pc'[r] = "evicting" <=> pc[r] = "evicting"
      BY <3>1 DEF Rendering, Typed, Deleting
    <3>3. \A r \in Request : pc[r] = "evicting" => todo'[r] = todo[r]
      BY <3>1 DEF Views, Deleting
    <3> QED BY <3>1, <3>2, <3>3, CappedShrink
  <2> QED
    BY <1>1, <2>1, <2>2, <2>3, <2>4, ViewStepKinds, CappedSave, CappedList, CappedEvicted,
       CappedFails
<1>2. CASE ViewData \/ WindowPasses \/ UNCHANGED vars
  <2>1. UNCHANGED <<pc, views, todo, unevicted>>
    BY <1>2, OtherSteps
  <2> QED BY <2>1, CappedShrink DEF Rendering
<1>3. CASE Restart
  <2>1. /\ pc' = [q \in Request |-> IF pc[q] = "idle" THEN "idle" ELSE "over"]
        /\ unevicted' = unevicted + Cardinality(Rendering) /\ UNCHANGED views
    BY <1>3 DEF Restart, stored, Rendering
  <2>2. Rendering' = {} /\ \A q \in Request : pc'[q] # "evicting"
    BY <2>1 DEF Rendering
  <2>3. LaterThan([q \in Request |-> {}])'
    BY <2>2 DEF LaterThan
  <2>4. Cardinality(ToSet(views')) <= MaxViews + unevicted' + Cardinality(Rendering')
    <3>1. Cardinality(Rendering') = 0
      BY <2>2, FS_EmptySet
    <3> QED BY <2>1, <3>1, RenderingFinite, ConstAssumption DEF Capped, Views
  <2> QED BY <2>3, <2>4 DEF Capped
<1> QED BY <1>1, <1>2, <1>3 DEF Next

(* Renderings in several responses at a time together keep the number of views
   to the cap, but for those that failed half way. *)
THEOREM ViewsKeptToCap == Spec => []ViewsCapped
<1>1. Init => Capped
  <2> SUFFICES ASSUME Init PROVE Capped
    OBVIOUS
  <2>1. ToSet(views) = {} /\ Rendering = {} /\ unevicted = 0
        /\ \A q \in Request : pc[q] = "idle"
    BY DEF Init, ToSet, Rendering
  <2>2. LaterThan([q \in Request |-> {}])
    BY <2>1 DEF LaterThan
  <2>3. Cardinality(ToSet(views)) = 0 /\ Cardinality(Rendering) = 0
    BY <2>1, FS_EmptySet
  <2> QED BY <2>1, <2>2, <2>3, ConstAssumption DEF Capped
<1>2. Views /\ Capped => ViewsCapped
  <2> SUFFICES ASSUME Views, Capped, \A q \in Request : pc[q] \notin {"listing", "evicting"}
               PROVE  Len(views) <= MaxViews + unevicted
    BY DEF ViewsCapped
  <2>1. Rendering = {}
    BY DEF Rendering
  <2>2. Cardinality(Rendering) = 0
    BY <2>1, FS_EmptySet
  <2>3. Cardinality(ToSet(views)) = Len(views)
    BY InjectiveCount DEF Views
  <2> QED BY <2>2, <2>3, ConstAssumption DEF Capped, Views
<1> QED BY <1>1, <1>2, ViewsAlways, CappedStep, PTL DEF Spec

-------------------------------------------------------------------------------
(* The waits of a request that has no store left to write to. *)
Harmless == {"idle", "over", "disposing"}

(* What DeletionComplete needs to be inductive: an undisturbed deletion is
   alone, what it has cleared stays clear, what it has yet to delete is what is
   left, and after it no session is there that another request could use. *)
Deletion ==
    /\ \A q \in Request : pc[q] \in Deleting => \A r \in Request \ {q} : pc[r] \in Harmless
    /\ \A q \in Request : pc[q] \in {"collecting", "unviewing", "unindexing"} => history = {}
    /\ \A q \in Request : pc[q] = "unviewing" => ToSet(views) \subseteq todo[q]
    /\ \A q \in Request : pc[q] = "unindexing" => views = <<>>
    /\ gone => /\ history = {} /\ views = <<>> /\ session = NoSession
               /\ \A q \in Request : pc[q] \in Harmless

Undisturbed == ~ disturbed => Deletion

(* What a step that disturbs no deletion says of the other requests. *)
LEMMA GoUndisturbed ==
    ASSUME Typed, NEW q \in Request, NEW a, NEW b, Go(q, a, b), ~ disturbed'
    PROVE  /\ ~ disturbed /\ pc[q] = a /\ pc' = [pc EXCEPT ![q] = b]
           /\ b \notin {"over", "disposing"} => \A r \in Request \ {q} : pc[r] \notin Deleting
           /\ b \in Deleting => \A r \in Request \ {q} : pc[r] \in Harmless
<1>1. ~ disturbed /\ ~ Disturbs(q, b)
  BY DEF Go
<1>2. ASSUME NEW r \in Request \ {q}, pc[r] \notin Harmless, {pc[r], b} \cap Deleting # {}
      PROVE  b \in {"over", "disposing"}
  BY <1>1, <1>2 DEF Disturbs, Harmless
<1> QED BY <1>1, <1>2 DEF Go, Harmless, Deleting

(* No deletion is under way, none has been completed, and none begins. *)
LEMMA NoDeletion ==
    ASSUME Typed, NEW q \in Request, NEW b, b \notin Deleting, pc' = [pc EXCEPT ![q] = b],
           \A r \in Request : pc[r] \notin Deleting, ~ gone'
    PROVE  Deletion'
<1>1. \A r \in Request : pc'[r] \notin Deleting
  BY DEF Typed
<1> QED BY <1>1 DEF Deletion, Deleting

(* A request that is neither deleting nor harmless: no deletion is there. *)
LEMMA ByOther ==
    ASSUME Typed, Deletion, NEW q \in Request, NEW b, b \notin Deleting,
           pc[q] \notin Deleting \cup Harmless, pc' = [pc EXCEPT ![q] = b], gone' = gone
    PROVE  Deletion'
<1>1. \A r \in Request : pc[r] \notin Deleting
  BY DEF Deletion
<1>2. ~ gone
  BY DEF Deletion
<1> QED BY <1>1, <1>2, NoDeletion

(* Every step leaves an undisturbed deletion undisturbed, or disturbs it. *)
LEMMA UndisturbedStep ==
    Typed /\ Alone /\ Views /\ Undisturbed /\ [Next]_vars => Undisturbed'
<1> SUFFICES ASSUME Typed, Alone, Views, Undisturbed, [Next]_vars, ~ disturbed'
             PROVE  Deletion'
  BY DEF Undisturbed
<1> USE DEF stored, runtime, memory, tally
<1>1. ASSUME NEW q \in Request, Step(q) PROVE Deletion'
  <2>a. ASSUME NEW a, NEW b, Go(q, a, b), a \notin Deleting \cup Harmless, b \notin Deleting,
               gone' = gone
        PROVE  Deletion'
    <3>1. ~ disturbed /\ pc[q] = a /\ pc' = [pc EXCEPT ![q] = b]
      BY <2>a, GoUndisturbed
    <3>2. pc[q] \notin Deleting \cup Harmless
      BY <2>a, <3>1
    <3> QED BY <2>a, <3>1, <3>2, ByOther DEF Undisturbed
  <2>b. ASSUME NEW a, NEW b, Go(q, a, b), a \notin Deleting, b \notin Deleting,
               b \notin {"over", "disposing"}, ~ gone'
        PROVE  Deletion'
    <3>1. /\ ~ disturbed /\ pc[q] = a /\ pc' = [pc EXCEPT ![q] = b]
          /\ \A r \in Request \ {q} : pc[r] \notin Deleting
      BY <2>b, GoUndisturbed
    <3>2. \A r \in Request : pc[r] \notin Deleting
      BY <2>b, <3>1
    <3> QED BY <2>b, <3>1, <3>2, NoDeletion
  <2>1. CASE Create(q)
    BY <2>1, <2>b DEF Create, Deleting
  <2>2. CASE Resume(q)
    BY <2>2, <2>b DEF Resume, Deleting, Alone
  <2>3. CASE ConnectFails(q) \/ Connected(q)
    BY <2>3, <2>a DEF ConnectFails, Connected, Deleting, Harmless
  <2>4. CASE Indexed(q)
    BY <2>4, <2>a DEF Indexed, Publish, Deleting, Harmless
  <2>5. CASE Resumed(q)
    BY <2>5, <2>a DEF Resumed, Publish, Deleting, Harmless
  <2>6. CASE IndexFails(q) \/ RolledBack(q)
    BY <2>6, <2>a DEF IndexFails, RolledBack, Deleting, Harmless
  <2>7. CASE CancelDisplacing(q) \/ Undone(q) \/ UndoFails(q)
    BY <2>7, <2>a DEF CancelDisplacing, Undone, UndoFails, Deleting, Harmless
  <2>8. CASE Disposed(q)
    <3>1. /\ ~ disturbed /\ pc[q] \in {"disposing", "displacing"} /\ pc' = [pc EXCEPT ![q] = "over"]
          /\ UNCHANGED <<history, views, todo, gone, session>>
      BY <2>8, GoUndisturbed DEF Disposed
    <3> QED BY <3>1 DEF Undisturbed, Deletion, Typed, Deleting, Harmless
  <2>9. CASE Send(q)
    <3>1. ~ gone'
      <4>1. ~ disturbed
        BY <2>9, GoUndisturbed DEF Send
      <4> QED BY <2>9, <4>1 DEF Send, Undisturbed, Deletion
    <3> QED BY <2>9, <3>1, <2>b DEF Send, Deleting
  <2>10. CASE TouchRead(q) \/ TouchReplace(q)
    BY <2>10, <2>a DEF TouchRead, TouchReplace, Deleting, Harmless
  <2>11. CASE SaveView(q) \/ ListOverflow(q) \/ Evicted(q)
    BY <2>11, <2>a DEF SaveView, ListOverflow, Evicted, Deleting, Harmless
  <2>12. CASE RenderFails(q)
    <3>1. \E a \in {"streaming", "listing", "evicting"} : Go(q, a, "rendered")
      BY <2>12 DEF RenderFails
    <3> QED BY <2>12, <3>1, <2>a DEF RenderFails, Deleting, Harmless
  <2>13. CASE Respond(q)
    <3>1. \E a \in {"streaming", "rendered"} : Go(q, a, "over")
      BY <2>13 DEF Respond
    <3> QED BY <2>13, <3>1, <2>a DEF Respond, Deleting, Harmless
  <2>14. CASE DeleteView(q, "evicting")
    <3>1. /\ pc[q] = "evicting" /\ UNCHANGED <<pc, disturbed, gone>>
      BY <2>14 DEF DeleteView
    <3>2. pc' = [pc EXCEPT ![q] = "evicting"]
      BY <3>1 DEF Typed
    <3> QED BY <3>1, <3>2, ByOther DEF Undisturbed, Deleting, Harmless
  <2>15. CASE End(q)
    <3>1. /\ ~ disturbed /\ pc[q] = "idle" /\ pc' = [pc EXCEPT ![q] = "disposing"]
          /\ UNCHANGED <<history, views, todo, gone>> /\ session' = NoSession
      BY <2>15, GoUndisturbed DEF End, CloseSession
    <3> QED BY <3>1 DEF Undisturbed, Deletion, Typed, Deleting, Harmless
  <2>16. CASE Delete(q)
    <3>1. /\ pc' = [pc EXCEPT ![q] = "clearing"] /\ ~ gone'
          /\ \A r \in Request \ {q} : pc[r] \in Harmless
      BY <2>16, GoUndisturbed DEF Delete, Deleting, Alone
    <3> QED BY <3>1 DEF Deletion, Typed, Deleting, Harmless
  <2>c. ASSUME NEW a \in Deleting, NEW b \in Deleting, Go(q, a, b), gone' = gone
        PROVE  /\ pc' = [pc EXCEPT ![q] = b] /\ pc[q] = a /\ Deletion /\ ~ gone'
               /\ \A r \in Request \ {q} : pc[r] \in Harmless
    <3>1. /\ ~ disturbed /\ pc[q] = a /\ pc' = [pc EXCEPT ![q] = b]
          /\ \A r \in Request \ {q} : pc[r] \in Harmless
      BY <2>c, GoUndisturbed
    <3>2. a \notin Harmless
      BY DEF Deleting, Harmless
    <3> QED BY <3>1, <3>2, <2>c DEF Undisturbed, Deletion
  <2>17. CASE ClearHistory(q)
    <3>1. /\ pc' = [pc EXCEPT ![q] = "collecting"] /\ ~ gone' /\ history' = {}
          /\ \A r \in Request \ {q} : pc[r] \in Harmless
      BY <2>17, <2>c DEF ClearHistory, Deleting
    <3> QED BY <3>1 DEF Deletion, Typed, Deleting, Harmless
  <2>18. CASE CollectViews(q)
    <3>1. /\ pc' = [pc EXCEPT ![q] = "unviewing"] /\ pc[q] = "collecting" /\ Deletion /\ ~ gone'
          /\ UNCHANGED <<history, views>> /\ todo' = [todo EXCEPT ![q] = ToSet(views)]
          /\ \A r \in Request \ {q} : pc[r] \in Harmless
      BY <2>18, <2>c DEF CollectViews, Deleting
    <3>2. todo'[q] = ToSet(views)
      BY <3>1 DEF Views
    <3> QED BY <3>1, <3>2 DEF Deletion, Typed, Deleting, Harmless
  <2>19. CASE DeleteView(q, "unviewing")
    <3>1. PICK v \in todo[q] :
            /\ pc[q] = "unviewing" /\ UNCHANGED <<pc, disturbed, gone, history>>
            /\ todo' = [todo EXCEPT ![q] = @ \ {v}]
            /\ \/ v \notin ToSet(views) /\ UNCHANGED views
               \/ \E k \in DOMAIN views : views[k] = v /\ views' = RemoveAt(views, k)
      BY <2>19 DEF DeleteView
    <3>2. Deletion
      BY <3>1 DEF Undisturbed
    <3>3. ToSet(views') = ToSet(views) \ {v}
      BY <3>1, RemoveAtInjective DEF Views
    <3>4. ToSet(views') \subseteq todo'[q]
      BY <3>1, <3>2, <3>3 DEF Deletion, Views
    <3>5. /\ \A r \in Request : pc[r] = "unviewing" => r = q
          /\ \A r \in Request : pc[r] # "unindexing"
          /\ ~ gone
      BY <3>1, <3>2 DEF Deletion, Deleting, Harmless
    <3> QED BY <3>1, <3>2, <3>4, <3>5 DEF Deletion
  <2>20. CASE ViewsDeleted(q)
    <3>1. /\ pc' = [pc EXCEPT ![q] = "unindexing"] /\ pc[q] = "unviewing" /\ Deletion /\ ~ gone'
          /\ UNCHANGED <<history, views, todo>> /\ todo[q] = {}
          /\ \A r \in Request \ {q} : pc[r] \in Harmless
      BY <2>20, <2>c DEF ViewsDeleted, Deleting
    <3>2. ToSet(views) = {}
      BY <3>1 DEF Deletion
    <3>3. views = <<>>
      BY <3>2 DEF Views, ToSet
    <3> QED BY <3>1, <3>3 DEF Deletion, Typed, Deleting, Harmless
  <2>21. CASE Unindex(q)
    <3>1. \E b \in {"over", "disposing"} : Go(q, "unindexing", b)
      BY <2>21 DEF Unindex, CloseSession
    <3>2. /\ ~ disturbed /\ pc[q] = "unindexing"
          /\ \E b \in {"over", "disposing"} : pc' = [pc EXCEPT ![q] = b]
      BY <3>1, GoUndisturbed
    <3>3. Deletion
      BY <3>2 DEF Undisturbed
    <3>4. session' = NoSession /\ UNCHANGED <<history, views, todo>>
      BY <2>21 DEF Unindex, CloseSession
    <3>5. history = {} /\ views = <<>> /\ \A r \in Request \ {q} : pc[r] \in Harmless
      BY <3>2, <3>3 DEF Deletion, Deleting
    <3>6. \A r \in Request : pc'[r] \in Harmless
      BY <3>2, <3>5 DEF Harmless, Typed
    <3> QED BY <3>4, <3>5, <3>6 DEF Deletion, Harmless, Deleting
  <2>22. CASE DeleteFails(q)
    <3>1. /\ pc[q] \in Deleting /\ pc' = [pc EXCEPT ![q] = "over"] /\ ~ disturbed
          /\ gone' = gone /\ UNCHANGED views
      BY <2>22 DEF DeleteFails
    <3>2. Deletion
      BY <3>1 DEF Undisturbed
    <3>3. ~ gone /\ \A r \in Request \ {q} : pc[r] \in Harmless
      BY <3>1, <3>2 DEF Deletion, Deleting, Harmless
    <3> QED BY <3>1, <3>3 DEF Deletion, Typed, Deleting, Harmless
  <2> QED
    BY <1>1, <2>1, <2>2, <2>3, <2>4, <2>5, <2>6, <2>7, <2>8, <2>9, <2>10, <2>11, <2>12,
       <2>13, <2>14, <2>15, <2>16, <2>17, <2>18, <2>19, <2>20, <2>21, <2>22 DEF Step
<1>2. CASE ViewData \/ WindowPasses \/ UNCHANGED vars
  <2>1. UNCHANGED <<pc, history, views, todo, gone, disturbed, session>>
    BY <1>2 DEF ViewData, WindowPasses, vars
  <2> QED BY <2>1 DEF Undisturbed, Deletion
<1>3. CASE Restart
  <2>1. /\ \A q \in Request : pc'[q] \in {"idle", "over"}
        /\ UNCHANGED <<history, views, gone, disturbed>> /\ session' = NoSession
    BY <1>3 DEF Restart
  <2> QED BY <2>1 DEF Undisturbed, Deletion, Harmless, Deleting
<1> QED BY <1>1, <1>2, <1>3 DEF Next

(* A conversation whose index entry is gone has left nothing behind, however
   often deletions failed, unless one ran next to another request or was told
   of a failure after it had deleted the entry. *)
THEOREM DeletionLeavesNothing == Spec => []DeletionComplete
<1>1. Init => Undisturbed
  BY DEF Init, Undisturbed, Deletion, Deleting
<1>2. Undisturbed => DeletionComplete
  BY DEF Undisturbed, Deletion, DeletionComplete
<1> QED BY <1>1, <1>2, AloneAlways, ViewsAlways, UndisturbedStep, PTL DEF Spec

===============================================================================
