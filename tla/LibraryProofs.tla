----------------------------- MODULE LibraryProofs -----------------------------
(* Safety of Library, for every set of requests, every menu of calls, every
   contents of the store to begin with and any number of failing calls: typing,
   truthful answers, single creation, complete and sparing start-ups, cycles of
   agents only by a race, and atomicity of a request that runs alone. *)
EXTENDS Library, SequenceTheorems, WellFoundedInduction, TLAPS

(* Every nonempty set of positions has a least one. *)
LEMMA LeastPosition ==
    ASSUME NEW T, T \subseteq Nat, T # {}
    PROVE  Min(T) \in T /\ \A y \in T : Min(T) <= y
<1> DEFINE R == OpToRel(<, Nat)
<1>1. IsWellFoundedOn(R, Nat)
  BY NatLessThanWellFounded
<1>2. \A ss : ss \in R <=> ss \in Nat \X Nat /\ ss[1] < ss[2]
  BY DEF OpToRel
<1> HIDE DEF R
<1>3. PICK x \in T : \A y \in T : ~(<<y, x>> \in R)
  BY <1>1, WFMin
<1>4. \A y \in T : ~(y < x)
  BY <1>2, <1>3
<1>5. Min(T) = CHOOSE z \in T : \A y \in T : z <= y
  BY DEF Min
<1>6. \E z \in T : \A y \in T : z <= y
  BY <1>4
<1> QED BY <1>5, <1>6

----------------------------------------------------------------------------
(* The state of one request *)

(* Its fields, of which some hold whatever was read. *)
Fields   == {"call", "pc", "store", "got", "seen", "known", "todo", "outcome"}
Shape(q) == q = [f \in Fields |-> q[f]]

DirectiveOps == {"post_directive", "patch_directive", "delete_directive", "seed_directives"}
InsertOps    == {"create_skill", "create_user_skill", "create_agent"}
AgentOps     == {"put_agent", "create_agent", "edit_agent", "delete_agent"}

(* What the call of the store that a request is about to make says of the call
   it was submitted with, of its container and of what it has read. *)
Underway(q) ==
    /\ q.outcome = "none" /\ q.pc \notin {"unborn", "done"}
    /\ q.call \in Call /\ q.store \in Store
    /\ Seeds(q.call) <=> q.pc \in {"list", "seed"}
    /\ q.call.id \in Id \/ Seeds(q.call)
    /\ q.store = "directives" <=> q.call.op \in DirectiveOps
    /\ Seeds(q.call) => q.store \in ByIdStore
    /\ q.store = "agents" => q.call.op \in AgentOps /\ q.call.id \in Id \ Profile
    /\ q.pc \in {"scope_shared", "scope_user"} => q.call.op \in {"update_skill", "delete_skill"}
    /\ q.pc = "check_shared" => q.call.op = "create_user_skill"
    /\ q.pc \in {"list_skills", "list_user_skills", "target"} => Defines(q.call)
    /\ q.pc = "remove" => Removes(q.call)
    /\ q.pc = "insert" => q.call.op \in InsertOps
    /\ q.pc \in {"existing", "wrapper", "upsert"} =>
          q.call.op \notin InsertOps /\ ~Removes(q.call)
    /\ q.pc = "wrapper" => q.store # "directives"
    /\ q.pc = "upsert" => /\ q.got \in {Missing} \cup Document
                          /\ q.call.op = "patch_directive" => q.got # Missing

(* A request that was told of a creation meant to create. *)
Over(q) ==
    /\ q.pc = "done" /\ q.outcome \in Outcome \ {"none"}
    /\ q.outcome = "created" => /\ q.store \in Store /\ q.call.id \in Id
                                /\ q.store = "directives" => q.call.op = "post_directive"

Typed ==
    /\ docs \in [Store -> [Id -> {Missing} \cup Document]]
    /\ menu \in Menu
    /\ req = [r \in Request |-> req[r]]
    /\ \A r \in Request : Shape(req[r])
    /\ \A r \in Request : req[r] = Unborn \/ Underway(req[r]) \/ Over(req[r])
    /\ alone \in [Request -> BOOLEAN]
    /\ wrote \in [Request -> BOOLEAN]
    /\ failures \in 0..MaxFailures

(* A request under way is one or the other. *)
LEMMA ActiveUnderway ==
    ASSUME Typed, NEW r \in Request
    PROVE  /\ Active(r) <=> Underway(req[r])
           /\ Active(r) => Shape(req[r])
           /\ At(r, "unborn") <=> req[r] = Unborn
           /\ At(r, "done") <=> Over(req[r])
BY DEF Typed, Active, Underway, Over, At, Unborn

(* The state a request goes to, and the one it ends in, differ from its own in
   nothing else. *)
LEMMA GoToFields ==
    ASSUME NEW r \in Request, Shape(req[r]), NEW pc
    PROVE  /\ Shape(GoTo(r, pc))
           /\ GoTo(r, pc).pc = pc /\ GoTo(r, pc).call = req[r].call
           /\ GoTo(r, pc).store = req[r].store /\ GoTo(r, pc).got = req[r].got
           /\ GoTo(r, pc).outcome = req[r].outcome
BY DEF GoTo, Shape, Fields

(* The state it ends in. *)
LEMMA AnswerFields ==
    ASSUME NEW r \in Request, Shape(req[r]), NEW outcome
    PROVE  /\ Shape(Answer(r, outcome))
           /\ Answer(r, outcome).pc = "done" /\ Answer(r, outcome).call = req[r].call
           /\ Answer(r, outcome).store = req[r].store
           /\ Answer(r, outcome).outcome = outcome
BY DEF Answer, Shape, Fields

----------------------------------------------------------------------------
(* The calls of the store that only read *)

Refusing == {"nothing", "invalid", "conflict", "not_found"}

(* Request r goes on to n: to its next call, or refused, unless it seeds; then
   it may be done. *)
Follows(r, n) ==
    /\ Shape(n) /\ n.call = req[r].call
    /\ \/ Underway(n)
       \/ n.pc = "done" /\ n.outcome \in Refusing /\ ~Seeds(n.call)
       \/ n.pc = "done" /\ n.outcome = "stored" /\ Seeds(n.call)

(* A refusal. *)
LEMMA RefusedFollows ==
    ASSUME NEW r \in Request, Shape(req[r]), ~Seeds(req[r].call), NEW outcome \in Refusing
    PROVE  Follows(r, Answer(r, outcome))
BY AnswerFields DEF Follows

(* The state before any call. *)
LEMMA InScopeFollows ==
    ASSUME Typed, NEW r \in Request, Underway(req[r]), NEW s \in {"skills", "user_skills"},
           req[r].pc \in {"scope_shared", "scope_user"}
    PROVE  Follows(r, InScope(r, s)) /\ InScope(r, s).pc # "upsert"
<1> DEFINE n(pc) == [GoTo(r, pc) EXCEPT !.store = s]
<1>1. Shape(req[r])
  BY DEF Typed
<1>2. ASSUME NEW pc
      PROVE  /\ Shape(n(pc)) /\ n(pc).pc = pc /\ n(pc).call = req[r].call
             /\ n(pc).store = s /\ n(pc).outcome = req[r].outcome
  BY <1>1 DEF GoTo, Shape, Fields
<1>3. /\ req[r].call.op \in {"update_skill", "delete_skill"} /\ req[r].call \in Call
      /\ req[r].call.id \in Id \/ Seeds(req[r].call)
      /\ req[r].outcome = "none" /\ ~Seeds(req[r].call)
  BY DEF Underway, Seeds
<1> HIDE DEF n
<1>4. CASE Removes(req[r].call)
  <2>1. Underway(n("remove"))
    BY <1>2, <1>3, <1>4 DEF Underway, Seeds, DirectiveOps, Store, UserStore, ByIdStore
  <2>2. InScope(r, s) = n("remove")
    BY <1>4 DEF InScope, n
  <2> QED BY <1>2, <2>1, <2>2 DEF Follows
<1>5. CASE ~Removes(req[r].call) /\ req[r].call.valid # "yes"
  BY <1>1, <1>3, <1>5, RefusedFollows, AnswerFields DEF InScope, Refusing
<1>6. CASE ~Removes(req[r].call) /\ req[r].call.valid = "yes"
  <2>1. Underway(n("existing"))
    BY <1>2, <1>3, <1>6
       DEF Underway, Seeds, DirectiveOps, InsertOps, Store, UserStore, ByIdStore
  <2>2. InScope(r, s) = n("existing")
    BY <1>6 DEF InScope, n
  <2> QED BY <1>2, <2>1, <2>2 DEF Follows
<1> QED BY <1>4, <1>5, <1>6

(* A state that differs from the request's own in the next call, and in what was
   read, is that of a request under way if the next call is one for it. *)
LEMMA UnderwayAt ==
    ASSUME NEW q, NEW n, Underway(q), ~Seeds(q.call),
           n.call = q.call, n.store = q.store, n.outcome = q.outcome,
           n.pc \notin {"unborn", "done", "list", "seed"},
           n.pc \in {"scope_shared", "scope_user"} => q.call.op \in {"update_skill", "delete_skill"},
           n.pc = "check_shared" => q.call.op = "create_user_skill",
           n.pc \in {"list_skills", "list_user_skills", "target"} => Defines(q.call),
           n.pc = "remove" => Removes(q.call),
           n.pc = "insert" => q.call.op \in InsertOps,
           n.pc \in {"existing", "wrapper", "upsert"} =>
              q.call.op \notin InsertOps /\ ~Removes(q.call),
           n.pc = "wrapper" => q.store # "directives",
           n.pc = "upsert" => n.got \in {Missing} \cup Document,
           n.pc = "upsert" /\ q.call.op = "patch_directive" => n.got # Missing
    PROVE  Underway(n)
BY DEF Underway

(* A request under way reads documents. *)
LEMMA OwnTyped ==
    ASSUME Typed, NEW r \in Request, Underway(req[r]), ~Seeds(req[r].call)
    PROVE  Own(r) \in {Missing} \cup Document
BY DEF Typed, Underway, Own

(* A call of the store that reads, and what it says of a directive to come. *)
Reads(r) ==
    \E n : /\ Read(r, n) /\ Follows(r, n)
           /\ n.pc = "upsert" /\ n.call.op = "post_directive" => Own(r) = Missing

(* Reading the scope of a skill. *)
LEMMA ScopeReads ==
    ASSUME Typed, NEW r \in Request, Underway(req[r]), ScopeShared(r) \/ ScopeUser(r)
    PROVE  Reads(r)
<1>1. Shape(req[r])
  BY DEF Typed
<1>2. ~Seeds(req[r].call) /\ req[r].call.op \in {"update_skill", "delete_skill"}
  BY DEF ScopeShared, ScopeUser, At, Underway
<1>3. Follows(r, GoTo(r, "scope_user"))
  <2>1. Underway(GoTo(r, "scope_user"))
    BY <1>1, <1>2, GoToFields, UnderwayAt
  <2> QED BY <1>1, <2>1, GoToFields DEF Follows
<1>4. Follows(r, Answer(r, "not_found"))
  BY <1>1, <1>2, RefusedFollows DEF Refusing
<1>5. ASSUME NEW s \in {"skills", "user_skills"}
      PROVE  Follows(r, InScope(r, s)) /\ InScope(r, s).pc # "upsert"
  BY InScopeFollows DEF ScopeShared, ScopeUser, At
<1> QED BY <1>1, <1>3, <1>4, <1>5, GoToFields, AnswerFields DEF ScopeShared, ScopeUser, Reads

(* Reading whether a shared skill has the name. *)
LEMMA CheckReads ==
    ASSUME Typed, NEW r \in Request, Underway(req[r]), CheckShared(r)
    PROVE  Reads(r)
<1>1. Shape(req[r])
  BY DEF Typed
<1>2. ~Seeds(req[r].call) /\ req[r].call.op = "create_user_skill"
  BY DEF CheckShared, At, Underway
<1>3. Underway(GoTo(r, "insert"))
  BY <1>1, <1>2, GoToFields, UnderwayAt DEF InsertOps
<1>4. Follows(r, GoTo(r, "insert")) /\ Follows(r, Answer(r, "conflict"))
  BY <1>1, <1>2, <1>3, GoToFields, RefusedFollows DEF Follows, Refusing
<1> QED BY <1>1, <1>4, GoToFields, AnswerFields DEF CheckShared, Reads

(* Reading the document that is to be written. *)
LEMMA ExistingReads ==
    ASSUME Typed, NEW r \in Request, Underway(req[r]), Existing(r)
    PROVE  Reads(r)
<1> DEFINE q == req[r]
           c == q.call
           to == IF Defines(c) THEN "list_skills" ELSE Storing(r)
           n == [GoTo(r, to) EXCEPT !.got = Own(r)]
<1>1. Shape(q)
  BY DEF Typed
<1>2. ~Seeds(c) /\ c.op \notin InsertOps /\ ~Removes(c)
  BY DEF Existing, At, Underway
<1>3. /\ Shape(n) /\ n.pc = to /\ n.call = c
      /\ n.store = q.store /\ n.got = Own(r) /\ n.outcome = q.outcome
  BY <1>1 DEF GoTo, Shape, Fields
<1>4. \A outcome \in Refusing : Follows(r, Answer(r, outcome)) /\ Answer(r, outcome).pc = "done"
  BY <1>1, <1>2, RefusedFollows, AnswerFields
<1> DEFINE fits == /\ c.op = "post_directive" => Own(r) = Missing
                   /\ c.op = "patch_directive" => Own(r) # Missing
<1>5. fits => Underway(n)
  <2>1. to \in {"list_skills", "wrapper", "upsert"} /\ (to = "list_skills" => Defines(c))
    BY DEF Storing
  <2>2. to = "wrapper" => q.store # "directives"
    BY DEF Storing, UserStore
  <2> HIDE DEF n, to
  <2> QED BY <1>2, <1>3, <2>1, <2>2, OwnTyped, UnderwayAt
<1>6. \/ \E outcome \in Refusing : Read(r, Answer(r, outcome))
      \/ fits /\ Read(r, n)
  BY DEF Existing, MustExist, Refusing
<1> HIDE DEF n
<1> QED BY <1>3, <1>4, <1>5, <1>6 DEF Reads, Follows

(* The verdict on an agent: refused, or on to the call that stores it. *)
LEMMA ProceedFollows ==
    ASSUME Typed, NEW r \in Request, Underway(req[r]), Defines(req[r].call),
           NEW state, Shape(state), state.call = req[r].call, state.store = req[r].store,
           state.outcome = req[r].outcome, NEW seen
    PROVE  Follows(r, Proceed(r, state, seen)) /\ Proceed(r, state, seen).pc # "upsert"
<1> DEFINE c == state.call
           all == WithProfiles(c, seen)
           goes(pc) == [state EXCEPT !.seen = all, !.pc = pc]
           store == IF c.op = "create_agent" THEN "insert" ELSE "wrapper"
           n == goes("target")
           refused == [n EXCEPT !.pc = "done", !.outcome = "invalid"]
           stores == [n EXCEPT !.pc = store]
<1>0. all = WithProfiles(c, seen)
  OBVIOUS
<1> HIDE DEF all
<1>1. /\ Shape(n) /\ n.pc = "target" /\ n.call = c
      /\ n.store = state.store /\ n.outcome = state.outcome
  BY DEF Shape, Fields
<1> HIDE DEF n
<1>2. /\ Shape(refused) /\ refused.pc = "done" /\ refused.outcome = "invalid"
      /\ refused.call = c
  BY <1>1 DEF Shape, Fields
<1>3. /\ Shape(stores) /\ stores.pc = store /\ stores.call = c
      /\ stores.store = state.store /\ stores.outcome = state.outcome
  BY <1>1 DEF Shape, Fields
<1>4. ~Seeds(c) /\ c.op \notin DirectiveOps
  BY DEF Defines, Seeds, DirectiveOps
<1>5. state.store # "directives"
  BY <1>4 DEF Underway
<1>6. Underway(n)
  BY <1>1, <1>4, UnderwayAt
<1>7. store = "insert" => c.op \in InsertOps
  BY DEF InsertOps
<1>8. store = "wrapper" => c.op \notin InsertOps /\ ~Removes(c)
  BY DEF InsertOps, Defines, Removes
<1>9. Underway(stores)
  <2>1. store \in {"insert", "wrapper"}
    OBVIOUS
  <2> HIDE DEF stores, store
  <2> QED BY <1>3, <1>4, <1>5, <1>7, <1>8, <2>1, UnderwayAt
<1>10. Proceed(r, state, seen) \in {n, refused, stores}
  <2>1. Validated(r, n, all) \in {refused, stores}
    BY <1>1 DEF Validated
  <2> QED BY <1>0, <2>1 DEF Proceed, n
<1>11. Follows(r, n) /\ Follows(r, refused) /\ Follows(r, stores)
  <2> HIDE DEF refused, stores
  <2> QED BY <1>1, <1>2, <1>3, <1>4, <1>6, <1>9 DEF Follows, Refusing
<1>12. n.pc # "upsert" /\ refused.pc # "upsert" /\ stores.pc # "upsert"
  BY <1>1, <1>2, <1>3
<1> QED BY <1>10, <1>11, <1>12

(* Reading what an agent refers to. *)
LEMMA ValidationReads ==
    ASSUME Typed, NEW r \in Request, Underway(req[r]),
           ListShared(r) \/ ListUserSkills(r) \/ GetTarget(r)
    PROVE  Reads(r)
<1> DEFINE known(k) == [req[r] EXCEPT !.known = k]
           listed(k) == [GoTo(r, "list_user_skills") EXCEPT !.known = k]
<1>1. Shape(req[r])
  BY DEF Typed
<1>2. Defines(req[r].call) /\ ~Seeds(req[r].call)
  BY DEF ListShared, ListUserSkills, GetTarget, At, Underway
<1>3. ASSUME NEW k
      PROVE  /\ Shape(known(k)) /\ known(k).call = req[r].call
             /\ known(k).store = req[r].store /\ known(k).outcome = req[r].outcome
  BY <1>1 DEF Shape, Fields
<1>4. ASSUME NEW k
      PROVE  /\ Shape(listed(k)) /\ listed(k).pc = "list_user_skills"
             /\ listed(k).call = req[r].call /\ listed(k).store = req[r].store
             /\ listed(k).outcome = req[r].outcome
  BY <1>1 DEF GoTo, Shape, Fields
<1>5. CASE ListShared(r)
  <2> DEFINE n == listed(Present("skills"))
  <2>1. Read(r, n)
    BY <1>5 DEF ListShared
  <2> HIDE DEF listed
  <2>2. Underway(n)
    BY <1>2, <1>4, UnderwayAt
  <2> QED BY <1>4, <2>1, <2>2 DEF Reads, Follows
<1>6. CASE ListUserSkills(r)
  <2> DEFINE k == req[r].known \cup Present("user_skills")
             n == Proceed(r, known(k), <<>>)
  <2>1. Read(r, n)
    BY <1>6 DEF ListUserSkills
  <2> HIDE DEF known, k
  <2>2. Follows(r, n) /\ n.pc # "upsert"
    BY <1>2, <1>3, ProceedFollows
  <2> QED BY <2>1, <2>2 DEF Reads
<1>7. CASE GetTarget(r)
  <2> DEFINE seen == Append(req[r].seen, docs["agents"][req[r].call.refs[Len(req[r].seen) + 1]])
             n == Proceed(r, req[r], seen)
  <2>1. Read(r, n)
    BY <1>7 DEF GetTarget
  <2>2. Follows(r, n) /\ n.pc # "upsert"
    BY <1>1, <1>2, ProceedFollows
  <2> QED BY <2>1, <2>2 DEF Reads
<1> QED BY <1>5, <1>6, <1>7

(* Reading the created_at that is kept. *)
LEMMA WrapperReads ==
    ASSUME Typed, NEW r \in Request, Underway(req[r]), Wrapper(r)
    PROVE  Reads(r)
<1> DEFINE n == [GoTo(r, "upsert") EXCEPT !.got = Own(r)]
<1>1. Shape(req[r])
  BY DEF Typed
<1>2. /\ ~Seeds(req[r].call) /\ req[r].call.op \notin InsertOps \cup DirectiveOps
      /\ ~Removes(req[r].call)
  BY DEF Wrapper, At, Underway
<1>3. /\ Shape(n) /\ n.pc = "upsert" /\ n.call = req[r].call
      /\ n.store = req[r].store /\ n.got = Own(r) /\ n.outcome = req[r].outcome
  BY <1>1 DEF GoTo, Shape, Fields
<1>4. Read(r, n)
  BY DEF Wrapper
<1> HIDE DEF n
<1>5. Underway(n)
  BY <1>2, <1>3, OwnTyped, UnderwayAt DEF DirectiveOps
<1> QED BY <1>2, <1>3, <1>4, <1>5 DEF Reads, Follows, DirectiveOps

(* Going on with the defaults, or at their end. *)
LEMMA SeedFollows ==
    ASSUME Typed, NEW r \in Request, Underway(req[r]), Seeds(req[r].call), NEW todo
    PROVE  /\ Follows(r, SeedState(r, todo))
           /\ SeedState(r, todo).pc \in {"seed", "done"}
           /\ SeedState(r, todo).store = req[r].store
           /\ SeedState(r, todo).outcome \in {"none", "stored"}
<1> DEFINE n == [GoTo(r, "seed") EXCEPT !.todo = todo]
<1>1. Shape(req[r])
  BY DEF Typed
<1>2. /\ Shape(n) /\ n.pc = "seed" /\ n.call = req[r].call
      /\ n.store = req[r].store /\ n.outcome = req[r].outcome
  BY <1>1 DEF GoTo, Shape, Fields
<1>3. SeedState(r, todo) \in {n, Answer(r, "stored")}
  BY DEF SeedState
<1> HIDE DEF n
<1>4. Underway(n) /\ n.outcome = "none"
  BY <1>2 DEF Underway
<1>5. CASE SeedState(r, todo) = n
  BY <1>2, <1>4, <1>5 DEF Follows
<1>6. CASE SeedState(r, todo) = Answer(r, "stored")
  BY <1>1, <1>6, AnswerFields DEF Follows
<1> QED BY <1>3, <1>5, <1>6

(* Reading the documents a start-up compares the defaults with. *)
LEMMA ListReads ==
    ASSUME Typed, NEW r \in Request, Underway(req[r]), List(r)
    PROVE  Reads(r)
<1>1. Seeds(req[r].call)
  BY DEF List, At, Underway
<1>2. PICK todo : Read(r, SeedState(r, todo))
  BY DEF List
<1> QED BY <1>1, <1>2, SeedFollows DEF Reads

----------------------------------------------------------------------------
(* The calls of the store that write *)

(* Request r puts doc into the store and goes to n. *)
Puts(r, s, i, doc, n) ==
    /\ docs' = [docs EXCEPT ![s][i] = doc]
    /\ req' = [req EXCEPT ![r] = n]
    /\ wrote' = [wrote EXCEPT ![r] = TRUE]
    /\ menu' = menu /\ met' = met

(* What is put: a document, or none by a request that removes, in its own place;
   and a request that is told of a creation found none, or posts a directive. *)
Fits(r, s, i, doc, n) ==
    /\ Shape(n) /\ n.call = req[r].call /\ n.store = req[r].store
    /\ doc \in {Missing} \cup Document
    /\ doc = Missing => Removes(n.call) /\ i = n.call.id
    /\ s = n.store
    /\ s = "agents" /\ doc # Missing =>
          /\ req[r].pc \in {"insert", "upsert"} /\ i = n.call.id
          /\ \E b : doc = Doc(r, b, n.call)
    /\ Over(n) \/ (Underway(n) /\ Seeds(n.call))
    /\ n.outcome \in {"none", "created", "stored", "unavailable"}
    /\ n.outcome = "created" =>
          /\ i = n.call.id /\ doc # Missing
          /\ Own(r) = Missing \/ (req[r].pc = "upsert" /\ n.call.op = "post_directive")

Writes(r) ==
    /\ alone' = [q \in Request |-> alone[q] /\ (q = r \/ ~Active(q))]
    /\ failures' \in 0..MaxFailures
    /\ \E s \in Store : \E i, doc, n : Puts(r, s, i, doc, n) /\ Fits(r, s, i, doc, n)

(* The documents that are written. *)
LEMMA DocTyped ==
    ASSUME NEW w \in Writer, NEW b \in Writer, NEW c, c.refs \in Seq(Id)
    PROVE  Doc(w, b, c) \in Document /\ Doc(w, b, c) # Missing
<1>1. Doc(w, b, c) \in Document
  BY DEF Doc, Document
<1> QED BY <1>1, LibraryAssumption

(* A default is a document. *)
LEMMA ShippedTyped == Doc(Default, Default, NoCall) \in Document
<1>1. NoCall.refs = <<>> /\ Default \in Writer
  BY DEF NoCall, Writer
<1>2. <<>> \in Seq(Id)
  OBVIOUS
<1> QED BY <1>1, <1>2, DocTyped

(* What is put over a document is a document. *)
LEMMA MergedTyped ==
    ASSUME NEW r \in Request, Underway(req[r]), At(r, "upsert")
    PROVE  Merged(r) \in Document /\ Merged(r) # Missing
<1> DEFINE c == req[r].call
           got == req[r].got
<1>1. /\ c.refs \in Seq(Id) /\ c.fields \subseteq Field
      /\ got \in {Missing} \cup Document
      /\ c.op = "patch_directive" => got \in Document
  BY DEF Underway, At, Call
<1>2. r \in Writer
  BY DEF Writer
<1>3. CASE c.op = "patch_directive"
  <2>1. Merged(r) = [got EXCEPT !.by = [f \in Field |-> IF f \in c.fields THEN r ELSE got.by[f]]]
    BY <1>1, <1>3 DEF Merged, Document
  <2>2. got.by \in [Field -> Writer]
    BY <1>1, <1>3 DEF Document
  <2>3. [f \in Field |-> IF f \in c.fields THEN r ELSE got.by[f]] \in [Field -> Writer]
    BY <1>2, <2>2
  <2>4. Merged(r) \in Document
    BY <1>1, <1>3, <2>1, <2>3 DEF Document
  <2> QED BY <2>4, LibraryAssumption
<1>4. CASE c.op # "patch_directive"
  <2> DEFINE b == IF got = Missing THEN r ELSE got.born
  <2>1. Merged(r) = Doc(r, b, c)
    BY <1>4 DEF Merged
  <2>2. b \in Writer
    BY <1>1, <1>2 DEF Document
  <2> QED BY <1>1, <1>2, <2>1, <2>2, DocTyped
<1> QED BY <1>3, <1>4

(* A request that is told that its call was carried out. *)
LEMMA DoneOver ==
    ASSUME Typed, NEW r \in Request, Underway(req[r]), ~Seeds(req[r].call)
    PROVE  /\ Done(r) \in {"created", "stored"}
           /\ Done(r) = "created" => req[r].call.op \in InsertOps \cup {"post_directive"}
           /\ Over(Answer(r, Done(r)))
<1>1. Shape(req[r])
  BY DEF Typed
<1>2. /\ Done(r) \in {"created", "stored"}
      /\ Done(r) = "created" => req[r].call.op \in InsertOps \cup {"post_directive"}
  BY DEF Done, InsertOps
<1>3. /\ req[r].store \in Store /\ req[r].call.id \in Id
      /\ req[r].store = "directives" <=> req[r].call.op \in DirectiveOps
  BY DEF Underway
<1>4. Over(Answer(r, Done(r)))
  BY <1>1, <1>2, <1>3, AnswerFields DEF Over, Outcome, InsertOps, DirectiveOps
<1> QED BY <1>2, <1>4

(* A call that writes, once its document fits. *)
LEMMA WriteFits ==
    ASSUME Typed, NEW r \in Request, Underway(req[r]),
           NEW s \in Store, NEW i, NEW doc, NEW n, Write(r, s, i, doc, n), Fits(r, s, i, doc, n)
    PROVE  Writes(r)
<1>1. /\ alone' = [q \in Request |-> alone[q] /\ (q = r \/ ~Active(q))]
      /\ failures' \in 0..MaxFailures
  BY DEF Write, Typed
<1>2. Puts(r, s, i, doc, n) /\ Fits(r, s, i, doc, n)
  BY DEF Write, Puts
<1>3. \E t \in Store : \E j, d, m : Puts(r, t, j, d, m) /\ Fits(r, t, j, d, m)
  BY <1>2
<1> QED BY <1>1, <1>3 DEF Writes

(* Storing and removing. *)
LEMMA StoringWrites ==
    ASSUME Typed, NEW r \in Request, Underway(req[r]), Insert(r) \/ Upsert(r) \/ Remove(r)
    PROVE  Reads(r) \/ Writes(r)
<1>1. Shape(req[r]) /\ req[r].store \in Store
  BY DEF Typed, Underway
<1>2. ~Seeds(req[r].call)
  BY DEF Insert, Upsert, Remove, At, Underway
<1>3. ASSUME NEW outcome \in Refusing, Read(r, Answer(r, outcome)) PROVE Reads(r)
  BY <1>1, <1>2, <1>3, RefusedFollows, AnswerFields DEF Reads
<1>4. ASSUME NEW doc \in Document, Write(r, req[r].store, req[r].call.id, doc, Answer(r, Done(r))),
             (Own(r) = Missing /\ At(r, "insert")) \/ At(r, "upsert"),
             req[r].store = "agents" => \E b : doc = Doc(r, b, req[r].call)
      PROVE  Writes(r)
  <2>1. doc # Missing
    BY LibraryAssumption
  <2>2. Done(r) = "created" /\ At(r, "upsert") => req[r].call.op = "post_directive"
    BY <1>2, DoneOver DEF Underway, At
  <2>3. Fits(r, req[r].store, req[r].call.id, doc, Answer(r, Done(r)))
    BY <1>1, <1>2, <1>4, <2>1, <2>2, DoneOver, AnswerFields DEF Fits, At
  <2> QED BY <1>1, <1>4, <2>3, WriteFits
<1>5. CASE Insert(r)
  <2>1. Doc(r, r, req[r].call) \in Document
    <3>1. r \in Writer /\ req[r].call.refs \in Seq(Id)
      BY DEF Writer, Underway, Call
    <3> QED BY <3>1, DocTyped
  <2>2. CASE Own(r) = Missing
    <3>1. \E b : Doc(r, r, req[r].call) = Doc(r, b, req[r].call)
      OBVIOUS
    <3> QED BY <1>4, <1>5, <2>1, <2>2, <3>1 DEF Insert
  <2> QED BY <1>3, <1>5, <2>2 DEF Insert, Refusing
<1>6. CASE Upsert(r)
  <2>1. req[r].store = "agents" => \E b : Merged(r) = Doc(r, b, req[r].call)
    BY DEF Underway, AgentOps, Merged
  <2> QED BY <1>4, <1>6, <2>1, MergedTyped DEF Upsert
<1>7. CASE Remove(r)
  <2>1. CASE Own(r) = Missing
    BY <1>3, <1>7, <2>1 DEF Remove, Refusing
  <2>2. CASE Own(r) # Missing
    <3>1. Write(r, req[r].store, req[r].call.id, Missing, Answer(r, "stored"))
      BY <1>7, <2>2 DEF Remove
    <3>2. Removes(req[r].call)
      BY <1>7 DEF Remove, At, Underway
    <3>3. Over(Answer(r, "stored"))
      BY <1>1, AnswerFields DEF Over, Outcome
    <3>4. Fits(r, req[r].store, req[r].call.id, Missing, Answer(r, "stored"))
      BY <1>1, <3>2, <3>3, AnswerFields DEF Fits
    <3> QED BY <1>1, <3>1, <3>4, WriteFits
  <2> QED BY <2>1, <2>2
<1> QED BY <1>5, <1>6, <1>7

(* Storing a default. *)
LEMMA SeedWrites ==
    ASSUME Typed, NEW r \in Request, Underway(req[r]), Seed(r)
    PROVE  Writes(r)
<1> DEFINE n == SeedState(r, req[r].todo \ {Min(req[r].todo)})
           doc == Doc(Default, Default, NoCall)
<1>1. Seeds(req[r].call) /\ req[r].store \in Store
  BY DEF Seed, At, Underway
<1>2. doc \in Document /\ doc # Missing
  BY ShippedTyped, LibraryAssumption
<1>3. /\ Follows(r, n) /\ n.pc \in {"seed", "done"} /\ n.store = req[r].store
      /\ n.outcome \in {"none", "stored"}
  BY <1>1, SeedFollows
<1>4. Write(r, req[r].store, NextDefault(r), doc, n)
  BY DEF Seed
<1> HIDE DEF n, doc
<1>5. Over(n) \/ Underway(n)
  BY <1>3 DEF Follows, Over, Underway, Outcome, Refusing
<1>6. Fits(r, req[r].store, NextDefault(r), doc, n)
  <2>1. req[r].store # "agents"
    BY <1>1 DEF Underway, ByIdStore
  <2> QED BY <1>1, <1>2, <1>3, <1>5, <2>1 DEF Fits, Follows
<1> QED BY <1>1, <1>4, <1>6, WriteFits

(* A call carried out whose answer is lost. *)
LEMMA LostWrites ==
    ASSUME Typed, NEW r \in Request, AnswerLost(r)
    PROVE  Writes(r)
<1> DEFINE n == Answer(r, "unavailable")
           s == req[r].store
           i == IF At(r, "seed") THEN NextDefault(r) ELSE req[r].call.id
           doc == CASE At(r, "remove") -> Missing
                    [] At(r, "seed")   -> Doc(Default, Default, NoCall)
                    [] At(r, "upsert") -> Merged(r)
                    [] OTHER           -> Doc(r, r, req[r].call)
<1>1. Underway(req[r])
  BY ActiveUnderway DEF AnswerLost, Active, At
<1>2. Shape(req[r]) /\ s \in Store
  BY <1>1 DEF Typed, Underway
<1>3. Over(n)
  BY <1>2, AnswerFields DEF Over, Outcome
<1>4. Doc(r, r, req[r].call) \in Document
  <2>1. r \in Writer /\ req[r].call.refs \in Seq(Id)
    BY <1>1 DEF Writer, Underway, Call
  <2> QED BY <2>1, DocTyped
<1>5. doc \in Document \/ (At(r, "remove") /\ doc = Missing)
  BY <1>1, <1>4, ShippedTyped, MergedTyped DEF At
<1>6. doc = Missing => Removes(req[r].call) /\ i = req[r].call.id
  BY <1>1, <1>5, LibraryAssumption DEF At, Underway
<1>7. Puts(r, s, i, doc, n)
  BY DEF AnswerLost, Puts
<1>8. /\ alone' = [q \in Request |-> alone[q] /\ (q = r \/ ~Active(q))]
      /\ failures' \in 0..MaxFailures
  BY LibraryAssumption DEF AnswerLost, Typed
<1> HIDE DEF doc, i
<1>9. s = "agents" /\ doc # Missing =>
         /\ req[r].pc \in {"insert", "upsert"} /\ i = req[r].call.id
         /\ \E b : doc = Doc(r, b, req[r].call)
  <2> SUFFICES ASSUME s = "agents", doc # Missing
               PROVE  /\ req[r].pc \in {"insert", "upsert"} /\ i = req[r].call.id
                      /\ \E b : doc = Doc(r, b, req[r].call)
    OBVIOUS
  <2>1. req[r].call.op # "patch_directive" /\ ~Seeds(req[r].call)
    BY <1>1 DEF Underway, AgentOps, ByIdStore
  <2>2. req[r].pc \in {"insert", "upsert"}
    BY <1>1, <2>1 DEF AnswerLost, At, Underway, doc
  <2>3. CASE req[r].pc = "insert"
    BY <2>3 DEF doc, i, At
  <2>4. CASE req[r].pc = "upsert"
    BY <2>1, <2>4 DEF doc, i, At, Merged
  <2> QED BY <2>2, <2>3, <2>4
<1>10. Fits(r, s, i, doc, n)
  BY <1>2, <1>3, <1>5, <1>6, <1>9, AnswerFields DEF Fits
<1> QED BY <1>2, <1>7, <1>8, <1>10 DEF Writes

----------------------------------------------------------------------------
(* The steps *)

Submits(r) == \E c \in menu : Submit(r, c)

(* A step of the library is one of these. *)
LEMMA StepKinds ==
    ASSUME Typed, NEW r \in Request,
           Submits(r) \/ Step(r) \/ FailBefore(r) \/ AnswerLost(r)
    PROVE  \/ Submits(r) \/ FailBefore(r)
           \/ Active(r) /\ (Reads(r) \/ Writes(r))
<1>1. CASE Step(r)
  <2>1. Active(r)
    BY <1>1 DEF Step, ScopeShared, ScopeUser, CheckShared, Existing, ListShared, ListUserSkills,
                GetTarget, Insert, Wrapper, Upsert, Remove, List, Seed, Active, At
  <2>2. Underway(req[r])
    BY <2>1, ActiveUnderway
  <2> QED BY <1>1, <2>1, <2>2, ScopeReads, CheckReads, ExistingReads, ValidationReads,
             WrapperReads, ListReads, StoringWrites, SeedWrites DEF Step
<1>2. CASE AnswerLost(r)
  <2>1. Active(r)
    BY <1>2 DEF AnswerLost, Active, At
  <2> QED BY <1>2, <2>1, LostWrites
<1> QED BY <1>1, <1>2

(* The first state of a request: refused at once, or under way to a read, an
   insertion or a removal. *)
LEMMA Submitted ==
    ASSUME Typed, NEW r \in Request, Submits(r)
    PROVE  /\ At(r, "unborn")
           /\ UNCHANGED <<docs, menu, alone, wrote, failures>>
           /\ met' = met \cup {{r, q} : q \in {p \in Request : Active(p)}}
           /\ \E n : /\ req' = [req EXCEPT ![r] = n] /\ Shape(n)
                     /\ Underway(n) \/ (n.pc = "done" /\ n.outcome = "invalid")
                     /\ n.pc # "upsert"
<1>1. PICK c \in menu : Submit(r, c)
  BY DEF Submits
<1> DEFINE pc == IF InvalidAtOnce(c) THEN "done" ELSE FirstCall(c)
           outcome == IF InvalidAtOnce(c) THEN "invalid" ELSE "none"
           n == [Unborn EXCEPT !.call = c, !.store = StoreOf(c), !.pc = pc, !.outcome = outcome]
<1>2. /\ Shape(n) /\ n.call = c /\ n.store = StoreOf(c) /\ n.pc = pc /\ n.outcome = outcome
  BY DEF Unborn, Shape, Fields
<1>3. /\ At(r, "unborn") /\ req' = [req EXCEPT ![r] = n]
      /\ UNCHANGED <<docs, menu, alone, wrote, failures>>
      /\ met' = met \cup {{r, q} : q \in {p \in Request : Active(p)}}
  BY <1>1 DEF Submit
<1>4. /\ c \in Call /\ (c.id \in Id \/ Seeds(c))
      /\ StoreOf(c) = "agents" => c.id \notin Profile
      /\ c.scope = "none" \/ c.op \in {"update_skill", "delete_skill"}
  BY LibraryAssumption DEF Typed
<1>5. /\ StoreOf(c) \in Store /\ (StoreOf(c) = "directives" <=> c.op \in DirectiveOps)
      /\ Seeds(c) => StoreOf(c) \in ByIdStore
      /\ StoreOf(c) = "agents" => c.op \in AgentOps
  BY <1>4 DEF StoreOf, Store, UserStore, ByIdStore, DirectiveOps, Seeds, AgentOps
<1>6. /\ FirstCall(c) \in {"list", "insert", "check_shared", "scope_shared", "remove",
                           "list_skills", "wrapper", "existing"}
      /\ FirstCall(c) = "list" <=> Seeds(c)
      /\ FirstCall(c) = "insert" => c.op \in InsertOps
      /\ FirstCall(c) = "check_shared" => c.op = "create_user_skill"
      /\ FirstCall(c) = "scope_shared" => c.op \in {"update_skill", "delete_skill"}
      /\ FirstCall(c) = "remove" => Removes(c)
      /\ FirstCall(c) = "list_skills" => Defines(c)
      /\ FirstCall(c) = "wrapper" => c.op = "save_profile"
      /\ FirstCall(c) = "existing" => c.op \notin InsertOps /\ ~Removes(c)
  BY <1>4 DEF FirstCall, Seeds, Removes, Defines, InsertOps
<1> HIDE DEF n
<1>7. ~InvalidAtOnce(c) => Underway(n)
  <2>1. FirstCall(c) = "wrapper" =>
            StoreOf(c) # "directives" /\ c.op \notin InsertOps /\ ~Removes(c)
    BY <1>5, <1>6 DEF DirectiveOps, InsertOps, Removes
  <2>0. StoreOf(c) = "agents" => c.op \in AgentOps /\ c.id \in Id \ Profile
    BY <1>4, <1>5 DEF AgentOps, Seeds
  <2> SUFFICES ASSUME ~InvalidAtOnce(c) PROVE Underway(n)
    OBVIOUS
  <2>2. n.pc = FirstCall(c) /\ n.outcome = "none"
    BY <1>2
  <2> QED BY <1>2, <1>4, <1>5, <1>6, <2>0, <2>1, <2>2 DEF Underway
<1>8. n.pc # "upsert" /\ (InvalidAtOnce(c) => n.pc = "done" /\ n.outcome = "invalid")
  BY <1>2, <1>6
<1> QED BY <1>2, <1>3, <1>7, <1>8

(* Only the request that takes the step changes, and it changes to n. *)
LEMMA Becomes ==
    ASSUME Typed, NEW r \in Request, NEW n, req' = [req EXCEPT ![r] = n]
    PROVE  /\ req'[r] = n /\ \A p \in Request \ {r} : req'[p] = req[p]
           /\ req' = [p \in Request |-> req'[p]]
BY DEF Typed

(* To begin with, everything is typed. *)
LEMMA InitTyped == Init => Typed
<1> SUFFICES ASSUME Init PROVE Typed
  OBVIOUS
<1>1. Shape(Unborn)
  BY DEF Shape, Fields, Unborn
<1> QED BY <1>1, LibraryAssumption DEF Init, Typed

(* Every step keeps it typed. *)
LEMMA TypedStep == Typed /\ [Next]_vars => Typed'
<1> SUFFICES ASSUME Typed, [Next]_vars PROVE Typed'
  OBVIOUS
<1>1. ASSUME NEW r \in Request, Submits(r) PROVE Typed'
  <2>1. PICK n : /\ req' = [req EXCEPT ![r] = n] /\ Shape(n)
                 /\ Underway(n) \/ (n.pc = "done" /\ n.outcome = "invalid")
    BY <1>1, Submitted
  <2>2. Underway(n) \/ Over(n)
    BY <2>1 DEF Over, Outcome
  <2>3. UNCHANGED <<docs, menu, alone, wrote, failures>>
    BY <1>1, Submitted
  <2> QED BY <2>1, <2>2, <2>3, Becomes DEF Typed
<1>2. ASSUME NEW r \in Request, FailBefore(r) PROVE Typed'
  <2>1. Shape(req[r])
    BY DEF Typed
  <2>2. Over(Answer(r, "unavailable"))
    BY <2>1, AnswerFields DEF Over, Outcome
  <2>3. /\ req' = [req EXCEPT ![r] = Answer(r, "unavailable")]
        /\ UNCHANGED <<docs, menu, alone, wrote>>
        /\ failures' \in 0..MaxFailures
    BY <1>2, LibraryAssumption DEF FailBefore, Typed
  <2> QED BY <2>1, <2>2, <2>3, Becomes, AnswerFields DEF Typed
<1>3. ASSUME NEW r \in Request, Reads(r) PROVE Typed'
  <2>1. PICK n : Read(r, n) /\ Follows(r, n)
    BY <1>3 DEF Reads
  <2>2. Shape(n) /\ (Underway(n) \/ Over(n))
    BY <2>1 DEF Follows, Over, Outcome, Refusing
  <2> QED BY <2>1, <2>2, Becomes DEF Read, Typed
<1>4. ASSUME NEW r \in Request, Writes(r) PROVE Typed'
  <2>1. PICK s \in Store : \E i, doc, n : Puts(r, s, i, doc, n) /\ Fits(r, s, i, doc, n)
    BY <1>4 DEF Writes
  <2>2. PICK i, doc, n : Puts(r, s, i, doc, n) /\ Fits(r, s, i, doc, n)
    BY <2>1
  <2>3. docs' \in [Store -> [Id -> {Missing} \cup Document]]
    <3>1. docs[s] \in [Id -> {Missing} \cup Document] /\ doc \in {Missing} \cup Document
      BY <2>2 DEF Typed, Fits
    <3>2. docs' = [docs EXCEPT ![s] = [docs[s] EXCEPT ![i] = doc]]
      BY <2>2 DEF Puts, Typed
    <3> QED BY <3>1, <3>2 DEF Typed
  <2>4. /\ wrote' \in [Request -> BOOLEAN] /\ alone' \in [Request -> BOOLEAN]
        /\ failures' \in 0..MaxFailures /\ menu' \in Menu
    BY <1>4, <2>2 DEF Writes, Puts, Typed, Active
  <2>5. Shape(n) /\ (Underway(n) \/ Over(n)) /\ req' = [req EXCEPT ![r] = n]
    BY <2>2 DEF Fits, Puts
  <2> QED BY <2>3, <2>4, <2>5, Becomes DEF Typed
<1>5. CASE UNCHANGED vars
  BY <1>5 DEF vars, Typed
<1> QED BY <1>1, <1>2, <1>3, <1>4, <1>5, StepKinds DEF Next, Submits

(* Type invariant: every container holds documents, every request an outcome. *)
THEOREM TypeCorrect == Spec => []TypeOK
<1>1. Typed => TypeOK
  <2> SUFFICES ASSUME Typed PROVE TypeOK
    OBVIOUS
  <2>1. ASSUME NEW r \in Request
        PROVE  /\ req[r].outcome \in Outcome
               /\ req[r].outcome # "none" <=> At(r, "done")
               /\ Active(r) => req[r].store \in Store
    BY DEF Typed, Underway, Over, Unborn, Outcome, At, Active
  <2> QED BY <2>1 DEF Typed, TypeOK
<1> QED BY <1>1, InitTyped, TypedStep, PTL DEF Spec

----------------------------------------------------------------------------
(* What a request is told is true. *)

(* As long as a request that does not seed is under way, it has written nothing. *)
Unwritten == \A r \in Request :
    At(r, "unborn") \/ (Active(r) /\ ~Seeds(req[r].call)) => ~wrote[r]

Truthful == Unwritten /\ AnswerTruth

(* To begin with, nobody was told anything. *)
LEMMA InitTruthful == Init => Truthful
BY DEF Init, Truthful, Unwritten, AnswerTruth, Unborn, At, Active

(* It is enough to look at the request that takes the step. *)
LEMMA TruthfulAt ==
    ASSUME Typed, Truthful, NEW r \in Request, NEW n, req' = [req EXCEPT ![r] = n],
           \A p \in Request \ {r} : wrote'[p] = wrote[p],
           n.pc \notin {"unborn", "done"} /\ ~Seeds(n.call) => ~wrote'[r],
           n.pc # "unborn",
           n.outcome \in {"created", "stored"} /\ ~Seeds(n.call) => wrote'[r],
           n.outcome \in Refusing => ~wrote'[r]
    PROVE  Truthful'
<1>1. req'[r] = n /\ \A p \in Request \ {r} : req'[p] = req[p]
  BY Becomes
<1>2. ASSUME NEW p \in Request
      PROVE  (At(p, "unborn") \/ (Active(p) /\ ~Seeds(req[p].call)) => ~wrote[p])'
  BY <1>1 DEF Truthful, Unwritten, At, Active
<1>3. ASSUME NEW p \in Request
      PROVE  (/\ req[p].outcome \in {"created", "stored"} /\ ~Seeds(req[p].call) => wrote[p]
              /\ req[p].outcome \in {"nothing", "invalid", "conflict", "not_found"} => ~wrote[p])'
  BY <1>1 DEF Truthful, AnswerTruth, Refusing
<1> QED BY <1>2, <1>3 DEF Truthful, Unwritten, AnswerTruth

(* Every step keeps the answers true. *)
LEMMA TruthfulStep == Typed /\ Truthful /\ [Next]_vars => Truthful'
<1> SUFFICES ASSUME Typed, Truthful, [Next]_vars PROVE Truthful'
  OBVIOUS
<1>1. ASSUME NEW r \in Request, Submits(r) PROVE Truthful'
  <2>1. PICK n : /\ req' = [req EXCEPT ![r] = n]
                 /\ Underway(n) \/ (n.pc = "done" /\ n.outcome = "invalid")
    BY <1>1, Submitted
  <2>2. wrote' = wrote /\ ~wrote[r]
    BY <1>1, Submitted DEF Truthful, Unwritten
  <2> QED BY <2>1, <2>2, TruthfulAt DEF Underway, Refusing
<1>2. ASSUME NEW r \in Request, FailBefore(r) PROVE Truthful'
  <2>1. Shape(req[r])
    BY DEF Typed
  <2>2. req' = [req EXCEPT ![r] = Answer(r, "unavailable")] /\ wrote' = wrote
    BY <1>2 DEF FailBefore
  <2> QED BY <2>1, <2>2, TruthfulAt, AnswerFields DEF Refusing
<1>3. ASSUME NEW r \in Request, Active(r), Reads(r) PROVE Truthful'
  <2>1. PICK n : Read(r, n) /\ Follows(r, n)
    BY <1>3 DEF Reads
  <2>2. req' = [req EXCEPT ![r] = n] /\ wrote' = wrote /\ n.call = req[r].call
    BY <2>1 DEF Read, Follows
  <2>3. ~Seeds(n.call) => ~wrote[r]
    BY <1>3, <2>2 DEF Truthful, Unwritten
  <2>4. CASE Underway(n)
    BY <2>2, <2>3, <2>4, TruthfulAt DEF Underway, Refusing
  <2>5. CASE n.pc = "done" /\ n.outcome \in Refusing /\ ~Seeds(n.call)
    BY <2>2, <2>3, <2>5, TruthfulAt DEF Refusing
  <2>6. CASE n.pc = "done" /\ n.outcome = "stored" /\ Seeds(n.call)
    BY <2>2, <2>6, TruthfulAt DEF Refusing
  <2> QED BY <2>1, <2>4, <2>5, <2>6 DEF Follows
<1>4. ASSUME NEW r \in Request, Writes(r) PROVE Truthful'
  <2>1. PICK s \in Store : \E i, doc, n : Puts(r, s, i, doc, n) /\ Fits(r, s, i, doc, n)
    BY <1>4 DEF Writes
  <2>2. PICK i, doc, n : Puts(r, s, i, doc, n) /\ Fits(r, s, i, doc, n)
    BY <2>1
  <2>3. /\ req' = [req EXCEPT ![r] = n] /\ wrote'[r] = TRUE
        /\ \A p \in Request \ {r} : wrote'[p] = wrote[p]
    BY <2>2 DEF Puts, Typed
  <2>4. /\ n.pc # "unborn" /\ n.outcome \notin Refusing
        /\ n.pc # "done" => Seeds(n.call)
    BY <2>2 DEF Fits, Over, Underway, Refusing
  <2> QED BY <2>3, <2>4, TruthfulAt
<1>5. CASE UNCHANGED vars
  BY <1>5 DEF vars, Truthful, Unwritten, AnswerTruth, At, Active
<1> QED BY <1>1, <1>2, <1>3, <1>4, <1>5, StepKinds DEF Next, Submits

(* Whatever races and whatever fails, a request that is told of success has
   changed the store, and one that is refused has not. *)
THEOREM AnswerSafety == Spec => []AnswerTruth
<1>1. Truthful => AnswerTruth
  BY DEF Truthful
<1> QED BY <1>1, InitTyped, InitTruthful, TypedStep, TruthfulStep, PTL DEF Spec

----------------------------------------------------------------------------
(* Nothing is created twice, unless a directive by two requests that race. *)

Created(r)    == req[r].outcome = "created"
Posting(r)    == At(r, "upsert") /\ req[r].call.op = "post_directive"
Same(r, q)    == req[r].store = req[q].store /\ req[r].call.id = req[q].call.id
Removed(s, i) ==
    \E p \in Request : /\ Removes(req[p].call) /\ wrote[p]
                        /\ req[p].store = s /\ req[p].call.id = i

(* What was created is there until it is removed; *)
Kept == \A r \in Request : Created(r) => Own(r) # Missing \/ Removed(req[r].store, req[r].call.id)
(* two requests under way have met; *)
Together == \A r, q \in Request : r # q /\ Active(r) /\ Active(q) => {r, q} \in met
(* a request that is about to store a directive that another has created did not
   see it, because they met or because it was removed. *)
Unseen == \A r, q \in Request :
    r # q /\ Created(r) /\ Posting(q) /\ Same(r, q) =>
        {r, q} \in met \/ Removed(req[r].store, req[r].call.id)
Once == \A r, q \in Request :
    r # q /\ Created(r) /\ Created(q) /\ Same(r, q) =>
        \/ req[r].store = "directives" /\ {r, q} \in met
        \/ Removed(req[r].store, req[r].call.id)

Apart == Kept /\ Together /\ Unseen /\ Once

(* To begin with, nothing is under way. *)
LEMMA InitApart == Init => Apart
BY DEF Init, Apart, Kept, Together, Unseen, Once, Created, Active, Unborn

(* A removal that was carried out is over: it is remembered. *)
LEMMA RemovedStays ==
    ASSUME Typed, Truthful, NEW r \in Request, At(r, "unborn") \/ Active(r),
           NEW n, req' = [req EXCEPT ![r] = n],
           \A p \in Request \ {r} : wrote'[p] = wrote[p],
           NEW s, NEW i, Removed(s, i)
    PROVE  Removed(s, i)'
<1>1. PICK p \in Request : /\ Removes(req[p].call) /\ wrote[p]
                           /\ req[p].store = s /\ req[p].call.id = i
  BY DEF Removed
<1>2. ~Seeds(req[p].call)
  BY <1>1 DEF Removes, Seeds
<1>3. p # r
  BY <1>1, <1>2 DEF Truthful, Unwritten
<1>4. req'[p] = req[p] /\ wrote'[p] = wrote[p]
  BY <1>3, Becomes
<1> QED BY <1>1, <1>4 DEF Removed

(* A step that leaves the documents alone and creates nothing. *)
LEMMA ApartQuiet ==
    ASSUME Typed, Truthful, Apart, NEW r \in Request, At(r, "unborn") \/ Active(r),
           NEW n, req' = [req EXCEPT ![r] = n], docs' = docs, wrote' = wrote,
           n.outcome # "created",
           \A A \in met : A \in met',
           n.pc \notin {"unborn", "done"} =>
              \A q \in Request \ {r} : Active(q) => {r, q} \in met',
           n.pc = "upsert" /\ n.call.op = "post_directive" =>
              /\ n.store = req[r].store /\ n.call.id = req[r].call.id
              /\ Own(r) = Missing
    PROVE  Apart'
<1>1. req'[r] = n /\ \A p \in Request \ {r} : req'[p] = req[p]
  BY Becomes
<1>2. \A s, i : Removed(s, i) => Removed(s, i)'
  BY RemovedStays
<1>3. ASSUME NEW p \in Request, Created(p)'
      PROVE  p # r /\ Created(p) /\ req'[p] = req[p]
  BY <1>1, <1>3 DEF Created
<1>4. Kept'
  <2>1. ASSUME NEW p \in Request, Created(p)'
        PROVE  (Own(p) # Missing \/ Removed(req[p].store, req[p].call.id))'
    BY <1>2, <1>3, <2>1 DEF Apart, Kept, Own
  <2> QED BY <2>1 DEF Kept
<1>5. Together'
  <2>1. ASSUME NEW p \in Request, NEW q \in Request, p # q, Active(p)', Active(q)'
        PROVE  {p, q} \in met'
    <3>1. CASE p # r /\ q # r
      BY <1>1, <2>1, <3>1 DEF Apart, Together, Active
    <3>2. CASE p = r
      BY <1>1, <2>1, <3>2 DEF Active
    <3>3. CASE q = r
      <4>1. {q, p} \in met' /\ {q, p} = {p, q}
        BY <1>1, <2>1, <3>3 DEF Active
      <4> QED BY <4>1
    <3> QED BY <3>1, <3>2, <3>3
  <2> QED BY <2>1 DEF Together
<1>6. Unseen'
  <2>1. ASSUME NEW p \in Request, NEW q \in Request, p # q,
               Created(p)', Posting(q)', Same(p, q)'
        PROVE  ({p, q} \in met \/ Removed(req[p].store, req[p].call.id))'
    <3>1. p # r /\ Created(p) /\ req'[p] = req[p]
      BY <1>3, <2>1
    <3>2. CASE q = r
      <4>1. Own(p) = Missing
        BY <1>1, <2>1, <3>1, <3>2 DEF Posting, Same, Own, At
      <4> QED BY <1>2, <3>1, <4>1 DEF Apart, Kept
    <3>3. CASE q # r
      <4>1. Posting(q) /\ Same(p, q)
        BY <1>1, <2>1, <3>1, <3>3 DEF Posting, Same, At
      <4> QED BY <1>2, <2>1, <3>1, <4>1 DEF Apart, Unseen
    <3> QED BY <3>2, <3>3
  <2> QED BY <2>1 DEF Unseen
<1>7. Once'
  <2>1. ASSUME NEW p \in Request, NEW q \in Request, p # q,
               Created(p)', Created(q)', Same(p, q)'
        PROVE  (\/ req[p].store = "directives" /\ {p, q} \in met
                \/ Removed(req[p].store, req[p].call.id))'
    <3>1. Created(p) /\ req'[p] = req[p] /\ Created(q) /\ req'[q] = req[q] /\ Same(p, q)
      BY <1>3, <2>1 DEF Same
    <3> QED BY <1>2, <2>1, <3>1 DEF Apart, Once
  <2> QED BY <2>1 DEF Once
<1> QED BY <1>4, <1>5, <1>6, <1>7 DEF Apart

(* A step that writes. *)
LEMMA ApartWrites ==
    ASSUME Typed, Truthful, Apart, NEW r \in Request, Active(r), Writes(r)
    PROVE  Apart'
<1>1. PICK s \in Store : \E i, doc, n : Puts(r, s, i, doc, n) /\ Fits(r, s, i, doc, n)
  BY DEF Writes
<1>2. PICK i, doc, n : Puts(r, s, i, doc, n) /\ Fits(r, s, i, doc, n)
  BY <1>1
<1>3. /\ req' = [req EXCEPT ![r] = n] /\ met' = met /\ wrote'[r] = TRUE
      /\ docs' = [docs EXCEPT ![s][i] = doc]
      /\ \A p \in Request \ {r} : wrote'[p] = wrote[p]
  BY <1>2 DEF Puts, Typed
<1>4. req'[r] = n /\ \A p \in Request \ {r} : req'[p] = req[p]
  BY <1>3, Becomes
<1>5. \A t, j : Removed(t, j) => Removed(t, j)'
  BY <1>3, RemovedStays
<1>6. doc = Missing => Removed(s, i)'
  BY <1>2, <1>3, <1>4 DEF Fits, Removed
<1>7. /\ n.call = req[r].call /\ n.store = req[r].store
      /\ ~(n.pc = "upsert" /\ n.call.op = "post_directive")
  BY <1>2 DEF Fits, Over, Underway
<1>8. ASSUME NEW p \in Request, p # r, Created(p)' PROVE Created(p) /\ req'[p] = req[p]
  BY <1>4, <1>8 DEF Created
<1>9. ASSUME Created(r)'
      PROVE  /\ s = req[r].store /\ i = req[r].call.id /\ doc # Missing
             /\ s \in Store /\ i \in Id
             /\ Own(r) = Missing \/ (Posting(r) /\ req[r].store = "directives")
  <2>1. n.outcome = "created"
    BY <1>4, <1>9 DEF Created
  <2>2. Underway(req[r])
    BY ActiveUnderway
  <2> QED BY <1>2, <2>1, <2>2 DEF Fits, Over, Underway, Posting, At, DirectiveOps
<1>10. Kept'
  <2>1. ASSUME NEW p \in Request, Created(p)'
        PROVE  (Own(p) # Missing \/ Removed(req[p].store, req[p].call.id))'
    <3>1. CASE p = r
      <4>1. docs'[s][i] = doc
        BY <1>3, <1>9, <2>1, <3>1 DEF Typed
      <4> QED BY <1>4, <1>7, <1>9, <2>1, <3>1, <4>1 DEF Own
    <3>2. CASE p # r
      <4>1. Created(p) /\ req'[p] = req[p]
        BY <1>8, <2>1, <3>2
      <4>2. /\ req[p].store \in Store /\ req[p].call.id \in Id
        <5>1. Over(req[p])
          BY <4>1 DEF Typed, Created, Underway, Unborn
        <5> QED BY <4>1, <5>1 DEF Over, Created
      <4>3. CASE req[p].store = s /\ req[p].call.id = i
        <5>1. docs'[s][i] = doc
          BY <1>3, <4>2, <4>3 DEF Typed
        <5> QED BY <1>6, <4>1, <4>3, <5>1 DEF Own
      <4>4. CASE ~(req[p].store = s /\ req[p].call.id = i)
        <5>1. docs'[req[p].store][req[p].call.id] = docs[req[p].store][req[p].call.id]
          BY <1>3, <4>2, <4>4 DEF Typed
        <5> QED BY <1>5, <4>1, <5>1 DEF Own, Apart, Kept
      <4> QED BY <4>3, <4>4
    <3> QED BY <3>1, <3>2
  <2> QED BY <2>1 DEF Kept
<1>11. Together'
  BY <1>3, <1>4 DEF Apart, Together, Active
<1>12. Unseen'
  <2>1. ASSUME NEW p \in Request, NEW q \in Request, p # q,
               Created(p)', Posting(q)', Same(p, q)'
        PROVE  ({p, q} \in met \/ Removed(req[p].store, req[p].call.id))'
    <3>1. q # r /\ req'[q] = req[q] /\ Posting(q) /\ Active(q)
      BY <1>4, <1>7, <2>1 DEF Posting, At, Active
    <3>2. CASE p = r
      BY <1>3, <2>1, <3>1, <3>2 DEF Apart, Together
    <3>3. CASE p # r
      <4>1. Created(p) /\ req'[p] = req[p] /\ Same(p, q)
        BY <1>8, <2>1, <3>1, <3>3 DEF Same
      <4> QED BY <1>3, <1>5, <2>1, <3>1, <4>1 DEF Apart, Unseen
    <3> QED BY <3>2, <3>3
  <2> QED BY <2>1 DEF Unseen
<1>13. Once'
  <2>1. ASSUME NEW p \in Request, p # r, Created(p)', Created(r)', Same(p, r)'
        PROVE  /\ req'[p].store = req'[r].store /\ req'[p].call.id = req'[r].call.id
               /\ \/ req'[r].store = "directives" /\ {p, r} \in met'
                  \/ Removed(req[r].store, req[r].call.id)'
    <3>1. Created(p) /\ req'[p] = req[p] /\ Same(p, r)
      BY <1>4, <1>7, <1>8, <2>1 DEF Same
    <3>2. CASE Own(r) = Missing
      <4>1. Own(p) = Missing
        BY <3>1, <3>2 DEF Same, Own
      <4>2. Removed(req[r].store, req[r].call.id)
        BY <3>1, <4>1 DEF Apart, Kept, Same
      <4> QED BY <1>4, <1>5, <1>7, <2>1, <4>2 DEF Same
    <3>3. CASE Posting(r) /\ req[r].store = "directives"
      <4>1. {p, r} \in met \/ Removed(req[r].store, req[r].call.id)
        BY <2>1, <3>1, <3>3 DEF Apart, Unseen, Same
      <4> QED BY <1>3, <1>4, <1>5, <1>7, <2>1, <3>3, <4>1 DEF Same
    <3> QED BY <1>9, <2>1, <3>2, <3>3
  <2>2. ASSUME NEW p \in Request, NEW q \in Request, p # q,
               Created(p)', Created(q)', Same(p, q)'
        PROVE  (\/ req[p].store = "directives" /\ {p, q} \in met
                \/ Removed(req[p].store, req[p].call.id))'
    <3>1. CASE p # r /\ q # r
      <4>1. Created(p) /\ req'[p] = req[p] /\ Created(q) /\ req'[q] = req[q] /\ Same(p, q)
        BY <1>8, <2>2, <3>1 DEF Same
      <4> QED BY <1>3, <1>5, <2>2, <4>1 DEF Apart, Once
    <3>2. CASE q = r
      BY <2>1, <2>2, <3>2
    <3>3. CASE p = r
      <4>1. Same(q, r)' /\ {q, r} = {p, q}
        BY <2>2, <3>3 DEF Same
      <4> QED BY <2>1, <2>2, <3>3, <4>1
    <3> QED BY <3>1, <3>2, <3>3
  <2> QED BY <2>2 DEF Once
<1> QED BY <1>10, <1>11, <1>12, <1>13 DEF Apart

(* Every step keeps apart the requests that wrote. *)
LEMMA ApartStep == Typed /\ Truthful /\ Apart /\ [Next]_vars => Apart'
<1> SUFFICES ASSUME Typed, Truthful, Apart, [Next]_vars PROVE Apart'
  OBVIOUS
<1>1. ASSUME NEW r \in Request, Submits(r) PROVE Apart'
  <2>1. PICK n : /\ req' = [req EXCEPT ![r] = n]
                 /\ Underway(n) \/ (n.pc = "done" /\ n.outcome = "invalid")
                 /\ n.pc # "upsert"
    BY <1>1, Submitted
  <2>2. /\ At(r, "unborn") /\ docs' = docs /\ wrote' = wrote
        /\ met' = met \cup {{r, q} : q \in {p \in Request : Active(p)}}
    BY <1>1, Submitted
  <2>3. n.outcome # "created"
    BY <2>1 DEF Underway
  <2> QED BY <2>1, <2>2, <2>3, ApartQuiet
<1>2. ASSUME NEW r \in Request, FailBefore(r) PROVE Apart'
  <2>1. Shape(req[r])
    BY DEF Typed
  <2>2. /\ req' = [req EXCEPT ![r] = Answer(r, "unavailable")]
        /\ Active(r) /\ docs' = docs /\ wrote' = wrote /\ met' = met
    BY <1>2 DEF FailBefore
  <2> QED BY <2>1, <2>2, ApartQuiet, AnswerFields
<1>3. ASSUME NEW r \in Request, Active(r), Reads(r) PROVE Apart'
  <2>1. PICK n : /\ Read(r, n) /\ Follows(r, n)
                 /\ n.pc = "upsert" /\ n.call.op = "post_directive" => Own(r) = Missing
    BY <1>3 DEF Reads
  <2>2. /\ req' = [req EXCEPT ![r] = n] /\ docs' = docs /\ wrote' = wrote /\ met' = met
        /\ n.call = req[r].call
    BY <2>1 DEF Read, Follows
  <2>3. n.outcome # "created"
    BY <2>1 DEF Follows, Underway, Refusing
  <2>4. n.pc = "upsert" /\ n.call.op = "post_directive" => n.store = req[r].store
    <3>1. Underway(req[r])
      BY <1>3, ActiveUnderway
    <3>2. n.pc = "upsert" => Underway(n)
      BY <2>1 DEF Follows
    <3> QED BY <2>2, <3>1, <3>2 DEF Underway, DirectiveOps
  <2>5. \A q \in Request \ {r} : Active(q) => {r, q} \in met'
    BY <1>3, <2>2 DEF Apart, Together
  <2> QED BY <1>3, <2>1, <2>2, <2>3, <2>4, <2>5, ApartQuiet
<1>4. ASSUME NEW r \in Request, Active(r), Writes(r) PROVE Apart'
  BY <1>4, ApartWrites
<1>5. CASE UNCHANGED vars
  BY <1>5 DEF vars, Apart, Kept, Together, Unseen, Once, Created, Posting, Same, Removed, Own,
              At, Active
<1> QED BY <1>1, <1>2, <1>3, <1>4, <1>5, StepKinds DEF Next, Submits

(* Two requests are both told that they created the same document only if it was
   removed, or if it is a directive and they were under way together. *)
THEOREM CreatedSafety == Spec => []CreatedOnce
<1>1. Apart => CreatedOnce
  BY DEF Apart, Once, CreatedOnce, Created, Same, Removed
<1> QED BY <1>1, InitTyped, InitTruthful, InitApart, TypedStep, TruthfulStep, ApartStep, PTL
        DEF Spec

----------------------------------------------------------------------------
(* What one step of a request leaves alone *)

Moves(r) == Submits(r) \/ Step(r) \/ FailBefore(r) \/ AnswerLost(r)

(* A step changes only its own request, whose call stays what it was submitted
   with, and forgets no meeting; what it does to the documents, if anything, is
   one write, after which no other request under way is alone. *)
LEMMA Effects ==
    ASSUME Typed, NEW r \in Request, Moves(r)
    PROVE  /\ \A q \in Request \ {r} : req'[q] = req[q]
           /\ At(r, "unborn") \/ (Active(r) /\ req'[r].call = req[r].call)
           /\ \A A \in met : A \in met'
           /\ \/ docs' = docs /\ alone' = alone
              \/ /\ Active(r)
                 /\ \A q \in Request : alone'[q] = (alone[q] /\ (q = r \/ ~Active(q)))
                 /\ \E s \in Store : \E i, doc, n : Puts(r, s, i, doc, n) /\ Fits(r, s, i, doc, n)
<1>1. CASE Submits(r)
  <2>1. PICK n : req' = [req EXCEPT ![r] = n]
    BY <1>1, Submitted
  <2> QED BY <1>1, <2>1, Submitted, Becomes
<1>2. CASE FailBefore(r)
  <2>1. /\ Active(r) /\ req' = [req EXCEPT ![r] = Answer(r, "unavailable")]
        /\ docs' = docs /\ alone' = alone /\ met' = met
    BY <1>2 DEF FailBefore
  <2>2. Shape(req[r])
    BY DEF Typed
  <2> QED BY <2>1, <2>2, Becomes, AnswerFields
<1>3. CASE Active(r) /\ Reads(r)
  <2>1. PICK n : Read(r, n) /\ Follows(r, n)
    BY <1>3 DEF Reads
  <2>2. req' = [req EXCEPT ![r] = n] /\ docs' = docs /\ alone' = alone /\ met' = met
    BY <2>1 DEF Read
  <2> QED BY <1>3, <2>1, <2>2, Becomes DEF Follows
<1>4. CASE Active(r) /\ Writes(r)
  <2>1. /\ alone' = [q \in Request |-> alone[q] /\ (q = r \/ ~Active(q))]
        /\ \E s \in Store : \E i, doc, n : Puts(r, s, i, doc, n) /\ Fits(r, s, i, doc, n)
    BY <1>4 DEF Writes
  <2>2. PICK s \in Store : \E i, doc, n : Puts(r, s, i, doc, n) /\ Fits(r, s, i, doc, n)
    BY <2>1
  <2>3. PICK i, doc, n : Puts(r, s, i, doc, n) /\ Fits(r, s, i, doc, n)
    BY <2>2
  <2>4. /\ req' = [req EXCEPT ![r] = n] /\ met' = met /\ n.call = req[r].call
    BY <2>3 DEF Puts, Fits
  <2>5. /\ \A q \in Request \ {r} : req'[q] = req[q]
        /\ req'[r].call = req[r].call
    BY <2>4, Becomes
  <2> QED BY <1>4, <2>1, <2>4, <2>5
<1> QED BY <1>1, <1>2, <1>3, <1>4, StepKinds DEF Moves

(* What a write puts where, and that everything else stays. *)
LEMMA WrittenAt ==
    ASSUME Typed, NEW r \in Request, NEW s \in Store, NEW i, NEW doc, NEW n,
           Puts(r, s, i, doc, n), NEW t \in Store, NEW j \in Id
    PROVE  docs'[t][j] = IF t = s /\ j = i THEN doc ELSE docs[t][j]
<1>1. docs' = [docs EXCEPT ![s][i] = doc]
  BY DEF Puts
<1> QED BY <1>1 DEF Typed

----------------------------------------------------------------------------
(* Start-ups *)

Shipped == Doc(Default, Default, NoCall)
Defaults(r) == DefaultIds[req[r].store]

(* Someone who removes was under way together with r. *)
Disputed(r) == \E q \in Request : {r, q} \in met /\ Removes(req[q].call)

(* A start-up that stores the defaults one after the other has those it is not
   about to store in the store, but for removals meanwhile; and what it is about
   to store is not there, or is itself a default, if nobody else writes. *)
SeedsOn(r) ==
    /\ req[r].todo # {} /\ req[r].todo \subseteq DOMAIN Defaults(r)
    /\ \A k \in DOMAIN Defaults(r) \ req[r].todo :
          docs[req[r].store][Defaults(r)[k]] # Missing \/ Disputed(r)
    /\ alone[r] => \A k \in DOMAIN Defaults(r) :
          k \in req[r].todo => docs[req[r].store][Defaults(r)[k]] \in {Missing, Shipped}
Seeding == \A r \in Request : At(r, "seed") => SeedsOn(r)

(* The defaults of a request that seeds. *)
LEMMA DefaultsTyped ==
    ASSUME Typed, NEW r \in Request, Underway(req[r]), Seeds(req[r].call)
    PROVE  /\ req[r].store \in ByIdStore \cap Store
           /\ DOMAIN Defaults(r) \subseteq Nat
           /\ \A k \in DOMAIN Defaults(r) : Defaults(r)[k] \in Id
<1>1. req[r].store \in ByIdStore /\ req[r].store \in Store
  BY DEF Underway
<1>2. Defaults(r) \in Seq(Id)
  BY <1>1, LibraryAssumption DEF Defaults
<1> QED BY <1>1, <1>2

(* The steps of a start-up, and what it goes on to. *)
LEMMA SeedsBy ==
    ASSUME Typed, NEW r \in Request, Active(r), Seeds(req[r].call), Moves(r)
    PROVE  List(r) \/ Seed(r) \/ FailBefore(r) \/ AnswerLost(r)
<1>1. req[r].pc \in {"list", "seed"}
  BY ActiveUnderway DEF Underway
<1>2. ~Submits(r)
  BY <1>1, Submitted DEF At
<1> QED BY <1>1, <1>2 DEF Moves, Step, ScopeShared, ScopeUser, CheckShared, Existing, ListShared,
           ListUserSkills, GetTarget, Insert, Wrapper, Upsert, Remove, At

(* The state a start-up goes to. *)
LEMMA SeedStateFields ==
    ASSUME NEW r \in Request, Shape(req[r]), NEW todo
    PROVE  /\ todo = {} => SeedState(r, todo) = Answer(r, "stored")
           /\ todo # {} =>
                 /\ SeedState(r, todo).pc = "seed" /\ SeedState(r, todo).todo = todo
                 /\ SeedState(r, todo).store = req[r].store
                 /\ SeedState(r, todo).outcome = req[r].outcome
BY DEF SeedState, GoTo, Shape, Fields

(* A start-up that met a removal has met it for good. *)
LEMMA DisputedStays ==
    ASSUME Typed, NEW p \in Request, Moves(p), NEW r \in Request, Disputed(r)
    PROVE  Disputed(r)'
<1>1. PICK q \in Request : {r, q} \in met /\ Removes(req[q].call)
  BY DEF Disputed
<1>2. {r, q} \in met'
  BY <1>1, Effects
<1>3. req'[q].call = req[q].call
  <2>1. CASE q # p
    BY <2>1, Effects
  <2>2. CASE q = p
    <3>1. ~At(p, "unborn")
      <4>1. ~Removes(Unborn.call)
        BY DEF Unborn, NoCall, Removes
      <4> QED BY <1>1, <2>2, <4>1, ActiveUnderway
    <3> QED BY <2>2, <3>1, Effects
  <2> QED BY <2>1, <2>2
<1> QED BY <1>1, <1>2, <1>3 DEF Disputed

(* What has been stored stays, unless it is removed by a request that a start-up
   under way meets. *)
LEMMA StoredStays ==
    ASSUME Typed, Apart, NEW p \in Request, Moves(p), NEW r \in Request,
           Active(r), Seeds(req[r].call),
           NEW s \in Store, NEW i \in Id, docs[s][i] # Missing \/ Disputed(r)
    PROVE  docs'[s][i] # Missing \/ Disputed(r)'
<1>1. CASE Disputed(r)
  BY <1>1, DisputedStays
<1>2. CASE docs' = docs
  BY <1>1, <1>2
<1>3. CASE /\ docs[s][i] # Missing /\ Active(p)
           /\ \E t \in Store : \E j, doc, n : Puts(p, t, j, doc, n) /\ Fits(p, t, j, doc, n)
  <2>1. PICK t \in Store : \E j, doc, n : Puts(p, t, j, doc, n) /\ Fits(p, t, j, doc, n)
    BY <1>3
  <2>2. PICK j, doc, n : Puts(p, t, j, doc, n) /\ Fits(p, t, j, doc, n)
    BY <2>1
  <2>3. docs'[s][i] = IF s = t /\ i = j THEN doc ELSE docs[s][i]
    BY <2>2, WrittenAt
  <2>4. CASE doc = Missing
    <3>1. Removes(req[p].call)
      BY <2>2, <2>4 DEF Fits
    <3>2. p # r
      BY <3>1 DEF Removes, Seeds
    <3>3. {r, p} \in met
      BY <1>3, <3>2 DEF Apart, Together
    <3>4. Disputed(r)
      BY <3>1, <3>3 DEF Disputed
    <3> QED BY <3>4, DisputedStays
  <2> QED BY <1>3, <2>3, <2>4
<1> QED BY <1>1, <1>2, <1>3, Effects

(* List and Seed leave a start-up with every default in the store but for those
   it has yet to store. *)
LEMMA SeedGoesOn ==
    ASSUME Typed, Apart, Seeding, NEW r \in Request, Active(r), Seeds(req[r].call),
           List(r) \/ Seed(r)
    PROVE  \E todo \in SUBSET DOMAIN Defaults(r) :
              /\ req' = [req EXCEPT ![r] = SeedState(r, todo)]
              /\ \A k \in DOMAIN Defaults(r) \ todo :
                    docs'[req[r].store][Defaults(r)[k]] # Missing \/ Disputed(r)'
              /\ alone'[r] => \A k \in DOMAIN Defaults(r) :
                    k \in todo => docs'[req[r].store][Defaults(r)[k]] \in {Missing, Shipped}
<1> DEFINE s == req[r].store
           D == Defaults(r)
<1>0. /\ s \in ByIdStore \cap Store /\ DOMAIN D \subseteq Nat
      /\ \A k \in DOMAIN D : D[k] \in Id
  BY ActiveUnderway, DefaultsTyped
<1>1. CASE List(r)
  <2> DEFINE todo == {k \in DOMAIN D : D[k] \notin Present(s)}
  <2>1. Read(r, SeedState(r, todo))
    BY <1>1 DEF List, Defaults
  <2>2. docs' = docs
    BY <2>1 DEF Read
  <2>3. DOMAIN docs[s] = Id
    BY <1>0 DEF Typed
  <2>4. \A k \in DOMAIN D : k \in todo <=> docs[s][D[k]] = Missing
    BY <1>0, <2>3 DEF Present
  <2>5. todo \in SUBSET DOMAIN D /\ req' = [req EXCEPT ![r] = SeedState(r, todo)]
    BY <2>1 DEF Read
  <2> HIDE DEF todo
  <2> QED BY <2>2, <2>4, <2>5
<1>2. CASE Seed(r)
  <2> DEFINE m == Min(req[r].todo)
             todo == req[r].todo \ {m}
  <2>1. At(r, "seed") /\ Write(r, s, D[m], Shipped, SeedState(r, todo))
    BY <1>2 DEF Seed, NextDefault, Defaults, Shipped
  <2>2. SeedsOn(r)
    BY <2>1 DEF Seeding
  <2>3. m \in req[r].todo /\ m \in DOMAIN D
    BY <1>0, <2>2, LeastPosition DEF SeedsOn
  <2>4. /\ req' = [req EXCEPT ![r] = SeedState(r, todo)]
        /\ docs' = [docs EXCEPT ![s][D[m]] = Shipped]
        /\ alone'[r] = alone[r]
    BY <2>1 DEF Write, Typed
  <2>5. \A k \in DOMAIN D : docs'[s][D[k]] = IF D[k] = D[m] THEN Shipped ELSE docs[s][D[k]]
    BY <1>0, <2>4 DEF Typed
  <2>6. Shipped # Missing
    BY ShippedTyped, LibraryAssumption DEF Shipped
  <2>7. Moves(r)
    BY <1>2 DEF Moves, Step
  <2>8. Disputed(r) => Disputed(r)'
    BY <2>7, DisputedStays
  <2>9. todo \in SUBSET DOMAIN D
    BY <2>2 DEF SeedsOn
  <2>10. \A k \in DOMAIN D \ todo : docs'[s][D[k]] # Missing \/ Disputed(r)'
    BY <2>2, <2>5, <2>6, <2>8 DEF SeedsOn
  <2>11. alone'[r] => \A k \in DOMAIN D : k \in todo => docs'[s][D[k]] \in {Missing, Shipped}
    BY <2>2, <2>4, <2>5 DEF SeedsOn
  <2> HIDE DEF todo
  <2> QED BY <2>4, <2>9, <2>10, <2>11
<1> QED BY <1>1, <1>2

(* To begin with, nothing is seeded. *)
LEMMA InitSeeding == Init => Seeding
BY DEF Init, Seeding, At, Unborn

(* Every step keeps it. *)
LEMMA SeedingStep == Typed /\ Apart /\ Seeding /\ [Next]_vars => Seeding'
<1> SUFFICES ASSUME Typed, Apart, Seeding, [Next]_vars PROVE Seeding'
  OBVIOUS
<1>1. ASSUME NEW p \in Request, Moves(p), NEW r \in Request, r # p, At(r, "seed")'
      PROVE  SeedsOn(r)'
  <2>1. req'[r] = req[r]
    BY <1>1, Effects
  <2>2. SeedsOn(r) /\ Active(r) /\ Seeds(req[r].call)
    <3>1. At(r, "seed")
      BY <1>1, <2>1 DEF At
    <3>2. Active(r)
      BY <3>1 DEF At, Active
    <3> QED BY <3>1, <3>2, ActiveUnderway DEF Seeding, Underway, At
  <2>3. req[r].store \in Store /\ \A k \in DOMAIN Defaults(r) : Defaults(r)[k] \in Id
    BY <2>2, ActiveUnderway, DefaultsTyped
  <2>4. Defaults(r)' = Defaults(r)
    BY <2>1 DEF Defaults
  <2>5. \A k \in DOMAIN Defaults(r) \ req[r].todo :
            docs'[req[r].store][Defaults(r)[k]] # Missing \/ Disputed(r)'
    BY <1>1, <2>2, <2>3, StoredStays DEF SeedsOn
  <2>6. alone'[r] => docs' = docs /\ alone' = alone
    BY <1>1, <2>2, Effects
  <2> QED BY <2>1, <2>2, <2>4, <2>5, <2>6 DEF SeedsOn
<1>2. ASSUME NEW r \in Request, Moves(r), At(r, "seed")'
      PROVE  SeedsOn(r)'
  <2>1. Active(r) /\ Seeds(req[r].call) /\ (List(r) \/ Seed(r))
    <3>1. ~At(r, "unborn")
      <4>1. ASSUME Submits(r) PROVE FALSE
        <5>1. PICK c \in menu : Submit(r, c)
          BY <4>1 DEF Submits
        <5>2. req'[r].pc = IF InvalidAtOnce(c) THEN "done" ELSE FirstCall(c)
          BY <5>1 DEF Submit, Typed, Unborn
        <5>3. FirstCall(c) # "seed"
          BY DEF FirstCall
        <5> QED BY <1>2, <5>2, <5>3 DEF At
      <4>2. At(r, "unborn") => Submits(r)
        BY <1>2 DEF Moves, Step, ScopeShared, ScopeUser, CheckShared, Existing, ListShared,
           ListUserSkills, GetTarget, Insert, Wrapper, Upsert, Remove, List, Seed, FailBefore,
           AnswerLost, Active, At
      <4> QED BY <4>1, <4>2
    <3>2. Active(r) /\ req'[r].call = req[r].call
      BY <1>2, <3>1, Effects
    <3>3. Typed'
      BY TypedStep
    <3>4. Underway(req'[r])
      BY <1>2, <3>3 DEF Typed, At, Unborn, Over
    <3>5. Seeds(req[r].call)
      BY <1>2, <3>2, <3>4 DEF Underway, At
    <3>6. ~FailBefore(r) /\ ~AnswerLost(r)
      <4>1. Shape(req[r])
        BY DEF Typed
      <4>2. FailBefore(r) \/ AnswerLost(r) => req'[r].pc = "done"
        BY <4>1, AnswerFields DEF FailBefore, AnswerLost, Typed
      <4> QED BY <1>2, <4>2 DEF At
    <3> QED BY <1>2, <3>2, <3>5, <3>6, SeedsBy
  <2>2. PICK todo \in SUBSET DOMAIN Defaults(r) :
              /\ req' = [req EXCEPT ![r] = SeedState(r, todo)]
              /\ \A k \in DOMAIN Defaults(r) \ todo :
                    docs'[req[r].store][Defaults(r)[k]] # Missing \/ Disputed(r)'
              /\ alone'[r] => \A k \in DOMAIN Defaults(r) :
                    k \in todo => docs'[req[r].store][Defaults(r)[k]] \in {Missing, Shipped}
    BY <2>1, SeedGoesOn
  <2>3. req'[r] = SeedState(r, todo) /\ Shape(req[r])
    BY <2>2, Becomes DEF Typed
  <2>4. todo # {} /\ req'[r].todo = todo /\ req'[r].store = req[r].store
    BY <1>2, <2>3, SeedStateFields, AnswerFields DEF At
  <2>5. Defaults(r)' = Defaults(r)
    BY <2>4 DEF Defaults
  <2> QED BY <2>2, <2>4, <2>5 DEF SeedsOn
<1>3. CASE UNCHANGED vars
  BY <1>3 DEF vars, Seeding, SeedsOn, Defaults, Disputed, At
<1>4. CASE Next
  <2>1. PICK p \in Request : Moves(p)
    BY <1>4 DEF Next, Moves, Submits
  <2> QED BY <1>1, <1>2, <2>1 DEF Seeding
<1> QED BY <1>3, <1>4

(* A start-up leaves every default in the store, unless one is being removed
   meanwhile. *)
THEOREM DefaultsSeeded == Spec => SeedComplete
<1>1. ASSUME Typed, Apart, Seeding, Next, NEW r \in Request,
             Active(r), Seeds(req[r].call), req'[r].outcome = "stored"
      PROVE  \/ \A k \in DOMAIN DefaultIds[req[r].store] :
                    docs'[req[r].store][DefaultIds[req[r].store][k]] # Missing
             \/ \E q \in Request : {r, q} \in met /\ Removes(req[q].call)
  <2>1. PICK p \in Request : Moves(p)
    BY <1>1 DEF Next, Moves, Submits
  <2>2. req[r].outcome = "none" /\ Shape(req[r])
    BY <1>1, ActiveUnderway DEF Underway
  <2>3. p = r
    BY <1>1, <2>1, <2>2, Effects
  <2>4. ~FailBefore(r) /\ ~AnswerLost(r)
    <3>1. FailBefore(r) \/ AnswerLost(r) => req'[r].outcome = "unavailable"
      BY <1>1, <2>2, AnswerFields DEF FailBefore, AnswerLost, Typed
    <3> QED BY <1>1, <3>1
  <2>5. List(r) \/ Seed(r)
    BY <1>1, <2>1, <2>3, <2>4, SeedsBy
  <2>6. PICK todo \in SUBSET DOMAIN Defaults(r) :
              /\ req' = [req EXCEPT ![r] = SeedState(r, todo)]
              /\ \A k \in DOMAIN Defaults(r) \ todo :
                    docs'[req[r].store][Defaults(r)[k]] # Missing \/ Disputed(r)'
    BY <1>1, <2>5, SeedGoesOn
  <2>7. todo = {}
    BY <1>1, <2>2, <2>6, Becomes, SeedStateFields
  <2>8. Disputed(r)' => Disputed(r)
    <3>1. ASSUME NEW q \in Request, {r, q} \in met', Removes(req'[q].call)
          PROVE  {r, q} \in met /\ Removes(req[q].call)
      <4>1. met' = met
        BY <2>5 DEF List, Seed, Read, Write
      <4>2. req'[q].call = req[q].call
        <5>1. req'[r].call = req[r].call
          BY <1>1, <2>1, <2>3, Effects DEF Active, At
        <5> QED BY <1>1, <2>1, <2>3, <5>1, Effects
      <4> QED BY <3>1, <4>1, <4>2
    <3> QED BY <3>1 DEF Disputed
  <2> QED BY <2>6, <2>7, <2>8 DEF Defaults, Disputed
<1> DEFINE P == \A r \in Request :
          Active(r) /\ Seeds(req[r].call) /\ req'[r].outcome = "stored" =>
              \/ \A k \in DOMAIN DefaultIds[req[r].store] :
                    docs'[req[r].store][DefaultIds[req[r].store][k]] # Missing
              \/ \E q \in Request : {r, q} \in met /\ Removes(req[q].call)
<1>2. Typed /\ Apart /\ Seeding /\ [Next]_vars => [P]_vars
  BY <1>1
<1>3. SeedComplete <=> [][P]_vars
  BY PTL DEF SeedComplete
<1> HIDE DEF P
<1> QED BY <1>2, <1>3, InitTyped, InitTruthful, InitApart, InitSeeding, TypedStep, TruthfulStep,
        ApartStep, SeedingStep, PTL DEF Spec

(* A start-up during which nobody else writes overwrites no document. *)
THEOREM EditsSpared == Spec => SeedSparesEdits
<1>1. ASSUME Typed, Apart, Seeding, Next, NEW r \in Request,
             Active(r), Seeds(req[r].call), alone[r], NEW s \in Store, NEW i \in DOMAIN docs[s],
             At(r, "seed"), req'[r] # req[r], docs[s][i] # Missing
      PROVE  docs'[s][i] = docs[s][i]
  <2>1. PICK p \in Request : Moves(p)
    BY <1>1 DEF Next, Moves, Submits
  <2>2. p = r
    BY <1>1, <2>1, Effects
  <2>3. CASE docs' = docs
    BY <2>3
  <2>4. CASE docs' = [docs EXCEPT ![req[r].store][NextDefault(r)] = Shipped]
    <3>1. SeedsOn(r) /\ DOMAIN Defaults(r) \subseteq Nat
      BY <1>1, ActiveUnderway, DefaultsTyped DEF Seeding
    <3>2. docs[req[r].store][NextDefault(r)] \in {Missing, Shipped}
      BY <1>1, <3>1, LeastPosition DEF SeedsOn, NextDefault, Defaults
    <3> QED BY <1>1, <2>4, <3>2 DEF Typed
  <2>5. \/ docs' = docs
        \/ docs' = [docs EXCEPT ![req[r].store][NextDefault(r)] = Shipped]
    BY <1>1, <2>1, <2>2, SeedsBy DEF List, Seed, FailBefore, AnswerLost, Read, Write, At, Shipped
  <2> QED BY <2>3, <2>4, <2>5
<1> DEFINE P == \A r \in Request :
          Active(r) /\ Seeds(req[r].call) /\ alone[r] =>
              \A s \in Store : \A i \in DOMAIN docs[s] :
                  At(r, "seed") /\ req'[r] # req[r] /\ docs[s][i] # Missing =>
                      docs'[s][i] = docs[s][i]
<1>2. Typed /\ Apart /\ Seeding /\ [Next]_vars => [P]_vars
  BY <1>1
<1>3. SeedSparesEdits <=> [][P]_vars
  BY PTL DEF SeedSparesEdits
<1> HIDE DEF P
<1> QED BY <1>2, <1>3, InitTyped, InitTruthful, InitApart, InitSeeding, TypedStep, TruthfulStep,
        ApartStep, SeedingStep, PTL DEF Spec

----------------------------------------------------------------------------
(* What the validation of an agent has read *)

(* A function on the first n positions is a sequence of length n. *)
LEMMA SequenceOf ==
    ASSUME NEW n \in Nat, NEW f, f = [k \in 1 .. n |-> f[k]]
    PROVE  /\ Len(f) = n
           /\ \A d : /\ Len(Append(f, d)) = n + 1
                     /\ Append(f, d) = [k \in 1 .. n + 1 |-> IF k = n + 1 THEN d ELSE f[k]]
<1> DEFINE S(d) == {f[k] : k \in 1 .. n} \cup {d}
<1>1. ASSUME NEW d PROVE f \in Seq(S(d))
  <2>1. f \in [1 .. n -> S(d)]
    OBVIOUS
  <2> QED BY <2>1, SeqDef
<1>2. ASSUME NEW d
      PROVE  /\ Len(f) = n
             /\ Len(Append(f, d)) = n + 1
             /\ Append(f, d) = [k \in 1 .. n + 1 |-> IF k = n + 1 THEN d ELSE f[k]]
  <2>1. f \in Seq(S(d)) /\ d \in S(d)
    BY <1>1
  <2>2. DOMAIN f = 1 .. n
    OBVIOUS
  <2> HIDE DEF S
  <2>3. Len(f) \in Nat /\ DOMAIN f = 1 .. Len(f)
    BY <2>1
  <2>4. Len(f) = n
    BY <2>2, <2>3
  <2>5. Append(f, d) \in Seq(S(d)) /\ Len(Append(f, d)) = n + 1 /\ DOMAIN Append(f, d) = 1 .. n + 1
    BY <2>1, <2>4
  <2>6. \A k \in 1 .. n + 1 : Append(f, d)[k] = IF k = n + 1 THEN d ELSE f[k]
    BY <2>1, <2>4
  <2>7. Append(f, d) = [k \in 1 .. n + 1 |-> Append(f, d)[k]]
    BY <2>5
  <2> QED BY <2>4, <2>5, <2>6, <2>7
<1> QED BY <1>2

(* What is known of the references is what has been read, and as many built-in
   profiles as follow. *)
Adds(c, seen, all) ==
    /\ Len(all) \in Len(seen) .. Len(c.refs)
    /\ all = [k \in 1 .. Len(all) |-> all[k]]
    /\ \A k \in 1 .. Len(all) :
          \/ k <= Len(seen) /\ all[k] = seen[k]
          \/ k > Len(seen) /\ c.refs[k] \in Profile /\ all[k] = [refs |-> ProfileRefs[c.refs[k]]]
    /\ Len(all) < Len(c.refs) => c.refs[Len(all) + 1] \notin Profile

(* What the built-in profiles add to the targets read so far. *)
LEMMA ProfilesAdded ==
    ASSUME NEW c, c.refs \in Seq(Id), NEW seen, Len(seen) \in 0 .. Len(c.refs)
    PROVE  Adds(c, seen, WithProfiles(c, seen))
<1> DEFINE T == {k \in Len(seen) .. Len(c.refs) : k = Len(c.refs) \/ c.refs[k + 1] \notin Profile}
           until == Min(T)
           all == [k \in 1 .. until |->
                      IF k <= Len(seen) THEN seen[k] ELSE [refs |-> ProfileRefs[c.refs[k]]]]
<1>0. Len(c.refs) \in Nat /\ Len(seen) \in Nat
  OBVIOUS
<1>1. until \in T /\ \A j \in T : until <= j
  <2>1. Len(c.refs) \in T /\ T \subseteq Nat
    BY <1>0
  <2> HIDE DEF T
  <2> QED BY <2>1, LeastPosition
<1>2. until \in Len(seen) .. Len(c.refs) /\ (until = Len(c.refs) \/ c.refs[until + 1] \notin Profile)
  BY <1>1
<1>3. \A j \in Len(seen) .. Len(c.refs) : c.refs[j + 1] \notin Profile => until <= j
  BY <1>1
<1>4. WithProfiles(c, seen) = all
  BY DEF WithProfiles
<1> HIDE DEF until, T
<1>5. ASSUME NEW k \in 1 .. until, k > Len(seen) PROVE c.refs[k] \in Profile
  <2>1. k - 1 \in Len(seen) .. Len(c.refs) /\ (k - 1) + 1 = k
    BY <1>0, <1>2, <1>5
  <2>2. c.refs[(k - 1) + 1] \notin Profile => until <= k - 1
    BY <1>3, <2>1
  <2>3. ~(until <= k - 1)
    BY <1>0, <1>2
  <2>4. c.refs[(k - 1) + 1] = c.refs[k]
    BY <2>1
  <2> QED BY <2>2, <2>3, <2>4
<1>6. all = [k \in 1 .. until |-> all[k]] /\ until \in Nat
  BY <1>0, <1>2
<1>7. \A k \in 1 .. until :
          all[k] = IF k <= Len(seen) THEN seen[k] ELSE [refs |-> ProfileRefs[c.refs[k]]]
  OBVIOUS
<1> HIDE DEF all
<1>8. Len(all) = until
  BY <1>6, SequenceOf
<1> QED BY <1>0, <1>2, <1>4, <1>5, <1>6, <1>7, <1>8 DEF Adds

(* Where the validation goes on: to the next agent, to the call that stores this
   one, or nowhere. *)
Accepts(state, targets) ==
    /\ state.call.valid = "yes" /\ state.call.skills \subseteq state.known
    /\ RefsValid(state.call, targets)
GoesOn(state, seen, n) ==
    /\ Shape(n) /\ n.call = state.call /\ n.store = state.store /\ n.known = state.known
    /\ Adds(state.call, seen, n.seen)
    /\ \/ Len(n.seen) < Len(state.call.refs) /\ n.pc = "target"
       \/ /\ Len(n.seen) = Len(state.call.refs) /\ Accepts(state, n.seen)
          /\ n.pc = IF state.call.op = "create_agent" THEN "insert" ELSE "wrapper"
       \/ /\ Len(n.seen) = Len(state.call.refs) /\ ~Accepts(state, n.seen)
          /\ n.pc = "done" /\ n.outcome = "invalid"

(* The next reference to read, or the verdict. *)
LEMMA ProceedGoes ==
    ASSUME NEW r, NEW state, Shape(state), state.call \in Call,
           NEW seen, Len(seen) \in 0 .. Len(state.call.refs)
    PROVE  GoesOn(state, seen, Proceed(r, state, seen))
<1> DEFINE c == state.call
           all == WithProfiles(c, seen)
           n == [state EXCEPT !.seen = all, !.pc = "target"]
           refused == [n EXCEPT !.pc = "done", !.outcome = "invalid"]
           store == IF c.op = "create_agent" THEN "insert" ELSE "wrapper"
           stores == [n EXCEPT !.pc = store]
           ok == Accepts(state, all)
<1>0. Adds(c, seen, all)
  BY ProfilesAdded DEF Call
<1>9. Len(all) = Len(c.refs) \/ Len(all) < Len(c.refs)
  BY <1>0 DEF Adds, Call
<1>8. all = WithProfiles(c, seen)
  OBVIOUS
<1> HIDE DEF all
<1>1. /\ Shape(n) /\ n.pc = "target" /\ n.call = c /\ n.seen = all
      /\ n.store = state.store /\ n.outcome = state.outcome /\ n.known = state.known
  BY DEF Shape, Fields
<1> HIDE DEF n
<1>2. /\ Shape(refused) /\ refused.pc = "done" /\ refused.outcome = "invalid" /\ refused.seen = all
      /\ refused.call = c /\ refused.store = state.store /\ refused.known = state.known
  BY <1>1 DEF Shape, Fields
<1>3. /\ Shape(stores) /\ stores.pc = store /\ stores.call = c /\ stores.seen = all
      /\ stores.store = state.store /\ stores.known = state.known
  BY <1>1 DEF Shape, Fields
<1>4. CASE Len(all) # Len(c.refs)
  <2>1. Proceed(r, state, seen) = n
    BY <1>4, <1>8 DEF Proceed, n
  <2> QED BY <1>0, <1>1, <1>4, <1>9, <2>1 DEF GoesOn
<1>5. CASE Len(all) = Len(c.refs) /\ ok
  <2>1. Proceed(r, state, seen) = Validated(r, n, all)
    BY <1>5, <1>8 DEF Proceed, n
  <2>2. Validated(r, n, all) = stores
    BY <1>1, <1>5 DEF Validated, Accepts
  <2> HIDE DEF stores
  <2> QED BY <1>0, <1>3, <1>5, <2>1, <2>2 DEF GoesOn
<1>6. CASE Len(all) = Len(c.refs) /\ ~ok
  <2>1. Proceed(r, state, seen) = Validated(r, n, all)
    BY <1>6, <1>8 DEF Proceed, n
  <2>2. Validated(r, n, all) = refused
    BY <1>1, <1>6 DEF Validated, Accepts
  <2> HIDE DEF refused
  <2> QED BY <1>0, <1>2, <1>6, <2>1, <2>2 DEF GoesOn
<1> QED BY <1>4, <1>5, <1>6

----------------------------------------------------------------------------
(* Cycles of references *)

(* The agent that reference k of r's call means is as r has read it, or gone, or
   was written by a request that r has met. *)
Known(r, k, target) ==
    LET a == req[r].call.refs[k] IN
    \/ a \in Profile
    \/ docs["agents"][a] \in {Missing, target}
    \/ {r, docs["agents"][a].by["enabled"]} \in met

(* What a request has read of the agents it refers to; *)
Reading(r) ==
    LET seen == req[r].seen IN
    /\ Len(seen) \in 0 .. Len(req[r].call.refs) - 1
    /\ seen = [k \in 1 .. Len(seen) |-> seen[k]]
    /\ \A k \in 1 .. Len(seen) : Known(r, k, seen[k])

(* and that none of them referred back, once it has been found valid. *)
Cleared(r) ==
    \A k \in DOMAIN req[r].call.refs : \E target :
        /\ Known(r, k, target)
        /\ \A i \in DOMAIN target.refs : target.refs[i] # req[r].call.id

Watching == \A r \in Request :
    /\ At(r, "target") => Reading(r)
    /\ Defines(req[r].call) /\ req[r].pc \in {"insert", "wrapper", "upsert"} => Cleared(r)

NoProfiles == \A a \in Id \cap Profile : docs["agents"][a] = Missing
Acyclic    == NoProfiles /\ CyclesNeedRace

(* Only three calls of the store lead to a verdict on an agent, or on from it. *)
LEMMA ValidatesBy ==
    ASSUME Typed, NEW r \in Request, Moves(r), Defines(req'[r].call),
           req'[r].pc \in {"target", "insert", "wrapper", "upsert"}
    PROVE  Active(r) /\ (ListUserSkills(r) \/ GetTarget(r) \/ Wrapper(r))
<1>1. ASSUME At(r, "unborn") PROVE FALSE
  <2>1. Submits(r)
    BY <1>1 DEF Moves, Step, ScopeShared, ScopeUser, CheckShared, Existing, ListShared,
       ListUserSkills, GetTarget, Insert, Wrapper, Upsert, Remove, List, Seed, FailBefore,
       AnswerLost, Active, At
  <2>2. PICK c \in menu : Submit(r, c)
    BY <2>1 DEF Submits
  <2>3. /\ req'[r].pc = IF InvalidAtOnce(c) THEN "done" ELSE FirstCall(c)
        /\ req'[r].call = c
    BY <2>2 DEF Submit, Typed, Unborn
  <2>4. Defines(c) => FirstCall(c) \notin {"target", "insert", "wrapper", "upsert"}
    BY DEF FirstCall, Defines, Removes, Seeds
  <2> QED BY <2>3, <2>4
<1>2. Active(r) /\ req'[r].call = req[r].call /\ Shape(req[r]) /\ ~Submits(r)
  BY <1>1, Effects, Submitted DEF Typed
<1>3. Underway(req[r]) /\ Defines(req[r].call)
  BY <1>2, ActiveUnderway
<1>4. ASSUME NEW n, req' = [req EXCEPT ![r] = n]
      PROVE  n.pc \in {"target", "insert", "wrapper", "upsert"}
  BY <1>4, Becomes
<1>5. ~FailBefore(r) /\ ~AnswerLost(r)
  <2>1. Answer(r, "unavailable").pc = "done"
    BY <1>2, AnswerFields
  <2> QED BY <1>4, <2>1 DEF FailBefore, AnswerLost
<1>6. ~ScopeShared(r) /\ ~ScopeUser(r) /\ ~CheckShared(r) /\ ~List(r) /\ ~Seed(r) /\ ~Remove(r)
  BY <1>3 DEF Underway, Defines, Removes, Seeds, ScopeShared, ScopeUser, CheckShared, List, Seed,
              Remove, At
<1>7. ~Insert(r) /\ ~Upsert(r)
  <2>1. \A o : Answer(r, o).pc = "done"
    BY <1>2, AnswerFields
  <2> QED BY <1>4, <2>1 DEF Insert, Upsert, Read, Write
<1>8. ~ListShared(r)
  <2> DEFINE n == [GoTo(r, "list_user_skills") EXCEPT !.known = Present("skills")]
  <2>1. n.pc = "list_user_skills"
    BY <1>2 DEF GoTo, Shape, Fields
  <2> QED BY <1>4, <2>1 DEF ListShared, Read
<1>9. ~Existing(r)
  <2> DEFINE n == [GoTo(r, "list_skills") EXCEPT !.got = Own(r)]
  <2>1. n.pc = "list_skills" /\ \A o : Answer(r, o).pc = "done"
    BY <1>2, AnswerFields DEF GoTo, Shape, Fields
  <2>2. Existing(r) => Read(r, n) \/ \E o : Read(r, Answer(r, o))
    BY <1>3 DEF Existing, BadFields
  <2> QED BY <1>4, <2>1, <2>2 DEF Read
<1> QED BY <1>2, <1>5, <1>6, <1>7, <1>8, <1>9 DEF Moves, Step

(* What is known stays known: whoever writes an agent has met those under way. *)
LEMMA KnownStays ==
    ASSUME Typed, Apart, NEW p \in Request, Moves(p), NEW r \in Request, Active(r),
           req'[r].call = req[r].call, req[r].call \in Call, r # p \/ docs' = docs,
           NEW k \in DOMAIN req[r].call.refs, NEW target, Known(r, k, target)
    PROVE  Known(r, k, target)'
<1> DEFINE a == req[r].call.refs[k]
<1>0. a \in Id /\ "agents" \in Store
  BY DEF Call, Store, UserStore
<1>1. CASE docs' = docs
  BY <1>1, Effects DEF Known
<1>2. CASE /\ Active(p) /\ r # p
           /\ \E t \in Store : \E j, doc, n : Puts(p, t, j, doc, n) /\ Fits(p, t, j, doc, n)
  <2>1. PICK t \in Store : \E j, doc, n : Puts(p, t, j, doc, n) /\ Fits(p, t, j, doc, n)
    BY <1>2
  <2>2. PICK j, doc, n : Puts(p, t, j, doc, n) /\ Fits(p, t, j, doc, n)
    BY <2>1
  <2>3. docs'["agents"][a] = IF t = "agents" /\ j = a THEN doc ELSE docs["agents"][a]
    BY <1>0, <2>2, WrittenAt
  <2>4. CASE docs'["agents"][a] = docs["agents"][a]
    BY <2>4, Effects DEF Known
  <2>5. CASE t = "agents" /\ j = a /\ doc # Missing
    <3>1. PICK b : doc = Doc(p, b, n.call)
      BY <2>2, <2>5 DEF Fits
    <3>2. doc.by["enabled"] = p
      BY <3>1 DEF Doc, Field
    <3>3. {r, p} \in met'
      BY <1>2, Effects DEF Apart, Together
    <3> QED BY <2>3, <2>5, <3>2, <3>3 DEF Known
  <2>6. CASE docs'["agents"][a] = Missing
    BY <2>6 DEF Known
  <2> QED BY <2>3, <2>4, <2>5, <2>6
<1> QED BY <1>1, <1>2, Effects

(* To begin with, no two agents refer to each other. *)
LEMMA InitAcyclic == Init => Watching /\ Acyclic
<1> SUFFICES ASSUME Init PROVE Watching /\ Acyclic
  OBVIOUS
<1>1. Watching
  BY DEF Init, Watching, At, Unborn
<1>2. docs \in InitialDocs
  BY DEF Init
<1>3. NoProfiles /\ CyclesNeedRace
  BY <1>2, LibraryAssumption DEF NoProfiles, CyclesNeedRace
<1> QED BY <1>1, <1>3 DEF Acyclic

(* The verdict: what has been read, with the profiles, refers nowhere back. *)
LEMMA VerdictWatching ==
    ASSUME Typed, NEW r \in Request, NEW state, Shape(state), state.call = req[r].call,
           state.call \in Call, NEW seen, Len(seen) \in 0 .. Len(state.call.refs),
           \A k \in 1 .. Len(seen) : Known(r, k, seen[k]),
           Read(r, Proceed(r, state, seen))
    PROVE  /\ At(r, "target")' => Reading(r)'
           /\ req'[r].pc \in {"insert", "wrapper"} => Cleared(r)'
<1> DEFINE n == Proceed(r, state, seen)
           c == state.call
           all == n.seen
<1>1. req'[r] = n /\ docs' = docs /\ met' = met
  BY Becomes DEF Read
<1>2. /\ n.call = c /\ Adds(c, seen, all)
      /\ n.pc = "target" => Len(all) # Len(c.refs)
      /\ n.pc \in {"insert", "wrapper"} => Len(all) = Len(c.refs) /\ RefsValid(c, all)
  <2>1. GoesOn(state, seen, n)
    BY ProceedGoes
  <2> HIDE DEF n
  <2>2. Len(c.refs) \in Nat
    BY DEF Call
  <2> QED BY <2>1, <2>2 DEF GoesOn, Accepts
<1> HIDE DEF n
<1>3. Len(c.refs) \in Nat /\ DOMAIN c.refs = 1 .. Len(c.refs) /\ Len(all) \in 0 .. Len(c.refs)
  BY <1>2 DEF Call, Adds
<1>4. ASSUME NEW k \in 1 .. Len(all) PROVE Known(r, k, all[k])'
  <2>1. CASE k <= Len(seen) /\ all[k] = seen[k]
    <3>1. k \in 1 .. Len(seen)
      BY <1>3, <2>1
    <3>2. Known(r, k, seen[k])
      BY <3>1
    <3> QED BY <1>1, <1>2, <2>1, <3>2 DEF Known
  <2>2. CASE c.refs[k] \in Profile
    BY <1>1, <1>2, <2>2 DEF Known
  <2> QED BY <1>2, <2>1, <2>2 DEF Adds
<1>5. At(r, "target")' => Reading(r)'
  <2> SUFFICES ASSUME At(r, "target")' PROVE Reading(r)'
    OBVIOUS
  <2>1. Len(all) # Len(c.refs)
    BY <1>1, <1>2 DEF At
  <2>2. Len(all) \in 0 .. Len(c.refs) - 1
    BY <1>3, <2>1
  <2> QED BY <1>1, <1>2, <1>4, <2>2 DEF Reading, Adds
<1>6. req'[r].pc \in {"insert", "wrapper"} => Cleared(r)'
  <2> SUFFICES ASSUME n.pc \in {"insert", "wrapper"}, NEW k \in DOMAIN c.refs
               PROVE  Known(r, k, all[k])' /\ \A i \in DOMAIN all[k].refs : all[k].refs[i] # c.id
    BY <1>1, <1>2 DEF Cleared
  <2>1. RefsValid(c, all) /\ k \in 1 .. Len(all)
    BY <1>2, <1>3
  <2> QED BY <1>4, <2>1 DEF RefsValid
<1> QED BY <1>5, <1>6

(* Every step keeps what the validations know. *)
LEMMA WatchingStep == Typed /\ Apart /\ Watching /\ [Next]_vars => Watching'
<1> SUFFICES ASSUME Typed, Apart, Watching, [Next]_vars PROVE Watching'
  OBVIOUS
<1> DEFINE Watched(r) ==
              /\ At(r, "target") => Reading(r)
              /\ Defines(req[r].call) /\ req[r].pc \in {"insert", "wrapper", "upsert"} => Cleared(r)
<1>1. ASSUME NEW p \in Request, Moves(p), NEW r \in Request, Active(r),
             req'[r].call = req[r].call, r # p \/ docs' = docs
      PROVE  /\ Reading(r) /\ req'[r].seen = req[r].seen => Reading(r)'
             /\ Cleared(r) => Cleared(r)'
  <2>1. req[r].call \in Call
    BY <1>1, ActiveUnderway DEF Underway
  <2>2. \A k \in DOMAIN req[r].call.refs : \A target : Known(r, k, target) => Known(r, k, target)'
    BY <1>1, <2>1, KnownStays
  <2>3. DOMAIN req[r].call.refs = 1 .. Len(req[r].call.refs) /\ Len(req[r].call.refs) \in Nat
    BY <2>1 DEF Call
  <2>4. ASSUME Reading(r), req'[r].seen = req[r].seen PROVE Reading(r)'
    <3>1. \A k \in 1 .. Len(req[r].seen) : k \in DOMAIN req[r].call.refs
      BY <2>3, <2>4 DEF Reading
    <3> QED BY <1>1, <2>2, <2>4, <3>1 DEF Reading
  <2>5. Cleared(r) => Cleared(r)'
    BY <1>1, <2>2 DEF Cleared
  <2> QED BY <2>4, <2>5
<1>2. ASSUME NEW p \in Request, Moves(p), NEW r \in Request, r # p PROVE Watched(r)'
  <2>1. req'[r] = req[r]
    BY <1>2, Effects
  <2>2. req[r].pc \in {"target", "insert", "wrapper", "upsert"} => Active(r)
    BY DEF Active
  <2> QED BY <1>1, <1>2, <2>1, <2>2 DEF Watching, At
<1>3. ASSUME NEW r \in Request, Moves(r) PROVE Watched(r)'
  <2>1. Typed'
    BY TypedStep
  <2>2. At(r, "target")' => Defines(req'[r].call)
    BY <2>1 DEF Typed, Underway, Over, Unborn, At
  <2> SUFFICES ASSUME Defines(req'[r].call), req'[r].pc \in {"target", "insert", "wrapper", "upsert"}
               PROVE  Watched(r)'
    BY <2>2 DEF At
  <2>3. Active(r) /\ (ListUserSkills(r) \/ GetTarget(r) \/ Wrapper(r))
    BY <1>3, ValidatesBy
  <2>4. Underway(req[r]) /\ Shape(req[r]) /\ req[r].call \in Call /\ req'[r].call = req[r].call
    BY <1>3, <2>3, ActiveUnderway, Effects DEF Underway, Active, At
  <2>5. CASE ListUserSkills(r)
    <3> DEFINE state == [req[r] EXCEPT !.known = @ \cup Present("user_skills")]
    <3>1. Read(r, Proceed(r, state, <<>>))
      BY <2>5 DEF ListUserSkills
    <3>2. Shape(state) /\ state.call = req[r].call
      BY <2>4 DEF Shape, Fields
    <3>3. Len(<<>>) = 0 /\ 0 \in 0 .. Len(req[r].call.refs)
      BY <2>4 DEF Call
    <3>4. req'[r].pc # "upsert"
      <4>1. req'[r] = Proceed(r, state, <<>>)
        BY <3>1, Becomes DEF Read
      <4>2. Defines(req[r].call) /\ state.store = req[r].store /\ state.outcome = req[r].outcome
        BY <2>4 DEF Shape, Fields
      <4> HIDE DEF state
      <4> QED BY <2>4, <3>2, <4>1, <4>2, ProceedFollows
    <3> HIDE DEF state
    <3> QED BY <2>4, <3>1, <3>2, <3>3, <3>4, VerdictWatching
  <2>6. CASE GetTarget(r)
    <3> DEFINE t == docs["agents"][req[r].call.refs[Len(req[r].seen) + 1]]
               seen == Append(req[r].seen, t)
    <3>1. Read(r, Proceed(r, req[r], seen)) /\ At(r, "target")
      BY <2>6 DEF GetTarget
    <3>2. Reading(r) /\ Len(req[r].call.refs) \in Nat
      BY <2>4, <3>1 DEF Watching, Call
    <3>3. Len(req[r].seen) \in Nat /\ Len(req[r].seen) + 1 \in 1 .. Len(req[r].call.refs)
      BY <3>2 DEF Reading
    <3>4. /\ Len(seen) = Len(req[r].seen) + 1
          /\ seen = [k \in 1 .. Len(req[r].seen) + 1 |->
                        IF k = Len(req[r].seen) + 1 THEN t ELSE req[r].seen[k]]
      BY <3>2, <3>3, SequenceOf DEF Reading
    <3> HIDE DEF seen
    <3>5. ASSUME NEW k \in 1 .. Len(seen) PROVE Known(r, k, seen[k])
      <4>1. CASE k = Len(req[r].seen) + 1
        <5>1. seen[k] = t
          BY <3>3, <3>4, <4>1
        <5> QED BY <4>1, <5>1 DEF Known
      <4>2. CASE k # Len(req[r].seen) + 1
        <5>1. k \in 1 .. Len(req[r].seen) /\ seen[k] = req[r].seen[k]
          BY <3>3, <3>4, <4>2
        <5> QED BY <3>2, <5>1 DEF Reading
      <4> QED BY <4>1, <4>2
    <3>6. req'[r].pc # "upsert"
      <4>1. req'[r] = Proceed(r, req[r], seen)
        BY <3>1, Becomes DEF Read
      <4> QED BY <2>4, <4>1, ProceedFollows
    <3>7. Len(seen) \in 0 .. Len(req[r].call.refs)
      BY <3>3, <3>4
    <3> QED BY <2>4, <3>1, <3>5, <3>6, <3>7, VerdictWatching
  <2>7. CASE Wrapper(r)
    <3>1. docs' = docs /\ At(r, "wrapper") /\ req'[r].pc = "upsert"
      <4>1. [GoTo(r, "upsert") EXCEPT !.got = Own(r)].pc = "upsert"
        BY <2>4 DEF GoTo, Shape, Fields
      <4> QED BY <2>7, <4>1, Becomes DEF Wrapper, Read
    <3>2. Cleared(r)
      BY <2>4, <3>1 DEF Watching, At
    <3> QED BY <1>1, <1>3, <2>3, <2>4, <3>1, <3>2 DEF At
  <2> QED BY <2>3, <2>5, <2>6, <2>7
<1>4. CASE UNCHANGED vars
  <2>1. req' = req /\ docs' = docs /\ met' = met
    BY <1>4 DEF vars
  <2>2. \A r, k, target : Known(r, k, target)' <=> Known(r, k, target)
    BY <2>1 DEF Known
  <2>3. \A r : (Reading(r)' <=> Reading(r)) /\ (Cleared(r)' <=> Cleared(r))
    BY <2>1, <2>2 DEF Reading, Cleared
  <2> QED BY <2>1, <2>3 DEF Watching, At
<1>5. CASE Next
  <2>1. PICK p \in Request : Moves(p)
    BY <1>5 DEF Next, Moves, Submits
  <2> QED BY <1>2, <1>3, <2>1 DEF Watching
<1> QED BY <1>4, <1>5

(* Every step keeps cycles to those that raced. *)
LEMMA AcyclicStep == Typed /\ Apart /\ Watching /\ Acyclic /\ [Next]_vars => Acyclic'
<1> SUFFICES ASSUME Typed, Apart, Watching, Acyclic, [Next]_vars PROVE Acyclic'
  OBVIOUS
<1>0. "agents" \in Store
  BY DEF Store, UserStore
<1>1. ASSUME NEW r \in Request, Moves(r), docs' = docs PROVE Acyclic'
  BY <1>1, Effects DEF Acyclic, NoProfiles, CyclesNeedRace, Refer
<1>2. ASSUME NEW r \in Request, Moves(r), Active(r),
             NEW s \in Store, NEW i, NEW doc, NEW n, Puts(r, s, i, doc, n), Fits(r, s, i, doc, n)
      PROVE  Acyclic'
  <2>1. \A a \in Id : docs'["agents"][a] = IF s = "agents" /\ i = a THEN doc ELSE docs["agents"][a]
    BY <1>0, <1>2, WrittenAt
  <2>2. \A A \in met : A \in met'
    BY <1>2, Effects
  <2>3. CASE doc = Missing \/ s # "agents"
    <3>1. \A a \in Id : docs'["agents"][a] \in {Missing, docs["agents"][a]}
      BY <2>1, <2>3
    <3>2. \A a, b \in Id : Refer(docs', a, b) =>
              Refer(docs, a, b) /\ docs'["agents"][a] = docs["agents"][a]
      BY <3>1 DEF Refer
    <3> QED BY <2>2, <3>1, <3>2 DEF Acyclic, NoProfiles, CyclesNeedRace
  <2>4. CASE doc # Missing /\ s = "agents"
    <3> DEFINE c == req[r].call
    <3>1. /\ req[r].pc \in {"insert", "upsert"} /\ i = c.id /\ n.call = c /\ req[r].store = "agents"
      BY <1>2, <2>4 DEF Fits
    <3>2. PICK b : doc = Doc(r, b, c)
      BY <1>2, <2>4, <3>1 DEF Fits
    <3>3. doc.refs = c.refs /\ doc.by["enabled"] = r
      BY <3>2 DEF Doc, Field
    <3>4. /\ c.id \in Id \ Profile /\ c \in Call /\ Defines(c)
      <4>1. Underway(req[r])
        BY <1>2, ActiveUnderway
      <4> QED BY <3>1, <4>1 DEF Underway, AgentOps, InsertOps, Defines, Removes
    <3>5. Cleared(r)
      BY <3>1, <3>4 DEF Watching
    <3>6. \A a \in Id \ {c.id} : docs'["agents"][a] = docs["agents"][a]
      BY <2>1, <3>1
    <3>7. docs'["agents"][c.id] = doc
      BY <2>1, <2>4, <3>1, <3>4
    <3>8. ASSUME NEW a \in Id, a # c.id, Refer(docs', c.id, a), Refer(docs', a, c.id)
          PROVE  {r, docs'["agents"][a].by["enabled"]} \in met'
      <4>1. PICK k \in DOMAIN c.refs : c.refs[k] = a
        BY <3>3, <3>7, <3>8 DEF Refer
      <4>2. PICK target : /\ Known(r, k, target)
                          /\ \A j \in DOMAIN target.refs : target.refs[j] # c.id
        BY <3>5 DEF Cleared
      <4>3. docs["agents"][a] # Missing /\ docs["agents"][a] # target
        BY <3>6, <3>8, <4>2 DEF Refer
      <4>4. a \notin Profile
        BY <4>3 DEF Acyclic, NoProfiles
      <4> QED BY <2>2, <3>6, <3>8, <4>1, <4>2, <4>3, <4>4 DEF Known
    <3>9. NoProfiles'
      BY <3>4, <3>6 DEF Acyclic, NoProfiles
    <3>10. ASSUME NEW a \in Id, NEW d \in Id, a # d, Refer(docs', a, d), Refer(docs', d, a)
           PROVE  {docs'["agents"][a].by["enabled"], docs'["agents"][d].by["enabled"]} \in met'
      <4>1. CASE a = c.id
        BY <3>3, <3>7, <3>8, <3>10, <4>1
      <4>2. CASE d = c.id
        <5>1. {r, docs'["agents"][a].by["enabled"]} \in met'
          BY <3>8, <3>10, <4>2
        <5>2. docs'["agents"][d].by["enabled"] = r
          BY <3>3, <3>7, <4>2
        <5>3. \A x, y : {x, y} = {y, x}
          OBVIOUS
        <5> QED BY <5>1, <5>2, <5>3
      <4>3. CASE a # c.id /\ d # c.id
        <5>1. Refer(docs, a, d) /\ Refer(docs, d, a)
          BY <3>6, <3>10, <4>3 DEF Refer
        <5> QED BY <2>2, <3>6, <3>10, <4>3, <5>1 DEF Acyclic, CyclesNeedRace
      <4> QED BY <4>1, <4>2, <4>3
    <3> QED BY <3>9, <3>10 DEF Acyclic, CyclesNeedRace
  <2> QED BY <2>3, <2>4
<1>3. CASE UNCHANGED vars
  BY <1>3 DEF vars, Acyclic, NoProfiles, CyclesNeedRace, Refer
<1>4. CASE Next
  <2>1. PICK p \in Request : Moves(p)
    BY <1>4 DEF Next, Moves, Submits
  <2>2. CASE docs' = docs
    BY <1>1, <2>1, <2>2
  <2>3. CASE /\ Active(p)
             /\ \E s \in Store : \E i, doc, n : Puts(p, s, i, doc, n) /\ Fits(p, s, i, doc, n)
    <3>1. PICK s \in Store : \E i, doc, n : Puts(p, s, i, doc, n) /\ Fits(p, s, i, doc, n)
      BY <2>3
    <3>2. PICK i, doc, n : Puts(p, s, i, doc, n) /\ Fits(p, s, i, doc, n)
      BY <3>1
    <3> QED BY <1>2, <2>1, <2>3, <3>2
  <2> QED BY <2>1, <2>2, <2>3, Effects
<1> QED BY <1>3, <1>4

(* Two agents have each other as tools only if they were saved by requests that
   were under way together. *)
THEOREM CycleSafety == Spec => []CyclesNeedRace
<1>1. Acyclic => CyclesNeedRace
  BY DEF Acyclic
<1> QED BY <1>1, InitTyped, InitTruthful, InitApart, InitAcyclic, TypedStep, TruthfulStep, ApartStep,
        WatchingStep, AcyclicStep, PTL DEF Spec

----------------------------------------------------------------------------
(* A request during which nobody else writes *)

Searches(c) == c.op \in {"update_skill", "delete_skill"} /\ c.scope = "search"
Exists(q)   == docs[q.store][q.call.id] # Missing

(* What it has read is what the store has. *)
ReadsDocs(q) ==
    /\ Len(q.seen) \in 0 .. Len(q.call.refs) - 1
    /\ q.seen = [k \in 1 .. Len(q.seen) |-> q.seen[k]]
    /\ \A k \in 1 .. Len(q.seen) : q.seen[k] = Target(docs, q.call.refs[k])
    /\ q.call.refs[Len(q.seen) + 1] \notin Profile

(* Every check it has passed, and everything it has read, holds of the store as it
   is. *)
Exact(q) ==
    LET c == q.call IN
    /\ ~InvalidAtOnce(c)
    /\ c.scope = "none" \/ c.op \in {"update_skill", "delete_skill"}
    /\ IF q.pc \in {"scope_shared", "scope_user"} THEN Searches(c) ELSE q.store = Home(c, docs)
    /\ q.pc = "scope_user" => docs["skills"][c.id] = Missing
    /\ q.pc = "existing" /\ c.op \in SkillWrites => c.valid = "yes"
    /\ q.pc = "list_user_skills" => q.known = Present("skills")
    /\ q.pc = "target" => ReadsDocs(q) /\ q.known = Present("skills") \cup Present("user_skills")
    /\ q.pc \in {"list_skills", "list_user_skills", "target", "wrapper", "upsert"}
          /\ c.op \in MustExist => Exists(q)
    /\ q.pc \in {"insert", "wrapper", "upsert"} => SelfValid(c, docs)
    /\ q.pc = "insert" /\ c.op = "create_user_skill" => docs["skills"][c.id] = Missing
    /\ q.pc = "upsert" => /\ q.got = docs[q.store][c.id]
                          /\ c.op = "post_directive" => ~Exists(q)

Exactly == \A r \in Request : Active(r) /\ ~Seeds(req[r].call) /\ alone[r] => Exact(req[r])

(* When it is refused, that is the refusal of the whole call. *)
Refuses(q, outcome) == Refusal(q.call, docs) = outcome /\ outcome # "none"

(* The five reasons to refuse a call, and none. *)
LEMMA RefusalCases ==
    ASSUME NEW c, NEW D, ~InvalidAtOnce(c)
    PROVE  LET absent == D[Home(c, D)][c.id] = Missing
           IN  /\ Removes(c) /\ absent =>
                     Refusal(c, D) = IF c.op \in {"delete_agent", "delete_customization"}
                                     THEN "nothing" ELSE "not_found"
               /\ Removes(c) /\ ~absent => Refusal(c, D) = "none"
               /\ c.op \in MustExist /\ absent => Refusal(c, D) = "not_found"
               /\ c.op \in MustExist /\ ~absent =>
                     Refusal(c, D) = IF SelfValid(c, D) THEN "none" ELSE "invalid"
               /\ c.op = "create_agent" /\ ~SelfValid(c, D) => Refusal(c, D) = "invalid"
               /\ Creates(c) /\ Taken(c, D) /\ (c.op = "create_agent" => SelfValid(c, D)) =>
                     Refusal(c, D) = "conflict"
               /\ Creates(c) /\ ~Taken(c, D) =>
                     Refusal(c, D) = IF SelfValid(c, D) THEN "none" ELSE "invalid"
               /\ ~Removes(c) /\ c.op \notin MustExist /\ ~Creates(c) =>
                     Refusal(c, D) = IF SelfValid(c, D) THEN "none" ELSE "invalid"
<1> DEFINE absent == D[Home(c, D)][c.id] = Missing
           self == SelfValid(c, D)
           taken == Taken(c, D)
<1>1. Refusal(c, D) =
        IF Removes(c) /\ absent
        THEN IF c.op \in {"delete_agent", "delete_customization"} THEN "nothing" ELSE "not_found"
        ELSE IF c.op \in MustExist /\ absent THEN "not_found"
        ELSE IF c.op = "create_agent" /\ ~self THEN "invalid"
        ELSE IF Creates(c) /\ taken /\ (c.op = "create_agent" => self) THEN "conflict"
        ELSE IF Removes(c) \/ self THEN "none" ELSE "invalid"
  BY DEF Refusal, Removes, MustExist, Creates
<1> HIDE DEF absent, self, taken
<1>2. /\ Removes(c) => c.op \notin MustExist /\ ~Creates(c) /\ c.op # "create_agent"
      /\ c.op \in MustExist => ~Creates(c) /\ c.op # "create_agent"
      /\ c.op = "create_agent" => Creates(c)
  BY DEF Removes, MustExist, Creates
<1> QED BY <1>1, <1>2 DEF absent, self, taken

(* Where the store is the same, so is all this. *)
LEMMA ExactAt ==
    ASSUME NEW r \in Request, NEW n, docs' = docs, req'[r] = n, Exact(n)
    PROVE  Exact(req[r])'
<1>1. \A s : Present(s)' = Present(s)
  BY DEF Present
<1>2. \A q : ReadsDocs(q) => ReadsDocs(q)'
  BY DEF ReadsDocs
<1> QED BY <1>1, <1>2 DEF Exact, Exists

(* The validation of an agent, against all it refers to. *)
LEMMA AcceptsDefinition ==
    ASSUME Typed, NEW state, state.call \in Call,
           state.known = Present("skills") \cup Present("user_skills"),
           NEW targets, Len(targets) = Len(state.call.refs),
           targets = [k \in 1 .. Len(targets) |-> targets[k]],
           \A k \in 1 .. Len(targets) : targets[k] = Target(docs, state.call.refs[k])
    PROVE  Accepts(state, targets) <=> DefinitionValid(state.call, docs)
<1> DEFINE c == state.call
<1>1. DOMAIN c.refs = 1 .. Len(c.refs) /\ c.skills \subseteq Id
  BY DEF Call
<1>2. targets = [k \in DOMAIN c.refs |-> Target(docs, c.refs[k])]
  BY <1>1
<1>3. DOMAIN docs["skills"] = Id /\ DOMAIN docs["user_skills"] = Id
  BY DEF Typed, Store, ByIdStore, UserStore
<1>4. c.skills \subseteq state.known <=>
        \A k \in c.skills : docs["skills"][k] # Missing \/ docs["user_skills"][k] # Missing
  BY <1>1, <1>3 DEF Present
<1> QED BY <1>2, <1>4 DEF Accepts, DefinitionValid

(* A call of the store that reads is right: the request goes on with what the store
   has, or the whole call is to be refused. *)
Right(r, n) ==
    \/ n.pc # "done" /\ Exact(n)
    \/ n.pc = "done" /\ Refuses(req[r], n.outcome)

(* A request under way that nobody has disturbed. *)
Undisturbed(r) == Underway(req[r]) /\ Shape(req[r]) /\ ~Seeds(req[r].call) /\ Exact(req[r])

(* What is refused. *)
LEMMA RefusedRight ==
    ASSUME NEW r \in Request, Shape(req[r]), NEW outcome, Refuses(req[r], outcome)
    PROVE  Right(r, Answer(r, outcome))
BY AnswerFields DEF Right

(* The scope of a skill is found. *)
LEMMA InScopeRight ==
    ASSUME NEW r \in Request, Undisturbed(r), req[r].pc \in {"scope_shared", "scope_user"},
           NEW s, s = Home(req[r].call, docs), docs[s][req[r].call.id] # Missing
    PROVE  Right(r, InScope(r, s))
<1> DEFINE c == req[r].call
           n(pc) == [GoTo(r, pc) EXCEPT !.store = s]
<1>1. ASSUME NEW pc
      PROVE  /\ n(pc).pc = pc /\ n(pc).call = c /\ n(pc).store = s
  BY DEF Undisturbed, GoTo, Shape, Fields
<1> HIDE DEF n
<1>2. ~InvalidAtOnce(c) /\ Searches(c)
  BY DEF Undisturbed, Exact
<1>3. CASE Removes(c)
  <2>1. InScope(r, s) = n("remove")
    BY <1>3 DEF InScope, n
  <2>2. Exact(n("remove"))
    BY <1>1, <1>2 DEF Exact, Searches
  <2> QED BY <1>1, <2>1, <2>2 DEF Right
<1>4. CASE ~Removes(c) /\ c.valid # "yes"
  <2>1. Refusal(c, docs) = "invalid"
    <3>1. c.op \in MustExist /\ ~SelfValid(c, docs)
      BY <1>2, <1>4 DEF Searches, Removes, MustExist, SelfValid, Defines
    <3> QED BY <1>2, <3>1, RefusalCases
  <2> QED BY <1>4, <2>1, RefusedRight DEF InScope, Refuses, Undisturbed
<1>5. CASE ~Removes(c) /\ c.valid = "yes"
  <2>1. InScope(r, s) = n("existing")
    BY <1>5 DEF InScope, n
  <2>2. Exact(n("existing"))
    BY <1>1, <1>2, <1>5 DEF Exact, Searches
  <2> QED BY <1>1, <2>1, <2>2 DEF Right
<1> QED BY <1>3, <1>4, <1>5

(* Searching for the scope of a skill. *)
LEMMA ScopeRight ==
    ASSUME NEW r \in Request, Undisturbed(r), ScopeShared(r) \/ ScopeUser(r)
    PROVE  \E n : Read(r, n) /\ Right(r, n)
<1> DEFINE c == req[r].call
<1>1. ~InvalidAtOnce(c) /\ Searches(c) /\ req[r].pc \in {"scope_shared", "scope_user"}
  BY DEF Undisturbed, Exact, ScopeShared, ScopeUser, At
<1>2. ASSUME ScopeShared(r), docs["skills"][c.id] # Missing
      PROVE  Right(r, InScope(r, "skills"))
  BY <1>1, <1>2, InScopeRight DEF Home, Searches
<1>3. ASSUME ScopeShared(r), docs["skills"][c.id] = Missing
      PROVE  Right(r, GoTo(r, "scope_user"))
  <2>1. GoTo(r, "scope_user").pc = "scope_user" /\ GoTo(r, "scope_user").call = c
    BY GoToFields DEF Undisturbed
  <2> HIDE DEF c
  <2> DEFINE n == GoTo(r, "scope_user")
  <2> HIDE DEF n
  <2>2. n.pc = "scope_user" /\ n.call = c
    BY <2>1 DEF n
  <2>3. c.scope = "none" \/ c.op \in {"update_skill", "delete_skill"}
    BY <1>1 DEF Searches
  <2>4. Exact(n)
    BY <1>1, <1>3, <2>2, <2>3 DEF Exact
  <2> QED BY <2>2, <2>4 DEF Right, n
<1>4. ASSUME ScopeUser(r)
      PROVE  Home(c, docs) = "user_skills"
  BY <1>1, <1>4 DEF Home, Searches, Undisturbed, Exact, ScopeUser, At
<1>5. ASSUME ScopeUser(r), docs["user_skills"][c.id] # Missing
      PROVE  Right(r, InScope(r, "user_skills"))
  BY <1>1, <1>4, <1>5, InScopeRight
<1>6. ASSUME ScopeUser(r), docs["user_skills"][c.id] = Missing
      PROVE  Right(r, Answer(r, "not_found"))
  <2>1. Removes(c) \/ c.op \in MustExist
    BY <1>1 DEF Searches, Removes, MustExist
  <2>2. c.op \notin {"delete_agent", "delete_customization"}
    BY <1>1 DEF Searches
  <2>3. Refusal(c, docs) = "not_found"
    BY <1>1, <1>4, <1>6, <2>1, <2>2, RefusalCases
  <2> QED BY <2>3, RefusedRight DEF Refuses, Undisturbed
<1> QED BY <1>2, <1>3, <1>5, <1>6 DEF ScopeShared, ScopeUser

(* Checking the shared skills for the name. *)
LEMMA CheckRight ==
    ASSUME NEW r \in Request, Undisturbed(r), CheckShared(r)
    PROVE  \E n : Read(r, n) /\ Right(r, n)
<1> DEFINE c == req[r].call
           n == GoTo(r, "insert")
<1>1. /\ c.op = "create_user_skill" /\ c.scope = "none" /\ ~InvalidAtOnce(c)
      /\ req[r].store = Home(c, docs)
  BY DEF Undisturbed, Underway, Exact, CheckShared, At
<1>2. c.valid = "yes" /\ SelfValid(c, docs)
  BY <1>1 DEF InvalidAtOnce, SkillWrites, SelfValid, Defines
<1>3. CASE docs["skills"][c.id] # Missing
  <2>1. Refusal(c, docs) = "conflict"
    BY <1>1, <1>3, RefusalCases DEF Creates, Taken
  <2> QED BY <1>3, <2>1, RefusedRight DEF CheckShared, Refuses, Undisturbed
<1>4. CASE docs["skills"][c.id] = Missing
  <2>1. n.pc = "insert" /\ n.call = c /\ n.store = req[r].store
    BY GoToFields DEF Undisturbed
  <2>2. Read(r, n)
    BY <1>4 DEF CheckShared
  <2> HIDE DEF n
  <2>3. Exact(n)
    BY <1>1, <1>2, <1>4, <2>1 DEF Exact
  <2> QED BY <2>1, <2>2, <2>3 DEF Right
<1> QED BY <1>3, <1>4

(* Reading the document that is to be written. *)
LEMMA ExistingRight ==
    ASSUME NEW r \in Request, Undisturbed(r), Existing(r)
    PROVE  \E n : Read(r, n) /\ Right(r, n)
<1> DEFINE q == req[r]
           c == q.call
           to == IF Defines(c) THEN "list_skills" ELSE Storing(r)
           n == [GoTo(r, to) EXCEPT !.got = Own(r)]
<1>1. /\ ~InvalidAtOnce(c) /\ c.op \notin InsertOps /\ ~Removes(c)
      /\ q.store = Home(c, docs)
      /\ c.scope = "none" \/ c.op \in {"update_skill", "delete_skill"}
      /\ q.store = "directives" <=> c.op \in DirectiveOps
  BY DEF Undisturbed, Underway, Exact, Existing, At
<1>2. Own(r) = docs[Home(c, docs)][c.id]
  BY <1>1 DEF Own
<1>3. Creates(c) <=> c.op = "post_directive"
  BY <1>1 DEF Creates, InsertOps
<1>4. Taken(c, docs) /\ Creates(c) <=> c.op = "post_directive" /\ Own(r) # Missing
  BY <1>2, <1>3 DEF Taken
<1>5. CASE c.op = "post_directive" /\ Own(r) # Missing
  <2>1. Read(r, Answer(r, "conflict"))
    BY <1>5 DEF Existing, MustExist
  <2>2. Refusal(c, docs) = "conflict"
    BY <1>1, <1>3, <1>4, <1>5, RefusalCases
  <2> QED BY <2>1, <2>2, RefusedRight DEF Refuses, Undisturbed
<1>6. CASE c.op \in MustExist /\ Own(r) = Missing
  <2>1. Read(r, Answer(r, "not_found"))
    BY <1>6 DEF Existing, MustExist
  <2>2. Refusal(c, docs) = "not_found"
    BY <1>1, <1>2, <1>6, RefusalCases
  <2> QED BY <2>1, <2>2, RefusedRight DEF Refuses, Undisturbed
<1>7. CASE /\ ~(c.op = "post_directive" /\ Own(r) # Missing)
           /\ ~(c.op \in MustExist /\ Own(r) = Missing)
           /\ BadFields(c)
  <2>1. Read(r, Answer(r, "invalid"))
    BY <1>7 DEF Existing
  <2>2. ~SelfValid(c, docs)
    BY <1>7 DEF BadFields, SelfValid
  <2>3. Refusal(c, docs) = "invalid"
    BY <1>1, <1>2, <1>3, <1>4, <1>7, <2>2, RefusalCases
  <2> QED BY <2>1, <2>3, RefusedRight DEF Refuses, Undisturbed
<1>8. CASE /\ ~(c.op = "post_directive" /\ Own(r) # Missing)
           /\ ~(c.op \in MustExist /\ Own(r) = Missing)
           /\ ~BadFields(c)
  <2>1. Read(r, n)
    BY <1>8 DEF Existing
  <2>2. /\ n.pc = to /\ n.call = c /\ n.store = q.store /\ n.got = Own(r)
    BY DEF Undisturbed, GoTo, Shape, Fields
  <2>3. to \in {"list_skills", "wrapper", "upsert"} /\ (to # "list_skills" => ~Defines(c))
    BY DEF Storing
  <2>4. to # "list_skills" => SelfValid(c, docs)
    BY <1>8, <2>3 DEF BadFields, SelfValid
  <2> HIDE DEF n, to
  <2>5. Own(r) = docs[n.store][n.call.id]
    BY <2>2 DEF Own
  <2>6. Exact(n)
    BY <1>1, <1>8, <2>2, <2>3, <2>4, <2>5 DEF Exact, Exists
  <2> QED BY <2>1, <2>2, <2>3, <2>6 DEF Right
<1> QED BY <1>5, <1>6, <1>7, <1>8

(* Going on with the validation of an agent. *)
LEMMA ProceedRight ==
    ASSUME Typed, NEW r \in Request, Undisturbed(r), Defines(req[r].call),
           req[r].pc \in {"list_user_skills", "target"},
           NEW state, Shape(state), state.call = req[r].call, state.store = req[r].store,
           state.known = Present("skills") \cup Present("user_skills"),
           NEW seen, Len(seen) \in 0 .. Len(state.call.refs),
           \A k \in 1 .. Len(seen) : seen[k] = Target(docs, state.call.refs[k])
    PROVE  Right(r, Proceed(r, state, seen))
<1> DEFINE n == Proceed(r, state, seen)
           c == req[r].call
           all == n.seen
<1>0. /\ c \in Call /\ ~InvalidAtOnce(c) /\ req[r].store = Home(c, docs)
      /\ c.scope = "none" \/ c.op \in {"update_skill", "delete_skill"}
      /\ c.op \in MustExist => Exists(req[r])
  BY DEF Undisturbed, Underway, Exact
<1>1. GoesOn(state, seen, n)
  BY <1>0, ProceedGoes
<1> SUFFICES Right(r, n)
  OBVIOUS
<1> HIDE DEF n
<1>2. /\ n.call = c /\ n.store = req[r].store /\ n.known = state.known
      /\ Len(all) \in Len(seen) .. Len(c.refs) /\ all = [k \in 1 .. Len(all) |-> all[k]]
      /\ Len(all) < Len(c.refs) => c.refs[Len(all) + 1] \notin Profile
  BY <1>1 DEF GoesOn, Adds
<1>3. \A k \in 1 .. Len(all) : all[k] = Target(docs, c.refs[k])
  <2> SUFFICES ASSUME NEW k \in 1 .. Len(all) PROVE all[k] = Target(docs, c.refs[k])
    OBVIOUS
  <2>1. CASE k <= Len(seen) /\ all[k] = seen[k]
    BY <1>2, <2>1
  <2>2. CASE c.refs[k] \in Profile /\ all[k] = [refs |-> ProfileRefs[c.refs[k]]]
    BY <2>2 DEF Target
  <2> QED BY <1>1, <2>1, <2>2 DEF GoesOn, Adds
<1>4. CASE Len(all) < Len(c.refs) /\ n.pc = "target"
  <2>1. Len(all) \in 0 .. Len(c.refs) - 1
    BY <1>0, <1>2, <1>4 DEF Call
  <2>2. ReadsDocs(n)
    BY <1>2, <1>3, <1>4, <2>1 DEF ReadsDocs
  <2>3. Exists(n) <=> Exists(req[r])
    BY <1>2 DEF Exists
  <2>4. Exact(n)
    BY <1>0, <1>2, <1>4, <2>2, <2>3 DEF Exact
  <2> QED BY <1>4, <2>4 DEF Right
<1>5. SelfValid(c, docs) <=> DefinitionValid(c, docs)
  BY DEF SelfValid
<1>6. CASE /\ Len(all) = Len(c.refs) /\ Accepts(state, all)
           /\ n.pc = IF c.op = "create_agent" THEN "insert" ELSE "wrapper"
  <2>1. SelfValid(c, docs)
    BY <1>0, <1>2, <1>3, <1>5, <1>6, AcceptsDefinition
  <2>2. Exists(n) <=> Exists(req[r])
    BY <1>2 DEF Exists
  <2>3. n.pc = "insert" => c.op # "create_user_skill"
    BY DEF Defines
  <2>4. Exact(n)
    BY <1>0, <1>2, <1>6, <2>1, <2>2, <2>3 DEF Exact
  <2> QED BY <1>6, <2>4 DEF Right
<1>7. CASE /\ Len(all) = Len(c.refs) /\ ~Accepts(state, all)
           /\ n.pc = "done" /\ n.outcome = "invalid"
  <2>1. ~SelfValid(c, docs)
    BY <1>0, <1>2, <1>3, <1>5, <1>7, AcceptsDefinition
  <2>2. c.op = "create_agent" \/ c.op \in MustExist \/ (~Removes(c) /\ ~Creates(c))
    BY DEF Defines, MustExist, Removes, Creates
  <2>3. c.op \in MustExist => docs[Home(c, docs)][c.id] # Missing
    BY <1>0 DEF Exists
  <2>4. Refusal(c, docs) = "invalid"
    BY <1>0, <2>1, <2>2, <2>3, RefusalCases
  <2> QED BY <1>7, <2>4 DEF Right, Refuses
<1> QED BY <1>1, <1>4, <1>6, <1>7 DEF GoesOn

(* The three calls of the validation. *)
LEMMA ValidationRight ==
    ASSUME Typed, NEW r \in Request, Undisturbed(r),
           ListShared(r) \/ ListUserSkills(r) \/ GetTarget(r)
    PROVE  \E n : Read(r, n) /\ Right(r, n)
<1> DEFINE q == req[r]
           c == q.call
<1>1. Defines(c) /\ c \in Call
  BY DEF Undisturbed, Underway, ListShared, ListUserSkills, GetTarget, At
<1>2. CASE ListShared(r)
  <2> DEFINE n == [GoTo(r, "list_user_skills") EXCEPT !.known = Present("skills")]
  <2>1. Read(r, n) /\ At(r, "list_skills")
    BY <1>2 DEF ListShared
  <2>2. /\ n.pc = "list_user_skills" /\ n.call = c /\ n.store = q.store
        /\ n.known = Present("skills")
    BY DEF Undisturbed, GoTo, Shape, Fields
  <2> HIDE DEF n
  <2>3. Exists(n) <=> Exists(q)
    BY <2>2 DEF Exists
  <2>4. Exact(n)
    BY <2>1, <2>2, <2>3 DEF Undisturbed, Exact, At
  <2> QED BY <2>1, <2>2, <2>4 DEF Right
<1>3. CASE ListUserSkills(r)
  <2> DEFINE state == [q EXCEPT !.known = @ \cup Present("user_skills")]
  <2>1. Read(r, Proceed(r, state, <<>>)) /\ q.pc = "list_user_skills"
    BY <1>3 DEF ListUserSkills, At
  <2>2. /\ Shape(state) /\ state.call = c /\ state.store = q.store
        /\ state.known = Present("skills") \cup Present("user_skills")
    <3>1. q.known = Present("skills")
      BY <2>1 DEF Undisturbed, Exact
    <3> QED BY <3>1 DEF Undisturbed, Shape, Fields
  <2> HIDE DEF state
  <2>3. Len(<<>>) = 0 /\ 0 \in 0 .. Len(c.refs)
    BY <1>1 DEF Call
  <2> QED BY <1>1, <2>1, <2>2, <2>3, ProceedRight
<1>4. CASE GetTarget(r)
  <2> DEFINE m == Len(q.seen) + 1
             t == docs["agents"][c.refs[m]]
             seen == Append(q.seen, t)
  <2>1. Read(r, Proceed(r, q, seen)) /\ q.pc = "target"
    BY <1>4 DEF GetTarget, At
  <2>2. ReadsDocs(q) /\ q.known = Present("skills") \cup Present("user_skills")
    BY <2>1 DEF Undisturbed, Exact
  <2>3. Len(c.refs) \in Nat /\ m \in 1 .. Len(c.refs) /\ Len(q.seen) \in Nat
    BY <1>1, <2>2 DEF Call, ReadsDocs
  <2>4. /\ Len(seen) = m
        /\ seen = [k \in 1 .. m |-> IF k = m THEN t ELSE q.seen[k]]
    BY <2>2, <2>3, SequenceOf DEF ReadsDocs
  <2> HIDE DEF seen
  <2>5. ASSUME NEW k \in 1 .. Len(seen) PROVE seen[k] = Target(docs, c.refs[k])
    <3>1. CASE k = m
      <4>1. c.refs[m] \notin Profile
        BY <2>2 DEF ReadsDocs
      <4> QED BY <2>3, <2>4, <3>1, <4>1 DEF Target
    <3>2. CASE k # m
      <4>1. k \in 1 .. Len(q.seen) /\ seen[k] = q.seen[k]
        BY <2>3, <2>4, <3>2
      <4> QED BY <2>2, <4>1 DEF ReadsDocs
    <3> QED BY <3>1, <3>2
  <2>6. Len(seen) \in 0 .. Len(c.refs)
    BY <2>3, <2>4
  <2>7. Shape(q)
    BY DEF Undisturbed
  <2> QED BY <1>1, <2>1, <2>2, <2>5, <2>6, <2>7, ProceedRight
<1> QED BY <1>2, <1>3, <1>4

(* Reading the created_at that is kept. *)
LEMMA WrapperRight ==
    ASSUME NEW r \in Request, Undisturbed(r), Wrapper(r)
    PROVE  \E n : Read(r, n) /\ Right(r, n)
<1> DEFINE n == [GoTo(r, "upsert") EXCEPT !.got = Own(r)]
<1>1. /\ req[r].pc = "wrapper" /\ req[r].call.op # "post_directive" /\ Exact(req[r])
  BY DEF Undisturbed, Underway, Wrapper, At, DirectiveOps
<1>2. Read(r, n)
  BY DEF Wrapper
<1>3. /\ n.pc = "upsert" /\ n.call = req[r].call /\ n.store = req[r].store /\ n.got = Own(r)
  BY DEF Undisturbed, GoTo, Shape, Fields
<1> HIDE DEF n
<1>4. n.got = docs[n.store][n.call.id] /\ (Exists(n) <=> Exists(req[r]))
  BY <1>3 DEF Own, Exists
<1>5. Exact(n)
  BY <1>1, <1>3, <1>4 DEF Exact
<1> QED BY <1>2, <1>3, <1>5 DEF Right

(* The calls that store or remove end a request as the whole call would. *)
Ends(r) ==
    LET c == req[r].call IN
    IF Refusal(c, docs) = "none"
    THEN /\ req'[r].outcome = IF Creates(c) THEN "created" ELSE "stored"
         /\ docs' = [docs EXCEPT ![Home(c, docs)][c.id] = Effect(r, c, docs)]
    ELSE req'[r].outcome = Refusal(c, docs) /\ docs' = docs

(* It is the storing or removing call that carries the whole call out. *)
LEMMA StoringEnds ==
    ASSUME Typed, NEW r \in Request, Undisturbed(r), Insert(r) \/ Upsert(r) \/ Remove(r)
    PROVE  Ends(r) /\ At(r, "done")'
<1> DEFINE q == req[r]
           c == q.call
           old == docs[Home(c, docs)][c.id]
<1>1. /\ ~InvalidAtOnce(c) /\ q.pc \in {"insert", "upsert", "remove"}
      /\ q.store = Home(c, docs) /\ Own(r) = old /\ (Exists(q) <=> old # Missing)
  BY DEF Undisturbed, Exact, Insert, Upsert, Remove, At, Own, Exists
<1>2. ASSUME NEW doc, NEW outcome, Write(r, q.store, c.id, doc, Answer(r, outcome))
      PROVE  /\ docs' = [docs EXCEPT ![Home(c, docs)][c.id] = doc]
             /\ req'[r].outcome = outcome /\ req'[r].pc = "done"
  <2>1. /\ docs' = [docs EXCEPT ![q.store][c.id] = doc]
        /\ req' = [req EXCEPT ![r] = Answer(r, outcome)]
    BY <1>2 DEF Write
  <2>2. req'[r] = Answer(r, outcome)
    BY <2>1, Becomes
  <2>3. Answer(r, outcome).outcome = outcome /\ Answer(r, outcome).pc = "done"
    BY AnswerFields DEF Undisturbed
  <2> QED BY <1>1, <2>1, <2>2, <2>3
<1>3. ASSUME NEW outcome, Read(r, Answer(r, outcome))
      PROVE  docs' = docs /\ req'[r].outcome = outcome /\ req'[r].pc = "done"
  <2>1. docs' = docs /\ req' = [req EXCEPT ![r] = Answer(r, outcome)]
    BY <1>3 DEF Read
  <2>2. req'[r] = Answer(r, outcome)
    BY <2>1, Becomes
  <2>3. Answer(r, outcome).outcome = outcome /\ Answer(r, outcome).pc = "done"
    BY AnswerFields DEF Undisturbed
  <2> QED BY <2>1, <2>2, <2>3
<1>4. CASE Insert(r)
  <2>1. /\ Creates(c) /\ SelfValid(c, docs) /\ ~Removes(c) /\ c.op # "patch_directive"
        /\ c.op = "create_user_skill" => docs["skills"][c.id] = Missing
    BY <1>4 DEF Undisturbed, Underway, Exact, Insert, At, InsertOps, Creates, Removes
  <2>2. CASE old = Missing
    <3>1. Done(r) = "created"
      BY <2>1 DEF Done, Creates
    <3>2. ~Taken(c, docs)
      BY <2>1, <2>2 DEF Taken
    <3>3. Refusal(c, docs) = "none"
      BY <1>1, <2>1, <3>2, RefusalCases
    <3>4. Effect(r, c, docs) = Doc(r, r, c)
      BY <2>1, <2>2 DEF Effect
    <3>5. Write(r, q.store, c.id, Doc(r, r, c), Answer(r, Done(r)))
      BY <1>1, <1>4, <2>2 DEF Insert
    <3> QED BY <1>2, <2>1, <3>1, <3>3, <3>4, <3>5 DEF Ends, At
  <2>3. CASE old # Missing
    <3>1. Refusal(c, docs) = "conflict"
      BY <1>1, <2>1, <2>3, RefusalCases DEF Taken
    <3>2. Read(r, Answer(r, "conflict"))
      BY <1>1, <1>4, <2>3 DEF Insert
    <3> QED BY <1>3, <3>1, <3>2 DEF Ends, At
  <2> QED BY <2>2, <2>3
<1>5. CASE Upsert(r)
  <2>1. /\ SelfValid(c, docs) /\ ~Removes(c) /\ c.op \notin InsertOps
        /\ q.got = old /\ (c.op \in MustExist => old # Missing)
        /\ c.op = "post_directive" => old = Missing
    BY <1>1, <1>5 DEF Undisturbed, Underway, Exact, Upsert, At
  <2>2. Creates(c) <=> c.op = "post_directive"
    BY <2>1 DEF Creates, InsertOps
  <2>3. Creates(c) => ~Taken(c, docs)
    BY <2>1, <2>2 DEF Taken
  <2>4. Refusal(c, docs) = "none"
    BY <1>1, <2>1, <2>3, RefusalCases
  <2>5. Done(r) = IF Creates(c) THEN "created" ELSE "stored"
    BY DEF Done, Creates
  <2>6. Merged(r) = Effect(r, c, docs)
    BY <2>1 DEF Merged, Effect
  <2>7. Write(r, q.store, c.id, Merged(r), Answer(r, Done(r)))
    BY <1>5 DEF Upsert
  <2> QED BY <1>2, <2>4, <2>5, <2>6, <2>7 DEF Ends, At
<1>6. CASE Remove(r)
  <2>1. Removes(c) /\ ~Creates(c) /\ Effect(r, c, docs) = Missing
    BY <1>6 DEF Undisturbed, Underway, Remove, At, Removes, Creates, Effect
  <2>2. CASE old = Missing
    <3>1. c.op \in {"delete_agent", "delete_customization"} <=>
              q.store \in {"agents", "customizations"}
      <4>1. CASE Searches(c)
        <5>1. q.store \in {"skills", "user_skills"}
          BY <1>1, <4>1 DEF Home, Searches
        <5> QED BY <4>1, <5>1 DEF Searches
      <4>2. CASE ~Searches(c)
        <5>1. q.store = StoreOf(c)
          BY <1>1, <4>2 DEF Home, Searches
        <5>2. c.scope = "none" \/ c.op \in {"update_skill", "delete_skill"}
          BY DEF Undisturbed, Exact
        <5>3. CASE c.op = "delete_skill"
          <6>1. StoreOf(c) \in {"skills", "user_skills"}
            BY <5>3 DEF StoreOf
          <6> QED BY <5>1, <5>3, <6>1
        <5>4. CASE c.op = "delete_directive"
          <6>1. StoreOf(c) = "directives"
            BY <5>2, <5>4 DEF StoreOf
          <6> QED BY <5>1, <5>4, <6>1
        <5>5. CASE c.op = "delete_agent"
          <6>1. StoreOf(c) = "agents"
            BY <5>2, <5>5 DEF StoreOf
          <6> QED BY <5>1, <5>5, <6>1
        <5>6. CASE c.op = "delete_customization"
          <6>1. StoreOf(c) = "customizations"
            BY <5>2, <5>6 DEF StoreOf
          <6> QED BY <5>1, <5>6, <6>1
        <5> QED BY <2>1, <5>3, <5>4, <5>5, <5>6 DEF Removes
      <4> QED BY <4>1, <4>2
    <3>2. Refusal(c, docs) = IF q.store \in {"agents", "customizations"}
                             THEN "nothing" ELSE "not_found"
      BY <1>1, <2>1, <2>2, <3>1, RefusalCases
    <3>3. Read(r, Answer(r, Refusal(c, docs)))
      BY <1>1, <1>6, <2>2, <3>2 DEF Remove
    <3> QED BY <1>3, <3>2, <3>3 DEF Ends, At
  <2>3. CASE old # Missing
    <3>1. Refusal(c, docs) = "none"
      BY <1>1, <2>1, <2>3, RefusalCases
    <3>2. Write(r, q.store, c.id, Missing, Answer(r, "stored"))
      BY <1>1, <1>6, <2>3 DEF Remove
    <3> QED BY <1>2, <2>1, <3>1, <3>2 DEF Ends, At
  <2> QED BY <2>2, <2>3
<1> QED BY <1>4, <1>5, <1>6

(* The first state of a request. *)
LEMMA SubmitExact ==
    ASSUME Typed, NEW r \in Request, Submits(r), Active(r)', ~Seeds(req'[r].call)
    PROVE  Exact(req[r])'
<1>1. PICK c \in menu : Submit(r, c)
  BY DEF Submits
<1> DEFINE pc == IF InvalidAtOnce(c) THEN "done" ELSE FirstCall(c)
           outcome == IF InvalidAtOnce(c) THEN "invalid" ELSE "none"
           n == [Unborn EXCEPT !.call = c, !.store = StoreOf(c), !.pc = pc, !.outcome = outcome]
<1>2. n.call = c /\ n.store = StoreOf(c) /\ n.pc = pc
  BY DEF Unborn
<1>3. req'[r] = n /\ docs' = docs
  BY <1>1, Becomes DEF Submit
<1> HIDE DEF n
<1>4. /\ ~InvalidAtOnce(c) /\ ~Seeds(c) /\ n.pc = FirstCall(c)
      /\ c.scope = "none" \/ c.op \in {"update_skill", "delete_skill"}
  BY <1>2, <1>3, LibraryAssumption DEF Active, Typed
<1>5. n.pc = "scope_shared" <=> Searches(c)
  BY <1>4 DEF FirstCall, Searches
<1>6. ~Searches(c) => Home(c, docs) = StoreOf(c)
  BY DEF Home, Searches
<1>7. /\ n.pc \notin {"scope_user", "list_user_skills", "target", "upsert"}
      /\ n.pc \in {"list_skills", "wrapper"} => c.op \notin MustExist
      /\ n.pc = "insert" => c.op = "create_skill"
      /\ n.pc = "wrapper" => c.op = "save_profile"
  BY <1>4 DEF FirstCall, MustExist
<1>8. c.op \in SkillWrites \cup {"save_profile"} /\ ~Searches(c) => c.valid = "yes"
  BY <1>4 DEF InvalidAtOnce, Searches, SkillWrites
<1>9. n.pc \in {"insert", "wrapper"} => SelfValid(c, docs)
  BY <1>5, <1>7, <1>8 DEF SelfValid, Defines, SkillWrites
<1>10. Exact(n)
  BY <1>2, <1>4, <1>5, <1>6, <1>7, <1>8, <1>9 DEF Exact
<1> QED BY <1>3, <1>10, ExactAt

(* One step of a request that nobody has disturbed: it is right, or it fails. *)
LEMMA UndisturbedStep ==
    ASSUME Typed, NEW r \in Request, Undisturbed(r), Moves(r)
    PROVE  \/ req'[r].outcome = "unavailable" /\ At(r, "done")'
           \/ Ends(r) /\ At(r, "done")'
           \/ docs' = docs /\ Exact(req[r])' /\ ~At(r, "done")'
<1>0. Active(r)
  BY DEF Undisturbed, Underway, Active
<1>1. ASSUME FailBefore(r) \/ AnswerLost(r) PROVE req'[r].outcome = "unavailable" /\ At(r, "done")'
  <2>1. req' = [req EXCEPT ![r] = Answer(r, "unavailable")]
    BY <1>1 DEF FailBefore, AnswerLost
  <2>2. req'[r] = Answer(r, "unavailable")
    BY <2>1, Becomes
  <2>3. Answer(r, "unavailable").outcome = "unavailable" /\ Answer(r, "unavailable").pc = "done"
    BY AnswerFields DEF Undisturbed
  <2> QED BY <2>2, <2>3 DEF At
<1>2. CASE Insert(r) \/ Upsert(r) \/ Remove(r)
  BY <1>2, StoringEnds
<1>3. ASSUME NEW n, Read(r, n), Right(r, n)
      PROVE  \/ Ends(r) /\ At(r, "done")'
             \/ docs' = docs /\ Exact(req[r])' /\ ~At(r, "done")'
  <2>1. req'[r] = n /\ docs' = docs
    BY <1>3, Becomes DEF Read
  <2>2. CASE n.pc # "done" /\ Exact(n)
    BY <2>1, <2>2, ExactAt DEF At
  <2>3. CASE n.pc = "done" /\ Refuses(req[r], n.outcome)
    BY <2>1, <2>3 DEF Ends, Refuses, At
  <2> QED BY <1>3, <2>2, <2>3 DEF Right
<1>4. ~Submits(r) /\ ~List(r) /\ ~Seed(r)
  BY <1>0, Submitted DEF Undisturbed, Underway, List, Seed, At, Active
<1>5. CASE \/ ScopeShared(r) \/ ScopeUser(r) \/ CheckShared(r) \/ Existing(r)
           \/ ListShared(r) \/ ListUserSkills(r) \/ GetTarget(r) \/ Wrapper(r)
  <2>1. \E n : Read(r, n) /\ Right(r, n)
    BY <1>5, ScopeRight, CheckRight, ExistingRight, ValidationRight, WrapperRight
  <2> QED BY <1>3, <2>1
<1> QED BY <1>1, <1>2, <1>4, <1>5 DEF Moves, Step

(* To begin with, nothing is under way. *)
LEMMA InitExactly == Init => Exactly
BY DEF Init, Exactly, Active, Unborn

(* Every step keeps what an undisturbed request knows. *)
LEMMA ExactlyStep == Typed /\ Exactly /\ [Next]_vars => Exactly'
<1> SUFFICES ASSUME Typed, Exactly, [Next]_vars PROVE Exactly'
  OBVIOUS
<1>1. ASSUME NEW p \in Request, Moves(p), NEW r \in Request, r # p,
             Active(r)', ~Seeds(req'[r].call), alone'[r]
      PROVE  Exact(req[r])'
  <2>1. req'[r] = req[r] /\ Active(r)
    BY <1>1, Effects DEF Active
  <2>2. docs' = docs /\ alone' = alone
    BY <1>1, <2>1, Effects
  <2> QED BY <1>1, <2>1, <2>2, ExactAt DEF Exactly
<1>2. ASSUME NEW r \in Request, Moves(r), Active(r)', ~Seeds(req'[r].call), alone'[r]
      PROVE  Exact(req[r])'
  <2>1. CASE At(r, "unborn")
    <3>1. Submits(r)
      BY <1>2, <2>1 DEF Moves, Step, ScopeShared, ScopeUser, CheckShared, Existing, ListShared,
         ListUserSkills, GetTarget, Insert, Wrapper, Upsert, Remove, List, Seed, FailBefore,
         AnswerLost, Active, At
    <3> QED BY <1>2, <3>1, SubmitExact
  <2>2. CASE ~At(r, "unborn")
    <3>1. Active(r) /\ req'[r].call = req[r].call /\ alone[r]
      BY <1>2, <2>2, Effects
    <3>2. Undisturbed(r)
      BY <1>2, <3>1, ActiveUnderway DEF Undisturbed, Exactly
    <3> QED BY <1>2, <3>2, UndisturbedStep DEF Active, At
  <2> QED BY <2>1, <2>2
<1>3. CASE UNCHANGED vars
  <2>1. req' = req /\ docs' = docs /\ alone' = alone
    BY <1>3 DEF vars
  <2>2. ASSUME NEW r \in Request, Active(r)', ~Seeds(req'[r].call), alone'[r]
        PROVE  Exact(req[r])'
    BY <2>1, <2>2, ExactAt DEF Exactly, Active
  <2> QED BY <2>2 DEF Exactly
<1>4. CASE Next
  <2>1. PICK p \in Request : Moves(p)
    BY <1>4 DEF Next, Moves, Submits
  <2> QED BY <1>1, <1>2, <2>1 DEF Exactly
<1> QED BY <1>3, <1>4

(* A request during which no other request writes has exactly the effect of its
   call on the store, and the answer that goes with it. *)
THEOREM AloneAtomic == Spec => AloneIsAtomic
<1> DEFINE P == \A r \in Request :
          LET c == req[r].call
              D == docs
          IN  /\ Active(r) /\ ~Seeds(c) /\ alone[r]
              /\ req'[r].pc = "done" /\ req'[r].outcome # "unavailable"
              => IF Refusal(c, D) = "none"
                 THEN /\ req'[r].outcome = IF Creates(c) THEN "created" ELSE "stored"
                      /\ docs' = [D EXCEPT ![Home(c, D)][c.id] = Effect(r, c, D)]
                 ELSE req'[r].outcome = Refusal(c, D) /\ docs' = D
<1>1. ASSUME Typed, Exactly, Next, NEW r \in Request, Active(r), ~Seeds(req[r].call), alone[r],
             req'[r].pc = "done", req'[r].outcome # "unavailable"
      PROVE  Ends(r)
  <2>1. PICK p \in Request : Moves(p)
    BY <1>1 DEF Next, Moves, Submits
  <2>2. p = r
    BY <1>1, <2>1, Effects DEF Active
  <2>3. Undisturbed(r)
    BY <1>1, ActiveUnderway DEF Undisturbed, Exactly
  <2> QED BY <1>1, <2>1, <2>2, <2>3, UndisturbedStep DEF At
<1>2. Typed /\ Exactly /\ [Next]_vars => [P]_vars
  <2> SUFFICES ASSUME Typed, Exactly, Next PROVE P
    OBVIOUS
  <2> QED BY <1>1 DEF Ends
<1>3. AloneIsAtomic <=> [][P]_vars
  BY PTL DEF AloneIsAtomic
<1> HIDE DEF P
<1> QED BY <1>2, <1>3, InitTyped, InitExactly, TypedStep, ExactlyStep, PTL DEF Spec
===============================================================================
