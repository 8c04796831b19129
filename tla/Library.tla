-------------------------------- MODULE Library --------------------------------
(***************************************************************************)
(* What the users and operators of the program keep in the document store: *)
(* the directives (api_routes/autonomous.py, autonomous.py), the shared    *)
(* and the users' skills (skills_manager.py, api_routes/skills.py), the    *)
(* custom agents and the customizations of built-in ones                   *)
(* (definition_creation.py, api_routes/user_data.py), the user profile     *)
(* (tools.py); the repositories under them (cosmos_memory.py,              *)
(* user_data.py); and the seeding of the defaults when a process starts.   *)
(*                                                                         *)
(* A request is a coroutine that makes one call of the store after the     *)
(* other.  The store carries each call out atomically; between two calls   *)
(* of a request, other requests, in this process or another, make theirs.  *)
(* The documents of one user are modelled: no request names another's.     *)
(***************************************************************************)
EXTENDS Integers, Sequences, FiniteSetsExt

CONSTANTS
    Request,      \* requests and start-ups
    Menu,         \* sets of calls: clients take their calls from one of them
    InitialDocs,  \* the contents of the store before
    Id,           \* ids of documents
    Default,      \* the writer of the documents shipped with the program
    Missing,      \* no document
    DefaultIds,   \* per store: the ids of config/autonomous.yaml and skills/
    Profile,      \* ids of the built-in profiles
    ProfileRefs,  \* the agents a built-in profile has as tools
    MaxFailures   \* bound: calls of the store that fail

VARIABLES
    docs,      \* docs[s][i]: document i of container s
    menu,      \* the calls made in this behaviour
    req,       \* req[r]: the call, where it stands, what it has read
    alone,     \* history: no other request has written since r began
    wrote,     \* history: r has written
    met,       \* history: pairs of requests that were under way together
    failures   \* calls that failed so far

vars == <<docs, menu, req, alone, wrote, met, failures>>

ByIdStore == {"directives", "skills"}
UserStore == {"user_skills", "agents", "customizations", "profiles"}
Store     == ByIdStore \cup UserStore
Field     == {"enabled", "schedule"}
Writer    == Request \cup {Default}

(* Who wrote each part of a document, who its created_at is from, and the
   references of an agent. *)
Document == [by : [Field -> Writer], born : Writer, refs : Seq(Id)]
Doc(r, born, call) ==
    [by |-> [f \in Field |-> r], born |-> born, refs |-> call.refs]

(* What a client or an agent asks for: the operation, the id of the document,
   what the body fails to be, the fields a patch sets, the scope of a skill, and
   the references and skills of an agent. *)
Call == [op : STRING, id : STRING, valid : STRING, fields : SUBSET Field, scope : STRING,
         refs : Seq(Id), skills : SUBSET Id]

NoCall  == [op |-> "none", id |-> "none", valid |-> "yes", fields |-> {}, scope |-> "none",
            refs |-> <<>>, skills |-> {}]
Unborn  == [call |-> NoCall, pc |-> "unborn", store |-> "none", got |-> Missing,
            seen |-> <<>>, known |-> {}, todo |-> {}, outcome |-> "none"]

Init ==
    /\ menu \in Menu
    /\ docs \in InitialDocs
    /\ req = [r \in Request |-> Unborn]
    /\ alone = [r \in Request |-> TRUE]
    /\ wrote = [r \in Request |-> FALSE]
    /\ met = {}
    /\ failures = 0

Active(r) == req[r].pc \notin {"unborn", "done"}

----------------------------------------------------------------------------
(* Steps of a request *)

At(r, pc)   == req[r].pc = pc
GoTo(r, pc) == [req[r] EXCEPT !.pc = pc]
Answer(r, outcome) == [req[r] EXCEPT !.pc = "done", !.outcome = outcome]

(* A call that only reads, or a request that ends. *)
Read(r, state) ==
    /\ req' = [req EXCEPT ![r] = state]
    /\ UNCHANGED <<docs, menu, alone, wrote, met, failures>>

(* A call that writes. *)
Write(r, s, i, doc, state) ==
    /\ docs' = [docs EXCEPT ![s][i] = doc]
    /\ req' = [req EXCEPT ![r] = state]
    /\ wrote' = [wrote EXCEPT ![r] = TRUE]
    /\ alone' = [q \in Request |-> alone[q] /\ (q = r \/ ~Active(q))]
    /\ UNCHANGED <<menu, met, failures>>

Own(r) == docs[req[r].store][req[r].call.id]

----------------------------------------------------------------------------
(* The handlers up to their first call of the store *)

(* Mutant: the scope of a skill is taken for its container. *)
StoreByScope(c) == IF c.scope # "none" THEN c.scope ELSE "skills"

(* The container of a call; for a skill, SkillManager's choice by scope. *)
StoreOf(c) ==
    CASE c.op \in {"post_directive", "patch_directive", "delete_directive", "seed_directives"} ->
            "directives"
      [] c.op \in {"put_agent", "create_agent", "edit_agent", "delete_agent"} -> "agents"
      [] c.op \in {"put_customization", "delete_customization"} -> "customizations"
      [] c.op = "save_profile" -> "profiles"
      [] c.op \in {"create_user_skill", "edit_user_skill"} \/ c.scope = "user" -> "user_skills"
      [] OTHER -> "skills"

(* In the documents D, agent a is there and has b as a tool. *)
Refer(D, a, b) ==
    /\ D["agents"][a] # Missing
    /\ \E k \in DOMAIN D["agents"][a].refs : D["agents"][a].refs[k] = b

Removes(c) == c.op \in {"delete_directive", "delete_skill", "delete_agent", "delete_customization"}
Seeds(c)   == c.op \in {"seed_directives", "seed_skills"}

(* A reference says whether it means a profile or a custom agent: the two have
   ids of their own.  To begin with, no two agents have each other as tools. *)
ASSUME LibraryAssumption ==
    /\ InitialDocs \subseteq [Store -> [Id -> {Missing} \cup Document]]
    /\ \A calls \in Menu : calls \subseteq
          {c \in Call : /\ c.id \in Id \/ Seeds(c)
                        /\ StoreOf(c) = "agents" => c.id \notin Profile
                        /\ c.scope = "none" \/ c.op \in {"update_skill", "delete_skill"}}
    /\ \A D \in InitialDocs :
          /\ \A a \in Profile : a \in Id => D["agents"][a] = Missing
          /\ \A a, b \in Id : a # b /\ Refer(D, a, b) => ~Refer(D, b, a)
    /\ DefaultIds \in [ByIdStore -> Seq(Id)]
    /\ Missing \notin Document
    /\ MaxFailures \in Nat

(* What a handler checks before it calls the store: the id and the profile of
   a directive, the path of a definition, all of a skill once its scope is
   known.  The rest of a directive or an agent is checked later. *)
SkillWrites == {"create_skill", "create_user_skill", "update_skill", "edit_user_skill"}
InvalidAtOnce(c) ==
    \/ c.valid = "bad_name"
    \/ c.op \in SkillWrites \cup {"save_profile"} /\ c.scope # "search" /\ c.valid # "yes"

FirstCall(c) ==
    CASE Seeds(c) -> "list"
      [] c.op = "create_skill" -> "insert"
      [] c.op = "create_user_skill" -> "check_shared"
      [] c.op \in {"update_skill", "delete_skill"} /\ c.scope = "search" -> "scope_shared"
      [] Removes(c) /\ c.scope # "search" -> "remove"
      [] c.op = "create_agent" -> "list_skills"
      [] c.op = "save_profile" -> "wrapper"
      [] OTHER -> "existing"

Submit(r, c) ==
    /\ At(r, "unborn")
    /\ req' = [req EXCEPT ![r] = [Unborn EXCEPT
                  !.call = c, !.store = StoreOf(c),
                  !.pc = IF InvalidAtOnce(c) THEN "done" ELSE FirstCall(c),
                  !.outcome = IF InvalidAtOnce(c) THEN "invalid" ELSE "none"]]
    /\ met' = met \cup {{r, q} : q \in {p \in Request : Active(p)}}
    /\ UNCHANGED <<docs, menu, alone, wrote, failures>>

----------------------------------------------------------------------------
(* Skills: which scope, and whether a shared skill has the name *)

InScope(r, s) ==
    IF Removes(req[r].call) THEN [GoTo(r, "remove") EXCEPT !.store = s]
    ELSE IF req[r].call.valid # "yes" THEN Answer(r, "invalid")
    ELSE [GoTo(r, "existing") EXCEPT !.store = s]

ScopeShared(r) ==
    /\ At(r, "scope_shared")
    /\ Read(r, IF docs["skills"][req[r].call.id] # Missing
               THEN InScope(r, "skills") ELSE GoTo(r, "scope_user"))

ScopeUser(r) ==
    /\ At(r, "scope_user")
    /\ Read(r, IF docs["user_skills"][req[r].call.id] = Missing THEN Answer(r, "not_found")
               ELSE InScope(r, "user_skills"))

CheckShared(r) ==
    /\ At(r, "check_shared")
    /\ Read(r, IF docs["skills"][req[r].call.id] # Missing
               THEN Answer(r, "conflict") ELSE GoTo(r, "insert"))

----------------------------------------------------------------------------
(* Reading the document that is to be written *)

MustExist == {"patch_directive", "update_skill", "edit_user_skill", "edit_agent"}
Defines(c) == c.op \in {"put_agent", "create_agent", "edit_agent", "put_customization"}

(* The call that stores the request's document: a user's container is read
   once more by upsert itself. *)
Storing(r) == IF req[r].store \in UserStore THEN "wrapper" ELSE "upsert"

(* The instruction, the schedule or the webhook of a directive. *)
BadFields(c) == ~Defines(c) /\ c.valid # "yes"

Existing(r) ==
    LET c == req[r].call IN
    /\ At(r, "existing")
    /\ Read(r,
         CASE c.op = "post_directive" /\ Own(r) # Missing -> Answer(r, "conflict")
           [] c.op \in MustExist /\ Own(r) = Missing -> Answer(r, "not_found")
           [] OTHER ->
                IF BadFields(c) THEN Answer(r, "invalid")
                ELSE [GoTo(r, IF Defines(c) THEN "list_skills" ELSE Storing(r))
                        EXCEPT !.got = Own(r)])

----------------------------------------------------------------------------
(* Validating an agent: its skills, and the agents it has as tools *)

(* Mutant: an agent that refers back is accepted. *)
CyclesAccepted(c, targets) ==
    /\ \A k \in DOMAIN c.refs : c.refs[k] # c.id /\ targets[k] # Missing
    /\ \A j, k \in DOMAIN c.refs : c.refs[j] = c.refs[k] => j = k

(* validate_sub_agent_tool_refs: no reference to itself, none twice, none to
   an agent that is missing or refers back.  targets[k] is the k-th one read. *)
RefsValid(c, targets) ==
    /\ \A k \in DOMAIN c.refs : c.refs[k] # c.id /\ targets[k] # Missing
    /\ \A j, k \in DOMAIN c.refs : c.refs[j] = c.refs[k] => j = k
    /\ \A k \in DOMAIN c.refs : \A i \in DOMAIN targets[k].refs : targets[k].refs[i] # c.id

Present(s) == {i \in DOMAIN docs[s] : docs[s][i] # Missing}

ListShared(r) ==
    /\ At(r, "list_skills")
    /\ Read(r, [GoTo(r, "list_user_skills") EXCEPT !.known = Present("skills")])

(* The last call before the verdict: the skills if there are no references to
   custom agents, the last of those otherwise. *)
Validated(r, state, targets) ==
    LET c == state.call IN
    IF c.valid # "yes" \/ ~(c.skills \subseteq state.known) \/ ~RefsValid(c, targets)
    THEN [state EXCEPT !.pc = "done", !.outcome = "invalid"]
    ELSE [state EXCEPT !.pc = IF c.op = "create_agent" THEN "insert" ELSE "wrapper"]

(* A built-in profile is not in the store: its turn takes no call. *)
WithProfiles(c, seen) ==
    LET until == Min({k \in Len(seen)..Len(c.refs) :
                         k = Len(c.refs) \/ c.refs[k + 1] \notin Profile})
    IN  [k \in 1..until |-> IF k <= Len(seen) THEN seen[k] ELSE [refs |-> ProfileRefs[c.refs[k]]]]

Proceed(r, state, seen) ==
    LET c    == state.call
        all  == WithProfiles(c, seen)
        next == [state EXCEPT !.seen = all, !.pc = "target"]
    IN  IF Len(all) = Len(c.refs) THEN Validated(r, next, all) ELSE next

ListUserSkills(r) ==
    /\ At(r, "list_user_skills")
    /\ Read(r, Proceed(r, [req[r] EXCEPT !.known = @ \cup Present("user_skills")], <<>>))

GetTarget(r) ==
    LET seen == req[r].seen IN
    /\ At(r, "target")
    /\ Read(r, Proceed(r, req[r], Append(seen, docs["agents"][req[r].call.refs[Len(seen) + 1]])))

----------------------------------------------------------------------------
(* Writing *)

(* Mutant: a patch replaces the fields it does not set. *)
Replaced(r) == Doc(r, IF req[r].got = Missing THEN r ELSE req[r].got.born, req[r].call)

(* A directive keeps the fields a patch does not set, and its created_at. *)
Merged(r) ==
    LET c == req[r].call IN
    IF c.op = "patch_directive"
    THEN [req[r].got EXCEPT !.by = [f \in Field |-> IF f \in c.fields THEN r ELSE @[f]]]
    ELSE Doc(r, IF req[r].got = Missing THEN r ELSE req[r].got.born, c)

Done(r) == IF req[r].call.op \in {"post_directive", "create_skill", "create_user_skill", "create_agent"}
           THEN "created" ELSE "stored"

(* Mutant: create is an upsert. *)
InsertOver(r) ==
    /\ At(r, "insert")
    /\ Write(r, req[r].store, req[r].call.id, Doc(r, r, req[r].call), Answer(r, Done(r)))

(* create_item: the store refuses an id it has. *)
Insert(r) ==
    /\ At(r, "insert")
    /\ IF Own(r) = Missing
       THEN Write(r, req[r].store, req[r].call.id, Doc(r, r, req[r].call), Answer(r, Done(r)))
       ELSE Read(r, Answer(r, "conflict"))

(* CosmosUserScopedRepository.upsert reads the created_at it keeps. *)
Wrapper(r) ==
    /\ At(r, "wrapper")
    /\ Read(r, [GoTo(r, "upsert") EXCEPT !.got = Own(r)])

Upsert(r) ==
    /\ At(r, "upsert")
    /\ Write(r, req[r].store, req[r].call.id, Merged(r), Answer(r, Done(r)))

(* Mutant: deleting what is not there is told as a deletion. *)
RemoveAnyway(r) ==
    /\ At(r, "remove")
    /\ IF Own(r) = Missing
       THEN Read(r, Answer(r, "stored"))
       ELSE Write(r, req[r].store, req[r].call.id, Missing, Answer(r, "stored"))

(* delete_item; the routes of agents and customizations ignore whether there
   was something to delete. *)
Remove(r) ==
    /\ At(r, "remove")
    /\ IF Own(r) = Missing
       THEN Read(r, Answer(r, IF req[r].store \in {"agents", "customizations"}
                              THEN "nothing" ELSE "not_found"))
       ELSE Write(r, req[r].store, req[r].call.id, Missing, Answer(r, "stored"))

----------------------------------------------------------------------------
(* Start-up: seed_autonomous_directives and seed_skills *)

SeedState(r, todo) ==
    IF todo = {} THEN Answer(r, "stored")
    ELSE [GoTo(r, "seed") EXCEPT !.todo = todo]

(* Mutant: the defaults are stored whatever the store has. *)
ListNothing(r) ==
    /\ At(r, "list")
    /\ Read(r, SeedState(r, DOMAIN DefaultIds[req[r].store]))

(* The places in the file of the defaults the store lacks; the next of them. *)
List(r) ==
    LET s == req[r].store IN
    /\ At(r, "list")
    /\ Read(r, SeedState(r, {k \in DOMAIN DefaultIds[s] : DefaultIds[s][k] \notin Present(s)}))

NextDefault(r) == DefaultIds[req[r].store][Min(req[r].todo)]

(* Mutant: the loop ends after its first document. *)
SeedFirst(r) ==
    /\ At(r, "seed")
    /\ Write(r, req[r].store, NextDefault(r), Doc(Default, Default, NoCall), Answer(r, "stored"))

Seed(r) ==
    /\ At(r, "seed")
    /\ Write(r, req[r].store, NextDefault(r), Doc(Default, Default, NoCall),
             SeedState(r, req[r].todo \ {Min(req[r].todo)}))

----------------------------------------------------------------------------
(* Any call may fail, before or after the store has carried it out: the
   request ends with an error. *)
FailBefore(r) ==
    /\ Active(r) /\ failures < MaxFailures
    /\ failures' = failures + 1
    /\ req' = [req EXCEPT ![r] = Answer(r, "unavailable")]
    /\ UNCHANGED <<docs, menu, alone, wrote, met>>

AnswerLost(r) ==
    LET s == req[r].store
        i == IF At(r, "seed") THEN NextDefault(r) ELSE req[r].call.id
        doc == CASE At(r, "remove") -> Missing
                 [] At(r, "seed")   -> Doc(Default, Default, NoCall)
                 [] At(r, "upsert") -> Merged(r)
                 [] OTHER           -> Doc(r, r, req[r].call)
    IN  /\ \/ At(r, "upsert") \/ At(r, "seed")
           \/ At(r, "insert") /\ docs[s][i] = Missing
           \/ At(r, "remove") /\ docs[s][i] # Missing
        /\ failures < MaxFailures
        /\ failures' = failures + 1
        /\ docs' = [docs EXCEPT ![s][i] = doc]
        /\ req' = [req EXCEPT ![r] = Answer(r, "unavailable")]
        /\ wrote' = [wrote EXCEPT ![r] = TRUE]
        /\ alone' = [q \in Request |-> alone[q] /\ (q = r \/ ~Active(q))]
        /\ UNCHANGED <<menu, met>>

----------------------------------------------------------------------------
Step(r) ==
    \/ ScopeShared(r) \/ ScopeUser(r) \/ CheckShared(r)
    \/ Existing(r)
    \/ ListShared(r) \/ ListUserSkills(r) \/ GetTarget(r)
    \/ Insert(r) \/ Wrapper(r) \/ Upsert(r) \/ Remove(r)
    \/ List(r) \/ Seed(r)

Next == \E r \in Request :
    \/ \E c \in menu : Submit(r, c)
    \/ Step(r)
    \/ FailBefore(r) \/ AnswerLost(r)

Spec == Init /\ [][Next]_vars

----------------------------------------------------------------------------
(* Properties *)

Outcome == {"none", "created", "stored", "nothing", "invalid", "conflict", "not_found",
            "unavailable"}
(* Every container holds documents and every request an outcome. *)
TypeOK ==
    /\ docs \in [Store -> [Id -> {Missing} \cup Document]]
    /\ \A r \in Request :
          /\ req[r].outcome \in Outcome /\ (req[r].outcome # "none" <=> At(r, "done"))
          /\ Active(r) => req[r].store \in Store
    /\ alone \in [Request -> BOOLEAN] /\ wrote \in [Request -> BOOLEAN]
    /\ failures \in 0..MaxFailures

(* What a call does when nothing else happens: the store it means, whether it
   is carried out, and the document it leaves. *)
Home(c, D) ==
    IF c.op \in {"update_skill", "delete_skill"} /\ c.scope = "search"
    THEN IF D["skills"][c.id] # Missing THEN "skills" ELSE "user_skills"
    ELSE StoreOf(c)

Creates(c) == c.op \in {"post_directive", "create_skill", "create_user_skill", "create_agent"}
Taken(c, D) ==
    \/ D[Home(c, D)][c.id] # Missing
    \/ c.op = "create_user_skill" /\ D["skills"][c.id] # Missing

Target(D, i) == IF i \in Profile THEN [refs |-> ProfileRefs[i]] ELSE D["agents"][i]
DefinitionValid(c, D) ==
    /\ c.valid = "yes"
    /\ \A k \in c.skills : D["skills"][k] # Missing \/ D["user_skills"][k] # Missing
    /\ RefsValid(c, [k \in DOMAIN c.refs |-> Target(D, c.refs[k])])
SelfValid(c, D) == IF Defines(c) THEN DefinitionValid(c, D) ELSE c.valid = "yes"

Refusal(c, D) ==
    LET absent == D[Home(c, D)][c.id] = Missing IN
    CASE InvalidAtOnce(c) -> "invalid"
      [] ~InvalidAtOnce(c) /\ Removes(c) /\ absent ->
            IF c.op \in {"delete_agent", "delete_customization"} THEN "nothing" ELSE "not_found"
      [] ~InvalidAtOnce(c) /\ c.op \in MustExist /\ absent -> "not_found"
      [] c.op = "create_agent" /\ ~SelfValid(c, D) -> "invalid"
      [] ~InvalidAtOnce(c) /\ Creates(c) /\ Taken(c, D) /\ (c.op = "create_agent" => SelfValid(c, D)) ->
            "conflict"
      [] OTHER -> IF Removes(c) \/ SelfValid(c, D) THEN "none" ELSE "invalid"

Effect(r, c, D) ==
    LET old == D[Home(c, D)][c.id] IN
    CASE Removes(c) -> Missing
      [] c.op = "patch_directive" ->
            [old EXCEPT !.by = [f \in Field |-> IF f \in c.fields THEN r ELSE old.by[f]]]
      [] OTHER -> Doc(r, IF old = Missing THEN r ELSE old.born, c)

(* A request during which no other request writes has exactly the effect of its
   call on the store, and the answer that goes with it: the checks, merges and
   re-reads spread over its calls of the store can only be wrong by a race. *)
AloneIsAtomic ==
    [][\A r \in Request :
          LET c == req[r].call
              D == docs
          IN  /\ Active(r) /\ ~Seeds(c) /\ alone[r]
              /\ req'[r].pc = "done" /\ req'[r].outcome # "unavailable"
              => IF Refusal(c, D) = "none"
                 THEN /\ req'[r].outcome = IF Creates(c) THEN "created" ELSE "stored"
                      /\ docs' = [D EXCEPT ![Home(c, D)][c.id] = Effect(r, c, D)]
                 ELSE req'[r].outcome = Refusal(c, D) /\ docs' = D]_vars

(* Two requests are both told that they created the same document only if it
   was deleted, or, for directives, which are not created by create_item, if
   they were under way together. *)
CreatedOnce ==
    \A r, q \in Request :
        /\ r # q /\ req[r].outcome = "created" /\ req[q].outcome = "created"
        /\ req[r].store = req[q].store /\ req[r].call.id = req[q].call.id
        => \/ req[r].store = "directives" /\ {r, q} \in met
           \/ \E p \in Request : /\ Removes(req[p].call) /\ wrote[p]
                                 /\ req[p].store = req[r].store
                                 /\ req[p].call.id = req[r].call.id

(* Whatever races and whatever fails, a request that is told of success has
   changed the store, and one that is refused has not. *)
AnswerTruth ==
    \A r \in Request :
        /\ req[r].outcome \in {"created", "stored"} /\ ~Seeds(req[r].call) => wrote[r]
        /\ req[r].outcome \in {"nothing", "invalid", "conflict", "not_found"} => ~wrote[r]

(* Two agents that have each other as tools were saved by requests that were
   under way together: a save after the other's is refused. *)
CyclesNeedRace ==
    \A a, b \in Id :
        a # b /\ Refer(docs, a, b) /\ Refer(docs, b, a) =>
            {docs["agents"][a].by["enabled"], docs["agents"][b].by["enabled"]} \in met

(* A start-up leaves every default in the store, unless one is being deleted
   meanwhile. *)
SeedComplete ==
    [][\A r \in Request :
          Active(r) /\ Seeds(req[r].call) /\ req'[r].outcome = "stored" =>
              \/ \A k \in DOMAIN DefaultIds[req[r].store] :
                    docs'[req[r].store][DefaultIds[req[r].store][k]] # Missing
              \/ \E q \in Request : {r, q} \in met /\ Removes(req[q].call)]_vars

(* A start-up during which nobody else writes overwrites no document: "existing
   - possibly edited - directives are left untouched". *)
SeedSparesEdits ==
    [][\A r \in Request :
          Active(r) /\ Seeds(req[r].call) /\ alone[r] =>
              \A s \in Store : \A i \in DOMAIN docs[s] :
                  At(r, "seed") /\ req'[r] # req[r] /\ docs[s][i] # Missing =>
                      docs'[s][i] = docs[s][i]]_vars
===============================================================================
