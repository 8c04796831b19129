--------------------------- MODULE ChatSessionProofs ---------------------------
(* Safety of ChatSession, for every set of requests, turns and plans, every
   sequence of key sets, any number of servers and references, and streams of
   any length.  The last part is about the streams alone: what a turn has said
   and what its events made of it. *)
EXTENDS ChatSession, SequenceLemmas

----------------------------------------------------------------------------
(* What a request holds *)

Fields   == {"pc", "at", "forced", "version", "skills", "agents", "database", "todo", "results",
             "previous", "runtime", "outcome"}
Shape(q) == q = [f \in Fields |-> q[f]]

Early   == {"fetching", "keys", "skills", "ref", "owned", "database", "profile"}
Opening == {"connecting", "indexing"}
Late    == {"displacing", "rollback", "closing", "over"}

(* A request goes on from q to n, which is its next await before any server, its
   first server, the building of its runtime, or its end. *)
Onward(q, n) ==
    /\ Shape(n) /\ n.at = q.at /\ n.version = q.version /\ n.results = q.results
    /\ n.pc \in {"skills", "ref", "owned", "database", "profile", "connecting", "build", "over"}
    /\ n.pc = "over" <=> n.outcome # "none"
    /\ n.outcome \in {"none", "invalid", "failed", "not_found"}
    /\ n.pc = "connecting" => n.todo # <<>>

(* The servers come next, or the runtime if there are none. *)
LEMMA ConnectingOnward ==
    ASSUME NEW q, Shape(q), q.outcome = "none", NEW b
    PROVE  Onward(q, Connecting(q, b))
<1> DEFINE n(todo) == [q EXCEPT !.todo = todo, !.pc = IF todo = <<>> THEN "build" ELSE "connecting"]
<1>1. \E todo : Connecting(q, b) = n(todo)
  BY DEF Connecting
<1>2. ASSUME NEW todo PROVE Onward(q, n(todo))
  <2>1. /\ Shape(n(todo)) /\ n(todo).at = q.at /\ n(todo).version = q.version
        /\ n(todo).results = q.results /\ n(todo).outcome = q.outcome /\ n(todo).todo = todo
        /\ n(todo).pc = IF todo = <<>> THEN "build" ELSE "connecting"
    BY DEF Shape, Fields
  <2> HIDE DEF n
  <2> QED BY <2>1 DEF Onward
<1> HIDE DEF n
<1> QED BY <1>1, <1>2

(* To an await, or to the end. *)
LEMMA ToOnward ==
    ASSUME NEW q, Shape(q), q.outcome = "none",
           NEW pc \in {"skills", "ref", "owned", "database", "profile"}
    PROVE  Onward(q, [q EXCEPT !.pc = pc])
<1> DEFINE n == [q EXCEPT !.pc = pc]
<1>1. /\ Shape(n) /\ n.at = q.at /\ n.version = q.version
      /\ n.results = q.results /\ n.outcome = q.outcome /\ n.pc = pc
  BY DEF Shape, Fields
<1> HIDE DEF n
<1>2. Onward(q, n)
  BY <1>1 DEF Onward
<1> QED BY <1>2 DEF n

(* A request that ends keeps what it has read. *)
LEMMA EndedFields ==
    ASSUME NEW q, Shape(q), NEW outcome
    PROVE  /\ Shape(Ended(q, outcome)) /\ Ended(q, outcome).pc = "over"
           /\ Ended(q, outcome).outcome = outcome
           /\ Ended(q, outcome).at = q.at /\ Ended(q, outcome).version = q.version
           /\ Ended(q, outcome).results = q.results
           /\ Ended(q, outcome).forced = q.forced
BY DEF Ended, Shape, Fields

(* A refusal is a way onward. *)
LEMMA EndedOnward ==
    ASSUME NEW q, Shape(q), NEW outcome \in {"invalid", "failed", "not_found"}
    PROVE  Onward(q, Ended(q, outcome))
BY EndedFields DEF Onward

(* So are the awaits of _start_session. *)
LEMMA StartOnward ==
    ASSUME NEW q, Shape(q), q.outcome = "none", NEW b
    PROVE  /\ Onward(q, WithProfile(q, b)) /\ Onward(q, Dependencies(q, b))
           /\ Onward(q, Start(q, b))
<1>1. Onward(q, WithProfile(q, b))
  BY ConnectingOnward, ToOnward DEF WithProfile
<1>2. Onward(q, Dependencies(q, b))
  BY <1>1, ToOnward DEF Dependencies
<1> QED BY <1>1, <1>2, ToOnward DEF Start

(* Onward from a state that differs in what it has read. *)
LEMMA OnwardFrom ==
    ASSUME NEW q, NEW p, NEW n, Onward(p, n),
           p.at = q.at, p.version = q.version, p.results = q.results
    PROVE  Onward(q, n)
BY DEF Onward

(* The references: the next one, a refusal, or the start of the session. *)
LEMMA ReferringOnward ==
    ASSUME NEW q, Shape(q), q.outcome = "none", NEW b, NEW agents
    PROVE  Onward(q, Referring(q, b, agents))
<1> DEFINE all == WithBuiltins(b.refs, agents)
           next == [q EXCEPT !.agents = all]
<1>0. Referring(q, b, agents) \in {[next EXCEPT !.pc = "ref"], Ended(next, "invalid"), Start(next, b)}
  BY DEF Referring
<1>1. /\ Shape(next) /\ next.at = q.at /\ next.version = q.version
      /\ next.results = q.results /\ next.outcome = q.outcome
  BY DEF Shape, Fields
<1> HIDE DEF next
<1>2. ASSUME NEW n, Onward(next, n) PROVE Onward(q, n)
  BY <1>1, <1>2, OnwardFrom
<1>3. Onward(next, [next EXCEPT !.pc = "ref"])
  BY <1>1, ToOnward
<1>4. Onward(next, Ended(next, "invalid")) /\ Onward(next, Start(next, b))
  BY <1>1, EndedOnward, StartOnward
<1> QED BY <1>0, <1>2, <1>3, <1>4

(* The checks of a body lead onward. *)
LEMMA AdmittedOnward ==
    ASSUME NEW q, Shape(q), q.outcome = "none", NEW b
    PROVE  Onward(q, Admitted(q, b))
<1> DEFINE p == [q EXCEPT !.skills = b.skills]
<1>0. Admitted(q, b) \in {Ended(q, "invalid"), [q EXCEPT !.pc = "skills"], Ended(q, "failed"),
                          Referring(p, b, <<>>)}
  BY DEF Admitted
<1>1. /\ Shape(p) /\ p.at = q.at /\ p.version = q.version
      /\ p.results = q.results /\ p.outcome = q.outcome
  BY DEF Shape, Fields
<1> HIDE DEF p
<1>2. Onward(q, Referring(p, b, <<>>))
  BY <1>1, ReferringOnward, OnwardFrom
<1>3. Onward(q, Ended(q, "invalid")) /\ Onward(q, Ended(q, "failed"))
  BY EndedOnward
<1>4. Onward(q, [q EXCEPT !.pc = "skills"])
  BY ToOnward
<1> QED BY <1>0, <1>2, <1>3, <1>4

----------------------------------------------------------------------------
(* The state *)

Entries   == {"server", "credential"} \X Server
Sequence(x) == \E S : x \in Seq(S)

(* What a request holds between two steps. *)
Held(q) ==
    /\ Shape(q)
    /\ q.pc \in {"unborn"} \cup Early \cup Opening \cup Late
    /\ q.pc \in {"over", "closing"} <=> q.outcome # "none"
    /\ q.outcome \in Refusals \cup {"none", "ok"}
    /\ q.pc = "connecting" => q.todo # <<>>
    /\ q.pc = "unborn" => q = Unborn
    /\ q.pc \in Early => q.results = <<>>
    /\ Sequence(q.results)

TurnFields == {"pc", "by", "said", "loose", "stream", "header"}
Sent(m) ==
    /\ m = [f \in TurnFields |-> m[f]]
    /\ m.pc \in {"unsent", "streaming", "over", "gone"}
    /\ m.by \in Request \cup {NoOne}
    /\ m.pc = "unsent" <=> m.by = NoOne

Sessions ==
    /\ req = [r \in Request |-> req[r]]
    /\ \A r \in Request : Held(req[r])
    /\ stack \in [Request -> Seq(Entries)]
    /\ closing \subseteq Request
    /\ registered \in [Conversation -> Request \cup {NoOne}]
Keys   == published \in DOMAIN KeySets /\ jwks \in 0..published
Stores == /\ removed \subseteq {Old} \ index /\ index \subseteq Conversation
          /\ store \subseteq DOMAIN Agents
Lendings == held = [r \in Request |-> [s \in Server |-> held[r][s]]]
Turns  == turn = [t \in Turn |-> turn[t]] /\ \A t \in Turn : Sent(turn[t])

Typed == plan \in Plan /\ Sessions /\ Keys /\ Stores /\ Lendings /\ Turns

(* On a stack, a server that needs a credential comes after it; *)
Ordered(x) ==
    \A i \in DOMAIN x : x[i][1] = "server" /\ Auth[x[i][2]] = "obo" =>
        \E j \in 1..(i - 1) : x[j] = Credential(x[i][2])
(* the servers that a request was told are connected are on it; *)
Covers(x, results) ==
    \A k \in DOMAIN results : results[k].ok =>
        \E i \in DOMAIN x : x[i] = Connection(results[k].server)
(* and so are the credentials that its header providers hold. *)
Credited(x, h) == \A s \in Server : h[s] # NoOne => \E j \in DOMAIN x : x[j] = Credential(s)

Accounted == \A r \in Request : stack[r] # <<>> =>
    registered[Home(r)] = r \/ r \in closing \/ req[r].pc \in Opening
Closing == \A r \in closing : stack[r] # <<>> /\ req[r].pc \in Late
Registered == \A c \in Conversation : registered[c] # NoOne =>
    /\ registered[c] \in DOMAIN plan.body /\ Home(registered[c]) = c
    /\ registered[c] \notin closing /\ req[registered[c]].pc \in Late
Covered == \A r \in Request :
    req[r].pc \in Opening \/ registered[Home(r)] = r => Covers(stack[r], req[r].results)
InOrder == \A r \in Request : Ordered(stack[r])
Lent == \A r \in Request :
    req[r].pc \in {"unborn", "connecting"} \cup Early => Credited(stack[r], held[r])
Attended == \A t \in Turn : turn[t].by # NoOne => req[turn[t].by].pc \in Late

Owned == Accounted /\ Closing /\ Registered /\ Covered /\ InOrder /\ Lent /\ Attended

(* The keys that the token of a request was judged by. *)
Unjudged == {"unborn", "fetching", "keys"}
Verdict(token, q) ==
    /\ q.pc \in {"fetching", "keys"} => token # NoOne
    /\ q.outcome = "unknown_key" =>
          q.version >= q.at.version /\ token.kid \notin KeySets[q.version]
    /\ \/ /\ q.pc \notin Unjudged
          /\ q.outcome \notin {"no_token", "bad_token", "unknown_key", "no_keys", "cancelled"}
       \/ q.outcome = "bad_token" /\ q.version > 0
       => token # NoOne /\ token.kid \in KeySets[q.version]
Judged == \A r \in Request :
    /\ req[r].version \in 0..published /\ req[r].at.version \in 0..published
    /\ At(r, "keys") => req[r].version >= req[r].at.version /\ req[r].version > 0
    /\ plan.auth => Verdict(Body(r).token, req[r])

Inv == Typed /\ Owned /\ Judged

(* NoOne and Old are no requests. *)
LEMMA Apart == NoOne \notin Request /\ Old \notin Request
BY SessionAssumption

(* A request's session is for a conversation. *)
LEMMA HomeConversation == ASSUME NEW r \in Request PROVE Home(r) \in Conversation
BY DEF Home, Conversation

(* A plan speaks of requests and turns only. *)
LEMMA PlanDomain ==
    ASSUME Typed PROVE DOMAIN plan.body \subseteq Request /\ DOMAIN plan.tokens \subseteq Turn
BY SessionAssumption DEF Typed

(* The invariant holds to begin with. *)
LEMMA InitInv == Init => Inv
<1> SUFFICES ASSUME Init PROVE Inv
  OBVIOUS
<1>1. <<>> \in Seq(Entries) /\ Sequence(<<>>)
  BY DEF Sequence
<1>2. Held(Unborn)
  <2>1. Shape(Unborn) /\ Unborn.pc = "unborn" /\ Unborn.outcome = "none" /\ Unborn.results = <<>>
    BY DEF Shape, Fields, Unborn
  <2> QED BY <1>1, <2>1 DEF Held, Early, Opening, Late
<1>3. Sent(Unsent) /\ Unsent.by = NoOne
  BY DEF Sent, TurnFields, Unsent
<1>4. 1 \in DOMAIN KeySets /\ plan.known \in 0..1
  BY SessionAssumption DEF Init
<1>5. Typed
  BY <1>1, <1>2, <1>3, <1>4 DEF Init, Typed, Sessions, Keys, Stores, Lendings, Turns, Conversation
<1>6. Ordered(<<>>)
  BY DEF Ordered
<1>7. Unborn.pc = "unborn"
  BY DEF Unborn
<1>8. Accounted /\ Closing /\ InOrder /\ Attended
  BY <1>3, <1>6 DEF Init, Accounted, Closing, InOrder, Attended
<1>9. Registered /\ Covered
  BY <1>7, Apart, HomeConversation DEF Init, Registered, Covered, Opening
<1>10. Lent
  BY DEF Init, Lent, Credited
<1>11. /\ Unborn.version = 0 /\ Unborn.at.version = 0 /\ Unborn.outcome = "none"
       /\ \A token : Verdict(token, Unborn)
  BY DEF Verdict, Unborn, Unjudged
<1>12. Judged
  BY <1>7, <1>11 DEF Init, Judged, At
<1> QED BY <1>5, <1>8, <1>9, <1>10, <1>12 DEF Owned, Inv

----------------------------------------------------------------------------
(* A step of a request that has not come to a session or to an end *)

(* Nothing refers to it yet. *)
LEMMA Before ==
    ASSUME Typed, Owned, NEW r \in Request, req[r].pc \notin Late
    PROVE  /\ r \notin closing /\ \A c \in Conversation : registered[c] # r
           /\ \A t \in Turn : turn[t].by # r
           /\ req[r].pc \notin Opening => stack[r] = <<>>
<1>1. r # NoOne
  BY Apart
<1>2. r \notin closing /\ \A c \in Conversation : registered[c] # r
  BY <1>1 DEF Owned, Closing, Registered
<1>3. \A t \in Turn : turn[t].by # r
  BY <1>1 DEF Owned, Attended
<1>4. req[r].pc \notin Opening => stack[r] = <<>>
  BY <1>2, HomeConversation DEF Owned, Accounted
<1> QED BY <1>2, <1>3, <1>4

(* It waits, or is over with nothing opened. *)
LEMMA Waits ==
    ASSUME Typed, Owned, NEW r \in Request, req[r].pc \notin Late,
           UNCHANGED <<plan, turn, closing, registered>>,
           \A o \in Request \ {r} : held'[o] = held[o],
           NEW n, Held(n), n.pc \in Early \cup Opening \cup {"over"},
           NEW opened \in Seq(Entries), Ordered(opened),
           n.pc \notin Opening => opened = <<>>,
           n.pc \in Opening => Covers(opened, n.results),
           n.pc \in Early \cup {"connecting"} => Credited(opened, held'[r]),
           req' = [req EXCEPT ![r] = n], stack' = [stack EXCEPT ![r] = opened]
    PROVE  Sessions' /\ Owned'
<1>1. /\ req' = [o \in Request |-> req'[o]] /\ req'[r] = n /\ stack'[r] = opened
      /\ stack' \in [Request -> Seq(Entries)]
      /\ \A o \in Request \ {r} : req'[o] = req[o] /\ stack'[o] = stack[o]
  BY DEF Typed, Sessions
<1>2. \A o : Home(o)' = Home(o)
  BY DEF Home, Body
<1>3. Conversation' = Conversation
  BY DEF Conversation
<1>4. Sessions'
  BY <1>1, <1>3 DEF Typed, Sessions
<1>5. /\ r \notin closing /\ \A c \in Conversation : registered[c] # r
      /\ \A t \in Turn : turn[t].by # r
  BY Before
<1>6. registered[Home(r)] # r
  BY <1>5, HomeConversation
<1>7. Accounted'
  BY <1>1, <1>2 DEF Owned, Accounted
<1>8. Closing'
  BY <1>1, <1>5 DEF Owned, Closing, Typed, Sessions
<1>9. Registered'
  <2> SUFFICES ASSUME NEW c \in Conversation, registered[c] # NoOne
               PROVE  /\ registered[c] \in DOMAIN plan.body /\ Home(registered[c]) = c
                      /\ registered[c] \notin closing /\ req'[registered[c]].pc \in Late
    BY <1>2, <1>3 DEF Registered
  <2>1. registered[c] \in Request \ {r}
    BY <1>5 DEF Typed, Sessions
  <2> QED BY <1>1, <2>1 DEF Owned, Registered
<1>10. Covered'
  BY <1>1, <1>2, <1>6 DEF Owned, Covered
<1>11. InOrder'
  BY <1>1 DEF Owned, InOrder
<1>12. Lent'
  BY <1>1 DEF Owned, Lent, Early, Opening
<1>13. Attended'
  <2> SUFFICES ASSUME NEW t \in Turn, turn[t].by # NoOne PROVE req'[turn[t].by].pc \in Late
    BY DEF Attended
  <2>1. turn[t].by \in Request \ {r}
    BY <1>5 DEF Typed, Turns, Sent
  <2> QED BY <1>1, <2>1 DEF Owned, Attended
<1> QED BY <1>4, <1>7, <1>8, <1>9, <1>10, <1>11, <1>12, <1>13 DEF Owned

(* It fails: what was opened is closed, by the request that goes on closing it. *)
LEMMA Fails ==
    ASSUME Typed, Owned, NEW r \in Request, req[r].pc \notin Late,
           UNCHANGED <<plan, turn>>,
           \A o \in Request \ {r} : held'[o] = held[o],
           NEW q, Shape(q), Sequence(q.results), NEW outcome \in Refusals,
           NEW opened \in Seq(Entries), Ordered(opened),
           Fail(r, q, opened, outcome)
    PROVE  Sessions' /\ Owned'
<1> DEFINE n == [Ended(q, outcome) EXCEPT !.pc = IF opened = <<>> THEN "over" ELSE "closing"]
<1>1. Ended(q, outcome) = [f \in Fields |-> Ended(q, outcome)[f]] /\ Ended(q, outcome).outcome = outcome
      /\ Ended(q, outcome).results = q.results
  BY EndedFields DEF Shape
<1>2. /\ Shape(n) /\ n.outcome = outcome /\ n.results = q.results
      /\ n.pc = IF opened = <<>> THEN "over" ELSE "closing"
  BY <1>1 DEF Shape, Fields
<1>3. /\ req' = [req EXCEPT ![r] = n] /\ stack' = [stack EXCEPT ![r] = opened]
      /\ closing' = IF opened = <<>> THEN closing ELSE closing \cup {r}
      /\ registered' = registered
  BY DEF Fail
<1> HIDE DEF n
<1>4. Held(n) /\ n.pc \in Late
  BY <1>2 DEF Held, Refusals, Early, Opening, Late
<1>5. /\ req' = [o \in Request |-> req'[o]] /\ req'[r] = n /\ stack'[r] = opened
      /\ stack' \in [Request -> Seq(Entries)]
      /\ \A o \in Request \ {r} : req'[o] = req[o] /\ stack'[o] = stack[o]
  BY <1>3 DEF Typed, Sessions
<1>6. \A o : Home(o)' = Home(o)
  BY DEF Home, Body
<1>7. Conversation' = Conversation
  BY DEF Conversation
<1>8. Sessions'
  BY <1>3, <1>4, <1>5, <1>7 DEF Typed, Sessions
<1>9. /\ r \notin closing /\ \A c \in Conversation : registered[c] # r
      /\ \A t \in Turn : turn[t].by # r
  BY Before
<1>10. registered[Home(r)] # r
  BY <1>9, HomeConversation
<1>11. Accounted'
  BY <1>3, <1>5, <1>6 DEF Owned, Accounted
<1>12. Closing'
  BY <1>3, <1>4, <1>5, <1>9 DEF Owned, Closing, Typed, Sessions
<1>13. Registered'
  <2> SUFFICES ASSUME NEW c \in Conversation, registered[c] # NoOne
               PROVE  /\ registered[c] \in DOMAIN plan.body /\ Home(registered[c]) = c
                      /\ registered[c] \notin closing' /\ req'[registered[c]].pc \in Late
    BY <1>3, <1>6, <1>7 DEF Registered
  <2>1. registered[c] \in Request \ {r}
    BY <1>9 DEF Typed, Sessions
  <2> QED BY <1>3, <1>5, <2>1 DEF Owned, Registered
<1>14. Covered'
  BY <1>3, <1>4, <1>5, <1>6, <1>10 DEF Owned, Covered, Opening, Late
<1>15. InOrder'
  BY <1>5 DEF Owned, InOrder
<1>16. Lent'
  BY <1>4, <1>5 DEF Owned, Lent, Early, Late
<1>17. Attended'
  <2> SUFFICES ASSUME NEW t \in Turn, turn[t].by # NoOne PROVE req'[turn[t].by].pc \in Late
    BY DEF Attended
  <2>1. turn[t].by \in Request \ {r}
    BY <1>9 DEF Typed, Turns, Sent
  <2> QED BY <1>5, <2>1 DEF Owned, Attended
<1> QED BY <1>8, <1>11, <1>12, <1>13, <1>14, <1>15, <1>16, <1>17 DEF Owned

(* It is registered for its conversation: what it displaces is closed. *)
LEMMA Registers ==
    ASSUME Typed, Owned, NEW r \in DOMAIN plan.body, req[r].pc \notin Late,
           UNCHANGED <<plan, turn>>,
           \A o \in Request \ {r} : held'[o] = held[o],
           NEW q, Shape(q), q.outcome = "none", Sequence(q.results),
           NEW opened \in Seq(Entries), Ordered(opened), Covers(opened, q.results),
           Register(r, q, opened)
    PROVE  Sessions' /\ Owned'
<1> DEFINE previous == registered[Home(r)]
           waits    == previous # NoOne /\ stack[previous] # <<>>
           n == IF waits THEN [q EXCEPT !.pc = "displacing", !.previous = previous] ELSE Ended(q, "ok")
<1>0. r \in Request
  BY PlanDomain
<1>1. Shape(Ended(q, "ok")) /\ Ended(q, "ok").outcome = "ok" /\ Ended(q, "ok").pc = "over"
      /\ Ended(q, "ok").results = q.results
  BY EndedFields
<1>2. /\ Shape(n) /\ n.results = q.results /\ n.pc = IF waits THEN "displacing" ELSE "over"
      /\ n.outcome = IF waits THEN "none" ELSE "ok"
  <2> HIDE DEF waits
  <2>1. CASE waits
    <3> DEFINE m == [q EXCEPT !.pc = "displacing", !.previous = previous]
    <3> HIDE DEF previous
    <3>1. Shape(m) /\ m.results = q.results /\ m.pc = "displacing" /\ m.outcome = "none"
      BY DEF Shape, Fields
    <3>2. n = m
      BY <2>1
    <3> HIDE DEF m, n
    <3> QED BY <2>1, <3>1, <3>2
  <2>2. CASE ~waits
    BY <1>1, <2>2
  <2> QED BY <2>1, <2>2
<1>3. /\ req' = [req EXCEPT ![r] = n] /\ stack' = [stack EXCEPT ![r] = opened]
      /\ closing' = IF waits THEN closing \cup {previous} ELSE closing
      /\ registered' = [registered EXCEPT ![Home(r)] = r]
  BY DEF Register
<1>4. Held(n) /\ n.pc \in Late
  <2> HIDE DEF n, waits
  <2> QED BY <1>2 DEF Held, Refusals, Early, Opening, Late
<1>5. /\ req' = [o \in Request |-> req'[o]] /\ req'[r] = n /\ stack'[r] = opened
      /\ stack' \in [Request -> Seq(Entries)]
      /\ \A o \in Request \ {r} : req'[o] = req[o] /\ stack'[o] = stack[o]
  <2> HIDE DEF n
  <2> QED BY <1>0, <1>3 DEF Typed, Sessions
<1> HIDE DEF n
<1>6. \A o : Home(o)' = Home(o)
  BY DEF Home, Body
<1>7. Conversation' = Conversation /\ Home(r) \in Conversation
  BY <1>0, HomeConversation DEF Conversation
<1>8. /\ r \notin closing /\ \A c \in Conversation : registered[c] # r
      /\ \A t \in Turn : turn[t].by # r
  BY <1>0, Before
<1>9. /\ previous \in Request \cup {NoOne} /\ previous # r
      /\ previous # NoOne => previous \notin closing /\ req[previous].pc \in Late
  BY <1>7, <1>8 DEF Typed, Sessions, Owned, Registered
<1>10. registered' \in [Conversation -> Request \cup {NoOne}] /\ registered'[Home(r)] = r
       /\ \A c \in Conversation \ {Home(r)} : registered'[c] = registered[c]
  BY <1>0, <1>3, <1>7 DEF Typed, Sessions
<1>11. Sessions'
  BY <1>0, <1>3, <1>4, <1>5, <1>7, <1>9, <1>10 DEF Typed, Sessions
<1>12. Accounted'
  <2> SUFFICES ASSUME NEW o \in Request, stack'[o] # <<>>
               PROVE  registered'[Home(o)] = o \/ o \in closing' \/ req'[o].pc \in Opening
    BY <1>6 DEF Accounted
  <2>1. CASE o = r
    BY <1>10, <2>1
  <2>2. CASE o # r /\ o = previous
    BY <1>3, <1>5, <2>2, Apart
  <2>3. CASE o # r /\ o # previous
    <3>1. registered[Home(o)] = o => Home(o) \in Conversation \ {Home(r)}
      BY <2>3, HomeConversation
    <3> QED BY <1>3, <1>5, <1>10, <2>3, <3>1 DEF Owned, Accounted
  <2> QED BY <2>1, <2>2, <2>3
<1>13. Closing'
  <2> SUFFICES ASSUME NEW o \in closing' PROVE stack'[o] # <<>> /\ req'[o].pc \in Late
    BY DEF Closing
  <2>1. CASE o \in closing
    BY <1>5, <1>8, <2>1 DEF Owned, Closing, Typed, Sessions
  <2>2. CASE o \notin closing
    <3>1. waits /\ o = previous
      BY <1>3, <2>2
    <3> QED BY <1>5, <1>9, <3>1
  <2> QED BY <2>1, <2>2
<1>14. Registered'
  <2> SUFFICES ASSUME NEW c \in Conversation, registered'[c] # NoOne
               PROVE  /\ registered'[c] \in DOMAIN plan.body /\ Home(registered'[c]) = c
                      /\ registered'[c] \notin closing' /\ req'[registered'[c]].pc \in Late
    BY <1>6, <1>7 DEF Registered
  <2>1. CASE c = Home(r)
    BY <1>3, <1>4, <1>5, <1>8, <1>9, <1>10, <2>1
  <2>2. CASE c # Home(r)
    <3>1. registered'[c] = registered[c] /\ registered[c] \in Request \ {r}
      BY <1>8, <1>10, <2>2 DEF Typed, Sessions
    <3>2. Home(registered[c]) = c /\ registered[c] \in DOMAIN plan.body
          /\ registered[c] \notin closing /\ req[registered[c]].pc \in Late
      BY <3>1 DEF Owned, Registered
    <3>3. waits => registered[c] # previous
      <4> SUFFICES ASSUME waits, registered[c] = previous PROVE FALSE
        OBVIOUS
      <4>1. Home(previous) = Home(r)
        BY <1>7 DEF Owned, Registered
      <4> QED BY <2>2, <3>2, <4>1
    <3> QED BY <1>3, <1>5, <3>1, <3>2, <3>3
  <2> QED BY <2>1, <2>2
<1>15. Covered'
  <2> SUFFICES ASSUME NEW o \in Request, req'[o].pc \in Opening \/ registered'[Home(o)] = o
               PROVE  Covers(stack'[o], req'[o].results)
    BY <1>6 DEF Covered
  <2>1. CASE o = r
    BY <1>2, <1>5, <2>1
  <2>2. CASE o # r
    <3>1. registered'[Home(o)] = o => registered[Home(o)] = o
      BY <1>10, <2>2, HomeConversation
    <3> QED BY <1>5, <2>2, <3>1 DEF Owned, Covered
  <2> QED BY <2>1, <2>2
<1>16. InOrder'
  BY <1>5 DEF Owned, InOrder
<1>17. Lent'
  BY <1>4, <1>5 DEF Owned, Lent, Early, Late
<1>18. Attended'
  <2> SUFFICES ASSUME NEW t \in Turn, turn[t].by # NoOne PROVE req'[turn[t].by].pc \in Late
    BY DEF Attended
  <2>1. turn[t].by \in Request \ {r}
    BY <1>8 DEF Typed, Turns, Sent
  <2> QED BY <1>5, <2>1 DEF Owned, Attended
<1> QED BY <1>11, <1>12, <1>13, <1>14, <1>15, <1>16, <1>17, <1>18 DEF Owned

(* What a request holds when the rest of its step begins. *)
Ready(q) ==
    /\ Shape(q) /\ Sequence(q.results)
    /\ q.pc \in Early \cup {"connecting", "build", "over"}
    /\ q.pc = "over" <=> q.outcome # "none"
    /\ q.outcome \in Refusals \cup {"none"}
    /\ q.pc = "connecting" => q.todo # <<>>
    /\ q.pc \in Early => q.results = <<>>

(* The runtime that is put together changes nothing else that a request holds. *)
LEMMA Building ==
    ASSUME NEW q, Ready(q), q.pc = "build", NEW runtime
    PROVE  LET n == [q EXCEPT !.runtime = runtime]
               i == [n EXCEPT !.pc = "indexing"]
           IN  /\ Shape(n) /\ n.results = q.results /\ n.outcome = "none"
               /\ n.at = q.at /\ n.version = q.version
               /\ Held(i) /\ i.pc = "indexing" /\ i.results = q.results
               /\ i.at = q.at /\ i.version = q.version /\ i.outcome = "none"
<1> DEFINE n == [q EXCEPT !.runtime = runtime]
           i == [n EXCEPT !.pc = "indexing"]
<1>1. /\ Shape(n) /\ n.results = q.results /\ n.outcome = "none"
      /\ n.at = q.at /\ n.version = q.version
  BY DEF Ready, Shape, Fields
<1> HIDE DEF n
<1>2. /\ Shape(i) /\ i.pc = "indexing" /\ i.results = q.results
      /\ i.at = q.at /\ i.version = q.version /\ i.outcome = "none"
  BY <1>1 DEF Shape, Fields
<1> HIDE DEF i
<1>3. Held(i)
  BY <1>2 DEF Held, Ready, Early, Opening
<1> QED BY <1>1, <1>2, <1>3 DEF n, i

(* The rest of a step, whichever of the three it is, loses nothing that was opened. *)
LEMMA Advances ==
    ASSUME Typed, Owned, NEW r \in DOMAIN plan.body, req[r].pc \notin Late,
           UNCHANGED <<plan, turn>>,
           \A o \in Request \ {r} : held'[o] = held[o],
           NEW q, Ready(q),
           NEW opened \in Seq(Entries), Ordered(opened), Covers(opened, q.results),
           q.pc \in Early \cup {"over"} => opened = <<>>,
           q.pc \in Early \cup {"connecting"} => Credited(opened, held'[r]),
           Advance(r, q, opened)
    PROVE  Sessions' /\ Owned'
<1>0. r \in Request
  BY PlanDomain
<1>1. CASE q.pc # "build"
  <2>1. /\ req' = [req EXCEPT ![r] = q] /\ stack' = [stack EXCEPT ![r] = opened]
        /\ UNCHANGED <<closing, registered>>
    BY <1>1 DEF Advance, Register, Fail
  <2>2. Held(q) /\ q.pc \in Early \cup Opening \cup {"over"}
    BY <1>1 DEF Ready, Held, Early, Opening, Late
  <2>3. q.pc \notin Opening => q.pc \in Early \cup {"over"}
    BY <2>2
  <2> QED BY <1>0, <2>1, <2>2, <2>3, Waits
<1>2. CASE q.pc = "build" /\ Fail(r, q, opened, "failed")
  BY <1>0, <1>2, Fails DEF Ready, Refusals
<1>3. CASE \E runtime : q.pc = "build" /\ Register(r, [q EXCEPT !.runtime = runtime], opened)
  <2> PICK runtime : q.pc = "build" /\ Register(r, [q EXCEPT !.runtime = runtime], opened)
    BY <1>3
  <2> DEFINE n == [q EXCEPT !.runtime = runtime]
  <2>1. Shape(n) /\ n.results = q.results /\ n.outcome = "none" /\ Sequence(q.results)
    BY Building DEF Ready
  <2> HIDE DEF n
  <2>2. Register(r, n, opened)
    BY DEF n
  <2> QED BY <2>1, <2>2, Registers
<1>4. CASE \E runtime : /\ q.pc = "build"
                        /\ req' = [req EXCEPT ![r] = [[q EXCEPT !.runtime = runtime] EXCEPT !.pc = "indexing"]]
                        /\ stack' = [stack EXCEPT ![r] = opened]
                        /\ UNCHANGED <<closing, registered>>
  <2> PICK runtime : /\ q.pc = "build"
                     /\ req' = [req EXCEPT ![r] = [[q EXCEPT !.runtime = runtime] EXCEPT !.pc = "indexing"]]
                     /\ stack' = [stack EXCEPT ![r] = opened]
                     /\ UNCHANGED <<closing, registered>>
    BY <1>4
  <2> DEFINE i == [[q EXCEPT !.runtime = runtime] EXCEPT !.pc = "indexing"]
  <2>1. Held(i) /\ i.pc = "indexing" /\ i.results = q.results
    BY Building
  <2> HIDE DEF i
  <2>2. req' = [req EXCEPT ![r] = i]
    BY DEF i
  <2> QED BY <1>0, <2>1, <2>2, Waits DEF Early, Opening
<1> QED BY <1>1, <1>2, <1>3, <1>4 DEF Advance

----------------------------------------------------------------------------
(* The keys *)

(* What a request holds further on, with no server yet, is ready for the rest of its step. *)
LEMMA OnwardReady ==
    ASSUME NEW q, NEW n, Onward(q, n), q.results = <<>>
    PROVE  Ready(n)
<1>1. Sequence(<<>>)
  BY DEF Sequence
<1> QED BY <1>1 DEF Onward, Ready, Early, Refusals

(* Keys of a version let a token on, refuse it, or make the request fetch others. *)
LEMMA CheckedReady ==
    ASSUME NEW q, Shape(q), q.outcome = "none", q.results = <<>>, NEW b, NEW version
    PROVE  LET n == Checked(q, b, version)
           IN  /\ Ready(n) /\ n.results = <<>> /\ n.at = q.at /\ n.version = version
               /\ \/ n.pc = "fetching" /\ n.outcome = "none"
                  \/ n.pc = "over" /\ n.outcome = "unknown_key" /\ q.forced /\ b.token.kid \notin KeySets[version]
                  \/ n.pc \notin Unjudged \cup {"unborn"} /\ n.outcome # "unknown_key" /\ b.token.kid \in KeySets[version]
<1> DEFINE p == [q EXCEPT !.version = version]
           f == [p EXCEPT !.forced = TRUE, !.pc = "fetching"]
<1>0. Sequence(<<>>)
  BY DEF Sequence
<1>1. /\ Shape(p) /\ p.at = q.at /\ p.version = version /\ p.results = <<>> /\ p.outcome = "none"
  BY DEF Shape, Fields
<1>2. \/ b.token.kid \in KeySets[version] /\ Checked(q, b, version) = Admitted(p, b)
      \/ b.token.kid \in KeySets[version] /\ Checked(q, b, version) = Ended(p, "bad_token")
      \/ b.token.kid \notin KeySets[version] /\ q.forced /\ Checked(q, b, version) = Ended(p, "unknown_key")
      \/ b.token.kid \notin KeySets[version] /\ Checked(q, b, version) = f
  BY DEF Checked
<1> HIDE DEF p
<1>3. /\ Shape(f) /\ f.at = q.at /\ f.version = version /\ f.results = <<>> /\ f.outcome = "none"
      /\ f.pc = "fetching"
  BY <1>1 DEF Shape, Fields
<1> HIDE DEF f
<1>4. Ready(f)
  BY <1>0, <1>3 DEF Ready, Early, Refusals
<1>5. Onward(p, Admitted(p, b))
  BY <1>1, AdmittedOnward
<1>6. ASSUME NEW outcome \in {"bad_token", "unknown_key"}
      PROVE  LET n == Ended(p, outcome)
             IN  Ready(n) /\ n.pc = "over" /\ n.outcome = outcome /\ n.at = q.at /\ n.version = version /\ n.results = <<>>
  BY <1>0, <1>1, EndedFields DEF Ready, Early, Refusals
<1>7. CASE Checked(q, b, version) = Admitted(p, b) /\ b.token.kid \in KeySets[version]
  <2>1. Ready(Admitted(p, b))
    BY <1>1, <1>5, OnwardReady
  <2> QED BY <1>1, <1>5, <1>7, <2>1 DEF Onward, Unjudged
<1>8. CASE Checked(q, b, version) = Ended(p, "bad_token") /\ b.token.kid \in KeySets[version]
  BY <1>6, <1>8 DEF Unjudged
<1>9. CASE Checked(q, b, version) = Ended(p, "unknown_key") /\ b.token.kid \notin KeySets[version] /\ q.forced
  BY <1>6, <1>9 DEF Unjudged
<1>10. CASE Checked(q, b, version) = f
  BY <1>3, <1>4, <1>10
<1> QED BY <1>2, <1>7, <1>8, <1>9, <1>10

(* What a step makes of a request that is ready. *)
LEMMA Advanced ==
    ASSUME NEW r \in Request, NEW q, Ready(q), NEW opened, Advance(r, q, opened)
    PROVE  \E n : /\ req' = [req EXCEPT ![r] = n]
                  /\ n.at = q.at /\ n.version = q.version
                  /\ \/ n = q
                     \/ /\ q.pc = "build" /\ n.pc \in Opening \cup Late
                        /\ n.outcome \in {"none", "ok", "failed"}
<1> DEFINE n(runtime) == [q EXCEPT !.runtime = runtime]
           failed(p) == [Ended(q, "failed") EXCEPT !.pc = p]
           last(m) == /\ req' = [req EXCEPT ![r] = m]
                      /\ m.at = q.at /\ m.version = q.version
                      /\ \/ m = q
                         \/ /\ q.pc = "build" /\ m.pc \in Opening \cup Late
                            /\ m.outcome \in {"none", "ok", "failed"}
           waiting(runtime, o) == [n(runtime) EXCEPT !.pc = "displacing", !.previous = o]
<1>6. ASSUME Fail(r, q, opened, "failed")
      PROVE  \E p \in {"over", "closing"} : req' = [req EXCEPT ![r] = failed(p)]
  <2>1. \E p \in {"over", "closing"} : p = IF opened = <<>> THEN "over" ELSE "closing"
    OBVIOUS
  <2> QED BY <1>6, <2>1 DEF Fail
<1>7. ASSUME NEW runtime, Register(r, n(runtime), opened)
      PROVE  \/ \E o : req' = [req EXCEPT ![r] = waiting(runtime, o)]
             \/ req' = [req EXCEPT ![r] = Ended(n(runtime), "ok")]
  <2> HIDE DEF n
  <2>1. waiting(runtime, registered[Home(r)]) = [n(runtime) EXCEPT !.pc = "displacing", !.previous = registered[Home(r)]]
    OBVIOUS
  <2> HIDE DEF waiting
  <2> QED BY <1>7, <2>1 DEF Register
<1>8. \/ req' = [req EXCEPT ![r] = q]
      \/ q.pc = "build" /\ Fail(r, q, opened, "failed")
      \/ q.pc = "build" /\ \E runtime : Register(r, n(runtime), opened)
      \/ q.pc = "build" /\ \E runtime : req' = [req EXCEPT ![r] = [n(runtime) EXCEPT !.pc = "indexing"]]
  BY DEF Advance
<1>1. \/ req' = [req EXCEPT ![r] = q]
      \/ q.pc = "build" /\ \E p \in {"over", "closing"} : req' = [req EXCEPT ![r] = failed(p)]
      \/ q.pc = "build" /\ \E runtime : req' = [req EXCEPT ![r] = [n(runtime) EXCEPT !.pc = "indexing"]]
      \/ q.pc = "build" /\ \E runtime, o : req' = [req EXCEPT ![r] = waiting(runtime, o)]
      \/ q.pc = "build" /\ \E runtime : req' = [req EXCEPT ![r] = Ended(n(runtime), "ok")]
  <2> HIDE DEF n, failed, waiting
  <2> QED BY <1>6, <1>7, <1>8
<1>2. ASSUME NEW p \in {"over", "closing"}
      PROVE  failed(p).at = q.at /\ failed(p).version = q.version /\ failed(p).pc = p
             /\ failed(p).outcome = "failed"
  <2>1. LET e == Ended(q, "failed") IN Shape(e) /\ e.at = q.at /\ e.version = q.version /\ e.outcome = "failed"
    BY EndedFields DEF Ready
  <2> QED BY <2>1 DEF Shape, Fields
<1>3. ASSUME NEW runtime, q.pc = "build"
      PROVE  LET i == [n(runtime) EXCEPT !.pc = "indexing"]
             IN  i.at = q.at /\ i.version = q.version /\ i.pc = "indexing" /\ i.outcome = "none"
  BY <1>3, Building
<1>4. ASSUME NEW runtime, q.pc = "build"
      PROVE  LET e == Ended(n(runtime), "ok")
             IN  e.at = q.at /\ e.version = q.version /\ e.pc = "over" /\ e.outcome = "ok"
  <2>1. Shape(n(runtime)) /\ n(runtime).at = q.at /\ n(runtime).version = q.version
    BY <1>4, Building
  <2> HIDE DEF n
  <2> QED BY <2>1, EndedFields
<1>5. ASSUME NEW runtime, NEW o, q.pc = "build"
      PROVE  LET w == waiting(runtime, o)
             IN  w.at = q.at /\ w.version = q.version /\ w.pc = "displacing" /\ w.outcome = "none"
  <2>1. Shape(n(runtime)) /\ n(runtime).at = q.at /\ n(runtime).version = q.version
        /\ n(runtime).outcome = "none"
    BY <1>5, Building
  <2> HIDE DEF n
  <2> QED BY <2>1 DEF Shape, Fields
<1> SUFFICES \E m : last(m)
  OBVIOUS
<1> HIDE DEF n, failed, waiting
<1>9. CASE req' = [req EXCEPT ![r] = q]
  BY <1>9
<1>10. CASE q.pc = "build" /\ \E p \in {"over", "closing"} : req' = [req EXCEPT ![r] = failed(p)]
  BY <1>2, <1>10 DEF Late
<1>11. CASE q.pc = "build" /\ \E runtime : req' = [req EXCEPT ![r] = [n(runtime) EXCEPT !.pc = "indexing"]]
  BY <1>3, <1>11 DEF Opening
<1>12. CASE q.pc = "build" /\ \E runtime, o : req' = [req EXCEPT ![r] = waiting(runtime, o)]
  <2>1. PICK runtime, o : req' = [req EXCEPT ![r] = waiting(runtime, o)]
    BY <1>12
  <2>2. last(waiting(runtime, o))
    BY <1>5, <1>12, <2>1 DEF Late
  <2> HIDE DEF last
  <2> QED BY <2>2
<1>13. CASE q.pc = "build" /\ \E runtime : req' = [req EXCEPT ![r] = Ended(n(runtime), "ok")]
  BY <1>4, <1>13 DEF Late
<1> HIDE DEF last
<1> QED BY <1>1, <1>9, <1>10, <1>11, <1>12, <1>13

----------------------------------------------------------------------------
(* The verdict on a token *)

(* The verdicts after a step of one request. *)
LEMMA Judges ==
    ASSUME Inv, NEW r \in Request, UNCHANGED <<plan, published>>,
           NEW n, req' = [req EXCEPT ![r] = n],
           n.version \in 0..published, n.at.version \in 0..published,
           n.pc = "keys" => n.version >= n.at.version /\ n.version > 0,
           plan.auth => Verdict(Body(r).token, n)
    PROVE  Judged'
<1>1. req'[r] = n /\ \A o \in Request \ {r} : req'[o] = req[o]
  BY DEF Inv, Typed, Sessions
<1>2. \A o : Body(o)' = Body(o)
  BY DEF Body
<1> SUFFICES ASSUME NEW o \in Request
             PROVE  /\ req'[o].version \in 0..published /\ req'[o].at.version \in 0..published
                    /\ req'[o].pc = "keys" => req'[o].version >= req'[o].at.version /\ req'[o].version > 0
                    /\ plan.auth => Verdict(Body(o).token, req'[o])
  BY <1>2 DEF Judged, At, Verdict
<1> QED BY <1>1 DEF Inv, Judged, At

(* A request whose token was let in goes on, or ends for another reason. *)
LEMMA Keeps ==
    ASSUME NEW token, NEW q, NEW n, Verdict(token, q),
           q.pc \notin Unjudged, n.pc \notin Unjudged,
           n.at = q.at, n.version = q.version,
           n.outcome = q.outcome \/ (q.outcome = "none" /\ n.outcome \notin {"unknown_key", "bad_token"})
    PROVE  Verdict(token, n)
BY DEF Verdict, Unjudged

(* The rest of a step does not change the verdict. *)
LEMMA StepJudged ==
    ASSUME Inv, NEW r \in Request, UNCHANGED <<plan, published>>,
           NEW q, Ready(q), NEW opened, Advance(r, q, opened),
           q.version \in 0..published, q.at.version \in 0..published, q.pc # "keys",
           plan.auth => Verdict(Body(r).token, q)
    PROVE  Judged'
<1>1. PICK n : /\ req' = [req EXCEPT ![r] = n]
               /\ n.at = q.at /\ n.version = q.version
               /\ \/ n = q
                  \/ /\ q.pc = "build" /\ n.pc \in Opening \cup Late
                     /\ n.outcome \in {"none", "ok", "failed"}
  BY Advanced
<1>2. q.pc = "build" => q.outcome = "none"
  BY DEF Ready
<1>3. ASSUME plan.auth PROVE Verdict(Body(r).token, n)
  <2>1. CASE n = q
    BY <1>3, <2>1
  <2>2. CASE q.pc = "build" /\ n.pc \in Opening \cup Late /\ n.outcome \in {"none", "ok", "failed"}
    BY <1>1, <1>2, <1>3, <2>2, Keeps DEF Unjudged, Opening, Late
  <2> QED BY <1>1, <2>1, <2>2
<1>4. n.pc # "keys"
  BY <1>1 DEF Opening, Late
<1> QED BY <1>1, <1>3, <1>4, Judges

(* What the rest of the state is typed by, when only the sessions change. *)
LEMMA Frame ==
    ASSUME Inv, Sessions', Owned', Judged',
           UNCHANGED <<plan, published, jwks, store, held, turn>>,
           \/ UNCHANGED <<index, removed>>
           \/ removed' = removed /\ \E r \in Request : index' = index \cup {r}
           \/ removed' = removed \cup {Old} /\ index' = index \ {Old}
    PROVE  Inv'
<1>1. Stores'
  BY Apart DEF Inv, Typed, Stores, Conversation
<1>2. Keys' /\ Lendings' /\ Turns'
  BY DEF Inv, Typed, Keys, Lendings, Turns, Sent
<1> QED BY <1>1, <1>2 DEF Inv, Typed

(* A step from an await before the servers to the next one. *)
LEMMA Proceeds ==
    ASSUME Inv, NEW r \in DOMAIN plan.body,
           req[r].pc \in {"skills", "ref", "owned", "database", "profile"},
           NEW q, Onward(req[r], q), Moves(r, q)
    PROVE  Inv'
<1>1. r \in Request /\ Held(req[r]) /\ req[r].results = <<>> /\ req[r].outcome = "none"
  BY PlanDomain DEF Inv, Typed, Sessions, Held, Early, Opening, Late
<1>2. Ready(q) /\ q.results = <<>>
  BY <1>1, OnwardReady DEF Onward
<1>3. req[r].pc \notin Late /\ req[r].pc \notin Opening /\ req[r].pc \in Early /\ req[r].pc \notin Unjudged
  BY DEF Late, Opening, Early, Unjudged
<1>4. stack[r] = <<>>
  BY <1>1, <1>3, Before DEF Inv
<1>5. stack[r] \in Seq(Entries) /\ Ordered(stack[r]) /\ Covers(stack[r], q.results)
      /\ Credited(stack[r], held[r])
  BY <1>1, <1>2, <1>3 DEF Inv, Typed, Sessions, Owned, InOrder, Lent, Covers
<1>6. /\ Advance(r, q, stack[r])
      /\ UNCHANGED <<plan, published, jwks, index, removed, store, held, turn>>
  BY DEF Moves, others
<1>7. Sessions' /\ Owned'
  BY <1>2, <1>3, <1>4, <1>5, <1>6, Advances DEF Inv
<1>8. q.pc \notin Unjudged /\ q.pc # "keys" /\ q.at = req[r].at /\ q.version = req[r].version
      /\ q.outcome \notin {"unknown_key", "bad_token"}
  BY DEF Onward, Unjudged
<1>9. plan.auth => Verdict(Body(r).token, q)
  BY <1>1, <1>3, <1>8, Keeps DEF Inv, Judged
<1>10. Judged'
  BY <1>1, <1>2, <1>6, <1>8, <1>9, StepJudged DEF Inv, Judged
<1> QED BY <1>6, <1>7, <1>10, Frame

(* A request ends before it has a session. *)
LEMMA Stopped ==
    ASSUME Inv, NEW r \in DOMAIN plan.body, req[r].pc \notin Late \cup {"unborn"},
           NEW outcome \in Refusals \ {"unknown_key", "bad_token"},
           req[r].pc \in Unjudged => outcome \in {"no_keys", "cancelled"},
           Fail(r, req[r], stack[r], outcome),
           UNCHANGED <<plan, published, jwks, removed, store, held, turn>>,
           index' \in {index, index \cup {r}}
    PROVE  Inv'
<1>1. r \in Request /\ Held(req[r]) /\ req[r].outcome = "none"
  BY PlanDomain DEF Inv, Typed, Sessions, Held, Late
<1>2. stack[r] \in Seq(Entries) /\ Ordered(stack[r])
  BY <1>1 DEF Inv, Typed, Sessions, Owned, InOrder
<1>3. Sessions' /\ Owned'
  BY <1>1, <1>2, Fails DEF Inv, Held
<1> DEFINE e == Ended(req[r], outcome)
           n == [e EXCEPT !.pc = IF stack[r] = <<>> THEN "over" ELSE "closing"]
<1>4. Shape(e) /\ e.at = req[r].at /\ e.version = req[r].version /\ e.outcome = outcome
  BY <1>1, EndedFields DEF Held
<1>5. req' = [req EXCEPT ![r] = n]
  BY DEF Fail
<1> HIDE DEF e
<1>6. n.at = req[r].at /\ n.version = req[r].version /\ n.outcome = outcome /\ n.pc \in {"over", "closing"}
  BY <1>4 DEF Shape, Fields
<1> HIDE DEF n
<1>7. ASSUME plan.auth PROVE Verdict(Body(r).token, n)
  <2>0. Verdict(Body(r).token, req[r])
    BY <1>1, <1>7 DEF Inv, Judged
  <2>1. CASE req[r].pc \in Unjudged
    BY <1>6, <2>1 DEF Verdict
  <2>2. CASE req[r].pc \notin Unjudged
    BY <1>1, <1>6, <2>0, <2>2, Keeps DEF Unjudged
  <2> QED BY <2>1, <2>2
<1>8. Judged'
  BY <1>1, <1>5, <1>6, <1>7, Judges DEF Inv, Judged
<1>9. UNCHANGED <<index, removed>> \/ (removed' = removed /\ \E o \in Request : index' = index \cup {o})
  BY <1>1
<1> QED BY <1>3, <1>8, <1>9, Frame

----------------------------------------------------------------------------
(* Steps of a request up to its servers *)

(* Steps that wait for the stores of definitions, grants and profiles. *)
LEMMA ReadsInv ==
    ASSUME Inv, NEW r \in DOMAIN plan.body,
           ReadSkills(r) \/ ReadRef(r) \/ Resume(r) \/ GrantDatabase(r) \/ ReadProfile(r)
    PROVE  Inv'
<1>1. r \in Request /\ Held(req[r])
  BY PlanDomain DEF Inv, Typed, Sessions
<1>2. \A f \in {"skills", "ref", "owned", "database", "profile"} :
        At(r, f) => Shape(req[r]) /\ req[r].outcome = "none"
  BY <1>1 DEF Held, At
<1>3. CASE ReadSkills(r)
  <2> PICK known : /\ At(r, "skills")
                   /\ \/ Moves(r, Ended(req[r], "invalid"))
                      \/ Moves(r, Referring([req[r] EXCEPT !.skills = known], Body(r), <<>>))
    BY <1>3 DEF ReadSkills
  <2> DEFINE p == [req[r] EXCEPT !.skills = known]
  <2>1. /\ Shape(p) /\ p.at = req[r].at /\ p.version = req[r].version
        /\ p.results = req[r].results /\ p.outcome = req[r].outcome
    BY <1>2 DEF Shape, Fields
  <2> HIDE DEF p
  <2>2. Onward(req[r], Referring(p, Body(r), <<>>))
    BY <1>2, <2>1, ReferringOnward, OnwardFrom
  <2>3. Onward(req[r], Ended(req[r], "invalid"))
    BY <1>2, EndedOnward
  <2>4. Moves(r, Ended(req[r], "invalid")) \/ Moves(r, Referring(p, Body(r), <<>>))
    BY DEF p
  <2> QED BY <2>2, <2>3, <2>4, Proceeds DEF At
<1>4. CASE ReadRef(r)
  <2>1. PICK agents : At(r, "ref") /\ Moves(r, Referring(req[r], Body(r), agents))
    BY <1>4 DEF ReadRef
  <2>2. Onward(req[r], Referring(req[r], Body(r), agents))
    BY <1>2, <2>1, ReferringOnward
  <2> QED BY <2>1, <2>2, Proceeds DEF At
<1>5. CASE Resume(r)
  <2>1. /\ At(r, "owned")
        /\ Moves(r, Dependencies(req[r], Body(r))) \/ Moves(r, Ended(req[r], "not_found"))
    BY <1>5 DEF Resume
  <2>2. Onward(req[r], Dependencies(req[r], Body(r))) /\ Onward(req[r], Ended(req[r], "not_found"))
    BY <1>2, <2>1, StartOnward, EndedOnward
  <2> QED BY <2>1, <2>2, Proceeds DEF At
<1>6. CASE GrantDatabase(r)
  <2> PICK granted : /\ At(r, "database")
                     /\ Moves(r, WithProfile([req[r] EXCEPT !.database = granted], Body(r)))
    BY <1>6 DEF GrantDatabase
  <2> DEFINE p == [req[r] EXCEPT !.database = granted]
  <2>1. /\ Shape(p) /\ p.at = req[r].at /\ p.version = req[r].version
        /\ p.results = req[r].results /\ p.outcome = req[r].outcome
    BY <1>2 DEF Shape, Fields
  <2> HIDE DEF p
  <2>2. Onward(req[r], WithProfile(p, Body(r)))
    BY <1>2, <2>1, StartOnward, OnwardFrom
  <2>3. Moves(r, WithProfile(p, Body(r)))
    BY DEF p
  <2> QED BY <2>2, <2>3, Proceeds DEF At
<1>7. CASE ReadProfile(r)
  <2>1. At(r, "profile") /\ Moves(r, Connecting(req[r], Body(r)))
    BY <1>7 DEF ReadProfile
  <2>2. Onward(req[r], Connecting(req[r], Body(r)))
    BY <1>2, <2>1, ConnectingOnward
  <2> QED BY <2>1, <2>2, Proceeds DEF At
<1> QED BY <1>3, <1>4, <1>5, <1>6, <1>7

(* Steps in which a request fails or is cancelled. *)
LEMMA StopsInv ==
    ASSUME Inv, NEW r \in DOMAIN plan.body,
           KeysFail(r) \/ StoreFails(r) \/ IndexFails(r) \/ Cancel(r)
    PROVE  Inv'
<1>1. CASE KeysFail(r)
  <2>1. Fail(r, req[r], stack[r], "no_keys") /\ req[r].pc = "fetching"
        /\ UNCHANGED <<plan, published, jwks, index, removed, store, held, turn>>
    BY <1>1 DEF KeysFail, Stops, others, At
  <2> QED BY <2>1, Stopped DEF Refusals, Late
<1>2. CASE StoreFails(r)
  <2>1. PICK outcome \in {"unavailable", "failed"} : Fail(r, req[r], stack[r], outcome)
    BY <1>2 DEF StoreFails, Stops
  <2>2. /\ req[r].pc \in {"skills", "ref", "owned", "profile"}
        /\ UNCHANGED <<plan, published, jwks, index, removed, store, held, turn>>
    BY <1>2 DEF StoreFails, Stops, others
  <2> QED BY <2>1, <2>2, Stopped DEF Refusals, Late, Unjudged
<1>3. CASE IndexFails(r)
  <2>1. /\ req[r].pc = "indexing" /\ Fail(r, req[r], stack[r], "unavailable")
        /\ index' \in {index, index \cup {r}}
        /\ UNCHANGED <<plan, published, jwks, removed, store, held, turn>>
    BY <1>3 DEF IndexFails, At
  <2> QED BY <2>1, Stopped DEF Refusals, Late, Unjudged
<1>4. CASE Cancel(r)
  <2>1. /\ req[r].pc \notin Late \cup {"unborn"} /\ Fail(r, req[r], stack[r], "cancelled")
        /\ index' \in {index, index \cup {r}}
        /\ UNCHANGED <<plan, published, jwks, removed, store, held, turn>>
    BY <1>4 DEF Cancel, At, Late
  <2> QED BY <2>1, Stopped DEF Refusals
<1> QED BY <1>1, <1>2, <1>3, <1>4

(* Before the keys have judged it, a request has nothing open. *)
LEMMA Unopened ==
    ASSUME Inv, NEW r \in DOMAIN plan.body, req[r].pc \in Unjudged
    PROVE  /\ r \in Request /\ Held(req[r]) /\ Shape(req[r]) /\ req[r].results = <<>>
           /\ req[r].outcome = "none" /\ req[r].pc \notin Late
           /\ stack[r] = <<>> /\ <<>> \in Seq(Entries) /\ Ordered(<<>>) /\ Credited(<<>>, held[r])
<1>1. r \in Request /\ Held(req[r])
  BY PlanDomain DEF Inv, Typed, Sessions
<1>2. req[r].results = <<>>
  <2>1. Unborn.results = <<>>
    BY DEF Unborn
  <2> QED BY <1>1, <2>1 DEF Held, Unjudged, Early
<1>3. req[r].outcome = "none" /\ req[r].pc \notin Late /\ req[r].pc \notin Opening
      /\ req[r].pc \in {"unborn"} \cup Early
  BY <1>1 DEF Held, Unjudged, Late, Opening, Early
<1>4. stack[r] = <<>>
  BY <1>1, <1>3, Before DEF Inv
<1>5. Credited(stack[r], held[r])
  BY <1>1, <1>3 DEF Inv, Owned, Lent
<1> QED BY <1>1, <1>2, <1>3, <1>4, <1>5 DEF Held, Ordered

(* The keys are read, and they arrive: by then they may be out of date. *)
LEMMA KeysInv ==
    ASSUME Inv, NEW r \in DOMAIN plan.body, KeysRead(r) \/ KeysArrive(r)
    PROVE  Inv'
<1>1. CASE KeysRead(r)
  <2> DEFINE n == [req[r] EXCEPT !.pc = "keys", !.version = published]
  <2>1. req[r].pc = "fetching" /\ UNCHANGED <<plan, published, jwks, index, removed, store, turn,
                                               stack, closing, registered, held>>
    BY <1>1 DEF KeysRead, At, others
  <2>2. /\ r \in Request /\ Held(req[r]) /\ Shape(req[r]) /\ req[r].results = <<>>
        /\ req[r].outcome = "none" /\ req[r].pc \notin Late
        /\ stack[r] = <<>> /\ <<>> \in Seq(Entries) /\ Ordered(<<>>) /\ Credited(<<>>, held[r])
    BY <2>1, Unopened DEF Unjudged
  <2>3. req' = [req EXCEPT ![r] = n] /\ stack' = [stack EXCEPT ![r] = <<>>]
    BY <1>1, <2>1, <2>2 DEF KeysRead, Inv, Typed, Sessions
  <2>4. Shape(n) /\ n.pc = "keys" /\ n.version = published /\ n.at = req[r].at
        /\ n.results = <<>> /\ n.outcome = "none"
    BY <2>2 DEF Shape, Fields
  <2> HIDE DEF n
  <2>5. Held(n) /\ n.pc \in Early /\ n.pc \notin Opening
    BY <2>2, <2>4 DEF Held, Early, Opening
  <2>6. Sessions' /\ Owned'
    BY <2>1, <2>2, <2>3, <2>5, Waits DEF Inv
  <2>7. published \in Nat \ {0} /\ req[r].at.version \in 0..published
    <3>1. DOMAIN KeySets \subseteq Nat \ {0}
      BY SessionAssumption
    <3> QED BY <2>2, <3>1 DEF Inv, Typed, Keys, Judged
  <2>8. plan.auth => Verdict(Body(r).token, n)
    BY <2>1, <2>2, <2>4 DEF Inv, Judged, Verdict, Unjudged
  <2>9. /\ n.version \in 0..published /\ n.at.version \in 0..published
        /\ n.version >= n.at.version /\ n.version > 0
    BY <2>4, <2>7
  <2>10. Judged'
    BY <2>1, <2>2, <2>3, <2>8, <2>9, Judges
  <2> QED BY <2>1, <2>6, <2>10, Frame
<1>2. CASE KeysArrive(r)
  <2> DEFINE q == Checked(req[r], Body(r), req[r].version)
  <2>1. /\ req[r].pc = "keys" /\ jwks' = req[r].version /\ Advance(r, q, stack[r])
        /\ UNCHANGED <<plan, published, index, removed, store, turn, held>>
    BY <1>2 DEF KeysArrive, At, others
  <2>2. /\ r \in Request /\ Shape(req[r]) /\ req[r].results = <<>>
        /\ req[r].outcome = "none" /\ req[r].pc \notin Late
        /\ stack[r] = <<>> /\ <<>> \in Seq(Entries) /\ Ordered(<<>>) /\ Credited(<<>>, held[r])
    BY <2>1, Unopened DEF Unjudged
  <2>3. /\ Ready(q) /\ q.results = <<>> /\ q.at = req[r].at /\ q.version = req[r].version
        /\ \/ q.pc = "fetching" /\ q.outcome = "none"
           \/ q.pc = "over" /\ q.outcome = "unknown_key" /\ Body(r).token.kid \notin KeySets[req[r].version]
           \/ q.pc \notin Unjudged /\ q.outcome # "unknown_key" /\ Body(r).token.kid \in KeySets[req[r].version]
    BY <2>2, CheckedReady
  <2> HIDE DEF q
  <2>4. Covers(<<>>, q.results)
    BY <2>3 DEF Covers
  <2>5. Sessions' /\ Owned'
    BY <2>1, <2>2, <2>3, <2>4, Advances DEF Inv
  <2>6. /\ req[r].version \in 0..published /\ req[r].at.version \in 0..published
        /\ req[r].version >= req[r].at.version /\ req[r].version > 0
        /\ plan.auth => Body(r).token # NoOne
    BY <2>1, <2>2 DEF Inv, Judged, At, Verdict
  <2>7. plan.auth => Verdict(Body(r).token, q)
    BY <2>3, <2>6 DEF Verdict, Unjudged
  <2>8. Judged'
    BY <2>1, <2>2, <2>3, <2>6, <2>7, StepJudged DEF Unjudged
  <2>9. Keys' /\ Stores' /\ Lendings' /\ Turns'
    BY <2>1, <2>6 DEF Inv, Typed, Keys, Stores, Lendings, Turns, Sent, Conversation
  <2> QED BY <2>1, <2>5, <2>8, <2>9 DEF Inv, Typed
<1> QED BY <1>1, <1>2

(* A request arrives, and is judged by the cached keys if there are any. *)
LEMMA ArriveInv ==
    ASSUME Inv, NEW r \in DOMAIN plan.body, Arrive(r)
    PROVE  Inv'
<1> DEFINE b == Body(r)
           q == [Unborn EXCEPT !.at = [version |-> published, owned |-> Old \in index, agents |-> store]]
           f == [q EXCEPT !.pc = "fetching"]
<1>1. /\ Shape(q) /\ q.at.version = published /\ q.version = 0 /\ q.results = <<>>
      /\ q.outcome = "none" /\ ~q.forced
  BY DEF Unborn, Shape, Fields
<1>2. PICK n : /\ Moves(r, n)
               /\ \/ ~plan.auth /\ n = Admitted(q, b)
                  \/ n = Ended(q, "no_token")
                  \/ n = Ended(q, "bad_token")
                  \/ b.token # NoOne /\ jwks # 0 /\ n = Checked(q, b, jwks)
                  \/ b.token # NoOne /\ n = f
  BY DEF Arrive
<1> HIDE DEF q
<1>3. /\ Shape(f) /\ f.at.version = published /\ f.version = 0 /\ f.results = <<>>
      /\ f.outcome = "none" /\ f.pc = "fetching"
  BY <1>1 DEF Shape, Fields
<1> HIDE DEF f, b
<1>4. req[r].pc = "unborn" /\ Advance(r, n, stack[r])
      /\ UNCHANGED <<plan, published, jwks, index, removed, store, held, turn>>
  BY <1>2 DEF Arrive, At, Moves, others
<1>5. /\ r \in Request /\ req[r].pc \notin Late
      /\ stack[r] = <<>> /\ <<>> \in Seq(Entries) /\ Ordered(<<>>) /\ Credited(<<>>, held[r])
  BY <1>4, Unopened DEF Unjudged
<1>6. published \in Nat /\ jwks \in 0..published
  <2>1. DOMAIN KeySets \subseteq Nat
    BY SessionAssumption
  <2> QED BY <2>1 DEF Inv, Typed, Keys
<1>7. /\ Ready(n) /\ n.results = <<>> /\ n.at.version = published /\ n.version \in 0..published
      /\ n.pc # "keys" /\ (plan.auth => Verdict(b.token, n))
  <2>0. Sequence(<<>>)
    BY DEF Sequence
  <2>1. CASE ~plan.auth /\ n = Admitted(q, b)
    <3>1. Onward(q, n)
      BY <1>1, <2>1, AdmittedOnward
    <3> QED BY <1>1, <1>6, <2>1, <3>1, OnwardReady DEF Onward
  <2>2. ASSUME NEW outcome \in {"no_token", "bad_token"}, n = Ended(q, outcome)
        PROVE  /\ Ready(n) /\ n.results = <<>> /\ n.at.version = published
               /\ n.version \in 0..published /\ n.pc # "keys" /\ Verdict(b.token, n)
    <3>1. /\ Shape(n) /\ n.pc = "over" /\ n.outcome = outcome /\ n.results = <<>>
          /\ n.at.version = published /\ n.version = 0
      BY <1>1, <2>2, EndedFields
    <3> QED BY <1>6, <2>0, <3>1 DEF Ready, Early, Refusals, Verdict, Unjudged
  <2>3. CASE b.token # NoOne /\ jwks # 0 /\ n = Checked(q, b, jwks)
    <3>1. /\ Ready(n) /\ n.results = <<>> /\ n.at = q.at /\ n.version = jwks
          /\ \/ n.pc = "fetching" /\ n.outcome = "none"
             \/ n.pc \notin Unjudged /\ n.outcome # "unknown_key" /\ b.token.kid \in KeySets[jwks]
      BY <1>1, <2>3, CheckedReady
    <3> QED BY <1>1, <1>6, <2>3, <3>1 DEF Verdict, Unjudged
  <2>4. CASE b.token # NoOne /\ n = f
    BY <1>3, <1>6, <2>0, <2>4 DEF Ready, Early, Refusals, Verdict, Unjudged
  <2> QED BY <1>2, <2>1, <2>2, <2>3, <2>4
<1>8. Covers(<<>>, n.results)
  BY <1>7 DEF Covers
<1>9. Sessions' /\ Owned'
  BY <1>4, <1>5, <1>7, <1>8, Advances DEF Inv
<1>10. n.at.version \in 0..published /\ (plan.auth => Verdict(Body(r).token, n))
  BY <1>6, <1>7 DEF b
<1>11. Judged'
  BY <1>4, <1>5, <1>7, <1>10, StepJudged
<1> QED BY <1>4, <1>9, <1>11, Frame

----------------------------------------------------------------------------
(* The servers *)

(* An entry is pushed: a connection after its credential, if it needs one. *)
LEMMA Pushed ==
    ASSUME NEW x \in Seq(Entries), NEW e \in Entries, Ordered(x),
           e[1] = "server" /\ Auth[e[2]] = "obo" => \E j \in DOMAIN x : x[j] = Credential(e[2]),
           NEW results, NEW h
    PROVE  /\ Append(x, e) \in Seq(Entries) /\ Ordered(Append(x, e))
           /\ Covers(x, results) => Covers(Append(x, e), results)
           /\ Credited(x, h) => Credited(Append(x, e), h)
           /\ \E i \in DOMAIN Append(x, e) : Append(x, e)[i] = e
<1> DEFINE y == Append(x, e)
<1>1. y \in Seq(Entries) /\ Len(x) \in Nat /\ DOMAIN x = 1..Len(x) /\ DOMAIN y = 1..(Len(x) + 1)
      /\ y[Len(x) + 1] = e /\ \A i \in 1..Len(x) : y[i] = x[i]
  OBVIOUS
<1> HIDE DEF y
<1>2. Ordered(y)
  <2> SUFFICES ASSUME NEW i \in DOMAIN y, y[i][1] = "server" /\ Auth[y[i][2]] = "obo"
               PROVE  \E j \in 1..(i - 1) : y[j] = Credential(y[i][2])
    BY DEF Ordered
  <2>1. CASE i = Len(x) + 1
    <3>1. PICK j \in 1..Len(x) : x[j] = Credential(e[2])
      BY <1>1, <2>1
    <3>2. j \in 1..(i - 1) /\ y[j] = Credential(y[i][2])
      BY <1>1, <2>1, <3>1
    <3> QED BY <3>2
  <2>2. CASE i # Len(x) + 1
    <3>1. i \in 1..Len(x) /\ y[i] = x[i]
      BY <1>1, <2>2
    <3>2. PICK j \in 1..(i - 1) : x[j] = Credential(x[i][2])
      BY <1>1, <3>1 DEF Ordered
    <3>3. j \in 1..Len(x)
      BY <1>1, <3>1
    <3> QED BY <1>1, <3>1, <3>2, <3>3
  <2> QED BY <2>1, <2>2
<1>3. Covers(x, results) => Covers(y, results)
  BY <1>1 DEF Covers
<1>4. Credited(x, h) => Credited(y, h)
  BY <1>1 DEF Credited
<1>5. \E i \in DOMAIN y : y[i] = e
  BY <1>1
<1> QED BY <1>1, <1>2, <1>3, <1>4, <1>5 DEF y

(* A result is noted: its connection is on the stack. *)
LEMMA Noted ==
    ASSUME NEW x, NEW S, NEW results \in Seq(S), Covers(x, results), NEW e,
           e.ok => \E i \in DOMAIN x : x[i] = Connection(e.server)
    PROVE  Covers(x, Append(results, e)) /\ Sequence(Append(results, e))
<1> DEFINE T == S \cup {e}
           y == Append(results, e)
<1>1. results \in Seq(T) /\ e \in T
  OBVIOUS
<1>2. y \in Seq(T) /\ DOMAIN y = 1..(Len(results) + 1) /\ Len(results) \in Nat
      /\ y[Len(results) + 1] = e /\ \A i \in 1..Len(results) : y[i] = results[i]
      /\ DOMAIN results = 1..Len(results)
  BY <1>1
<1> HIDE DEF y
<1>3. Covers(x, y)
  <2> SUFFICES ASSUME NEW k \in DOMAIN y, y[k].ok
               PROVE  \E i \in DOMAIN x : x[i] = Connection(y[k].server)
    BY DEF Covers
  <2>1. CASE k = Len(results) + 1
    BY <1>2, <2>1
  <2>2. CASE k # Len(results) + 1
    BY <1>2, <2>2 DEF Covers
  <2> QED BY <2>1, <2>2
<1> QED BY <1>2, <1>3 DEF Sequence, y

(* With the result of a server noted, the request is ready for the next one. *)
LEMMA OutcomeReady ==
    ASSUME NEW r, Held(req[r]), req[r].pc = "connecting", NEW ok \in BOOLEAN,
           NEW s, Head(req[r].todo).server = s,
           NEW x, Covers(x, req[r].results),
           ok => \E i \in DOMAIN x : x[i] = Connection(s)
    PROVE  LET q == Outcome(r, ok)
           IN  /\ Ready(q) /\ Covers(x, q.results) /\ q.pc \in {"connecting", "build"}
               /\ q.at = req[r].at /\ q.version = req[r].version /\ q.outcome = "none"
<1> DEFINE e == [server |-> s, for |-> Head(req[r].todo).for, ok |-> ok]
           q == Outcome(r, ok)
<1>1. /\ Shape(q) /\ q.at = req[r].at /\ q.version = req[r].version /\ q.outcome = req[r].outcome
      /\ q.results = Append(req[r].results, e) /\ q.todo = Tail(req[r].todo)
      /\ q.pc = IF Tail(req[r].todo) = <<>> THEN "build" ELSE "connecting"
  BY DEF Outcome, Held, Shape, Fields
<1>2. req[r].outcome = "none"
  BY DEF Held
<1>3. PICK S : req[r].results \in Seq(S)
  BY DEF Held, Sequence
<1>4. e.ok = ok /\ e.server = s
  OBVIOUS
<1> HIDE DEF e
<1>5. Covers(x, Append(req[r].results, e)) /\ Sequence(Append(req[r].results, e))
  BY <1>3, <1>4, Noted
<1> HIDE DEF q
<1>6. Ready(q)
  BY <1>1, <1>2, <1>5 DEF Ready, Early
<1> QED BY <1>1, <1>2, <1>5, <1>6 DEF q

(* A server is done with: what was pushed for it is in order, and the token that
   its header provider holds is one that a credential was got for. *)
LEMMA ServerDone ==
    ASSUME Inv, NEW r \in DOMAIN plan.body, req[r].pc = "connecting",
           NEW s \in Server, Head(req[r].todo).server = s, NEW ok \in BOOLEAN,
           NEW x \in Seq(Entries), Ordered(x), Covers(x, req[r].results), Credited(x, held'[r]),
           ok => \E i \in DOMAIN x : x[i] = Connection(s),
           Advance(r, Outcome(r, ok), x),
           UNCHANGED <<plan, published, jwks, index, removed, store, turn>>,
           \A o \in Request \ {r} : held'[o] = held[o],
           Lendings'
    PROVE  Inv'
<1> DEFINE q == Outcome(r, ok)
<1>1. r \in Request /\ Held(req[r])
  BY PlanDomain DEF Inv, Typed, Sessions
<1>2. /\ Ready(q) /\ Covers(x, q.results) /\ q.pc \in {"connecting", "build"}
      /\ q.at = req[r].at /\ q.version = req[r].version /\ q.outcome = "none"
  BY <1>1, OutcomeReady
<1>3. Advance(r, q, x)
  OBVIOUS
<1> HIDE DEF q
<1>4. req[r].pc \notin Late /\ req[r].pc \notin Unjudged
  BY DEF Late, Unjudged
<1>5. /\ q.pc \notin Early \cup {"over"} /\ q.pc # "keys" /\ q.pc \notin Unjudged
      /\ req[r].outcome = "none"
  BY <1>1, <1>2 DEF Early, Unjudged, Held
<1>6. Sessions' /\ Owned'
  BY <1>2, <1>3, <1>4, <1>5, Advances DEF Inv
<1>7. plan.auth => Verdict(Body(r).token, q)
  BY <1>1, <1>2, <1>4, <1>5, Keeps DEF Inv, Judged
<1>8. Judged'
  BY <1>1, <1>2, <1>3, <1>5, <1>7, StepJudged DEF Inv, Judged
<1>9. Keys' /\ Stores' /\ Turns'
  BY DEF Inv, Typed, Keys, Stores, Turns, Sent, Conversation
<1> QED BY <1>6, <1>8, <1>9 DEF Inv, Typed

(* A header provider is called: the credential it gets is pushed. *)
LEMMA HeaderGiven ==
    ASSUME Typed, NEW r \in Request, NEW s \in Server, NEW token, Holds(r, s, token),
           Ordered(stack[r])
    PROVE  LET x == WithCredential(r, s, token)
           IN  /\ x \in Seq(Entries) /\ Ordered(x)
               /\ \A results : Covers(stack[r], results) => Covers(x, results)
               /\ Credited(stack[r], held[r]) => Credited(x, held'[r])
               /\ Auth[s] = "obo" /\ token # NoOne => held'[r][s] = token
               /\ \A o \in Request \ {r} : held'[o] = held[o]
               /\ Lendings'
               /\ x # <<>> \/ x = stack[r]
<1> DEFINE e == Credential(s)
<1>0. e = Credential(s) /\ e \in Entries /\ e[1] # "server" /\ stack[r] \in Seq(Entries)
  BY DEF Credential, Entries, Typed, Sessions
<1> HIDE DEF e
<1>1. CASE Renews(r, s, token)
  <2> DEFINE x == Append(stack[r], e)
  <2>1. WithCredential(r, s, token) = x
    BY <1>0, <1>1 DEF WithCredential
  <2>2. /\ x \in Seq(Entries) /\ Ordered(x)
        /\ \A results : Covers(stack[r], results) => Covers(x, results)
        /\ Credited(stack[r], held[r]) => Credited(x, held[r])
        /\ \E i \in DOMAIN x : x[i] = e
    BY <1>0, Pushed
  <2>3. held' = [held EXCEPT ![r][s] = token] /\ held = [o \in Request |-> [p \in Server |-> held[o][p]]]
    BY <1>1 DEF Holds, Typed, Lendings
  <2>4. /\ held'[r][s] = token /\ \A o \in Request \ {r} : held'[o] = held[o]
        /\ \A p \in Server \ {s} : held'[r][p] = held[r][p]
        /\ held' = [o \in Request |-> [p \in Server |-> held'[o][p]]]
    BY <2>3
  <2>5. x # <<>>
    BY <1>0
  <2> HIDE DEF x
  <2>6. Credited(stack[r], held[r]) => Credited(x, held'[r])
    BY <1>0, <2>2, <2>4 DEF Credited
  <2> QED BY <2>1, <2>2, <2>4, <2>5, <2>6 DEF Lendings
<1>2. CASE ~Renews(r, s, token)
  <2>1. WithCredential(r, s, token) = stack[r] /\ held' = held
    BY <1>2 DEF WithCredential, Holds
  <2>2. Auth[s] = "obo" /\ token # NoOne => held[r][s] = token
    BY <1>2 DEF Renews
  <2> QED BY <1>0, <2>1, <2>2 DEF Typed, Lendings
<1> QED BY <1>1, <1>2

(* A server connects, or fails after or before its header provider was called. *)
LEMMA ConnectsInv ==
    ASSUME Inv, NEW r \in DOMAIN plan.body, Connects(r) \/ ConnectFails(r)
    PROVE  Inv'
<1> DEFINE token == Body(r).token
<1> HIDE DEF token
<1>0. r \in Request
  BY PlanDomain DEF Inv
<1>1. ASSUME req[r].pc = "connecting"
      PROVE  /\ stack[r] \in Seq(Entries) /\ Ordered(stack[r]) /\ Covers(stack[r], req[r].results)
             /\ Credited(stack[r], held[r])
  BY <1>0, <1>1 DEF Inv, Typed, Sessions, Owned, InOrder, Covered, Lent, Opening
<1>2. CASE Connects(r)
  <2> PICK s \in Server :
         /\ At(r, "connecting") /\ Head(req[r].todo).server = s
         /\ Auth[s] = "none" \/ token # NoOne
         /\ Holds(r, s, token)
         /\ Advance(r, Outcome(r, TRUE), Append(WithCredential(r, s, token), Connection(s)))
         /\ UNCHANGED <<others, jwks>>
    BY <1>2 DEF Connects, token
  <2> DEFINE x == WithCredential(r, s, token)
             e == Connection(s)
  <2>1. req[r].pc = "connecting" /\ UNCHANGED <<plan, published, jwks, index, removed, store, turn>>
    BY DEF At, others
  <2>2. /\ x \in Seq(Entries) /\ Ordered(x) /\ Covers(x, req[r].results)
        /\ Credited(x, held'[r]) /\ Lendings'
        /\ Auth[s] = "obo" => held'[r][s] # NoOne
        /\ \A o \in Request \ {r} : held'[o] = held[o]
    BY <1>0, <1>1, <2>1, HeaderGiven DEF Inv
  <2>3. e = Connection(s) /\ e \in Entries /\ e[2] = s
    BY DEF Connection, Entries
  <2>4. Advance(r, Outcome(r, TRUE), Append(x, e))
    OBVIOUS
  <2> HIDE DEF x, e
  <2>5. e[1] = "server" /\ Auth[e[2]] = "obo" => \E j \in DOMAIN x : x[j] = Credential(e[2])
    BY <2>2, <2>3 DEF Credited
  <2>6. /\ Append(x, e) \in Seq(Entries) /\ Ordered(Append(x, e))
        /\ Covers(Append(x, e), req[r].results) /\ Credited(Append(x, e), held'[r])
        /\ \E i \in DOMAIN Append(x, e) : Append(x, e)[i] = e
    BY <2>2, <2>3, <2>5, Pushed
  <2> QED BY <2>1, <2>2, <2>3, <2>4, <2>6, ServerDone
<1>3. CASE ConnectFails(r)
  <2> PICK s \in Server :
         /\ At(r, "connecting") /\ Head(req[r].todo).server = s
         /\ \/ /\ Holds(r, s, token)
               /\ Advance(r, Outcome(r, FALSE), WithCredential(r, s, token))
            \/ /\ UNCHANGED held
               /\ Advance(r, Outcome(r, FALSE), stack[r])
         /\ UNCHANGED <<others, jwks>>
    BY <1>3 DEF ConnectFails, token
  <2>1. req[r].pc = "connecting" /\ UNCHANGED <<plan, published, jwks, index, removed, store, turn>>
    BY DEF At, others
  <2>2. CASE Holds(r, s, token) /\ Advance(r, Outcome(r, FALSE), WithCredential(r, s, token))
    <3> DEFINE x == WithCredential(r, s, token)
    <3>1. /\ x \in Seq(Entries) /\ Ordered(x) /\ Covers(x, req[r].results)
          /\ Credited(x, held'[r]) /\ Lendings'
          /\ \A o \in Request \ {r} : held'[o] = held[o]
      BY <1>0, <1>1, <2>1, <2>2, HeaderGiven DEF Inv
    <3>2. Advance(r, Outcome(r, FALSE), x)
      BY <2>2
    <3> HIDE DEF x
    <3> QED BY <2>1, <3>1, <3>2, ServerDone
  <2>3. CASE UNCHANGED held /\ Advance(r, Outcome(r, FALSE), stack[r])
    <3>1. Lendings' /\ Credited(stack[r], held'[r]) /\ \A o \in Request \ {r} : held'[o] = held[o]
      BY <1>1, <2>1, <2>3 DEF Inv, Typed, Lendings
    <3> QED BY <1>1, <2>1, <2>3, <3>1, ServerDone
  <2> QED BY <2>2, <2>3
<1> QED BY <1>2, <1>3

----------------------------------------------------------------------------
(* A session that is registered, displaced, closed or used *)

(* A new conversation is stored, and its session registered. *)
LEMMA IndexedInv ==
    ASSUME Inv, NEW r \in DOMAIN plan.body, Indexed(r)
    PROVE  Inv'
<1> DEFINE previous == registered[Home(r)]
           waiting == [req[r] EXCEPT !.pc = "displacing", !.previous = previous]
<1>1. /\ r \in Request /\ Held(req[r]) /\ req[r].pc = "indexing" /\ req[r].outcome = "none"
      /\ req[r].pc \notin Late \cup Unjudged
  BY PlanDomain DEF Inv, Typed, Sessions, Held, Indexed, At, Late, Unjudged
<1>2. /\ Register(r, req[r], stack[r]) /\ index' = index \cup {r}
      /\ UNCHANGED <<plan, published, jwks, removed, store, held, turn>>
  BY DEF Indexed
<1>3. /\ stack[r] \in Seq(Entries) /\ Ordered(stack[r]) /\ Covers(stack[r], req[r].results)
      /\ Shape(req[r]) /\ Sequence(req[r].results)
  BY <1>1 DEF Inv, Typed, Sessions, Owned, InOrder, Covered, Opening, Held
<1>4. Sessions' /\ Owned'
  BY <1>1, <1>2, <1>3, Registers DEF Inv
<1>5. \E n \in {waiting, Ended(req[r], "ok")} : req' = [req EXCEPT ![r] = n]
  BY <1>2 DEF Register
<1>6. /\ waiting.at = req[r].at /\ waiting.version = req[r].version /\ waiting.outcome = "none"
      /\ waiting.pc = "displacing"
  <2> HIDE DEF previous
  <2> QED BY <1>1, <1>3 DEF Shape, Fields
<1> HIDE DEF waiting
<1>7. PICK n : /\ req' = [req EXCEPT ![r] = n] /\ n.at = req[r].at /\ n.version = req[r].version
               /\ n.outcome \in {"none", "ok"} /\ n.pc \notin Unjudged
  <2> DEFINE e == Ended(req[r], "ok")
  <2>1. e.at = req[r].at /\ e.version = req[r].version /\ e.outcome = "ok" /\ e.pc = "over"
    BY <1>3, EndedFields
  <2>2. \E n \in {waiting, e} : req' = [req EXCEPT ![r] = n]
    BY <1>5
  <2> HIDE DEF e
  <2>3. \A n \in {waiting, e} : /\ n.at = req[r].at /\ n.version = req[r].version
                                /\ n.outcome \in {"none", "ok"} /\ n.pc \notin Unjudged
    BY <1>6, <2>1 DEF Unjudged
  <2> QED BY <2>2, <2>3
<1>8. plan.auth => Verdict(Body(r).token, n)
  BY <1>1, <1>7, Keeps DEF Inv, Judged
<1>9. Judged'
  BY <1>1, <1>2, <1>7, <1>8, Judges DEF Inv, Judged, Unjudged
<1> QED BY <1>1, <1>2, <1>4, <1>9, Frame

(* A request that came to an end, or to a session, changes on its own: it takes
   its own session off, pushes or closes what is on its stack. *)
LEMMA LateStep ==
    ASSUME Inv, NEW r \in Request, req[r].pc \in Late, UNCHANGED plan,
           \A t \in Turn : turn'[t].by = turn[t].by,
           \A o \in Request \ {r} : held'[o] = held[o],
           NEW n, Held(n), n.pc \in Late, n.results = req[r].results,
           req' = [req EXCEPT ![r] = n],
           NEW x \in Seq(Entries), Ordered(x), stack' = [stack EXCEPT ![r] = x],
           closing' \in {closing, closing \cup {r}, closing \ {r}},
           \/ registered' = registered
           \/ registered[Home(r)] = r /\ registered' = [registered EXCEPT ![Home(r)] = NoOne],
           x # <<>> => registered'[Home(r)] = r \/ r \in closing',
           r \in closing' => x # <<>> /\ registered'[Home(r)] # r,
           registered'[Home(r)] = r => Covers(x, n.results)
    PROVE  Sessions' /\ Owned'
<1>1. /\ req' = [o \in Request |-> req'[o]] /\ req'[r] = n /\ stack'[r] = x
      /\ stack' \in [Request -> Seq(Entries)]
      /\ \A o \in Request \ {r} : req'[o] = req[o] /\ stack'[o] = stack[o]
      /\ Home(r) \in Conversation
  BY HomeConversation DEF Inv, Typed, Sessions
<1>2. \A o : Home(o)' = Home(o)
  BY DEF Home, Body
<1>3. Conversation' = Conversation
  BY DEF Conversation
<1>4. /\ registered' \in [Conversation -> Request \cup {NoOne}]
      /\ \A c \in Conversation : registered'[c] # NoOne => registered'[c] = registered[c]
      /\ \A c \in Conversation \ {Home(r)} : registered'[c] = registered[c]
      /\ registered[Home(r)] # r => registered'[Home(r)] = registered[Home(r)]
  BY <1>1 DEF Inv, Typed, Sessions
<1>5. closing' \subseteq Request /\ \A o \in Request \ {r} : o \in closing' <=> o \in closing
  BY DEF Inv, Typed, Sessions
<1>6. Sessions'
  BY <1>1, <1>3, <1>4, <1>5 DEF Inv, Typed, Sessions
<1>7. \A o \in Request \ {r} : registered'[Home(o)] = o <=> registered[Home(o)] = o
  <2> SUFFICES ASSUME NEW o \in Request \ {r} PROVE registered'[Home(o)] = o <=> registered[Home(o)] = o
    OBVIOUS
  <2>1. Home(o) \in Conversation /\ o # NoOne
    BY HomeConversation, Apart
  <2>2. CASE Home(o) = Home(r)
    BY <1>4, <2>1, <2>2
  <2>3. CASE Home(o) # Home(r)
    BY <1>4, <2>1, <2>3
  <2> QED BY <2>2, <2>3
<1>8. Accounted'
  BY <1>1, <1>2, <1>5, <1>7 DEF Inv, Owned, Accounted
<1>9. Closing'
  BY <1>1, <1>5 DEF Inv, Owned, Closing
<1>10. Registered'
  <2> SUFFICES ASSUME NEW c \in Conversation, registered'[c] # NoOne
               PROVE  /\ registered'[c] \in DOMAIN plan.body /\ Home(registered'[c]) = c
                      /\ registered'[c] \notin closing' /\ req'[registered'[c]].pc \in Late
    BY <1>2, <1>3 DEF Registered
  <2>1. /\ registered'[c] = registered[c] /\ registered[c] \in Request
        /\ registered[c] \in DOMAIN plan.body /\ Home(registered[c]) = c
        /\ registered[c] \notin closing /\ req[registered[c]].pc \in Late
    BY <1>4 DEF Inv, Typed, Sessions, Owned, Registered
  <2>2. CASE registered[c] = r
    BY <1>1, <2>1, <2>2
  <2>3. CASE registered[c] # r
    BY <1>1, <1>5, <2>1, <2>3
  <2> QED BY <2>2, <2>3
<1>11. Covered'
  BY <1>1, <1>2, <1>7 DEF Inv, Owned, Covered, Late, Opening
<1>12. InOrder'
  BY <1>1 DEF Inv, Owned, InOrder
<1>13. Lent'
  BY <1>1 DEF Inv, Owned, Lent, Early, Late
<1>14. Attended'
  <2> SUFFICES ASSUME NEW t \in Turn, turn[t].by # NoOne PROVE req'[turn[t].by].pc \in Late
    BY DEF Attended
  <2>1. turn[t].by \in Request /\ req[turn[t].by].pc \in Late
    BY DEF Inv, Typed, Turns, Sent, Owned, Attended
  <2> QED BY <1>1, <2>1
<1> QED BY <1>6, <1>8, <1>9, <1>10, <1>11, <1>12, <1>13, <1>14 DEF Owned

(* Its verdict does not change with it. *)
LEMMA LateInv ==
    ASSUME Inv, NEW r \in Request, req[r].pc \in Late,
           UNCHANGED <<plan, published, jwks, index, removed, store, held, turn>>,
           NEW n, Held(n), n.pc \in Late, req' = [req EXCEPT ![r] = n],
           n.at = req[r].at, n.version = req[r].version,
           n.outcome = req[r].outcome \/ (req[r].outcome = "none" /\ n.outcome \in {"ok", "cancelled"}),
           Sessions', Owned'
    PROVE  Inv'
<1>1. req[r].pc \notin Unjudged /\ n.pc \notin Unjudged /\ n.pc # "keys"
  BY DEF Late, Unjudged
<1>2. plan.auth => Verdict(Body(r).token, n)
  BY <1>1, Keeps DEF Inv, Judged
<1>3. Judged'
  BY <1>1, <1>2, Judges DEF Inv, Judged
<1> QED BY <1>3, Frame

(* One entry less on a stack. *)
LEMMA Popped ==
    ASSUME NEW x \in Seq(Entries), x # <<>>, Ordered(x)
    PROVE  /\ Front(x) \in Seq(Entries) /\ Ordered(Front(x))
           /\ Front(x) = <<>> <=> Len(x) = 1
<1>1. Front(x) = [i \in 1..(Len(x) - 1) |-> x[i]]
  BY DEF Front
<1>2. Len(x) \in Nat \ {0} /\ DOMAIN x = 1..Len(x) /\ \A i \in 1..Len(x) : x[i] \in Entries
  OBVIOUS
<1>3. /\ Front(x) \in Seq(Entries) /\ Len(Front(x)) = Len(x) - 1
      /\ DOMAIN Front(x) = 1..(Len(x) - 1) /\ \A i \in 1..(Len(x) - 1) : Front(x)[i] = x[i]
  BY <1>1, <1>2
<1>4. Ordered(Front(x))
  <2> SUFFICES ASSUME NEW i \in DOMAIN Front(x), x[i][1] = "server", Auth[x[i][2]] = "obo"
               PROVE  \E j \in 1..(i - 1) : Front(x)[j] = Credential(x[i][2])
    BY <1>3 DEF Ordered
  <2>1. PICK j \in 1..(i - 1) : x[j] = Credential(x[i][2])
    BY <1>2, <1>3 DEF Ordered
  <2> QED BY <1>2, <1>3, <2>1
<1>5. Front(x) = <<>> <=> Len(x) = 1
  BY <1>2, <1>3
<1> QED BY <1>3, <1>4, <1>5

(* A session's own request takes a step: its stack, or its end. *)
LEMMA ClosesInv ==
    ASSUME Inv, NEW r \in DOMAIN plan.body,
           CloseOne(r) \/ Displaced(r) \/ CancelDisplacing(r) \/ TakesOff(r)
    PROVE  Inv'
<1>0. /\ r \in Request /\ Held(req[r]) /\ Shape(req[r]) /\ Home(r) \in Conversation
      /\ req = [o \in Request |-> req[o]] /\ stack[r] \in Seq(Entries) /\ Ordered(stack[r])
      /\ stack = [o \in Request |-> stack[o]]
  BY PlanDomain, HomeConversation DEF Inv, Typed, Sessions, Held, Owned, InOrder
<1>1. CASE CloseOne(r)
  <2> DEFINE over == Len(stack[r]) = 1 /\ req[r].pc = "closing"
             m == [req[r] EXCEPT !.pc = "over"]
             n == IF over THEN m ELSE req[r]
             x == Front(stack[r])
  <2>1. /\ r \in closing /\ stack' = [stack EXCEPT ![r] = x]
        /\ closing' = IF Len(stack[r]) = 1 THEN closing \ {r} ELSE closing
        /\ UNCHANGED <<plan, published, jwks, index, removed, store, registered, held, turn>>
    BY <1>1 DEF CloseOne
  <2>2. req' = [req EXCEPT ![r] = n]
    <3>1. CASE over
      BY <1>1, <3>1 DEF CloseOne, At
    <3>2. CASE ~over
      BY <1>0, <1>1, <3>2 DEF CloseOne, At
    <3> QED BY <3>1, <3>2
  <2>3. stack[r] # <<>> /\ req[r].pc \in Late /\ registered[Home(r)] # r
    BY <1>0, <2>1, Apart DEF Inv, Owned, Closing, Registered
  <2>4. x \in Seq(Entries) /\ Ordered(x) /\ (x = <<>> <=> Len(stack[r]) = 1)
    BY <1>0, <2>3, Popped
  <2>5. /\ Shape(m) /\ m.pc = "over" /\ m.outcome = req[r].outcome /\ m.results = req[r].results
        /\ m.at = req[r].at /\ m.version = req[r].version
    BY <1>0 DEF Shape, Fields
  <2> HIDE DEF m, x
  <2>6. /\ Held(n) /\ n.pc \in Late /\ n.results = req[r].results /\ n.outcome = req[r].outcome
        /\ n.at = req[r].at /\ n.version = req[r].version
    BY <1>0, <2>3, <2>5 DEF Held, Early, Opening, Late
  <2> HIDE DEF n
  <2>7. Sessions' /\ Owned'
    BY <1>0, <2>1, <2>2, <2>3, <2>4, <2>6, LateStep
  <2> QED BY <1>0, <2>1, <2>2, <2>3, <2>6, <2>7, LateInv
<1>2. CASE Displaced(r)
  <2> DEFINE n == Ended(req[r], "ok")
  <2>1. /\ req[r].pc = "displacing" /\ req' = [req EXCEPT ![r] = n]
        /\ UNCHANGED <<plan, published, jwks, index, removed, store, stack, closing, registered, held, turn>>
    BY <1>2 DEF Displaced, At
  <2>2. /\ n.results = req[r].results /\ n.at = req[r].at /\ n.version = req[r].version
        /\ n.outcome = "ok" /\ n.pc = "over" /\ Shape(n)
    BY <1>0, EndedFields
  <2> HIDE DEF n
  <2>3. req[r].outcome = "none" /\ Held(n) /\ n.pc \in Late /\ req[r].pc \in Late
    BY <1>0, <2>1, <2>2 DEF Held, Early, Opening, Late, Refusals
  <2>4. Sessions' /\ Owned'
    <3>1. stack[r] # <<>> => registered[Home(r)] = r \/ r \in closing
      BY <1>0, <2>1 DEF Inv, Owned, Accounted, Opening
    <3>2. r \in closing => stack[r] # <<>> /\ registered[Home(r)] # r
      BY <1>0, Apart DEF Inv, Owned, Closing, Registered
    <3>3. registered[Home(r)] = r => Covers(stack[r], n.results)
      BY <1>0, <2>2 DEF Inv, Owned, Covered
    <3>4. stack' = [stack EXCEPT ![r] = stack[r]]
      BY <1>0, <2>1
    <3> QED BY <1>0, <2>1, <2>2, <2>3, <3>1, <3>2, <3>3, <3>4, LateStep
  <2> QED BY <1>0, <2>1, <2>2, <2>3, <2>4, LateInv
<1>3. CASE CancelDisplacing(r)
  <2> DEFINE n == [req[r] EXCEPT !.pc = "rollback"]
  <2>1. /\ req[r].pc = "displacing" /\ req' = [req EXCEPT ![r] = n]
        /\ UNCHANGED <<plan, published, jwks, index, removed, store, stack, closing, registered, held, turn>>
    BY <1>3 DEF CancelDisplacing, At
  <2>2. /\ n.results = req[r].results /\ n.at = req[r].at /\ n.version = req[r].version
        /\ n.outcome = req[r].outcome /\ n.pc = "rollback" /\ Shape(n)
    BY <1>0 DEF Shape, Fields
  <2> HIDE DEF n
  <2>3. Held(n) /\ n.pc \in Late /\ req[r].pc \in Late
    BY <1>0, <2>1, <2>2 DEF Held, Early, Opening, Late
  <2>4. Sessions' /\ Owned'
    <3>1. stack[r] # <<>> => registered[Home(r)] = r \/ r \in closing
      BY <1>0, <2>1 DEF Inv, Owned, Accounted, Opening
    <3>2. r \in closing => stack[r] # <<>> /\ registered[Home(r)] # r
      BY <1>0, Apart DEF Inv, Owned, Closing, Registered
    <3>3. registered[Home(r)] = r => Covers(stack[r], n.results)
      BY <1>0, <2>2 DEF Inv, Owned, Covered
    <3>4. stack' = [stack EXCEPT ![r] = stack[r]]
      BY <1>0, <2>1
    <3> QED BY <1>0, <2>1, <2>2, <2>3, <3>1, <3>2, <3>3, <3>4, LateStep
  <2> QED BY <1>0, <2>1, <2>2, <2>3, <2>4, LateInv
<1>4. CASE TakesOff(r)
  <2> DEFINE e == Ended(req[r], "cancelled")
             own == registered[Home(r)] = r
             m == [e EXCEPT !.pc = IF stack[r] = <<>> THEN "over" ELSE "closing"]
             n == IF own THEN m ELSE e
  <2>1. /\ req[r].pc = "rollback"
        /\ UNCHANGED <<plan, published, jwks, index, removed, store, stack, held, turn>>
    BY <1>4 DEF TakesOff, At
  <2>2. /\ own => req' = [req EXCEPT ![r] = m] /\ registered' = [registered EXCEPT ![Home(r)] = NoOne]
                  /\ closing' = IF stack[r] = <<>> THEN closing ELSE closing \cup {r}
        /\ ~own => req' = [req EXCEPT ![r] = e] /\ UNCHANGED <<registered, closing>>
    BY <1>4 DEF TakesOff
  <2>3. /\ Shape(e) /\ e.results = req[r].results /\ e.at = req[r].at /\ e.version = req[r].version
        /\ e.outcome = "cancelled" /\ e.pc = "over"
    BY <1>0, EndedFields
  <2> HIDE DEF e
  <2>4. /\ Shape(m) /\ m.results = req[r].results /\ m.at = req[r].at /\ m.version = req[r].version
        /\ m.outcome = "cancelled" /\ m.pc \in {"over", "closing"}
    BY <2>3 DEF Shape, Fields
  <2>5. req' = [req EXCEPT ![r] = n]
    BY <2>2
  <2> HIDE DEF m
  <2>6. /\ n.results = req[r].results /\ n.at = req[r].at /\ n.version = req[r].version
        /\ n.outcome = "cancelled" /\ n.pc \in {"over", "closing"} /\ Shape(n)
    BY <2>3, <2>4
  <2> HIDE DEF n
  <2>7. req[r].outcome = "none" /\ Held(n) /\ n.pc \in Late /\ req[r].pc \in Late
    BY <1>0, <2>1, <2>6 DEF Held, Early, Opening, Late, Refusals
  <2>8. r # NoOne /\ (r \in closing => stack[r] # <<>> /\ registered[Home(r)] # r)
    BY <1>0, Apart DEF Inv, Owned, Closing, Registered
  <2>9. stack' = [stack EXCEPT ![r] = stack[r]]
    BY <1>0, <2>1
  <2>10. Sessions' /\ Owned'
    <3>1. CASE own
      <4>1. registered'[Home(r)] = NoOne
        BY <1>0, <2>2, <3>1 DEF Inv, Typed, Sessions
      <4>2. /\ stack[r] # <<>> => r \in closing'
            /\ r \in closing' => stack[r] # <<>>
            /\ closing' \in {closing, closing \cup {r}}
        BY <2>2, <2>8, <3>1
      <4> QED BY <1>0, <2>1, <2>2, <2>5, <2>6, <2>7, <2>8, <2>9, <3>1, <4>1, <4>2, LateStep
    <3>2. CASE ~own
      <4>1. stack[r] # <<>> => r \in closing
        BY <1>0, <2>1, <3>2 DEF Inv, Owned, Accounted, Opening
      <4> QED BY <1>0, <2>1, <2>2, <2>5, <2>6, <2>7, <2>8, <2>9, <3>2, <4>1, LateStep
    <3> QED BY <3>1, <3>2
  <2> QED BY <1>0, <2>1, <2>5, <2>6, <2>7, <2>10, LateInv
<1> QED BY <1>1, <1>2, <1>3, <1>4

----------------------------------------------------------------------------
(* Turns *)

Same == UNCHANGED <<plan, req, stack, closing, registered, held>>

(* The sessions are as they were when nothing of them changes. *)
LEMMA Unmoved ==
    ASSUME Inv, Same, \A t \in Turn : turn'[t].by = turn[t].by \/ req[turn'[t].by].pc \in Late
    PROVE  Sessions' /\ Owned'
<1>1. (\A o : Home(o)' = Home(o)) /\ Conversation' = Conversation
  BY DEF Same, Home, Body, Conversation
<1>2. Sessions'
  BY <1>1 DEF Same, Inv, Typed, Sessions
<1>3. Accounted' /\ Closing' /\ Registered'
  BY <1>1 DEF Same, Inv, Owned, Accounted, Closing, Registered
<1>4. Covered' /\ InOrder' /\ Lent'
  BY <1>1 DEF Same, Inv, Owned, Covered, InOrder, Lent
<1>5. Attended'
  BY DEF Same, Inv, Owned, Attended
<1> QED BY <1>2, <1>3, <1>4, <1>5 DEF Owned

(* A step that only streams. *)
LEMMA StreamedInv ==
    ASSUME Inv, NEW t \in Turn, NEW next, Sent(next), Streams(t, next),
           next.by = turn[t].by \/ req[next.by].pc \in Late
    PROVE  Inv'
<1>1. /\ turn' = [turn EXCEPT ![t] = next] /\ turn = [u \in Turn |-> turn[u]]
      /\ UNCHANGED <<plan, published, jwks, index, removed, store, req, closing, registered, stack, held>>
  BY DEF Streams, system, Inv, Typed, Turns
<1>2. turn'[t] = next /\ (\A u \in Turn \ {t} : turn'[u] = turn[u]) /\ turn' = [u \in Turn |-> turn'[u]]
  BY <1>1
<1>3. Turns'
  BY <1>2 DEF Inv, Typed, Turns
<1>4. Sessions' /\ Owned'
  BY <1>1, <1>2, Unmoved DEF Same
<1>5. Keys' /\ Stores' /\ Lendings'
  BY <1>1 DEF Inv, Typed, Keys, Stores, Lendings, Conversation
<1>6. Judged'
  BY <1>1 DEF Inv, Judged, At, Body, Verdict
<1> QED BY <1>1, <1>3, <1>4, <1>5, <1>6 DEF Inv, Typed

(* What is streamed leaves the turn to its session, and its last header to it. *)
LEMMA Streaming ==
    ASSUME Inv, NEW t \in DOMAIN plan.tokens,
           Send(t) \/ Says(t) \/ Finishes(t) \/ Breaks(t) \/ GoesAway(t)
    PROVE  \E next : /\ Streams(t, next) /\ Sent(next) /\ next.header = turn[t].header
                     /\ next.by = turn[t].by \/ req[next.by].pc \in Late
<1> DEFINE m == turn[t]
           Good(next) == /\ Sent(next) /\ next.header = m.header
                         /\ next.by = m.by \/ req[next.by].pc \in Late
<1>1. t \in Turn /\ Sent(m) /\ m = [f \in TurnFields |-> m[f]]
  BY PlanDomain DEF Inv, Typed, Turns, Sent
<1> SUFFICES \E next : Streams(t, next) /\ Good(next)
  OBVIOUS
<1>2. CASE Send(t)
  <2>1. PICK c \in Conversation :
           /\ m.pc = "unsent" /\ registered[c] # NoOne
           /\ Streams(t, [m EXCEPT !.pc = "streaming", !.by = registered[c]])
    BY <1>2 DEF Send
  <2>2. registered[c] \in Request /\ req[registered[c]].pc \in Late
    BY <2>1 DEF Inv, Typed, Sessions, Owned, Registered
  <2> DEFINE o == registered[c]
             next == [m EXCEPT !.pc = "streaming", !.by = o]
  <2> HIDE DEF o, m
  <2>3. next = [f \in TurnFields |-> next[f]] /\ next.pc = "streaming" /\ next.by = o
        /\ next.header = m.header
    BY <1>1 DEF TurnFields
  <2>4. Good(next)
    BY <2>1, <2>2, <2>3 DEF Sent, o
  <2> QED BY <2>1, <2>4 DEF o, m
<1>3. CASE Says(t)
  <2>1. PICK said, loose, stream :
           /\ m.pc = "streaming"
           /\ Streams(t, [m EXCEPT !.said = said, !.loose = loose, !.stream = stream])
    BY <1>3 DEF Says
  <2> DEFINE next == [m EXCEPT !.said = said, !.loose = loose, !.stream = stream]
  <2> HIDE DEF m
  <2>2. next = [f \in TurnFields |-> next[f]] /\ next.pc = m.pc /\ next.by = m.by
        /\ next.header = m.header
    BY <1>1 DEF TurnFields
  <2>3. Good(next)
    BY <1>1, <2>1, <2>2 DEF Sent
  <2> QED BY <2>1, <2>3 DEF m
<1>4. ASSUME NEW pc \in {"over", "gone"}, NEW stream, m.pc = "streaming",
             Streams(t, [m EXCEPT !.pc = pc, !.stream = stream])
      PROVE  \E next : Streams(t, next) /\ Good(next)
  <2> DEFINE next == [m EXCEPT !.pc = pc, !.stream = stream]
  <2> HIDE DEF m
  <2>1. next = [f \in TurnFields |-> next[f]] /\ next.pc = pc /\ next.by = m.by
        /\ next.header = m.header
    BY <1>1 DEF TurnFields
  <2>2. Good(next)
    BY <1>1, <1>4, <2>1 DEF Sent
  <2> QED BY <1>4, <2>2 DEF m
<1>5. CASE Finishes(t)
  <2>1. PICK stream : m.pc = "streaming" /\ Streams(t, [m EXCEPT !.pc = "over", !.stream = stream])
    BY <1>5 DEF Finishes
  <2> QED BY <1>4, <2>1
<1>6. CASE Breaks(t)
  <2>1. m.pc = "streaming" /\ Streams(t, [m EXCEPT !.pc = "over", !.stream = Failed(@)])
    BY <1>6 DEF Breaks
  <2> QED BY <1>4, <2>1
<1>7. CASE GoesAway(t)
  <2>1. m.pc = "streaming" /\ Streams(t, [m EXCEPT !.pc = "gone"])
    BY <1>7 DEF GoesAway
  <2> DEFINE next == [m EXCEPT !.pc = "gone"]
  <2> HIDE DEF m
  <2>2. next = [f \in TurnFields |-> next[f]] /\ next.pc = "gone" /\ next.by = m.by
        /\ next.header = m.header
    BY <1>1 DEF TurnFields
  <2>3. Good(next)
    BY <1>1, <2>1, <2>2 DEF Sent, m
  <2> QED BY <2>1, <2>3 DEF m
<1> QED BY <1>2, <1>3, <1>5, <1>6, <1>7

(* A call pushes a credential at most, and is made with the token of its turn. *)
LEMMA CallsInv ==
    ASSUME Inv, NEW t \in DOMAIN plan.tokens, Calls(t)
    PROVE  /\ Inv'
           /\ turn'[t].header = plan.tokens[t]
           /\ \A u \in Turn \ {t} : turn'[u] = turn[u]
<1> DEFINE r == turn[t].by
           token == plan.tokens[t]
<1>0. t \in Turn /\ Sent(turn[t]) /\ turn = [u \in Turn |-> turn[u]]
  BY PlanDomain DEF Inv, Typed, Turns
<1>1. PICK s \in Server :
         /\ turn[t].pc = "streaming" /\ token # NoOne
         /\ Auth[s] # "none" /\ \E i \in DOMAIN stack[r] : stack[r][i] = Connection(s)
         /\ Holds(r, s, token)
         /\ stack' = [stack EXCEPT ![r] = WithCredential(r, s, token)]
         /\ turn' = [turn EXCEPT ![t].header = IF Auth[s] = "obo" THEN held'[r][s] ELSE token]
         /\ UNCHANGED <<plan, published, jwks, index, removed, store, req, closing, registered>>
  BY DEF Calls, system
<1>2. r \in Request /\ req[r].pc \in Late
  BY <1>0, <1>1 DEF Sent, Inv, Owned, Attended
<1>3. /\ Held(req[r]) /\ Ordered(stack[r]) /\ req' = [req EXCEPT ![r] = req[r]]
      /\ stack[r] # <<>>
  BY <1>1, <1>2 DEF Inv, Typed, Sessions, Owned, InOrder
<1> DEFINE x == WithCredential(r, s, token)
<1>4. /\ x \in Seq(Entries) /\ Ordered(x) /\ x # <<>>
      /\ \A results : Covers(stack[r], results) => Covers(x, results)
      /\ Auth[s] = "obo" => held'[r][s] = token
      /\ \A o \in Request \ {r} : held'[o] = held[o]
      /\ Lendings'
  BY <1>1, <1>2, <1>3, HeaderGiven DEF Inv
<1>5. stack' = [stack EXCEPT ![r] = x]
  BY <1>1
<1> HIDE DEF x
<1>6. turn' = [turn EXCEPT ![t].header = token]
  BY <1>1, <1>4
<1> DEFINE m == [turn[t] EXCEPT !.header = token]
<1>7. Sent(m) /\ m.by = r /\ m.header = token
  BY <1>0 DEF Sent, TurnFields
<1>8. turn' = [turn EXCEPT ![t] = m]
  BY <1>6
<1> HIDE DEF m, token
<1>9. /\ turn'[t] = m /\ (\A u \in Turn \ {t} : turn'[u] = turn[u])
      /\ turn' = [u \in Turn |-> turn'[u]]
  BY <1>0, <1>8
<1>10. Turns' /\ \A u \in Turn : turn'[u].by = turn[u].by
  BY <1>7, <1>9 DEF Inv, Typed, Turns
<1> HIDE DEF r
<1>11. Sessions' /\ Owned'
  <2>1. registered'[Home(r)] = r \/ r \in closing'
    BY <1>1, <1>2, <1>3 DEF Inv, Owned, Accounted, Late, Opening
  <2>2. r \in closing' => registered'[Home(r)] # r
    BY <1>1, <1>2, Apart, HomeConversation DEF Inv, Owned, Registered
  <2>3. registered'[Home(r)] = r => Covers(x, req[r].results)
    BY <1>1, <1>2, <1>4 DEF Inv, Owned, Covered
  <2> QED BY <1>1, <1>2, <1>3, <1>4, <1>5, <1>10, <2>1, <2>2, <2>3, LateStep
<1>12. Keys' /\ Stores'
  BY <1>1 DEF Inv, Typed, Keys, Stores, Conversation
<1>13. Judged'
  BY <1>1 DEF Inv, Judged, At, Body, Verdict
<1>14. Inv'
  BY <1>1, <1>4, <1>10, <1>11, <1>12, <1>13 DEF Inv, Typed
<1> QED BY <1>7, <1>9, <1>14 DEF token

----------------------------------------------------------------------------
(* What happens around the requests *)

(* Keys are rotated, a conversation or an agent is deleted. *)
LEMMA AroundInv ==
    ASSUME Inv, RotateKeys \/ DeleteConversation \/ \E a \in DOMAIN Agents : DeleteAgent(a)
    PROVE  Inv' /\ turn' = turn
<1>1. CASE RotateKeys
  <2>1. /\ published' = published + 1 /\ published < Len(KeySets)
        /\ UNCHANGED <<plan, jwks, index, removed, store, req, stack, closing, registered, held, turn>>
    BY <1>1 DEF RotateKeys
  <2>2. Sessions' /\ Owned'
    BY <2>1, Unmoved DEF Same
  <2>3. published \in Nat /\ published' \in DOMAIN KeySets /\ 0..published \subseteq 0..published'
    <3>1. DOMAIN KeySets = 1..Len(KeySets) /\ Len(KeySets) \in Nat
      BY SessionAssumption
    <3> QED BY <2>1, <3>1 DEF Inv, Typed, Keys
  <2>4. Judged'
    <3>1. \A r \in Request : /\ req[r].version \in 0..published' /\ req[r].at.version \in 0..published'
      BY <2>3 DEF Inv, Judged
    <3> QED BY <2>1, <3>1 DEF Inv, Judged, At, Body, Verdict
  <2>5. Keys' /\ Stores' /\ Lendings' /\ Turns'
    BY <2>1, <2>3 DEF Inv, Typed, Keys, Stores, Lendings, Turns, Sent, Conversation
  <2> QED BY <2>1, <2>2, <2>4, <2>5 DEF Inv, Typed
<1>2. CASE DeleteConversation
  <2>1. /\ index' = index \ {Old} /\ removed' = removed \cup {Old}
        /\ UNCHANGED <<plan, published, jwks, store, req, stack, closing, registered, held, turn>>
    BY <1>2 DEF DeleteConversation
  <2>2. Sessions' /\ Owned'
    BY <2>1, Unmoved DEF Same
  <2>3. Judged'
    BY <2>1 DEF Inv, Judged, At, Body, Verdict
  <2> QED BY <2>1, <2>2, <2>3, Frame
<1>3. CASE \E a \in DOMAIN Agents : DeleteAgent(a)
  <2>1. /\ store' \subseteq store
        /\ UNCHANGED <<plan, published, jwks, index, removed, req, stack, closing, registered, held, turn>>
    BY <1>3 DEF DeleteAgent
  <2>2. Sessions' /\ Owned'
    BY <2>1, Unmoved DEF Same
  <2>3. Judged'
    BY <2>1 DEF Inv, Judged, At, Body, Verdict
  <2>4. Keys' /\ Stores' /\ Lendings' /\ Turns'
    BY <2>1 DEF Inv, Typed, Keys, Stores, Lendings, Turns, Sent, Conversation
  <2> QED BY <2>1, <2>2, <2>3, <2>4 DEF Inv, Typed
<1> QED BY <1>1, <1>2, <1>3 DEF RotateKeys, DeleteConversation, DeleteAgent

(* A session is ended: what is on its stack is closed. *)
LEMMA EndSessionInv ==
    ASSUME Inv, NEW c \in Conversation, EndSession(c)
    PROVE  Inv' /\ turn' = turn
<1> DEFINE r == registered[c]
<1>1. /\ r # NoOne /\ registered' = [registered EXCEPT ![c] = NoOne]
      /\ closing' = IF stack[r] = <<>> THEN closing ELSE closing \cup {r}
      /\ UNCHANGED <<plan, published, jwks, index, removed, store, req, stack, held, turn>>
  BY DEF EndSession
<1>2. /\ r \in Request /\ Home(r) = c /\ r \notin closing /\ req[r].pc \in Late
  BY <1>1 DEF Inv, Typed, Sessions, Owned, Registered
<1> HIDE DEF r
<1>3. /\ Held(req[r]) /\ stack[r] \in Seq(Entries) /\ Ordered(stack[r])
      /\ req' = [req EXCEPT ![r] = req[r]] /\ stack' = [stack EXCEPT ![r] = stack[r]]
  BY <1>1, <1>2 DEF Inv, Typed, Sessions, Owned, InOrder
<1>4. registered[Home(r)] = r /\ registered'[Home(r)] = NoOne /\ r # NoOne
  BY <1>1, <1>2 DEF Inv, Typed, Sessions, r
<1>5. registered' = [registered EXCEPT ![Home(r)] = NoOne]
  BY <1>1, <1>2
<1>6. /\ closing' \in {closing, closing \cup {r}} /\ stack[r] # <<>> => r \in closing'
  BY <1>1
<1>7. r \in closing' => stack[r] # <<>>
  BY <1>1, <1>2
<1>8. Sessions' /\ Owned'
  BY <1>1, <1>2, <1>3, <1>4, <1>5, <1>6, <1>7, LateStep
<1>9. Judged'
  BY <1>1 DEF Inv, Judged, At, Body, Verdict
<1> QED BY <1>1, <1>8, <1>9, Frame

----------------------------------------------------------------------------
(* The theorems *)

(* Every step keeps the invariant, and the header of a turn is its caller's. *)
LEMMA NextInv == Inv /\ HeaderOfCaller /\ [Next]_vars => Inv' /\ HeaderOfCaller'
<1> SUFFICES ASSUME Inv, HeaderOfCaller, [Next]_vars PROVE Inv' /\ HeaderOfCaller'
  OBVIOUS
<1>0. plan' = plan
  BY DEF Next, vars, Arrive, KeysRead, KeysArrive, KeysFail, ReadSkills, ReadRef, Resume,
         GrantDatabase, ReadProfile, StoreFails, Connects, ConnectFails, Indexed, IndexFails,
         Cancel, CloseOne, Displaced, CancelDisplacing, TakesOff, Send, Says, Calls, Finishes,
         Breaks, GoesAway, RotateKeys, DeleteConversation, DeleteAgent, EndSession, Moves, Stops,
         others, Streams, system
<1>1. ASSUME turn' = turn PROVE HeaderOfCaller'
  BY <1>0, <1>1 DEF HeaderOfCaller
<1>2. ASSUME NEW r \in DOMAIN plan.body,
             \/ Arrive(r) \/ KeysRead(r) \/ KeysArrive(r) \/ KeysFail(r)
             \/ ReadSkills(r) \/ ReadRef(r) \/ Resume(r) \/ GrantDatabase(r) \/ ReadProfile(r)
             \/ StoreFails(r) \/ Connects(r) \/ ConnectFails(r) \/ Indexed(r) \/ IndexFails(r)
             \/ Cancel(r) \/ CloseOne(r) \/ Displaced(r) \/ CancelDisplacing(r) \/ TakesOff(r)
      PROVE  Inv' /\ HeaderOfCaller'
  <2>1. Inv'
    BY <1>2, ArriveInv, KeysInv, ReadsInv, StopsInv, ConnectsInv, IndexedInv, ClosesInv
  <2>2. turn' = turn
    BY <1>2 DEF Arrive, KeysRead, KeysArrive, KeysFail, ReadSkills, ReadRef, Resume,
         GrantDatabase, ReadProfile, StoreFails, Connects, ConnectFails, Indexed, IndexFails,
         Cancel, CloseOne, Displaced, CancelDisplacing, TakesOff, Moves, Stops, others
  <2> QED BY <1>1, <2>1, <2>2
<1>3. ASSUME NEW t \in DOMAIN plan.tokens,
             Send(t) \/ Says(t) \/ Finishes(t) \/ Breaks(t) \/ GoesAway(t)
      PROVE  Inv' /\ HeaderOfCaller'
  <2>0. t \in Turn
    BY PlanDomain DEF Inv
  <2>1. PICK next : /\ Streams(t, next) /\ Sent(next) /\ next.header = turn[t].header
                    /\ next.by = turn[t].by \/ req[next.by].pc \in Late
    BY <1>3, Streaming
  <2>2. Inv'
    BY <2>0, <2>1, StreamedInv
  <2>3. turn'[t].header = turn[t].header /\ \A u \in Turn \ {t} : turn'[u] = turn[u]
    BY <2>0, <2>1 DEF Streams, Inv, Typed, Turns
  <2>4. HeaderOfCaller'
    BY <1>0, <2>0, <2>3, PlanDomain DEF HeaderOfCaller, Inv
  <2> QED BY <2>2, <2>4
<1>4. ASSUME NEW t \in DOMAIN plan.tokens, Calls(t)
      PROVE  Inv' /\ HeaderOfCaller'
  BY <1>0, <1>4, CallsInv, PlanDomain DEF HeaderOfCaller, Inv
<1>5. CASE RotateKeys \/ DeleteConversation \/ \E a \in DOMAIN Agents : DeleteAgent(a)
  BY <1>1, <1>5, AroundInv
<1>6. ASSUME NEW c \in Conversation, EndSession(c)
      PROVE  Inv' /\ HeaderOfCaller'
  BY <1>1, <1>6, EndSessionInv
<1>7. CASE UNCHANGED vars
  <2>1. /\ Same /\ UNCHANGED <<published, jwks, index, removed, store, turn>>
    BY <1>7 DEF vars, Same
  <2>2. Sessions' /\ Owned'
    BY <2>1, Unmoved
  <2>3. Judged'
    BY <2>1 DEF Same, Inv, Judged, At, Body, Verdict
  <2>4. Inv'
    BY <2>1, <2>2, <2>3, Frame DEF Same
  <2> QED BY <1>1, <2>1, <2>4
<1> QED BY <1>2, <1>3, <1>4, <1>5, <1>6, <1>7 DEF Next

(* The invariant holds throughout. *)
LEMMA SpecInv == Spec => [](Inv /\ HeaderOfCaller)
<1>1. Init => HeaderOfCaller
  <2>1. Unsent.header = NoOne
    BY DEF Unsent
  <2> QED BY <2>1, InitInv, PlanDomain DEF Init, HeaderOfCaller, Inv
<1> QED BY <1>1, InitInv, NextInv, PTL DEF Spec

(* Types, and what the parts of the state owe each other. *)
THEOREM TypeCorrect == Spec => []TypeOK
<1>1. Inv => TypeOK
  <2> SUFFICES ASSUME Inv PROVE TypeOK
    OBVIOUS
  <2>1. /\ published \in DOMAIN KeySets /\ jwks \in 0..published
        /\ index \cap removed = {} /\ index \cup removed \subseteq Conversation
        /\ store \subseteq DOMAIN Agents
    BY DEF Inv, Typed, Keys, Stores, Conversation
  <2>2. ASSUME NEW r \in Request
        PROVE  /\ req[r].pc \in Waiting \cup {"unborn", "over"}
               /\ req[r].pc \in {"over", "closing"} <=> req[r].outcome # "none"
               /\ req[r].outcome \in Refusals \cup {"none", "ok"}
               /\ \A i \in DOMAIN stack[r] : stack[r][i] \in {"server", "credential"} \X Server
               /\ At(r, "connecting") => req[r].todo # <<>>
               /\ r \in closing => stack[r] # <<>>
    <3>1. Held(req[r]) /\ stack[r] \in Seq(Entries)
      BY DEF Inv, Typed, Sessions
    <3>2. \A i \in DOMAIN stack[r] : stack[r][i] \in Entries
      BY <3>1
    <3>3. r \in closing => stack[r] # <<>>
      BY DEF Inv, Owned, Closing
    <3> QED BY <3>1, <3>2, <3>3 DEF Held, At, Waiting, Early, Opening, Late, Entries
  <2>3. \A c \in Conversation : registered[c] # NoOne =>
            registered[c] \in DOMAIN plan.body /\ Home(registered[c]) = c
    BY DEF Inv, Owned, Registered
  <2>4. \A t \in Turn : turn[t].pc \in {"unsent", "streaming", "over", "gone"}
    BY DEF Inv, Typed, Turns, Sent
  <2> QED BY <2>1, <2>2, <2>3, <2>4 DEF TypeOK
<1> QED BY <1>1, SpecInv, PTL

(* Whatever fails, is cancelled or is displaced, what was opened for a session is
   closed or is still the session's, and in an order in which it can be closed. *)
THEOREM NothingIsLeaked == Spec => []NothingLeaks
<1>1. Inv => NothingLeaks
  <2> SUFFICES ASSUME Inv, NEW r \in DOMAIN plan.body
               PROVE  /\ stack[r] # <<>> =>
                            \/ registered[Home(r)] = r \/ r \in closing
                            \/ req[r].pc \in {"connecting", "indexing"}
                      /\ registered[Home(r)] = r =>
                            /\ r \notin closing
                            /\ Covers(stack[r], req[r].results)
                      /\ Ordered(stack[r])
    BY DEF NothingLeaks, Covers, Ordered
  <2>1. r \in Request /\ Home(r) \in Conversation /\ r # NoOne
    BY PlanDomain, HomeConversation, Apart DEF Inv
  <2> QED BY <2>1 DEF Inv, Owned, Accounted, Opening, Registered, Covered, InOrder
<1> QED BY <1>1, SpecInv, PTL

(* A token is refused for its key by keys that are no older than its request, and
   one that is let in was signed by a key that was published. *)
THEOREM AuthSafety == Spec => []AuthTruth
<1>1. Inv => AuthTruth
  <2> SUFFICES ASSUME Inv, NEW r \in DOMAIN plan.body, plan.auth
               PROVE  /\ req[r].outcome = "unknown_key" =>
                            /\ Used(r) >= req[r].at.version
                            /\ Body(r).token.kid \notin KeySets[Used(r)]
                      /\ Passed(r) \/ (req[r].outcome = "bad_token" /\ Used(r) > 0) =>
                            /\ Body(r).token # NoOne
                            /\ Body(r).token.kid \in KeySets[Used(r)] /\ Used(r) <= published
    BY DEF AuthTruth
  <2>1. r \in Request /\ published \in Nat
    <3>1. DOMAIN KeySets \subseteq Nat
      BY SessionAssumption
    <3> QED BY <3>1, PlanDomain DEF Inv, Typed, Keys
  <2>2. req[r].version \in 0..published /\ Verdict(Body(r).token, req[r])
    BY <2>1 DEF Inv, Judged
  <2> QED BY <2>1, <2>2 DEF Verdict, Unjudged, Used, Passed
<1> QED BY <1>1, SpecInv, PTL

(* Every call of a server carries the token of the turn that makes it. *)
THEOREM HeaderSafety == Spec => []HeaderOfCaller
BY SpecInv, PTL

----------------------------------------------------------------------------
(* The names of tools *)

Spelling == DOMAIN Numbered \cup UNION {Range(Numbered[n]) : n \in DOMAIN Numbered}

(* A name that is given is not in use, as there are more suffixes than names in use. *)
LEMMA UnusedNew ==
    ASSUME NEW name \in DOMAIN Numbered, NEW seen, IsFiniteSet(seen),
           Cardinality(seen) < Cardinality(DOMAIN Numbered[name])
    PROVE  Unused(name, seen) \notin seen /\ Unused(name, seen) \in Spelling
<1> DEFINE D    == DOMAIN Numbered[name]
           free == {k \in D : Numbered[name][k] \notin seen}
<1>1. /\ D \subseteq Nat /\ IsFiniteSet(D)
      /\ \A j, k \in D : Numbered[name][j] = Numbered[name][k] => j = k
  BY NumberedAssumption
<1>2. free # {}
  <2> SUFFICES ASSUME free = {} PROVE FALSE
    OBVIOUS
  <2> DEFINE g == [k \in D |-> Numbered[name][k]]
  <2>1. g \in [D -> seen]
    OBVIOUS
  <2>2. \A k \in D : g[k] = Numbered[name][k]
    OBVIOUS
  <2> HIDE DEF g
  <2>3. PICK x, y \in D : x # y /\ g[x] = g[y]
    BY <1>1, <2>1, FS_PigeonHole
  <2> QED BY <1>1, <2>2, <2>3
<1>3. \E x \in free : \A j \in free : x <= j
  <2>1. free \subseteq Nat
    BY <1>1
  <2> HIDE DEF free
  <2> QED BY <1>2, <2>1, LeastNumber
<1> DEFINE c == CHOOSE k \in free : \A j \in free : k <= j
<1>4. c \in free
  <2> HIDE DEF free
  <2> QED BY <1>3
<1>5. Unused(name, seen) = IF name \notin seen THEN name ELSE Numbered[name][c]
  BY DEF Unused
<1> HIDE DEF c
<1>6. Numbered[name][c] \notin seen /\ Numbered[name][c] \in Range(Numbered[name])
  BY <1>4 DEF Range
<1> QED BY <1>5, <1>6 DEF Spelling

Names(f, names, reserved, n) ==
    f = [k \in 0 .. n |->
           IF k = 0 THEN <<>>
           ELSE Append(f[k - 1], Unused(names[k], reserved \cup Range(f[k - 1])))]

InTurn(t, names, reserved) ==
    /\ Disambiguated(names, reserved) = t[Len(names)]
    /\ t[0] = <<>>
    /\ \A k \in 1 .. Len(names) :
          t[k] = Append(t[k - 1], Unused(names[k], reserved \cup Range(t[k - 1])))

(* The names are given from left to right, each apart from those before it. *)
LEMMA NamesGrow ==
    ASSUME NEW names \in Seq(DOMAIN Numbered), NEW reserved
    PROVE  \E t : InTurn(t, names, reserved)
<1> DEFINE Given(n) == n <= Len(names) => \E f : Names(f, names, reserved, n)
           T == {n \in Nat : Given(n)}
           Next1(e, k) == Append(e, Unused(names[k], reserved \cup Range(e)))
<1>0. Len(names) \in Nat
  OBVIOUS
<1>1. Given(0)
  <2> DEFINE f == [i \in 0 .. 0 |-> <<>>]
  <2>1. \A i \in 0 .. 0 : i = 0
    OBVIOUS
  <2>2. Names(f, names, reserved, 0)
    BY <2>1 DEF Names
  <2> HIDE DEF f
  <2> QED BY <2>2
<1>2. ASSUME NEW n \in Nat, Given(n) PROVE Given(n + 1)
  <2> SUFFICES ASSUME n + 1 <= Len(names) PROVE \E f : Names(f, names, reserved, n + 1)
    OBVIOUS
  <2>0. n \in Nat /\ n <= Len(names)
    BY <1>0
  <2>1. PICK f : Names(f, names, reserved, n)
    BY <1>2, <2>0
  <2>2. f = [k \in 0 .. n |-> IF k = 0 THEN <<>> ELSE Next1(f[k - 1], k)]
    BY <2>1 DEF Names
  <2> DEFINE last == Next1(f[n], n + 1)
             g == [i \in 0 .. n + 1 |-> IF i = n + 1 THEN last ELSE f[i]]
  <2> HIDE DEF Next1
  <2>3. ASSUME NEW i \in 0 .. n + 1
        PROVE  g[i] = IF i = 0 THEN <<>> ELSE Next1(g[i - 1], i)
    <3>1. CASE i = n + 1
      <4>1. i # 0 /\ i - 1 = n /\ g[i] = last /\ g[i - 1] = f[n]
        BY <2>0, <3>1
      <4> QED BY <3>1, <4>1
    <3>2. CASE i \in 0 .. n
      <4>1. f[i] = IF i = 0 THEN <<>> ELSE Next1(f[i - 1], i)
        BY <2>2, <3>2
      <4>2. g[i] = f[i] /\ (i # 0 => g[i - 1] = f[i - 1])
        <5> HIDE DEF last
        <5> QED BY <2>0, <3>2
      <4> HIDE DEF g
      <4> QED BY <4>1, <4>2
    <3> QED BY <2>0, <3>1, <3>2
  <2>4. g = [i \in 0 .. n + 1 |-> IF i = 0 THEN <<>> ELSE Next1(g[i - 1], i)]
    BY <2>3
  <2> HIDE DEF g
  <2>5. Names(g, names, reserved, n + 1)
    BY <2>4 DEF Names, Next1
  <2> QED BY <2>5
<1>3. \A n \in Nat : Given(n)
  <2> HIDE DEF Given
  <2>1. 0 \in T /\ \A n \in T : n + 1 \in T
    BY <1>1, <1>2
  <2>2. T \subseteq Nat
    OBVIOUS
  <2>3. T = Nat
    <3> HIDE DEF T
    <3> QED BY <2>1, <2>2, NumbersByOne
  <2> QED BY <2>3
<1>4. \E f : Names(f, names, reserved, Len(names))
  BY <1>0, <1>3
<1> DEFINE t == CHOOSE g : Names(g, names, reserved, Len(names))
<1>5. Disambiguated(names, reserved) = t[Len(names)]
  BY DEF Disambiguated, Names
<1>6. Names(t, names, reserved, Len(names))
  BY <1>4
<1> HIDE DEF t
<1>7. t = [k \in 0 .. Len(names) |-> IF k = 0 THEN <<>> ELSE Next1(t[k - 1], k)]
  BY <1>6 DEF Names
<1>8. t[0] = <<>> /\ \A k \in 1 .. Len(names) : t[k] = Next1(t[k - 1], k)
  <2> DEFINE step(k) == IF k = 0 THEN <<>> ELSE Next1(t[k - 1], k)
  <2>1. t = [k \in 0 .. Len(names) |-> step(k)]
    BY <1>7
  <2>2. \A k \in 0 .. Len(names) : t[k] = step(k)
    <3> HIDE DEF step
    <3> QED BY <2>1
  <2>3. 0 \in 0 .. Len(names) /\ \A k \in 1 .. Len(names) : k \in 0 .. Len(names) /\ k # 0
    BY <1>0
  <2> HIDE DEF Next1
  <2> QED BY <2>2, <2>3
<1> QED BY <1>5, <1>8 DEF InTurn

(* They differ from each other and from the names in use, *)
LEMMA NamesApart ==
    ASSUME NEW names \in Seq(DOMAIN Numbered), NEW reserved, IsFiniteSet(reserved),
           \A n \in DOMAIN Numbered :
               Cardinality(reserved) + Len(names) <= Cardinality(DOMAIN Numbered[n])
    PROVE  LET given == Disambiguated(names, reserved)
           IN  /\ given \in Seq(Spelling) /\ Len(given) = Len(names) /\ IsInjective(given)
               /\ \A i \in DOMAIN given : given[i] \notin reserved
<1>a. PICK t : InTurn(t, names, reserved)
  BY NamesGrow
<1>1. /\ Disambiguated(names, reserved) = t[Len(names)]
      /\ t[0] = <<>>
      /\ \A k \in 1 .. Len(names) :
            t[k] = Append(t[k - 1], Unused(names[k], reserved \cup Range(t[k - 1])))
  BY <1>a DEF InTurn
<1> DEFINE Right(n) == /\ t[n] \in Seq(Spelling) /\ Len(t[n]) = n /\ IsInjective(t[n])
                       /\ ToSet(t[n]) \cap reserved = {}
           T == {n \in Nat : n <= Len(names) => Right(n)}
<1>0. Len(names) \in Nat
  OBVIOUS
<1>2. 0 \in T
  <2>1. <<>> \in Seq(Spelling) /\ Len(<<>>) = 0 /\ IsInjective(<<>>) /\ ToSet(<<>>) = {}
    BY DEF IsInjective, ToSet
  <2> QED BY <1>1, <2>1
<1>3. ASSUME NEW n \in T PROVE n + 1 \in T
  <2> SUFFICES ASSUME n + 1 <= Len(names) PROVE Right(n + 1)
    OBVIOUS
  <2>1. n + 1 \in 1 .. Len(names) /\ (n + 1) - 1 = n /\ n \in Nat /\ n < Len(names)
    BY <1>0
  <2>2. Right(n)
    BY <2>1
  <2> DEFINE s    == t[n]
             name == names[n + 1]
             seen == reserved \cup ToSet(s)
             new  == Unused(name, seen)
  <2>3. t[n + 1] = Append(s, new)
    BY <1>1, <2>1 DEF Range, ToSet
  <2>4. s \in Seq(Spelling) /\ Len(s) = n /\ IsInjective(s) /\ ToSet(s) \cap reserved = {}
    BY <2>2
  <2> HIDE DEF s
  <2>5. IsFiniteSet(ToSet(s)) /\ Cardinality(ToSet(s)) = n
    BY <2>4, InjectiveCount
  <2>6. name \in DOMAIN Numbered
    BY <2>1
  <2>7. IsFiniteSet(seen) /\ Cardinality(seen) < Cardinality(DOMAIN Numbered[name])
    <3>1. /\ IsFiniteSet(seen)
          /\ Cardinality(seen) = Cardinality(reserved) + Cardinality(ToSet(s)) - Cardinality({})
      <4> DEFINE taken == ToSet(s)
      <4>1. reserved \cap taken = {}
        BY <2>4
      <4>2. IsFiniteSet(taken)
        BY <2>5
      <4> HIDE DEF taken
      <4>3. /\ IsFiniteSet(reserved \cup taken)
            /\ Cardinality(reserved \cup taken) =
                  Cardinality(reserved) + Cardinality(taken) - Cardinality(reserved \cap taken)
        BY <4>2, FS_Union
      <4> QED BY <4>1, <4>3 DEF taken
    <3>2. Cardinality({}) = 0 /\ Cardinality(reserved) \in Nat
      BY FS_EmptySet, FS_CardinalityType
    <3>3. Cardinality(DOMAIN Numbered[name]) \in Nat
      BY <2>6, NumberedAssumption, FS_CardinalityType
    <3>4. Cardinality(reserved) + Len(names) <= Cardinality(DOMAIN Numbered[name])
      BY <2>6
    <3> HIDE DEF seen, name
    <3> QED BY <1>0, <2>1, <2>5, <3>1, <3>2, <3>3, <3>4
  <2>8. new \notin seen /\ new \in Spelling
    <3> HIDE DEF seen, name
    <3> QED BY <2>6, <2>7, UnusedNew
  <2> HIDE DEF new
  <2>9. /\ Append(s, new) \in Seq(Spelling) /\ IsInjective(Append(s, new))
        /\ ToSet(Append(s, new)) = ToSet(s) \cup {new} /\ Len(Append(s, new)) = Len(s) + 1
    BY <2>4, <2>8, AppendNew
  <2> QED BY <2>3, <2>4, <2>8, <2>9
<1> HIDE DEF T
<1>4. T = Nat
  BY <1>2, <1>3, NumbersByOne DEF T
<1>5. Right(Len(names))
  BY <1>0, <1>4 DEF T
<1> QED BY <1>1, <1>5 DEF ToSet

(* What a reference stands for, if it stands for anything. *)
Meant(ref, agent) == agent = NoAgent \/ (ref.id \in DOMAIN Agents /\ agent = Agents[ref.id])

(* The tools for other agents have names of their own. *)
LEMMA SubNames ==
    ASSUME NEW refs \in Seq(Reference), NEW agents,
           \A k \in DOMAIN refs : Meant(refs[k], agents[k]),
           NEW reserved, IsFiniteSet(reserved),
           \A n \in DOMAIN Numbered :
               Cardinality(reserved) + Len(refs) <= Cardinality(DOMAIN Numbered[n]),
           NEW unwrapped
    PROVE  LET subs == SubAgentNames(refs, agents, reserved, unwrapped)
           IN  /\ \A i, j \in DOMAIN subs : subs[i] = subs[j] => i = j
               /\ \A i \in DOMAIN subs : subs[i] \notin reserved
<1> DEFINE places == [k \in DOMAIN refs |-> k]
           useful == {k \in DOMAIN refs : agents[k] # NoAgent /\ agents[k].usable}
           resolved == Resolved(refs, agents)
           surface(k) == Surface(agents[k].name, refs[k].id)
           surfaces == [i \in DOMAIN resolved |-> surface(resolved[i])]
           names == Disambiguated(surfaces, reserved)
           subs == SubAgentNames(refs, agents, reserved, unwrapped)
<1>1. places \in Seq(DOMAIN refs) /\ Len(places) = Len(refs)
  OBVIOUS
<1>2. resolved = Chosen(places, useful)
  BY DEF Resolved
<1>3. subs = [i \in {j \in DOMAIN resolved : resolved[j] \notin unwrapped} |-> names[i]]
  BY DEF SubAgentNames
<1>4. \A k \in useful : k \in DOMAIN refs /\ surface(k) \in DOMAIN Numbered
  BY ConfigurationAssumption DEF Meant
<1> HIDE DEF places, useful, surface, resolved, subs
<1>5. resolved \in Seq(DOMAIN refs \cap useful)
  BY <1>1, <1>2, ChosenType
<1>6. Len(resolved) <= Len(refs)
  BY <1>1, <1>2, ChosenShort
<1>7. surfaces \in Seq(DOMAIN Numbered) /\ Len(surfaces) = Len(resolved)
  <2>1. \A i \in DOMAIN resolved : surface(resolved[i]) \in DOMAIN Numbered
    BY <1>4, <1>5
  <2>2. DOMAIN resolved = 1 .. Len(resolved) /\ Len(resolved) \in Nat
    BY <1>5
  <2> QED BY <2>1, <2>2
<1>8. \A n \in DOMAIN Numbered :
         Cardinality(reserved) + Len(surfaces) <= Cardinality(DOMAIN Numbered[n])
  <2> SUFFICES ASSUME NEW n \in DOMAIN Numbered
               PROVE  Cardinality(reserved) + Len(surfaces) <= Cardinality(DOMAIN Numbered[n])
    OBVIOUS
  <2>1. Cardinality(reserved) \in Nat /\ Cardinality(DOMAIN Numbered[n]) \in Nat
    BY NumberedAssumption, FS_CardinalityType
  <2>2. Len(resolved) \in Nat /\ Len(refs) \in Nat
    BY <1>5
  <2>3. Cardinality(reserved) + Len(refs) <= Cardinality(DOMAIN Numbered[n])
    OBVIOUS
  <2> QED BY <1>6, <1>7, <2>1, <2>2, <2>3
<1> HIDE DEF surfaces
<1>9. /\ names \in Seq(Spelling) /\ Len(names) = Len(surfaces) /\ IsInjective(names)
      /\ \A i \in DOMAIN names : names[i] \notin reserved
  BY <1>7, <1>8, NamesApart
<1>10. DOMAIN names = DOMAIN resolved
  BY <1>5, <1>7, <1>9
<1> HIDE DEF names
<1>11. \A i \in DOMAIN subs : i \in DOMAIN names /\ subs[i] = names[i]
  BY <1>3, <1>10
<1>12. \A i, j \in DOMAIN names : names[i] = names[j] => i = j
  BY <1>9 DEF IsInjective
<1> QED BY <1>9, <1>11, <1>12 DEF subs

----------------------------------------------------------------------------
(* What a request that comes to a session has read *)

(* A body that a plan holds. *)
Asked(b) ==
    /\ b.refs \in Seq(Reference)
    /\ b.servers \in Seq(DOMAIN Form)
    /\ b.how = "profile" => \A k \in DOMAIN b.refs : b.refs[k].kind = "builtin"
    /\ IsFiniteSet(b.tools \cup DOMAIN Auth)
    /\ \A name \in DOMAIN Numbered :
          Cardinality(b.tools \cup DOMAIN Auth) + Len(b.refs) <= Cardinality(DOMAIN Numbered[name])

(* Every body is one. *)
LEMMA AskedBody == ASSUME Typed, NEW r \in DOMAIN plan.body PROVE Asked(Body(r))
BY BodyAssumption DEF Typed, Asked, Body

Readable(b) == ~Unreadable(b.servers)

(* What was found for a reference, with the agents that were in the store at first. *)
Found(ref, agent, stored) ==
    \/ agent = NoAgent
    \/ ref.kind = "custom" /\ ref.supplied \notin {"none", ref.id}
    \/ /\ ref.id \in DOMAIN Agents /\ agent = Agents[ref.id]
       /\ ref.kind = "custom" => ref.id \in stored
Findings(refs, agents, stored) ==
    /\ Sequence(agents) /\ Len(agents) <= Len(refs)
    /\ \A k \in 1 .. Len(agents) : Found(refs[k], agents[k], stored)
Seen(q, b) ==
    /\ Findings(b.refs, q.agents, q.at.agents)
    /\ Len(q.agents) < Len(b.refs) /\ b.refs[Len(q.agents) + 1].kind = "custom"

(* What all references stand for once they are accepted. *)
Settled(q, b) ==
    \A k \in DOMAIN b.refs :
        /\ Meant(b.refs[k], q.agents[k])
        /\ b.refs[k].kind = "custom" => b.refs[k].id \in q.at.agents

(* The servers of the session come first, in order, then those of built-in agents. *)
InPlace(e, i, b) ==
    IF i <= Len(Parsed(b.servers)) THEN e.for = "session" /\ e.server = Parsed(b.servers)[i]
    ELSE e.for # "session"
Served(q, b) ==
    /\ Sequence(q.todo) /\ Sequence(q.results)
    /\ \A i \in 1 .. Len(q.results) : InPlace(q.results[i], i, b) /\ q.results[i].server \in Server
    /\ \A i \in 1 .. Len(q.todo) : InPlace(q.todo[i], Len(q.results) + i, b)
    /\ Len(Parsed(b.servers)) <= Len(q.results) + Len(q.todo)
    /\ q.pc = "build" => q.todo = <<>>

(* What the answer of a request says, but for its conversation. *)
Faithful(q, b) ==
    LET subs == q.runtime.subs
        kept == Chosen(q.results, {e \in Range(q.results) : e.for = "session"})
    IN  /\ b.resume => q.at.owned
        /\ \A k \in DOMAIN b.refs : b.refs[k].kind = "custom" => b.refs[k].id \in q.at.agents
        /\ [k \in DOMAIN kept |-> kept[k].server] = Chosen(b.servers, {s \in DOMAIN Form : Form[s] = "ok"})
        /\ \A i, j \in DOMAIN subs : subs[i] = subs[j] => i = j
        /\ \A i \in DOMAIN subs : subs[i] \notin q.runtime.own

Entitled(q) == q.pc \in {"displacing", "rollback"} \/ q.outcome = "ok"

(* What a request owes at each of its awaits. *)
Truthful(q, b) ==
    /\ q.pc = "ref" => Readable(b) /\ Seen(q, b)
    /\ q.pc \in {"owned", "database", "profile", "connecting", "build"} => Readable(b) /\ Settled(q, b)
    /\ q.pc \in {"database", "profile", "connecting", "build"} => (b.resume => q.at.owned)
    /\ q.pc \in {"connecting", "build"} => Served(q, b)
    /\ q.pc = "indexing" \/ Entitled(q) => Faithful(q, b)

(* The built-in agents up to the next custom reference. *)
LEMMA BuiltinsRead ==
    ASSUME NEW refs \in Seq(Reference), NEW agents, Sequence(agents), Len(agents) <= Len(refs)
    PROVE  LET all == WithBuiltins(refs, agents)
           IN  /\ Sequence(all) /\ Len(all) <= Len(refs)
               /\ Len(all) < Len(refs) => refs[Len(all) + 1].kind = "custom"
               /\ \A k \in 1 .. Len(all) :
                     \/ k \in 1 .. Len(agents) /\ all[k] = agents[k]
                     \/ refs[k].kind # "custom" /\ Meant(refs[k], all[k])
<1> DEFINE S == {k \in Len(agents) .. Len(refs) : k = Len(refs) \/ refs[k + 1].kind = "custom"}
           known == Min(S)
           Builtin(k) == IF refs[k].id \in DOMAIN Servers THEN Agents[refs[k].id] ELSE NoAgent
           all == WithBuiltins(refs, agents)
<1>1. Len(agents) \in Nat /\ Len(refs) \in Nat
  BY DEF Sequence
<1>2. S \subseteq Nat /\ Len(refs) \in S
  BY <1>1
<1>3. \A k \in S : k \in Len(agents) .. Len(refs) /\ (k = Len(refs) \/ refs[k + 1].kind = "custom")
  OBVIOUS
<1>4. \A k \in Len(agents) .. Len(refs) : k \notin S => refs[k + 1].kind # "custom"
  OBVIOUS
<1>5. all = [k \in 1 .. known |-> IF k <= Len(agents) THEN agents[k] ELSE Builtin(k)]
  BY DEF WithBuiltins
<1> HIDE DEF S, all
<1>6. known \in S /\ \A k \in S : known <= k
  <2>1. \E x \in S : \A y \in S : x <= y
    BY <1>2, LeastNumber
  <2> QED BY <2>1 DEF Min
<1> HIDE DEF known
<1>7. known \in Nat /\ Len(agents) <= known /\ known <= Len(refs)
      /\ (known = Len(refs) \/ refs[known + 1].kind = "custom")
  BY <1>1, <1>3, <1>6
<1>8. \A k \in 1 .. known : k > Len(agents) => refs[k].kind # "custom"
  <2> SUFFICES ASSUME NEW k \in 1 .. known, k > Len(agents) PROVE refs[k].kind # "custom"
    OBVIOUS
  <2>1. k - 1 \in Len(agents) .. Len(refs) /\ ~(known <= k - 1) /\ (k - 1) + 1 = k
    BY <1>1, <1>7
  <2> QED BY <1>4, <1>6, <2>1
<1>9. \A k \in 1 .. known : Meant(refs[k], Builtin(k))
  BY ConfigurationAssumption DEF Meant
<1> HIDE DEF Builtin
<1>10. /\ all \in Seq({all[k] : k \in 1 .. known}) /\ Len(all) = known
       /\ \A k \in 1 .. known : all[k] = IF k <= Len(agents) THEN agents[k] ELSE Builtin(k)
  BY <1>5, <1>7
<1>11. \A k \in 1 .. known :
          \/ k \in 1 .. Len(agents) /\ all[k] = agents[k]
          \/ refs[k].kind # "custom" /\ Meant(refs[k], all[k])
  BY <1>1, <1>7, <1>8, <1>9, <1>10
<1> QED BY <1>7, <1>10, <1>11 DEF Sequence, all

(* They are found like the others. *)
LEMMA BuiltinsFound ==
    ASSUME NEW refs \in Seq(Reference), NEW agents, NEW stored, Findings(refs, agents, stored)
    PROVE  LET all == WithBuiltins(refs, agents)
           IN  /\ Findings(refs, all, stored)
               /\ Len(all) < Len(refs) => refs[Len(all) + 1].kind = "custom"
<1> DEFINE all == WithBuiltins(refs, agents)
<1>1. /\ Sequence(all) /\ Len(all) <= Len(refs)
      /\ Len(all) < Len(refs) => refs[Len(all) + 1].kind = "custom"
      /\ \A k \in 1 .. Len(all) :
            \/ k \in 1 .. Len(agents) /\ all[k] = agents[k]
            \/ refs[k].kind # "custom" /\ Meant(refs[k], all[k])
  BY BuiltinsRead DEF Findings
<1> HIDE DEF all
<1>2. \A k \in 1 .. Len(all) : Found(refs[k], all[k], stored)
  BY <1>1 DEF Findings, Found, Meant
<1> QED BY <1>1, <1>2 DEF Findings, all

(* The servers that are put down: those of the session, then those of built-in agents. *)
LEMMA ConnectingTruth ==
    ASSUME NEW b, Asked(b), NEW q, Shape(q), q.outcome = "none", q.results = <<>>,
           Readable(b), Settled(q, b), b.resume => q.at.owned
    PROVE  Truthful(Connecting(q, b), b)
<1> DEFINE own   == Parsed(b.servers)
           first == [i \in DOMAIN own |-> Entry(own[i], "session")]
           Builtin == [server : DOMAIN Form, for : DOMAIN Servers]
           rest  == EntriesOfRefs(b.refs)
           todo  == first \o rest
           n     == Connecting(q, b)
<1>1. own \in Seq(DOMAIN Form)
  <2>1. own \in Seq(DOMAIN Form \cap {s \in DOMAIN Form : Form[s] # "incomplete"})
    BY ChosenType DEF Parsed, Asked
  <2> QED BY <2>1
<1>2. rest \in Seq(Builtin)
  <2> DEFINE fresh(k) == /\ b.refs[k].id \in DOMAIN Servers
                         /\ \A j \in 1..(k - 1) : b.refs[j].id # b.refs[k].id
             parts == [k \in DOMAIN b.refs |-> IF fresh(k) THEN EntriesOf(b.refs[k].id) ELSE <<>>]
  <2>1. ASSUME NEW id \in DOMAIN Servers PROVE EntriesOf(id) \in Seq(Builtin)
    <3> DEFINE servers == IF Unreadable(Servers[id]) THEN <<>> ELSE Parsed(Servers[id])
    <3>1. Servers[id] \in Seq(DOMAIN Form)
      BY ConfigurationAssumption
    <3>2. Parsed(Servers[id]) \in Seq(DOMAIN Form \cap {s \in DOMAIN Form : Form[s] # "incomplete"})
      BY <3>1, ChosenType DEF Parsed
    <3>3. servers \in Seq(DOMAIN Form)
      <4>1. Parsed(Servers[id]) \in Seq(DOMAIN Form) /\ <<>> \in Seq(DOMAIN Form)
        BY <3>2
      <4> QED BY <4>1
    <3>4. EntriesOf(id) = [i \in DOMAIN servers |-> Entry(servers[i], id)]
      BY DEF EntriesOf
    <3> HIDE DEF servers
    <3>5. DOMAIN servers = 1 .. Len(servers) /\ Len(servers) \in Nat
      BY <3>3
    <3>6. \A i \in 1 .. Len(servers) : Entry(servers[i], id) \in Builtin
      BY <3>3 DEF Entry
    <3> HIDE DEF Builtin
    <3> QED BY <3>4, <3>5, <3>6
  <2>2. \A k \in DOMAIN b.refs : parts[k] \in Seq(Builtin)
    <3> SUFFICES ASSUME NEW k \in DOMAIN b.refs PROVE parts[k] \in Seq(Builtin)
      OBVIOUS
    <3>1. CASE fresh(k)
      BY <2>1, <3>1
    <3>2. CASE ~fresh(k)
      BY <3>2
    <3> QED BY <3>1, <3>2
  <2>3. DOMAIN b.refs = 1 .. Len(b.refs) /\ Len(b.refs) \in Nat
    BY DEF Asked
  <2>4. rest = FlattenSeq(parts)
    BY DEF EntriesOfRefs
  <2>5. DOMAIN parts = DOMAIN b.refs /\ parts = [k \in DOMAIN parts |-> parts[k]]
    OBVIOUS
  <2> HIDE DEF parts, Builtin
  <2>6. parts \in Seq(Seq(Builtin))
    BY <2>2, <2>3, <2>5
  <2> QED BY <2>4, <2>6, FlattenType
<1>3. n = [q EXCEPT !.todo = todo, !.pc = IF todo = <<>> THEN "build" ELSE "connecting"]
  BY DEF Connecting
<1> HIDE DEF n
<1>4. \A e \in Builtin : e.for # "session"
  BY ConfigurationAssumption
<1> HIDE DEF rest, Builtin
<1>5. Len(own) \in Nat /\ Len(rest) \in Nat /\ DOMAIN own = 1 .. Len(own)
  BY <1>1, <1>2
<1>6. /\ \A i \in 1 .. Len(own) : first[i].for = "session" /\ first[i].server = own[i]
      /\ first \in Seq({first[i] : i \in 1 .. Len(own)}) /\ Len(first) = Len(own)
  BY <1>5 DEF Entry
<1>7. \A i \in 1 .. Len(rest) : rest[i].for # "session"
  BY <1>2, <1>4
<1> HIDE DEF first, own
<1>8. /\ Sequence(todo) /\ Len(todo) = Len(own) + Len(rest)
      /\ \A i \in 1 .. Len(todo) : todo[i] = IF i <= Len(own) THEN first[i] ELSE rest[i - Len(own)]
  <2> DEFINE A == {first[i] : i \in 1 .. Len(own)} \cup Builtin
  <2>1. first \in Seq(A) /\ rest \in Seq(A)
    BY <1>2, <1>6
  <2> HIDE DEF A
  <2>2. todo \in Seq(A) /\ Len(todo) = Len(first) + Len(rest)
    BY <2>1
  <2>3. \A i \in 1 .. Len(first) + Len(rest) :
           todo[i] = IF i <= Len(first) THEN first[i] ELSE rest[i - Len(first)]
    BY <2>1
  <2>4. Sequence(todo)
    BY <2>2 DEF Sequence
  <2> HIDE DEF todo
  <2> QED BY <1>6, <2>2, <2>3, <2>4
<1> HIDE DEF todo
<1>9. \A i \in 1 .. Len(todo) : InPlace(todo[i], i, b)
  <2> SUFFICES ASSUME NEW i \in 1 .. Len(todo) PROVE InPlace(todo[i], i, b)
    OBVIOUS
  <2>1. CASE i <= Len(own)
    BY <1>5, <1>6, <1>8, <2>1 DEF InPlace, own
  <2>2. CASE ~(i <= Len(own))
    <3>1. i - Len(own) \in 1 .. Len(rest)
      BY <1>5, <1>8, <2>2
    <3> QED BY <1>7, <1>8, <2>2, <3>1 DEF InPlace, own
  <2> QED BY <2>1, <2>2
<1>10. /\ Shape(n) /\ n.at = q.at /\ n.agents = q.agents /\ n.results = <<>> /\ n.todo = todo
       /\ n.pc = (IF todo = <<>> THEN "build" ELSE "connecting") /\ n.outcome = "none"
  BY <1>3 DEF Shape, Fields
<1>11. Len(own) = Len(Parsed(b.servers))
  BY DEF own
<1>12. Served(n, b)
  <2>1. Sequence(<<>>) /\ Len(<<>>) = 0
    BY DEF Sequence
  <2>2. \A i \in 1 .. Len(todo) : Len(<<>>) + i = i
    BY <2>1
  <2>3. Len(Parsed(b.servers)) <= Len(<<>>) + Len(todo)
    BY <1>5, <1>8, <1>11, <2>1
  <2>4. \A i \in 1 .. Len(n.todo) : InPlace(n.todo[i], Len(n.results) + i, b)
    BY <1>9, <1>10, <2>2
  <2>5. n.pc = "build" => n.todo = <<>>
    BY <1>10
  <2>6. 1 .. Len(n.results) = {}
    BY <1>10, <2>1
  <2> QED BY <1>8, <1>10, <2>1, <2>3, <2>4, <2>5, <2>6 DEF Served
<1>13. Settled(n, b) /\ (b.resume => n.at.owned)
  BY <1>10 DEF Settled
<1>14. n.pc \in {"build", "connecting"} /\ ~Entitled(n)
  BY <1>10 DEF Entitled
<1> QED BY <1>12, <1>13, <1>14 DEF Truthful, n

(* The awaits of _start_session. *)
LEMMA StartTruth ==
    ASSUME NEW b, Asked(b), NEW q, Shape(q), q.outcome = "none", q.results = <<>>,
           Readable(b), Settled(q, b)
    PROVE  /\ (b.resume => q.at.owned) =>
                 Truthful(WithProfile(q, b), b) /\ Truthful(Dependencies(q, b), b)
           /\ Truthful(Start(q, b), b)
<1>1. ASSUME NEW pc \in {"owned", "database", "profile"}, pc # "owned" => (b.resume => q.at.owned)
      PROVE  Truthful([q EXCEPT !.pc = pc], b)
  <2> DEFINE n == [q EXCEPT !.pc = pc]
  <2>1. n.pc = pc /\ n.outcome = "none" /\ n.at = q.at /\ n.agents = q.agents
    BY DEF Shape, Fields
  <2> HIDE DEF n
  <2>2. Truthful(n, b)
    BY <1>1, <2>1 DEF Truthful, Entitled, Settled
  <2> QED BY <2>2 DEF n
<1>2. ASSUME b.resume => q.at.owned PROVE Truthful(WithProfile(q, b), b)
  BY <1>1, <1>2, ConnectingTruth DEF WithProfile
<1>3. ASSUME b.resume => q.at.owned PROVE Truthful(Dependencies(q, b), b)
  BY <1>1, <1>2, <1>3 DEF Dependencies
<1>4. Truthful(Start(q, b), b)
  BY <1>1, <1>3 DEF Start
<1> QED BY <1>2, <1>3, <1>4

(* A request that ended otherwise owes nothing. *)
LEMMA EndedTruth ==
    ASSUME NEW q, Shape(q), NEW outcome, outcome # "ok", NEW b
    PROVE  Truthful(Ended(q, outcome), b)
BY EndedFields DEF Truthful, Entitled

(* The references are settled when they are accepted. *)
LEMMA ReferringTruth ==
    ASSUME NEW b, Asked(b), NEW q, Shape(q), q.outcome = "none", q.results = <<>>,
           Readable(b), NEW agents, Findings(b.refs, agents, q.at.agents)
    PROVE  Truthful(Referring(q, b, agents), b)
<1> DEFINE all  == WithBuiltins(b.refs, agents)
           next == [q EXCEPT !.agents = all]
           wait == [next EXCEPT !.pc = "ref"]
<1>1. /\ Findings(b.refs, all, q.at.agents)
      /\ Len(all) < Len(b.refs) => b.refs[Len(all) + 1].kind = "custom"
  BY BuiltinsFound DEF Asked
<1>2. \/ Len(all) < Len(b.refs) /\ Referring(q, b, agents) = wait
      \/ ~(Len(all) < Len(b.refs)) /\ Referring(q, b, agents) = Ended(next, "invalid")
      \/ /\ ~(Len(all) < Len(b.refs)) /\ Referring(q, b, agents) = Start(next, b)
         /\ b.how = "profile" \/ RefsAccepted(b.parent, b.refs, all)
  BY DEF Referring
<1>3. Shape(next) /\ next.at = q.at /\ next.results = <<>> /\ next.outcome = "none" /\ next.agents = all
  BY DEF Shape, Fields
<1> HIDE DEF next, all
<1>4. Shape(wait) /\ wait.pc = "ref" /\ wait.outcome = "none" /\ wait.at = q.at /\ wait.agents = all
  BY <1>3 DEF Shape, Fields
<1> HIDE DEF wait
<1>5. CASE Len(all) < Len(b.refs) /\ Referring(q, b, agents) = wait
  <2>1. Seen(wait, b)
    BY <1>1, <1>4, <1>5 DEF Seen
  <2> QED BY <1>4, <1>5, <2>1 DEF Truthful, Entitled
<1>6. CASE Referring(q, b, agents) = Ended(next, "invalid")
  BY <1>3, <1>6, EndedTruth
<1>7. CASE /\ ~(Len(all) < Len(b.refs)) /\ Referring(q, b, agents) = Start(next, b)
           /\ b.how = "profile" \/ RefsAccepted(b.parent, b.refs, all)
  <2>1. DOMAIN b.refs = 1 .. Len(b.refs) /\ Len(all) = Len(b.refs)
    BY <1>1, <1>7 DEF Asked, Findings, Sequence
  <2>2. \A k \in DOMAIN b.refs :
          \/ b.how = "profile" /\ b.refs[k].kind = "builtin"
          \/ /\ b.refs[k].kind = "custom" => b.refs[k].supplied \in {"none", b.refs[k].id}
             /\ all[k] # NoAgent
    BY <1>7 DEF Asked, RefsAccepted
  <2>3. \A k \in DOMAIN b.refs : Found(b.refs[k], all[k], q.at.agents)
    BY <1>1, <2>1 DEF Findings
  <2>4. Settled(next, b)
    BY <1>3, <2>2, <2>3 DEF Settled, Found, Meant
  <2> QED BY <1>3, <1>7, <2>4, StartTruth
<1> QED BY <1>2, <1>5, <1>6, <1>7

(* A body is admitted with its servers readable, or with its skills to be read first. *)
LEMMA AdmittedTruth ==
    ASSUME NEW b, Asked(b), NEW q, Shape(q), q.outcome = "none", q.results = <<>>
    PROVE  Truthful(Admitted(q, b), b)
<1> DEFINE p == [q EXCEPT !.skills = b.skills]
           s == [q EXCEPT !.pc = "skills"]
<1>1. \/ Admitted(q, b) \in {Ended(q, "invalid"), Ended(q, "failed"), s}
      \/ Readable(b) /\ Admitted(q, b) = Referring(p, b, <<>>)
  BY DEF Admitted, Readable
<1>2. Shape(p) /\ p.at = q.at /\ p.results = <<>> /\ p.outcome = "none"
  BY DEF Shape, Fields
<1>3. s.pc = "skills" /\ s.outcome = "none"
  BY DEF Shape, Fields
<1> HIDE DEF p, s
<1>4. Findings(b.refs, <<>>, p.at.agents)
  BY DEF Findings, Sequence, Asked
<1>5. Readable(b) => Truthful(Referring(p, b, <<>>), b)
  BY <1>2, <1>4, ReferringTruth
<1>6. Truthful(s, b)
  BY <1>3 DEF Truthful, Entitled
<1>7. Truthful(Ended(q, "invalid"), b) /\ Truthful(Ended(q, "failed"), b)
  BY EndedTruth
<1> QED BY <1>1, <1>5, <1>6, <1>7

(* Keys of a version let a request on, refuse it, or make it fetch others. *)
LEMMA CheckedTruth ==
    ASSUME NEW b, Asked(b), NEW q, Shape(q), q.outcome = "none", q.results = <<>>, NEW version
    PROVE  Truthful(Checked(q, b, version), b)
<1> DEFINE p == [q EXCEPT !.version = version]
           f == [p EXCEPT !.forced = TRUE, !.pc = "fetching"]
<1>1. Checked(q, b, version) \in {Admitted(p, b), Ended(p, "bad_token"), Ended(p, "unknown_key"), f}
  BY DEF Checked
<1>2. Shape(p) /\ p.results = <<>> /\ p.outcome = "none"
  BY DEF Shape, Fields
<1> HIDE DEF p
<1>3. f.pc = "fetching" /\ f.outcome = "none"
  BY <1>2 DEF Shape, Fields
<1> HIDE DEF f
<1>4. Truthful(f, b)
  BY <1>3 DEF Truthful, Entitled
<1>5. Truthful(Ended(p, "bad_token"), b) /\ Truthful(Ended(p, "unknown_key"), b)
  BY <1>2, EndedTruth
<1>6. Truthful(Admitted(p, b), b)
  BY <1>2, AdmittedTruth
<1> QED BY <1>1, <1>4, <1>5, <1>6

----------------------------------------------------------------------------
(* From the servers to the answer *)

(* A server that is done with keeps its place. *)
LEMMA OutcomeTruth ==
    ASSUME NEW r, NEW b, Held(req[r]), req[r].pc = "connecting", Truthful(req[r], b), NEW ok,
           Head(req[r].todo).server \in Server
    PROVE  Truthful(Outcome(r, ok), b)
<1> DEFINE q == req[r]
           e == Head(q.todo)
           d == [server |-> e.server, for |-> e.for, ok |-> ok]
           n == Outcome(r, ok)
<1>1. /\ q.outcome = "none" /\ Shape(q) /\ q.todo # <<>>
      /\ Readable(b) /\ Settled(q, b) /\ (b.resume => q.at.owned) /\ Served(q, b)
  BY DEF Held, Truthful
<1>2. /\ n.at = q.at /\ n.agents = q.agents /\ n.outcome = "none"
      /\ n.results = Append(q.results, d) /\ n.todo = Tail(q.todo)
      /\ n.pc = IF Tail(q.todo) = <<>> THEN "build" ELSE "connecting"
  BY <1>1 DEF Outcome, Shape, Fields
<1>3. PICK S : q.results \in Seq(S)
  BY <1>1 DEF Served, Sequence
<1>4. PICK T : q.todo \in Seq(T)
  BY <1>1 DEF Served, Sequence
<1>5. d.server = e.server /\ d.for = e.for /\ e = q.todo[1]
  BY <1>1, <1>4
<1>6. e.server \in Server
  OBVIOUS
<1> HIDE DEF n, d, e
<1> DEFINE results == q.results
           todo    == q.todo
           R       == Len(results)
           L       == Len(todo)
<1>7. R \in Nat /\ L \in Nat /\ L > 0
  BY <1>1, <1>3, <1>4
<1>8. /\ n.results \in Seq(S \cup {d}) /\ Len(n.results) = R + 1 /\ n.results[R + 1] = d
      /\ \A i \in 1 .. R : n.results[i] = results[i]
  <2>1. q.results \in Seq(S \cup {d}) /\ d \in S \cup {d}
    BY <1>3
  <2> QED BY <1>2, <2>1
<1>9. /\ n.todo \in Seq(T) /\ Len(n.todo) = L - 1
      /\ \A i \in 1 .. L - 1 : n.todo[i] = todo[i + 1] /\ i + 1 \in 1 .. L
  BY <1>1, <1>2, <1>4, <1>7
<1>10. /\ \A i \in 1 .. R : InPlace(results[i], i, b) /\ results[i].server \in Server
       /\ \A i \in 1 .. L : InPlace(todo[i], R + i, b)
       /\ Len(Parsed(b.servers)) <= R + L
  BY <1>1 DEF Served
<1> HIDE DEF R, L, results, todo
<1>11. \A i \in 1 .. Len(n.results) : InPlace(n.results[i], i, b) /\ n.results[i].server \in Server
  <2> SUFFICES ASSUME NEW i \in 1 .. R + 1
               PROVE  InPlace(n.results[i], i, b) /\ n.results[i].server \in Server
    BY <1>8
  <2>1. CASE i \in 1 .. R
    BY <1>8, <1>10, <2>1
  <2>2. CASE i = R + 1
    <3>1. InPlace(todo[1], R + 1, b)
      BY <1>7, <1>10
    <3>2. n.results[i] = d /\ todo[1] = e
      BY <1>5, <1>8, <2>2 DEF todo
    <3> QED BY <1>5, <1>6, <2>2, <3>1, <3>2 DEF InPlace
  <2> QED BY <1>7, <2>1, <2>2
<1>12. \A i \in 1 .. Len(n.todo) : InPlace(n.todo[i], Len(n.results) + i, b)
  <2> SUFFICES ASSUME NEW i \in 1 .. L - 1 PROVE InPlace(n.todo[i], (R + 1) + i, b)
    BY <1>8, <1>9
  <2>1. (R + 1) + i = R + (i + 1) /\ i + 1 \in 1 .. L /\ n.todo[i] = todo[i + 1]
    BY <1>7, <1>9
  <2>2. InPlace(todo[i + 1], R + (i + 1), b)
    BY <1>10, <2>1
  <2> QED BY <2>1, <2>2
<1>13. Len(Parsed(b.servers)) <= Len(n.results) + Len(n.todo)
  <2>1. (R + 1) + (L - 1) = R + L
    BY <1>7
  <2> QED BY <1>8, <1>9, <1>10, <2>1
<1>14. Sequence(n.results) /\ Sequence(n.todo) /\ (n.pc = "build" => n.todo = <<>>)
  BY <1>2, <1>8, <1>9 DEF Sequence
<1>15. Served(n, b)
  BY <1>11, <1>12, <1>13, <1>14 DEF Served
<1>16. Settled(n, b) /\ (b.resume => n.at.owned)
  BY <1>1, <1>2 DEF Settled
<1>17. n.pc \in {"build", "connecting"} /\ ~Entitled(n)
  BY <1>2 DEF Entitled
<1> QED BY <1>1, <1>15, <1>16, <1>17 DEF Truthful, n

(* The answer names the servers that are written down properly. *)
LEMMA AnswerTruth ==
    ASSUME NEW b, Asked(b), NEW q, Readable(b), Served(q, b), q.todo = <<>>
    PROVE  LET kept == Chosen(q.results, {e \in Range(q.results) : e.for = "session"})
           IN  [k \in DOMAIN kept |-> kept[k].server] =
                  Chosen(b.servers, {s \in DOMAIN Form : Form[s] = "ok"})
<1> DEFINE own  == Parsed(b.servers)
           ok   == {s \in DOMAIN Form : Form[s] = "ok"}
           good == {s \in DOMAIN Form : Form[s] # "incomplete"}
           mine == {e \in Range(q.results) : e.for = "session"}
           kept == Chosen(q.results, mine)
           names == [k \in DOMAIN kept |-> kept[k].server]
           results == q.results
<1>1. PICK S : results \in Seq(S)
  BY DEF Served, Sequence
<1>2. b.servers \in Seq(DOMAIN Form) /\ \A i \in DOMAIN b.servers : Form[b.servers[i]] # "unreadable"
  BY DEF Asked, Readable, Unreadable
<1>3. own = Chosen(b.servers, good)
  BY DEF Parsed
<1>4. own = Chosen(b.servers, ok)
  <2>1. \A i \in 1 .. Len(b.servers) : b.servers[i] \in good <=> b.servers[i] \in ok
    <3> SUFFICES ASSUME NEW i \in 1 .. Len(b.servers)
                 PROVE  b.servers[i] \in good <=> b.servers[i] \in ok
      OBVIOUS
    <3>1. b.servers[i] \in DOMAIN Form /\ Form[b.servers[i]] # "unreadable"
      BY <1>2
    <3>2. Form[b.servers[i]] \in {"ok", "incomplete", "unreadable"}
      BY <3>1, ConfigurationAssumption
    <3> QED BY <3>1, <3>2
  <2> HIDE DEF good, ok
  <2>2. Chosen(b.servers, good) = Chosen(b.servers, ok)
    BY <1>2, <2>1, ChosenSame
  <2> QED BY <1>3, <2>2
<1>5. own \in Seq(DOMAIN Form)
  <2>1. own \in Seq(DOMAIN Form \cap good)
    BY <1>2, <1>3, ChosenType
  <2> QED BY <2>1
<1> HIDE DEF own
<1>6. Len(own) \in 0 .. Len(results)
  <2>1. Len(own) <= Len(results) + Len(<<>>) /\ Len(<<>>) = 0
    BY DEF Served, own
  <2> QED BY <1>1, <1>5, <2>1
<1>7. \A i \in 1 .. Len(results) :
         results[i] \in Range(results) /\ InPlace(results[i], i, b)
  BY <1>1 DEF Served, Range
<1>8. \A i \in 1 .. Len(results) : results[i] \in mine <=> i <= Len(own)
  BY <1>7 DEF InPlace, own
<1>9. \A i \in 1 .. Len(own) : results[i].server = own[i]
  <2> SUFFICES ASSUME NEW i \in 1 .. Len(own) PROVE results[i].server = own[i]
    OBVIOUS
  <2>1. i \in 1 .. Len(results) /\ i <= Len(own)
    BY <1>1, <1>6
  <2> QED BY <1>7, <2>1 DEF InPlace, own
<1> HIDE DEF mine, results
<1>10. kept = Chosen(results, mine)
  BY DEF results
<1> HIDE DEF kept
<1>11. Len(kept) = Len(own) /\ \A i \in 1 .. Len(own) : kept[i] = results[i]
  BY <1>1, <1>6, <1>8, <1>10, ChosenBeginning
<1>12. kept \in Seq(S \cap mine)
  BY <1>1, <1>10, ChosenType
<1>13. DOMAIN kept = 1 .. Len(own) /\ Len(own) \in Nat
  BY <1>5, <1>11, <1>12
<1>14. \A i \in 1 .. Len(own) : names[i] = own[i]
  BY <1>9, <1>11, <1>13
<1>15. names \in Seq(DOMAIN Form) /\ Len(names) = Len(own)
  <2>1. \A i \in 1 .. Len(own) : own[i] \in DOMAIN Form
    BY <1>5
  <2>2. names = [i \in 1 .. Len(own) |-> names[i]]
    BY <1>13
  <2> HIDE DEF names
  <2> QED BY <1>13, <1>14, <2>1, <2>2
<1> HIDE DEF names
<1>16. names = own
  BY <1>5, <1>14, <1>15, SameSequence
<1> QED BY <1>4, <1>16 DEF names, kept, mine, ok, results

(* The runtime that is built is one the answer can speak of. *)
LEMMA BuiltTruth ==
    ASSUME NEW b, Asked(b), NEW q, Shape(q), q.pc = "build", Truthful(q, b), NEW unwrapped
    PROVE  LET connected == {k \in DOMAIN q.results : q.results[k].ok}
               servers == {q.results[k].server : k \in {j \in connected : q.results[j].for = "session"}}
               n == [q EXCEPT !.runtime =
                       Runtime(b.tools, Built(q, b), servers, b.refs, q.agents, unwrapped)]
           IN  Faithful(n, b)
<1> DEFINE connected == {k \in DOMAIN q.results : q.results[k].ok}
           servers == {q.results[k].server : k \in {j \in connected : q.results[j].for = "session"}}
           built == Built(q, b)
           runtime == Runtime(b.tools, built, servers, b.refs, q.agents, unwrapped)
           own == Enabled(b.tools, built) \cup servers
           all == b.tools \cup DOMAIN Auth
           n == [q EXCEPT !.runtime = runtime]
<1>1. Readable(b) /\ Settled(q, b) /\ (b.resume => q.at.owned) /\ Served(q, b) /\ q.todo = <<>>
  BY DEF Truthful, Served
<1>2. servers \subseteq DOMAIN Auth
  <2>1. DOMAIN q.results = 1 .. Len(q.results)
    BY <1>1 DEF Served, Sequence
  <2> QED BY <1>1, <2>1 DEF Served, Server
<1> HIDE DEF servers, built
<1>3. own \subseteq all
  BY <1>2 DEF Enabled
<1>4. IsFiniteSet(all) /\ \A name \in DOMAIN Numbered :
                             Cardinality(all) + Len(b.refs) <= Cardinality(DOMAIN Numbered[name])
  BY DEF Asked
<1>5. runtime.own = own /\ runtime.subs = SubAgentNames(b.refs, q.agents, own, unwrapped)
  BY DEF Runtime
<1> HIDE DEF own, all, runtime
<1>6. IsFiniteSet(own) /\ Cardinality(own) <= Cardinality(all)
      /\ Cardinality(own) \in Nat /\ Cardinality(all) \in Nat
  BY <1>3, <1>4, FS_Subset, FS_CardinalityType
<1>7. \A name \in DOMAIN Numbered :
         Cardinality(own) + Len(b.refs) <= Cardinality(DOMAIN Numbered[name])
  <2> SUFFICES ASSUME NEW name \in DOMAIN Numbered
               PROVE  Cardinality(own) + Len(b.refs) <= Cardinality(DOMAIN Numbered[name])
    OBVIOUS
  <2>1. Cardinality(DOMAIN Numbered[name]) \in Nat
    BY NumberedAssumption, FS_CardinalityType
  <2>2. Len(b.refs) \in Nat
    BY DEF Asked
  <2> QED BY <1>4, <1>6, <2>1, <2>2
<1>8. b.refs \in Seq(Reference) /\ \A k \in DOMAIN b.refs : Meant(b.refs[k], q.agents[k])
  BY <1>1 DEF Asked, Settled
<1>9. /\ \A i, j \in DOMAIN runtime.subs : runtime.subs[i] = runtime.subs[j] => i = j
      /\ \A i \in DOMAIN runtime.subs : runtime.subs[i] \notin runtime.own
  BY <1>5, <1>6, <1>7, <1>8, SubNames
<1>10. n.runtime = runtime /\ n.results = q.results /\ n.at = q.at
  BY DEF Shape, Fields
<1> HIDE DEF n
<1>11. LET kept == Chosen(q.results, {e \in Range(q.results) : e.for = "session"})
       IN  [k \in DOMAIN kept |-> kept[k].server] =
              Chosen(b.servers, {s \in DOMAIN Form : Form[s] = "ok"})
  BY <1>1, AnswerTruth
<1>12. \A k \in DOMAIN b.refs : b.refs[k].kind = "custom" => b.refs[k].id \in n.at.agents
  BY <1>1, <1>10 DEF Settled
<1>13. Faithful(n, b)
  BY <1>1, <1>9, <1>10, <1>11, <1>12 DEF Faithful
<1> QED BY <1>13 DEF n, runtime, servers, built

----------------------------------------------------------------------------
(* The steps *)

(* What holds of a request besides: the conversation and the agents that are still
   there were there when it arrived, and only one that is entitled is registered. *)
Backed(r) ==
    /\ Truthful(req[r], Body(r))
    /\ ~At(r, "unborn") => (Old \in index => req[r].at.owned) /\ store \subseteq req[r].at.agents
    /\ registered[Home(r)] = r => Entitled(req[r])
    /\ Entitled(req[r]) /\ ~Body(r).resume => r \in index
Truth == \A r \in DOMAIN plan.body : Backed(r)

(* Agents and the old conversation go, and no others. *)
Fades ==
    /\ UNCHANGED plan /\ store' \subseteq store
    /\ index \ {Old} \subseteq index' /\ (Old \in index' => Old \in index)

(* A step of one request, or of none. *)
LEMMA StepTruth ==
    ASSUME Inv, Truth, Fades, NEW r,
           \A o \in DOMAIN plan.body \ {r} :
               req'[o] = req[o] /\ (registered'[Home(o)] = o => registered[Home(o)] = o),
           r \in DOMAIN plan.body =>
               /\ Truthful(req'[r], Body(r))
               /\ req'[r].pc # "unborn" =>
                     (Old \in index => req'[r].at.owned) /\ store \subseteq req'[r].at.agents
               /\ registered'[Home(r)] = r => Entitled(req'[r])
               /\ Entitled(req'[r]) /\ ~Body(r).resume => r \in index'
    PROVE  Truth'
<1>1. \A o : Body(o)' = Body(o) /\ Home(o)' = Home(o)
  BY DEF Home, Body, Fades
<1>2. \A o \in DOMAIN plan.body : o # Old
  BY PlanDomain, Apart DEF Inv
<1> SUFFICES ASSUME NEW o \in DOMAIN plan.body
             PROVE  /\ Truthful(req'[o], Body(o))
                    /\ req'[o].pc # "unborn" =>
                          (Old \in index' => req'[o].at.owned) /\ store' \subseteq req'[o].at.agents
                    /\ registered'[Home(o)] = o => Entitled(req'[o])
                    /\ Entitled(req'[o]) /\ ~Body(o).resume => o \in index'
  BY <1>1 DEF Truth, Backed, At, Fades, Truthful, Entitled, Faithful
<1>3. CASE o = r
  BY <1>3 DEF Fades
<1>4. CASE o # r
  <2>1. /\ Truthful(req[o], Body(o))
        /\ req[o].pc # "unborn" =>
              (Old \in index => req[o].at.owned) /\ store \subseteq req[o].at.agents
        /\ registered[Home(o)] = o => Entitled(req[o])
        /\ Entitled(req[o]) /\ ~Body(o).resume => o \in index
    BY DEF Truth, Backed, At
  <2>2. req'[o] = req[o] /\ (registered'[Home(o)] = o => registered[Home(o)] = o)
    BY <1>4
  <2> QED BY <1>2, <2>1, <2>2 DEF Fades
<1> QED BY <1>3, <1>4

(* What an answer says stays as it is while the request ends. *)
LEMMA FaithfulStays ==
    ASSUME NEW q, NEW b, Faithful(q, b), NEW n,
           n.at = q.at, n.results = q.results, n.runtime = q.runtime
    PROVE  Faithful(n, b)
BY DEF Faithful

(* A request that fails owes nothing. *)
LEMMA FailTruth ==
    ASSUME Inv, Truth, Fades, NEW r \in DOMAIN plan.body, req[r].pc \notin Late,
           NEW q, Shape(q), NEW outcome, outcome # "ok", NEW opened,
           (Old \in index => q.at.owned) /\ store \subseteq q.at.agents,
           Fail(r, q, opened, outcome)
    PROVE  Truth'
<1> DEFINE e == Ended(q, outcome)
           n == [e EXCEPT !.pc = IF opened = <<>> THEN "over" ELSE "closing"]
<1>1. r \in Request /\ registered[Home(r)] # r
  BY PlanDomain, Before, HomeConversation DEF Inv
<1>2. req' = [req EXCEPT ![r] = n] /\ registered' = registered
  BY DEF Fail
<1>3. Shape(e) /\ e.at = q.at /\ e.outcome = outcome
  BY EndedFields
<1> HIDE DEF e
<1>4. n.at = q.at /\ n.outcome = outcome /\ n.pc \in {"over", "closing"}
  BY <1>3 DEF Shape, Fields
<1> HIDE DEF n
<1>5. req'[r] = n /\ \A o \in DOMAIN plan.body \ {r} : req'[o] = req[o]
  BY <1>1, <1>2, PlanDomain DEF Inv, Typed, Sessions
<1>6. ~Entitled(n) /\ \A b : Truthful(n, b)
  BY <1>4 DEF Entitled, Truthful
<1> QED BY <1>1, <1>2, <1>4, <1>5, <1>6, StepTruth

(* A request that is registered tells the truth. *)
LEMMA RegisterTruth ==
    ASSUME Inv, Truth, Fades, NEW r \in DOMAIN plan.body, req[r].pc \notin Late,
           NEW q, Shape(q), q.outcome = "none", Faithful(q, Body(r)), NEW opened,
           (Old \in index => q.at.owned) /\ store \subseteq q.at.agents,
           ~Body(r).resume => r \in index',
           Register(r, q, opened)
    PROVE  Truth'
<1> DEFINE previous == registered[Home(r)]
           w == [q EXCEPT !.pc = "displacing", !.previous = previous]
           e == Ended(q, "ok")
<1>1. r \in Request /\ Home(r) \in Conversation
  BY PlanDomain, HomeConversation DEF Inv
<1>2. /\ registered' = [registered EXCEPT ![Home(r)] = r]
      /\ \E n \in {w, e} : req' = [req EXCEPT ![r] = n]
  BY DEF Register
<1>3. /\ w.at = q.at /\ w.results = q.results /\ w.runtime = q.runtime /\ w.pc = "displacing"
      /\ w.outcome = "none"
  <2> HIDE DEF previous
  <2> QED BY DEF Shape, Fields
<1>4. /\ e.at = q.at /\ e.results = q.results /\ e.runtime = q.runtime /\ e.pc = "over"
      /\ e.outcome = "ok"
  BY DEF Ended, Shape, Fields
<1> HIDE DEF w, e
<1>5. PICK n \in {w, e} : req' = [req EXCEPT ![r] = n]
  BY <1>2
<1>6. /\ n.at = q.at /\ n.results = q.results /\ n.runtime = q.runtime
      /\ n.pc \in {"displacing", "over"} /\ Entitled(n)
  BY <1>3, <1>4 DEF Entitled
<1>7. Faithful(n, Body(r))
  BY <1>6, FaithfulStays
<1>8. Truthful(n, Body(r))
  BY <1>6, <1>7 DEF Truthful
<1>9. req'[r] = n /\ \A o \in DOMAIN plan.body \ {r} : req'[o] = req[o]
  BY <1>1, <1>5, PlanDomain DEF Inv, Typed, Sessions
<1>10. \A o \in DOMAIN plan.body \ {r} : registered'[Home(o)] = o => registered[Home(o)] = o
  <2> SUFFICES ASSUME NEW o \in DOMAIN plan.body \ {r}, registered'[Home(o)] = o
               PROVE  registered[Home(o)] = o
    OBVIOUS
  <2>1. Home(o) \in Conversation /\ registered = [c \in Conversation |-> registered[c]]
    BY PlanDomain, HomeConversation DEF Inv, Typed, Sessions
  <2> QED BY <1>1, <1>2, <2>1
<1> QED BY <1>6, <1>8, <1>9, <1>10, StepTruth

(* The rest of a step. *)
LEMMA AdvanceTruth ==
    ASSUME Inv, Truth, UNCHANGED <<plan, index, store>>,
           NEW r \in DOMAIN plan.body, req[r].pc \notin Late,
           NEW q, Shape(q), q.pc # "unborn", ~Entitled(q), q.pc = "build" => q.outcome = "none",
           Truthful(q, Body(r)), NEW opened,
           (Old \in index => q.at.owned) /\ store \subseteq q.at.agents,
           Advance(r, q, opened)
    PROVE  Truth'
<1> DEFINE b == Body(r)
           connected == {k \in DOMAIN q.results : q.results[k].ok}
           servers == {q.results[k].server : k \in {j \in connected : q.results[j].for = "session"}}
           next(unwrapped) == [q EXCEPT !.runtime =
                                  Runtime(b.tools, Built(q, b), servers, b.refs, q.agents, unwrapped)]
           wait(unwrapped) == [next(unwrapped) EXCEPT !.pc = "indexing"]
<1>0. Fades
  BY DEF Fades
<1>1. r \in Request /\ registered[Home(r)] # r /\ Asked(b)
  BY PlanDomain, Before, HomeConversation, AskedBody DEF Inv
<1>2. \/ req' = [req EXCEPT ![r] = q] /\ UNCHANGED registered
      \/ Fail(r, q, opened, "failed")
      \/ \E unwrapped : q.pc = "build" /\ b.resume /\ Register(r, next(unwrapped), opened)
      \/ \E unwrapped : q.pc = "build" /\ UNCHANGED registered /\ req' = [req EXCEPT ![r] = wait(unwrapped)]
  BY DEF Advance
<1>3. ASSUME NEW unwrapped, q.pc = "build"
      PROVE  LET n == next(unwrapped)
             IN  Shape(n) /\ n.at = q.at /\ n.results = q.results /\ n.outcome = "none"
  BY <1>3 DEF Shape, Fields
<1>4. ASSUME NEW unwrapped, q.pc = "build" PROVE Faithful(next(unwrapped), b)
  BY <1>1, <1>4, BuiltTruth
<1> HIDE DEF next, b
<1>5. ASSUME NEW unwrapped, q.pc = "build"
      PROVE  LET n == next(unwrapped)
                 i == wait(unwrapped)
             IN  i.at = q.at /\ i.results = n.results /\ i.runtime = n.runtime /\ i.pc = "indexing"
                 /\ i.outcome = "none"
  BY <1>3, <1>5 DEF Shape, Fields
<1> HIDE DEF wait
<1>6. ASSUME NEW n, req' = [req EXCEPT ![r] = n]
      PROVE  req'[r] = n /\ \A o \in DOMAIN plan.body \ {r} : req'[o] = req[o]
  BY <1>1, <1>6, PlanDomain DEF Inv, Typed, Sessions
<1>7. CASE req' = [req EXCEPT ![r] = q] /\ UNCHANGED registered
  BY <1>0, <1>1, <1>6, <1>7, StepTruth
<1>8. CASE Fail(r, q, opened, "failed")
  BY <1>0, <1>8, FailTruth
<1>9. CASE \E unwrapped : q.pc = "build" /\ b.resume /\ Register(r, next(unwrapped), opened)
  <2>1. PICK unwrapped : q.pc = "build" /\ b.resume /\ Register(r, next(unwrapped), opened)
    BY <1>9
  <2> DEFINE n == next(unwrapped)
  <2>2. Shape(n) /\ n.at = q.at /\ n.outcome = "none" /\ Faithful(n, Body(r)) /\ Register(r, n, opened)
    BY <1>3, <1>4, <2>1 DEF b
  <2> HIDE DEF n
  <2> QED BY <1>0, <2>1, <2>2, RegisterTruth DEF b
<1>10. CASE \E unwrapped : q.pc = "build" /\ UNCHANGED registered /\ req' = [req EXCEPT ![r] = wait(unwrapped)]
  <2>1. PICK unwrapped : q.pc = "build" /\ UNCHANGED registered /\ req' = [req EXCEPT ![r] = wait(unwrapped)]
    BY <1>10
  <2> DEFINE i == wait(unwrapped)
  <2>2. Faithful(i, Body(r))
    BY <1>3, <1>4, <1>5, <2>1, FaithfulStays DEF b
  <2>3. i.at = q.at /\ i.pc = "indexing" /\ i.outcome = "none"
    BY <1>5, <2>1
  <2>4. req'[r] = i /\ \A o \in DOMAIN plan.body \ {r} : req'[o] = req[o]
    BY <1>6, <2>1
  <2> HIDE DEF i
  <2>5. Truthful(i, Body(r)) /\ ~Entitled(i)
    BY <2>2, <2>3 DEF Truthful, Entitled
  <2> QED BY <1>0, <1>1, <2>1, <2>3, <2>4, <2>5, StepTruth
<1> QED BY <1>2, <1>7, <1>8, <1>9, <1>10

(* A step to the next await of a request whose token was let in. *)
LEMMA ProceedsTruth ==
    ASSUME Inv, Truth, NEW r \in DOMAIN plan.body, req[r].pc \notin Late \cup {"unborn"},
           NEW q, Onward(req[r], q), Truthful(q, Body(r)), Moves(r, q)
    PROVE  Truth'
<1>1. /\ Advance(r, q, stack[r]) /\ UNCHANGED <<plan, index, store>>
  BY DEF Moves, others
<1>2. (Old \in index => req[r].at.owned) /\ store \subseteq req[r].at.agents
  BY DEF Truth, Backed, At
<1>3. /\ Shape(q) /\ q.pc # "unborn" /\ ~Entitled(q) /\ (q.pc = "build" => q.outcome = "none")
      /\ q.at = req[r].at
  BY DEF Onward, Entitled
<1> QED BY <1>1, <1>2, <1>3, AdvanceTruth

(* What the store answers for a reference is found for it. *)
LEMMA RefFound ==
    ASSUME Inv, Truth, NEW r \in DOMAIN plan.body, ReadRef(r)
    PROVE  LET q == req[r]
               b == Body(r)
           IN  /\ Readable(b)
               /\ Findings(b.refs, Append(q.agents, OwnDefinition(b.refs[Len(q.agents) + 1])), q.at.agents)
<1> DEFINE q == req[r]
           b == Body(r)
           ref == b.refs[Len(q.agents) + 1]
           agent == OwnDefinition(ref)
           next == Append(q.agents, agent)
<1>1. Readable(b) /\ Seen(q, b) /\ store \subseteq q.at.agents /\ store \subseteq DOMAIN Agents
  BY DEF ReadRef, At, Truth, Backed, Truthful, Inv, Typed, Stores
<1>2. PICK S : q.agents \in Seq(S)
  BY <1>1 DEF Seen, Findings, Sequence
<1>3. /\ Len(q.agents) < Len(b.refs) /\ ref.kind = "custom"
      /\ \A k \in 1 .. Len(q.agents) : Found(b.refs[k], q.agents[k], q.at.agents)
  BY <1>1 DEF Seen, Findings
<1>4. Found(ref, agent, q.at.agents)
  <2> HIDE DEF ref
  <2>1. \/ ref.supplied \notin {"none", ref.id}
        \/ ref.id \in store /\ agent = Agents[ref.id]
        \/ agent = NoAgent
    BY DEF OwnDefinition
  <2> HIDE DEF agent
  <2> QED BY <1>1, <1>3, <2>1 DEF Found
<1> HIDE DEF agent
<1>5. /\ next \in Seq(S \cup {agent}) /\ Len(next) = Len(q.agents) + 1 /\ Len(q.agents) \in Nat
      /\ next[Len(q.agents) + 1] = agent /\ \A k \in 1 .. Len(q.agents) : next[k] = q.agents[k]
  <2>1. q.agents \in Seq(S \cup {agent}) /\ agent \in S \cup {agent}
    BY <1>2
  <2> HIDE DEF q
  <2> QED BY <2>1
<1> HIDE DEF next
<1>6. \A k \in 1 .. Len(next) : Found(b.refs[k], next[k], q.at.agents)
  <2> SUFFICES ASSUME NEW k \in 1 .. Len(q.agents) + 1 PROVE Found(b.refs[k], next[k], q.at.agents)
    BY <1>5
  <2>1. CASE k \in 1 .. Len(q.agents)
    BY <1>3, <1>5, <2>1
  <2>2. CASE k = Len(q.agents) + 1
    BY <1>4, <1>5, <2>2
  <2> QED BY <1>5, <2>1, <2>2
<1>7. Len(next) <= Len(b.refs)
  <2>1. Len(b.refs) \in Nat
    BY AskedBody DEF Inv, Asked
  <2> QED BY <1>3, <1>5, <2>1
<1>8. Findings(b.refs, next, q.at.agents)
  BY <1>5, <1>6, <1>7 DEF Findings, Sequence
<1> QED BY <1>1, <1>8 DEF next, agent

(* The steps that wait for definitions, the index, grants and profiles. *)
LEMMA ReadsTruth ==
    ASSUME Inv, Truth, NEW r \in DOMAIN plan.body,
           ReadSkills(r) \/ ReadRef(r) \/ Resume(r) \/ GrantDatabase(r) \/ ReadProfile(r)
    PROVE  Truth'
<1> DEFINE q == req[r]
           b == Body(r)
<1>1. r \in Request /\ Held(q) /\ Asked(b) /\ Truthful(q, b)
  BY PlanDomain, AskedBody DEF Inv, Typed, Sessions, Truth, Backed
<1>2. \A f \in {"skills", "ref", "owned", "database", "profile"} :
        q.pc = f => /\ Shape(q) /\ q.outcome = "none" /\ q.results = <<>>
                    /\ q.pc \notin Late \cup {"unborn"}
  BY <1>1 DEF Held, Early, Late
<1>3. Old \in index => q.pc = "unborn" \/ q.at.owned
  BY DEF Truth, Backed, At
<1>4. CASE ReadSkills(r)
  <2> PICK known : /\ q.pc = "skills"
                   /\ \/ Moves(r, Ended(q, "invalid"))
                      \/ /\ \A i \in DOMAIN b.servers : Form[b.servers[i]] = "ok"
                         /\ Moves(r, Referring([q EXCEPT !.skills = known], b, <<>>))
    BY <1>4 DEF ReadSkills, At
  <2> DEFINE p == [q EXCEPT !.skills = known]
  <2>1. /\ Shape(p) /\ p.at = q.at /\ p.version = q.version
        /\ p.results = q.results /\ p.outcome = q.outcome
    BY <1>2 DEF Shape, Fields
  <2>2. \/ Moves(r, Ended(q, "invalid"))
        \/ /\ \A i \in DOMAIN b.servers : Form[b.servers[i]] = "ok"
           /\ Moves(r, Referring(p, b, <<>>))
    OBVIOUS
  <2> HIDE DEF p
  <2>3. CASE Moves(r, Ended(q, "invalid"))
    <3>1. Onward(q, Ended(q, "invalid")) /\ Truthful(Ended(q, "invalid"), b)
      BY <1>2, EndedOnward, EndedTruth
    <3> QED BY <1>2, <2>3, <3>1, ProceedsTruth
  <2>4. CASE /\ \A i \in DOMAIN b.servers : Form[b.servers[i]] = "ok"
             /\ Moves(r, Referring(p, b, <<>>))
    <3>1. Readable(b)
      BY <2>4 DEF Readable, Unreadable
    <3>2. Findings(b.refs, <<>>, p.at.agents)
      BY <1>1 DEF Findings, Sequence, Asked
    <3>3. Truthful(Referring(p, b, <<>>), b)
      BY <1>1, <1>2, <2>1, <3>1, <3>2, ReferringTruth
    <3>4. Onward(q, Referring(p, b, <<>>))
      BY <1>2, <2>1, ReferringOnward, OnwardFrom
    <3> QED BY <1>2, <2>4, <3>3, <3>4, ProceedsTruth
  <2> QED BY <2>2, <2>3, <2>4
<1>5. CASE ReadRef(r)
  <2> DEFINE agents == Append(q.agents, OwnDefinition(b.refs[Len(q.agents) + 1]))
  <2>1. q.pc = "ref" /\ Moves(r, Referring(q, b, agents))
    BY <1>5 DEF ReadRef, At
  <2>2. Readable(b) /\ Findings(b.refs, agents, q.at.agents)
    BY <1>5, RefFound
  <2> HIDE DEF agents
  <2>3. Truthful(Referring(q, b, agents), b)
    BY <1>1, <1>2, <2>1, <2>2, ReferringTruth
  <2>4. Onward(q, Referring(q, b, agents))
    BY <1>2, <2>1, ReferringOnward
  <2> QED BY <1>2, <2>1, <2>3, <2>4, ProceedsTruth
<1>6. CASE Resume(r)
  <2>1. /\ q.pc = "owned"
        /\ \/ Old \in index /\ Moves(r, Dependencies(q, b))
           \/ Moves(r, Ended(q, "not_found"))
    BY <1>6 DEF Resume, At
  <2>2. Readable(b) /\ Settled(q, b)
    BY <1>1, <2>1 DEF Truthful
  <2>3. Onward(q, Dependencies(q, b)) /\ Onward(q, Ended(q, "not_found"))
    BY <1>2, <2>1, StartOnward, EndedOnward
  <2>4. Truthful(Ended(q, "not_found"), b)
    BY <1>2, <2>1, EndedTruth
  <2>5. Old \in index => Truthful(Dependencies(q, b), b)
    BY <1>1, <1>2, <1>3, <2>1, <2>2, StartTruth
  <2> QED BY <1>2, <2>1, <2>3, <2>4, <2>5, ProceedsTruth
<1>7. CASE GrantDatabase(r)
  <2> PICK granted : q.pc = "database" /\ Moves(r, WithProfile([q EXCEPT !.database = granted], b))
    BY <1>7 DEF GrantDatabase, At
  <2> DEFINE p == [q EXCEPT !.database = granted]
  <2>1. /\ Shape(p) /\ p.at = q.at /\ p.version = q.version /\ p.agents = q.agents
        /\ p.results = q.results /\ p.outcome = q.outcome
    BY <1>2 DEF Shape, Fields
  <2>2. Moves(r, WithProfile(p, b))
    OBVIOUS
  <2> HIDE DEF p
  <2>3. Readable(b) /\ Settled(p, b) /\ (b.resume => p.at.owned)
    BY <1>1, <2>1 DEF Truthful, Settled
  <2>4. Truthful(WithProfile(p, b), b)
    BY <1>1, <1>2, <2>1, <2>3, StartTruth
  <2>5. Onward(q, WithProfile(p, b))
    BY <1>2, <2>1, StartOnward, OnwardFrom
  <2> QED BY <1>2, <2>2, <2>4, <2>5, ProceedsTruth
<1>8. CASE ReadProfile(r)
  <2>1. q.pc = "profile" /\ Moves(r, Connecting(q, b))
    BY <1>8 DEF ReadProfile, At
  <2>2. Readable(b) /\ Settled(q, b) /\ (b.resume => q.at.owned)
    BY <1>1, <2>1 DEF Truthful
  <2>3. Truthful(Connecting(q, b), b)
    BY <1>1, <1>2, <2>1, <2>2, ConnectingTruth
  <2>4. Onward(q, Connecting(q, b))
    BY <1>2, <2>1, ConnectingOnward
  <2> QED BY <1>2, <2>1, <2>3, <2>4, ProceedsTruth
<1> QED BY <1>4, <1>5, <1>6, <1>7, <1>8

(* A request arrives, and the keys judge it. *)
LEMMA ArriveTruth ==
    ASSUME Inv, Truth, NEW r \in DOMAIN plan.body, Arrive(r) \/ KeysRead(r) \/ KeysArrive(r)
    PROVE  Truth'
<1> DEFINE b == Body(r)
<1>0. Asked(b)
  BY AskedBody DEF Inv
<1> HIDE DEF b
<1>1. CASE Arrive(r)
  <2> DEFINE q == [Unborn EXCEPT !.at = [version |-> published, owned |-> Old \in index, agents |-> store]]
             f == [q EXCEPT !.pc = "fetching"]
  <2>1. /\ Shape(q) /\ q.at.agents = store /\ q.at.owned = (Old \in index) /\ q.results = <<>>
        /\ q.outcome = "none"
    BY DEF Unborn, Shape, Fields
  <2>2. PICK n : /\ Moves(r, n)
                 /\ \/ n = Admitted(q, b)
                    \/ n \in {Ended(q, "no_token"), Ended(q, "bad_token"), f}
                    \/ n = Checked(q, b, jwks)
    BY <1>1 DEF Arrive, b
  <2> HIDE DEF q
  <2>3. Shape(f) /\ f.at = q.at /\ f.outcome = "none" /\ f.pc = "fetching"
    BY <2>1 DEF Shape, Fields
  <2> HIDE DEF f
  <2>4. /\ Shape(n) /\ n.at = q.at /\ n.pc # "unborn" /\ ~Entitled(n)
        /\ (n.pc = "build" => n.outcome = "none") /\ Truthful(n, b)
    <3>1. CASE n = Admitted(q, b)
      <4>1. Onward(q, n) /\ Truthful(n, b)
        BY <1>0, <2>1, <3>1, AdmittedOnward, AdmittedTruth
      <4> QED BY <4>1 DEF Onward, Entitled
    <3>2. ASSUME NEW outcome \in {"no_token", "bad_token"}, n = Ended(q, outcome)
          PROVE  /\ Shape(n) /\ n.at = q.at /\ n.pc # "unborn" /\ ~Entitled(n)
                 /\ (n.pc = "build" => n.outcome = "none") /\ Truthful(n, b)
      BY <2>1, <3>2, EndedFields, EndedTruth DEF Entitled
    <3>3. CASE n = f
      BY <2>3, <3>3 DEF Entitled, Truthful
    <3>4. CASE n = Checked(q, b, jwks)
      <4>1. Truthful(n, b)
        BY <1>0, <2>1, <3>4, CheckedTruth
      <4>2. /\ Ready(n) /\ n.at = q.at
        BY <2>1, <3>4, CheckedReady
      <4>3. n.pc # "unborn"
        BY <4>2 DEF Ready, Early
      <4> QED BY <4>1, <4>2, <4>3 DEF Ready, Entitled, Refusals, Early
    <3> QED BY <2>2, <3>1, <3>2, <3>3, <3>4
  <2>5. Advance(r, n, stack[r]) /\ UNCHANGED <<plan, index, store>> /\ req[r].pc \notin Late
    BY <1>1, <2>2 DEF Arrive, At, Moves, others, Late
  <2>6. (Old \in index => n.at.owned) /\ store \subseteq n.at.agents
    BY <2>1, <2>4
  <2> QED BY <2>4, <2>5, <2>6, AdvanceTruth DEF b
<1>2. CASE KeysRead(r)
  <2> DEFINE n == [req[r] EXCEPT !.pc = "keys", !.version = published]
  <2>1. /\ req[r].pc = "fetching" /\ UNCHANGED <<plan, index, store, registered>>
        /\ r \in Request /\ Shape(req[r]) /\ req[r].outcome = "none"
        /\ (Old \in index => req[r].at.owned) /\ store \subseteq req[r].at.agents
        /\ registered[Home(r)] # r
    <3>1. /\ req[r].pc = "fetching" /\ UNCHANGED <<plan, index, store, registered>>
      BY <1>2 DEF KeysRead, At, others
    <3>2. r \in Request /\ Shape(req[r]) /\ req[r].outcome = "none"
      BY <3>1, Unopened DEF Unjudged
    <3> QED BY <3>1, <3>2 DEF Truth, Backed, At, Entitled
  <2>2. req' = [req EXCEPT ![r] = n]
    BY <1>2, <2>1 DEF KeysRead, Inv, Typed, Sessions
  <2>3. n.pc = "keys" /\ n.at = req[r].at /\ n.outcome = "none"
    BY <2>1 DEF Shape, Fields
  <2> HIDE DEF n
  <2>4. req'[r] = n /\ \A o \in DOMAIN plan.body \ {r} : req'[o] = req[o]
    BY <2>1, <2>2, PlanDomain DEF Inv, Typed, Sessions
  <2>5. Truthful(n, Body(r)) /\ ~Entitled(n) /\ Fades
    BY <2>1, <2>3 DEF Truthful, Entitled, Fades
  <2> QED BY <2>1, <2>3, <2>4, <2>5, StepTruth
<1>3. CASE KeysArrive(r)
  <2> DEFINE n == Checked(req[r], b, req[r].version)
  <2>1. /\ req[r].pc = "keys" /\ Advance(r, n, stack[r]) /\ UNCHANGED <<plan, index, store>>
    BY <1>3 DEF KeysArrive, At, others, b
  <2>2. Shape(req[r]) /\ req[r].results = <<>> /\ req[r].outcome = "none" /\ req[r].pc \notin Late
    BY <2>1, Unopened DEF Unjudged
  <2>3. Ready(n) /\ n.at = req[r].at
    BY <2>2, CheckedReady
  <2>4. Truthful(n, b)
    BY <1>0, <2>2, CheckedTruth
  <2> HIDE DEF n
  <2>5. Shape(n) /\ n.pc # "unborn" /\ ~Entitled(n) /\ (n.pc = "build" => n.outcome = "none")
    BY <2>3 DEF Ready, Entitled, Refusals, Early
  <2>6. (Old \in index => n.at.owned) /\ store \subseteq n.at.agents
    BY <2>1, <2>3 DEF Truth, Backed, At
  <2> QED BY <2>1, <2>2, <2>4, <2>5, <2>6, AdvanceTruth DEF b
<1> QED BY <1>1, <1>2, <1>3

(* A request fails or is cancelled at an await; its conversation may be stored all the same. *)
LEMMA StopsTruth ==
    ASSUME Inv, Truth, NEW r \in DOMAIN plan.body,
           KeysFail(r) \/ StoreFails(r) \/ IndexFails(r) \/ Cancel(r)
    PROVE  Truth'
<1>1. PICK outcome \in {"no_keys", "unavailable", "failed", "cancelled"} :
         Fail(r, req[r], stack[r], outcome)
  BY DEF KeysFail, StoreFails, IndexFails, Cancel, Stops
<1>2. /\ req[r].pc \notin Late \cup {"unborn"} /\ UNCHANGED <<plan, store>>
      /\ index' \in {index, index \cup {r}}
  BY DEF KeysFail, StoreFails, IndexFails, Cancel, Stops, others, At, Late
<1>3. r \in Request /\ Shape(req[r]) /\ r # Old
  BY PlanDomain, Apart DEF Inv, Typed, Sessions, Held
<1>4. Fades
  BY <1>2, <1>3 DEF Fades
<1>5. (Old \in index => req[r].at.owned) /\ store \subseteq req[r].at.agents
  BY <1>2 DEF Truth, Backed, At
<1> QED BY <1>1, <1>2, <1>3, <1>4, <1>5, FailTruth

(* A server connects or fails. *)
LEMMA ConnectsTruth ==
    ASSUME Inv, Truth, NEW r \in DOMAIN plan.body, Connects(r) \/ ConnectFails(r)
    PROVE  Truth'
<1>1. PICK ok, opened : Advance(r, Outcome(r, ok), opened)
  BY DEF Connects, ConnectFails
<1>2. /\ req[r].pc = "connecting" /\ Head(req[r].todo).server \in Server
      /\ UNCHANGED <<plan, index, store>>
  BY DEF Connects, ConnectFails, At, others
<1>3. Held(req[r]) /\ Truthful(req[r], Body(r))
  BY PlanDomain DEF Inv, Typed, Sessions, Truth, Backed
<1> DEFINE n == Outcome(r, ok)
<1>4. Truthful(n, Body(r))
  BY <1>2, <1>3, OutcomeTruth
<1>5. /\ Shape(n) /\ n.at = req[r].at /\ n.outcome = "none" /\ n.pc \in {"build", "connecting"}
  BY <1>2, <1>3 DEF Outcome, Held, Shape, Fields
<1> HIDE DEF n
<1>6. n.pc # "unborn" /\ ~Entitled(n) /\ req[r].pc \notin Late
  BY <1>2, <1>5 DEF Entitled, Late
<1>7. (Old \in index => n.at.owned) /\ store \subseteq n.at.agents
  BY <1>2, <1>5 DEF Truth, Backed, At
<1>8. Advance(r, n, opened)
  BY <1>1 DEF n
<1> QED BY <1>2, <1>4, <1>5, <1>6, <1>7, <1>8, AdvanceTruth

(* A new conversation is stored, and its session registered. *)
LEMMA IndexedTruth ==
    ASSUME Inv, Truth, NEW r \in DOMAIN plan.body, Indexed(r)
    PROVE  Truth'
<1>1. /\ req[r].pc = "indexing" /\ Register(r, req[r], stack[r])
      /\ index' = index \cup {r} /\ UNCHANGED <<plan, store>>
  BY DEF Indexed, At
<1>2. r \in Request /\ Held(req[r]) /\ r # Old
  BY PlanDomain, Apart DEF Inv, Typed, Sessions
<1>3. Shape(req[r]) /\ req[r].outcome = "none" /\ req[r].pc \notin Late
  BY <1>1, <1>2 DEF Held, Late
<1>4. Faithful(req[r], Body(r))
  BY <1>1 DEF Truth, Backed, Truthful
<1>5. (Old \in index => req[r].at.owned) /\ store \subseteq req[r].at.agents
  BY <1>1 DEF Truth, Backed, At
<1>6. Fades
  BY <1>1, <1>2 DEF Fades
<1> QED BY <1>1, <1>3, <1>4, <1>5, <1>6, RegisterTruth

(* What a request holds does not change, and no session is registered. *)
LEMMA IdleTruth ==
    ASSUME Inv, Truth, Fades, req' = req,
           \A c \in Conversation : registered'[c] \in {registered[c], NoOne}
    PROVE  Truth'
<1>1. \A o \in DOMAIN plan.body : o \in Request /\ Home(o) \in Conversation /\ o # NoOne
  BY PlanDomain, HomeConversation, Apart DEF Inv
<1>2. \A o \in DOMAIN plan.body : req'[o] = req[o] /\ (registered'[Home(o)] = o => registered[Home(o)] = o)
  BY <1>1
<1>3. NoOne \notin DOMAIN plan.body
  BY <1>1
<1> QED BY <1>2, <1>3, StepTruth

(* The stack of a request is closed; one that displaced another comes to its end. *)
LEMMA ClosesTruth ==
    ASSUME Inv, Truth, NEW r \in DOMAIN plan.body,
           CloseOne(r) \/ Displaced(r) \/ CancelDisplacing(r) \/ TakesOff(r)
    PROVE  Truth'
<1>1. /\ r \in Request /\ Shape(req[r]) /\ Home(r) \in Conversation
      /\ (req[r].pc \in {"over", "closing"} <=> req[r].outcome # "none")
      /\ req = [o \in Request |-> req[o]] /\ registered = [c \in Conversation |-> registered[c]]
  BY PlanDomain, HomeConversation DEF Inv, Typed, Sessions, Held
<1>2. UNCHANGED <<plan, index, store>>
  BY DEF CloseOne, Displaced, CancelDisplacing, TakesOff
<1>3. Fades
  BY <1>2 DEF Fades
<1>4. Backed(r)
  BY DEF Truth
<1> DEFINE b == Body(r)
           keeps(n) == /\ n.at = req[r].at /\ n.results = req[r].results /\ n.runtime = req[r].runtime
<1> HIDE DEF b
<1>5. ASSUME NEW n, req' = [req EXCEPT ![r] = n], keeps(n), req[r].pc # "unborn",
             n.pc \in {"displacing", "rollback", "closing", "over"},
             \A c \in Conversation : registered'[c] \in {registered[c], NoOne},
             Entitled(n) => Entitled(req[r]),
             registered'[Home(r)] = r => Entitled(n)
      PROVE  Truth'
  <2>1. req'[r] = n /\ \A o \in DOMAIN plan.body \ {r} : req'[o] = req[o]
    BY <1>1, <1>5, PlanDomain DEF Inv
  <2>2. \A o \in DOMAIN plan.body \ {r} : registered'[Home(o)] = o => registered[Home(o)] = o
    BY <1>5, PlanDomain, HomeConversation, Apart DEF Inv
  <2>3. Entitled(n) => Faithful(n, Body(r))
    BY <1>4, <1>5, FaithfulStays DEF Backed, Truthful
  <2>4. Truthful(n, Body(r))
    BY <1>5, <2>3 DEF Truthful
  <2>5. (Old \in index => n.at.owned) /\ store \subseteq n.at.agents
    BY <1>4, <1>5 DEF Backed, At
  <2>6. Entitled(n) /\ ~Body(r).resume => r \in index'
    BY <1>2, <1>4, <1>5 DEF Backed
  <2> QED BY <1>3, <1>5, <2>1, <2>2, <2>4, <2>5, <2>6, StepTruth
<1>6. CASE CloseOne(r)
  <2> DEFINE n == [req[r] EXCEPT !.pc = "over"]
  <2>1. registered' = registered
        /\ (req' = req \/ (req[r].pc = "closing" /\ req' = [req EXCEPT ![r].pc = "over"]))
    BY <1>6 DEF CloseOne, At
  <2>2. CASE req' = req
    BY <1>3, <2>1, <2>2, IdleTruth
  <2>3. CASE req[r].pc = "closing" /\ req' = [req EXCEPT ![r].pc = "over"]
    <3>1. req' = [req EXCEPT ![r] = n]
      BY <1>1, <2>3
    <3>2. keeps(n) /\ n.pc = "over" /\ n.outcome = req[r].outcome
      BY <1>1 DEF Shape, Fields
    <3> HIDE DEF n
    <3>3. Entitled(n) <=> Entitled(req[r])
      BY <2>3, <3>2 DEF Entitled
    <3> QED BY <1>4, <1>5, <2>1, <2>3, <3>1, <3>2, <3>3 DEF Backed
  <2> QED BY <2>1, <2>2, <2>3
<1>7. CASE Displaced(r)
  <2> DEFINE n == Ended(req[r], "ok")
  <2>1. registered' = registered /\ req[r].pc = "displacing" /\ req' = [req EXCEPT ![r] = n]
    BY <1>1, <1>7 DEF Displaced, At
  <2>2. keeps(n) /\ n.pc = "over" /\ n.outcome = "ok"
    BY <1>1 DEF Ended, Shape, Fields
  <2> HIDE DEF n
  <2>3. Entitled(n) /\ Entitled(req[r])
    BY <2>1, <2>2 DEF Entitled
  <2> QED BY <1>4, <1>5, <2>1, <2>2, <2>3 DEF Backed
<1>8. CASE CancelDisplacing(r)
  <2> DEFINE n == [req[r] EXCEPT !.pc = "rollback"]
  <2>1. registered' = registered /\ req[r].pc = "displacing" /\ req' = [req EXCEPT ![r] = n]
    BY <1>1, <1>8 DEF CancelDisplacing, At
  <2>2. keeps(n) /\ n.pc = "rollback"
    BY <1>1 DEF Shape, Fields
  <2> HIDE DEF n
  <2>3. Entitled(n) /\ Entitled(req[r])
    BY <2>1, <2>2 DEF Entitled
  <2> QED BY <1>4, <1>5, <2>1, <2>2, <2>3 DEF Backed
<1>9. CASE TakesOff(r)
  <2> DEFINE e == Ended(req[r], "cancelled")
             n(p) == [e EXCEPT !.pc = p]
  <2>1. /\ Shape(e) /\ e.at = req[r].at /\ e.results = req[r].results /\ e.runtime = req[r].runtime
        /\ e.pc = "over" /\ e.outcome = "cancelled"
    BY <1>1 DEF Ended, Shape, Fields
  <2>2. /\ req[r].pc = "rollback"
        /\ \/ /\ registered' = [registered EXCEPT ![Home(r)] = NoOne]
              /\ \E p \in {"over", "closing"} : req' = [req EXCEPT ![r] = n(p)]
           \/ /\ registered[Home(r)] # r /\ registered' = registered
              /\ req' = [req EXCEPT ![r] = e]
    <3>1. (IF stack[r] = <<>> THEN "over" ELSE "closing") \in {"over", "closing"}
      OBVIOUS
    <3>2. registered[Home(r)] = r =>
            req' = [req EXCEPT ![r] = n(IF stack[r] = <<>> THEN "over" ELSE "closing")]
      BY <1>9 DEF TakesOff
    <3> HIDE DEF n, e
    <3>3. /\ req[r].pc = "rollback"
          /\ registered[Home(r)] = r => registered' = [registered EXCEPT ![Home(r)] = NoOne]
          /\ registered[Home(r)] # r => registered' = registered /\ req' = [req EXCEPT ![r] = e]
      BY <1>9 DEF TakesOff, At, e
    <3> QED BY <3>1, <3>2, <3>3
  <2> HIDE DEF e
  <2>3. \A p \in {"over", "closing"} :
           keeps(n(p)) /\ n(p).pc = p /\ n(p).outcome = "cancelled"
    BY <2>1 DEF Shape, Fields
  <2> HIDE DEF n
  <2>4. PICK m : /\ req' = [req EXCEPT ![r] = m] /\ keeps(m) /\ m.pc \in {"over", "closing"}
                 /\ m.outcome = "cancelled"
    <3>1. keeps(e)
      BY <2>1
    <3> HIDE DEF keeps
    <3> QED BY <2>1, <2>2, <2>3, <3>1
  <2>5. ~Entitled(m)
    BY <2>4 DEF Entitled
  <2>6. registered'[Home(r)] # r /\ \A c \in Conversation : registered'[c] \in {registered[c], NoOne}
    BY <1>1, <2>2, Apart
  <2> QED BY <1>5, <2>2, <2>4, <2>5, <2>6
<1> QED BY <1>6, <1>7, <1>8, <1>9

(* Every step keeps what the answers of requests rest on. *)
LEMMA NextTruth == Inv /\ Truth /\ [Next]_vars => Truth'
<1> SUFFICES ASSUME Inv, Truth, [Next]_vars PROVE Truth'
  OBVIOUS
<1>1. ASSUME NEW r \in DOMAIN plan.body,
             \/ Arrive(r) \/ KeysRead(r) \/ KeysArrive(r) \/ KeysFail(r)
             \/ ReadSkills(r) \/ ReadRef(r) \/ Resume(r) \/ GrantDatabase(r) \/ ReadProfile(r)
             \/ StoreFails(r) \/ Connects(r) \/ ConnectFails(r) \/ Indexed(r) \/ IndexFails(r)
             \/ Cancel(r) \/ CloseOne(r) \/ Displaced(r) \/ CancelDisplacing(r) \/ TakesOff(r)
      PROVE  Truth'
  BY <1>1, ArriveTruth, ReadsTruth, StopsTruth, ConnectsTruth, IndexedTruth, ClosesTruth
<1>2. ASSUME NEW t \in DOMAIN plan.tokens,
             Send(t) \/ Says(t) \/ Calls(t) \/ Finishes(t) \/ Breaks(t) \/ GoesAway(t)
      PROVE  Truth'
  <2>1. UNCHANGED <<plan, index, store, req, registered>>
    BY <1>2 DEF Send, Says, Calls, Finishes, Breaks, GoesAway, Streams, system
  <2> QED BY <2>1, IdleTruth DEF Fades
<1>3. CASE RotateKeys \/ DeleteConversation \/ \E a \in DOMAIN Agents : DeleteAgent(a)
  <2>1. /\ UNCHANGED <<plan, req, registered>> /\ store' \subseteq store
        /\ index' \in {index, index \ {Old}}
    BY <1>3 DEF RotateKeys, DeleteConversation, DeleteAgent
  <2> QED BY <2>1, IdleTruth DEF Fades
<1>4. ASSUME NEW c \in Conversation, EndSession(c) PROVE Truth'
  <2>1. UNCHANGED <<plan, req, index, store>> /\ registered' = [registered EXCEPT ![c] = NoOne]
    BY <1>4 DEF EndSession
  <2>2. \A d \in Conversation : registered'[d] \in {registered[d], NoOne}
    BY <2>1 DEF Inv, Typed, Sessions
  <2> QED BY <2>1, <2>2, IdleTruth DEF Fades
<1>5. CASE UNCHANGED vars
  <2>1. UNCHANGED <<plan, index, store, req, registered>>
    BY <1>5 DEF vars
  <2> QED BY <2>1, IdleTruth DEF Fades
<1> QED BY <1>1, <1>2, <1>3, <1>4, <1>5 DEF Next

(* Whoever deletes agents and the conversation meanwhile, a session that was answered
   for belongs to a conversation of the owner, has only agents that were the owner's,
   and its answer names its servers and gives its tools names of their own. *)
THEOREM SessionTruthful == Spec => []SessionTruth
<1>1. Init => Truth
  <2> SUFFICES ASSUME Init, NEW r \in DOMAIN plan.body PROVE Backed(r)
    BY DEF Truth
  <2>1. Inv /\ r \in Request /\ Home(r) \in Conversation /\ r # NoOne
    <3>1. Inv
      BY InitInv
    <3> QED BY <3>1, PlanDomain, HomeConversation, Apart DEF Inv
  <2>2. req[r].pc = "unborn" /\ req[r].outcome = "none" /\ registered[Home(r)] = NoOne
    BY <2>1 DEF Init, Unborn
  <2> QED BY <2>1, <2>2 DEF Backed, At, Truthful, Entitled
<1>2. Inv /\ Truth => SessionTruth
  <2> SUFFICES ASSUME Inv, Truth, NEW r \in DOMAIN plan.body,
                      req[r].outcome = "ok" \/ registered[Home(r)] = r
               PROVE  /\ IF Body(r).resume THEN req[r].at.owned ELSE r \in index
                      /\ Faithful(req[r], Body(r))
    BY DEF SessionTruth, Faithful
  <2>1. Entitled(req[r])
    BY DEF Truth, Backed, Entitled
  <2>2. Faithful(req[r], Body(r))
    BY <2>1 DEF Truth, Backed, Truthful
  <2>3. IF Body(r).resume THEN req[r].at.owned ELSE r \in index
    BY <2>1, <2>2 DEF Truth, Backed, Faithful
  <2> QED BY <2>2, <2>3
<1> QED BY <1>1, <1>2, SpecInv, NextTruth, PTL DEF Spec

----------------------------------------------------------------------------
(* What is streamed *)

Results  == {"rendered", "plain"}
Calling  == {"call", "hosted_call"}
Contents == [type : Calling \cup Results \cup {"text", "approval"}, id : CallId \cup {"none"},
             name : ToolName \cup {"none"}, part : Nat]
Proper(x) ==
    /\ x \in Contents
    /\ x.id = "none" <=> x.type \in {"text", "approval"}
    /\ x.type \in Results => x.name = "none"

(* A call is the agent's or the host's; its fragments come before its result. *)
Spoken(said) ==
    /\ said \in Seq(Contents) /\ \A i \in DOMAIN said : Proper(said[i])
    /\ \A i, j \in DOMAIN said :
          said[i].type = "call" /\ said[j].type = "hosted_call" => said[i].id # said[j].id
    /\ \A i, j \in DOMAIN said :
          i < j /\ said[i].type \in Results /\ said[j].type = "call" => said[i].id # said[j].id
    /\ \A i \in DOMAIN said : said[i].type \in Results =>
          \E j \in 1..(i - 1) : said[j].id = said[i].id /\ said[j].type \in Calling

(* A content that may come next. *)
MayFollow(said, x) ==
    /\ Proper(x)
    /\ x.type = "call" => ~Answered(said, x.id) /\ ~Hosted(said, x.id)
    /\ x.type = "hosted_call" =>
          \A i \in DOMAIN said : said[i].type = "call" => said[i].id # x.id
    /\ x.type \in Results =>
          \E i \in DOMAIN said : said[i].id = x.id /\ said[i].type \in Calling

Args(parts) == [i \in DOMAIN parts |-> parts[i].part]

(* The arguments of fragments are numbers, one for each of them. *)
LEMMA ArgsType ==
    ASSUME NEW p \in Seq(Contents)
    PROVE  /\ Args(p) \in Seq(Nat) /\ Args(<<>>) = <<>>
           /\ \A x \in Contents : Args(Append(p, x)) = Append(Args(p), x.part)
<1>0. Len(p) \in Nat /\ DOMAIN p = 1 .. Len(p) /\ \A i \in 1 .. Len(p) : p[i] \in Contents
  OBVIOUS
<1>1. Args(p) \in Seq(Nat) /\ Len(Args(p)) = Len(p)
  <2>1. Args(p) = [i \in 1 .. Len(p) |-> p[i].part]
    BY <1>0 DEF Args
  <2>2. \A i \in 1 .. Len(p) : p[i].part \in Nat
    BY <1>0 DEF Contents
  <2> QED BY <1>0, <2>1, <2>2
<1>2. Args(<<>>) = <<>>
  BY DEF Args
<1>3. ASSUME NEW x \in Contents PROVE Args(Append(p, x)) = Append(Args(p), x.part)
  <2> DEFINE q == Append(p, x)
             a == Args(q)
             b == Append(Args(p), x.part)
  <2>1. q \in Seq(Contents) /\ Len(q) = Len(p) + 1
        /\ \A i \in 1 .. Len(p) + 1 : q[i] = IF i = Len(p) + 1 THEN x ELSE p[i]
    OBVIOUS
  <2>2. x.part \in Nat
    BY DEF Contents
  <2>3. a \in Seq(Nat) /\ Len(a) = Len(p) + 1
        /\ \A i \in 1 .. Len(p) + 1 : a[i] = q[i].part
    <3> HIDE DEF q
    <3>1. Len(q) \in Nat /\ DOMAIN q = 1 .. Len(q) /\ \A i \in 1 .. Len(q) : q[i] \in Contents
      BY <2>1
    <3>2. Args(q) = [i \in 1 .. Len(q) |-> q[i].part]
      BY <3>1 DEF Args
    <3>3. \A i \in 1 .. Len(q) : q[i].part \in Nat
      BY <3>1 DEF Contents
    <3> QED BY <2>1, <3>1, <3>2, <3>3
  <2>4. b \in Seq(Nat) /\ Len(b) = Len(p) + 1
        /\ \A i \in 1 .. Len(p) + 1 : b[i] = IF i = Len(p) + 1 THEN x.part ELSE Args(p)[i]
    BY <1>1, <2>2
  <2>5. \A i \in 1 .. Len(p) : Args(p)[i] = p[i].part
    BY DEF Args
  <2> HIDE DEF q, a, b
  <2>6. \A i \in 1 .. Len(a) : a[i] = b[i]
    BY <1>0, <2>1, <2>3, <2>4, <2>5
  <2>7. a = b
    BY <2>3, <2>4, <2>6, SameSequence
  <2> QED BY <2>7 DEF a, b, q
<1> QED BY <1>1, <1>2, <1>3

(* The fragments of a call are contents that belong to it. *)
LEMMA PartsType ==
    ASSUME NEW said \in Seq(Contents), NEW c
    PROVE  /\ Parts(said, c) \in Seq(Contents)
           /\ ArgsOf(said, c) = Args(Parts(said, c)) /\ ArgsOf(said, c) \in Seq(Nat)
           /\ Parts(said, c) # <<>> <=>
                 \E i \in DOMAIN said : said[i].id = c /\ said[i].type \in Calling
<1> DEFINE S == {x \in Range(said) : x.id = c /\ x.type \in Calling}
<1>1. Parts(said, c) = Chosen(said, S)
  BY DEF Parts, Calling
<1>2. \A i \in 1 .. Len(said) : said[i] \in S <=> said[i].id = c /\ said[i].type \in Calling
  BY DEF Range
<1>3. \A x \in S : \E i \in DOMAIN said : said[i] = x /\ x.id = c /\ x.type \in Calling
  BY DEF Range
<1> HIDE DEF S
<1>4. Parts(said, c) \in Seq(Contents \cap S)
  BY <1>1, ChosenType
<1>5. Parts(said, c) \in Seq(Contents)
  BY <1>4
<1>6. ASSUME Parts(said, c) # <<>>
      PROVE  \E i \in DOMAIN said : said[i].id = c /\ said[i].type \in Calling
  <2> DEFINE p == Parts(said, c)
  <2>1. p \in Seq(S) /\ p # <<>>
    BY <1>4, <1>6
  <2> HIDE DEF p
  <2>2. p[1] \in S
    BY <2>1
  <2> QED BY <1>3, <2>2
<1>7. ASSUME NEW i \in DOMAIN said, said[i].id = c /\ said[i].type \in Calling
      PROVE  Parts(said, c) # <<>>
  <2>1. i \in 1 .. Len(said) /\ said[i] \in S
    BY <1>2, <1>7
  <2> QED BY <1>1, <2>1, ChosenSome
<1>8. ArgsOf(said, c) = Args(Parts(said, c)) /\ ArgsOf(said, c) \in Seq(Nat)
  BY <1>5, ArgsType DEF ArgsOf, Args
<1> QED BY <1>5, <1>6, <1>7, <1>8

(* What one content more makes of what was said. *)
LEMMA SaidMore ==
    ASSUME NEW said \in Seq(Contents), NEW x \in Contents, NEW c
    PROVE  LET n == Append(said, x) IN
           /\ n \in Seq(Contents) /\ Len(n) = Len(said) + 1 /\ DOMAIN said = 1 .. Len(said)
           /\ DOMAIN n = 1 .. Len(said) + 1 /\ Len(said) \in Nat
           /\ n[Len(said) + 1] = x /\ \A i \in DOMAIN said : n[i] = said[i]
           /\ Hosted(n, c)   <=> Hosted(said, c) \/ (x.id = c /\ x.type = "hosted_call")
           /\ Named(n, c)    <=> Named(said, c) \/ (x.id = c /\ x.name # "none")
           /\ Answered(n, c) <=> Answered(said, c) \/ (x.id = c /\ x.type \in Results)
           /\ ArgsOf(n, c) = IF x.id = c /\ x.type \in Calling THEN Append(ArgsOf(said, c), x.part)
                             ELSE ArgsOf(said, c)
<1> DEFINE n == Append(said, x)
           l == Len(said)
<1>1. /\ n \in Seq(Contents) /\ Len(n) = l + 1 /\ DOMAIN said = 1 .. l
      /\ DOMAIN n = 1 .. l + 1 /\ l \in Nat
      /\ n[l + 1] = x /\ \A i \in DOMAIN said : n[i] = said[i]
  OBVIOUS
<1>2. \A i \in DOMAIN n : i = l + 1 \/ i \in DOMAIN said
  BY <1>1
<1>3. l + 1 \in DOMAIN n /\ DOMAIN said \subseteq DOMAIN n
  BY <1>1
<1> HIDE DEF n, l
<1>4. Hosted(n, c) <=> Hosted(said, c) \/ (x.id = c /\ x.type = "hosted_call")
  BY <1>1, <1>2, <1>3 DEF Hosted
<1>5. Named(n, c) <=> Named(said, c) \/ (x.id = c /\ x.name # "none")
  BY <1>1, <1>2, <1>3 DEF Named
<1>6. Answered(n, c) <=> Answered(said, c) \/ (x.id = c /\ x.type \in Results)
  BY <1>1, <1>2, <1>3 DEF Answered, Results
<1>7. Parts(n, c) = IF x.id = c /\ x.type \in Calling THEN Append(Parts(said, c), x)
                    ELSE Parts(said, c)
  <2> DEFINE S == {y \in Range(said) : y.id = c /\ y.type \in Calling}
             Z == {y \in Range(n) : y.id = c /\ y.type \in Calling}
  <2>1. Parts(said, c) = Chosen(said, S) /\ Parts(n, c) = Chosen(n, Z)
    BY DEF Parts, Calling
  <2>2. \A i \in 1 .. Len(said) : said[i] \in S <=> said[i] \in Z
    BY <1>1, <1>3 DEF Range, l
  <2>3. x \in Z <=> x.id = c /\ x.type \in Calling
    BY <1>1, <1>3 DEF Range
  <2> HIDE DEF S, Z
  <2>4. Chosen(Append(said, x), Z) = IF x \in Z THEN Append(Chosen(said, S), x) ELSE Chosen(said, S)
    BY <2>2, ChosenAppend
  <2> QED BY <2>1, <2>3, <2>4 DEF n
<1>8. ArgsOf(n, c) = IF x.id = c /\ x.type \in Calling THEN Append(ArgsOf(said, c), x.part)
                     ELSE ArgsOf(said, c)
  <2>1. /\ Parts(said, c) \in Seq(Contents) /\ ArgsOf(said, c) = Args(Parts(said, c))
        /\ ArgsOf(n, c) = Args(Parts(n, c))
    BY <1>1, PartsType
  <2> QED BY <1>7, <2>1, ArgsType
<1> QED BY <1>1, <1>4, <1>5, <1>6, <1>8 DEF n, l

(* What the agent says next may follow what it has said. *)
LEMMA SayingFollows ==
    ASSUME NEW said, Spoken(said), NEW x \in Saying(said)
    PROVE  MayFollow(said, x)
<1> DEFINE begun(c) == Parts(said, c) # <<>>
           Content(type, c, name) == [type |-> type, id |-> c, name |-> name,
                                      part |-> Len(Parts(said, c)) + 1]
<1>1. \A c : /\ Len(Parts(said, c)) \in Nat
             /\ begun(c) <=> \E i \in DOMAIN said : said[i].id = c /\ said[i].type \in Calling
  BY PartsType DEF Spoken
<1>2. "none" \notin CallId
  BY SessionAssumption
<1>3. ASSUME NEW c \in CallId, ~Answered(said, c), ~Hosted(said, c), NEW m \in ToolName \cup {"none"},
             x = Content("call", c, m)
      PROVE  MayFollow(said, x)
  BY <1>1, <1>2, <1>3 DEF MayFollow, Proper, Contents, Calling, Results
<1>4. ASSUME NEW c \in CallId, begun(c) => Hosted(said, c), NEW m \in ToolName,
             x = [Content("hosted_call", c, m) EXCEPT !.part = 1]
      PROVE  MayFollow(said, x)
  <2>1. x = [type |-> "hosted_call", id |-> c, name |-> m, part |-> 1]
    BY <1>4
  <2>2. \A i \in DOMAIN said : said[i].type = "call" => said[i].id # c
    BY <1>1, <1>4 DEF Spoken, Hosted, Calling
  <2> QED BY <1>2, <2>1, <2>2 DEF MayFollow, Proper, Contents, Calling, Results
<1>5. ASSUME NEW c \in CallId, begun(c), NEW type \in {"rendered", "plain"},
             x = Content(type, c, "none")
      PROVE  MayFollow(said, x)
  BY <1>1, <1>2, <1>5 DEF MayFollow, Proper, Contents, Calling, Results
<1>6. ASSUME NEW type \in {"text", "approval"},
             x = [Content(type, "none", "none") EXCEPT !.part = 0]
      PROVE  MayFollow(said, x)
  <2>1. x = [type |-> type, id |-> "none", name |-> "none", part |-> 0]
    BY <1>6
  <2> QED BY <1>2, <2>1 DEF MayFollow, Proper, Contents, Calling, Results
<1> DEFINE First == {Content("call", c, m) :
                         c \in {d \in CallId : ~Answered(said, d) /\ ~Hosted(said, d) /\ ~Named(said, d)},
                         m \in ToolName \cup {"none"}}
           Further == {Content("call", c, "none") :
                         c \in {d \in CallId : ~Answered(said, d) /\ ~Hosted(said, d) /\ Named(said, d)}}
           Host == {[Content("hosted_call", c, m) EXCEPT !.part = 1] :
                      c \in {d \in CallId : begun(d) => Hosted(said, d)}, m \in ToolName}
           Answer == {Content(type, c, "none") : type \in {"rendered", "plain"},
                        c \in {d \in CallId : begun(d) /\ ~Answered(said, d)}}
           Other == {[Content(type, "none", "none") EXCEPT !.part = 0] : type \in {"text", "approval"}}
<1>7. Saying(said) = First \cup Further \cup Host \cup Answer \cup Other
  BY DEF Saying
<1> HIDE DEF Content, begun
<1>8. CASE x \in First \cup Further
  <2>1. \E c \in CallId, m \in ToolName \cup {"none"} :
           ~Answered(said, c) /\ ~Hosted(said, c) /\ x = Content("call", c, m)
    BY <1>8
  <2> QED BY <1>3, <2>1
<1>9. CASE x \in Host
  <2>1. \E c \in CallId, m \in ToolName :
           (begun(c) => Hosted(said, c)) /\ x = [Content("hosted_call", c, m) EXCEPT !.part = 1]
    BY <1>9
  <2> QED BY <1>4, <2>1
<1>10. CASE x \in Answer
  <2>1. \E c \in CallId, type \in {"rendered", "plain"} : begun(c) /\ x = Content(type, c, "none")
    BY <1>10
  <2> QED BY <1>5, <2>1
<1>11. CASE x \in Other
  <2>1. \E type \in {"text", "approval"} : x = [Content(type, "none", "none") EXCEPT !.part = 0]
    BY <1>11
  <2> QED BY <1>6, <2>1
<1> HIDE DEF First, Further, Host, Answer, Other
<1> QED BY <1>7, <1>8, <1>9, <1>10, <1>11

(* So what it has said goes on as it should. *)
LEMMA SpokenMore ==
    ASSUME NEW said, Spoken(said), NEW x, MayFollow(said, x)
    PROVE  Spoken(Append(said, x))
<1> DEFINE n == Append(said, x)
           l == Len(said)
<1>1. /\ n \in Seq(Contents) /\ DOMAIN said = 1 .. l /\ DOMAIN n = 1 .. l + 1 /\ l \in Nat
      /\ n[l + 1] = x /\ \A i \in DOMAIN said : n[i] = said[i]
  BY SaidMore DEF Spoken, MayFollow, Proper
<1>2. \A i \in DOMAIN n : i = l + 1 \/ i \in DOMAIN said
  BY <1>1
<1> HIDE DEF n, l
<1>3. \A i \in DOMAIN n : Proper(n[i])
  BY <1>1, <1>2 DEF Spoken, MayFollow
<1>4. ASSUME NEW i \in DOMAIN n, NEW j \in DOMAIN n, n[i].type = "call", n[j].type = "hosted_call"
      PROVE  n[i].id # n[j].id
  <2>1. CASE i = l + 1 /\ j = l + 1
    BY <1>4, <2>1
  <2>2. CASE i = l + 1 /\ j \in DOMAIN said
    BY <1>1, <1>4, <2>2 DEF MayFollow, Hosted
  <2>3. CASE i \in DOMAIN said /\ j = l + 1
    BY <1>1, <1>4, <2>3 DEF MayFollow
  <2>4. CASE i \in DOMAIN said /\ j \in DOMAIN said
    BY <1>1, <1>4, <2>4 DEF Spoken
  <2> QED BY <1>2, <2>1, <2>2, <2>3, <2>4
<1>5. ASSUME NEW i \in DOMAIN n, NEW j \in DOMAIN n, i < j, n[i].type \in Results, n[j].type = "call"
      PROVE  n[i].id # n[j].id
  <2>1. CASE j \in DOMAIN said
    <3>1. i \in DOMAIN said
      BY <1>1, <1>5, <2>1
    <3> QED BY <1>1, <1>5, <2>1, <3>1 DEF Spoken
  <2>2. CASE j = l + 1
    <3>1. i \in DOMAIN said
      BY <1>1, <1>5, <2>2
    <3> QED BY <1>1, <1>5, <2>2, <3>1 DEF MayFollow, Answered, Results
  <2> QED BY <1>2, <2>1, <2>2
<1>6. ASSUME NEW i \in DOMAIN n, n[i].type \in Results
      PROVE  \E j \in 1..(i - 1) : n[j].id = n[i].id /\ n[j].type \in Calling
  <2>1. CASE i \in DOMAIN said
    <3>1. PICK j \in 1..(i - 1) : said[j].id = said[i].id /\ said[j].type \in Calling
      BY <1>1, <1>6, <2>1 DEF Spoken
    <3>2. j \in DOMAIN said
      BY <1>1, <2>1
    <3> QED BY <1>1, <2>1, <3>1, <3>2
  <2>2. CASE i = l + 1
    <3>1. PICK j \in DOMAIN said : said[j].id = x.id /\ said[j].type \in Calling
      BY <1>1, <1>6, <2>2 DEF MayFollow
    <3>2. j \in 1..(i - 1)
      BY <1>1, <2>2
    <3> QED BY <1>1, <2>2, <3>1, <3>2
  <2> QED BY <1>2, <2>1, <2>2
<1>7. Spoken(n)
  BY <1>1, <1>3, <1>4, <1>5, <1>6 DEF Spoken
<1> QED BY <1>7 DEF n

----------------------------------------------------------------------------
(* The trace *)

Records(f, said, n) ==
    f = [i \in 0 .. n |-> IF i = 0 THEN NoCalls ELSE WithContent(f[i - 1], said[i])]

(* The trace takes up one content after the other. *)
LEMMA RecordedGrows ==
    ASSUME NEW said \in Seq(Contents)
    PROVE  /\ RecordedUpTo(said)[0] = NoCalls
           /\ \A i \in 1 .. Len(said) :
                 RecordedUpTo(said)[i] = WithContent(RecordedUpTo(said)[i - 1], said[i])
<1> DEFINE Traced(n) == n <= Len(said) => \E f : Records(f, said, n)
           T == {n \in Nat : Traced(n)}
<1>0. Len(said) \in Nat
  OBVIOUS
<1>1. Traced(0)
  <2> DEFINE f == [i \in 0 .. 0 |-> NoCalls]
  <2>1. \A i \in 0 .. 0 : i = 0
    OBVIOUS
  <2>2. Records(f, said, 0)
    BY <2>1 DEF Records
  <2> HIDE DEF f
  <2> QED BY <2>2
<1>2. ASSUME NEW n \in Nat, Traced(n) PROVE Traced(n + 1)
  <2> SUFFICES ASSUME n + 1 <= Len(said) PROVE \E f : Records(f, said, n + 1)
    OBVIOUS
  <2>0. n \in Nat /\ n <= Len(said)
    BY <1>0
  <2>1. PICK f : Records(f, said, n)
    BY <1>2, <2>0
  <2> DEFINE last == WithContent(f[n], said[n + 1])
             g == [i \in 0 .. n + 1 |-> IF i = n + 1 THEN last ELSE f[i]]
  <2>3. ASSUME NEW i \in 0 .. n + 1
        PROVE  g[i] = IF i = 0 THEN NoCalls ELSE WithContent(g[i - 1], said[i])
    <3>1. CASE i = n + 1
      <4>1. i # 0 /\ i - 1 = n /\ g[i] = last /\ g[i - 1] = f[n]
        <5> HIDE DEF last
        <5> QED BY <2>0, <3>1
      <4> QED BY <3>1, <4>1
    <3>2. CASE i \in 0 .. n
      <4>1. f[i] = IF i = 0 THEN NoCalls ELSE WithContent(f[i - 1], said[i])
        BY <2>1, <3>2 DEF Records
      <4>2. g[i] = f[i] /\ (i # 0 => g[i - 1] = f[i - 1])
        <5> HIDE DEF last
        <5> QED BY <2>0, <3>2
      <4> HIDE DEF g
      <4> QED BY <4>1, <4>2
    <3> QED BY <2>0, <3>1, <3>2
  <2>4. Records(g, said, n + 1)
    BY <2>3 DEF Records
  <2> HIDE DEF g
  <2> QED BY <2>4
<1>3. \A n \in Nat : Traced(n)
  <2> HIDE DEF Traced
  <2>1. 0 \in T /\ \A n \in T : n + 1 \in T
    BY <1>1, <1>2
  <2>2. T \subseteq Nat
    OBVIOUS
  <2>3. T = Nat
    <3> HIDE DEF T
    <3> QED BY <2>1, <2>2, NumbersByOne
  <2> QED BY <2>3
<1>4. \E f : Records(f, said, Len(said))
  BY <1>0, <1>3
<1> DEFINE t == CHOOSE g : Records(g, said, Len(said))
<1>5. RecordedUpTo(said) = t
  BY DEF RecordedUpTo, Records
<1>6. Records(t, said, Len(said))
  BY <1>4
<1> HIDE DEF t
<1>7. /\ t[0] = NoCalls
      /\ \A i \in 1 .. Len(said) : t[i] = WithContent(t[i - 1], said[i])
  <2> DEFINE next(i) == IF i = 0 THEN NoCalls ELSE WithContent(t[i - 1], said[i])
  <2>1. t = [i \in 0 .. Len(said) |-> next(i)]
    BY <1>6 DEF Records
  <2>2. \A i \in 0 .. Len(said) : t[i] = next(i)
    <3> HIDE DEF next
    <3> QED BY <2>1
  <2>3. 0 \in 0 .. Len(said) /\ \A i \in 1 .. Len(said) : i \in 0 .. Len(said) /\ i # 0
    BY <1>0
  <2> QED BY <2>2, <2>3
<1> QED BY <1>5, <1>7

(* A content leaves the record of every other call as it is. *)
LEMMA OtherContent ==
    ASSUME NEW calls, NEW x, NEW c, x.id # c
    PROVE  /\ c \in DOMAIN WithContent(calls, x) <=> c \in DOMAIN calls
           /\ c \in DOMAIN calls => WithContent(calls, x)[c] = calls[c]
<1>1. CASE x.type \in {"call", "hosted_call"}
  <2> DEFINE e == [args |-> ArgumentsOf(calls, x), done |-> FALSE]
  <2>1. WithContent(calls, x) = [d \in DOMAIN calls \cup {x.id} |-> IF d = x.id THEN e ELSE calls[d]]
    BY <1>1 DEF WithContent
  <2> HIDE DEF e
  <2> QED BY <2>1
<1>2. CASE x.type \notin {"call", "hosted_call"} /\ x.id \in DOMAIN calls
  <2>1. WithContent(calls, x) = [calls EXCEPT ![x.id].done = TRUE]
    BY <1>2 DEF WithContent
  <2> QED BY <2>1
<1>3. CASE x.type \notin {"call", "hosted_call"} /\ x.id \notin DOMAIN calls
  BY <1>3 DEF WithContent
<1> QED BY <1>1, <1>2, <1>3

(* The trace of a call of the agent has all its fragments, and its result. *)
LEMMA RecordedRight ==
    ASSUME NEW said, Spoken(said), NEW c \in CallId, ~Hosted(said, c), Answered(said, c)
    PROVE  Recorded(said)[c] = [args |-> ArgsOf(said, c), done |-> TRUE]
<1> DEFINE S == {x \in Range(said) : x.id = c /\ x.type \in Calling}
           u == RecordedUpTo(said)
           p(k) == ChosenUpTo(said, S)[k]
           begun(k) == \E j \in 1 .. k : said[j].id = c /\ said[j].type = "call"
           done(k)  == \E j \in 1 .. k : said[j].id = c /\ said[j].type \in Results
           Right(k) ==
              IF begun(k) THEN c \in DOMAIN u[k] /\ u[k][c] = [args |-> Args(p(k)), done |-> done(k)]
              ELSE c \notin DOMAIN u[k] /\ p(k) = <<>>
           T == {k \in Nat : k <= Len(said) => Right(k)}
<1>0. said \in Seq(Contents) /\ Len(said) \in Nat /\ DOMAIN said = 1 .. Len(said)
      /\ c # "none" /\ \A i \in DOMAIN said : Proper(said[i])
  BY SessionAssumption DEF Spoken
<1>1. \A i \in 1 .. Len(said) : said[i] \in S <=> said[i].id = c /\ said[i].type = "call"
  BY <1>0 DEF Range, Hosted, Calling
<1>2. Parts(said, c) = p(Len(said))
  BY DEF Parts, Chosen, Calling
<1>3. /\ u[0] = NoCalls /\ \A i \in 1 .. Len(said) : u[i] = WithContent(u[i - 1], said[i])
      /\ p(0) = <<>>
      /\ \A i \in 1 .. Len(said) : p(i) = IF said[i] \in S THEN Append(p(i - 1), said[i]) ELSE p(i - 1)
  BY <1>0, RecordedGrows, ChosenGrows
<1>4. \A i \in 0 .. Len(said) : p(i) \in Seq(Contents)
  <2>1. \A i \in 0 .. Len(said) : p(i) \in Seq(Contents \cap S)
    <3>1. said \in Seq(Contents)
      BY <1>0
    <3> HIDE DEF S
    <3> QED BY <3>1, ChosenType, Zenon
  <2>2. \A z \in Seq(Contents \cap S) : z \in Seq(Contents)
    <3> HIDE DEF S
    <3> QED OBVIOUS
  <2> QED BY <2>1, <2>2, Zenon
<1> HIDE DEF S, u, p
<1>5. Right(0)
  BY <1>3 DEF NoCalls
<1>6. ASSUME NEW k \in Nat, k + 1 <= Len(said), Right(k) PROVE Right(k + 1)
  <2> DEFINE x == said[k + 1]
             last == u[k]
             next == u[k + 1]
             q == p(k)
             r == p(k + 1)
  <2>1. /\ k + 1 \in 1 .. Len(said) /\ (k + 1) - 1 = k /\ k \in 0 .. Len(said)
        /\ k + 1 \in DOMAIN said /\ \A j \in 1 .. k + 1 : j = k + 1 \/ j \in 1 .. k
        /\ \A j \in 1 .. k : j < k + 1 /\ j \in DOMAIN said /\ j \in 1 .. k + 1
    BY <1>0, <1>6
  <2>2. next = WithContent(last, x) /\ Proper(x) /\ q \in Seq(Contents) /\ x \in Contents
    BY <1>0, <1>3, <1>4, <2>1 DEF Proper
  <2>3. r = IF x.id = c /\ x.type = "call" THEN Append(q, x) ELSE q
    BY <1>1, <1>3, <2>1
  <2>4. begun(k + 1) <=> begun(k) \/ (x.id = c /\ x.type = "call")
    BY <2>1
  <2>5. done(k + 1) <=> done(k) \/ (x.id = c /\ x.type \in Results)
    BY <2>1
  <2>6. done(k) \in BOOLEAN /\ done(k + 1) \in BOOLEAN
    OBVIOUS
  <2>7. x.id = c /\ x.type = "call" => ~done(k)
    BY <2>1 DEF Spoken
  <2>8. x.id = c /\ x.type \in Results => begun(k)
    <3> SUFFICES ASSUME x.id = c, x.type \in Results PROVE begun(k)
      OBVIOUS
    <3>1. PICK j \in 1 .. (k + 1) - 1 : said[j].id = c /\ said[j].type \in Calling
      BY <2>1 DEF Spoken
    <3>2. j \in 1 .. k
      BY <2>1, <3>1
    <3> QED BY <2>1, <3>1, <3>2 DEF Hosted, Calling
  <2>9. x.id = c => x.type \in {"call"} \cup Results
    BY <1>0, <2>1, <2>2 DEF Proper, Contents, Calling, Hosted
  <2>10. Right(k)
    BY <1>6
  <2> DEFINE d == done(k)
             e == done(k + 1)
             b == begun(k)
             f == begun(k + 1)
  <2>11. IF b THEN c \in DOMAIN last /\ last[c] = [args |-> Args(q), done |-> d]
         ELSE c \notin DOMAIN last /\ q = <<>>
    BY <2>10
  <2> SUFFICES IF f THEN c \in DOMAIN next /\ next[c] = [args |-> Args(r), done |-> e]
               ELSE c \notin DOMAIN next /\ r = <<>>
    OBVIOUS
  <2>12. /\ f <=> b \/ (x.id = c /\ x.type = "call")
         /\ e <=> d \/ (x.id = c /\ x.type \in Results)
         /\ x.id = c /\ x.type = "call" => ~d
         /\ x.id = c /\ x.type \in Results => b
         /\ d \in BOOLEAN /\ e \in BOOLEAN
    BY <2>4, <2>5, <2>6, <2>7, <2>8
  <2> HIDE DEF x, last, next, q, r, d, e, b, f
  <2>13. CASE x.id # c
    <3>1. (f <=> b) /\ r = q /\ (e <=> d)
      BY <2>3, <2>12, <2>13
    <3>2. e = d
      BY <2>12, <3>1, Zenon
    <3> QED BY <2>2, <2>11, <2>13, <3>1, <3>2, OtherContent
  <2>14. CASE x.id = c /\ x.type = "call"
    <3>1. f /\ e = FALSE /\ r = Append(q, x) /\ ~d
      BY <2>3, <2>12, <2>14 DEF Results
    <3>2. c \in DOMAIN next /\ next[c] = [args |-> ArgumentsOf(last, x), done |-> FALSE]
      <4> DEFINE a == [args |-> ArgumentsOf(last, x), done |-> FALSE]
      <4>1. next = [i \in DOMAIN last \cup {x.id} |-> IF i = x.id THEN a ELSE last[i]]
        BY <2>2, <2>14 DEF WithContent
      <4> HIDE DEF a
      <4>2. c \in DOMAIN next /\ next[c] = a
        BY <2>14, <4>1
      <4> QED BY <4>2 DEF a
    <3>3. ArgumentsOf(last, x) = Args(r)
      <4>1. Args(Append(q, x)) = Append(Args(q), x.part) /\ Args(<<>>) = <<>>
        BY <2>2, ArgsType
      <4>2. CASE b
        <5>1. ArgumentsOf(last, x) = Append(last[c].args, x.part) /\ last[c].args = Args(q)
          BY <2>11, <2>14, <4>2 DEF ArgumentsOf
        <5> QED BY <3>1, <4>1, <5>1
      <4>3. CASE ~b
        <5>1. ArgumentsOf(last, x) = <<x.part>> /\ q = <<>>
          BY <2>11, <2>14, <4>3 DEF ArgumentsOf
        <5>2. Append(<<>>, x.part) = <<x.part>>
          OBVIOUS
        <5> QED BY <3>1, <4>1, <5>1, <5>2
      <4> QED BY <4>2, <4>3
    <3> QED BY <3>1, <3>2, <3>3
  <2>15. CASE x.id = c /\ x.type \in Results
    <3>1. f /\ b /\ e = TRUE /\ r = q
      BY <2>3, <2>12, <2>15 DEF Results
    <3>2. next = [last EXCEPT ![c].done = TRUE]
      BY <2>2, <2>11, <2>15, <3>1 DEF WithContent, Results
    <3>3. c \in DOMAIN next /\ next[c] = [last[c] EXCEPT !.done = TRUE]
      BY <2>11, <3>1, <3>2
    <3>4. next[c] = [args |-> Args(q), done |-> TRUE]
      <4> DEFINE yes == TRUE
                 w == Args(q)
      <4>1. last[c] = [args |-> w, done |-> d] /\ next[c] = [last[c] EXCEPT !.done = yes]
        BY <2>11, <3>1, <3>3, Zenon
      <4> HIDE DEF yes, w
      <4>2. next[c] = [args |-> w, done |-> yes]
        BY <4>1
      <4> QED BY <4>2 DEF yes, w
    <3> QED BY <3>1, <3>3, <3>4
  <2> QED BY <2>9, <2>13, <2>14, <2>15 DEF x
<1>7. T = Nat
  <2> HIDE DEF Right
  <2>1. 0 \in T
    BY <1>5
  <2>2. ASSUME NEW k \in T PROVE k + 1 \in T
    <3> SUFFICES ASSUME k + 1 <= Len(said) PROVE Right(k + 1)
      OBVIOUS
    <3>1. k \in Nat /\ k <= Len(said)
      BY <1>0
    <3> QED BY <1>6, <3>1
  <2> HIDE DEF T
  <2>3. T \subseteq Nat
    BY DEF T
  <2> QED BY <2>1, <2>2, <2>3, NumbersByOne
<1>8. Right(Len(said))
  BY <1>0, <1>7
<1>9. done(Len(said))
  BY <1>0 DEF Answered, Results
<1>10. begun(Len(said))
  <2>1. PICK i \in DOMAIN said : said[i].id = c /\ said[i].type \in Results
    BY DEF Answered, Results
  <2>2. PICK j \in 1 .. i - 1 : said[j].id = c /\ said[j].type \in Calling
    BY <2>1 DEF Spoken
  <2>3. j \in DOMAIN said
    BY <1>0
  <2> QED BY <1>0, <2>2, <2>3 DEF Hosted, Calling
<1>11. done(Len(said)) = TRUE
  BY <1>9
<1>12. u[Len(said)][c] = [args |-> Args(p(Len(said))), done |-> TRUE]
  BY <1>8, <1>10, <1>11
<1>13. Recorded(said) = u[Len(said)] /\ ArgsOf(said, c) = Args(Parts(said, c))
  BY <1>0, PartsType DEF Recorded, u
<1> QED BY <1>2, <1>12, <1>13, Zenon

----------------------------------------------------------------------------
(* A stream *)

StreamFields == {"calls", "shown", "active", "out", "result"}
EventNames == {"function_call", "function_result", "agent_view", "tool_approval_request", "text",
               "usage", "done", "error"}
CallEntry == [name : ToolName \cup {"none"}, args : Seq(Nat)]
Sendable  == [event : EventNames, id : CallId \cup {"none"}, name : ToolName \cup {"none"},
              args : Seq(Nat)]

TypedStream(st) ==
    /\ st = [f \in StreamFields |-> st[f]]
    /\ st.calls \in [CallId -> CallEntry] /\ st.shown \in [CallId -> CallEntry]
    /\ st.active \in CallId \cup {"none"}
    /\ st.out \in Seq(Sendable)

(* What is kept of a call was sent. *)
Told(st) ==
    \A c \in CallId : st.shown[c] # NoEntry =>
       \E j \in DOMAIN st.out : /\ st.out[j].event = "function_call" /\ st.out[j].id = c
                                /\ st.out[j].name = st.shown[c].name

ViewedAt(out, said, i) ==
    out[i].event = "agent_view" =>
        /\ i - 1 \in DOMAIN out
        /\ out[i - 1].event = "function_result" /\ out[i - 1].id = out[i].id
        /\ \E j \in 1..(i - 2) : /\ j \in DOMAIN out /\ out[j].event = "function_call"
                                 /\ out[j].id = out[i].id /\ out[j].name = RenderTool
        /\ \E j \in DOMAIN said : said[j].type = "rendered" /\ said[j].id = out[i].id
GivenAt(out, said, i) ==
    out[i].event = "function_result" => out[i].id \in CallId /\ Answered(said, out[i].id)
PassedAt(out, said, i) ==
    out[i].event = "function_result" /\ Named(said, out[i].id) /\ ~Hosted(said, out[i].id) =>
        out[i].args = ArgsOf(said, out[i].id)

(* As long as no fragment is loose, a call of the agent is what was said of it, and
   the active call is the last one. *)
Kept(st, said) ==
    \A c \in CallId : ~Hosted(said, c) =>
        /\ st.calls[c].args = ArgsOf(said, c)
        /\ st.calls[c].name # "none" <=> Named(said, c)
        /\ Named(said, c) => st.shown[c] = st.calls[c]
Follows(st, said) ==
    \A i \in DOMAIN said :
        IsLastCall(said, i) /\ Named(said, said[i].id) /\ ~AnsweredSince(said) =>
            st.active = said[i].id

Sound(st, said, loose) ==
    /\ TypedStream(st) /\ Spoken(said) /\ Told(st)
    /\ \A i \in DOMAIN st.out : ViewedAt(st.out, said, i) /\ GivenAt(st.out, said, i)
    /\ loose = {} => /\ Kept(st, said) /\ Follows(st, said)
                     /\ \A i \in DOMAIN st.out : PassedAt(st.out, said, i)

(* What was sent stays as it was said. *)
LEMMA Older ==
    ASSUME NEW said, Spoken(said), NEW x, MayFollow(said, x),
           NEW out \in Seq(Sendable), NEW new \in Seq(Sendable), Len(out) <= Len(new),
           \A i \in DOMAIN out : new[i] = out[i], NEW i \in DOMAIN out
    PROVE  /\ ViewedAt(out, said, i) => ViewedAt(new, Append(said, x), i)
           /\ GivenAt(out, said, i) => GivenAt(new, Append(said, x), i)
           /\ GivenAt(out, said, i) /\ PassedAt(out, said, i) => PassedAt(new, Append(said, x), i)
<1> DEFINE n == Append(said, x)
<1>1. /\ said \in Seq(Contents) /\ x \in Contents /\ Len(said) \in Nat
      /\ DOMAIN said \subseteq DOMAIN n /\ \A j \in DOMAIN said : n[j] = said[j]
  <2>1. said \in Seq(Contents) /\ x \in Contents
    BY DEF Spoken, MayFollow, Proper
  <2> QED BY <2>1
<1>2. DOMAIN out \subseteq DOMAIN new
  OBVIOUS
<1>3. \A c : /\ Hosted(n, c)   <=> Hosted(said, c) \/ (x.id = c /\ x.type = "hosted_call")
             /\ Named(n, c)    <=> Named(said, c) \/ (x.id = c /\ x.name # "none")
             /\ Answered(n, c) <=> Answered(said, c) \/ (x.id = c /\ x.type \in Results)
             /\ ArgsOf(n, c) = IF x.id = c /\ x.type \in Calling THEN Append(ArgsOf(said, c), x.part)
                               ELSE ArgsOf(said, c)
  BY <1>1, SaidMore
<1> HIDE DEF n
<1>4. ASSUME ViewedAt(out, said, i) PROVE ViewedAt(new, n, i)
  BY <1>1, <1>2, <1>4 DEF ViewedAt
<1>5. ASSUME GivenAt(out, said, i) PROVE GivenAt(new, n, i)
  BY <1>3, <1>5 DEF GivenAt
<1>6. ASSUME GivenAt(out, said, i), PassedAt(out, said, i) PROVE PassedAt(new, n, i)
  <2> DEFINE c == out[i].id
  <2> SUFFICES ASSUME out[i].event = "function_result", Named(n, c), ~Hosted(n, c)
               PROVE  out[i].args = ArgsOf(n, c)
    BY DEF PassedAt
  <2>1. c \in CallId /\ Answered(said, c) /\ ~Hosted(said, c)
    BY <1>3, <1>6 DEF GivenAt
  <2>2. x.id = c => x.type \in Results /\ x.name = "none"
    BY <1>3, <2>1, SessionAssumption DEF MayFollow, Proper, Contents, Calling, Results
  <2>3. Named(said, c) /\ ArgsOf(n, c) = ArgsOf(said, c)
    BY <1>3, <2>2 DEF Calling, Results
  <2> QED BY <1>6, <2>1, <2>3 DEF PassedAt
<1> QED BY <1>4, <1>5, <1>6 DEF n

(* Events are sent after those before them. *)
LEMMA Sent1 ==
    ASSUME NEW out \in Seq(Sendable), NEW e \in Sendable
    PROVE  LET new == out \o <<e>> IN
           /\ new \in Seq(Sendable) /\ Len(out) \in Nat /\ Len(new) = Len(out) + 1
           /\ DOMAIN out = 1 .. Len(out) /\ DOMAIN new = 1 .. Len(out) + 1
           /\ new[Len(out) + 1] = e /\ \A i \in DOMAIN out : new[i] = out[i]
<1> <<e>> \in Seq(Sendable)
  OBVIOUS
<1> QED OBVIOUS

(* Two of them, one after the other. *)
LEMMA Sent2 ==
    ASSUME NEW out \in Seq(Sendable), NEW e \in Sendable, NEW f \in Sendable
    PROVE  LET new == out \o <<e, f>> IN
           /\ new \in Seq(Sendable) /\ Len(out) \in Nat /\ Len(new) = Len(out) + 2
           /\ DOMAIN out = 1 .. Len(out) /\ DOMAIN new = 1 .. Len(out) + 2
           /\ new[Len(out) + 1] = e /\ new[Len(out) + 2] = f
           /\ \A i \in DOMAIN out : new[i] = out[i]
<1> <<e, f>> \in Seq(Sendable)
  OBVIOUS
<1> QED OBVIOUS

(* An event says what it is about. *)
LEMMA EventSendable ==
    ASSUME NEW e \in EventNames, NEW c \in CallId \cup {"none"}, NEW entry \in CallEntry
    PROVE  /\ Event(e, c, entry) \in Sendable /\ NoEntry \in CallEntry
           /\ Event(e, c, entry).event = e /\ Event(e, c, entry).id = c
           /\ Event(e, c, entry).name = entry.name /\ Event(e, c, entry).args = entry.args
<1>1. NoEntry \in CallEntry
  BY DEF NoEntry, CallEntry
<1> QED BY <1>1 DEF Event, Sendable, CallEntry

(* A stream goes on, with events that are as they should be. *)
LEMMA StillRight ==
    ASSUME NEW st, NEW said, NEW loose, Sound(st, said, loose), NEW x, MayFollow(said, x),
           NEW new \in Seq(Sendable), Len(st.out) <= Len(new),
           \A i \in DOMAIN st.out : new[i] = st.out[i],
           \A i \in DOMAIN new : i \in DOMAIN st.out
              \/ /\ ViewedAt(new, Append(said, x), i) /\ GivenAt(new, Append(said, x), i)
                 /\ loose = {} => PassedAt(new, Append(said, x), i)
    PROVE  \A i \in DOMAIN new :
              /\ ViewedAt(new, Append(said, x), i) /\ GivenAt(new, Append(said, x), i)
              /\ loose = {} => PassedAt(new, Append(said, x), i)
<1> DEFINE n == Append(said, x)
<1> SUFFICES ASSUME NEW i \in DOMAIN new, i \in DOMAIN st.out
             PROVE  /\ ViewedAt(new, n, i) /\ GivenAt(new, n, i)
                    /\ loose = {} => PassedAt(new, n, i)
  OBVIOUS
<1>1. st.out \in Seq(Sendable) /\ ViewedAt(st.out, said, i) /\ GivenAt(st.out, said, i)
      /\ (loose = {} => PassedAt(st.out, said, i)) /\ Spoken(said)
  BY DEF Sound, TypedStream
<1> DEFINE out == st.out
<1>2. /\ ViewedAt(out, said, i) => ViewedAt(new, Append(said, x), i)
      /\ GivenAt(out, said, i) => GivenAt(new, Append(said, x), i)
      /\ GivenAt(out, said, i) /\ PassedAt(out, said, i) => PassedAt(new, Append(said, x), i)
  <2>1. out \in Seq(Sendable) /\ Len(out) <= Len(new) /\ i \in DOMAIN out
        /\ \A k \in DOMAIN out : new[k] = out[k]
    BY <1>1
  <2> HIDE DEF out
  <2> QED BY <1>1, <2>1, Older
<1> QED BY <1>1, <1>2

(* What was told of calls stays told. *)
LEMMA StillTold ==
    ASSUME NEW st, NEW new, Told(st), DOMAIN st.out \subseteq DOMAIN new.out,
           \A i \in DOMAIN st.out : new.out[i] = st.out[i],
           \A c \in CallId : new.shown[c] = st.shown[c]
              \/ \E j \in DOMAIN new.out : /\ new.out[j].event = "function_call" /\ new.out[j].id = c
                                           /\ new.out[j].name = new.shown[c].name
    PROVE  Told(new)
<1> SUFFICES ASSUME NEW c \in CallId, new.shown[c] # NoEntry, new.shown[c] = st.shown[c]
             PROVE  \E j \in DOMAIN new.out : /\ new.out[j].event = "function_call" /\ new.out[j].id = c
                                              /\ new.out[j].name = new.shown[c].name
  BY DEF Told
<1>1. PICK j \in DOMAIN st.out : /\ st.out[j].event = "function_call" /\ st.out[j].id = c
                                 /\ st.out[j].name = st.shown[c].name
  BY DEF Told
<1> QED BY <1>1

(* The active call follows, whatever is said that is no fragment of the agent's. *)
LEMMA StillFollows ==
    ASSUME NEW st, NEW new, NEW said, Spoken(said), NEW x, MayFollow(said, x), x.type # "call",
           x.type \in Results \/ new.active = st.active, Follows(st, said)
    PROVE  Follows(new, Append(said, x))
<1> DEFINE n == Append(said, x)
           l == Len(said)
<1>1. /\ l \in Nat /\ DOMAIN said = 1 .. l /\ DOMAIN n = 1 .. l + 1 /\ Len(n) = l + 1
      /\ n[l + 1] = x /\ \A j \in DOMAIN said : n[j] = said[j]
      /\ said \in Seq(Contents) /\ x \in Contents
  BY SaidMore DEF Spoken, MayFollow, Proper
<1>2. \A c : Named(n, c) <=> Named(said, c) \/ (x.id = c /\ x.name # "none")
  BY <1>1, SaidMore
<1> HIDE DEF n
<1> SUFFICES ASSUME NEW i \in DOMAIN n, IsLastCall(n, i), Named(n, n[i].id), ~AnsweredSince(n)
             PROVE  new.active = n[i].id
  BY DEF Follows, n
<1>3. i \in DOMAIN said /\ said[i].type = "call" /\ n[i] = said[i]
  BY <1>1 DEF IsLastCall
<1>4. \A j \in (i + 1)..l : said[j].type # "call"
  <2>1. \A j \in (i + 1)..l : j \in (i + 1)..(l + 1) /\ j \in DOMAIN said
    BY <1>1, <1>3
  <2> QED BY <1>1, <2>1 DEF IsLastCall
<1>5. said[i].id \in CallId /\ said[i].id # "none"
  BY <1>1, <1>3 DEF Spoken, Proper, Contents
<1>6. x.type \notin Results
  <2> SUFFICES ASSUME x.type \in Results PROVE AnsweredSince(n)
    OBVIOUS
  <2>1. l + 1 \in DOMAIN n /\ n[l + 1].type \in {"rendered", "plain"}
        /\ \A j \in (l + 1 + 1)..Len(n) : n[j].type # "call"
    BY <1>1 DEF Results
  <2> QED BY <2>1 DEF AnsweredSince
<1>7. ~AnsweredSince(said)
  <2> SUFFICES ASSUME NEW j \in DOMAIN said, said[j].type \in {"rendered", "plain"},
                      \A k \in (j + 1)..l : said[k].type # "call"
               PROVE  AnsweredSince(n)
    BY DEF AnsweredSince
  <2>1. \A k \in (j + 1)..Len(n) : n[k].type # "call"
    <3> SUFFICES ASSUME NEW k \in (j + 1)..Len(n) PROVE n[k].type # "call"
      OBVIOUS
    <3>1. k = l + 1 \/ (k \in (j + 1)..l /\ k \in DOMAIN said)
      BY <1>1
    <3> QED BY <1>1, <3>1
  <2>2. j \in DOMAIN n /\ n[j] = said[j]
    BY <1>1
  <2> QED BY <2>1, <2>2 DEF AnsweredSince
<1>8. Named(said, said[i].id)
  <2>1. x.id = said[i].id => x.name = "none"
    <3>1. CASE x.type = "hosted_call"
      BY <1>3, <3>1 DEF MayFollow
    <3>2. CASE x.type \in {"text", "approval"}
      BY <1>5, <3>2 DEF MayFollow, Proper
    <3> QED BY <1>1, <1>6, <3>1, <3>2 DEF Contents, Calling
  <2> QED BY <1>2, <1>3, <2>1
<1>9. IsLastCall(said, i)
  BY <1>3, <1>4 DEF IsLastCall
<1> QED BY <1>3, <1>6, <1>7, <1>8, <1>9 DEF Follows

(* A text or a request for approval. *)
LEMMA PlainSound ==
    ASSUME NEW st, NEW said, NEW loose, Sound(st, said, loose),
           NEW x, MayFollow(said, x), x.type \in {"text", "approval"}
    PROVE  Sound(Taken(st, x), Append(said, x), loose)
<1> DEFINE n == Append(said, x)
           kind == IF x.type = "text" THEN "text" ELSE "tool_approval_request"
           e == Plain(kind)
           new == Taken(st, x)
           l == Len(st.out)
<1>1. said \in Seq(Contents) /\ Spoken(said) /\ x \in Contents /\ x.id = "none" /\ x.id \notin CallId
      /\ x.type \notin Calling \cup Results \cup {"call", "hosted_call"}
  BY SessionAssumption DEF Sound, Spoken, MayFollow, Proper, Calling, Results
<1>2. Spoken(n)
  BY <1>1, SpokenMore
<1>3. e \in Sendable /\ e.event \notin {"function_result", "agent_view"}
  <2>1. kind \in EventNames /\ kind \notin {"function_result", "agent_view"} /\ NoEntry \in CallEntry
    BY DEF EventNames, NoEntry, CallEntry
  <2> HIDE DEF kind
  <2> QED BY <2>1, EventSendable DEF Plain
<1>4. new = [st EXCEPT !.out = @ \o <<e>>]
  BY <1>1 DEF Taken, Emit
<1>5. st = [f \in StreamFields |-> st[f]] /\ st.out \in Seq(Sendable)
  BY DEF Sound, TypedStream
<1> HIDE DEF e, new, kind
<1>6. /\ new = [f \in StreamFields |-> new[f]] /\ new.calls = st.calls /\ new.shown = st.shown
      /\ new.active = st.active /\ new.out = st.out \o <<e>>
  BY <1>4, <1>5 DEF StreamFields
<1>7. /\ new.out \in Seq(Sendable) /\ l \in Nat /\ Len(new.out) = l + 1
      /\ DOMAIN st.out = 1 .. l /\ DOMAIN new.out = 1 .. l + 1
      /\ new.out[l + 1] = e /\ \A i \in DOMAIN st.out : new.out[i] = st.out[i]
  <2> DEFINE out == st.out
  <2>1. out \in Seq(Sendable) /\ new.out = out \o <<e>>
    BY <1>5, <1>6
  <2> HIDE DEF out
  <2> QED BY <1>3, <2>1, Sent1 DEF out
<1> HIDE DEF n
<1>8. TypedStream(new)
  BY <1>6, <1>7 DEF Sound, TypedStream
<1>9. Told(new)
  <2>1. DOMAIN st.out \subseteq DOMAIN new.out
    BY <1>7
  <2> QED BY <1>6, <1>7, <2>1, StillTold DEF Sound
<1>10. \A i \in DOMAIN new.out : /\ ViewedAt(new.out, n, i) /\ GivenAt(new.out, n, i)
                                 /\ loose = {} => PassedAt(new.out, n, i)
  <2>1. \A i \in DOMAIN new.out : i \in DOMAIN st.out
           \/ /\ ViewedAt(new.out, n, i) /\ GivenAt(new.out, n, i) /\ PassedAt(new.out, n, i)
    BY <1>3, <1>7 DEF ViewedAt, GivenAt, PassedAt
  <2>2. Len(st.out) <= Len(new.out)
    BY <1>7
  <2> QED BY <1>7, <2>1, <2>2, StillRight DEF n
<1>11. ASSUME loose = {} PROVE Kept(new, n) /\ Follows(new, n)
  <2>1. \A c \in CallId : /\ Hosted(n, c) <=> Hosted(said, c)
                          /\ Named(n, c) <=> Named(said, c)
                          /\ ArgsOf(n, c) = ArgsOf(said, c)
    BY <1>1, SaidMore DEF n
  <2>2. Kept(new, n)
    BY <1>6, <1>11, <2>1 DEF Sound, Kept
  <2> QED BY <1>1, <1>6, <1>11, <2>2, StillFollows DEF Sound, n
<1>12. Sound(new, n, loose)
  BY <1>2, <1>8, <1>9, <1>10, <1>11 DEF Sound
<1> QED BY <1>12 DEF new, n

(* A call of the model's host, announced or not. *)
LEMMA HostedSound ==
    ASSUME NEW st, NEW said, NEW loose, Sound(st, said, loose),
           NEW x, MayFollow(said, x), x.type = "hosted_call"
    PROVE  Sound(Taken(st, x), Append(said, x), loose)
<1> DEFINE n == Append(said, x)
           new == Taken(st, x)
           entry == [name |-> x.name, args |-> <<x.part>>]
           e == Event("function_call", x.id, entry)
           l == Len(st.out)
           h == x.id
<1>1. /\ said \in Seq(Contents) /\ Spoken(said) /\ x \in Contents /\ h \in CallId /\ h # "none"
      /\ x.type \notin Results /\ x.type # "call"
  BY SessionAssumption DEF Sound, Spoken, MayFollow, Proper, Calling, Results, Contents
<1>2. Spoken(n)
  BY <1>1, SpokenMore
<1>3. entry \in CallEntry /\ entry.name = x.name
  BY <1>1 DEF CallEntry, Contents
<1>4. e \in Sendable /\ e.event = "function_call" /\ e.id = h /\ e.name = x.name
  <2> HIDE DEF entry
  <2> QED BY <1>1, <1>3, EventSendable DEF EventNames
<1>5. /\ st = [f \in StreamFields |-> st[f]] /\ st.out \in Seq(Sendable)
      /\ st.shown \in [CallId -> CallEntry]
  BY DEF Sound, TypedStream
<1>6. new = IF x.name = "none" \/ Announced(st, h) THEN st
            ELSE [st EXCEPT !.shown[h] = entry, !.out = @ \o <<e>>]
  <2>1. new = HostedCall(st, x)
    BY DEF Taken
  <2> QED BY <1>1, <2>1 DEF HostedCall, Emit
<1>7. \A c \in CallId \ {h} : /\ Hosted(n, c) <=> Hosted(said, c)
                              /\ Named(n, c) <=> Named(said, c)
                              /\ ArgsOf(n, c) = ArgsOf(said, c)
  BY <1>1, SaidMore
<1>8. Hosted(n, h)
  BY <1>1, SaidMore
<1> HIDE DEF n, new, e, entry
<1>9. /\ new = [f \in StreamFields |-> new[f]] /\ new.calls = st.calls /\ new.active = st.active
      /\ \/ new.shown = st.shown /\ new.out = st.out
         \/ new.shown = [st.shown EXCEPT ![h] = entry] /\ new.out = st.out \o <<e>>
  BY <1>5, <1>6 DEF StreamFields
<1>10. /\ new.shown \in [CallId -> CallEntry]
       /\ \A c \in CallId \ {h} : new.shown[c] = st.shown[c]
  BY <1>1, <1>3, <1>5, <1>9
<1>11. /\ new.out \in Seq(Sendable) /\ l \in Nat /\ l <= Len(new.out)
       /\ DOMAIN st.out = 1 .. l /\ DOMAIN st.out \subseteq DOMAIN new.out
       /\ \A i \in DOMAIN st.out : new.out[i] = st.out[i]
       /\ \A i \in DOMAIN new.out : i \in DOMAIN st.out \/ new.out[i] = e
       /\ \/ new.shown[h] = st.shown[h]
          \/ l + 1 \in DOMAIN new.out /\ new.out[l + 1] = e /\ new.shown[h] = entry
  <2> DEFINE out == st.out
             new1 == out \o <<e>>
  <2>1. out \in Seq(Sendable)
    BY <1>5
  <2>2. CASE new.shown = st.shown /\ new.out = st.out
    BY <1>5, <2>2
  <2>3. CASE new.shown = [st.shown EXCEPT ![h] = entry] /\ new.out = out \o <<e>>
    <3> HIDE DEF out
    <3>1. /\ new.out \in Seq(Sendable) /\ Len(out) \in Nat /\ Len(new.out) = Len(out) + 1
          /\ DOMAIN out = 1 .. Len(out) /\ DOMAIN new.out = 1 .. Len(out) + 1
          /\ new.out[Len(out) + 1] = e /\ \A i \in DOMAIN out : new.out[i] = out[i]
      BY <1>4, <2>1, <2>3, Sent1
    <3>2. \A i \in DOMAIN new.out : i \in DOMAIN out \/ new.out[i] = e
      BY <3>1
    <3>3. new.shown[h] = entry
      BY <1>1, <1>5, <2>3
    <3>4. /\ new.out \in Seq(Sendable) /\ Len(out) \in Nat /\ Len(out) <= Len(new.out)
          /\ DOMAIN out = 1 .. Len(out) /\ DOMAIN out \subseteq DOMAIN new.out
          /\ \A i \in DOMAIN out : new.out[i] = out[i]
          /\ Len(out) + 1 \in DOMAIN new.out /\ new.out[Len(out) + 1] = e
      BY <3>1
    <3> QED BY <3>2, <3>3, <3>4 DEF out
  <2> QED BY <1>9, <2>2, <2>3
<1>12. TypedStream(new)
  BY <1>9, <1>10, <1>11 DEF Sound, TypedStream
<1>13. Told(new)
  <2>1. \A c \in CallId : new.shown[c] = st.shown[c]
           \/ \E j \in DOMAIN new.out : /\ new.out[j].event = "function_call" /\ new.out[j].id = c
                                        /\ new.out[j].name = new.shown[c].name
    BY <1>3, <1>4, <1>10, <1>11
  <2> QED BY <1>11, <2>1, StillTold DEF Sound
<1>14. \A i \in DOMAIN new.out : /\ ViewedAt(new.out, n, i) /\ GivenAt(new.out, n, i)
                                 /\ loose = {} => PassedAt(new.out, n, i)
  <2>1. \A i \in DOMAIN new.out : i \in DOMAIN st.out
           \/ /\ ViewedAt(new.out, n, i) /\ GivenAt(new.out, n, i) /\ PassedAt(new.out, n, i)
    BY <1>4, <1>11 DEF ViewedAt, GivenAt, PassedAt
  <2> QED BY <1>11, <2>1, StillRight DEF n
<1>15. ASSUME loose = {} PROVE Kept(new, n) /\ Follows(new, n)
  <2>1. Kept(new, n)
    BY <1>7, <1>8, <1>9, <1>10, <1>15 DEF Sound, Kept
  <2> QED BY <1>1, <1>9, <1>15, <2>1, StillFollows DEF Sound, n
<1>16. Sound(new, n, loose)
  BY <1>2, <1>12, <1>13, <1>14, <1>15 DEF Sound
<1> QED BY <1>16 DEF new, n

(* A result, with the view that it rendered. *)
LEMMA ResultSound ==
    ASSUME NEW st, NEW said, NEW loose, Sound(st, said, loose),
           NEW x, MayFollow(said, x), x.type \in Results
    PROVE  Sound(Taken(st, x), Append(said, x), loose)
<1> DEFINE n == Append(said, x)
           new == Taken(st, x)
           h == x.id
           entry == st.shown[h]
           e == Event("function_result", h, entry)
           v == Event("agent_view", h, entry)
           l == Len(st.out)
<1>1. /\ said \in Seq(Contents) /\ Spoken(said) /\ x \in Contents /\ h \in CallId /\ h # "none"
      /\ x.type \notin Calling \cup {"call", "hosted_call", "text", "approval"} /\ x.name = "none"
  BY SessionAssumption DEF Sound, Spoken, MayFollow, Proper, Calling, Results, Contents
<1>2. Spoken(n)
  BY <1>1, SpokenMore
<1>3. /\ st = [f \in StreamFields |-> st[f]] /\ st.out \in Seq(Sendable)
      /\ st.shown \in [CallId -> CallEntry] /\ entry \in CallEntry
  BY <1>1 DEF Sound, TypedStream
<1>4. /\ e \in Sendable /\ e.event = "function_result" /\ e.id = h /\ e.args = entry.args
      /\ v \in Sendable /\ v.event = "agent_view" /\ v.id = h
  <2> HIDE DEF entry
  <2>1. {"function_result", "agent_view"} \subseteq EventNames /\ h \in CallId \cup {"none"}
    BY <1>1 DEF EventNames
  <2> HIDE DEF h
  <2> QED BY <1>3, <2>1, EventSendable
<1>5. new = [st EXCEPT !.active = "none",
                       !.out = @ \o (<<e>> \o IF Rendered(entry, x) THEN <<v>> ELSE <<>>)]
  <2>1. new = Result(st, x)
    BY <1>1 DEF Taken
  <2> QED BY <1>1, <2>1 DEF Result, Emit
<1>6. \A c \in CallId : /\ Hosted(n, c) <=> Hosted(said, c)
                        /\ Named(n, c) <=> Named(said, c)
                        /\ ArgsOf(n, c) = ArgsOf(said, c)
  BY <1>1, SaidMore
<1>7. Answered(n, h) /\ x.type = "rendered" => \E j \in DOMAIN n : n[j].type = "rendered" /\ n[j].id = h
  BY <1>1, SaidMore
<1>8. Answered(n, h)
  BY <1>1, SaidMore
<1> HIDE DEF n, new, e, v, entry, h
<1>9. /\ new = [f \in StreamFields |-> new[f]] /\ new.calls = st.calls /\ new.active = "none"
      /\ new.shown = st.shown
      /\ new.out = st.out \o (<<e>> \o IF Rendered(entry, x) THEN <<v>> ELSE <<>>)
  BY <1>3, <1>5 DEF StreamFields
<1>10. /\ new.out \in Seq(Sendable) /\ l \in Nat /\ l <= Len(new.out)
       /\ DOMAIN st.out = 1 .. l /\ DOMAIN st.out \subseteq DOMAIN new.out
       /\ \A i \in DOMAIN st.out : new.out[i] = st.out[i]
       /\ l + 1 \in DOMAIN new.out /\ new.out[l + 1] = e
       /\ \A i \in DOMAIN new.out : i \in DOMAIN st.out \/ i = l + 1
             \/ (i = l + 2 /\ new.out[i] = v /\ Rendered(entry, x))
  <2> DEFINE out == st.out
  <2>1. out \in Seq(Sendable)
    BY <1>3
  <2>2. CASE Rendered(entry, x)
    <3>1. new.out = out \o <<e, v>>
      <4>1. <<e>> \o <<v>> = <<e, v>>
        <5>1. <<e>> \in Seq(Sendable) /\ <<v>> \in Seq(Sendable) /\ <<e, v>> \in Seq(Sendable)
          BY <1>4
        <5>2. Len(<<e>> \o <<v>>) = 2 /\ <<e>> \o <<v>> \in Seq(Sendable)
          BY <5>1
        <5>3. (<<e>> \o <<v>>)[1] = e /\ (<<e>> \o <<v>>)[2] = v
          BY <5>1
        <5> DEFINE a == <<e>> \o <<v>>
                   b == <<e, v>>
        <5>4. /\ a \in Seq(Sendable) /\ b \in Seq(Sendable) /\ Len(a) = 2 /\ Len(b) = 2
              /\ a[1] = e /\ a[2] = v /\ b[1] = e /\ b[2] = v
          BY <5>1, <5>2, <5>3
        <5> HIDE DEF a, b
        <5>5. \A i \in 1 .. Len(a) : a[i] = b[i]
          BY <5>4
        <5>6. a = b
          BY <5>4, <5>5, SameSequence
        <5> QED BY <5>6 DEF a, b
      <4> QED BY <1>9, <2>2, <4>1
    <3> HIDE DEF out
    <3>2. /\ new.out \in Seq(Sendable) /\ Len(out) \in Nat /\ Len(new.out) = Len(out) + 2
          /\ DOMAIN out = 1 .. Len(out) /\ DOMAIN new.out = 1 .. Len(out) + 2
          /\ new.out[Len(out) + 1] = e /\ new.out[Len(out) + 2] = v
          /\ \A i \in DOMAIN out : new.out[i] = out[i]
      BY <1>4, <2>1, <3>1, Sent2
    <3>3. /\ Len(out) <= Len(new.out) /\ DOMAIN out \subseteq DOMAIN new.out
          /\ Len(out) + 1 \in DOMAIN new.out
          /\ \A i \in DOMAIN new.out : i \in DOMAIN out \/ i = Len(out) + 1
                \/ (i = Len(out) + 2 /\ new.out[i] = v)
      BY <3>2
    <3> HIDE DEF l
    <3>4. l = Len(out)
      BY DEF l, out
    <3> USE DEF out
    <3> QED BY <2>2, <3>2, <3>3, <3>4, Zenon
  <2>3. CASE ~Rendered(entry, x)
    <3>1. new.out = out \o <<e>>
      <4>1. <<e>> \o <<>> = <<e>>
        OBVIOUS
      <4> QED BY <1>9, <2>3, <4>1
    <3> HIDE DEF out
    <3>2. /\ new.out \in Seq(Sendable) /\ Len(out) \in Nat /\ Len(new.out) = Len(out) + 1
          /\ DOMAIN out = 1 .. Len(out) /\ DOMAIN new.out = 1 .. Len(out) + 1
          /\ new.out[Len(out) + 1] = e
          /\ \A i \in DOMAIN out : new.out[i] = out[i]
      BY <1>4, <2>1, <3>1, Sent1
    <3>3. /\ Len(out) <= Len(new.out) /\ DOMAIN out \subseteq DOMAIN new.out
          /\ Len(out) + 1 \in DOMAIN new.out
          /\ \A i \in DOMAIN new.out : i \in DOMAIN out \/ i = Len(out) + 1
      BY <3>2
    <3> HIDE DEF l
    <3>4. l = Len(out)
      BY DEF l, out
    <3> USE DEF out
    <3> QED BY <3>2, <3>3, <3>4, Zenon
  <2> QED BY <2>2, <2>3
<1>11. TypedStream(new)
  BY <1>9, <1>10 DEF Sound, TypedStream
<1>12. Told(new)
  BY <1>9, <1>10, StillTold DEF Sound
<1>13. \A i \in DOMAIN new.out : /\ ViewedAt(new.out, n, i) /\ GivenAt(new.out, n, i)
                                 /\ loose = {} => PassedAt(new.out, n, i)
  <2>1. ASSUME NEW i \in DOMAIN new.out, i = l + 1
        PROVE  /\ ViewedAt(new.out, n, i) /\ GivenAt(new.out, n, i)
               /\ loose = {} => PassedAt(new.out, n, i)
    <3>1. ViewedAt(new.out, n, i)
      BY <1>4, <1>10, <2>1 DEF ViewedAt
    <3>2. GivenAt(new.out, n, i)
      BY <1>1, <1>4, <1>8, <1>10, <2>1 DEF GivenAt
    <3>3. ASSUME loose = {} PROVE PassedAt(new.out, n, i)
      <4> SUFFICES ASSUME Named(n, h), ~Hosted(n, h) PROVE entry.args = ArgsOf(n, h)
        BY <1>4, <1>10, <2>1 DEF PassedAt
      <4>1. Named(said, h) /\ ~Hosted(said, h) /\ ArgsOf(n, h) = ArgsOf(said, h)
        BY <1>1, <1>6
      <4> QED BY <1>1, <3>3, <4>1 DEF Sound, Kept, entry
    <3> QED BY <3>1, <3>2, <3>3
  <2>2. ASSUME NEW i \in DOMAIN new.out, i = l + 2, new.out[i] = v, Rendered(entry, x)
        PROVE  /\ ViewedAt(new.out, n, i) /\ GivenAt(new.out, n, i)
               /\ loose = {} => PassedAt(new.out, n, i)
    <3>1. entry.name = RenderTool /\ x.type = "rendered" /\ entry # NoEntry
      BY <2>2 DEF Rendered, NoEntry, RenderTool
    <3>2. PICK j \in DOMAIN st.out : /\ st.out[j].event = "function_call" /\ st.out[j].id = h
                                     /\ st.out[j].name = RenderTool
      BY <1>1, <3>1 DEF Sound, Told, entry
    <3>3. i - 1 = l + 1 /\ i - 2 = l /\ j \in 1 .. l /\ j \in DOMAIN new.out /\ new.out[j] = st.out[j]
      BY <1>10, <2>2, <3>2
    <3>4. \E k \in 1..(i - 2) : /\ k \in DOMAIN new.out /\ new.out[k].event = "function_call"
                                /\ new.out[k].id = h /\ new.out[k].name = RenderTool
      BY <3>2, <3>3
    <3>5. ViewedAt(new.out, n, i)
      BY <1>4, <1>7, <1>8, <1>10, <2>2, <3>1, <3>3, <3>4 DEF ViewedAt
    <3> QED BY <1>4, <2>2, <3>5 DEF GivenAt, PassedAt
  <2>3. \A i \in DOMAIN new.out : i \in DOMAIN st.out
           \/ /\ ViewedAt(new.out, n, i) /\ GivenAt(new.out, n, i)
              /\ loose = {} => PassedAt(new.out, n, i)
    BY <1>10, <2>1, <2>2
  <2> QED BY <1>10, <2>3, StillRight DEF n
<1>14. ASSUME loose = {} PROVE Kept(new, n) /\ Follows(new, n)
  <2>1. Kept(new, n)
    BY <1>6, <1>9, <1>14 DEF Sound, Kept
  <2>2. x.type # "call"
    BY <1>1
  <2> QED BY <1>1, <1>14, <2>1, <2>2, StillFollows DEF Sound, n
<1>15. Sound(new, n, loose)
  BY <1>2, <1>11, <1>12, <1>13, <1>14 DEF Sound
<1> QED BY <1>15 DEF new, n

(* Without a loose fragment, one that has no id belongs to the active call. *)
LEMMA FragmentOf ==
    ASSUME NEW st, NEW said, Follows(st, said), NEW x, MayOmitId(said, x), ~Loose(said, x)
    PROVE  st.active = x.id
<1>1. PICK i \in DOMAIN said : said[i].id = x.id /\ IsLastCall(said, i)
  BY DEF MayOmitId
<1>2. Named(said, said[i].id) /\ ~AnsweredSince(said)
  BY <1>1 DEF Loose
<1> QED BY <1>1, <1>2 DEF Follows

(* A fragment of a call of the agent, with its id or without it. *)
LEMMA CallSound ==
    ASSUME NEW st, NEW said, NEW loose, Sound(st, said, loose),
           NEW x, MayFollow(said, x), x.type = "call", NEW id \in {x.id, "none"}, NEW more,
           more = {} => loose = {} /\ (id = x.id \/ (MayOmitId(said, x) /\ ~Loose(said, x)))
    PROVE  Sound(Taken(st, [x EXCEPT !.id = id]), Append(said, x), more)
<1> DEFINE n == Append(said, x)
           y == [x EXCEPT !.id = id]
           new == Taken(st, y)
           c == IF id = "none" THEN st.active ELSE id
           m == Merged(st, c, y)
           e == Event("function_call", c, m)
           l == Len(st.out)
           h == x.id
           k == Len(said)
<1>1. /\ said \in Seq(Contents) /\ Spoken(said) /\ x \in Contents /\ h \in CallId /\ h # "none"
      /\ ~Answered(said, h) /\ ~Hosted(said, h) /\ "none" \notin CallId
  BY SessionAssumption DEF Sound, Spoken, MayFollow, Proper, Calling, Results, Contents
<1>2. Spoken(n)
  BY <1>1, SpokenMore
<1>3. y.type = "call" /\ y.id = id /\ y.name = x.name /\ y.part = x.part
      /\ x.name \in ToolName \cup {"none"} /\ x.part \in Nat
  BY <1>1 DEF Contents
<1>4. /\ st = [f \in StreamFields |-> st[f]] /\ st.out \in Seq(Sendable)
      /\ st.calls \in [CallId -> CallEntry] /\ st.shown \in [CallId -> CallEntry]
      /\ st.active \in CallId \cup {"none"} /\ c \in CallId \cup {"none"}
  BY <1>1 DEF Sound, TypedStream
<1>5. more = {} => loose = {} /\ c = h
  <2> SUFFICES ASSUME more = {} PROVE c = h
    OBVIOUS
  <2>1. CASE id = h
    BY <1>1, <2>1
  <2>2. CASE MayOmitId(said, x) /\ ~Loose(said, x)
    <3>1. st.active = h
      BY <2>2, FragmentOf DEF Sound
    <3> QED BY <3>1
  <2> QED BY <2>1, <2>2
<1>6. new = IF c = "none" THEN st
            ELSE IF m.name = "none" THEN [st EXCEPT !.calls[c] = m]
            ELSE [st EXCEPT !.calls[c] = m, !.active = c, !.shown[c] = m, !.out = @ \o <<e>>]
  <2>1. new = FunctionCall(st, y)
    BY <1>3 DEF Taken
  <2> QED BY <1>3, <2>1 DEF FunctionCall, Emit
<1>7. c # "none" => /\ m \in CallEntry /\ m.args = Append(st.calls[c].args, x.part)
                    /\ m.name = IF x.name = "none" THEN st.calls[c].name ELSE x.name
  <2> HIDE DEF c, y
  <2> QED BY <1>3, <1>4 DEF Merged, CallEntry
<1>8. c # "none" => /\ e \in Sendable /\ e.event = "function_call" /\ e.id = c /\ e.name = m.name
  <2> HIDE DEF c, m
  <2> QED BY <1>4, <1>7, EventSendable DEF EventNames
<1>9. \A d \in CallId : /\ Hosted(n, d) <=> Hosted(said, d)
                        /\ Named(n, d) <=> Named(said, d) \/ (h = d /\ x.name # "none")
                        /\ ArgsOf(n, d) = IF h = d THEN Append(ArgsOf(said, d), x.part)
                                          ELSE ArgsOf(said, d)
  BY <1>1, SaidMore DEF Calling
<1>10. /\ k \in Nat /\ DOMAIN said = 1 .. k /\ DOMAIN n = 1 .. k + 1 /\ Len(n) = k + 1 /\ n[k + 1] = x
  BY <1>1, SaidMore
<1> SUFFICES Sound(new, n, more)
  OBVIOUS
<1> HIDE DEF n, y, new, c, m, e, k
<1>11. CASE c = "none"
  <2>1. new = st /\ more # {}
    BY <1>1, <1>5, <1>6, <1>11
  <2>2. \A i \in DOMAIN st.out : ViewedAt(st.out, n, i) /\ GivenAt(st.out, n, i)
    <3> DEFINE out == st.out
    <3>1. \A i \in DOMAIN out : i \in DOMAIN st.out \/
             /\ ViewedAt(out, Append(said, x), i) /\ GivenAt(out, Append(said, x), i)
             /\ loose = {} => PassedAt(out, Append(said, x), i)
      OBVIOUS
    <3>2. out \in Seq(Sendable) /\ Len(st.out) <= Len(out) /\ \A i \in DOMAIN st.out : out[i] = st.out[i]
      BY <1>4
    <3> HIDE DEF out
    <3>3. \A i \in DOMAIN out : ViewedAt(out, n, i) /\ GivenAt(out, n, i)
      BY <3>1, <3>2, StillRight DEF n
    <3> QED BY <3>3 DEF out
  <2> QED BY <1>2, <2>1, <2>2 DEF Sound
<1>12. CASE c # "none"
  <2>0. c \in CallId
    BY <1>4, <1>12
  <2>1. /\ new = [f \in StreamFields |-> new[f]] /\ new.calls = [st.calls EXCEPT ![c] = m]
        /\ \/ m.name = "none" /\ new.shown = st.shown /\ new.out = st.out /\ new.active = st.active
           \/ /\ m.name # "none" /\ new.shown = [st.shown EXCEPT ![c] = m]
              /\ new.out = st.out \o <<e>> /\ new.active = c
    BY <1>4, <1>6, <1>12 DEF StreamFields
  <2>2. /\ new.calls \in [CallId -> CallEntry] /\ new.calls[c] = m
        /\ \A d \in CallId \ {c} : new.calls[d] = st.calls[d]
    BY <1>4, <1>7, <1>12, <2>0, <2>1
  <2>3. /\ new.shown \in [CallId -> CallEntry]
        /\ \A d \in CallId \ {c} : new.shown[d] = st.shown[d]
        /\ new.active \in CallId \cup {"none"}
    BY <1>4, <1>7, <1>12, <2>0, <2>1
  <2>4. /\ new.out \in Seq(Sendable) /\ l \in Nat /\ l <= Len(new.out)
        /\ DOMAIN st.out = 1 .. l /\ DOMAIN st.out \subseteq DOMAIN new.out
        /\ \A i \in DOMAIN st.out : new.out[i] = st.out[i]
        /\ \A i \in DOMAIN new.out : i \in DOMAIN st.out \/ new.out[i] = e
        /\ \/ m.name = "none" /\ new.shown[c] = st.shown[c]
           \/ /\ m.name # "none" /\ l + 1 \in DOMAIN new.out /\ new.out[l + 1] = e
              /\ new.shown[c] = m /\ new.active = c
    <3> DEFINE out == st.out
    <3>1. out \in Seq(Sendable)
      BY <1>4
    <3>2. CASE m.name = "none" /\ new.shown = st.shown /\ new.out = st.out
      BY <1>4, <3>2
    <3>3. CASE m.name # "none" /\ new.shown = [st.shown EXCEPT ![c] = m]
               /\ new.out = out \o <<e>> /\ new.active = c
      <4> HIDE DEF out
      <4>1. /\ new.out \in Seq(Sendable) /\ Len(out) \in Nat /\ Len(new.out) = Len(out) + 1
            /\ DOMAIN out = 1 .. Len(out) /\ DOMAIN new.out = 1 .. Len(out) + 1
            /\ new.out[Len(out) + 1] = e /\ \A i \in DOMAIN out : new.out[i] = out[i]
        BY <1>8, <1>12, <3>1, <3>3, Sent1
      <4>2. \A i \in DOMAIN new.out : i \in DOMAIN out \/ new.out[i] = e
        BY <4>1
      <4>3. new.shown[c] = m
        BY <1>4, <2>0, <3>3
      <4>4. /\ new.out \in Seq(Sendable) /\ Len(out) \in Nat /\ Len(out) <= Len(new.out)
            /\ DOMAIN out = 1 .. Len(out) /\ DOMAIN out \subseteq DOMAIN new.out
            /\ \A i \in DOMAIN out : new.out[i] = out[i]
            /\ Len(out) + 1 \in DOMAIN new.out /\ new.out[Len(out) + 1] = e
        BY <4>1
      <4> QED BY <3>3, <4>2, <4>3, <4>4 DEF out
    <3> QED BY <2>1, <3>2, <3>3
  <2>5. TypedStream(new)
    BY <2>1, <2>2, <2>3, <2>4 DEF TypedStream
  <2>6. Told(new)
    <3>1. \A d \in CallId : new.shown[d] = st.shown[d]
             \/ \E j \in DOMAIN new.out : /\ new.out[j].event = "function_call" /\ new.out[j].id = d
                                          /\ new.out[j].name = new.shown[d].name
      BY <1>8, <1>12, <2>3, <2>4
    <3> QED BY <2>4, <3>1, StillTold DEF Sound
  <2>7. \A i \in DOMAIN new.out : /\ ViewedAt(new.out, n, i) /\ GivenAt(new.out, n, i)
                                  /\ loose = {} => PassedAt(new.out, n, i)
    <3>1. \A i \in DOMAIN new.out : i \in DOMAIN st.out
             \/ /\ ViewedAt(new.out, n, i) /\ GivenAt(new.out, n, i) /\ PassedAt(new.out, n, i)
      BY <1>8, <1>12, <2>4 DEF ViewedAt, GivenAt, PassedAt
    <3> QED BY <2>4, <3>1, StillRight DEF n
  <2>8. ASSUME more = {} PROVE Kept(new, n) /\ Follows(new, n)
    <3>1. loose = {} /\ c = h /\ Kept(st, said)
      BY <1>5, <2>8 DEF Sound
    <3>2. /\ st.calls[h].args = ArgsOf(said, h)
          /\ st.calls[h].name # "none" <=> Named(said, h)
      BY <1>1, <3>1 DEF Kept
    <3>3. /\ m.args = ArgsOf(n, h) /\ (m.name # "none" <=> Named(n, h))
          /\ Named(n, h) => new.shown[h] = m /\ new.active = h
      BY <1>1, <1>7, <1>9, <1>12, <2>4, <3>1, <3>2
    <3>4. Kept(new, n)
      <4> SUFFICES ASSUME NEW d \in CallId, ~Hosted(n, d)
                   PROVE  /\ new.calls[d].args = ArgsOf(n, d)
                          /\ new.calls[d].name # "none" <=> Named(n, d)
                          /\ Named(n, d) => new.shown[d] = new.calls[d]
        BY DEF Kept
      <4>1. CASE d = h
        BY <2>2, <3>1, <3>3, <4>1
      <4>2. CASE d # h
        BY <1>9, <2>2, <2>3, <3>1, <4>2 DEF Kept
      <4> QED BY <4>1, <4>2
    <3>5. Follows(new, n)
      <4> SUFFICES ASSUME NEW i \in DOMAIN n, IsLastCall(n, i), Named(n, n[i].id)
                   PROVE  new.active = n[i].id
        BY DEF Follows
      <4>1. i = k + 1
        BY <1>10 DEF IsLastCall
      <4> QED BY <1>10, <3>3, <4>1
    <3> QED BY <3>4, <3>5
  <2> QED BY <1>2, <1>5, <2>5, <2>6, <2>7, <2>8 DEF Sound
<1> QED BY <1>11, <1>12

(* Whatever the agent streams. *)
LEMMA TakenSound ==
    ASSUME NEW st, NEW said, NEW loose, Sound(st, said, loose),
           NEW x, MayFollow(said, x), NEW id, id = x.id \/ (id = "none" /\ MayOmitId(said, x)), NEW more,
           more = {} => loose = {} /\ (id = x.id \/ ~Loose(said, x))
    PROVE  Sound(Taken(st, [x EXCEPT !.id = id]), Append(said, x), more)
<1>1. CASE x.type = "call"
  BY <1>1, CallSound
<1>2. CASE x.type # "call"
  <2>1. id = x.id
    BY <1>2 DEF MayOmitId
  <2>2. [x EXCEPT !.id = id] = x
    BY <2>1 DEF MayFollow, Proper, Contents
  <2>3. x.type \in {"hosted_call", "text", "approval"} \cup Results
    BY <1>2 DEF MayFollow, Proper, Contents, Calling
  <2>4. Sound(Taken(st, x), Append(said, x), loose)
    BY <2>3, HostedSound, PlainSound, ResultSound
  <2>5. Sound(Taken(st, x), Append(said, x), more)
    BY <2>4 DEF Sound
  <2> QED BY <2>2, <2>5
<1> QED BY <1>1, <1>2

----------------------------------------------------------------------------
(* Turns and their events *)

(* A stream that has ended has "done" at its end only, and its result unless an
   error came before it. *)
Ends(m) ==
    LET out == m.stream.out
        result == m.stream.result
    IN  IF m.pc = "over"
        THEN /\ out # <<>>
             /\ \A i \in DOMAIN out : out[i].event = "done" <=> i = Len(out)
             /\ result.filled <=> ~(Len(out) - 1 \in DOMAIN out /\ out[Len(out) - 1].event = "error")
             /\ result.filled => result.calls = Recorded(m.said)
        ELSE /\ result = NoResult
             /\ \A i \in DOMAIN out : out[i].event \notin {"done", "error"}

Heard(m) == Sound(m.stream, m.said, m.loose) /\ Ends(m)
AllHeard == \A t \in Turn : Heard(turn[t])

(* Events after others. *)
LEMMA OneAfter ==
    ASSUME NEW S, NEW out \in Seq(S), NEW e
    PROVE  LET new == out \o <<e>> IN
           /\ Len(out) \in Nat /\ Len(new) = Len(out) + 1
           /\ DOMAIN out = 1 .. Len(out) /\ DOMAIN new = 1 .. Len(out) + 1
           /\ new[Len(out) + 1] = e /\ \A i \in DOMAIN out : new[i] = out[i]
<1>1. out \in Seq(S \cup {e}) /\ <<e>> \in Seq(S \cup {e})
  OBVIOUS
<1> QED BY <1>1

(* The same of two events. *)
LEMMA TwoAfter ==
    ASSUME NEW S, NEW out \in Seq(S), NEW e, NEW f
    PROVE  LET new == out \o (<<e>> \o <<f>>) IN
           /\ Len(out) \in Nat /\ Len(new) = Len(out) + 2
           /\ DOMAIN out = 1 .. Len(out) /\ DOMAIN new = 1 .. Len(out) + 2
           /\ new[Len(out) + 1] = e /\ new[Len(out) + 2] = f
           /\ \A i \in DOMAIN out : new[i] = out[i]
<1> DEFINE A == S \cup {e, f}
           ef == <<e>> \o <<f>>
<1>1. out \in Seq(A) /\ <<e>> \in Seq(A) /\ <<f>> \in Seq(A)
  OBVIOUS
<1> HIDE DEF A
<1>2. ef \in Seq(A) /\ Len(ef) = 2 /\ ef[1] = e /\ ef[2] = f
  BY <1>1
<1> HIDE DEF ef
<1> DEFINE new == out \o ef
<1>3. Len(out) \in Nat /\ DOMAIN out = 1 .. Len(out)
  BY <1>1
<1>4. new \in Seq(A)
  BY <1>1, <1>2
<1>5. Len(new) = Len(out) + 2
  <2>1. Len(new) = Len(out) + Len(ef)
    BY <1>1, <1>2, ConcatProperties
  <2> QED BY <1>2, <2>1
<1>6. \A i \in DOMAIN out : new[i] = out[i]
  BY <1>1, <1>2
<1>7. \A k \in 1 .. 2 : new[Len(out) + k] = ef[k]
  BY <1>1, <1>2
<1> HIDE DEF new
<1>8. new[Len(out) + 1] = e /\ new[Len(out) + 2] = f
  BY <1>2, <1>7
<1>9. DOMAIN new = 1 .. Len(out) + 2
  BY <1>4, <1>5
<1> QED BY <1>3, <1>5, <1>6, <1>8, <1>9 DEF ef, new

(* What the agent streams ends nothing. *)
LEMMA TakenQuiet ==
    ASSUME NEW st, TypedStream(st), NEW x,
           \A i \in DOMAIN st.out : st.out[i].event \notin {"done", "error"}
    PROVE  /\ Taken(st, x).result = st.result
           /\ \A i \in DOMAIN Taken(st, x).out : Taken(st, x).out[i].event \notin {"done", "error"}
<1> DEFINE out == st.out
           Quiet(new) == /\ new.result = st.result
                         /\ \A i \in DOMAIN new.out : new.out[i].event \notin {"done", "error"}
<1>0. st = [f \in StreamFields |-> st[f]] /\ out \in Seq(Sendable) /\ Quiet(st)
  BY DEF TypedStream
<1>1. ASSUME NEW new, new.result = st.result, NEW e, e.event \notin {"done", "error"},
             new.out = out \o <<e>>
      PROVE  Quiet(new)
  <2> HIDE DEF out
  <2>1. /\ DOMAIN out = 1 .. Len(out) /\ DOMAIN new.out = 1 .. Len(out) + 1 /\ Len(out) \in Nat
        /\ new.out[Len(out) + 1] = e /\ \A i \in DOMAIN out : new.out[i] = out[i]
    BY <1>0, <1>1, OneAfter
  <2>2. \A i \in DOMAIN new.out : i \in DOMAIN out \/ i = Len(out) + 1
    BY <2>1
  <2> QED BY <1>0, <1>1, <2>1, <2>2 DEF out
<1>2. ASSUME NEW new, new.result = st.result, NEW e, e.event \notin {"done", "error"},
             NEW f, f.event \notin {"done", "error"}, new.out = out \o (<<e>> \o <<f>>)
      PROVE  Quiet(new)
  <2> HIDE DEF out
  <2>1. /\ DOMAIN out = 1 .. Len(out) /\ DOMAIN new.out = 1 .. Len(out) + 2 /\ Len(out) \in Nat
        /\ new.out[Len(out) + 1] = e /\ new.out[Len(out) + 2] = f
        /\ \A i \in DOMAIN out : new.out[i] = out[i]
    BY <1>0, <1>2, TwoAfter
  <2>2. \A i \in DOMAIN new.out : i \in DOMAIN out \/ i = Len(out) + 1 \/ i = Len(out) + 2
    BY <2>1
  <2> QED BY <1>0, <1>2, <2>1, <2>2 DEF out
<1> SUFFICES Quiet(Taken(st, x))
  OBVIOUS
<1> HIDE DEF Quiet
<1>3. CASE x.type = "call"
  <2> DEFINE c == IF x.id = "none" THEN st.active ELSE x.id
             m == Merged(st, c, x)
             e == Event("function_call", c, m)
  <2>1. \/ Taken(st, x) = st
        \/ Taken(st, x) = [st EXCEPT !.calls[c] = m]
        \/ Taken(st, x) = [st EXCEPT !.calls[c] = m, !.active = c, !.shown[c] = m, !.out = @ \o <<e>>]
    BY <1>3 DEF Taken, FunctionCall, Emit
  <2>2. e.event = "function_call"
    BY DEF Event
  <2> HIDE DEF c, m, e
  <2>3. CASE Taken(st, x) = [st EXCEPT !.calls[c] = m]
    <3>1. Taken(st, x).result = st.result /\ Taken(st, x).out = out
      BY <1>0, <2>3 DEF StreamFields
    <3> QED BY <1>0, <3>1 DEF Quiet
  <2>4. CASE Taken(st, x) = [st EXCEPT !.calls[c] = m, !.active = c, !.shown[c] = m, !.out = @ \o <<e>>]
    <3>1. Taken(st, x).result = st.result /\ Taken(st, x).out = out \o <<e>>
      BY <1>0, <2>4 DEF StreamFields
    <3> QED BY <1>1, <2>2, <3>1
  <2> QED BY <1>0, <2>1, <2>3, <2>4
<1>4. CASE x.type = "hosted_call"
  <2> DEFINE entry == [name |-> x.name, args |-> <<x.part>>]
             e == Event("function_call", x.id, entry)
  <2>1. \/ Taken(st, x) = st
        \/ Taken(st, x) = [st EXCEPT !.shown[x.id] = entry, !.out = @ \o <<e>>]
    BY <1>4 DEF Taken, HostedCall, Emit
  <2>2. e.event = "function_call"
    BY DEF Event
  <2> HIDE DEF e, entry
  <2>3. CASE Taken(st, x) = [st EXCEPT !.shown[x.id] = entry, !.out = @ \o <<e>>]
    <3>1. Taken(st, x).result = st.result /\ Taken(st, x).out = out \o <<e>>
      BY <1>0, <2>3 DEF StreamFields
    <3> QED BY <1>1, <2>2, <3>1
  <2> QED BY <1>0, <2>1, <2>3
<1>5. CASE x.type \in {"text", "approval"}
  <2> DEFINE e == Plain(IF x.type = "text" THEN "text" ELSE "tool_approval_request")
  <2>1. Taken(st, x) = [st EXCEPT !.out = @ \o <<e>>]
    BY <1>5 DEF Taken, Emit
  <2>2. e.event \in {"text", "tool_approval_request"}
    BY DEF Event, Plain
  <2> HIDE DEF e
  <2>3. Taken(st, x).result = st.result /\ Taken(st, x).out = out \o <<e>>
    BY <1>0, <2>1 DEF StreamFields
  <2> QED BY <1>1, <2>2, <2>3
<1>6. CASE x.type \notin {"call", "hosted_call", "text", "approval"}
  <2> DEFINE entry == IF x.id = "none" THEN NoEntry ELSE st.shown[x.id]
             e == Event("function_result", x.id, entry)
             v == Event("agent_view", x.id, entry)
             view == Rendered(entry, x)
  <2>1. Taken(st, x) = [st EXCEPT !.active = "none",
                                  !.out = @ \o (<<e>> \o IF view THEN <<v>> ELSE <<>>)]
    BY <1>6 DEF Taken, Result, Emit
  <2>2. e.event = "function_result" /\ v.event = "agent_view"
    BY DEF Event
  <2> HIDE DEF e, v, entry, view
  <2>3. Taken(st, x).result = st.result
        /\ Taken(st, x).out = out \o (<<e>> \o IF view THEN <<v>> ELSE <<>>)
    BY <1>0, <2>1 DEF StreamFields
  <2>4. CASE view
    BY <1>2, <2>2, <2>3, <2>4
  <2>5. CASE ~view
    <3>1. <<e>> \o <<>> = <<e>>
      OBVIOUS
    <3> QED BY <1>1, <2>2, <2>3, <2>5, <3>1
  <2> QED BY <2>4, <2>5
<1> QED BY <1>3, <1>4, <1>5, <1>6

(* Events at the end of a stream leave those before them as they are. *)
LEMMA FinalSound ==
    ASSUME NEW st, NEW said, NEW loose, Sound(st, said, loose), NEW new,
           new = [f \in StreamFields |-> new[f]], new.calls = st.calls, new.shown = st.shown,
           new.active = st.active, new.out \in Seq(Sendable), Len(st.out) <= Len(new.out),
           \A i \in DOMAIN st.out : new.out[i] = st.out[i],
           \A i \in DOMAIN new.out :
              i \in DOMAIN st.out \/ new.out[i].event \notin {"function_result", "agent_view"}
    PROVE  Sound(new, said, loose)
<1>1. TypedStream(new)
  BY DEF Sound, TypedStream
<1>2. DOMAIN st.out \subseteq DOMAIN new.out
  BY DEF Sound, TypedStream
<1>3. Told(new)
  BY <1>2, StillTold DEF Sound
<1>4. ASSUME NEW i \in DOMAIN new.out
      PROVE  /\ ViewedAt(new.out, said, i) /\ GivenAt(new.out, said, i)
             /\ loose = {} => PassedAt(new.out, said, i)
  <2>1. CASE i \in DOMAIN st.out
    <3>1. /\ ViewedAt(st.out, said, i) /\ GivenAt(st.out, said, i)
          /\ loose = {} => PassedAt(st.out, said, i)
      BY <2>1 DEF Sound
    <3>2. ViewedAt(new.out, said, i)
      BY <1>2, <2>1, <3>1 DEF ViewedAt
    <3>3. GivenAt(new.out, said, i) /\ (loose = {} => PassedAt(new.out, said, i))
      BY <2>1, <3>1 DEF GivenAt, PassedAt
    <3> QED BY <3>2, <3>3
  <2>2. CASE new.out[i].event \notin {"function_result", "agent_view"}
    BY <2>2 DEF ViewedAt, GivenAt, PassedAt
  <2> QED BY <2>1, <2>2
<1>5. loose = {} => Kept(new, said) /\ Follows(new, said)
  BY DEF Sound, Kept, Follows
<1> QED BY <1>1, <1>3, <1>4, <1>5 DEF Sound

(* Two events after others, and nothing more. *)
Two(o, new, e, f) ==
    /\ Len(o) \in Nat /\ Len(new) = Len(o) + 2
    /\ DOMAIN o = 1 .. Len(o) /\ DOMAIN new = 1 .. Len(o) + 2
    /\ new[Len(o) + 1] = e /\ new[Len(o) + 2] = f
    /\ \A i \in DOMAIN o : new[i] = o[i]
    /\ \A i \in DOMAIN new : i = Len(o) + 1 \/ i = Len(o) + 2 \/ i \in DOMAIN o

(* That is what two events make. *)
LEMMA LastTwo ==
    ASSUME NEW o \in Seq(Sendable), NEW e, NEW f PROVE Two(o, o \o (<<e>> \o <<f>>), e, f)
<1> DEFINE new == o \o (<<e>> \o <<f>>)
<1>1. /\ Len(o) \in Nat /\ Len(new) = Len(o) + 2
      /\ DOMAIN o = 1 .. Len(o) /\ DOMAIN new = 1 .. Len(o) + 2
      /\ new[Len(o) + 1] = e /\ new[Len(o) + 2] = f /\ \A i \in DOMAIN o : new[i] = o[i]
  BY TwoAfter
<1> HIDE DEF new
<1>2. Two(o, new, e, f)
  BY <1>1 DEF Two
<1> QED BY <1>2 DEF new

(* An event of nothing in particular. *)
LEMMA PlainSendable ==
    ASSUME NEW e \in EventNames PROVE Plain(e) \in Sendable /\ Plain(e).event = e
<1> DEFINE c == "none"
<1>1. NoEntry \in CallEntry /\ c \in CallId \cup {"none"}
  BY DEF NoEntry, CallEntry
<1> HIDE DEF c
<1>2. Event(e, c, NoEntry) \in Sendable /\ Event(e, c, NoEntry).event = e
  BY <1>1, EventSendable
<1> QED BY <1>2 DEF Plain, c

(* The last events of a stream: "done", after a usage, an error or neither. *)
LEMMA Ending ==
    ASSUME NEW m, Heard(m), m.pc = "streaming",
           NEW n, n.pc = "over", n.said = m.said, n.loose = m.loose,
           n.stream = [f \in StreamFields |-> n.stream[f]], n.stream.calls = m.stream.calls,
           n.stream.shown = m.stream.shown, n.stream.active = m.stream.active,
           NEW kind \in {"usage", "error"},
           \/ n.stream.out = m.stream.out \o <<Plain("done")>> /\ n.stream.result.filled
           \/ /\ n.stream.out = m.stream.out \o (<<Plain(kind)>> \o <<Plain("done")>>)
              /\ n.stream.result.filled <=> kind # "error",
           n.stream.result.filled => n.stream.result.calls = Recorded(m.said)
    PROVE  Heard(n)
<1> DEFINE d == Plain("done")
           u == Plain(kind)
           out == m.stream.out
           new == n.stream.out
<1>1. /\ d \in Sendable /\ d.event = "done" /\ u \in Sendable /\ u.event = kind
  <2>1. {"done", "usage", "error"} \subseteq EventNames
    BY DEF EventNames
  <2> QED BY <2>1, PlainSendable
<1>2. /\ Sound(m.stream, m.said, m.loose) /\ out \in Seq(Sendable)
      /\ \A i \in DOMAIN out : out[i].event \notin {"done", "error"}
  BY DEF Heard, Ends, Sound, TypedStream
<1>3. \/ new = out \o <<d>> /\ n.stream.result.filled
      \/ new = out \o (<<u>> \o <<d>>) /\ (n.stream.result.filled <=> kind # "error")
  OBVIOUS
<1> SUFFICES /\ new \in Seq(Sendable) /\ Len(out) <= Len(new)
             /\ \A i \in DOMAIN out : new[i] = out[i]
             /\ \A i \in DOMAIN new : i \in DOMAIN out \/ new[i].event \in {"usage", "error", "done"}
             /\ Ends(n)
  <2> HIDE DEF d, u
  <2>1. \A i \in DOMAIN new : i \in DOMAIN out \/ new[i].event \notin {"function_result", "agent_view"}
    OBVIOUS
  <2>2. Sound(n.stream, n.said, n.loose)
    BY <1>2, <2>1, FinalSound
  <2> QED BY <2>2 DEF Heard
<1> HIDE DEF d, u, out, new
<1>4. CASE new = out \o <<d>> /\ n.stream.result.filled
  <2> DEFINE o == out
  <2>0. o = out /\ o \in Seq(Sendable) /\ new = o \o <<d>>
    BY <1>2, <1>4
  <2> HIDE DEF o
  <2>1. /\ new \in Seq(Sendable) /\ Len(o) \in Nat /\ Len(new) = Len(o) + 1
        /\ DOMAIN o = 1 .. Len(o) /\ DOMAIN new = 1 .. Len(o) + 1
        /\ new[Len(o) + 1] = d /\ \A i \in DOMAIN o : new[i] = o[i]
    BY <1>1, <2>0, Sent1
  <2>2. \A i \in DOMAIN new : i = Len(o) + 1 \/ i \in DOMAIN o
    BY <2>1
  <2>3. new # <<>>
    BY <2>1
  <2>4. \A i \in DOMAIN new : new[i].event = "done" <=> i = Len(new)
    BY <1>1, <1>2, <2>0, <2>1, <2>2
  <2>5. ~(Len(new) - 1 \in DOMAIN new /\ new[Len(new) - 1].event = "error")
    <3>1. Len(new) - 1 = Len(o)
      BY <2>1
    <3>2. Len(o) \in DOMAIN new => Len(o) \in DOMAIN o
      BY <2>1
    <3> QED BY <1>2, <2>0, <2>1, <3>1, <3>2
  <2>6. Ends(n)
    BY <1>4, <2>3, <2>4, <2>5 DEF Ends, new
  <2> QED BY <1>1, <2>0, <2>1, <2>2, <2>6
<1>5. CASE new = out \o (<<u>> \o <<d>>) /\ (n.stream.result.filled <=> kind # "error")
  <2> DEFINE o == out
  <2>0. o = out /\ o \in Seq(Sendable) /\ new = o \o (<<u>> \o <<d>>)
    BY <1>2, <1>5
  <2> HIDE DEF o
  <2>1. /\ Len(o) \in Nat /\ Len(new) = Len(o) + 2
        /\ DOMAIN o = 1 .. Len(o) /\ DOMAIN new = 1 .. Len(o) + 2
        /\ new[Len(o) + 1] = u /\ new[Len(o) + 2] = d /\ \A i \in DOMAIN o : new[i] = o[i]
        /\ \A i \in DOMAIN new : i = Len(o) + 1 \/ i = Len(o) + 2 \/ i \in DOMAIN o
    <3>1. Two(o, o \o (<<u>> \o <<d>>), u, d)
      BY <2>0, LastTwo
    <3>2. Two(o, new, u, d)
      BY <2>0, <3>1
    <3> QED BY <3>2 DEF Two
  <2>3. new # <<>>
    BY <2>1
  <2>4. \A i \in DOMAIN new : new[i].event = "done" <=> i = Len(new)
    BY <1>1, <1>2, <2>0, <2>1
  <2>5. (Len(new) - 1 \in DOMAIN new /\ new[Len(new) - 1].event = "error") <=> kind = "error"
    <3>1. Len(new) - 1 = Len(o) + 1 /\ Len(o) + 1 \in DOMAIN new
      BY <2>1
    <3> QED BY <1>1, <2>1, <3>1
  <2>6. Ends(n)
    BY <1>5, <2>3, <2>4, <2>5 DEF Ends, new
  <2>7. new \in Seq(Sendable)
    <3>1. <<u>> \o <<d>> \in Seq(Sendable)
      BY <1>1
    <3> QED BY <2>0, <3>1, ConcatProperties
  <2>8. Len(o) <= Len(new)
    BY <2>1
  <2> QED BY <1>1, <2>0, <2>1, <2>6, <2>7, <2>8
<1> QED BY <1>3, <1>4, <1>5

(* A turn that is sent has said and streamed nothing. *)
LEMMA BeginHeard == Heard(Unsent)
<1> DEFINE st == NewStream(CallId)
<1>1. /\ st = [f \in StreamFields |-> st[f]] /\ st.out = <<>> /\ st.result = NoResult
      /\ st.active = "none"
      /\ \A c \in CallId : st.calls[c] = NoEntry /\ st.shown[c] = NoEntry
      /\ st.calls \in [CallId -> {NoEntry}] /\ st.shown \in [CallId -> {NoEntry}]
  BY DEF NewStream, StreamFields
<1>2. Unsent.stream = st /\ Unsent.said = <<>> /\ Unsent.pc = "unsent"
  BY DEF Unsent
<1> HIDE DEF st
<1>3. NoEntry \in CallEntry /\ NoEntry.args = <<>> /\ NoEntry.name = "none"
  BY DEF NoEntry, CallEntry
<1>4. TypedStream(st) /\ Told(st)
  <2>1. st.calls \in [CallId -> CallEntry] /\ st.shown \in [CallId -> CallEntry]
    BY <1>1, <1>3
  <2>2. st.out \in Seq(Sendable)
    <3>1. <<>> \in Seq(Sendable)
      OBVIOUS
    <3> QED BY <1>1, <3>1
  <2>3. TypedStream(st)
    BY <1>1, <2>1, <2>2 DEF TypedStream
  <2> QED BY <1>1, <2>3 DEF Told
<1>5. Spoken(<<>>)
  BY DEF Spoken
<1>6. Kept(st, <<>>) /\ Follows(st, <<>>)
  <2>1. \A c : ArgsOf(<<>>, c) = <<>> /\ ~Named(<<>>, c)
    <3> SUFFICES ASSUME NEW c PROVE ArgsOf(<<>>, c) = <<>> /\ ~Named(<<>>, c)
      OBVIOUS
    <3>1. <<>> \in Seq(Contents)
      OBVIOUS
    <3>2. DOMAIN <<>> = {}
      OBVIOUS
    <3>3. Parts(<<>>, c) = <<>> /\ ArgsOf(<<>>, c) = Args(Parts(<<>>, c))
      <4> DEFINE said == <<>>
      <4>1. said \in Seq(Contents) /\ DOMAIN said = {}
        OBVIOUS
      <4> HIDE DEF said
      <4>2. Parts(said, c) = <<>> /\ ArgsOf(said, c) = Args(Parts(said, c))
        BY <4>1, PartsType
      <4> QED BY <4>2 DEF said
    <3>4. Args(<<>>) = <<>>
      BY <3>1, ArgsType
    <3> QED BY <3>2, <3>3, <3>4 DEF Named
  <2> QED BY <1>1, <1>3, <2>1 DEF Kept, Follows
<1>7. Sound(st, <<>>, Unsent.loose)
  BY <1>1, <1>4, <1>5, <1>6 DEF Sound
<1> QED BY <1>1, <1>2, <1>7 DEF Heard, Ends

(* What the agent says next. *)
LEMMA SayHeard ==
    ASSUME NEW m, Sent(m), Heard(m), m.pc = "streaming", NEW x \in Saying(m.said),
           NEW id \in {x.id} \cup (IF MayOmitId(m.said, x) THEN {"none"} ELSE {})
    PROVE  Heard([m EXCEPT
                    !.said = Append(m.said, x),
                    !.loose = @ \cup (IF id # x.id /\ Loose(m.said, x) THEN CallId ELSE {}),
                    !.stream = Taken(@, [x EXCEPT !.id = id])])
<1> DEFINE st == m.stream
           more == m.loose \cup (IF id # x.id /\ Loose(m.said, x) THEN CallId ELSE {})
           y == [x EXCEPT !.id = id]
           n == [m EXCEPT !.said = Append(m.said, x), !.loose = more, !.stream = Taken(st, y)]
<1>1. Sound(st, m.said, m.loose) /\ Ends(m) /\ Spoken(m.said) /\ TypedStream(st)
  BY DEF Heard, Sound
<1>2. MayFollow(m.said, x)
  BY <1>1, SayingFollows
<1>3. id = x.id \/ (id = "none" /\ MayOmitId(m.said, x))
  OBVIOUS
<1>4. more = {} => m.loose = {} /\ (id = x.id \/ ~Loose(m.said, x))
  <2>1. id # x.id => x.id \in CallId
    BY <1>2, <1>3, SessionAssumption DEF MayOmitId, MayFollow, Proper, Contents
  <2> QED BY <2>1
<1>5. Taken(st, y).result = st.result
      /\ \A i \in DOMAIN Taken(st, y).out : Taken(st, y).out[i].event \notin {"done", "error"}
  <2>1. st.result = NoResult /\ \A i \in DOMAIN st.out : st.out[i].event \notin {"done", "error"}
    BY <1>1 DEF Ends
  <2> HIDE DEF st, y
  <2> QED BY <1>1, <2>1, TakenQuiet
<1>6. n.pc = "streaming" /\ n.said = Append(m.said, x) /\ n.loose = more /\ n.stream = Taken(st, y)
  BY DEF Sent, TurnFields
<1>7. Sound(Taken(st, y), Append(m.said, x), more)
  <2> HIDE DEF st, more
  <2> QED BY <1>1, <1>2, <1>3, <1>4, TakenSound
<1> SUFFICES Heard(n)
  OBVIOUS
<1> HIDE DEF n, more, y
<1>8. Ends(n)
  BY <1>1, <1>5, <1>6 DEF Ends
<1> QED BY <1>6, <1>7, <1>8 DEF Heard

(* The end of the agent's stream, and of one that fails. *)
LEMMA OverHeard ==
    ASSUME NEW m, Sent(m), Heard(m), m.pc = "streaming"
    PROVE  /\ \A usage \in BOOLEAN :
                 Heard([m EXCEPT !.pc = "over", !.stream = Completed(@, usage, m.said)])
           /\ Heard([m EXCEPT !.pc = "over", !.stream = Failed(@)])
<1> DEFINE st == m.stream
<1>1. st = [f \in StreamFields |-> st[f]] /\ st.out \in Seq(Sendable) /\ st.result = NoResult
  BY DEF Heard, Sound, TypedStream, Ends
<1>2. ASSUME NEW usage \in BOOLEAN
      PROVE  Heard([m EXCEPT !.pc = "over", !.stream = Completed(@, usage, m.said)])
  <2> DEFINE new == Completed(st, usage, m.said)
             n == [m EXCEPT !.pc = "over", !.stream = new]
             last == (IF usage THEN <<Plain("usage")>> ELSE <<>>) \o <<Plain("done")>>
  <2>1. /\ new = [f \in StreamFields |-> new[f]] /\ new.calls = st.calls /\ new.shown = st.shown
        /\ new.active = st.active /\ new.out = st.out \o last
        /\ new.result = [filled |-> TRUE, calls |-> Recorded(m.said)]
    <3> HIDE DEF last
    <3>1. new = [[st EXCEPT !.out = @ \o last] EXCEPT
                   !.result = [filled |-> TRUE, calls |-> Recorded(m.said)]]
      BY DEF Completed, Emit, last
    <3> HIDE DEF new, st
    <3> QED BY <1>1, <3>1 DEF StreamFields
  <2>2. new.result.filled /\ new.result.calls = Recorded(m.said)
    BY <2>1
  <2>3. n.pc = "over" /\ n.said = m.said /\ n.loose = m.loose /\ n.stream = new
    BY DEF Sent, TurnFields
  <2>4. last = <<Plain("done")>> \/ last = <<Plain("usage")>> \o <<Plain("done")>>
    <3> DEFINE d == <<Plain("done")>>
    <3>1. d \in Seq({Plain("done")})
      OBVIOUS
    <3>2. <<>> \o d = d
      <4> HIDE DEF d
      <4> QED BY <3>1, ConcatEmptySeq
    <3> QED BY <3>2
  <2> SUFFICES Heard(n)
    OBVIOUS
  <2> HIDE DEF n, new, last
  <2> QED BY <2>1, <2>2, <2>3, <2>4, Ending
<1>3. Heard([m EXCEPT !.pc = "over", !.stream = Failed(@)])
  <2> DEFINE new == Failed(st)
             n == [m EXCEPT !.pc = "over", !.stream = new]
             last == <<Plain("error"), Plain("done")>>
  <2>1. /\ new = [f \in StreamFields |-> new[f]] /\ new.calls = st.calls /\ new.shown = st.shown
        /\ new.active = st.active /\ new.out = st.out \o last /\ new.result = NoResult
    <3> HIDE DEF last
    <3>1. new = [st EXCEPT !.out = @ \o last]
      BY DEF Failed, Emit, last
    <3> HIDE DEF new, st
    <3> QED BY <1>1, <3>1 DEF StreamFields
  <2>2. ~new.result.filled
    BY <2>1 DEF NoResult
  <2>3. n.pc = "over" /\ n.said = m.said /\ n.loose = m.loose /\ n.stream = new
    BY DEF Sent, TurnFields
  <2>4. last = <<Plain("error")>> \o <<Plain("done")>>
    OBVIOUS
  <2> SUFFICES Heard(n)
    OBVIOUS
  <2> HIDE DEF n, new, last
  <2> QED BY <2>1, <2>2, <2>3, <2>4, Ending
<1> QED BY <1>2, <1>3

(* Every step of the turns keeps what is streamed as it should be. *)
LEMMA NextHeard == Inv /\ AllHeard /\ [Next]_vars => AllHeard'
<1> SUFFICES ASSUME Inv, AllHeard, [Next]_vars PROVE AllHeard'
  OBVIOUS
<1>1. /\ turn = [u \in Turn |-> turn[u]] /\ DOMAIN plan.tokens \subseteq Turn
      /\ \A u \in Turn : Sent(turn[u]) /\ Heard(turn[u])
  BY PlanDomain DEF Inv, Typed, Turns, AllHeard
<1>2. ASSUME NEW t \in Turn, NEW next, turn' = [turn EXCEPT ![t] = next], Heard(next)
      PROVE  AllHeard'
  <2>1. \A u \in Turn : turn'[u] = IF u = t THEN next ELSE turn[u]
    BY <1>1, <1>2
  <2> SUFFICES ASSUME NEW u \in Turn PROVE Heard(turn'[u])
    BY DEF AllHeard
  <2> QED BY <1>1, <1>2, <2>1
<1>3. ASSUME turn' = turn PROVE AllHeard'
  BY <1>1, <1>3 DEF AllHeard
<1>4. ASSUME NEW r \in DOMAIN plan.body,
             \/ Arrive(r) \/ KeysRead(r) \/ KeysArrive(r) \/ KeysFail(r)
             \/ ReadSkills(r) \/ ReadRef(r) \/ Resume(r) \/ GrantDatabase(r) \/ ReadProfile(r)
             \/ StoreFails(r) \/ Connects(r) \/ ConnectFails(r) \/ Indexed(r) \/ IndexFails(r)
             \/ Cancel(r) \/ CloseOne(r) \/ Displaced(r) \/ CancelDisplacing(r) \/ TakesOff(r)
      PROVE  AllHeard'
  <2>1. turn' = turn
    BY <1>4 DEF Arrive, KeysRead, KeysArrive, KeysFail, ReadSkills, ReadRef, Resume, GrantDatabase,
                ReadProfile, StoreFails, Connects, ConnectFails, Indexed, IndexFails, Cancel,
                CloseOne, Displaced, CancelDisplacing, TakesOff, Moves, Stops, others
  <2> QED BY <1>3, <2>1
<1>5. ASSUME NEW t \in DOMAIN plan.tokens,
             Send(t) \/ Says(t) \/ Calls(t) \/ Finishes(t) \/ Breaks(t) \/ GoesAway(t)
      PROVE  AllHeard'
  <2> DEFINE m == turn[t]
  <2>0. t \in Turn /\ Sent(m) /\ Heard(m) /\ m = [f \in TurnFields |-> m[f]]
    BY <1>1 DEF Sent
  <2>a. ASSUME NEW next, turn' = [turn EXCEPT ![t] = next], next.stream = m.stream, next.said = m.said,
               next.loose = m.loose, next.pc # "over", m.pc # "over"
        PROVE  AllHeard'
    <3>1. Heard(next)
      BY <2>0, <2>a DEF Heard, Ends
    <3> QED BY <1>2, <2>0, <2>a, <3>1
  <2>1. CASE Send(t)
    <3>1. PICK c \in Conversation :
             /\ m.pc = "unsent"
             /\ turn' = [turn EXCEPT ![t] = [m EXCEPT !.pc = "streaming", !.by = registered[c]]]
      BY <2>1 DEF Send, Streams
    <3> DEFINE next == [m EXCEPT !.pc = "streaming", !.by = registered[c]]
    <3> HIDE DEF m
    <3>2. /\ next.stream = m.stream /\ next.said = m.said /\ next.loose = m.loose
          /\ next.pc = "streaming"
      BY <2>0 DEF TurnFields
    <3> QED BY <2>a, <3>1, <3>2
  <2>2. CASE Says(t)
    <3> DEFINE next(x, id) == [m EXCEPT
                 !.said = Append(m.said, x),
                 !.loose = @ \cup (IF id # x.id /\ Loose(m.said, x) THEN CallId ELSE {}),
                 !.stream = Taken(@, [x EXCEPT !.id = id])]
    <3>1. /\ m.pc = "streaming"
          /\ \E x \in Saying(m.said) :
               \E id \in {x.id} \cup (IF MayOmitId(m.said, x) THEN {"none"} ELSE {}) :
                  turn' = [turn EXCEPT ![t] = next(x, id)]
      BY <2>2 DEF Says, Streams
    <3>2. PICK x \in Saying(m.said) :
             \E id \in {x.id} \cup (IF MayOmitId(m.said, x) THEN {"none"} ELSE {}) :
                turn' = [turn EXCEPT ![t] = next(x, id)]
      BY <3>1
    <3>3. PICK id \in {x.id} \cup (IF MayOmitId(m.said, x) THEN {"none"} ELSE {}) :
             turn' = [turn EXCEPT ![t] = next(x, id)]
      BY <3>2
    <3>4. Heard(next(x, id))
      BY <2>0, <3>1, SayHeard
    <3> HIDE DEF next
    <3> QED BY <1>2, <2>0, <3>3, <3>4
  <2>3. CASE Calls(t)
    <3>1. PICK header : m.pc = "streaming" /\ turn' = [turn EXCEPT ![t].header = header]
      BY <2>3 DEF Calls
    <3> DEFINE next == [m EXCEPT !.header = header]
    <3>2. turn' = [turn EXCEPT ![t] = next]
      BY <3>1
    <3> HIDE DEF m
    <3>3. /\ next.stream = m.stream /\ next.said = m.said /\ next.loose = m.loose /\ next.pc = m.pc
      BY <2>0 DEF TurnFields
    <3> HIDE DEF next
    <3> QED BY <2>a, <3>1, <3>2, <3>3
  <2>4. CASE Finishes(t)
    <3>1. PICK usage \in BOOLEAN :
             /\ m.pc = "streaming"
             /\ turn' = [turn EXCEPT ![t] = [m EXCEPT !.pc = "over", !.stream = Completed(@, usage, m.said)]]
      BY <2>4 DEF Finishes, Streams
    <3>2. Heard([m EXCEPT !.pc = "over", !.stream = Completed(@, usage, m.said)])
      BY <2>0, <3>1, OverHeard
    <3> QED BY <1>2, <2>0, <3>1, <3>2
  <2>5. CASE Breaks(t)
    <3>1. /\ m.pc = "streaming"
          /\ turn' = [turn EXCEPT ![t] = [m EXCEPT !.pc = "over", !.stream = Failed(@)]]
      BY <2>5 DEF Breaks, Streams
    <3>2. Heard([m EXCEPT !.pc = "over", !.stream = Failed(@)])
      BY <2>0, <3>1, OverHeard
    <3> QED BY <1>2, <2>0, <3>1, <3>2
  <2>6. CASE GoesAway(t)
    <3>1. m.pc = "streaming" /\ turn' = [turn EXCEPT ![t] = [m EXCEPT !.pc = "gone"]]
      BY <2>6 DEF GoesAway, Streams
    <3> DEFINE next == [m EXCEPT !.pc = "gone"]
    <3> HIDE DEF m
    <3>2. /\ next.stream = m.stream /\ next.said = m.said /\ next.loose = m.loose
          /\ next.pc = "gone"
      BY <2>0 DEF TurnFields
    <3> QED BY <2>a, <3>1, <3>2
  <2> QED BY <1>5, <2>1, <2>2, <2>3, <2>4, <2>5, <2>6
<1>6. CASE RotateKeys \/ DeleteConversation \/ \E a \in DOMAIN Agents : DeleteAgent(a)
  BY <1>3, <1>6 DEF RotateKeys, DeleteConversation, DeleteAgent
<1>7. ASSUME NEW c \in Conversation, EndSession(c) PROVE AllHeard'
  BY <1>3, <1>7 DEF EndSession
<1>8. CASE UNCHANGED vars
  BY <1>3, <1>8 DEF vars
<1> QED BY <1>4, <1>5, <1>6, <1>7, <1>8 DEF Next

(* The events of a response are those of what the agent streamed: "done" comes last
   and once, a view follows the result of the call that rendered it, and a result and
   the trace carry the arguments that were sent, as long as no fragment is loose. *)
THEOREM StreamTruthful == Spec => []StreamTruth
<1>1. Init => AllHeard
  <2> SUFFICES ASSUME Init, NEW t \in Turn PROVE Heard(turn[t])
    BY DEF AllHeard
  <2>1. turn[t] = Unsent
    BY DEF Init
  <2> QED BY <2>1, BeginHeard
<1>2. Inv /\ AllHeard => StreamTruth
  <2> SUFFICES ASSUME Inv, AllHeard, NEW t \in DOMAIN plan.tokens
               PROVE  LET out  == turn[t].stream.out
                          said == turn[t].said
                          trace == turn[t].stream.result
                          Is(i, e) == i \in DOMAIN out /\ out[i].event = e
                      IN  /\ turn[t].pc = "over" <=> Is(Len(out), "done")
                          /\ \A i \in DOMAIN out : Is(i, "done") => i = Len(out)
                          /\ trace.filled <=> turn[t].pc = "over" /\ ~Is(Len(out) - 1, "error")
                          /\ \A i \in DOMAIN out : Is(i, "agent_view") =>
                                /\ Is(i - 1, "function_result") /\ out[i - 1].id = out[i].id
                                /\ \E j \in 1..(i - 2) :
                                      /\ Is(j, "function_call") /\ out[j].id = out[i].id
                                      /\ out[j].name = RenderTool
                                /\ \E j \in DOMAIN said :
                                      said[j].type = "rendered" /\ said[j].id = out[i].id
                          /\ turn[t].loose = {} =>
                                \A i \in DOMAIN out :
                                   Is(i, "function_result") /\ Named(said, out[i].id)
                                   /\ ~Hosted(said, out[i].id) =>
                                     /\ out[i].args = ArgsOf(said, out[i].id)
                                     /\ trace.filled => trace.calls[out[i].id] =
                                                          [args |-> out[i].args, done |-> TRUE]
    BY DEF StreamTruth
  <2> DEFINE m == turn[t]
             out == m.stream.out
             said == m.said
             trace == m.stream.result
             Is(i, e) == i \in DOMAIN out /\ out[i].event = e
  <2>1. Heard(m)
    BY PlanDomain DEF Inv, AllHeard
  <2> HIDE DEF m
  <2>2. Sound(m.stream, said, m.loose) /\ Ends(m) /\ Spoken(said) /\ out \in Seq(Sendable)
    BY <2>1 DEF Heard, Sound, TypedStream
  <2>3. /\ m.pc = "over" <=> Is(Len(out), "done")
        /\ \A i \in DOMAIN out : Is(i, "done") => i = Len(out)
        /\ trace.filled <=> m.pc = "over" /\ ~Is(Len(out) - 1, "error")
    <3>1. CASE m.pc = "over"
      <4>1. out # <<>> /\ \A i \in DOMAIN out : out[i].event = "done" <=> i = Len(out)
        BY <2>2, <3>1 DEF Ends
      <4>2. Len(out) \in DOMAIN out
        <5> HIDE DEF out
        <5> QED BY <2>2, <4>1
      <4>3. trace.filled <=> ~Is(Len(out) - 1, "error")
        BY <2>2, <3>1 DEF Ends
      <4> QED BY <3>1, <4>1, <4>2, <4>3
    <3>2. CASE m.pc # "over"
      BY <2>2, <3>2 DEF Ends, NoResult
    <3> QED BY <3>1, <3>2
  <2>4. ASSUME NEW i \in DOMAIN out, Is(i, "agent_view")
        PROVE  /\ Is(i - 1, "function_result") /\ out[i - 1].id = out[i].id
               /\ \E j \in 1..(i - 2) : /\ Is(j, "function_call") /\ out[j].id = out[i].id
                                         /\ out[j].name = RenderTool
               /\ \E j \in DOMAIN said : said[j].type = "rendered" /\ said[j].id = out[i].id
    BY <2>2, <2>4 DEF Sound, ViewedAt
  <2>5. ASSUME m.loose = {}, NEW i \in DOMAIN out, Is(i, "function_result"), Named(said, out[i].id),
               ~Hosted(said, out[i].id)
        PROVE  /\ out[i].args = ArgsOf(said, out[i].id)
               /\ trace.filled => trace.calls[out[i].id] = [args |-> out[i].args, done |-> TRUE]
    <3>1. GivenAt(out, said, i) /\ PassedAt(out, said, i)
      BY <2>2, <2>5 DEF Sound
    <3>2. out[i].id \in CallId /\ Answered(said, out[i].id) /\ out[i].args = ArgsOf(said, out[i].id)
      BY <2>5, <3>1 DEF GivenAt, PassedAt
    <3>3. Recorded(said)[out[i].id] = [args |-> ArgsOf(said, out[i].id), done |-> TRUE]
      <4> DEFINE c == out[i].id
      <4>1. c \in CallId /\ Answered(said, c) /\ ~Hosted(said, c)
        BY <2>5, <3>2
      <4> HIDE DEF c
      <4>2. Recorded(said)[c] = [args |-> ArgsOf(said, c), done |-> TRUE]
        BY <2>2, <4>1, RecordedRight
      <4> QED BY <4>2 DEF c
    <3>4. trace.filled => trace.calls = Recorded(said)
      BY <2>2 DEF Ends, NoResult
    <3> QED BY <3>2, <3>3, <3>4
  <2> HIDE DEF Is
  <2> QED BY <2>3, <2>4, <2>5 DEF m, Is
<1> QED BY <1>1, <1>2, SpecInv, NextHeard, PTL DEF Spec
================================================================================
