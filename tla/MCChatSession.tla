----------------------------- MODULE MCChatSession -----------------------------
(* An instance of ChatSession for TLC: each plan is a few requests and turns
   that meet one kind of difficulty. *)
EXTENDS ChatSession, TLC

Token1 == [kid |-> "k1", valid |-> TRUE, serial |-> 1]
Token2 == [kid |-> "k2", valid |-> TRUE, serial |-> 2]
Forged == [kid |-> "k1", valid |-> FALSE, serial |-> 3]
Broken == [kid |-> "none", valid |-> FALSE, serial |-> 4]

(* k1 is replaced by k2, with a time in which both are published. *)
MCKeySets == <<{"k1"}, {"k1", "k2"}, {"k2"}>>

MCSlug == [n \in {"A b", "a_B", "?", "p", "q", "a", "x", "s"} |->
             CASE n \in {"A b", "a_B"} -> "a_b" [] n = "?" -> "" [] OTHER -> n]
MCNumbered == [n \in {"a_b", "p", "q", "x", "a", "s", "sub_agent"} |->
                 [k \in 2..12 |-> n \o "_" \o ToString(k)]]
Agent(name, usable, refs) == [name |-> name, usable |-> usable, refs |-> refs]
MCAgents ==
    "p" :> Agent("A b", TRUE, {}) @@ "q" :> Agent("s", TRUE, {"x"}) @@
    "a" :> Agent("a_B", TRUE, {}) @@ "x" :> Agent("?", FALSE, {})
MCServers == "p" :> <<"sub", "half">> @@ "q" :> <<"odd">>
MCForm == "s" :> "ok" @@ "u" :> "ok" @@ "sub" :> "ok" @@ "a_b" :> "ok"
          @@ "half" :> "incomplete" @@ "odd" :> "unreadable"
MCAuth == "half" :> "none" @@ "odd" :> "none" @@ "s" :> "obo" @@ "u" :> "user" @@ "sub" :> "none" @@ "a_b" :> "none"

Custom(id, supplied) == [kind |-> "custom", id |-> id, supplied |-> supplied]
Builtin(id)          == [kind |-> "builtin", id |-> id, supplied |-> "none"]

Plainly ==
    [token |-> Token1, how |-> "profile", valid |-> "yes", resume |-> FALSE, parent |-> "me",
     tools |-> {}, skills |-> {}, refs |-> <<>>, servers |-> <<>>]
Resuming == [Plainly EXCEPT !.resume = TRUE, !.servers = <<"s">>]
Rich == [Plainly EXCEPT !.how = "override", !.skills = {"k"}, !.refs = <<Builtin("p"), Custom("a", "a")>>,
                        !.servers = <<"s", "u">>, !.tools = {"get_user_profile", "query_database"}]

CONSTANTS r1, r2, t1, t2

Only(r, b) == r :> b
ATurn == [auth |-> FALSE, known |-> 0, body |-> Only(r1, Plainly),
          tokens |-> t1 :> Token1, contents |-> 0, around |-> {}]
Opening == [ATurn EXCEPT !.tokens = <<>>]

MCPlan ==
    \* tokens of both keys, good and bad, with and without keys in the cache
    {[Opening EXCEPT !.auth = TRUE, !.known = v, !.around = {"rotate"},
                     !.body = r1 :> [Plainly EXCEPT !.token = a] @@ r2 :> [Plainly EXCEPT !.token = b]] :
        v \in {0, 1}, a \in {Token1, Token2}, b \in {Token1, Token2, Forged, Broken, NoOne}}
    \* two requests resume a conversation; it may be deleted, they may be cancelled
    \cup {[Opening EXCEPT !.body = r1 :> Resuming @@ r2 :> Resuming,
                          !.around = {"delete", "end", "cancel"}]}
    \* every await of an opening, with all kinds of references
    \cup {[Opening EXCEPT !.body = Only(r1, b), !.around = {"forget", "end", "cancel"}] :
            b \in {Rich, [Rich EXCEPT !.token = NoOne], [Rich EXCEPT !.servers = <<"s", "half">>],
                   [Rich EXCEPT !.parent = "x", !.refs = <<Builtin("q")>>],
                   [Rich EXCEPT !.refs = <<Custom("a", "x")>>],
                   [Rich EXCEPT !.refs = <<Custom("a", "none"), Builtin("p"), Custom("a", "a")>>],
                   [Plainly EXCEPT !.valid = "no"], [Plainly EXCEPT !.servers = <<"u", "odd">>],
                   [Plainly EXCEPT !.refs = <<Builtin("p"), Builtin("p"), Builtin("gone")>>,
                                   !.servers = <<"half", "a_b">>],
                   [Plainly EXCEPT !.refs = <<Builtin("q"), Builtin("p")>>]}}
    \* two turns with different tokens
    \cup {[ATurn EXCEPT !.body = Only(r1, Resuming), !.tokens = t1 :> Token1 @@ t2 :> Token2,
                        !.around = {"end"}]}
    \* a turn in which much is streamed
    \cup {[ATurn EXCEPT !.contents = 5]}
===============================================================================
