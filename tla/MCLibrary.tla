------------------------------- MODULE MCLibrary -------------------------------
(* An instance of Library for TLC: one menu for the directives, one for the
   skills, one for the agents, with small contents of the store to begin with. *)
EXTENDS Library, TLC

LibrarySymmetry == Permutations(Request)

Asks(op, id) == [NoCall EXCEPT !.op = op, !.id = id]
Directives ==
    {Asks("post_directive", "d1"), [Asks("post_directive", "d1") EXCEPT !.valid = "bad_body"],
     [Asks("patch_directive", "d1") EXCEPT !.fields = {"enabled"}],
     [Asks("patch_directive", "d1") EXCEPT !.fields = {"schedule"}],
     [Asks("patch_directive", "d1") EXCEPT !.valid = "bad_body"],
     Asks("delete_directive", "d1"), Asks("seed_directives", "none")}
Skills ==
    {Asks("create_skill", "k"), [Asks("create_skill", "k") EXCEPT !.valid = "bad_body"],
     Asks("create_user_skill", "k"), Asks("edit_user_skill", "k"), Asks("seed_skills", "none"),
     [Asks("update_skill", "k") EXCEPT !.scope = "search"],
     [Asks("update_skill", "k") EXCEPT !.scope = "search", !.valid = "bad_body"],
     [Asks("update_skill", "k") EXCEPT !.scope = "user"],
     [Asks("delete_skill", "k") EXCEPT !.scope = "search"],
     [Asks("delete_skill", "k") EXCEPT !.scope = "shared"]}
Agents ==
    {[Asks(op, "a") EXCEPT !.refs = <<"b">>] : op \in {"put_agent", "create_agent", "edit_agent"}}
    \cup {[Asks("put_agent", "b") EXCEPT !.refs = <<"p", "a">>],
          [Asks("put_agent", "b") EXCEPT !.skills = {"k"}],
          [Asks("put_agent", "b") EXCEPT !.valid = "bad_body"],
          [Asks("put_customization", "p") EXCEPT !.refs = <<"b", "b">>],
          [Asks("put_customization", "p") EXCEPT !.refs = <<"b">>],
          Asks("delete_agent", "b"), Asks("delete_customization", "p"),
          [Asks("delete_skill", "k") EXCEPT !.scope = "user"], Asks("save_profile", "me")}
MCMenu == {Directives, Skills, Agents}

Shipped == Doc(Default, Default, NoCall)
Contents(d1, k, mine, a, b) ==
    [s \in Store |-> [i \in Id |->
        CASE s = "directives" /\ i = "d1" -> d1
          [] s = "skills" /\ i = "k"      -> k
          [] s = "user_skills" /\ i = "k" -> mine
          [] s = "agents" /\ i = "a"      -> a
          [] s = "agents" /\ i = "b"      -> b
          [] OTHER                        -> Missing]]
MCInitialDocs == {Contents(Shipped, Missing, Shipped, Shipped, Shipped),
                  Contents(Missing, Shipped, Missing, Missing, Shipped)}
MCDefaultIds == [s \in {"directives", "skills"} |->
                    IF s = "directives" THEN <<"d1", "d2">> ELSE <<"k">>]
MCProfileRefs == [p \in {"p"} |-> <<>>]
===============================================================================
