--------------------------- MODULE MCDatabaseAccess ----------------------------
(* An instance of DatabaseAccess for TLC: statements, tables and catalogs that
   meet each check and each limit. *)
EXTENDS DatabaseAccess, TLC

(* The calls are interchangeable. *)
CallSymmetry == Permutations(Call)

MCSubject == {[user |-> "ann", tenant |-> "home", groups |-> {}],
              [user |-> "ann", tenant |-> "home", groups |-> {"readers"}],
              [user |-> "ann", tenant |-> "other", groups |-> {"readers"}]}

Read == [parsed |-> TRUE, comments |-> FALSE, statements |-> 1, root |-> "select",
         writes |-> FALSE, tableFunctions |-> FALSE, ctes |-> {}, ordered |-> TRUE,
         tables |-> {[function |-> FALSE, schema |-> "reporting", name |-> "t"]},
         limit |-> [form |-> "none", n |-> 0]]
Unapproved == [Read EXCEPT !.tables = {[function |-> FALSE, schema |-> "hr", name |-> "t"]}]
Query(stmt) == [text |-> "text", parameters |-> NoValue, stmt |-> stmt]

MCQueryRequests ==
    {Query(Read),
     Query([Read EXCEPT !.limit = [form |-> "literal", n |-> 1], !.ordered = FALSE]),
     Query([Read EXCEPT !.limit = [form |-> "unboundable", n |-> 0]]),
     Query(Unapproved),
     [Query(Read) EXCEPT !.parameters = [list |-> TRUE, kinds |-> <<"bigint">>, bytes |-> 1]]}

MCSchemaRequests ==
    {[schema |-> NoValue, object |-> NoValue],
     [schema |-> [form |-> "identifier", name |-> "hr"], object |-> NoValue]}

Row(kind, len) == <<[kind |-> kind, len |-> len]>>
MCTables == {<<>>, <<Row("int", 1), Row("str", 2)>>, <<Row("str", 5)>>,
             <<Row("int", 1), Row("int", 1), Row("int", 2)>>,
             <<Row("bytes", 9), Row("naive", 3), Row("str", 4)>>,
             <<Row("int", 1), Row("str", 4), Row("str", 4)>>}

Obj(name, columns) == [schema |-> "reporting", name |-> name, columns |-> columns]
MCCatalogs == {<<Obj("a", 1), Obj("b", 2)>>, <<Obj("a", 2), Obj("b", 1), Obj("c", 1)>>,
               <<Obj("a", 4), Obj("b", 3), Obj("c", 1)>>,
               <<[schema |-> "hr", name |-> "x", columns |-> 1], Obj("a", 1)>>}

MCFailures == {[state |-> "HYT00", detail |-> "timeout"], [state |-> "42000", detail |-> "permission"]}
===============================================================================
