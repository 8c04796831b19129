---------------------------- MODULE DatabaseResult -----------------------------
(***************************************************************************)
(* What the database tools accept and return (database.py, database_sql.py *)
(* and the synchronous half of database_sqlserver.py), as operators: the   *)
(* checks of a request, the gate for a statement, the bounding of its rows *)
(* and of the schema catalog, and the classes of a failure.                *)
(*                                                                         *)
(* A statement is its parse: a record that says what the gate looks at.    *)
(* A cell is its Python kind and the length of its text or JSON form.      *)
(***************************************************************************)
EXTENDS SequenceOps

CONSTANTS
    MaxRows, MaxResultChars, MaxCellChars,  \* limits of DatabaseProviderConfig
    NoticeChars,       \* length of the notice truncate_text appends
    ColumnsPerObject,  \* the 100 of fetchmany(max_rows * 100 + 100)
    MaxParameters,     \* MAX_PARAMETERS
    MaxParameterBytes, \* MAX_PARAMETERS_CANONICAL_BYTES
    Approved,          \* normalized_approved_schemas
    AllowedFunctions,  \* normalized_table_functions
    NoValue            \* None

(* DatabaseProviderConfig rejects limits that are not positive. *)
ASSUME LimitsAssumption ==
    /\ {MaxRows, MaxResultChars, MaxCellChars, ColumnsPerObject} \subseteq Nat \ {0}
    /\ {NoticeChars, MaxParameters, MaxParameterBytes} \subseteq Nat
    /\ NoValue \notin {"total_char_limit", "row_limit", "cell_char_limit"}

Capability == {"database_query", "database_schema"}

(* A cell, and an object of the catalog, which has a column at least. *)
Cell   == [kind : STRING, len : Nat]
Object == [schema : STRING, name : STRING, columns : Nat \ {0}]

----------------------------------------------------------------------------
(* Requests *)

ScalarAccepted == {"null", "bool", "int64", "finite", "bounded_text"}

(* validate_parameters: a positional list of scalars, few and short enough. *)
ParametersValid(p) ==
    \/ p = NoValue
    \/ /\ p.list
       /\ Len(p.kinds) <= MaxParameters
       /\ \A i \in DOMAIN p.kinds : p.kinds[i] \in ScalarAccepted
       /\ p.bytes <= MaxParameterBytes

(* QueryRequest: the text is a string, not blank and not too long. *)
QueryRequestValid(q) == q.text = "text" /\ ParametersValid(q.parameters)

(* validate_identifier_filter: absent, or a plain trimmed identifier. *)
FilterValid(f) == f = NoValue \/ f.form = "identifier"

SchemaRequestValid(q) == FilterValid(q.schema) /\ FilterValid(q.object)

----------------------------------------------------------------------------
(* The SQL gate *)

SingleRead(stmt) ==
    /\ stmt.parsed /\ ~stmt.comments
    /\ stmt.statements = 1
    /\ stmt.root \in {"select", "set_operation", "subquery"}

(* One table node: a function on the allowlist, a common table expression,
   or an object of an approved schema. *)
TableAccepted(stmt, t) ==
    IF t.function THEN t.name \in AllowedFunctions
    ELSE \/ Approved = {}
         \/ t.schema = NoValue /\ t.name \in stmt.ctes
         \/ t.schema # NoValue /\ t.schema \in Approved

(* SqlValidator.validate. *)
StatementAccepted(stmt) ==
    /\ SingleRead(stmt)
    /\ ~stmt.writes          \* no node of _DENIED_NODES anywhere in the tree
    /\ ~stmt.tableFunctions  \* none of _TABLE_FUNCTION_NODES either
    /\ \A t \in stmt.tables : TableAccepted(stmt, t)

----------------------------------------------------------------------------
(* Rows *)

AtMost(a, b) == IF a <= b THEN a ELSE b
Take(s, n)   == SubSeq(s, 1, AtMost(n, Len(s)))

TextKinds == {"str", "decimal", "nonfinite", "aware", "naive", "date", "other"}

(* normalize_value and the cut of truncate_text: numbers and booleans stay
   what they are, everything else but binary becomes text. *)
IsCut(cell) == cell.kind \in TextKinds /\ cell.len > MaxCellChars

NormalizeCell(cell) ==
    IF IsCut(cell)
    THEN [cell EXCEPT !.len = MaxCellChars + NoticeChars]
    ELSE cell

NormalizeRow(row) == [i \in DOMAIN row |-> NormalizeCell(row[i])]

(* The length of the row as a JSON list: brackets, separators and quotes. *)
Cost(row) ==
    LET json == [i \in DOMAIN row |->
                    row[i].len + 2 + IF row[i].kind \in TextKinds THEN 2 ELSE 0]
    IN  IF row = <<>> THEN 2 ELSE Totals(json)[Len(row)]

(* How many of the normalized rows fit before the first that does not. *)
Fitting(rows) ==
    LET total == Totals([i \in DOMAIN rows |-> Cost(rows[i])])
    IN  CHOOSE n \in 0..Len(rows) :
            /\ \A i \in 1..n : total[i] <= MaxResultChars
            /\ n = Len(rows) \/ total[n + 1] > MaxResultChars

LimitsReached(fetched, kept) ==
    LET seen     == Take(fetched, MaxRows)
        examined == AtMost(kept + 1, Len(seen))
        chars    == kept < Len(seen)
        cut      == \E i \in 1..examined : \E j \in DOMAIN seen[i] : IsCut(seen[i][j])
    IN  (IF chars THEN {"total_char_limit"} ELSE {})
        \cup (IF Len(fetched) > MaxRows /\ ~chars THEN {"row_limit"} ELSE {})
        \cup (IF cut THEN {"cell_char_limit"} ELSE {})

(* _TRUNCATION_PRECEDENCE. *)
TruncatedBy(limits) ==
    IF "total_char_limit" \in limits THEN "total_char_limit"
    ELSE IF "row_limit" \in limits THEN "row_limit"
    ELSE IF "cell_char_limit" \in limits THEN "cell_char_limit"
    ELSE NoValue

(* The warnings that go with the rows the loop looked at. *)
Warnings(fetched, kept, by, ordered) ==
    LET examined == Take(fetched, AtMost(kept + 1, MaxRows))
        seen(k)  == \E i \in DOMAIN examined : \E j \in DOMAIN examined[i] :
                        examined[i][j].kind = k
    IN  (IF by # NoValue THEN {"bounded"} ELSE {})
        \cup (IF by # NoValue /\ ~ordered THEN {"unordered"} ELSE {})
        \cup (IF seen("naive") THEN {"timezone_naive"} ELSE {})
        \cup (IF seen("bytes") THEN {"binary_omitted"} ELSE {})

(* bound_result_rows. *)
BoundResultRows(fetched, ordered) ==
    LET seen == Take(fetched, MaxRows)
        rows == [i \in DOMAIN seen |-> NormalizeRow(seen[i])]
        kept == Fitting(rows)
        by   == TruncatedBy(LimitsReached(fetched, kept))
    IN  [rows |-> Take(rows, kept), truncated |-> by # NoValue, by |-> by,
         warnings |-> Warnings(fetched, kept, by, ordered)]

(* Mutant: no row more than the limit is asked for. *)
ExactLimit(limit) == IF limit.form = "literal" THEN AtMost(MaxRows, limit.n) ELSE MaxRows

(* The TOP of the statement that is executed: the row limit and one, or the
   statement's own literal if that is less.  A limit that is not a literal
   (an expression, a placeholder, PERCENT, FETCH) is replaced. *)
BoundedLimit(limit) ==
    IF limit.form = "literal" THEN AtMost(MaxRows + 1, limit.n) ELSE MaxRows + 1

(* _execute_query_sync on a statement whose unlimited result is table. *)
QueryAnswer(stmt, table) ==
    BoundResultRows(Take(Take(table, BoundedLimit(stmt.limit)), MaxRows + 1), stmt.ordered)

(* What the statement asked for. *)
AskedRows(stmt, table) ==
    IF stmt.limit.form = "literal" THEN Take(table, stmt.limit.n) ELSE table

----------------------------------------------------------------------------
(* The schema catalog: a sequence of objects [schema, name, columns]. *)

SchemaApproved(q) == q.schema = NoValue \/ Approved = {} \/ q.schema.name \in Approved

(* _discover_schema_sql. *)
CatalogMatch(q, catalog) ==
    Chosen(catalog,
           {o \in Object :
              /\ IF q.schema # NoValue THEN o.schema = q.schema.name
                 ELSE Approved = {} \/ o.schema \in Approved
              /\ q.object = NoValue \/ o.name = q.object.name})

ColumnBudget == MaxRows * ColumnsPerObject + ColumnsPerObject

(* How many columns the first i objects have. *)
ColumnsUpTo(objects, i) == Totals([j \in DOMAIN objects |-> objects[j].columns])[i]

(* Mutant: the catalog query asks for no object more than the limit. *)
SchemaAnswerExact(q, catalog) ==
    LET bounded == Take(CatalogMatch(q, catalog), MaxRows)
    IN  [rows |-> bounded, truncated |-> Len(bounded) > MaxRows, by |-> NoValue, warnings |-> {}]

(* _discover_schema_sync: the objects of the column rows that were fetched,
   the last of them perhaps without all of its columns. *)
SchemaAnswer(q, catalog) ==
    LET bounded    == Take(CatalogMatch(q, catalog), MaxRows + 1)
        fetched(i) == AtMost(bounded[i].columns, ColumnBudget - ColumnsUpTo(bounded, i - 1))
        present    == {i \in DOMAIN bounded : fetched(i) > 0}
        discovered == [i \in present |-> [bounded[i] EXCEPT !.columns = fetched(i)]]
        truncated  == Len(discovered) > MaxRows
    IN  [rows |-> Take(discovered, MaxRows), truncated |-> truncated, by |-> NoValue,
         warnings |-> IF truncated THEN {"bounded"} ELSE {}]

----------------------------------------------------------------------------
(* Failures *)

(* _map_error: the SQLSTATE decides, the driver's text only where it must. *)
MapError(e) ==
    CASE e.state = "28xxx" -> "authentication_error"
      [] e.state = "IMxxx" -> "configuration_error"
      [] e.state = "42501" \/ (e.state = "42000" /\ e.detail = "permission") -> "authorization_error"
      [] e.state \in {"08xxx", "HYT00", "HYT01"} ->
            IF e.detail = "certificate" THEN "trust_error" ELSE "transient_error"
      [] OTHER -> "query_error"

DriverErrors == {[state |-> "28xxx", detail |-> "other"], [state |-> "IMxxx", detail |-> "other"],
                 [state |-> "42501", detail |-> "other"], [state |-> "42000", detail |-> "permission"],
                 [state |-> "42000", detail |-> "other"], [state |-> "08xxx", detail |-> "certificate"],
                 [state |-> "HYT00", detail |-> "other"]}

(* DatabaseError.to_result and to_schema_result. *)
ErrorAnswer(status) ==
    [status |-> status, rows |-> <<>>, truncated |-> FALSE, by |-> NoValue, warnings |-> {}]
Success(answer) ==
    [status |-> "success", rows |-> answer.rows, truncated |-> answer.truncated,
     by |-> answer.by, warnings |-> answer.warnings]
===============================================================================
