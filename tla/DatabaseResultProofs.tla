-------------------------- MODULE DatabaseResultProofs --------------------------
(* What the database tools return, for every table and every catalog and any
   limits: the bounding of rows and of the schema catalog, and the sums they are
   measured by. *)
EXTENDS DatabaseResult, SequenceLemmas

-------------------------------------------------------------------------------
(* Rows *)

Rows == Seq(Seq(Cell))

(* The first members of a sequence. *)
LEMMA TakeIs ==
    ASSUME NEW S, NEW s \in Seq(S), NEW n \in Nat
    PROVE  /\ Take(s, n) \in Seq(S) /\ Len(Take(s, n)) = AtMost(n, Len(s))
           /\ \A i \in 1 .. AtMost(n, Len(s)) : Take(s, n)[i] = s[i]
           /\ AtMost(n, Len(s)) \in 0 .. Len(s)
<1>1. AtMost(n, Len(s)) \in 0 .. Len(s)
  BY DEF AtMost
<1> DEFINE m == AtMost(n, Len(s))
<1> HIDE DEF m
<1>2. m \in 0 .. Len(s) /\ Take(s, n) = SubSeq(s, 1, m)
  BY <1>1 DEF m, Take
<1>3. SubSeq(s, 1, m) \in Seq(S) /\ Len(SubSeq(s, 1, m)) = m /\ \A i \in 1 .. m : SubSeq(s, 1, m)[i] = s[i]
  BY <1>2
<1> QED BY <1>2, <1>3 DEF m

(* Taking twice is taking the less of the two. *)
LEMMA TakeTwice ==
    ASSUME NEW S, NEW s \in Seq(S), NEW m \in Nat, NEW n \in Nat
    PROVE  Take(Take(s, m), n) = Take(s, AtMost(m, n))
<1> DEFINE t == Take(s, m)
           k == AtMost(m, n)
<1>1. /\ t \in Seq(S) /\ Len(t) = AtMost(m, Len(s))
      /\ \A i \in 1 .. AtMost(m, Len(s)) : t[i] = s[i]
  BY TakeIs
<1>2. k \in Nat
  BY DEF AtMost
<1> HIDE DEF t, k
<1>3. /\ Take(t, n) \in Seq(S) /\ Len(Take(t, n)) = AtMost(n, Len(t))
      /\ \A i \in 1 .. AtMost(n, Len(t)) : Take(t, n)[i] = t[i]
  BY <1>1, TakeIs
<1>4. /\ Take(s, k) \in Seq(S) /\ Len(Take(s, k)) = AtMost(k, Len(s))
      /\ \A i \in 1 .. AtMost(k, Len(s)) : Take(s, k)[i] = s[i]
  BY <1>2, TakeIs
<1>5. /\ AtMost(n, Len(t)) = AtMost(k, Len(s)) /\ AtMost(n, Len(t)) <= AtMost(m, Len(s))
      /\ AtMost(n, Len(t)) \in Nat /\ AtMost(m, Len(s)) \in Nat
  BY <1>1 DEF AtMost, k
<1>6. \A i \in 1 .. Len(Take(t, n)) : Take(t, n)[i] = Take(s, k)[i]
  BY <1>1, <1>3, <1>4, <1>5
<1> QED BY <1>3, <1>4, <1>5, <1>6, SameSequence DEF t, k

(* A row has a length as JSON; *)
LEMMA CostType == ASSUME NEW row \in Seq(Cell) PROVE Cost(row) \in Nat
<1> DEFINE json == [i \in DOMAIN row |->
                       row[i].len + 2 + IF row[i].kind \in TextKinds THEN 2 ELSE 0]
<1>1. ASSUME NEW i \in DOMAIN row
      PROVE  row[i].len + 2 + (IF row[i].kind \in TextKinds THEN 2 ELSE 0) \in Nat
  <2> DEFINE quotes == IF row[i].kind \in TextKinds THEN 2 ELSE 0
  <2>0. row[i] \in Cell
    OBVIOUS
  <2>1. row[i].len \in Nat
    BY <2>0 DEF Cell
  <2>2. quotes \in Nat
    OBVIOUS
  <2> HIDE DEF quotes
  <2>3. row[i].len + 2 + quotes \in Nat
    BY <2>1, <2>2
  <2> QED BY <2>3 DEF quotes
<1>2. json \in Seq(Nat) /\ Len(json) = Len(row)
  <2>1. json \in [1 .. Len(row) -> Nat]
    BY <1>1
  <2> QED BY <2>1
<1> HIDE DEF json
<1>3. Totals(json)[Len(row)] \in Nat
  BY <1>2, TotalsGrow
<1> QED BY <1>3 DEF Cost, json

(* so do the first of some rows together. *)
Costs(rows) == [i \in DOMAIN rows |-> Cost(rows[i])]
LEMMA CostsType ==
    ASSUME NEW rows \in Rows
    PROVE  Costs(rows) \in Seq(Nat) /\ Len(Costs(rows)) = Len(rows)
<1>1. Costs(rows) \in [1 .. Len(rows) -> Nat]
  BY CostType DEF Costs, Rows
<1>2. Len(rows) \in Nat
  BY DEF Rows
<1> QED BY <1>1, <1>2

(* There is a first row that does not fit, or all fit. *)
Fits(rows, n) ==
    /\ \A i \in 1 .. n : Totals(Costs(rows))[i] <= MaxResultChars
    /\ n = Len(rows) \/ Totals(Costs(rows))[n + 1] > MaxResultChars

LEMMA FittingFits ==
    ASSUME NEW rows \in Rows
    PROVE  Fitting(rows) \in 0 .. Len(rows) /\ Fits(rows, Fitting(rows))
<1> DEFINE t == Totals(Costs(rows))
           Over == {i \in 1 .. Len(rows) : t[i] > MaxResultChars}
<1>0. Len(rows) \in Nat /\ MaxResultChars \in Nat
  BY LimitsAssumption DEF Rows
<1>1. t \in [0 .. Len(rows) -> Nat]
  BY CostsType, TotalsGrow
<1> HIDE DEF t
<1>2. \E n \in 0 .. Len(rows) : Fits(rows, n)
  <2>1. CASE Over = {}
    <3>1. \A i \in 1 .. Len(rows) : t[i] <= MaxResultChars
      BY <1>0, <1>1, <2>1
    <3>2. Fits(rows, Len(rows))
      BY <3>1 DEF Fits, t
    <3> QED BY <1>0, <3>2
  <2>2. CASE Over # {}
    <3>0. Over \subseteq Nat
      BY <1>0
    <3>1. PICK x \in Over : \A y \in Over : x <= y
      <4> HIDE DEF Over
      <4> QED BY <2>2, <3>0, LeastNumber
    <3>2. x - 1 \in 0 .. Len(rows) /\ (x - 1) + 1 = x /\ t[x] > MaxResultChars
      BY <1>0, <3>1
    <3>3. \A i \in 1 .. x - 1 : t[i] <= MaxResultChars
      BY <1>0, <1>1, <3>1
    <3>4. Fits(rows, x - 1)
      BY <3>2, <3>3 DEF Fits, t
    <3> QED BY <3>2, <3>4
  <2> QED BY <2>1, <2>2
<1>3. Fitting(rows) = CHOOSE n \in 0 .. Len(rows) : Fits(rows, n)
  BY DEF Fitting, Fits, Costs
<1> QED BY <1>2, <1>3

(* The rows that were kept fit by themselves. *)
LEMMA KeptFits ==
    ASSUME NEW rows \in Rows
    PROVE  LET kept == Take(rows, Fitting(rows))
           IN  kept \in Rows /\ Len(kept) = Fitting(rows) /\ Fitting(kept) = Len(kept)
<1> DEFINE n == Fitting(rows)
           kept == Take(rows, n)
<1>1. n \in 0 .. Len(rows) /\ Fits(rows, n) /\ Len(rows) \in Nat
  BY FittingFits DEF Rows
<1> HIDE DEF n
<1>2. AtMost(n, Len(rows)) = n
  BY <1>1 DEF AtMost
<1>3. kept \in Rows /\ Len(kept) = n /\ \A i \in 1 .. n : kept[i] = rows[i]
  BY <1>1, <1>2, TakeIs DEF Rows
<1> HIDE DEF kept
<1>4. \A i \in 1 .. n : Costs(kept)[i] = Costs(rows)[i]
  BY <1>1, <1>3 DEF Costs, Rows
<1>5. \A i \in 0 .. n : Totals(Costs(kept))[i] = Totals(Costs(rows))[i]
  BY <1>1, <1>3, <1>4, CostsType, TotalsAlike
<1>6. \A i \in 1 .. n : Totals(Costs(kept))[i] <= MaxResultChars
  BY <1>1, <1>5 DEF Fits
<1>7. Fitting(kept) \in 0 .. n /\ Fits(kept, Fitting(kept))
  BY <1>3, FittingFits
<1>8. ASSUME Fitting(kept) # n PROVE FALSE
  <2>1. Fitting(kept) + 1 \in 1 .. n
    BY <1>1, <1>7, <1>8
  <2>2. Totals(Costs(kept))[Fitting(kept) + 1] > MaxResultChars
    BY <1>3, <1>7, <1>8 DEF Fits
  <2>3. Totals(Costs(kept))[Fitting(kept) + 1] \in Nat /\ MaxResultChars \in Nat
    BY <1>3, <2>1, CostsType, TotalsGrow, LimitsAssumption
  <2> QED BY <1>6, <2>1, <2>2, <2>3
<1> QED BY <1>3, <1>8 DEF kept, n

(* A row none of whose cells is cut stays what it is, and every row a row. *)
LEMMA NormalizedRow ==
    ASSUME NEW row \in Seq(Cell)
    PROVE  /\ NormalizeRow(row) \in Seq(Cell)
           /\ (\A j \in DOMAIN row : ~IsCut(row[j])) => NormalizeRow(row) = row
<1>0. MaxCellChars + NoticeChars \in Nat
  BY LimitsAssumption
<1>1. ASSUME NEW j \in 1 .. Len(row) PROVE NormalizeCell(row[j]) \in Cell
  <2>1. row[j] \in Cell
    OBVIOUS
  <2> QED BY <1>0, <2>1 DEF NormalizeCell, Cell
<1>2. NormalizeRow(row) \in [1 .. Len(row) -> Cell] /\ Len(row) \in Nat
  BY <1>1 DEF NormalizeRow
<1>3. NormalizeRow(row) \in Seq(Cell)
  BY <1>2
<1>4. (\A j \in DOMAIN row : ~IsCut(row[j])) => NormalizeRow(row) = row
  BY DEF NormalizeRow, NormalizeCell
<1> QED BY <1>3, <1>4

Uncut(rows) == \A i \in DOMAIN rows : \A j \in DOMAIN rows[i] : ~IsCut(rows[i][j])

(* bound_result_rows, on what a fetch of one row more than the limit returns of
   the rows that were asked for. *)
LEMMA BoundHonest ==
    ASSUME NEW asked \in Rows, NEW ordered
    PROVE  LET answer == BoundResultRows(Take(asked, MaxRows + 1), ordered)
           IN  /\ answer.truncated <=> ~(answer.rows = asked /\ Uncut(asked))
               /\ Len(answer.rows) <= MaxRows
               /\ Fitting(answer.rows) = Len(answer.rows)
<1> DEFINE fetched == Take(asked, MaxRows + 1)
           seen == Take(fetched, MaxRows)
           rows == [i \in DOMAIN seen |-> NormalizeRow(seen[i])]
           kept == Fitting(rows)
           limits == LimitsReached(fetched, kept)
           answer == BoundResultRows(fetched, ordered)
<1>0. MaxRows \in Nat /\ MaxRows + 1 \in Nat /\ AtMost(MaxRows + 1, MaxRows) = MaxRows
  BY LimitsAssumption DEF AtMost
<1>1. seen = Take(asked, MaxRows)
  BY <1>0, TakeTwice DEF Rows
<1>2. /\ seen \in Rows /\ Len(seen) = AtMost(MaxRows, Len(asked))
      /\ Len(fetched) = AtMost(MaxRows + 1, Len(asked)) /\ Len(asked) \in Nat
      /\ \A i \in 1 .. Len(seen) : seen[i] = asked[i]
  <2>1. asked \in Seq(Seq(Cell)) /\ Len(asked) \in Nat
    BY DEF Rows
  <2>2. Take(asked, MaxRows) \in Seq(Seq(Cell)) /\ Len(Take(asked, MaxRows)) = AtMost(MaxRows, Len(asked))
    BY <1>0, <2>1, TakeIs
  <2>3. \A i \in 1 .. AtMost(MaxRows, Len(asked)) : Take(asked, MaxRows)[i] = asked[i]
    BY <1>0, <2>1, TakeIs
  <2>4. Len(fetched) = AtMost(MaxRows + 1, Len(asked))
    BY <1>0, <2>1, TakeIs
  <2> HIDE DEF fetched, seen
  <2> QED BY <1>1, <2>1, <2>2, <2>3, <2>4 DEF Rows
<1>f. DOMAIN asked = 1 .. Len(asked) /\ \A i \in 1 .. Len(asked) : asked[i] \in Seq(Cell)
  BY DEF Rows
<1>g. DOMAIN seen = 1 .. Len(seen)
  <2> HIDE DEF seen
  <2> QED BY <1>2 DEF Rows
<1>a. answer.truncated <=> TruncatedBy(limits) # NoValue
  BY DEF BoundResultRows
<1>b. answer.rows = Take(rows, kept)
  BY DEF BoundResultRows
<1>c. limits = LimitsReached(fetched, kept)
  OBVIOUS
<1>d. seen = Take(fetched, MaxRows)
  OBVIOUS
<1>e. rows = [i \in DOMAIN seen |-> NormalizeRow(seen[i])]
  OBVIOUS
<1> HIDE DEF fetched, seen, limits, answer, rows
<1>3. rows \in Rows /\ Len(rows) = Len(seen)
  <2>1. rows \in [1 .. Len(seen) -> Seq(Cell)] /\ Len(seen) \in Nat
    BY <1>2, <1>e, NormalizedRow DEF Rows
  <2> QED BY <2>1 DEF Rows
<1>4. /\ answer.rows \in Rows /\ Len(answer.rows) = kept /\ Fitting(answer.rows) = Len(answer.rows)
      /\ kept \in 0 .. Len(seen)
  BY <1>3, <1>b, KeptFits, FittingFits
<1>5. \A i \in 1 .. kept : answer.rows[i] = rows[i]
  BY <1>3, <1>4, <1>b, TakeIs DEF Rows, AtMost
<1> HIDE DEF kept
<1>6. Len(answer.rows) <= MaxRows /\ Len(seen) \in Nat /\ kept \in Nat
  BY <1>0, <1>2, <1>4 DEF AtMost
<1> DEFINE examined == AtMost(kept + 1, Len(seen))
           cut == \E i \in 1 .. examined : \E j \in DOMAIN seen[i] : IsCut(seen[i][j])
<1>7. TruncatedBy(limits) = NoValue <=> ~(kept < Len(seen)) /\ ~(Len(fetched) > MaxRows) /\ ~cut
  <2>1. TruncatedBy(limits) = NoValue <=> limits \cap {"total_char_limit", "row_limit", "cell_char_limit"} = {}
    BY LimitsAssumption DEF TruncatedBy
  <2>2. /\ "total_char_limit" \in limits <=> kept < Len(seen)
        /\ "row_limit" \in limits <=> Len(fetched) > MaxRows /\ ~(kept < Len(seen))
        /\ "cell_char_limit" \in limits <=> cut
    BY <1>c, <1>d DEF LimitsReached
  <2> QED BY <2>1, <2>2
<1>8. ASSUME ~(kept < Len(seen)), ~(Len(fetched) > MaxRows), ~cut
      PROVE  answer.rows = asked /\ Uncut(asked)
  <2>1. kept = Len(seen) /\ Len(seen) = Len(asked) /\ examined = Len(seen)
    BY <1>0, <1>2, <1>4, <1>6, <1>8 DEF AtMost
  <2>2. \A i \in 1 .. Len(asked) : \A j \in DOMAIN asked[i] : ~IsCut(asked[i][j])
    BY <1>2, <1>8, <2>1
  <2>3. Uncut(asked)
    BY <1>f, <2>2 DEF Uncut
  <2>4. \A i \in 1 .. Len(asked) : rows[i] = asked[i]
    <3> SUFFICES ASSUME NEW i \in 1 .. Len(asked) PROVE rows[i] = asked[i]
      OBVIOUS
    <3>1. rows[i] = NormalizeRow(asked[i])
      BY <1>2, <1>e, <1>g, <2>1
    <3> QED BY <1>f, <2>2, <3>1, NormalizedRow
  <2>5. answer.rows = asked
    BY <1>4, <1>5, <2>1, <2>4, SameSequence DEF Rows
  <2> QED BY <2>3, <2>5
<1>9. ASSUME answer.rows = asked, Uncut(asked)
      PROVE  ~(kept < Len(seen)) /\ ~(Len(fetched) > MaxRows) /\ ~cut
  <2>1. kept = Len(asked) /\ Len(asked) <= MaxRows /\ kept = Len(seen)
    BY <1>0, <1>2, <1>4, <1>6, <1>9 DEF AtMost
  <2>2. ~(Len(fetched) > MaxRows)
    BY <1>0, <1>2, <2>1 DEF AtMost
  <2>3. examined = Len(seen)
    BY <1>6, <2>1 DEF AtMost
  <2>4. ~cut
    BY <1>2, <1>9, <1>f, <2>1, <2>3 DEF Uncut
  <2> QED BY <1>6, <2>1, <2>2, <2>4
<1>10. answer.truncated <=> ~(answer.rows = asked /\ Uncut(asked))
  <2> HIDE DEF cut
  <2> QED BY <1>7, <1>8, <1>9, <1>a
<1> QED BY <1>4, <1>6, <1>10 DEF answer, fetched

(* The statement that is executed asks for no less than the limit and one of the
   rows the statement asked for. *)
LEMMA QueryHonest ==
    ASSUME NEW stmt, NEW table \in Rows, stmt.limit.form = "literal" => stmt.limit.n \in Nat
    PROVE  LET answer == QueryAnswer(stmt, table)
               asked == AskedRows(stmt, table)
           IN  /\ answer.truncated <=> ~(answer.rows = asked /\ Uncut(asked))
               /\ Len(answer.rows) <= MaxRows
               /\ Fitting(answer.rows) = Len(answer.rows)
<1> DEFINE asked == AskedRows(stmt, table)
           m == MaxRows + 1
<1>0. m \in Nat
  BY LimitsAssumption
<1>1. asked \in Rows
  BY TakeIs DEF AskedRows, Rows
<1>2. BoundedLimit(stmt.limit) \in Nat
  BY <1>0 DEF BoundedLimit, AtMost
<1>3. Take(Take(table, BoundedLimit(stmt.limit)), m) = Take(asked, m)
  <2>1. Take(Take(table, BoundedLimit(stmt.limit)), m) = Take(table, AtMost(BoundedLimit(stmt.limit), m))
    BY <1>0, <1>2, TakeTwice DEF Rows
  <2>2. CASE stmt.limit.form = "literal"
    <3>1. Take(asked, m) = Take(table, AtMost(stmt.limit.n, m))
      BY <1>0, <2>2, TakeTwice DEF Rows, AskedRows
    <3>2. AtMost(BoundedLimit(stmt.limit), m) = AtMost(stmt.limit.n, m)
      BY <1>0, <2>2 DEF BoundedLimit, AtMost
    <3> QED BY <2>1, <3>1, <3>2
  <2>3. CASE stmt.limit.form # "literal"
    BY <1>0, <2>1, <2>3 DEF AskedRows, BoundedLimit, AtMost
  <2> QED BY <2>2, <2>3
<1>4. QueryAnswer(stmt, table) = BoundResultRows(Take(asked, m), stmt.ordered)
  BY <1>3 DEF QueryAnswer
<1> HIDE DEF asked, m
<1> QED BY <1>1, <1>4, BoundHonest DEF asked, m

-------------------------------------------------------------------------------
(* The schema catalog *)

Columns(objects) == [j \in DOMAIN objects |-> objects[j].columns]

(* The columns of some objects can be counted. *)
LEMMA ColumnsType ==
    ASSUME NEW objects \in Seq(Object)
    PROVE  /\ Columns(objects) \in Seq(Nat) /\ Len(Columns(objects)) = Len(objects)
           /\ \A i \in 1 .. Len(objects) :
                 Columns(objects)[i] = objects[i].columns /\ objects[i].columns \in Nat \ {0}
           /\ \A i : ColumnsUpTo(objects, i) = Totals(Columns(objects))[i]
<1>0. Len(objects) \in Nat /\ DOMAIN objects = 1 .. Len(objects)
  OBVIOUS
<1>1. \A i \in 1 .. Len(objects) : objects[i].columns \in Nat \ {0}
  <2> SUFFICES ASSUME NEW i \in 1 .. Len(objects) PROVE objects[i].columns \in Nat \ {0}
    OBVIOUS
  <2>1. objects[i] \in Object
    OBVIOUS
  <2> QED BY <2>1 DEF Object
<1>2. Columns(objects) \in [1 .. Len(objects) -> Nat]
  BY <1>0, <1>1 DEF Columns
<1>3. Columns(objects) \in Seq(Nat) /\ Len(Columns(objects)) = Len(objects)
  BY <1>0, <1>2
<1>4. \A i \in 1 .. Len(objects) : Columns(objects)[i] = objects[i].columns
  BY <1>0 DEF Columns
<1> QED BY <1>1, <1>3, <1>4 DEF ColumnsUpTo, Columns

(* The objects that match are objects of the catalog. *)
LEMMA MatchType ==
    ASSUME NEW q, NEW catalog \in Seq(Object)
    PROVE  CatalogMatch(q, catalog) \in Seq(Object)
<1> DEFINE S == {o \in Object :
                   /\ IF q.schema # NoValue THEN o.schema = q.schema.name
                      ELSE Approved = {} \/ o.schema \in Approved
                   /\ q.object = NoValue \/ o.name = q.object.name}
<1>1. CatalogMatch(q, catalog) = Chosen(catalog, S)
  BY DEF CatalogMatch
<1>2. Object \cap S = S /\ S \subseteq Object
  OBVIOUS
<1> HIDE DEF S
<1>3. Chosen(catalog, S) \in Seq(S)
  BY <1>2, ChosenType
<1> QED BY <1>1, <1>2, <1>3

Fetched(objects, i) == AtMost(objects[i].columns, ColumnBudget - ColumnsUpTo(objects, i - 1))
Present(objects)    == {i \in DOMAIN objects : Fetched(objects, i) > 0}
Discovered(objects) ==
    [i \in Present(objects) |-> [objects[i] EXCEPT !.columns = Fetched(objects, i)]]

(* The fetch of the columns ends within some object, or after the last; all those
   before it are complete. *)
LEMMA FetchedFirst ==
    ASSUME NEW objects \in Seq(Object)
    PROVE  /\ \E m \in 0 .. Len(objects) : Present(objects) = 1 .. m
           /\ ColumnsUpTo(objects, Len(objects)) <= ColumnBudget =>
                 /\ Present(objects) = 1 .. Len(objects)
                 /\ \A i \in 1 .. Len(objects) : Fetched(objects, i) = objects[i].columns
<1> DEFINE t == Totals(Columns(objects))
           n == Len(objects)
           Out == {i \in 1 .. n : t[i - 1] >= ColumnBudget}
<1>0. n \in Nat /\ DOMAIN objects = 1 .. n
  OBVIOUS
<1>1. ColumnBudget \in Nat
  <2>1. MaxRows * ColumnsPerObject \in Nat /\ ColumnsPerObject \in Nat
    BY LimitsAssumption
  <2> QED BY <2>1 DEF ColumnBudget
<1>2. /\ Columns(objects) \in Seq(Nat) /\ Len(Columns(objects)) = n
      /\ \A i \in 1 .. n : Columns(objects)[i] = objects[i].columns
      /\ \A i \in 1 .. n : objects[i].columns \in Nat \ {0}
      /\ \A i : ColumnsUpTo(objects, i) = t[i]
  BY ColumnsType
<1>3. /\ t \in [0 .. n -> Nat] /\ t[0] = 0
      /\ \A i \in 1 .. n : t[i] = t[i - 1] + objects[i].columns
  BY <1>2, TotalsGrow
<1>4. \A i \in 0 .. n : \A j \in i .. n : t[i] <= t[j]
  BY <1>2, TotalsRise
<1> HIDE DEF t, n
<1>5. \A i \in 1 .. n : i - 1 \in 0 .. n /\ t[i - 1] \in Nat
  BY <1>0, <1>3
<1>6. \A i \in 1 .. n : Fetched(objects, i) = AtMost(objects[i].columns, ColumnBudget - t[i - 1])
  BY <1>2 DEF Fetched
<1>7. \A i \in 1 .. n : Fetched(objects, i) > 0 <=> t[i - 1] < ColumnBudget
  <2> SUFFICES ASSUME NEW i \in 1 .. n
               PROVE  Fetched(objects, i) > 0 <=> t[i - 1] < ColumnBudget
    OBVIOUS
  <2> DEFINE c == objects[i].columns
             u == t[i - 1]
  <2>1. c \in Nat \ {0} /\ u \in Nat /\ Fetched(objects, i) = AtMost(c, ColumnBudget - u)
    BY <1>2, <1>5, <1>6
  <2> HIDE DEF c, u
  <2>2. Fetched(objects, i) > 0 <=> u < ColumnBudget
    BY <1>1, <2>1 DEF AtMost
  <2> QED BY <2>2 DEF u
<1>8. Present(objects) = {i \in 1 .. n : t[i - 1] < ColumnBudget}
  BY <1>0, <1>7 DEF Present
<1>9. \E m \in 0 .. n : Present(objects) = 1 .. m
  <2>1. CASE Out = {}
    <3>1. \A i \in 1 .. n : t[i - 1] < ColumnBudget
      BY <1>1, <1>5, <2>1
    <3> QED BY <1>0, <1>8, <3>1
  <2>2. CASE Out # {}
    <3>0. Out \subseteq Nat
      BY <1>0
    <3>1. PICK x \in Out : \A y \in Out : x <= y
      <4> HIDE DEF Out
      <4> QED BY <2>2, <3>0, LeastNumber
    <3>2. x \in 1 .. n /\ t[x - 1] >= ColumnBudget
      BY <3>1
    <3>3. ASSUME NEW i \in 1 .. x - 1 PROVE i \in 1 .. n /\ t[i - 1] < ColumnBudget
      <4>1. i \in 1 .. n /\ i < x
        BY <1>0, <3>2
      <4>2. i \notin Out
        BY <1>0, <3>1, <4>1
      <4> QED BY <1>1, <1>5, <4>1, <4>2
    <3>4. ASSUME NEW i \in 1 .. n, i >= x PROVE ~(t[i - 1] < ColumnBudget)
      <4>1. x - 1 \in 0 .. n /\ i - 1 \in (x - 1) .. n
        BY <1>0, <3>2, <3>4
      <4>2. t[x - 1] <= t[i - 1]
        BY <1>4, <4>1
      <4> QED BY <1>1, <1>5, <3>2, <4>2
    <3>5. x - 1 \in 0 .. n /\ Present(objects) = 1 .. x - 1
      BY <1>0, <1>8, <3>2, <3>3, <3>4
    <3> QED BY <3>5
  <2> QED BY <2>1, <2>2
<1>10. ASSUME t[n] <= ColumnBudget, NEW i \in 1 .. n
       PROVE  Fetched(objects, i) = objects[i].columns /\ t[i - 1] < ColumnBudget
  <2>1. t[i] <= t[n] /\ t[i] \in Nat /\ t[n] \in Nat
    BY <1>0, <1>3, <1>4
  <2>2. t[i] = t[i - 1] + objects[i].columns /\ objects[i].columns \in Nat \ {0}
    BY <1>2, <1>3
  <2> QED BY <1>1, <1>5, <1>6, <1>10, <2>1, <2>2 DEF AtMost
<1>11. t[n] <= ColumnBudget => Present(objects) = 1 .. n
  BY <1>8, <1>10
<1>12. ColumnsUpTo(objects, n) = t[n]
  BY <1>2
<1> QED BY <1>9, <1>10, <1>11, <1>12 DEF n

(* Discovery's answer, for any request and any catalog. *)
LEMMA CatalogAnswerHonest ==
    ASSUME NEW q, NEW catalog \in Seq(Object)
    PROVE  LET answer == SchemaAnswer(q, catalog)
               asked == CatalogMatch(q, catalog)
           IN  /\ Len(answer.rows) <= MaxRows
               /\ answer.truncated => Len(asked) > MaxRows
               /\ ColumnsUpTo(asked, AtMost(Len(asked), MaxRows + 1)) <= ColumnBudget =>
                     /\ answer.truncated <=> Len(asked) > MaxRows
                     /\ answer.rows = Take(asked, MaxRows)
<1> DEFINE asked == CatalogMatch(q, catalog)
           answer == SchemaAnswer(q, catalog)
           bounded == Take(asked, MaxRows + 1)
           found == Discovered(bounded)
<1>0. MaxRows \in Nat /\ MaxRows + 1 \in Nat /\ AtMost(MaxRows + 1, MaxRows) = MaxRows
  BY LimitsAssumption DEF AtMost
<1>1. asked \in Seq(Object) /\ Len(asked) \in Nat
  BY MatchType
<1>2. /\ answer.rows = Take(found, MaxRows)
      /\ answer.truncated = (Len(found) > MaxRows)
  BY DEF SchemaAnswer, Discovered, Present, Fetched
<1> HIDE DEF asked, answer
<1>3. /\ bounded \in Seq(Object) /\ Len(bounded) = AtMost(MaxRows + 1, Len(asked))
      /\ \A i \in 1 .. AtMost(MaxRows + 1, Len(asked)) : bounded[i] = asked[i]
  BY <1>0, <1>1, TakeIs
<1>4. Take(bounded, MaxRows) = Take(asked, MaxRows)
  BY <1>0, <1>1, TakeTwice
<1> HIDE DEF bounded
<1>5. Len(bounded) \in Nat /\ Len(bounded) <= Len(asked) /\ Len(bounded) <= MaxRows + 1
      /\ (Len(bounded) > MaxRows <=> Len(asked) > MaxRows)
  BY <1>0, <1>1, <1>3 DEF AtMost
<1>6. PICK m \in 0 .. Len(bounded) : Present(bounded) = 1 .. m
  BY <1>3, FetchedFirst
<1>7. found \in Seq(Object) /\ Len(found) = m
  <2>1. ASSUME NEW i \in 1 .. m
        PROVE  [bounded[i] EXCEPT !.columns = Fetched(bounded, i)] \in Object
    <3>1. i \in DOMAIN bounded /\ Fetched(bounded, i) > 0
      BY <1>6 DEF Present
    <3>2. bounded[i] \in Object
      BY <1>3, <3>1
    <3>3. Fetched(bounded, i) \in Int
      <4>1. i \in 1 .. Len(bounded) /\ i - 1 \in 0 .. Len(bounded)
        BY <1>3, <3>1
      <4>c. /\ Columns(bounded) \in Seq(Nat) /\ Len(Columns(bounded)) = Len(bounded)
            /\ ColumnsUpTo(bounded, i - 1) = Totals(Columns(bounded))[i - 1]
        BY <1>3, ColumnsType
      <4>2. ColumnsUpTo(bounded, i - 1) \in Nat
        BY <4>1, <4>c, TotalsGrow
      <4>3. MaxRows * ColumnsPerObject \in Nat /\ ColumnsPerObject \in Nat
        BY LimitsAssumption
      <4>4. ColumnBudget \in Nat
        BY <4>3 DEF ColumnBudget
      <4>5. bounded[i].columns \in Nat
        BY <3>2 DEF Object
      <4> QED BY <4>2, <4>4, <4>5 DEF Fetched, AtMost
    <3>4. Fetched(bounded, i) \in Nat \ {0}
      BY <3>1, <3>3
    <3> QED BY <3>2, <3>4 DEF Object
  <2>2. found \in [1 .. m -> Object] /\ m \in Nat
    BY <1>5, <1>6, <2>1 DEF Discovered
  <2> QED BY <2>2
<1>8. Len(answer.rows) <= MaxRows
  <2>1. Len(Take(found, MaxRows)) = AtMost(MaxRows, m)
    <3> HIDE DEF found
    <3> QED BY <1>0, <1>7, TakeIs
  <2> QED BY <1>0, <1>2, <1>6, <2>1 DEF AtMost
<1>9. answer.truncated => Len(asked) > MaxRows
  <2> HIDE DEF found
  <2>1. Len(found) > MaxRows => Len(asked) > MaxRows
    BY <1>0, <1>1, <1>5, <1>6, <1>7
  <2> QED BY <1>2, <2>1
<1>10. ASSUME ColumnsUpTo(asked, AtMost(Len(asked), MaxRows + 1)) <= ColumnBudget
       PROVE  found = bounded
  <2>1. AtMost(Len(asked), MaxRows + 1) = Len(bounded)
    BY <1>0, <1>1, <1>3 DEF AtMost
  <2>2. \A i \in 1 .. Len(bounded) : Columns(bounded)[i] = Columns(asked)[i]
    <3>1. /\ \A i \in 1 .. Len(bounded) : Columns(bounded)[i] = bounded[i].columns
          /\ \A i \in 1 .. Len(asked) : Columns(asked)[i] = asked[i].columns
      BY <1>1, <1>3, ColumnsType
    <3>2. \A i \in 1 .. Len(bounded) : i \in 1 .. Len(asked) /\ bounded[i] = asked[i]
      BY <1>0, <1>1, <1>3, <1>5
    <3> QED BY <3>1, <3>2
  <2>3. Totals(Columns(bounded))[Len(bounded)] = Totals(Columns(asked))[Len(bounded)]
    <3>1. /\ Columns(bounded) \in Seq(Nat) /\ Len(Columns(bounded)) = Len(bounded)
          /\ Columns(asked) \in Seq(Nat) /\ Len(Columns(asked)) = Len(asked)
      BY <1>1, <1>3, ColumnsType
    <3>2. /\ Len(bounded) \in Nat
          /\ Len(bounded) <= Len(Columns(bounded)) /\ Len(bounded) <= Len(Columns(asked))
      BY <1>0, <1>1, <1>3, <1>5, <3>1
    <3> HIDE DEF bounded, asked
    <3>3. \A i \in 0 .. Len(bounded) : Totals(Columns(bounded))[i] = Totals(Columns(asked))[i]
      BY <2>2, <3>1, <3>2, TotalsAlike
    <3> QED BY <3>2, <3>3
  <2>4. ColumnsUpTo(bounded, Len(bounded)) <= ColumnBudget
    BY <1>1, <1>3, <1>10, <2>1, <2>3, ColumnsType
  <2>5. /\ Present(bounded) = 1 .. Len(bounded)
        /\ \A i \in 1 .. Len(bounded) : Fetched(bounded, i) = bounded[i].columns
    BY <1>3, <2>4, FetchedFirst
  <2>6. ASSUME NEW i \in 1 .. Len(bounded) PROVE found[i] = bounded[i]
    <3>1. bounded[i] \in Object
      BY <1>3
    <3>2. found[i] = [bounded[i] EXCEPT !.columns = bounded[i].columns]
      BY <2>5 DEF Discovered
    <3> QED BY <3>1, <3>2 DEF Object
  <2>7. m = Len(bounded)
    BY <1>5, <1>6, <2>5
  <2> HIDE DEF found
  <2> QED BY <1>3, <1>7, <2>6, <2>7, SameSequence
<1> HIDE DEF found
<1> QED BY <1>2, <1>4, <1>5, <1>8, <1>9, <1>10 DEF asked, answer
===============================================================================
