-------------------------------- MODULE DuckDb --------------------------------
(***************************************************************************)
(* The statements of the orchestrator's DuckDB wrapper (services/db).  A   *)
(* table is a set of rows, a row is a record whose fields are the columns, *)
(* and a WHERE object is a record over some of the columns.  Every         *)
(* statement runs by itself: the wrapper opens no transaction.             *)
(***************************************************************************)

\* `WHERE c1 = ? AND c2 = ? ...`; the empty object has no WHERE clause.
Matches(row, where) == \A c \in DOMAIN where : row[c] = where[c]

Select(table, where) == {row \in table : Matches(row, where)}

\* Two rows agree on the columns of the table's PRIMARY KEY.
SameKey(key, r1, r2) == \A c \in key : r1[c] = r2[c]

\* INSERT OR IGNORE: a row whose primary key is taken changes nothing.
Insert(table, key, row) ==
    IF \E r \in table : SameKey(key, r, row) THEN table ELSE table \cup {row}

Delete(table, where) == {row \in table : ~Matches(row, where)}

\* UPDATE ... SET: the columns of `set` replace those of the matching rows.
Update(table, set, where) ==
    {IF Matches(row, where)
       THEN [c \in DOMAIN row |-> IF c \in DOMAIN set THEN set[c] ELSE row[c]]
       ELSE row : row \in table}
===============================================================================
