---------------------------- MODULE ResultStores ----------------------------
(***************************************************************************)
(* The four stores of execution results (lib/storage/                      *)
(* stored_execution_result.py).  They differ in what becomes of an error:  *)
(* an insert into BigTable raises it unless it is a status of the row,     *)
(* which nobody looks at; the others log it and return, except that the    *)
(* timeout of the output sink is no Exception and passes; a read           *)
(* from BigTable raises it, an object store omits the object, Postgres     *)
(* answers that there is nothing.                                          *)
(***************************************************************************)

\* What an insert may come to: whether the store holds a result afterwards, and what
\* is raised; an error and a timeout may come after the write was done.
Insertions(helds, raises) == [held : helds, raises : {raises}]

\* mutate_rows returns a status for each row instead of raising.
BigTableInsert(held) ==
  Insertions({held, TRUE}, "nothing") \cup Insertions({held, TRUE}, "error") \cup Insertions({held, TRUE}, "timeout")
GcsInsert(held) == Insertions({held, TRUE}, "nothing") \cup Insertions({held, TRUE}, "timeout")
MinioInsert(held) == Insertions({held, TRUE}, "nothing") \cup Insertions({held, TRUE}, "timeout")
\* The id is the primary key: a second insert fails, and that is logged too.
PostgresInsert(held) == Insertions({held, TRUE}, "nothing") \cup Insertions({held, TRUE}, "timeout")

Insert(store, held) ==
  CASE store = "bigtable" -> BigTableInsert(held)
    [] store = "gcs" -> GcsInsert(held)
    [] store = "minio" -> MinioInsert(held)
    [] store = "postgres" -> PostgresInsert(held)

\* Of the rows a store holds, those a read may answer with, if it raises nothing.
BigTableSelectMany(rows) == {rows}
GcsSelectMany(rows) == SUBSET rows
MinioSelectMany(rows) == SUBSET rows
PostgresSelectMany(rows) == {rows, {}}

SelectMany(store, rows) ==
  CASE store = "bigtable" -> BigTableSelectMany(rows)
    [] store = "gcs" -> GcsSelectMany(rows)
    [] store = "minio" -> MinioSelectMany(rows)
    [] store = "postgres" -> PostgresSelectMany(rows)
=============================================================================
