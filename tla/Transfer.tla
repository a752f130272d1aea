------------------------------- MODULE Transfer -------------------------------
(***************************************************************************)
(* The transfer of an SQLite history to PostgreSQL (db/transfer.py): a      *)
(* sequence of transactions on the target, any prefix of which may be all   *)
(* that an interrupted call has done, and the two validations.              *)
(*                                                                         *)
(* A row is a function of its columns; a source may lack some of them. A    *)
(* database is [rows, next, progress]: the rows and the next identity of    *)
(* each table, and what migration_progress says. The source does not        *)
(* change during a call and nobody else writes to the target.               *)
(***************************************************************************)
EXTENDS Integers, Sequences, FiniteSets, FiniteSetsExt, SequencesExt, Functions

CONSTANT None

TransferOrder ==
  <<"observations", "forecast_runs", "forecast_points", "observation_derivations",
    "ev_session_annotations", "ev_session_annotation_rows">>
TableNames == Range(TransferOrder)
Serial == {"forecast_runs", "forecast_points", "observation_derivations",
           "ev_session_annotations"}

KeyColumns(table) ==
  CASE table = "observations" -> {"slot"}
    [] table = "ev_session_annotation_rows" -> {"annotation", "slot"}
    [] OTHER -> {"id"}

\* Columns that refer to another table, and the table.
References(table) ==
  CASE table = "forecast_points" -> {<<"run", "forecast_runs">>}
    [] table = "observation_derivations" -> {<<"slot", "observations">>}
    [] table = "ev_session_annotation_rows" ->
         {<<"slot", "observations">>, <<"annotation", "ev_session_annotations">>}
    [] OTHER -> {}

\* uq_derivation_business_key: version stands for model version and fingerprint.
UniqueColumns(table) ==
  IF table = "observation_derivations" THEN {KeyColumns(table), {"slot", "version"}}
  ELSE {KeyColumns(table)}

\* Every column of the target that a source may lack is null there.
Columns(table) == IF table = "observations" THEN {"slot", "raw", "eligible", "vehicle"} ELSE {}
Completed(table, row) ==
  [c \in DOMAIN row \cup Columns(table) |-> IF c \in DOMAIN row THEN row[c] ELSE None]

Same(row, other, columns) == \A c \in columns : row[c] = other[c]
Existing(rows, table, row) == {e \in rows : Same(e, row, KeyColumns(table))}
Differs(stored, row) == \E c \in DOMAIN row : stored[c] # row[c]

\* The constraints a transaction must leave satisfied.
Valid(rows, table) ==
  /\ \A r \in rows[table], u \in UniqueColumns(table) :
       \A o \in rows[table] \ {r} : ~Same(r, o, u)
  /\ \A r \in rows[table], f \in References(table) :
       \E p \in rows[f[2]], c \in KeyColumns(f[2]) : p[c] = r[f[1]]

----------------------------------------------------------------------------
(* The transactions of a call.                                              *)

\* In the order of the primary key; a history here has fewer than 16 slots.
Place(table, row) ==
  CASE table = "observations" -> row.slot
    [] table = "ev_session_annotation_rows" -> 16 * row.annotation + row.slot
    [] OTHER -> row.id
Rank(table, rows, row) == Cardinality({r \in rows : Place(table, r) < Place(table, row)})

\* The rows of a table, so many at a time, up to its last batch.
InBatches(table, rows, size, last) ==
  [n \in 1 .. last |->
     [kind |-> "batch", table |-> table,
      rows |-> {r \in rows : Rank(table, rows, r) \div size = n - 1}]]

\* Mutant of Batches: what is left when the source ends is not written.
BatchesFull(table, rows, size) ==
  InBatches(table, rows, size, Cardinality(rows) \div size)

Batches(table, rows, size) ==
  InBatches(table, rows, size, (Cardinality(rows) + size - 1) \div size)

\* _store_progress and _synchronize_postgresql_sequence follow a table that was copied.
Completing(table, rows, apply) ==
  (IF apply
   THEN <<[kind |-> "progress", table |-> table, rows |-> rows]>>
   ELSE <<>>)
  \o (IF apply /\ table \in Serial
      THEN <<[kind |-> "sequence", table |-> table, rows |-> {}]>> ELSE <<>>)

\* A source without a table has none of its rows, and nothing is done about it.
Transactions(source, size, apply) ==
  FlattenSeq([n \in DOMAIN TransferOrder |->
    LET table == TransferOrder[n]
    IN  IF table \notin DOMAIN source THEN <<>>
        ELSE Batches(table, source[table], size) \o Completing(table, source[table], apply)])

WriteBatch(call, table, batch, apply) ==
  LET rows == call.db.rows
      missing == {r \in batch : Existing(rows[table], table, r) = {}}
      unequal == {r \in batch : \E e \in Existing(rows[table], table, r) : Differs(e, r)}
      written == [rows EXCEPT ![table] = @ \cup {Completed(table, r) : r \in missing}]
  IN  IF apply /\ ~Valid(written, table) THEN [call EXCEPT !.failed = TRUE]
      ELSE [call EXCEPT !.copied = @ + Cardinality(missing),
                        !.conflicts = @ \cup {<<table, r>> : r \in unequal},
                        !.db.rows = IF apply THEN written ELSE @]

\* setval may also set the sequence back.
Synchronized(rows) == IF rows = {} THEN 1 ELSE 1 + Max({r.id : r \in rows})

Execute(call, step, apply) ==
  CASE call.failed -> call
    [] ~call.failed /\ step.kind = "batch" -> WriteBatch(call, step.table, step.rows, apply)
    [] ~call.failed /\ step.kind = "progress" ->
         [call EXCEPT !.db.progress[step.table] = Cardinality(step.rows)]
    [] ~call.failed /\ step.kind = "sequence" ->
         [call EXCEPT !.db.next[step.table] = Synchronized(call.db.rows[step.table])]

\* What a call has done after so many transactions.
TransferTo(source, db, size, apply, n) ==
  LET steps == Transactions(source, size, apply)
      call[k \in 0 .. n] ==
        IF k = 0 THEN [db |-> db, copied |-> 0, conflicts |-> {}, failed |-> FALSE]
        ELSE Execute(call[k - 1], steps[k], apply)
  IN  call[n]

Transfer(source, db, size, apply) ==
  TransferTo(source, db, size, apply, Len(Transactions(source, size, apply)))

\* The summary of a call that ended with a report.
Passes(call) == ~call.failed /\ call.conflicts = {}

----------------------------------------------------------------------------
(* Validation.                                                              *)

RowsOf(source, table) == IF table \in DOMAIN source THEN source[table] ELSE {}

Related(db) == \A table \in TableNames : Valid(db.rows, table)

Preserved(source, db) ==
  \A table \in TableNames : \A r \in RowsOf(source, table) :
    \E e \in Existing(db.rows[table], table, r) : ~Differs(e, r)

ValidatePreserved(source, db) ==
  LET matches == {m \in RowsOf(source, "observations") \X db.rows["observations"] :
                    m[1].slot = m[2].slot}
  IN  /\ Preserved(source, db)
      /\ Cardinality(matches) = Cardinality(RowsOf(source, "observations"))
      /\ \A m \in matches : m[1].raw = m[2].raw
      /\ Related(db)

Telemetry(rows) == {<<r.slot, r.raw>> : r \in rows}
Eligible(rows) == {r \in rows : r.eligible}

ValidateExact(source, db) ==
  LET stored == db.rows["observations"]
  IN  /\ \A table \in TableNames :
           Cardinality(RowsOf(source, table)) = Cardinality(db.rows[table])
      /\ "observations" \in DOMAIN source =>
           /\ Telemetry(source["observations"]) = Telemetry(stored)
           /\ Cardinality(Eligible(source["observations"])) = Cardinality(Eligible(stored))
      /\ Related(db)

----------------------------------------------------------------------------
(* What a transfer promises, of any target: it may be empty, half copied,   *)
(* or in use since.                                                         *)

\* Nothing is lost or rewritten.
Kept(before, after) == \A table \in TableNames : before.rows[table] \subseteq after.rows[table]

\* The next identity of a table is a new one.
Continues(source, db) ==
  \A table \in Serial \cap DOMAIN source : \A r \in db.rows[table] : r.id < db.next[table]

\* A dry run writes nothing and reports what the transfer would.
DryRunForetells(source, db, size) ==
  LET dry == Transfer(source, db, size, FALSE)
      wet == Transfer(source, db, size, TRUE)
  IN  /\ dry.db = db
      /\ ~wet.failed => dry.copied = wet.copied /\ dry.conflicts = wet.conflicts

\* A call that is cut off anywhere and repeated ends where one call would have.
Repeatable(source, db, size) ==
  LET once == Transfer(source, db, size, TRUE)
  IN  \A n \in 0 .. Len(Transactions(source, size, TRUE)) :
        LET cut == TransferTo(source, db, size, TRUE, n).db
            again == Transfer(source, cut, size, TRUE)
        IN  /\ Kept(db, cut)
            /\ again.db = once.db
            /\ Passes(again) <=> Passes(once)

\* PASS means that the source is there, every row with what it refers to; and only both
\* validations together say that nothing else is.
PassIsWhole(source, db, size) ==
  LET done == Transfer(source, db, size, TRUE)
      extra == \E table \in TableNames :
                 Cardinality(done.db.rows[table]) > Cardinality(RowsOf(source, table))
  IN  /\ ~done.failed => Continues(source, done.db)
      /\ Passes(done) => /\ ValidatePreserved(source, done.db)
                         /\ ValidateExact(source, done.db) <=> ~extra
      /\ ~Passes(done) => ~ValidatePreserved(source, done.db)

TransferIsSafe(source, db, size) ==
  /\ DryRunForetells(source, db, size)
  /\ Repeatable(source, db, size)
  /\ PassIsWhole(source, db, size)

=============================================================================
