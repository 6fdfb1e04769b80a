--------------------------- MODULE QueueValidate ----------------------------
(***************************************************************************)
(* The single pass of validate_journal, with the accumulators of the code, *)
(* beside the declarative ValidateJournal that the store and the proofs    *)
(* use.  TLC compares the two on all that a caller could submit after it   *)
(* has read the stored journal, wrong rows included; QueueStoreProofs has  *)
(* the agreement for every sequence of rows.                               *)
(***************************************************************************)
EXTENDS QueueStore, SequencesExt

\* The accumulators of the loop (line 72).
Start == [ok |-> TRUE, seen |-> {}, recovered |-> {}, unfinished |-> FALSE,
          open_stalled |-> {}, size |-> 0]

SeenIncident(acc, row) ==
    {r \in acc.seen : r.kind # "recovery" /\ r.incident = row.incident}

RowSize(row) == RowBytes + IF row.message_id = NoReceipt THEN 0 ELSE ReceiptBytes

\* Lines 74-97: what the pass requires of one row.
Accepts(acc, row) ==
    /\ ~ acc.unfinished
    /\ Key(row) \notin {Key(r) : r \in acc.seen}
    /\ IF row.kind = "recovery"
       THEN /\ \E r \in SeenIncident(acc, row) :
                  /\ r.status = "confirmed"
                  /\ row.cutoff >= r.cutoff
            /\ row.incident \notin acc.recovered
       ELSE /\ row.incident[1] = row.kind
            /\ row.kind = "stalled" => acc.open_stalled = {}
    /\ row.status = "confirmed" <=> row.message_id # NoReceipt
    /\ acc.size + RowSize(row) <= MaxBytes

\* Faulty variant: a recovery that is only announced closes its stall.
VisitClosesEarly(acc, row) ==
    [ok |-> acc.ok /\ Accepts(acc, row),
     seen |-> acc.seen \cup {row},
     recovered |-> acc.recovered
                     \cup IF row.kind = "recovery" THEN {row.incident} ELSE {},
     unfinished |-> acc.unfinished \/ row.status # "confirmed",
     open_stalled |->
        CASE row.kind = "stalled" -> acc.open_stalled \cup {row.incident}
          [] row.kind = "recovery" ->
                acc.open_stalled \ {row.incident}
          [] OTHER -> acc.open_stalled,
     size |-> acc.size + RowSize(row)]

\* Lines 74-98: one turn of the loop.
Visit(acc, row) ==
    [ok |-> acc.ok /\ Accepts(acc, row),
     seen |-> acc.seen \cup {row},
     recovered |-> acc.recovered
                     \cup IF row.kind = "recovery" THEN {row.incident} ELSE {},
     unfinished |-> acc.unfinished \/ row.status # "confirmed",
     open_stalled |->
        CASE row.kind = "stalled" -> acc.open_stalled \cup {row.incident}
          [] row.kind = "recovery" /\ row.status = "confirmed" ->
                acc.open_stalled \ {row.incident}
          [] OTHER -> acc.open_stalled,
     size |-> acc.size + RowSize(row)]

Pass(rows) == FoldLeft(Visit, Start, rows)
PassAccepts(rows) == Len(rows) <= MaxEvents /\ Pass(rows).ok

\* A journal has just been read, and nothing has been asked since.
JustRead == \A c \in Callers : pc[c] = "idle" /\ result[c] = "none" /\ expected[c] = journal

\* One more row, or another last row: any row at all.
Submissions ==
    LET rows == Rows(journal)
    IN  {Append(rows, row) : row \in Row}
          \cup IF rows = <<>> THEN {} ELSE {[rows EXCEPT ![Len(rows)] = row] : row \in Row}

\* The declarative definition accepts exactly the journals the pass accepts
\* (lines 65-100), so what is proved of the one holds of the other.
DefinitionsAgree ==
    JustRead => \A rows \in Submissions : ValidateJournal(rows) <=> PassAccepts(rows)

\* The accumulator that silences repeated alerts is right: over the stored
\* journal it holds the one stalled incident without a confirmed recovery,
\* never two (lines 84-89), whatever the callers and late requests did.
OneStallOpen ==
    LET rows == Rows(journal)
        open == Pass(rows).open_stalled
    IN  /\ Cardinality(open) <= 1
        /\ open = {rows[i].incident : i \in
                     {k \in 1..Len(rows) :
                        /\ rows[k].kind = "stalled"
                        /\ ~ Closed(rows, Len(rows) + 1, rows[k].incident)}}
=============================================================================
