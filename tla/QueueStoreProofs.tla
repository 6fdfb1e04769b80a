-------------------------- MODULE QueueStoreProofs --------------------------
(***************************************************************************)
(* Proofs about QueueStore, for every value of its constants: its          *)
(* invariants, that it implements NotificationLedger, and that the pass of *)
(* QueueValidate, which the code executes, decides ValidateJournal, which  *)
(* the store and the other proofs use.                                     *)
(***************************************************************************)
EXTENDS QueueValidate, FiniteSetTheorems, TLAPS

-----------------------------------------------------------------------------
(* Growth is a partial order on valid journals, and transitions follow it. *)

\* Rows grow reflexively and transitively.
LEMMA RowGrowthIsPreorder ==
    ASSUME NEW r \in Row, NEW s \in Row, NEW t \in Row
    PROVE  /\ RowGrowth(r, r)
           /\ RowGrowth(r, s) /\ RowGrowth(s, t) => RowGrowth(r, t)
<1>1. Rank(r) \in Nat /\ Rank(s) \in Nat /\ Rank(t) \in Nat
  BY DEF Row, Status, Rank
<1>2. RowGrowth(r, r)
  BY <1>1 DEF RowGrowth, SameIntent
<1>3. ASSUME RowGrowth(r, s), RowGrowth(s, t)
      PROVE  RowGrowth(r, t)
  BY <1>1, <1>3 DEF RowGrowth, SameIntent
<1>4. QED
  BY <1>2, <1>3

\* Every journal is a past of itself.
LEMMA GrowthReflexive ==
    ASSUME NEW a \in Stored
    PROVE  Growth(a, a)
<1>1. CASE a = Missing
  BY <1>1 DEF Growth
<1>2. CASE a # Missing
  <2>1. a \in Seq(Row)
    BY <1>2 DEF Stored, Journal
  <2>2. \A i \in 1..Len(a) : RowGrowth(a[i], a[i])
    BY <2>1, RowGrowthIsPreorder
  <2>3. QED
    BY <1>2, <2>1, <2>2 DEF Growth
<1>3. QED
  BY <1>1, <1>2

\* A past of a past is a past.
LEMMA GrowthTransitive ==
    ASSUME NEW a \in Stored, NEW b \in Stored, NEW d \in Stored,
           Growth(a, b), Growth(b, d)
    PROVE  Growth(a, d)
<1>1. CASE a = Missing
  BY <1>1 DEF Growth
<1>2. CASE a # Missing
  <2>1. /\ b # Missing /\ d # Missing
        /\ a \in Seq(Row) /\ b \in Seq(Row) /\ d \in Seq(Row)
        /\ Len(a) <= Len(b) /\ Len(b) <= Len(d)
    BY <1>2 DEF Growth, Stored, Journal
  <2>2. ASSUME NEW i \in 1..Len(a)
        PROVE  RowGrowth(a[i], d[i])
    <3>1. i \in 1..Len(b) /\ i \in 1..Len(d)
      BY <2>1
    <3>2. a[i] \in Row /\ b[i] \in Row /\ d[i] \in Row
      BY <2>1, <3>1
    <3>3. RowGrowth(a[i], b[i]) /\ RowGrowth(b[i], d[i])
      BY <1>2, <2>1, <3>1 DEF Growth
    <3>4. QED
      BY <3>2, <3>3, RowGrowthIsPreorder
  <2>3. QED
    BY <2>1, <2>2 DEF Growth
<1>3. QED
  BY <1>1, <1>2

\* In a valid journal only a confirmed row holds a receipt.
LEMMA ReceiptIffConfirmed ==
    ASSUME NEW a, ValidateJournal(a), NEW i \in 1..Len(a)
    PROVE  /\ a[i] \in Row
           /\ Finished(a[i]) <=> a[i].message_id # NoReceipt
  BY DEF ValidateJournal, Journal

\* Two valid journals that are each other's past are the same.
LEMMA GrowthAntisymmetric ==
    ASSUME NEW a \in Stored, NEW b \in Stored,
           a # Missing => ValidateJournal(a), b # Missing => ValidateJournal(b),
           Growth(a, b), Growth(b, a)
    PROVE  a = b
<1>1. CASE a = Missing \/ b = Missing
  BY <1>1 DEF Growth
<1>2. CASE a # Missing /\ b # Missing
  <2>1. /\ a \in Seq(Row) /\ b \in Seq(Row)
        /\ Len(a) = Len(b)
    BY <1>2 DEF Growth, Stored, Journal
  <2>2. ASSUME NEW i \in 1..Len(a)
        PROVE  a[i] = b[i]
    <3>0. i \in 1..Len(b)
      BY <2>1
    <3>1. a[i] \in Row /\ b[i] \in Row
      BY <1>2, <3>0, ReceiptIffConfirmed
    <3>2. RowGrowth(a[i], b[i]) /\ RowGrowth(b[i], a[i])
      BY <1>2, <3>0 DEF Growth
    <3>3. a[i].status = b[i].status
      BY <3>1, <3>2 DEF RowGrowth, Rank, Row, Status
    <3>4. CASE Finished(a[i])
      BY <3>2, <3>4 DEF RowGrowth
    <3>5. CASE ~ Finished(a[i])
      <4>1. a[i].message_id = NoReceipt /\ b[i].message_id = NoReceipt
        BY <1>2, <3>0, <3>3, <3>5, ReceiptIffConfirmed DEF Finished
      <4>2. QED
        BY <3>1, <3>2, <3>3, <4>1 DEF Row, RowGrowth, SameIntent
    <3>6. QED
      BY <3>4, <3>5
  <2>3. QED
    BY <2>1, <2>2
<1>3. QED
  BY <1>1, <1>2

\* A legal transition leads to a valid journal in whose past it started.
LEMMA LegalTransitionGrows ==
    ASSUME NEW a \in Stored, NEW b \in Stored, LegalTransition(a, b)
    PROVE  /\ b \in Journal /\ b # Missing /\ ValidateJournal(b)
           /\ Growth(a, b)
<1>1. b # Missing /\ ValidateJournal(b) /\ b \in Journal
  BY DEF LegalTransition, ValidateTransition, ValidateJournal
<1>2. CASE a = Missing
  BY <1>1, <1>2 DEF Growth
<1>3. CASE a # Missing
  <2>1. ValidateTransition(a, b) /\ a \in Seq(Row) /\ b \in Seq(Row)
    BY <1>1, <1>3 DEF LegalTransition, Rows, Stored, Journal
  <2>2. Len(a) <= Len(b)
    BY <2>1 DEF ValidateTransition
  <2>3. ASSUME NEW i \in 1..Len(a)
        PROVE  RowGrowth(a[i], b[i])
    <3>1. a[i] \in Row /\ b[i] \in Row
      BY <2>1, <2>2
    <3>2. /\ SameIntent(a[i], b[i])
          /\ b[i] = a[i] \/ <<a[i].status, b[i].status>> \in ReceiptStep
      BY <2>1 DEF ValidateTransition, Changed
    <3>3. CASE b[i] = a[i]
      BY <3>1, <3>3, RowGrowthIsPreorder
    <3>4. CASE <<a[i].status, b[i].status>> \in ReceiptStep
      BY <3>1, <3>2, <3>4 DEF RowGrowth, Rank, ReceiptStep, Finished
    <3>5. QED
      BY <3>2, <3>3, <3>4
  <2>4. QED
    BY <1>1, <1>3, <2>2, <2>3 DEF Growth
<1>4. QED
  BY <1>1, <1>2, <1>3

-----------------------------------------------------------------------------
(* Type correctness. *)

\* Ending a call keeps the callers' variables well typed.
LEMMA ReturnTypes ==
    ASSUME TypeOK, NEW c \in Callers, NEW status \in Results, Return(c, status)
    PROVE  /\ pc' \in [Callers -> {"idle", "load", "cas", "reload"}]
           /\ result' \in [Callers -> Results]
           /\ attempt' \in [Callers -> 1..MaxAttempts]
           /\ base' \in [Callers -> Nat]
           /\ desired' \in [Callers -> Stored]
           /\ expected' \in [Callers -> Stored]
           /\ uncertain' \in [Callers -> BOOLEAN]
<1>1. 1 \in 1..MaxAttempts
  BY StoreAssumption
<1>2. Missing \in Stored
  BY DEF Stored
<1>3. (CASE Succeeded(status) -> desired[c]
         [] status = "conflict" -> expected[c]
         [] OTHER -> Missing) \in Stored
  BY <1>2 DEF TypeOK, Succeeded
<1>4. (uncertain[c] /\ Succeeded(status)) \in BOOLEAN
  OBVIOUS
<1>5. QED
  BY <1>1, <1>2, <1>3, <1>4 DEF TypeOK, Return, Bootstrap

\* A ref update keeps the branch well typed.
LEMMA UpdateRefTypes ==
    ASSUME TypeOK, NEW parent, NEW new \in Stored, UpdateRef(parent, new)
    PROVE  head' \in Nat /\ journal' \in Stored /\ workers' \in 0..MaxWorkerCommits
  BY DEF TypeOK, UpdateRef

\* What a call in progress wants is a journal: part of the type invariant's
\* strengthening, since an abandoned request carries it.
DesiredTyped == \A c \in Callers : pc[c] # "idle" => desired[c] \in Journal

LEMMA InitTypes == Init => TypeOK /\ DesiredTyped
  BY StoreAssumption
  DEF Init, TypeOK, DesiredTyped, Stored, Bootstrap, Results

LEMMA TypeStep == TypeOK /\ DesiredTyped /\ [Next]_vars => TypeOK' /\ DesiredTyped'
<1> SUFFICES ASSUME TypeOK, DesiredTyped, [Next]_vars
             PROVE  TypeOK' /\ DesiredTyped'
  OBVIOUS
<1> USE DEF branch, call
<1>1. ASSUME NEW c \in Callers, Read(c)
      PROVE  TypeOK' /\ DesiredTyped'
  BY <1>1 DEF Read, TypeOK, DesiredTyped, Results
<1>2. ASSUME NEW c \in Callers, Begin(c)
      PROVE  TypeOK' /\ DesiredTyped'
  <2>1. PICK next : /\ LegalTransition(expected[c], next)
                    /\ desired' = [desired EXCEPT ![c] = next]
    BY <1>2 DEF Begin
  <2>2. next \in Journal
    BY <2>1 DEF LegalTransition, ValidateTransition, ValidateJournal
  <2>3. QED
    BY <1>2, <2>1, <2>2 DEF Begin, TypeOK, DesiredTyped, Results, Stored
<1>3. ASSUME NEW c \in Callers, Load(c)
      PROVE  TypeOK' /\ DesiredTyped'
  <2>1. CASE Return(c, "already-applied") \/ Return(c, "conflict")
    <3>1. "already-applied" \in Results /\ "conflict" \in Results
      BY DEF Results
    <3>2. QED
      BY <1>3, <2>1, <3>1, ReturnTypes DEF Load, TypeOK, DesiredTyped, Return
  <2>2. CASE /\ base' = [base EXCEPT ![c] = head]
             /\ pc' = [pc EXCEPT ![c] = "cas"]
             /\ UNCHANGED <<call, result>>
    BY <1>3, <2>2 DEF Load, TypeOK, DesiredTyped
  <2>3. QED
    BY <1>3, <2>1, <2>2 DEF Load
<1>4. ASSUME NEW c \in Callers, LoadFails(c) \/ ReloadFails(c) \/ Crash(c)
      PROVE  TypeOK' /\ DesiredTyped'
  <2>1. PICK status \in Results : Return(c, status)
    BY <1>4 DEF LoadFails, ReloadFails, Crash, Results
  <2>2. UNCHANGED branch
    BY <1>4 DEF LoadFails, ReloadFails, Crash
  <2>3. QED
    BY <2>1, <2>2, ReturnTypes DEF TypeOK, DesiredTyped, Return
<1>5. ASSUME NEW c \in Callers, CasAcknowledged(c)
      PROVE  TypeOK' /\ DesiredTyped'
  <2>1. head' \in Nat /\ journal' \in Stored /\ workers' \in 0..MaxWorkerCommits
    BY <1>5, UpdateRefTypes DEF CasAcknowledged, TypeOK
  <2>2. QED
    BY <1>5, <2>1 DEF CasAcknowledged, TypeOK, DesiredTyped, Bootstrap
<1>6. ASSUME NEW c \in Callers, CasRaises(c)
      PROVE  TypeOK' /\ DesiredTyped'
  <2>1. /\ head' \in Nat /\ journal' \in Stored /\ workers' \in 0..MaxWorkerCommits
        /\ late' \subseteq [parent : Nat, journal : Journal]
    <3>1. CASE UpdateRef(base[c], desired[c]) /\ UNCHANGED late
      BY <3>1, UpdateRefTypes DEF TypeOK
    <3>2. CASE UNCHANGED branch
      BY <3>2 DEF TypeOK
    <3>3. CASE /\ late' = late \cup {[parent |-> base[c], journal |-> desired[c]]}
               /\ UNCHANGED <<head, journal, workers>>
      <4>1. base[c] \in Nat /\ desired[c] \in Journal
        BY <1>6 DEF CasRaises, TypeOK, DesiredTyped
      <4>2. QED
        BY <3>3, <4>1 DEF TypeOK
    <3>4. QED
      BY <1>6, <3>1, <3>2, <3>3 DEF CasRaises
  <2>2. QED
    BY <1>6, <2>1 DEF CasRaises, TypeOK, DesiredTyped, Bootstrap
<1>7. ASSUME NEW c \in Callers, Reload(c)
      PROVE  TypeOK' /\ DesiredTyped'
  <2>1. CASE Return(c, "applied") \/ Return(c, "conflict") \/ Return(c, "exhausted")
    <3>1. PICK status \in Results : Return(c, status)
      BY <2>1 DEF Results
    <3>2. QED
      BY <1>7, <3>1, ReturnTypes DEF Reload, TypeOK, DesiredTyped, Return
  <2>2. CASE /\ attempt[c] < MaxAttempts
             /\ attempt' = [attempt EXCEPT ![c] = @ + 1]
             /\ pc' = [pc EXCEPT ![c] = "load"]
             /\ UNCHANGED <<expected, desired, uncertain, base, result>>
    <3>1. attempt[c] + 1 \in 1..MaxAttempts
      BY <2>2, StoreAssumption DEF TypeOK
    <3>2. QED
      BY <1>7, <2>2, <3>1 DEF Reload, TypeOK, DesiredTyped
  <2>3. QED
    BY <1>7, <2>1, <2>2 DEF Reload
<1>8. ASSUME LateArrival
      PROVE  TypeOK' /\ DesiredTyped'
  <2>1. PICK w \in late :
           /\ \/ UpdateRef(w.parent, w.journal)
              \/ w.parent # head /\ UNCHANGED <<head, journal, workers>>
           /\ late' = late \ {w}
           /\ UNCHANGED <<pc, call, base, result>>
    BY <1>8 DEF LateArrival
  <2>2. w.journal \in Stored
    BY DEF TypeOK, Stored
  <2>3. head' \in Nat /\ journal' \in Stored /\ workers' \in 0..MaxWorkerCommits
    BY <2>1, <2>2, UpdateRefTypes DEF TypeOK
  <2>4. QED
    BY <2>1, <2>3 DEF TypeOK, DesiredTyped
<1>9. ASSUME WorkerCommit
      PROVE  TypeOK' /\ DesiredTyped'
  BY <1>9, StoreAssumption DEF WorkerCommit, TypeOK, DesiredTyped
<1>10. CASE UNCHANGED vars
  BY <1>10 DEF vars, TypeOK, DesiredTyped
<1>11. QED
  BY <1>1, <1>2, <1>3, <1>4, <1>5, <1>6, <1>7, <1>8, <1>9, <1>10
  DEF Next, CallStep

\* Every reachable state of the store is well typed: the stored journal and
\* every request under way are journals, and attempts stay within the bound.
THEOREM TypeCorrect == Spec => []TypeOK
<1>1. Spec => [](TypeOK /\ DesiredTyped)
  BY InitTypes, TypeStep, PTL DEF Spec
<1>2. QED
  BY <1>1, PTL

-----------------------------------------------------------------------------
(* What one step does to the branch and to one caller. *)

\* The journal moves only by legal transitions, each under a new head.
LEMMA BranchStep ==
    ASSUME StoreInvariant, [Next]_vars
    PROVE  /\ head' \in Nat /\ head <= head'
           /\ journal' = journal \/ (head < head' /\ LegalTransition(journal, journal'))
<1> USE DEF branch
<1>1. head \in Nat
  BY DEF StoreInvariant, TypeOK
<1>2. CASE UNCHANGED <<head, journal>>
  BY <1>1, <1>2
<1>3. ASSUME NEW c \in Callers, pc[c] = "cas", UpdateRef(base[c], desired[c])
      PROVE  head' = head + 1 /\ LegalTransition(journal, journal')
  <2>1. LegalTransition(expected[c], desired[c])
    BY <1>3 DEF StoreInvariant, CallsAreLegal
  <2>2. journal = expected[c]
    BY <1>3 DEF StoreInvariant, BaseIsFresh, UpdateRef
  <2>3. QED
    BY <1>3, <2>1, <2>2 DEF UpdateRef
<1>4. ASSUME NEW w \in late, UpdateRef(w.parent, w.journal)
      PROVE  head' = head + 1 /\ LegalTransition(journal, journal')
  BY <1>4 DEF StoreInvariant, LateIsLegal, UpdateRef
<1>5. ASSUME WorkerCommit
      PROVE  head' = head + 1 /\ journal' = journal
  BY <1>5 DEF WorkerCommit
<1>6. \/ UNCHANGED <<head, journal>>
      \/ \E c \in Callers : pc[c] = "cas" /\ UpdateRef(base[c], desired[c])
      \/ \E w \in late : UpdateRef(w.parent, w.journal)
      \/ WorkerCommit
  BY DEF Next, CallStep, Read, Begin, Load, LoadFails, CasAcknowledged, CasRaises,
         Reload, ReloadFails, Crash, LateArrival, vars
<1>7. QED
  BY <1>1, <1>2, <1>3, <1>4, <1>5, <1>6

\* The ways a step can treat a caller.
Stays(d) ==
    /\ pc'[d] = pc[d] /\ expected'[d] = expected[d] /\ desired'[d] = desired[d]
    /\ base'[d] = base[d] /\ result'[d] = result[d]
Reads(d) ==
    /\ pc'[d] = "idle" /\ expected'[d] = journal /\ result'[d] = "none"
Begins(d) ==
    /\ pc'[d] = "load" /\ expected'[d] = expected[d] /\ result'[d] = "none"
    /\ LegalTransition(expected[d], desired'[d])
Loads(d) ==
    /\ pc[d] # "idle" /\ pc'[d] = "cas"
    /\ expected'[d] = expected[d] /\ desired'[d] = desired[d] /\ result'[d] = result[d]
    /\ base'[d] = head /\ journal = expected[d] /\ desired[d] # expected[d]
    /\ UNCHANGED branch
Moves(d) ==
    /\ pc[d] # "idle" /\ pc'[d] \in {"load", "reload"}
    /\ expected'[d] = expected[d] /\ desired'[d] = desired[d] /\ result'[d] = result[d]
Ends(d) ==
    /\ pc[d] # "idle" /\ pc'[d] = "idle"
    /\ UNCHANGED branch
    /\ \/ Succeeded(result'[d]) /\ journal = desired[d] /\ expected'[d] = desired[d]
       \/ result'[d] = "conflict" /\ journal # expected[d] /\ expected'[d] = expected[d]
       \/ /\ ~ Succeeded(result'[d]) /\ result'[d] # "conflict"
          /\ expected'[d] = Missing

\* Ending a call, read off at the caller that ends it and at the others.
LEMMA ReturnAt ==
    ASSUME TypeOK, NEW c \in Callers, NEW status, Return(c, status), NEW d \in Callers
    PROVE  /\ d # c => Stays(d)
           /\ pc'[c] = "idle" /\ result'[c] = status
           /\ Succeeded(status) => expected'[c] = desired[c]
           /\ status = "conflict" => expected'[c] = expected[c]
           /\ ~ Succeeded(status) /\ status # "conflict" => expected'[c] = Missing
  BY DEF TypeOK, Return, Stays, Succeeded

LEMMA CallerStep ==
    ASSUME StoreInvariant, [Next]_vars, NEW d \in Callers
    PROVE  Stays(d) \/ Reads(d) \/ Begins(d) \/ Loads(d) \/ Moves(d) \/ Ends(d)
<1> USE DEF call
<1>0. TypeOK
  BY DEF StoreInvariant
<1>1. ASSUME NEW c \in Callers, Read(c)
      PROVE  Stays(d) \/ Reads(d)
  BY <1>0, <1>1 DEF Read, TypeOK, Stays, Reads
<1>2. ASSUME NEW c \in Callers, Begin(c)
      PROVE  Stays(d) \/ Begins(d)
  BY <1>0, <1>2 DEF Begin, TypeOK, Stays, Begins
<1>3. ASSUME NEW c \in Callers, Load(c)
      PROVE  Stays(d) \/ Loads(d) \/ Ends(d)
  <2>1. CASE journal = desired[c] /\ Return(c, "already-applied")
    BY <1>0, <1>3, <2>1, ReturnAt DEF Load, Ends, Succeeded
  <2>2. CASE journal # expected[c] /\ Return(c, "conflict")
    BY <1>0, <1>3, <2>2, ReturnAt DEF Load, Ends
  <2>3. CASE /\ journal # desired[c] /\ journal = expected[c]
             /\ base' = [base EXCEPT ![c] = head]
             /\ pc' = [pc EXCEPT ![c] = "cas"]
             /\ UNCHANGED <<call, result>>
    BY <1>0, <1>3, <2>3 DEF Load, TypeOK, Stays, Loads
  <2>4. QED
    BY <1>3, <2>1, <2>2, <2>3 DEF Load
<1>4. ASSUME NEW c \in Callers, LoadFails(c) \/ ReloadFails(c) \/ Crash(c)
      PROVE  Stays(d) \/ Ends(d)
  <2>1. PICK status : /\ Return(c, status)
                      /\ ~ Succeeded(status) /\ status # "conflict"
    BY <1>4 DEF LoadFails, ReloadFails, Crash, Succeeded
  <2>2. pc[c] # "idle" /\ UNCHANGED branch
    BY <1>4 DEF LoadFails, ReloadFails, Crash
  <2>3. QED
    BY <1>0, <2>1, <2>2, ReturnAt DEF Ends
<1>5. ASSUME NEW c \in Callers, CasAcknowledged(c) \/ CasRaises(c)
      PROVE  Stays(d) \/ Moves(d)
  BY <1>0, <1>5 DEF CasAcknowledged, CasRaises, TypeOK, Stays, Moves
<1>6. ASSUME NEW c \in Callers, Reload(c)
      PROVE  Stays(d) \/ Moves(d) \/ Ends(d)
  <2>1. CASE journal = desired[c] /\ Return(c, "applied")
    BY <1>0, <1>6, <2>1, ReturnAt DEF Reload, Ends, Succeeded
  <2>2. CASE journal # expected[c] /\ Return(c, "conflict")
    BY <1>0, <1>6, <2>2, ReturnAt DEF Reload, Ends
  <2>3. CASE Return(c, "exhausted")
    BY <1>0, <1>6, <2>3, ReturnAt DEF Reload, Ends, Succeeded
  <2>4. CASE /\ pc' = [pc EXCEPT ![c] = "load"]
             /\ UNCHANGED <<expected, desired, uncertain, base, result>>
    BY <1>0, <1>6, <2>4 DEF Reload, TypeOK, Stays, Moves
  <2>5. QED
    BY <1>6, <2>1, <2>2, <2>3, <2>4 DEF Reload
<1>7. CASE LateArrival \/ WorkerCommit \/ UNCHANGED vars
  BY <1>7 DEF LateArrival, WorkerCommit, vars, Stays
<1>8. QED
  BY <1>1, <1>2, <1>3, <1>4, <1>5, <1>6, <1>7 DEF Next, CallStep

\* An abandoned request was one of these, or is the update of a caller in "cas".
LEMMA LateStep ==
    ASSUME StoreInvariant, [Next]_vars, NEW w \in late'
    PROVE  \/ w \in late
           \/ /\ UNCHANGED <<head, journal>>
              /\ \E c \in Callers : /\ pc[c] = "cas"
                                    /\ w = [parent |-> base[c], journal |-> desired[c]]
  BY DEF Next, CallStep, Read, Begin, Load, LoadFails, CasAcknowledged, CasRaises,
         Reload, ReloadFails, Crash, LateArrival, WorkerCommit, vars, branch

-----------------------------------------------------------------------------
(* The inductive invariant. *)

LEMMA InitInvariant == Init => StoreInvariant
<1> SUFFICES ASSUME Init
             PROVE  StoreInvariant
  OBVIOUS
<1>1. TypeOK
  BY InitTypes
<1>2. StoredValid /\ SnapshotsArePast /\ CallsAreLegal /\ BaseIsFresh /\ LateIsLegal
  BY DEF Init, StoredValid, SnapshotsArePast, CallsAreLegal, BaseIsFresh, LateIsLegal,
         Growth
<1>3. SuccessIsSnapshot /\ ConflictIsFinal
  BY DEF Init, SuccessIsSnapshot, ConflictIsFinal, Succeeded
<1>4. OneAuthor
  BY DEF Init, OneAuthor, Author
<1>5. QED
  BY <1>1, <1>2, <1>3, <1>4 DEF StoreInvariant

\* An author was one before and wrote the same, or its update is acknowledged now.
LEMMA AuthorStep ==
    ASSUME StoreInvariant, [Next]_vars, NEW d \in Callers, Author(d)'
    PROVE  \/ Author(d) /\ Wanted(d)' = Wanted(d)
           \/ CasAcknowledged(d)
<1> USE DEF call
<1>1. TypeOK /\ (pc[d] # "idle" => result[d] = "none")
  BY DEF StoreInvariant, CallsAreLegal
<1>2. ASSUME NEW c \in Callers, Read(c) \/ Begin(c)
      PROVE  Author(d) /\ Wanted(d)' = Wanted(d)
  BY <1>1, <1>2 DEF Read, Begin, TypeOK, Author, Wanted
<1>3. ASSUME NEW c \in Callers, NEW status, Return(c, status), pc[c] # "idle",
             status = "applied" => pc[c] = "reload" /\ ~ uncertain'[c] = ~ uncertain[c]
      PROVE  Author(d) /\ Wanted(d)' = Wanted(d)
  <2>1. CASE c = d
    BY <1>1, <1>3, <2>1 DEF Return, TypeOK, Author, Wanted, Succeeded
  <2>2. CASE c # d
    BY <1>1, <1>3, <2>2 DEF Return, TypeOK, Author, Wanted, Succeeded
  <2>3. QED
    BY <2>1, <2>2
<1>4. ASSUME NEW c \in Callers, Load(c)
      PROVE  Author(d) /\ Wanted(d)' = Wanted(d)
  <2>1. CASE Return(c, "already-applied")
    BY <1>3, <1>4, <2>1 DEF Load
  <2>2. CASE Return(c, "conflict")
    BY <1>3, <1>4, <2>2 DEF Load
  <2>3. CASE pc' = [pc EXCEPT ![c] = "cas"] /\ UNCHANGED <<call, result>>
    BY <1>1, <1>4, <2>3 DEF Load, TypeOK, Author, Wanted
  <2>4. QED
    BY <1>4, <2>1, <2>2, <2>3 DEF Load
<1>5. ASSUME NEW c \in Callers, LoadFails(c) \/ ReloadFails(c) \/ Crash(c)
      PROVE  Author(d) /\ Wanted(d)' = Wanted(d)
  <2>1. PICK status : /\ Return(c, status)
                      /\ ~ Succeeded(status) /\ status # "conflict"
    BY <1>5 DEF LoadFails, ReloadFails, Crash, Succeeded
  <2>2. pc[c] # "idle"
    BY <1>5 DEF LoadFails, ReloadFails, Crash
  <2>3. status # "applied"
    BY <2>1 DEF Succeeded
  <2>4. QED
    BY <1>3, <2>1, <2>2, <2>3
<1>6. ASSUME NEW c \in Callers, CasAcknowledged(c), c # d
      PROVE  Author(d) /\ Wanted(d)' = Wanted(d)
  BY <1>1, <1>6 DEF CasAcknowledged, TypeOK, Author, Wanted
<1>7. ASSUME NEW c \in Callers, CasRaises(c)
      PROVE  Author(d) /\ Wanted(d)' = Wanted(d)
  BY <1>1, <1>7 DEF CasRaises, TypeOK, Author, Wanted
<1>8. ASSUME NEW c \in Callers, Reload(c)
      PROVE  Author(d) /\ Wanted(d)' = Wanted(d)
  <2>1. CASE Return(c, "applied")
    <3>1. uncertain'[c] = uncertain[c] /\ pc[c] = "reload"
      BY <1>1, <1>8, <2>1 DEF Reload, Return, Succeeded, TypeOK
    <3>2. QED
      BY <1>3, <2>1, <3>1
  <2>2. CASE Return(c, "conflict") \/ Return(c, "exhausted")
    BY <1>3, <1>8, <2>2 DEF Reload
  <2>3. CASE /\ pc' = [pc EXCEPT ![c] = "load"]
             /\ UNCHANGED <<expected, desired, uncertain, base, result>>
    BY <1>1, <1>8, <2>3 DEF Reload, TypeOK, Author, Wanted
  <2>4. QED
    BY <1>8, <2>1, <2>2, <2>3 DEF Reload
<1>9. ASSUME LateArrival \/ WorkerCommit \/ UNCHANGED vars
      PROVE  Author(d) /\ Wanted(d)' = Wanted(d)
  BY <1>9 DEF LateArrival, WorkerCommit, vars, Author, Wanted
<1>10. QED
  BY <1>2, <1>4, <1>5, <1>6, <1>7, <1>8, <1>9 DEF Next, CallStep

\* An acknowledged update changes the journal to what its caller wanted.
LEMMA AcknowledgedStep ==
    ASSUME StoreInvariant, NEW c \in Callers, CasAcknowledged(c)
    PROVE  journal' = desired[c] /\ journal # desired[c] /\ Wanted(c)' = desired[c]
<1>1. journal' = desired[c] /\ base[c] = head /\ pc[c] = "cas" /\ desired' = desired
      /\ pc' = [pc EXCEPT ![c] = "reload"]
  BY DEF CasAcknowledged, UpdateRef, call
<1>2. journal = expected[c] /\ desired[c] # expected[c]
  BY <1>1 DEF StoreInvariant, BaseIsFresh, OneAuthor
<1>3. pc'[c] = "reload"
  BY <1>1 DEF StoreInvariant, TypeOK
<1>4. QED
  BY <1>1, <1>2, <1>3 DEF Wanted

\* What an author wrote is a valid journal.
LEMMA AuthorWroteValid ==
    ASSUME StoreInvariant, NEW c \in Callers, Author(c)
    PROVE  Wanted(c) \in Stored /\ Wanted(c) # Missing /\ ValidateJournal(Wanted(c))
<1>1. CASE pc[c] = "idle"
  BY <1>1 DEF Author, Wanted, StoreInvariant, SuccessIsSnapshot, SnapshotsArePast, Succeeded, TypeOK
<1>2. CASE pc[c] # "idle"
  <2>1. LegalTransition(expected[c], desired[c]) /\ expected[c] \in Stored /\ desired[c] \in Stored
    BY <1>2 DEF StoreInvariant, CallsAreLegal, TypeOK
  <2>2. QED
    BY <1>2, <2>1, LegalTransitionGrows DEF Wanted
<1>3. QED
  BY <1>1, <1>2

LEMMA InvariantStep == StoreInvariant /\ [Next]_vars => StoreInvariant'
<1> SUFFICES ASSUME StoreInvariant, [Next]_vars
             PROVE  StoreInvariant'
  OBVIOUS
<1> USE DEF StoreInvariant
<1>1. TypeOK /\ TypeOK'
  <2>1. DesiredTyped
    BY DEF DesiredTyped, CallsAreLegal, LegalTransition, ValidateTransition, ValidateJournal
  <2>2. QED
    BY <2>1, TypeStep
<1>2. /\ head \in Nat /\ head' \in Nat /\ head <= head'
      /\ head' = head => journal' = journal
      /\ journal \in Stored /\ journal' \in Stored
  BY <1>1, BranchStep DEF TypeOK
<1>3. StoredValid' /\ Growth(journal, journal')
  <2>1. CASE journal' = journal
    BY <1>2, <2>1, GrowthReflexive DEF StoredValid
  <2>2. CASE LegalTransition(journal, journal')
    BY <1>2, <2>2, LegalTransitionGrows DEF StoredValid
  <2>3. QED
    BY <2>1, <2>2, BranchStep
<1>4. ASSUME NEW d \in Callers
      PROVE  /\ expected'[d] \in {expected[d], journal, Missing}
             /\ expected[d] \in Stored /\ expected'[d] \in Stored
             /\ desired[d] \in Stored /\ desired'[d] \in Stored
  <2>1. expected'[d] \in {expected[d], journal, Missing}
    BY CallerStep DEF Stays, Reads, Begins, Loads, Moves, Ends
  <2>2. QED
    BY <1>1, <2>1 DEF TypeOK
<1>5. SnapshotsArePast'
  <2> SUFFICES ASSUME NEW d \in Callers
               PROVE  /\ Growth(expected'[d], journal')
                      /\ expected'[d] # Missing => ValidateJournal(expected'[d])
    BY DEF SnapshotsArePast
  <2>1. CASE expected'[d] = expected[d]
    BY <1>2, <1>3, <1>4, <2>1, GrowthTransitive DEF SnapshotsArePast
  <2>2. CASE expected'[d] = journal
    BY <1>3, <2>2 DEF StoredValid
  <2>3. CASE expected'[d] = Missing
    BY <2>3 DEF Growth
  <2>4. QED
    BY <1>4, <2>1, <2>2, <2>3
<1>6. CallsAreLegal'
  <2> SUFFICES ASSUME NEW d \in Callers, pc'[d] # "idle"
               PROVE  result'[d] = "none" /\ LegalTransition(expected'[d], desired'[d])
    BY DEF CallsAreLegal
  <2>1. QED
    BY CallerStep DEF Stays, Reads, Begins, Loads, Moves, Ends, CallsAreLegal
<1>7. BaseIsFresh'
  <2> SUFFICES ASSUME NEW d \in Callers, pc'[d] = "cas"
               PROVE  base'[d] <= head' /\ (base'[d] = head' => journal' = expected'[d])
    BY DEF BaseIsFresh
  <2>1. CASE Loads(d)
    BY <1>2, <2>1 DEF Loads, branch
  <2>2. CASE Stays(d)
    <3>1. /\ base[d] <= head /\ (base[d] = head => journal = expected[d])
          /\ base'[d] = base[d] /\ expected'[d] = expected[d]
      BY <2>2 DEF Stays, BaseIsFresh
    <3>2. base[d] \in Nat
      BY <1>1 DEF TypeOK
    <3>3. QED
      BY <1>2, <3>1, <3>2
  <2>3. QED
    BY <2>1, <2>2, CallerStep DEF Reads, Begins, Moves, Ends
<1>8. LateIsLegal'
  <2> SUFFICES ASSUME NEW w \in late'
               PROVE  /\ w.parent <= head'
                      /\ w.parent = head' => LegalTransition(journal', w.journal)
    BY DEF LateIsLegal
  <2>1. CASE w \in late
    <3>1. /\ w.parent <= head
          /\ w.parent = head => LegalTransition(journal, w.journal)
          /\ w.parent \in Nat
      BY <1>1, <2>1 DEF LateIsLegal, TypeOK
    <3>2. QED
      BY <1>2, <3>1
  <2>2. ASSUME NEW c \in Callers, pc[c] = "cas", UNCHANGED <<head, journal>>,
               w = [parent |-> base[c], journal |-> desired[c]]
        PROVE  /\ w.parent <= head'
               /\ w.parent = head' => LegalTransition(journal', w.journal)
    <3>1. base[c] <= head /\ (base[c] = head => journal = expected[c])
      BY <2>2 DEF BaseIsFresh
    <3>2. LegalTransition(expected[c], desired[c])
      BY <2>2 DEF CallsAreLegal
    <3>3. QED
      BY <2>2, <3>1, <3>2
  <2>3. QED
    BY <2>1, <2>2, LateStep
<1>9. SuccessIsSnapshot'
  <2> SUFFICES ASSUME NEW d \in Callers, Succeeded(result'[d])
               PROVE  expected'[d] # Missing
    BY DEF SuccessIsSnapshot, Succeeded
  <2>1. CASE Stays(d)
    BY <2>1 DEF Stays, SuccessIsSnapshot
  <2>2. CASE Ends(d)
    BY <2>2 DEF Ends, CallsAreLegal, LegalTransition, Succeeded
  <2>3. CASE Reads(d) \/ Begins(d)
    BY <2>3 DEF Reads, Begins, Succeeded
  <2>4. CASE Loads(d) \/ Moves(d)
    BY <2>4 DEF Loads, Moves, CallsAreLegal, Succeeded
  <2>5. QED
    BY <2>1, <2>2, <2>3, <2>4, CallerStep
<1>10. ConflictIsFinal'
  <2> SUFFICES ASSUME NEW d \in Callers, result'[d] = "conflict"
               PROVE  journal' # expected'[d]
    BY DEF ConflictIsFinal
  <2>1. CASE Stays(d)
    <3>1. journal # expected[d] /\ Growth(expected[d], journal) /\ expected'[d] = expected[d]
      BY <2>1 DEF Stays, ConflictIsFinal, SnapshotsArePast
    <3>2. ASSUME journal' = expected[d]
          PROVE  FALSE
      <4>1. Growth(journal, expected[d])
        BY <1>3, <3>2
      <4>2. expected[d] # Missing => ValidateJournal(expected[d])
        BY DEF SnapshotsArePast
      <4>3. journal # Missing => ValidateJournal(journal)
        BY DEF StoredValid
      <4>4. QED
        BY <1>2, <1>4, <3>1, <4>1, <4>2, <4>3, GrowthAntisymmetric
    <3>3. QED
      BY <3>1, <3>2
  <2>2. CASE Ends(d)
    BY <2>2 DEF Ends, Succeeded, branch
  <2>3. CASE Reads(d) \/ Begins(d)
    BY <2>3 DEF Reads, Begins
  <2>4. CASE Loads(d) \/ Moves(d)
    BY <2>4 DEF Loads, Moves, CallsAreLegal
  <2>5. QED
    BY <2>1, <2>2, <2>3, <2>4, CallerStep
<1>11. OneAuthor'
  <2>1. ASSUME NEW d \in Callers, pc'[d] = "cas"
        PROVE  desired'[d] # expected'[d]
    <3>1. CASE Stays(d)
      BY <2>1, <3>1 DEF Stays, OneAuthor
    <3>2. CASE Loads(d)
      BY <3>2 DEF Loads
    <3>3. QED
      BY <2>1, <3>1, <3>2, CallerStep DEF Reads, Begins, Moves, Ends
  <2>2. ASSUME NEW d \in Callers, Author(d)'
        PROVE  Growth(Wanted(d)', journal')
    <3>1. CASE Author(d) /\ Wanted(d)' = Wanted(d)
      <4>1. Growth(Wanted(d), journal) /\ Wanted(d) \in Stored
        BY <3>1, AuthorWroteValid DEF OneAuthor
      <4>2. QED
        BY <1>2, <1>3, <3>1, <4>1, GrowthTransitive
    <3>2. CASE CasAcknowledged(d)
      BY <1>2, <1>3, <3>2, AcknowledgedStep, GrowthReflexive DEF StoredValid
    <3>3. QED
      BY <2>2, <3>1, <3>2, AuthorStep
  <2>3. ASSUME NEW c \in Callers, NEW d \in Callers, c # d, Author(c)',
               CasAcknowledged(d), Wanted(c)' = Wanted(d)'
        PROVE  FALSE
    <3>1. /\ journal' = desired[d] /\ journal # desired[d] /\ Wanted(c)' = desired[d]
      BY <2>3, AcknowledgedStep
    <3>2. Author(c) /\ Wanted(c)' = Wanted(c)
      <4>1. ~ CasAcknowledged(c)
        BY <1>1, <2>3 DEF CasAcknowledged, TypeOK
      <4>2. QED
        BY <2>3, <4>1, AuthorStep
    <3>3. /\ Growth(journal', journal) /\ ValidateJournal(journal') /\ journal' # Missing
      BY <3>1, <3>2, AuthorWroteValid DEF OneAuthor
    <3>4. journal = journal'
      BY <1>2, <1>3, <3>3, GrowthAntisymmetric DEF StoredValid
    <3>5. QED
      BY <3>1, <3>4
  <2>4. ASSUME NEW c \in Callers, NEW d \in Callers, Author(c)', Author(d)',
               Wanted(c)' = Wanted(d)'
        PROVE  c = d
    <3>1. CASE Author(c) /\ Wanted(c)' = Wanted(c) /\ Author(d) /\ Wanted(d)' = Wanted(d)
      BY <2>4, <3>1 DEF OneAuthor
    <3>2. QED
      BY <2>3, <2>4, <3>1, AuthorStep
  <2>5. QED
    BY <2>1, <2>2, <2>4 DEF OneAuthor
<1>12. QED
  BY <1>1, <1>3, <1>5, <1>6, <1>7, <1>8, <1>9, <1>10, <1>11

\* The inductive invariant holds in every reachable state of the store.
THEOREM InvariantHolds == Spec => []StoreInvariant
  BY InitInvariant, InvariantStep, PTL DEF Spec

\* What a caller was told is written stays written: see SuccessIsDurable.
THEOREM SuccessHolds == Spec => []SuccessIsDurable
<1>1. StoreInvariant => SuccessIsDurable
  BY DEF StoreInvariant, SnapshotsArePast, SuccessIsDurable
<1>2. QED
  BY <1>1, InvariantHolds, PTL

\* Of the callers that wanted one journal, one at most knows that it wrote it:
\* see OneCertainWriter.
THEOREM OneCertainWriterHolds == Spec => []OneCertainWriter
<1>1. StoreInvariant => OneCertainWriter
  <2> SUFFICES ASSUME StoreInvariant, NEW c \in Callers, NEW d \in Callers,
                      CertainWriter(c), CertainWriter(d), expected[c] = expected[d]
               PROVE  c = d
    BY DEF OneCertainWriter
  <2>1. pc[c] = "idle" /\ pc[d] = "idle"
    BY DEF StoreInvariant, CallsAreLegal, CertainWriter
  <2>2. Author(c) /\ Author(d) /\ Wanted(c) = Wanted(d)
    BY <2>1 DEF CertainWriter, Author, Wanted
  <2>3. QED
    BY <2>2 DEF StoreInvariant, OneAuthor
<1>2. QED
  BY <1>1, InvariantHolds, PTL

\* A snapshot refused once is refused for ever: see ConflictIsFinal.
THEOREM ConflictHolds == Spec => []ConflictIsFinal
<1>1. StoreInvariant => ConflictIsFinal
  BY DEF StoreInvariant
<1>2. QED
  BY <1>1, InvariantHolds, PTL

(***************************************************************************)
(* The loop of a call is bounded.                                          *)
(***************************************************************************)
\* A step that leaves the call of d as it is.
CallIsKept(d) == UNCHANGED <<pc[d], expected[d], desired[d], attempt[d],
                             uncertain[d], base[d], result[d]>>

\* The measure is positive inside a call and goes down from place to place.
LEMMA MeasureFalls ==
    ASSUME NEW n \in 1..MaxAttempts
    PROVE  LET left == 3 * (MaxAttempts - n)
           IN /\ left + 1 \in Nat \ {0}
              /\ 0 < left + 1 /\ left + 1 < left + 2 /\ left + 2 < left + 3
              /\ 3 * (MaxAttempts - (n + 1)) + 3 < left + 1
  BY StoreAssumption

\* A call that returns has nothing left.
LEMMA ReturnRunsOut ==
    ASSUME TypeOK, NEW c \in Callers, NEW status, Return(c, status),
           pc[c] # "idle", NEW d \in Callers
    PROVE  StepsLeft(d)' < StepsLeft(d) \/ CallIsKept(d)
<1>1. CASE d = c
  <2>1. StepsLeft(c)' = 0
    BY DEF Return, TypeOK, StepsLeft
  <2>2. 0 < StepsLeft(c)
    BY MeasureFalls, StoreAssumption DEF TypeOK, StepsLeft
  <2> QED
    BY <1>1, <2>1, <2>2
<1>2. CASE d # c
  BY <1>2 DEF Return, TypeOK, CallIsKept
<1> QED
  BY <1>1, <1>2

LEMMA CallRunsOut ==
    ASSUME TypeOK, [Next]_vars, NEW d \in Callers, pc[d] # "idle"
    PROVE  StepsLeft(d)' < StepsLeft(d) \/ CallIsKept(d)
<1> USE DEF call
<1>1. ASSUME NEW c \in Callers, Read(c) \/ Begin(c)
      PROVE  CallIsKept(d)
  BY <1>1 DEF Read, Begin, TypeOK, CallIsKept
<1>2. ASSUME NEW c \in Callers, NEW status, Return(c, status), pc[c] # "idle"
      PROVE  StepsLeft(d)' < StepsLeft(d) \/ CallIsKept(d)
  BY <1>2, ReturnRunsOut
<1>3. ASSUME NEW c \in Callers, Load(c)
      PROVE  StepsLeft(d)' < StepsLeft(d) \/ CallIsKept(d)
  <2>1. CASE \E status : Return(c, status)
    BY <1>2, <1>3, <2>1 DEF Load
  <2>2. CASE /\ base' = [base EXCEPT ![c] = head]
             /\ pc' = [pc EXCEPT ![c] = "cas"]
             /\ UNCHANGED <<call, result>>
    <3>1. d = c => StepsLeft(d)' < StepsLeft(d)
      BY <1>3, <2>2, MeasureFalls DEF Load, TypeOK, StepsLeft
    <3>2. d # c => CallIsKept(d)
      BY <2>2 DEF TypeOK, CallIsKept
    <3> QED
      BY <3>1, <3>2
  <2> QED
    BY <1>3, <2>1, <2>2 DEF Load
<1>4. ASSUME NEW c \in Callers, LoadFails(c) \/ ReloadFails(c) \/ Crash(c)
      PROVE  StepsLeft(d)' < StepsLeft(d) \/ CallIsKept(d)
  <2>1. PICK status : Return(c, status)
    BY <1>4 DEF LoadFails, ReloadFails, Crash
  <2>2. pc[c] # "idle"
    BY <1>4 DEF LoadFails, ReloadFails, Crash
  <2> QED
    BY <1>2, <2>1, <2>2
<1>5. ASSUME NEW c \in Callers, CasAcknowledged(c) \/ CasRaises(c)
      PROVE  StepsLeft(d)' < StepsLeft(d) \/ CallIsKept(d)
  <2>1. /\ pc[c] = "cas" /\ pc' = [pc EXCEPT ![c] = "reload"]
        /\ UNCHANGED <<expected, desired, attempt, result>>
        /\ base' = [base EXCEPT ![c] = Bootstrap]
        /\ uncertain' = uncertain \/ uncertain' = [uncertain EXCEPT ![c] = TRUE]
    BY <1>5 DEF CasAcknowledged, CasRaises
  <2>2. d = c => StepsLeft(d)' < StepsLeft(d)
    BY <2>1, MeasureFalls DEF TypeOK, StepsLeft
  <2>3. d # c => CallIsKept(d)
    BY <2>1 DEF TypeOK, CallIsKept
  <2> QED
    BY <2>2, <2>3
<1>6. ASSUME NEW c \in Callers, Reload(c)
      PROVE  StepsLeft(d)' < StepsLeft(d) \/ CallIsKept(d)
  <2>1. CASE \E status : Return(c, status)
    BY <1>2, <1>6, <2>1 DEF Reload
  <2>2. CASE /\ attempt' = [attempt EXCEPT ![c] = @ + 1]
             /\ pc' = [pc EXCEPT ![c] = "load"]
             /\ UNCHANGED <<expected, desired, uncertain, base, result>>
    <3>1. d = c => StepsLeft(d)' < StepsLeft(d)
      <4> HAVE d = c
      <4>1. attempt[c] \in 1..MaxAttempts
        BY DEF TypeOK
      <4>2. /\ StepsLeft(c) = 3 * (MaxAttempts - attempt[c]) + 1
            /\ StepsLeft(c)' = 3 * (MaxAttempts - (attempt[c] + 1)) + 3
        BY <1>6, <2>2 DEF Reload, TypeOK, StepsLeft
      <4> QED
        BY <4>1, <4>2, MeasureFalls
    <3>2. d # c => CallIsKept(d)
      BY <2>2 DEF TypeOK, CallIsKept
    <3> QED
      BY <3>1, <3>2
  <2> QED
    BY <1>6, <2>1, <2>2 DEF Reload
<1>7. CASE LateArrival \/ WorkerCommit \/ UNCHANGED vars
  BY <1>7 DEF LateArrival, WorkerCommit, vars, CallIsKept
<1> QED
  BY <1>1, <1>3, <1>4, <1>5, <1>6, <1>7 DEF Next, CallStep

\* Every call has a bounded number of steps, which no interleaving of callers, late
\* requests and other workers prolongs: for it to return it only has to go on.
THEOREM StepsRunOutHolds == Spec => StepsRunOut
<1> DEFINE RunOut == \A c \in Callers : pc[c] # "idle" =>
                        \/ StepsLeft(c)' < StepsLeft(c)
                        \/ UNCHANGED <<pc[c], expected[c], desired[c], attempt[c],
                                       uncertain[c], base[c], result[c]>>
<1>1. TypeOK /\ [Next]_vars => [RunOut]_vars
  BY CallRunsOut DEF CallIsKept
<1> QED
  BY <1>1, TypeCorrect, PTL DEF Spec, StepsRunOut

-----------------------------------------------------------------------------
(* What a legal transition means in the ledger's terms. *)

\* Appending a row leaves what was told alone and opens one justified intent.
LEMMA AppendedIntent ==
    ASSUME NEW a, NEW b, ValidateTransition(a, b), Len(b) = Len(a) + 1,
           NEW row, row = b[Len(b)]
    PROVE  /\ row \in Row
           /\ OpenIntent(a) = NoIntent
           /\ OpenIntent(b) = <<Key(row), "pending">>
           /\ ToldKeys(b) = ToldKeys(a)
           /\ Key(row) \notin ToldKeys(a)
           /\ row.kind = "recovery" =>
                 <<row.incident[1], row.incident>> \in ToldKeys(a)
           /\ row.kind # "recovery" => row.incident[1] = row.kind
           /\ row.kind = "stalled" =>
                 \A n \in ToldKeys(a) :
                    n[1] = "stalled" => <<"recovery", n[2]>> \in ToldKeys(a)
<1>1. /\ ValidateJournal(a) /\ ValidateJournal(b)
      /\ a \in Seq(Row) /\ b \in Seq(Row)
      /\ \A i \in 1..Len(a) : b[i] = a[i]
      /\ row.status = "pending"
  BY DEF ValidateTransition, ValidateJournal, Changed, Journal
<1>2. Len(b) \in 1..Len(b) /\ Len(a) \in Nat /\ row \in Row /\ b # <<>>
  BY <1>1
<1>3. \A i \in 1..Len(a) : a[i] \in Row /\ Finished(a[i])
  BY <1>1 DEF ValidateJournal
<1>4. OpenIntent(a) = NoIntent
  BY <1>1, <1>3 DEF OpenIntent
<1>5. OpenIntent(b) = <<Key(row), "pending">>
  BY <1>1, <1>2 DEF OpenIntent, Finished
<1>6. ToldKeys(a) = {Key(a[i]) : i \in 1..Len(a)}
  BY <1>3 DEF ToldKeys
<1>7. ToldKeys(b) = {Key(b[i]) : i \in 1..Len(a)}
  <2>1. \A i \in 1..Len(b) : Finished(b[i]) <=> i \in 1..Len(a)
    BY <1>1, <1>2, <1>3 DEF Finished
  <2>2. {k \in 1..Len(b) : Finished(b[k])} = 1..Len(a)
    BY <1>2, <2>1
  <2>3. QED
    BY <2>2 DEF ToldKeys
<1>8. ToldKeys(b) = ToldKeys(a)
  BY <1>1, <1>6, <1>7
<1>9. /\ IncidentIsOwnKey(row)
      /\ \A j \in 1..Len(a) : Key(b[j]) # Key(row)
      /\ row.kind = "recovery" => RecoveryJustified(b, Len(b))
      /\ row.kind = "stalled" => ~ OpenStalledBefore(b, Len(b))
  <2>1. Len(b) - 1 = Len(a)
    BY <1>2
  <2>2. QED
    BY <1>1, <1>2, <2>1 DEF ValidateJournal
<1>10. Key(row) \notin ToldKeys(a)
  BY <1>1, <1>6, <1>9
<1>11. ASSUME row.kind = "recovery"
       PROVE  <<row.incident[1], row.incident>> \in ToldKeys(a)
  <2>1. PICK j \in 1..Len(a) : /\ b[j].kind # "recovery"
                               /\ b[j].incident = row.incident
    BY <1>2, <1>9, <1>11 DEF RecoveryJustified
  <2>2. IncidentIsOwnKey(a[j])
    BY <1>1 DEF ValidateJournal
  <2>3. Key(a[j]) = <<row.incident[1], row.incident>>
    BY <1>1, <2>1, <2>2 DEF Key, IncidentIsOwnKey
  <2>4. QED
    BY <1>6, <2>3
<1>12. ASSUME row.kind = "stalled", NEW n \in ToldKeys(a), n[1] = "stalled"
       PROVE  <<"recovery", n[2]>> \in ToldKeys(a)
  <2>1. PICK j \in 1..Len(a) : n = Key(a[j])
    BY <1>6
  <2>2. b[j].kind = "stalled" /\ n[2] = b[j].incident
    BY <1>1, <1>12, <2>1 DEF Key
  <2>3. PICK k \in 1..Len(a) : b[k].kind = "recovery" /\ b[k].incident = b[j].incident
    BY <1>2, <1>9, <1>12, <2>2 DEF OpenStalledBefore, Closed
  <2>4. Key(a[k]) = <<"recovery", n[2]>>
    BY <1>1, <2>2, <2>3 DEF Key
  <2>5. QED
    BY <1>6, <2>4
<1>13. QED
  BY <1>2, <1>4, <1>5, <1>8, <1>9, <1>10, <1>11, <1>12 DEF IncidentIsOwnKey

\* A transition that appends nothing changes at most the receipt of the last row.
LEMMA ReceiptTransition ==
    ASSUME NEW a, NEW b, ValidateTransition(a, b), Len(b) = Len(a), b # a
    PROVE  LET n == Len(a)
           IN  /\ a # <<>> /\ b # <<>>
               /\ Key(b[n]) = Key(a[n])
               /\ ~ Finished(a[n])
               /\ <<a[n].status, b[n].status>> \in ReceiptStep
               /\ \A i \in 1..(n - 1) : b[i] = a[i] /\ Finished(a[i])
<1>1. /\ ValidateJournal(a) /\ ValidateJournal(b)
      /\ a \in Seq(Row) /\ b \in Seq(Row) /\ Len(a) \in Nat
  BY DEF ValidateTransition, ValidateJournal, Journal
<1>2. PICK i \in 1..Len(a) : b[i] # a[i]
  BY <1>1
<1>3. /\ <<a[i].status, b[i].status>> \in ReceiptStep
      /\ SameIntent(a[i], b[i])
      /\ \A j \in 1..Len(a) : j # i => b[j] = a[j]
  BY <1>1, <1>2 DEF ValidateTransition, Changed
<1>4. ~ Finished(a[i])
  BY <1>3 DEF ReceiptStep, Finished
<1>5. i = Len(a) /\ \A j \in 1..(Len(a) - 1) : Finished(a[j])
  BY <1>1, <1>2, <1>4 DEF ValidateJournal
<1>6. Key(b[i]) = Key(a[i])
  BY <1>3 DEF SameIntent, Key
<1>7. a # <<>> /\ b # <<>>
  BY <1>1, <1>2
<1>8. QED
  BY <1>1, <1>3, <1>4, <1>5, <1>6, <1>7

\* Marking the last row uncertain tells nothing.
LEMMA DoubtedIntent ==
    ASSUME NEW a, NEW b, ValidateTransition(a, b), Len(b) = Len(a), b # a,
           ~ Finished(b[Len(b)])
    PROVE  /\ OpenIntent(a) = <<Key(a[Len(a)]), "pending">>
           /\ OpenIntent(b) = <<Key(a[Len(a)]), "uncertain">>
           /\ ToldKeys(b) = ToldKeys(a)
<1>1. Len(a) \in Nat
  BY DEF ValidateTransition, ValidateJournal, Journal
<1>2. a[Len(a)].status = "pending" /\ b[Len(b)].status = "uncertain"
  BY ReceiptTransition DEF ReceiptStep, Finished
<1>3. \A k \in 1..Len(a) :
         /\ Finished(b[k]) <=> Finished(a[k])
         /\ Finished(a[k]) => b[k] = a[k]
  <2>1. ~ Finished(a[Len(a)]) /\ \A k \in 1..(Len(a) - 1) : b[k] = a[k] /\ Finished(a[k])
    BY ReceiptTransition
  <2>2. \A k \in 1..Len(a) : k = Len(a) \/ k \in 1..(Len(a) - 1)
    BY <1>1
  <2>3. QED
    BY <2>1, <2>2
<1>4. {k \in 1..Len(b) : Finished(b[k])} = {k \in 1..Len(a) : Finished(a[k])}
  BY <1>3
<1>5. ToldKeys(b) = ToldKeys(a)
  <2>1. ASSUME NEW S, S \subseteq 1..Len(a), \A k \in S : b[k] = a[k]
        PROVE  {Key(b[k]) : k \in S} = {Key(a[k]) : k \in S}
    BY <2>1
  <2>2. \A k \in {j \in 1..Len(a) : Finished(a[j])} : b[k] = a[k]
    BY <1>3
  <2>3. QED
    BY <1>4, <2>1, <2>2 DEF ToldKeys
<1>6. QED
  BY <1>2, <1>5, ReceiptTransition DEF OpenIntent, Finished

\* Confirming the last row tells its key and nothing else.
LEMMA SettledIntent ==
    ASSUME NEW a, NEW b, ValidateTransition(a, b), Len(b) = Len(a), b # a,
           Finished(b[Len(b)])
    PROVE  /\ OpenIntent(a) # NoIntent
           /\ OpenIntent(a)[1] = Key(a[Len(a)])
           /\ OpenIntent(b) = NoIntent
           /\ ToldKeys(b) = ToldKeys(a) \cup {Key(a[Len(a)])}
<1> DEFINE n == Len(a)
<1>1. n \in Nat /\ n > 0
  <2>1. a \in Seq(Row) /\ a # <<>>
    BY ReceiptTransition DEF ValidateTransition, ValidateJournal, Journal
  <2>2. QED
    BY <2>1
<1>2. OpenIntent(a) = <<Key(a[n]), a[n].status>>
  BY ReceiptTransition DEF OpenIntent
<1>0. /\ ~ Finished(a[n])
      /\ \A k \in 1..(n - 1) : b[k] = a[k] /\ Finished(a[k])
  BY ReceiptTransition
<1>3. {k \in 1..Len(b) : Finished(b[k])} = 1..n
  <2>1. \A k \in 1..n : k = n \/ k \in 1..(n - 1)
    BY <1>1
  <2>2. \A k \in 1..n : Finished(b[k])
    BY <1>0, <2>1
  <2>3. QED
    BY <2>2
<1>4. {k \in 1..n : Finished(a[k])} = 1..(n - 1)
  <2>1. \A k \in 1..n : Finished(a[k]) <=> k \in 1..(n - 1)
    <3>1. \A k \in 1..n : k = n \/ k \in 1..(n - 1)
      BY <1>1
    <3>2. n \notin 1..(n - 1)
      BY <1>1
    <3>3. QED
      BY <1>0, <3>1, <3>2
  <2>2. 1..(n - 1) \subseteq 1..n
    BY <1>1
  <2>3. QED
    BY <2>1, <2>2
<1>5. ToldKeys(b) = {Key(b[k]) : k \in 1..n}
  BY <1>3 DEF ToldKeys
<1>6. ToldKeys(a) = {Key(a[k]) : k \in 1..(n - 1)}
  BY <1>4 DEF ToldKeys
<1>7. \A k \in 1..(n - 1) : b[k] = a[k]
  BY ReceiptTransition
<1>8. Key(b[n]) = Key(a[n])
  BY ReceiptTransition
<1>9. 1..n = (1..(n - 1)) \cup {n}
  BY <1>1
<1>10. ToldKeys(b) = ToldKeys(a) \cup {Key(a[n])}
  BY <1>5, <1>6, <1>7, <1>8, <1>9
<1>11. OpenIntent(b) = NoIntent
  BY DEF OpenIntent
<1>12. QED
  BY <1>2, <1>10, <1>11 DEF NoIntent

-----------------------------------------------------------------------------
(* The refinement. *)

\* A legal transition is a step of the ledger or leaves it alone.
LEMMA TransitionIsLedgerStep ==
    ASSUME NEW a, NEW b, ValidateTransition(a, b)
    PROVE  \/ /\ ToldKeys(b) = ToldKeys(a)
              /\ OpenIntent(b) = OpenIntent(a)
           \/ \E kind \in {"stalled", "drill"}, run \in Runs :
                 /\ OpenIntent(a) = NoIntent
                 /\ <<kind, <<kind, run>>>> \notin ToldKeys(a)
                 /\ kind = "stalled" =>
                       {n \in ToldKeys(a) : n[1] = "stalled"
                                            /\ <<"recovery", n[2]>> \notin ToldKeys(a)} = {}
                 /\ OpenIntent(b) = <<<<kind, <<kind, run>>>>, "pending">>
                 /\ ToldKeys(b) = ToldKeys(a)
           \/ \E kind \in {"stalled", "drill"}, run \in Runs :
                 /\ OpenIntent(a) = NoIntent
                 /\ <<kind, <<kind, run>>>> \in ToldKeys(a)
                 /\ <<"recovery", <<kind, run>>>> \notin ToldKeys(a)
                 /\ OpenIntent(b) = <<<<"recovery", <<kind, run>>>>, "pending">>
                 /\ ToldKeys(b) = ToldKeys(a)
           \/ /\ OpenIntent(a) # NoIntent
              /\ OpenIntent(a)[2] = "pending"
              /\ OpenIntent(b) = <<OpenIntent(a)[1], "uncertain">>
              /\ ToldKeys(b) = ToldKeys(a)
           \/ /\ OpenIntent(a) # NoIntent
              /\ ToldKeys(b) = ToldKeys(a) \cup {OpenIntent(a)[1]}
              /\ OpenIntent(b) = NoIntent
<1>1. CASE b = a
  BY <1>1
<1>2. CASE Len(b) = Len(a) + 1
  <2> DEFINE row == b[Len(b)]
  <2>1. /\ row \in Row
        /\ OpenIntent(a) = NoIntent
        /\ OpenIntent(b) = <<Key(row), "pending">>
        /\ ToldKeys(b) = ToldKeys(a)
        /\ Key(row) \notin ToldKeys(a)
        /\ row.kind = "recovery" => <<row.incident[1], row.incident>> \in ToldKeys(a)
        /\ row.kind # "recovery" => row.incident[1] = row.kind
        /\ row.kind = "stalled" =>
              \A n \in ToldKeys(a) :
                 n[1] = "stalled" => <<"recovery", n[2]>> \in ToldKeys(a)
    BY <1>2, AppendedIntent
  <2>2. PICK kind \in {"stalled", "drill"}, run \in Runs : row.incident = <<kind, run>>
    BY <2>1 DEF Row, Incident
  <2>3. CASE row.kind = "recovery"
    <3>1. Key(row) = <<"recovery", <<kind, run>>>> /\ row.incident[1] = kind
      BY <2>2, <2>3 DEF Key
    <3>2. QED
      BY <2>1, <2>2, <2>3, <3>1
  <2>4. CASE row.kind # "recovery"
    <3>1. Key(row) = <<kind, <<kind, run>>>> /\ row.kind = kind
      BY <2>1, <2>2, <2>4 DEF Key
    <3>2. QED
      BY <2>1, <2>2, <3>1
  <2>5. QED
    BY <2>3, <2>4
<1>3. CASE Len(b) = Len(a) /\ b # a /\ ~ Finished(b[Len(b)])
  <2>1. OpenIntent(a) # NoIntent
    BY <1>3, DoubtedIntent DEF NoIntent
  <2>2. QED
    BY <1>3, <2>1, DoubtedIntent
<1>4. CASE Len(b) = Len(a) /\ b # a /\ Finished(b[Len(b)])
  BY <1>4, SettledIntent
<1>5. QED
  BY <1>1, <1>2, <1>3, <1>4 DEF ValidateTransition

LEMMA InitIsLedgerInit == Init => Ledger!LedgerInit
  BY DEF Init, Rows, ToldKeys, OpenIntent, NoIntent, Ledger!LedgerInit, Ledger!NoOpenIntent

LEMMA StepIsLedgerStep ==
    StoreInvariant /\ [Next]_vars =>
       [Ledger!LedgerNext]_<<ToldKeys(Rows(journal)), OpenIntent(Rows(journal))>>
<1> SUFFICES ASSUME StoreInvariant, [Next]_vars
             PROVE  [Ledger!LedgerNext]_<<ToldKeys(Rows(journal)), OpenIntent(Rows(journal))>>
  OBVIOUS
<1>1. CASE journal' = journal
  BY <1>1 DEF Rows
<1>2. CASE LegalTransition(journal, journal')
  <2>1. ValidateTransition(Rows(journal), Rows(journal)')
    BY <1>2 DEF LegalTransition, Rows
  <2>2. QED
    BY <2>1, TransitionIsLedgerStep
    DEF Ledger!LedgerNext, Ledger!IntendIncident, Ledger!IntendRecovery, Ledger!Doubt,
        Ledger!Settle, Ledger!Unrecovered, Ledger!NoOpenIntent, Ledger!IncidentKinds,
        NoIntent
<1>3. QED
  BY <1>1, <1>2, BranchStep

\* Races, lost acknowledgements, late requests and crashes of the store show
\* nothing but ledger steps: see ImplementsLedger.
THEOREM StoreImplementsLedger == Spec => ImplementsLedger
<1>1. Init => Ledger!LedgerInit
  BY InitIsLedgerInit
<1>2. StoreInvariant /\ [Next]_vars =>
         [Ledger!LedgerNext]_<<ToldKeys(Rows(journal)), OpenIntent(Rows(journal))>>
  BY StepIsLedgerStep
<1>3. QED
  BY <1>1, <1>2, InvariantHolds, PTL DEF Spec, ImplementsLedger, Ledger!Spec

-----------------------------------------------------------------------------
(* The pass of validate_journal.  FoldLeft is a recursive function on the    *)
(* sets of positions; a set where two solutions differ has no smallest       *)
(* element, so the solution is unique and the closed form below is it.       *)

\* A nonempty family of subsets of a finite set has a member that contains no other.
LEMMA MinimalSubset ==
    ASSUME NEW D, IsFiniteSet(D), NEW F, F # {}, \A s \in F : s \subseteq D
    PROVE  \E s \in F : \A t \in F : t \subseteq s => t = s
<1>1. IsWellFoundedOn(StrictSubsetOrdering(D), FiniteSubsetsOf(D))
  BY FS_StrictSubsetOrderingWellFounded
<1>2. FiniteSubsetsOf(D) = SUBSET D
  BY FS_FiniteSubsetsOfFinite
<1>3. PICK s \in F : \A t \in F : ~ (<<t, s>> \in StrictSubsetOrdering(D))
  BY <1>1, <1>2, WFMin
<1>4. \A t \in F : t \subseteq s => t = s
  BY <1>3 DEF StrictSubsetOrdering
<1>5. QED
  BY <1>4

\* A nonempty set of positions has a last one, and only one.
Greatest(s) == CHOOSE x \in s : \A y \in s : x >= y
LEMMA LastPosition ==
    ASSUME NEW n \in Nat, NEW s \in SUBSET (1..n), s # {}
    PROVE  Greatest(s) \in s /\ \A j \in s : Greatest(s) >= j
<1> DEFINE After(x) == {j \in s : j > x}
           F == {After(x) : x \in s}
<1>1. IsFiniteSet(1..n)
  BY FS_Interval
<1>2. F # {} /\ \A S \in F : S \subseteq 1..n
  OBVIOUS
<1>3. PICK S \in F : \A t \in F : t \subseteq S => t = S
  <2> HIDE DEF F
  <2> QED
    BY <1>1, <1>2, MinimalSubset
<1>4. PICK x \in s : S = After(x)
  OBVIOUS
<1>5. \A y \in s : x >= y
  <2> SUFFICES ASSUME NEW y \in s, y > x
               PROVE  FALSE
    OBVIOUS
  <2>1. After(y) \in F
    OBVIOUS
  <2>2. After(y) \subseteq After(x) /\ y \in After(x) /\ y \notin After(y)
    <3> HIDE DEF F
    <3>1. x \in Int /\ y \in Int /\ \A j \in s : j \in Int
      OBVIOUS
    <3>2. \A j \in s : j > y => j > x
      BY <3>1
    <3>3. ~ (y > y)
      BY <3>1
    <3>4. QED
      BY <3>2, <3>3
  <2>3. After(y) = After(x)
    BY <1>3, <1>4, <2>1, <2>2
  <2>4. QED
    BY <2>2, <2>3
<1>6. QED
  BY <1>5 DEF Greatest

\* What FoldLeft chooses for the pass: a function on the sets of positions.
PassFolds(g, rows) ==
    g = [s \in SUBSET DOMAIN rows |->
           IF s = {} THEN Start
           ELSE Visit(g[s \ {Greatest(s)}], rows[Greatest(s)])]

\* FoldLeft chooses a function that goes on from the last position.
LEMMA PassIsChosen ==
    ASSUME NEW rows
    PROVE  Pass(rows) = (CHOOSE g : PassFolds(g, rows))[DOMAIN rows]
  BY DEF Pass, FoldLeft, MapThenFoldSet, PassFolds, Greatest, Max

\* There is one such function at most.
LEMMA PassIsUnique ==
    ASSUME NEW rows \in Journal, NEW g, NEW h, PassFolds(g, rows), PassFolds(h, rows)
    PROVE  g = h
<1> DEFINE D == DOMAIN rows
           F == {s \in SUBSET D : g[s] # h[s]}
<1>1. Len(rows) \in Nat /\ D = 1..Len(rows) /\ IsFiniteSet(D)
  <2>1. Len(rows) \in Nat /\ DOMAIN rows = 1..Len(rows)
    BY DEF Journal
  <2>2. IsFiniteSet(1..Len(rows))
    BY <2>1, FS_Interval
  <2>3. QED
    BY <2>1, <2>2
<1>2. F = {}
  <2> SUFFICES ASSUME F # {}
               PROVE  FALSE
    OBVIOUS
  <2>1. PICK s \in F : \A t \in F : t \subseteq s => t = s
    <3>1. \A s \in F : s \subseteq D
      OBVIOUS
    <3> HIDE DEF F
    <3> QED
      BY <1>1, <3>1, MinimalSubset
  <2>2. s # {}
    BY DEF PassFolds
  <2>3. Greatest(s) \in s
    BY <1>1, <2>2, LastPosition
  <2>4. g[s \ {Greatest(s)}] = h[s \ {Greatest(s)}]
    BY <2>1, <2>3
  <2>5. g[s] = h[s]
    BY <2>2, <2>4 DEF PassFolds
  <2>6. QED
    BY <2>5
<1>3. QED
  BY <1>2 DEF PassFolds

-----------------------------------------------------------------------------
(* The accumulators after the rows at a set s of positions, in closed form. *)

Settles(row, incident) ==
    row.kind = "recovery" /\ row.status = "confirmed" /\ row.incident = incident

LeftOpen(rows, s) ==
    {k \in s : /\ rows[k].kind = "stalled"
               /\ \A m \in s : m > k => ~ Settles(rows[m], rows[k].incident)}

Receipted(rows, s) == {j \in s : rows[j].message_id # NoReceipt}

Gathered(rows, s, ok) ==
    [ok |-> ok,
     seen |-> {rows[j] : j \in s},
     recovered |-> {rows[j].incident : j \in {k \in s : rows[k].kind = "recovery"}},
     unfinished |-> \E j \in s : rows[j].status # "confirmed",
     open_stalled |-> {rows[k].incident : k \in LeftOpen(rows, s)},
     size |-> RowBytes * Cardinality(s) + ReceiptBytes * Cardinality(Receipted(rows, s))]

Before(s, i) == {j \in s : j < i}
AllAccepted(rows, s) ==
    \A i \in s : Accepts(Gathered(rows, Before(s, i), TRUE), rows[i])
Outcome(rows, s) == Gathered(rows, s, AllAccepted(rows, s))

\* A row at a later position than all of t is visited after them.
LEMMA VisitGathers ==
    ASSUME NEW rows \in Journal, NEW t \in SUBSET DOMAIN rows, NEW m \in DOMAIN rows,
           \A j \in t : m > j, NEW ok, NEW ok2,
           ok2 = (ok /\ Accepts(Gathered(rows, t, ok), rows[m]))
    PROVE  Gathered(rows, t \cup {m}, ok2) = Visit(Gathered(rows, t, ok), rows[m])
<1> DEFINE s == t \cup {m}
           a == Gathered(rows, t, ok)
           row == rows[m]
<1>1. /\ Len(rows) \in Nat /\ DOMAIN rows = 1..Len(rows)
      /\ \A j \in DOMAIN rows : rows[j] \in Row /\ j \in Nat
  BY DEF Journal
<1>2. IsFiniteSet(DOMAIN rows)
  BY <1>1, FS_Interval
<1>3. m \notin t /\ \A j \in t : ~ (j > m) /\ m > j
  <2>1. m \in Nat /\ \A j \in t : j \in Nat
    BY <1>1
  <2>2. QED
    BY <2>1
<1>4. {rows[j] : j \in s} = a.seen \cup {row}
  BY DEF Gathered
<1>5. {rows[j].incident : j \in {k \in s : rows[k].kind = "recovery"}}
        = a.recovered \cup IF row.kind = "recovery" THEN {row.incident} ELSE {}
  BY DEF Gathered
<1>6. (\E j \in s : rows[j].status # "confirmed") <=> (a.unfinished \/ row.status # "confirmed")
  BY DEF Gathered
<1>7. {rows[k].incident : k \in LeftOpen(rows, s)} =
        CASE row.kind = "stalled" -> a.open_stalled \cup {row.incident}
          [] row.kind = "recovery" /\ row.status = "confirmed" ->
                a.open_stalled \ {row.incident}
          [] OTHER -> a.open_stalled
  <2>1. a.open_stalled = {rows[k].incident : k \in LeftOpen(rows, t)}
    BY DEF Gathered
  <2>2. CASE row.kind = "stalled"
    <3>1. LeftOpen(rows, s) = LeftOpen(rows, t) \cup {m}
      BY <1>3, <2>2 DEF LeftOpen, Settles
    <3>2. QED
      BY <2>1, <2>2, <3>1
  <2>3. CASE row.kind = "recovery" /\ row.status = "confirmed"
    <3>1. LeftOpen(rows, s) = {k \in LeftOpen(rows, t) : rows[k].incident # row.incident}
      BY <1>3, <2>3 DEF LeftOpen, Settles
    <3>2. QED
      BY <2>1, <2>3, <3>1
  <2>4. CASE row.kind # "stalled" /\ ~ (row.kind = "recovery" /\ row.status = "confirmed")
    <3>1. LeftOpen(rows, s) = LeftOpen(rows, t)
      BY <1>3, <2>4 DEF LeftOpen, Settles
    <3>2. QED
      BY <2>1, <2>4, <3>1
  <2>5. QED
    BY <2>2, <2>3, <2>4
<1>8. RowBytes * Cardinality(s) + ReceiptBytes * Cardinality(Receipted(rows, s))
        = a.size + RowSize(row)
  <2>1. IsFiniteSet(t) /\ IsFiniteSet(Receipted(rows, t))
    BY <1>2, FS_Subset DEF Receipted
  <2>2. Cardinality(t) \in Nat /\ Cardinality(s) = Cardinality(t) + 1
    BY <1>3, <2>1, FS_AddElement, FS_CardinalityType
  <2>3. Cardinality(Receipted(rows, t)) \in Nat
    BY <2>1, FS_CardinalityType
  <2>4. CASE row.message_id = NoReceipt
    <3>1. Receipted(rows, s) = Receipted(rows, t)
      BY <2>4 DEF Receipted
    <3>2. QED
      BY <2>2, <2>3, <2>4, <3>1, JournalAssumption DEF RowSize, Gathered
  <2>5. CASE row.message_id # NoReceipt
    <3>1. Receipted(rows, s) = Receipted(rows, t) \cup {m} /\ m \notin Receipted(rows, t)
      BY <1>3, <2>5 DEF Receipted
    <3>2. Cardinality(Receipted(rows, s)) = Cardinality(Receipted(rows, t)) + 1
      BY <2>1, <3>1, FS_AddElement
    <3>3. QED
      BY <2>2, <2>3, <2>5, <3>2, JournalAssumption DEF RowSize, Gathered
  <2>6. QED
    BY <2>4, <2>5
<1>9. a.ok = ok
  BY DEF Gathered
<1>10. QED
  BY <1>4, <1>5, <1>6, <1>7, <1>8, <1>9 DEF Gathered, Visit

\* Whether a row is accepted does not depend on the verdict so far.
LEMMA AcceptsIgnoresVerdict ==
    ASSUME NEW rows, NEW s, NEW ok, NEW row
    PROVE  Accepts(Gathered(rows, s, ok), row) <=> Accepts(Gathered(rows, s, TRUE), row)
  BY DEF Accepts, Gathered, SeenIncident

\* The closed form is such a function, hence the one that FoldLeft chooses.
LEMMA OutcomeFolds ==
    ASSUME NEW rows \in Journal
    PROVE  PassFolds([s \in SUBSET DOMAIN rows |-> Outcome(rows, s)], rows)
<1> DEFINE g == [s \in SUBSET DOMAIN rows |-> Outcome(rows, s)]
<1>0. /\ Len(rows) \in Nat /\ DOMAIN rows = 1..Len(rows)
  BY DEF Journal
<1>1. Outcome(rows, {}) = Start
  <2>1. RowBytes * 0 + ReceiptBytes * 0 = 0
    BY JournalAssumption
  <2>2. Receipted(rows, {}) = {} /\ LeftOpen(rows, {}) = {}
    BY DEF Receipted, LeftOpen
  <2>3. QED
    BY <2>1, <2>2, FS_EmptySet DEF Outcome, Gathered, Start, AllAccepted
<1>2. ASSUME NEW s \in SUBSET DOMAIN rows, s # {}
      PROVE  Outcome(rows, s) =
                Visit(Outcome(rows, s \ {Greatest(s)}), rows[Greatest(s)])
  <2> DEFINE m == Greatest(s)
             t == s \ {m}
  <2>1. m \in s /\ \A j \in s : m >= j
    BY <1>0, <1>2, LastPosition
  <2>2. \A j \in s : j \in Nat
    BY <1>0
  <2> HIDE DEF m
  <2>3. s = t \cup {m} /\ t \in SUBSET DOMAIN rows /\ m \in DOMAIN rows
    BY <2>1
  <2>4. \A j \in t : m > j
    BY <2>1, <2>2
  <2>5. Before(s, m) = t /\ \A i \in t : Before(s, i) = Before(t, i)
    <3>1. ~ (m < m) /\ \A i \in t : ~ (m < i)
      BY <2>1, <2>2
    <3>2. QED
      BY <2>4, <3>1 DEF Before
  <2>6. AllAccepted(rows, s) =
           (AllAccepted(rows, t) /\ Accepts(Gathered(rows, t, AllAccepted(rows, t)), rows[m]))
    <3>1. AllAccepted(rows, s) <=>
             AllAccepted(rows, t) /\ Accepts(Gathered(rows, t, TRUE), rows[m])
      BY <2>3, <2>5 DEF AllAccepted
    <3>2. AllAccepted(rows, s) \in BOOLEAN
      BY DEF AllAccepted
    <3>3. QED
      BY <3>1, <3>2, AcceptsIgnoresVerdict
  <2>7. Gathered(rows, t \cup {m}, AllAccepted(rows, s)) =
           Visit(Gathered(rows, t, AllAccepted(rows, t)), rows[m])
    <3> HIDE DEF t
    <3> DEFINE ok == AllAccepted(rows, t)
               ok2 == AllAccepted(rows, s)
    <3>1. ok2 = (ok /\ Accepts(Gathered(rows, t, ok), rows[m]))
      BY <2>6
    <3> HIDE DEF g, ok, ok2
    <3>2. t \in SUBSET DOMAIN rows /\ m \in DOMAIN rows
      BY <2>3
    <3>3. Gathered(rows, t \cup {m}, ok2) = Visit(Gathered(rows, t, ok), rows[m])
      BY <2>4, <3>1, <3>2, VisitGathers
    <3>4. QED
      BY <3>3 DEF ok, ok2
  <2>8. Gathered(rows, s, AllAccepted(rows, s)) =
           Visit(Gathered(rows, t, AllAccepted(rows, t)), rows[m])
    BY <2>3, <2>7
  <2>9. QED
    BY <2>8 DEF Outcome, m
<1>3. ASSUME NEW s \in SUBSET DOMAIN rows, s # {}
      PROVE  g[s] = Visit(g[s \ {Greatest(s)}], rows[Greatest(s)])
  BY <1>2, <1>3
<1>4. g[{}] = Start
  BY <1>1
<1>5. QED
  BY <1>3, <1>4 DEF PassFolds

\* The pass in closed form.
LEMMA PassIsOutcome ==
    ASSUME NEW rows \in Journal
    PROVE  Pass(rows) = Outcome(rows, DOMAIN rows)
<1> DEFINE w == [s \in SUBSET DOMAIN rows |-> Outcome(rows, s)]
           g == CHOOSE h : PassFolds(h, rows)
<1>1. PassFolds(w, rows)
  BY OutcomeFolds
<1>2. PassFolds(g, rows)
  BY <1>1
<1>3. g = w
  <2> HIDE DEF g, w
  <2> QED
    BY <1>1, <1>2, PassIsUnique
<1>4. w[DOMAIN rows] = Outcome(rows, DOMAIN rows)
  OBVIOUS
<1>5. QED
  BY <1>3, <1>4, PassIsChosen

-----------------------------------------------------------------------------
(* The pass and the declarative definition. *)

\* The conditions on a row that both state in the same words.
RowIsFit(rows, i) ==
    /\ Finished(rows[i]) <=> rows[i].message_id # NoReceipt
    /\ \A j \in 1..(i - 1) : Finished(rows[j])
    /\ IncidentIsOwnKey(rows[i])
    /\ \A j \in 1..(i - 1) : Key(rows[j]) # Key(rows[i])
    /\ rows[i].kind = "recovery" => RecoveryJustified(rows, i)

\* Among fit rows a confirmed recovery comes after its stall, so the set the
\* loop maintains holds the stalls that nothing closed.
LEMMA OpenIsNotClosed ==
    ASSUME NEW rows \in Journal, NEW n \in 1..(Len(rows) + 1),
           \A i \in 1..(n - 1) : RowIsFit(rows, i)
    PROVE  LeftOpen(rows, 1..(n - 1)) =
              {k \in 1..(n - 1) : /\ rows[k].kind = "stalled"
                                  /\ ~ Closed(rows, n, rows[k].incident)}
<1>1. n \in Nat /\ Len(rows) \in Nat
  BY DEF Journal
<1>2. ASSUME NEW k \in 1..(n - 1), rows[k].kind = "stalled",
             NEW m \in 1..(n - 1), Settles(rows[m], rows[k].incident)
      PROVE  m > k
  <2>1. PICK j \in 1..(m - 1) : /\ rows[j].kind # "recovery"
                                /\ rows[j].incident = rows[m].incident
    BY <1>2 DEF RowIsFit, RecoveryJustified, Settles
  <2>2. j \in 1..(n - 1) /\ j < m
    BY <1>1
  <2>3. rows[j].incident = rows[k].incident
    BY <1>2, <2>1 DEF Settles
  <2>4. rows[j].kind = rows[k].kind
    BY <1>2, <2>1, <2>2, <2>3 DEF RowIsFit, IncidentIsOwnKey
  <2>5. Key(rows[j]) = Key(rows[k])
    BY <2>3, <2>4 DEF Key
  <2>6. ~ (j < k)
    <3> SUFFICES ASSUME j < k
                 PROVE  FALSE
      OBVIOUS
    <3>1. j \in 1..(k - 1)
      BY <1>1, <2>2
    <3>2. QED
      BY <2>5, <3>1 DEF RowIsFit
  <2>7. QED
    BY <1>1, <2>2, <2>6
<1>3. ASSUME NEW k \in 1..(n - 1), rows[k].kind = "stalled"
      PROVE  (\A m \in 1..(n - 1) : m > k => ~ Settles(rows[m], rows[k].incident))
                <=> ~ Closed(rows, n, rows[k].incident)
  BY <1>2, <1>3 DEF Closed, Settles, Finished
<1>4. QED
  BY <1>3 DEF LeftOpen

SizeUpTo(rows, i) ==
    RowBytes * Cardinality(1..i) + ReceiptBytes * Cardinality(Receipted(rows, 1..i))

\* What the pass requires of a row, in the words of the declarative definition.
LEMMA AcceptsMeans ==
    ASSUME NEW rows \in Journal, NEW i \in 1..Len(rows)
    PROVE  Accepts(Gathered(rows, 1..(i - 1), TRUE), rows[i])
             <=> /\ RowIsFit(rows, i)
                 /\ rows[i].kind = "stalled" => LeftOpen(rows, 1..(i - 1)) = {}
                 /\ SizeUpTo(rows, i) <= MaxBytes
<1> DEFINE acc == Gathered(rows, 1..(i - 1), TRUE)
           row == rows[i]
<1>0. /\ Len(rows) \in Nat /\ DOMAIN rows = 1..Len(rows) /\ i \in Nat
      /\ \A j \in 1..Len(rows) : rows[j] \in Row
      /\ 1..(i - 1) \subseteq 1..Len(rows)
  BY DEF Journal
<1>1. ~ acc.unfinished <=> \A j \in 1..(i - 1) : Finished(rows[j])
  BY DEF Gathered, Finished
<1>2. Key(row) \notin {Key(r) : r \in acc.seen} <=> \A j \in 1..(i - 1) : Key(rows[j]) # Key(row)
  BY DEF Gathered
<1>3. (\E r \in SeenIncident(acc, row) : r.status = "confirmed" /\ row.cutoff >= r.cutoff)
        <=> RecoveryJustified(rows, i)
  BY DEF Gathered, SeenIncident, RecoveryJustified, Finished
<1>4. ASSUME row.kind = "recovery", \A j \in 1..(i - 1) : Key(rows[j]) # Key(row)
      PROVE  row.incident \notin acc.recovered
  BY <1>4 DEF Gathered, Key
<1>5. acc.open_stalled = {} <=> LeftOpen(rows, 1..(i - 1)) = {}
  BY DEF Gathered
<1>6. acc.size + RowSize(row) = SizeUpTo(rows, i)
  <2>1. 1..i = (1..(i - 1)) \cup {i}
    BY <1>0
  <2>2. 1..(i - 1) \in SUBSET DOMAIN rows /\ i \in DOMAIN rows /\ \A j \in 1..(i - 1) : i > j
    BY <1>0
  <2> DEFINE t == 1..(i - 1)
             yes == TRUE
             ok == yes /\ Accepts(Gathered(rows, t, yes), rows[i])
  <2>3. Gathered(rows, t \cup {i}, ok) = Visit(Gathered(rows, t, yes), rows[i])
    <3> HIDE DEF t, yes
    <3> QED
      BY <2>2, VisitGathers DEF t
  <2>4. Gathered(rows, 1..i, ok) = Visit(acc, row)
    BY <2>1, <2>3
  <2>5. Gathered(rows, 1..i, ok).size = SizeUpTo(rows, i)
    BY DEF Gathered, SizeUpTo
  <2>6. Visit(acc, row).size = acc.size + RowSize(row)
    BY DEF Visit
  <2>7. QED
    BY <2>4, <2>5, <2>6
<1>7. QED
  BY <1>1, <1>2, <1>3, <1>4, <1>5, <1>6
  DEF Accepts, RowIsFit, IncidentIsOwnKey, Finished

\* The journal of a prefix is no larger than the journal.
LEMMA PrefixFits ==
    ASSUME NEW rows \in Journal, NEW i \in 1..Len(rows)
    PROVE  /\ SizeUpTo(rows, i) \in Nat /\ Bytes(rows) \in Nat
           /\ SizeUpTo(rows, i) <= Bytes(rows)
<1> DEFINE s == 1..i
           D == 1..Len(rows)
           a == Cardinality(s)
           b == Cardinality(D)
           p == Cardinality(Receipted(rows, s))
           q == Cardinality(Receipted(rows, D))
<1>1. Len(rows) \in Nat /\ DOMAIN rows = D
  BY DEF Journal
<1>2. IsFiniteSet(D) /\ b = Len(rows)
  BY <1>1, FS_Interval
<1>3. s \subseteq D /\ Receipted(rows, s) \subseteq Receipted(rows, D)
  BY <1>1 DEF Receipted
<1>4. IsFiniteSet(Receipted(rows, D)) /\ IsFiniteSet(s) /\ IsFiniteSet(Receipted(rows, s))
  BY <1>2, <1>3, FS_Subset DEF Receipted
<1>5. a \in Nat /\ b \in Nat /\ p \in Nat /\ q \in Nat /\ a <= b /\ p <= q
  BY <1>2, <1>3, <1>4, FS_Subset, FS_CardinalityType
<1>6. Bytes(rows) = RowBytes * b + ReceiptBytes * q
  BY <1>1, <1>2 DEF Bytes, Receipted
<1>7. SizeUpTo(rows, i) = RowBytes * a + ReceiptBytes * p
  BY DEF SizeUpTo
<1>8. \A x, y, z \in Nat : y <= z => x * y <= x * z
  OBVIOUS
<1>9. RowBytes * a <= RowBytes * b /\ ReceiptBytes * p <= ReceiptBytes * q
  <2> HIDE DEF a, b, p, q
  <2> QED
    BY <1>5, <1>8, JournalAssumption
<1>10. QED
  <2> HIDE DEF a, b, p, q
  <2>1. \A x, y \in Nat : x * y \in Nat
    OBVIOUS
  <2>2. /\ RowBytes * a \in Nat /\ RowBytes * b \in Nat
        /\ ReceiptBytes * p \in Nat /\ ReceiptBytes * q \in Nat
    BY <1>5, <2>1, JournalAssumption
  <2>3. QED
    BY <1>6, <1>7, <1>9, <2>2

\* The whole journal is the prefix up to its last row.
LEMMA LastPrefixIsWhole ==
    ASSUME NEW rows \in Journal
    PROVE  /\ SizeUpTo(rows, Len(rows)) = Bytes(rows)
           /\ Len(rows) = 0 => Bytes(rows) = 0
<1>1. Len(rows) \in Nat /\ DOMAIN rows = 1..Len(rows)
  BY DEF Journal
<1>2. Cardinality(1..Len(rows)) = Len(rows)
  <2>1. \A n \in Nat : Cardinality(1..n) = n
    BY FS_Interval
  <2>2. QED
    BY <1>1, <2>1
<1>3. SizeUpTo(rows, Len(rows)) = Bytes(rows)
  BY <1>1, <1>2 DEF SizeUpTo, Bytes, Receipted
<1>4. ASSUME Len(rows) = 0
      PROVE  Bytes(rows) = 0
  <2>1. {i \in DOMAIN rows : rows[i].message_id # NoReceipt} = {}
    BY <1>1, <1>4
  <2>2. RowBytes * 0 + ReceiptBytes * 0 = 0
    BY JournalAssumption
  <2>3. QED
    BY <1>4, <2>1, <2>2, FS_EmptySet DEF Bytes
<1>5. QED
  BY <1>3, <1>4

\* The single pass accepts a journal exactly when it is valid.
THEOREM PassDecidesValidity ==
    ASSUME NEW rows \in Journal
    PROVE  ValidateJournal(rows) <=> PassAccepts(rows)
<1> DEFINE n == Len(rows)
<1>1. n \in Nat /\ DOMAIN rows = 1..n
  BY DEF Journal
<1>2. \A i \in 1..n : Before(1..n, i) = 1..(i - 1)
  BY <1>1 DEF Before
<1>3. Pass(rows).ok <=>
         \A i \in 1..n : /\ RowIsFit(rows, i)
                         /\ rows[i].kind = "stalled" => LeftOpen(rows, 1..(i - 1)) = {}
                         /\ SizeUpTo(rows, i) <= MaxBytes
  <2>1. Pass(rows).ok <=> AllAccepted(rows, 1..n)
    BY <1>1, PassIsOutcome DEF Outcome, Gathered
  <2>2. AllAccepted(rows, 1..n) <=>
           \A i \in 1..n : Accepts(Gathered(rows, 1..(i - 1), TRUE), rows[i])
    BY <1>2 DEF AllAccepted
  <2>3. QED
    BY <2>1, <2>2, AcceptsMeans
<1>4. Bytes(rows) <= MaxBytes <=> \A i \in 1..n : SizeUpTo(rows, i) <= MaxBytes
  <2>1. ASSUME Bytes(rows) <= MaxBytes, NEW i \in 1..n
        PROVE  SizeUpTo(rows, i) <= MaxBytes
    <3>1. /\ SizeUpTo(rows, i) \in Nat /\ Bytes(rows) \in Nat
          /\ SizeUpTo(rows, i) <= Bytes(rows)
      BY PrefixFits
    <3>2. QED
      BY <2>1, <3>1, JournalAssumption
  <2>2. ASSUME \A i \in 1..n : SizeUpTo(rows, i) <= MaxBytes
        PROVE  Bytes(rows) <= MaxBytes
    BY <1>1, <2>2, LastPrefixIsWhole, JournalAssumption
  <2>3. QED
    BY <2>1, <2>2
<1>5. ASSUME \A i \in 1..n : RowIsFit(rows, i), NEW i \in 1..n
      PROVE  LeftOpen(rows, 1..(i - 1)) = {} <=> ~ OpenStalledBefore(rows, i)
  <2>1. LeftOpen(rows, 1..(i - 1)) =
           {k \in 1..(i - 1) : /\ rows[k].kind = "stalled"
                               /\ ~ Closed(rows, i, rows[k].incident)}
    BY <1>1, <1>5, OpenIsNotClosed
  <2>2. QED
    BY <2>1 DEF OpenStalledBefore
<1>6. (\A i \in 1..n : RowIsFit(rows, i)) <=>
         \A i \in 1..n : /\ Finished(rows[i]) <=> rows[i].message_id # NoReceipt
                         /\ i < n => Finished(rows[i])
                         /\ IncidentIsOwnKey(rows[i])
                         /\ \A j \in 1..(i - 1) : Key(rows[j]) # Key(rows[i])
                         /\ rows[i].kind = "recovery" => RecoveryJustified(rows, i)
  BY <1>1 DEF RowIsFit
<1>7. QED
  BY <1>3, <1>4, <1>5, <1>6 DEF ValidateJournal, PassAccepts

\* The stored journal, the empty one of a missing file included, is valid.
LEMMA StoredRowsAreValid ==
    ASSUME StoreInvariant
    PROVE  Rows(journal) \in Journal /\ ValidateJournal(Rows(journal))
<1>1. CASE journal # Missing
  BY <1>1 DEF StoreInvariant, StoredValid, Rows, ValidateJournal
<1>2. CASE journal = Missing
  <2>1. Rows(journal) = <<>> /\ <<>> \in Journal /\ Len(<<>>) = 0
    BY <1>2 DEF Rows, Journal
  <2>2. Bytes(<<>>) = 0
    BY <2>1, LastPrefixIsWhole
  <2>3. QED
    BY <2>1, <2>2, JournalAssumption DEF ValidateJournal
<1>3. QED
  BY <1>1, <1>2

\* Whatever a caller may submit after a read, both definitions judge it alike:
\* see DefinitionsAgree.
THEOREM DefinitionsAgreeHolds == Spec => []DefinitionsAgree
<1>1. StoreInvariant => DefinitionsAgree
  <2> SUFFICES ASSUME StoreInvariant, NEW rows \in Submissions
               PROVE  ValidateJournal(rows) <=> PassAccepts(rows)
    BY DEF DefinitionsAgree
  <2>1. Rows(journal) \in Seq(Row)
    BY StoredRowsAreValid DEF Journal
  <2>2. ASSUME NEW row \in Row
        PROVE  Append(Rows(journal), row) \in Journal
    BY <2>1 DEF Journal
  <2>3. ASSUME NEW row \in Row, Rows(journal) # <<>>
        PROVE  [Rows(journal) EXCEPT ![Len(Rows(journal))] = row] \in Journal
    BY <2>1, <2>3 DEF Journal
  <2>4. rows \in Journal
    BY <2>2, <2>3 DEF Submissions
  <2>5. QED
    BY <2>4, PassDecidesValidity
<1>2. QED
  BY <1>1, InvariantHolds, PTL

\* The accumulator of the pass over the stored journal is the open stall, and
\* there is one at most: see OneStallOpen.
THEOREM OneStallOpenHolds == Spec => []OneStallOpen
<1>1. StoreInvariant => OneStallOpen
  <2> SUFFICES ASSUME StoreInvariant
               PROVE  OneStallOpen
    OBVIOUS
  <2> DEFINE rows == Rows(journal)
             n == Len(rows)
             Open == {k \in 1..n : /\ rows[k].kind = "stalled"
                                   /\ ~ Closed(rows, n + 1, rows[k].incident)}
             open == {rows[k].incident : k \in Open}
  <2>1. rows \in Journal /\ ValidateJournal(rows)
    BY StoredRowsAreValid
  <2>2. n \in Nat /\ DOMAIN rows = 1..n /\ (n + 1) - 1 = n
    BY <2>1 DEF Journal
  <2>3. \A i \in 1..n : RowIsFit(rows, i)
    BY <2>1, <2>2 DEF ValidateJournal, RowIsFit
  <2>4. LeftOpen(rows, 1..n) = Open
    <3>1. LeftOpen(rows, 1..((n + 1) - 1)) =
             {k \in 1..((n + 1) - 1) : /\ rows[k].kind = "stalled"
                                       /\ ~ Closed(rows, n + 1, rows[k].incident)}
      BY <2>1, <2>2, <2>3, OpenIsNotClosed
    <3>2. QED
      BY <2>2, <3>1
  <2>5. Pass(rows).open_stalled = open
    BY <2>1, <2>2, <2>4, PassIsOutcome DEF Outcome, Gathered
  <2>6. ASSUME NEW j \in Open, NEW k \in Open, j < k
        PROVE  FALSE
    <3>1. j \in 1..(k - 1) /\ ~ Closed(rows, k, rows[j].incident)
      BY <2>2, <2>6 DEF Closed
    <3>2. OpenStalledBefore(rows, k)
      BY <2>6, <3>1 DEF OpenStalledBefore
    <3>3. QED
      BY <2>1, <3>2 DEF ValidateJournal
  <2>7. \A j, k \in Open : j = k
    BY <2>2, <2>6
  <2>8. Cardinality(open) <= 1
    <3>1. CASE Open = {}
      BY <3>1, FS_EmptySet
    <3>2. CASE Open # {}
      <4>1. PICK k : Open = {k}
        BY <2>7, <3>2
      <4>2. open = {rows[k].incident}
        BY <4>1
      <4>3. Cardinality({rows[k].incident}) = 1
        BY FS_Singleton
      <4>4. Cardinality(open) = 1
        <5> HIDE DEF open, rows
        <5> QED
          BY <4>2, <4>3
      <4>5. QED
        BY <4>4
    <3>3. QED
      BY <3>1, <3>2
  <2>9. QED
    BY <2>5, <2>8 DEF OneStallOpen
<1>2. QED
  BY <1>1, InvariantHolds, PTL
=============================================================================
